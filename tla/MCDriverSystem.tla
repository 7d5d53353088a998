--------------------------- MODULE MCDriverSystem ---------------------------
(***************************************************************************)
(* Two instances of the driver system, with one event per driver.          *)
(*                                                                         *)
(* A camera and a driver that depends on it (as pose does on the camera):  *)
(* client a subscribes to both drivers, to the dependent one twice; client *)
(* b subscribes to the dependent driver.                                   *)
(*                                                                         *)
(* Dependencies two deep and a shared one (Graph...): slr needs pose, and  *)
(* both pose and hand_pose need the camera; client a subscribes to slr,    *)
(* client b to hand_pose.                                                  *)
(***************************************************************************)
EXTENDS DriverSystem

CONSTANTS camera, pose, hand_pose, slr, c1, c2, c3, c4, a, b, frame

MCCallClient == [c \in Calls |-> IF c = c2 THEN b ELSE a]
MCCallEvent == [c \in Calls |-> frame]

MCKeys == {camera, pose}
MCDeps == [k \in MCKeys |-> IF k = pose THEN {camera} ELSE {}]
MCCallKey == [c \in Calls |-> IF c = c3 THEN camera ELSE pose]

GraphKeys == {camera, pose, hand_pose, slr}
GraphDeps == [k \in GraphKeys |-> CASE k = slr -> {pose}
                                    [] k \in {pose, hand_pose} -> {camera}
                                    [] OTHER -> {}]
GraphCallKey == [c \in Calls |-> IF c = c2 THEN hand_pose ELSE slr]
=============================================================================
