-------------------------- MODULE BridgeLifecycle ---------------------------
(***************************************************************************)
(* What the driver manager may rely on of its supervised bridge process:   *)
(* the abstract specification that BridgeSupervisor implements and that    *)
(* DriverSystem is built on.                                               *)
(*                                                                         *)
(*   down          no process, and a restart is due                        *)
(*   starting      a process runs that the manager has not yet accepted    *)
(*   up            the manager uses the process                            *)
(*   unresponsive  the manager gave the process up, and it is being stopped *)
(*   interrupted   `stop` came while the manager was asking for the        *)
(*                 instances, so an answer may still arrive                *)
(*   stopping      `stop` waits for the process to go                      *)
(*   stopped       it went, and `stop` has not resumed yet                 *)
(*   closed        `stop` returned                                         *)
(***************************************************************************)
VARIABLES
  bridge,  \* one of the above
  alive,   \* whether the process exists
  ready    \* whether the manager takes the bridge for usable

LifecycleInit == bridge = "down" /\ alive = FALSE /\ ready = FALSE

Start ==
  /\ bridge = "down" /\ ~alive
  /\ bridge' = "starting" /\ alive' = TRUE
  /\ UNCHANGED ready

\* The answer of a process that is being stopped may still be accepted.
Accept ==
  /\ \/ bridge = "starting" /\ bridge' = "up" /\ ready' = TRUE
     \/ bridge = "interrupted" /\ bridge' = "stopping" /\ ready' \in BOOLEAN
  /\ UNCHANGED alive

\* The manager learns of it before the process is told to go.
GiveUp ==
  /\ bridge \in {"starting", "up"}
  /\ bridge' = "unresponsive" /\ ready' = FALSE
  /\ UNCHANGED alive

Die ==
  /\ alive
  /\ alive' = FALSE
  /\ UNCHANGED <<bridge, ready>>

\* Node learns of a death only after it.
Bury ==
  /\ ~alive
  /\ \/ /\ bridge \in {"starting", "up", "unresponsive"}
        /\ bridge' = "down" /\ ready' = FALSE
     \/ /\ bridge \in {"interrupted", "stopping"}
        /\ bridge' = "stopped" /\ UNCHANGED ready
  /\ UNCHANGED alive

Stop ==
  /\ \/ bridge = "down" /\ bridge' = "stopped"
     \/ bridge = "starting" /\ bridge' \in {"interrupted", "stopping"}
     \/ bridge \in {"up", "unresponsive"} /\ bridge' = "stopping"
  /\ UNCHANGED <<alive, ready>>

Close ==
  /\ bridge = "stopped"
  /\ bridge' = "closed" /\ ready' = FALSE
  /\ UNCHANGED alive

LifecycleNext == Start \/ Accept \/ GiveUp \/ Die \/ Bury \/ Stop \/ Close

LifecycleSpec == LifecycleInit /\ [][LifecycleNext]_<<bridge, alive, ready>>
=============================================================================
