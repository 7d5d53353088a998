--------------------------- MODULE HandDetection ---------------------------
(***************************************************************************)
(* Hands found in camera frames (drivers/hand_pose.py): detection on the   *)
(* frame worker, actions and the cleanup on other threads.                 *)
(***************************************************************************)
EXTENDS Integers, Sequences, FiniteSets, SequencesExt

CONSTANTS Hands,        \* hands a frame can show
          Homographies, \* camera-to-surface homographies
          Lost,         \* <<homography, hand>>: the hand is sent to infinity
          MaxFailures,  \* bound on failed detections
          MaxHandFrames,\* bound on frames
          MaxChanges    \* bound on changes of the homography

VARIABLES hp,       \* detector, homography and step of hand_pose
          hand,     \* the hands of the frame in on_data
          hlock,    \* who holds the detector's lock
          cleaned,  \* where the cleanup is
          sent,     \* landmarks and handedness of the last payload
          failed,   \* failures, those not warned of yet, those warned of, warned lately
          hframes, changes

hVars == <<hp, hand, hlock, cleaned, sent, failed, hframes, changes>>

Nobody == "nobody"
Unset == "unset"

HandTypeOK ==
  /\ hp \in [detector : BOOLEAN, homography : Homographies \cup {Unset},
             step : {"idle", "wait", "detect", "warp"}]
  /\ Range(hand) \subseteq Hands /\ hlock \in {Nobody, "data", "cleanup"}
  /\ cleaned \in {"no", "stopping", "done"}
  /\ Range(sent.landmarks) \subseteq Hands
  /\ failed \in [all : 0..MaxFailures, waiting : 0..MaxFailures, told : 0..MaxFailures, recent : BOOLEAN]
  /\ hframes \in 0..MaxHandFrames /\ changes \in 0..MaxChanges

HandInit ==
  /\ hp = [detector |-> TRUE, homography |-> Unset, step |-> "idle"]
  /\ hand = <<>> /\ hlock = Nobody /\ cleaned = "no"
  /\ sent = [landmarks |-> <<>>, handedness |-> <<>>]
  /\ failed = [all |-> 0, waiting |-> 0, told |-> 0, recent |-> FALSE]
  /\ hframes = 0 /\ changes = 0

-----------------------------------------------------------------------------
(* hand_pose                                                                *)

SetHomography ==
  /\ changes < MaxChanges /\ changes' = changes + 1
  /\ \E h \in Homographies \cup {Unset} : hp' = [hp EXCEPT !.homography = h]
  /\ UNCHANGED <<hand, hlock, cleaned, sent, failed, hframes>>

\* on_data, unless the driver stops or has no detector any more.
HandFrame ==
  /\ hp.step = "idle" /\ hlock = Nobody /\ hframes < MaxHandFrames /\ hframes' = hframes + 1
  /\ hp' = [hp EXCEPT !.step = IF cleaned # "no" \/ ~hp.detector THEN "idle" ELSE "wait"]
  /\ UNCHANGED <<hand, hlock, cleaned, sent, failed, changes>>

\* Defect: the detector read before is used without another look.
LockDetector_Unchecked ==
  /\ hp.step = "wait" /\ hlock = Nobody
  /\ hlock' = "data" /\ hp' = [hp EXCEPT !.step = "detect"]
  /\ UNCHANGED <<hand, cleaned, sent, failed, hframes, changes>>

\* Under the lock: is it still there?
LockDetector ==
  /\ hp.step = "wait" /\ hlock = Nobody
  /\ IF ~hp.detector \/ cleaned # "no"
     THEN hp' = [hp EXCEPT !.step = "idle"] /\ UNCHANGED hlock
     ELSE hp' = [hp EXCEPT !.step = "detect"] /\ hlock' = "data"
  /\ UNCHANGED <<hand, cleaned, sent, failed, hframes, changes>>

DetectHands ==
  /\ hp.step = "detect" /\ hlock' = Nobody
  /\ \E found \in SUBSET Hands : hand' \in SetToSeqs(found)
  /\ hp' = [hp EXCEPT !.step = "warp"]
  /\ UNCHANGED <<cleaned, sent, failed, hframes, changes>>

\* Defect: the count goes on after it was warned of.
DetectFails_KeepsCount ==
  /\ hp.step = "detect" /\ failed.all < MaxFailures
  /\ hlock' = Nobody /\ hp' = [hp EXCEPT !.step = "idle"]
  /\ failed' = IF failed.recent THEN [failed EXCEPT !.all = @ + 1, !.waiting = @ + 1]
               ELSE [failed EXCEPT !.all = @ + 1, !.waiting = @ + 1, !.told = @ + failed.waiting + 1, !.recent = TRUE]
  /\ UNCHANGED <<hand, cleaned, sent, hframes, changes>>

\* _report_detect_failure: at most one warning in an interval, which counts
\* every failure since the one before.
DetectFails ==
  /\ hp.step = "detect" /\ failed.all < MaxFailures
  /\ hlock' = Nobody /\ hp' = [hp EXCEPT !.step = "idle"]
  /\ failed' = IF failed.recent THEN [failed EXCEPT !.all = @ + 1, !.waiting = @ + 1]
               ELSE [failed EXCEPT !.all = @ + 1, !.waiting = 0, !.told = @ + failed.waiting + 1, !.recent = TRUE]
  /\ UNCHANGED <<hand, cleaned, sent, hframes, changes>>

IntervalPasses ==
  /\ failed.recent /\ failed' = [failed EXCEPT !.recent = FALSE]
  /\ UNCHANGED <<hp, hand, hlock, cleaned, sent, hframes, changes>>

\* The hands of the frame that stay, in their order.
Kept ==
  LET kept[i \in 0..Len(hand)] ==
        IF i = 0 THEN <<>>
        ELSE IF <<hp.homography, hand[i]>> \in Lost THEN kept[i - 1] ELSE Append(kept[i - 1], hand[i])
  IN kept[Len(hand)]

\* Defect: the handedness of a dropped hand is kept.
Warp_KeepsHandedness ==
  /\ hp.step = "warp"
  /\ sent' = [landmarks |-> Kept, handedness |-> hand]
  /\ hp' = [hp EXCEPT !.step = "idle"] /\ hand' = <<>>
  /\ UNCHANGED <<hlock, cleaned, failed, hframes, changes>>

\* A hand the homography sends to infinity is dropped, with its handedness.
Warp ==
  /\ hp.step = "warp"
  /\ sent' = [landmarks |-> Kept, handedness |-> Kept]
  /\ hp' = [hp EXCEPT !.step = "idle"] /\ hand' = <<>>
  /\ UNCHANGED <<hlock, cleaned, failed, hframes, changes>>

\* The driver is told to stop ...
StopHands ==
  /\ cleaned = "no" /\ cleaned' = "stopping"
  /\ UNCHANGED <<hp, hand, hlock, sent, failed, hframes, changes>>

\* ... and its cleanup drops the detector, which a detection may hold.
CleanupHands ==
  /\ cleaned = "stopping" /\ hlock = Nobody
  /\ cleaned' = "done" /\ hp' = [hp EXCEPT !.detector = FALSE]
  /\ UNCHANGED <<hand, hlock, sent, failed, hframes, changes>>

HandNext ==
  \/ SetHomography \/ HandFrame \/ LockDetector \/ DetectHands \/ DetectFails \/ IntervalPasses
  \/ Warp \/ StopHands \/ CleanupHands

HandSpec == HandInit /\ [][HandNext]_hVars

-----------------------------------------------------------------------------
\* A detection never runs once the detector was dropped; every failure is in
\* one warning or waits for the next; each hand has its own handedness.
HandsAreSound ==
  /\ hp.step = "detect" => hp.detector
  /\ failed.all = failed.told + failed.waiting
  /\ sent.landmarks = sent.handedness
=============================================================================
