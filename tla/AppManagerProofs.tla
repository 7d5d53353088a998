-------------------------- MODULE AppManagerProofs --------------------------
(***************************************************************************)
(* For every number of calls, every manifest and every interleaving of     *)
(* starts, stops and a shutdown: the state shown for an app is true, and   *)
(* nothing is left half started or half stopped.  For every manifest and   *)
(* calls that come one at a time: the leases are those of what runs.       *)
(***************************************************************************)
EXTENDS AppManager, TLAPS, SequenceTheorems, FiniteSetTheorems

CallRecord == StartCall \union StopCall \union {NoCall}

(***************************************************************************)
(* The inductive invariant: an experience that is neither running nor gone *)
(* is in the hands of a call that is not over.                             *)
(***************************************************************************)
Hands(call) ==
    IF /\ call # NoCall
       /\ call.stack # <<>>
       /\ Last(call.stack).at \in {"subscribe", "settle", "undo", "release"}
    THEN {Last(call.stack).e}
    ELSE {}

HalfDoneIsInHand ==
    \A e \in Experiences :
        running[e] # None /\ running[e].state # "running" =>
            \E c \in Callers : e \in Hands(calls[c])

\* The stops of a shutdown never become starts.
OnlyClientsStart == \A c \in Callers : calls[c] \in StartCall => c \in Calls

IInv == TypeOK /\ AppStateIsTrue /\ HalfDoneIsInHand /\ OnlyClientsStart

-----------------------------------------------------------------------------
(* Stacks of frames.                                                       *)

LEMMA Pop ==
    ASSUME NEW S, NEW s \in Seq(S), s # <<>>
    PROVE  Last(s) \in S /\ Front(s) \in Seq(S)
<1>1. Len(s) \in Nat \ {0} /\ \A i \in 1..Len(s) : s[i] \in S
  BY EmptySeq, LenProperties, ElementOfSeq
<1>2. Last(s) \in S
  BY <1>1 DEF Last
<1>3. SubSeq(s, 1, Len(s) - 1) \in Seq(S)
  BY <1>1, SubSeqProperties
<1> QED
  BY <1>2, <1>3 DEF Front

LEMMA Push ==
    ASSUME NEW S, NEW s \in Seq(S), NEW f \in S
    PROVE  /\ Append(s, f) \in Seq(S)
           /\ Append(s, f) # <<>>
           /\ Last(Append(s, f)) = f
  BY AppendProperties, LenProperties DEF Last

LEMMA Single ==
    ASSUME NEW S, NEW f \in S
    PROVE  <<f>> \in Seq(S) /\ <<f>> # <<>> /\ Last(<<f>>) = f
  BY DEF Last

LEMMA Fewer ==
    ASSUME NEW c, NEW S, NEW s \in Seq(S)
    PROVE  Dropped(c, s) \in Seq(S)
<1> DEFINE own == {i \in DOMAIN s : s[i] = c}
<1>1. CASE own = {}
  BY <1>1 DEF Dropped
<1>2. CASE own # {}
  <2> DEFINE k == CHOOSE i \in own : TRUE
  <2>1. k \in 1..Len(s) /\ Len(s) \in Nat
    BY <1>2, LenProperties
  <2>2. \A i \in 1..Len(s) : s[i] \in S
    BY ElementOfSeq
  <2> HIDE DEF k
  <2>3. SubSeq(s, 1, k - 1) \in Seq(S)
    <3>1. 1 \in Int /\ k - 1 \in Int /\ \A i \in 1..(k - 1) : s[i] \in S
      BY <2>1, <2>2
    <3> QED
      BY <3>1, SubSeqProperties
  <2>4. SubSeq(s, k + 1, Len(s)) \in Seq(S)
    <3>1. k + 1 \in Int /\ Len(s) \in Int /\ \A i \in (k + 1)..Len(s) : s[i] \in S
      BY <2>1, <2>2
    <3> QED
      BY <3>1, SubSeqProperties
  <2>5. RemoveAt(s, k) \in Seq(S)
    BY <2>3, <2>4, ConcatProperties DEF RemoveAt
  <2> QED
    BY <1>2, <2>5 DEF Dropped, k
<1> QED
  BY <1>1, <1>2

-----------------------------------------------------------------------------
(* Calls.                                                                  *)

\* A call on its way has frames, and only starts wait anywhere but at the
\* release of drivers.
LEMMA TopOf ==
    ASSUME TypeOK, NEW c \in Callers, calls[c] # NoCall
    PROVE  /\ calls[c] \in StartCall \union StopCall
           /\ calls[c].stack \in Seq(Frame)
           /\ calls[c].stack # <<>> => Top(c) \in Frame
           /\ calls[c].stack # <<>> /\ Top(c).at # "release" => calls[c] \in StartCall
<1>1. calls[c] \in StartCall \union StopCall
  BY DEF TypeOK
<1>2. CASE calls[c] \in StartCall
  <2>1. calls[c].stack \in Seq(Frame)
    BY <1>2 DEF StartCall
  <2> QED
    BY <1>1, <1>2, <2>1, Pop DEF Top
<1>3. CASE calls[c] \in StopCall
  <2>1. calls[c].stack \in Seq(Frames({"release"}))
    BY <1>3 DEF StopCall
  <2>2. Frames({"release"}) \subseteq Frame
    BY DEF Frame, Frames
  <2>3. calls[c].stack \in Seq(Frame)
    BY <2>1, <2>2, SeqMonotonic
  <2>4. calls[c].stack # <<>> => Top(c) \in Frames({"release"})
    BY <2>1, Pop DEF Top
  <2>5. calls[c].stack # <<>> => Top(c).at = "release"
    BY <2>4 DEF Frames
  <2> QED
    BY <1>1, <2>2, <2>3, <2>4, <2>5
<1> QED
  BY <1>1, <1>2, <1>3

LEMMA StartWith ==
    ASSUME NEW r \in StartCall, NEW stack \in Seq(Frame)
    PROVE  /\ [r EXCEPT !.stack = stack] \in StartCall
           /\ [r EXCEPT !.stack = stack].stack = stack
           /\ [r EXCEPT !.stack = stack] # NoCall
  BY DEF StartCall, NoCall

LEMMA StopWith ==
    ASSUME NEW r \in StopCall, NEW stack \in Seq(Frames({"release"}))
    PROVE  /\ [r EXCEPT !.stack = stack] \in StopCall
           /\ [r EXCEPT !.stack = stack].stack = stack
           /\ [r EXCEPT !.stack = stack] # NoCall
  BY DEF StopCall, NoCall

\* What a step of call c has to show for the invariant: that it keeps the type
\* of its call, and lets go of an experience only when it runs or is gone.
LEMMA CallMoves ==
    ASSUME TypeOK, OnlyClientsStart, HalfDoneIsInHand, NEW c \in Callers, NEW r \in CallRecord,
           r \in StartCall => c \in Calls,
           calls' = [calls EXCEPT ![c] = r],
           \A e \in Experiences :
              running'[e] # None /\ running'[e].state # "running" =>
                 \/ e \in Hands(r)
                 \/ /\ running[e] # None /\ running[e].state # "running"
                    /\ e \notin Hands(calls[c])
    PROVE  /\ calls' \in [Callers -> CallRecord]
           /\ HalfDoneIsInHand' /\ OnlyClientsStart'
<1>1. calls \in [Callers -> CallRecord]
  BY DEF TypeOK, CallRecord
<1>2. calls' \in [Callers -> CallRecord]
  BY <1>1
<1>3. calls'[c] = r /\ \A d \in Callers \ {c} : calls'[d] = calls[d]
  BY <1>1
<1>4. ASSUME NEW e \in Experiences, running'[e] # None, running'[e].state # "running"
      PROVE  \E d \in Callers : e \in Hands(calls'[d])
  <2>1. CASE e \in Hands(r)
    BY <1>3, <2>1
  <2>2. CASE running[e] # None /\ running[e].state # "running" /\ e \notin Hands(calls[c])
    <3>1. PICK d \in Callers : e \in Hands(calls[d])
      BY <2>2 DEF HalfDoneIsInHand
    <3> QED
      BY <1>3, <2>2, <3>1
  <2> QED
    BY <1>4, <2>1, <2>2
<1>5. HalfDoneIsInHand'
  BY <1>4 DEF HalfDoneIsInHand, Callers
<1>6. OnlyClientsStart'
  BY <1>3 DEF OnlyClientsStart, Callers
<1> QED
  BY <1>2, <1>5, <1>6

-----------------------------------------------------------------------------
(* Frames and records.                                                     *)

LEMMA StartFrameIsFrame ==
    ASSUME TypeOK, NEW e \in Experiences, NEW b \in Bindings, NEW path
    PROVE  StartFrame(e, b, path) \in Frame
<1>1. Conflicts(e, path) \subseteq Experiences
  BY DEF Conflicts, Listed
<1> QED
  BY <1>1 DEF StartFrame, Frame, Frames

LEMMA StopFrameReleases ==
    ASSUME TypeOK, NEW e \in Listed
    PROVE  /\ StopFrame(e) \in Frames({"release"})
           /\ StopFrame(e) \in Frame
           /\ StopFrame(e).e = e /\ StopFrame(e).at = "release"
<1>1. e \in Experiences /\ running[e].binding \in Bindings
  BY DEF TypeOK, Listed, ExperienceRecord
<1>2. Len(Needs[e]) \in Nat
  BY <1>1, ManifestAssumption, LenProperties
<1> QED
  BY <1>1, <1>2 DEF StopFrame, Frame, Frames

LEMMA Stopping ==
    ASSUME TypeOK, NEW e \in Listed,
           running' = [running EXCEPT ![e].state = "stopping"]
    PROVE  /\ running' \in [Experiences -> ExperienceRecord \union {None}]
           /\ Listed' = Listed
           /\ running'[e].state = "stopping"
           /\ \A x \in Experiences \ {e} : running'[x] = running[x]
<1>1. e \in Experiences /\ running[e] \in ExperienceRecord
  BY DEF TypeOK, Listed
<1>2. [running[e] EXCEPT !.state = "stopping"] \in ExperienceRecord
  BY <1>1 DEF ExperienceRecord
<1>3. running' = [running EXCEPT ![e] = [running[e] EXCEPT !.state = "stopping"]]
  OBVIOUS
<1>4. running'[e] = [running[e] EXCEPT !.state = "stopping"]
  BY <1>1, <1>3 DEF TypeOK
<1>5. running'[e].state = "stopping"
  BY <1>1, <1>4 DEF ExperienceRecord
<1>6. running' \in [Experiences -> ExperienceRecord \union {None}]
  BY <1>1, <1>2, <1>3 DEF TypeOK
<1>7. \A x \in Experiences \ {e} : running'[x] = running[x]
  BY <1>3 DEF TypeOK
<1>8. running'[e] # None
  BY <1>5 DEF None
<1>9. Listed' = Listed
  BY <1>1, <1>7, <1>8 DEF Listed, None
<1> QED
  BY <1>5, <1>6, <1>7, <1>9

\* What is stopping does not run, so beginning to stop keeps the app's state
\* true.
LEMMA StoppingKeepsAppState ==
    ASSUME TypeOK, AppStateIsTrue, NEW e \in Listed, UNCHANGED appState,
           running' = [running EXCEPT ![e].state = "stopping"]
    PROVE  AppStateIsTrue'
<1>1. Listed \subseteq Experiences
  BY DEF Listed
<1> QED
  BY <1>1, Stopping DEF AppStateIsTrue

LEMMA BeginStopKeeps ==
    ASSUME TypeOK, OnlyClientsStart, AppStateIsTrue, HalfDoneIsInHand, UNCHANGED appState,
           NEW c \in Callers, calls[c] \in StartCall, Hands(calls[c]) = {},
           NEW stack \in Seq(Frame), NEW e \in Experiences, BeginStop(c, stack, e)
    PROVE  /\ running' \in [Experiences -> ExperienceRecord \union {None}]
           /\ calls' \in [Callers -> CallRecord]
           /\ HalfDoneIsInHand' /\ OnlyClientsStart'
           /\ AppStateIsTrue'
<1>0. c \in Calls
  BY DEF OnlyClientsStart
<1>1. CASE e \in Listed
  <2> DEFINE pushed == Append(stack, StopFrame(e))
             r == [calls[c] EXCEPT !.stack = pushed]
  <2>1. StopFrame(e) \in Frame /\ StopFrame(e).e = e /\ StopFrame(e).at = "release"
    BY <1>1, StopFrameReleases
  <2>2. pushed \in Seq(Frame) /\ pushed # <<>> /\ Last(pushed) = StopFrame(e)
    BY <2>1, Push
  <2>3. running' = [running EXCEPT ![e].state = "stopping"] /\ SetStack(c, pushed)
    BY <1>1 DEF BeginStop
  <2>4. calls' = [calls EXCEPT ![c] = r]
    BY <2>3 DEF SetStack
  <2> HIDE DEF pushed
  <2>5. r \in StartCall /\ r.stack = pushed /\ r # NoCall
    BY <2>2, StartWith
  <2> HIDE DEF r
  <2>6. e \in Hands(r)
    BY <2>1, <2>2, <2>5 DEF Hands
  <2>7. /\ running' \in [Experiences -> ExperienceRecord \union {None}]
        /\ \A x \in Experiences \ {e} : running'[x] = running[x]
    BY <1>1, <2>3, Stopping
  <2>8. AppStateIsTrue'
    BY <1>1, <2>3, StoppingKeepsAppState
  <2>9. calls' \in [Callers -> CallRecord] /\ HalfDoneIsInHand' /\ OnlyClientsStart'
    <3>1. r \in CallRecord
      BY <2>5 DEF CallRecord
    <3>2. \A x \in Experiences :
             running'[x] # None /\ running'[x].state # "running" =>
                \/ x \in Hands(r)
                \/ running[x] # None /\ running[x].state # "running" /\ x \notin Hands(calls[c])
      BY <2>6, <2>7
    <3> QED
      BY <1>0, <2>4, <3>1, <3>2, CallMoves
  <2> QED
    BY <2>7, <2>8, <2>9
<1>2. CASE e \notin Listed
  <2> DEFINE r == [calls[c] EXCEPT !.stack = stack]
  <2>1. calls' = [calls EXCEPT ![c] = r] /\ UNCHANGED running
    BY <1>2 DEF BeginStop, SetStack
  <2>2. r \in CallRecord
    BY StartWith DEF CallRecord
  <2> HIDE DEF r
  <2>3. calls' \in [Callers -> CallRecord] /\ HalfDoneIsInHand' /\ OnlyClientsStart'
    BY <1>0, <2>1, <2>2, CallMoves
  <2>4. AppStateIsTrue'
    BY <2>1 DEF AppStateIsTrue, Listed
  <2>5. running' \in [Experiences -> ExperienceRecord \union {None}]
    BY <2>1 DEF TypeOK
  <2> QED
    BY <2>3, <2>4, <2>5
<1> QED
  BY <1>1, <1>2

-----------------------------------------------------------------------------
(* The frame on top.                                                       *)

InHand == {"subscribe", "settle", "undo", "release"}

LEMMA AtTop ==
    ASSUME TypeOK, NEW c \in Callers, NEW where, At(c, where)
    PROVE  /\ Top(c) \in Frame /\ Top(c).at = where
           /\ calls[c].stack \in Seq(Frame) /\ Front(calls[c].stack) \in Seq(Frame)
           /\ where # "release" => calls[c] \in StartCall
           /\ Hands(calls[c]) = IF where \in InHand THEN {Top(c).e} ELSE {}
<1>1. calls[c] # NoCall /\ calls[c].stack # <<>> /\ Top(c).at = where
  BY DEF At
<1>2. Top(c) \in Frame /\ calls[c].stack \in Seq(Frame)
  BY <1>1, TopOf
<1>3. Front(calls[c].stack) \in Seq(Frame)
  BY <1>1, <1>2, Pop
<1>4. where # "release" => calls[c] \in StartCall
  BY <1>1, TopOf
<1>5. Hands(calls[c]) = IF where \in InHand THEN {Top(c).e} ELSE {}
  BY <1>1 DEF Hands, InHand, Top
<1> QED
  BY <1>1, <1>2, <1>3, <1>4, <1>5

\* A start moves on with another stack.
LEMMA StackMoves ==
    ASSUME TypeOK, OnlyClientsStart, HalfDoneIsInHand, NEW c \in Callers, calls[c] \in StartCall,
           NEW stack \in Seq(Frame), SetStack(c, stack),
           Hands(calls[c]) = {}, UNCHANGED running
    PROVE  calls' \in [Callers -> CallRecord] /\ HalfDoneIsInHand' /\ OnlyClientsStart'
<1> DEFINE r == [calls[c] EXCEPT !.stack = stack]
<1>1. calls' = [calls EXCEPT ![c] = r]
  BY DEF SetStack
<1>2. r \in CallRecord
  BY StartWith DEF CallRecord
<1>3. c \in Calls
  BY DEF OnlyClientsStart
<1> HIDE DEF r
<1> QED
  BY <1>1, <1>2, <1>3, CallMoves

\* The frame on top goes on with its experience in hand.
LEMMA TopStays ==
    ASSUME TypeOK, OnlyClientsStart, HalfDoneIsInHand, NEW c \in Callers, NEW where \in InHand, At(c, where),
           NEW f \in Frame, f.e = Top(c).e, f.at \in InHand,
           where = "release" => f.at = "release",
           SetTop(c, f), UNCHANGED running
    PROVE  calls' \in [Callers -> CallRecord] /\ HalfDoneIsInHand' /\ OnlyClientsStart'
<1> DEFINE pushed == Append(Front(calls[c].stack), f)
           r == [calls[c] EXCEPT !.stack = pushed]
<1>1. calls' = [calls EXCEPT ![c] = r]
  BY DEF SetTop, SetStack
<1>2. /\ Front(calls[c].stack) \in Seq(Frame)
      /\ where # "release" => calls[c] \in StartCall
      /\ Hands(calls[c]) = {Top(c).e}
  BY AtTop
<1>3. pushed \in Seq(Frame) /\ pushed # <<>> /\ Last(pushed) = f
  BY <1>2, Push
<1>4. calls[c] \in StopCall => f \in Frames({"release"}) /\ pushed \in Seq(Frames({"release"}))
  <2> SUFFICES ASSUME calls[c] \in StopCall
               PROVE  f \in Frames({"release"}) /\ pushed \in Seq(Frames({"release"}))
    OBVIOUS
  <2>1. calls[c] \notin StartCall
    BY DEF StartCall, StopCall
  <2>2. f.at = "release"
    BY <1>2, <2>1
  <2>3. f \in Frames({"release"})
    BY <2>2 DEF Frame, Frames
  <2>4. calls[c].stack \in Seq(Frames({"release"})) /\ calls[c].stack # <<>>
    BY DEF StopCall, At
  <2>5. Front(calls[c].stack) \in Seq(Frames({"release"}))
    BY <2>4, Pop
  <2> QED
    BY <2>3, <2>5, Push
<1>5. calls[c] \in StartCall \union StopCall
  BY TopOf DEF At
<1> HIDE DEF pushed
<1>6. r \in StartCall \union StopCall /\ r.stack = pushed /\ r # NoCall
  BY <1>3, <1>4, <1>5, StartWith, StopWith
<1>7. r \in StartCall => c \in Calls
  <2>1. CASE calls[c] \in StartCall
    BY <2>1 DEF OnlyClientsStart
  <2>2. CASE calls[c] \in StopCall
    BY <1>3, <1>4, <2>2, StopWith DEF StartCall, StopCall
  <2> QED
    BY <1>5, <2>1, <2>2
<1> HIDE DEF r
<1>8. Hands(r) = {Top(c).e} /\ r \in CallRecord
  BY <1>3, <1>6 DEF Hands, InHand, CallRecord
<1> QED
  BY <1>1, <1>2, <1>7, <1>8, CallMoves

\* The frame on top returns.
LEMMA Returns ==
    ASSUME TypeOK, OnlyClientsStart, NEW c \in Callers, NEW where, At(c, where), Return(c)
    PROVE  \E r \in CallRecord :
              calls' = [calls EXCEPT ![c] = r] /\ (r \in StartCall => c \in Calls)
<1> DEFINE rest == Front(calls[c].stack)
           rollback == calls[c].op = "start" /\ calls[c].failed
<1>1. CASE rest = <<>> /\ ~rollback
  <2>1. calls' = [calls EXCEPT ![c] = NoCall]
    BY <1>1 DEF Return
  <2>2. NoCall \in CallRecord /\ NoCall \notin StartCall
    BY DEF CallRecord, StartCall, NoCall
  <2> QED
    BY <2>1, <2>2
<1>2. CASE ~(rest = <<>> /\ ~rollback)
  <2> DEFINE r == [calls[c] EXCEPT !.stack = rest]
  <2>1. calls' = [calls EXCEPT ![c] = r]
    BY <1>2 DEF Return, SetStack
  <2>2. calls[c] \in StartCall \union StopCall /\ calls[c].stack # <<>>
    BY TopOf DEF At
  <2>3. CASE calls[c] \in StartCall
    <3>1. rest \in Seq(Frame) /\ c \in Calls
      BY <2>3, AtTop DEF OnlyClientsStart
    <3>2. r \in CallRecord
      BY <2>3, <3>1, StartWith DEF CallRecord
    <3> QED
      BY <2>1, <3>1, <3>2
  <2>4. CASE calls[c] \in StopCall
    <3>1. rest \in Seq(Frames({"release"}))
      BY <2>2, <2>4, Pop DEF StopCall
    <3>2. r \in StopCall
      BY <2>4, <3>1, StopWith
    <3>3. r \in CallRecord /\ r \notin StartCall
      BY <3>2 DEF CallRecord, StartCall, StopCall
    <3> QED
      BY <2>1, <3>3
  <2> QED
    BY <2>2, <2>3, <2>4
<1> QED
  BY <1>1, <1>2

-----------------------------------------------------------------------------
(* Calls begin.                                                            *)

LEMMA StartExperienceKeeps ==
    ASSUME IInv, NEW c \in Calls, NEW e \in Experiences, NEW b \in Bindings,
           StartExperience(c, e, b)
    PROVE  IInv'
<1> DEFINE before == [x \in Listed |-> running[x].binding]
           f == StartFrame(e, b, {})
           r == [op |-> "start", e |-> e, binding |-> b, stack |-> <<f>>, started |-> <<>>,
                 failed |-> FALSE, before |-> before]
<1> USE DEF IInv
<1>1. c \in Callers /\ calls[c] = NoCall /\ calls' = [calls EXCEPT ![c] = r]
  BY DEF StartExperience, Callers
<1>2. before \in [Listed -> Bindings] /\ Listed \in SUBSET Experiences
  BY DEF TypeOK, Listed, ExperienceRecord
<1>3. before \in UNION {[S -> Bindings] : S \in SUBSET Experiences}
  BY <1>2
<1> HIDE DEF before
<1>4. f \in Frame
  BY StartFrameIsFrame
<1> HIDE DEF f
<1>5. <<f>> \in Seq(Frame)
  BY <1>4, Single
<1>6. r \in StartCall
  BY <1>3, <1>5 DEF StartCall
<1>7. r \in CallRecord
  BY <1>6 DEF CallRecord
<1> HIDE DEF r
<1>8. Hands(calls[c]) = {}
  BY <1>1 DEF Hands
<1>9. UNCHANGED <<running, leases, appState>>
  BY DEF StartExperience
<1>10. calls' \in [Callers -> CallRecord] /\ HalfDoneIsInHand' /\ OnlyClientsStart'
  BY <1>1, <1>7, <1>8, <1>9, CallMoves
<1>11. TypeOK'
  BY <1>9, <1>10 DEF TypeOK, CallRecord
<1>12. AppStateIsTrue'
  BY <1>9 DEF AppStateIsTrue, Listed
<1> QED
  BY <1>10, <1>11, <1>12

LEMMA StopExperienceKeeps ==
    ASSUME IInv, NEW c \in Calls, NEW e \in Experiences, NEW crash \in BOOLEAN,
           StopExperience(c, e, crash)
    PROVE  IInv'
<1> DEFINE f == StopFrame(e)
           r == [op |-> "stop", crash |-> crash, stack |-> <<f>>]
<1> USE DEF IInv
<1>1. /\ c \in Callers /\ calls[c] = NoCall /\ calls' = [calls EXCEPT ![c] = r]
      /\ e \in Listed /\ running' = [running EXCEPT ![e].state = "stopping"]
      /\ UNCHANGED <<leases, appState>>
  BY DEF StopExperience, Callers
<1>2. f \in Frames({"release"}) /\ f.e = e /\ f.at = "release"
  BY <1>1, StopFrameReleases
<1> HIDE DEF f
<1>3. <<f>> \in Seq(Frames({"release"})) /\ <<f>> # <<>> /\ Last(<<f>>) = f
  BY <1>2, Single
<1>4. r \in StopCall /\ r # NoCall /\ r.stack = <<f>>
  BY <1>3 DEF StopCall, NoCall
<1>5. r \in CallRecord
  BY <1>4 DEF CallRecord
<1> HIDE DEF r
<1>6. e \in Hands(r)
  BY <1>2, <1>3, <1>4 DEF Hands
<1>7. /\ running' \in [Experiences -> ExperienceRecord \union {None}]
      /\ \A x \in Experiences \ {e} : running'[x] = running[x]
  BY <1>1, Stopping
<1>8. Hands(calls[c]) = {}
  BY <1>1 DEF Hands
<1>9. \A x \in Experiences :
         running'[x] # None /\ running'[x].state # "running" =>
            \/ x \in Hands(r)
            \/ running[x] # None /\ running[x].state # "running" /\ x \notin Hands(calls[c])
  BY <1>6, <1>7, <1>8
<1>10. calls' \in [Callers -> CallRecord] /\ HalfDoneIsInHand' /\ OnlyClientsStart'
  BY <1>1, <1>4, <1>5, <1>9, CallMoves DEF StartCall, StopCall
<1>11. TypeOK'
  BY <1>1, <1>7, <1>10 DEF TypeOK, CallRecord
<1>12. AppStateIsTrue'
  BY <1>1, StoppingKeepsAppState
<1> QED
  BY <1>10, <1>11, <1>12

LEMMA ShutdownKeeps ==
    ASSUME IInv, Shutdown
    PROVE  IInv'
<1> DEFINE stop(e) == [op |-> "stop", crash |-> FALSE, stack |-> <<StopFrame(e)>>]
<1> USE DEF IInv
<1>1. /\ running' = [e \in Experiences |->
            IF e \in Listed THEN [running[e] EXCEPT !.state = "stopping"] ELSE None]
      /\ calls' = [c \in Callers |-> IF c \in Listed THEN stop(c) ELSE calls[c]]
      /\ UNCHANGED <<leases, appState>>
      /\ \A e \in Experiences : calls[e] = NoCall
  BY DEF Shutdown
<1>2. Listed \subseteq Experiences /\ Experiences \subseteq Callers
  BY DEF Listed, Callers
<1>3. ASSUME NEW e \in Listed
      PROVE  stop(e) \in StopCall /\ Hands(stop(e)) = {e}
  <2> DEFINE f == StopFrame(e)
  <2>1. f \in Frames({"release"}) /\ f.e = e /\ f.at = "release"
    BY StopFrameReleases
  <2> HIDE DEF f
  <2>2. <<f>> \in Seq(Frames({"release"})) /\ <<f>> # <<>> /\ Last(<<f>>) = f
    BY <2>1, Single
  <2> DEFINE r == [op |-> "stop", crash |-> FALSE, stack |-> <<f>>]
  <2>3. r \in StopCall /\ r # NoCall /\ r.stack = <<f>>
    BY <2>2 DEF StopCall, NoCall
  <2>4. stop(e) = r
    BY DEF f
  <2> HIDE DEF r
  <2>5. Hands(r) = {e}
    BY <2>1, <2>2, <2>3 DEF Hands
  <2> QED
    BY <2>3, <2>4, <2>5
<1> HIDE DEF stop
<1>4. ASSUME NEW e \in Listed
      PROVE  /\ [running[e] EXCEPT !.state = "stopping"] \in ExperienceRecord
             /\ [running[e] EXCEPT !.state = "stopping"].state = "stopping"
  BY DEF TypeOK, Listed, ExperienceRecord
<1>5. running' \in [Experiences -> ExperienceRecord \union {None}]
  BY <1>1, <1>4
<1>6. calls' \in [Callers -> CallRecord]
  BY <1>1, <1>3 DEF TypeOK, CallRecord
<1>7. TypeOK'
  BY <1>1, <1>5, <1>6 DEF TypeOK, CallRecord
<1>8. \A e \in Listed : running'[e].state = "stopping" /\ running'[e] # None
  BY <1>1, <1>2, <1>4 DEF None
<1>9. \A e \in Experiences \ Listed : running'[e] = None
  BY <1>1
<1>10. Listed' = Listed
  BY <1>2, <1>8, <1>9 DEF Listed
<1>11. AppStateIsTrue'
  BY <1>1, <1>8, <1>10 DEF AppStateIsTrue
<1>12. ASSUME NEW e \in Experiences, running'[e] # None
       PROVE  \E c \in Callers : e \in Hands(calls'[c])
  <2>1. e \in Listed
    BY <1>9, <1>12
  <2>2. calls'[e] = stop(e)
    BY <1>1, <1>2, <2>1
  <2> QED
    BY <1>2, <1>3, <2>1, <2>2
<1>13. HalfDoneIsInHand'
  BY <1>12 DEF HalfDoneIsInHand, Callers
<1>14. OnlyClientsStart'
  <2>1. \A e \in Listed : stop(e) \notin StartCall
    BY <1>3 DEF StartCall, StopCall
  <2>2. \A c \in Callers : calls'[c] \in StartCall => calls[c] \in StartCall
    BY <1>1, <2>1
  <2> QED
    BY <2>2 DEF OnlyClientsStart, Callers
<1> QED
  BY <1>7, <1>11, <1>13, <1>14

-----------------------------------------------------------------------------
(* startWithRequirements                                                   *)

LEMMA StopConflictKeeps ==
    ASSUME IInv, NEW c \in Callers, StopConflict(c)
    PROVE  IInv'
<1> USE DEF IInv
<1>1. PICK e \in Top(c).todo :
         BeginStop(c, Append(Front(calls[c].stack), [Top(c) EXCEPT !.todo = @ \ {e}]), e)
  BY DEF StopConflict
<1>2. At(c, "require") /\ UNCHANGED <<leases, appState>>
  BY DEF StopConflict
<1>3. /\ Top(c) \in Frame /\ Front(calls[c].stack) \in Seq(Frame)
      /\ calls[c] \in StartCall /\ Hands(calls[c]) = {}
  BY <1>2, AtTop DEF InHand
<1>4. e \in Experiences /\ [Top(c) EXCEPT !.todo = @ \ {e}] \in Frame
  BY <1>1, <1>3 DEF Frame, Frames
<1>5. Append(Front(calls[c].stack), [Top(c) EXCEPT !.todo = @ \ {e}]) \in Seq(Frame)
  BY <1>3, <1>4, Push
<1>6. /\ running' \in [Experiences -> ExperienceRecord \union {None}]
      /\ calls' \in [Callers -> CallRecord]
      /\ HalfDoneIsInHand' /\ OnlyClientsStart'
      /\ AppStateIsTrue'
  BY <1>1, <1>2, <1>3, <1>4, <1>5, BeginStopKeeps
<1> QED
  BY <1>2, <1>6 DEF TypeOK, CallRecord

\* The requirement looked at is one of the manifest's.
LEMMA RequirementIsListed ==
    ASSUME TypeOK, NEW c \in Callers, RequirementsLeft(c)
    PROVE  NextRequirement(c) \in Experiences
<1>1. Top(c) \in Frame
  BY AtTop DEF RequirementsLeft
<1>2. Top(c).e \in Experiences /\ Top(c).n \in Nat
  BY <1>1 DEF Frame, Frames
<1>3. Required[Top(c).e] \in Seq(Experiences)
  BY <1>2, ManifestAssumption
<1>4. Top(c).n + 1 \in 1..Len(Required[Top(c).e])
  BY <1>2, <1>3, LenProperties DEF RequirementsLeft
<1> QED
  BY <1>3, <1>4, ElementOfSeq DEF NextRequirement

LEMMA NextLook ==
    ASSUME NEW f \in Frame
    PROVE  [f EXCEPT !.n = @ + 1] \in Frame /\ f.binding \in Bindings
<1>1. f.n + 1 \in Nat /\ f.binding \in Bindings
  BY DEF Frame, Frames
<1>2. [f EXCEPT !.n = f.n + 1] \in Frame
  BY <1>1 DEF Frame, Frames
<1> QED
  BY <1>1, <1>2

LEMMA RequireKeeps ==
    ASSUME IInv, NEW c \in Callers, Require(c)
    PROVE  IInv'
<1> DEFINE f == Top(c)
           r == NextRequirement(c)
           waiting == Append(Front(calls[c].stack), [f EXCEPT !.n = @ + 1])
           inner == StartFrame(r, f.binding, Path(waiting))
<1> USE DEF IInv
<1>1. /\ RequirementsLeft(c) /\ At(c, "require")
      /\ UNCHANGED <<running, leases, appState>>
      /\ SetStack(c, waiting) \/ SetStack(c, Append(waiting, inner))
  BY DEF Require, RequirementsLeft
<1>2. /\ f \in Frame /\ Front(calls[c].stack) \in Seq(Frame)
      /\ calls[c] \in StartCall /\ Hands(calls[c]) = {}
  BY <1>1, AtTop DEF InHand
<1>3. [f EXCEPT !.n = @ + 1] \in Frame /\ f.binding \in Bindings
  BY <1>2, NextLook
<1>4. waiting \in Seq(Frame)
  BY <1>2, <1>3, Push
<1> HIDE DEF waiting
<1>5. inner \in Frame
  BY <1>1, <1>3, RequirementIsListed, StartFrameIsFrame
<1> HIDE DEF inner
<1>6. Append(waiting, inner) \in Seq(Frame)
  BY <1>4, <1>5, Push
<1>7. calls' \in [Callers -> CallRecord] /\ HalfDoneIsInHand' /\ OnlyClientsStart'
  BY <1>1, <1>2, <1>4, <1>6, StackMoves
<1>8. TypeOK'
  BY <1>1, <1>7 DEF TypeOK, CallRecord
<1>9. AppStateIsTrue'
  BY <1>1 DEF AppStateIsTrue, Listed
<1> QED
  BY <1>7, <1>8, <1>9

\* An error ends the frames of a start.
LEMMA Throws ==
    ASSUME TypeOK, OnlyClientsStart, NEW c \in Callers, calls[c] \in StartCall, Throw(c)
    PROVE  \E r \in CallRecord :
              calls' = [calls EXCEPT ![c] = r] /\ (r \in StartCall => c \in Calls)
<1> DEFINE r == [calls[c] EXCEPT !.stack = <<>>, !.failed = TRUE]
<1>1. calls' = [calls EXCEPT ![c] = r]
  BY DEF Throw
<1>2. r \in StartCall
  BY EmptySeq DEF StartCall
<1>3. r \in CallRecord /\ c \in Calls
  BY <1>2 DEF CallRecord, OnlyClientsStart
<1> QED
  BY <1>1, <1>3

LEMMA RequireCycleKeeps ==
    ASSUME IInv, NEW c \in Callers, RequireCycle(c)
    PROVE  IInv'
<1> USE DEF IInv
<1>1. At(c, "require") /\ Throw(c) /\ UNCHANGED <<running, leases, appState>>
  BY DEF RequireCycle, RequirementsLeft
<1>2. calls[c] \in StartCall /\ Hands(calls[c]) = {}
  BY <1>1, AtTop DEF InHand
<1>3. PICK r \in CallRecord :
         calls' = [calls EXCEPT ![c] = r] /\ (r \in StartCall => c \in Calls)
  BY <1>1, <1>2, Throws
<1>4. calls' \in [Callers -> CallRecord] /\ HalfDoneIsInHand' /\ OnlyClientsStart'
  BY <1>1, <1>2, <1>3, CallMoves
<1>5. TypeOK'
  BY <1>1, <1>4 DEF TypeOK, CallRecord
<1>6. AppStateIsTrue'
  BY <1>1 DEF AppStateIsTrue, Listed
<1> QED
  BY <1>4, <1>5, <1>6

LEMMA ReuseKeeps ==
    ASSUME IInv, NEW c \in Callers, Reuse(c)
    PROVE  IInv'
<1> DEFINE e == Top(c).e
<1> USE DEF IInv
<1>1. /\ At(c, "require") /\ Return(c) /\ UNCHANGED <<leases, appState>>
      /\ RunsWith(e, Top(c).binding)
      /\ \/ running' = [running EXCEPT ![e].startedAs = "request"]
         \/ running' = running
  BY DEF Reuse, RequirementsDone
<1>2. Top(c) \in Frame /\ Hands(calls[c]) = {}
  BY <1>1, AtTop DEF InHand
<1>3. e \in Experiences /\ running[e] \in ExperienceRecord /\ running[e].state = "running"
  BY <1>1, <1>2 DEF Frame, Frames, RunsWith, TypeOK
<1>4. /\ running' \in [Experiences -> ExperienceRecord \union {None}]
      /\ running'[e] \in ExperienceRecord /\ running'[e].state = "running"
      /\ \A x \in Experiences \ {e} : running'[x] = running[x]
  <2>1. CASE running' = running
    BY <1>3, <2>1 DEF TypeOK
  <2>2. CASE running' = [running EXCEPT ![e].startedAs = "request"]
    <3> DEFINE v == [running[e] EXCEPT !.startedAs = "request"]
    <3>1. v \in ExperienceRecord /\ v.state = "running"
      BY <1>3 DEF ExperienceRecord
    <3>2. running' = [running EXCEPT ![e] = v]
      BY <2>2
    <3> HIDE DEF v
    <3> QED
      BY <1>3, <3>1, <3>2 DEF TypeOK
  <2> QED
    BY <1>1, <2>1, <2>2
<1>5. PICK r \in CallRecord :
         calls' = [calls EXCEPT ![c] = r] /\ (r \in StartCall => c \in Calls)
  BY <1>1, Returns
<1>6. calls' \in [Callers -> CallRecord] /\ HalfDoneIsInHand' /\ OnlyClientsStart'
  BY <1>2, <1>4, <1>5, CallMoves
<1>7. TypeOK'
  BY <1>1, <1>4, <1>6 DEF TypeOK, CallRecord
<1>8. running'[e] # None
  BY <1>4 DEF None, ExperienceRecord
<1>9. Listed' = Listed
  BY <1>1, <1>3, <1>4, <1>8 DEF Listed, RunsWith
<1>10. AppStateIsTrue'
  BY <1>1, <1>3, <1>4, <1>9 DEF AppStateIsTrue, Listed, RunsWith
<1> QED
  BY <1>6, <1>7, <1>10

LEMMA ReplaceKeeps ==
    ASSUME IInv, NEW c \in Callers, Replace(c)
    PROVE  IInv'
<1> DEFINE f == [Top(c) EXCEPT !.at = "startOne"]
<1> USE DEF IInv
<1>1. /\ At(c, "require") /\ UNCHANGED <<leases, appState>>
      /\ BeginStop(c, Append(Front(calls[c].stack), f), Top(c).e)
  BY DEF Replace, RequirementsDone
<1>2. /\ Top(c) \in Frame /\ Front(calls[c].stack) \in Seq(Frame)
      /\ calls[c] \in StartCall /\ Hands(calls[c]) = {}
  BY <1>1, AtTop DEF InHand
<1>3. f \in Frame /\ Top(c).e \in Experiences
  BY <1>2 DEF Frame, Frames
<1>4. Append(Front(calls[c].stack), f) \in Seq(Frame)
  BY <1>2, <1>3, Push
<1>5. /\ running' \in [Experiences -> ExperienceRecord \union {None}]
      /\ calls' \in [Callers -> CallRecord]
      /\ HalfDoneIsInHand' /\ OnlyClientsStart'
      /\ AppStateIsTrue'
  BY <1>1, <1>2, <1>3, <1>4, BeginStopKeeps
<1> QED
  BY <1>1, <1>5 DEF TypeOK, CallRecord

-----------------------------------------------------------------------------
(* startOne                                                                *)

LEMMA StartOneKeeps ==
    ASSUME IInv, NEW c \in Callers, StartOne(c)
    PROVE  IInv'
<1> DEFINE e == Top(c).e
           f == [Top(c) EXCEPT !.at = "subscribe", !.n = 0]
           v == [state |-> "starting", startedAs |-> StartedAs(c), binding |-> Top(c).binding]
           pushed == Append(Front(calls[c].stack), f)
           r == [calls[c] EXCEPT !.stack = pushed]
<1> USE DEF IInv
<1>1. /\ At(c, "require") \/ At(c, "startOne")
      /\ running' = [running EXCEPT ![e] = v]
      /\ calls' = [calls EXCEPT ![c] = r]
      /\ UNCHANGED <<leases, appState>>
  BY DEF StartOne, RequirementsDone, SetTop, SetStack
<1>2. /\ Top(c) \in Frame /\ Front(calls[c].stack) \in Seq(Frame)
      /\ calls[c] \in StartCall /\ Hands(calls[c]) = {}
  BY <1>1, AtTop DEF InHand
<1>3. f \in Frame /\ f.e = e /\ f.at = "subscribe" /\ e \in Experiences
  BY <1>2 DEF Frame, Frames
<1>4. v \in ExperienceRecord /\ v.state = "starting"
  BY <1>2 DEF Frame, Frames, ExperienceRecord, StartedAs
<1> HIDE DEF f, v, e
<1>5. pushed \in Seq(Frame) /\ pushed # <<>> /\ Last(pushed) = f
  BY <1>2, <1>3, Push
<1> HIDE DEF pushed
<1>6. r \in StartCall /\ r.stack = pushed /\ r # NoCall
  BY <1>2, <1>5, StartWith
<1> HIDE DEF r
<1>7. r \in CallRecord /\ e \in Hands(r) /\ c \in Calls
  BY <1>2, <1>3, <1>5, <1>6 DEF CallRecord, Hands, OnlyClientsStart
<1>8. /\ running' \in [Experiences -> ExperienceRecord \union {None}]
      /\ running'[e] = v
      /\ \A x \in Experiences \ {e} : running'[x] = running[x]
  BY <1>1, <1>3, <1>4 DEF TypeOK
<1>9. calls' \in [Callers -> CallRecord] /\ HalfDoneIsInHand' /\ OnlyClientsStart'
  <2>1. \A x \in Experiences :
           running'[x] # None /\ running'[x].state # "running" =>
              \/ x \in Hands(r)
              \/ running[x] # None /\ running[x].state # "running" /\ x \notin Hands(calls[c])
    BY <1>2, <1>7, <1>8
  <2>2. calls' = [calls EXCEPT ![c] = r]
    BY <1>1
  <2> QED
    BY <1>7, <2>1, <2>2, CallMoves
<1>10. TypeOK'
  BY <1>1, <1>8, <1>9 DEF TypeOK, CallRecord
<1>11. v # None /\ Listed' = Listed \union {e}
  BY <1>3, <1>4, <1>8 DEF Listed, None
<1>12. AppStateIsTrue'
  BY <1>1, <1>4, <1>8, <1>11 DEF AppStateIsTrue, Listed
<1> QED
  BY <1>9, <1>10, <1>12

\* The slot of the driver a start subscribes to.
LEMMA SlotIsSlot ==
    ASSUME NEW f \in Frame, f.n < Len(Needs[f.e])
    PROVE  <<f.binding, f.e, Needs[f.e][f.n + 1]>> \in Slots
<1>1. f.e \in Experiences /\ f.binding \in Bindings /\ f.n \in Nat
  BY DEF Frame, Frames
<1>2. Needs[f.e] \in Seq(Drivers)
  BY <1>1, ManifestAssumption
<1>3. f.n + 1 \in 1..Len(Needs[f.e])
  BY <1>1, <1>2, LenProperties
<1>4. Needs[f.e][f.n + 1] \in Drivers
  BY <1>2, <1>3, ElementOfSeq
<1> QED
  BY <1>1, <1>4 DEF Slots

\* A step that only moves the frame on top, and what is leased.
LEMMA OnlyLeases ==
    ASSUME IInv, NEW c \in Callers, NEW where \in InHand, At(c, where),
           NEW f \in Frame, f.e = Top(c).e, f.at \in InHand,
           where = "release" => f.at = "release",
           SetTop(c, f), UNCHANGED <<running, appState>>,
           leases' \in [Slots -> Seq(Calls \union {Held})]
    PROVE  IInv'
<1>1. calls' \in [Callers -> CallRecord] /\ HalfDoneIsInHand' /\ OnlyClientsStart'
  <2>1. TypeOK /\ OnlyClientsStart /\ HalfDoneIsInHand /\ UNCHANGED running
    BY DEF IInv
  <2> QED
    BY <2>1, TopStays
<1>2. TypeOK'
  BY <1>1 DEF IInv, TypeOK, CallRecord
<1>3. AppStateIsTrue'
  BY DEF IInv, AppStateIsTrue, Listed
<1> QED
  BY <1>1, <1>2, <1>3 DEF IInv

LEMMA TakeLeaseKeeps ==
    ASSUME IInv, NEW c \in Callers, TakeLease(c)
    PROVE  IInv'
<1> DEFINE f == [Top(c) EXCEPT !.at = "settle"]
<1>1. /\ At(c, "subscribe") /\ SetTop(c, f) /\ UNCHANGED <<running, appState>>
      /\ leases' = [leases EXCEPT ![Slot(c)] = Append(@, c)]
      /\ Top(c).n < Len(Needs[Top(c).e])
  BY DEF TakeLease, Subscribing
<1>2. Top(c) \in Frame /\ calls[c] \in StartCall /\ c \in Calls
  <2>1. TypeOK /\ OnlyClientsStart
    BY DEF IInv
  <2>2. At(c, "subscribe") /\ "subscribe" # "release"
    BY <1>1
  <2>3. Top(c) \in Frame /\ calls[c] \in StartCall
    BY <2>1, <2>2, AtTop, Zenon
  <2> QED
    BY <2>1, <2>3 DEF OnlyClientsStart
<1>3. f \in Frame /\ f.e = Top(c).e /\ f.at = "settle"
  BY <1>2 DEF Frame, Frames
<1>4. leases' \in [Slots -> Seq(Calls \union {Held})]
  <2>1. leases[Slot(c)] \in Seq(Calls \union {Held})
    BY <1>1, <1>2, SlotIsSlot DEF IInv, TypeOK, Slot
  <2>2. Append(leases[Slot(c)], c) \in Seq(Calls \union {Held})
    BY <1>2, <2>1, Push
  <2> QED
    BY <1>1, <2>2 DEF IInv, TypeOK
<1> HIDE DEF f
<1> QED
  BY <1>1, <1>3, <1>4, OnlyLeases DEF InHand

LEMMA RefuseLeaseKeeps ==
    ASSUME IInv, NEW c \in Callers, RefuseLease(c)
    PROVE  IInv'
<1> DEFINE f == [Top(c) EXCEPT !.at = "undo"]
<1>1. At(c, "subscribe") /\ SetTop(c, f) /\ UNCHANGED <<running, leases, appState>>
  BY DEF RefuseLease, Subscribing
<1>2. Top(c) \in Frame /\ leases' \in [Slots -> Seq(Calls \union {Held})]
  BY <1>1, AtTop DEF IInv, TypeOK
<1>3. f \in Frame /\ f.e = Top(c).e /\ f.at = "undo"
  BY <1>2 DEF Frame, Frames
<1> HIDE DEF f
<1> QED
  BY <1>1, <1>2, <1>3, OnlyLeases DEF InHand

LEMMA SubscribedKeeps ==
    ASSUME IInv, NEW c \in Callers, Subscribed(c)
    PROVE  IInv'
<1> DEFINE f == [Top(c) EXCEPT !.at = "subscribe", !.n = @ + 1]
           list == leases[Slot(c)]
           settled == [i \in DOMAIN list |-> IF list[i] = c THEN Held ELSE list[i]]
<1>1. /\ At(c, "settle") /\ SetTop(c, f) /\ UNCHANGED <<running, appState>>
      /\ leases' = [leases EXCEPT ![Slot(c)] = settled]
  BY DEF Subscribed
<1>2. Top(c) \in Frame
  BY <1>1, AtTop DEF IInv
<1>3. f \in Frame /\ f.e = Top(c).e /\ f.at = "subscribe"
  <2>1. Top(c).n + 1 \in Nat
    BY <1>2 DEF Frame, Frames
  <2>2. [Top(c) EXCEPT !.at = "subscribe", !.n = Top(c).n + 1] \in Frame
    BY <1>2, <2>1 DEF Frame, Frames
  <2> QED
    BY <1>2, <2>2 DEF Frame, Frames
<1>4. leases' \in [Slots -> Seq(Calls \union {Held})]
  <2>1. CASE Slot(c) \in Slots
    <3>1. list \in Seq(Calls \union {Held})
      BY <2>1 DEF IInv, TypeOK
    <3> HIDE DEF list
    <3>2. settled \in Seq(Calls \union {Held})
      BY <3>1
    <3> HIDE DEF settled
    <3> QED
      BY <1>1, <3>2 DEF IInv, TypeOK
  <2>2. CASE Slot(c) \notin Slots
    BY <1>1, <2>2 DEF IInv, TypeOK
  <2> QED
    BY <2>1, <2>2
<1> HIDE DEF f
<1> QED
  BY <1>1, <1>3, <1>4, OnlyLeases DEF InHand

LEMMA SubscribeFailsKeeps ==
    ASSUME IInv, NEW c \in Callers, SubscribeFails(c)
    PROVE  IInv'
<1> DEFINE f == [Top(c) EXCEPT !.at = "undo"]
           dropped == Dropped(c, leases[Slot(c)])
<1>1. /\ At(c, "settle") /\ SetTop(c, f) /\ UNCHANGED <<running, appState>>
      /\ leases' = [leases EXCEPT ![Slot(c)] = dropped]
  BY DEF SubscribeFails
<1>2. Top(c) \in Frame
  BY <1>1, AtTop DEF IInv
<1>3. f \in Frame /\ f.e = Top(c).e /\ f.at = "undo"
  BY <1>2 DEF Frame, Frames
<1>4. leases' \in [Slots -> Seq(Calls \union {Held})]
  <2>1. Slot(c) \in Slots => dropped \in Seq(Calls \union {Held})
    BY Fewer DEF IInv, TypeOK
  <2> HIDE DEF dropped
  <2> QED
    BY <1>1, <2>1 DEF IInv, TypeOK
<1> HIDE DEF f
<1> QED
  BY <1>1, <1>3, <1>4, OnlyLeases DEF InHand

LEMMA ReleaseKeeps ==
    ASSUME IInv, NEW c \in Callers, Release(c)
    PROVE  IInv'
<1> DEFINE f == [Top(c) EXCEPT !.released = @ + 1]
           slot == <<Top(c).binding, Top(c).e, Needs[Top(c).e][Top(c).released + 1]>>
           rest == IF leases[slot] = <<>> THEN leases[slot] ELSE Front(leases[slot])
<1>1. /\ At(c, "release") \/ At(c, "undo")
      /\ SetTop(c, f) /\ UNCHANGED <<running, appState>>
      /\ leases' = [leases EXCEPT ![slot] = rest]
  BY DEF Release
<1>2. PICK where \in {"release", "undo"} : At(c, where)
  BY <1>1
<1>3. Top(c) \in Frame /\ Top(c).at = where
  BY <1>2, AtTop DEF IInv
<1>4. f \in Frame /\ f.e = Top(c).e /\ f.at = Top(c).at
  <2>1. Top(c).released + 1 \in Nat
    BY <1>3 DEF Frame, Frames
  <2>2. [Top(c) EXCEPT !.released = Top(c).released + 1] \in Frame
    BY <1>3, <2>1 DEF Frame, Frames
  <2> QED
    BY <1>3, <2>2 DEF Frame, Frames
<1>5. leases' \in [Slots -> Seq(Calls \union {Held})]
  <2>1. slot \in Slots => rest \in Seq(Calls \union {Held})
    BY Pop DEF IInv, TypeOK
  <2> HIDE DEF rest, slot
  <2> QED
    BY <1>1, <2>1 DEF IInv, TypeOK
<1> HIDE DEF f
<1> QED
  BY <1>1, <1>2, <1>3, <1>4, <1>5, OnlyLeases DEF InHand

\* The record of an experience is gone after this step.
LEMMA Gone ==
    ASSUME TypeOK, NEW e \in Experiences, running' = [running EXCEPT ![e] = None]
    PROVE  /\ running' \in [Experiences -> ExperienceRecord \union {None}]
           /\ running'[e] = None
           /\ \A x \in Experiences \ {e} : running'[x] = running[x]
           /\ Listed' = Listed \ {e}
<1>1. /\ running' \in [Experiences -> ExperienceRecord \union {None}]
      /\ running'[e] = None
      /\ \A x \in Experiences \ {e} : running'[x] = running[x]
  BY DEF TypeOK
<1>2. Listed' = Listed \ {e}
  BY <1>1 DEF Listed
<1> QED
  BY <1>1, <1>2

LEMMA StartedKeeps ==
    ASSUME IInv, NEW c \in Callers, Started(c)
    PROVE  IInv'
<1> DEFINE e == Top(c).e
           v == [state |-> "running", startedAs |-> StartedAs(c), binding |-> Top(c).binding]
           rest == Front(calls[c].stack)
           going == [calls[c] EXCEPT !.stack = rest, !.started = Append(calls[c].started, e)]
           r == IF rest = <<>> THEN NoCall ELSE going
<1> USE DEF IInv
<1>1. /\ At(c, "subscribe") /\ appState' = "running" /\ UNCHANGED leases
      /\ running' = [running EXCEPT ![e] = v]
      /\ calls' = [calls EXCEPT ![c] = r]
  <2>1. calls' = [calls EXCEPT ![c] =
            IF Front(calls[c].stack) = <<>> THEN NoCall
            ELSE [calls[c] EXCEPT !.stack = Front(calls[c].stack),
                                  !.started = Append(calls[c].started, Top(c).e)]]
    BY DEF Started
  <2> QED
    BY <2>1 DEF Started
<1>2. /\ Top(c) \in Frame /\ rest \in Seq(Frame)
      /\ calls[c] \in StartCall /\ Hands(calls[c]) = {e}
  BY <1>1, AtTop DEF InHand
<1>3. e \in Experiences /\ v \in ExperienceRecord /\ v.state = "running"
  BY <1>2 DEF Frame, Frames, ExperienceRecord, StartedAs
<1> HIDE DEF e, v, rest
<1>4. c \in Calls
  BY <1>2 DEF OnlyClientsStart
<1>5. r \in CallRecord
  <2>1. calls[c].started \in Seq(Experiences)
    BY <1>2 DEF StartCall
  <2>2. Append(calls[c].started, e) \in Seq(Experiences)
    BY <1>3, <2>1, Push
  <2>3. going \in StartCall
    BY <1>2, <2>2 DEF StartCall
  <2> QED
    BY <2>3 DEF CallRecord
<1> HIDE DEF r
<1>6. /\ running' \in [Experiences -> ExperienceRecord \union {None}]
      /\ running'[e] = v
      /\ \A x \in Experiences \ {e} : running'[x] = running[x]
  BY <1>1, <1>3 DEF TypeOK
<1>7. calls' \in [Callers -> CallRecord] /\ HalfDoneIsInHand' /\ OnlyClientsStart'
  <2>1. \A x \in Experiences :
           running'[x] # None /\ running'[x].state # "running" =>
              \/ x \in Hands(r)
              \/ running[x] # None /\ running[x].state # "running" /\ x \notin Hands(calls[c])
    BY <1>2, <1>3, <1>6
  <2>2. calls' = [calls EXCEPT ![c] = r]
    BY <1>1
  <2> QED
    BY <1>4, <1>5, <2>1, <2>2, CallMoves
<1>8. TypeOK'
  BY <1>1, <1>6, <1>7 DEF TypeOK, CallRecord
<1>9. v # None
  BY <1>3 DEF None
<1>10. AppStateIsTrue'
  BY <1>1, <1>3, <1>6, <1>9 DEF AppStateIsTrue, Listed
<1> QED
  BY <1>7, <1>8, <1>10

LEMMA StartFailedKeeps ==
    ASSUME IInv, NEW c \in Callers, StartFailed(c)
    PROVE  IInv'
<1> DEFINE e == Top(c).e
<1> USE DEF IInv
<1>1. /\ At(c, "undo") /\ appState' = "crashed" /\ UNCHANGED leases /\ Throw(c)
      /\ running' = [running EXCEPT ![e] = None]
  BY DEF StartFailed, Released
<1>2. Top(c) \in Frame /\ calls[c] \in StartCall /\ Hands(calls[c]) = {e}
  BY <1>1, AtTop DEF InHand
<1>3. e \in Experiences
  BY <1>2 DEF Frame, Frames
<1> HIDE DEF e
<1>4. /\ running' \in [Experiences -> ExperienceRecord \union {None}]
      /\ running'[e] = None
      /\ \A x \in Experiences \ {e} : running'[x] = running[x]
  BY <1>1, <1>3, Gone
<1>5. PICK r \in CallRecord :
         calls' = [calls EXCEPT ![c] = r] /\ (r \in StartCall => c \in Calls)
  BY <1>1, <1>2, Throws
<1>6. calls' \in [Callers -> CallRecord] /\ HalfDoneIsInHand' /\ OnlyClientsStart'
  <2>1. \A x \in Experiences :
           running'[x] # None /\ running'[x].state # "running" =>
              running[x] # None /\ running[x].state # "running" /\ x \notin Hands(calls[c])
    BY <1>2, <1>4
  <2> QED
    BY <1>5, <2>1, CallMoves
<1>7. TypeOK'
  BY <1>1, <1>4, <1>6 DEF TypeOK, CallRecord
<1>8. AppStateIsTrue'
  BY <1>1 DEF AppStateIsTrue
<1> QED
  BY <1>6, <1>7, <1>8

-----------------------------------------------------------------------------
(* stopExperience, and what startExperience stops again.                   *)

LEMMA StoppedKeeps ==
    ASSUME IInv, NEW c \in Callers, Stopped(c)
    PROVE  IInv'
<1> DEFINE e == Top(c).e
<1> USE DEF IInv
<1>1. /\ At(c, "release") /\ Return(c) /\ UNCHANGED leases
      /\ running' = [running EXCEPT ![e] = None]
      /\ appState' \in {"crashed", "installed", appState}
      /\ appState' = "installed" => appState = "installed" \/ Listed \subseteq {e}
      /\ appState' = "running" => appState = "running" /\ ~(Listed \subseteq {e})
  BY DEF Stopped, Released
<1>2. Top(c) \in Frame /\ Hands(calls[c]) = {e}
  BY <1>1, AtTop DEF InHand
<1>3. e \in Experiences
  BY <1>2 DEF Frame, Frames
<1> HIDE DEF e
<1>4. /\ running' \in [Experiences -> ExperienceRecord \union {None}]
      /\ running'[e] = None
      /\ \A x \in Experiences \ {e} : running'[x] = running[x]
      /\ Listed' = Listed \ {e}
  BY <1>1, <1>3, Gone
<1>5. PICK r \in CallRecord :
         calls' = [calls EXCEPT ![c] = r] /\ (r \in StartCall => c \in Calls)
  BY <1>1, Returns
<1>6. calls' \in [Callers -> CallRecord] /\ HalfDoneIsInHand' /\ OnlyClientsStart'
  <2>1. \A x \in Experiences :
           running'[x] # None /\ running'[x].state # "running" =>
              running[x] # None /\ running[x].state # "running" /\ x \notin Hands(calls[c])
    BY <1>2, <1>4
  <2> QED
    BY <1>5, <2>1, CallMoves
<1>7. TypeOK'
  BY <1>1, <1>4, <1>6 DEF TypeOK, CallRecord
<1>8. Listed \subseteq Experiences
  BY DEF Listed
<1>9. AppStateIsTrue'
  <2>1. appState' = "running" => Listed' # {}
    BY <1>1, <1>4
  <2>2. appState' = "installed" => \A x \in Listed' : running'[x].state # "running"
    <3>1. ASSUME appState' = "installed", NEW x \in Listed'
          PROVE  running'[x].state # "running"
      <4>1. x \in Listed /\ x # e /\ running'[x] = running[x]
        BY <1>4, <1>8, <3>1
      <4>2. appState = "installed"
        BY <1>1, <3>1, <4>1
      <4> QED
        BY <4>1, <4>2 DEF AppStateIsTrue
    <3> QED
      BY <3>1
  <2> QED
    BY <2>1, <2>2 DEF AppStateIsTrue
<1> QED
  BY <1>6, <1>7, <1>9

LEMMA RollbackKeeps ==
    ASSUME IInv, NEW c \in Callers, Rollback(c)
    PROVE  IInv'
<1> DEFINE e == Last(calls[c].started)
           next == [calls[c] EXCEPT !.started = Front(@)]
<1> USE DEF IInv
<1>1. /\ Failing(c) /\ calls[c].started # <<>> /\ UNCHANGED <<leases, appState>>
      /\ \/ /\ e \in Listed
            /\ running' = [running EXCEPT ![e].state = "stopping"]
            /\ calls' = [calls EXCEPT ![c] = [next EXCEPT !.stack = <<StopFrame(e)>>]]
         \/ UNCHANGED running /\ calls' = [calls EXCEPT ![c] = next]
  BY DEF Rollback
<1>2. calls[c] \in StartCall /\ c \in Calls /\ Hands(calls[c]) = {}
  <2>1. calls[c] \in StartCall
    BY <1>1 DEF Failing, TypeOK, StopCall
  <2>2. calls[c].stack = <<>>
    BY <1>1 DEF Failing
  <2> QED
    BY <2>1, <2>2 DEF Hands, OnlyClientsStart
<1>3. next \in StartCall
  <2>1. calls[c].started \in Seq(Experiences)
    BY <1>2 DEF StartCall
  <2>2. Front(calls[c].started) \in Seq(Experiences)
    BY <1>1, <2>1, Pop
  <2> QED
    BY <1>2, <2>2 DEF StartCall
<1> HIDE DEF e, next
<1>4. CASE e \in Listed /\ running' = [running EXCEPT ![e].state = "stopping"]
           /\ calls' = [calls EXCEPT ![c] = [next EXCEPT !.stack = <<StopFrame(e)>>]]
  <2> DEFINE f == StopFrame(e)
             r == [next EXCEPT !.stack = <<f>>]
  <2>1. f \in Frame /\ f.e = e /\ f.at = "release"
    BY <1>4, StopFrameReleases
  <2>2. calls' = [calls EXCEPT ![c] = r]
    BY <1>4
  <2> HIDE DEF f
  <2>3. <<f>> \in Seq(Frame) /\ <<f>> # <<>> /\ Last(<<f>>) = f
    BY <2>1, Single
  <2>4. r \in StartCall /\ r.stack = <<f>> /\ r # NoCall
    BY <1>3, <2>3, StartWith
  <2> HIDE DEF r
  <2>5. r \in CallRecord /\ e \in Hands(r)
    BY <2>1, <2>3, <2>4 DEF CallRecord, Hands
  <2>6. /\ running' \in [Experiences -> ExperienceRecord \union {None}]
        /\ \A x \in Experiences \ {e} : running'[x] = running[x]
    BY <1>4, Stopping
  <2>7. calls' \in [Callers -> CallRecord] /\ HalfDoneIsInHand' /\ OnlyClientsStart'
    <3>1. \A x \in Experiences :
             running'[x] # None /\ running'[x].state # "running" =>
                \/ x \in Hands(r)
                \/ running[x] # None /\ running[x].state # "running" /\ x \notin Hands(calls[c])
      BY <1>2, <2>5, <2>6
    <3> QED
      BY <1>2, <2>2, <2>5, <3>1, CallMoves
  <2>8. TypeOK'
    BY <1>1, <2>6, <2>7 DEF TypeOK, CallRecord
  <2>9. AppStateIsTrue'
    BY <1>1, <1>4, StoppingKeepsAppState
  <2> QED
    BY <2>7, <2>8, <2>9
<1>5. CASE UNCHANGED running /\ calls' = [calls EXCEPT ![c] = next]
  <2>1. next \in CallRecord
    BY <1>3 DEF CallRecord
  <2>2. calls' \in [Callers -> CallRecord] /\ HalfDoneIsInHand' /\ OnlyClientsStart'
    BY <1>2, <1>5, <2>1, CallMoves
  <2>3. TypeOK'
    BY <1>1, <1>5, <2>2 DEF TypeOK, CallRecord
  <2>4. AppStateIsTrue'
    BY <1>1, <1>5 DEF AppStateIsTrue, Listed
  <2> QED
    BY <2>2, <2>3, <2>4
<1> QED
  BY <1>1, <1>4, <1>5

LEMMA StartThrowsKeeps ==
    ASSUME IInv, NEW c \in Callers, StartThrows(c)
    PROVE  IInv'
<1> USE DEF IInv
<1>1. /\ Failing(c) /\ UNCHANGED <<running, leases, appState>>
      /\ calls' = [calls EXCEPT ![c] = NoCall]
  BY DEF StartThrows
<1>2. Hands(calls[c]) = {}
  BY <1>1 DEF Failing, Hands
<1>3. NoCall \in CallRecord /\ NoCall \notin StartCall
  BY DEF CallRecord, NoCall, StartCall
<1>4. calls' \in [Callers -> CallRecord] /\ HalfDoneIsInHand' /\ OnlyClientsStart'
  BY <1>1, <1>2, <1>3, CallMoves
<1>5. TypeOK'
  BY <1>1, <1>4 DEF TypeOK, CallRecord
<1>6. AppStateIsTrue'
  BY <1>1 DEF AppStateIsTrue, Listed
<1> QED
  BY <1>4, <1>5, <1>6

-----------------------------------------------------------------------------
(* Every step.                                                             *)

LEMMA InitHolds == Init => IInv
<1> SUFFICES ASSUME Init
             PROVE  IInv
  OBVIOUS
<1>1. TypeOK
  BY EmptySeq DEF Init, TypeOK
<1>2. Listed = {}
  BY DEF Init, Listed
<1>3. AppStateIsTrue
  BY <1>2 DEF Init, AppStateIsTrue
<1>4. HalfDoneIsInHand
  BY DEF Init, HalfDoneIsInHand
<1>5. OnlyClientsStart
  BY DEF Init, OnlyClientsStart, NoCall, StartCall
<1> QED
  BY <1>1, <1>3, <1>4, <1>5 DEF IInv

LEMMA StepKeeps ==
    ASSUME IInv, [Next]_vars
    PROVE  IInv'
<1>1. ASSUME NEW c \in Calls, NEW e \in Experiences, NEW b \in Bindings,
             StartExperience(c, e, b)
      PROVE  IInv'
  BY <1>1, StartExperienceKeeps
<1>2. ASSUME NEW c \in Calls, NEW e \in Experiences, NEW crash \in BOOLEAN,
             StopExperience(c, e, crash)
      PROVE  IInv'
  BY <1>2, StopExperienceKeeps
<1>3. CASE Shutdown
  BY <1>3, ShutdownKeeps
<1>4. ASSUME NEW c \in Callers, Step(c)
      PROVE  IInv'
  BY <1>4, StopConflictKeeps, RequireKeeps, RequireCycleKeeps, ReuseKeeps, ReplaceKeeps,
     StartOneKeeps, TakeLeaseKeeps, RefuseLeaseKeeps, SubscribedKeeps, SubscribeFailsKeeps,
     StartedKeeps, StartFailedKeeps, ReleaseKeeps, StoppedKeeps, RollbackKeeps,
     StartThrowsKeeps DEF Step
<1>5. CASE UNCHANGED vars
  <2>1. UNCHANGED <<running, leases, appState, calls>>
    BY <1>5 DEF vars
  <2>2. TypeOK'
    BY <2>1 DEF IInv, TypeOK
  <2>3. AppStateIsTrue'
    BY <2>1 DEF IInv, AppStateIsTrue, Listed
  <2>4. HalfDoneIsInHand'
    BY <2>1 DEF IInv, HalfDoneIsInHand, Hands, Callers
  <2>5. OnlyClientsStart'
    BY <2>1 DEF IInv, OnlyClientsStart, Callers
  <2> QED
    BY <2>2, <2>3, <2>4, <2>5 DEF IInv
<1> QED
  BY <1>1, <1>2, <1>3, <1>4, <1>5 DEF Next, ClientsNext

\* The invariant that every step keeps: types, the app's state, and who has
\* what is half started or half stopped in hand.
THEOREM InvariantHolds == Spec => []IInv
<1>1. Init => IInv
  BY InitHolds
<1>2. IInv /\ [Next]_vars => IInv'
  BY StepKeeps
<1> QED
  BY <1>1, <1>2, PTL DEF Spec

\* Every variable of the app manager keeps its type, whatever calls overlap:
\* stacks of frames hold only experiences of the manifest, and leases only
\* calls of clients.
THEOREM TypeCorrect == Spec => []TypeOK
<1>1. IInv => TypeOK
  BY DEF IInv
<1> QED
  BY <1>1, InvariantHolds, PTL

\* The state shown for an app is true: "running" only while an experience is
\* listed, "installed" only while none runs, however starts, stops, failures
\* and a shutdown overlap (stopExperience and startOne of manager.ts set it).
THEOREM AppStateTrue == Spec => []AppStateIsTrue
<1>1. IInv => AppStateIsTrue
  BY DEF IInv
<1> QED
  BY <1>1, InvariantHolds, PTL

\* When every call has returned no experience is left starting or stopping:
\* whatever overlapped, each call that leaves an experience half done still
\* has it in hand (startOne, stopExperience and the rollback of manager.ts).
THEOREM NothingLeftHalfDone == Spec => []NothingHalfDone
<1>1. IInv => NothingHalfDone
  <2> SUFFICES ASSUME IInv, AllReturned, NEW e \in Listed
               PROVE  running[e].state = "running"
    BY DEF NothingHalfDone
  <2>1. \A c \in Callers : Hands(calls[c]) = {}
    BY DEF AllReturned, Hands
  <2> QED
    BY <2>1 DEF IInv, HalfDoneIsInHand, Listed
<1> QED
  BY <1>1, InvariantHolds, PTL

-----------------------------------------------------------------------------
(* One call at a time: the leases are those of what runs.                  *)

\* How many of the first n drivers of e are d.
Count(e, d, n) == Cardinality({i \in 1..n : Needs[e][i] = d})

LEMMA CountFacts ==
    ASSUME NEW e \in Experiences, NEW d \in Drivers
    PROVE  /\ Count(e, d, 0) = 0
           /\ Wanted(e, d) = Count(e, d, Len(Needs[e]))
           /\ \A n \in Nat :
                /\ Count(e, d, n) \in Nat
                /\ Count(e, d, n + 1) = Count(e, d, n) + (IF Needs[e][n + 1] = d THEN 1 ELSE 0)
<1>1. \A n \in Nat : IsFiniteSet(1..n)
  BY FS_Interval
<1>2. \A n \in Nat : IsFiniteSet({i \in 1..n : Needs[e][i] = d})
  BY <1>1, FS_Subset
<1>3. Count(e, d, 0) = 0
  <2>1. {i \in 1..0 : Needs[e][i] = d} = {}
    OBVIOUS
  <2> QED
    BY <2>1, FS_EmptySet DEF Count
<1>4. Wanted(e, d) = Count(e, d, Len(Needs[e]))
  <2>1. DOMAIN Needs[e] = 1..Len(Needs[e])
    BY ManifestAssumption, LenProperties
  <2> QED
    BY <2>1 DEF Wanted, Count
<1>5. ASSUME NEW n \in Nat
      PROVE  Count(e, d, n + 1) = Count(e, d, n) + (IF Needs[e][n + 1] = d THEN 1 ELSE 0)
  <2>1. CASE Needs[e][n + 1] = d
    <3>1. {i \in 1..(n + 1) : Needs[e][i] = d} = {i \in 1..n : Needs[e][i] = d} \union {n + 1}
      BY <2>1
    <3>2. n + 1 \notin {i \in 1..n : Needs[e][i] = d}
      OBVIOUS
    <3> QED
      BY <1>2, <2>1, <3>1, <3>2, FS_AddElement DEF Count
  <2>2. CASE Needs[e][n + 1] # d
    <3>1. {i \in 1..(n + 1) : Needs[e][i] = d} = {i \in 1..n : Needs[e][i] = d}
      BY <2>2
    <3>2. Count(e, d, n) \in Nat
      BY <1>2, FS_CardinalityType DEF Count
    <3> QED
      BY <2>2, <3>1, <3>2 DEF Count
  <2> QED
    BY <2>1, <2>2
<1> QED
  BY <1>2, <1>3, <1>4, <1>5, FS_CardinalityType DEF Count

LEMMA CountGrows ==
    ASSUME NEW e \in Experiences, NEW d \in Drivers, NEW m \in Nat, NEW n \in Nat, m <= n
    PROVE  Count(e, d, m) <= Count(e, d, n)
<1>1. {i \in 1..m : Needs[e][i] = d} \subseteq {i \in 1..n : Needs[e][i] = d}
  OBVIOUS
<1>2. IsFiniteSet(1..n)
  BY FS_Interval
<1>3. IsFiniteSet({i \in 1..n : Needs[e][i] = d})
  BY <1>2, FS_Subset
<1> QED
  BY <1>1, <1>3, FS_Subset DEF Count

\* Below the frame on top, every start waits for its requirements, or for the
\* stop that the frame on top is.
Waits(s) ==
    \A i \in 1..(Len(s) - 1) :
        /\ s[i].released = 0
        /\ \/ s[i].at = "require"
           \/ s[i].at = "startOne" /\ i = Len(s) - 1 /\ Last(s).at = "release" /\ Last(s).e = s[i].e

LEMMA FrontFacts ==
    ASSUME NEW s \in Seq(Frame), s # <<>>
    PROVE  /\ Front(s) \in Seq(Frame) /\ Len(Front(s)) = Len(s) - 1 /\ Len(s) \in Nat \ {0}
           /\ \A i \in 1..(Len(s) - 1) : Front(s)[i] = s[i]
<1>1. Len(s) \in Nat \ {0} /\ \A i \in 1..Len(s) : s[i] \in Frame
  BY EmptySeq, LenProperties, ElementOfSeq
<1>2. PICK n \in Int : n = Len(s) - 1 /\ n \in Nat
  BY <1>1
<1>3. \A i \in 1..n : s[i] \in Frame
  BY <1>1, <1>2
<1>4. /\ SubSeq(s, 1, n) \in Seq(Frame)
      /\ Len(SubSeq(s, 1, n)) = n
      /\ \A i \in 1..n : SubSeq(s, 1, n)[i] = s[i]
  BY <1>2, <1>3, SubSeqProperties
<1> QED
  BY <1>1, <1>2, <1>4 DEF Front

LEMMA Pops ==
    ASSUME NEW s \in Seq(Frame), s # <<>>, Waits(s)
    PROVE  /\ Waits(Front(s))
           /\ Front(s) # <<>> =>
                 /\ Last(Front(s)).released = 0
                 /\ \/ Last(Front(s)).at = "require"
                    \/ /\ Last(Front(s)).at = "startOne"
                       /\ Last(s).at = "release" /\ Last(s).e = Last(Front(s)).e
<1>1. PICK t : t = Front(s)
  OBVIOUS
<1>2. /\ t \in Seq(Frame) /\ Len(t) = Len(s) - 1 /\ Len(s) \in Nat \ {0}
      /\ \A i \in 1..(Len(s) - 1) : t[i] = s[i]
  BY <1>1, FrontFacts
<1>3. Waits(t)
  BY <1>2 DEF Waits
<1>4. t # <<>> => Len(t) \in 1..(Len(s) - 1) /\ Last(t) = s[Len(s) - 1]
  BY <1>2, EmptySeq DEF Last
<1> QED
  BY <1>1, <1>2, <1>3, <1>4 DEF Waits

LEMMA Swaps ==
    ASSUME NEW s \in Seq(Frame), s # <<>>, Waits(s), NEW f \in Frame,
           Last(s).at = "release" => f.at = "release" /\ f.e = Last(s).e
    PROVE  /\ Waits(Append(Front(s), f)) /\ Last(Append(Front(s), f)) = f
           /\ Append(Front(s), f) \in Seq(Frame) /\ Append(Front(s), f) # <<>>
<1>1. PICK t : t = Front(s)
  OBVIOUS
<1>2. /\ t \in Seq(Frame) /\ Len(t) = Len(s) - 1 /\ Len(s) \in Nat \ {0}
      /\ \A i \in 1..(Len(s) - 1) : t[i] = s[i]
  BY <1>1, FrontFacts
<1>3. PICK u : u = Append(t, f)
  OBVIOUS
<1>4. /\ Len(u) = Len(s) /\ \A i \in 1..(Len(s) - 1) : u[i] = s[i]
      /\ Last(u) = f /\ u \in Seq(Frame) /\ u # <<>>
  BY <1>2, <1>3, AppendProperties, Push
<1>5. Waits(u)
  BY <1>2, <1>4 DEF Waits
<1> QED
  BY <1>1, <1>3, <1>4, <1>5

LEMMA Pushes ==
    ASSUME NEW s \in Seq(Frame), s # <<>>, Waits(s), Last(s).at # "release",
           NEW g \in Frame, g.released = 0, NEW f \in Frame,
           \/ g.at = "require"
           \/ g.at = "startOne" /\ f.at = "release" /\ f.e = g.e
    PROVE  LET t == Append(Append(Front(s), g), f)
           IN  Waits(t) /\ Last(t) = f /\ t \in Seq(Frame) /\ t # <<>>
<1>1. PICK u : u = Append(Front(s), g)
  OBVIOUS
<1>2. /\ Front(s) \in Seq(Frame) /\ Len(Front(s)) = Len(s) - 1 /\ Len(s) \in Nat \ {0}
      /\ \A i \in 1..(Len(s) - 1) : Front(s)[i] = s[i]
  BY FrontFacts
<1>3. u \in Seq(Frame) /\ Len(u) = Len(s) /\ u[Len(s)] = g /\ \A i \in 1..(Len(s) - 1) : u[i] = s[i]
  BY <1>1, <1>2, AppendProperties
<1>4. PICK t : t = Append(u, f)
  OBVIOUS
<1>5. /\ t \in Seq(Frame) /\ t # <<>> /\ Last(t) = f /\ Len(t) = Len(s) + 1
      /\ t[Len(s)] = g /\ \A i \in 1..(Len(s) - 1) : t[i] = s[i]
  BY <1>2, <1>3, <1>4, AppendProperties, Push
<1>6. ASSUME NEW i \in 1..(Len(t) - 1)
      PROVE  /\ t[i].released = 0
             /\ \/ t[i].at = "require"
                \/ t[i].at = "startOne" /\ i = Len(t) - 1 /\ Last(t).at = "release" /\ Last(t).e = t[i].e
  <2>1. CASE i = Len(s)
    BY <1>2, <1>5, <2>1
  <2>2. CASE i \in 1..(Len(s) - 1)
    BY <1>5, <2>2 DEF Waits
  <2> QED
    BY <1>2, <1>5, <2>1, <2>2
<1>7. Waits(t)
  BY <1>6 DEF Waits
<1> QED
  BY <1>1, <1>4, <1>5, <1>7

-----------------------------------------------------------------------------
(* What the one call has in hand.                                          *)

Runs(run, e, b) == run[e] # None /\ run[e].state = "running" /\ run[e].binding = b

Settled(run, ls, b, e, d) ==
    Len(ls[<<b, e, d>>]) = IF Runs(run, e, b) THEN Wanted(e, d) ELSE 0

RunsOrGone(run, e) == run[e] = None \/ run[e].state = "running"

\* Nothing is on its way.
Whole(run, ls) ==
    /\ \A b \in Bindings, e \in Experiences, d \in Drivers : Settled(run, ls, b, e, d)
    /\ \A e \in Experiences : RunsOrGone(run, e)

\* All is as it should be but for experience x, which is starting or stopping
\* with binding b.
WholeBut(x, bound, run, ls) ==
    /\ run[x] # None /\ run[x].state # "running"
    /\ \A e \in Experiences \ {x} : RunsOrGone(run, e)
    /\ \A b \in Bindings, e \in Experiences, d \in Drivers :
          b # bound \/ e # x => Settled(run, ls, b, e, d)

\* How many of its drivers frame f has leases on or is about to have.
Taken(f) == IF f.at = "settle" THEN f.n + 1 ELSE f.n

NextSlot(f) == <<f.binding, f.e, Needs[f.e][f.n + 1]>>

\* The leases of frame f, which call c has on top.
Leased(c, f, ls) ==
    /\ f.released <= f.n /\ f.n <= Len(Needs[f.e])
    /\ f.at \in {"subscribe", "settle"} => f.released = 0
    /\ f.at = "settle" =>
          f.n < Len(Needs[f.e]) /\ \E i \in DOMAIN ls[NextSlot(f)] : ls[NextSlot(f)][i] = c
    /\ \A d \in Drivers :
          Len(ls[<<f.binding, f.e, d>>]) = Count(f.e, d, Taken(f)) - Count(f.e, d, f.released)

Working(c, f, run, ls) == WholeBut(f.e, f.binding, run, ls) /\ Leased(c, f, ls)

\* The starts that wait can go on when the frame on top returns.
Ready(stack, run) ==
    /\ Waits(stack)
    /\ stack # <<>> /\ Last(stack).at \in {"require", "startOne"} => Last(stack).released = 0
    /\ stack # <<>> /\ Last(stack).at = "startOne" => run[Last(stack).e] = None

\* A call, what it has in hand, and the rest.
Sound(c, call, run, ls) ==
    /\ call # NoCall => Ready(call.stack, run)
    /\ IF call # NoCall /\ call.stack # <<>> /\ Last(call.stack).at \in InHand
       THEN Working(c, Last(call.stack), run, ls)
       ELSE Whole(run, ls)

AloneInv(c) ==
    /\ IInv
    /\ \A e \in Experiences : calls[e] = NoCall
    /\ Sound(c, calls[c], running, leases)

LEMMA NoFrames == Waits(<<>>) /\ \A f \in Frame : Waits(<<f>>)
  BY DEF Waits

\* Experiences have no calls of their own: only a shutdown gives them any.
LEMMA AloneMoves ==
    ASSUME NEW c \in Calls, AloneInv(c), IInv', NEW r, calls' = [calls EXCEPT ![c] = r],
           Sound(c, r, running', leases')
    PROVE  AloneInv(c)'
<1>1. c \in Callers /\ c \notin Experiences /\ Experiences \subseteq Callers
  BY ManifestAssumption DEF Callers
<1>2. calls'[c] = r /\ \A e \in Experiences : calls'[e] = calls[e]
  BY <1>1 DEF AloneInv, IInv, TypeOK
<1> QED
  BY <1>2 DEF AloneInv

LEMMA Pauses ==
    ASSUME NEW c \in Calls, AloneInv(c), IInv', NEW r, calls' = [calls EXCEPT ![c] = r],
           r # NoCall => /\ Ready(r.stack, running')
                         /\ r.stack # <<>> => Last(r.stack).at \notin InHand,
           Whole(running', leases')
    PROVE  AloneInv(c)'
<1>1. Sound(c, r, running', leases')
  BY DEF Sound
<1> QED
  BY <1>1, AloneMoves

\* A start that neither starts nor stops anything now: nothing is on its way.
LEMMA NothingInHand ==
    ASSUME NEW c \in Calls, AloneInv(c), NEW where, At(c, where), where \notin InHand
    PROVE  Whole(running, leases) /\ Ready(calls[c].stack, running)
  BY DEF AloneInv, Sound, At, Top

LEMMA OneInHand ==
    ASSUME NEW c \in Calls, AloneInv(c), NEW where \in InHand, At(c, where)
    PROVE  Working(c, Top(c), running, leases) /\ Waits(calls[c].stack)
  BY DEF AloneInv, Sound, Ready, At, Top

LEMMA HandMoves ==
    ASSUME NEW c \in Calls, AloneInv(c), IInv', NEW where, At(c, where),
           NEW f \in Frame, f.at \in InHand,
           where = "release" => f.at = "release" /\ f.e = Top(c).e,
           SetTop(c, f), Working(c, f, running', leases')
    PROVE  AloneInv(c)'
<1>1. c \in Callers /\ IInv /\ TypeOK
  BY DEF Callers, AloneInv, IInv
<1>2. /\ calls[c] # NoCall /\ calls[c].stack # <<>> /\ Top(c).at = where
      /\ calls[c].stack \in Seq(Frame) /\ calls[c] \in StartCall \union StopCall
      /\ Waits(calls[c].stack)
  BY <1>1, AtTop, TopOf DEF At, AloneInv, Sound, Ready
<1>3. PICK s : s = Append(Front(calls[c].stack), f)
  OBVIOUS
<1>4. Waits(s) /\ Last(s) = f /\ s # <<>>
  BY <1>2, <1>3, Swaps DEF Top
<1>5. PICK r : r = [calls[c] EXCEPT !.stack = s]
  OBVIOUS
<1>6. calls' = [calls EXCEPT ![c] = r]
  BY <1>3, <1>5 DEF SetTop, SetStack
<1>7. r.stack = s /\ r # NoCall
  BY <1>2, <1>5 DEF StartCall, StopCall, NoCall
<1>8. Ready(s, running')
  BY <1>4 DEF Ready, InHand
<1>9. Sound(c, r, running', leases')
  BY <1>4, <1>7, <1>8 DEF Sound
<1> QED
  BY <1>6, <1>9, AloneMoves

LEMMA StopFrameIsWhole ==
    ASSUME NEW c, TypeOK, Whole(running, leases), NEW e \in Listed,
           running' = [running EXCEPT ![e].state = "stopping"]
    PROVE  Working(c, StopFrame(e), running', leases)
<1>1. /\ e \in Experiences /\ running[e] # None /\ running[e].state = "running"
      /\ running[e].binding \in Bindings
  BY DEF Listed, Whole, RunsOrGone, TypeOK, ExperienceRecord
<1>2. PICK b \in Bindings : b = running[e].binding
  BY <1>1
<1>3. PICK f : f = StopFrame(e)
  OBVIOUS
<1>4. /\ f.at = "release" /\ f.e = e /\ f.binding = b
      /\ f.n = Len(Needs[e]) /\ f.released = 0 /\ Taken(f) = f.n
  BY <1>2, <1>3 DEF StopFrame, Taken
<1>5. /\ running'[e].state = "stopping" /\ running'[e] # None
      /\ \A x \in Experiences \ {e} : running'[x] = running[x]
  <2>1. running'[e].state = "stopping" /\ \A x \in Experiences \ {e} : running'[x] = running[x]
    BY Stopping
  <2> QED
    BY <2>1 DEF None
<1>6. \A bb \in Bindings, x \in Experiences, d \in Drivers :
         bb # b \/ x # e => Settled(running', leases, bb, x, d)
  BY <1>2, <1>5 DEF Whole, Settled, Runs
<1>7. WholeBut(e, b, running', leases)
  BY <1>5, <1>6 DEF WholeBut, Whole, RunsOrGone
<1>8. Len(Needs[e]) \in Nat
  BY <1>1, ManifestAssumption, LenProperties
<1>9. ASSUME NEW d \in Drivers
      PROVE  Len(leases[<<b, e, d>>]) = Count(e, d, Taken(f)) - Count(e, d, f.released)
  <2>1. Len(leases[<<b, e, d>>]) = Wanted(e, d)
    BY <1>1, <1>2 DEF Whole, Settled, Runs
  <2>2. Wanted(e, d) = Count(e, d, Len(Needs[e])) /\ Count(e, d, 0) = 0
        /\ Count(e, d, Len(Needs[e])) \in Nat
    BY <1>1, <1>8, CountFacts
  <2> QED
    BY <1>4, <2>1, <2>2
<1>10. Leased(c, f, leases)
  BY <1>4, <1>8, <1>9 DEF Leased
<1> QED
  BY <1>3, <1>4, <1>7, <1>10 DEF Working

LEMMA StopBegins ==
    ASSUME NEW c \in Calls, AloneInv(c), IInv', calls[c] \in StartCall,
           Whole(running, leases), UNCHANGED leases,
           NEW stack \in Seq(Frame), NEW e \in Experiences, BeginStop(c, stack, e),
           e \in Listed => Waits(Append(stack, StopFrame(e))),
           e \notin Listed => Ready(stack, running),
           stack # <<>> => Last(stack).at \notin InHand
    PROVE  AloneInv(c)'
<1>0. TypeOK
  BY DEF AloneInv, IInv
<1>1. CASE e \in Listed
  <2>1. PICK f : f = StopFrame(e)
    OBVIOUS
  <2>2. f \in Frame /\ f.at = "release"
    BY <1>0, <1>1, <2>1, StopFrameReleases
  <2>3. PICK s : s = Append(stack, f)
    OBVIOUS
  <2>4. s \in Seq(Frame) /\ s # <<>> /\ Last(s) = f
    BY <2>2, <2>3, Push
  <2>5. PICK r : r = [calls[c] EXCEPT !.stack = s]
    OBVIOUS
  <2>6. r.stack = s /\ r # NoCall
    BY <2>4, <2>5, StartWith
  <2>7. calls' = [calls EXCEPT ![c] = r] /\ running' = [running EXCEPT ![e].state = "stopping"]
    BY <1>1, <2>1, <2>3, <2>5 DEF BeginStop, SetStack
  <2>8. Working(c, f, running', leases')
    BY <1>0, <1>1, <2>1, <2>7, StopFrameIsWhole
  <2>9. Ready(s, running')
    BY <1>1, <2>1, <2>2, <2>3, <2>4 DEF Ready
  <2>10. Sound(c, r, running', leases')
    BY <2>2, <2>4, <2>6, <2>8, <2>9 DEF Sound, InHand
  <2> QED
    BY <2>7, <2>10, AloneMoves
<1>2. CASE e \notin Listed
  <2>1. PICK r : r = [calls[c] EXCEPT !.stack = stack]
    OBVIOUS
  <2>2. r.stack = stack
    BY <2>1, StartWith
  <2>3. calls' = [calls EXCEPT ![c] = r] /\ UNCHANGED running
    BY <1>2, <2>1 DEF BeginStop, SetStack
  <2> QED
    BY <1>2, <2>2, <2>3, Pauses
<1> QED
  BY <1>1, <1>2

-----------------------------------------------------------------------------
(* A call alone begins, and looks for what it needs.                       *)

LEMMA StartExperienceAlone ==
    ASSUME NEW c \in Calls, AloneInv(c), IInv', NEW e \in Experiences, NEW b \in Bindings,
           StartExperience(c, e, b)
    PROVE  AloneInv(c)'
<1>1. calls[c] = NoCall /\ UNCHANGED <<running, leases>>
  BY DEF StartExperience
<1>2. Whole(running', leases')
  BY <1>1 DEF AloneInv, Sound
<1>3. PICK f : f = StartFrame(e, b, {})
  OBVIOUS
<1>4. f \in Frame /\ f.at = "require" /\ f.released = 0
  BY <1>3, StartFrameIsFrame DEF StartFrame, AloneInv, IInv
<1>5. Last(<<f>>) = f
  BY DEF Last
<1>6. PICK r : r = [op |-> "start", e |-> e, binding |-> b, stack |-> <<f>>, started |-> <<>>,
                    failed |-> FALSE, before |-> [x \in Listed |-> running[x].binding]]
  OBVIOUS
<1>7. calls' = [calls EXCEPT ![c] = r] /\ r.stack = <<f>>
  BY <1>3, <1>6 DEF StartExperience
<1>8. Ready(<<f>>, running') /\ Last(<<f>>).at \notin InHand
  BY <1>4, <1>5, NoFrames DEF Ready, InHand
<1> QED
  BY <1>2, <1>7, <1>8, Pauses

LEMMA StopExperienceAlone ==
    ASSUME NEW c \in Calls, AloneInv(c), IInv', NEW e \in Experiences, NEW crash \in BOOLEAN,
           StopExperience(c, e, crash)
    PROVE  AloneInv(c)'
<1>1. /\ calls[c] = NoCall /\ e \in Listed /\ UNCHANGED leases
      /\ running' = [running EXCEPT ![e].state = "stopping"]
  BY DEF StopExperience
<1>2. Whole(running, leases) /\ TypeOK
  BY <1>1 DEF AloneInv, Sound, IInv
<1>3. PICK f : f = StopFrame(e)
  OBVIOUS
<1>4. f \in Frame /\ f.at = "release"
  BY <1>1, <1>2, <1>3, StopFrameReleases
<1>5. Working(c, f, running', leases')
  BY <1>1, <1>2, <1>3, StopFrameIsWhole
<1>6. Last(<<f>>) = f /\ <<f>> # <<>>
  BY DEF Last
<1>7. PICK r : r = [op |-> "stop", crash |-> crash, stack |-> <<f>>]
  OBVIOUS
<1>8. calls' = [calls EXCEPT ![c] = r] /\ r.stack = <<f>> /\ r # NoCall
  BY <1>3, <1>7 DEF StopExperience, NoCall
<1>9. Ready(<<f>>, running')
  BY <1>4, <1>6, NoFrames DEF Ready
<1>10. Sound(c, r, running', leases')
  BY <1>4, <1>5, <1>6, <1>8, <1>9 DEF Sound, InHand
<1> QED
  BY <1>8, <1>10, AloneMoves

LEMMA StopConflictAlone ==
    ASSUME NEW c \in Calls, AloneInv(c), IInv', StopConflict(c)
    PROVE  AloneInv(c)'
<1>1. PICK e \in Top(c).todo :
         BeginStop(c, Append(Front(calls[c].stack), [Top(c) EXCEPT !.todo = @ \ {e}]), e)
  BY DEF StopConflict
<1>2. At(c, "require") /\ UNCHANGED leases /\ c \in Callers /\ TypeOK
  BY DEF StopConflict, Callers, AloneInv, IInv
<1>3. /\ Top(c) \in Frame /\ Top(c).at = "require"
      /\ calls[c].stack \in Seq(Frame) /\ calls[c].stack # <<>> /\ calls[c] \in StartCall
  BY <1>2, AtTop DEF At
<1>4. Whole(running, leases) /\ Waits(calls[c].stack) /\ Top(c).released = 0
  BY <1>2, <1>3, NothingInHand DEF Ready, InHand, Top
<1>5. PICK g : g = [Top(c) EXCEPT !.todo = @ \ {e}]
  OBVIOUS
<1>6. e \in Experiences /\ g \in Frame /\ g.at = "require" /\ g.released = 0
  BY <1>1, <1>3, <1>4, <1>5 DEF Frame, Frames
<1>7. PICK s : s = Append(Front(calls[c].stack), g)
  OBVIOUS
<1>8. Waits(s) /\ Last(s) = g /\ s \in Seq(Frame)
  BY <1>3, <1>4, <1>6, <1>7, Swaps DEF Top
<1>9. Ready(s, running) /\ Last(s).at \notin InHand
  BY <1>6, <1>8 DEF Ready, InHand
<1>10. e \in Listed => Waits(Append(s, StopFrame(e)))
  <2> SUFFICES ASSUME e \in Listed
               PROVE  Waits(Append(s, StopFrame(e)))
    OBVIOUS
  <2>1. StopFrame(e) \in Frame
    BY <1>2, StopFrameReleases
  <2> QED
    BY <1>3, <1>4, <1>6, <1>7, <2>1, Pushes DEF Top
<1>11. BeginStop(c, s, e)
  BY <1>1, <1>5, <1>7
<1> QED
  BY <1>2, <1>3, <1>4, <1>6, <1>8, <1>9, <1>10, <1>11, StopBegins

LEMMA RequireAlone ==
    ASSUME NEW c \in Calls, AloneInv(c), IInv', Require(c)
    PROVE  AloneInv(c)'
<1> DEFINE next == [Top(c) EXCEPT !.n = @ + 1]
           inner(s) == StartFrame(NextRequirement(c), Top(c).binding, Path(s))
<1>1. /\ RequirementsLeft(c) /\ At(c, "require") /\ UNCHANGED <<running, leases>>
      /\ c \in Callers /\ TypeOK
  BY DEF Require, RequirementsLeft, Callers, AloneInv, IInv
<1>2. /\ Top(c) \in Frame /\ Top(c).at = "require"
      /\ calls[c].stack \in Seq(Frame) /\ calls[c].stack # <<>> /\ calls[c] \in StartCall
  BY <1>1, AtTop DEF At
<1>3. Whole(running, leases) /\ Waits(calls[c].stack) /\ Top(c).released = 0
  BY <1>1, <1>2, NothingInHand DEF Ready, InHand, Top
<1>4. PICK g : g = next
  OBVIOUS
<1>5. g \in Frame /\ Top(c).binding \in Bindings
  BY <1>2, <1>4, NextLook
<1>6. g.at = "require" /\ g.released = 0
  BY <1>2, <1>3, <1>4 DEF Frame, Frames
<1>7. PICK s : s = Append(Front(calls[c].stack), g)
  OBVIOUS
<1>8. Waits(s) /\ Last(s) = g /\ s \in Seq(Frame)
  BY <1>2, <1>3, <1>5, <1>6, <1>7, Swaps DEF Top
<1>9. PICK f : f = inner(s)
  OBVIOUS
<1>10. f \in Frame /\ f.at = "require" /\ f.released = 0
  <2>1. NextRequirement(c) \in Experiences
    BY <1>1, RequirementIsListed
  <2>2. StartFrame(NextRequirement(c), Top(c).binding, Path(s)) \in Frame
    BY <1>1, <1>5, <2>1, StartFrameIsFrame
  <2> QED
    BY <1>9, <2>2 DEF StartFrame
<1>11. PICK t : t = Append(s, f)
  OBVIOUS
<1>12. Waits(t) /\ Last(t) = f
  BY <1>2, <1>3, <1>5, <1>6, <1>7, <1>10, <1>11, Pushes DEF Top
<1>13. ASSUME NEW u, u \in {s, t}, SetStack(c, u)
       PROVE  AloneInv(c)'
  <2>1. Ready(u, running') /\ Last(u).at \notin InHand
    BY <1>6, <1>8, <1>10, <1>12, <1>13 DEF Ready, InHand
  <2>2. PICK r : r = [calls[c] EXCEPT !.stack = u]
    OBVIOUS
  <2>3. r.stack = u
    BY <1>2, <2>2 DEF StartCall
  <2>4. calls' = [calls EXCEPT ![c] = r] /\ Whole(running', leases')
    BY <1>1, <1>3, <1>13, <2>2 DEF SetStack
  <2> QED
    BY <2>1, <2>3, <2>4, Pauses
<1>14. SetStack(c, s) \/ SetStack(c, t)
  BY <1>4, <1>7, <1>9, <1>11 DEF Require
<1> QED
  BY <1>13, <1>14

LEMMA ThrowAlone ==
    ASSUME NEW c \in Calls, AloneInv(c), IInv', calls[c] \in StartCall, Throw(c),
           Whole(running', leases')
    PROVE  AloneInv(c)'
<1>1. PICK r : r = [calls[c] EXCEPT !.stack = <<>>, !.failed = TRUE]
  OBVIOUS
<1>2. r.stack = <<>>
  BY <1>1 DEF StartCall
<1>3. Ready(<<>>, running')
  BY NoFrames DEF Ready
<1> QED
  BY <1>1, <1>2, <1>3, Pauses DEF Throw

LEMMA RequireCycleAlone ==
    ASSUME NEW c \in Calls, AloneInv(c), IInv', RequireCycle(c)
    PROVE  AloneInv(c)'
<1>1. /\ At(c, "require") /\ Throw(c) /\ UNCHANGED <<running, leases>>
      /\ c \in Callers /\ TypeOK
  BY DEF RequireCycle, RequirementsLeft, Callers, AloneInv, IInv
<1>2. "require" # "release" /\ "require" \notin InHand
  BY DEF InHand
<1>3. calls[c] \in StartCall
  BY <1>1, <1>2, AtTop, Zenon
<1>4. Whole(running, leases)
  BY <1>1, <1>2, NothingInHand
<1> QED
  BY <1>1, <1>3, <1>4, ThrowAlone

\* When a frame returns, the start below it can go on.
LEMMA Resumes ==
    ASSUME NEW c \in Calls, AloneInv(c), NEW where, At(c, where),
           where = "release" => running'[Top(c).e] = None
    PROVE  /\ Ready(Front(calls[c].stack), running')
           /\ Front(calls[c].stack) # <<>> => Last(Front(calls[c].stack)).at \notin InHand
<1>1. /\ calls[c].stack \in Seq(Frame) /\ calls[c].stack # <<>> /\ Waits(calls[c].stack)
      /\ Last(calls[c].stack).at = where
  BY AtTop DEF At, AloneInv, IInv, Sound, Ready, Callers, Top
<1>2. PICK t : t = calls[c].stack
  OBVIOUS
<1>3. PICK s : s = Front(calls[c].stack)
  OBVIOUS
<1>4. /\ Waits(s)
      /\ s # <<>> =>
            /\ Last(s).released = 0
            /\ \/ Last(s).at = "require"
               \/ Last(s).at = "startOne" /\ where = "release" /\ Top(c).e = Last(s).e
  <2>1. t \in Seq(Frame) /\ t # <<>> /\ Waits(t) /\ s = Front(t)
    BY <1>1, <1>2, <1>3
  <2>2. /\ Waits(s)
        /\ s # <<>> =>
              /\ Last(s).released = 0
              /\ \/ Last(s).at = "require"
                 \/ Last(s).at = "startOne" /\ Last(t).at = "release" /\ Last(t).e = Last(s).e
    BY <2>1, Pops
  <2>3. Last(t).at = where /\ Last(t).e = Top(c).e
    BY <1>1, <1>2 DEF Top
  <2> QED
    BY <2>2, <2>3
<1>5. s # <<>> => Last(s).at \notin InHand
  BY <1>4 DEF InHand
<1>6. s # <<>> /\ Last(s).at = "startOne" => running'[Last(s).e] = None
  BY <1>4
<1> QED
  BY <1>3, <1>4, <1>5, <1>6 DEF Ready

LEMMA ReturnAlone ==
    ASSUME NEW c \in Calls, AloneInv(c), IInv', NEW where, At(c, where),
           where = "release" => running'[Top(c).e] = None,
           Return(c), Whole(running', leases')
    PROVE  AloneInv(c)'
<1>1. PICK s : s = Front(calls[c].stack)
  OBVIOUS
<1>2. Ready(s, running') /\ (s # <<>> => Last(s).at \notin InHand)
  BY <1>1, Resumes
<1>3. CASE calls' = [calls EXCEPT ![c] = NoCall]
  BY <1>3, Pauses
<1>4. CASE SetStack(c, s)
  <2>1. PICK r : r = [calls[c] EXCEPT !.stack = s]
    OBVIOUS
  <2>2. calls[c] \in StartCall \union StopCall
    BY TopOf DEF At, AloneInv, IInv, Callers
  <2>3. r.stack = s
    BY <2>1, <2>2 DEF StartCall, StopCall
  <2> QED
    BY <1>2, <1>4, <2>1, <2>3, Pauses DEF SetStack
<1> QED
  BY <1>1, <1>3, <1>4 DEF Return

LEMMA ReuseAlone ==
    ASSUME NEW c \in Calls, AloneInv(c), IInv', Reuse(c)
    PROVE  AloneInv(c)'
<1>1. /\ At(c, "require") /\ Return(c) /\ UNCHANGED leases
      /\ \/ running' = [running EXCEPT ![Top(c).e].startedAs = "request"]
         \/ running' = running
      /\ RunsWith(Top(c).e, Top(c).binding)
  BY DEF Reuse, RequirementsDone
<1>2. "require" # "release" /\ "require" \notin InHand
  BY DEF InHand
<1>3. Whole(running, leases)
  BY <1>1, <1>2, NothingInHand
<1>4. \A x \in Experiences :
         /\ RunsOrGone(running', x)
         /\ \A b \in Bindings : Runs(running', x, b) = Runs(running, x, b)
  <2>1. CASE running' = running
    BY <1>3, <2>1 DEF Whole, Runs
  <2>2. CASE running' = [running EXCEPT ![Top(c).e].startedAs = "request"]
    <3>1. PICK e : e = Top(c).e
      OBVIOUS
    <3>2. Top(c) \in Frame
      BY <1>1, AtTop DEF AloneInv, IInv, Callers
    <3>3. e \in Experiences /\ running[e] \in ExperienceRecord
      BY <1>1, <3>1, <3>2 DEF RunsWith, AloneInv, IInv, TypeOK, Frame, Frames
    <3>4. PICK v : v = [running[e] EXCEPT !.startedAs = "request"]
      OBVIOUS
    <3>5. v \in ExperienceRecord /\ v.state = running[e].state /\ v.binding = running[e].binding
      BY <3>3, <3>4 DEF ExperienceRecord
    <3>6. running'[e] = v /\ \A x \in Experiences \ {e} : running'[x] = running[x]
      BY <2>2, <3>1, <3>3, <3>4 DEF AloneInv, IInv, TypeOK
    <3>7. v # None /\ running[e] # None
      BY <3>3, <3>5 DEF ExperienceRecord, None
    <3> QED
      BY <1>3, <3>5, <3>6, <3>7 DEF Whole, RunsOrGone, Runs
  <2> QED
    BY <1>1, <2>1, <2>2
<1>5. Whole(running', leases')
  BY <1>1, <1>3, <1>4 DEF Whole, Settled
<1> QED
  BY <1>1, <1>2, <1>5, ReturnAlone, Zenon

LEMMA ReplaceAlone ==
    ASSUME NEW c \in Calls, AloneInv(c), IInv', Replace(c)
    PROVE  AloneInv(c)'
<1>1. /\ At(c, "require") /\ UNCHANGED leases /\ c \in Callers /\ TypeOK
      /\ BeginStop(c, Append(Front(calls[c].stack), [Top(c) EXCEPT !.at = "startOne"]), Top(c).e)
      /\ Top(c).e \in Listed
  BY DEF Replace, RequirementsDone, Callers, AloneInv, IInv
<1>2. /\ Top(c) \in Frame /\ Top(c).at = "require"
      /\ calls[c].stack \in Seq(Frame) /\ calls[c].stack # <<>> /\ calls[c] \in StartCall
  BY <1>1, AtTop DEF At
<1>3. Whole(running, leases) /\ Waits(calls[c].stack) /\ Top(c).released = 0
  BY <1>1, <1>2, NothingInHand DEF Ready, InHand, Top
<1>4. PICK g : g = [Top(c) EXCEPT !.at = "startOne"]
  OBVIOUS
<1>5. /\ Top(c).e \in Experiences
      /\ g \in Frame /\ g.at = "startOne" /\ g.released = 0 /\ g.e = Top(c).e
  BY <1>2, <1>3, <1>4 DEF Frame, Frames
<1>6. PICK s : s = Append(Front(calls[c].stack), g)
  OBVIOUS
<1>7. s \in Seq(Frame) /\ Last(s) = g
  BY <1>2, <1>3, <1>5, <1>6, Swaps DEF Top
<1>8. Last(s).at \notin InHand
  BY <1>5, <1>7 DEF InHand
<1>9. Waits(Append(s, StopFrame(Top(c).e)))
  <2>1. PICK f : f = StopFrame(Top(c).e)
    OBVIOUS
  <2>2. f \in Frame /\ f.e = g.e /\ f.at = "release"
    BY <1>1, <1>5, <2>1, StopFrameReleases
  <2>3. Last(calls[c].stack).at # "release"
    BY <1>2 DEF Top
  <2>4. Waits(Append(Append(Front(calls[c].stack), g), f))
    BY <1>2, <1>3, <1>5, <2>2, <2>3, Pushes
  <2> QED
    BY <1>6, <2>1, <2>4
<1>10. BeginStop(c, s, Top(c).e)
  BY <1>1, <1>4, <1>6
<1> QED
  BY <1>1, <1>2, <1>3, <1>5, <1>7, <1>8, <1>9, <1>10, StopBegins

-----------------------------------------------------------------------------
(* It starts, and stops.                                                   *)

LEMMA StartOneAlone ==
    ASSUME NEW c \in Calls, AloneInv(c), IInv', StartOne(c)
    PROVE  AloneInv(c)'
<1> DEFINE v == [state |-> "starting", startedAs |-> StartedAs(c), binding |-> Top(c).binding]
<1>1. PICK where \in {"require", "startOne"} : At(c, where) /\ (where = "require" => Top(c).e \notin Listed)
  BY DEF StartOne, RequirementsDone
<1>2. /\ running' = [running EXCEPT ![Top(c).e] = v] /\ UNCHANGED leases
      /\ SetTop(c, [Top(c) EXCEPT !.at = "subscribe", !.n = 0])
      /\ c \in Callers /\ TypeOK
  BY DEF StartOne, Callers, AloneInv, IInv
<1>3. Top(c) \in Frame /\ Top(c).at = where
  BY <1>1, <1>2, AtTop
<1>4. Whole(running, leases) /\ Top(c).released = 0
  <2>1. where \notin InHand
    BY <1>1 DEF InHand
  <2>2. Whole(running, leases) /\ Ready(calls[c].stack, running)
    BY <1>1, <2>1, NothingInHand
  <2> QED
    BY <1>1, <1>3, <2>2 DEF Ready, At, Top
<1>5. PICK e \in Experiences : e = Top(c).e
  BY <1>3 DEF Frame, Frames
<1>6. PICK b \in Bindings : b = Top(c).binding
  BY <1>3 DEF Frame, Frames
<1>7. running[e] = None
  <2>1. CASE where = "require"
    BY <1>1, <1>5, <2>1 DEF Listed
  <2>2. CASE where = "startOne"
    <3>1. Ready(calls[c].stack, running)
      BY <1>1, <2>2, NothingInHand DEF InHand
    <3> QED
      BY <1>1, <1>3, <1>5, <2>2, <3>1 DEF Ready, At, Top
  <2> QED
    BY <1>1, <2>1, <2>2
<1>8. PICK f : f = [Top(c) EXCEPT !.at = "subscribe", !.n = 0]
  OBVIOUS
<1>9. /\ f \in Frame /\ f.at = "subscribe" /\ f.n = 0 /\ f.released = 0
      /\ f.e = e /\ f.binding = b
  BY <1>3, <1>4, <1>5, <1>6, <1>8 DEF Frame, Frames
<1>10. PICK w : w = v
  OBVIOUS
<1>11. /\ w.state = "starting" /\ w # None
       /\ running'[e] = w /\ \A x \in Experiences \ {e} : running'[x] = running[x]
  BY <1>2, <1>5, <1>10 DEF None, TypeOK
<1>12. WholeBut(e, b, running', leases')
  BY <1>2, <1>4, <1>7, <1>11 DEF WholeBut, Whole, Settled, Runs, RunsOrGone
<1>13. Leased(c, f, leases')
  <2>1. Len(Needs[e]) \in Nat
    BY ManifestAssumption, LenProperties
  <2>2. ASSUME NEW d \in Drivers
        PROVE  Len(leases'[<<b, e, d>>]) = Count(e, d, 0) - Count(e, d, 0)
    <3>1. Count(e, d, 0) = 0
      BY CountFacts
    <3>2. Len(leases[<<b, e, d>>]) = 0
      BY <1>4, <1>7 DEF Whole, Settled, Runs
    <3> QED
      BY <1>2, <3>1, <3>2
  <2>3. Taken(f) = 0
    BY <1>9 DEF Taken
  <2> QED
    BY <1>9, <2>1, <2>2, <2>3 DEF Leased
<1>14. Working(c, f, running', leases')
  BY <1>9, <1>12, <1>13 DEF Working
<1>15. where # "release" /\ f.at \in InHand
  BY <1>1, <1>9 DEF InHand
<1> QED
  BY <1>1, <1>2, <1>8, <1>9, <1>14, <1>15, HandMoves

\* What the other slots hold is not touched by a step on one of them.
LEMMA OneSlot ==
    ASSUME TypeOK, NEW x \in Experiences, NEW b \in Bindings, NEW d \in Drivers, NEW v,
           leases' = [leases EXCEPT ![<<b, x, d>>] = v], UNCHANGED running,
           WholeBut(x, b, running, leases)
    PROVE  /\ WholeBut(x, b, running', leases')
           /\ leases'[<<b, x, d>>] = v
           /\ \A o \in Drivers \ {d} : leases'[<<b, x, o>>] = leases[<<b, x, o>>]
<1>1. <<b, x, d>> \in Slots
  BY DEF Slots
<1>2. leases'[<<b, x, d>>] = v /\ \A s \in Slots \ {<<b, x, d>>} : leases'[s] = leases[s]
  BY <1>1 DEF TypeOK
<1>3. \A bb \in Bindings, e \in Experiences, o \in Drivers :
         bb # b \/ e # x \/ o # d => leases'[<<bb, e, o>>] = leases[<<bb, e, o>>]
  BY <1>2 DEF Slots
<1>4. WholeBut(x, b, running', leases')
  BY <1>3 DEF WholeBut, Settled
<1> QED
  BY <1>2, <1>3, <1>4

\* The driver that a frame looks at next.
LEMMA NextDriver ==
    ASSUME NEW e \in Experiences, NEW n \in Nat, n < Len(Needs[e])
    PROVE  /\ Needs[e][n + 1] \in Drivers /\ Len(Needs[e]) \in Nat
           /\ \A d \in Drivers :
                 /\ Count(e, d, n) \in Nat
                 /\ Count(e, d, n + 1) = Count(e, d, n) + (IF Needs[e][n + 1] = d THEN 1 ELSE 0)
<1>1. Needs[e] \in Seq(Drivers) /\ Len(Needs[e]) \in Nat
  BY ManifestAssumption, LenProperties
<1>2. n + 1 \in 1..Len(Needs[e])
  BY <1>1
<1> QED
  BY <1>1, <1>2, ElementOfSeq, CountFacts

\* The frame in hand: where it is and what is settled but for it.
LEMMA InHandFacts ==
    ASSUME NEW c \in Calls, AloneInv(c), NEW where \in InHand, At(c, where)
    PROVE  /\ Top(c) \in Frame /\ Top(c).at = where
           /\ Top(c).e \in Experiences /\ Top(c).binding \in Bindings
           /\ Top(c).n \in Nat /\ Top(c).released \in Nat
           /\ c \in Callers /\ TypeOK
           /\ WholeBut(Top(c).e, Top(c).binding, running, leases)
           /\ Leased(c, Top(c), leases)
<1>1. c \in Callers /\ TypeOK
  BY DEF Callers, AloneInv, IInv
<1>2. Top(c) \in Frame /\ Top(c).at = where
  BY <1>1, AtTop
<1>3. Working(c, Top(c), running, leases)
  BY OneInHand
<1> QED
  BY <1>1, <1>2, <1>3 DEF Frame, Frames, Working

LEMMA TakeLeaseAlone ==
    ASSUME NEW c \in Calls, AloneInv(c), IInv', TakeLease(c)
    PROVE  AloneInv(c)'
<1>1. /\ At(c, "subscribe") /\ Top(c).n < Len(Needs[Top(c).e]) /\ UNCHANGED running
      /\ leases' = [leases EXCEPT ![Slot(c)] = Append(leases[Slot(c)], c)]
      /\ SetTop(c, [Top(c) EXCEPT !.at = "settle"])
  BY DEF TakeLease, Subscribing
<1>2. "subscribe" \in InHand /\ "subscribe" # "release"
  BY DEF InHand
<1>3. PICK g \in Frame : g = Top(c)
  BY <1>1, <1>2, InHandFacts
<1>4. /\ g.at = "subscribe" /\ g.e \in Experiences /\ g.binding \in Bindings /\ g.n \in Nat
      /\ TypeOK /\ WholeBut(g.e, g.binding, running, leases) /\ Leased(c, g, leases)
  BY <1>1, <1>2, <1>3, InHandFacts
<1>5. PICK e \in Experiences, b \in Bindings, n \in Nat : e = g.e /\ b = g.binding /\ n = g.n
  BY <1>4
<1>6. /\ n < Len(Needs[e]) /\ Len(Needs[e]) \in Nat
      /\ \A o \in Drivers :
            /\ Count(e, o, n) \in Nat
            /\ Count(e, o, n + 1) = Count(e, o, n) + (IF Needs[e][n + 1] = o THEN 1 ELSE 0)
      /\ Needs[e][n + 1] \in Drivers
  BY <1>1, <1>3, <1>5, NextDriver
<1>7. PICK d \in Drivers : d = Needs[e][n + 1]
  BY <1>6
<1>8. Slot(c) = <<b, e, d>>
  BY <1>3, <1>5, <1>7 DEF Slot
<1>9. PICK old \in Seq(Calls \union {Held}) : old = leases[<<b, e, d>>]
  BY <1>4 DEF TypeOK, Slots
<1>10. /\ WholeBut(e, b, running', leases')
       /\ leases'[<<b, e, d>>] = Append(old, c)
       /\ \A o \in Drivers \ {d} : leases'[<<b, e, o>>] = leases[<<b, e, o>>]
  <2>1. leases' = [leases EXCEPT ![<<b, e, d>>] = Append(old, c)]
    BY <1>1, <1>8, <1>9
  <2>2. TypeOK /\ WholeBut(e, b, running, leases) /\ UNCHANGED running
    BY <1>1, <1>4, <1>5
  <2> QED
    BY <2>1, <2>2, OneSlot
<1>11. PICK f : f = [g EXCEPT !.at = "settle"]
  OBVIOUS
<1>12. /\ f \in Frame /\ f.at = "settle" /\ f.n = n /\ f.released = 0 /\ f.e = e /\ f.binding = b
  BY <1>4, <1>5, <1>11 DEF Frame, Frames, Leased
<1>13. /\ Len(old) \in Nat /\ Len(Append(old, c)) = Len(old) + 1
       /\ Len(old) + 1 \in DOMAIN Append(old, c) /\ Append(old, c)[Len(old) + 1] = c
  BY <1>9, LenProperties, AppendProperties
<1>14. ASSUME NEW o \in Drivers
       PROVE  Len(leases'[<<b, e, o>>]) = Count(e, o, Taken(f)) - Count(e, o, f.released)
  <2>1. Len(leases[<<b, e, o>>]) = Count(e, o, n) - Count(e, o, 0) /\ Count(e, o, 0) = 0
    BY <1>4, <1>5, CountFacts DEF Leased, Taken
  <2>2. Taken(f) = n + 1
    BY <1>12 DEF Taken
  <2>3. CASE o = d
    <3>1. Len(leases'[<<b, e, o>>]) = Len(leases[<<b, e, o>>]) + 1
      BY <1>9, <1>10, <1>13, <2>3
    <3>2. Count(e, o, n + 1) = Count(e, o, n) + 1 /\ Count(e, o, n) \in Nat
      BY <1>6, <1>7, <2>3
    <3> QED
      BY <1>12, <2>1, <2>2, <3>1, <3>2
  <2>4. CASE o # d
    <3>1. Len(leases'[<<b, e, o>>]) = Len(leases[<<b, e, o>>])
      BY <1>10, <2>4
    <3>2. Count(e, o, n + 1) = Count(e, o, n)
      BY <1>6, <1>7, <2>4
    <3> QED
      BY <1>12, <2>1, <2>2, <3>1, <3>2
  <2> QED
    BY <2>3, <2>4
<1>15. Leased(c, f, leases')
  <2>1. NextSlot(f) = <<b, e, d>>
    BY <1>7, <1>12 DEF NextSlot
  <2>2. \E i \in DOMAIN leases'[NextSlot(f)] : leases'[NextSlot(f)][i] = c
    BY <1>10, <1>13, <2>1
  <2> QED
    BY <1>6, <1>12, <1>14, <2>2 DEF Leased
<1>16. Working(c, f, running', leases') /\ f.at \in InHand
  BY <1>10, <1>12, <1>15 DEF Working, InHand
<1> QED
  BY <1>1, <1>2, <1>3, <1>11, <1>12, <1>16, HandMoves

LEMMA RefuseLeaseAlone ==
    ASSUME NEW c \in Calls, AloneInv(c), IInv', RefuseLease(c)
    PROVE  AloneInv(c)'
<1>1. /\ At(c, "subscribe") /\ UNCHANGED <<running, leases>>
      /\ SetTop(c, [Top(c) EXCEPT !.at = "undo"])
  BY DEF RefuseLease, Subscribing
<1>2. "subscribe" \in InHand /\ "subscribe" # "release"
  BY DEF InHand
<1>3. PICK g \in Frame : g = Top(c)
  BY <1>1, <1>2, InHandFacts
<1>4. g.at = "subscribe" /\ WholeBut(g.e, g.binding, running, leases) /\ Leased(c, g, leases)
  BY <1>1, <1>2, <1>3, InHandFacts
<1>5. PICK f : f = [g EXCEPT !.at = "undo"]
  OBVIOUS
<1>6. /\ f \in Frame /\ f.at = "undo" /\ f.n = g.n /\ f.released = g.released
      /\ f.e = g.e /\ f.binding = g.binding /\ Taken(f) = Taken(g)
  BY <1>4, <1>5 DEF Frame, Frames, Taken
<1>7. Leased(c, f, leases')
  BY <1>1, <1>4, <1>6 DEF Leased
<1>8. Working(c, f, running', leases') /\ f.at \in InHand
  BY <1>1, <1>4, <1>6, <1>7 DEF Working, InHand
<1> QED
  BY <1>1, <1>2, <1>3, <1>5, <1>6, <1>8, HandMoves

LEMMA SubscribedAlone ==
    ASSUME NEW c \in Calls, AloneInv(c), IInv', Subscribed(c)
    PROVE  AloneInv(c)'
<1> DEFINE settled(list) == [i \in DOMAIN list |-> IF list[i] = c THEN Held ELSE list[i]]
<1>1. /\ At(c, "settle") /\ UNCHANGED running
      /\ leases' = [leases EXCEPT ![Slot(c)] = settled(leases[Slot(c)])]
      /\ SetTop(c, [Top(c) EXCEPT !.at = "subscribe", !.n = Top(c).n + 1])
  BY DEF Subscribed
<1>2. "settle" \in InHand /\ "settle" # "release"
  BY DEF InHand
<1>3. PICK g \in Frame : g = Top(c)
  BY <1>1, <1>2, InHandFacts
<1>4. /\ g.at = "settle" /\ g.e \in Experiences /\ g.binding \in Bindings /\ g.n \in Nat
      /\ TypeOK /\ WholeBut(g.e, g.binding, running, leases) /\ Leased(c, g, leases)
  BY <1>1, <1>2, <1>3, InHandFacts
<1>5. PICK e \in Experiences, b \in Bindings, n \in Nat : e = g.e /\ b = g.binding /\ n = g.n
  BY <1>4
<1>6. n < Len(Needs[e]) /\ Len(Needs[e]) \in Nat /\ Needs[e][n + 1] \in Drivers
  <2>1. n < Len(Needs[e])
    BY <1>4, <1>5 DEF Leased
  <2> QED
    BY <2>1, NextDriver
<1>7. PICK d \in Drivers : d = Needs[e][n + 1]
  BY <1>6
<1>8. Slot(c) = <<b, e, d>>
  BY <1>3, <1>5, <1>7 DEF Slot
<1>9. PICK old \in Seq(Calls \union {Held}) : old = leases[<<b, e, d>>]
  BY <1>4 DEF TypeOK, Slots
<1>10. PICK new : new = settled(old)
  OBVIOUS
<1>11. Len(new) = Len(old)
  BY <1>9, <1>10
<1>12. /\ WholeBut(e, b, running', leases')
       /\ leases'[<<b, e, d>>] = new
       /\ \A o \in Drivers \ {d} : leases'[<<b, e, o>>] = leases[<<b, e, o>>]
  <2>1. leases' = [leases EXCEPT ![<<b, e, d>>] = new]
    BY <1>1, <1>8, <1>9, <1>10
  <2>2. TypeOK /\ WholeBut(e, b, running, leases) /\ UNCHANGED running
    BY <1>1, <1>4, <1>5
  <2> QED
    BY <2>1, <2>2, OneSlot
<1>13. PICK f : f = [g EXCEPT !.at = "subscribe", !.n = g.n + 1]
  OBVIOUS
<1>14. /\ f \in Frame /\ f.at = "subscribe" /\ f.n = n + 1 /\ f.released = 0
       /\ f.e = e /\ f.binding = b
  <2>1. n + 1 \in Nat
    OBVIOUS
  <2> QED
    BY <1>4, <1>5, <1>13, <2>1 DEF Frame, Frames, Leased
<1>15. ASSUME NEW o \in Drivers
       PROVE  Len(leases'[<<b, e, o>>]) = Count(e, o, Taken(f)) - Count(e, o, f.released)
  <2>1. Len(leases[<<b, e, o>>]) = Count(e, o, n + 1) - Count(e, o, 0)
    BY <1>4, <1>5 DEF Leased, Taken
  <2>2. Taken(f) = n + 1
    BY <1>14 DEF Taken
  <2>3. Len(leases'[<<b, e, o>>]) = Len(leases[<<b, e, o>>])
    BY <1>9, <1>11, <1>12
  <2> QED
    BY <1>14, <2>1, <2>2, <2>3
<1>16. Leased(c, f, leases')
  BY <1>6, <1>14, <1>15 DEF Leased
<1>17. Working(c, f, running', leases') /\ f.at \in InHand
  BY <1>12, <1>14, <1>16 DEF Working, InHand
<1> QED
  BY <1>1, <1>2, <1>3, <1>13, <1>14, <1>17, HandMoves

LEMMA OneFewer ==
    ASSUME NEW c, NEW S, NEW s \in Seq(S), NEW k \in DOMAIN s, s[k] = c
    PROVE  Len(Dropped(c, s)) = Len(s) - 1 /\ Len(s) \in Nat
<1> DEFINE own == {i \in DOMAIN s : s[i] = c}
<1>1. PICK m : m = CHOOSE i \in own : TRUE
  OBVIOUS
<1>2. own # {} /\ m \in 1..Len(s) /\ Len(s) \in Nat
  BY <1>1, LenProperties
<1>3. \A i \in 1..Len(s) : s[i] \in S
  BY ElementOfSeq
<1>4. Dropped(c, s) = SubSeq(s, 1, m - 1) \o SubSeq(s, m + 1, Len(s))
  BY <1>1, <1>2 DEF Dropped, RemoveAt
<1>5. SubSeq(s, 1, m - 1) \in Seq(S) /\ Len(SubSeq(s, 1, m - 1)) = m - 1
  <2>1. 1 \in Int /\ m - 1 \in Int /\ \A i \in 1..(m - 1) : s[i] \in S
    BY <1>2, <1>3
  <2>2. SubSeq(s, 1, m - 1) \in Seq(S) /\ Len(SubSeq(s, 1, m - 1)) = IF 1 <= m - 1 THEN m - 1 - 1 + 1 ELSE 0
    BY <2>1, SubSeqProperties
  <2> QED
    BY <1>2, <2>2
<1>6. SubSeq(s, m + 1, Len(s)) \in Seq(S) /\ Len(SubSeq(s, m + 1, Len(s))) = Len(s) - m
  <2>1. m + 1 \in Int /\ Len(s) \in Int /\ \A i \in (m + 1)..Len(s) : s[i] \in S
    BY <1>2, <1>3
  <2>2. /\ SubSeq(s, m + 1, Len(s)) \in Seq(S)
        /\ Len(SubSeq(s, m + 1, Len(s))) = IF m + 1 <= Len(s) THEN Len(s) - (m + 1) + 1 ELSE 0
    BY <2>1, SubSeqProperties
  <2> QED
    BY <1>2, <2>2
<1>7. PICK p, q : p = SubSeq(s, 1, m - 1) /\ q = SubSeq(s, m + 1, Len(s))
  OBVIOUS
<1>8. Len(p \o q) = Len(p) + Len(q)
  BY <1>5, <1>6, <1>7, ConcatProperties
<1>9. Len(p \o q) = m - 1 + (Len(s) - m)
  BY <1>5, <1>6, <1>7, <1>8
<1>10. Len(Dropped(c, s)) = m - 1 + (Len(s) - m)
  BY <1>4, <1>7, <1>9
<1> QED
  BY <1>2, <1>10

LEMMA SubscribeFailsAlone ==
    ASSUME NEW c \in Calls, AloneInv(c), IInv', SubscribeFails(c)
    PROVE  AloneInv(c)'
<1>1. /\ At(c, "settle") /\ UNCHANGED running
      /\ leases' = [leases EXCEPT ![Slot(c)] = Dropped(c, leases[Slot(c)])]
      /\ SetTop(c, [Top(c) EXCEPT !.at = "undo"])
  BY DEF SubscribeFails
<1>2. "settle" \in InHand /\ "settle" # "release"
  BY DEF InHand
<1>3. PICK g \in Frame : g = Top(c)
  BY <1>1, <1>2, InHandFacts
<1>4. /\ g.at = "settle" /\ g.e \in Experiences /\ g.binding \in Bindings /\ g.n \in Nat
      /\ TypeOK /\ WholeBut(g.e, g.binding, running, leases) /\ Leased(c, g, leases)
  BY <1>1, <1>2, <1>3, InHandFacts
<1>5. PICK e \in Experiences, b \in Bindings, n \in Nat : e = g.e /\ b = g.binding /\ n = g.n
  BY <1>4
<1>6. /\ n < Len(Needs[e]) /\ Len(Needs[e]) \in Nat /\ Needs[e][n + 1] \in Drivers
      /\ \A o \in Drivers :
            /\ Count(e, o, n) \in Nat
            /\ Count(e, o, n + 1) = Count(e, o, n) + (IF Needs[e][n + 1] = o THEN 1 ELSE 0)
  <2>1. n < Len(Needs[e])
    BY <1>4, <1>5 DEF Leased
  <2> QED
    BY <2>1, NextDriver
<1>7. PICK d \in Drivers : d = Needs[e][n + 1]
  BY <1>6
<1>8. Slot(c) = <<b, e, d>> /\ NextSlot(g) = <<b, e, d>>
  BY <1>3, <1>5, <1>7 DEF Slot, NextSlot
<1>9. PICK old \in Seq(Calls \union {Held}) : old = leases[<<b, e, d>>]
  BY <1>4 DEF TypeOK, Slots
<1>10. PICK new : new = Dropped(c, old)
  OBVIOUS
<1>11. Len(new) = Len(old) - 1 /\ Len(old) \in Nat
  <2>1. PICK k \in DOMAIN old : old[k] = c
    BY <1>4, <1>8, <1>9 DEF Leased
  <2> QED
    BY <1>9, <1>10, <2>1, OneFewer
<1>12. /\ WholeBut(e, b, running', leases')
       /\ leases'[<<b, e, d>>] = new
       /\ \A o \in Drivers \ {d} : leases'[<<b, e, o>>] = leases[<<b, e, o>>]
  <2>1. leases' = [leases EXCEPT ![<<b, e, d>>] = new]
    BY <1>1, <1>8, <1>9, <1>10
  <2>2. TypeOK /\ WholeBut(e, b, running, leases) /\ UNCHANGED running
    BY <1>1, <1>4, <1>5
  <2> QED
    BY <2>1, <2>2, OneSlot
<1>13. PICK f : f = [g EXCEPT !.at = "undo"]
  OBVIOUS
<1>14. /\ f \in Frame /\ f.at = "undo" /\ f.n = n /\ f.released = 0
       /\ f.e = e /\ f.binding = b
  BY <1>4, <1>5, <1>13 DEF Frame, Frames, Leased
<1>15. ASSUME NEW o \in Drivers
       PROVE  Len(leases'[<<b, e, o>>]) = Count(e, o, Taken(f)) - Count(e, o, f.released)
  <2>1. Len(leases[<<b, e, o>>]) = Count(e, o, n + 1) - Count(e, o, 0) /\ Count(e, o, 0) = 0
    BY <1>4, <1>5, CountFacts DEF Leased, Taken
  <2>2. Taken(f) = n
    BY <1>14 DEF Taken
  <2>3. CASE o = d
    <3>1. Len(leases'[<<b, e, o>>]) = Len(leases[<<b, e, o>>]) - 1
      BY <1>9, <1>11, <1>12, <2>3
    <3>2. Count(e, o, n + 1) = Count(e, o, n) + 1 /\ Count(e, o, n) \in Nat
      BY <1>6, <1>7, <2>3
    <3> QED
      BY <1>14, <2>1, <2>2, <3>1, <3>2
  <2>4. CASE o # d
    <3>1. Len(leases'[<<b, e, o>>]) = Len(leases[<<b, e, o>>])
      BY <1>12, <2>4
    <3>2. Count(e, o, n + 1) = Count(e, o, n)
      BY <1>6, <1>7, <2>4
    <3> QED
      BY <1>14, <2>1, <2>2, <3>1, <3>2
  <2> QED
    BY <2>3, <2>4
<1>16. Leased(c, f, leases')
  BY <1>6, <1>14, <1>15 DEF Leased
<1>17. Working(c, f, running', leases') /\ f.at \in InHand
  BY <1>12, <1>14, <1>16 DEF Working, InHand
<1> QED
  BY <1>1, <1>2, <1>3, <1>13, <1>14, <1>17, HandMoves

\* A driver less to give back.
LEMMA ReleaseAlone ==
    ASSUME NEW c \in Calls, AloneInv(c), IInv', Release(c)
    PROVE  AloneInv(c)'
<1> DEFINE slot == <<Top(c).binding, Top(c).e, Needs[Top(c).e][Top(c).released + 1]>>
           less(list) == IF list = <<>> THEN list ELSE Front(list)
<1>1. PICK where \in {"release", "undo"} : At(c, where)
  BY DEF Release
<1>2. /\ UNCHANGED running /\ Top(c).released < Top(c).n
      /\ leases' = [leases EXCEPT ![slot] = less(leases[slot])]
      /\ SetTop(c, [Top(c) EXCEPT !.released = Top(c).released + 1])
      /\ where \in InHand
  BY <1>1 DEF Release, InHand
<1>3. PICK g \in Frame : g = Top(c)
  BY <1>1, <1>2, InHandFacts
<1>4. /\ g.at = where /\ g.e \in Experiences /\ g.binding \in Bindings
      /\ g.n \in Nat /\ g.released \in Nat
      /\ TypeOK /\ WholeBut(g.e, g.binding, running, leases) /\ Leased(c, g, leases)
  BY <1>1, <1>2, <1>3, InHandFacts
<1>5. PICK e \in Experiences, b \in Bindings, n \in Nat, m \in Nat :
         e = g.e /\ b = g.binding /\ n = g.n /\ m = g.released
  BY <1>4
<1>6. m < n /\ n <= Len(Needs[e]) /\ Len(Needs[e]) \in Nat
  <2>1. m < n /\ n <= Len(Needs[e])
    BY <1>2, <1>3, <1>4, <1>5 DEF Leased
  <2> QED
    BY <2>1, ManifestAssumption, LenProperties
<1>7. /\ Needs[e][m + 1] \in Drivers
      /\ \A o \in Drivers :
            /\ Count(e, o, m) \in Nat /\ Count(e, o, n) \in Nat
            /\ Count(e, o, m + 1) = Count(e, o, m) + (IF Needs[e][m + 1] = o THEN 1 ELSE 0)
            /\ Count(e, o, m + 1) <= Count(e, o, n)
  <2>1. m < Len(Needs[e]) /\ m + 1 <= n /\ m + 1 \in Nat
    BY <1>6
  <2>2. \A o \in Drivers : Count(e, o, m + 1) <= Count(e, o, n)
    BY <2>1, CountGrows
  <2> QED
    BY <2>1, <2>2, NextDriver, CountFacts
<1>8. PICK d \in Drivers : d = Needs[e][m + 1]
  BY <1>7
<1>9. slot = <<b, e, d>>
  BY <1>3, <1>5, <1>8
<1> HIDE DEF slot
<1>10. PICK old \in Seq(Calls \union {Held}) : old = leases[<<b, e, d>>]
  BY <1>4 DEF TypeOK, Slots
<1>11. \A o \in Drivers : Len(leases[<<b, e, o>>]) = Count(e, o, n) - Count(e, o, m)
  BY <1>1, <1>4, <1>5 DEF Leased, Taken
<1>12. PICK new : new = less(old)
  OBVIOUS
<1>13. Len(old) \in Nat /\ Len(new) = Len(old) - 1
  <2>1. Len(old) \in Nat /\ Len(old) >= 1
    BY <1>7, <1>8, <1>10, <1>11
  <2>2. old # <<>> /\ new = Front(old)
    BY <1>12, <2>1
  <2>3. \A i \in 1..Len(old) : old[i] \in Calls \union {Held}
    BY <1>10, ElementOfSeq
  <2>4. 1 \in Int /\ Len(old) - 1 \in Int /\ \A i \in 1..(Len(old) - 1) : old[i] \in Calls \union {Held}
    BY <2>1, <2>3
  <2>5. Len(SubSeq(old, 1, Len(old) - 1)) = IF 1 <= Len(old) - 1 THEN Len(old) - 1 - 1 + 1 ELSE 0
    BY <2>4, SubSeqProperties
  <2>6. new = SubSeq(old, 1, Len(old) - 1)
    BY <2>2 DEF Front
  <2>7. Len(new) = IF 1 <= Len(old) - 1 THEN Len(old) - 1 - 1 + 1 ELSE 0
    BY <2>5, <2>6
  <2>8. PICK k \in Nat : k = Len(old) /\ k >= 1
    BY <2>1
  <2>9. Len(new) = k - 1
    BY <2>7, <2>8
  <2> QED
    BY <2>8, <2>9
<1>14. /\ WholeBut(e, b, running', leases')
       /\ leases'[<<b, e, d>>] = new
       /\ \A o \in Drivers \ {d} : leases'[<<b, e, o>>] = leases[<<b, e, o>>]
  <2>1. leases' = [leases EXCEPT ![<<b, e, d>>] = new]
    BY <1>2, <1>9, <1>10, <1>12
  <2>2. TypeOK /\ WholeBut(e, b, running, leases) /\ UNCHANGED running
    BY <1>2, <1>4, <1>5
  <2> QED
    BY <2>1, <2>2, OneSlot
<1>15. PICK f : f = [g EXCEPT !.released = g.released + 1]
  OBVIOUS
<1>16. /\ f \in Frame /\ f.at = where /\ f.n = n /\ f.released = m + 1
       /\ f.e = e /\ f.binding = b
  <2>1. m + 1 \in Nat
    OBVIOUS
  <2> QED
    BY <1>4, <1>5, <1>15, <2>1 DEF Frame, Frames
<1>17. ASSUME NEW o \in Drivers
       PROVE  Len(leases'[<<b, e, o>>]) = Count(e, o, Taken(f)) - Count(e, o, f.released)
  <2>1. Taken(f) = n
    BY <1>1, <1>16 DEF Taken
  <2>2. CASE o = d
    <3>1. Len(leases'[<<b, e, d>>]) = Len(old) - 1 /\ Len(old) \in Nat
      BY <1>13, <1>14
    <3>2. Len(old) = Count(e, d, n) - Count(e, d, m)
      BY <1>10, <1>11
    <3>3. Count(e, d, m + 1) = Count(e, d, m) + 1 /\ Count(e, d, m) \in Nat /\ Count(e, d, n) \in Nat
      BY <1>7, <1>8
    <3> QED
      BY <1>16, <2>1, <2>2, <3>1, <3>2, <3>3
  <2>3. CASE o # d
    <3>1. Len(leases'[<<b, e, o>>]) = Count(e, o, n) - Count(e, o, m)
      BY <1>11, <1>14, <2>3
    <3>2. Count(e, o, m + 1) = Count(e, o, m)
      BY <1>7, <1>8, <2>3
    <3> QED
      BY <1>16, <2>1, <3>1, <3>2
  <2> QED
    BY <2>2, <2>3
<1>18. Leased(c, f, leases')
  BY <1>1, <1>6, <1>16, <1>17 DEF Leased
<1>19. Working(c, f, running', leases') /\ f.at \in InHand
  BY <1>2, <1>14, <1>16, <1>18 DEF Working
<1> QED
  BY <1>1, <1>2, <1>3, <1>4, <1>5, <1>15, <1>16, <1>19, HandMoves

LEMMA StartedAlone ==
    ASSUME NEW c \in Calls, AloneInv(c), IInv', Started(c)
    PROVE  AloneInv(c)'
<1> DEFINE v == [state |-> "running", startedAs |-> StartedAs(c), binding |-> Top(c).binding]
           rest == Front(calls[c].stack)
           done == Append(calls[c].started, Top(c).e)
<1>1. /\ At(c, "subscribe") /\ Top(c).n = Len(Needs[Top(c).e]) /\ UNCHANGED leases
      /\ running' = [running EXCEPT ![Top(c).e] = v]
      /\ calls' = [calls EXCEPT ![c] =
            IF rest = <<>> THEN NoCall ELSE [calls[c] EXCEPT !.stack = rest, !.started = done]]
  BY DEF Started
<1>2. "subscribe" \in InHand /\ "subscribe" # "release"
  BY DEF InHand
<1>3. PICK g \in Frame : g = Top(c)
  BY <1>1, <1>2, InHandFacts
<1>4. /\ g.at = "subscribe" /\ g.e \in Experiences /\ g.binding \in Bindings /\ g.n \in Nat
      /\ TypeOK /\ WholeBut(g.e, g.binding, running, leases) /\ Leased(c, g, leases)
      /\ c \in Callers
  BY <1>1, <1>2, <1>3, InHandFacts
<1>5. PICK e \in Experiences, b \in Bindings : e = g.e /\ b = g.binding
  BY <1>4
<1>6. PICK w : w = v
  OBVIOUS
<1>7. /\ w.state = "running" /\ w.binding = b /\ w # None
      /\ running'[e] = w /\ \A x \in Experiences \ {e} : running'[x] = running[x]
  BY <1>1, <1>3, <1>4, <1>5, <1>6 DEF TypeOK, None
<1>8. \A d \in Drivers : Len(leases[<<b, e, d>>]) = Wanted(e, d)
  <2>1. ASSUME NEW d \in Drivers
        PROVE  Len(leases[<<b, e, d>>]) = Wanted(e, d)
    <3>1. Len(leases[<<b, e, d>>]) = Count(e, d, Len(Needs[e])) - Count(e, d, 0)
      BY <1>1, <1>3, <1>4, <1>5 DEF Leased, Taken
    <3>2. Len(Needs[e]) \in Nat
      BY ManifestAssumption, LenProperties
    <3>3. Count(e, d, 0) = 0 /\ Wanted(e, d) = Count(e, d, Len(Needs[e])) /\ Count(e, d, Len(Needs[e])) \in Nat
      BY <3>2, CountFacts
    <3> QED
      BY <3>1, <3>3
  <2> QED
    BY <2>1
<1>9. WholeBut(e, b, running, leases)
  BY <1>4, <1>5
<1>10. ASSUME NEW bb \in Bindings, NEW x \in Experiences, NEW d \in Drivers
       PROVE  Settled(running', leases, bb, x, d)
  <2>1. CASE x # e
    BY <1>7, <1>9, <2>1 DEF WholeBut, Settled, Runs
  <2>2. CASE x = e /\ bb # b
    <3>1. Len(leases[<<bb, x, d>>]) = 0
      BY <1>9, <2>2 DEF WholeBut, Settled, Runs
    <3> QED
      BY <1>7, <2>2, <3>1 DEF Settled, Runs
  <2>3. CASE x = e /\ bb = b
    BY <1>7, <1>8, <2>3 DEF Settled, Runs
  <2> QED
    BY <2>1, <2>2, <2>3
<1>11. Whole(running', leases')
  BY <1>1, <1>7, <1>9, <1>10 DEF Whole, WholeBut, RunsOrGone
<1>12. PICK s : s = rest
  OBVIOUS
<1>13. Ready(s, running') /\ (s # <<>> => Last(s).at \notin InHand)
  BY <1>1, <1>2, <1>12, Resumes, Zenon
<1>14. calls[c] \in StartCall
  BY <1>1, <1>2, <1>4, AtTop, Zenon
<1>15. PICK r : r = IF s = <<>> THEN NoCall ELSE [calls[c] EXCEPT !.stack = s, !.started = done]
  OBVIOUS
<1>16. calls' = [calls EXCEPT ![c] = r]
  BY <1>1, <1>12, <1>15
<1>17. r # NoCall => r.stack = s
  BY <1>14, <1>15 DEF StartCall
<1> QED
  BY <1>11, <1>13, <1>16, <1>17, Pauses

\* A frame that has given back all it had is done: nothing is on its way.
LEMMA GoneIsWhole ==
    ASSUME NEW c \in Calls, AloneInv(c), NEW where \in {"release", "undo"}, Released(c, where),
           running' = [running EXCEPT ![Top(c).e] = None], UNCHANGED leases
    PROVE  Whole(running', leases') /\ running'[Top(c).e] = None
<1>1. At(c, where) /\ Top(c).released = Top(c).n /\ where \in InHand
  BY DEF Released, InHand
<1>2. PICK g \in Frame : g = Top(c)
  BY <1>1, InHandFacts
<1>3. /\ g.at = where /\ g.e \in Experiences /\ g.binding \in Bindings /\ g.n \in Nat
      /\ TypeOK /\ WholeBut(g.e, g.binding, running, leases) /\ Leased(c, g, leases)
  BY <1>1, <1>2, InHandFacts
<1>4. PICK e \in Experiences, b \in Bindings, n \in Nat : e = g.e /\ b = g.binding /\ n = g.n
  BY <1>3
<1>5. running'[e] = None /\ \A x \in Experiences \ {e} : running'[x] = running[x]
  BY <1>2, <1>3, <1>4, Gone
<1>6. \A d \in Drivers : Len(leases[<<b, e, d>>]) = 0
  <2>1. ASSUME NEW d \in Drivers
        PROVE  Len(leases[<<b, e, d>>]) = 0
    <3>1. Len(leases[<<b, e, d>>]) = Count(e, d, n) - Count(e, d, n)
      BY <1>1, <1>2, <1>3, <1>4 DEF Leased, Taken
    <3>2. Count(e, d, n) \in Nat
      BY CountFacts
    <3> QED
      BY <3>1, <3>2
  <2> QED
    BY <2>1
<1>7. WholeBut(e, b, running, leases)
  BY <1>3, <1>4
<1>8. ASSUME NEW bb \in Bindings, NEW x \in Experiences, NEW d \in Drivers
      PROVE  Settled(running', leases, bb, x, d)
  <2>1. CASE x # e
    BY <1>5, <1>7, <2>1 DEF WholeBut, Settled, Runs
  <2>2. CASE x = e
    <3>1. Len(leases[<<bb, x, d>>]) = 0
      BY <1>6, <1>7, <2>2 DEF WholeBut, Settled, Runs
    <3> QED
      BY <1>5, <2>2, <3>1 DEF Settled, Runs
  <2> QED
    BY <2>1, <2>2
<1>9. Whole(running', leases')
  BY <1>5, <1>7, <1>8 DEF Whole, WholeBut, RunsOrGone
<1> QED
  BY <1>2, <1>4, <1>5, <1>9

LEMMA StartFailedAlone ==
    ASSUME NEW c \in Calls, AloneInv(c), IInv', StartFailed(c)
    PROVE  AloneInv(c)'
<1>1. /\ Released(c, "undo") /\ UNCHANGED leases /\ Throw(c)
      /\ running' = [running EXCEPT ![Top(c).e] = None]
  BY DEF StartFailed
<1>2. Whole(running', leases')
  BY <1>1, GoneIsWhole
<1>3. calls[c] \in StartCall
  <2>1. At(c, "undo") /\ "undo" # "release" /\ TypeOK /\ c \in Callers
    BY <1>1 DEF Released, AloneInv, IInv, Callers
  <2> QED
    BY <2>1, AtTop, Zenon
<1> QED
  BY <1>1, <1>2, <1>3, ThrowAlone

LEMMA StoppedAlone ==
    ASSUME NEW c \in Calls, AloneInv(c), IInv', Stopped(c)
    PROVE  AloneInv(c)'
<1>1. /\ Released(c, "release") /\ UNCHANGED leases /\ Return(c)
      /\ running' = [running EXCEPT ![Top(c).e] = None]
  BY DEF Stopped
<1>2. Whole(running', leases') /\ running'[Top(c).e] = None
  BY <1>1, GoneIsWhole
<1>3. At(c, "release")
  BY <1>1 DEF Released
<1> QED
  BY <1>1, <1>2, <1>3, ReturnAlone

LEMMA RollbackAlone ==
    ASSUME NEW c \in Calls, AloneInv(c), IInv', Rollback(c)
    PROVE  AloneInv(c)'
<1> DEFINE next == [calls[c] EXCEPT !.started = Front(calls[c].started)]
           last == Last(calls[c].started)
<1>1. /\ Failing(c) /\ UNCHANGED leases
      /\ \/ /\ last \in Listed
            /\ running' = [running EXCEPT ![last].state = "stopping"]
            /\ calls' = [calls EXCEPT ![c] = [next EXCEPT !.stack = <<StopFrame(last)>>]]
         \/ calls' = [calls EXCEPT ![c] = next] /\ UNCHANGED running
  BY DEF Rollback
<1>2. /\ Whole(running, leases) /\ TypeOK /\ c \in Callers
      /\ calls[c] \in StartCall /\ calls[c].stack = <<>>
  BY <1>1 DEF Failing, AloneInv, Sound, IInv, TypeOK, Callers, StopCall
<1>3. PICK m : m = next
  OBVIOUS
<1>4. m.stack = <<>> /\ m # NoCall /\ DOMAIN m = DOMAIN calls[c] /\ "stack" \in DOMAIN m
  BY <1>2, <1>3 DEF StartCall, NoCall
<1>5. CASE calls' = [calls EXCEPT ![c] = next] /\ UNCHANGED running
  <2>1. Ready(<<>>, running')
    BY NoFrames DEF Ready
  <2> QED
    BY <1>1, <1>2, <1>3, <1>4, <1>5, <2>1, Pauses
<1>6. CASE /\ last \in Listed
           /\ running' = [running EXCEPT ![last].state = "stopping"]
           /\ calls' = [calls EXCEPT ![c] = [next EXCEPT !.stack = <<StopFrame(last)>>]]
  <2>1. PICK f : f = StopFrame(last)
    OBVIOUS
  <2>2. f \in Frame /\ f.at = "release"
    BY <1>2, <1>6, <2>1, StopFrameReleases
  <2>3. Working(c, f, running', leases')
    BY <1>1, <1>2, <1>6, <2>1, StopFrameIsWhole
  <2>4. Last(<<f>>) = f /\ <<f>> # <<>>
    BY DEF Last
  <2>5. PICK r : r = [m EXCEPT !.stack = <<f>>]
    OBVIOUS
  <2>6. r.stack = <<f>> /\ calls' = [calls EXCEPT ![c] = r]
    BY <1>3, <1>4, <1>6, <2>1, <2>5
  <2>7. Ready(<<f>>, running')
    BY <2>2, <2>4, NoFrames DEF Ready
  <2>8. r # NoCall
    BY <1>4, <2>5, <2>6 DEF NoCall
  <2>9. Sound(c, r, running', leases')
    BY <2>2, <2>3, <2>4, <2>6, <2>7, <2>8 DEF Sound, InHand
  <2> QED
    BY <2>6, <2>9, AloneMoves
<1> QED
  BY <1>1, <1>5, <1>6

LEMMA StartThrowsAlone ==
    ASSUME NEW c \in Calls, AloneInv(c), IInv', StartThrows(c)
    PROVE  AloneInv(c)'
<1>1. /\ Failing(c) /\ UNCHANGED <<running, leases>>
      /\ calls' = [calls EXCEPT ![c] = NoCall]
  BY DEF StartThrows
<1>2. Whole(running', leases')
  BY <1>1 DEF Failing, AloneInv, Sound
<1> QED
  BY <1>1, <1>2, Pauses

-----------------------------------------------------------------------------
(* Every step of a call alone.                                             *)

LEMMA StepAlone ==
    ASSUME NEW c \in Calls, Calls = {c}, AloneInv(c), [ClientsNext]_vars
    PROVE  AloneInv(c)'
<1>1. IInv'
  BY StepKeeps DEF AloneInv, Next
<1>2. ASSUME NEW e \in Experiences, Step(e)
      PROVE  FALSE
  <2>1. calls[e] = NoCall
    BY DEF AloneInv
  <2> QED
    BY <1>2, <2>1 DEF Step, StopConflict, Require, RequireCycle, Reuse, Replace, StartOne, TakeLease,
       RefuseLease, Subscribed, SubscribeFails, Started, StartFailed, Release, Stopped, Rollback,
       StartThrows, RequirementsLeft, RequirementsDone, Subscribing, Released, Failing, At
<1>3. CASE Step(c)
  BY <1>1, <1>3, StopConflictAlone, RequireAlone, RequireCycleAlone, ReuseAlone, ReplaceAlone,
     StartOneAlone, TakeLeaseAlone, RefuseLeaseAlone, SubscribedAlone, SubscribeFailsAlone,
     StartedAlone, StartFailedAlone, ReleaseAlone, StoppedAlone, RollbackAlone,
     StartThrowsAlone DEF Step
<1>4. ASSUME NEW x \in Calls, NEW e \in Experiences, NEW b \in Bindings, StartExperience(x, e, b)
      PROVE  AloneInv(c)'
  BY <1>1, <1>4, StartExperienceAlone
<1>5. ASSUME NEW x \in Calls, NEW e \in Experiences, NEW crash \in BOOLEAN,
             StopExperience(x, e, crash)
      PROVE  AloneInv(c)'
  BY <1>1, <1>5, StopExperienceAlone
<1>6. CASE UNCHANGED vars
  BY <1>1, <1>6 DEF AloneInv, vars
<1>7. CASE ClientsNext
  <2>1. ASSUME NEW x \in Callers, Step(x)
        PROVE  AloneInv(c)'
    BY <1>2, <1>3, <2>1 DEF Callers
  <2> QED
    BY <1>4, <1>5, <1>7, <2>1 DEF ClientsNext
<1> QED
  BY <1>6, <1>7

LEMMA InitAlone ==
    ASSUME NEW c \in Calls, Init
    PROVE  AloneInv(c)
<1>1. calls[c] = NoCall /\ \A e \in Experiences : calls[e] = NoCall
  BY DEF Init, Callers
<1>2. \A e \in Experiences : running[e] = None
  BY DEF Init
<1>3. \A b \in Bindings, e \in Experiences, d \in Drivers : leases[<<b, e, d>>] = <<>>
  BY DEF Init, Slots
<1>4. Whole(running, leases)
  BY <1>2, <1>3 DEF Whole, Settled, Runs, RunsOrGone
<1> QED
  BY <1>1, <1>4, InitHolds DEF AloneInv, Sound

\* For every manifest, when calls come one at a time and the server is not told
\* to stop: once a call has returned, every experience has exactly the leases
\* on its drivers that it runs with, whatever the call replaced, stopped,
\* failed at or took back (releaseDrivers and startOne of manager.ts).
THEOREM LeasesAddUp ==
    ASSUME NEW c, Calls = {c}
    PROVE  ClientsSpec => []LeasesMatch
<1>1. c \in Calls
  OBVIOUS
<1>2. Init => AloneInv(c)
  BY <1>1, InitAlone
<1>3. AloneInv(c) /\ [ClientsNext]_vars => AloneInv(c)'
  BY <1>1, StepAlone
<1>4. AloneInv(c) => LeasesMatch
  <2> SUFFICES ASSUME AloneInv(c), AllReturned
               PROVE  LeasesMatch
    BY DEF LeasesMatch
  <2>1. Whole(running, leases)
    BY <1>1 DEF AloneInv, Sound, AllReturned, Callers
  <2> QED
    BY <2>1 DEF LeasesMatch, Whole, Settled, Runs, RunsWith
<1> QED
  BY <1>2, <1>3, <1>4, PTL DEF ClientsSpec
=============================================================================
