---------------------------- MODULE BallTracking ----------------------------
(***************************************************************************)
(* The ball driver (drivers/ball.py): detection on the frame worker, the   *)
(* tracker that carries balls from one processed frame to the next, and    *)
(* the reload of the model by an action on another thread.                 *)
(*                                                                         *)
(* Positions lie on a line and a frame is one unit of time.                *)
(***************************************************************************)
EXTENDS Integers, Sequences, FiniteSetsExt, SequencesExt

CONSTANTS Width,      \* positions are 0..Width
          MaxBalls,   \* balls of one frame
          Near, Far,  \* least and greatest radius of a match
          MaxMiss,    \* frames a ball is kept for (3)
          RenderMiss, \* frames it is still shown for (2)
          MaxFrames,  \* bound on frames
          MaxReloads  \* bound on reloads

VARIABLES tracks,   \* the balls, oldest first
          frames,   \* frames received
          skip,     \* frames left out between two
          session,  \* the model is loaded
          reload,   \* where set_cuda_device is
          data,     \* where on_data is
          matched,  \* what the last frame's detections were matched with
          shown,    \* the balls last emitted
          reloads

bVars == <<tracks, frames, skip, session, reload, data, matched, shown, reloads>>

Positions == 0..Width
Tracks == [pos : Positions, vel : -Width..Width, seen : 1..MaxFrames, missed : 0..MaxMiss]
NoMatch == [before |-> <<>>, found |-> <<>>, pairs |-> {}, at |-> 0]

BallTypeOK ==
  /\ \A i \in DOMAIN tracks : tracks[i] \in Tracks
  /\ frames \in 0..MaxFrames /\ skip \in 0..1 /\ session \in BOOLEAN
  /\ reload \in {"idle", "loading"} /\ data \in {"idle", "infer", "track"}
  /\ reloads \in 0..MaxReloads
  /\ \A i \in DOMAIN shown : shown[i].missed <= RenderMiss

BallInit ==
  /\ tracks = <<>> /\ frames = 0 /\ skip = 0 /\ session = TRUE /\ reload = "idle"
  /\ data = "idle" /\ matched = NoMatch /\ shown = <<>> /\ reloads = 0

-----------------------------------------------------------------------------
(* The tracker                                                              *)

Apart(x, y) == IF x < y THEN y - x ELSE x - y

\* predict: where a ball should be at frame t.
Predicted(trk, t) == trk.pos + trk.vel * (t - trk.seen)

\* The radius a match must lie in grows with the ball's speed.
Gate(trk, t) == Min({Far, Max({Near, Apart(trk.vel, 0) * (t - trk.seen)})})

\* Tracks and detections near enough, nearest first.
Pairs(trks, found, t) ==
  LET near == {p \in (DOMAIN trks) \X (DOMAIN found) :
                 Apart(found[p[2]], Predicted(trks[p[1]], t)) < Gate(trks[p[1]], t)}
      Dist(p) == Apart(found[p[2]], Predicted(trks[p[1]], t))
      Before(p, q) == \/ Dist(p) < Dist(q)
                      \/ Dist(p) = Dist(q) /\ p[1] < q[1]
                      \/ Dist(p) = Dist(q) /\ p[1] = q[1] /\ p[2] < q[2]
  IN [k \in 1..Cardinality(near) |->
        CHOOSE p \in near : Cardinality({q \in near : Before(q, p)}) = k - 1]

\* Defect: a detection may be taken by two tracks.
Matched_Twice(pairs) ==
  FoldLeft(LAMBDA done, p : IF \E q \in done : q[1] = p[1] THEN done ELSE done \cup {p},
           {}, pairs)

\* Greedy: each pair is taken unless one of the two is.
Matched(pairs) ==
  FoldLeft(LAMBDA done, p : IF \E q \in done : q[1] = p[1] \/ q[2] = p[2]
                            THEN done ELSE done \cup {p},
           {}, pairs)

\* _TrackedBall.update: the position is raw, the velocity averaged.
Updated(trk, pos, t) ==
  [pos |-> pos, vel |-> (trk.vel + (pos - trk.pos) \div (t - trk.seen)) \div 2,
   seen |-> t, missed |-> 0]

\* update: matched balls move, the others are missed, new ones are added and
\* those missed too often are dropped.
Tracked(trks, found, pairs, t) ==
  LET Of(i) == {p \in pairs : p[1] = i}
      kept == [i \in DOMAIN trks |->
                 IF Of(i) # {} THEN Updated(trks[i], found[(CHOOSE p \in Of(i) : TRUE)[2]], t)
                 ELSE [trks[i] EXCEPT !.missed = @ + 1]]
      new == SelectSeq([d \in 1..Len(found) |-> [at |-> found[d], fresh |-> \A p \in pairs : p[2] # d]],
                       LAMBDA f : f.fresh)
      all == kept \o [i \in DOMAIN new |-> [pos |-> new[i].at, vel |-> 0, seen |-> t, missed |-> 0]]
  IN SelectSeq(all, LAMBDA trk : trk.missed <= MaxMiss)

Renderable(trks) == SelectSeq(trks, LAMBDA trk : trk.missed <= RenderMiss)

-----------------------------------------------------------------------------
(* The driver                                                               *)

\* on_data: nothing without a model, and on the frames to skip.
Frame ==
  /\ data = "idle" /\ frames < MaxFrames
  /\ IF session
     THEN /\ frames' = frames + 1 /\ matched' = NoMatch
          /\ data' = IF skip > 0 /\ frames' % (skip + 1) # 0 THEN "idle" ELSE "infer"
     ELSE UNCHANGED <<frames, data, matched>>
  /\ UNCHANGED <<tracks, skip, session, reload, shown, reloads>>

\* The session may be gone by now: on_data raises and the frame is lost.
Infer ==
  /\ data = "infer"
  /\ data' = IF session THEN "track" ELSE "idle"
  /\ UNCHANGED <<tracks, frames, skip, session, reload, matched, shown, reloads>>

Track ==
  /\ data = "track"
  /\ \E n \in 0..MaxBalls : \E found \in [1..n -> Positions] :
       LET pairs == Matched(Pairs(tracks, found, frames))
       IN /\ tracks' = Tracked(tracks, found, pairs, frames)
          /\ matched' = [before |-> tracks, found |-> found, pairs |-> pairs, at |-> frames]
          /\ shown' = Renderable(tracks')
  /\ data' = "idle"
  /\ UNCHANGED <<frames, skip, session, reload, reloads>>

SetFrameSkip ==
  /\ reload = "idle" /\ skip' \in 0..1 /\ skip' # skip
  /\ UNCHANGED <<tracks, frames, session, reload, data, matched, shown, reloads>>

\* set_cuda_device: the session goes before the other one is loaded.
SetCudaDevice ==
  /\ reload = "idle" /\ reloads < MaxReloads /\ reloads' = reloads + 1
  /\ session' = FALSE /\ reload' = "loading"
  /\ UNCHANGED <<tracks, frames, skip, data, matched, shown>>

\* _load_session: it may fail, and the action with it.
Loaded ==
  /\ reload = "loading" /\ reload' = "idle" /\ session' \in BOOLEAN
  /\ UNCHANGED <<tracks, frames, skip, data, matched, shown, reloads>>

BallNext == Frame \/ Infer \/ Track \/ SetFrameSkip \/ SetCudaDevice \/ Loaded

BallSpec == BallInit /\ [][BallNext]_bVars

-----------------------------------------------------------------------------
\* The greedy matching leaves no better pair: of two that are near enough,
\* one has a partner at least as near.  No ball has two partners.
MatchingIsStable ==
  LET b == matched.before
      f == matched.found
      t == matched.at
      Dist(p) == Apart(f[p[2]], Predicted(b[p[1]], t))
  IN /\ \A p, q \in matched.pairs : p # q => p[1] # q[1] /\ p[2] # q[2]
     /\ \A i \in DOMAIN b, d \in DOMAIN f :
          Dist(<<i, d>>) < Gate(b[i], t)
            => \E q \in matched.pairs : (q[1] = i \/ q[2] = d) /\ Dist(q) <= Dist(<<i, d>>)

\* Every ball the last frame shows is emitted once and where it was seen, and
\* every other emitted ball was seen at most RenderMiss processed frames ago.
EveryBallOnce ==
  LET seen == SelectSeq(shown, LAMBDA trk : trk.missed = 0)
  IN matched.at > 0 =>
     \A x \in Positions : Cardinality({i \in DOMAIN seen : seen[i].pos = x})
                             = Cardinality({d \in DOMAIN matched.found : matched.found[d] = x})

BallsAreTracked == MatchingIsStable /\ EveryBallOnce

\* What the code does not keep: a driver that says it runs detects balls; a
\* reload that fails leaves it without a model, running.
RunningDetects == reload = "idle" => session
=============================================================================
