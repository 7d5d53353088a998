---------------------------- MODULE MCAppManager ----------------------------
(* A game that excludes the other experiences and has requirements two     *)
(* deep, one plain experience, and one that requires itself.               *)
EXTENDS AppManager

CONSTANTS game, hands, track, sound, loop, camera, pose

MCRequired ==
    [e \in Experiences |-> IF e = game THEN <<hands>>
                           ELSE IF e = hands THEN <<track>>
                           ELSE IF e = loop THEN <<track, loop>>
                           ELSE <<>>]
MCExclusive == {game} \intersect Experiences
MCAllowed == [e \in Experiences |-> {}]
MCNeeds ==
    [e \in Experiences |-> IF e = track THEN <<>>
                           ELSE IF e = hands THEN <<camera>>
                           ELSE <<camera, pose>>]

-----------------------------------------------------------------------------
(* Two calls that overlap, or one call that the shutdown of the server       *)
(* overtakes: two calls and a shutdown together are out of TLC's reach.      *)

First == CHOOSE c \in Calls : TRUE

OneAtShutdown ==
    (\E e \in Experiences : calls'[e] # NoCall) =>
        \A c \in Calls \ {First} : calls'[c] = NoCall

OverlapNext ==
    \/ ClientsNext /\ OneAtShutdown
    \/ Shutdown /\ OneAtShutdown

OverlapSpec ==
    /\ Init /\ [][OverlapNext]_vars
    /\ \A c \in Callers : WF_vars(Step(c))
=============================================================================
