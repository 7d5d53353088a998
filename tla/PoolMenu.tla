------------------------------ MODULE PoolMenu ------------------------------
(***************************************************************************)
(* The interactive pool's menu, worked by two index fingers                *)
(* (layers/menu.ts).                                                       *)
(*                                                                         *)
(* A step is a frame.  Where the fingers are is one of a few places; the   *)
(* fills, the animation and the pauses are counted in frames, fewer than   *)
(* the code's.                                                             *)
(***************************************************************************)
EXTENDS Integers, FiniteSets, Sequences

CONSTANTS Items,        \* the scenes, in the menu's order
          AutoStop,     \* those stopped when nobody is there
          OpenFrames,   \* frames the menu takes to open or close (20)
          CardFrames,   \* frames a finger is held on a card
          ArrowFrames,  \* frames it is held on an arrow
          Cooldown,     \* frames a button pauses after it (50)
          ArmedFrames,  \* frames a pinch stays armed (35)
          CloseFrames,  \* frames without a hand that close the menu (10 s)
          StopFrames,   \* frames without a hand that stop scenes (60 s)
          MaxOpenings   \* bound on openings

VARIABLES menu,      \* open, opened so far, trigger, selected card
          fill,      \* frames held on the card and on the left and right buttons
          pause,     \* frames of each button's pause that passed
          away,      \* frames since a hand was seen: by the menu, by the scenes
          scene,     \* the running scene
          counts     \* openings and choices

menuVars == <<menu, fill, pause, away, scene, counts>>

NoScene == "no scene"
Buttons == {"card", "left", "right"}
Tips == {"none", "card", "leftSide", "rightSide", "else"}
Gaps == {"one hand", "near", "apart", "other"}

MenuTypeOK ==
  /\ menu \in [open : BOOLEAN, opening : BOOLEAN, closing : BOOLEAN, pct : 0..OpenFrames,
               armed : BOOLEAN, since : 0..ArmedFrames, selected : 1..Len(Items)]
  /\ fill \in [card : 0..CardFrames, left : 0..ArrowFrames, right : 0..ArrowFrames]
  /\ pause \in [Buttons -> 0..Cooldown]
  /\ away \in [menu : 0..(CloseFrames + 1), scenes : 0..(StopFrames + 1)]
  /\ scene \in {Items[i] : i \in DOMAIN Items} \cup {NoScene}
  /\ counts \in [opened : 0..MaxOpenings, chosen : Nat]

MenuInit ==
  /\ menu = [open |-> FALSE, opening |-> FALSE, closing |-> FALSE, pct |-> 0,
             armed |-> FALSE, since |-> 0, selected |-> 1]
  /\ fill = [card |-> 0, left |-> 0, right |-> 0]
  /\ pause = [b \in Buttons |-> 0]
  /\ away = [menu |-> 0, scenes |-> 0]
  /\ scene = NoScene /\ counts = [opened |-> 0, chosen |-> 0]

-----------------------------------------------------------------------------
(* The parts of a frame, each from the menu the one before leaves           *)

\* A pinch that no spread followed in time is disarmed.
Disarmed(m) ==
  IF ~m.armed THEN m
  ELSE IF m.since = ArmedFrames THEN [m EXCEPT !.armed = FALSE, !.since = 0]
  ELSE [m EXCEPT !.since = @ + 1]

Opened(m) == [m EXCEPT !.opening = TRUE, !.closing = FALSE, !.open = TRUE, !.armed = FALSE, !.since = 0]
Closed(m) == [m EXCEPT !.opening = FALSE, !.closing = TRUE, !.open = FALSE, !.armed = FALSE, !.since = 0]
Armed(m) == [m EXCEPT !.armed = TRUE, !.since = 0]

\* Two fingers: a pinch, then a spread opens; a spread, then a pinch closes.
\* `level` says the fingers are level with where the gesture began.
Gesture(m, gap, level) ==
  IF ~m.open
  THEN LET a == IF gap = "near" THEN Armed(m) ELSE m
       IN IF a.armed /\ gap = "apart" /\ level THEN Opened(a) ELSE a
  ELSE LET a == IF gap = "apart" THEN Armed(m) ELSE m
       IN IF a.armed /\ gap = "near" /\ level THEN Closed(a) ELSE a

Animated(m) ==
  LET up == IF ~m.opening THEN m
            ELSE LET p == IF m.pct < OpenFrames THEN m.pct + 1 ELSE m.pct
                 IN [m EXCEPT !.pct = p, !.opening = p # OpenFrames]
  IN IF ~up.closing THEN up
     ELSE LET p == IF up.pct > 0 THEN up.pct - 1 ELSE 0
          IN [up EXCEPT !.pct = p, !.closing = p # 0]

Ticked(n) == IF n = 0 \/ n = Cooldown THEN 0 ELSE n + 1

\* The fill of a button the finger is on, unless it pauses.
Held(n, on, paused) == IF ~on \/ paused # 0 THEN 0 ELSE n + 1
Wrapped(i) == IF i = 0 THEN Len(Items) ELSE IF i > Len(Items) THEN 1 ELSE i

\* Defect: the menu stays open after a choice, and the card has no pause.
ChooseCard_StaysOpen(m) == [m EXCEPT !.armed = FALSE]
\* After a choice the menu closes, so that the scene is seen.
ChooseCard(m) == Closed(m)

\* Defect: a finger that leaves keeps what it filled.
Released_Keeps(f) == f
\* Without a finger in an open menu nothing is filled.
Released(f) == [card |-> 0, left |-> 0, right |-> 0]

-----------------------------------------------------------------------------
Frame ==
  \E tip \in Tips, gap \in Gaps, level \in BOOLEAN :
    /\ gap # "one hand" => tip # "none"
    /\ gap \in {"near", "other", "one hand"} \/ tip # "none"
    /\ LET g == IF gap = "one hand" THEN Disarmed(menu) ELSE Gesture(Disarmed(menu), gap, level)
           a == Animated(g)
           p == [b \in Buttons |-> Ticked(pause[b])]
           live == a.open /\ a.pct = OpenFrames /\ tip # "none"
           \* The left side of the screen fills the right button.
           card == Held(fill.card, tip = "card", p["card"])
           right == Held(fill.right, tip = "leftSide", p["left"])
           left == Held(fill.left, tip = "rightSide", p["right"])
           chosen == live /\ card > CardFrames
           back == live /\ left > ArrowFrames
           on == live /\ right > ArrowFrames
           b == IF chosen THEN ChooseCard(a) ELSE a
           moved == [b EXCEPT !.selected =
                       LET x == IF back THEN Wrapped(@ - 1) ELSE @ IN IF on THEN Wrapped(x + 1) ELSE x]
           startedOpen == g.open /\ ~menu.open
           seen == IF tip # "none" \/ startedOpen THEN 0 ELSE away.menu + 1
           idle == moved.open /\ seen > CloseFrames
           gone == IF tip # "none" THEN 0 ELSE away.scenes + 1
       IN /\ startedOpen => counts.opened < MaxOpenings
          /\ counts' = [opened |-> counts.opened + (IF startedOpen THEN 1 ELSE 0),
                        chosen |-> counts.chosen + (IF chosen THEN 1 ELSE 0)]
          /\ menu' = IF idle THEN Closed(moved) ELSE moved
          /\ fill' = IF live THEN [card |-> IF chosen THEN 0 ELSE card,
                                   left |-> IF back THEN 0 ELSE left,
                                   right |-> IF on THEN 0 ELSE right]
                     ELSE Released(fill)
          /\ pause' = [p EXCEPT !["card"] = IF chosen THEN 1 ELSE @,
                                !["right"] = IF back THEN 1 ELSE @,
                                !["left"] = IF on THEN 1 ELSE @]
          /\ away' = [menu |-> IF ~moved.open THEN 0 ELSE IF idle THEN 0 ELSE seen,
                      scenes |-> IF gone > StopFrames THEN 0 ELSE gone]
          /\ scene' = IF chosen THEN (IF scene = Items[menu.selected] THEN NoScene ELSE Items[menu.selected])
                      ELSE IF gone > StopFrames /\ scene \in AutoStop THEN NoScene ELSE scene

MenuNext == Frame

MenuSpec == MenuInit /\ [][MenuNext]_menuVars

-----------------------------------------------------------------------------
\* Between animations the menu is open or shut, not half of one; a finger
\* fills a button of an open menu only; an opening gives one choice at most;
\* and a menu without hands does not stay open.
MenuIsSound ==
  /\ ~menu.opening /\ ~menu.closing => menu.pct = IF menu.open THEN OpenFrames ELSE 0
  /\ ~(menu.opening /\ menu.closing) /\ (menu.opening => menu.open) /\ (menu.closing => ~menu.open)
  /\ fill.card + fill.left + fill.right > 0 => menu.pct = OpenFrames
  /\ counts.chosen <= counts.opened
  /\ menu.open => away.menu <= CloseFrames
=============================================================================
