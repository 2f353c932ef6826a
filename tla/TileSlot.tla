------------------------------- MODULE TileSlot -------------------------------
(***************************************************************************)
(* The slot of one tile in hevc.py and qsvhevc.py: the worker publishes    *)
(* into it, a restart resets it, and get_frame reads it under its lock,    *)
(* converts without the lock and notes what it judged under it again.      *)
(***************************************************************************)
EXTENDS Naturals

CONSTANTS
  MaxFrames,    \* bound: pictures decoded
  MaxResets     \* bound: restarts

VARIABLES
  frame,        \* raw_frame, as the number of its picture; 0 for none
  good,         \* good_count
  evaluated,    \* last_evaluated_count
  got,          \* get_frame between its two locks: the picture and the count
  judged,       \* the last picture get_frame judged
  decoded, resets

vars == <<frame, good, evaluated, got, judged, decoded, resets>>
Idle == [frame |-> 0, count |-> 0]

Publish ==
  /\ decoded < MaxFrames /\ decoded' = decoded + 1
  /\ frame' = decoded' /\ good' = good + 1
  /\ UNCHANGED <<evaluated, got, judged, resets>>

(* _teardown *)
Reset ==
  /\ resets < MaxResets /\ resets' = resets + 1
  /\ frame' = 0 /\ good' = 0 /\ evaluated' = 0
  /\ UNCHANGED <<got, judged, decoded>>

(* None when there is no picture or the count says it was judged. *)
Read ==
  /\ got = Idle /\ frame # 0 /\ good > evaluated
  /\ got' = [frame |-> frame, count |-> good]
  /\ UNCHANGED <<frame, good, evaluated, judged, decoded, resets>>

Judge ==
  /\ got # Idle /\ got' = Idle
  /\ evaluated' = got.count /\ judged' = got.frame
  /\ UNCHANGED <<frame, good, decoded, resets>>

Init ==
  /\ frame = 0 /\ good = 0 /\ evaluated = 0 /\ got = Idle
  /\ judged = 0 /\ decoded = 0 /\ resets = 0

Next == Publish \/ Reset \/ Read \/ Judge

Spec == Init /\ [][Next]_vars

(* get_frame's comment: None when there is no new frame since the last     *)
(* call.  A restart between the two locks leaves the count of before it,   *)
(* and every picture is refused until as many have been decoded again.     *)
NewFrameIsJudged == (got = Idle /\ frame > judged) => good > evaluated
=============================================================================
