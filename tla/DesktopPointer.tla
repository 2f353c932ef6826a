---------------------------- MODULE DesktopPointer -----------------------------
(***************************************************************************)
(* The buttons and the wheel of the desktop frontend's windows: on_pos,    *)
(* on_mouse_button and on_scroll of each (frontend/desktop/app.py), and    *)
(* the pointer events InputController sends for them (proxy/input.py).  A  *)
(* pointer event carries the state of all buttons; a tick of the wheel is  *)
(* a press and a release of a button of its own.                           *)
(*                                                                         *)
(* Where a position maps to is DesktopWindow's; here it is known or not.   *)
(* Motion of the wheel is counted in units of Tick to a tick, with the     *)
(* speed curve applied.                                                    *)
(***************************************************************************)
EXTENDS Integers

CONSTANTS
  Panes,          (* the windows                                              *)
  Buttons,        (* the mouse buttons the host knows                         *)
  Motions,        (* what an event of the wheel adds, in either direction     *)
  Tick, EmitMax, WheelCap,       (* the unit, 50 ticks and 200 ticks          *)
  MaxMoves,       (* bound: what the user does                                *)
  NoPane

PointerAssumption ==
  /\ Motions \subseteq Nat \ {0} /\ {Tick, EmitMax, WheelCap} \subseteq Nat \ {0}
  /\ MaxMoves \in Nat /\ NoPane \notin Panes

VARIABLES
  mask,           (* button_mask of each window                               *)
  known,          (* cursor of each window is not None                        *)
  accum,          (* _wheel_accum of each window                              *)
  shut,           (* InputController is closed                                *)
  held,           (* the buttons GLFW has seen go down, and in which window   *)
  capture,
  hostButtons,    (* the buttons as the host knows them                       *)
  moves,
  cut,            (* history: the wheel let go of a button that is held       *)
  turned, ticks, spilled, atLimit  (* history, of each window: motion, ticks  *)
                  (* sent, cut off by the cap; the last event sent all it may *)

pointerVars == <<mask, known, accum, shut, held, capture, hostButtons, moves, cut,
                 turned, ticks, spilled, atLimit>>

Act == moves < MaxMoves /\ moves' = moves + 1

Abs(n) == IF n < 0 THEN -n ELSE n
Between(low, n, high) == IF n < low THEN low ELSE IF n > high THEN high ELSE n
(* int(): toward zero *)
Whole(n) == IF n < 0 THEN -(Abs(n) \div Tick) ELSE n \div Tick

(* GLFW keeps a drag with the window it began in. *)
Over(w) == capture \in {w, NoPane}

(* pointer_event, of which a window without a position has none to send    *)
Tell(w, buttons) ==
  IF known'[w] /\ ~shut THEN hostButtons' = buttons /\ cut' = FALSE
  ELSE UNCHANGED <<hostButtons, cut>>

wheel == <<accum, turned, ticks, spilled, atLimit>>

(* on_cursor_pos: no position where the window has no size. *)
Move(w) ==
  /\ Act /\ Over(w)
  /\ \E there \in BOOLEAN : known' = [known EXCEPT ![w] = there]
  /\ Tell(w, mask[w])
  /\ UNCHANGED <<mask, shut, held, capture, wheel>>

(* on_mouse_button: the mask follows, with a position or without. *)
OnMouseButton(w, b, press) ==
  /\ Act /\ Over(w) /\ (press <=> b \notin held)
  /\ held' = IF press THEN held \cup {b} ELSE held \ {b}
  /\ capture' = IF held' = {} THEN NoPane ELSE w
  /\ mask' = [mask EXCEPT ![w] = IF press THEN @ \cup {b} ELSE @ \ {b}]
  /\ UNCHANGED known /\ Tell(w, mask'[w])
  /\ UNCHANGED <<shut, wheel>>

(* The window lost the focus: GLFW lets go of its buttons, one by one. *)
FocusLost ==
  /\ capture # NoPane
  /\ held' = {} /\ capture' = NoPane
  /\ mask' = [mask EXCEPT ![capture] = @ \ held]
  /\ UNCHANGED known /\ Tell(capture, mask'[capture])
  /\ UNCHANGED <<shut, moves, wheel>>

(* scroll_event: a press and a release of the wheel's button for each tick, *)
(* so that no button is pressed after the last.                            *)
ScrollEvent(count) ==
  IF count # 0 /\ ~shut THEN hostButtons' = {} /\ cut' = (held # {})
  ELSE UNCHANGED <<hostButtons, cut>>

(* on_scroll: motion adds up to a cap, at most EmitMax ticks go out now,   *)
(* the rest waits for the next event.                                      *)
OnScroll(w, motion) ==
  /\ Act /\ known[w]
  /\ LET sum == accum[w] + motion
         pending == Between(-WheelCap * Tick, sum, WheelCap * Tick)
         emit == Between(-EmitMax, Whole(pending), EmitMax)
     IN  /\ accum' = [accum EXCEPT ![w] = pending - emit * Tick]
         /\ turned' = [turned EXCEPT ![w] = @ + motion]
         /\ spilled' = [spilled EXCEPT ![w] = @ + (sum - pending)]
         /\ atLimit' = [atLimit EXCEPT ![w] = Abs(emit) = EmitMax]
         /\ ticks' = [ticks EXCEPT ![w] = @ + emit]
         /\ ScrollEvent(emit)
  /\ UNCHANGED <<mask, known, shut, held, capture>>

CloseInput ==
  /\ ~shut /\ shut' = TRUE
  /\ UNCHANGED <<mask, known, held, capture, hostButtons, moves, cut, wheel>>

PointerInit ==
  /\ mask = [w \in Panes |-> {}] /\ known = [w \in Panes |-> FALSE]
  /\ accum = [w \in Panes |-> 0] /\ shut = FALSE
  /\ held = {} /\ capture = NoPane /\ hostButtons = {} /\ moves = 0 /\ cut = FALSE
  /\ turned = accum /\ ticks = accum /\ spilled = accum
  /\ atLimit = [w \in Panes |-> FALSE]

PointerNext ==
  \/ \E w \in Panes :
       \/ Move(w)
       \/ \E b \in Buttons, press \in BOOLEAN : OnMouseButton(w, b, press)
       \/ \E motion \in Motions : OnScroll(w, motion) \/ OnScroll(w, -motion)
  \/ FocusLost \/ CloseInput

-----------------------------------------------------------------------------

PointerTypeOK ==
  /\ mask \in [Panes -> SUBSET Buttons] /\ held \in SUBSET Buttons
  /\ capture \in Panes \cup {NoPane} /\ hostButtons \in SUBSET Buttons
  /\ \A w \in Panes : Abs(accum[w]) <= WheelCap * Tick

(* The host has pressed what the user presses, whatever windows and        *)
(* positions there were in between - but for the ticks of a wheel turned   *)
(* while a button is held, which let go of it until the next event; and    *)
(* no motion of the wheel is lost or invented: what has not gone out is    *)
(* still pending, and is a whole tick only behind an event at its limit.   *)
ButtonsAgree ==
  ~shut /\ ~cut =>
    /\ capture # NoPane /\ known[capture] => hostButtons = held
    /\ capture = NoPane /\ (\A w \in Panes : known[w]) => hostButtons = {}
WheelKept ==
  /\ \A w \in Panes : Abs(accum[w]) >= Tick => atLimit[w]
  /\ \A w \in Panes : turned[w] = ticks[w] * Tick + spilled[w] + accum[w]
=============================================================================
