------------------------------ MODULE DesktopKeys ------------------------------
(***************************************************************************)
(* The keyboard of the desktop frontend: on_key and on_char of its windows *)
(* (frontend/desktop/app.py), the grab of the keyboard while the primary   *)
(* window has the focus (frontend/desktop/keyboard_grab.py) and the keys   *)
(* InputController sends (proxy/input.py).                                 *)
(*                                                                         *)
(* The window system queues what happens to a window; GLFW takes it out    *)
(* of the queue when the loop polls.  A Win32 hook sees a key before it is *)
(* queued, and may keep it.                                                *)
(***************************************************************************)
EXTENDS Integers, Sequences

CONSTANTS
  MaxActs,        (* bound: what the user does                                *)
  MaxQueue        (* bound: events waiting for the loop                       *)

KeysAssumption == MaxActs \in Nat /\ MaxQueue \in Nat \ {0}

KeyWindows == {"primary", "other"}
KeyNames == {"ctrl", "tab", "letter"}    (* a modifier, a named key, a printable  *)
KeySyms == {"ctrl", "super", "tab", "letter"}

VARIABLES
  platform,       (* the grab: "win32", "x11" or none                         *)
  remap,          (* ctrl_as_cmd                                              *)
  grabbed,        (* _hook, _held                                             *)
  modsHeld,       (* _mods_held: the modifier went down through the hook      *)
  foreground,     (* the window the user types into, or "away"                *)
  events,         (* what GLFW has not seen yet                               *)
  phys,           (* the keys the user holds                                  *)
  osCtrl,         (* the modifier is down as the window system knows it       *)
  glfwDown,       (* the keys each window has seen go down                    *)
  host,           (* the keys the host has seen go down                       *)
  gone, over,     (* InputController is closed; the loop has ended            *)
  keyActs,
  combo,          (* history: sent as a printable under a modifier            *)
  overtaken       (* history: let go through the hook, pressed in a window    *)

keyVars == <<platform, remap, grabbed, modsHeld, foreground, events, phys, osCtrl,
             glfwDown, host, gone, over, keyActs, combo, overtaken>>

(* key_event and _send: nothing goes out once the controller is closed.    *)
SendKey(down, sym) ==
  host' = IF gone THEN host ELSE IF down THEN host \cup {sym} ELSE host \ {sym}

(* GLFW_KEY_TO_X11, after the remap; a printable has no entry.             *)
SymOf(k) == IF k = "ctrl" /\ remap THEN "super" ELSE k

(* on_key of either window: a printable is sent only under a modifier - it *)
(* is on_char that types it otherwise, down and up at once - and its       *)
(* release is sent only if a modifier is held then, too.                   *)
OnKey(k, down, held) ==
  IF k = "letter" /\ ~held THEN UNCHANGED <<host, combo>>
  ELSE /\ SendKey(down, SymOf(k))
       /\ combo' = IF k # "letter" \/ gone THEN combo
                   ELSE IF down THEN combo \cup {k} ELSE combo \ {k}

-----------------------------------------------------------------------------
(* The user, and the window system (external but for the hook) *)

Act == keyActs < MaxActs /\ keyActs' = keyActs + 1
Room == Len(events) < MaxQueue

FocusEvents(w, gained) ==
  IF w \in KeyWindows THEN << [kind |-> "focus", win |-> w, gained |-> gained] >>
  ELSE <<>>

FocusMoves(w) ==
  /\ Act /\ Room /\ w # foreground
  /\ foreground' = w
  /\ events' = events \o FocusEvents(foreground, FALSE) \o FocusEvents(w, TRUE)
  /\ UNCHANGED <<platform, remap, grabbed, modsHeld, phys, osCtrl, glfwDown, host,
                 gone, over, combo, overtaken>>

Hooked == platform = "win32" /\ grabbed /\ foreground = "primary"
Kept(k) == Hooked /\ (k = "ctrl" \/ modsHeld)

(* The press went to the window: it is still queued, or it was sent under  *)
(* the name the hook does not use.                                         *)
Crosses(k) ==
  \/ \E i \in DOMAIN events : events[i].kind = "key" /\ events[i].key = k
  \/ SymOf(k) # k /\ SymOf(k) \in host

(* _proc: a modifier is tracked and sent, and what is pressed under one is *)
(* sent; the window system sees neither.                                   *)
HookKeeps(k, down) ==
  /\ Kept(k)
  /\ modsHeld' = IF k = "ctrl" THEN down ELSE modsHeld
  /\ SendKey(down, k)
  /\ combo' = IF k = "ctrl" \/ gone THEN combo
              ELSE IF down THEN combo \cup {k} ELSE combo \ {k}
  /\ overtaken' = IF ~down /\ Crosses(k) THEN overtaken \cup {SymOf(k)} ELSE overtaken
  /\ UNCHANGED <<events, osCtrl>>

(* The others go to the window that has the focus. *)
Queued(k, down) ==
  /\ ~Kept(k) /\ Room
  /\ osCtrl' = IF k = "ctrl" THEN down ELSE osCtrl
  /\ events' = IF foreground \in KeyWindows
               THEN Append(events, [kind |-> "key", win |-> foreground, key |-> k,
                                    down |-> down, held |-> osCtrl'])
               ELSE events
  /\ UNCHANGED <<modsHeld, host, combo, overtaken>>

(* A key goes down, repeats, or goes up. *)
Press(k) ==
  /\ Act /\ phys' = phys \cup {k}
  /\ HookKeeps(k, TRUE) \/ Queued(k, TRUE)
  /\ UNCHANGED <<platform, remap, grabbed, foreground, glfwDown, gone, over>>

Release(k) ==
  /\ Act /\ k \in phys /\ phys' = phys \ {k}
  /\ HookKeeps(k, FALSE) \/ Queued(k, FALSE)
  /\ UNCHANGED <<platform, remap, grabbed, foreground, glfwDown, gone, over>>

-----------------------------------------------------------------------------
(* The loop polls *)

(* GLFW tells of a release only when it saw the press. *)
PollKey ==
  /\ ~over /\ events # <<>> /\ Head(events).kind = "key" /\ events' = Tail(events)
  /\ LET e == Head(events) IN
       IF ~e.down /\ e.key \notin glfwDown[e.win]
       THEN UNCHANGED <<glfwDown, host, combo>>
       ELSE /\ glfwDown' = [glfwDown EXCEPT ![e.win] =
                              IF e.down THEN @ \cup {e.key} ELSE @ \ {e.key}]
            /\ OnKey(e.key, e.down, e.held)
  /\ UNCHANGED <<platform, remap, grabbed, modsHeld, foreground, phys, osCtrl, gone, over,
                 keyActs, overtaken>>

(* enable: the hook or the X11 grab may be refused. *)
Enable ==
  IF platform # "none" /\ ~grabbed THEN grabbed' \in BOOLEAN ELSE UNCHANGED grabbed

FocusGained ==
  /\ ~over /\ events # <<>> /\ Head(events).kind = "focus" /\ Head(events).gained
  /\ events' = Tail(events)
  /\ IF Head(events).win = "primary" THEN Enable ELSE UNCHANGED grabbed
  /\ UNCHANGED <<platform, remap, modsHeld, foreground, phys, osCtrl, glfwDown, host,
                 gone, over, keyActs, combo, overtaken>>

(* disable, which lets go of the modifiers the hook has sent. *)
Released == IF grabbed /\ modsHeld /\ ~gone THEN {"ctrl"} ELSE {}
Disable == grabbed' = FALSE /\ modsHeld' = (modsHeld /\ ~grabbed)

(* Slip: the modifiers are forgotten and not let go. *)
FocusLostSlip ==
  /\ ~over /\ events # <<>> /\ Head(events).kind = "focus" /\ ~Head(events).gained
  /\ events' = Tail(events)
  /\ LET w == Head(events).win IN
       /\ IF w = "primary" THEN Disable ELSE UNCHANGED <<grabbed, modsHeld>>
       /\ host' = IF gone THEN host
                  ELSE host \ {SymOf(k) : k \in glfwDown[w] \ {"letter"}}
       /\ glfwDown' = [glfwDown EXCEPT ![w] = {}]
  /\ UNCHANGED <<platform, remap, foreground, phys, osCtrl, gone, over, keyActs, combo, overtaken>>

(* on_window_focus releases the grab; then GLFW lets go of every key the   *)
(* window has seen, with no modifier held: on_key drops the printables.    *)
FocusLost ==
  /\ ~over /\ events # <<>> /\ Head(events).kind = "focus" /\ ~Head(events).gained
  /\ events' = Tail(events)
  /\ LET w == Head(events).win IN
       /\ IF w = "primary" THEN Disable ELSE UNCHANGED <<grabbed, modsHeld>>
       /\ host' = IF gone THEN host
                  ELSE (host \ (IF w = "primary" THEN Released ELSE {}))
                         \ {SymOf(k) : k \in glfwDown[w] \ {"letter"}}
       /\ glfwDown' = [glfwDown EXCEPT ![w] = {}]
  /\ UNCHANGED <<platform, remap, foreground, phys, osCtrl, gone, over, keyActs, combo, overtaken>>

(* The session closes its controller, by itself or at the end of the run.  *)
CloseInput ==
  /\ ~gone /\ gone' = TRUE
  /\ UNCHANGED <<platform, remap, grabbed, modsHeld, foreground, events, phys, osCtrl,
                 glfwDown, host, over, keyActs, combo, overtaken>>

(* The loop ends, and the grab with it. *)
EndRun ==
  /\ ~over /\ over' = TRUE /\ Disable /\ host' = host \ Released
  /\ UNCHANGED <<platform, remap, foreground, events, phys, osCtrl, glfwDown, gone,
                 keyActs, combo, overtaken>>

-----------------------------------------------------------------------------

(* make_grab: none on another system, under Wayland, or where it fails. *)
Platforms == {"win32", "x11", "none"}

KeysInit ==
  /\ platform \in Platforms /\ remap \in BOOLEAN
  /\ foreground = "primary" /\ grabbed \in {FALSE, platform # "none"}
  /\ modsHeld = FALSE /\ events = <<>> /\ phys = {} /\ osCtrl = FALSE
  /\ glfwDown = [w \in KeyWindows |-> {}] /\ host = {} /\ gone = FALSE /\ over = FALSE
  /\ keyActs = 0 /\ combo = {} /\ overtaken = {}

KeysNext ==
  \/ \E w \in KeyWindows \cup {"away"} : FocusMoves(w)
  \/ \E k \in KeyNames : Press(k) \/ Release(k)
  \/ PollKey \/ FocusGained \/ FocusLost \/ CloseInput \/ EndRun

-----------------------------------------------------------------------------

KeysTypeOK ==
  /\ {remap, grabbed, modsHeld, osCtrl, gone, over} \subseteq BOOLEAN
  /\ phys \subseteq KeyNames /\ glfwDown \in [KeyWindows -> SUBSET KeyNames]
  /\ host \subseteq KeySyms /\ combo \cup overtaken \subseteq KeySyms

(* Once the loop has polled, the host holds only keys the user holds in a  *)
(* window of the program, whatever path took each press and each release - *)
(* but for a printable sent under a modifier, and a key pressed in a       *)
(* window just before the hook that saw its release.                       *)
KeysLetGo ==
  events = <<>> /\ ~gone /\ ~over =>
    \A s \in host \ (combo \cup overtaken) :
      foreground \in KeyWindows /\ \E k \in phys : s \in {k, SymOf(k)}

(* The keyboard is given back when the focus leaves, and at the end. *)
KeyboardGivenBack ==
  grabbed => ~over /\ (events = <<>> => foreground = "primary")
=============================================================================
