----------------------------- MODULE ConnectWindow -----------------------------
(***************************************************************************)
(* The connect window (gui/connect.py): a local web page whose requests    *)
(* start threads that launch, replace and watch the program as a child     *)
(* process.  Module variables are shared by all of them without a lock:    *)
(* _PROC, _VIDEO_URL, _STATE and _CTRL_SOCK.                               *)
(*                                                                         *)
(* Every launch makes one child, which is known by its launch.  A child of *)
(* the browser frontend listens on the one bridge port.                    *)
(***************************************************************************)
EXTENDS Integers, FiniteSets

CONSTANTS Launches, Nobody

WindowAssumption == IsFiniteSet(Launches) /\ Nobody \notin Launches

VARIABLES
  browser,        (* launches of the browser frontend                         *)
  launchPc, taken,(* place of each launch, the child it took from _PROC       *)
  proc, url,      (* _PROC, the child that _VIDEO_URL is of                   *)
  status, ctrl,   (* _STATE["status"], the child _CTRL_SOCK leads to          *)
  alive, port,    (* children that run, the one on the bridge port            *)
  served, said,   (* children whose control socket is up, that printed a URL  *)
  readers, pump,  (* _control_reader and _pump of each launch                 *)
  overlap         (* history: two launches were under way at once             *)

sharedVars == <<proc, url, status, ctrl>>
childVars == <<alive, port, served, said>>
threadVars == <<readers, pump>>
windowVars == <<browser, launchPc, taken, sharedVars, childVars, threadVars, overlap>>

UnderWay == {l \in Launches : launchPc[l] \notin {"off", "done"}}
Goto(l, place) == launchPc' = [launchPc EXCEPT ![l] = place]

(* Processes end: what they held is free.                                  *)
Die(cs) ==
  /\ alive' = alive \ cs /\ served' = served \ cs
  /\ port' = IF port \in cs THEN Nobody ELSE port
  /\ UNCHANGED said

-----------------------------------------------------------------------------
(* _launch, by a request or a reconnect *)

(* A form clears the URL before it starts the thread, a reconnect does not.*)
Launch(l) ==
  /\ launchPc[l] = "off" /\ Goto(l, "kill")
  /\ url' \in {Nobody, url} /\ overlap' = (overlap \/ UnderWay # {})
  /\ UNCHANGED <<browser, taken, proc, status, ctrl, childVars, threadVars>>

(* _kill_current, up to the swap ...                                       *)
KillTakes(l) ==
  /\ launchPc[l] = "kill" /\ Goto(l, "wait")
  /\ taken' = [taken EXCEPT ![l] = proc]
  /\ proc' = Nobody /\ url' = Nobody
  /\ UNCHANGED <<browser, status, ctrl, childVars, threadVars, overlap>>

(* Slip: the child that was taken runs on.                                 *)
KillWaitsSlip(l) ==
  /\ launchPc[l] = "wait" /\ Goto(l, "free")
  /\ UNCHANGED <<browser, taken, sharedVars, childVars, threadVars, overlap>>

(* ... and from it: terminate, then kill, and wait for the end.            *)
KillWaits(l) ==
  /\ launchPc[l] = "wait" /\ Goto(l, "free")
  /\ Die({taken[l]})
  /\ UNCHANGED <<browser, taken, sharedVars, threadVars, overlap>>

(* _free_bridge_port ends whatever child listens on the port; the window   *)
(* shows "connecting".                                                     *)
FreePort(l) ==
  /\ launchPc[l] = "free" /\ Goto(l, "spawn")
  /\ Die({port})
  /\ status' = "connecting"
  /\ UNCHANGED <<browser, taken, proc, url, ctrl, threadVars, overlap>>

Spawn(l) ==
  /\ launchPc[l] = "spawn" /\ Goto(l, "tell")
  /\ alive' = alive \cup {l} /\ proc' = l
  /\ UNCHANGED <<browser, taken, url, status, ctrl, port, served, said, threadVars, overlap>>

(* The password is written, and the two threads of this launch start.      *)
Tell(l) ==
  /\ launchPc[l] = "tell" /\ Goto(l, "done")
  /\ status' = "running"
  /\ readers' = [readers EXCEPT ![l] = "try"]
  /\ pump' = [pump EXCEPT ![l] = "read"]
  /\ UNCHANGED <<browser, taken, proc, url, ctrl, childVars, overlap>>

-----------------------------------------------------------------------------
(* The child (external) *)

(* The bridge listens and prints its URL, or finds the port in use and     *)
(* exits.                                                                  *)
Binds(c) ==
  /\ c \in alive \cap browser /\ port # c
  /\ IF port = Nobody
     THEN port' = c /\ said' = said \cup {c} /\ UNCHANGED <<alive, served>>
     ELSE Die({c})
  /\ UNCHANGED <<browser, launchPc, taken, sharedVars, threadVars, overlap>>

Serves(c) ==
  /\ c \in alive \ served /\ served' = served \cup {c}
  /\ UNCHANGED <<browser, launchPc, taken, sharedVars, alive, port, said, threadVars, overlap>>

Ends(c) ==
  /\ c \in alive /\ Die({c})
  /\ UNCHANGED <<browser, launchPc, taken, sharedVars, threadVars, overlap>>

-----------------------------------------------------------------------------
(* _control_reader of child c *)

ReaderTo(c, place) ==
  /\ readers' = [readers EXCEPT ![c] = place]
  /\ UNCHANGED <<browser, launchPc, taken, proc, url, status, childVars, pump, overlap>>

ReaderConnects(c) ==
  /\ readers[c] = "try" /\ c \in served
  /\ ReaderTo(c, "connected") /\ UNCHANGED ctrl

(* 120 tries in a minute                                                   *)
ReaderGivesUp(c) ==
  /\ readers[c] = "try" /\ c \notin served
  /\ ReaderTo(c, "gone") /\ UNCHANGED ctrl

ReaderInstalls(c) ==
  /\ readers[c] = "connected" /\ ctrl' = c /\ ReaderTo(c, "reading")

ReaderEnds(c) ==
  /\ readers[c] = "reading" /\ c \notin alive
  /\ ctrl' = IF ctrl = c THEN Nobody ELSE ctrl
  /\ ReaderTo(c, "gone")

-----------------------------------------------------------------------------
(* _pump of child c: what it printed, to the end                           *)

PumpUrl(c) ==
  /\ pump[c] = "read" /\ c \in said /\ url' = c
  /\ said' = said \ {c}
  /\ UNCHANGED <<browser, launchPc, taken, proc, status, ctrl, alive, port, served,
                 threadVars, overlap>>

PumpEnds(c) ==
  /\ pump[c] = "read" /\ c \notin alive /\ c \notin said
  /\ pump' = [pump EXCEPT ![c] = "gone"] /\ status' = "ended"
  /\ UNCHANGED <<browser, launchPc, taken, proc, url, ctrl, childVars, readers, overlap>>

-----------------------------------------------------------------------------

WindowInit ==
  /\ browser \in SUBSET Launches
  /\ launchPc = [l \in Launches |-> "off"] /\ taken = [l \in Launches |-> Nobody]
  /\ proc = Nobody /\ url = Nobody /\ status = "idle" /\ ctrl = Nobody
  /\ alive = {} /\ port = Nobody /\ served = {} /\ said = {}
  /\ readers = [l \in Launches |-> "off"] /\ pump = [l \in Launches |-> "off"]
  /\ overlap = FALSE

Launching(l) == KillTakes(l) \/ KillWaits(l) \/ FreePort(l) \/ Spawn(l) \/ Tell(l)
Watching(c) ==
  \/ ReaderConnects(c) \/ ReaderGivesUp(c) \/ ReaderInstalls(c) \/ ReaderEnds(c)
  \/ PumpUrl(c) \/ PumpEnds(c)

WindowNext ==
  \E l \in Launches :
    Launch(l) \/ Launching(l) \/ Binds(l) \/ Serves(l) \/ Ends(l) \/ Watching(l)

-----------------------------------------------------------------------------

WindowTypeOK ==
  /\ proc \in Launches \cup {Nobody} /\ url \in Launches \cup {Nobody}
  /\ ctrl \in Launches \cup {Nobody} /\ port \in Launches \cup {Nobody}
  /\ status \in {"idle", "connecting", "running", "ended"}
  /\ served \subseteq alive /\ alive \subseteq Launches

(* A launch replaces the session before it: between launches at most one   *)
(* child runs, and the window knows it - unless two launches overlapped,   *)
(* when each takes what the other has not started yet.                     *)
OneChild == UnderWay = {} /\ ~overlap => alive \subseteq {proc}

(* Nothing is under way, and what the children did has been noticed. *)
Settled ==
  /\ UnderWay = {}
  /\ \A c \in Launches :
       /\ readers[c] \in {"off", "gone"} \/ (readers[c] = "reading" /\ c \in alive)
       /\ pump[c] = "read" => c \in alive

(* What the window then shows is true: commands go to a child that runs,   *)
(* if to any, and no session is shown as running that has ended.           *)
SettlesOnTruth ==
  Settled => /\ ctrl # Nobody => ctrl \in alive
             /\ status = "running" /\ ~overlap => proc \in alive
=============================================================================
