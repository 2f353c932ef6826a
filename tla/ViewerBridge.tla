----------------------------- MODULE ViewerBridge -----------------------------
(***************************************************************************)
(* WebTransportBridge of frontend/wt/server.py: one session to the host,   *)
(* started for the first browser tab (a viewer) and closed with the last.  *)
(*                                                                         *)
(* The asyncio loop runs every viewer callback.  Beside it run the threads *)
(* that start a session, the thread of a resolution change, the retry      *)
(* timers, and the video thread of each session, which calls _on_video_au. *)
(* _viewers_lock is not reentrant.  Only the loop keeps it across steps of *)
(* this model, so LockFree is a fact about the loop.                       *)
(*                                                                         *)
(* The gate pump lives and dies with its session and has no state here.    *)
(***************************************************************************)
EXTENDS Naturals

CONSTANTS
  Viewers,    (* connections of browser tabs                                 *)
  Slots,      (* names for the sessions that may exist at once               *)
  MaxTimers,  (* retry timers pending at once                                *)
  None

ASSUME BridgeAssumption == None \notin Slots /\ MaxTimers \in Nat \ {0}

VARIABLES
  viewers,     (* self.viewers                                               *)
  session,     (* self._session                                              *)
  starting,    (* self._session_starting                                     *)
  life,        (* of each session: where its start or its close is           *)
  alone,       (* sessions beside which no other one has existed             *)
  videoPc,     (* of each session: where its _on_video_au is                 *)
  configSent,  (* self._config_sent                                          *)
  env,         (* self._last_config_env is set                               *)
  configured,  (* the session whose config was last posted to a viewer       *)
  loopPc,      (* "run", "closing" in a teardown, or "stuck"                 *)
  loopTarget,  (* the session that teardown closes                           *)
  reconPc,     (* the thread of set_resolution; _reconnect_pending if busy   *)
  reconTarget, (* the session it closes, then the one it starts              *)
  timers       (* pending retries                                            *)

viewerVars == <<viewers, configured>>
sessionVars == <<session, starting, life, alone>>
streamVars == <<videoPc, configSent, env>>
reconVars == <<reconPc, reconTarget>>
loopVars == <<loopPc, loopTarget>>
vars == <<viewerVars, sessionVars, streamVars, reconVars, loopVars, timers>>

Lives == {"free", "connecting", "connected", "live", "closing"}

LockFree == loopPc = "run"

-----------------------------------------------------------------------------
(* Starting a session *)

Idle == session = None /\ ~starting

Unused(s) ==
  /\ life[s] = "free" /\ videoPc[s] = "idle"
  /\ s # loopTarget /\ s # reconTarget

(* A thread for _start_session_thread, under the lock. *)
Begin(s) ==
  /\ Unused(s)
  /\ starting' = TRUE
  /\ life' = [life EXCEPT ![s] = "connecting"]
  /\ alone' = IF \A t \in Slots : life[t] = "free" THEN {s} ELSE {}
  /\ UNCHANGED session

(* The reconnect thread that waited for s is done. *)
Started(s) ==
  IF reconPc = "starting" /\ reconTarget = s
  THEN reconPc' = "idle" /\ reconTarget' = None
  ELSE UNCHANGED reconVars

(* Slip: the stream state of the last session is kept. *)
ConnectSlip(s) ==
  /\ life[s] = "connecting"
  /\ \A t \in Slots : life[t] \in {"free", "closing"} => videoPc[t] = "idle"
  /\ life' = [life EXCEPT ![s] = "connected"]
  /\ UNCHANGED <<viewerVars, session, starting, alone, streamVars, reconVars,
                 loopVars, timers>>

(* session.connect() and the resets after it.  The handshake takes seconds,*)
(* so a callback that outlived a closed session is over by then.           *)
Connect(s) ==
  /\ life[s] = "connecting"
  /\ \A t \in Slots : life[t] \in {"free", "closing"} => videoPc[t] = "idle"
  /\ life' = [life EXCEPT ![s] = "connected"]
  /\ configSent' = FALSE /\ env' = FALSE
  /\ UNCHANGED <<viewerVars, session, starting, alone, videoPc, reconVars,
                 loopVars, timers>>

(* Slip: the failed start stays marked as running. *)
ConnectFailsSlip(s) ==
  /\ life[s] = "connecting" /\ timers < MaxTimers
  /\ life' = [life EXCEPT ![s] = "free"]
  /\ timers' = timers + 1
  /\ Started(s)
  /\ UNCHANGED <<viewerVars, session, starting, alone, streamVars, loopVars>>

ConnectFails(s) ==
  /\ life[s] = "connecting" /\ timers < MaxTimers
  /\ life' = [life EXCEPT ![s] = "free"]
  /\ starting' = FALSE
  /\ timers' = timers + 1
  /\ Started(s)
  /\ UNCHANGED <<viewerVars, session, alone, streamVars, loopVars>>

Install(s) ==
  /\ life[s] = "connected" /\ LockFree
  /\ life' = [life EXCEPT ![s] = "live"]
  /\ session' = s
  /\ Started(s)
  /\ UNCHANGED <<viewerVars, starting, alone, streamVars, loopVars, timers>>

(* _retry *)
Retry ==
  /\ timers > 0 /\ LockFree
  /\ timers' = timers - 1
  /\ IF Idle /\ viewers # {} THEN \E s \in Slots : Begin(s)
                             ELSE UNCHANGED sessionVars
  /\ UNCHANGED <<viewerVars, streamVars, reconVars, loopVars>>

(* A session nobody holds any more ends when the host gives it up. *)
HostDrops(s) ==
  /\ life[s] = "live" /\ s # session /\ videoPc[s] = "idle"
  /\ life' = [life EXCEPT ![s] = "free"]
  /\ UNCHANGED <<viewerVars, session, starting, alone, streamVars, reconVars,
                 loopVars, timers>>

-----------------------------------------------------------------------------
(* The loop: add_viewer, remove_viewer and _teardown_session *)

(* _teardown_session up to close(): session s loses its callbacks. *)
Detach(s) == life' = [life EXCEPT ![s] = "closing"]

(* add_viewer.  A late joiner is sent the config by _broadcast_frame, which*)
(* takes the lock that add_viewer holds.                                   *)
Join(v) ==
  /\ loopPc = "run" /\ v \notin viewers
  /\ viewers' = viewers \cup {v}
  /\ configured' = [configured EXCEPT ![v] = None]
  /\ IF Idle THEN \E s \in Slots : Begin(s) ELSE UNCHANGED sessionVars
  /\ loopPc' = IF session # None /\ env THEN "stuck" ELSE "run"
  /\ UNCHANGED <<streamVars, reconVars, loopTarget, timers>>

(* remove_viewer: a tab closed, its connection was lost, or the watchdog   *)
(* evicted it.  The last one takes the session along, under the lock.      *)
Leave(v) ==
  /\ loopPc = "run" /\ v \in viewers
  /\ viewers' = viewers \ {v}
  /\ CASE viewers # {v} ->
            UNCHANGED <<starting, life, loopVars>>
       [] viewers = {v} /\ session = None ->
            starting' = FALSE /\ UNCHANGED <<life, loopVars>>
       [] viewers = {v} /\ session # None ->
            Detach(session) /\ loopPc' = "closing" /\ loopTarget' = session
            /\ UNCHANGED starting
  /\ UNCHANGED <<configured, session, alone, streamVars, reconVars, timers>>

(* Slip: close() waits for the video thread without a time limit. *)
LoopClosedSlip ==
  /\ loopPc = "closing" /\ videoPc[loopTarget] = "idle"
  /\ life' = [life EXCEPT ![loopTarget] = "free"]
  /\ session' = None /\ starting' = FALSE
  /\ loopPc' = "run" /\ loopTarget' = None
  /\ UNCHANGED <<viewerVars, alone, streamVars, reconVars, timers>>

(* close() joined the video thread, or gave up after two seconds. *)
LoopClosed ==
  /\ loopPc = "closing"
  /\ life' = [life EXCEPT ![loopTarget] = "free"]
  /\ session' = None /\ starting' = FALSE
  /\ loopPc' = "run" /\ loopTarget' = None
  /\ UNCHANGED <<viewerVars, alone, streamVars, reconVars, timers>>

-----------------------------------------------------------------------------
(* set_resolution and _do_reconnect, whose teardown takes no lock *)

ReconStep(from, to) == reconPc = from /\ reconPc' = to

SetResolution ==
  /\ loopPc = "run" /\ viewers # {}
  /\ ReconStep("idle", "begin")
  /\ UNCHANGED <<viewerVars, sessionVars, streamVars, reconTarget, loopVars, timers>>

ReconBegin ==
  /\ IF session = None
     THEN ReconStep("begin", "clear") /\ UNCHANGED <<life, reconTarget>>
     ELSE /\ ReconStep("begin", "closing")
          /\ reconTarget' = session /\ Detach(session)
  /\ UNCHANGED <<viewerVars, session, starting, alone, streamVars, loopVars, timers>>

ReconClosed ==
  /\ ReconStep("closing", "clear")
  /\ life' = [life EXCEPT ![reconTarget] = "free"]
  /\ session' = None /\ reconTarget' = None
  /\ UNCHANGED <<viewerVars, starting, alone, streamVars, loopVars, timers>>

ReconClear ==
  /\ ReconStep("clear", "check")
  /\ starting' = FALSE
  /\ UNCHANGED <<viewerVars, session, life, alone, streamVars, reconTarget,
                 loopVars, timers>>

ReconCheck ==
  /\ LockFree
  /\ IF Idle /\ viewers # {}
     THEN \E s \in Slots :
            Begin(s) /\ ReconStep("check", "starting") /\ reconTarget' = s
     ELSE ReconStep("check", "idle") /\ UNCHANGED <<sessionVars, reconTarget>>
  /\ UNCHANGED <<viewerVars, streamVars, loopVars, timers>>

-----------------------------------------------------------------------------
(* A session's video thread: _on_video_au *)

(* The config precedes the first frame, and a keyframe of a new geometry.  *)
AuArrives(s) ==
  /\ life[s] \in {"connected", "live"} /\ videoPc[s] = "idle"
  /\ session # None
  /\ \E changed \in BOOLEAN :
       IF changed \/ ~configSent
       THEN configSent' = TRUE /\ env' = TRUE /\ videoPc' = [videoPc EXCEPT ![s] = "config"]
       ELSE videoPc' = [videoPc EXCEPT ![s] = "frame"] /\ UNCHANGED <<configSent, env>>
  /\ UNCHANGED <<viewerVars, sessionVars, reconVars, loopVars, timers>>

(* _broadcast_frame of the config, then of the frame. *)
SendConfig(s) ==
  /\ videoPc[s] = "config" /\ LockFree
  /\ configured' = [v \in Viewers |-> IF v \in viewers THEN s ELSE configured[v]]
  /\ videoPc' = [videoPc EXCEPT ![s] = "frame"]
  /\ UNCHANGED <<viewers, sessionVars, configSent, env, reconVars, loopVars, timers>>

SendFrame(s) ==
  /\ videoPc[s] = "frame" /\ LockFree
  /\ videoPc' = [videoPc EXCEPT ![s] = "idle"]
  /\ UNCHANGED <<viewerVars, sessionVars, configSent, env, reconVars, loopVars, timers>>

-----------------------------------------------------------------------------

Init ==
  /\ viewers = {} /\ configured = [v \in Viewers |-> None]
  /\ session = None /\ starting = FALSE
  /\ life = [s \in Slots |-> "free"] /\ alone = {}
  /\ videoPc = [s \in Slots |-> "idle"] /\ configSent = FALSE /\ env = FALSE
  /\ loopPc = "run" /\ loopTarget = None
  /\ reconPc = "idle" /\ reconTarget = None
  /\ timers = 0

Recon == ReconBegin \/ ReconClosed \/ ReconClear \/ ReconCheck
Video(s) == SendConfig(s) \/ SendFrame(s)

Next ==
  \/ \E v \in Viewers : Join(v) \/ Leave(v)
  \/ LoopClosed
  \/ SetResolution
  \/ Recon
  \/ Retry
  \/ \E s \in Slots :
       \/ Connect(s) \/ ConnectFails(s) \/ Install(s) \/ HostDrops(s)
       \/ AuArrives(s) \/ Video(s)

Spec == Init /\ [][Next]_vars

(* Threads and timers run, an abandoned session ends, and a host that is   *)
(* asked again and again accepts.                                          *)
FairSpec ==
  /\ Spec
  /\ WF_vars(LoopClosed) /\ WF_vars(Recon) /\ WF_vars(Retry)
  /\ \A s \in Slots :
       /\ WF_vars(Video(s)) /\ SF_vars(Install(s)) /\ WF_vars(HostDrops(s))
       /\ WF_vars(Connect(s) \/ ConnectFails(s))
  /\ SF_vars(\E s \in Slots : Connect(s))

-----------------------------------------------------------------------------
(* Properties *)

(* The installed session is never one that was closed, and one that is     *)
(* being closed has an owner who will finish it.                           *)
TypeOK ==
  /\ viewers \subseteq Viewers
  /\ session \in Slots \cup {None}
  /\ starting \in BOOLEAN /\ configSent \in BOOLEAN /\ env \in BOOLEAN
  /\ life \in [Slots -> Lives]
  /\ alone \subseteq Slots
  /\ videoPc \in [Slots -> {"idle", "config", "frame"}]
  /\ configured \in [Viewers -> Slots \cup {None}]
  /\ loopPc \in {"run", "closing", "stuck"}
  /\ reconPc \in {"idle", "begin", "closing", "clear", "check", "starting"}
  /\ loopTarget \in Slots \cup {None} /\ reconTarget \in Slots \cup {None}
  /\ loopTarget # None <=> loopPc = "closing"
  /\ reconTarget # None <=> reconPc \in {"closing", "starting"}
  /\ timers \in 0 .. MaxTimers
  /\ session # None => life[session] \in {"live", "closing"}
  /\ \A s \in Slots :
       life[s] = "closing" => loopTarget = s \/ (reconPc = "closing" /\ reconTarget = s)

(* No frame of the installed session reaches a viewer before that session's*)
(* config, whenever the viewer joined, as long as no second session existed*)
(* beside it (_on_video_au, _config_sent).                                 *)
ConfigFirst ==
  [][\A s \in alone :
       session = s /\ SendFrame(s) => \A v \in viewers : configured[v] = s]_vars

(* While somebody watches there is a session again and again, whatever     *)
(* failed, reconnected or was torn down meanwhile, unless the loop is dead.*)
SessionComes == <>[](viewers # {} /\ loopPc # "stuck") => []<>(session # None)

(* The teardown under the lock joins a thread that may want the lock, and  *)
(* still ends.                                                             *)
TeardownEnds == loopPc = "closing" ~> loopPc = "run"

(* add_viewer's comment: a late joiner is sent the config and a keyframe.  *)
(* It is not: the loop must not wait for a lock it holds itself.           *)
LateJoinerServed == loopPc # "stuck"

(* The comment of _session_starting: it guards against concurrent start    *)
(* threads.                                                                *)
OneStart ==
  \A s, t \in Slots :
    {life[s], life[t]} \subseteq {"connecting", "connected"} => s = t
=============================================================================
