---------------------------- MODULE FrontendsProofs ----------------------------
(***************************************************************************)
(* The invariants of the views of Frontends, for every value of their      *)
(* constants: the browser bridge, the connect window, the way of a picture *)
(* to a page, the reports of the pages and the control socket.  Each has   *)
(* an inductive invariant of its own, which the steps of the other views   *)
(* leave alone (EachFrontView).                                            *)
(***************************************************************************)
EXTENDS Frontends, SequenceTheorems, FiniteSetTheorems, WellFoundedInduction, TLAPS

(* A step of the whole is a step, or none, of every view. *)
LEMMA EachFrontView ==
  ASSUME [FrontendsNext]_allVars
  PROVE  /\ [Next]_vars
         /\ [Q!QueueNext]_queueVars
         /\ [S!CtlNext]_controlVars
         /\ [W!WindowNext]_windowVars
         /\ [H!HealthNext]_healthVars
<1>1. CASE UNCHANGED allVars
  BY <1>1 DEF allVars
<1>2. CASE FrontendsNext
  BY <1>2 DEF FrontendsNext
<1> QED
  BY <1>1, <1>2

-----------------------------------------------------------------------------
(* The browser bridge *)

(* The timers stay in their range. *)
LEMMA TimerRange ==
  /\ 0 \in 0 .. MaxTimers
  /\ \A n \in 0 .. MaxTimers :
       /\ n < MaxTimers => n + 1 \in 0 .. MaxTimers
       /\ n > 0 => n - 1 \in 0 .. MaxTimers
BY BridgeAssumption

(* A new bridge has no session and no viewer.                              *)
LEMMA TypeInit == Init => TypeOK
BY TimerRange, BridgeAssumption DEF Init, TypeOK, Lives

(* Begin starts a free session where none is installed. *)
LEMMA TypeBegin ==
  ASSUME TypeOK, NEW s \in Slots, Begin(s)
  PROVE  /\ starting' = TRUE /\ session' = session
         /\ life[s] = "free" /\ s # loopTarget /\ s # reconTarget
         /\ life' \in [Slots -> Lives]
         /\ alone' \subseteq Slots
         /\ life'[s] = "connecting"
         /\ \A t \in Slots : t # s => life'[t] = life[t]
BY DEF TypeOK, Begin, Unused, Lives

(* Every step of the bridge keeps the type invariant. *)
LEMMA TypeStep == TypeOK /\ [Next]_vars => TypeOK'
<1> SUFFICES ASSUME TypeOK, [Next]_vars PROVE TypeOK'
  OBVIOUS
<1> USE BridgeAssumption
<1>1. ASSUME NEW v \in Viewers, Join(v) PROVE TypeOK'
  <2>1. CASE Idle
    <3>1. PICK s \in Slots : Begin(s)
      BY <1>1, <2>1 DEF Join
    <3>2. session = None
      BY <2>1 DEF Idle
    <3>3. /\ viewers' = viewers \cup {v} /\ configured' = [configured EXCEPT ![v] = None]
          /\ loopPc' = "run" /\ loopPc = "run"
          /\ UNCHANGED <<videoPc, configSent, env, reconPc, reconTarget, loopTarget, timers>>
      BY <1>1, <3>2 DEF Join, streamVars, reconVars
    <3>4. configured' \in [Viewers -> Slots \cup {None}] /\ viewers' \subseteq Viewers
      BY <3>3 DEF TypeOK
    <3>5. /\ starting' = TRUE /\ session' = None
          /\ life' \in [Slots -> Lives] /\ alone' \subseteq Slots
          /\ \A t \in Slots : life'[t] = "closing" => life[t] = "closing"
      BY <3>1, <3>2, TypeBegin
    <3> QED BY <3>3, <3>4, <3>5 DEF TypeOK
  <2>2. CASE ~Idle
    BY <1>1, <2>2 DEF TypeOK, Join, Idle, sessionVars, streamVars, reconVars
  <2> QED BY <2>1, <2>2
<1>2. ASSUME NEW v \in Viewers, Leave(v) PROVE TypeOK'
  <2>1. CASE viewers # {v} \/ session = None
    BY <1>2, <2>1 DEF TypeOK, Leave, streamVars, reconVars, loopVars
  <2>2. CASE viewers = {v} /\ session # None
    <3>1. Detach(session) /\ loopPc' = "closing" /\ loopTarget' = session /\ starting' = starting
      BY <1>2, <2>2 DEF Leave
    <3> QED BY <1>2, <2>2, <3>1 DEF TypeOK, Leave, Detach, Lives, streamVars, reconVars
  <2> QED BY <2>1, <2>2
<1>3. CASE LoopClosed
  BY <1>3 DEF TypeOK, LoopClosed, Lives, viewerVars, streamVars, reconVars
<1>4. CASE SetResolution
  BY <1>4 DEF TypeOK, SetResolution, ReconStep, viewerVars, sessionVars, streamVars, loopVars
<1>5. CASE ReconBegin
  BY <1>5 DEF TypeOK, ReconBegin, ReconStep, Detach, Lives, viewerVars, streamVars, loopVars
<1>6. CASE ReconClosed
  BY <1>6 DEF TypeOK, ReconClosed, ReconStep, Lives, viewerVars, streamVars, loopVars
<1>7. CASE ReconClear
  BY <1>7 DEF TypeOK, ReconClear, ReconStep, viewerVars, streamVars, loopVars
<1>8. CASE ReconCheck
  <2>1. CASE Idle /\ viewers # {}
    <3>1. PICK s \in Slots : Begin(s) /\ ReconStep("check", "starting") /\ reconTarget' = s
      BY <1>8, <2>1 DEF ReconCheck
    <3> QED BY <1>8, <2>1, <3>1, TypeBegin
            DEF TypeOK, ReconCheck, ReconStep, Idle, viewerVars, streamVars, loopVars
  <2>2. CASE ~ (Idle /\ viewers # {})
    BY <1>8, <2>2 DEF TypeOK, ReconCheck, ReconStep, viewerVars, sessionVars, streamVars, loopVars
  <2> QED BY <2>1, <2>2
<1>9. CASE Retry
  <2>1. CASE Idle /\ viewers # {}
    <3>1. PICK s \in Slots : Begin(s)
      BY <1>9, <2>1 DEF Retry
    <3> QED BY <1>9, <2>1, <3>1, TypeBegin, TimerRange
            DEF TypeOK, Retry, Idle, viewerVars, streamVars, reconVars, loopVars
  <2>2. CASE ~ (Idle /\ viewers # {})
    BY <1>9, <2>2, TimerRange
       DEF TypeOK, Retry, viewerVars, sessionVars, streamVars, reconVars, loopVars
  <2> QED BY <2>1, <2>2
<1>10. ASSUME NEW s \in Slots, Connect(s) PROVE TypeOK'
  BY <1>10 DEF TypeOK, Connect, Lives, viewerVars, reconVars, loopVars
<1>11. ASSUME NEW s \in Slots, ConnectFails(s) PROVE TypeOK'
  BY <1>11, TimerRange
     DEF TypeOK, ConnectFails, Started, Lives, viewerVars, streamVars, reconVars, loopVars
<1>12. ASSUME NEW s \in Slots, Install(s) PROVE TypeOK'
  BY <1>12 DEF TypeOK, Install, Started, Lives, viewerVars, streamVars, reconVars, loopVars
<1>13. ASSUME NEW s \in Slots, HostDrops(s) PROVE TypeOK'
  BY <1>13 DEF TypeOK, HostDrops, Lives, viewerVars, streamVars, reconVars, loopVars
<1>14. ASSUME NEW s \in Slots, AuArrives(s) PROVE TypeOK'
  BY <1>14 DEF TypeOK, AuArrives, viewerVars, sessionVars, reconVars, loopVars
<1>15. ASSUME NEW s \in Slots, SendConfig(s) PROVE TypeOK'
  BY <1>15 DEF TypeOK, SendConfig, sessionVars, reconVars, loopVars
<1>16. ASSUME NEW s \in Slots, SendFrame(s) PROVE TypeOK'
  BY <1>16 DEF TypeOK, SendFrame, viewerVars, sessionVars, reconVars, loopVars
<1>17. CASE UNCHANGED vars
  BY <1>17 DEF TypeOK, vars, viewerVars, sessionVars, streamVars, reconVars, loopVars
<1> QED BY <1>1, <1>2, <1>3, <1>4, <1>5, <1>6, <1>7, <1>8, <1>9, <1>10, <1>11,
           <1>12, <1>13, <1>14, <1>15, <1>16, <1>17 DEF Next, Recon, Video

(* The bridge's state is well-formed: in particular the installed session  *)
(* is never a closed one, whoever tears it down.                           *)
THEOREM TypeCorrect == Spec => []TypeOK
BY TypeInit, TypeStep, PTL DEF Spec

-----------------------------------------------------------------------------
(* The order of config and frames. *)

(* The stream flags agree with what an installed session that has always   *)
(* been alone has posted so far.                                           *)
Posted ==
  session \in alone =>
    /\ videoPc[session] # "idle" => configSent
    /\ (configSent /\ videoPc[session] # "config" /\ loopPc # "stuck") =>
         \A v \in viewers : configured[v] = session

(* What keeps the order of config and frames: beside a session that has    *)
(* always been alone no other is at work, and only its own thread writes   *)
(* the config flags it reads.                                              *)
AloneInv ==
  /\ env = configSent
  /\ \A s \in Slots : life[s] = "connecting" => videoPc[s] = "idle"
  /\ \A s \in alone, t \in Slots : t # s => life[t] = "free"
  /\ \A s \in alone, t \in Slots :
       (life[s] \in {"connected", "live", "closing"} /\ t # s) => videoPc[t] = "idle"
  /\ \A s \in alone : life[s] = "connected" => ~configSent /\ videoPc[s] = "idle"
  /\ Posted

(* No session has ever been alone at the start: there is none.             *)
LEMMA AloneInit == Init => AloneInv
BY DEF Init, AloneInv, Posted

(* A start keeps it: the new session is alone among free ones. *)
LEMMA AloneBegin ==
  ASSUME TypeOK, AloneInv, NEW s \in Slots, Begin(s), session = None,
         UNCHANGED <<videoPc, configSent, env>>
  PROVE  AloneInv'
<1>1. alone' \subseteq {s} /\ (alone' # {} => \A t \in Slots : life[t] = "free")
  BY DEF Begin
<1>2. session' = None /\ None \notin alone'
  BY <1>1, BridgeAssumption DEF Begin
<1>3. /\ life'[s] = "connecting" /\ videoPc[s] = "idle"
      /\ \A t \in Slots : t # s => life'[t] = life[t]
  BY DEF Begin, Unused, TypeOK
<1> QED BY <1>1, <1>2, <1>3 DEF AloneInv, Posted

(* A callback runs for a session that has always been alone and is         *)
(* installed only if it is that session's own.                             *)
LEMMA OwnCallback ==
  ASSUME TypeOK, AloneInv, NEW s \in Slots, session \in alone,
         videoPc[s] # "idle" \/ life[s] \in {"connected", "live"}
  PROVE  s = session
<1>1. session \in Slots /\ life[session] \in {"live", "closing"}
  BY BridgeAssumption DEF TypeOK
<1> QED BY <1>1 DEF AloneInv

(* Every step of the bridge keeps it.                                      *)
LEMMA AloneStep == TypeOK /\ AloneInv /\ [Next]_vars => AloneInv'
<1> SUFFICES ASSUME TypeOK, AloneInv, [Next]_vars PROVE AloneInv'
  OBVIOUS
<1> USE BridgeAssumption
<1>1. ASSUME NEW v \in Viewers, Join(v) PROVE AloneInv'
  <2>1. CASE Idle
    <3>1. PICK s \in Slots : Begin(s)
      BY <1>1, <2>1 DEF Join
    <3> QED BY <1>1, <2>1, <3>1, AloneBegin DEF Join, Idle, streamVars
  <2>2. CASE ~Idle
    <3>1. UNCHANGED <<session, starting, life, alone, videoPc, configSent, env>>
      BY <1>1, <2>2 DEF Join, sessionVars, streamVars
    <3>2. session \in alone /\ configSent => loopPc' = "stuck"
      BY <1>1 DEF Join, AloneInv, TypeOK
    <3> QED BY <3>1, <3>2 DEF AloneInv, Posted
  <2> QED BY <2>1, <2>2
<1>2. ASSUME NEW v \in Viewers, Leave(v) PROVE AloneInv'
  <2>1. UNCHANGED <<session, alone, videoPc, configSent, env, configured>>
        /\ viewers' \subseteq viewers
    BY <1>2 DEF Leave, streamVars
  <2>2. loopPc = "run"
    BY <1>2 DEF Leave
  <2>3. life' = life \/ (session # None /\ life' = [life EXCEPT ![session] = "closing"])
    BY <1>2 DEF Leave, Detach
  <2>4. session # None => session \in Slots /\ life[session] \in {"live", "closing"}
    BY DEF TypeOK
  <2>5. \A t \in Slots : life'[t] # life[t] => t = session /\ life'[t] = "closing"
    BY <2>3, <2>4 DEF TypeOK
  <2>6. Posted'
    BY <2>1, <2>2 DEF AloneInv, Posted
  <2>7. /\ \A s \in Slots : life'[s] = "connecting" => life[s] = "connecting"
        /\ \A s \in Slots : life'[s] = "connected" => life[s] = "connected"
        /\ \A s \in Slots : life[s] = "free" => life'[s] = "free"
        /\ \A s \in Slots : life'[s] \in {"connected", "live", "closing"}
                            => life[s] \in {"connected", "live", "closing"}
    BY <2>4, <2>5
  <2>8. alone \subseteq Slots
    BY DEF TypeOK
  <2> QED BY <2>1, <2>6, <2>7, <2>8 DEF AloneInv
<1>3. CASE LoopClosed
  <2>1. session' = None /\ None \notin alone' /\ alone' = alone
        /\ UNCHANGED <<videoPc, configSent, env>>
    BY <1>3 DEF LoopClosed, streamVars, TypeOK
  <2>2. \A t \in Slots : life'[t] = life[t] \/ life'[t] = "free"
    BY <1>3 DEF LoopClosed, TypeOK
  <2>3. alone \subseteq Slots
    BY DEF TypeOK
  <2> QED BY <2>1, <2>2, <2>3 DEF AloneInv, Posted
<1>4. CASE SetResolution
  BY <1>4 DEF SetResolution, viewerVars, sessionVars, streamVars, loopVars, AloneInv, Posted
<1>5. CASE ReconBegin
  <2>1. UNCHANGED <<session, alone, videoPc, configSent, env, viewers, configured, loopPc>>
    BY <1>5 DEF ReconBegin, viewerVars, streamVars, loopVars
  <2>2. life' = life \/ (session # None /\ life' = [life EXCEPT ![session] = "closing"])
    BY <1>5 DEF ReconBegin, Detach
  <2>3. session # None => session \in Slots /\ life[session] \in {"live", "closing"}
    BY DEF TypeOK
  <2>4. \A t \in Slots : life'[t] # life[t] => t = session /\ life'[t] = "closing"
    BY <2>2, <2>3 DEF TypeOK
  <2>5. Posted'
    BY <2>1 DEF AloneInv, Posted
  <2>6. /\ \A s \in Slots : life'[s] = "connecting" => life[s] = "connecting"
        /\ \A s \in Slots : life'[s] = "connected" => life[s] = "connected"
        /\ \A s \in Slots : life[s] = "free" => life'[s] = "free"
        /\ \A s \in Slots : life'[s] \in {"connected", "live", "closing"}
                            => life[s] \in {"connected", "live", "closing"}
    BY <2>3, <2>4
  <2>7. alone \subseteq Slots
    BY DEF TypeOK
  <2> QED BY <2>1, <2>5, <2>6, <2>7 DEF AloneInv
<1>6. CASE ReconClosed
  <2>1. session' = None /\ None \notin alone' /\ alone' = alone
        /\ UNCHANGED <<videoPc, configSent, env>>
    BY <1>6 DEF ReconClosed, streamVars, TypeOK
  <2>2. \A t \in Slots : life'[t] = life[t] \/ life'[t] = "free"
    BY <1>6 DEF ReconClosed, TypeOK
  <2>3. alone \subseteq Slots
    BY DEF TypeOK
  <2> QED BY <2>1, <2>2, <2>3 DEF AloneInv, Posted
<1>7. CASE ReconClear
  BY <1>7 DEF ReconClear, viewerVars, streamVars, loopVars, AloneInv, Posted
<1>8. CASE ReconCheck
  <2>1. CASE Idle /\ viewers # {}
    <3>1. PICK s \in Slots : Begin(s)
      BY <1>8, <2>1 DEF ReconCheck
    <3> QED BY <1>8, <2>1, <3>1, AloneBegin DEF ReconCheck, Idle, streamVars
  <2>2. CASE ~ (Idle /\ viewers # {})
    BY <1>8, <2>2 DEF ReconCheck, viewerVars, sessionVars, streamVars, loopVars, AloneInv, Posted
  <2> QED BY <2>1, <2>2
<1>9. CASE Retry
  <2>1. CASE Idle /\ viewers # {}
    <3>1. PICK s \in Slots : Begin(s)
      BY <1>9, <2>1 DEF Retry
    <3> QED BY <1>9, <2>1, <3>1, AloneBegin DEF Retry, Idle, streamVars
  <2>2. CASE ~ (Idle /\ viewers # {})
    BY <1>9, <2>2 DEF Retry, viewerVars, sessionVars, streamVars, loopVars, AloneInv, Posted
  <2> QED BY <2>1, <2>2
<1>10. ASSUME NEW s \in Slots, Connect(s) PROVE AloneInv'
  <2>1. /\ UNCHANGED <<session, alone, videoPc>>
        /\ life[s] = "connecting" /\ ~configSent' /\ ~env' /\ env' = configSent'
        /\ life' = [life EXCEPT ![s] = "connected"]
        /\ \A t \in Slots : life[t] \in {"free", "closing"} => videoPc[t] = "idle"
    BY <1>10 DEF Connect
  <2>2. /\ life'[s] = "connected"
        /\ \A t \in Slots : t # s => life'[t] = life[t]
    BY <2>1 DEF TypeOK
  <2>3. videoPc[s] = "idle" /\ alone \subseteq Slots
    BY <2>1 DEF AloneInv, TypeOK
  <2>4. session \notin alone
    BY <2>1, <2>3 DEF AloneInv, TypeOK
  <2>5. \A a \in alone, t \in Slots : t # a => life[t] = "free" /\ a = s
    BY <2>1, <2>3 DEF AloneInv
  <2> QED BY <2>1, <2>2, <2>3, <2>4, <2>5 DEF AloneInv, Posted
<1>11. ASSUME NEW s \in Slots, ConnectFails(s) PROVE AloneInv'
  <2>1. UNCHANGED <<session, alone, videoPc, configSent, env, viewers, configured, loopPc>>
    BY <1>11 DEF ConnectFails, viewerVars, streamVars, loopVars
  <2>2. \A t \in Slots : life'[t] = life[t] \/ life'[t] = "free"
    BY <1>11 DEF ConnectFails, TypeOK
  <2>3. alone \subseteq Slots
    BY DEF TypeOK
  <2> QED BY <2>1, <2>2, <2>3 DEF AloneInv, Posted
<1>12. ASSUME NEW s \in Slots, Install(s) PROVE AloneInv'
  <2>1. /\ UNCHANGED <<alone, videoPc, configSent, env, viewers, configured, loopPc>>
        /\ session' = s /\ life[s] = "connected"
        /\ life' = [life EXCEPT ![s] = "live"]
    BY <1>12 DEF Install, viewerVars, streamVars, loopVars
  <2>2. /\ life'[s] = "live"
        /\ \A t \in Slots : t # s => life'[t] = life[t]
    BY <2>1 DEF TypeOK
  <2>3. alone \subseteq Slots
    BY DEF TypeOK
  <2>4. Posted'
    BY <2>1 DEF AloneInv, Posted
  <2> QED BY <2>1, <2>2, <2>3, <2>4 DEF AloneInv
<1>13. ASSUME NEW s \in Slots, HostDrops(s) PROVE AloneInv'
  <2>1. UNCHANGED <<session, alone, videoPc, configSent, env, viewers, configured, loopPc>>
    BY <1>13 DEF HostDrops, viewerVars, streamVars, loopVars
  <2>2. \A t \in Slots : life'[t] = life[t] \/ life'[t] = "free"
    BY <1>13 DEF HostDrops, TypeOK
  <2>3. alone \subseteq Slots
    BY DEF TypeOK
  <2> QED BY <2>1, <2>2, <2>3 DEF AloneInv, Posted
<1>14. ASSUME NEW s \in Slots, AuArrives(s) PROVE AloneInv'
  <2>1. /\ UNCHANGED <<session, life, alone, viewers, configured, loopPc>>
        /\ life[s] \in {"connected", "live"} /\ videoPc[s] = "idle"
        /\ session # None
    BY <1>14 DEF AuArrives, viewerVars, sessionVars, loopVars
  <2>2. /\ configSent' = TRUE /\ env' = configSent'
        /\ videoPc'[s] # "idle"
        /\ configSent \/ videoPc'[s] = "config"
        /\ \A t \in Slots : t # s => videoPc'[t] = videoPc[t]
    <3>1. PICK changed \in BOOLEAN :
            IF changed \/ ~configSent
            THEN configSent' = TRUE /\ env' = TRUE /\ videoPc' = [videoPc EXCEPT ![s] = "config"]
            ELSE videoPc' = [videoPc EXCEPT ![s] = "frame"] /\ UNCHANGED <<configSent, env>>
      BY <1>14 DEF AuArrives
    <3>2. CASE changed \/ ~configSent
      BY <3>1, <3>2 DEF TypeOK
    <3>3. CASE ~ (changed \/ ~configSent)
      <4>1. configSent = TRUE /\ env = configSent
        BY <3>3 DEF TypeOK, AloneInv
      <4>2. videoPc' = [videoPc EXCEPT ![s] = "frame"] /\ configSent' = configSent /\ env' = env
        BY <3>1, <3>3
      <4> QED BY <4>1, <4>2 DEF TypeOK
    <3> QED BY <3>2, <3>3
  <2>3. \A a \in alone : a = s /\ life[s] = "live" /\ session = s
    BY <2>1 DEF AloneInv, TypeOK
  <2>4. Posted'
    BY <2>1, <2>2, <2>3 DEF AloneInv, Posted
  <2> QED BY <2>1, <2>2, <2>3, <2>4 DEF AloneInv
<1>15. ASSUME NEW s \in Slots, SendConfig(s) PROVE AloneInv'
  <2>1. /\ UNCHANGED <<session, life, alone, viewers, loopPc, configSent, env>>
        /\ videoPc[s] = "config" /\ videoPc' = [videoPc EXCEPT ![s] = "frame"]
        /\ configured' = [v \in Viewers |-> IF v \in viewers THEN s ELSE configured[v]]
    BY <1>15 DEF SendConfig, sessionVars, loopVars, LockFree
  <2>2. /\ videoPc'[s] = "frame"
        /\ \A t \in Slots : t # s => videoPc'[t] = videoPc[t]
    BY <2>1 DEF TypeOK
  <2>3. session \in alone => s = session
    BY <2>1, OwnCallback
  <2>4. Posted'
    BY <2>1, <2>2, <2>3 DEF AloneInv, Posted, TypeOK
  <2>5. life[s] # "connecting" /\ alone \subseteq Slots
    BY <2>1 DEF AloneInv, TypeOK
  <2> QED BY <2>1, <2>2, <2>4, <2>5 DEF AloneInv
<1>16. ASSUME NEW s \in Slots, SendFrame(s) PROVE AloneInv'
  <2>1. /\ UNCHANGED <<session, life, alone, viewers, configured, loopPc, configSent, env>>
        /\ videoPc[s] = "frame" /\ videoPc' = [videoPc EXCEPT ![s] = "idle"]
    BY <1>16 DEF SendFrame, viewerVars, sessionVars, loopVars
  <2>2. /\ videoPc'[s] = "idle"
        /\ \A t \in Slots : t # s => videoPc'[t] = videoPc[t]
    BY <2>1 DEF TypeOK
  <2>3. session \in alone => s = session
    BY <2>1, OwnCallback
  <2>4. Posted'
    BY <2>1, <2>2, <2>3 DEF AloneInv, Posted, TypeOK
  <2>5. alone \subseteq Slots
    BY DEF TypeOK
  <2> QED BY <2>1, <2>2, <2>4, <2>5 DEF AloneInv
<1>17. CASE UNCHANGED vars
  BY <1>17 DEF vars, viewerVars, sessionVars, streamVars, loopVars, AloneInv, Posted
<1> QED BY <1>1, <1>2, <1>3, <1>4, <1>5, <1>6, <1>7, <1>8, <1>9, <1>10, <1>11,
           <1>12, <1>13, <1>14, <1>15, <1>16, <1>17 DEF Next, Recon, Video

(* When a frame of the installed, always lone session is posted, every     *)
(* viewer has that session's config (_on_video_au, _config_sent).          *)
THEOREM ConfigBeforeFrames == Spec => ConfigFirst
<1> DEFINE OnFrame(s) == session = s /\ SendFrame(s) => \A v \in viewers : configured[v] = s
           Step == \A s \in alone : OnFrame(s)
<1>1. TypeOK /\ AloneInv => Step
  <2> SUFFICES ASSUME TypeOK, AloneInv, NEW s \in alone, session = s, SendFrame(s)
               PROVE  \A v \in viewers : configured[v] = s
    OBVIOUS
  <2>1. videoPc[s] = "frame" /\ loopPc = "run"
    BY DEF SendFrame, LockFree
  <2> QED BY <2>1 DEF AloneInv, Posted
<1>2. TypeOK /\ AloneInv => [Step]_vars
  BY <1>1
<1> QED BY <1>2, TypeInit, TypeStep, AloneInit, AloneStep, PTL DEF Spec, ConfigFirst

(* The same in the whole of Frontends.                                     *)
COROLLARY ConfigBeforeAll == FrontendsSpec => ConfigFirst
<1>1. FrontendsInit => Init
  BY DEF FrontendsInit
<1>2. [FrontendsNext]_allVars => [Next]_vars
  BY EachFrontView
<1> QED BY <1>1, <1>2, ConfigBeforeFrames, PTL DEF FrontendsSpec, Spec

-----------------------------------------------------------------------------
(* The connect window *)

(* The places of a launch.                                                 *)
Places == {"off", "kill", "wait", "free", "spawn", "tell", "done"}

(* The types of the connect window.                                        *)
LaunchTyped ==
  /\ launchPc \in [Launches -> Places] /\ taken \in [Launches -> Launches \cup {Nobody}]
  /\ readers \in [Launches -> {"off", "try", "connected", "reading", "gone"}]
  /\ pump \in [Launches -> {"off", "read", "gone"}]
  /\ overlap \in BOOLEAN /\ said \subseteq Launches
  /\ W!WindowTypeOK

(* A launch has one child at most to get rid of, and then none, until it   *)
(* starts its own.                                                         *)
OneAtATime ==
  ~overlap =>
    /\ \A l, m \in W!UnderWay : l = m
    /\ \A l \in Launches :
         /\ launchPc[l] = "kill" => alive \subseteq {proc}
         /\ launchPc[l] = "wait" => alive \subseteq {taken[l]}
         /\ launchPc[l] \in {"free", "spawn"} => alive = {}
         /\ launchPc[l] = "tell" => alive \subseteq {l} /\ proc = l
    /\ W!UnderWay = {} => alive \subseteq {proc}
    /\ W!UnderWay = {} /\ status = "running" => proc \in Launches /\ pump[proc] = "read"

(* The control socket is that of a thread that reads it, and the threads   *)
(* of a launch start with it.                                              *)
SocketRead ==
  /\ ctrl # Nobody => readers[ctrl] = "reading"
  /\ \A l \in Launches : launchPc[l] # "done" => readers[l] = "off" /\ pump[l] = "off"

(* The inductive invariant of the connect window.                          *)
LaunchInv == LaunchTyped /\ OneAtATime /\ SocketRead

(* No child runs, and nothing is under way, at the start.                  *)
LEMMA LaunchInitially == W!WindowInit => LaunchInv
BY FrontendsAssumption
   DEF W!WindowInit, LaunchInv, LaunchTyped, Places, W!WindowTypeOK, OneAtATime, W!UnderWay,
       SocketRead, W!WindowAssumption

(* A step of the launch.                                                   *)
LEMMA LaunchSteps ==
  ASSUME LaunchInv, NEW l \in Launches, W!Launch(l) \/ W!Launching(l)
  PROVE  LaunchInv'
<1> USE FrontendsAssumption DEF W!WindowAssumption
<1>1. CASE W!Launch(l)
  <2>1. /\ launchPc[l] = "off" /\ launchPc' = [launchPc EXCEPT ![l] = "kill"]
        /\ url' \in {Nobody, url} /\ overlap' = (overlap \/ W!UnderWay # {})
        /\ UNCHANGED <<taken, proc, status, ctrl, alive, port, served, said, readers, pump>>
    BY <1>1 DEF W!Launch, W!Goto, W!childVars, W!threadVars
  <2>2. overlap' \in BOOLEAN /\ (~overlap' => ~overlap /\ W!UnderWay = {})
    BY <2>1 DEF LaunchInv, LaunchTyped
  <2>3. LaunchTyped'
    BY <2>1, <2>2 DEF LaunchInv, LaunchTyped, Places, W!WindowTypeOK
  <2>4. W!UnderWay = {} => W!UnderWay' = {l}
    BY <2>1 DEF LaunchInv, LaunchTyped, Places, W!UnderWay
  <2>5. OneAtATime'
    BY <2>1, <2>2, <2>4 DEF LaunchInv, LaunchTyped, Places, OneAtATime, W!UnderWay
  <2>6. SocketRead'
    BY <2>1 DEF LaunchInv, LaunchTyped, SocketRead
  <2> QED
    BY <2>3, <2>5, <2>6 DEF LaunchInv
<1>2. CASE W!KillTakes(l)
  BY <1>2 DEF LaunchInv, LaunchTyped, Places, W!WindowTypeOK, OneAtATime, W!UnderWay,
       SocketRead, W!KillTakes, W!Goto, W!childVars, W!threadVars
<1>3. CASE W!KillWaits(l)
  BY <1>3 DEF LaunchInv, LaunchTyped, Places, W!WindowTypeOK, OneAtATime, W!UnderWay,
       SocketRead, W!KillWaits, W!Die, W!Goto, W!sharedVars, W!threadVars
<1>4. CASE W!FreePort(l)
  BY <1>4 DEF LaunchInv, LaunchTyped, Places, W!WindowTypeOK, OneAtATime, W!UnderWay,
       SocketRead, W!FreePort, W!Die, W!Goto, W!threadVars
<1>5. CASE W!Spawn(l)
  BY <1>5 DEF LaunchInv, LaunchTyped, Places, W!WindowTypeOK, OneAtATime, W!UnderWay,
       SocketRead, W!Spawn, W!Goto, W!threadVars
<1>6. CASE W!Tell(l)
  BY <1>6 DEF LaunchInv, LaunchTyped, Places, W!WindowTypeOK, OneAtATime, W!UnderWay,
       SocketRead, W!Tell, W!Goto, W!childVars
<1> QED
  BY <1>1, <1>2, <1>3, <1>4, <1>5, <1>6 DEF W!Launching

(* Children that bind, serve or end: no more of them run.                  *)
LEMMA ChildSteps ==
  ASSUME LaunchInv, NEW c \in Launches, W!Binds(c) \/ W!Serves(c) \/ W!Ends(c)
  PROVE  LaunchInv'
<1> USE FrontendsAssumption DEF W!WindowAssumption
<1>1. /\ UNCHANGED <<browser, launchPc, taken, proc, url, status, ctrl, readers, pump, overlap>>
      /\ alive' \subseteq alive /\ served' \subseteq alive' /\ said' \subseteq Launches
      /\ port' \in Launches \cup {Nobody}
  BY DEF W!Binds, W!Serves, W!Ends, W!Die, W!sharedVars, W!threadVars, LaunchInv, LaunchTyped,
         W!WindowTypeOK
<1> QED
  BY <1>1 DEF LaunchInv, LaunchTyped, W!WindowTypeOK, OneAtATime, W!UnderWay, SocketRead

(* The threads that watch a child.                                         *)
LEMMA WatchSteps ==
  ASSUME LaunchInv, NEW c \in Launches, W!Watching(c)
  PROVE  LaunchInv'
<1> USE FrontendsAssumption DEF W!WindowAssumption
<1>1. /\ UNCHANGED <<browser, launchPc, taken, proc, alive, port, served, overlap>>
      /\ url' \in Launches \cup {Nobody} /\ said' \subseteq said
      /\ launchPc[c] = "done"
  BY DEF W!Watching, W!ReaderConnects, W!ReaderGivesUp, W!ReaderInstalls, W!ReaderEnds,
         W!PumpUrl, W!PumpEnds, W!ReaderTo, W!childVars, W!threadVars,
         LaunchInv, LaunchTyped, W!WindowTypeOK, SocketRead
<1>2. /\ readers' \in [Launches -> {"off", "try", "connected", "reading", "gone"}]
      /\ \A l \in Launches \ {c} : readers'[l] = readers[l]
      /\ ctrl' \in Launches \cup {Nobody} /\ (ctrl' # Nobody => readers'[ctrl'] = "reading")
  BY DEF W!Watching, W!ReaderConnects, W!ReaderGivesUp, W!ReaderInstalls, W!ReaderEnds,
         W!PumpUrl, W!PumpEnds, W!ReaderTo, W!childVars, W!threadVars,
         LaunchInv, LaunchTyped, W!WindowTypeOK, SocketRead
<1>3. /\ pump' \in [Launches -> {"off", "read", "gone"}]
      /\ \A l \in Launches \ {c} : pump'[l] = pump[l]
      /\ \/ UNCHANGED <<pump, status>>
         \/ status' = "ended"
  BY DEF W!Watching, W!ReaderConnects, W!ReaderGivesUp, W!ReaderInstalls, W!ReaderEnds,
         W!PumpUrl, W!PumpEnds, W!ReaderTo, W!childVars, W!threadVars,
         LaunchInv, LaunchTyped, W!WindowTypeOK, SocketRead
<1>4. LaunchTyped'
  BY <1>1, <1>2, <1>3 DEF LaunchInv, LaunchTyped, W!WindowTypeOK
<1>5. OneAtATime'
  BY <1>1, <1>3 DEF LaunchInv, OneAtATime, W!UnderWay
<1>6. SocketRead'
  BY <1>1, <1>2, <1>3 DEF LaunchInv, SocketRead
<1> QED
  BY <1>4, <1>5, <1>6 DEF LaunchInv

(* Every step of the window keeps its invariant.                           *)
LEMMA LaunchStep == ASSUME LaunchInv, [W!WindowNext]_windowVars PROVE LaunchInv'
<1>1. CASE UNCHANGED windowVars
  BY <1>1 DEF windowVars, LaunchInv, LaunchTyped, W!WindowTypeOK, OneAtATime, W!UnderWay, SocketRead
<1>2. CASE W!WindowNext
  BY <1>2, LaunchSteps, ChildSteps, WatchSteps DEF W!WindowNext
<1> QED
  BY <1>1, <1>2

(* Launches one after another leave one child, commands go to a child that *)
(* runs, and what is shown as running runs (gui/connect.py).               *)
THEOREM OneChildLeft == FrontendsSpec => []OneChild
<1>1. FrontendsInit => LaunchInv
  BY LaunchInitially DEF FrontendsInit
<1>2. LaunchInv /\ [FrontendsNext]_allVars => LaunchInv'
  BY EachFrontView, LaunchStep
<1>3. LaunchInv => OneChild
  BY FrontendsAssumption DEF W!WindowAssumption, LaunchInv, LaunchTyped, W!WindowTypeOK, OneAtATime,
     SocketRead, OneChild, W!OneChild, W!SettlesOnTruth, W!Settled, W!UnderWay
<1> QED
  BY <1>1, <1>2, <1>3, PTL DEF FrontendsSpec

-----------------------------------------------------------------------------
(* The way of a picture *)

(* What the bridge sends: units, of which only keys are sent again.        *)
Units == {u \in [kind : {"key", "delta"}, seq : Nat, again : BOOLEAN] :
            u.again = TRUE => u.kind = "key"}

(* Those of before unit n, and these with the configurations.              *)
Before(n) == {u \in Units : u.seq < n}

(* What is on its way when the next unit is n.                             *)
Below(n) == {Q!Config} \cup Before(n)

(* All that is ever on its way.                                            *)
Envelopes == {Q!Config} \cup Units

(* b may be decoded after a: a delta needs its predecessor, and a decoder  *)
(* that was built anew or fed an older key is no worse off without.        *)
Follows(a, b) ==
  b.kind # "delta" \/ a.kind = "config" \/ a.again = TRUE \/ b.seq = a.seq + 1

(* Each element of a sequence may follow the one before it.                *)
Chained(s) == \A i \in 1 .. Len(s) - 1 : Follows(s[i], s[i + 1])

(* A sequence of one element.                                              *)
LEMMA OneElement ==
  ASSUME NEW Elems, NEW x \in Elems
  PROVE  /\ <<x>> \in Seq(Elems) /\ <<x>> # <<>>
         /\ Len(<<x>>) = 1 /\ <<x>>[1] = x /\ <<x>>[Len(<<x>>)] = x
OBVIOUS

(* Sequences may be put together in either order.                          *)
LEMMA Associative ==
  \A s, t, u \in Seq(Envelopes) : (s \o t) \o u = s \o (t \o u)
BY ConcatAssociative

(* The chain of a whole is that of its parts, and of the seam.             *)
LEMMA ChainedParts ==
  ASSUME NEW s \in Seq(Envelopes), NEW t \in Seq(Envelopes)
  PROVE  Chained(s \o t) <=>
           /\ Chained(s) /\ Chained(t)
           /\ s # <<>> /\ t # <<>> => Follows(s[Len(s)], t[1])
<1>1. /\ Len(s) \in Nat /\ Len(t) \in Nat /\ Len(s \o t) = Len(s) + Len(t)
      /\ \A i \in 1 .. Len(s) + Len(t) :
           (s \o t)[i] = IF i <= Len(s) THEN s[i] ELSE t[i - Len(s)]
  BY ConcatProperties, LenProperties
<1>2. (s # <<>> <=> Len(s) > 0) /\ (t # <<>> <=> Len(t) > 0)
  BY EmptySeq, <1>1
<1>3. ASSUME Chained(s \o t) PROVE Chained(s)
  <2> SUFFICES ASSUME NEW i \in 1 .. Len(s) - 1 PROVE Follows(s[i], s[i + 1])
    BY DEF Chained
  <2>1. i \in 1 .. Len(s \o t) - 1 /\ (s \o t)[i] = s[i] /\ (s \o t)[i + 1] = s[i + 1]
    BY <1>1
  <2> QED
    BY <1>3, <2>1 DEF Chained
<1>4. ASSUME Chained(s \o t) PROVE Chained(t)
  <2> SUFFICES ASSUME NEW i \in 1 .. Len(t) - 1 PROVE Follows(t[i], t[i + 1])
    BY DEF Chained
  <2> DEFINE j == Len(s) + i
  <2>1. j \in 1 .. Len(s \o t) - 1 /\ (s \o t)[j] = t[i] /\ (s \o t)[j + 1] = t[i + 1]
    <3>1. j \in Nat /\ j > Len(s) /\ j + 1 <= Len(s) + Len(t) /\ j - Len(s) = i
          /\ (j + 1) - Len(s) = i + 1
      BY <1>1
    <3> QED
      BY <1>1, <3>1
  <2> QED
    BY <1>4, <2>1 DEF Chained
<1>5. ASSUME Chained(s \o t), Len(s) > 0, Len(t) > 0 PROVE Follows(s[Len(s)], t[1])
  <2>1. /\ Len(s) \in 1 .. Len(s \o t) - 1
        /\ (s \o t)[Len(s)] = s[Len(s)] /\ (s \o t)[Len(s) + 1] = t[1]
    BY <1>1, <1>5
  <2> QED
    BY <1>5, <2>1 DEF Chained
<1>6. ASSUME Chained(s), Chained(t), Len(s) > 0 /\ Len(t) > 0 => Follows(s[Len(s)], t[1])
      PROVE  Chained(s \o t)
  <2> SUFFICES ASSUME NEW i \in 1 .. Len(s) + Len(t) - 1
               PROVE  Follows((s \o t)[i], (s \o t)[i + 1])
    BY <1>1 DEF Chained
  <2>1. CASE i < Len(s)
    <3>1. (s \o t)[i] = s[i] /\ (s \o t)[i + 1] = s[i + 1] /\ i \in 1 .. Len(s) - 1
      BY <1>1, <2>1
    <3> QED
      BY <1>6, <3>1 DEF Chained
  <2>2. CASE i = Len(s)
    <3>1. (s \o t)[i] = s[Len(s)] /\ (s \o t)[i + 1] = t[1] /\ Len(s) > 0 /\ Len(t) > 0
      BY <1>1, <2>2
    <3> QED
      BY <1>6, <3>1
  <2>3. CASE i > Len(s)
    <3> DEFINE j == i - Len(s)
    <3>1. j \in 1 .. Len(t) - 1 /\ (i + 1) - Len(s) = j + 1 /\ i + 1 <= Len(s) + Len(t)
      BY <1>1, <2>3
    <3>2. (s \o t)[i] = t[j] /\ (s \o t)[i + 1] = t[j + 1]
      BY <1>1, <2>3, <3>1
    <3> QED
      BY <1>6, <3>1, <3>2 DEF Chained
  <2> QED
    BY <1>1, <2>1, <2>2, <2>3
<1> QED
  BY <1>2, <1>3, <1>4, <1>5, <1>6

(* A chain that n could end goes on with a t that may take its place.      *)
LEMMA ChainGrows ==
  ASSUME NEW s \in Seq(Envelopes), NEW n \in Envelopes, Chained(s \o <<n>>),
         NEW t \in Seq(Envelopes), t # <<>>, NEW m \in Envelopes, Chained(t \o <<m>>),
         \A a \in Envelopes : Follows(a, n) => Follows(a, t[1])
  PROVE  Chained(s \o (t \o <<m>>))
<1>1. <<n>> \in Seq(Envelopes) /\ <<n>> # <<>> /\ <<n>>[1] = n
  OBVIOUS
<1>2. <<m>> \in Seq(Envelopes) /\ t \o <<m>> \in Seq(Envelopes) /\ Len(t) > 0 /\ Len(<<m>>) = 1
  <2>1. <<m>> \in Seq(Envelopes)
    OBVIOUS
  <2> QED
    BY <2>1, ConcatProperties, EmptySeq
<1>3. (t \o <<m>>)[1] = t[1]
  BY <1>2, ConcatProperties
<1>4. Chained(s) /\ (s # <<>> => Follows(s[Len(s)], n))
  BY <1>1, ChainedParts
<1>5. s # <<>> => s[Len(s)] \in Envelopes
  BY EmptySeq, ElementOfSeq
<1>6. s # <<>> => Follows(s[Len(s)], (t \o <<m>>)[1])
  BY <1>3, <1>4, <1>5
<1> QED
  BY <1>2, <1>4, <1>6, ChainedParts

-----------------------------------------------------------------------------
(* The page's buffer *)

(* Every non-empty set of naturals has a least element. *)
LEMMA LeastNatural ==
  ASSUME NEW T \in SUBSET Nat, T # {}
  PROVE  \E x \in T : \A y \in T : x <= y
<1> DEFINE R == {ss \in Nat \X Nat : ss[1] < ss[2]}
<1>1. IsWellFoundedOn(R, Nat)
  BY NatLessThanWellFounded DEF OpToRel
<1>2. \E x \in T : \A y \in T : ~ (<<y, x>> \in R)
  <2> HIDE DEF R
  <2> QED BY <1>1, WFMin
<1>3. PICK x \in T : \A y \in T : ~ (<<y, x>> \in R)
  BY <1>2
<1>4. ASSUME NEW y \in T PROVE x <= y
  <2>1. x \in Nat /\ y \in Nat /\ ~ (<<y, x>> \in R)
    BY <1>3
  <2>2. ~ (y < x)
    BY <2>1
  <2> QED BY <2>1, <2>2
<1> QED BY <1>4

(* The oldest unit that is buffered.                                       *)
LEMMA OldestBuffered ==
  ASSUME NEW a \in Nat, NEW p \in SUBSET Before(a), p # {}
  PROVE  Q!Oldest(p) \in 0 .. a - 1
<1> DEFINE seqs == {e.seq : e \in p}
<1>1. seqs \in SUBSET Nat /\ seqs # {} /\ seqs \subseteq 0 .. a - 1
  BY DEF Before, Units
<1> HIDE DEF seqs
<1>2. \E n \in seqs : \A m \in seqs : n <= m
  BY <1>1, LeastNatural
<1>3. \E n \in seqs : \A e \in p : n <= e.seq
  BY <1>2 DEF seqs
<1>4. Q!Oldest(p) = CHOOSE n \in seqs : \A e \in p : n <= e.seq
  BY DEF Q!Oldest, seqs
<1> QED
  BY <1>1, <1>3, <1>4

(* The page counts as the library does. *)
LEMMA SameCount == \A Elems : Q!Cardinality(Elems) = Cardinality(Elems)
BY DEF Q!Cardinality, Cardinality

(* A run of buffered units ends where the server has got to.               *)
LEMMA RunEnds ==
  ASSUME NEW a \in Nat, NEW p \in SUBSET Before(a), NEW n \in 0 .. a
  PROVE  n + Len(Q!From(p, n)) \in 0 .. a
<1> DEFINE seqs == {e.seq : e \in p}
           run == {s \in seqs : s >= n /\ n .. s \subseteq seqs}
           c == Cardinality(run)
           r == Q!From(p, n)
           Elems == {r[i] : i \in 1 .. c}
<1>1. seqs \subseteq 0 .. a - 1
  BY DEF Before, Units
<1>2. run \in SUBSET (n .. a - 1)
  BY <1>1
<1>3. c \in Nat /\ c <= a - n
  <2>1. IsFiniteSet(n .. a - 1) /\ Cardinality(n .. a - 1) = IF n > a - 1 THEN 0 ELSE a - 1 - n + 1
    BY FS_Interval
  <2>2. IsFiniteSet(run) /\ c <= Cardinality(n .. a - 1)
    <3> HIDE DEF run
    <3> QED
      BY <1>2, <2>1, FS_Subset
  <2>3. c \in Nat
    <3> HIDE DEF run
    <3> QED
      BY <2>2, FS_CardinalityType
  <2> HIDE DEF c
  <2> QED
    BY <2>1, <2>2, <2>3
<1>4. r = [i \in 1 .. c |-> r[i]]
  BY SameCount DEF Q!From
<1>5. Len(r) = c
  <2> HIDE DEF c
  <2>1. r \in [1 .. c -> Elems]
    BY <1>4
  <2>2. r \in Seq(Elems)
    BY <1>3, <2>1, SeqDef
  <2>3. DOMAIN r = 1 .. c
    BY <1>4
  <2> HIDE DEF r, Elems
  <2>4. Len(r) \in Nat /\ 1 .. Len(r) = 1 .. c
    BY <2>2, <2>3, LenProperties
  <2> QED
    BY <1>3, <2>4
<1> HIDE DEF c
<1> QED
  BY <1>3, <1>4, <1>5

(* Whatever the page feeds of its buffer, it goes on at a unit that was    *)
(* sent or at the next.                                                    *)
LEMMA BufferDrains ==
  ASSUME NEW a \in Nat, NEW p \in SUBSET Before(a), p # {}, nextSeq \in 0 .. a \cup {Nothing},
         Q!DrainReorder(p)
  PROVE  nextSeq' \in 0 .. a /\ reorder' \in SUBSET Before(a) /\ gapTimed' \in BOOLEAN
         /\ awaitingKey' \in BOOLEAN
<1> DEFINE n == IF nextSeq = Nothing THEN Q!Oldest(p) ELSE nextSeq
           ready == Q!From(p, n)
           rest == Q!Without(p, ready)
           skipped == Q!From(rest, Q!Oldest(rest))
<1>1. n \in 0 .. a
  BY OldestBuffered
<1>2. n + Len(ready) \in 0 .. a
  <2> HIDE DEF n
  <2> QED
    BY <1>1, RunEnds
<1>3. rest \in SUBSET Before(a) /\ Q!Without(rest, skipped) \in SUBSET Before(a)
  BY DEF Q!Without
<1>4. rest # {} => Q!Oldest(rest) + Len(skipped) \in 0 .. a
  <2> HIDE DEF rest
  <2> QED
    BY <1>3, OldestBuffered, RunEnds
<1>5. \/ /\ reorder' = rest /\ nextSeq' = n + Len(ready) /\ gapTimed' = (rest # {})
         /\ Q!Feed(ready)
      \/ /\ rest # {} /\ reorder' = Q!Without(rest, skipped)
         /\ nextSeq' = Q!Oldest(rest) + Len(skipped) /\ gapTimed' = FALSE
         /\ Q!Feed(ready \o skipped)
  BY DEF Q!DrainReorder
<1> HIDE DEF n, ready, rest, skipped
<1>6. nextSeq' \in 0 .. a /\ reorder' \in SUBSET Before(a) /\ gapTimed' \in BOOLEAN
  BY <1>2, <1>3, <1>4, <1>5
<1> QED
  BY <1>5, <1>6 DEF Q!Feed

-----------------------------------------------------------------------------
(* The window and the chain *)

(* What the page has decoded and what the stream still holds.              *)
Streamed == feeds \o flight

(* The unit of the host that comes next.                                   *)
Coming == Q!Unit("delta", auSeq, FALSE)

(* The types of this view.                                                 *)
QueueTyped ==
  /\ single \in BOOLEAN /\ firPending \in BOOLEAN /\ asked \in BOOLEAN /\ gap \in BOOLEAN
  /\ built \in BOOLEAN /\ awaitingKey \in BOOLEAN /\ gapTimed \in BOOLEAN
  /\ auSeq \in Nat /\ frames \in Nat /\ wants \in Nat
  /\ configs \in 0 .. MaxConfigs /\ errors \in 0 .. MaxErrors
  /\ cached \in 0 .. auSeq - 1 \cup {Nothing} /\ nextSeq \in 0 .. auSeq \cup {Nothing}
  /\ posted \in Seq(Below(auSeq)) /\ flight \in Seq(Below(auSeq))
  /\ reorder \in SUBSET Before(auSeq)
  /\ asked => firPending

(* Over one stream: a page that waits has decoded nothing, and begins with *)
(* a key; what it has and gets is chained, what is posted is chained up to *)
(* the next unit, and so is the whole unless a gap is to be closed.        *)
OneStream ==
  /\ reorder = {} /\ feeds \in Seq(Units)
  /\ awaitingKey <=> feeds = <<>>
  /\ ~built => awaitingKey
  /\ feeds # <<>> => Q!IsKey(feeds[1])
  /\ Chained(Streamed)
  /\ Chained(posted \o <<Coming>>)
  /\ ~gap => Chained(Streamed \o (posted \o <<Coming>>))

(* The inductive invariant of the way of a picture.                        *)
QueueInv == QueueTyped /\ (single => OneStream)

(* Envelopes are what the model calls so.                                  *)
LEMMA Sequences ==
  ASSUME NEW n \in Nat
  PROVE  /\ Seq(Below(n)) \subseteq Seq(Envelopes) /\ Seq(Units) \subseteq Seq(Envelopes)
         /\ Seq(Below(n)) \subseteq Seq(Below(n + 1))
         /\ Q!Unit("delta", n, FALSE) \in Units /\ Q!Unit("key", n, FALSE) \in Units
         /\ \A m \in 0 .. n : Q!Unit("key", m, TRUE) \in Before(n + 1)
<1>1. Below(n) \subseteq Envelopes /\ Units \subseteq Envelopes /\ Below(n) \subseteq Below(n + 1)
  BY DEF Below, Before, Envelopes, Units
<1>2. \A m \in 0 .. n : Q!Unit("key", m, TRUE) \in Before(n + 1)
  BY DEF Before, Units, Q!Unit
<1>3. Q!Unit("delta", n, FALSE) \in Units /\ Q!Unit("key", n, FALSE) \in Units
  BY DEF Units, Q!Unit
<1> QED
  BY <1>1, <1>2, <1>3, SeqMonotonic

(* The sequences of one stream.                                            *)
LEMMA StreamTyped ==
  ASSUME QueueTyped, OneStream
  PROVE  /\ posted \in Seq(Envelopes) /\ flight \in Seq(Envelopes) /\ feeds \in Seq(Envelopes)
         /\ Streamed \in Seq(Envelopes) /\ Coming \in Envelopes
         /\ <<Coming>> \in Seq(Envelopes)
         /\ posted \o <<Coming>> \in Seq(Envelopes)
<1>1. posted \in Seq(Envelopes) /\ flight \in Seq(Envelopes) /\ feeds \in Seq(Envelopes)
  BY Sequences DEF QueueTyped, OneStream
<1>2. Coming \in Envelopes
  BY Sequences DEF QueueTyped, Coming, Envelopes
<1>3. <<Coming>> \in Seq(Envelopes)
  BY <1>2
<1> QED
  BY <1>1, <1>2, <1>3, ConcatProperties DEF Streamed

(* Nothing is sent at the start.                                           *)
LEMMA QueueInitially == Q!QueueInit => QueueInv
<1> SUFFICES ASSUME Q!QueueInit PROVE QueueInv
  OBVIOUS
<1>1. QueueTyped
  <2>1. posted = <<>> /\ flight = <<>> /\ reorder = {}
    BY DEF Q!QueueInit
  <2>2. posted \in Seq(Below(auSeq)) /\ flight \in Seq(Below(auSeq))
    BY <2>1
  <2>3. 0 \in 0 .. MaxConfigs /\ 0 \in 0 .. MaxErrors
    BY FrontendsAssumption DEF Q!QueueAssumption
  <2> QED
    BY <2>1, <2>2, <2>3 DEF Q!QueueInit, QueueTyped
<1>2. OneStream
  <2>1. feeds = <<>> /\ flight = <<>> /\ posted = <<>> /\ reorder = {} /\ awaitingKey
    BY DEF Q!QueueInit
  <2>2. feeds \in Seq(Units) /\ <<>> \in Seq(Envelopes)
    BY <2>1
  <2>3. Streamed = <<>> /\ posted \o <<Coming>> = <<Coming>>
    <3>1. Coming \in Envelopes
      BY <1>1, Sequences DEF QueueTyped, Coming, Envelopes
    <3>2. <<Coming>> \in Seq(Envelopes)
      BY <3>1
    <3> QED
      BY <2>1, <2>2, <3>2, ConcatEmptySeq DEF Streamed
  <2>4. Chained(<<>>)
    BY DEF Chained
  <2>5. Chained(<<Coming>>)
    <3>1. Len(<<Coming>>) = 1
      OBVIOUS
    <3> QED
      BY <3>1 DEF Chained
  <2>6. Streamed \o (posted \o <<Coming>>) = <<Coming>>
    <3>1. Coming \in Envelopes
      BY <1>1, Sequences DEF QueueTyped, Coming, Envelopes
    <3>2. <<Coming>> \in Seq(Envelopes)
      BY <3>1
    <3> QED
      BY <2>3, <3>2, ConcatEmptySeq
  <2> QED
    BY <2>1, <2>2, <2>3, <2>4, <2>5, <2>6 DEF OneStream
<1> QED
  BY <1>1, <1>2 DEF QueueInv

(* More is posted, and may take the place of what was to come: the chain   *)
(* goes on.                                                                *)
LEMMA PostingChains ==
  ASSUME QueueTyped, OneStream, NEW t \in Seq(Envelopes), t # <<>>,
         NEW m \in Envelopes, Chained(t \o <<m>>),
         \A a \in Envelopes : Follows(a, Coming) => Follows(a, t[1]),
         posted' = posted \o t, Coming' = m,
         UNCHANGED <<single, reorder, feeds, awaitingKey, built, flight, gap>>
  PROVE  OneStream'
<1>0. /\ posted \in Seq(Envelopes) /\ Streamed \in Seq(Envelopes) /\ t \in Seq(Envelopes)
      /\ Coming \in Envelopes /\ <<Coming>> \in Seq(Envelopes)
      /\ posted \o <<Coming>> \in Seq(Envelopes)
  BY StreamTyped
<1>1. t \o <<m>> \in Seq(Envelopes) /\ <<m>> \in Seq(Envelopes)
  <2>1. <<m>> \in Seq(Envelopes)
    OBVIOUS
  <2> QED
    BY <2>1, ConcatProperties
<1>2. posted' \o <<m>> = posted \o (t \o <<m>>)
  <2>1. (posted \o t) \o <<m>> = posted \o (t \o <<m>>)
    <3>1. PICK a \in Seq(Envelopes), b \in Seq(Envelopes), c \in Seq(Envelopes) :
               a = posted /\ b = t /\ c = <<m>>
      BY <1>0, <1>1
    <3>2. (a \o b) \o c = a \o (b \o c)
      BY ONLY Associative, Zenon
    <3> QED
      BY ONLY <3>1, <3>2
  <2> QED
    BY <2>1
<1>3. Chained(posted \o (t \o <<m>>))
  BY <1>0, ChainGrows DEF OneStream
<1>4. ~gap => Chained(Streamed \o (posted \o (t \o <<m>>)))
  <2> SUFFICES ASSUME ~gap PROVE Chained(Streamed \o (posted \o (t \o <<m>>)))
    OBVIOUS
  <2>1. Streamed \o posted \in Seq(Envelopes)
    BY <1>0, ConcatProperties
  <2>2. (Streamed \o posted) \o <<Coming>> = Streamed \o (posted \o <<Coming>>)
    <3>1. PICK a \in Seq(Envelopes), b \in Seq(Envelopes), c \in Seq(Envelopes) :
               a = Streamed /\ b = posted /\ c = <<Coming>>
      BY <1>0
    <3>2. (a \o b) \o c = a \o (b \o c)
      BY ONLY Associative, Zenon
    <3> QED
      BY ONLY <3>1, <3>2
  <2>3. (Streamed \o posted) \o (t \o <<m>>) = Streamed \o (posted \o (t \o <<m>>))
    <3>1. PICK a \in Seq(Envelopes), b \in Seq(Envelopes), c \in Seq(Envelopes) :
               a = Streamed /\ b = posted /\ c = t \o <<m>>
      BY <1>0, <1>1
    <3>2. (a \o b) \o c = a \o (b \o c)
      BY ONLY Associative, Zenon
    <3> QED
      BY ONLY <3>1, <3>2
  <2>4. Chained((Streamed \o posted) \o <<Coming>>)
    BY <2>2 DEF OneStream
  <2>5. Chained((Streamed \o posted) \o (t \o <<m>>))
    BY <1>0, <2>1, <2>4, ChainGrows
  <2> QED
    BY <2>3, <2>5
<1>5. UNCHANGED Streamed
  BY DEF Streamed
<1>6. Coming' = m /\ posted' \o <<Coming'>> = posted \o (t \o <<m>>)
  BY <1>2
<1> QED
  BY <1>3, <1>4, <1>5, <1>6 DEF OneStream

(* A unit of the host is posted, with the configuration where it is needed. *)
LEMMA UnitPosted ==
  ASSUME QueueInv, NEW key \in BOOLEAN, NEW resized \in BOOLEAN, Q!OnVideoAu(key, resized),
         configs = 0 \/ ~resized \/ configs < MaxConfigs, frames' \in Nat
  PROVE  QueueInv'
<1> DEFINE au == Q!Unit(IF key THEN "key" ELSE "delta", auSeq, FALSE)
           config == IF configs = 0 \/ resized THEN <<Q!Config>> ELSE <<>>
           t == config \o <<au>>
<1> USE DEF QueueInv
<1>1. /\ posted' = posted \o config \o <<au>>
      /\ configs' = configs + Len(config)
      /\ auSeq' = auSeq + 1
      /\ cached' = IF key THEN auSeq ELSE cached
      /\ firPending' = (firPending /\ ~key) /\ asked' = (asked /\ ~key)
      /\ UNCHANGED <<single, gap, flight, wants, Q!pageVars>>
  BY DEF Q!OnVideoAu
<1>2. UNCHANGED <<built, awaitingKey, nextSeq, reorder, gapTimed, errors, feeds>>
  BY <1>1 DEF Q!pageVars
<1>3. PICK n \in Nat : n = auSeq
  BY DEF QueueTyped
<1>4. /\ au \in Units /\ au \in Below(n + 1) /\ au.seq = n
      /\ au.kind \in {"key", "delta"} /\ Q!Config.kind = "config"
      /\ Q!Config \in Below(n + 1)
  BY <1>3 DEF Units, Before, Below, Q!Unit, Q!Config
<1> HIDE DEF au
<1>5. /\ config \in Seq(Below(n + 1)) /\ <<au>> \in Seq(Below(n + 1))
      /\ <<au>> # <<>> /\ Len(<<au>>) = 1 /\ <<au>>[1] = au
      /\ Len(<<Q!Config>>) = 1 /\ <<Q!Config>>[1] = Q!Config
      /\ config = <<Q!Config>> \/ config = <<>>
  <2>1. config = <<Q!Config>> \/ config = <<>>
    OBVIOUS
  <2>2. <<Q!Config>> \in Seq(Below(n + 1)) /\ <<>> \in Seq(Below(n + 1))
    BY <1>4, OneElement, EmptySeq
  <2> HIDE DEF config
  <2> QED
    BY <1>4, <2>1, <2>2, OneElement
<1>6. t \in Seq(Below(n + 1)) /\ posted \in Seq(Below(n + 1)) /\ posted' = posted \o t
  <2>1. posted \in Seq(Below(n + 1))
    BY <1>3, Sequences DEF QueueTyped
  <2> HIDE DEF config
  <2> QED
    <3>1. t \in Seq(Below(n + 1))
      BY <1>5, ConcatProperties
    <3>2. (posted \o config) \o <<au>> = posted \o (config \o <<au>>)
      <4>1. \A s, u, v \in Seq(Below(n + 1)) : (s \o u) \o v = s \o (u \o v)
        BY ConcatAssociative
      <4> QED
        BY ONLY <1>5, <2>1, <4>1, Zenon
    <3> QED
      BY <1>1, <2>1, <3>1, <3>2
<1>7. Len(config) = 0 \/ (Len(config) = 1 /\ (configs = 0 \/ configs < MaxConfigs))
  <2>1. CASE configs = 0 \/ resized
    <3>1. config = <<Q!Config>>
      BY <2>1
    <3> HIDE DEF config
    <3> QED
      BY <1>5, <2>1, <3>1
  <2>2. CASE ~(configs = 0 \/ resized)
    BY <2>2, EmptySeq
  <2> QED
    BY <2>1, <2>2
<1>8. QueueTyped'
  <2>1. posted' \in Seq(Below(n + 1)) /\ flight' \in Seq(Below(n + 1)) /\ auSeq' = n + 1
    <3> HIDE DEF t
    <3>1. flight \in Seq(Below(n)) /\ Seq(Below(n)) \subseteq Seq(Below(n + 1))
      BY <1>3, Sequences DEF QueueTyped
    <3>2. posted \o t \in Seq(Below(n + 1))
      BY <1>6, ConcatProperties
    <3> QED
      BY <1>1, <1>3, <1>6, <3>1, <3>2
  <2>2. configs' \in 0 .. MaxConfigs
    <3>1. MaxConfigs \in Nat \ {0} /\ configs \in 0 .. MaxConfigs
      BY FrontendsAssumption DEF Q!QueueAssumption, QueueTyped
    <3> HIDE DEF config
    <3> QED
      BY <1>1, <1>7, <3>1
  <2>3. cached' \in 0 .. n \cup {Nothing} /\ nextSeq' \in 0 .. n + 1 \cup {Nothing}
    BY <1>1, <1>2, <1>3 DEF QueueTyped
  <2>4. firPending' \in BOOLEAN /\ asked' \in BOOLEAN /\ (asked' => firPending')
    BY <1>1 DEF QueueTyped
  <2>5. reorder' \in SUBSET Before(n + 1)
    BY <1>2, <1>3 DEF QueueTyped, Before, Units
  <2>6. n = n + 1 - 1
    OBVIOUS
  <2>7. frames' \in Nat /\ auSeq' \in Nat
    BY <2>1
  <2> HIDE DEF config, t
  <2> QED
    BY <1>1, <1>2, <2>1, <2>2, <2>3, <2>4, <2>5, <2>6, <2>7 DEF QueueTyped
<1>9. ASSUME single PROVE OneStream'
  <2> DEFINE m == Q!Unit("delta", n + 1, FALSE)
  <2>1. m \in Units /\ m.kind = "delta" /\ m.seq = n + 1 /\ Coming' = m
        /\ Coming.kind = "delta" /\ Coming.seq = n
    BY <1>1, <1>3 DEF Units, Q!Unit, Coming
  <2> HIDE DEF m
  <2>2. m \in Envelopes /\ t \in Seq(Envelopes) /\ au \in Envelopes /\ Q!Config \in Envelopes
    <3>1. n + 1 \in Nat /\ m \in Envelopes /\ au \in Envelopes /\ Q!Config \in Envelopes
      BY <1>4, <2>1 DEF Envelopes
    <3> HIDE DEF t
    <3> QED
      BY <1>6, <3>1, Sequences
  <2>3. Follows(au, m) /\ Follows(Q!Config, au)
    BY <1>4, <2>1 DEF Follows
  <2>4. \A a \in Envelopes : Follows(a, Coming) => Follows(a, au) /\ Follows(a, Q!Config)
    BY <1>4, <2>1 DEF Follows
  <2>5. <<m>> \in Seq(Envelopes) /\ <<m>> # <<>> /\ <<m>>[1] = m /\ Len(<<m>>) = 1
    BY <2>2
  <2>6. <<au>> \in Seq(Envelopes) /\ <<au>> \o <<m>> \in Seq(Envelopes)
    BY <2>2, <2>5, ConcatProperties
  <2>7. \A x \in Envelopes : <<x>> \in Seq(Envelopes) /\ Chained(<<x>>) /\ <<x>> # <<>>
    BY DEF Chained
  <2>8. Chained(<<au>> \o <<m>>) /\ (<<au>> \o <<m>>)[1] = au
    <3>1. <<au>>[Len(<<au>>)] = au
      BY <2>2, OneElement
    <3>2. Chained(<<au>> \o <<m>>)
      BY <2>2, <2>3, <2>5, <2>6, <2>7, <3>1, ChainedParts
    <3>3. (<<au>> \o <<m>>)[1] = IF 1 <= Len(<<au>>) THEN <<au>>[1] ELSE <<m>>[1 - Len(<<au>>)]
      BY <1>5, <2>5, <2>6, ConcatProperties
    <3> QED
      BY <1>5, <3>2, <3>3
  <2>9. t # <<>> /\ Chained(t \o <<m>>)
        /\ \A a \in Envelopes : Follows(a, Coming) => Follows(a, t[1])
    <3>1. CASE config = <<>>
      <4>1. t = <<au>>
        BY <2>6, <3>1, ConcatEmptySeq
      <4> HIDE DEF t, config
      <4> QED
        BY <1>5, <2>4, <2>8, <4>1
    <3>2. CASE config = <<Q!Config>>
      <4>1. t = <<Q!Config>> \o <<au>> /\ <<Q!Config>> \in Seq(Envelopes)
        BY <2>2, <3>2
      <4>2. t \o <<m>> = <<Q!Config>> \o (<<au>> \o <<m>>)
        <5>1. (<<Q!Config>> \o <<au>>) \o <<m>> = <<Q!Config>> \o (<<au>> \o <<m>>)
          <6>1. PICK a \in Seq(Envelopes), b \in Seq(Envelopes), c \in Seq(Envelopes) :
                     a = <<Q!Config>> /\ b = <<au>> /\ c = <<m>>
            BY <2>5, <2>6, <4>1
          <6>2. (a \o b) \o c = a \o (b \o c)
            BY ONLY Associative, Zenon
          <6> QED
            BY ONLY <6>1, <6>2
        <5> HIDE DEF t, config
        <5> QED
          BY <4>1, <5>1
      <4>3. <<au>> \o <<m>> # <<>> /\ Chained(<<Q!Config>>) /\ <<Q!Config>> # <<>>
        BY <2>2, <2>5, <2>6, <2>7, ConcatEqualIffEmpty
      <4>4. Chained(t \o <<m>>)
        <5>1. <<Q!Config>>[Len(<<Q!Config>>)] = Q!Config
          BY <2>2, OneElement
        <5>2. PICK c \in Seq(Envelopes) : c = <<Q!Config>>
          BY <4>1
        <5>3. PICK u \in Seq(Envelopes) : u = <<au>> \o <<m>>
          BY <2>6
        <5>4. Chained(c) /\ Chained(u) /\ Follows(c[Len(c)], u[1])
          BY <2>3, <2>8, <4>3, <5>1, <5>2, <5>3
        <5>5. Chained(c \o u)
          BY <5>4, ChainedParts
        <5> QED
          BY <4>2, <5>2, <5>3, <5>5
      <4>5. t # <<>> /\ t[1] = Q!Config
        <5> HIDE DEF t
        <5> QED
          BY <1>5, <2>6, <4>1, ConcatProperties, ConcatEqualIffEmpty
      <4> HIDE DEF t, config
      <4> QED
        BY <2>4, <4>4, <4>5
    <3> HIDE DEF config, t
    <3> QED
      BY <1>5, <3>1, <3>2
  <2>10. OneStream
    BY <1>9
  <2> HIDE DEF t, config
  <2> QED
    BY <1>1, <1>2, <1>6, <2>1, <2>2, <2>9, <2>10, PostingChains
<1> QED
  BY <1>1, <1>8, <1>9

(* The host sends a unit, or answers a request.                            *)
LEMMA HostSteps == ASSUME QueueInv, Q!HostSends \/ Q!HostAnswers PROVE QueueInv'
<1>1. CASE Q!HostSends
  <2>1. frames' \in Nat
    BY <1>1 DEF Q!HostSends, QueueInv, QueueTyped
  <2> QED
    BY <1>1, <2>1, UnitPosted DEF Q!HostSends
<1>2. CASE Q!HostAnswers
  <2>1. frames' \in Nat
    BY <1>2 DEF Q!HostAnswers, QueueInv, QueueTyped
  <2> QED
    BY <1>2, <2>1, UnitPosted DEF Q!HostAnswers
<1> QED
  BY <1>1, <1>2

(* A page asks for a key: the last is sent again.                          *)
LEMMA KeyAsked == ASSUME QueueInv, Q!HandleKeyframe PROVE QueueInv'
<1> USE DEF QueueInv
<1>1. /\ wants > 0 /\ wants' = wants - 1
      /\ UNCHANGED <<single, auSeq, cached, configs, frames, gap, flight>>
      /\ UNCHANGED <<built, awaitingKey, nextSeq, reorder, gapTimed, errors, feeds>>
  BY DEF Q!HandleKeyframe, Q!pageVars
<1>2. firPending' = TRUE /\ asked' \in BOOLEAN
  BY DEF Q!HandleKeyframe, QueueTyped
<1> DEFINE k == Q!Unit("key", cached, TRUE)
<1>3. posted' = posted \/ (cached # Nothing /\ posted' = Append(posted, k))
  BY DEF Q!HandleKeyframe
<1>4. CASE posted' = posted
  <2>1. QueueTyped'
    BY <1>1, <1>2, <1>4 DEF QueueTyped
  <2>2. OneStream => OneStream'
    BY <1>1, <1>4 DEF OneStream, Streamed, Coming
  <2> QED
    BY <1>1, <2>1, <2>2
<1>5. CASE cached # Nothing /\ posted' = Append(posted, k)
  <2>1. k \in Before(auSeq) /\ k.kind = "key" /\ k.again = TRUE
    BY <1>5 DEF QueueTyped, Before, Units, Q!Unit
  <2> HIDE DEF k
  <2>2. k \in Below(auSeq) /\ k \in Envelopes
    BY <2>1 DEF Below, Before, Envelopes
  <2>3. posted' \in Seq(Below(auSeq))
    BY <1>5, <2>2, AppendProperties DEF QueueTyped
  <2>4. QueueTyped'
    BY <1>1, <1>2, <2>3 DEF QueueTyped
  <2>5. ASSUME OneStream PROVE OneStream'
    <3>1. <<k>> \in Seq(Envelopes) /\ <<k>> # <<>> /\ Len(<<k>>) = 1 /\ <<k>>[1] = k
      BY <2>2
    <3>2. Coming \in Envelopes /\ <<Coming>> \in Seq(Envelopes) /\ <<Coming>> # <<>>
          /\ Len(<<Coming>>) = 1 /\ <<Coming>>[1] = Coming
      BY <2>5, StreamTyped
    <3>3. Follows(k, Coming) /\ \A a \in Envelopes : Follows(a, k)
      BY <2>1 DEF Follows
    <3>4. Chained(<<k>>) /\ Chained(<<Coming>>)
      BY <3>1, <3>2 DEF Chained
    <3>5. Chained(<<k>> \o <<Coming>>)
      BY <3>1, <3>2, <3>3, <3>4, ChainedParts
    <3>6. posted' = posted \o <<k>>
      BY <1>5, <2>2, <2>5, StreamTyped, AppendIsConcat
    <3>7. Coming' = Coming
      BY <1>1 DEF Coming
    <3> QED
      BY <1>1, <2>5, <3>1, <3>2, <3>3, <3>5, <3>6, <3>7, PostingChains
  <2> QED
    BY <1>1, <2>4, <2>5
<1> QED
  BY <1>3, <1>4, <1>5

(* A sequence is its head and the rest.                                    *)
LEMMA HeadFirst ==
  ASSUME NEW Elems, NEW s \in Seq(Elems), s # <<>>
  PROVE  /\ Head(s) \in Elems /\ Head(s) = s[1] /\ Tail(s) \in Seq(Elems)
         /\ s = <<Head(s)>> \o Tail(s)
<1>1. Head(s) \in Elems /\ Head(s) = s[1] /\ Tail(s) \in Seq(Elems) /\ Len(s) \in Nat /\ Len(s) > 0
  BY HeadTailProperties, EmptySeq
<1>2. 1 \in 1 .. Len(s) /\ Len(s) \in 1 .. Len(s)
  BY <1>1
<1>3. SubSeq(s, 1, Len(s)) = <<s[1]>> \o SubSeq(s, 2, Len(s))
  BY <1>2, SubSeqRecursiveFirst
<1>4. s = <<s[1]>> \o Tail(s)
  BY <1>3, SubSeqFull, TailIsSubSeq
<1> QED
  BY <1>1, <1>4

(* What a unit that is dropped leaves: the rest of a chain, and a gap.     *)
LEMMA DropChains ==
  ASSUME QueueTyped, OneStream, posted # <<>>, posted' = Tail(posted), gap' = TRUE,
         UNCHANGED <<auSeq, flight, reorder, feeds, awaitingKey, built>>
  PROVE  OneStream'
<1>0. /\ posted \in Seq(Envelopes) /\ <<Coming>> \in Seq(Envelopes)
      /\ posted \o <<Coming>> \in Seq(Envelopes)
  BY StreamTyped
<1>1. posted = <<Head(posted)>> \o Tail(posted) /\ Tail(posted) \in Seq(Envelopes)
      /\ Head(posted) \in Envelopes
  BY <1>0, HeadFirst
<1>2. <<Head(posted)>> \in Seq(Envelopes)
  BY <1>1, OneElement
<1>3. Tail(posted) \o <<Coming>> \in Seq(Envelopes)
  BY <1>0, <1>1, ConcatProperties
<1>4. posted \o <<Coming>> = <<Head(posted)>> \o (Tail(posted) \o <<Coming>>)
  <2>1. (<<Head(posted)>> \o Tail(posted)) \o <<Coming>>
          = <<Head(posted)>> \o (Tail(posted) \o <<Coming>>)
    <3>1. PICK a \in Seq(Envelopes), b \in Seq(Envelopes), c \in Seq(Envelopes) :
               a = <<Head(posted)>> /\ b = Tail(posted) /\ c = <<Coming>>
      BY <1>0, <1>1, <1>2
    <3>2. (a \o b) \o c = a \o (b \o c)
      BY ONLY Associative, Zenon
    <3> QED
      BY ONLY <3>1, <3>2
  <2> QED
    BY <1>1, <2>1
<1>5. Chained(Tail(posted) \o <<Coming>>)
  BY <1>2, <1>3, <1>4, ChainedParts DEF OneStream
<1> QED
  BY <1>5 DEF OneStream, Streamed, Coming

(* What is written moves from what is posted to the stream; a key ends the *)
(* gap, and a delta is not written in one.                                 *)
LEMMA WriteChains ==
  ASSUME QueueTyped, OneStream, posted # <<>>, NEW e, e = Head(posted),
         posted' = Tail(posted), flight' = Append(flight, e),
         gap' = (gap /\ ~Q!IsKey(e)), e.kind = "delta" => ~gap,
         UNCHANGED <<auSeq, reorder, feeds, awaitingKey, built>>
  PROVE  OneStream'
<1>0. /\ posted \in Seq(Envelopes) /\ flight \in Seq(Envelopes) /\ feeds \in Seq(Envelopes)
      /\ Streamed \in Seq(Envelopes) /\ Coming \in Envelopes
      /\ <<Coming>> \in Seq(Envelopes)
  BY StreamTyped
<1> DEFINE rest == Tail(posted) \o <<Coming>>
<1>1. posted = <<e>> \o Tail(posted) /\ Tail(posted) \in Seq(Envelopes) /\ e \in Envelopes
  BY <1>0, HeadFirst
<1>2. <<e>> \in Seq(Envelopes) /\ <<e>> # <<>> /\ <<e>>[1] = e /\ <<e>>[Len(<<e>>)] = e
      /\ Chained(<<e>>)
  <2>1. Len(<<e>>) = 1
    BY <1>1, OneElement
  <2> QED
    BY <1>1, <2>1, OneElement DEF Chained
<1>3. rest \in Seq(Envelopes) /\ Streamed \o <<e>> \in Seq(Envelopes)
  BY <1>0, <1>1, <1>2, ConcatProperties
<1>4. posted \o <<Coming>> = <<e>> \o rest
  <2>1. (<<e>> \o Tail(posted)) \o <<Coming>> = <<e>> \o (Tail(posted) \o <<Coming>>)
    <3>1. PICK a \in Seq(Envelopes), b \in Seq(Envelopes), c \in Seq(Envelopes) :
               a = <<e>> /\ b = Tail(posted) /\ c = <<Coming>>
      BY <1>0, <1>1, <1>2
    <3>2. (a \o b) \o c = a \o (b \o c)
      BY ONLY Associative, Zenon
    <3> QED
      BY ONLY <3>1, <3>2
  <2> QED
    BY <1>1, <2>1
<1>5. Streamed' = Streamed \o <<e>>
  <2>1. Append(flight, e) = flight \o <<e>>
    BY <1>0, <1>1, AppendIsConcat
  <2>2. (feeds \o flight) \o <<e>> = feeds \o (flight \o <<e>>)
    <3>1. PICK a \in Seq(Envelopes), b \in Seq(Envelopes), c \in Seq(Envelopes) :
               a = feeds /\ b = flight /\ c = <<e>>
      BY <1>0, <1>2
    <3>2. (a \o b) \o c = a \o (b \o c)
      BY ONLY Associative, Zenon
    <3> QED
      BY ONLY <3>1, <3>2
  <2> QED
    BY <2>1, <2>2 DEF Streamed
<1> HIDE DEF rest
<1>6. Streamed \o (<<e>> \o rest) = (Streamed \o <<e>>) \o rest
  <2>1. (Streamed \o <<e>>) \o rest = Streamed \o (<<e>> \o rest)
    <3>1. PICK a \in Seq(Envelopes), b \in Seq(Envelopes), c \in Seq(Envelopes) :
               a = Streamed /\ b = <<e>> /\ c = rest
      BY <1>0, <1>2, <1>3
    <3>2. (a \o b) \o c = a \o (b \o c)
      BY ONLY Associative, Zenon
    <3> QED
      BY ONLY <3>1, <3>2
  <2> QED
    BY ONLY <2>1
<1>7. Chained(rest) /\ (rest # <<>> => Follows(e, rest[1]))
  BY <1>2, <1>3, <1>4, <1>0, ChainedParts DEF OneStream
<1>8. Chained(Streamed \o <<e>>)
  <2>1. CASE gap
    <3>1. \A a : Follows(a, e)
      BY <2>1 DEF Follows
    <3> QED
      BY <1>2, <3>1, <1>0, ChainedParts DEF OneStream
  <2>2. CASE ~gap
    <3>1. Chained((Streamed \o <<e>>) \o rest)
      BY <1>4, <1>6, <2>2 DEF OneStream
    <3> QED
      BY <1>3, <3>1, ChainedParts
  <2> QED
    BY <2>1, <2>2
<1>9. Chained((Streamed \o <<e>>) \o rest)
  <2> DEFINE s == Streamed \o <<e>>
  <2>1. s # <<>> /\ s[Len(s)] = e
    <3>1. Len(s) = Len(Streamed) + 1 /\ Len(Streamed) \in Nat
          /\ s[Len(Streamed) + 1] = <<e>>[1]
      <4>1. Append(Streamed, e) = s
        BY <1>0, <1>1, AppendIsConcat
      <4>2. Len(Append(Streamed, e)) = Len(Streamed) + 1
            /\ Append(Streamed, e)[Len(Streamed) + 1] = e /\ Len(Streamed) \in Nat
        BY <1>0, <1>1, AppendProperties, LenProperties
      <4> QED
        BY <1>2, <4>1, <4>2
    <3> HIDE DEF s
    <3> QED
      BY <1>2, <3>1, EmptySeq
  <2> HIDE DEF s
  <2>2. s \in Seq(Envelopes) /\ Chained(s)
    BY <1>3, <1>8 DEF s
  <2>3. Chained(s \o rest)
    BY <1>3, <1>7, <2>1, <2>2, ChainedParts
  <2> QED
    BY <2>3 DEF s
<1>10. posted' \o <<Coming'>> = rest
  BY DEF rest, Coming
<1>11. UNCHANGED <<reorder, feeds, awaitingKey, built>>
  OBVIOUS
<1>12. Streamed' \o (posted' \o <<Coming'>>) = (Streamed \o <<e>>) \o rest
  BY <1>5, <1>10
<1>13. Chained(Streamed)' /\ Chained(posted \o <<Coming>>)'
      /\ Chained(Streamed \o (posted \o <<Coming>>))'
  BY <1>5, <1>7, <1>8, <1>9, <1>10, <1>12
<1> QED
  BY <1>11, <1>13 DEF OneStream

(* The loop writes what was posted, or drops a delta.                      *)
LEMMA FrameSent == ASSUME QueueInv, Q!SendFrame PROVE QueueInv'
<1> USE DEF QueueInv
<1>1. /\ posted # <<>> /\ posted' = Tail(posted)
      /\ UNCHANGED <<single, auSeq, cached, configs, frames, wants>>
      /\ UNCHANGED <<built, awaitingKey, nextSeq, reorder, gapTimed, errors, feeds>>
  BY DEF Q!SendFrame, Q!pageVars
<1>2. PICK e : e = Head(posted)
  OBVIOUS
<1>3. Tail(posted) \in Seq(Below(auSeq)) /\ e \in Below(auSeq)
  BY <1>1, <1>2, HeadFirst DEF QueueTyped
<1>4. Append(flight, e) \in Seq(Below(auSeq))
  BY <1>3, AppendProperties DEF QueueTyped
<1>5. \/ flight' = flight /\ gap' = TRUE
      \/ /\ flight' = Append(flight, e) /\ gap' = (gap /\ ~Q!IsKey(e))
         /\ single /\ e.kind = "delta" => ~gap
  <2>1. CASE Q!SendDelta(e)
    <3>1. e.kind = "delta" /\ gap \in BOOLEAN
      BY <2>1 DEF Q!SendDelta, QueueTyped
    <3>2. \/ flight' = flight /\ gap' = TRUE
          \/ flight' = Append(flight, e) /\ gap' = gap /\ ~gap
      BY <2>1, <3>1 DEF Q!SendDelta
    <3> QED
      BY <3>1, <3>2 DEF Q!IsKey
  <2>2. CASE Q!SendOther(e)
    BY <2>2 DEF Q!SendOther
  <2> QED
    BY <1>2, <2>1, <2>2 DEF Q!SendFrame
<1>6. (firPending' = TRUE /\ asked' \in BOOLEAN) \/ UNCHANGED <<firPending, asked>>
  BY DEF Q!SendFrame, Q!SendDelta, Q!SendOther, Q!RequestFir
<1>7. gap' \in BOOLEAN
  BY <1>5
<1>8. flight' \in Seq(Below(auSeq))
  BY <1>4, <1>5 DEF QueueTyped
<1>9. QueueTyped'
  <2>1. firPending' \in BOOLEAN /\ asked' \in BOOLEAN /\ (asked' => firPending')
    <3>1. firPending \in BOOLEAN /\ asked \in BOOLEAN /\ (asked => firPending)
      BY DEF QueueTyped
    <3>2. CASE firPending' = TRUE /\ asked' \in BOOLEAN
      <4>1. firPending' \in BOOLEAN /\ firPending'
        BY <3>2
      <4> QED
        BY <3>2, <4>1
    <3>3. CASE firPending' = firPending /\ asked' = asked
      BY <3>1, <3>3, Zenon
    <3> QED
      BY <1>6, <3>2, <3>3
  <2>2. posted' \in Seq(Below(auSeq'))  /\ flight' \in Seq(Below(auSeq'))
    BY <1>1, <1>3, <1>8
  <2> QED
    BY <1>1, <1>7, <2>1, <2>2 DEF QueueTyped
<1>10. ASSUME single PROVE OneStream'
  <2>1. CASE flight' = flight /\ gap' = TRUE
    BY <1>1, <1>10, <2>1, DropChains
  <2>2. CASE flight' = Append(flight, e) /\ gap' = (gap /\ ~Q!IsKey(e))
             /\ (single /\ e.kind = "delta" => ~gap)
    <3>1. e.kind = "delta" => ~gap
      BY <1>10, <2>2
    <3> QED
      BY <1>1, <1>2, <1>10, <2>2, <3>1, WriteChains
  <2> QED
    BY <1>5, <2>1, <2>2
<1> QED
  BY <1>1, <1>9, <1>10

(* What a page makes of the unit that it reads over one stream: it starts  *)
(* anew, waits on, or decodes it, the first a key.                         *)
LEMMA UnitRead ==
  ASSUME QueueTyped, OneStream, single, NEW e \in Envelopes, Q!HandleEnvelope(e)
  PROVE  /\ reorder' = {}
         /\ \/ feeds' = <<>> /\ awaitingKey' = TRUE
            \/ /\ feeds' = feeds \o <<e>> /\ awaitingKey' = FALSE /\ built' = TRUE
               /\ e \in Units /\ (feeds = <<>> => Q!IsKey(e))
<1> USE DEF OneStream
<1>1. CASE e = Q!Config
  BY <1>1 DEF Q!HandleEnvelope, Q!ResetDecoder
<1>2. CASE e # Q!Config /\ ~built
  <2>1. UNCHANGED <<awaitingKey, reorder, feeds>>
    BY <1>2 DEF Q!HandleEnvelope
  <2>2. awaitingKey /\ awaitingKey \in BOOLEAN
    BY <1>2 DEF QueueTyped
  <2> QED
    BY <2>1, <2>2
<1>3. CASE e # Q!Config /\ built
  <2>1. Q!Feed(<<e>>) /\ reorder' = reorder /\ built' = built /\ e \in Units
    BY <1>3 DEF Q!HandleEnvelope, Envelopes
  <2>2. Len(<<e>>) = 1 /\ <<e>>[1] = e /\ <<e>> \in Seq(Units) /\ 1 .. 1 = {1}
    BY <2>1, OneElement
  <2> DEFINE keys == {i \in 1 .. Len(<<e>>) : Q!IsKey(<<e>>[i])}
             starts == {i \in keys : \A j \in keys : i <= j}
  <2>3. /\ awaitingKey' = (awaitingKey /\ keys = {})
        /\ feeds' = feeds \o (IF ~awaitingKey THEN <<e>>
                              ELSE IF keys = {} THEN <<>>
                              ELSE SubSeq(<<e>>, CHOOSE i \in starts : TRUE, Len(<<e>>)))
    BY <2>1 DEF Q!Feed
  <2>4. keys = IF Q!IsKey(e) THEN {1} ELSE {}
    BY <2>2
  <2>5. Q!IsKey(e) => (CHOOSE i \in starts : TRUE) = 1
    BY <2>4
  <2>6. SubSeq(<<e>>, 1, 1) = <<e>>
    BY <2>2, SubSeqFull
  <2>7. built' = TRUE /\ reorder' = {}
    BY <1>3, <2>1 DEF QueueTyped
  <2> HIDE DEF keys, starts
  <2>8. CASE ~awaitingKey
    <3>1. feeds' = feeds \o <<e>> /\ awaitingKey' = FALSE /\ feeds # <<>>
      BY <2>3, <2>8
    <3> QED
      BY <2>1, <2>7, <3>1
  <2>9. CASE awaitingKey /\ ~Q!IsKey(e)
    <3>1. feeds' = feeds \o <<>> /\ feeds = <<>>
      BY <2>3, <2>4, <2>9
    <3>2. feeds' = <<>>
      BY <3>1, ConcatEmptySeq
    <3>3. awaitingKey' = TRUE
      BY <2>3, <2>4, <2>9
    <3> QED
      BY <2>7, <3>2, <3>3
  <2>10. CASE awaitingKey /\ Q!IsKey(e)
    <3>1. feeds' = feeds \o <<e>>
      BY <2>2, <2>3, <2>4, <2>5, <2>6, <2>10
    <3>2. awaitingKey' = FALSE
      BY <2>3, <2>4, <2>10
    <3> QED
      BY <2>1, <2>7, <2>10, <3>1, <3>2
  <2> QED
    BY <2>8, <2>9, <2>10
<1> QED
  BY <1>1, <1>2, <1>3

(* Whether the unit is decoded or not, what the page has and gets stays a  *)
(* chain.                                                                  *)
LEMMA ReadChains ==
  ASSUME QueueTyped, OneStream, single, flight # <<>>, flight' = Tail(flight),
         Q!HandleEnvelope(Head(flight)), UNCHANGED <<posted, gap, auSeq>>
  PROVE  OneStream'
<1> DEFINE e == Head(flight)
           rest == posted \o <<Coming>>
<1>0. /\ flight \in Seq(Envelopes) /\ feeds \in Seq(Envelopes) /\ Streamed \in Seq(Envelopes)
      /\ rest \in Seq(Envelopes)
  BY StreamTyped
<1>1. flight = <<e>> \o Tail(flight) /\ Tail(flight) \in Seq(Envelopes) /\ e \in Envelopes
  BY <1>0, HeadFirst
<1>2. /\ reorder' = {}
      /\ \/ feeds' = <<>> /\ awaitingKey' = TRUE
         \/ /\ feeds' = feeds \o <<e>> /\ awaitingKey' = FALSE /\ built' = TRUE
            /\ e \in Units /\ (feeds = <<>> => Q!IsKey(e))
  BY <1>1, UnitRead
<1> HIDE DEF e
<1>3. <<e>> \in Seq(Envelopes) /\ <<e>> # <<>>
  BY <1>1, OneElement
<1>4. feeds \o flight = (feeds \o <<e>>) \o Tail(flight)
  <2>1. (feeds \o <<e>>) \o Tail(flight) = feeds \o (<<e>> \o Tail(flight))
    <3>1. PICK a \in Seq(Envelopes), b \in Seq(Envelopes), c \in Seq(Envelopes) :
               a = feeds /\ b = <<e>> /\ c = Tail(flight)
      BY <1>0, <1>1, <1>3
    <3>2. (a \o b) \o c = a \o (b \o c)
      BY ONLY Associative, Zenon
    <3> QED
      BY ONLY <3>1, <3>2
  <2> QED
    BY <1>1, <2>1
<1>5. feeds \o <<e>> \in Seq(Envelopes)
  BY <1>0, <1>3, ConcatProperties
<1>6. UNCHANGED rest
  BY DEF Coming
<1> HIDE DEF rest
<1>7. Chained(Streamed) /\ Chained(rest) /\ (~gap => Chained(Streamed \o rest))
  BY DEF OneStream, rest
<1>8. CASE feeds' = <<>> /\ awaitingKey' = TRUE
  <2>1. Streamed' = Tail(flight)
    BY <1>1, <1>8, ConcatEmptySeq DEF Streamed
  <2>2. Chained(Tail(flight))
    BY <1>1, <1>4, <1>5, <1>7, ChainedParts DEF Streamed
  <2>3. ~gap => Chained(Tail(flight) \o rest)
    <3>1. Tail(flight) \o rest \in Seq(Envelopes)
      BY <1>0, <1>1, ConcatProperties
    <3>2. ((feeds \o <<e>>) \o Tail(flight)) \o rest = (feeds \o <<e>>) \o (Tail(flight) \o rest)
      <4>1. PICK a \in Seq(Envelopes), b \in Seq(Envelopes), c \in Seq(Envelopes) :
                 a = feeds \o <<e>> /\ b = Tail(flight) /\ c = rest
        BY <1>0, <1>1, <1>5
      <4>2. (a \o b) \o c = a \o (b \o c)
        BY ONLY Associative, Zenon
      <4> QED
        BY ONLY <4>1, <4>2
    <3> QED
      BY <1>4, <1>5, <1>7, <3>1, <3>2, ChainedParts DEF Streamed
  <2>4. feeds' \in Seq(Units)
    BY <1>8
  <2>5. Chained(Streamed') /\ Chained(rest') /\ (~gap' => Chained(Streamed' \o rest'))
    BY <1>6, <1>7, <2>1, <2>2, <2>3
  <2> QED
    BY <1>2, <1>8, <2>4, <2>5 DEF OneStream, rest
<1>9. CASE /\ feeds' = feeds \o <<e>> /\ awaitingKey' = FALSE /\ built' = TRUE
           /\ e \in Units /\ (feeds = <<>> => Q!IsKey(e))
  <2>1. Streamed' = Streamed
    BY <1>4, <1>9 DEF Streamed
  <2>2. feeds \in Seq(Units) /\ (feeds # <<>> => Q!IsKey(feeds[1]))
    BY DEF OneStream
  <2>3. feeds' \in Seq(Units) /\ feeds' # <<>>
        /\ feeds'[1] = IF feeds = <<>> THEN e ELSE feeds[1]
    <3>1. /\ Append(feeds, e) \in Seq(Units) /\ Append(feeds, e) # <<>>
          /\ \A i \in 1 .. Len(feeds) : Append(feeds, e)[i] = feeds[i]
          /\ Append(feeds, e)[Len(feeds) + 1] = e
          /\ Append(feeds, e) = feeds \o <<e>>
      BY <1>9, <2>2, AppendProperties, AppendIsConcat
    <3>2. feeds = <<>> => Len(feeds) = 0
      BY EmptySeq
    <3>3. feeds # <<>> => 1 \in 1 .. Len(feeds)
      BY <2>2, EmptySeq
    <3> QED
      BY <1>9, <3>1, <3>2, <3>3
  <2>4. Q!IsKey(feeds'[1])
    BY <1>9, <2>2, <2>3 DEF Q!IsKey
  <2>5. Chained(Streamed') /\ Chained(rest') /\ (~gap' => Chained(Streamed' \o rest'))
    BY <1>6, <1>7, <2>1
  <2> QED
    BY <1>2, <1>9, <2>3, <2>4, <2>5 DEF OneStream, rest
<1> QED
  BY <1>2, <1>8, <1>9

(* The rest of a sequence, without one element.                            *)
LEMMA WithoutOne ==
  ASSUME NEW Elems, NEW s \in Seq(Elems), NEW i \in 1 .. Len(s)
  PROVE  /\ SubSeq(s, 1, i - 1) \o SubSeq(s, i + 1, Len(s)) \in Seq(Elems)
         /\ i = 1 => SubSeq(s, 1, i - 1) \o SubSeq(s, i + 1, Len(s)) = Tail(s)
         /\ i = 1 => s[i] = Head(s)
<1>1. Len(s) \in Nat /\ \A j \in 1 .. Len(s) : s[j] \in Elems
  BY LenProperties, ElementOfSeq
<1>2. SubSeq(s, 1, i - 1) \in Seq(Elems)
  BY <1>1, SubSeqProperties
<1>3. SubSeq(s, i + 1, Len(s)) \in Seq(Elems)
  BY <1>1, SubSeqProperties
<1>4. s # <<>>
  BY <1>1, EmptySeq
<1>5. ASSUME i = 1 PROVE SubSeq(s, 1, i - 1) \o SubSeq(s, i + 1, Len(s)) = Tail(s)
  <2>1. SubSeq(s, 1, 0) = <<>>
    BY SubSeqEmpty
  <2>2. SubSeq(s, 2, Len(s)) = Tail(s) /\ Tail(s) \in Seq(Elems)
    BY <1>4, TailIsSubSeq, HeadTailProperties
  <2>3. SubSeq(s, 1, i - 1) = <<>> /\ SubSeq(s, i + 1, Len(s)) = Tail(s)
    BY <1>5, <2>1, <2>2
  <2> QED
    BY <2>2, <2>3, ConcatEmptySeq
<1>6. s[1] = Head(s)
  BY <1>4, HeadFirst
<1> QED
  BY <1>2, <1>3, <1>5, <1>6, ConcatProperties

(* The types of what a page changes when it reads an envelope.             *)
LEMMA PageTyped ==
  ASSUME QueueInv, NEW e \in Below(auSeq), Q!HandleEnvelope(e)
  PROVE  /\ built' \in BOOLEAN /\ awaitingKey' \in BOOLEAN /\ gapTimed' \in BOOLEAN
         /\ wants' \in Nat /\ nextSeq' \in 0 .. auSeq \cup {Nothing}
         /\ reorder' \in SUBSET Before(auSeq)
<1>0. /\ built \in BOOLEAN /\ awaitingKey \in BOOLEAN /\ gapTimed \in BOOLEAN /\ wants \in Nat
      /\ nextSeq \in 0 .. auSeq \cup {Nothing} /\ reorder \in SUBSET Before(auSeq)
      /\ auSeq \in Nat
  BY DEF QueueInv, QueueTyped
<1>1. CASE e = Q!Config
  <2>1. built' = TRUE /\ awaitingKey' = TRUE /\ gapTimed' = gapTimed
        /\ wants' = wants + 1 /\ nextSeq' = Nothing /\ reorder' = {}
    BY <1>1 DEF Q!HandleEnvelope, Q!ResetDecoder
  <2> QED
    BY <1>0, <2>1
<1>2. CASE e # Q!Config /\ ~built
  BY <1>0, <1>2 DEF Q!HandleEnvelope
<1>3. CASE e # Q!Config /\ built /\ single
  BY <1>0, <1>3 DEF Q!HandleEnvelope, Q!Feed
<1>4. CASE e # Q!Config /\ built /\ ~single
  <2> DEFINE p == {f \in reorder : f.seq # e.seq} \cup {e}
  <2>1. Q!DrainReorder(p) /\ built' = built /\ wants' = wants
    BY <1>4 DEF Q!HandleEnvelope
  <2>2. p \in SUBSET Before(auSeq) /\ p # {}
    BY <1>0, <1>4 DEF Below
  <2> HIDE DEF p
  <2>3. nextSeq' \in 0 .. auSeq /\ reorder' \in SUBSET Before(auSeq) /\ gapTimed' \in BOOLEAN
        /\ awaitingKey' \in BOOLEAN
    BY <1>0, <2>1, <2>2, BufferDrains
  <2> QED
    BY <1>0, <2>1, <2>3
<1> QED
  BY <1>1, <1>2, <1>3, <1>4

(* The page reads an envelope.                                             *)
LEMMA EnvelopeRead == ASSUME QueueInv, Q!Read PROVE QueueInv'
<1> USE DEF QueueInv
<1>1. PICK i \in 1 .. Len(flight) :
        /\ single => i = 1
        /\ Q!HandleEnvelope(flight[i])
        /\ flight' = SubSeq(flight, 1, i - 1) \o SubSeq(flight, i + 1, Len(flight))
  BY DEF Q!Read
<1>2. /\ UNCHANGED <<single, posted, gap, errors>>
      /\ UNCHANGED <<auSeq, cached, configs, firPending, asked, frames>>
  BY DEF Q!Read, Q!serverVars
<1>3. flight \in Seq(Below(auSeq)) /\ flight[i] \in Below(auSeq)
  BY ElementOfSeq DEF QueueTyped
<1>4. flight' \in Seq(Below(auSeq)) /\ (i = 1 => flight' = Tail(flight) /\ flight[i] = Head(flight))
  BY <1>1, <1>3, WithoutOne
<1>5. flight # <<>>
  BY <1>3, EmptySeq
<1>6. /\ built' \in BOOLEAN /\ awaitingKey' \in BOOLEAN /\ gapTimed' \in BOOLEAN
      /\ wants' \in Nat /\ nextSeq' \in 0 .. auSeq \cup {Nothing}
      /\ reorder' \in SUBSET Before(auSeq)
  BY <1>1, <1>3, PageTyped
<1>7. QueueTyped'
  BY <1>2, <1>4, <1>6 DEF QueueTyped
<1>8. ASSUME single PROVE OneStream'
  <2>1. i = 1
    BY <1>1, <1>8
  <2>2. Q!HandleEnvelope(Head(flight)) /\ flight' = Tail(flight)
    BY <1>1, <1>4, <2>1
  <2> QED
    BY <1>2, <1>5, <1>8, <2>2, ReadChains
<1> QED
  BY <1>2, <1>7, <1>8

(* The decoder is built again: what the stream holds is still a chain.     *)
LEMMA DecoderReset == ASSUME QueueInv, Q!DecoderError PROVE QueueInv'
<1> USE DEF QueueInv
<1>1. /\ errors < MaxErrors /\ errors' = errors + 1
      /\ built' = TRUE /\ awaitingKey' = TRUE /\ reorder' = {} /\ nextSeq' = Nothing
      /\ wants' = wants + 1 /\ feeds' = <<>>
      /\ UNCHANGED <<single, posted, gap, flight, gapTimed>>
      /\ UNCHANGED <<auSeq, cached, configs, firPending, asked, frames>>
  BY DEF Q!DecoderError, Q!ResetDecoder, Q!serverVars
<1>2. errors' \in 0 .. MaxErrors /\ wants' \in Nat
  <2>1. MaxErrors \in Nat
    BY FrontendsAssumption DEF Q!QueueAssumption
  <2> QED
    BY <1>1, <2>1 DEF QueueTyped
<1>3. QueueTyped'
  BY <1>1, <1>2 DEF QueueTyped
<1>4. ASSUME single PROVE OneStream'
  <2> DEFINE rest == posted \o <<Coming>>
  <2>1. OneStream
    BY <1>4
  <2>2. /\ flight \in Seq(Envelopes) /\ feeds \in Seq(Envelopes) /\ rest \in Seq(Envelopes)
    BY <2>1, StreamTyped
  <2>3. UNCHANGED rest
    BY <1>1 DEF Coming
  <2> HIDE DEF rest
  <2>4. Streamed' = flight
    BY <1>1, <2>2, ConcatEmptySeq DEF Streamed
  <2>5. Chained(Streamed) /\ Chained(rest) /\ (~gap => Chained(Streamed \o rest))
    BY <2>1 DEF OneStream, rest
  <2>6. Chained(flight)
    BY <2>2, <2>5, ChainedParts DEF Streamed
  <2>7. ~gap => Chained(flight \o rest)
    <3>1. flight \o rest \in Seq(Envelopes)
      BY <2>2, ConcatProperties
    <3>2. (feeds \o flight) \o rest = feeds \o (flight \o rest)
      <4>1. PICK a \in Seq(Envelopes), b \in Seq(Envelopes), c \in Seq(Envelopes) :
                 a = feeds /\ b = flight /\ c = rest
        BY <2>2
      <4>2. (a \o b) \o c = a \o (b \o c)
        BY ONLY Associative, Zenon
      <4> QED
        BY ONLY <4>1, <4>2
    <3> QED
      BY <2>2, <2>5, <3>1, <3>2, ChainedParts DEF Streamed
  <2>8. Chained(Streamed') /\ Chained(rest') /\ (~gap' => Chained(Streamed' \o rest'))
    BY <1>1, <2>3, <2>4, <2>5, <2>6, <2>7
  <2>9. feeds' \in Seq(Units)
    BY <1>1
  <2> QED
    BY <1>1, <2>8, <2>9 DEF OneStream, rest
<1> QED
  BY <1>1, <1>3, <1>4

(* Every step keeps the chain.                                             *)
LEMMA QueueStep == ASSUME QueueInv, [Q!QueueNext]_queueVars PROVE QueueInv'
<1>1. CASE UNCHANGED queueVars
  BY <1>1 DEF queueVars, QueueInv, QueueTyped, OneStream, Streamed, Coming
<1>2. CASE Q!QueueNext
  BY <1>2, HostSteps, FrameSent, KeyAsked, EnvelopeRead, DecoderReset DEF Q!QueueNext
<1> QED
  BY <1>1, <1>2

(* What the decoder got is a chain that begins with a key: a delta has its *)
(* predecessor before it, or a key that was sent again.                    *)
LEMMA ChainIsKept == QueueInv => Q!QueueTypeOK /\ Q!WindowKeepsChain
<1> SUFFICES ASSUME QueueInv PROVE Q!QueueTypeOK /\ Q!WindowKeepsChain
  OBVIOUS
<1>1. \A e \in reorder : e.seq < auSeq
  BY DEF QueueInv, QueueTyped, Before
<1>2. single => reorder = {}
  BY DEF QueueInv, OneStream
<1>3. Q!QueueTypeOK
  BY <1>1, <1>2 DEF QueueInv, QueueTyped, Q!QueueTypeOK
<1>4. ASSUME single, NEW i \in 1 .. Len(feeds)
      PROVE  \/ Q!IsKey(feeds[i])
             \/ Q!LastKey(i).again
             \/ i > 1 /\ feeds[i].seq = feeds[i - 1].seq + 1
  <2>1. OneStream /\ QueueTyped
    BY <1>4 DEF QueueInv
  <2>2. feeds \in Seq(Units) /\ Len(feeds) \in Nat /\ Streamed \in Seq(Envelopes)
        /\ feeds \in Seq(Envelopes) /\ flight \in Seq(Envelopes)
    BY <2>1, StreamTyped, LenProperties DEF OneStream
  <2>3. Chained(feeds)
    BY <2>1, <2>2, ChainedParts DEF OneStream, Streamed
  <2>4. feeds # <<>> /\ Q!IsKey(feeds[1])
    BY <2>1, <2>2, EmptySeq DEF OneStream
  <2>5. CASE i = 1
    BY <2>4, <2>5
  <2>6. CASE i > 1
    <3> DEFINE a == feeds[i - 1]
               b == feeds[i]
    <3>1. a \in Units /\ b \in Units /\ i - 1 \in 1 .. Len(feeds) - 1 /\ i - 1 + 1 = i
      BY <2>2, <2>6, ElementOfSeq
    <3>2. Follows(a, b)
      BY <2>3, <3>1 DEF Chained
    <3>3. b.kind # "delta" \/ a.again = TRUE \/ b.seq = a.seq + 1
      BY <3>1, <3>2 DEF Follows, Units
    <3>4. b.kind # "delta" => Q!IsKey(b)
      BY <3>1 DEF Units, Q!IsKey
    <3>5. ASSUME a.again = TRUE, ~Q!IsKey(b) PROVE Q!LastKey(i).again
      <4>1. Q!IsKey(a)
        BY <3>1, <3>5 DEF Units, Q!IsKey
      <4>2. \A j \in 1 .. i : Q!IsKey(feeds[j]) /\ (\A l \in j + 1 .. i : ~Q!IsKey(feeds[l]))
                              <=> j = i - 1
        <5> SUFFICES ASSUME NEW j \in 1 .. i
                     PROVE  Q!IsKey(feeds[j]) /\ (\A l \in j + 1 .. i : ~Q!IsKey(feeds[l]))
                            <=> j = i - 1
          OBVIOUS
        <5>1. CASE j = i
          BY <3>5, <5>1
        <5>2. CASE j = i - 1
          <6>1. j + 1 .. i = {i}
            BY <5>2
          <6> QED
            BY <3>5, <4>1, <5>2, <6>1
        <5>3. CASE j < i - 1
          <6>1. i - 1 \in j + 1 .. i
            BY <5>3
          <6> QED
            BY <4>1, <5>3, <6>1
        <5> QED
          BY <5>1, <5>2, <5>3
      <4>3. i - 1 \in 1 .. i
        BY <2>6
      <4>4. (CHOOSE j \in 1 .. i : Q!IsKey(feeds[j]) /\ \A l \in j + 1 .. i : ~Q!IsKey(feeds[l]))
              = i - 1
        BY <4>2, <4>3
      <4>5. Q!LastKey(i) = a
        BY <4>4 DEF Q!LastKey
      <4> QED
        BY <3>5, <4>5
    <3> QED
      BY <2>6, <3>3, <3>4, <3>5
  <2> QED
    BY <2>5, <2>6
<1>5. Q!WindowKeepsChain
  BY <1>4 DEF Q!WindowKeepsChain
<1> QED
  BY <1>3, <1>5

(* On one stream the decoder gets no delta whose predecessor was dropped,  *)
(* whatever backs up, resets or is resized, except behind a key that was   *)
(* sent again (server.py, index.html).                                     *)
THEOREM ChainKept == FrontendsSpec => []WindowKeepsChain
<1>1. FrontendsInit => QueueInv
  BY QueueInitially DEF FrontendsInit
<1>2. QueueInv /\ [FrontendsNext]_allVars => QueueInv'
  BY EachFrontView, QueueStep
<1>3. QueueInv => WindowKeepsChain
  BY ChainIsKept DEF WindowKeepsChain
<1> QED
  BY <1>1, <1>2, <1>3, PTL DEF FrontendsSpec

-----------------------------------------------------------------------------
(* The reports of the pages *)

(* A packet lost that no report has noted was lost in this second, after   *)
(* the last report, or in the one before, when none has come since; a loss *)
(* that is noted is at most one second older than its note.                *)
LossIsRecent ==
  /\ lastSeenLoss # Unseen /\ lostPkts > lastSeenLoss =>
       sinceReal <= IF reported = {} THEN 1 ELSE 0
  /\ sinceLoss < Recent => sinceReal <= sinceLoss + 1

(* The inductive invariant: with it, that pages stay open and ages bounded. *)
HealthInv ==
  /\ H!HealthTypeOK /\ pages # {}
  /\ losses \in 0 .. MaxLost /\ lostPkts <= losses
  /\ sinceReal \in 0 .. Recent + 1
  /\ LossIsRecent

(* The limits are numbers. *)
LEMMA HealthLimits ==
  /\ Recent \in Nat /\ Recent > 0 /\ ForceEvery \in Nat /\ MaxLost \in Nat
  /\ Unseen \notin Nat /\ Unseen \notin 0 .. MaxLost
BY FrontendsAssumption DEF H!HealthAssumption

(* At the start nothing was lost. *)
LEMMA HealthInitially == H!HealthInit => HealthInv
<1> SUFFICES ASSUME H!HealthInit PROVE HealthInv
  OBVIOUS
<1>1. {grey, up, owed} \subseteq BOOLEAN
  BY DEF H!HealthInit
<1>2. /\ pages \subseteq Pages /\ pages # {} /\ broken \subseteq pages /\ reported \subseteq pages
      /\ losses = 0 /\ lostPkts = 0 /\ lastSeenLoss = Unseen /\ stuckStreak = 0
      /\ sinceLoss = Recent /\ sinceForced = ForceEvery /\ sinceReal = Recent + 1
  BY DEF H!HealthInit
<1>3. H!HealthTypeOK
  BY <1>1, <1>2, HealthLimits DEF H!HealthTypeOK
<1>4. LossIsRecent
  BY <1>2, HealthLimits DEF LossIsRecent
<1> QED
  BY <1>2, <1>3, <1>4, HealthLimits DEF HealthInv

(* The steps of the world keep the invariant. *)
LEMMA HealthWorld ==
  ASSUME HealthInv,
         \/ H!Lose \/ H!TurnGrey \/ H!Answered \/ H!SessionDown \/ H!SessionUp
         \/ UNCHANGED healthVars
  PROVE  HealthInv'
<1> USE HealthLimits DEF HealthInv, H!HealthTypeOK, LossIsRecent, H!noteVars, H!worldVars
<1>1. CASE H!Lose
  BY <1>1 DEF H!Lose
<1>2. CASE H!TurnGrey
  BY <1>2 DEF H!TurnGrey
<1>3. CASE H!Answered
  BY <1>3 DEF H!Answered
<1>4. CASE H!SessionDown
  <2>1. lostPkts' = 0 /\ lastSeenLoss' = lastSeenLoss /\ losses' = losses
    BY <1>4 DEF H!SessionDown
  <2>2. lastSeenLoss \in 0 .. MaxLost \cup {Unseen} /\ losses \in 0 .. MaxLost
    OBVIOUS
  <2>3. ~(lastSeenLoss' # Unseen /\ lostPkts' > lastSeenLoss')
    BY <2>1, <2>2
  <2>4. UNCHANGED <<sinceLoss, sinceReal, reported>>
    BY <1>4 DEF H!SessionDown
  <2>5. LossIsRecent'
    BY <2>3, <2>4
  <2>6. {grey', up', owed'} \subseteq BOOLEAN
    <3>1. grey' \in BOOLEAN /\ up' = FALSE /\ owed' = FALSE
      BY <1>4 DEF H!SessionDown
    <3> QED
      BY <3>1
  <2>7. H!HealthTypeOK'
    BY <1>4, <2>1, <2>2, <2>6 DEF H!SessionDown
  <2> QED
    BY <1>4, <2>1, <2>2, <2>5, <2>7 DEF H!SessionDown
<1>5. CASE H!SessionUp
  BY <1>5 DEF H!SessionUp
<1>6. CASE UNCHANGED healthVars
  BY <1>6 DEF healthVars
<1> QED
  BY <1>1, <1>2, <1>3, <1>4, <1>5, <1>6

(* A report notes a loss of the last seconds, and asks only then. *)
LEMMA HealthReport ==
  ASSUME HealthInv, NEW p \in Pages, H!HandleStats(p)
  PROVE  HealthInv' /\ (owed' = TRUE /\ owed = FALSE => sinceReal <= Recent)
<1> USE HealthLimits
<1>1. /\ reported' = reported \cup {p} /\ p \in pages /\ reported' # {}
      /\ lastSeenLoss' = lostPkts
      /\ sinceLoss' = IF lastSeenLoss # Unseen /\ lostPkts > lastSeenLoss THEN 0 ELSE sinceLoss
      /\ UNCHANGED <<pages, broken, grey, losses, greys, downs, up, lostPkts, sinceReal>>
  BY DEF H!HandleStats, H!NoteLoss, H!worldVars
<1>2. /\ stuckStreak' \in 0 .. 2
      /\ stuckStreak' = 2 => sinceLoss' < Recent
  BY DEF H!HandleStats, HealthInv, H!HealthTypeOK
<1>3. /\ sinceForced' \in 0 .. ForceEvery
      /\ owed' = TRUE \/ owed' = owed
      /\ owed' = owed \/ stuckStreak' >= 2
  <2>1. CASE H!Force(stuckStreak')
    BY <2>1 DEF H!HandleStats, H!Force
  <2>2. CASE ~H!Force(stuckStreak')
    BY <2>2 DEF H!HandleStats, HealthInv, H!HealthTypeOK
  <2> QED
    BY <2>1, <2>2
<1>4. owed \in BOOLEAN /\ owed' \in BOOLEAN
  BY <1>3 DEF HealthInv, H!HealthTypeOK
<1>5. sinceLoss' \in 0 .. Recent /\ (sinceLoss' < Recent => sinceReal <= sinceLoss' + 1)
  BY <1>1 DEF HealthInv, H!HealthTypeOK, LossIsRecent
<1>6. H!HealthTypeOK' /\ LossIsRecent'
  BY <1>1, <1>2, <1>3, <1>5, <1>4 DEF HealthInv, H!HealthTypeOK, LossIsRecent
<1>7. owed' = TRUE /\ owed = FALSE => sinceReal <= Recent
  <2> SUFFICES ASSUME owed' = TRUE, owed = FALSE PROVE sinceReal <= Recent
    OBVIOUS
  <2>1. stuckStreak' >= 2
    BY <1>3
  <2>2. stuckStreak' = 2
    BY <1>2, <2>1
  <2>3. sinceLoss' \in 0 .. Recent /\ sinceLoss' < Recent /\ sinceReal <= sinceLoss' + 1
    BY <1>2, <1>5, <2>2
  <2>4. PICK age \in 0 .. Recent : age < Recent /\ sinceReal <= age + 1
    BY <2>3
  <2>5. sinceReal \in 0 .. Recent + 1
    BY DEF HealthInv
  <2> QED
    BY <2>4, <2>5
<1> QED
  BY <1>1, <1>6, <1>7 DEF HealthInv

(* A second passes when every page has reported. *)
LEMMA HealthSecond == ASSUME HealthInv, H!Second PROVE HealthInv'
<1> USE HealthLimits
<1>1. /\ reported # {} /\ reported' = {} /\ pages # {}
      /\ UNCHANGED <<pages, broken, grey, losses, greys, downs, up, lostPkts, lastSeenLoss,
                     stuckStreak, owed>>
  BY DEF H!Second, H!worldVars, HealthInv
<1>2. /\ sinceLoss \in 0 .. Recent /\ sinceForced \in 0 .. ForceEvery
      /\ sinceReal \in 0 .. Recent + 1
      /\ sinceLoss' = IF sinceLoss < Recent THEN sinceLoss + 1 ELSE Recent
      /\ sinceForced' = IF sinceForced < ForceEvery THEN sinceForced + 1 ELSE ForceEvery
      /\ sinceReal' = IF sinceReal < Recent + 1 THEN sinceReal + 1 ELSE Recent + 1
  BY DEF H!Second, H!Older, HealthInv, H!HealthTypeOK
<1>3. H!HealthTypeOK'
  BY <1>1, <1>2 DEF HealthInv, H!HealthTypeOK
<1>4. LossIsRecent'
  BY <1>1, <1>2 DEF HealthInv, LossIsRecent
<1> QED
  BY <1>1, <1>2, <1>3, <1>4 DEF HealthInv

(* Every step keeps the invariant and asks for an intra only soon after a  *)
(* packet was lost.                                                        *)
LEMMA HealthStep ==
  ASSUME HealthInv, [H!HealthNext]_healthVars
  PROVE  HealthInv' /\ [owed' /\ ~owed => sinceReal <= Recent]_H!healthVars
<1>1. owed \in BOOLEAN
  BY DEF HealthInv, H!HealthTypeOK
<1>2. CASE \E p \in Pages : H!HandleStats(p)
  BY <1>1, <1>2, HealthReport
<1>3. CASE H!Second
  <2>1. owed' = owed
    BY <1>3 DEF H!Second
  <2> QED
    BY <1>3, <2>1, HealthSecond
<1>4. CASE \/ H!Lose \/ H!TurnGrey \/ H!Answered \/ H!SessionDown \/ H!SessionUp
           \/ UNCHANGED healthVars
  <2>1. owed' = owed \/ owed' = FALSE
    BY <1>4 DEF H!Lose, H!TurnGrey, H!Answered, H!SessionDown, H!SessionUp, healthVars
  <2> QED
    BY <1>4, <2>1, HealthWorld
<1> QED
  BY <1>2, <1>3, <1>4 DEF H!HealthNext

(* A grey desktop on a clean stream makes nobody ask the host for an       *)
(* intra: each request follows a packet lost in the last seconds           *)
(* (handle_input_event: "on a clean stream gray is just content").         *)
THEOREM GreyAsksNothing == FrontendsSpec => []H!HealthTypeOK /\ H!GreyIsContent
<1>1. FrontendsInit => HealthInv
  BY HealthInitially DEF FrontendsInit
<1>2. HealthInv /\ [FrontendsNext]_allVars
        => HealthInv' /\ [owed' /\ ~owed => sinceReal <= Recent]_H!healthVars
  BY EachFrontView, HealthStep
<1>3. HealthInv => H!HealthTypeOK
  BY DEF HealthInv
<1> QED
  BY <1>1, <1>2, <1>3, PTL DEF FrontendsSpec, H!GreyIsContent

-----------------------------------------------------------------------------
(* The control socket *)

(* Where the accept thread and a broadcast stand. *)
ControlPlaces ==
  /\ acceptPc \in {"test", "accept", "hello", "append", "spawn", "note", "ended"}
  /\ acceptPc \in {"hello", "append", "spawn", "note"} <=> accepted # NoClient
  /\ acceptPc \in {"hello", "append", "spawn"} =>
       conn[accepted] # "backlog" /\ reader[accepted] = "none"
  /\ castPc \in {"idle", "send"}

(* A client whose connection is away or in the backlog has no reader.      *)
NewUnread ==
  \A c \in Clients :
    conn[c] \in {"away", "backlog"} =>
      reader[c] = "none" /\ ~(acceptPc \in {"hello", "append", "spawn"} /\ accepted = c)

(* The inductive invariant. *)
ControlInv == S!CtlTypeOK /\ ControlPlaces /\ NewUnread /\ S!SocketsOwned

(* At the start nobody has connected. *)
LEMMA ControlInitially == S!CtlInit => ControlInv
BY FrontendsAssumption
   DEF S!ControlAssumption, S!CtlInit, ControlInv, S!CtlTypeOK, ControlPlaces, NewUnread,
       S!SocketsOwned

(* The clients keep the invariant. *)
LEMMA ControlClients ==
  ASSUME ControlInv, NEW c \in Clients, S!Connect(c) \/ S!HangUp(c) \/ S!StopReading(c)
  PROVE  ControlInv'
<1> USE DEF ControlInv, S!CtlTypeOK, ControlPlaces, NewUnread, S!SocketsOwned, S!closeVars,
            S!worldVars, S!acceptVars, S!castVars
<1>1. CASE S!Connect(c)
  BY <1>1 DEF S!Connect
<1>2. CASE S!HangUp(c)
  BY <1>2 DEF S!HangUp
<1>3. CASE S!StopReading(c)
  BY <1>3 DEF S!StopReading
<1> QED
  BY <1>1, <1>2, <1>3

(* So does the accept thread, which hands each socket to a reader. *)
LEMMA ControlAccepts == ASSUME ControlInv, S!AcceptThread PROVE ControlInv'
<1> USE FrontendsAssumption
    DEF S!ControlAssumption, ControlInv, S!CtlTypeOK, ControlPlaces, NewUnread, S!SocketsOwned,
        S!closeVars, S!worldVars, S!acceptVars, S!castVars, S!AcceptGoto
<1>1. CASE S!AcceptTest
  BY <1>1 DEF S!AcceptTest
<1>2. CASE S!Accept
  BY <1>2 DEF S!Accept
<1>3. CASE S!Hello
  BY <1>3 DEF S!Hello
<1>4. CASE S!ListClient
  BY <1>4 DEF S!ListClient
<1>5. CASE S!StartReader
  BY <1>5 DEF S!StartReader
<1>6. CASE S!ListReader
  BY <1>6 DEF S!ListReader
<1> QED
  BY <1>1, <1>2, <1>3, <1>4, <1>5, <1>6 DEF S!AcceptThread

(* The readers, broadcasts and close keep it. *)
LEMMA ControlServes ==
  ASSUME ControlInv, S!Serves \/ S!BroadcastBegin \/ S!CloseBegin
  PROVE  ControlInv'
<1> USE FrontendsAssumption
    DEF S!ControlAssumption, ControlInv, S!CtlTypeOK, ControlPlaces, NewUnread, S!SocketsOwned,
        S!closeVars, S!worldVars, S!acceptVars, S!castVars, S!ReaderGoto
<1>1. ASSUME NEW c \in Clients, S!ReadEnds(c) PROVE ControlInv'
  BY <1>1 DEF S!ReadEnds
<1>2. ASSUME NEW c \in Clients, S!Deregister(c) PROVE ControlInv'
  BY <1>2 DEF S!Deregister
<1>3. ASSUME NEW c \in Clients, S!ReaderShut(c) PROVE ControlInv'
  BY <1>3 DEF S!ReaderShut
<1>4. CASE S!BroadcastBegin
  BY <1>4 DEF S!BroadcastBegin
<1>5. CASE S!BroadcastSend
  BY <1>5 DEF S!BroadcastSend
<1>6. CASE S!BroadcastEnd
  BY <1>6 DEF S!BroadcastEnd
<1>7. CASE S!CloseBegin
  BY <1>7 DEF S!CloseBegin
<1>8. CASE S!CloseClients
  BY <1>8 DEF S!CloseClients
<1>9. CASE S!CloseEnd
  BY <1>9 DEF S!CloseEnd
<1> QED
  BY <1>1, <1>2, <1>3, <1>4, <1>5, <1>6, <1>7, <1>8, <1>9 DEF S!Serves, S!Reader

(* Every step of the control server keeps its invariant. *)
LEMMA ControlStep == ASSUME ControlInv, [S!CtlNext]_controlVars PROVE ControlInv'
<1>1. CASE UNCHANGED controlVars
  BY <1>1 DEF controlVars, ControlInv, S!CtlTypeOK, ControlPlaces, NewUnread, S!SocketsOwned
<1>2. CASE S!CtlNext
  BY <1>2, ControlClients, ControlAccepts, ControlServes DEF S!CtlNext
<1> QED
  BY <1>1, <1>2

(* Each open client socket has a thread that will close it, wherever close *)
(* falls between the steps of the accept thread (_accept_loop,             *)
(* _client_read_loop, close): with all threads at their ends none is open. *)
THEOREM NoClientLeft ==
  FrontendsSpec =>
    [](/\ S!CtlTypeOK /\ S!SocketsOwned
       /\ acceptPc = "ended"
          /\ (\A c \in Clients : reader[c] \in {"none", "done"}) => S!Released)
<1>1. FrontendsInit => ControlInv
  BY ControlInitially DEF FrontendsInit
<1>2. ControlInv /\ [FrontendsNext]_allVars => ControlInv'
  BY EachFrontView, ControlStep
<1>3. ControlInv =>
        /\ S!CtlTypeOK /\ S!SocketsOwned
        /\ acceptPc = "ended"
           /\ (\A c \in Clients : reader[c] \in {"none", "done"}) => S!Released
  BY DEF ControlInv, S!CtlTypeOK, S!SocketsOwned, S!Released
<1> QED
  BY <1>1, <1>2, <1>3, PTL DEF FrontendsSpec
=============================================================================
