------------------------------ MODULE Connection ------------------------------
(***************************************************************************)
(* A connection and the machinery under it: the life of connections        *)
(* (SessionLifecycle), the handshake that opens one (Handshake), the first *)
(* packets of its stream (InitialBurst), the cipher of its control channel *)
(* (ControlChannel), the rollover counter of its media streams             *)
(* (SrtpRollover), clipboard sync over it (Clipboard), the host's cursor   *)
(* (CursorRelay), the sound on its way to the device (AudioSink) and the   *)
(* capture of the traffic (PcapRecorder).                                  *)
(*                                                                         *)
(* They share no state but the socket, of which each sees another side, so *)
(* a behaviour is about one view, picked at the start.                     *)
(***************************************************************************)
EXTENDS SessionLifecycle, SrtpRollover

CONSTANTS
  Asks, NoKey,
  Senders, Records, MaxSend, Ahead, Queries, Free,
  MaxBytes, MaxDatagrams, Idle,
  NumTiles, NumUnits, UnitLen, Tries, MaxDropped,
  Texts, MaxCopies, NoText,
  CacheIds, CacheSize, MaxDrawn,
  QueueCap, ChunkLen, Block, Late, MaxFeeds, MaxTicks

VARIABLES
  view,
  hsStage, socket, unclosed, primary, method, again, redo, forced, alt, elsewhere,
  granted, altDisplay, ecbKey, cipherKey, used, asks,
  whole, stage, queries, hostSent, taken, from, lastIn, decCtr, got, encCtr,
  holder, drafts, wire,
  consumed, tap, tcpSeq, queue, batch, file, halt, writerPc, endPc, impatient,
  recorded, datagrams, peeks,
  try, silentHost, intras, sentUpTo, sock, buf, burstPc, groups, given, seeded, firs,
  dropped, swaps,
  local, remote, lastSeen, lastReceived, pollPc, cur, pushing, partial, toHost,
  toClient, copies, pushed, curPushed, unseen,
  hostCursor, unsent, hostTold, drawnCount, cursorWire, armed, cursorCache, lastNotified,
  registered, rxPc, rxImage, regPc, regImage, handed, unknownNow, sentId, lateReplay, unread,
  waiting, head, headOff, headAt, stream, closed, feeding, feedAt, cbPc, idx, cutoff, stopPc,
  clock, fed, known, heard, heardOff

H == INSTANCE Handshake WITH stage <- hsStage, Queries <- Asks
C == INSTANCE ControlChannel
P == INSTANCE PcapRecorder
B == INSTANCE InitialBurst
T == INSTANCE Clipboard
K == INSTANCE CursorRelay
A == INSTANCE AudioSink

ASSUME ConnectionAssumption ==
  /\ H!HandshakeAssumption /\ C!ChannelAssumption /\ P!PcapAssumption
  /\ B!BurstAssumption /\ T!ClipboardAssumption /\ K!CursorAssumption
  /\ A!AudioAssumption

handshakeVars == <<hsStage, socket, unclosed, primary, method, again, redo, forced, alt,
                   elsewhere, granted, altDisplay, ecbKey, cipherKey, used, asks>>
channelVars == <<whole, stage, queries, hostSent, taken, from, lastIn, decCtr, got,
                 encCtr, holder, drafts, wire>>
captureVars == <<consumed, tap, tcpSeq, queue, batch, file, halt, writerPc, endPc,
                 impatient, recorded, datagrams, peeks>>
burstVars == <<try, silentHost, intras, sentUpTo, sock, buf, burstPc, groups, given,
               seeded, firs, dropped, swaps>>
clipVars == <<local, remote, lastSeen, lastReceived, pollPc, cur, pushing, partial,
              toHost, toClient, copies, pushed, curPushed, unseen>>
cursorVars == <<hostCursor, unsent, hostTold, drawnCount, cursorWire, armed,
                cursorCache, lastNotified, registered, rxPc, rxImage, regPc, regImage,
                handed, unknownNow, sentId, lateReplay, unread>>
audioVars == <<waiting, head, headOff, headAt, stream, closed, feeding, feedAt, cbPc, idx,
               cutoff, stopPc, clock, fed, known, heard, heardOff>>
allVars == <<view, vars, srtpVars, handshakeVars, channelVars, captureVars, burstVars,
             clipVars, cursorVars, audioVars>>

SomeText == CHOOSE t \in Texts : TRUE

(* A view that is not looked at stands at one of its initial states. *)
ConnectionInit ==
  /\ view \in {"lifecycle", "srtp", "handshake", "channel", "capture", "burst", "clipboard",
              "cursor", "sound"}
  /\ Init /\ SrtpInit /\ H!HsInit /\ C!Init /\ P!PcapInit /\ B!BurstInit /\ T!ClipInit
  /\ K!CursorInit /\ A!AudioInit
  /\ view # "handshake" => primary = "srp" /\ forced = "ask" /\ elsewhere
  /\ view # "channel" => whole
  /\ view # "burst" => ~silentHost /\ intras = {1}
  /\ view # "clipboard" => local = SomeText /\ remote = SomeText /\ lastReceived = NoText

ConnectionNext ==
  \/ /\ view = "lifecycle" /\ Step
     /\ UNCHANGED <<view, srtpVars, handshakeVars, channelVars, captureVars, burstVars,
                    clipVars, cursorVars, audioVars>>
  \/ /\ view = "srtp" /\ SrtpNext
     /\ UNCHANGED <<view, vars, handshakeVars, channelVars, captureVars, burstVars, clipVars,
                    cursorVars, audioVars>>
  \/ /\ view = "handshake" /\ H!HsNext
     /\ UNCHANGED <<view, vars, srtpVars, channelVars, captureVars, burstVars, clipVars,
                    cursorVars, audioVars>>
  \/ /\ view = "channel" /\ C!Next
     /\ UNCHANGED <<view, vars, srtpVars, handshakeVars, captureVars, burstVars, clipVars,
                    cursorVars, audioVars>>
  \/ /\ view = "capture" /\ P!PcapNext
     /\ UNCHANGED <<view, vars, srtpVars, handshakeVars, channelVars, burstVars, clipVars,
                    cursorVars, audioVars>>
  \/ /\ view = "burst" /\ B!BurstNext
     /\ UNCHANGED <<view, vars, srtpVars, handshakeVars, channelVars, captureVars, clipVars,
                    cursorVars, audioVars>>
  \/ /\ view = "clipboard" /\ T!ClipNext
     /\ UNCHANGED <<view, vars, srtpVars, handshakeVars, channelVars, captureVars, burstVars,
                    cursorVars, audioVars>>
  \/ /\ view = "cursor" /\ K!CursorNext
     /\ UNCHANGED <<view, vars, srtpVars, handshakeVars, channelVars, captureVars, burstVars,
                    clipVars, audioVars>>
  \/ /\ view = "sound" /\ A!AudioNext
     /\ UNCHANGED <<view, vars, srtpVars, handshakeVars, channelVars, captureVars, burstVars,
                    clipVars, cursorVars>>

(* The fairness of SessionLifecycle and that of the clipboard: a thread    *)
(* that can run does, and the host answers.  The other views promise       *)
(* safety only.                                                            *)
ConnectionSpec ==
  /\ ConnectionInit /\ [][ConnectionNext]_allVars
  /\ WF_vars(view = "lifecycle" /\ Connect) /\ WF_vars(view = "lifecycle" /\ EndConnect)
  /\ \A t \in Threads : WF_vars(view = "lifecycle" /\ Close(t))
  /\ WF_clipVars(view = "clipboard" /\ T!HostServes)
  /\ WF_clipVars(view = "clipboard" /\ T!Poller)
  /\ WF_clipVars(view = "clipboard" /\ T!TcpRx)

(* Keys, connections and displays agree (Handshake). *)
HandshakeAgrees == H!HsTypeOK /\ H!HandshakeAgrees

(* The control channel keeps its framing and counters (ControlChannel). *)
ChannelInStep == C!TypeOK /\ C!ChannelInStep

(* The capture holds what passed, in its order (PcapRecorder). *)
FileInOrder == P!PcapTypeOK /\ P!FileInOrder

(* The frontend has the cursor the host named last, or none (CursorRelay). *)
CursorAgrees == K!CursorTypeOK /\ K!CursorAgrees

(* Sound plays in order, in time, and not after it was stopped (AudioSink). *)
SoundInOrder == A!AudioTypeOK /\ A!SoundInOrder

(* The stream reaches the decoder whole across the end of the burst, and   *)
(* every tile starts from an intra (InitialBurst).                         *)
BurstHandsOver == B!BurstTypeOK /\ B!WholeAcrossTheCut /\ B!TilesSeeded

(* The clipboards come to rest with the same text (Clipboard). *)
ClipboardsAgree ==
  view = "clipboard" => [](T!ClipTypeOK /\ T!RestAgrees) /\ T!ClipboardsAgree
=============================================================================
