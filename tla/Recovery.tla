------------------------------- MODULE Recovery -------------------------------
(***************************************************************************)
(* How an AVC session gets its picture back: the FIR path of               *)
(* proxy/session.py with the key gate of proxy/media/avc.py, over the      *)
(* quality gate of its single tile.  Three threads request an intra: the   *)
(* tx loop ("tx"), the video thread from libav's log callback ("video")    *)
(* and whoever asks for a forced refresh ("user").  The render thread      *)
(* pulls frames and judges them.                                           *)
(*                                                                         *)
(* As in QualityGate a time stamp is its age, up to the longest interval   *)
(* it is compared with.                                                    *)
(***************************************************************************)
EXTENDS QualityGate

CONSTANTS
  Wire,          (* _FIR_MIN_INTERVAL_S                                      *)
  FastCooldown,  (* _DPB_FAST_COOLDOWN_S                                     *)
  ForceAfter,    (* _DPB_FORCEALL_AFTER_FIRS                                 *)
  ForceStall,    (* _DPB_FORCEALL_STALL_S                                    *)
  StormReset,    (* _DPB_STORM_RESET_S                                       *)
  StallGap,      (* _check_stall: no frame for 3 s                           *)
  StallEvery,    (* _check_stall: 1.5 s between its requests                 *)
  RestartGap,    (* _SATURATION_RESTART_GAP_S                                *)
  Idle,          (* 1.5 s without a packet: the host is not encoding         *)
  Fresh,         (* 1.5 s: how long a browser's "ok" counts                  *)
  Worlds         (* what may go wrong, and whether a browser is watching     *)

FaultKinds == {"loss", "raise", "flagged", "refmiss", "restart"}
Threads == {"tx", "video", "user"}

ASSUME RecoveryAssumption ==
  /\ NumTiles = 1
  /\ {Wire, FastCooldown, ForceAfter, ForceStall, StormReset, StallGap,
      StallEvery, RestartGap, Idle, Fresh} \subseteq Nat \ {0}
  /\ ForceStall < StormReset /\ StallGap <= RestartGap
  /\ Worlds \subseteq [browser : BOOLEAN, faults : SUBSET FaultKinds]

VARIABLES
  world,        (* the one of Worlds this session lives in; never changes    *)
  sending,      (* threads past _send_fir_for_tile's interval check          *)
  sinceWire,    (* age of _last_fir_per_tile[0]                              *)
  asked,        (* a request is on its way to the host                       *)
  quietFor,     (* age of _last_video_pkt_t                                  *)
  sinceOk,      (* age of _browser_healthy_t                                 *)
  armed,        (* _dpb_forceall_pending                                     *)
  firCount,     (* _dpb_fir_count                                            *)
  sinceRefMiss, (* age of _last_dpb_error_t                                  *)
  sinceFast,    (* age of _last_dpb_fast_recovery_t                          *)
  sinceStall,   (* age of _last_stall_fir_t                                  *)
  sincePublish, (* age of _last_publish_t                                    *)
  txPc,         (* where the tx loop is in its tick                          *)
  videoPc,      (* "recv", or inside _on_libav_concealment                   *)
  awaitKey,     (* AvcDecoder._await_key                                     *)
  resetPending, (* AvcDecoder._reference_reset_pending                       *)
  ready,        (* AvcDecoder._dpb_ready                                     *)
  slot,         (* the published frame nobody pulled yet                     *)
  shown         (* the frame the render thread is converting                 *)

requestVars == <<sending, sinceWire, asked>>
stormVars == <<armed, firCount, sinceRefMiss, sinceFast>>
decoderVars == <<awaitKey, resetPending, ready, slot>>
clockVars == <<quietFor, sinceOk, sinceStall, sincePublish>>
vars == <<gateVars, requestVars, stormVars, decoderVars, clockVars,
          txPc, videoPc, shown>>

Browser == world.browser
Faults == world.faults

Frames == {"none", "clean", "flagged"}

-----------------------------------------------------------------------------
(* Requests *)

(* _send_fir_for_tile up to its stamp: th goes on if the interval is over. *)
CheckWire(th) ==
  /\ sending' = IF sinceWire >= Wire THEN sending \cup {th} ELSE sending
  /\ UNCHANGED <<sinceWire, asked>>

(* request_fir(None): the gate is marked, then the wire asked. *)
RequestFir(th) == MarkDecodeError(Tiles, TRUE) /\ CheckWire(th)

(* The rest of _send_fir_for_tile. *)
Emit(th) ==
  /\ th \in sending
  /\ sending' = sending \ {th}
  /\ sinceWire' = 0
  /\ asked' = TRUE
  /\ UNCHANGED <<gateVars, stormVars, decoderVars, clockVars, txPc, videoPc, shown>>

UserRequest ==
  /\ "user" \notin sending
  /\ RequestFir("user")
  /\ UNCHANGED <<stormVars, decoderVars, clockVars, txPc, videoPc, shown>>

(* note_browser_healthy *)
BrowserOk ==
  /\ Browser
  /\ sinceOk' = 0
  /\ UNCHANGED <<gateVars, requestVars, stormVars, decoderVars, quietFor,
                 sinceStall, sincePublish, txPc, videoPc, shown>>

-----------------------------------------------------------------------------
(* The tx loop's tick: _drain_pending_fir, then _check_stall. *)

HostIdle == quietFor >= Idle

TxStep(from, to) == txPc = from /\ "tx" \notin sending /\ txPc' = to

(* Slip: the escalation waits behind the guards of the ordinary retries.   *)
TxForceSlip ==
  /\ TxStep("force", "drain")
  /\ IF armed /\ ~HostIdle /\ (required = {} \/ sinceRefMiss >= ForceStall)
     THEN /\ armed' = FALSE
          /\ IF required = {} THEN UNCHANGED <<gateVars, requestVars>>
                              ELSE RequestFir("tx")
     ELSE UNCHANGED <<armed, gateVars, requestVars>>
  /\ UNCHANGED <<firCount, sinceRefMiss, sinceFast, decoderVars, clockVars,
                 videoPc, shown>>

TxForce ==
  /\ TxStep("force", "drain")
  /\ IF armed /\ (required = {} \/ sinceRefMiss >= ForceStall)
     THEN /\ armed' = FALSE
          /\ IF required = {} THEN UNCHANGED <<gateVars, requestVars>>
                              ELSE RequestFir("tx")
     ELSE UNCHANGED <<armed, gateVars, requestVars>>
  /\ UNCHANGED <<firCount, sinceRefMiss, sinceFast, decoderVars, clockVars,
                 videoPc, shown>>

FirstRequest == required # {} /\ attempts[0] = 0

(* The two early returns of _drain_pending_fir. *)
Suppressed == HostIdle \/ (~FirstRequest /\ Browser /\ sinceOk < Fresh)

TxDrain ==
  /\ TxStep("drain", "stall")
  /\ IF ~Suppressed /\ Due
     THEN ConsumeFirRequest /\ CheckWire("tx")
     ELSE UNCHANGED <<gateVars, requestVars>>
  /\ UNCHANGED <<stormVars, decoderVars, clockVars, videoPc, shown>>

(* AvcDecoder.restart under _codec_lock, its gate.reset (which keeps the   *)
(* request and reference-miss stamps), and request_fir.                    *)
RestartDecoder ==
  /\ videoPc = "recv"
  /\ awaitKey' = TRUE /\ resetPending' = FALSE /\ ready' = FALSE
  /\ required' = Tiles /\ errored' = Tiles /\ idrSeen' = {}
  /\ attempts' = [t \in Tiles |-> 0]
  /\ sinceIdr' = [t \in Tiles |-> Grace]
  /\ CheckWire("tx")
  /\ UNCHANGED <<slot, sinceFir, sinceUnreliable, sinceStall>>

(* A stall that earns a restart: no frame for long, or a bad_streak of 30. *)
MayRestart ==
  /\ "restart" \in Faults
  /\ (sincePublish >= RestartGap /\ ~HostIdle) \/ errored # {}

StallDue == sincePublish >= StallGap /\ sinceStall >= StallEvery /\ ~HostIdle

(* Slip: the stall path trusts the gate alone to ask again. *)
StallFirSlip ==
  /\ StallDue
  /\ sinceStall' = 0
  /\ UNCHANGED <<gateVars, requestVars, decoderVars>>

(* Deferred while the gate is already recovering the tile. *)
StallFir ==
  /\ StallDue
  /\ sinceStall' = 0
  /\ IF required = {} THEN RequestFir("tx") ELSE UNCHANGED <<gateVars, requestVars>>
  /\ UNCHANGED decoderVars

TxStall ==
  /\ TxStep("stall", "wait")
  /\ \/ StallFir
     \/ MayRestart /\ RestartDecoder
     \/ ~StallDue /\ UNCHANGED <<gateVars, requestVars, decoderVars, sinceStall>>
  /\ UNCHANGED <<stormVars, quietFor, sinceOk, sincePublish, videoPc, shown>>

(* _tx_wakeup, set when a packet or a frame is lost. *)
TxWake ==
  /\ "loss" \in Faults
  /\ TxStep("wait", "force")
  /\ UNCHANGED <<gateVars, requestVars, stormVars, decoderVars, clockVars,
                 videoPc, shown>>
-----------------------------------------------------------------------------
(* The video thread *)

Receiving == videoPc = "recv"

(* A packet came; a browser's picture needs no decoder of ours. *)
Arrives(published) ==
  /\ quietFor' = 0
  /\ sincePublish' = IF published \/ Browser THEN 0 ELSE sincePublish
  /\ UNCHANGED <<sinceOk, sinceStall>>

Outcomes ==
  {"clean"} \cup (Faults \cap {"flagged", "raise", "refmiss"})

Published(o) == o \in {"clean", "flagged"}

(* Slip: only the first frame of a context is observed, not every intra.   *)
ReceiveIntraSlip(o) ==
  /\ Receiving
  /\ Arrives(Published(o))
  /\ IF ready THEN UNCHANGED gateVars ELSE MarkIdrObserved(FALSE)
  /\ asked' = FALSE
  /\ awaitKey' = (o = "raise" /\ resetPending)
  /\ resetPending' = (o = "raise" /\ resetPending)
  /\ ready' = (Published(o) \/ (ready /\ ~resetPending))
  /\ slot' = IF Published(o) THEN o ELSE slot
  /\ videoPc' = IF o = "refmiss" THEN "missed" ELSE "recv"
  /\ UNCHANGED <<sending, sinceWire, stormVars, txPc, shown>>

(* feed_nalu of an intra.  A pending reset rebuilds the context; the gate  *)
(* observes the intra before it is decoded, so an error of the decode      *)
(* itself falls into the grace.                                            *)
ReceiveIntra(o) ==
  /\ Receiving
  /\ Arrives(Published(o))
  /\ MarkIdrObserved(FALSE)
  /\ asked' = FALSE
  /\ awaitKey' = (o = "raise" /\ resetPending)
  /\ resetPending' = (o = "raise" /\ resetPending)
  /\ ready' = (Published(o) \/ (ready /\ ~resetPending))
  /\ slot' = IF Published(o) THEN o ELSE slot
  /\ videoPc' = IF o = "refmiss" THEN "missed" ELSE "recv"
  /\ UNCHANGED <<sending, sinceWire, stormVars, txPc, shown>>

(* feed_nalu of a delta.  The first frame of a context counts as an intra. *)
FeedDelta(o) ==
  /\ Receiving /\ ~awaitKey
  /\ Arrives(Published(o))
  /\ CASE Published(o) /\ ~ready -> MarkIdrObserved(FALSE)
       [] o = "raise"            -> MarkDecodeError(Tiles, TRUE)
       [] OTHER                  -> UNCHANGED gateVars
  /\ ready' = (ready \/ Published(o))
  /\ slot' = IF Published(o) THEN o ELSE slot
  /\ videoPc' = IF o = "refmiss" THEN "missed" ELSE "recv"
  /\ UNCHANGED <<requestVars, stormVars, awaitKey, resetPending, txPc, shown>>

GateDelta ==
  /\ Receiving /\ awaitKey
  /\ Arrives(FALSE)
  /\ UNCHANGED <<gateVars, requestVars, stormVars, decoderVars, txPc, videoPc, shown>>

BreakChain == awaitKey' = TRUE /\ resetPending' = TRUE /\ UNCHANGED <<ready, slot>>

(* _drop_incomplete_group: a frame is lost for good, maybe the intra that  *)
(* answered a request.                                                     *)
LoseFrame ==
  /\ Receiving /\ "loss" \in Faults
  /\ BreakChain
  /\ MarkDecodeError(Tiles, TRUE)
  /\ quietFor' = 0
  /\ asked' \in {asked, FALSE}
  /\ UNCHANGED <<sending, sinceWire, stormVars, sinceOk, sinceStall,
                 sincePublish, txPc, videoPc, shown>>

(* A request, or all of its answer, is lost and leaves no trace. *)
LoseRequest ==
  /\ asked /\ "loss" \in Faults
  /\ asked' = FALSE
  /\ UNCHANGED <<gateVars, sending, sinceWire, stormVars, decoderVars,
                 clockVars, txPc, videoPc, shown>>

(* _on_libav_concealment of a reference miss, as far as its requests.      *)
(* Within the cooldown it goes on as a soft concealment, which its own     *)
(* limits may drop.                                                        *)
RefMiss ==
  LET count == IF sinceRefMiss >= StormReset THEN 0 ELSE firCount
      fast == sinceFast >= FastCooldown
      force == fast /\ count + 1 >= ForceAfter
  IN  /\ videoPc = "missed"
      /\ BreakChain
      /\ sinceRefMiss' = 0
      /\ sinceFast' = IF fast THEN 0 ELSE sinceFast
      /\ firCount' = CASE force -> 0 [] fast /\ ~force -> count + 1 [] OTHER -> count
      /\ armed' = IF fast THEN ~force ELSE armed
      /\ IF force THEN RequestFir("video") ELSE UNCHANGED <<gateVars, requestVars>>
      /\ \/ fast /\ videoPc' = "mark"
         \/ ~fast /\ videoPc' \in (IF sincePublish >= 1 THEN {"mark", "recv"} ELSE {"recv"})
      /\ UNCHANGED <<clockVars, txPc, shown>>

(* Its gate marks, after the request. *)
MarkRefMiss ==
  /\ videoPc = "mark" /\ "video" \notin sending
  /\ MarkDecodeError(Tiles, FALSE)
  /\ videoPc' = "recv"
  /\ UNCHANGED <<requestVars, stormVars, decoderVars, clockVars, txPc, shown>>

-----------------------------------------------------------------------------
(* The render thread: get_frame in two steps, and time. *)

Pull ==
  /\ ready /\ shown = "none" /\ slot # "none"
  /\ shown' = slot /\ slot' = "none"
  /\ UNCHANGED <<gateVars, requestVars, stormVars, awaitKey, resetPending,
                 ready, clockVars, txPc, videoPc>>

Judge ==
  /\ shown # "none"
  /\ IF shown = "clean" THEN MarkClean(0) ELSE MarkDecodeError(Tiles, TRUE)
  /\ shown' = "none"
  /\ UNCHANGED <<requestVars, stormVars, decoderVars, clockVars, txPc, videoPc>>

(* A tick is shorter than nothing the model calls atomic, and the tx loop  *)
(* runs in each.                                                           *)
Tick ==
  /\ TxStep("wait", "force")
  /\ sending = {} /\ videoPc \in {"recv", "missed"}
  /\ GateAges
  /\ sinceWire' = Older(sinceWire, Wire)
  /\ quietFor' = Older(quietFor, Idle)
  /\ sinceOk' = Older(sinceOk, Fresh)
  /\ sinceRefMiss' = Older(sinceRefMiss, StormReset)
  /\ sinceFast' = Older(sinceFast, FastCooldown)
  /\ sinceStall' = Older(sinceStall, StallEvery)
  /\ sincePublish' = Older(sincePublish, RestartGap)
  /\ UNCHANGED <<sending, asked, armed, firCount, decoderVars, videoPc, shown>>

-----------------------------------------------------------------------------

(* After connect: the burst held the intra, or one was asked for. *)
Init ==
  /\ world \in Worlds
  /\ GateInit
  /\ awaitKey \in BOOLEAN
  /\ asked = awaitKey /\ sending = {}
  /\ sinceWire = IF asked THEN 0 ELSE Wire
  /\ quietFor = 0 /\ sinceOk = Fresh
  /\ armed = FALSE /\ firCount = 0
  /\ sinceRefMiss = StormReset /\ sinceFast = FastCooldown
  /\ sinceStall = StallEvery /\ sincePublish = 0
  /\ txPc = "force" /\ videoPc = "recv"
  /\ resetPending = FALSE /\ ready = ~awaitKey
  /\ slot = "none" /\ shown = "none"

GoodIntra == asked /\ ReceiveIntra("clean")
Video == \E o \in Outcomes : ReceiveIntra(o) \/ FeedDelta(o)
Tx == TxForce \/ TxDrain \/ TxStall

Step ==
  \/ \E th \in Threads : Emit(th)
  \/ UserRequest
  \/ BrowserOk
  \/ Tx
  \/ TxWake
  \/ Video
  \/ GateDelta
  \/ LoseFrame
  \/ LoseRequest
  \/ RefMiss
  \/ MarkRefMiss
  \/ Pull
  \/ Judge
  \/ Tick

Next == Step /\ UNCHANGED world

Spec == Init /\ [][Next]_<<world, vars>>

(* Every thread runs and time passes; a host that is asked again and again *)
(* gets an intra through.                                                  *)
FairSpec ==
  /\ Spec
  /\ \A th \in Threads : WF_vars(Emit(th))
  /\ WF_vars(Tx) /\ SF_vars(Tick)
  /\ WF_vars(RefMiss) /\ WF_vars(MarkRefMiss)
  /\ WF_vars(Pull) /\ WF_vars(Judge)
  /\ SF_vars(GoodIntra)

-----------------------------------------------------------------------------
(* Properties *)

(* Every counter and age is bounded, and a pending reset keeps the gate up. *)
TypeOK ==
  /\ world \in Worlds
  /\ GateTypeOK
  /\ sending \subseteq Threads
  /\ sinceWire \in 0 .. Wire /\ quietFor \in 0 .. Idle /\ sinceOk \in 0 .. Fresh
  /\ asked \in BOOLEAN /\ armed \in BOOLEAN
  /\ awaitKey \in BOOLEAN /\ resetPending \in BOOLEAN /\ ready \in BOOLEAN
  /\ firCount \in 0 .. ForceAfter - 1
  /\ sinceRefMiss \in 0 .. StormReset /\ sinceFast \in 0 .. FastCooldown
  /\ sinceStall \in 0 .. StallEvery /\ sincePublish \in 0 .. RestartGap
  /\ txPc \in {"force", "drain", "stall", "wait"}
  /\ videoPc \in {"recv", "missed", "mark"}
  /\ slot \in Frames /\ shown \in Frames
  /\ resetPending => awaitKey

(* A desktop's decoder that waits for an intra gets one, unless the host   *)
(* falls silent for good: between the gate, the escalation and the stall   *)
(* watch, some path always asks again.                                     *)
PictureReturns == <>[](awaitKey /\ ~Browser) => <>[]HostIdle

(* The force-all escalation fires, or is no longer needed, even when no    *)
(* packet ever comes again (_drain_pending_fir's first comment), and       *)
(* however the misses are spaced: a gap that resets the count is longer    *)
(* than the stall.                                                         *)
EscalationEnds == armed ~> ~armed

(* Once nothing goes wrong any more and frames keep coming, the gate's     *)
(* flag clears: no endless FIR loop.                                       *)
Frame == FeedDelta("clean")
Trouble ==
  \/ LoseFrame \/ LoseRequest \/ UserRequest \/ RefMiss
  \/ TxStall /\ RestartDecoder
  \/ \E o \in Outcomes \ {"clean"} : ReceiveIntra(o) \/ FeedDelta(o)
FlagClears ==
  (<>[][~Trouble]_vars /\ []<><<Frame>>_vars) => []<>(required = {})
=============================================================================
