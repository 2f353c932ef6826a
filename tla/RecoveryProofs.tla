---------------------------- MODULE RecoveryProofs ----------------------------
(***************************************************************************)
(* Type correctness of Recovery for all intervals, caps and worlds.  Its   *)
(* substance: every age and counter stays within the interval it is        *)
(* compared with, an observed intra belongs to a flagged tile, and a       *)
(* pending context reset always has the key gate up.                       *)
(***************************************************************************)
EXTENDS Recovery, TLAPS

(* The constants are positive numbers. *)
LEMMA Positive ==
  /\ NumTiles \in Nat \ {0} /\ ReArm \in Nat \ {0} /\ SlowReArm \in Nat \ {0}
  /\ Cap \in Nat \ {0} /\ Grace \in Nat \ {0} /\ Quiet \in Nat \ {0}
  /\ Wire \in Nat \ {0} /\ FastCooldown \in Nat \ {0} /\ ForceAfter \in Nat \ {0}
  /\ ForceStall \in Nat \ {0} /\ StormReset \in Nat \ {0} /\ StallGap \in Nat \ {0}
  /\ StallEvery \in Nat \ {0} /\ RestartGap \in Nat \ {0} /\ Idle \in Nat \ {0}
  /\ Fresh \in Nat \ {0}
BY GateAssumption, RecoveryAssumption

(* An age grows as far as its limit. *)
LEMMA OlderType ==
  ASSUME NEW limit \in Nat, NEW age \in 0 .. limit
  PROVE  Older(age, limit) \in 0 .. limit
BY DEF Older

(* Zero and the limit itself are ages. *)
LEMMA EndsType ==
  ASSUME NEW limit \in Nat \ {0}
  PROVE  0 \in 0 .. limit /\ limit \in 0 .. limit
OBVIOUS

(* The methods of the quality gate keep its type. *)
LEMMA GateMethods ==
  ASSUME GateTypeOK
  PROVE  /\ \A ts \in SUBSET Tiles, reliable \in BOOLEAN :
              MarkDecodeError(ts, reliable) => GateTypeOK'
         /\ \A suspicious \in BOOLEAN : MarkIdrObserved(suspicious) => GateTypeOK'
         /\ \A t \in Tiles : MarkClean(t) => GateTypeOK'
         /\ ConsumeFirRequest => GateTypeOK'
         /\ GateAges => GateTypeOK'
         /\ UNCHANGED gateVars => GateTypeOK'
<1> USE Positive, EndsType
<1>1. ASSUME NEW ts \in SUBSET Tiles, NEW reliable \in BOOLEAN,
             MarkDecodeError(ts, reliable)
      PROVE  GateTypeOK'
  <2> DEFINE newly == Heard(ts) \ required
  <2>1. Heard(ts) \subseteq Tiles /\ newly \subseteq Tiles
    BY DEF Heard
  <2>2. /\ sinceUnreliable' \in 0 .. Quiet
        /\ UNCHANGED <<sinceFir, sinceIdr>>
    BY <1>1 DEF MarkDecodeError, GateTypeOK
  <2>3. required' = required \cup newly /\ errored' = errored \cup Heard(ts)
        /\ idrSeen' = idrSeen \ newly
    BY <1>1 DEF MarkDecodeError
  <2>4. attempts' \in [Tiles -> 0 .. Cap]
    BY <1>1 DEF MarkDecodeError, GateTypeOK
  <2> QED BY <2>1, <2>2, <2>3, <2>4 DEF GateTypeOK
<1>2. ASSUME NEW suspicious \in BOOLEAN, MarkIdrObserved(suspicious) PROVE GateTypeOK'
  BY <1>2 DEF MarkIdrObserved, GateTypeOK
<1>3. ASSUME NEW t \in Tiles, MarkClean(t) PROVE GateTypeOK'
  <2>1. attempts' \in [Tiles -> 0 .. Cap]
    BY <1>3 DEF MarkClean, GateTypeOK
  <2> QED BY <1>3, <2>1 DEF MarkClean, GateTypeOK
<1>4. ASSUME ConsumeFirRequest PROVE GateTypeOK'
  <2>1. attempts' \in [Tiles -> 0 .. Cap]
    BY <1>4, OlderType DEF ConsumeFirRequest, GateTypeOK
  <2> QED BY <1>4, <2>1 DEF ConsumeFirRequest, GateTypeOK
<1>5. ASSUME GateAges PROVE GateTypeOK'
  <2>1. sinceIdr' \in [Tiles -> 0 .. Grace]
    BY <1>5, OlderType DEF GateAges, GateTypeOK
  <2>2. sinceFir' \in 0 .. SlowReArm /\ sinceUnreliable' \in 0 .. Quiet
    BY <1>5, OlderType DEF GateAges, GateTypeOK
  <2> QED BY <1>5, <2>1, <2>2 DEF GateAges, GateTypeOK
<1>6. ASSUME UNCHANGED gateVars PROVE GateTypeOK'
  BY <1>6 DEF gateVars, GateTypeOK
<1> QED BY <1>1, <1>2, <1>3, <1>4, <1>5, <1>6

-----------------------------------------------------------------------------
(* The invariant in the groups of variables the actions change together. *)

(* The types of the FIR requests.                                          *)
RequestsOK == sending \subseteq Threads /\ sinceWire \in 0 .. Wire /\ asked \in BOOLEAN

(* The types of the escalation.                                            *)
StormOK ==
  /\ armed \in BOOLEAN /\ firCount \in 0 .. ForceAfter - 1
  /\ sinceRefMiss \in 0 .. StormReset /\ sinceFast \in 0 .. FastCooldown

(* The types of the decoder's gate, with the fact that a pending reset     *)
(* gates it.                                                               *)
DecoderOK ==
  /\ awaitKey \in BOOLEAN /\ resetPending \in BOOLEAN /\ ready \in BOOLEAN
  /\ slot \in Frames
  /\ resetPending => awaitKey

(* The types of the clocks.                                                *)
ClocksOK ==
  /\ quietFor \in 0 .. Idle /\ sinceOk \in 0 .. Fresh
  /\ sinceStall \in 0 .. StallEvery /\ sincePublish \in 0 .. RestartGap

(* The places of the threads, and the frame that is shown.                 *)
PlacesOK ==
  /\ txPc \in {"force", "drain", "stall", "wait"}
  /\ videoPc \in {"recv", "missed", "mark"}
  /\ shown \in Frames

(* The type invariant is the conjunction of its parts.                     *)
LEMMA Parts ==
  TypeOK <=> /\ world \in Worlds /\ GateTypeOK /\ RequestsOK /\ StormOK
             /\ DecoderOK /\ ClocksOK /\ PlacesOK
BY DEF TypeOK, RequestsOK, StormOK, DecoderOK, ClocksOK, PlacesOK

(* A group none of whose variables changes keeps its type. *)
LEMMA Unchanged ==
  /\ RequestsOK /\ UNCHANGED requestVars => RequestsOK'
  /\ StormOK /\ UNCHANGED stormVars => StormOK'
  /\ DecoderOK /\ UNCHANGED decoderVars => DecoderOK'
  /\ ClocksOK /\ UNCHANGED clockVars => ClocksOK'
  /\ PlacesOK /\ UNCHANGED <<txPc, videoPc, shown>> => PlacesOK'
BY DEF requestVars, stormVars, decoderVars, clockVars,
       RequestsOK, StormOK, DecoderOK, ClocksOK, PlacesOK

(* A request marks the gate and may put its thread on the way to the wire. *)
LEMMA RequestType ==
  ASSUME GateTypeOK, RequestsOK, NEW th \in Threads
  PROVE  /\ CheckWire(th) => RequestsOK'
         /\ RequestFir(th) => GateTypeOK' /\ RequestsOK'
<1>1. CheckWire(th) => RequestsOK'
  BY DEF CheckWire, RequestsOK
<1>2. MarkDecodeError(Tiles, TRUE) => GateTypeOK'
  BY GateMethods
<1> QED BY <1>1, <1>2 DEF RequestFir

(* The initial state has its types.                                        *)
LEMMA InitTyped == Init => TypeOK
<1> SUFFICES ASSUME Init PROVE TypeOK
  OBVIOUS
<1> USE Positive, EndsType
<1>1. GateTypeOK
  BY DEF Init, GateInit, GateTypeOK
<1>2. RequestsOK
  BY DEF Init, RequestsOK
<1>3. StormOK
  <2>1. armed = FALSE /\ firCount = 0 /\ sinceRefMiss = StormReset /\ sinceFast = FastCooldown
    BY DEF Init
  <2>2. 0 \in 0 .. ForceAfter - 1
    OBVIOUS
  <2>3. StormReset \in 0 .. StormReset /\ FastCooldown \in 0 .. FastCooldown
    OBVIOUS
  <2> QED BY <2>1, <2>2, <2>3 DEF StormOK
<1>4. DecoderOK
  <2>1. awaitKey \in BOOLEAN /\ resetPending = FALSE /\ slot = "none"
    BY DEF Init
  <2>2. ready = ~awaitKey
    BY DEF Init
  <2>3. ready \in BOOLEAN
    BY <2>2
  <2> QED BY <2>1, <2>3 DEF DecoderOK, Frames
<1>5. ClocksOK
  BY DEF Init, ClocksOK
<1>6. PlacesOK
  BY DEF Init, PlacesOK, Frames
<1> QED BY <1>1, <1>2, <1>3, <1>4, <1>5, <1>6, Parts DEF Init

(* Every step keeps the type. *)
LEMMA StepTyped == TypeOK /\ [Next]_<<world, vars>> => TypeOK'
<1> SUFFICES ASSUME TypeOK, [Next]_<<world, vars>> PROVE TypeOK'
  OBVIOUS
<1> USE Positive
<1>0. /\ world \in Worlds /\ GateTypeOK /\ RequestsOK /\ StormOK /\ DecoderOK
      /\ ClocksOK /\ PlacesOK
  BY Parts
<1>w. world' = world
  BY DEF Next, vars
<1> DEFINE Kept == GateTypeOK' /\ RequestsOK' /\ StormOK' /\ DecoderOK' /\ ClocksOK' /\ PlacesOK'
<1>g. UNCHANGED gateVars => GateTypeOK'
  BY <1>0, GateMethods
<1>1. ASSUME NEW th \in Threads, Emit(th) PROVE Kept
  <2>1. RequestsOK'
    BY <1>0, <1>1, EndsType DEF Emit, RequestsOK
  <2> QED BY <1>0, <1>1, <1>g, <2>1, Unchanged DEF Emit
<1>2. ASSUME UserRequest PROVE Kept
  <2>1. GateTypeOK' /\ RequestsOK'
    BY <1>0, <1>2, RequestType DEF UserRequest, Threads
  <2> QED BY <1>0, <1>2, <2>1, Unchanged DEF UserRequest
<1>3. ASSUME BrowserOk PROVE Kept
  <2>1. ClocksOK'
    BY <1>0, <1>3, EndsType DEF BrowserOk, ClocksOK
  <2> QED BY <1>0, <1>3, <1>g, <2>1, Unchanged DEF BrowserOk, PlacesOK
<1>4. ASSUME TxForce PROVE Kept
  <2>1. GateTypeOK' /\ RequestsOK'
    BY <1>0, <1>4, <1>g, RequestType, Unchanged DEF TxForce, Threads
  <2>2. StormOK' /\ PlacesOK'
    BY <1>0, <1>4 DEF TxForce, TxStep, StormOK, PlacesOK
  <2> QED BY <1>0, <1>4, <2>1, <2>2, Unchanged DEF TxForce
<1>5. ASSUME TxDrain PROVE Kept
  <2>1. GateTypeOK' /\ RequestsOK'
    BY <1>0, <1>5, <1>g, GateMethods, RequestType, Unchanged DEF TxDrain, Threads
  <2>2. PlacesOK'
    BY <1>0, <1>5 DEF TxDrain, TxStep, PlacesOK
  <2> QED BY <1>0, <1>5, <2>1, <2>2, Unchanged DEF TxDrain
<1>6. ASSUME TxStall PROVE Kept
  <2>1. PlacesOK'
    BY <1>0, <1>6 DEF TxStall, TxStep, PlacesOK
  <2>2. sinceStall' = 0 \/ sinceStall' = sinceStall
    BY <1>6 DEF TxStall, StallFir, RestartDecoder
  <2>3. ClocksOK'
    BY <1>0, <1>6, <2>2, EndsType DEF TxStall, ClocksOK
  <2>4. StormOK'
    BY <1>0, <1>6, Unchanged DEF TxStall
  <2>5. CASE StallFir
    <3>1. GateTypeOK' /\ RequestsOK'
      BY <1>0, <1>g, <2>5, RequestType, Unchanged DEF StallFir, Threads
    <3> QED BY <1>0, <2>1, <2>3, <2>4, <2>5, <3>1, Unchanged DEF StallFir
  <2>6. CASE RestartDecoder
    <3>1. GateTypeOK'
      BY <1>0, <2>6, EndsType DEF RestartDecoder, GateTypeOK
    <3>2. RequestsOK'
      BY <1>0, <2>6, RequestType DEF RestartDecoder, Threads
    <3>3. DecoderOK'
      BY <1>0, <2>6 DEF RestartDecoder, DecoderOK
    <3> QED BY <2>1, <2>3, <2>4, <3>1, <3>2, <3>3
  <2>7. CASE UNCHANGED <<gateVars, requestVars, decoderVars, sinceStall>>
    BY <1>0, <1>g, <2>1, <2>3, <2>4, <2>7, Unchanged
  <2> QED BY <1>6, <2>5, <2>6, <2>7 DEF TxStall
<1>7. ASSUME TxWake PROVE Kept
  <2>1. PlacesOK'
    BY <1>0, <1>7 DEF TxWake, TxStep, PlacesOK
  <2> QED BY <1>0, <1>7, <1>g, <2>1, Unchanged DEF TxWake
<1>b. \A o \in Outcomes : o \in {"clean", "flagged", "raise", "refmiss"}
  BY DEF Outcomes
<1>8. ASSUME NEW o \in Outcomes, ReceiveIntra(o) PROVE Kept
  <2>1. GateTypeOK'
    BY <1>0, <1>8, GateMethods DEF ReceiveIntra
  <2>2. ClocksOK'
    BY <1>0, <1>8, EndsType DEF ReceiveIntra, Arrives, ClocksOK
  <2>3. RequestsOK'
    BY <1>0, <1>8 DEF ReceiveIntra, RequestsOK
  <2>4. DecoderOK'
    <3>1. /\ resetPending' = (o = "raise" /\ resetPending)
          /\ awaitKey' = (o = "raise" /\ resetPending)
          /\ ready' = (Published(o) \/ (ready /\ ~resetPending))
          /\ slot' = IF Published(o) THEN o ELSE slot
      BY <1>8 DEF ReceiveIntra
    <3>2. awaitKey' \in BOOLEAN /\ resetPending' \in BOOLEAN
      BY <3>1, Zenon
    <3>5. ready' \in BOOLEAN
      BY <3>1, Zenon
    <3>3. slot' \in Frames
      BY <1>0, <1>b, <3>1 DEF Published, DecoderOK, Frames
    <3>4. resetPending' = awaitKey'
      BY <3>1, Zenon
    <3> QED BY <3>2, <3>3, <3>4, <3>5 DEF DecoderOK
  <2>5. PlacesOK'
    BY <1>0, <1>8 DEF ReceiveIntra, PlacesOK
  <2> QED BY <1>0, <1>8, <2>1, <2>2, <2>3, <2>4, <2>5, Unchanged DEF ReceiveIntra
<1>9. ASSUME NEW o \in Outcomes, FeedDelta(o) PROVE Kept
  <2>1. GateTypeOK'
    BY <1>0, <1>9, <1>g, GateMethods DEF FeedDelta
  <2>2. ClocksOK'
    BY <1>0, <1>9, EndsType DEF FeedDelta, Arrives, ClocksOK
  <2>3. DecoderOK'
    <3>1. /\ ready' = (ready \/ Published(o))
          /\ slot' = IF Published(o) THEN o ELSE slot
          /\ UNCHANGED <<awaitKey, resetPending>>
      BY <1>9 DEF FeedDelta
    <3>2. ready' \in BOOLEAN
      BY <3>1, Zenon
    <3>3. slot' \in Frames
      BY <1>0, <1>b, <3>1 DEF Published, DecoderOK, Frames
    <3> QED BY <1>0, <3>1, <3>2, <3>3 DEF DecoderOK
  <2>4. PlacesOK'
    BY <1>0, <1>9 DEF FeedDelta, PlacesOK
  <2> QED BY <1>0, <1>9, <2>1, <2>2, <2>3, <2>4, Unchanged DEF FeedDelta
<1>10. ASSUME GateDelta PROVE Kept
  <2>1. ClocksOK'
    BY <1>0, <1>10, EndsType DEF GateDelta, Arrives, ClocksOK
  <2> QED BY <1>0, <1>10, <1>g, <2>1, Unchanged DEF GateDelta
<1>11. ASSUME LoseFrame PROVE Kept
  <2>1. GateTypeOK'
    BY <1>0, <1>11, GateMethods DEF LoseFrame
  <2>2. RequestsOK' /\ ClocksOK'
    BY <1>0, <1>11, EndsType DEF LoseFrame, RequestsOK, ClocksOK
  <2>3. DecoderOK'
    BY <1>0, <1>11 DEF LoseFrame, BreakChain, DecoderOK
  <2> QED BY <1>0, <1>11, <2>1, <2>2, <2>3, Unchanged DEF LoseFrame
<1>12. ASSUME LoseRequest PROVE Kept
  <2>1. RequestsOK'
    BY <1>0, <1>12 DEF LoseRequest, RequestsOK
  <2> QED BY <1>0, <1>12, <1>g, <2>1, Unchanged DEF LoseRequest
<1>13. ASSUME RefMiss PROVE Kept
  <2> DEFINE count == IF sinceRefMiss >= StormReset THEN 0 ELSE firCount
             fast == sinceFast >= FastCooldown
             force == fast /\ count + 1 >= ForceAfter
  <2>1. GateTypeOK' /\ RequestsOK'
    BY <1>0, <1>13, <1>g, RequestType, Unchanged DEF RefMiss, Threads
  <2>2. count \in 0 .. ForceAfter - 1
    BY <1>0 DEF StormOK
  <2>3. firCount' \in 0 .. ForceAfter - 1
    <3>1. firCount' = CASE force -> 0 [] fast /\ ~force -> count + 1 [] OTHER -> count
      BY <1>13 DEF RefMiss
    <3>2. CASE force
      BY <3>1, <3>2, <2>2
    <3>3. CASE fast /\ ~force
      BY <3>1, <3>3, <2>2
    <3>4. CASE ~fast
      BY <3>1, <3>4, <2>2
    <3> QED BY <3>2, <3>3, <3>4
  <2>4. armed' \in BOOLEAN
    BY <1>0, <1>13 DEF RefMiss, StormOK
  <2>5. StormOK'
    BY <1>0, <1>13, <2>3, <2>4, EndsType DEF RefMiss, StormOK
  <2>6. DecoderOK'
    BY <1>0, <1>13 DEF RefMiss, BreakChain, DecoderOK
  <2>7. PlacesOK'
    BY <1>0, <1>13 DEF RefMiss, PlacesOK
  <2> QED BY <1>0, <1>13, <2>1, <2>5, <2>6, <2>7, Unchanged DEF RefMiss
<1>14. ASSUME MarkRefMiss PROVE Kept
  <2>1. GateTypeOK' /\ PlacesOK'
    BY <1>0, <1>14, GateMethods DEF MarkRefMiss, PlacesOK
  <2> QED BY <1>0, <1>14, <2>1, Unchanged DEF MarkRefMiss
<1>15. ASSUME Pull PROVE Kept
  <2>1. DecoderOK' /\ PlacesOK'
    BY <1>0, <1>15 DEF Pull, DecoderOK, PlacesOK, Frames
  <2> QED BY <1>0, <1>15, <1>g, <2>1, Unchanged DEF Pull
<1>16. ASSUME Judge PROVE Kept
  <2>1. 0 \in Tiles
    BY RecoveryAssumption DEF Tiles
  <2>2. GateTypeOK'
    BY <1>0, <1>16, <2>1, GateMethods DEF Judge
  <2>3. PlacesOK'
    BY <1>0, <1>16 DEF Judge, PlacesOK, Frames
  <2> QED BY <1>0, <1>16, <2>2, <2>3, Unchanged DEF Judge
<1>17. ASSUME Tick PROVE Kept
  <2>1. GateTypeOK'
    BY <1>0, <1>17, GateMethods DEF Tick
  <2>2. RequestsOK'
    BY <1>0, <1>17, OlderType DEF Tick, RequestsOK
  <2>3. ClocksOK'
    BY <1>0, <1>17, OlderType DEF Tick, ClocksOK
  <2>4. StormOK'
    BY <1>0, <1>17, OlderType DEF Tick, StormOK
  <2>5. PlacesOK'
    BY <1>0, <1>17 DEF Tick, TxStep, PlacesOK
  <2> QED BY <1>0, <1>17, <2>1, <2>2, <2>3, <2>4, <2>5, Unchanged DEF Tick
<1>18. ASSUME UNCHANGED vars PROVE Kept
  BY <1>0, <1>18, <1>g, Unchanged DEF vars
<1>19. Kept
  BY <1>1, <1>2, <1>3, <1>4, <1>5, <1>6, <1>7, <1>8, <1>9, <1>10, <1>11, <1>12,
     <1>13, <1>14, <1>15, <1>16, <1>17, <1>18 DEF Next, Step, Tx, Video
<1>20. world' \in Worlds
  BY <1>0, <1>w
<1> QED BY <1>19, <1>20 DEF TypeOK, RequestsOK, StormOK, DecoderOK, ClocksOK, PlacesOK

(* The recovery machinery keeps its state consistent: no age or counter    *)
(* leaves its range, and a pending reset keeps the key gate up             *)
(* (mark_reference_chain_broken, feed_nalu).                               *)
THEOREM RecoveryTyped == Spec => []TypeOK
BY InitTyped, StepTyped, PTL DEF Spec
=============================================================================
