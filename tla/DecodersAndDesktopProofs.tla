------------------------ MODULE DecodersAndDesktopProofs ------------------------
(***************************************************************************)
(* The invariants of the views of DecodersAndDesktop, for every value of   *)
(* their constants: the worker of a tile, the choice of a decoder and its  *)
(* start, the wedge, the H.264 decoder, and the desktop's keyboard and     *)
(* pointer.  Each has an inductive invariant of its own, which the steps   *)
(* of the other views leave alone (EachDecoderView).                       *)
(***************************************************************************)
EXTENDS DecodersAndDesktop, SequenceTheorems, FiniteSetTheorems, TLAPS

(* A step of the whole is a step, or none, of every view. *)
LEMMA EachDecoderView ==
  ASSUME [AllNext]_allVars
  PROVE  /\ [Next]_vars
         /\ [R!RegNext]_choiceVars
         /\ [S!StartNext]_startVars
         /\ [D!Next]_wedgeVars
         /\ [A!Next]_avcVars
         /\ [W!DeskNext]_deskVars
         /\ [K!KeysNext]_keyVars
         /\ [P!PointerNext]_pointerVars
<1>1. CASE UNCHANGED allVars
  BY <1>1 DEF allVars, decoderVars, desktopVars
<1>2. CASE AllNext
  <2> USE DEF AllNext, decoderVars, desktopVars
  <2>1. CASE view = "choice"
    BY <1>2, <2>1
  <2>2. CASE view = "start"
    BY <1>2, <2>2
  <2>3. CASE view = "worker"
    BY <1>2, <2>3
  <2>4. CASE view = "wedge"
    BY <1>2, <2>4
  <2>5. CASE view = "avc"
    BY <1>2, <2>5
  <2>6. CASE view = "desktop"
    BY <1>2, <2>6
  <2>7. CASE view = "keys"
    BY <1>2, <2>7
  <2>8. CASE view = "pointer"
    BY <1>2, <2>8
  <2> QED
    BY <1>2, <2>1, <2>2, <2>3, <2>4, <2>5, <2>6, <2>7, <2>8
<1> QED
  BY <1>1, <1>2

(* A sequence of one element, and of two.                                  *)
LEMMA ShortSeqs ==
  ASSUME NEW Elems, NEW e \in Elems, NEW f \in Elems
  PROVE  <<e>> \in Seq(Elems) /\ <<e, f>> \in Seq(Elems)
OBVIOUS


-----------------------------------------------------------------------------
(* The worker of a tile *)

(* One worker at most is inside the lock, and it finds a codec there.      *)
CodecInv ==
  /\ CodecStands
  /\ \A v, w \in Decoding : v = w

(* The inductive invariant of the worker.                                  *)
DecodeInv == TypeOK /\ CodecInv

(* A worker starts with its queue empty and no thread at its codec.        *)
LEMMA TypeInit == Init => TypeOK
<1>1. <<>> \in Seq({"unit", "end"})
  BY EmptySeq
<1>2. Init => items \in [Workers -> Seq({"unit", "end"})]
  BY <1>1 DEF Init
<1>3. Init => /\ wpc \in [Workers -> {"none"}] /\ wqueue \in [Workers -> {Nobody}]
              /\ rpc \in [Threads -> {"idle"}] /\ joins \in [Threads -> {Nobody}]
              /\ restarts \in 0 .. MaxRestarts
  BY TileWorkerAssumption DEF Init
<1> QED BY <1>2, <1>3 DEF Init, TypeOK

(* The steps of a worker thread keep the type invariant.                   *)
LEMMA WorkerTyped ==
  ASSUME TypeOK, NEW w \in Workers, Worker(w)
  PROVE  TypeOK'
<1> USE TileWorkerAssumption DEF TypeOK, Goes, Ends, codecVars, workerVars, feedVars, lifeVars
<1>1. CASE WorkerBegin(w)
  BY <1>1 DEF WorkerBegin
<1>2. CASE WorkerLoop(w)
  BY <1>2 DEF WorkerLoop
<1>3. CASE WorkerTake(w)
  <2>1. items' \in [Workers -> Seq({"unit", "end"})]
    <3>1. CASE wqueue[w] \in Workers /\ items[wqueue[w]] # <<>>
      <4>1. Tail(items[wqueue[w]]) \in Seq({"unit", "end"})
        BY <3>1, HeadTailProperties
      <4> QED BY <1>3, <3>1, <4>1 DEF WorkerTake
    <3>2. CASE wqueue[w] \in Workers /\ items[wqueue[w]] = <<>>
      BY <1>3, <3>2 DEF WorkerTake
    <3>3. CASE wqueue[w] = Nobody
      BY <1>3, <3>3 DEF WorkerTake
    <3> QED BY <3>1, <3>2, <3>3
  <2> QED BY <1>3, <2>1 DEF WorkerTake
<1>4. CASE WorkerGate(w)
  BY <1>4 DEF WorkerGate
<1>5. CASE WorkerLock(w)
  BY <1>5 DEF WorkerLock
<1>6. CASE WorkerDecoded(w)
  BY <1>6 DEF WorkerDecoded
<1> QED BY <1>1, <1>2, <1>3, <1>4, <1>5, <1>6 DEF Worker

(* An item is put into a queue that exists, or dropped.                    *)
LEMMA PutTyped ==
  ASSUME TypeOK, NEW x \in {"unit", "end"}, Put(x)
  PROVE  items' \in [Workers -> Seq({"unit", "end"})]
<1>1. \A q \in Workers : Append(items[q], x) \in Seq({"unit", "end"})
  BY AppendProperties DEF TypeOK
<1> QED BY <1>1 DEF Put, TypeOK

(* So does the thread that feeds it,                                       *)
LEMMA FeederTyped == TypeOK /\ (Feed \/ Feeder) => TypeOK'
<1> SUFFICES ASSUME TypeOK, Feed \/ Feeder PROVE TypeOK'
  OBVIOUS
<1> USE TileWorkerAssumption DEF TypeOK, FeedTo, Goes, codecVars, workerVars, loopVars, lifeVars
<1>1. CASE Burst \/ Feed \/ FeedCheck \/ StartTest
  BY <1>1 DEF Burst, Feed, FeedCheck, StartTest
<1>2. CASE StartQueue
  <2>1. (CHOOSE w \in Workers : Free(w)) \in Workers
    BY <1>2 DEF StartQueue
  <2>2. <<>> \in Seq({"unit", "end"})
    BY EmptySeq
  <2> QED BY <1>2, <2>1, <2>2 DEF StartQueue
<1>3. CASE StartThread \/ StartRun
  BY <1>3 DEF StartThread, StartRun
<1>4. CASE FeedPut
  <2>1. items' \in [Workers -> Seq({"unit", "end"})]
    BY <1>4, PutTyped DEF FeedPut
  <2> QED BY <1>4, <2>1 DEF FeedPut
<1> QED BY <1>1, <1>2, <1>3, <1>4 DEF Feeder

(* a stop, from either of its callers,                                     *)
LEMMA StopTyped == ASSUME TypeOK, NEW t \in Threads, Stop(t) PROVE TypeOK'
<1> USE TileWorkerAssumption
    DEF TypeOK, RunsTo, FeedTo, codecVars, workerVars, loopVars, feedVars
<1>1. CASE StopFlag(t) \/ StopUnlink(t) \/ DropCodec(t) \/ ResetState(t) \/ CreateCodec(t)
  BY <1>1 DEF StopFlag, StopUnlink, DropCodec, ResetState, CreateCodec
<1>2. CASE StopMark(t)
  <2>1. items' \in [Workers -> Seq({"unit", "end"})]
    BY <1>2, PutTyped DEF StopMark
  <2> QED BY <1>2, <2>1 DEF StopMark
<1>3. CASE StopJoin(t) \/ StopJoined(t)
  BY <1>3 DEF StopJoin, StopJoined
<1> QED BY <1>1, <1>2, <1>3 DEF Stop

(* and a restart.                                                          *)
LEMMA RestartTyped ==
  TypeOK /\ (CloseBegin \/ \E t \in {"video", "tx"} : RestartBegin(t)) => TypeOK'
<1> USE TileWorkerAssumption
    DEF TypeOK, RunsTo, Threads, codecVars, workerVars, loopVars, feedVars
<1>1. TypeOK /\ CloseBegin => TypeOK'
  BY DEF CloseBegin
<1>2. ASSUME TypeOK, NEW t \in {"video", "tx"}, RestartBegin(t) PROVE TypeOK'
  BY <1>2 DEF RestartBegin
<1> QED BY <1>1, <1>2

(* Every step of the worker keeps the type invariant.                      *)
LEMMA WorkerTypeStep == ASSUME TypeOK, [Next]_vars PROVE TypeOK'
<1>1. ASSUME UNCHANGED vars PROVE TypeOK'
  BY <1>1 DEF TypeOK, vars, codecVars, workerVars, loopVars, feedVars, lifeVars
<1> QED
  BY <1>1, WorkerTyped, FeederTyped, StopTyped, RestartTyped DEF Next

(* What a worker does: it enters the lock when no other is inside, and     *)
(* with a codec.                                                           *)
LEMMA WorkerDecodes ==
  ASSUME DecodeInv, NEW w \in Workers, Worker(w)
  PROVE  CodecInv'
<1>1. codec' = codec /\ \E place : wpc' = [wpc EXCEPT ![w] = place]
  BY DEF Worker, WorkerBegin, WorkerLoop, WorkerTake, WorkerGate, WorkerLock, WorkerDecoded,
         Goes, Ends, codecVars
<1>2. wpc'[w] = "decode" => Decoding = {} /\ codec
  BY DEF Worker, WorkerBegin, WorkerLoop, WorkerTake, WorkerGate, WorkerLock, WorkerDecoded,
         Goes, Ends, DecodeInv, TypeOK
<1>3. \A v \in Decoding' : v = w \/ v \in Decoding
  BY <1>1 DEF Decoding, DecodeInv, TypeOK
<1>4. CASE wpc'[w] = "decode"
  BY <1>1, <1>2, <1>3, <1>4 DEF CodecInv, CodecStands
<1>5. CASE wpc'[w] # "decode"
  <2>1. Decoding' \subseteq Decoding
    BY <1>3, <1>5 DEF Decoding
  <2> QED BY <1>1, <2>1 DEF DecodeInv, CodecInv, CodecStands
<1> QED BY <1>4, <1>5

(* A step of another thread moves no worker into the lock; it clears the   *)
(* codec only when nobody is there.                                        *)
LEMMA OthersLeaveIt ==
  ASSUME DecodeInv, Decoding' \subseteq Decoding, codec' = codec \/ codec' \/ Decoding = {}
  PROVE  CodecInv'
BY DEF DecodeInv, CodecInv, CodecStands

(* A stop clears the codec only once its worker has left the lock.         *)
LEMMA StopDecodes == ASSUME DecodeInv, NEW t \in Threads, Stop(t) PROVE CodecInv'
<1>1. wpc' = wpc /\ (codec' = codec \/ codec' \/ Decoding = {})
  BY DEF Stop, StopFlag, StopMark, StopJoin, StopJoined, StopUnlink, DropCodec, ResetState,
         CreateCodec, codecVars, loopVars
<1> QED BY <1>1, OthersLeaveIt DEF Decoding

(* The feeder does not touch the codec.                                    *)
LEMMA FeederDecodes == DecodeInv /\ (Feed \/ Feeder) => CodecInv'
<1> SUFFICES ASSUME DecodeInv, Feed \/ Feeder PROVE CodecInv'
  OBVIOUS
<1>1. codec' = codec
  BY DEF Feed, Feeder, Burst, FeedCheck, StartTest, StartQueue, StartThread, StartRun, FeedPut,
         codecVars
<1>2. wpc' = wpc \/ \E w \in Workers : wpc' = [wpc EXCEPT ![w] = "begin"]
  BY DEF Feed, Feeder, Burst, FeedCheck, StartTest, StartQueue, StartThread, StartRun, FeedPut,
         loopVars, Goes, DecodeInv, TypeOK
<1>3. Decoding' \subseteq Decoding
  BY <1>2 DEF Decoding, DecodeInv, TypeOK
<1> QED BY <1>1, <1>3, OthersLeaveIt

(* The comment of _codec_lock: whatever restarts meet, no codec is torn    *)
(* down under a thread that is decoding with it (hevc.py, qsvhevc.py).     *)
THEOREM CodecUnderLock == Spec => []CodecStands
<1>1. Init => DecodeInv
  <2>1. Init => Decoding = {}
    BY DEF Init, Decoding
  <2> QED BY <2>1, TypeInit DEF DecodeInv, CodecInv, CodecStands
<1>2. DecodeInv /\ [Next]_vars => DecodeInv'
  <2> SUFFICES ASSUME DecodeInv, [Next]_vars PROVE DecodeInv'
    OBVIOUS
  <2>0. TypeOK
    BY DEF DecodeInv
  <2>1. CASE Feed \/ Feeder
    BY <2>0, <2>1, FeederTyped, FeederDecodes DEF DecodeInv
  <2>2. CASE CloseBegin \/ \E t \in {"video", "tx"} : RestartBegin(t)
    <3>1. codec' = codec /\ wpc' = wpc
      BY <2>2 DEF CloseBegin, RestartBegin, codecVars, loopVars
    <3>2. CodecInv'
      BY <3>1, OthersLeaveIt DEF Decoding
    <3> QED BY <2>0, <2>2, <3>2, RestartTyped DEF DecodeInv
  <2>3. ASSUME NEW w \in Workers, Worker(w) PROVE DecodeInv'
    BY <2>0, <2>3, WorkerTyped, WorkerDecodes DEF DecodeInv
  <2>4. ASSUME NEW t \in Threads, Stop(t) PROVE DecodeInv'
    BY <2>0, <2>4, StopTyped, StopDecodes DEF DecodeInv
  <2>5. CASE UNCHANGED vars
    <3>1. TypeOK'
      BY <2>0, <2>5, WorkerTypeStep
    <3>2. CodecInv'
      BY <2>5, OthersLeaveIt DEF Decoding, vars, codecVars, loopVars
    <3> QED BY <3>1, <3>2 DEF DecodeInv
  <2> QED BY <2>1, <2>2, <2>3, <2>4, <2>5 DEF Next
<1>3. DecodeInv => CodecStands
  BY DEF DecodeInv, CodecInv
<1> QED BY <1>1, <1>2, <1>3, PTL DEF Spec

(* The same in the whole of DecodersAndDesktop.                            *)
COROLLARY CodecHeld == AllSpec => []CodecStands
<1>1. AllInit => Init
  BY DEF AllInit
<1>2. [AllNext]_allVars => [Next]_vars
  BY EachDecoderView
<1> QED
  BY <1>1, <1>2, CodecUnderLock, PTL DEF AllSpec, Spec

-----------------------------------------------------------------------------
(* The H.264 decoder *)

(* A holed context is always marked for a reset, so nothing decoded from   *)
(* it is published.                                                        *)
AvcInv == A!TypeOK /\ A!HoleIsMarked /\ A!HoleHidden

(* The bounds of the H.264 decoder, one by one.                            *)
LEMMA AvcBounds == Keys \in Nat /\ MaxRebuilds \in Nat
BY DesktopAssumption DEF A!AvcAssumption

(* A new decoder has a whole context.                                      *)
LEMMA AvcInitially == A!Init => AvcInv
<1> SUFFICES ASSUME A!Init PROVE AvcInv
  OBVIOUS
<1>1. keys \in 0 .. Keys /\ rebuilds \in 0 .. MaxRebuilds
  BY AvcBounds DEF A!Init
<1>2. A!TypeOK
  BY <1>1 DEF A!Init, A!TypeOK
<1> QED
  BY <1>2 DEF A!Init, AvcInv, A!HoleIsMarked, A!HoleHidden

(* A hole is marked at the step that makes it, and the mark goes with the  *)
(* context.                                                                *)
LEMMA AvcStep == ASSUME AvcInv, [A!Next]_avcVars PROVE AvcInv'
<1> USE AvcBounds
    DEF AvcInv, A!TypeOK, A!HoleIsMarked, A!HoleHidden,
        A!codecVars, A!hwVars, A!countVars
<1>1. ASSUME A!Feed PROVE AvcInv'
  BY <1>1 DEF A!Feed
<1>2. ASSUME A!Decoded PROVE AvcInv'
  BY <1>2 DEF A!Decoded, A!Resets, A!Fresh, A!Entering
<1>3. ASSUME A!Concealed PROVE AvcInv'
  BY <1>3 DEF A!Concealed
<1>4. ASSUME A!Raised PROVE AvcInv'
  BY <1>4 DEF A!Raised, A!Resets, A!Fresh, A!Entering
<1>5. ASSUME A!HwFails \/ A!Hole \/ A!Close PROVE AvcInv'
  BY <1>5 DEF A!HwFails, A!Hole, A!Close
<1>7. ASSUME A!Restart PROVE AvcInv'
  <2>1. rebuilds' \in 0 .. MaxRebuilds
    BY <1>7 DEF A!Restart
  <2> QED
    BY <1>7, <2>1 DEF A!Restart
<1>6. ASSUME UNCHANGED avcVars PROVE AvcInv'
  BY <1>6 DEF avcVars
<1> QED
  BY <1>1, <1>2, <1>3, <1>4, <1>5, <1>6, <1>7 DEF A!Next


-----------------------------------------------------------------------------
(* The wedge *)

(* What an empty queue is. *)
LEMMA NoUnits == ASSUME NEW q, q = <<>> PROVE q \in Seq(D!Units) /\ Len(q) = 0
OBVIOUS

(* The bounds of the wedge, one by one.                                    *)
LEMMA WedgeBounds ==
  0 \in Tiles /\ Limit \in Nat /\ Backlog \in Nat /\ MaxJams \in Nat /\ MaxLost \in Nat
BY DesktopAssumption DEF D!WedgeAssumption

(* No reference has been missed at the start.                              *)
LEMMA WedgeInitially == D!Init => D!TypeOK
<1> SUFFICES ASSUME D!Init PROVE D!TypeOK
  OBVIOUS
<1>1. /\ streak \in 0 .. Limit /\ silent \in 0 .. Limit /\ since \in 0 .. Limit
      /\ jams \in 0 .. MaxJams /\ lost \in 0 .. MaxLost
  BY WedgeBounds DEF D!Init
<1>2. waiting \in Seq(D!Units) /\ Len(waiting) <= Backlog
  <2>1. waiting \in Seq(D!Units) /\ Len(waiting) = 0
    BY NoUnits DEF D!Init
  <2> QED
    BY <2>1, WedgeBounds
<1>3. perTile \in BOOLEAN /\ rooted \in BOOLEAN /\ required \in BOOLEAN
  BY DEF D!Init
<1> QED
  BY <1>1, <1>2, <1>3 DEF D!Init, D!TypeOK

(* The unit at the head, and the queue behind it. *)
LEMMA WedgeHead ==
  ASSUME D!TypeOK, waiting # <<>>
  PROVE  /\ D!u.tile \in Tiles /\ D!u.key \in BOOLEAN
         /\ Tail(waiting) \in Seq(D!Units) /\ Len(Tail(waiting)) <= Backlog
<1>1. D!u \in D!Units /\ Tail(waiting) \in Seq(D!Units) /\ Len(Tail(waiting)) = Len(waiting) - 1
  BY HeadTailProperties DEF D!TypeOK, D!u
<1>2. D!u.tile \in Tiles /\ D!u.key \in BOOLEAN
  BY <1>1, DesktopAssumption DEF D!WedgeAssumption, D!Units
<1>3. Len(waiting) \in Nat
  BY LenProperties DEF D!TypeOK
<1> QED
  BY <1>1, <1>2, <1>3, DesktopAssumption DEF D!WedgeAssumption, D!TypeOK

(* A counter stays in its bound. *)
LEMMA WedgeCounts ==
  ASSUME NEW n \in 0 .. Limit
  PROVE  D!Older(n) \in 0 .. Limit
BY DesktopAssumption DEF D!WedgeAssumption, D!Older

(* What a recovery leaves behind. *)
LEMMA WedgeRecovers ==
  ASSUME D!TypeOK, waiting # <<>>, NEW flagged \in SUBSET Tiles, D!TryRecovery(flagged)
  PROVE  /\ awaiting' \subseteq Tiles /\ rooted' \in BOOLEAN
         /\ waiting' \in Seq(D!Units) /\ Len(waiting') <= Backlog
<1>1. waiting' = <<>>
  BY DEF D!TryRecovery
<1>2. waiting' \in Seq(D!Units) /\ Len(waiting') = 0
  BY <1>1, NoUnits
<1>3. awaiting' \subseteq Tiles /\ rooted' \in BOOLEAN
  BY WedgeHead DEF D!TryRecovery, D!Rooted, D!Awaiting, D!TypeOK
<1> QED
  BY <1>2, <1>3, DesktopAssumption DEF D!WedgeAssumption

(* A unit is queued where there is room.                                   *)
LEMMA WedgeAdds ==
  ASSUME D!TypeOK, Len(waiting) < Backlog, NEW x \in D!Units, waiting' = Append(waiting, x)
  PROVE  waiting' \in Seq(D!Units) /\ Len(waiting') <= Backlog
<1>1. /\ waiting' \in Seq(D!Units) /\ Len(waiting') = Len(waiting) + 1 /\ Len(waiting) \in Nat
  BY AppendProperties, LenProperties DEF D!TypeOK
<1> QED
  BY <1>1, DesktopAssumption DEF D!WedgeAssumption

(* Every step of the wedge keeps its type invariant.                       *)
LEMMA WedgeStep == ASSUME D!TypeOK, [D!Next]_wedgeVars PROVE D!TypeOK'
<1>0. 0 \in Tiles /\ Limit \in Nat /\ Backlog \in Nat /\ MaxJams \in Nat /\ MaxLost \in Nat
  BY WedgeBounds
<1> USE DEF D!stateVars, D!gateVars
<1>1. ASSUME D!Arrive PROVE D!TypeOK'
  <2>1. waiting' \in Seq(D!Units) /\ Len(waiting') <= Backlog
    BY <1>1, WedgeAdds DEF D!Arrive
  <2> QED
    BY <1>1, <2>1 DEF D!Arrive, D!TypeOK
<1>2. ASSUME D!Answer PROVE D!TypeOK'
  <2>1. [tile |-> 0, key |-> TRUE] \in D!Units
    BY <1>0 DEF D!Units
  <2>2. waiting' \in Seq(D!Units) /\ Len(waiting') <= Backlog
    BY <1>2, <2>1, WedgeAdds DEF D!Answer
  <2> QED
    BY <1>2, <2>2 DEF D!Answer, D!TypeOK
<1>3. ASSUME D!LoseRequest \/ D!Jam \/ D!SendFir PROVE D!TypeOK'
  <2>1. jams' \in 0 .. MaxJams /\ lost' \in 0 .. MaxLost
    BY <1>0, <1>3 DEF D!LoseRequest, D!Jam, D!SendFir, D!TypeOK
  <2> QED
    BY <1>3, <2>1 DEF D!LoseRequest, D!Jam, D!SendFir, D!TypeOK
<1>4. ASSUME D!Refused PROVE D!TypeOK'
  BY <1>0, <1>4, WedgeHead, WedgeCounts DEF D!Refused, D!TypeOK
<1>5. ASSUME D!Publishes PROVE D!TypeOK'
  <2>1. /\ waiting' \in Seq(D!Units) /\ Len(waiting') <= Backlog
        /\ rooted' \in BOOLEAN /\ awaiting' \subseteq Tiles
    BY <1>5, WedgeHead DEF D!Publishes, D!TypeOK, D!Rooted, D!Awaiting
  <2>2. errored' \subseteq Tiles /\ required' \in BOOLEAN
    BY <1>5, WedgeHead DEF D!Publishes, D!TypeOK
  <2>3. since' \in 0 .. Limit /\ silent' \in 0 .. Limit /\ streak' \in 0 .. Limit
    BY <1>0, <1>5 DEF D!Publishes
  <2> QED
    BY <1>5, <2>1, <2>2, <2>3 DEF D!Publishes, D!TypeOK
<1>6. ASSUME D!Mute PROVE D!TypeOK'
  <2>1. /\ waiting' \in Seq(D!Units) /\ Len(waiting') <= Backlog
        /\ rooted' \in BOOLEAN /\ awaiting' \subseteq Tiles
    BY <1>6, WedgeHead, WedgeRecovers DEF D!Mute, D!TypeOK, D!Rooted, D!Awaiting
  <2>2. since' \in 0 .. Limit /\ silent' \in 0 .. Limit /\ streak' \in 0 .. Limit
    BY <1>0, <1>6, WedgeCounts DEF D!Mute, D!TypeOK
  <2> QED
    BY <1>6, <2>1, <2>2 DEF D!Mute, D!TypeOK
<1>7. ASSUME NEW again_ \in BOOLEAN, D!Raises(again_) PROVE D!TypeOK'
  <2>1. errored' \subseteq Tiles /\ required' \in BOOLEAN
    BY <1>7, WedgeHead DEF D!Raises, D!TypeOK
  <2>2. /\ waiting' \in Seq(D!Units) /\ Len(waiting') <= Backlog
        /\ rooted' \in BOOLEAN /\ awaiting' \subseteq Tiles
    BY <1>7, <2>1, WedgeHead, WedgeRecovers DEF D!Raises, D!TypeOK, D!Rooted, D!Awaiting
  <2>3. since' \in 0 .. Limit
    BY <1>7, WedgeCounts DEF D!Raises, D!TypeOK
  <2>4. streak' \in 0 .. Limit
    <3>1. D!Older(streak) \in 0 .. Limit /\ 0 \in 0 .. Limit
      BY <1>0, WedgeCounts DEF D!TypeOK
    <3> QED
      BY <1>7, <3>1 DEF D!Raises
  <2> QED
    BY <1>7, <2>1, <2>2, <2>3, <2>4 DEF D!Raises, D!TypeOK
<1>8. ASSUME D!Watchdog PROVE D!TypeOK'
  <2>1. waiting' \in Seq(D!Units) /\ Len(waiting') = 0
    BY <1>8, NoUnits DEF D!Watchdog
  <2>2. since' \in 0 .. Limit /\ streak' \in 0 .. Limit /\ Len(waiting') <= Backlog
    BY <1>0, <1>8, <2>1 DEF D!Watchdog
  <2> QED
    BY <1>8, <2>1, <2>2 DEF D!Watchdog, D!TypeOK
<1>9. ASSUME UNCHANGED wedgeVars PROVE D!TypeOK'
  BY <1>9 DEF wedgeVars, D!TypeOK
<1> QED
  BY <1>1, <1>2, <1>3, <1>4, <1>5, <1>6, <1>7, <1>8, <1>9 DEF D!Next, D!Worker

(* No picture of a broken chain is published, whichever thread restarts or *)
(* drops a unit between the key gate and the lock (avc.py, feed_nalu); and *)
(* the variables of the three decoders have their types.                   *)
THEOREM HolesHidden == AllSpec => []HoleHidden
<1>1. AllInit => TypeOK /\ D!TypeOK /\ AvcInv
  BY TypeInit, WedgeInitially, AvcInitially DEF AllInit
<1>2. TypeOK /\ D!TypeOK /\ AvcInv /\ [AllNext]_allVars => (TypeOK /\ D!TypeOK /\ AvcInv)'
  BY EachDecoderView, WorkerTypeStep, WedgeStep, AvcStep
<1>3. TypeOK /\ D!TypeOK /\ AvcInv => HoleHidden
  BY DEF AvcInv, HoleHidden
<1> QED
  BY <1>1, <1>2, <1>3, PTL DEF AllSpec


-----------------------------------------------------------------------------
(* The choice of a decoder *)

(* What is still to be tried, or broken, is all the session could use.     *)
ChoiceOpen ==
  /\ ladder \subseteq R!Asked \cup R!Candidates(session)
  /\ built = "none" /\ ladder # {} =>
       \A s \in R!Candidates(session) : s \in ladder \/ s.name \in broken

(* Nothing is tried before the codec is known, and the choice is the best. *)
ChoiceInv ==
  /\ session = "none" => ladder = {} /\ built = "none"
  /\ ChoiceOpen
  /\ R!BestThatStarts

(* No two decoders of the registry have one name, and their priorities are *)
(* numbers.                                                                *)
LEMMA NamesDiffer ==
  /\ \A s, r \in R!Registry : s.name = r.name => s = r
  /\ \A s \in R!Registry : s.priority \in Nat /\ s.name \notin {"none", "nothing"}
BY DEF R!Registry, R!Entry

(* The order of two decoders cannot be turned round.                       *)
LEMMA BetterIsStrict ==
  ASSUME NEW s \in R!Registry, NEW r \in R!Registry, R!Better(s, r)
  PROVE  ~R!Better(r, s)
BY NamesDiffer DEF R!Better, R!Registry, R!Entry

(* What the choice of a name is. *)
LEMMA ByItsName ==
  ASSUME NEW s \in R!Registry
  PROVE  (CHOOSE r \in R!Registry : r.name = s.name) = s
BY NamesDiffer

(* A step that moves nothing the choice depends on leaves its sets alone.  *)
LEMMA ChoiceSets ==
  ASSUME UNCHANGED <<machine, wish, session>>
  PROVE  /\ R!Asked' = R!Asked /\ R!Override' = R!Override
         /\ R!Candidates(session)' = R!Candidates(session)
         /\ \A s : R!Supported(s)' = R!Supported(s)
BY DEF R!Asked, R!Override, R!Candidates, R!Supported, R!Available

(* The rungs below the first are all still to be tried.                    *)
LEMMA ChoiceInitially == R!RegInit => ChoiceInv
BY DEF R!RegInit, ChoiceInv, ChoiceOpen, R!BestThatStarts

(* The first of the ladder that starts is the best of what starts.         *)
LEMMA ChoiceTries ==
  ASSUME ChoiceInv, R!Build
  PROVE  ChoiceInv'
<1>1. PICK s \in ladder :
        /\ \A r \in ladder \ {s} : R!Before(s, r)
        /\ IF s.name \in broken
           THEN ladder' = ladder \ {s} /\ built' = IF ladder' = {} THEN "nothing" ELSE built
           ELSE built' = s.name /\ UNCHANGED ladder
  BY DEF R!Build
<1>2. built = "none" /\ session # "none" /\ UNCHANGED <<machine, wish, broken, session>>
  BY <1>1 DEF R!Build, ChoiceInv
<1>3. s \in R!Registry /\ R!Supported(s)
  BY <1>1 DEF ChoiceInv, ChoiceOpen, R!Asked, R!Candidates
<1>4. CASE s.name \in broken
  <2>1. ChoiceOpen'
    BY <1>1, <1>2, <1>4, ChoiceSets DEF ChoiceInv, ChoiceOpen
  <2>2. built' \in {"none", "nothing"}
    BY <1>1, <1>2, <1>4
  <2> QED
    BY <1>2, <2>1, <2>2 DEF ChoiceInv, R!BestThatStarts
<1>5. CASE s.name \notin broken
  <2>1. built' = s.name /\ ladder' = ladder
    BY <1>1, <1>5
  <2>2. ChoiceOpen'
    BY <1>2, <1>3, <2>1, ChoiceSets, NamesDiffer DEF ChoiceInv, ChoiceOpen
  <2>3. s.name = R!Override
          \/ (s \in R!Candidates(session)
              /\ \A r \in R!Candidates(session) : R!Better(r, s) => r.name \in broken)
    <3>1. CASE s \in R!Asked
      BY <3>1 DEF R!Asked
    <3>2. CASE s \notin R!Asked
      <4>1. s \in R!Candidates(session)
        BY <1>1, <3>2 DEF ChoiceInv, ChoiceOpen
      <4>2. ASSUME NEW r \in R!Candidates(session), R!Better(r, s), r.name \notin broken
            PROVE  FALSE
        <5>1. r \in ladder /\ r \in R!Registry
          BY <1>1, <1>2, <4>2 DEF ChoiceInv, ChoiceOpen, R!Candidates
        <5>2. r # s
          BY <1>3, <4>2, BetterIsStrict
        <5>3. R!Better(s, r)
          BY <1>1, <3>2, <5>1, <5>2 DEF R!Before
        <5> QED
          BY <1>3, <4>2, <5>1, <5>3, BetterIsStrict
      <4> QED
        BY <4>1, <4>2
    <3> QED
      BY <3>1, <3>2
  <2>4. (CHOOSE r \in R!Registry : r.name = built') = s
    BY <1>3, <2>1, ByItsName
  <2>5. R!BestThatStarts'
    BY <1>2, <1>3, <1>5, <2>1, <2>3, <2>4, ChoiceSets DEF R!BestThatStarts
  <2> QED
    BY <1>2, <2>2, <2>5 DEF ChoiceInv
<1> QED
  BY <1>4, <1>5

(* A rung leaves the ladder only when it has failed or has been chosen.    *)
LEMMA ChoiceStep == ASSUME ChoiceInv, [R!RegNext]_choiceVars PROVE ChoiceInv'
<1>1. ASSUME R!ResolveCodec PROVE ChoiceInv'
  <2>1. ladder' = {} /\ built' = "none"
    BY <1>1 DEF R!ResolveCodec, ChoiceInv
  <2> QED
    BY <2>1 DEF ChoiceInv, ChoiceOpen, R!BestThatStarts
<1>2. ASSUME R!Select PROVE ChoiceInv'
  <2>1. /\ ladder' = R!Asked \cup R!Candidates(session) /\ built' = "none" /\ session' # "none"
        /\ UNCHANGED <<machine, wish, session>>
    BY <1>2 DEF R!Select
  <2>2. ChoiceOpen'
    BY <2>1, ChoiceSets DEF ChoiceOpen
  <2> QED
    BY <2>1, <2>2 DEF ChoiceInv, R!BestThatStarts
<1>3. ASSUME UNCHANGED choiceVars PROVE ChoiceInv'
  <2>1. UNCHANGED <<machine, wish, broken, session, ladder, built>>
    BY <1>3 DEF choiceVars
  <2>2. ChoiceOpen'
    BY <2>1, ChoiceSets DEF ChoiceInv, ChoiceOpen
  <2>3. R!BestThatStarts'
    BY <2>1, ChoiceSets DEF ChoiceInv, R!BestThatStarts
  <2> QED
    BY <2>1, <2>2, <2>3 DEF ChoiceInv
<1> QED
  BY <1>1, <1>2, <1>3, ChoiceTries DEF R!RegNext


-----------------------------------------------------------------------------
(* The start of the HEVC decoder *)

(* The types, and that no more pictures came out than units went in.       *)
StartTyped ==
  /\ prefer \in BOOLEAN /\ gaveUp \in BOOLEAN /\ isHw \in BOOLEAN
  /\ offers \in 0 .. Accels /\ accel \in 0 .. offers /\ trying \in 1 .. offers + 1
  /\ startPc \in {"create", "begin", "burst", "check", "refeed", "live"}
  /\ resumes \in {"begin", "refeed", "live"}
  /\ burst \in Seq(S!BurstUnits) /\ next \in 1 .. Len(burst) + 1
  /\ rootedTiles \subseteq Tiles /\ expected \in Nat
  /\ good \in Nat /\ good < next /\ again \in 0 .. MaxAgain

(* The place start, feed_burst or restart goes on at when the codec is     *)
(* there.                                                                  *)
Place == IF startPc = "create" THEN resumes ELSE startPc

(* Until a restart the codec was offered the units before the next one; a  *)
(* burst begins at its first unit and is over behind its last.             *)
Offered ==
  /\ again = 0 => offered = [i \in 1 .. next - 1 |-> i]
  /\ Place # "live" => again = 0
  /\ startPc = "create" /\ resumes = "live" => again > 0
  /\ Place = "begin" => next = 1
  /\ Place = "live" => next = Len(burst) + 1

(* No accelerator runs that was given up or not wanted; one that runs at   *)
(* the end of the burst gave pictures.                                     *)
Accelerated ==
  /\ gaveUp \/ ~prefer =>
       IF startPc = "create" THEN trying > offers ELSE accel = 0
  /\ startPc \in {"burst", "check"} /\ accel # 0 => isHw
  /\ Place = "refeed" => gaveUp
  /\ startPc = "live" /\ again = 0 /\ accel # 0 => expected <= BurstWindow \/ good >= BurstMin

(* The inductive invariant of the start.                                   *)
StartInv == StartTyped /\ Offered /\ Accelerated

(* The bounds of the start, one by one.                                    *)
LEMMA StartBounds ==
  /\ 0 \in Tiles /\ Accels \in Nat /\ MaxAgain \in Nat /\ BurstEvery \in Nat
  /\ BurstWindow \in Nat /\ BurstMin \in Nat
BY DesktopAssumption DEF S!StartAssumption

(* The sequence of the first n numbers grows by the next.                  *)
LEMMA OneMoreOffered ==
  ASSUME NEW n \in Nat
  PROVE  Append([i \in 1 .. n |-> i], n + 1) = [i \in 1 .. n + 1 |-> i]
<1> DEFINE s == [i \in 1 .. n |-> i]
           t == [i \in 1 .. n + 1 |-> i]
<1>1. s \in Seq(Nat) /\ t \in Seq(Nat) /\ Len(s) = n /\ Len(t) = n + 1
  BY IsASeq
<1>2. /\ Append(s, n + 1) \in Seq(Nat) /\ Len(Append(s, n + 1)) = n + 1
      /\ \A i \in 1 .. n : Append(s, n + 1)[i] = s[i]
      /\ Append(s, n + 1)[n + 1] = n + 1
  BY <1>1, AppendProperties
<1>3. \A i \in 1 .. n + 1 : Append(s, n + 1)[i] = t[i]
  BY <1>2
<1> QED
  BY <1>1, <1>2, <1>3, SeqEqual

(* The decoders start with nothing buffered and nothing on offer.          *)
LEMMA StartInitially == S!StartInit => StartInv
<1> SUFFICES ASSUME S!StartInit PROVE StartInv
  OBVIOUS
<1>1. burst \in Seq(S!BurstUnits) /\ Len(burst) = 0
  <2>1. burst = <<>>
    BY DEF S!StartInit
  <2> QED
    BY <2>1
<1>2. offers \in Nat /\ trying \in 1 .. offers + 1
  BY StartBounds DEF S!StartInit
<1>3. prefer \in BOOLEAN /\ (~prefer => trying > offers)
  BY <1>2 DEF S!StartInit
<1>8. offers \in 0 .. Accels /\ accel \in 0 .. offers /\ again \in 0 .. MaxAgain
  BY <1>2, StartBounds DEF S!StartInit, S!Software
<1>9. /\ next \in 1 .. Len(burst) + 1 /\ good \in Nat /\ good < next /\ expected \in Nat
      /\ rootedTiles \subseteq Tiles
  BY <1>1 DEF S!StartInit
<1>4. StartTyped
  BY <1>1, <1>2, <1>3, <1>8, <1>9 DEF S!StartInit, StartTyped
<1>5. offered = [i \in 1 .. next - 1 |-> i]
  BY DEF S!StartInit
<1>6. Offered
  BY <1>5 DEF S!StartInit, Offered, Place
<1>7. Accelerated
  BY <1>3 DEF S!StartInit, Accelerated, Place, S!Software
<1> QED
  BY <1>4, <1>6, <1>7 DEF StartInv

(* The unit at hand is one of the burst. *)
LEMMA UnitOfBurst ==
  ASSUME StartTyped, next <= Len(burst)
  PROVE  burst[next].tile \in Tiles
<1>1. Len(burst) \in Nat /\ burst[next] \in S!BurstUnits
  BY LenProperties DEF StartTyped
<1> QED
  BY <1>1, StartBounds DEF S!BurstUnits

(* A unit that is decoded is offered, in its turn; the accelerator may turn*)
(* out not to work.                                                        *)
LEMMA UnitDecoded ==
  ASSUME StartInv, S!DecodeOne, next <= Len(burst), UNCHANGED <<burst, again, offers>>, again = 0
  PROVE  /\ next' = next + 1 /\ next' \in 1 .. Len(burst') + 1
         /\ offered' = [i \in 1 .. next' - 1 |-> i]
         /\ good' \in Nat /\ good' < next'
         /\ accel' \in 0 .. offers /\ accel' \in {0, accel}
<1>1. next' = next + 1 /\ offered' = Append(offered, next)
  BY DEF S!DecodeOne
<1>2. next \in Nat \ {0} /\ Len(burst) \in Nat
  BY LenProperties DEF StartInv, StartTyped
<1>3. Append([i \in 1 .. next - 1 |-> i], (next - 1) + 1) = [i \in 1 .. (next - 1) + 1 |-> i]
  <2>1. next - 1 \in Nat
    BY <1>2
  <2> QED
    BY ONLY <2>1, OneMoreOffered
<1>4. (next - 1) + 1 = next /\ next' - 1 = next
  BY <1>1, <1>2
<1>5. offered' = [i \in 1 .. next' - 1 |-> i]
  BY <1>1, <1>3, <1>4 DEF StartInv, Offered
<1>6. good' \in {good, good + 1}
  BY DEF S!DecodeOne
<1>7. accel' \in {0, accel}
  BY DEF S!DecodeOne, S!Software
<1> QED
  BY <1>1, <1>2, <1>5, <1>6, <1>7, StartBounds DEF StartInv, StartTyped

(* Every codec but that of a restart is given the burst from its start.    *)
LEMMA FallsBack ==
  ASSUME StartInv, again = 0, S!FallbackToSoftware
  PROVE  StartInv'
<1>1. /\ gaveUp' = TRUE /\ startPc' = "create" /\ resumes' = "refeed" /\ trying' = offers + 1
      /\ good' = 0 /\ offered' = <<>> /\ next' = 1
      /\ UNCHANGED <<prefer, offers, accel, burst, isHw, expected, rootedTiles, goodAt, again>>
  BY DEF S!FallbackToSoftware, S!Create, S!countVars
<1>2. Len(burst) \in Nat /\ offers \in Nat
  BY StartBounds, LenProperties DEF StartInv, StartTyped
<1>3. StartTyped'
  BY <1>1, <1>2 DEF StartInv, StartTyped
<1>4. offered' = [i \in 1 .. next' - 1 |-> i]
  BY <1>1
<1>5. Offered'
  BY <1>1, <1>4 DEF StartInv, Offered, Place
<1>6. Accelerated'
  BY <1>1, <1>2 DEF StartInv, Accelerated, Place
<1> QED
  BY <1>3, <1>5, <1>6 DEF StartInv

(* Feeding goes on elsewhere. *)
LEMMA FeedGoesOn ==
  ASSUME StartInv, NEW pc \in {"burst", "live"}, S!GoesTo(pc), again = 0,
         startPc \in {"burst", "check", "refeed"},
         pc = "burst" => startPc = "check",
         pc = "live" => next > Len(burst),
         pc = "live" /\ startPc = "burst" /\ isHw => expected <= BurstWindow \/ good >= BurstMin,
         startPc = "check" => pc = "burst"
  PROVE  StartInv'
<1>1. /\ startPc' = pc
      /\ UNCHANGED <<prefer, gaveUp, offers, trying, accel, resumes, burst, next,
                     isHw, expected, rootedTiles, goodAt, good, again, offered>>
  BY DEF S!GoesTo, S!codecVars, S!countVars
<1>2. StartTyped'
  BY <1>1 DEF StartInv, StartTyped
<1>3. pc = "live" => next = Len(burst) + 1
  <2>1. Len(burst) \in Nat
    BY LenProperties DEF StartInv, StartTyped
  <2> QED
    BY <2>1 DEF StartInv, StartTyped
<1>4. Offered'
  BY <1>1, <1>3 DEF StartInv, Offered, Place
<1>5. Accelerated'
  BY <1>1 DEF StartInv, Accelerated, Place
<1> QED
  BY <1>2, <1>4, <1>5 DEF StartInv

(* Every step of the start keeps the account of its burst.                 *)
LEMMA StartStep == ASSUME StartInv, [S!StartNext]_startVars PROVE StartInv'
<1>0. Len(burst) \in Nat /\ offers \in Nat /\ trying \in Nat /\ next \in Nat
  BY StartBounds, LenProperties DEF StartInv, StartTyped
<1>1. ASSUME S!TryHwaccel PROVE StartInv'
  <2>1. UNCHANGED <<prefer, gaveUp, offers, resumes, burst, next, isHw, expected, rootedTiles,
                    goodAt, good, again, offered>>
    BY <1>1 DEF S!TryHwaccel, S!countVars
  <2>2. \/ trying <= offers /\ trying' = trying + 1 /\ accel' = accel /\ startPc' = startPc
        \/ /\ accel' = IF trying <= offers THEN trying ELSE 0
           /\ startPc' = resumes /\ trying' = trying
    BY <1>1 DEF S!TryHwaccel, S!Software
  <2>3. startPc = "create"
    BY <1>1 DEF S!TryHwaccel
  <2>4. StartTyped'
    BY <1>0, <2>1, <2>2, <2>3 DEF StartInv, StartTyped
  <2>5. Offered'
    BY <2>1, <2>2, <2>3 DEF StartInv, StartTyped, Offered, Place
  <2>6. Accelerated'
    BY <1>0, <2>1, <2>2, <2>3 DEF StartInv, StartTyped, Offered, Accelerated, Place
  <2> QED
    BY <2>4, <2>5, <2>6 DEF StartInv
<1>2. ASSUME S!BurstBegin PROVE StartInv'
  <2>1. /\ UNCHANGED <<prefer, gaveUp, offers, trying, accel, resumes, good, again, offered>>
        /\ next' = 1 /\ startPc' = (IF burst' = <<>> THEN "live" ELSE "burst")
        /\ isHw' = (accel # 0) /\ expected' = 0 /\ rootedTiles' = {}
        /\ startPc = "begin" /\ burst' \in S!Bursts
    BY <1>2 DEF S!BurstBegin, S!codecVars, S!Software
  <2>2. burst' \in Seq(S!BurstUnits) /\ (burst' = <<>> => Len(burst') = 0)
    BY <2>1 DEF S!Bursts
  <2>3. Len(burst') \in Nat
    BY <2>2, LenProperties
  <2>4. next = 1 /\ again = 0
    BY <2>1 DEF StartInv, Offered, Place
  <2>5. StartTyped'
    BY <2>1, <2>2, <2>3, <2>4 DEF StartInv, StartTyped
  <2>6. Offered'
    BY <2>1, <2>2, <2>4 DEF StartInv, Offered, Place
  <2>7. Accelerated'
    <3>1. accel # 0 => isHw'
      BY <2>1
    <3>2. expected' <= BurstWindow
      BY <2>1, StartBounds
    <3>3. startPc' \in {"burst", "live"}
      BY <2>1
    <3> QED
      BY <2>1, <3>1, <3>2, <3>3 DEF StartInv, Accelerated, Place
  <2> QED
    BY <2>5, <2>6, <2>7 DEF StartInv
<1>3. ASSUME S!BurstUnit PROVE StartInv'
  <2>1. /\ UNCHANGED <<prefer, gaveUp, offers, trying, resumes, burst, isHw, goodAt, again>>
        /\ startPc = "burst" /\ next <= Len(burst) /\ S!DecodeOne
        /\ startPc' \in {"burst", "check"} /\ expected' \in {expected, expected + 1}
        /\ rootedTiles' \in {rootedTiles, rootedTiles \cup {burst[next].tile}}
    BY <1>3 DEF S!BurstUnit
  <2>2. again = 0
    BY <2>1 DEF StartInv, Offered, Place
  <2>3. /\ next' = next + 1 /\ next' \in 1 .. Len(burst') + 1
        /\ offered' = [i \in 1 .. next' - 1 |-> i]
        /\ good' \in Nat /\ good' < next'
        /\ accel' \in 0 .. offers /\ accel' \in {0, accel}
    BY <2>1, <2>2, UnitDecoded
  <2>4. burst[next].tile \in Tiles
    BY <2>1, UnitOfBurst DEF StartInv
  <2>5. StartTyped'
    BY <2>1, <2>3, <2>4 DEF StartInv, StartTyped
  <2>6. Offered'
    BY <2>1, <2>2, <2>3 DEF StartInv, Offered, Place
  <2>7. Accelerated'
    BY <2>1, <2>3 DEF StartInv, Accelerated, Place
  <2> QED
    BY <2>5, <2>6, <2>7 DEF StartInv
<1>4. ASSUME S!BurstCheck PROVE StartInv'
  <2>1. again = 0
    BY <1>4 DEF S!BurstCheck, StartInv, Offered, Place
  <2> QED
    BY <1>4, <2>1, FallsBack, FeedGoesOn DEF S!BurstCheck
<1>5. ASSUME S!BurstEnd PROVE StartInv'
  <2>1. again = 0
    BY <1>5 DEF S!BurstEnd, StartInv, Offered, Place
  <2>2. CASE isHw /\ expected > BurstWindow /\ good < BurstMin
    BY <1>5, <2>1, <2>2, FallsBack DEF S!BurstEnd
  <2>3. CASE ~(isHw /\ expected > BurstWindow /\ good < BurstMin)
    <3>1. isHw => expected <= BurstWindow \/ good >= BurstMin
      BY <2>3, StartBounds DEF StartInv, StartTyped
    <3> QED
      BY <1>5, <2>1, <2>3, <3>1, FeedGoesOn DEF S!BurstEnd
  <2> QED
    BY <2>2, <2>3
<1>6. ASSUME S!Refeed PROVE StartInv'
  <2>1. startPc = "refeed" /\ again = 0
    BY <1>6 DEF S!Refeed, StartInv, Offered, Place
  <2>2. CASE next > Len(burst)
    BY <1>6, <2>1, <2>2, FeedGoesOn DEF S!Refeed
  <2>3. CASE ~(next > Len(burst))
    <3>1. /\ UNCHANGED <<prefer, gaveUp, offers, trying, startPc, resumes, burst,
                         isHw, expected, rootedTiles, goodAt, again>>
          /\ S!DecodeOne /\ next <= Len(burst)
      BY <1>0, <1>6, <2>3 DEF S!Refeed, S!countVars
    <3>2. /\ next' = next + 1 /\ next' \in 1 .. Len(burst') + 1
          /\ offered' = [i \in 1 .. next' - 1 |-> i]
          /\ good' \in Nat /\ good' < next'
          /\ accel' \in 0 .. offers /\ accel' \in {0, accel}
      BY <2>1, <3>1, UnitDecoded
    <3>3. StartTyped'
      BY <3>1, <3>2 DEF StartInv, StartTyped
    <3>4. Offered'
      BY <2>1, <3>1, <3>2 DEF StartInv, Offered, Place
    <3>5. Accelerated'
      BY <2>1, <3>1, <3>2 DEF StartInv, Accelerated, Place
    <3> QED
      BY <3>3, <3>4, <3>5 DEF StartInv
  <2> QED
    BY <2>2, <2>3
<1>7. ASSUME S!RestartCodec PROVE StartInv'
  <2>1. /\ UNCHANGED <<gaveUp, prefer, offers, accel, burst, next, isHw, expected,
                       rootedTiles, goodAt>>
        /\ startPc = "live" /\ again < MaxAgain /\ again' = again + 1
        /\ startPc' = "create" /\ resumes' = "live" /\ good' = 0
        /\ trying' = IF gaveUp \/ ~prefer THEN offers + 1 ELSE 1
    BY <1>7 DEF S!RestartCodec, S!Create, S!countVars
  <2>2. again' \in 1 .. MaxAgain
    BY <2>1, StartBounds DEF StartInv, StartTyped
  <2>3. StartTyped'
    BY <1>0, <2>1, <2>2 DEF StartInv, StartTyped
  <2>4. Offered'
    BY <2>1, <2>2 DEF StartInv, Offered, Place
  <2>5. Accelerated'
    BY <1>0, <2>1 DEF StartInv, Accelerated, Place
  <2> QED
    BY <2>3, <2>4, <2>5 DEF StartInv
<1>8. ASSUME UNCHANGED startVars PROVE StartInv'
  BY <1>8 DEF startVars, StartInv, StartTyped, Offered, Accelerated, Place
<1> QED
  BY <1>1, <1>2, <1>3, <1>4, <1>5, <1>6, <1>7, <1>8 DEF S!StartNext

(* What the run checks of the start.                                       *)
LEMMA StartHolds == StartInv => S!StartTypeOK /\ S!BurstDecoded
<1> SUFFICES ASSUME StartInv PROVE S!StartTypeOK /\ S!BurstDecoded
  OBVIOUS
<1>1. Len(burst) \in Nat /\ next \in Nat
  BY LenProperties DEF StartInv, StartTyped
<1>2. S!StartTypeOK
  BY <1>1 DEF StartInv, StartTyped, S!StartTypeOK
<1>3. next = Len(burst) + 1 => next - 1 = Len(burst)
  BY <1>1
<1>4. startPc = "live" /\ again = 0 => offered = [i \in 1 .. Len(burst) |-> i]
  BY <1>3 DEF StartInv, Offered, Place
<1>5. S!BurstDecoded
  BY <1>4 DEF StartInv, Accelerated, S!BurstDecoded, S!Software
<1> QED
  BY <1>2, <1>5

(* A session gets the best decoder that starts (registry.py, select and    *)
(* build_best); whichever codec hevc.py is left with when the burst is over*)
(* was given each of its units once, in order; and an accelerator that was *)
(* given up does not come back (hevc.py, feed_burst and                    *)
(* _fallback_to_software).                                                 *)
THEOREM BestChosen == AllSpec => []BestThatStarts
<1>1. AllInit => ChoiceInv /\ StartInv
  BY ChoiceInitially, StartInitially DEF AllInit
<1>2. ChoiceInv /\ StartInv /\ [AllNext]_allVars => (ChoiceInv /\ StartInv)'
  BY EachDecoderView, ChoiceStep, StartStep
<1>3. ChoiceInv /\ StartInv => BestThatStarts
  BY StartHolds DEF ChoiceInv, BestThatStarts
<1> QED
  BY <1>1, <1>2, <1>3, PTL DEF AllSpec


-----------------------------------------------------------------------------
(* The desktop's window *)

(* A display: its place and its extent.                                    *)
Rects == Nat \X (Nat \ {0})

(* What a layout message says.                                             *)
LayoutRecords == [canvas : 1 .. Cap, rects : Seq(Rects)]

(* The types of the desktop view.                                          *)
DeskTyped ==
  /\ winSize \in WinSizes /\ guard \in WinSizes /\ pendSize \in WinSizes \cup {Unset}
  /\ deskPc \in {"top", "resize", "canvas", "windows", "tiles", "closed"}
  /\ dynamic \in BOOLEAN /\ autoGap \in BOOLEAN /\ spawned \in BOOLEAN
  /\ cropApplied \in BOOLEAN /\ hidden \in BOOLEAN /\ dirty \in BOOLEAN
  /\ firstSeen \in BOOLEAN
  /\ pointer = Unset \/ pointer \in 0 .. Cap - 1
  /\ rects \in Seq(Rects) /\ runtime \in 0 .. Cap /\ negotiated \in 1 .. Cap
  /\ canvas \in 1 .. Cap
  /\ toServer \in Seq(1 .. Cap) /\ toViewer \in Seq(LayoutRecords)
  /\ laying \in LayoutRecords \cup {Unset}
  /\ source \in Rects \cup {Unset} /\ viewCrop \in Rects \cup {Unset} /\ views \subseteq Rects

(* What the overlay shows. *)
CursorShown ==
  /\ shapes \in Nat /\ cursorSlot \in {-1, -2} \cup (Nat \ {0})
  /\ overlay = shape /\ (hidden => shape # 0)
  /\ ~dirty => drawn = shape

(* What the host was asked for, as long as no reply took a new size for one*)
(* that had been asked for.                                                *)
SizeAsked == dynamic /\ ~resynced => askedFor = W!Request(guard)

(* What the windows show. *)
WindowsShow ==
  /\ ~spawned => views = {} /\ viewCrop = Unset /\ ~autoGap
  /\ views # {} => viewCrop \in views /\ ~autoGap
  /\ views = {} /\ ~autoGap => viewCrop = Unset
  /\ mode = "all" /\ spawned /\ views = {} /\ laying = Unset /\ canvas = W!CanvasDims =>
       viewCrop = W!ContentRect \/ staleCrop

(* The inductive invariant of the desktop.                                 *)
DeskInv == DeskTyped /\ CursorShown /\ SizeAsked /\ WindowsShow

(* The bounds of the desktop, one by one.                                  *)
LEMMA DeskBounds ==
  /\ WinSizes \subseteq Nat \ {0} /\ FirstSize \in WinSizes /\ Cap \in Nat \ {0}
  /\ Unset \notin Rects /\ Unset \notin LayoutRecords /\ Unset \notin Int
<1> USE DesktopAssumption DEF W!DesktopAssumption
<1>1. /\ WinSizes \subseteq Nat \ {0} /\ FirstSize \in WinSizes /\ Cap \in Nat \ {0}
      /\ Unset \notin Int /\ Unset \notin Nat \X Nat
      /\ Unset \notin [canvas : Nat, rects : Seq(Nat \X Nat)]
  OBVIOUS
<1> HIDE DesktopAssumption
<1>2. \A r \in Rects : r \in Nat \X Nat
  BY DEF Rects
<1>3. \A r \in Seq(Rects) : r \in Seq(Nat \X Nat)
  BY <1>2
<1>4. \A l \in LayoutRecords : l \in [canvas : Nat, rects : Seq(Nat \X Nat)]
  BY <1>1, <1>3 DEF LayoutRecords
<1> QED
  BY <1>1, <1>2, <1>4

(* A window asks for no more than the host can draw.                       *)
LEMMA RequestInCap == \A s \in WinSizes : W!Request(s) \in 1 .. Cap
BY DeskBounds DEF W!Request, W!Least

(* The canvas is no larger than the host can draw.                         *)
LEMMA CanvasInCap ==
  ASSUME DeskTyped
  PROVE  W!CanvasDims \in 1 .. Cap
BY DeskBounds DEF DeskTyped, W!CanvasDims

(* What the displays cover is a rectangle of the canvas. *)
LEMMA ContentIsRect ==
  ASSUME DeskTyped
  PROVE  W!ContentRect \in Rects \cup {Unset}
<1>1. CASE rects = <<>>
  BY <1>1 DEF W!ContentRect
<1>2. CASE rects # <<>>
  <2>1. Len(rects) \in Nat \ {0}
    BY <1>2, LenProperties, EmptySeq DEF DeskTyped
  <2>2. rects[Len(rects)] \in Rects
    BY <2>1 DEF DeskTyped
  <2> DEFINE right == W!Least(W!CanvasDims, rects[Len(rects)][1] + rects[Len(rects)][2])
  <2>3. right \in Nat \ {0}
    BY <2>2, CanvasInCap, DeskBounds DEF W!Least, Rects
  <2>4. <<0, right>> \in Rects
    BY <2>3 DEF Rects
  <2> QED
    BY <1>2, <2>4 DEF W!ContentRect
<1> QED
  BY <1>1, <1>2

(* A step that leaves the session alone leaves what it computes from it.   *)
LEMMA SameSession ==
  ASSUME UNCHANGED <<rects, runtime, negotiated>>
  PROVE  W!CanvasDims' = W!CanvasDims /\ W!ContentRect' = W!ContentRect
BY DEF W!CanvasDims, W!ContentRect, W!Least

(* The displays of a layout. *)
LEMMA LayoutsTyped ==
  ASSUME NEW c \in 1 .. Cap, NEW l \in W!LayoutsOf(c)
  PROVE  l \in LayoutRecords
<1>0. c \in Nat \ {0} /\ Cap \in Nat
  BY DeskBounds
<1>1. <<0, c>> \in Rects /\ <<0, 1>> \in Rects
  BY <1>0 DEF Rects
<1>2. c > 1 => <<1, c - 1>> \in Rects
  BY <1>0 DEF Rects
<1>3. l.rects \in Seq(Rects) /\ l.canvas = c /\ l = [canvas |-> l.canvas, rects |-> l.rects]
  <2>1. PICK r \in {<< <<0, c>> >>, << <<0, 1>> >>} \cup
           (IF c > 1 THEN {<< <<0, 1>>, <<1, c - 1>> >>} ELSE {}) :
             l = [canvas |-> c, rects |-> r]
    BY DEF W!LayoutsOf
  <2>2. r \in Seq(Rects)
    <3>1. CASE r = << <<0, c>> >> \/ r = << <<0, 1>> >>
      BY <1>1, <3>1, ShortSeqs
    <3>2. CASE c > 1 /\ r = << <<0, 1>>, <<1, c - 1>> >>
      BY <1>1, <1>2, <3>2, ShortSeqs
    <3> QED
      BY <2>1, <3>1, <3>2
  <2> QED
    BY <2>1, <2>2
<1> QED
  BY <1>3 DEF LayoutRecords

(* The desktop starts on the negotiated canvas with nothing under way.     *)
LEMMA DeskInitially == W!DeskInit => DeskInv
<1> SUFFICES ASSUME W!DeskInit PROVE DeskInv
  OBVIOUS
<1>1. negotiated \in 1 .. Cap /\ canvas = negotiated /\ runtime = 0
  BY DeskBounds, RequestInCap DEF W!DeskInit
<1>2. rects \in Seq(Rects) /\ toServer \in Seq(1 .. Cap) /\ toViewer \in Seq(LayoutRecords)
  <2>1. rects = <<>> /\ toServer = <<>> /\ toViewer = <<>>
    BY DEF W!DeskInit
  <2> QED
    BY <2>1, EmptySeq
<1>3. runtime \in 0 .. Cap
  BY <1>1, DeskBounds
<1>4. dynamic \in BOOLEAN
  BY DEF W!DeskInit
<1>5. cropApplied \in BOOLEAN
  BY DEF W!DeskInit
<1>6. DeskTyped
  BY <1>1, <1>2, <1>3, <1>4, <1>5, DeskBounds DEF W!DeskInit, DeskTyped
<1>7. CursorShown
  BY DEF W!DeskInit, CursorShown, W!NoShape, W!NoChange
<1>8. SizeAsked
  BY DEF W!DeskInit, SizeAsked
<1>9. WindowsShow
  BY DEF W!DeskInit, WindowsShow
<1> QED
  BY <1>6, <1>7, <1>8, <1>9 DEF DeskInv

(* A pointer event maps into the canvas. *)
LEMMA PointsInside ==
  ASSUME DeskTyped, NEW drag \in BOOLEAN, NEW half \in {0, 2}, NEW r \in W!PointerRects(drag)
  PROVE  W!ToCanvas(half, r) \in 0 .. Cap - 1
<1>0. canvas \in Nat \ {0} /\ Cap \in Nat /\ canvas <= Cap
  BY DeskBounds DEF DeskTyped
<1>1. r \in Rects
  <2>1. <<0, canvas>> \in Rects
    BY <1>0 DEF Rects
  <2> QED
    BY <2>1 DEF W!PointerRects, DeskTyped
<1>2. r[1] \in Nat /\ r[2] \in Nat \ {0}
  BY <1>1 DEF Rects
<1>3. (half * r[2]) \div 2 \in {0, r[2]}
  <2>1. CASE half = 0
    BY <1>2, <2>1
  <2>2. CASE half = 2
    BY <1>2, <2>2
  <2> QED
    BY <2>1, <2>2
<1>4. W!Least(r[2] - 1, (half * r[2]) \div 2) \in Nat
  BY <1>2, <1>3 DEF W!Least
<1>5. \A a, b \in Nat : a <= Cap - 1 => W!Least(a, b) \in 0 .. Cap - 1
  BY <1>0 DEF W!Least
<1>6. canvas - 1 \in Nat /\ canvas - 1 <= Cap - 1
  BY <1>0
<1>7. r[1] + W!Least(r[2] - 1, (half * r[2]) \div 2) \in Nat
  BY <1>2, <1>4
<1> QED
  BY <1>5, <1>6, <1>7 DEF W!ToCanvas

(* The host and the user. *)
LEMMA DeskOutside ==
  ASSUME DeskInv,
         \/ \E s \in WinSizes : W!UserResizes(s)
         \/ \E c \in {W!Request(s) : s \in WinSizes} : \E l \in W!LayoutsOf(c) : W!HostLays(l)
         \/ W!OnCursor
  PROVE  DeskInv'
<1> USE DEF W!sessionSide, W!sizeVars, W!cropVars, W!cursorVars, W!history
<1>1. ASSUME NEW s \in WinSizes, W!UserResizes(s) PROVE DeskInv'
  <2>1. W!CanvasDims' = W!CanvasDims /\ W!ContentRect' = W!ContentRect
    BY <1>1, SameSession DEF W!UserResizes
  <2>2. DeskTyped'
    BY <1>1 DEF W!UserResizes, DeskInv, DeskTyped
  <2>3. CursorShown' /\ SizeAsked' /\ WindowsShow'
    BY <1>1, <2>1 DEF W!UserResizes, DeskInv, CursorShown, SizeAsked, WindowsShow
  <2> QED
    BY <2>2, <2>3 DEF DeskInv
<1>2. ASSUME NEW s \in WinSizes, NEW l \in W!LayoutsOf(W!Request(s)), W!HostLays(l)
      PROVE  DeskInv'
  <2>1. W!CanvasDims' = W!CanvasDims /\ W!ContentRect' = W!ContentRect
    BY <1>2, SameSession DEF W!HostLays
  <2>2. toViewer' \in Seq(LayoutRecords)
    <3>1. l \in LayoutRecords
      BY RequestInCap, LayoutsTyped
    <3> QED
      BY <1>2, <3>1, AppendProperties DEF W!HostLays, DeskInv, DeskTyped
  <2>3. toServer' \in Seq(1 .. Cap)
    <3>1. toServer # <<>> => Tail(toServer) \in Seq(1 .. Cap)
      BY HeadTailProperties DEF DeskInv, DeskTyped
    <3> QED
      BY <1>2, <3>1 DEF W!HostLays, DeskInv, DeskTyped
  <2>4. DeskTyped'
    BY <1>2, <2>2, <2>3 DEF W!HostLays, DeskInv, DeskTyped
  <2>5. CursorShown' /\ SizeAsked' /\ WindowsShow'
    BY <1>2, <2>1 DEF W!HostLays, DeskInv, CursorShown, SizeAsked, WindowsShow
  <2> QED
    BY <2>4, <2>5 DEF DeskInv
<1>3. ASSUME W!OnCursor PROVE DeskInv'
  <2>1. W!CanvasDims' = W!CanvasDims /\ W!ContentRect' = W!ContentRect
    BY <1>3, SameSession DEF W!OnCursor
  <2>2. DeskTyped'
    BY <1>3 DEF W!OnCursor, DeskInv, DeskTyped
  <2>3. CursorShown'
    BY <1>3 DEF W!OnCursor, DeskInv, CursorShown, W!Revert
  <2>4. SizeAsked' /\ WindowsShow'
    BY <1>3, <2>1 DEF W!OnCursor, DeskInv, SizeAsked, WindowsShow
  <2> QED
    BY <2>2, <2>3, <2>4 DEF DeskInv
<1> QED
  BY <1>1, <1>2, <1>3

(* tcp-rx takes a layout: the canvas of another size is noticed by the     *)
(* loop, one of the same size leaves the crop behind.                      *)
LEMMA DeskLayout == ASSUME DeskInv, W!Layout PROVE DeskInv'
<1> USE DEF W!sessionSide, W!sizeVars, W!cropVars, W!cursorVars, W!history
<1>1. ASSUME W!LayoutRects PROVE DeskInv'
  <2>1. Head(toViewer) \in LayoutRecords /\ Tail(toViewer) \in Seq(LayoutRecords)
    BY <1>1, HeadTailProperties DEF W!LayoutRects, DeskInv, DeskTyped
  <2>2. Head(toViewer).rects \in Seq(Rects)
    BY <2>1 DEF LayoutRecords
  <2>3. DeskTyped'
    BY <1>1, <2>1, <2>2 DEF W!LayoutRects, DeskInv, DeskTyped
  <2>4. laying' # Unset
    BY <1>1, <2>1, DeskBounds DEF W!LayoutRects
  <2>5. CursorShown' /\ SizeAsked' /\ WindowsShow'
    BY <1>1, <2>4 DEF W!LayoutRects, DeskInv, CursorShown, SizeAsked, WindowsShow
  <2> QED
    BY <2>3, <2>5 DEF DeskInv
<1>2. ASSUME W!LayoutCanvas PROVE DeskInv'
  <2>1. laying.canvas \in 1 .. Cap
    BY <1>2 DEF W!LayoutCanvas, DeskInv, DeskTyped, LayoutRecords
  <2>2. runtime' = laying.canvas /\ runtime' \in 1 .. Cap
    BY <1>2, <2>1 DEF W!LayoutCanvas
  <2>3. DeskTyped'
    BY <1>2, <2>2, DeskBounds DEF W!LayoutCanvas, DeskInv, DeskTyped
  <2>4. W!CanvasDims' = laying.canvas
    BY <2>2, DeskBounds DEF W!CanvasDims
  <2>5. WindowsShow'
    BY <1>2, <2>4 DEF W!LayoutCanvas, DeskInv, WindowsShow
  <2>6. CursorShown' /\ SizeAsked'
    BY <1>2 DEF W!LayoutCanvas, DeskInv, CursorShown, SizeAsked
  <2> QED
    BY <2>3, <2>5, <2>6 DEF DeskInv
<1> QED
  BY <1>1, <1>2 DEF W!Layout

(* The loop, up to the canvas. *)
LEMMA DeskPolls == ASSUME DeskInv, W!PollEvents \/ W!Leave \/ W!PollResize PROVE DeskInv'
<1> USE DEF W!sessionSide, W!sizeVars, W!cropVars, W!cursorVars, W!history, W!outside, W!At
<1>0. W!CanvasDims' = W!CanvasDims /\ W!ContentRect' = W!ContentRect
  BY SameSession DEF W!PollEvents, W!Leave, W!PollResize
<1>1. ASSUME W!PollEvents PROVE DeskInv'
  <2>1. pointer' = Unset \/ pointer' \in 0 .. Cap - 1
    BY <1>1, PointsInside DEF W!PollEvents, DeskInv, DeskTyped
  <2>2. dirty' \in BOOLEAN
    BY <1>1 DEF W!PollEvents, DeskInv, DeskTyped
  <2>3. hidden' \in BOOLEAN
    BY <1>1 DEF W!PollEvents
  <2>4. DeskTyped'
    BY <1>1, <2>1, <2>2, <2>3 DEF W!PollEvents, DeskInv, DeskTyped
  <2>5. hidden' => hidden \/ shape' # 0
    BY <1>1 DEF W!PollEvents, W!NoShape
  <2>6. CASE cursorSlot \in {-1, -2}
    <3>1. UNCHANGED <<shape, overlay, dirty, drawn, shapes>> /\ cursorSlot' = -1
      BY <1>1, <2>6 DEF W!PollEvents, W!NoChange, W!Revert
    <3> QED
      BY <1>0, <1>1, <2>4, <2>5, <3>1
         DEF W!PollEvents, DeskInv, CursorShown, SizeAsked, WindowsShow
  <2>7. CASE cursorSlot \notin {-1, -2}
    <3>1. /\ shape' = cursorSlot /\ overlay' = cursorSlot /\ dirty' = TRUE
          /\ shapes' = shapes /\ cursorSlot' = -1
      BY <1>1, <2>7 DEF W!PollEvents, W!NoChange, W!Revert
    <3>2. CursorShown'
      BY <2>7, <3>1 DEF DeskInv, CursorShown
    <3> QED
      BY <1>0, <1>1, <2>4, <3>2 DEF W!PollEvents, DeskInv, SizeAsked, WindowsShow
  <2> QED
    BY <2>6, <2>7
<1>2. ASSUME W!Leave PROVE DeskInv'
  <2>1. DeskTyped'
    BY <1>2 DEF W!Leave, DeskInv, DeskTyped
  <2> QED
    BY <1>0, <1>2, <2>1 DEF W!Leave, DeskInv, CursorShown, SizeAsked, WindowsShow
<1>3. ASSUME W!PollResize PROVE DeskInv'
  <2>1. toServer' \in Seq(1 .. Cap)
    <3>1. W!Request(winSize) \in 1 .. Cap
      BY RequestInCap DEF DeskInv, DeskTyped
    <3>2. Append(toServer, W!Request(winSize)) \in Seq(1 .. Cap)
      BY <3>1, AppendProperties DEF DeskInv, DeskTyped
    <3> QED
      BY <1>3, <3>2 DEF W!PollResize, W!SendDynamicResolution, DeskInv, DeskTyped
  <2>2. pendSize' \in WinSizes \cup {Unset} /\ guard' \in WinSizes
    BY <1>3 DEF W!PollResize, DeskInv, DeskTyped
  <2>3. DeskTyped'
    BY <1>3, <2>1, <2>2 DEF W!PollResize, DeskInv, DeskTyped
  <2>4. SizeAsked'
    BY <1>3 DEF W!PollResize, W!SendDynamicResolution, DeskInv, SizeAsked, W!Request
  <2>5. CursorShown' /\ WindowsShow'
    BY <1>0, <1>3 DEF W!PollResize, DeskInv, CursorShown, WindowsShow
  <2> QED
    BY <2>3, <2>4, <2>5 DEF DeskInv
<1> QED
  BY <1>1, <1>2, <1>3

(* The canvas: a window that had no gap to crop gets one when the new      *)
(* layout has one.                                                         *)
LEMMA DeskCanvas == ASSUME DeskInv, W!ApplyNewCanvas \/ W!SameCanvas PROVE DeskInv'
<1> USE DEF W!sessionSide, W!sizeVars, W!cropVars, W!cursorVars, W!history, W!outside, W!At
<1>0. W!CanvasDims' = W!CanvasDims /\ W!ContentRect' = W!ContentRect
  BY SameSession DEF W!ApplyNewCanvas, W!SameCanvas
<1>1. ASSUME W!ApplyNewCanvas PROVE DeskInv'
  <2>1. canvas' \in 1 .. Cap
    BY <1>1, CanvasInCap DEF W!ApplyNewCanvas, DeskInv
  <2>2. autoGap' \in BOOLEAN
    BY <1>1 DEF W!ApplyNewCanvas
  <2>3. viewCrop' \in Rects \cup {Unset} /\ source' \in Rects \cup {Unset}
    BY <1>1, ContentIsRect DEF W!ApplyNewCanvas, DeskInv, DeskTyped
  <2>4. DeskTyped'
    BY <1>1, <2>1, <2>2, <2>3 DEF W!ApplyNewCanvas, DeskInv, DeskTyped
  <2>5. CursorShown'
    BY <1>1 DEF W!ApplyNewCanvas, DeskInv, CursorShown
  <2>6. SizeAsked'
    BY <1>1 DEF W!ApplyNewCanvas, DeskInv, SizeAsked, W!Request
  <2>7. autoGap' <=> autoGap \/ (mode = "all" /\ spawned /\ views = {} /\ W!ContentRect # Unset)
    BY <1>1 DEF W!ApplyNewCanvas
  <2>8. WindowsShow'
    <3>1. CASE autoGap'
      <4>1. viewCrop' = W!ContentRect
        BY <1>1, <3>1 DEF W!ApplyNewCanvas
      <4> QED
        BY <1>0, <1>1, <2>7, <3>1, <4>1 DEF W!ApplyNewCanvas, DeskInv, WindowsShow
    <3>2. CASE ~autoGap'
      <4>1. viewCrop' = viewCrop
        BY <1>1, <3>2 DEF W!ApplyNewCanvas
      <4> QED
        BY <1>0, <1>1, <2>7, <3>2, <4>1 DEF W!ApplyNewCanvas, DeskInv, WindowsShow
    <3> QED
      BY <3>1, <3>2
  <2> QED
    BY <2>4, <2>5, <2>6, <2>8 DEF DeskInv
<1>2. ASSUME W!SameCanvas PROVE DeskInv'
  <2>1. DeskTyped'
    BY <1>2 DEF W!SameCanvas, DeskInv, DeskTyped
  <2> QED
    BY <1>0, <1>2, <2>1 DEF W!SameCanvas, DeskInv, CursorShown, SizeAsked, WindowsShow
<1> QED
  BY <1>1, <1>2

(* The windows of the displays, and the presenting. *)
LEMMA DeskShows ==
  ASSUME DeskInv,
         W!SpawnWindows \/ W!ReapWindows \/ \E tiles \in BOOLEAN : W!UploadAndPresent(tiles)
  PROVE  DeskInv'
<1> USE DEF W!sessionSide, W!sizeVars, W!cropVars, W!cursorVars, W!history, W!outside, W!At
<1>0. W!CanvasDims' = W!CanvasDims /\ W!ContentRect' = W!ContentRect
  BY SameSession DEF W!SpawnWindows, W!ReapWindows, W!UploadAndPresent
<1>1. ASSUME W!SpawnWindows PROVE DeskInv'
  <2>1. Len(rects) \in Nat \ {0}
    BY <1>1, LenProperties, EmptySeq DEF W!SpawnWindows, DeskInv, DeskTyped
  <2>2. rects[1] \in Rects /\ rects[1] \in W!SpawnViews /\ W!SpawnViews \subseteq Rects
    BY <2>1 DEF W!SpawnViews, DeskInv, DeskTyped
  <2>3. ~spawned /\ views = {} /\ viewCrop = Unset /\ ~autoGap
    BY <1>1 DEF W!SpawnWindows, DeskInv, WindowsShow
  <2>4. CASE Len(rects) > 1
    <3>1. /\ dynamic' = FALSE /\ viewCrop' = rects[1] /\ views' = W!SpawnViews
          /\ UNCHANGED <<autoGap, source>> /\ spawned' = TRUE
      <4>1. Len(rects) # 1
        <5>1. \A n \in Nat : n > 1 => n # 1
          OBVIOUS
        <5> QED
          BY <2>1, <2>4, <5>1
      <4> QED
        BY <1>1, <4>1 DEF W!SpawnWindows
    <3>2. DeskTyped'
      BY <1>1, <2>2, <3>1 DEF W!SpawnWindows, DeskInv, DeskTyped
    <3>3. CursorShown' /\ SizeAsked'
      BY <1>1, <3>1 DEF W!SpawnWindows, DeskInv, CursorShown, SizeAsked
    <3>4. WindowsShow'
      BY <2>2, <2>3, <3>1 DEF WindowsShow
    <3> QED
      BY <3>2, <3>3, <3>4 DEF DeskInv
  <2>5. CASE Len(rects) = 1 /\ W!ContentRect # Unset
    <3>1. /\ viewCrop' = W!ContentRect /\ source' = W!ContentRect /\ autoGap' = TRUE
          /\ UNCHANGED <<dynamic, views>> /\ spawned' = TRUE
      BY <1>1, <2>5 DEF W!SpawnWindows
    <3>2. DeskTyped'
      BY <1>1, <3>1, ContentIsRect DEF W!SpawnWindows, DeskInv, DeskTyped
    <3>3. CursorShown' /\ SizeAsked' /\ WindowsShow'
      BY <1>0, <1>1, <2>3, <3>1
         DEF W!SpawnWindows, DeskInv, CursorShown, SizeAsked, WindowsShow
    <3> QED
      BY <3>2, <3>3 DEF DeskInv
  <2>6. CASE Len(rects) = 1 /\ W!ContentRect = Unset
    <3>1. UNCHANGED <<dynamic, viewCrop, views, autoGap, source>> /\ spawned' = TRUE
      BY <1>1, <2>6 DEF W!SpawnWindows
    <3>2. DeskTyped'
      BY <1>1, <3>1 DEF W!SpawnWindows, DeskInv, DeskTyped
    <3>3. CursorShown' /\ SizeAsked' /\ WindowsShow'
      BY <1>0, <1>1, <2>3, <2>6, <3>1
         DEF W!SpawnWindows, DeskInv, CursorShown, SizeAsked, WindowsShow
    <3> QED
      BY <3>2, <3>3 DEF DeskInv
  <2> QED
    BY <1>1, <2>4, <2>5, <2>6 DEF W!SpawnWindows
<1>2. ASSUME W!ReapWindows PROVE DeskInv'
  <2>1. views' \subseteq views /\ (views # {} => viewCrop \in views')
    BY <1>2 DEF W!ReapWindows, DeskInv, WindowsShow
  <2>2. DeskTyped'
    BY <1>2, <2>1 DEF W!ReapWindows, DeskInv, DeskTyped
  <2>3. CursorShown' /\ SizeAsked'
    BY <1>2 DEF W!ReapWindows, DeskInv, CursorShown, SizeAsked
  <2>4. WindowsShow'
    BY <1>0, <1>2, <2>1 DEF W!ReapWindows, DeskInv, WindowsShow
  <2> QED
    BY <2>2, <2>3, <2>4 DEF DeskInv
<1>3. ASSUME NEW tiles \in BOOLEAN, W!UploadAndPresent(tiles) PROVE DeskInv'
  <2>1. firstSeen' \in BOOLEAN
    BY <1>3 DEF W!UploadAndPresent
  <2>2. source' \in Rects \cup {Unset}
    <3>1. rects # <<>> => rects[1] \in Rects
      BY LenProperties, EmptySeq DEF DeskInv, DeskTyped
    <3> QED
      BY <1>3, <3>1 DEF W!UploadAndPresent, W!AssertCrop, DeskInv, DeskTyped
  <2>3. cropApplied' \in BOOLEAN /\ dirty' \in BOOLEAN
    BY <1>3 DEF W!UploadAndPresent, W!AssertCrop, DeskInv, DeskTyped
  <2>4. DeskTyped'
    BY <1>3, <2>1, <2>2, <2>3 DEF W!UploadAndPresent, DeskInv, DeskTyped
  <2>5. CursorShown'
    BY <1>3 DEF W!UploadAndPresent, DeskInv, CursorShown
  <2>6. SizeAsked' /\ WindowsShow'
    BY <1>0, <1>3 DEF W!UploadAndPresent, DeskInv, SizeAsked, WindowsShow
  <2> QED
    BY <2>4, <2>5, <2>6 DEF DeskInv
<1> QED
  BY <1>1, <1>2, <1>3

(* Every step of the desktop keeps what its windows show in step with the  *)
(* layout that came last.                                                  *)
LEMMA DeskStep == ASSUME DeskInv, [W!DeskNext]_deskVars PROVE DeskInv'
<1>1. ASSUME UNCHANGED deskVars PROVE DeskInv'
  <2>1. UNCHANGED <<rects, runtime, negotiated, laying, cursorSlot, mode, dynamic, winSize, guard,
                    pendSize, canvas, source, viewCrop, autoGap, spawned, views>>
    BY <1>1 DEF deskVars
  <2>2. UNCHANGED <<cropApplied, shape, overlay, hidden, dirty, drawn, pointer, firstSeen, deskPc,
                    toServer, toViewer, shapes, askedFor, resynced, staleCrop>>
    BY <1>1 DEF deskVars
  <2>3. W!CanvasDims' = W!CanvasDims /\ W!ContentRect' = W!ContentRect
    BY <2>1, SameSession
  <2>4. DeskTyped'
    BY <2>1, <2>2 DEF DeskInv, DeskTyped
  <2> QED
    BY <2>1, <2>2, <2>3, <2>4 DEF DeskInv, CursorShown, SizeAsked, WindowsShow
<1> QED
  BY <1>1, DeskOutside, DeskLayout, DeskPolls, DeskCanvas, DeskShows DEF W!DeskNext, W!Loop

(* What the run checks of the desktop.                                     *)
LEMMA DeskHolds == DeskInv => DesktopFollows
<1> SUFFICES ASSUME DeskInv PROVE DesktopFollows
  OBVIOUS
<1>1. W!DeskTypeOK
  BY DEF DeskInv, DeskTyped, W!DeskTypeOK
<1>2. W!PointerVisible
  BY DEF DeskInv, CursorShown, W!PointerVisible, W!NoShape
<1>3. W!FollowsAtRest
  BY DEF DeskInv, CursorShown, SizeAsked, WindowsShow, W!FollowsAtRest, W!AtRest
<1> QED
  BY <1>1, <1>2, <1>3 DEF DesktopFollows

(* A pointer is always to be seen, and once the loop has caught up, the    *)
(* host was asked for the size the window has, the cursor that is drawn is *)
(* the last, and one window shows what the display covers (app.py).        *)
THEOREM DesktopCatchesUp == AllSpec => []DesktopFollows
<1>1. AllInit => DeskInv
  BY DeskInitially DEF AllInit
<1>2. DeskInv /\ [AllNext]_allVars => DeskInv'
  BY EachDecoderView, DeskStep
<1> QED
  BY <1>1, <1>2, DeskHolds, PTL DEF AllSpec


-----------------------------------------------------------------------------
(* The desktop's pointer *)

(* The types of the pointer view.                                          *)
PointerTyped ==
  /\ mask \in [Panes -> SUBSET Buttons] /\ known \in [Panes -> BOOLEAN]
  /\ accum \in [Panes -> Int] /\ turned \in [Panes -> Int]
  /\ ticks \in [Panes -> Int] /\ spilled \in [Panes -> Int]
  /\ atLimit \in [Panes -> BOOLEAN]
  /\ held \in SUBSET Buttons /\ capture \in Panes \cup {NoPane}
  /\ hostButtons \in SUBSET Buttons
  /\ \A w \in Panes : P!Abs(accum[w]) <= WheelCap * Tick

(* The buttons are down in the window the drag began in, and in no other.  *)
DragsInOne ==
  /\ capture = NoPane <=> held = {}
  /\ \A w \in Panes : mask[w] = IF w = capture THEN held ELSE {}

(* The inductive invariant of the pointer.                                 *)
PointerInv ==
  PointerTyped /\ DragsInOne /\ P!ButtonsAgree /\ P!WheelKept

(* The bounds of the pointer, one by one.                                  *)
LEMMA PointerBounds ==
  /\ Motions \subseteq Nat \ {0} /\ Tick \in Nat \ {0} /\ EmitMax \in Nat \ {0}
  /\ WheelCap \in Nat \ {0} /\ NoPane \notin Panes
BY DesktopAssumption DEF P!PointerAssumption

(* A multiple of a natural number. *)
LEMMA Multiple == \A m, n \in Nat : m * n \in Nat
OBVIOUS

(* No button is down and no tick is owed at the start.                     *)
LEMMA PointerInitially == P!PointerInit => PointerInv
<1> SUFFICES ASSUME P!PointerInit PROVE PointerInv
  OBVIOUS
<1>1. \A w \in Panes : /\ accum[w] = 0 /\ turned[w] = 0 /\ ticks[w] = 0 /\ spilled[w] = 0
                       /\ mask[w] = {} /\ atLimit[w] = FALSE
  BY DEF P!PointerInit
<1>2. /\ accum \in [Panes -> Int] /\ turned \in [Panes -> Int]
      /\ ticks \in [Panes -> Int] /\ spilled \in [Panes -> Int]
      /\ mask \in [Panes -> SUBSET Buttons]
  BY DEF P!PointerInit
<1>3. known \in [Panes -> BOOLEAN] /\ atLimit \in [Panes -> BOOLEAN]
  BY DEF P!PointerInit
<1>4. WheelCap * Tick \in Nat
  BY PointerBounds, Multiple
<1>5. \A w \in Panes : P!Abs(accum[w]) <= WheelCap * Tick
  BY <1>1, <1>4 DEF P!Abs
<1>6. PointerTyped
  BY <1>2, <1>3, <1>5 DEF P!PointerInit, PointerTyped
<1>7. DragsInOne
  BY <1>1, PointerBounds DEF P!PointerInit, DragsInOne
<1>8. P!ButtonsAgree
  BY DEF P!PointerInit, P!ButtonsAgree
<1>9. P!WheelKept
  <2>1. \A w \in Panes : turned[w] = ticks[w] * Tick + spilled[w] + accum[w]
    BY <1>1, PointerBounds
  <2>2. \A w \in Panes : ~(P!Abs(accum[w]) >= Tick)
    BY <1>1, PointerBounds DEF P!Abs
  <2> QED
    BY <2>1, <2>2 DEF P!WheelKept
<1> QED
  BY <1>6, <1>7, <1>8, <1>9 DEF PointerInv

(* What a wheel has pending is left alone with its history.                *)
LEMMA WheelLeft ==
  ASSUME PointerInv, UNCHANGED P!wheel
  PROVE  P!WheelKept' /\ \A w \in Panes : P!Abs(accum[w])' <= WheelCap * Tick
BY DEF PointerInv, PointerTyped, P!wheel, P!WheelKept, P!Abs

(* A window that has a position tells of all buttons. *)
LEMMA Told ==
  ASSUME PointerInv, NEW w \in Panes, NEW buttons \in SUBSET Buttons, P!Tell(w, buttons)
  PROVE  /\ hostButtons' \in SUBSET Buttons
         /\ known'[w] /\ ~shut => hostButtons' = buttons
         /\ ~(known'[w] /\ ~shut) => hostButtons' = hostButtons /\ cut' = cut
BY DEF P!Tell, PointerInv, PointerTyped

(* The pointer moves, in a window or while a button drags it out of one.   *)
LEMMA PointerMoves == ASSUME PointerInv, NEW w \in Panes, P!Move(w) PROVE PointerInv'
<1>1. PICK there \in BOOLEAN : known' = [known EXCEPT ![w] = there]
  BY DEF P!Move
<1>2. /\ UNCHANGED <<mask, shut, held, capture>> /\ UNCHANGED P!wheel
      /\ P!Tell(w, mask[w]) /\ capture \in {w, NoPane}
  BY DEF P!Move, P!Over
<1>3. mask[w] \in SUBSET Buttons /\ known' \in [Panes -> BOOLEAN]
  BY <1>1 DEF PointerInv, PointerTyped
<1>4. P!WheelKept' /\ \A v \in Panes : P!Abs(accum[v])' <= WheelCap * Tick
  BY <1>2, WheelLeft
<1>5. PointerTyped'
  BY <1>2, <1>3, <1>4, Told DEF PointerInv, PointerTyped, P!wheel
<1>6. DragsInOne'
  BY <1>2 DEF PointerInv, DragsInOne
<1>7. mask[w] = held
  BY <1>2 DEF PointerInv, DragsInOne
<1>8. P!ButtonsAgree'
  <2>1. \A v \in Panes \ {w} : known'[v] = known[v]
    BY <1>1 DEF PointerInv, PointerTyped
  <2>2. CASE known'[w] /\ ~shut
    <3>1. hostButtons' = held
      BY <1>2, <1>3, <1>7, <2>2, Told
    <3> QED
      BY <1>2, <3>1 DEF P!ButtonsAgree, PointerInv, DragsInOne
  <2>3. CASE shut
    BY <1>2, <2>3 DEF P!ButtonsAgree
  <2>4. CASE ~known'[w]
    BY <1>2, <2>4, PointerBounds DEF P!ButtonsAgree
  <2> QED
    BY <2>2, <2>3, <2>4
<1> QED
  BY <1>4, <1>5, <1>6, <1>8 DEF PointerInv

(* A button goes down or up.                                               *)
LEMMA PointerClicks ==
  ASSUME PointerInv, NEW w \in Panes, NEW b \in Buttons, NEW press \in BOOLEAN,
         P!OnMouseButton(w, b, press)
  PROVE  PointerInv'
<1>1. /\ UNCHANGED <<shut, known>> /\ UNCHANGED P!wheel
      /\ held' = (IF press THEN held \cup {b} ELSE held \ {b})
      /\ capture' = (IF held' = {} THEN NoPane ELSE w)
      /\ mask' = [mask EXCEPT ![w] = IF press THEN @ \cup {b} ELSE @ \ {b}]
      /\ P!Tell(w, mask'[w]) /\ capture \in {w, NoPane}
  BY DEF P!OnMouseButton, P!Over
<1>2. held' \in SUBSET Buttons /\ mask' \in [Panes -> SUBSET Buttons]
  BY <1>1 DEF PointerInv, PointerTyped
<1>3. mask[w] = held /\ \A v \in Panes \ {w} : mask[v] = {}
  BY <1>1, PointerBounds DEF PointerInv, DragsInOne
<1>4. mask'[w] = held' /\ \A v \in Panes \ {w} : mask'[v] = {}
  BY <1>1, <1>3 DEF PointerInv, PointerTyped
<1>5. P!WheelKept' /\ \A v \in Panes : P!Abs(accum[v])' <= WheelCap * Tick
  BY <1>1, WheelLeft
<1>6. PointerTyped'
  BY <1>1, <1>2, <1>4, <1>5, Told DEF PointerInv, PointerTyped, P!wheel
<1>7. DragsInOne'
  BY <1>1, <1>4, PointerBounds DEF DragsInOne
<1>8. P!ButtonsAgree'
  <2>1. CASE known'[w] /\ ~shut
    <3>1. hostButtons' = held'
      BY <1>1, <1>2, <1>4, <2>1, Told
    <3> QED
      BY <1>7, <3>1 DEF P!ButtonsAgree, DragsInOne
  <2>2. CASE shut
    BY <1>1, <2>2 DEF P!ButtonsAgree
  <2>3. CASE ~known'[w]
    BY <1>1, <2>3, PointerBounds DEF P!ButtonsAgree
  <2> QED
    BY <2>1, <2>2, <2>3
<1> QED
  BY <1>5, <1>6, <1>7, <1>8 DEF PointerInv

(* A window loses the focus: its buttons are let go.                       *)
LEMMA PointerUnfocused == ASSUME PointerInv, P!FocusLost PROVE PointerInv'
<1>1. /\ UNCHANGED <<shut, known>> /\ UNCHANGED P!wheel
      /\ capture # NoPane /\ held' = {} /\ capture' = NoPane
      /\ mask' = [mask EXCEPT ![capture] = @ \ held]
      /\ P!Tell(capture, mask'[capture])
  BY DEF P!FocusLost
<1>2. capture \in Panes /\ \A v \in Panes \ {capture} : mask[v] = {}
  BY <1>1 DEF PointerInv, PointerTyped, DragsInOne
<1>3. \A v \in Panes : mask'[v] = {}
  BY <1>1, <1>2 DEF PointerInv, PointerTyped, DragsInOne
<1>4. mask' \in [Panes -> SUBSET Buttons]
  BY <1>1, <1>2 DEF PointerInv, PointerTyped
<1>5. P!WheelKept' /\ \A v \in Panes : P!Abs(accum[v])' <= WheelCap * Tick
  BY <1>1, WheelLeft
<1>6. hostButtons' \in SUBSET Buttons /\ (known'[capture] /\ ~shut => hostButtons' = {})
  BY <1>1, <1>2, <1>3, Told
<1>7. PointerTyped'
  BY <1>1, <1>4, <1>5, <1>6 DEF PointerInv, PointerTyped, P!wheel
<1>8. DragsInOne'
  BY <1>1, <1>3 DEF DragsInOne
<1>9. P!ButtonsAgree'
  BY <1>1, <1>2, <1>6 DEF P!ButtonsAgree
<1> QED
  BY <1>5, <1>7, <1>8, <1>9 DEF PointerInv

-----------------------------------------------------------------------------
(* The wheel's arithmetic *)

(* What is left of a division by a tick is less than one.                  *)
LEMMA TickDivides ==
  ASSUME NEW t \in Nat \ {0}, NEW n \in Nat
  PROVE  n \div t \in Nat /\ n - (n \div t) * t \in 0 .. t - 1
OBVIOUS

(* What the wheel has turned is the ticks that were sent and a rest of     *)
(* less than one.                                                          *)
LEMMA WholeTicks ==
  ASSUME NEW n \in Int
  PROVE  /\ P!Whole(n) \in Int
         /\ P!Abs(n - P!Whole(n) * Tick) < Tick
         /\ P!Abs(n - P!Whole(n) * Tick) <= P!Abs(n)
<1>1. Tick \in Nat \ {0}
  BY PointerBounds
<1>2. CASE n < 0
  <2>1. -n \in Nat
    BY <1>2
  <2>2. (-n) \div Tick \in Nat /\ (-n) - ((-n) \div Tick) * Tick \in 0 .. Tick - 1
    BY <1>1, <2>1, TickDivides
  <2> QED
    BY <1>1, <1>2, <2>2 DEF P!Whole, P!Abs
<1>3. CASE n >= 0
  <2>1. n \in Nat
    BY <1>3
  <2>2. n \div Tick \in Nat /\ n - (n \div Tick) * Tick \in 0 .. Tick - 1
    BY <1>1, <2>1, TickDivides
  <2> QED
    BY <1>1, <1>3, <2>2 DEF P!Whole, P!Abs
<1> QED
  BY <1>2, <1>3


(* A smaller multiple is smaller. *)
LEMMA MultiplesGrow ==
  ASSUME NEW t \in Nat, NEW a \in Nat, NEW b \in Nat, a <= b
  PROVE  a * t <= b * t /\ a * t \in Nat
<1>1. PICK d \in Nat : b = a + d
  <2>1. b - a \in Nat /\ b = a + (b - a)
    OBVIOUS
  <2> QED
    BY <2>1
<1>2. (a + d) * t = a * t + d * t /\ a * t \in Nat /\ d * t \in Nat
  OBVIOUS
<1> QED
  BY <1>1, <1>2

(* What an event of the wheel sends of what is pending, and leaves.        *)
LEMMA TicksSent ==
  ASSUME NEW n \in Int
  PROVE  LET emit == P!Between(-EmitMax, P!Whole(n), EmitMax)
             left == n - emit * Tick
         IN  /\ emit \in Int /\ left \in Int
             /\ P!Abs(left) <= P!Abs(n)
             /\ P!Abs(left) >= Tick => P!Abs(emit) = EmitMax
<1> DEFINE whole == P!Whole(n)
           emit == P!Between(-EmitMax, whole, EmitMax)
           left == n - emit * Tick
<1>0. Tick \in Nat \ {0} /\ EmitMax \in Nat \ {0}
  BY PointerBounds
<1>1. whole \in Int /\ P!Abs(n - whole * Tick) < Tick /\ P!Abs(n - whole * Tick) <= P!Abs(n)
  BY WholeTicks
<1>2. CASE emit = whole
  BY <1>0, <1>1, <1>2 DEF P!Abs
<1>3. CASE whole > EmitMax
  <2>1. emit = EmitMax
    BY <1>0, <1>1, <1>3 DEF P!Between
  <2>2. n \in Nat /\ whole * Tick <= n
    <3>1. n >= 0
      <4>1. CASE n < 0
        <5>1. -n \in Nat
          BY <4>1
        <5>2. (-n) \div Tick \in Nat
          BY ONLY <1>0, <5>1, TickDivides
        <5>3. whole = -((-n) \div Tick)
          BY <4>1 DEF P!Whole, P!Abs
        <5> QED
          BY <1>0, <1>3, <5>2, <5>3
      <4> QED
        BY <4>1
    <3>2. n \in Nat
      BY <3>1
    <3>3. whole = n \div Tick
      BY <3>1 DEF P!Whole
    <3>4. n - (n \div Tick) * Tick \in 0 .. Tick - 1
      BY ONLY <1>0, <3>2, TickDivides
    <3>5. (n \div Tick) * Tick \in Int
      BY ONLY <1>0, <3>2
    <3>6. (n \div Tick) * Tick <= n
      BY <1>0, <3>2, <3>4, <3>5
    <3> QED
      BY <3>2, <3>3, <3>6
  <2>3. EmitMax * Tick <= whole * Tick /\ EmitMax * Tick \in Nat
    <3>1. whole \in Nat /\ EmitMax <= whole
      BY <1>0, <1>1, <1>3
    <3> QED
      BY ONLY <1>0, <3>1, MultiplesGrow
  <2>4. left = n - EmitMax * Tick
    BY <2>1
  <2>5. whole * Tick \in Int
    BY <1>0, <1>1
  <2>6. left \in Nat /\ left <= n
    BY <2>2, <2>3, <2>4, <2>5
  <2>7. P!Abs(left) = left /\ P!Abs(n) = n /\ P!Abs(emit) = EmitMax
    BY <1>0, <2>1, <2>2, <2>6 DEF P!Abs
  <2> HIDE DEF left, emit, whole
  <2> QED
    BY <1>0, <2>1, <2>6, <2>7 DEF left, emit, whole
<1>4. CASE whole < -EmitMax
  <2>1. emit = -EmitMax
    BY <1>0, <1>1, <1>4 DEF P!Between
  <2>2. -n \in Nat /\ (-whole) * Tick <= -n
    <3>1. n < 0
      <4>1. CASE n >= 0
        <5>1. n \in Nat
          BY <4>1
        <5>2. n \div Tick \in Nat
          BY ONLY <1>0, <5>1, TickDivides
        <5>3. whole = n \div Tick
          BY <4>1 DEF P!Whole, P!Abs
        <5> QED
          BY <1>0, <1>4, <5>2, <5>3
      <4> QED
        BY <4>1
    <3>2. -n \in Nat
      BY <3>1
    <3>3. -whole = (-n) \div Tick
      <4>1. (-n) \div Tick \in Nat
        BY ONLY <1>0, <3>2, TickDivides
      <4>2. whole = -((-n) \div Tick)
        BY <3>1 DEF P!Whole, P!Abs
      <4> QED
        BY <4>1, <4>2
    <3>4. (-n) - ((-n) \div Tick) * Tick \in 0 .. Tick - 1
      BY ONLY <1>0, <3>2, TickDivides
    <3>5. ((-n) \div Tick) * Tick \in Int
      BY ONLY <1>0, <3>2
    <3>6. ((-n) \div Tick) * Tick <= -n
      BY <1>0, <3>2, <3>4, <3>5
    <3> QED
      BY <3>2, <3>3, <3>6
  <2>3. EmitMax * Tick <= (-whole) * Tick /\ EmitMax * Tick \in Nat
    <3>1. -whole \in Nat /\ EmitMax <= -whole
      BY <1>0, <1>1, <1>4
    <3> QED
      BY ONLY <1>0, <3>1, MultiplesGrow
  <2>4. left = n + EmitMax * Tick
    BY <1>0, <2>1
  <2>5. (-whole) * Tick \in Int
    BY <1>0, <1>1
  <2>6. -left \in Nat /\ -left <= -n /\ left \in Int
    BY <2>2, <2>3, <2>4, <2>5
  <2>7. P!Abs(left) = -left /\ P!Abs(n) = -n /\ P!Abs(emit) = EmitMax
    BY <1>0, <2>1, <2>2, <2>6 DEF P!Abs
  <2> HIDE DEF left, emit, whole
  <2> QED
    BY <1>0, <2>1, <2>6, <2>7 DEF left, emit, whole
<1> QED
  BY <1>0, <1>1, <1>2, <1>3, <1>4 DEF P!Between

(* The wheel turns.                                                        *)
LEMMA PointerScrolls ==
  ASSUME PointerInv, NEW w \in Panes, NEW motion \in Int, P!OnScroll(w, motion)
  PROVE  PointerInv'
<1> DEFINE sum == accum[w] + motion
           pend == P!Between(-WheelCap * Tick, sum, WheelCap * Tick)
           emit == P!Between(-EmitMax, P!Whole(pend), EmitMax)
           left == pend - emit * Tick
<1>1. /\ accum' = [accum EXCEPT ![w] = left]
      /\ turned' = [turned EXCEPT ![w] = @ + motion]
      /\ spilled' = [spilled EXCEPT ![w] = @ + (sum - pend)]
      /\ atLimit' = [atLimit EXCEPT ![w] = P!Abs(emit) = EmitMax]
      /\ ticks' = [ticks EXCEPT ![w] = @ + emit]
      /\ P!ScrollEvent(emit)
  BY DEF P!OnScroll
<1>2. UNCHANGED <<mask, known, shut, held, capture>>
  BY DEF P!OnScroll
<1>3. sum \in Int
  BY DEF PointerInv, PointerTyped
<1>4. WheelCap * Tick \in Nat /\ -WheelCap * Tick = -(WheelCap * Tick)
  BY PointerBounds, Multiple
<1>5. pend \in Int /\ P!Abs(pend) <= WheelCap * Tick
  <2> HIDE DEF sum
  <2> QED
    BY <1>3, <1>4 DEF P!Between, P!Abs
<1> HIDE DEF sum, pend
<1>6. /\ emit \in Int /\ left \in Int /\ P!Abs(left) <= P!Abs(pend)
      /\ P!Abs(left) >= Tick => P!Abs(emit) = EmitMax
  BY <1>5, TicksSent
<1>7. left = pend - emit * Tick
  OBVIOUS
<1> HIDE DEF emit, left
<1>8. P!Abs(left) <= WheelCap * Tick
  <2>1. P!Abs(left) \in Nat /\ P!Abs(pend) \in Nat
    BY <1>5, <1>6 DEF P!Abs
  <2> QED
    BY <1>4, <1>5, <1>6, <2>1
<1>9. /\ accum' \in [Panes -> Int] /\ turned' \in [Panes -> Int]
      /\ spilled' \in [Panes -> Int] /\ ticks' \in [Panes -> Int]
  BY <1>1, <1>3, <1>5, <1>6 DEF PointerInv, PointerTyped
<1>10. /\ accum'[w] = left /\ turned'[w] = turned[w] + motion
       /\ spilled'[w] = spilled[w] + (sum - pend) /\ ticks'[w] = ticks[w] + emit
  BY <1>1 DEF PointerInv, PointerTyped
<1>11. \A v \in Panes \ {w} :
         /\ accum'[v] = accum[v] /\ turned'[v] = turned[v] /\ spilled'[v] = spilled[v]
         /\ ticks'[v] = ticks[v] /\ atLimit'[v] = atLimit[v]
  BY <1>1 DEF PointerInv, PointerTyped
<1>12. atLimit' \in [Panes -> BOOLEAN]
  <2>1. (P!Abs(emit) = EmitMax) \in BOOLEAN
    OBVIOUS
  <2> QED
    BY <1>1, <2>1 DEF PointerInv, PointerTyped
<1>13. P!Abs(emit) = EmitMax => atLimit'[w]
  BY <1>1 DEF PointerInv, PointerTyped
<1>14. hostButtons' \in SUBSET Buttons
  BY <1>1 DEF P!ScrollEvent, PointerInv, PointerTyped
<1>15. \A v \in Panes : P!Abs(accum'[v]) <= WheelCap * Tick
  BY <1>8, <1>10, <1>11 DEF PointerInv, PointerTyped
<1>16. PointerTyped'
  BY <1>2, <1>9, <1>12, <1>14, <1>15 DEF PointerInv, PointerTyped, P!Abs
<1>17. DragsInOne'
  BY <1>2 DEF PointerInv, DragsInOne
<1>18. P!ButtonsAgree'
  <2>1. CASE emit # 0 /\ ~shut
    <3>1. hostButtons' = {} /\ cut' = (held # {})
      BY <1>1, <2>1 DEF P!ScrollEvent
    <3>2. ~cut' => held = {}
      BY <3>1
    <3> QED
      BY <1>2, <3>1, <3>2 DEF P!ButtonsAgree
  <2>2. CASE ~(emit # 0 /\ ~shut)
    <3>1. hostButtons' = hostButtons /\ cut' = cut
      BY <1>1, <2>2 DEF P!ScrollEvent
    <3> QED
      BY <1>2, <3>1 DEF PointerInv, P!ButtonsAgree
  <2> QED
    BY <2>1, <2>2
<1>19. turned'[w] = ticks'[w] * Tick + spilled'[w] + accum'[w]
  <2>1. turned[w] = ticks[w] * Tick + spilled[w] + accum[w]
    BY DEF PointerInv, P!WheelKept
  <2>2. /\ ticks[w] \in Int /\ spilled[w] \in Int /\ accum[w] \in Int /\ turned[w] \in Int
        /\ Tick \in Int
    BY PointerBounds DEF PointerInv, PointerTyped
  <2>3. sum = accum[w] + motion
    BY DEF sum
  <2>4. (ticks[w] + emit) * Tick = ticks[w] * Tick + emit * Tick
        /\ ticks[w] * Tick \in Int /\ emit * Tick \in Int
    BY ONLY <1>6, <2>2
  <2>5. \A a, b, c, d, m, s, p \in Int :
          a + m = (b + d) + (c + (s - p)) + (p - d) <=> a + m = b + c + s
    OBVIOUS
  <2>6. turned'[w] = turned[w] + motion /\ ticks'[w] * Tick = ticks[w] * Tick + emit * Tick
    BY <1>10, <2>4
  <2>7. turned[w] + motion = ticks[w] * Tick + spilled[w] + sum
    BY <2>1, <2>2, <2>3, <2>4
  <2>8. turned[w] + motion
          = (ticks[w] * Tick + emit * Tick) + (spilled[w] + (sum - pend)) + (pend - emit * Tick)
    BY <1>3, <1>5, <2>2, <2>4, <2>5, <2>7
  <2> QED
    BY <1>7, <1>10, <2>6, <2>8
<1>20. \A v \in Panes : turned'[v] = ticks'[v] * Tick + spilled'[v] + accum'[v]
  BY <1>11, <1>19 DEF PointerInv, P!WheelKept
<1>21. \A v \in Panes : P!Abs(accum'[v]) >= Tick => atLimit'[v]
  <2>1. P!Abs(accum'[w]) >= Tick => atLimit'[w]
    BY <1>6, <1>10, <1>13
  <2>2. \A v \in Panes \ {w} : P!Abs(accum[v]) >= Tick => atLimit[v]
    BY DEF PointerInv, P!WheelKept
  <2> QED
    BY <1>11, <2>1, <2>2
<1>22. P!WheelKept'
  BY <1>20, <1>21 DEF P!WheelKept, P!Abs
<1> QED
  BY <1>16, <1>17, <1>18, <1>22 DEF PointerInv

(* Every step of the pointer keeps its invariant.                          *)
LEMMA PointerStep == ASSUME PointerInv, [P!PointerNext]_pointerVars PROVE PointerInv'
<1>1. ASSUME P!CloseInput PROVE PointerInv'
  <2>1. UNCHANGED P!wheel /\ shut'
    BY <1>1 DEF P!CloseInput
  <2>2. P!WheelKept' /\ \A v \in Panes : P!Abs(accum[v])' <= WheelCap * Tick
    BY <2>1, WheelLeft
  <2>3. PointerTyped' /\ DragsInOne' /\ P!ButtonsAgree'
    BY <1>1, <2>1, <2>2
       DEF P!CloseInput, P!wheel, PointerInv, PointerTyped, DragsInOne, P!ButtonsAgree
  <2> QED
    BY <2>2, <2>3 DEF PointerInv
<1>2. ASSUME UNCHANGED pointerVars PROVE PointerInv'
  <2>1. UNCHANGED P!wheel
    BY <1>2 DEF pointerVars, P!wheel
  <2>2. P!WheelKept' /\ \A v \in Panes : P!Abs(accum[v])' <= WheelCap * Tick
    BY <2>1, WheelLeft
  <2>3. PointerTyped' /\ DragsInOne' /\ P!ButtonsAgree'
    BY <1>2, <2>2
       DEF pointerVars, PointerInv, PointerTyped, DragsInOne, P!ButtonsAgree
  <2> QED
    BY <2>2, <2>3 DEF PointerInv
<1>3. ASSUME NEW w \in Panes, NEW motion \in Motions,
             P!OnScroll(w, motion) \/ P!OnScroll(w, -motion)
      PROVE  PointerInv'
  <2>1. motion \in Int /\ -motion \in Int
    BY PointerBounds
  <2> QED
    BY <1>3, <2>1, PointerScrolls
<1> QED
  BY <1>1, <1>2, <1>3, PointerMoves, PointerClicks, PointerUnfocused DEF P!PointerNext


-----------------------------------------------------------------------------
(* The desktop's keyboard *)

(* What the window system queues: a key of a window, or its focus.         *)
KeyEvents ==
  [kind : {"focus"}, win : K!KeyWindows, gained : BOOLEAN] \cup
  [kind : {"key"}, win : K!KeyWindows, key : K!KeyNames, down : BOOLEAN, held : BOOLEAN]

(* The types of the keyboard view.                                         *)
KeysTyped ==
  /\ remap \in BOOLEAN /\ grabbed \in BOOLEAN /\ modsHeld \in BOOLEAN /\ osCtrl \in BOOLEAN
  /\ gone \in BOOLEAN /\ over \in BOOLEAN
  /\ phys \subseteq K!KeyNames /\ glfwDown \in [K!KeyWindows -> SUBSET K!KeyNames]
  /\ host \subseteq K!KeySyms /\ combo \subseteq K!KeySyms /\ overtaken \subseteq K!KeySyms
  /\ events \in Seq(KeyEvents) /\ foreground \in K!KeyWindows \cup {"away"}

(* What waits in the queue: a window loses the focus or gets it, and a key *)
(* goes up or down in it.                                                  *)
Loses(e, w) == e.kind = "focus" /\ e.win = w /\ ~e.gained

(* The event e tells that w gets the focus,                                *)
Gets(e, w) == e.kind = "focus" /\ e.win = w /\ e.gained

(* that k goes up in w,                                                    *)
GoesUp(e, w, k) == e.kind = "key" /\ e.win = w /\ e.key = k /\ ~e.down

(* or that it goes down.                                                   *)
GoesDown(e, w, k) == e.kind = "key" /\ e.win = w /\ e.key = k /\ e.down

(* Behind place i of the queue, w hears that it lost the focus.            *)
LosesAfter(w, i) == \E j \in DOMAIN events : j > i /\ Loses(events[j], w)

(* Behind place i of the queue w hears of a release of k or of its own     *)
(* loss of the focus.                                                      *)
EndsAfter(w, k, i) ==
  \E j \in DOMAIN events : j > i /\ (Loses(events[j], w) \/ GoesUp(events[j], w, k))

(* The user holds the key in the window, or its release is to come.        *)
LetsGo(w, k, i) == (foreground = w /\ k \in phys) \/ EndsAfter(w, k, i)

(* The keyboard is grabbed for the primary window, or about to be given    *)
(* back.                                                                   *)
GivesBack ==
  /\ grabbed => ~over
  /\ grabbed /\ foreground # "primary" => LosesAfter("primary", 0)
  /\ \A i \in DOMAIN events :
       Gets(events[i], "primary") /\ foreground # "primary" => LosesAfter("primary", i)

(* A press that waits is held, let go later in the queue, or overtaken.    *)
PressesEnd ==
  \A i \in DOMAIN events, w \in K!KeyWindows, k \in K!KeyNames \ {"letter"} :
    GoesDown(events[i], w, k) => K!SymOf(k) \in overtaken \/ LetsGo(w, k, i)

(* Why the host holds a key: the hook sent the modifier and will let go of *)
(* it, or a window sent the key and will.                                  *)
ByHook(s) ==
  /\ s = "ctrl" /\ platform = "win32" /\ grabbed /\ modsHeld
  /\ (foreground = "primary" /\ "ctrl" \in phys) \/ LosesAfter("primary", 0)

(* A window had the key sent, and it hears of its end or the user holds    *)
(* it.                                                                     *)
ByWindow(s) ==
  \E w \in K!KeyWindows : \E k \in glfwDown[w] \ {"letter"} :
    s = K!SymOf(k) /\ LetsGo(w, k, 0)

(* Every key that the host has down has one of the two causes.             *)
HeldForCause ==
  ~gone /\ ~over => \A s \in host \ (combo \cup overtaken) : ByHook(s) \/ ByWindow(s)

(* The inductive invariant of the keyboard.                                *)
KeysInv == KeysTyped /\ GivesBack /\ PressesEnd /\ HeldForCause

(* The names of keys, and what the host calls them. *)
LEMMA KeyNamed ==
  /\ \A k \in K!KeyNames : K!SymOf(k) \in K!KeySyms /\ k \in K!KeySyms
  /\ \A j, k \in K!KeyNames : K!SymOf(j) = K!SymOf(k) => j = k
  /\ \A k \in K!KeyNames : k # "ctrl" => K!SymOf(k) = k
BY DEF K!KeyNames, K!KeySyms, K!SymOf

(* No key is down and nothing is queued at the start.                      *)
LEMMA KeysInitially == K!KeysInit => KeysInv
<1> SUFFICES ASSUME K!KeysInit PROVE KeysInv
  OBVIOUS
<1>1. grabbed \in BOOLEAN
  <2>1. (platform # "none") \in BOOLEAN
    OBVIOUS
  <2> QED
    BY <2>1 DEF K!KeysInit
<1>2. events = <<>> /\ events \in Seq(KeyEvents) /\ DOMAIN events = {}
  BY EmptySeq DEF K!KeysInit
<1>3. KeysTyped
  BY <1>1, <1>2 DEF K!KeysInit, KeysTyped, K!KeyWindows
<1>4. GivesBack
  BY <1>2 DEF K!KeysInit, GivesBack
<1>5. PressesEnd
  BY <1>2 DEF PressesEnd
<1>6. HeldForCause
  BY DEF K!KeysInit, HeldForCause
<1> QED
  BY <1>3, <1>4, <1>5, <1>6 DEF KeysInv

(* The head of the queue is taken: what waits behind it still waits.       *)
LEMMA QueueShifts ==
  ASSUME KeysTyped, events # <<>>, events' = Tail(events)
  PROVE  /\ events[1] = Head(events) /\ events[1] \in KeyEvents /\ 1 \in DOMAIN events
         /\ events' \in Seq(KeyEvents)
         /\ \A i \in DOMAIN events' : i + 1 \in DOMAIN events /\ events'[i] = events[i + 1]
         /\ \A w, i : i \in Nat /\ LosesAfter(w, i + 1) => LosesAfter(w, i)'
         /\ \A w : LosesAfter(w, 0) => Loses(events[1], w) \/ LosesAfter(w, 0)'
         /\ \A w, k, i : i \in Nat /\ EndsAfter(w, k, i + 1) => EndsAfter(w, k, i)'
         /\ \A w, k : EndsAfter(w, k, 0) =>
              Loses(events[1], w) \/ GoesUp(events[1], w, k) \/ EndsAfter(w, k, 0)'
<1>1. /\ events' \in Seq(KeyEvents) /\ Len(events') = Len(events) - 1 /\ Len(events) \in Nat \ {0}
      /\ \A i \in 1 .. Len(events') : events'[i] = events[i + 1]
      /\ Head(events) = events[1] /\ Head(events) \in KeyEvents
  BY HeadTailProperties, LenProperties, EmptySeq DEF KeysTyped
<1>2. DOMAIN events = 1 .. Len(events) /\ DOMAIN events' = 1 .. Len(events')
  BY <1>1, LenProperties DEF KeysTyped
<1>3. \A i \in DOMAIN events' : i + 1 \in DOMAIN events /\ events'[i] = events[i + 1]
  BY <1>1, <1>2
<1>4. \A j \in DOMAIN events : j = 1 \/ (j - 1 \in DOMAIN events' /\ events'[j - 1] = events[j])
  <2> SUFFICES ASSUME NEW j \in DOMAIN events, j # 1
               PROVE  j - 1 \in DOMAIN events' /\ events'[j - 1] = events[j]
    OBVIOUS
  <2>1. j \in Nat /\ j - 1 \in 1 .. Len(events')
    BY <1>1, <1>2
  <2>2. (j - 1) + 1 = j
    BY <2>1
  <2> QED
    BY <1>1, <1>2, <2>1, <2>2
<1>5. \A j \in DOMAIN events : j \in Nat
  BY <1>2
<1>6. ASSUME NEW w, NEW i \in Nat, LosesAfter(w, i + 1) PROVE LosesAfter(w, i)'
  <2>1. PICK j \in DOMAIN events : j > i + 1 /\ Loses(events[j], w)
    BY <1>6 DEF LosesAfter
  <2>2. j - 1 > i /\ j # 1
    BY <1>5, <2>1
  <2>3. j - 1 \in DOMAIN events' /\ events'[j - 1] = events[j]
    BY <1>4, <2>2
  <2> QED
    BY <2>1, <2>2, <2>3 DEF LosesAfter, Loses
<1>7. ASSUME NEW w, LosesAfter(w, 0), ~Loses(events[1], w) PROVE LosesAfter(w, 0)'
  <2>1. PICK j \in DOMAIN events : j > 0 /\ Loses(events[j], w)
    BY <1>7 DEF LosesAfter
  <2>2. j # 1
    BY <1>7, <2>1
  <2>3. j - 1 > 0
    BY <1>5, <2>1, <2>2
  <2>4. j - 1 \in DOMAIN events' /\ events'[j - 1] = events[j]
    BY <1>4, <2>2
  <2> QED
    BY <2>1, <2>3, <2>4 DEF LosesAfter, Loses
<1>8. ASSUME NEW w, NEW k, NEW i \in Nat, EndsAfter(w, k, i + 1) PROVE EndsAfter(w, k, i)'
  <2>1. PICK j \in DOMAIN events :
          j > i + 1 /\ (Loses(events[j], w) \/ GoesUp(events[j], w, k))
    BY <1>8 DEF EndsAfter
  <2>2. j - 1 > i /\ j # 1
    BY <1>5, <2>1
  <2>3. j - 1 \in DOMAIN events' /\ events'[j - 1] = events[j]
    BY <1>4, <2>2
  <2> QED
    BY <2>1, <2>2, <2>3 DEF EndsAfter, Loses, GoesUp
<1>9. ASSUME NEW w, NEW k, EndsAfter(w, k, 0), ~Loses(events[1], w), ~GoesUp(events[1], w, k)
      PROVE  EndsAfter(w, k, 0)'
  <2>1. PICK j \in DOMAIN events : j > 0 /\ (Loses(events[j], w) \/ GoesUp(events[j], w, k))
    BY <1>9 DEF EndsAfter
  <2>2. j # 1
    BY <1>9, <2>1
  <2>3. j - 1 > 0
    BY <1>5, <2>1, <2>2
  <2>4. j - 1 \in DOMAIN events' /\ events'[j - 1] = events[j]
    BY <1>4, <2>2
  <2> QED
    BY <2>1, <2>3, <2>4 DEF EndsAfter, Loses, GoesUp
<1> QED
  BY <1>1, <1>2, <1>3, <1>6, <1>7, <1>8, <1>9

(* More comes into the queue: what waits there still waits.                *)
LEMMA QueueGrows ==
  ASSUME KeysTyped, NEW t \in Seq(KeyEvents), events' = events \o t
  PROVE  /\ events' \in Seq(KeyEvents)
         /\ Len(events) \in Nat /\ Len(t) \in Nat
         /\ DOMAIN events = 1 .. Len(events) /\ DOMAIN events' = 1 .. Len(events) + Len(t)
         /\ \A i \in DOMAIN events : i \in DOMAIN events' /\ events'[i] = events[i]
         /\ \A n \in 1 .. Len(t) : events'[Len(events) + n] = t[n]
         /\ \A w, i : LosesAfter(w, i) => LosesAfter(w, i)'
         /\ \A w, k, i : EndsAfter(w, k, i) => EndsAfter(w, k, i)'
<1>1. /\ Len(events) \in Nat /\ Len(t) \in Nat /\ Len(events') = Len(events) + Len(t)
      /\ events' \in Seq(KeyEvents)
      /\ \A i \in 1 .. Len(events) : events'[i] = events[i]
  BY ConcatProperties, LenProperties DEF KeysTyped
<1>2. DOMAIN events = 1 .. Len(events) /\ DOMAIN events' = 1 .. Len(events')
  BY <1>1, LenProperties DEF KeysTyped
<1>3. \A i \in DOMAIN events : i \in DOMAIN events' /\ events'[i] = events[i]
  BY <1>1, <1>2
<1>4. ASSUME NEW n \in 1 .. Len(t) PROVE events'[Len(events) + n] = t[n]
  <2>1. /\ Len(events) + n \in 1 .. Len(events) + Len(t) /\ Len(events) + n > Len(events)
        /\ (Len(events) + n) - Len(events) = n
    BY <1>1
  <2> QED
    BY <1>1, <2>1, ConcatProperties DEF KeysTyped
<1>5. \A w, i : LosesAfter(w, i) => LosesAfter(w, i)'
  BY <1>3 DEF LosesAfter, Loses
<1>6. \A w, k, i : EndsAfter(w, k, i) => EndsAfter(w, k, i)'
  BY <1>3 DEF EndsAfter, Loses, GoesUp
<1> QED
  BY <1>1, <1>2, <1>3, <1>4, <1>5, <1>6


(* r is q with a tail that tells only of the focus: first that f lost it,  *)
(* if f had it, and of a gain by no window but w.                          *)
FocusTold(q, r, f, w) ==
  \E t \in Seq(KeyEvents) :
    /\ r = q \o t
    /\ f \in K!KeyWindows => 1 \in 1 .. Len(t) /\ Loses(t[1], f)
    /\ \A n \in 1 .. Len(t) : t[n].kind = "focus" /\ (t[n].gained => t[n].win = w)

(* What a move of the focus puts into the queue: the loss, if a window had *)
(* it, and then what another gets.                                         *)
LEMMA FocusTail ==
  \A f, w \in K!KeyWindows \cup {"away"} : \A q \in Seq(KeyEvents) :
    f # w => FocusTold(q, q \o K!FocusEvents(f, FALSE) \o K!FocusEvents(w, TRUE), f, w)
<1> SUFFICES ASSUME NEW f \in K!KeyWindows \cup {"away"}, NEW w \in K!KeyWindows \cup {"away"},
                    f # w, NEW q \in Seq(KeyEvents)
             PROVE  FocusTold(q, q \o K!FocusEvents(f, FALSE) \o K!FocusEvents(w, TRUE), f, w)
  OBVIOUS
<1> SUFFICES \E t \in Seq(KeyEvents) :
           /\ q \o K!FocusEvents(f, FALSE) \o K!FocusEvents(w, TRUE) = q \o t
           /\ f \in K!KeyWindows => 1 \in 1 .. Len(t) /\ Loses(t[1], f)
           /\ \A n \in 1 .. Len(t) : t[n].kind = "focus" /\ (t[n].gained => t[n].win = w)
  BY Zenon DEF FocusTold
<1> DEFINE l == [kind |-> "focus", win |-> f, gained |-> FALSE]
           g == [kind |-> "focus", win |-> w, gained |-> TRUE]
<1>1. /\ f \in K!KeyWindows => l \in KeyEvents
      /\ w \in K!KeyWindows => g \in KeyEvents
      /\ Loses(l, f) /\ l.kind = "focus" /\ ~l.gained /\ g.kind = "focus" /\ g.win = w
  BY DEF KeyEvents, Loses
<1>2. /\ K!FocusEvents(f, FALSE) = IF f \in K!KeyWindows THEN <<l>> ELSE <<>>
      /\ K!FocusEvents(w, TRUE) = IF w \in K!KeyWindows THEN <<g>> ELSE <<>>
  BY DEF K!FocusEvents
<1> HIDE DEF l, g
<1>3. CASE f \in K!KeyWindows /\ w \in K!KeyWindows
  <2>1. <<l>> \in Seq(KeyEvents) /\ <<g>> \in Seq(KeyEvents) /\ <<l, g>> \in Seq(KeyEvents)
    BY <1>1, <1>3, ShortSeqs
  <2>2. <<l>> \o <<g>> = <<l, g>>
    <3>1. Append(<<l>>, g) = <<l>> \o <<g>>
      BY <1>1, <1>3, <2>1, AppendIsConcat
    <3>2. Append(<<l>>, g) = <<l, g>>
      <4>1. /\ Append(<<l>>, g) \in Seq(KeyEvents) /\ Len(Append(<<l>>, g)) = Len(<<l>>) + 1
            /\ \A i \in 1 .. Len(<<l>>) : Append(<<l>>, g)[i] = <<l>>[i]
            /\ Append(<<l>>, g)[Len(<<l>>) + 1] = g
        BY <1>1, <1>3, <2>1, AppendProperties
      <4>2. Len(<<l>>) = 1 /\ <<l>>[1] = l
        OBVIOUS
      <4>3. Len(<<l, g>>) = 2 /\ <<l, g>>[1] = l /\ <<l, g>>[2] = g
        OBVIOUS
      <4>4. \A i \in 1 .. 2 : i = 1 \/ i = 2
        OBVIOUS
      <4>5. 1 + 1 = 2 /\ 1 \in 1 .. 1
        OBVIOUS
      <4>6. Len(Append(<<l>>, g)) = 2 /\ Append(<<l>>, g)[1] = l /\ Append(<<l>>, g)[2] = g
        BY <4>1, <4>2, <4>5
      <4> QED
        BY <2>1, <4>1, <4>3, <4>4, <4>6, SeqEqual
    <3> QED
      BY <3>1, <3>2
  <2>3. q \o <<l>> \o <<g>> = q \o <<l, g>>
    <3>1. (q \o <<l>>) \o <<g>> = q \o (<<l>> \o <<g>>)
      BY <2>1, ConcatAssociative
    <3> QED
      BY <2>2, <3>1
  <2>4. \A n \in 1 .. Len(<<l, g>>) : <<l, g>>[n] \in {l, g}
    OBVIOUS
  <2>5. 1 \in 1 .. Len(<<l, g>>) /\ <<l, g>>[1] = l
    OBVIOUS
  <2> QED
    BY <1>1, <1>2, <1>3, <2>1, <2>3, <2>4, <2>5
<1>4. CASE f \in K!KeyWindows /\ w \notin K!KeyWindows
  <2>1. <<l>> \in Seq(KeyEvents)
    BY <1>1, <1>4, ShortSeqs
  <2>2. q \o <<l>> \in Seq(KeyEvents)
    BY <2>1, ConcatProperties
  <2>3. q \o <<l>> \o <<>> = q \o <<l>>
    BY <2>2, ConcatEmptySeq
  <2>4. 1 \in 1 .. Len(<<l>>) /\ \A n \in 1 .. Len(<<l>>) : <<l>>[n] = l
    OBVIOUS
  <2>5. q \o K!FocusEvents(f, FALSE) \o K!FocusEvents(w, TRUE) = q \o <<l>>
    BY <1>2, <1>4, <2>3
  <2> QED
    BY <1>1, <2>1, <2>4, <2>5
<1>5. CASE f \notin K!KeyWindows
  <2>1. w \in K!KeyWindows
    BY <1>5
  <2>2. <<g>> \in Seq(KeyEvents)
    BY <1>1, <2>1, ShortSeqs
  <2>3. q \o <<>> = q
    BY ConcatEmptySeq
  <2>4. \A n \in 1 .. Len(<<g>>) : <<g>>[n] = g
    OBVIOUS
  <2>5. q \o K!FocusEvents(f, FALSE) \o K!FocusEvents(w, TRUE) = q \o <<g>>
    BY <1>2, <1>5, <2>1, <2>3
  <2> QED
    BY <1>1, <1>5, <2>2, <2>4, <2>5
<1> QED
  BY <1>3, <1>4, <1>5

(* The focus moves: the window that had it is told that it lost it.        *)
LEMMA FocusIsMoved ==
  ASSUME KeysInv, NEW w \in K!KeyWindows \cup {"away"}, K!FocusMoves(w)
  PROVE  KeysInv'
<1>1. /\ w # foreground /\ foreground' = w
      /\ UNCHANGED <<platform, remap, grabbed, modsHeld, phys, osCtrl, glfwDown, host,
                     gone, over, combo, overtaken>>
      /\ events' = events \o K!FocusEvents(foreground, FALSE) \o K!FocusEvents(w, TRUE)
  BY DEF K!FocusMoves
<1>2. PICK f \in K!KeyWindows \cup {"away"} : f = foreground
  BY DEF KeysInv, KeysTyped
<1>3. PICK t \in Seq(KeyEvents) :
           /\ events' = events \o t
           /\ f \in K!KeyWindows => 1 \in 1 .. Len(t) /\ Loses(t[1], f)
           /\ \A n \in 1 .. Len(t) : t[n].kind = "focus" /\ (t[n].gained => t[n].win = w)
  <2>1. events \in Seq(KeyEvents) /\ f # w
    BY <1>1, <1>2 DEF KeysInv, KeysTyped
  <2>2. FocusTold(events, events \o K!FocusEvents(f, FALSE) \o K!FocusEvents(w, TRUE), f, w)
    BY <2>1, FocusTail
  <2>3. FocusTold(events, events', f, w)
    BY <1>1, <1>2, <2>2
  <2> QED
    BY <2>3 DEF FocusTold
<1>6. /\ events' \in Seq(KeyEvents)
      /\ Len(events) \in Nat /\ Len(t) \in Nat
      /\ DOMAIN events = 1 .. Len(events) /\ DOMAIN events' = 1 .. Len(events) + Len(t)
      /\ \A i \in DOMAIN events : i \in DOMAIN events' /\ events'[i] = events[i]
      /\ \A n \in 1 .. Len(t) : events'[Len(events) + n] = t[n]
      /\ \A v, i : LosesAfter(v, i) => LosesAfter(v, i)'
      /\ \A v, k, i : EndsAfter(v, k, i) => EndsAfter(v, k, i)'
  BY <1>3, QueueGrows DEF KeysInv
<1>7. \A i \in 0 .. Len(events) : f \in K!KeyWindows =>
        LosesAfter(f, i)' /\ \A k : EndsAfter(f, k, i)'
  <2> SUFFICES ASSUME NEW i \in 0 .. Len(events), f \in K!KeyWindows
               PROVE  \E j \in DOMAIN events' : j > i /\ Loses(events'[j], f)
    BY DEF LosesAfter, EndsAfter, Loses, GoesUp
  <2>1. Loses(events'[Len(events) + 1], f)
    BY <1>3, <1>6
  <2>2. Len(events) + 1 \in DOMAIN events' /\ Len(events) + 1 > i
    BY <1>3, <1>6
  <2> QED
    BY <2>1, <2>2
<1>8. \A i \in DOMAIN events' \ DOMAIN events :
        events'[i].kind = "focus" /\ (events'[i].gained => events'[i].win = w)
  <2> SUFFICES ASSUME NEW i \in DOMAIN events' \ DOMAIN events
               PROVE  events'[i].kind = "focus" /\ (events'[i].gained => events'[i].win = w)
    OBVIOUS
  <2>1. i - Len(events) \in 1 .. Len(t) /\ Len(events) + (i - Len(events)) = i
    BY <1>6
  <2>2. events'[i] = t[i - Len(events)]
    BY <1>6, <2>1
  <2> QED
    BY <1>3, <2>1, <2>2
<1>9. \A v, k : \A i \in 0 .. Len(events) :
        v \in K!KeyWindows /\ LetsGo(v, k, i) => LetsGo(v, k, i)'
  BY <1>1, <1>2, <1>6, <1>7 DEF LetsGo
<1>10. KeysTyped'
  BY <1>1, <1>6 DEF KeysInv, KeysTyped
<1>11. "primary" \in K!KeyWindows /\ \A i \in DOMAIN events : i \in 0 .. Len(events)
  BY <1>6 DEF K!KeyWindows
<1>12. 0 \in 0 .. Len(events)
  BY <1>6
<1>13. GivesBack'
  <2>1. grabbed /\ w # "primary" => LosesAfter("primary", 0)'
    BY <1>1, <1>2, <1>6, <1>7, <1>11, <1>12 DEF KeysInv, GivesBack
  <2>2. ASSUME NEW i \in DOMAIN events', Gets(events'[i], "primary"), w # "primary"
        PROVE  LosesAfter("primary", i)'
    <3>1. i \in DOMAIN events
      BY <1>8, <2>2 DEF Gets
    <3>2. Gets(events[i], "primary")
      BY <1>6, <2>2, <3>1
    <3> QED
      BY <1>1, <1>2, <1>6, <1>7, <1>11, <3>1, <3>2 DEF KeysInv, GivesBack
  <2> QED
    BY <1>1, <2>1, <2>2 DEF KeysInv, GivesBack, Gets
<1>14. PressesEnd'
  <2> SUFFICES ASSUME NEW i \in DOMAIN events', NEW v \in K!KeyWindows,
                      NEW k \in K!KeyNames \ {"letter"}, GoesDown(events'[i], v, k)
               PROVE  K!SymOf(k)' \in overtaken' \/ LetsGo(v, k, i)'
    BY DEF PressesEnd, GoesDown
  <2>1. i \in DOMAIN events
    BY <1>8 DEF GoesDown
  <2>2. K!SymOf(k) \in overtaken \/ LetsGo(v, k, i)
    BY <1>6, <2>1 DEF KeysInv, PressesEnd
  <2> QED
    BY <1>1, <1>9, <1>11, <2>1, <2>2 DEF K!SymOf
<1>15. HeldForCause'
  <2> SUFFICES ASSUME ~gone, ~over, NEW s \in host \ (combo \cup overtaken)
               PROVE  ByHook(s)' \/ ByWindow(s)'
    BY <1>1 DEF HeldForCause
  <2>1. ByHook(s) => ByHook(s)'
    BY <1>1, <1>2, <1>6, <1>7, <1>11, <1>12 DEF ByHook
  <2>2. ByWindow(s) => ByWindow(s)'
    BY <1>1, <1>9, <1>12 DEF ByWindow, K!SymOf
  <2> QED
    BY <2>1, <2>2 DEF KeysInv, HeldForCause
<1> QED
  BY <1>10, <1>13, <1>14, <1>15 DEF KeysInv

(* A step that neither moves the focus nor touches the queue, and lets go  *)
(* of no key, leaves what is to come as it is.                             *)
LEMMA QueueStays ==
  ASSUME events' = events
  PROVE  /\ \A w, i : LosesAfter(w, i)' = LosesAfter(w, i)
         /\ \A w, k, i : EndsAfter(w, k, i)' = EndsAfter(w, k, i)
BY DEF LosesAfter, EndsAfter, Loses, GoesUp

(* The hook keeps a press. *)
LEMMA HookPresses ==
  ASSUME KeysInv, NEW k \in K!KeyNames, K!Press(k), K!HookKeeps(k, TRUE)
  PROVE  KeysInv'
<1>1. /\ phys' = phys \cup {k}
      /\ UNCHANGED <<platform, remap, grabbed, foreground, glfwDown, gone, over>>
      /\ platform = "win32" /\ grabbed /\ foreground = "primary"
      /\ modsHeld' = (IF k = "ctrl" THEN TRUE ELSE modsHeld)
      /\ host' = (IF gone THEN host ELSE host \cup {k})
      /\ combo' = (IF k = "ctrl" \/ gone THEN combo ELSE combo \cup {k})
      /\ UNCHANGED <<events, osCtrl, overtaken>>
  BY DEF K!Press, K!HookKeeps, K!Kept, K!Hooked, K!SendKey
<1>2. /\ \A w, i : LosesAfter(w, i)' = LosesAfter(w, i)
      /\ \A w, j, i : EndsAfter(w, j, i)' = EndsAfter(w, j, i)
  BY <1>1, QueueStays
<1>3. \A w, j, i : LetsGo(w, j, i) => LetsGo(w, j, i)'
  BY <1>1, <1>2 DEF LetsGo
<1>4. KeysTyped'
  BY <1>1, KeyNamed DEF KeysInv, KeysTyped
<1>5. GivesBack'
  BY <1>1, <1>2 DEF KeysInv, GivesBack, Gets
<1>6. PressesEnd'
  BY <1>1, <1>3 DEF KeysInv, PressesEnd, GoesDown, K!SymOf
<1>7. HeldForCause'
  <2> SUFFICES ASSUME ~gone, ~over, NEW s \in host' \ (combo' \cup overtaken)
               PROVE  ByHook(s)' \/ ByWindow(s)'
    BY <1>1 DEF HeldForCause
  <2>1. CASE s \in host \ (combo \cup overtaken)
    <3>1. ByHook(s) => ByHook(s)'
      BY <1>1, <1>2 DEF ByHook
    <3>2. ByWindow(s) => ByWindow(s)'
      BY <1>1, <1>3 DEF ByWindow, K!SymOf
    <3> QED
      BY <2>1, <3>1, <3>2 DEF KeysInv, HeldForCause
  <2>2. CASE s \notin host \ (combo \cup overtaken)
    <3>1. s = "ctrl" /\ k = "ctrl"
      BY <1>1, <2>2
    <3> QED
      BY <1>1, <3>1 DEF ByHook
  <2> QED
    BY <2>1, <2>2
<1> QED
  BY <1>4, <1>5, <1>6, <1>7 DEF KeysInv

(* The hook keeps a release: a press that went to the window is overtaken. *)
LEMMA HookReleases ==
  ASSUME KeysInv, NEW k \in K!KeyNames, K!Release(k), K!HookKeeps(k, FALSE)
  PROVE  KeysInv'
<1>1. /\ phys' = phys \ {k}
      /\ UNCHANGED <<platform, remap, grabbed, foreground, glfwDown, gone, over>>
      /\ platform = "win32" /\ grabbed /\ foreground = "primary"
      /\ modsHeld' = (IF k = "ctrl" THEN FALSE ELSE modsHeld)
      /\ host' = (IF gone THEN host ELSE host \ {k})
      /\ combo' = (IF k = "ctrl" \/ gone THEN combo ELSE combo \ {k})
      /\ overtaken' = (IF K!Crosses(k) THEN overtaken \cup {K!SymOf(k)} ELSE overtaken)
      /\ UNCHANGED <<events, osCtrl>>
  BY DEF K!Release, K!HookKeeps, K!Kept, K!Hooked, K!SendKey
<1>2. /\ \A w, i : LosesAfter(w, i)' = LosesAfter(w, i)
      /\ \A w, j, i : EndsAfter(w, j, i)' = EndsAfter(w, j, i)
  BY <1>1, QueueStays
<1>3. \A w, j, i : j # k /\ LetsGo(w, j, i) => LetsGo(w, j, i)'
  BY <1>1, <1>2 DEF LetsGo
<1>4. overtaken \subseteq overtaken' /\ overtaken' \subseteq K!KeySyms
  BY <1>1, KeyNamed DEF KeysInv, KeysTyped
<1>5. KeysTyped'
  BY <1>1, <1>4 DEF KeysInv, KeysTyped
<1>6. GivesBack'
  BY <1>1, <1>2 DEF KeysInv, GivesBack, Gets
<1>7. PressesEnd'
  <2> SUFFICES ASSUME NEW i \in DOMAIN events, NEW w \in K!KeyWindows,
                      NEW j \in K!KeyNames \ {"letter"}, GoesDown(events[i], w, j)
               PROVE  K!SymOf(j)' \in overtaken' \/ LetsGo(w, j, i)'
    BY <1>1 DEF PressesEnd, GoesDown
  <2>1. K!SymOf(j)' = K!SymOf(j)
    BY <1>1 DEF K!SymOf
  <2>2. CASE j = k
    <3>1. K!Crosses(k)
      BY <2>2 DEF K!Crosses, GoesDown
    <3> QED
      BY <1>1, <2>1, <2>2, <3>1
  <2>3. CASE j # k
    BY <1>3, <1>4, <2>1, <2>3 DEF KeysInv, PressesEnd
  <2> QED
    BY <2>2, <2>3
<1>8. HeldForCause'
  <2> SUFFICES ASSUME ~gone, ~over, NEW s \in host' \ (combo' \cup overtaken')
               PROVE  ByHook(s)' \/ ByWindow(s)'
    BY <1>1 DEF HeldForCause
  <2>1. s \in host \ (combo \cup overtaken) /\ s # k
    BY <1>1, <1>4
  <2>2. CASE ByHook(s)
    <3>1. k # "ctrl"
      BY <2>1, <2>2 DEF ByHook
    <3> QED
      BY <1>1, <1>2, <2>2, <3>1 DEF ByHook
  <2>3. CASE ByWindow(s)
    <3>1. PICK w \in K!KeyWindows : \E j \in glfwDown[w] \ {"letter"} :
                 s = K!SymOf(j) /\ LetsGo(w, j, 0)
      BY <2>3 DEF ByWindow
    <3>2. PICK j \in glfwDown[w] \ {"letter"} : s = K!SymOf(j) /\ LetsGo(w, j, 0)
      BY <3>1
    <3>3. j # k
      <4> SUFFICES ASSUME j = k PROVE FALSE
        OBVIOUS
      <4>1. K!SymOf(k) # k /\ K!SymOf(k) \in host
        BY <2>1, <3>2
      <4>2. s \in overtaken'
        BY <1>1, <3>2, <4>1 DEF K!Crosses
      <4> QED
        BY <4>2
    <3>4. LetsGo(w, j, 0)'
      BY <1>3, <3>2, <3>3
    <3> QED
      BY <1>1, <3>2, <3>4 DEF ByWindow, K!SymOf
  <2> QED
    BY <1>1, <2>1, <2>2, <2>3 DEF KeysInv, HeldForCause
<1> QED
  BY <1>5, <1>6, <1>7, <1>8 DEF KeysInv


(* A key that goes to the window. *)
LEMMA KeyQueues ==
  ASSUME KeysInv, NEW k \in K!KeyNames, NEW down \in BOOLEAN,
         phys' = (IF down THEN phys \cup {k} ELSE phys \ {k}), K!Queued(k, down),
         UNCHANGED <<platform, remap, grabbed, foreground, glfwDown, gone, over>>
  PROVE  KeysInv'
<1>1. /\ platform = "win32" /\ grabbed /\ foreground = "primary" => k # "ctrl"
      /\ osCtrl' = (IF k = "ctrl" THEN down ELSE osCtrl)
      /\ UNCHANGED <<modsHeld, host, combo, overtaken>>
  BY DEF K!Queued, K!Kept, K!Hooked
<1>2. osCtrl' \in BOOLEAN
  BY <1>1 DEF KeysInv, KeysTyped
<1>3. K!SymOf(k)' = K!SymOf(k) /\ \A j : K!SymOf(j)' = K!SymOf(j)
  BY DEF K!SymOf
<1>4. CASE foreground \notin K!KeyWindows
  <2>1. events' = events
    BY <1>4 DEF K!Queued
  <2>2. /\ \A w, i : LosesAfter(w, i)' = LosesAfter(w, i)
        /\ \A w, j, i : EndsAfter(w, j, i)' = EndsAfter(w, j, i)
    BY <2>1, QueueStays
  <2>3. \A w, j, i : w \in K!KeyWindows /\ LetsGo(w, j, i) => LetsGo(w, j, i)'
    BY <1>4, <2>2 DEF LetsGo
  <2>4. KeysTyped'
    BY <1>1, <1>2, <2>1 DEF KeysInv, KeysTyped
  <2>5. GivesBack'
    BY <2>1, <2>2 DEF KeysInv, GivesBack, Gets
  <2>6. PressesEnd'
    BY <1>1, <1>3, <2>1, <2>3 DEF KeysInv, PressesEnd, GoesDown
  <2>7. HeldForCause'
    <3> SUFFICES ASSUME ~gone, ~over, NEW s \in host \ (combo \cup overtaken)
                 PROVE  ByHook(s)' \/ ByWindow(s)'
      BY <1>1 DEF HeldForCause
    <3>1. ByHook(s) => ByHook(s)'
      BY <1>1, <1>4, <2>2 DEF ByHook, K!KeyWindows
    <3>2. ByWindow(s) => ByWindow(s)'
      BY <1>3, <2>3 DEF ByWindow
    <3> QED
      BY <3>1, <3>2 DEF KeysInv, HeldForCause
  <2> QED
    BY <2>4, <2>5, <2>6, <2>7 DEF KeysInv
<1>5. CASE foreground \in K!KeyWindows
  <2> DEFINE e == [kind |-> "key", win |-> foreground, key |-> k, down |-> down, held |-> osCtrl']
  <2>1. events' = Append(events, e)
    BY <1>5 DEF K!Queued
  <2>2. e \in KeyEvents
    BY <1>2, <1>5 DEF KeyEvents
  <2>3. /\ e.kind = "key" /\ e.win = foreground /\ e.key = k /\ e.down = down
    OBVIOUS
  <2> HIDE DEF e
  <2>4. <<e>> \in Seq(KeyEvents) /\ events' = events \o <<e>> /\ Len(<<e>>) = 1 /\ <<e>>[1] = e
    BY <2>1, <2>2, AppendIsConcat DEF KeysInv, KeysTyped
  <2>5. /\ events' \in Seq(KeyEvents) /\ Len(events) \in Nat
        /\ DOMAIN events = 1 .. Len(events) /\ DOMAIN events' = 1 .. Len(events) + 1
        /\ \A i \in DOMAIN events : i \in DOMAIN events' /\ events'[i] = events[i]
        /\ events'[Len(events) + 1] = e
        /\ \A w, i : LosesAfter(w, i) => LosesAfter(w, i)'
        /\ \A w, j, i : EndsAfter(w, j, i) => EndsAfter(w, j, i)'
    <3>1. /\ events' \in Seq(KeyEvents)
          /\ Len(events) \in Nat /\ Len(<<e>>) \in Nat
          /\ DOMAIN events = 1 .. Len(events) /\ DOMAIN events' = 1 .. Len(events) + Len(<<e>>)
          /\ \A i \in DOMAIN events : i \in DOMAIN events' /\ events'[i] = events[i]
          /\ \A n \in 1 .. Len(<<e>>) : events'[Len(events) + n] = <<e>>[n]
          /\ \A w, i : LosesAfter(w, i) => LosesAfter(w, i)'
          /\ \A w, j, i : EndsAfter(w, j, i) => EndsAfter(w, j, i)'
      BY <2>4, QueueGrows DEF KeysInv
    <3>2. 1 \in 1 .. Len(<<e>>)
      BY <2>4
    <3> QED
      BY <2>4, <3>1, <3>2
  <2>6. \A w, j : \A i \in 0 .. Len(events) :
          w \in K!KeyWindows /\ LetsGo(w, j, i) => LetsGo(w, j, i)'
    <3> SUFFICES ASSUME NEW w, NEW j, NEW i \in 0 .. Len(events), foreground = w, j \in phys
                 PROVE  LetsGo(w, j, i)'
      BY <2>5 DEF LetsGo
    <3>1. CASE j \in phys'
      BY <3>1 DEF LetsGo
    <3>2. CASE j \notin phys'
      <4>1. j = k /\ ~down
        BY <3>2
      <4>2. GoesUp(e, w, j)
        BY <2>3, <4>1 DEF GoesUp
      <4>3. Len(events) + 1 \in DOMAIN events' /\ Len(events) + 1 > i
        BY <2>5
      <4>4. EndsAfter(w, j, i)'
        BY <2>5, <4>2, <4>3 DEF EndsAfter, Loses, GoesUp
      <4> QED
        BY <4>4 DEF LetsGo
    <3> QED
      BY <3>1, <3>2
  <2>7. KeysTyped'
    BY <1>1, <1>2, <2>5 DEF KeysInv, KeysTyped
  <2>8. \A i \in DOMAIN events' : i \in DOMAIN events \/ i = Len(events) + 1
    BY <2>5
  <2>9. GivesBack'
    <3>1. ASSUME NEW i \in DOMAIN events', Gets(events'[i], "primary"), foreground # "primary"
          PROVE  LosesAfter("primary", i)'
      <4>1. i \in DOMAIN events
        BY <2>3, <2>5, <2>8, <3>1 DEF Gets
      <4>2. Gets(events[i], "primary")
        BY <2>5, <3>1, <4>1
      <4> QED
        BY <2>5, <3>1, <4>1, <4>2 DEF KeysInv, GivesBack
    <3> QED
      BY <2>5, <3>1 DEF KeysInv, GivesBack, Gets
  <2>10. \A i \in DOMAIN events : i \in 0 .. Len(events)
    BY <2>5
  <2>11. PressesEnd'
    <3> SUFFICES ASSUME NEW i \in DOMAIN events', NEW w \in K!KeyWindows,
                        NEW j \in K!KeyNames \ {"letter"}, GoesDown(events'[i], w, j)
                 PROVE  K!SymOf(j)' \in overtaken' \/ LetsGo(w, j, i)'
      BY DEF PressesEnd, GoesDown
    <3>1. CASE i \in DOMAIN events
      <4>1. K!SymOf(j) \in overtaken \/ LetsGo(w, j, i)
        BY <2>5, <3>1 DEF KeysInv, PressesEnd
      <4> QED
        BY <1>1, <1>3, <2>6, <2>10, <3>1, <4>1
    <3>2. CASE i = Len(events) + 1
      <4>1. j = k /\ down /\ w = foreground
        BY <2>3, <2>5, <3>2 DEF GoesDown
      <4> QED
        BY <4>1 DEF LetsGo
    <3> QED
      BY <2>8, <3>1, <3>2
  <2>12. HeldForCause'
    <3> SUFFICES ASSUME ~gone, ~over, NEW s \in host \ (combo \cup overtaken)
                 PROVE  ByHook(s)' \/ ByWindow(s)'
      BY <1>1 DEF HeldForCause
    <3>1. ByHook(s) => ByHook(s)'
      BY <1>1, <2>5 DEF ByHook
    <3>2. ByWindow(s) => ByWindow(s)'
      <4>1. 0 \in 0 .. Len(events)
        BY <2>5
      <4> QED
        BY <1>3, <2>6, <4>1 DEF ByWindow
    <3> QED
      BY <3>1, <3>2 DEF KeysInv, HeldForCause
  <2> QED
    BY <2>7, <2>9, <2>11, <2>12 DEF KeysInv
<1> QED
  BY <1>4, <1>5

(* The loop takes the head: what holds for the rest of the queue.          *)
LEMMA HeadIsTaken ==
  ASSUME KeysInv, events # <<>>, events' = Tail(events),
         UNCHANGED <<foreground, phys, remap, overtaken>>
  PROVE  /\ events' \in Seq(KeyEvents)
         /\ \A i \in DOMAIN events' : Gets(events'[i], "primary") /\ foreground # "primary" =>
              LosesAfter("primary", i)'
         /\ PressesEnd'
         /\ \A w, k : LetsGo(w, k, 0) =>
              Loses(Head(events), w) \/ GoesUp(Head(events), w, k) \/ LetsGo(w, k, 0)'
         /\ \A w : LosesAfter(w, 0) => Loses(Head(events), w) \/ LosesAfter(w, 0)'
         /\ Gets(Head(events), "primary") /\ foreground # "primary" => LosesAfter("primary", 0)'
         /\ \A w \in K!KeyWindows : \A k \in K!KeyNames \ {"letter"} :
              GoesDown(Head(events), w, k) => K!SymOf(k) \in overtaken \/ LetsGo(w, k, 0)'
<1>1. /\ events[1] = Head(events) /\ events[1] \in KeyEvents /\ 1 \in DOMAIN events
      /\ events' \in Seq(KeyEvents)
      /\ \A i \in DOMAIN events' : i + 1 \in DOMAIN events /\ events'[i] = events[i + 1]
      /\ \A w, i : i \in Nat /\ LosesAfter(w, i + 1) => LosesAfter(w, i)'
      /\ \A w : LosesAfter(w, 0) => Loses(events[1], w) \/ LosesAfter(w, 0)'
      /\ \A w, k, i : i \in Nat /\ EndsAfter(w, k, i + 1) => EndsAfter(w, k, i)'
      /\ \A w, k : EndsAfter(w, k, 0) =>
           Loses(events[1], w) \/ GoesUp(events[1], w, k) \/ EndsAfter(w, k, 0)'
  BY QueueShifts DEF KeysInv
<1>2. \A i \in DOMAIN events' : i \in Nat
  BY <1>1, LenProperties
<1>3. \A w, k, i : i \in Nat /\ LetsGo(w, k, i + 1) => LetsGo(w, k, i)'
  BY <1>1 DEF LetsGo
<1>4. 0 \in Nat /\ 0 + 1 = 1
  OBVIOUS
<1>5. \A i \in DOMAIN events' : Gets(events'[i], "primary") /\ foreground # "primary" =>
        LosesAfter("primary", i)'
  BY <1>1, <1>2 DEF KeysInv, GivesBack
<1>6. PressesEnd'
  <2> SUFFICES ASSUME NEW i \in DOMAIN events', NEW w \in K!KeyWindows,
                      NEW k \in K!KeyNames \ {"letter"}, GoesDown(events'[i], w, k)
               PROVE  K!SymOf(k)' \in overtaken' \/ LetsGo(w, k, i)'
    BY DEF PressesEnd, GoesDown
  <2>1. K!SymOf(k) \in overtaken \/ LetsGo(w, k, i + 1)
    BY <1>1 DEF KeysInv, PressesEnd
  <2> QED
    BY <1>2, <1>3, <2>1 DEF K!SymOf
<1>7. \A w, k : LetsGo(w, k, 0) =>
        Loses(Head(events), w) \/ GoesUp(Head(events), w, k) \/ LetsGo(w, k, 0)'
  BY <1>1 DEF LetsGo
<1>8. Gets(Head(events), "primary") /\ foreground # "primary" => LosesAfter("primary", 0)'
  <2>1. Gets(Head(events), "primary") /\ foreground # "primary" => LosesAfter("primary", 1)
    BY <1>1 DEF KeysInv, GivesBack
  <2> QED
    BY <1>1, <1>4, <2>1
<1>9. \A w \in K!KeyWindows : \A k \in K!KeyNames \ {"letter"} :
        GoesDown(Head(events), w, k) => K!SymOf(k) \in overtaken \/ LetsGo(w, k, 0)'
  <2>1. \A w \in K!KeyWindows : \A k \in K!KeyNames \ {"letter"} :
          GoesDown(Head(events), w, k) => K!SymOf(k) \in overtaken \/ LetsGo(w, k, 1)
    BY <1>1 DEF KeysInv, PressesEnd
  <2> QED
    BY <1>3, <1>4, <2>1
<1> QED
  BY <1>1, <1>5, <1>6, <1>7, <1>8, <1>9


(* GLFW tells of a key. *)
LEMMA KeyIsPolled == ASSUME KeysInv, K!PollKey PROVE KeysInv'
<1>1. /\ events # <<>> /\ Head(events).kind = "key" /\ events' = Tail(events) /\ ~over
      /\ UNCHANGED <<platform, remap, grabbed, modsHeld, foreground, phys, osCtrl, gone, over,
                     overtaken>>
  BY DEF K!PollKey
<1>2. /\ events' \in Seq(KeyEvents)
      /\ \A i \in DOMAIN events' : Gets(events'[i], "primary") /\ foreground # "primary" =>
           LosesAfter("primary", i)'
      /\ PressesEnd'
      /\ \A w, k : LetsGo(w, k, 0) =>
           Loses(Head(events), w) \/ GoesUp(Head(events), w, k) \/ LetsGo(w, k, 0)'
      /\ \A w : LosesAfter(w, 0) => Loses(Head(events), w) \/ LosesAfter(w, 0)'
      /\ \A w \in K!KeyWindows : \A k \in K!KeyNames \ {"letter"} :
           GoesDown(Head(events), w, k) => K!SymOf(k) \in overtaken \/ LetsGo(w, k, 0)'
  BY <1>1, HeadIsTaken
<1>3. PICK e \in KeyEvents : e = Head(events)
  BY <1>1, HeadTailProperties DEF KeysInv, KeysTyped
<1>4. /\ e.kind = "key" /\ e.win \in K!KeyWindows /\ e.key \in K!KeyNames
      /\ e.down \in BOOLEAN /\ e.held \in BOOLEAN
  BY <1>1, <1>3 DEF KeyEvents
<1>5. \A w : ~Loses(e, w)
  BY <1>4 DEF Loses
<1>6. GivesBack'
  BY <1>1, <1>2, <1>3, <1>5 DEF KeysInv, GivesBack, Gets
<1>7. \A k : K!SymOf(k)' = K!SymOf(k)
  BY <1>1 DEF K!SymOf
<1>8. \A s : ByHook(s) => ByHook(s)'
  BY <1>1, <1>2, <1>3, <1>5 DEF ByHook
<1>9. CASE ~e.down /\ e.key \notin glfwDown[e.win]
  <2>1. UNCHANGED <<glfwDown, host, combo>>
    BY <1>3, <1>9 DEF K!PollKey
  <2>2. KeysTyped'
    BY <1>1, <1>2, <2>1 DEF KeysInv, KeysTyped
  <2>3. HeldForCause'
    <3> SUFFICES ASSUME ~gone, ~over, NEW s \in host \ (combo \cup overtaken)
                 PROVE  ByHook(s)' \/ ByWindow(s)'
      BY <1>1, <2>1 DEF HeldForCause
    <3>1. ASSUME NEW w \in K!KeyWindows, NEW k \in glfwDown[w] \ {"letter"}, s = K!SymOf(k),
                 LetsGo(w, k, 0)
          PROVE  ByWindow(s)'
      <4>1. ~GoesUp(e, w, k)
        BY <1>9, <3>1 DEF GoesUp
      <4>2. LetsGo(w, k, 0)'
        BY <1>2, <1>3, <1>5, <3>1, <4>1
      <4> QED
        BY <1>7, <2>1, <3>1, <4>2 DEF ByWindow
    <3> QED
      BY <1>8, <3>1 DEF KeysInv, HeldForCause, ByWindow
  <2> QED
    BY <1>2, <1>6, <2>2, <2>3 DEF KeysInv
<1>10. CASE ~(~e.down /\ e.key \notin glfwDown[e.win])
  <2>1. /\ glfwDown' = [glfwDown EXCEPT ![e.win] =
                          IF e.down THEN @ \cup {e.key} ELSE @ \ {e.key}]
        /\ K!OnKey(e.key, e.down, e.held)
    BY <1>3, <1>10 DEF K!PollKey
  <2>2. glfwDown' \in [K!KeyWindows -> SUBSET K!KeyNames]
    BY <1>4, <2>1 DEF KeysInv, KeysTyped
  <2>3. /\ \A w \in K!KeyWindows, k \in K!KeyNames :
             ~(w = e.win /\ k = e.key) => (k \in glfwDown'[w] <=> k \in glfwDown[w])
        /\ e.down => e.key \in glfwDown'[e.win]
    BY <1>4, <2>1 DEF KeysInv, KeysTyped
  <2>4. CASE e.key = "letter" /\ ~e.held
    <3>1. UNCHANGED <<host, combo>>
      BY <2>1, <2>4 DEF K!OnKey
    <3>2. KeysTyped'
      BY <1>1, <1>2, <2>2, <3>1 DEF KeysInv, KeysTyped
    <3>3. HeldForCause'
      <4> SUFFICES ASSUME ~gone, ~over, NEW s \in host \ (combo \cup overtaken)
                   PROVE  ByHook(s)' \/ ByWindow(s)'
        BY <1>1, <3>1 DEF HeldForCause
      <4>1. ASSUME NEW w \in K!KeyWindows, NEW k \in glfwDown[w] \ {"letter"}, s = K!SymOf(k),
                   LetsGo(w, k, 0)
            PROVE  ByWindow(s)'
        <5>1. k \in K!KeyNames /\ k \in glfwDown'[w]
          BY <2>3, <2>4 DEF KeysInv, KeysTyped
        <5>2. LetsGo(w, k, 0)'
          BY <1>2, <1>3, <1>5, <2>4, <4>1 DEF GoesUp
        <5> QED
          BY <1>7, <4>1, <5>1, <5>2 DEF ByWindow
      <4> QED
        BY <1>8, <4>1 DEF KeysInv, HeldForCause, ByWindow
    <3> QED
      BY <1>2, <1>6, <3>2, <3>3 DEF KeysInv
  <2>5. CASE ~(e.key = "letter" /\ ~e.held)
    <3>1. /\ host' = (IF gone THEN host ELSE IF e.down THEN host \cup {K!SymOf(e.key)}
                      ELSE host \ {K!SymOf(e.key)})
          /\ combo' = (IF e.key # "letter" \/ gone THEN combo
                       ELSE IF e.down THEN combo \cup {e.key} ELSE combo \ {e.key})
      BY <2>1, <2>5 DEF K!OnKey, K!SendKey
    <3>2. host' \subseteq K!KeySyms /\ combo' \subseteq K!KeySyms
      BY <1>4, <3>1, KeyNamed DEF KeysInv, KeysTyped
    <3>3. KeysTyped'
      BY <1>1, <1>2, <2>2, <3>2 DEF KeysInv, KeysTyped
    <3>4. HeldForCause'
      <4> SUFFICES ASSUME ~gone, ~over, NEW s \in host' \ (combo' \cup overtaken)
                   PROVE  ByHook(s)' \/ ByWindow(s)'
        BY <1>1 DEF HeldForCause
      <4>1. CASE s # K!SymOf(e.key)
        <5>1. s \in host \ (combo \cup overtaken)
          <6>1. e.key = "letter" => K!SymOf(e.key) = e.key
            BY <1>4, KeyNamed
          <6> QED
            BY <3>1, <4>1, <6>1
        <5>2. ASSUME NEW w \in K!KeyWindows, NEW k \in glfwDown[w] \ {"letter"}, s = K!SymOf(k),
                     LetsGo(w, k, 0)
              PROVE  ByWindow(s)'
          <6>1. k # e.key
            BY <4>1, <5>2
          <6>2. k \in K!KeyNames
            BY DEF KeysInv, KeysTyped
          <6>3. k \in glfwDown'[w]
            BY <2>3, <6>1, <6>2
          <6>4. LetsGo(w, k, 0)'
            BY <1>2, <1>3, <1>5, <5>2, <6>1 DEF GoesUp
          <6> QED
            BY <1>7, <5>2, <6>3, <6>4 DEF ByWindow
        <5> QED
          BY <1>8, <5>1, <5>2 DEF KeysInv, HeldForCause, ByWindow
      <4>2. CASE s = K!SymOf(e.key)
        <5>1. e.down
          BY <3>1, <4>2
        <5>2. e.key # "letter"
          BY <1>4, <3>1, <4>2, <5>1, KeyNamed
        <5>3. GoesDown(e, e.win, e.key)
          BY <1>4, <5>1 DEF GoesDown
        <5>4. LetsGo(e.win, e.key, 0)'
          BY <1>2, <1>3, <1>4, <4>2, <5>2, <5>3
        <5>5. e.key \in glfwDown'[e.win]
          BY <2>3, <5>1
        <5> QED
          BY <1>4, <1>7, <4>2, <5>2, <5>4, <5>5 DEF ByWindow
      <4> QED
        BY <4>1, <4>2
    <3> QED
      BY <1>2, <1>6, <3>3, <3>4 DEF KeysInv
  <2> QED
    BY <2>4, <2>5
<1> QED
  BY <1>9, <1>10

(* A window gets the focus. *)
LEMMA FocusIsGained == ASSUME KeysInv, K!FocusGained PROVE KeysInv'
<1>1. /\ events # <<>> /\ Head(events).kind = "focus" /\ Head(events).gained
      /\ events' = Tail(events) /\ ~over
      /\ IF Head(events).win = "primary" THEN K!Enable ELSE UNCHANGED grabbed
      /\ UNCHANGED <<platform, remap, modsHeld, foreground, phys, osCtrl, glfwDown, host,
                     gone, over, combo, overtaken>>
  BY DEF K!FocusGained
<1>2. /\ events' \in Seq(KeyEvents)
      /\ \A i \in DOMAIN events' : Gets(events'[i], "primary") /\ foreground # "primary" =>
           LosesAfter("primary", i)'
      /\ PressesEnd'
      /\ \A w, k : LetsGo(w, k, 0) =>
           Loses(Head(events), w) \/ GoesUp(Head(events), w, k) \/ LetsGo(w, k, 0)'
      /\ \A w : LosesAfter(w, 0) => Loses(Head(events), w) \/ LosesAfter(w, 0)'
      /\ Gets(Head(events), "primary") /\ foreground # "primary" => LosesAfter("primary", 0)'
  BY <1>1, HeadIsTaken
<1>3. \A w, k : ~Loses(Head(events), w) /\ ~GoesUp(Head(events), w, k)
  BY <1>1 DEF Loses, GoesUp
<1>4. grabbed' \in BOOLEAN /\ (grabbed => grabbed')
  BY <1>1 DEF K!Enable, KeysInv, KeysTyped
<1>5. KeysTyped'
  BY <1>1, <1>2, <1>4 DEF KeysInv, KeysTyped
<1>6. grabbed' /\ foreground # "primary" => LosesAfter("primary", 0)'
  <2>1. CASE Head(events).win = "primary"
    BY <1>1, <1>2, <2>1 DEF Gets
  <2>2. CASE Head(events).win # "primary"
    BY <1>1, <1>2, <1>3, <2>2 DEF KeysInv, GivesBack
  <2> QED
    BY <2>1, <2>2
<1>7. GivesBack'
  BY <1>1, <1>2, <1>6 DEF GivesBack, Gets
<1>8. HeldForCause'
  <2> SUFFICES ASSUME ~gone, ~over, NEW s \in host \ (combo \cup overtaken)
               PROVE  ByHook(s)' \/ ByWindow(s)'
    BY <1>1 DEF HeldForCause
  <2>1. ByHook(s) => ByHook(s)'
    BY <1>1, <1>2, <1>3, <1>4 DEF ByHook
  <2>2. ByWindow(s) => ByWindow(s)'
    BY <1>1, <1>2, <1>3 DEF ByWindow, K!SymOf
  <2> QED
    BY <2>1, <2>2 DEF KeysInv, HeldForCause
<1> QED
  BY <1>2, <1>5, <1>7, <1>8 DEF KeysInv

(* A window loses the focus: the grab goes, and what it held.              *)
LEMMA FocusIsLost == ASSUME KeysInv, K!FocusLost PROVE KeysInv'
<1>1. /\ events # <<>> /\ Head(events).kind = "focus" /\ ~Head(events).gained
      /\ events' = Tail(events) /\ ~over
      /\ UNCHANGED <<platform, remap, foreground, phys, osCtrl, gone, over, combo, overtaken>>
  BY DEF K!FocusLost
<1>2. /\ events' \in Seq(KeyEvents)
      /\ \A i \in DOMAIN events' : Gets(events'[i], "primary") /\ foreground # "primary" =>
           LosesAfter("primary", i)'
      /\ PressesEnd'
      /\ \A w, k : LetsGo(w, k, 0) =>
           Loses(Head(events), w) \/ GoesUp(Head(events), w, k) \/ LetsGo(w, k, 0)'
      /\ \A w : LosesAfter(w, 0) => Loses(Head(events), w) \/ LosesAfter(w, 0)'
  BY <1>1, HeadIsTaken
<1>3. PICK w \in K!KeyWindows : w = Head(events).win
  <2>1. Head(events) \in KeyEvents
    BY <1>1, HeadTailProperties DEF KeysInv, KeysTyped
  <2> QED
    BY <2>1 DEF KeyEvents
<1>4. /\ IF w = "primary" THEN K!Disable ELSE UNCHANGED <<grabbed, modsHeld>>
      /\ host' = IF gone THEN host
                 ELSE (host \ (IF w = "primary" THEN K!Released ELSE {}))
                        \ {K!SymOf(k) : k \in glfwDown[w] \ {"letter"}}
      /\ glfwDown' = [glfwDown EXCEPT ![w] = {}]
  BY <1>3 DEF K!FocusLost
<1>5. \A v, k : (Loses(Head(events), v) => v = w) /\ ~GoesUp(Head(events), v, k)
  BY <1>1, <1>3 DEF Loses, GoesUp
<1>6. modsHeld' \in BOOLEAN /\ grabbed' \in BOOLEAN
  BY <1>4 DEF K!Disable, KeysInv, KeysTyped
<1>7. host' \subseteq host
  BY <1>4
<1>8. glfwDown' \in [K!KeyWindows -> SUBSET K!KeyNames]
      /\ \A v \in K!KeyWindows \ {w} : glfwDown'[v] = glfwDown[v]
  BY <1>4 DEF KeysInv, KeysTyped
<1>9. KeysTyped'
  BY <1>1, <1>2, <1>6, <1>7, <1>8 DEF KeysInv, KeysTyped
<1>10. w = "primary" => ~grabbed'
  BY <1>4 DEF K!Disable
<1>11. GivesBack'
  <2>1. grabbed' => w # "primary" /\ grabbed
    BY <1>4, <1>10
  <2>2. grabbed' /\ foreground # "primary" => LosesAfter("primary", 0)'
    BY <1>2, <1>5, <2>1 DEF KeysInv, GivesBack
  <2> QED
    BY <1>1, <1>2, <2>2 DEF GivesBack, Gets
<1>12. HeldForCause'
  <2> SUFFICES ASSUME ~gone, ~over, NEW s \in host' \ (combo \cup overtaken)
               PROVE  ByHook(s)' \/ ByWindow(s)'
    BY <1>1 DEF HeldForCause
  <2>1. s \in host \ (combo \cup overtaken)
    BY <1>7
  <2>2. CASE ByHook(s)
    <3>1. w # "primary"
      BY <1>4, <2>2 DEF ByHook, K!Released
    <3>2. UNCHANGED <<grabbed, modsHeld>>
      BY <1>4, <3>1
    <3> QED
      BY <1>1, <1>2, <1>5, <2>2, <3>1, <3>2 DEF ByHook
  <2>3. ASSUME NEW v \in K!KeyWindows, NEW k \in glfwDown[v] \ {"letter"}, s = K!SymOf(k),
               LetsGo(v, k, 0)
        PROVE  ByWindow(s)'
    <3>1. v # w
      BY <1>4, <2>3
    <3>2. LetsGo(v, k, 0)' /\ k \in glfwDown'[v]
      BY <1>2, <1>5, <1>8, <2>3, <3>1
    <3> QED
      BY <1>1, <2>3, <3>2 DEF ByWindow, K!SymOf
  <2> QED
    BY <1>1, <2>1, <2>2, <2>3 DEF KeysInv, HeldForCause, ByWindow
<1> QED
  BY <1>2, <1>9, <1>11, <1>12 DEF KeysInv

(* Every step of the keyboard keeps its invariant.                         *)
LEMMA KeysStep == ASSUME KeysInv, [K!KeysNext]_keyVars PROVE KeysInv'
<1>1. ASSUME K!CloseInput \/ K!EndRun PROVE KeysInv'
  <2>1. /\ UNCHANGED <<platform, remap, foreground, events, phys, osCtrl, glfwDown, overtaken>>
        /\ combo' = combo /\ (gone' \/ over')
    BY <1>1 DEF K!CloseInput, K!EndRun
  <2>2. /\ \A w, i : LosesAfter(w, i)' = LosesAfter(w, i)
        /\ \A w, k, i : EndsAfter(w, k, i)' = EndsAfter(w, k, i)
    BY <2>1, QueueStays
  <2>3. grabbed' \in BOOLEAN /\ modsHeld' \in BOOLEAN /\ (grabbed' => grabbed /\ ~over')
    <3>1. CASE K!EndRun
      <4>1. modsHeld' = (modsHeld /\ ~grabbed) /\ grabbed' = FALSE
        BY <3>1, Zenon DEF K!EndRun, K!Disable
      <4>2. (modsHeld /\ ~grabbed) \in BOOLEAN
        OBVIOUS
      <4> QED
        BY <4>1, <4>2, Zenon
    <3>2. CASE K!CloseInput
      <4>1. grabbed \in BOOLEAN /\ modsHeld \in BOOLEAN /\ (grabbed => ~over)
        BY DEF KeysInv, KeysTyped, GivesBack
      <4>2. grabbed' = grabbed /\ modsHeld' = modsHeld /\ over' = over
        BY <3>2, Zenon DEF K!CloseInput
      <4> QED
        BY <4>1, <4>2, Zenon
    <3> QED
      BY <1>1, <3>1, <3>2
  <2>4. host' \subseteq host /\ gone' \in BOOLEAN /\ over' \in BOOLEAN
    BY <1>1 DEF K!CloseInput, K!EndRun, KeysInv, KeysTyped
  <2>5. KeysTyped'
    BY <2>1, <2>3, <2>4 DEF KeysInv, KeysTyped
  <2>6. GivesBack'
    BY <2>1, <2>2, <2>3 DEF KeysInv, GivesBack, Gets
  <2>7. PressesEnd'
    BY <2>1, <2>2 DEF KeysInv, PressesEnd, GoesDown, LetsGo, K!SymOf
  <2>8. HeldForCause'
    BY <2>1 DEF HeldForCause
  <2> QED
    BY <2>5, <2>6, <2>7, <2>8 DEF KeysInv
<1>2. ASSUME UNCHANGED keyVars PROVE KeysInv'
  <2>1. UNCHANGED <<platform, remap, grabbed, modsHeld, foreground, events, phys, osCtrl,
                    glfwDown, host, gone, over, combo, overtaken>>
    BY <1>2 DEF keyVars
  <2>2. /\ \A w, i : LosesAfter(w, i)' = LosesAfter(w, i)
        /\ \A w, k, i : EndsAfter(w, k, i)' = EndsAfter(w, k, i)
    BY <2>1, QueueStays
  <2>3. KeysTyped' /\ GivesBack'
    BY <2>1, <2>2 DEF KeysInv, KeysTyped, GivesBack, Gets
  <2>4. PressesEnd'
    BY <2>1, <2>2 DEF KeysInv, PressesEnd, GoesDown, LetsGo, K!SymOf
  <2>5. HeldForCause'
    BY <2>1, <2>2 DEF KeysInv, HeldForCause, ByHook, ByWindow, LetsGo, K!SymOf
  <2> QED
    BY <2>3, <2>4, <2>5 DEF KeysInv
<1>3. ASSUME NEW k \in K!KeyNames, K!Press(k) PROVE KeysInv'
  <2>1. CASE K!HookKeeps(k, TRUE)
    BY <1>3, <2>1, HookPresses
  <2>2. CASE K!Queued(k, TRUE)
    <3>1. /\ phys' = (IF TRUE THEN phys \cup {k} ELSE phys \ {k})
          /\ UNCHANGED <<platform, remap, grabbed, foreground, glfwDown, gone, over>>
      BY <1>3 DEF K!Press
    <3> QED
      BY <2>2, <3>1, KeyQueues
  <2> QED
    BY <1>3, <2>1, <2>2 DEF K!Press
<1>4. ASSUME NEW k \in K!KeyNames, K!Release(k) PROVE KeysInv'
  <2>1. CASE K!HookKeeps(k, FALSE)
    BY <1>4, <2>1, HookReleases
  <2>2. CASE K!Queued(k, FALSE)
    <3>1. /\ phys' = (IF FALSE THEN phys \cup {k} ELSE phys \ {k})
          /\ UNCHANGED <<platform, remap, grabbed, foreground, glfwDown, gone, over>>
      BY <1>4 DEF K!Release
    <3> QED
      BY <2>2, <3>1, KeyQueues
  <2> QED
    BY <1>4, <2>1, <2>2 DEF K!Release
<1> QED
  BY <1>1, <1>2, <1>3, <1>4, FocusIsMoved, KeyIsPolled, FocusIsGained, FocusIsLost DEF K!KeysNext

(* What the run checks of the keyboard: with nothing queued no cause is    *)
(* left but the user.                                                      *)
LEMMA KeysHold == KeysInv => K!KeysTypeOK /\ K!KeysLetGo /\ K!KeyboardGivenBack
<1> SUFFICES ASSUME KeysInv PROVE K!KeysTypeOK /\ K!KeysLetGo /\ K!KeyboardGivenBack
  OBVIOUS
<1>1. K!KeysTypeOK
  BY DEF KeysInv, KeysTyped, K!KeysTypeOK
<1>2. events = <<>> => DOMAIN events = {}
  OBVIOUS
<1>3. events = <<>> => (\A w, i : ~LosesAfter(w, i)) /\ (\A w, k, i : ~EndsAfter(w, k, i))
  BY <1>2 DEF LosesAfter, EndsAfter
<1>4. K!KeysLetGo
  <2> SUFFICES ASSUME events = <<>>, ~gone, ~over, NEW s \in host \ (combo \cup overtaken)
               PROVE  foreground \in K!KeyWindows /\ \E k \in phys : s \in {k, K!SymOf(k)}
    BY DEF K!KeysLetGo
  <2>1. CASE ByHook(s)
    BY <1>3, <2>1 DEF ByHook, K!KeyWindows
  <2>2. CASE ByWindow(s)
    BY <1>3, <2>2 DEF ByWindow, LetsGo
  <2> QED
    BY <2>1, <2>2 DEF KeysInv, HeldForCause
<1>5. K!KeyboardGivenBack
  BY <1>3 DEF KeysInv, GivesBack, K!KeyboardGivenBack
<1> QED
  BY <1>1, <1>4, <1>5

(* What the run checks of the pointer.                                     *)
LEMMA PointerHolds == PointerInv => P!PointerTypeOK /\ P!ButtonsAgree /\ P!WheelKept
BY DEF PointerInv, PointerTyped, P!PointerTypeOK

(* The host has no key and no button down that the user has let go, on     *)
(* whichever path the press and the release went, the keyboard is given    *)
(* back when the focus leaves, and no turn of the wheel is lost (app.py,   *)
(* keyboard_grab.py, input.py).                                            *)
THEOREM InputIsLetGo == AllSpec => []InputLetsGo
<1>1. AllInit => KeysInv /\ PointerInv
  BY KeysInitially, PointerInitially DEF AllInit
<1>2. KeysInv /\ PointerInv /\ [AllNext]_allVars => (KeysInv /\ PointerInv)'
  BY EachDecoderView, KeysStep, PointerStep
<1>3. KeysInv /\ PointerInv => InputLetsGo
  BY KeysHold, PointerHolds DEF InputLetsGo
<1> QED
  BY <1>1, <1>2, <1>3, PTL DEF AllSpec

=============================================================================
