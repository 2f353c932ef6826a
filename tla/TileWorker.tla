------------------------------ MODULE TileWorker ------------------------------
(***************************************************************************)
(* The life of a decoder that works on a thread of its own: hevc.py and    *)
(* qsvhevc.py.  Thread "video" feeds units and adopts streams and          *)
(* parameter sets; "tx" runs the watchdogs; "main" closes.  Each test and  *)
(* use of an attribute that another thread may assign is a step of its     *)
(* own, and a step that uses an attribute somebody has cleared raises.     *)
(***************************************************************************)
EXTENDS Naturals, Sequences, FiniteSets

CONSTANTS
  Workers,      \* names of worker threads and of their queues, used again
  QueueMax,     \* _QUEUE_MAX
  MaxRestarts,  \* bound: restarts that no stall asked for
  Nobody        \* no worker, no queue

ASSUME TileWorkerAssumption ==
  /\ Nobody \notin Workers
  /\ QueueMax \in Nat \ {0} /\ MaxRestarts \in Nat

VARIABLES
  make,         \* "hevc" or "qsv"
  codec,        \* _codec is there
  worker, queue, stop,   \* _worker, _queue, _stop
  items,        \* per queue: what waits in it
  wpc,          \* per worker: where it is
  wqueue,       \* per worker: the queue it took a reference to
  fpc, unit,    \* the video thread's feed: where it is, and is there a unit
  fresh,        \* the queue and worker it is about to install
  rpc,          \* per thread: where its restart or close is
  joins,        \* per thread: the worker it joins
  restarts      \* restarts so far that no stall asked for

codecVars == <<make, codec>>
workerVars == <<worker, queue, stop, items>>
loopVars == <<wpc, wqueue>>
feedVars == <<fpc, unit, fresh>>
lifeVars == <<rpc, joins, restarts>>
vars == <<codecVars, workerVars, loopVars, feedVars, lifeVars>>

Threads == {"video", "tx", "main"}

Alive(w) == wpc[w] \notin {"none", "dead"}
Lives == worker # Nobody /\ (worker \in Workers => Alive(worker))
Free(w) == /\ ~Alive(w) /\ w \notin {worker, queue, fresh}
           /\ \A t \in Threads : joins[t] # w
           /\ \A v \in Workers : Alive(v) => wqueue[v] # w
Decoding == {w \in Workers : wpc[w] = "decode"}

-----------------------------------------------------------------------------
(* The worker (_worker_loop, _decode_one, _decode_au) *)

Goes(w, pc) == wpc' = [wpc EXCEPT ![w] = pc]
Ends(w) == Goes(w, "dead") /\ wqueue' = [wqueue EXCEPT ![w] = Nobody]

(* It keeps the queue it finds when it starts. *)
WorkerBegin(w) ==
  /\ wpc[w] = "begin"
  /\ wqueue' = [wqueue EXCEPT ![w] = queue]
  /\ Goes(w, IF queue = Nobody THEN "dead" ELSE "loop")
  /\ UNCHANGED <<codecVars, workerVars, feedVars, lifeVars>>

WorkerLoop(w) ==
  /\ wpc[w] = "loop"
  /\ IF stop THEN Ends(w) ELSE Goes(w, "take") /\ UNCHANGED wqueue
  /\ UNCHANGED <<codecVars, workerVars, feedVars, lifeVars>>

(* q.get: a unit, the end mark, or nothing within its time limit. *)
WorkerTake(w) ==
  /\ wpc[w] = "take"
  /\ LET q == wqueue[w]
     IN  IF items[q] = <<>>
         THEN Goes(w, "loop") /\ UNCHANGED <<items, wqueue>>
         ELSE /\ items' = [items EXCEPT ![q] = Tail(@)]
              /\ IF Head(items[q]) = "end"
                 THEN Ends(w)
                 ELSE Goes(w, "gate") /\ UNCHANGED wqueue
  /\ UNCHANGED <<codecVars, worker, queue, stop, feedVars, lifeVars>>

(* What is tested before the lock: a codec, and by hevc.py that a unit has *)
(* a root to be decoded from (module DecodeWedge); a unit may fail it.     *)
WorkerGate(w) ==
  /\ wpc[w] = "gate"
  /\ \/ Goes(w, "lock") /\ codec
     \/ Goes(w, "loop") /\ (codec => make = "hevc")
  /\ UNCHANGED <<codecVars, workerVars, wqueue, feedVars, lifeVars>>

(* Slip: the codec is not tested again inside the lock. *)
WorkerLockSlip(w) ==
  /\ wpc[w] = "lock" /\ Decoding = {} /\ Goes(w, "decode")
  /\ UNCHANGED <<codecVars, workerVars, wqueue, feedVars, lifeVars>>

WorkerLock(w) ==
  /\ wpc[w] = "lock" /\ Decoding = {}
  /\ Goes(w, IF codec THEN "decode" ELSE "loop")
  /\ UNCHANGED <<codecVars, workerVars, wqueue, feedVars, lifeVars>>

(* Decoded, and the lock is released. *)
WorkerDecoded(w) ==
  /\ wpc[w] = "decode" /\ Goes(w, "loop")
  /\ UNCHANGED <<make, codec, workerVars, wqueue, feedVars, lifeVars>>

-----------------------------------------------------------------------------
(* The feed of the video thread (feed_burst, feed_nalu, _submit_au) *)

FeedTo(pc) == fpc' = pc /\ UNCHANGED fresh

(* The burst is decoded on the connecting thread before any other runs; it *)
(* may be empty.  The worker of qsvhevc.py is started with it.          *)
Burst ==
  /\ fpc = "burst" /\ FeedTo(IF make = "qsv" THEN "start" ELSE "idle")
  /\ UNCHANGED <<make, codec, workerVars, loopVars, unit, lifeVars>>

Feed ==
  /\ fpc = "idle" /\ rpc["video"] = "idle" /\ rpc["main"] = "idle"
  /\ unit' = TRUE
  /\ FeedTo("check")
  /\ UNCHANGED <<codecVars, workerVars, loopVars, lifeVars>>

FeedCheck ==
  /\ fpc = "check"
  /\ FeedTo(IF queue # Nobody /\ Lives THEN "put" ELSE "start")
  /\ UNCHANGED <<codecVars, workerVars, loopVars, unit, lifeVars>>

(* _start_worker: no second worker beside one that lives. *)
StartTest ==
  /\ fpc = "start"
  /\ IF Lives
     THEN FeedTo("put") /\ UNCHANGED stop
     ELSE FeedTo("install") /\ stop' = FALSE
  /\ UNCHANGED <<codecVars, worker, queue, items, loopVars, unit, lifeVars>>

(* The names are interchangeable: any free one will do. *)
StartQueue ==
  /\ fpc = "install" /\ fresh = Nobody
  /\ \E w \in Workers : Free(w)
  /\ LET n == CHOOSE w \in Workers : Free(w)
     IN  queue' = n /\ fresh' = n /\ items' = [items EXCEPT ![n] = <<>>]
  /\ UNCHANGED <<codecVars, worker, stop, loopVars, fpc, unit, lifeVars>>

StartThread ==
  /\ fpc = "install" /\ fresh # Nobody
  /\ worker' = fresh /\ fpc' = "run"
  /\ UNCHANGED <<codecVars, queue, stop, items, loopVars, unit, fresh, lifeVars>>

(* self._worker.start() raises when a restart has cleared the attribute. *)
StartRun ==
  /\ fpc = "run" /\ fresh' = Nobody
  /\ IF worker = Nobody
     THEN fpc' = "idle" /\ unit' = FALSE /\ UNCHANGED wpc
     ELSE fpc' = "put" /\ Goes(worker, "begin") /\ UNCHANGED unit
  /\ UNCHANGED <<codecVars, workerVars, wqueue, lifeVars>>

(* An item that finds no room, or no queue, is dropped. *)
Put(x) ==
  items' = IF queue = Nobody THEN items
           ELSE IF Len(items[queue]) >= QueueMax THEN items
           ELSE [items EXCEPT ![queue] = Append(@, x)]

FeedPut ==
  /\ fpc = "put" /\ FeedTo("idle") /\ unit' = FALSE
  /\ IF unit THEN Put("unit") ELSE UNCHANGED items
  /\ UNCHANGED <<codecVars, worker, queue, stop, loopVars, lifeVars>>

-----------------------------------------------------------------------------
(* Restart, rebuild and close *)

RunsTo(t, pc) == rpc' = [rpc EXCEPT ![t] = pc]

(* A restart has cut the feed off: a worker lives, no queue leads to it.   *)
CutOff == queue = Nobody /\ Lives
Stalled == CutOff /\ \A t \in Threads : rpc[t] = "idle"

(* restart() of hevc.py: the video thread between two feeds, the watchdog  *)
(* at any time, and without a bound when nothing comes out.  qsvhevc.py    *)
(* ignores it, and rebuilds when it is given another SPS.                  *)
RestartBegin(t) ==
  /\ rpc[t] = "idle" /\ rpc["main"] = "idle" /\ fpc # "burst"
  /\ t = "video" => fpc = "idle"
  /\ t = "tx" => make = "hevc"
  /\ IF t = "tx" /\ Stalled THEN UNCHANGED restarts
     ELSE restarts < MaxRestarts /\ restarts' = restarts + 1
  /\ RunsTo(t, "flag")
  /\ UNCHANGED <<codecVars, workerVars, loopVars, feedVars, joins>>

(* close, after the session's threads have ended. *)
CloseBegin ==
  /\ rpc["main"] = "idle"
  /\ fpc = "idle" /\ rpc["video"] = "idle" /\ rpc["tx"] = "idle"
  /\ RunsTo("main", "flag")
  /\ UNCHANGED <<codecVars, workerVars, loopVars, feedVars, joins, restarts>>

(* Slip: without a queue there is nothing to stop. *)
StopFlagSlip(t) ==
  /\ rpc[t] = "flag"
  /\ IF worker = Nobody \/ queue = Nobody
     THEN RunsTo(t, "codec") /\ UNCHANGED stop
     ELSE RunsTo(t, "mark") /\ stop' = TRUE
  /\ UNCHANGED <<codecVars, worker, queue, items, loopVars, feedVars, joins, restarts>>

(* _stop_worker, one attribute at a time. *)
StopFlag(t) ==
  /\ rpc[t] = "flag"
  /\ IF worker = Nobody
     THEN RunsTo(t, "codec") /\ UNCHANGED stop
     ELSE RunsTo(t, "mark") /\ stop' = TRUE
  /\ UNCHANGED <<codecVars, worker, queue, items, loopVars, feedVars, joins, restarts>>

StopMark(t) ==
  /\ rpc[t] = "mark" /\ RunsTo(t, "join")
  /\ Put("end")
  /\ UNCHANGED <<codecVars, worker, queue, stop, loopVars, feedVars, joins, restarts>>

(* The join; an attribute that another thread cleared makes it raise. *)
StopJoin(t) ==
  /\ rpc[t] = "join" /\ joins[t] = Nobody
  /\ IF worker = Nobody
     THEN RunsTo(t, IF t = "main" THEN "closed" ELSE "idle") /\ UNCHANGED joins
     ELSE joins' = [joins EXCEPT ![t] = worker] /\ UNCHANGED rpc
  /\ UNCHANGED <<codecVars, workerVars, loopVars, feedVars, restarts>>

(* It ends with the worker, or after 2 s: the worker is inside the codec,  *)
(* or goes on because a feed has lowered the flag.                         *)
StopJoined(t) ==
  /\ rpc[t] = "join" /\ joins[t] # Nobody
  /\ \/ ~Alive(joins[t])
     \/ wpc[joins[t]] = "decode" \/ ~stop
  /\ joins' = [joins EXCEPT ![t] = Nobody] /\ worker' = Nobody
  /\ RunsTo(t, "unlink")
  /\ UNCHANGED <<codecVars, queue, stop, items, loopVars, feedVars, restarts>>

StopUnlink(t) ==
  /\ rpc[t] = "unlink" /\ queue' = Nobody /\ RunsTo(t, "codec")
  /\ UNCHANGED <<codecVars, worker, stop, items, loopVars, feedVars, joins, restarts>>

(* _teardown: the codec is dropped under its lock. *)
DropCodec(t) ==
  /\ rpc[t] = "codec" /\ Decoding = {}
  /\ codec' = FALSE /\ RunsTo(t, "reset")
  /\ UNCHANGED <<make, workerVars, loopVars, feedVars, joins, restarts>>

(* The state beside the codec is reset after the lock. *)
ResetState(t) ==
  /\ rpc[t] = "reset"
  /\ RunsTo(t, IF t = "main" THEN "closed" ELSE "create")
  /\ UNCHANGED <<make, codec, workerVars, loopVars, feedVars, joins, restarts>>

(* _create_codec; a rebuild starts the worker as well. *)
CreateCodec(t) ==
  /\ rpc[t] = "create" /\ RunsTo(t, "idle") /\ codec' = TRUE
  /\ IF make = "qsv" THEN FeedTo("start") ELSE UNCHANGED <<fpc, fresh>>
  /\ UNCHANGED <<make, workerVars, loopVars, unit, joins, restarts>>

-----------------------------------------------------------------------------

Init ==
  /\ make \in {"hevc", "qsv"} /\ codec = TRUE
  /\ worker = Nobody /\ queue = Nobody /\ stop = FALSE
  /\ items = [w \in Workers |-> <<>>]
  /\ wpc = [w \in Workers |-> "none"] /\ wqueue = [w \in Workers |-> Nobody]
  /\ fpc = "burst" /\ unit = FALSE /\ fresh = Nobody
  /\ rpc = [t \in Threads |-> "idle"] /\ joins = [t \in Threads |-> Nobody]
  /\ restarts = 0

Worker(w) ==
  \/ WorkerBegin(w) \/ WorkerLoop(w) \/ WorkerTake(w)
  \/ WorkerGate(w) \/ WorkerLock(w) \/ WorkerDecoded(w)
Feeder ==
  \/ Burst \/ FeedCheck \/ StartTest \/ StartQueue \/ StartThread \/ StartRun \/ FeedPut
Stop(t) ==
  \/ StopFlag(t) \/ StopMark(t) \/ StopJoin(t) \/ StopJoined(t) \/ StopUnlink(t)
  \/ DropCodec(t) \/ ResetState(t) \/ CreateCodec(t)

Next ==
  \/ Feed \/ Feeder \/ CloseBegin
  \/ \E w \in Workers : Worker(w)
  \/ \E t \in {"video", "tx"} : RestartBegin(t)
  \/ \E t \in Threads : Stop(t)

Spec == Init /\ [][Next]_vars

(* Threads that have something to do go on; while nothing comes out the    *)
(* watchdog restarts.                                                      *)
Fairness ==
  /\ WF_vars(Feeder)
  /\ \A w \in Workers : WF_vars(Worker(w))
  /\ \A t \in Threads : WF_vars(Stop(t))
  /\ WF_vars(RestartBegin("tx") /\ Stalled)
FairSpec == Spec /\ Fairness

-----------------------------------------------------------------------------
(* Properties *)

TypeOK ==
  /\ make \in {"hevc", "qsv"} /\ codec \in BOOLEAN
  /\ worker \in Workers \cup {Nobody} /\ queue \in Workers \cup {Nobody}
  /\ fresh \in Workers \cup {Nobody}
  /\ stop \in BOOLEAN /\ items \in [Workers -> Seq({"unit", "end"})]
  /\ wpc \in [Workers -> {"none", "begin", "loop", "take", "gate", "lock", "decode", "dead"}]
  /\ wqueue \in [Workers -> Workers \cup {Nobody}]
  /\ fpc \in {"burst", "idle", "check", "start", "install", "run", "put"}
  /\ unit \in BOOLEAN
  /\ rpc \in [Threads -> {"idle", "flag", "mark", "join", "unlink", "codec", "reset",
                          "create", "closed"}]
  /\ joins \in [Threads -> Workers \cup {Nobody}]
  /\ restarts \in 0 .. MaxRestarts

(* The comment of _codec_lock: no codec is torn down under a thread that is*)
(* decoding with it, whatever restarts meet (the crash in libavcodec).     *)
CodecStands == Decoding # {} => codec

(* A feed that a restart cut off from its worker is not cut off for ever:  *)
(* the watchdog's next restart ends the worker that blocks a new one.      *)
FeedReturns == CutOff ~> ~CutOff

(* The class comment of hevc.py: in the steady state one worker consumes.  *)
(* It does not hold: a feed lowers the one stop flag that a worker whose   *)
(* join timed out has not seen yet.                                        *)
OneWorkerConsumes ==
  Cardinality({w \in Workers : wpc[w] \in {"gate", "lock", "decode"}}) <= 1
=============================================================================
