------------------------------- MODULE AudioSink -------------------------------
(***************************************************************************)
(* The sound of the desktop frontend (frontend/desktop/audio_sink.py): the *)
(* audio thread of the session feeds chunks into a queue, the callback of  *)
(* the sound device drains it a block at a time, the main thread opens and *)
(* stops the device.  A chunk may span blocks; the one being played is     *)
(* kept outside the queue, and outside its lock.                           *)
(*                                                                         *)
(* Chunks are numbered in the order they are fed and carry the time they   *)
(* were queued at.  Silent and malformed chunks never reach the queue.     *)
(***************************************************************************)
EXTENDS Integers, Sequences

CONSTANTS
  QueueCap,       (* MAX_QUEUE_CHUNKS                                         *)
  ChunkLen, Block,       (* frames in a chunk, and asked for by a callback    *)
  Late,           (* the jitter target and the slack                          *)
  MaxFeeds, MaxTicks     (* bounds: chunks, and the clock                     *)

AudioAssumption ==
  /\ {QueueCap, ChunkLen, Block} \subseteq Nat \ {0}
  /\ {Late, MaxFeeds, MaxTicks} \subseteq Nat

Silence == 0      (* no chunk                                                 *)

VARIABLES
  waiting,        (* _queue: <<chunk, time>>                                  *)
  head, headOff, headAt, (* _head, _head_off, and when it was queued          *)
  stream,         (* of the device: made, running, over                       *)
  closed,         (* _closed                                                  *)
  feeding, feedAt,       (* the chunk feed has taken on, not queued yet, and  *)
                  (* when it took it on                                       *)
  cbPc, idx, cutoff,     (* the callback                                      *)
  stopPc,
  clock, fed,
  known,          (* history: the last chunk queued when late ones were dropped *)
  heard, heardOff (* history: the last frame played                           *)

device == <<stream, closed, stopPc>>
callback == <<cbPc, idx, cutoff, known>>
feedVars == <<feeding, feedAt, fed>>
audioVars == <<waiting, head, headOff, headAt, device, feedVars, callback, clock, heard,
               heardOff>>

(* The last chunk that reached the queue. *)
Queued == IF feeding = Silence THEN fed ELSE fed - 1

Time ==
  /\ clock < MaxTicks /\ clock' = clock + 1
  /\ UNCHANGED <<waiting, head, headOff, headAt, device, feedVars, callback, heard, heardOff>>

-----------------------------------------------------------------------------
(* The audio thread *)

(* feed tests _closed, and takes the lock later. *)
FeedTest ==
  /\ feeding = Silence /\ fed < MaxFeeds /\ ~closed
  /\ fed' = fed + 1 /\ feeding' = fed + 1 /\ feedAt' = clock
  /\ UNCHANGED <<waiting, head, headOff, headAt, device, callback, clock, heard, heardOff>>

(* A full queue gives up its oldest chunk.  The clock is read between the  *)
(* test and the lock.                                                      *)
FeedAppend ==
  /\ feeding # Silence /\ feeding' = Silence
  /\ \E now \in feedAt .. clock :
       waiting' = Append(IF Len(waiting) >= QueueCap THEN Tail(waiting) ELSE waiting,
                         <<feeding, now>>)
  /\ UNCHANGED <<head, headOff, headAt, device, callback, clock, fed, feedAt, heard, heardOff>>

-----------------------------------------------------------------------------
(* The callback of the device *)

Callback ==
  /\ stream = "running" /\ cbPc = "idle" /\ cbPc' = "drop"
  /\ idx' = 0 /\ cutoff' = clock - Late
  /\ UNCHANGED <<waiting, head, headOff, headAt, device, feedVars, known, clock, heard, heardOff>>

Fresh(c) == c[2] >= cutoff

(* Slip: one late chunk is dropped, not all of them. *)
DropLateSlip ==
  /\ cbPc = "drop" /\ cbPc' = "fill"
  /\ waiting' = IF waiting # <<>> /\ ~Fresh(Head(waiting)) THEN Tail(waiting) ELSE waiting
  /\ known' = Queued
  /\ UNCHANGED <<head, headOff, headAt, device, feedVars, idx, cutoff, clock, heard, heardOff>>

(* _cb: the chunks in front that have waited too long are dropped. *)
DropLate ==
  /\ cbPc = "drop" /\ cbPc' = "fill"
  /\ \E n \in 0 .. Len(waiting) :
       /\ \A i \in 1 .. n : ~Fresh(waiting[i])
       /\ n < Len(waiting) => Fresh(waiting[n + 1])
       /\ waiting' = SubSeq(waiting, n + 1, Len(waiting))
  /\ known' = Queued
  /\ UNCHANGED <<head, headOff, headAt, device, feedVars, idx, cutoff, clock, heard, heardOff>>

(* The next chunk, when none is being played; none waits: silence.         *)
TakeHead ==
  /\ cbPc = "fill" /\ idx < Block
  /\ IF head # Silence \/ waiting = <<>>
     THEN UNCHANGED <<waiting, head, headOff, headAt>>
     ELSE /\ head' = Head(waiting)[1] /\ headAt' = Head(waiting)[2] /\ headOff' = 0
          /\ waiting' = Tail(waiting)
  /\ cbPc' = IF head' = Silence THEN "idle" ELSE "copy"
  /\ UNCHANGED <<device, feedVars, idx, cutoff, known, clock, heard, heardOff>>

(* As much of it as the block needs.  A stop whose stream did not stop has *)
(* taken it away: the callback raises, which ends the stream.              *)
CopyHead ==
  /\ cbPc = "copy"
  /\ IF head = Silence
     THEN /\ cbPc' = "idle" /\ stream' = "over"
          /\ UNCHANGED <<head, headOff, idx, heard, heardOff>>
     ELSE LET avail == ChunkLen - headOff
              n == IF avail < Block - idx THEN avail ELSE Block - idx
          IN  /\ idx' = idx + n
              /\ heard' = head /\ heardOff' = headOff + n
              /\ head' = IF n = avail THEN Silence ELSE head
              /\ headOff' = IF n = avail THEN 0 ELSE headOff + n
              /\ cbPc' = "fill" /\ UNCHANGED stream
  /\ UNCHANGED <<waiting, headAt, closed, stopPc, feedVars, cutoff, known, clock>>

BlockFull ==
  /\ cbPc = "fill" /\ idx = Block /\ cbPc' = "idle"
  /\ UNCHANGED <<waiting, head, headOff, headAt, device, feedVars, idx, cutoff, known, clock,
                 heard, heardOff>>

-----------------------------------------------------------------------------
(* The main thread *)

(* make_audio_sink: a device that does not start is closed again. *)
Start ==
  /\ stream = "made" /\ stopPc = "none"
  /\ \/ stream' = "running" /\ UNCHANGED <<closed, stopPc>>
     \/ UNCHANGED stream /\ closed' = TRUE /\ stopPc' = "device"
  /\ UNCHANGED <<waiting, head, headOff, headAt, feedVars, callback, clock, heard, heardOff>>

Stop ==
  /\ stopPc = "none" /\ stream # "made"
  /\ closed' = TRUE /\ stopPc' = "device"
  /\ UNCHANGED <<waiting, head, headOff, headAt, stream, feedVars, callback, clock,
                 heard, heardOff>>

(* The device waits for the callback; if stopping it fails, it is not      *)
(* closed either.                                                          *)
StopDevice ==
  /\ stopPc = "device" /\ stopPc' = "clear"
  /\ \/ cbPc = "idle" /\ stream' = "over"
     \/ stream = "running" /\ UNCHANGED stream
  /\ UNCHANGED <<waiting, head, headOff, headAt, closed, feedVars, callback, clock,
                 heard, heardOff>>

StopClears ==
  /\ stopPc = "clear" /\ stopPc' = "done"
  /\ waiting' = <<>> /\ head' = Silence /\ headOff' = 0
  /\ UNCHANGED <<headAt, stream, closed, feedVars, callback, clock, heard, heardOff>>

-----------------------------------------------------------------------------

AudioInit ==
  /\ waiting = <<>> /\ head = Silence /\ headOff = 0 /\ headAt = 0
  /\ stream = "made" /\ closed = FALSE /\ stopPc = "none" /\ feeding = Silence /\ feedAt = 0
  /\ cbPc = "idle" /\ idx = 0 /\ cutoff = 0 /\ clock = 0 /\ fed = 0
  /\ known = 0 /\ heard = Silence /\ heardOff = 0

AudioNext ==
  \/ Time \/ FeedTest \/ FeedAppend
  \/ Callback \/ DropLate \/ TakeHead \/ CopyHead \/ BlockFull
  \/ Start \/ Stop \/ StopDevice \/ StopClears

-----------------------------------------------------------------------------

AudioTypeOK ==
  /\ Len(waiting) <= QueueCap /\ head \in 0 .. MaxFeeds /\ headOff \in 0 .. ChunkLen
  /\ stream \in {"made", "running", "over"} /\ idx \in 0 .. Block
  /\ stopPc \in {"none", "device", "clear", "done"}

(* Sound is played in the order it was fed, each frame once and no chunk   *)
(* begun twice; no chunk is begun that was too late for its block when the *)
(* late ones were dropped; and a device that was stopped plays nothing and keeps    *)
(* nothing but a chunk whose feed had passed the test.                     *)
SoundInOrder ==
  /\ \A i, j \in DOMAIN waiting : i < j => waiting[i][1] < waiting[j][1]
  /\ \A i \in DOMAIN waiting : waiting[i][1] > heard /\ waiting[i][1] > head
  /\ head # Silence =>
       \/ head = heard /\ headOff = heardOff
       \/ head > heard /\ headOff = 0
  /\ cbPc = "copy" /\ head # Silence /\ headOff = 0 /\ head <= known => headAt >= cutoff
  /\ stopPc = "done" /\ stream = "over" =>
       cbPc = "idle" /\ head = Silence /\ Len(waiting) <= 1
=============================================================================
