------------------------------ MODULE ViewerQueue ------------------------------
(***************************************************************************)
(* From an access unit of the host to the decoder of a browser page        *)
(* (frontend/wt/server.py, static/index.html): the video thread posts      *)
(* envelopes on the asyncio loop, the loop writes them to the viewer's     *)
(* streams, the page feeds its decoder and asks for a keyframe after each  *)
(* reset.  One stream keeps the order and is not written to while it is    *)
(* backed up; a stream per frame loses the order and the page restores it. *)
(*                                                                         *)
(* The single-tile mirror: an envelope is the configuration or one unit.   *)
(* QUIC (external) delivers every stream.                                  *)
(***************************************************************************)
EXTENDS Integers, Sequences, FiniteSets

CONSTANTS
  MaxFrames,    (* bound: units the host sends unasked, over one stream       *)
  MaxStreams,   (* bound: the same, over a stream per frame                   *)
  MaxConfigs,   (* bound: configurations, over one stream                     *)
  MaxErrors,    (* bound: decode errors                                       *)
  HighWater,    (* envelopes in _SINGLE_STREAM_HIGH_WATER                     *)
  GapMax,       (* REORDER_GAP_MAX                                            *)
  Nothing

(* The first unit goes with a configuration.                               *)
QueueAssumption ==
  /\ {MaxFrames, MaxStreams, MaxErrors, HighWater, GapMax} \subseteq Nat
  /\ MaxConfigs \in Nat \ {0}

VARIABLES
  single,       (* use_single_stream                                          *)
  (* the server *)
  auSeq, cached, configs, (* _au_seq, _last_keyframe_env, configurations sent *)
  firPending,   (* _kf_req_fir_t is set                                       *)
  asked,        (* the host owes an IDR                                       *)
  posted,       (* send_frame calls queued on the loop                        *)
  gap,          (* video_discontinuity                                        *)
  frames,       (* units sent unasked so far                                  *)
  (* the network *)
  flight,       (* envelopes written and not read                             *)
  wants,        (* "keyframe" messages on their way                           *)
  (* the page *)
  built, awaitingKey, nextSeq, reorder, (* decoder, awaitingKey, nextSeq, pending *)
  gapTimed,     (* gapSince is set                                            *)
  errors,       (* decode errors so far                                       *)
  feeds         (* history: what the decoder got since it was built           *)

serverVars == <<auSeq, cached, configs, firPending, asked, frames>>
pageVars == <<built, awaitingKey, nextSeq, reorder, gapTimed, errors, feeds>>
queueVars == <<single, serverVars, posted, gap, flight, wants, pageVars>>

Config == [kind |-> "config"]
Unit(kind, seq, again) == [kind |-> kind, seq |-> seq, again |-> again]
IsKey(e) == e.kind = "key"

-----------------------------------------------------------------------------
(* The server *)

(* Slip: the stamp of a request outlives its answer. *)
OnVideoAuSlip(key, resized) ==
  LET env == Unit(IF key THEN "key" ELSE "delta", auSeq, FALSE)
      config == IF configs = 0 \/ resized THEN <<Config>> ELSE <<>>
  IN  /\ posted' = posted \o config \o <<env>>
      /\ configs' = configs + Len(config)
      /\ auSeq' = auSeq + 1
      /\ cached' = IF key THEN auSeq ELSE cached
      /\ firPending' = firPending /\ asked' = (asked /\ ~key)
      /\ UNCHANGED <<single, gap, flight, wants, pageVars>>

(* _on_video_au: the first unit, or a key of another canvas, goes with the *)
(* configuration; a key is kept for pages that reset.                      *)
OnVideoAu(key, resized) ==
  LET env == Unit(IF key THEN "key" ELSE "delta", auSeq, FALSE)
      config == IF configs = 0 \/ resized THEN <<Config>> ELSE <<>>
  IN  /\ posted' = posted \o config \o <<env>>
      /\ configs' = configs + Len(config)
      /\ auSeq' = auSeq + 1
      /\ cached' = IF key THEN auSeq ELSE cached
      /\ firPending' = (firPending /\ ~key) /\ asked' = (asked /\ ~key)
      /\ UNCHANGED <<single, gap, flight, wants, pageVars>>

HostSends ==
  /\ frames < IF single THEN MaxFrames ELSE MaxStreams
  /\ frames' = frames + 1
  /\ \/ \E key \in BOOLEAN : OnVideoAu(key, FALSE)
     \/ single /\ configs < MaxConfigs /\ OnVideoAu(TRUE, TRUE)

HostAnswers == asked /\ OnVideoAu(TRUE, FALSE) /\ UNCHANGED frames

(* A request is not repeated while one is younger than 0.3 s.              *)
RequestFir ==
  \/ firPending' = TRUE /\ asked' = TRUE
  \/ firPending /\ UNCHANGED <<firPending, asked>>

(* Slip: the drop is not remembered. *)
SendDeltaSlip(e) ==
  /\ e.kind = "delta" /\ single
  /\ IF Len(flight) > HighWater
     THEN RequestFir /\ UNCHANGED <<gap, flight>>
     ELSE flight' = Append(flight, e) /\ UNCHANGED <<gap, firPending, asked>>

(* _send_frame_single, a delta: dropped while a key is awaited, and if the *)
(* stream is backed up.                                                    *)
SendDelta(e) ==
  /\ e.kind = "delta" /\ single
  /\ IF gap THEN UNCHANGED <<gap, flight, firPending, asked>>
     ELSE IF Len(flight) > HighWater
     THEN gap' = TRUE /\ RequestFir /\ UNCHANGED flight
     ELSE flight' = Append(flight, e) /\ UNCHANGED <<gap, firPending, asked>>

(* Anything else is written, and a key ends the drops. *)
SendOther(e) ==
  /\ e.kind # "delta" \/ ~single
  /\ flight' = Append(flight, e)
  /\ gap' = (gap /\ ~IsKey(e))
  /\ UNCHANGED <<firPending, asked>>

SendFrame ==
  /\ posted # <<>> /\ posted' = Tail(posted)
  /\ SendDelta(Head(posted)) \/ SendOther(Head(posted))
  /\ UNCHANGED <<single, auSeq, cached, configs, frames, wants, pageVars>>

(* handle_input_event, "keyframe": the host is asked and the last key sent *)
(* again, unless a request is on its way.                                  *)
HandleKeyframe ==
  /\ wants > 0 /\ wants' = wants - 1
  /\ \/ /\ firPending' = TRUE /\ asked' = TRUE
        /\ posted' = IF cached = Nothing THEN posted
                     ELSE Append(posted, Unit("key", cached, TRUE))
     \/ firPending /\ UNCHANGED <<posted, firPending, asked>>
  /\ UNCHANGED <<single, auSeq, cached, configs, frames, gap, flight, pageVars>>

-----------------------------------------------------------------------------
(* The page *)

(* resetDecoder *)
ResetDecoder ==
  /\ built' = TRUE /\ awaitingKey' = TRUE
  /\ reorder' = {} /\ nextSeq' = Nothing
  /\ wants' = wants + 1
  /\ feeds' = <<>>

(* The decoder reports an error and is built again. *)
DecoderError ==
  /\ feeds # <<>> /\ errors < MaxErrors /\ errors' = errors + 1
  /\ ResetDecoder
  /\ UNCHANGED <<single, serverVars, posted, gap, flight, gapTimed>>

(* feedAU on units in their order: those before a key that is awaited are  *)
(* dropped.                                                                *)
Feed(units) ==
  LET keys == {i \in 1 .. Len(units) : IsKey(units[i])}
      starts == {i \in keys : \A j \in keys : i <= j}
  IN  /\ awaitingKey' = (awaitingKey /\ keys = {})
      /\ feeds' = feeds \o (IF ~awaitingKey THEN units
                            ELSE IF keys = {} THEN <<>>
                            ELSE SubSeq(units, CHOOSE i \in starts : TRUE, Len(units)))

(* Buffered units from n on without a gap; pending maps a seq to one unit. *)
From(p, n) ==
  LET seqs == {e.seq : e \in p}
      run == {s \in seqs : s >= n /\ n .. s \subseteq seqs}
  IN  [i \in 1 .. Cardinality(run) |-> CHOOSE e \in p : e.seq = n + i - 1]

Oldest(p) == CHOOSE n \in {e.seq : e \in p} : \A e \in p : n <= e.seq
Without(p, units) == {e \in p : \A i \in 1 .. Len(units) : units[i].seq # e.seq}

(* drainReorder: what follows nextSeq is fed; behind a gap that is too     *)
(* long or too old it goes on with the oldest unit it has.                 *)
DrainReorder(p) ==
  LET n == IF nextSeq = Nothing THEN Oldest(p) ELSE nextSeq
      ready == From(p, n)
      rest == Without(p, ready)
      skipped == From(rest, Oldest(rest))
  IN  \/ /\ rest = {} \/ Cardinality(rest) <= GapMax
         /\ Feed(ready) /\ reorder' = rest /\ nextSeq' = n + Len(ready)
         /\ gapTimed' = (rest # {})
      \/ /\ rest # {}
         /\ \/ Cardinality(rest) > GapMax
            \/ ready = <<>> /\ gapTimed
         /\ Feed(ready \o skipped) /\ reorder' = Without(rest, skipped)
         /\ nextSeq' = Oldest(rest) + Len(skipped)
         /\ gapTimed' = FALSE

(* handleEnvelope: a configuration builds a new decoder; units are ignored *)
(* before it.                                                              *)
HandleEnvelope(e) ==
  IF e = Config THEN ResetDecoder /\ UNCHANGED gapTimed
  ELSE /\ IF ~built THEN UNCHANGED <<awaitingKey, nextSeq, reorder, gapTimed, feeds>>
          ELSE IF single
          THEN Feed(<<e>>) /\ UNCHANGED <<nextSeq, reorder, gapTimed>>
          ELSE DrainReorder({f \in reorder : f.seq # e.seq} \cup {e})
       /\ UNCHANGED <<built, wants>>

(* The reader of one stream takes envelopes in order, the readers of a     *)
(* stream per frame in any.                                                *)
Read ==
  /\ \E i \in 1 .. Len(flight) :
       /\ single => i = 1
       /\ HandleEnvelope(flight[i])
       /\ flight' = SubSeq(flight, 1, i - 1) \o SubSeq(flight, i + 1, Len(flight))
  /\ UNCHANGED <<single, serverVars, posted, gap, errors>>

-----------------------------------------------------------------------------

QueueInit ==
  /\ single \in BOOLEAN
  /\ auSeq = 0 /\ cached = Nothing /\ configs = 0 /\ firPending = FALSE /\ asked = FALSE
  /\ posted = <<>> /\ gap = FALSE /\ frames = 0
  /\ flight = <<>> /\ wants = 0
  /\ built = FALSE /\ awaitingKey = TRUE /\ nextSeq = Nothing /\ reorder = {}
  /\ gapTimed = FALSE /\ errors = 0 /\ feeds = <<>>

QueueNext ==
  \/ HostSends \/ HostAnswers
  \/ SendFrame \/ HandleKeyframe
  \/ Read \/ DecoderError

(* The loop and the page run, and an IDR that is asked for comes in the    *)
(* end: request_fir marks the gate, which asks again until it does.        *)
Served == SendFrame \/ HandleKeyframe \/ Read \/ HostAnswers

QueueSpec == QueueInit /\ [][QueueNext]_queueVars /\ WF_queueVars(Served)

-----------------------------------------------------------------------------

QueueTypeOK ==
  /\ {single, firPending, asked, gap, built, awaitingKey, gapTimed} \subseteq BOOLEAN
  /\ frames \in Nat /\ configs \in 0 .. MaxConfigs /\ errors \in 0 .. MaxErrors
  /\ cached \in 0 .. auSeq - 1 \cup {Nothing} /\ wants \in Nat
  /\ nextSeq \in 0 .. auSeq \cup {Nothing}
  /\ \A e \in reorder : e.seq < auSeq
  /\ single => reorder = {}
  /\ asked => firPending

(* The last key before place i of what was fed. *)
LastKey(i) ==
  feeds[CHOOSE j \in 1 .. i : IsKey(feeds[j]) /\ \A l \in j + 1 .. i : ~IsKey(feeds[l])]

(* On one stream the decoder gets no delta whose predecessor was dropped   *)
(* (video_discontinuity, awaitingKey), whatever backs up, resets or is     *)
(* resized - except behind a key that was sent again.                      *)
WindowKeepsChain ==
  single => \A i \in 1 .. Len(feeds) :
              \/ IsKey(feeds[i])
              \/ LastKey(i).again
              \/ i > 1 /\ feeds[i].seq = feeds[i - 1].seq + 1

(* On one stream a page that waits for a key gets one, and the drops end,  *)
(* though each asks only once and the server limits the requests           *)
(* (request_keyframe, handle_input_event).                                 *)
PageServed ==
  /\ single /\ built /\ awaitingKey ~> ~awaitingKey
  /\ gap ~> ~gap

(* The comment on the reordering: units reach the decoder in the server's  *)
(* forward order.                                                          *)
ForwardOrder ==
  \A i \in 2 .. Len(feeds) : feeds[i].again \/ feeds[i].seq > feeds[i - 1].seq \/ LastKey(i).again
=============================================================================
