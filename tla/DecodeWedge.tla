------------------------------ MODULE DecodeWedge ------------------------------
(***************************************************************************)
(* What hevc.py does about a codec that gives nothing back: the two        *)
(* counters, the set of tiles that wait for an IDR, and the request for    *)
(* one.  Of the gate only what the wedge reads and sets is kept (the whole *)
(* is module QualityGate); the host is external.                           *)
(***************************************************************************)
EXTENDS Naturals, Sequences

CONSTANTS
  Tiles,        \* the tiles; 0 is the one the host sends IDRs on
  Limit,        \* _HWACCEL_SILENT_NALU_LIMIT
  Backlog,     \* bound: units that wait for the worker
  MaxJams,      \* bound: times the codec jams
  MaxLost       \* bound: requests the host does not answer

WedgeAssumption == 0 \in Tiles /\ {Limit, Backlog, MaxJams, MaxLost} \subseteq Nat

VARIABLES
  perTile,      \* _PERTILE_RECOVERY
  rooted,       \* _dpb_has_idr
  awaiting,     \* _tiles_await_idr
  streak,       \* _eagain_streak
  silent,       \* _silent_nalus
  recovering,   \* _recovery_in_progress
  errored,      \* the gate: tiles with bad_streak > 0
  required,     \* the gate: some tile needs a keyframe
  waiting,      \* _queue
  jam,          \* the codec: "none", "mute" (takes units), "full" (EAGAIN)
  asked,        \* a FIR is on its way to the host
  since,        \* units decoded without a publish, as the watchdog sees them
  jams, lost

stateVars == <<perTile, rooted, awaiting, streak, silent, recovering>>
gateVars == <<errored, required>>
vars == <<stateVars, gateVars, waiting, jam, asked, since, jams, lost>>

(* An IDR comes on tile 0: in answer to a FIR, or by the host's own rhythm.*)
Units == [tile : Tiles, key : {FALSE}] \cup [tile : {0}, key : {TRUE}]

Arrive ==
  /\ Len(waiting) < Backlog
  /\ \E new \in Units : waiting' = Append(waiting, new) /\ (new.key => ~asked)
  /\ UNCHANGED <<stateVars, gateVars, jam, asked, since, jams, lost>>

Answer ==
  /\ asked /\ asked' = FALSE /\ Len(waiting) < Backlog
  /\ waiting' = Append(waiting, [tile |-> 0, key |-> TRUE])
  /\ UNCHANGED <<stateVars, gateVars, jam, since, jams, lost>>

LoseRequest ==
  /\ asked /\ asked' = FALSE /\ lost < MaxLost /\ lost' = lost + 1
  /\ UNCHANGED <<stateVars, gateVars, waiting, jam, since, jams>>

Jam ==
  /\ jam = "none" /\ jams < MaxJams /\ jams' = jams + 1
  /\ jam' \in {"mute", "full"}
  /\ UNCHANGED <<stateVars, gateVars, waiting, asked, since, lost>>

(* A counter, as far as it is compared. *)
Older(n) == IF n < Limit THEN n + 1 ELSE n

-----------------------------------------------------------------------------
(* The unit at the head (_decode_one) *)

u == Head(waiting)
Rooted == rooted \/ u.key
Awaiting == IF u.key THEN {} ELSE awaiting
Passes == u.key \/ (rooted /\ u.tile \notin awaiting)

Refused ==
  /\ waiting # <<>> /\ ~Passes /\ waiting' = Tail(waiting) /\ since' = Older(since)
  /\ UNCHANGED <<stateVars, gateVars, jam, asked, jams, lost>>

(* Slip: an IDR leaves the tiles that wait for it waiting. *)
PublishesSlip ==
  /\ waiting # <<>> /\ Passes /\ waiting' = Tail(waiting)
  /\ jam = "none" \/ u.key
  /\ jam' = "none" /\ since' = 0
  /\ rooted' = Rooted /\ awaiting' = awaiting
  /\ streak' = 0 /\ silent' = 0 /\ recovering' = FALSE
  /\ \/ errored' = errored \cup {u.tile} /\ required' = TRUE
     \/ errored' = errored \ {u.tile} /\ required' = (required /\ errored' # {})
  /\ UNCHANGED <<perTile, asked, jams, lost>>

(* A picture comes out: the wedge is over. *)
Publishes ==
  /\ waiting # <<>> /\ Passes /\ waiting' = Tail(waiting)
  /\ jam = "none" \/ u.key
  /\ jam' = "none" /\ since' = 0
  /\ rooted' = Rooted /\ awaiting' = Awaiting
  /\ streak' = 0 /\ silent' = 0 /\ recovering' = FALSE
  /\ \/ errored' = errored \cup {u.tile} /\ required' = TRUE
     \/ errored' = errored \ {u.tile} /\ required' = (required /\ errored' # {})
  /\ UNCHANGED <<perTile, asked, jams, lost>>

(* _try_recovery: deltas of the flagged tiles, of all when none is flagged,*)
(* are refused until an IDR, and what waits in the queue is dropped.         *)
TryRecovery(flagged) ==
  /\ IF perTile
     THEN /\ awaiting' = Awaiting \cup (IF flagged = {} THEN Tiles ELSE flagged)
          /\ rooted' = Rooted
     ELSE rooted' = FALSE /\ awaiting' = Awaiting
  /\ waiting' = <<>>

(* The codec takes the unit and gives nothing back. *)
Mute ==
  /\ waiting # <<>> /\ Passes /\ jam = "mute" /\ since' = Older(since)
  /\ IF silent >= Limit /\ ~recovering
     THEN TryRecovery(errored) /\ recovering' = TRUE /\ silent' = 0
     ELSE /\ silent' = Older(silent) /\ UNCHANGED recovering
          /\ rooted' = Rooted /\ awaiting' = Awaiting /\ waiting' = Tail(waiting)
  /\ streak' = 0
  /\ UNCHANGED <<perTile, gateVars, jam, asked, jams, lost>>

(* decode raises: EAGAIN marks nothing until the streak is a wedge, any    *)
(* other error marks its tile.                                             *)
Raises(again) ==
  /\ waiting # <<>> /\ Passes /\ since' = Older(since)
  /\ IF again THEN jam = "full" ELSE jam # "mute"
  /\ LET wedge == streak + 1 >= Limit /\ ~recovering
         marked == IF again /\ ~wedge THEN errored ELSE errored \cup {u.tile}
     IN  /\ errored' = marked /\ required' = (required \/ ~again \/ wedge)
         /\ IF wedge
            THEN TryRecovery(marked) /\ recovering' = TRUE /\ streak' = 0
            ELSE /\ streak' = Older(streak) /\ UNCHANGED recovering
                 /\ rooted' = Rooted /\ awaiting' = Awaiting /\ waiting' = Tail(waiting)
  /\ UNCHANGED <<perTile, silent, jam, asked, jams, lost>>

-----------------------------------------------------------------------------
(* The session around it *)

SendFir ==
  /\ required /\ ~asked /\ asked' = TRUE
  /\ UNCHANGED <<stateVars, gateVars, waiting, jam, since, jams, lost>>

(* Nothing was published for long: the codec is torn down and built anew,  *)
(* and a keyframe asked for.  _silent_nalus and _recovery_in_progress are  *)
(* not among what _teardown resets.  It waits for seconds, an answer is    *)
(* there in a fraction of one: no restart overtakes the answer.            *)
Watchdog ==
  /\ since >= Limit /\ since' = 0
  /\ ~asked /\ \A i \in DOMAIN waiting : ~waiting[i].key
  /\ rooted' = FALSE /\ awaiting' = {} /\ streak' = 0
  /\ waiting' = <<>> /\ jam' = "none"
  /\ errored' = {} /\ required' = TRUE
  /\ UNCHANGED <<perTile, silent, recovering, asked, jams, lost>>

Init ==
  /\ perTile \in BOOLEAN /\ rooted \in BOOLEAN /\ awaiting = {} /\ streak = 0 /\ silent = 0
  /\ recovering = FALSE /\ errored = {} /\ required = ~rooted
  /\ waiting = <<>> /\ jam = "none" /\ asked = FALSE /\ since = 0
  /\ jams = 0 /\ lost = 0

Worker == Refused \/ Publishes \/ Mute \/ \E again \in BOOLEAN : Raises(again)

Next == Arrive \/ Answer \/ LoseRequest \/ Jam \/ Worker \/ SendFir \/ Watchdog

Spec == Init /\ [][Next]_vars

(* The host goes on sending and answers, the threads go on, and an IDR that*)
(* reaches a healthy codec again and again decodes.                        *)
Fairness ==
  /\ WF_vars(Arrive) /\ SF_vars(Answer) /\ WF_vars(Worker)
  /\ WF_vars(SendFir) /\ WF_vars(Watchdog)
  /\ SF_vars(Publishes /\ u.key)
FairSpec == Spec /\ Fairness

-----------------------------------------------------------------------------

TypeOK ==
  /\ perTile \in BOOLEAN /\ rooted \in BOOLEAN /\ awaiting \subseteq Tiles
  /\ streak \in 0 .. Limit /\ silent \in 0 .. Limit /\ recovering \in BOOLEAN
  /\ errored \subseteq Tiles /\ required \in BOOLEAN
  /\ waiting \in Seq(Units) /\ Len(waiting) <= Backlog
  /\ jam \in {"none", "mute", "full"} /\ asked \in BOOLEAN
  /\ since \in 0 .. Limit /\ jams \in 0 .. MaxJams /\ lost \in 0 .. MaxLost

(* A tile whose deltas are refused decodes again, whatever jammed the codec*)
(* and whichever path noticed it, though the silent path asks for nothing. *)
AwaitEnds == (~rooted \/ awaiting # {}) ~> (rooted /\ awaiting = {})

(* The comment of _try_recovery: its caller has requested a keyframe.  The *)
(* silent path has not: only the watchdog's restart asks for one.          *)
WedgeIsAsked == awaiting # {} => required
=============================================================================
