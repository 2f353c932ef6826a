----------------------------- MODULE QualityGate -----------------------------
(***************************************************************************)
(* FrameQualityGate of proxy/media/quality_gate.py: which tiles need a     *)
(* fresh intra picture, what clears that need, and how often a FIR (a      *)
(* request for one) is due.  Every method is one step; reset() occurs only *)
(* inside Recovery's RestartDecoder.                                       *)
(*                                                                         *)
(* A time stamp is its age in ticks, which stops growing at the longest    *)
(* interval the code compares it with; "never" is that longest age.        *)
(***************************************************************************)
EXTENDS Integers, FiniteSets

CONSTANTS
  NumTiles,   (* 1 for AVC, 4 for HEVC                                       *)
  ReArm,      (* _RE_ARM_INTERVAL_S: between two requests                    *)
  SlowReArm,  (* _RE_ARM_SLOW_INTERVAL_S: the same once the cap is reached   *)
  Cap,        (* _RE_ARM_CAP: fast requests per incident                     *)
  Grace,      (* _POST_IDR_GRACE_S: errors ignored after an intra            *)
  Quiet       (* _RECOVERY_QUIET_S: no libav reference miss for this long    *)

Tiles == 0 .. NumTiles - 1

ASSUME GateAssumption ==
  /\ {NumTiles, ReArm, SlowReArm, Cap, Grace, Quiet} \subseteq Nat \ {0}
  /\ ReArm <= SlowReArm

VARIABLES
  required,        (* _keyframe_required                                      *)
  idrSeen,         (* _idr_observed                                           *)
  attempts,        (* _fir_attempts, as far as Cap                            *)
  errored,         (* tiles with bad_streak > 0                               *)
  sinceFir,        (* age of _fir_last_t[0]                                   *)
  sinceIdr,        (* age of _idr_observed_at                                 *)
  sinceUnreliable  (* age of _last_unreliable_concealment_t                   *)

gateVars == <<required, idrSeen, attempts, errored,
              sinceFir, sinceIdr, sinceUnreliable>>

-----------------------------------------------------------------------------

Older(age, limit) == IF age < limit THEN age + 1 ELSE age

(* The tiles of ts outside their post-intra grace. *)
Heard(ts) == {t \in ts : sinceIdr[t] >= Grace}

(* mark_decode_error of every tile of ts. *)
MarkDecodeError(ts, reliable) ==
  LET newly == Heard(ts) \ required
  IN  /\ sinceUnreliable' = IF reliable THEN sinceUnreliable ELSE 0
      /\ required' = required \cup newly
      /\ errored' = errored \cup Heard(ts)
      /\ idrSeen' = idrSeen \ newly
      /\ attempts' = [t \in Tiles |-> IF t \in newly THEN 0 ELSE attempts[t]]
      /\ UNCHANGED <<sinceFir, sinceIdr>>

(* mark_idr_observed, which the decoders call for all tiles at once. *)
MarkIdrObserved(suspicious) ==
  /\ sinceIdr' = [t \in Tiles |-> 0]
  /\ idrSeen' = IF suspicious THEN idrSeen ELSE idrSeen \cup required
  /\ UNCHANGED <<required, attempts, errored, sinceFir, sinceUnreliable>>

Recovered(t) == t \in required \cap idrSeen /\ sinceUnreliable >= Quiet

(* mark_clean *)
MarkClean(t) ==
  /\ errored' = errored \ {t}
  /\ IF Recovered(t)
     THEN /\ required' = required \ {t}
          /\ idrSeen' = idrSeen \ {t}
          /\ attempts' = [attempts EXCEPT ![t] = 0]
     ELSE UNCHANGED <<required, idrSeen, attempts>>
  /\ UNCHANGED <<sinceFir, sinceIdr, sinceUnreliable>>

(* consume_fir_request returns {0}. *)
Due ==
  /\ required # {}
  /\ sinceFir >= (IF attempts[0] >= Cap THEN SlowReArm ELSE ReArm)

ConsumeFirRequest ==
  /\ sinceFir' = 0
  /\ attempts' = [attempts EXCEPT ![0] = Older(@, Cap)]
  /\ UNCHANGED <<required, idrSeen, errored, sinceIdr, sinceUnreliable>>

GateAges ==
  /\ sinceFir' = Older(sinceFir, SlowReArm)
  /\ sinceIdr' = [t \in Tiles |-> Older(sinceIdr[t], Grace)]
  /\ sinceUnreliable' = Older(sinceUnreliable, Quiet)
  /\ UNCHANGED <<required, idrSeen, attempts, errored>>

GateInit ==
  /\ required = {} /\ idrSeen = {} /\ errored = {}
  /\ attempts = [t \in Tiles |-> 0]
  /\ sinceFir = SlowReArm /\ sinceUnreliable = Quiet
  /\ sinceIdr = [t \in Tiles |-> Grace]

(* Only a tile that needs an intra waits for the clean picture after it.   *)
GateTypeOK ==
  /\ required \subseteq Tiles
  /\ idrSeen \subseteq required
  /\ attempts \in [Tiles -> 0 .. Cap]
  /\ errored \subseteq Tiles
  /\ sinceFir \in 0 .. SlowReArm
  /\ sinceIdr \in [Tiles -> 0 .. Grace]
  /\ sinceUnreliable \in 0 .. Quiet
=============================================================================
