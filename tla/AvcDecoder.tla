------------------------------ MODULE AvcDecoder ------------------------------
(***************************************************************************)
(* The H.264 decoder (proxy/media/avc.py), which decodes on the thread that*)
(* feeds it, under its codec lock.  Thread "video" feeds, drops holed      *)
(* access units and adopts streams; "tx" restarts; "main" closes.  The key *)
(* gate is tested before the lock, so another thread may restart between.  *)
(***************************************************************************)
EXTENDS Naturals

CONSTANTS
  Keys,         \* bound: intra pictures the host sends
  MaxRebuilds   \* bound: restarts

AvcAssumption == {Keys, MaxRebuilds} \subseteq Nat

VARIABLES
  open,         \* _codec is there
  context,      \* what the codec can build on: nothing, an intra picture, or
                \* a reference chain with a hole
  awaitKey,     \* _await_key
  pending,      \* _reference_reset_pending
  hwFailed,     \* _hw_failed
  hardware,     \* _hw_name is set
  feeding,      \* the unit that has passed the key gate, "none" between feeds
  shown,        \* what the last published picture was decoded from
  keys, rebuilds, closed

codecVars == <<open, context, awaitKey, pending>>
hwVars == <<hwFailed, hardware>>
countVars == <<keys, rebuilds, closed>>
vars == <<codecVars, hwVars, feeding, shown, countVars>>

(* feed_nalu up to the lock: a delta needs a key behind it. *)
Feed ==
  /\ feeding = "none" /\ ~closed
  /\ \/ feeding' = "delta" /\ ~awaitKey /\ UNCHANGED keys
     \/ feeding' = "key" /\ keys < Keys /\ keys' = keys + 1
  /\ UNCHANGED <<codecVars, hwVars, shown, rebuilds, closed>>

(* A key that finds a broken chain closes the codec first. *)
Resets == feeding = "key" /\ pending
Fresh == Resets \/ ~open
Entering == IF Fresh THEN "empty" ELSE context

(* Slip: the key lowers the flag, and the poisoned codec stays. *)
DecodedSlip ==
  /\ feeding # "none" /\ feeding' = "none"
  /\ open' = TRUE /\ hardware' = hardware
  /\ pending' = FALSE /\ awaitKey' = FALSE
  /\ context' = IF feeding = "key" /\ context = "empty" THEN "whole" ELSE context
  /\ shown' = context'
  /\ UNCHANGED <<hwFailed, countVars>>

(* The unit decodes, and its picture is published unless a reset is due. *)
Decoded ==
  /\ feeding # "none" /\ feeding' = "none"
  /\ open' = TRUE /\ hardware' = IF Fresh THEN ~hwFailed ELSE hardware
  /\ pending' = (pending /\ ~Resets)
  /\ awaitKey' = (feeding # "key" /\ awaitKey)
  /\ context' = IF feeding = "key" /\ Entering = "empty" THEN "whole" ELSE Entering
  /\ shown' = IF pending' THEN shown ELSE context'
  /\ UNCHANGED <<hwFailed, countVars>>

(* Inside decode libav finds a reference missing and calls back: a reset   *)
(* is due, the concealed picture is held back, and hardware that decodes   *)
(* may be given up.                                                        *)
Concealed ==
  /\ feeding = "delta" /\ feeding' = "none"
  /\ open' = TRUE /\ context' = "holed" /\ awaitKey' = TRUE /\ pending' = TRUE
  /\ hardware' = IF open THEN hardware ELSE ~hwFailed
  /\ hwFailed' \in {hwFailed, hwFailed \/ hardware'}
  /\ UNCHANGED <<shown, countVars>>

(* decode raises: the key that was to repair the chain is asked for again. *)
Raised ==
  /\ feeding # "none" /\ feeding' = "none"
  /\ open' = TRUE /\ hardware' = IF Fresh THEN ~hwFailed ELSE hardware
  /\ context' = IF Resets THEN "holed" ELSE Entering
  /\ pending' = pending
  /\ awaitKey' = (Resets \/ (feeding # "key" /\ awaitKey))
  /\ UNCHANGED <<hwFailed, shown, countVars>>

(* mark_hwaccel_failed: decoding goes on in software. *)
HwFails ==
  /\ ~hwFailed /\ hwFailed' = TRUE /\ hardware' = FALSE
  /\ UNCHANGED <<codecVars, feeding, shown, countVars>>

(* mark_reference_chain_broken, for an access unit that lost a packet. *)
Hole ==
  /\ feeding = "none" /\ ~closed
  /\ pending' = TRUE /\ awaitKey' = TRUE /\ context' = "holed"
  /\ UNCHANGED <<open, hwVars, feeding, shown, countVars>>

(* restart, all of it under the lock, from either thread. *)
Restart ==
  /\ ~closed /\ rebuilds < MaxRebuilds /\ rebuilds' = rebuilds + 1
  /\ open' = TRUE /\ context' = "empty" /\ awaitKey' = TRUE /\ pending' = FALSE
  /\ hardware' = ~hwFailed
  /\ UNCHANGED <<hwFailed, feeding, shown, keys, closed>>

(* close, after the session's threads have ended. *)
Close ==
  /\ ~closed /\ feeding = "none" /\ closed' = TRUE /\ open' = FALSE
  /\ UNCHANGED <<context, awaitKey, pending, hwVars, feeding, shown, keys, rebuilds>>

Init ==
  /\ open = TRUE /\ context = "empty" /\ awaitKey = TRUE /\ pending = FALSE
  /\ hwFailed = FALSE /\ hardware \in BOOLEAN
  /\ feeding = "none" /\ shown = "none"
  /\ keys = 0 /\ rebuilds = 0 /\ closed = FALSE

Next ==
  \/ Feed \/ Decoded \/ Concealed \/ Raised
  \/ HwFails \/ Hole \/ Restart \/ Close

Spec == Init /\ [][Next]_vars

-----------------------------------------------------------------------------

TypeOK ==
  /\ open \in BOOLEAN /\ context \in {"empty", "whole", "holed"}
  /\ awaitKey \in BOOLEAN /\ pending \in BOOLEAN
  /\ hwFailed \in BOOLEAN /\ hardware \in BOOLEAN
  /\ feeding \in {"none", "delta", "key"}
  /\ shown \in {"none", "empty", "whole", "holed"}
  /\ keys \in 0 .. Keys /\ rebuilds \in 0 .. MaxRebuilds /\ closed \in BOOLEAN

(* The comments of feed_nalu: no picture of a broken reference chain is    *)
(* published before an intra picture has re-rooted the codec, whichever    *)
(* thread restarts it meanwhile.                                           *)
HoleHidden == shown # "holed"

(* Why: a holed context is always marked for a reset. *)
HoleIsMarked == context = "holed" => pending
=============================================================================
