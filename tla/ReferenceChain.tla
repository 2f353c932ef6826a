--------------------------- MODULE ReferenceChain ---------------------------
(***************************************************************************)
(* What the video receive path promises the AVC decoder: the decoder sees  *)
(* an unbroken run of access units in RTP order, and wherever the run is   *)
(* broken it has been told so (mark_reference_chain_broken) before it is   *)
(* handed the next picture.  AccessUnits implements this specification.    *)
(***************************************************************************)
EXTENDS Integers

CONSTANTS
  SeqMod,   (* size of the RTP sequence space: 2^16 in the code       *)
  None      (* "nothing fed yet"                                      *)

VARIABLES
  lastFed,  (* sequence range of the last picture handed to the decoder *)
  hole      (* the chain was declared broken since that picture         *)

chainVars == <<lastFed, hole>>

Following(seq) == (seq + 1) % SeqMod

ChainInit == lastFed = None /\ hole = FALSE

(* A picture may only follow its immediate predecessor, unless the decoder *)
(* has nothing to refer to or knows that its references are gone.          *)
Feed ==
  /\ lastFed' \in [first : 0 .. SeqMod - 1, last : 0 .. SeqMod - 1]
  /\ lastFed = None \/ hole \/ lastFed'.first = Following(lastFed.last)
  /\ hole' = FALSE

DeclareHole == hole' = TRUE /\ UNCHANGED lastFed

ChainNext == Feed \/ DeclareHole

ChainSpec == ChainInit /\ [][ChainNext]_chainVars
=============================================================================
