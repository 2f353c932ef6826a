--------------------------- MODULE MCAccessUnits ---------------------------
(* Small streams for TLC, of either codec.  Sequence numbers wrap inside a *)
(* unit.                                                                   *)
EXTENDS AccessUnits

(* A three-packet unit across the wrap among one-packet ones. *)
MCStream == <<1, 2, 2, 2, 3, 4>>
=============================================================================
