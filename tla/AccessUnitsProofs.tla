-------------------------- MODULE AccessUnitsProofs --------------------------
(***************************************************************************)
(* Type correctness of AccessUnits and, for the AVC codec, the proof that  *)
(* it implements ReferenceChain, for every stream, sequence space and      *)
(* network bound.  The inductive invariant ties the anchor (the boundary   *)
(* the next unit must start at) to the last unit the decoder received.     *)
(*                                                                         *)
(* For streams of at most half the sequence space, three safety properties *)
(* of either codec: what is asked for again, what is fed and how often.    *)
(***************************************************************************)
EXTENDS AccessUnits, SequenceTheorems, WellFoundedInduction, TLAPS

(* Every non-empty set of naturals has a least element. *)
LEMMA LeastNatural ==
  ASSUME NEW T \in SUBSET Nat, T # {}
  PROVE  \E x \in T : \A y \in T : x <= y
<1> DEFINE R == {ss \in Nat \X Nat : ss[1] < ss[2]}
<1>1. IsWellFoundedOn(R, Nat)
  BY NatLessThanWellFounded DEF OpToRel
<1>2. \E x \in T : \A y \in T : ~ (<<y, x>> \in R)
  <2> HIDE DEF R
  <2> QED BY <1>1, WFMin
<1>3. PICK x \in T : \A y \in T : ~ (<<y, x>> \in R)
  BY <1>2
<1>4. ASSUME NEW y \in T PROVE x <= y
  <2>1. x \in Nat /\ y \in Nat /\ ~ (<<y, x>> \in R)
    BY <1>3
  <2>2. ~ (y < x)
    BY <2>1
  <2> QED BY <2>1, <2>2
<1> QED BY <1>4

(* Sequence numbers and distances stay inside the sequence space. *)
LEMMA SeqType ==
  /\ \A a \in Int : a % SeqMod \in Seqs
  /\ \A p \in Packets : SeqOf(p) \in Seqs
  /\ \A a, b \in Seqs : Dist(a, b) \in Seqs
  /\ \A a \in Seqs : Following(a) \in Seqs
<1>1. \A a \in Int : a % SeqMod \in Seqs
  BY SeqAssumption DEF Seqs
<1>2. \A p \in Packets : FirstSeq + p \in Int
  BY SeqAssumption, StreamAssumption DEF Seqs, Packets
<1>3. \A a, b \in Seqs : b - a \in Int /\ a + 1 \in Int
  BY SeqAssumption DEF Seqs
<1> QED BY <1>1, <1>2, <1>3 DEF SeqOf, Dist, Following

(* The gap before a packet of a group with another packet is a distance.   *)
LEMMA GapType ==
  ASSUME NEW grp \in SUBSET Packets, NEW p \in grp, grp \ {p} # {}
  PROVE  GapBefore(p, grp) \in Seqs
<1> DEFINE d(q) == Dist(SeqOf(q), SeqOf(p))
           T == {d(q) : q \in grp \ {p}}
           nearest(q) == \A r \in grp \ {p} : d(q) <= d(r)
<1>1. \A q \in grp : d(q) \in Seqs
  BY SeqType
<1>2. T \in SUBSET Nat /\ T # {}
  BY <1>1, SeqAssumption DEF Seqs
<1>3. PICK x \in T : \A y \in T : x <= y
  <2> HIDE DEF T
  <2> QED BY <1>2, LeastNatural
<1>4. PICK q \in grp \ {p} : nearest(q)
  BY <1>3
<1>5. (CHOOSE q2 \in grp \ {p} : nearest(q2)) \in grp \ {p}
  <2> HIDE DEF nearest
  <2> QED BY <1>4
<1> QED BY <1>1, <1>5 DEF GapBefore

(* Every non-empty group has a first packet. *)
LEMMA FirstExists ==
  ASSUME NEW grp \in SUBSET Packets, grp # {}
  PROVE  /\ FirstOf(grp) \in grp
         /\ Starts(FirstOf(grp), grp)
<1> DEFINE wraps == \E q, r \in grp : SeqOf(r) - SeqOf(q) > SeqMod \div 2
           g(q) == GapBefore(q, grp)
           before(q) == (SeqOf(q) - g(q)) % SeqMod
<1>0. \A q \in grp : SeqOf(q) \in Seqs /\ SeqOf(q) \in Int
  BY SeqType DEF Seqs
<1>1. CASE ~ wraps
  <2> DEFINE T == {SeqOf(q) : q \in grp}
  <2>1. T \in SUBSET Nat /\ T # {}
    BY <1>0, SeqAssumption DEF Seqs
  <2>2. PICK x \in T : \A y \in T : x <= y
    <3> HIDE DEF T
    <3> QED BY <2>1, LeastNatural
  <2>3. PICK p \in grp : \A q \in grp : SeqOf(p) <= SeqOf(q)
    BY <2>2
  <2>4. Starts(p, grp)
    BY <2>3, <1>1 DEF Starts
  <2> QED BY <2>4 DEF FirstOf
<1>2. CASE wraps
  <2>1. PICK a, b \in grp : SeqOf(b) - SeqOf(a) > SeqMod \div 2
    BY <1>2
  <2>2. a # b
    BY <2>1, <1>0, SeqAssumption
  <2>3. \A q \in grp : grp \ {q} # {}
    BY <2>2
  <2>4. \A q \in grp : g(q) \in Seqs
    BY <2>3, GapType
  <2>5. \A q \in grp : before(q) \in Seqs
    <3>1. \A q \in grp : SeqOf(q) - g(q) \in Int
      BY <2>4, <1>0 DEF Seqs
    <3> HIDE DEF g
    <3> QED BY <3>1, SeqType
  <2> DEFINE T1 == {SeqMod - g(q) : q \in grp}
  <2>6. T1 \in SUBSET Nat /\ T1 # {}
    BY <2>4, SeqAssumption DEF Seqs
  <2>7. PICK x \in T1 : \A y \in T1 : x <= y
    <3> HIDE DEF T1
    <3> QED BY <2>6, LeastNatural
  <2>8. PICK p1 \in grp : \A q \in grp : SeqMod - g(p1) <= SeqMod - g(q)
    BY <2>7
  <2>9. \A q \in grp : g(p1) >= g(q)
    BY <2>8, <2>4, SeqAssumption DEF Seqs
  <2> DEFINE W == {q \in grp : g(q) = g(p1)}
             T2 == {SeqMod - before(q) : q \in W}
  <2>10. T2 \in SUBSET Nat /\ T2 # {}
    <3>1. p1 \in W OBVIOUS
    <3>2. \A q \in W : SeqMod - before(q) \in Nat
      BY <2>5, SeqAssumption DEF Seqs
    <3> QED BY <3>1, <3>2
  <2>11. PICK z \in T2 : \A y \in T2 : z <= y
    <3> HIDE DEF T2
    <3> QED BY <2>10, LeastNatural
  <2>12. PICK p \in W : \A q \in W : SeqMod - before(p) <= SeqMod - before(q)
    BY <2>11
  <2>13. \A q \in W : before(p) >= before(q)
    BY <2>12, <2>5, SeqAssumption DEF Seqs
  <2>14. \A q \in grp : g(p) > g(q) \/ (g(p) = g(q) /\ before(p) >= before(q))
    BY <2>9, <2>12, <2>13, <2>4 DEF Seqs
  <2>15. Starts(p, grp)
    BY <2>14, <1>2 DEF Starts
  <2> QED BY <2>15 DEF FirstOf, Starts
<1> QED BY <1>1, <1>2

-----------------------------------------------------------------------------
(* Type correctness *)

(* The units with a group in a map.                                        *)
KeysOf(pend) == {k \in AUs : pend[k] # {}}

(* The part of TypeOK about the group maps. *)
TypeGroups ==
  /\ pending \in [AUs -> SUBSET Packets]
  /\ \A k \in AUs : pending[k] \subseteq Whole(k)
  /\ arrivedBefore \subseteq PendingKeys \X PendingKeys
  /\ deadline \subseteq PendingKeys
  /\ armedBefore \subseteq deadline \X deadline
  /\ flushed \subseteq AUs
  /\ anchor \in Seqs \cup {None}

(* A map that extends the pending groups, with its arrival order. *)
GroupsOK(pend, arr) ==
  /\ pend \in [AUs -> SUBSET Packets]
  /\ \A k \in AUs : pend[k] \subseteq Whole(k)
  /\ arr \subseteq KeysOf(pend) \X KeysOf(pend)
  /\ PendingKeys \subseteq KeysOf(pend)

(* The maps of a state are well formed.                                    *)
LEMMA CurrentGroups == TypeOK => TypeGroups /\ GroupsOK(pending, arrivedBefore)
BY DEF TypeOK, TypeGroups, GroupsOK, KeysOf, PendingKeys

(* A group with a marker has the marker's number.                          *)
LEMMA MarkerType ==
  ASSUME NEW grp \in SUBSET Packets, HasMarker(grp)
  PROVE  MarkerSeq(grp) \in Seqs
BY SeqType DEF HasMarker, MarkerSeq

(* A complete group has its marker.                                        *)
LEMMA CompleteHasMarker ==
  ASSUME NEW grp, GroupComplete(grp)
  PROVE  HasMarker(grp)
BY DEF GroupComplete, HasMarker

(* Keeping the groups, some with a deadline, keeps the maps well formed.   *)
LEMMA HoldType ==
  ASSUME TypeGroups, NEW pend, NEW arr, GroupsOK(pend, arr),
         NEW ks, ks \subseteq KeysOf(pend), Hold(ks, pend, arr)
  PROVE  TypeGroups'
<1>1. PendingKeys' = KeysOf(pend)
  BY DEF Hold, PendingKeys, KeysOf
<1>2. deadline' \subseteq KeysOf(pend)
  BY DEF Hold, GroupsOK, TypeGroups
<1>3. armedBefore' \subseteq deadline' \X deadline'
  BY DEF Hold, TypeGroups
<1> QED BY <1>1, <1>2, <1>3 DEF Hold, GroupsOK, TypeGroups

(* So does taking groups out of every map.                                 *)
LEMMA RemoveType ==
  ASSUME TypeGroups, NEW pend, NEW arr, GroupsOK(pend, arr),
         NEW ks, Remove(ks, pend, arr)
  PROVE  /\ pending' \in [AUs -> SUBSET Packets]
         /\ \A k \in AUs : pending'[k] \subseteq Whole(k)
         /\ arrivedBefore' \subseteq PendingKeys' \X PendingKeys'
         /\ deadline' \subseteq PendingKeys'
         /\ armedBefore' \subseteq deadline' \X deadline'
<1>1. /\ pending' \in [AUs -> SUBSET Packets]
      /\ \A k \in AUs : pending'[k] \subseteq Whole(k)
  BY DEF Remove, GroupsOK
<1>2. PendingKeys' = KeysOf(pend) \ ks
  BY DEF Remove, PendingKeys, KeysOf
<1>3. deadline' \subseteq PendingKeys'
  BY <1>2 DEF Remove, GroupsOK, TypeGroups
<1>4. arrivedBefore' \subseteq PendingKeys' \X PendingKeys'
  BY <1>2 DEF Remove, GroupsOK, Without
<1>5. armedBefore' \subseteq deadline' \X deadline'
  BY DEF Remove, TypeGroups, Without
<1> QED BY <1>1, <1>3, <1>4, <1>5

(* So does a flush, which feeds a group of packets or nothing.             *)
LEMMA FlushType ==
  ASSUME TypeOK, NEW pend, NEW arr, GroupsOK(pend, arr),
         NEW k \in AUs, HasMarker(pend[k]), Flush(k, pend, arr)
  PROVE  TypeGroups' /\ fed' \in Seq(SUBSET Packets) /\ hole' \in BOOLEAN
<1>1. pend[k] \in SUBSET Packets
  BY DEF GroupsOK
<1>2. anchor' \in Seqs \cup {None}
  BY <1>1, MarkerType DEF Flush
<1>3. flushed' \subseteq AUs
  BY DEF Flush, TypeOK
<1>4. TypeGroups'
  BY <1>2, <1>3, RemoveType, CurrentGroups DEF Flush, TypeGroups
<1>5. fed' \in Seq(SUBSET Packets) /\ hole' \in BOOLEAN
  <2>1. CASE Contiguous(pend[k])
    <3>1. fed' = Append(fed, pend[k]) /\ hole' = FALSE
      BY <2>1 DEF Flush
    <3> QED BY <1>1, <3>1, AppendProperties DEF TypeOK
  <2>2. CASE ~ Contiguous(pend[k])
    BY <2>2 DEF Flush, TypeOK, outVars
  <2> QED BY <2>1, <2>2
<1> QED BY <1>4, <1>5

(* The highest number and the NACK candidates stay numbers.                *)
LEMMA TrackSeqType ==
  ASSUME TypeOK, NEW seq \in Seqs, TrackSeq(seq)
  PROVE  maxSeq' \in Seqs \cup {None} /\ nack' \subseteq Seqs
BY DEF TrackSeq, TypeOK, seqVars

(* The group map with a received packet added is well formed. *)
LEMMA ArrivalType ==
  ASSUME TypeOK, NEW p \in Packets,
         NEW pend, NEW arr,
         pend = pending \/ pend = [pending EXCEPT ![AuOf[p]] = @ \cup {p}],
         pend[AuOf[p]] # {},
         arr = arrivedBefore \/ arr = arrivedBefore \cup (PendingKeys \X {AuOf[p]})
  PROVE  AuOf[p] \in KeysOf(pend) /\ GroupsOK(pend, arr)
<1> DEFINE k == AuOf[p]
<1>1. k \in AUs /\ p \in Whole(k)
  BY DEF AUs, Whole
<1>2. pend \in [AUs -> SUBSET Packets] /\ \A j \in AUs : pend[j] \subseteq Whole(j)
  BY <1>1 DEF TypeOK
<1>3. k \in KeysOf(pend)
  BY <1>1 DEF KeysOf
<1>4. PendingKeys \subseteq KeysOf(pend)
  BY <1>1 DEF TypeOK, PendingKeys, KeysOf
<1>5. arr \subseteq KeysOf(pend) \X KeysOf(pend)
  BY <1>3, <1>4 DEF TypeOK
<1> QED BY <1>2, <1>3, <1>4, <1>5 DEF GroupsOK

(* A packet that is queued keeps the maps well formed.                     *)
LEMMA QueuePacketType ==
  ASSUME TypeOK, NEW p \in Packets, QueuePacket(p)
  PROVE  /\ TypeGroups' /\ fed' \in Seq(SUBSET Packets) /\ hole' \in BOOLEAN
         /\ pc' \in {"recv", "ready"}
<1> DEFINE k == AuOf[p]
           known == \E q \in pending[k] : SeqOf(q) = SeqOf(p)
           pend == IF known THEN pending ELSE [pending EXCEPT ![k] = @ \cup {p}]
           arr == IF pending[k] = {}
                  THEN arrivedBefore \cup (PendingKeys \X {k})
                  ELSE arrivedBefore
           preceding == {j \in PendingKeys \ {k} : Precedes(j, k, pend, arr)}
           unended == {j \in preceding : ~ HasMarker(pend[j])}
<1>1. k \in AUs /\ pending \in [AUs -> SUBSET Packets] /\ pc \in {"recv", "ready"}
  BY DEF AUs, TypeOK
<1>2. pend[k] # {}
  BY <1>1
<1>3. k \in KeysOf(pend) /\ GroupsOK(pend, arr)
  <2>1. pend = pending \/ pend = [pending EXCEPT ![k] = @ \cup {p}]
    OBVIOUS
  <2>2. arr = arrivedBefore \/ arr = arrivedBefore \cup (PendingKeys \X {k})
    OBVIOUS
  <2> HIDE DEF pend, arr
  <2> QED BY <1>2, <2>1, <2>2, ArrivalType
<1>4. unended \subseteq KeysOf(pend)
  BY <1>3 DEF GroupsOK
<1>5. \/ UNCHANGED <<groupVars, pc, outVars>>
      \/ /\ \E ks \in {{}, unended, {k}} : Hold(ks, pend, arr)
         /\ UNCHANGED <<pc, outVars>>
      \/ /\ HasMarker(pend[k])
         /\ Flush(k, pend, arr)
         /\ pc' \in {pc, "ready"}
  BY DEF QueuePacket
<1> HIDE DEF pend, arr, unended, k
<1>6. CASE UNCHANGED <<groupVars, pc, outVars>>
  BY <1>6 DEF TypeOK, TypeGroups, groupVars, outVars, PendingKeys
<1>7. CASE /\ \E ks \in {{}, unended, {k}} : Hold(ks, pend, arr)
           /\ UNCHANGED <<pc, outVars>>
  <2>1. TypeGroups'
    BY <1>7, <1>3, <1>4, HoldType, CurrentGroups
  <2> QED BY <1>7, <2>1 DEF TypeOK, outVars
<1>8. CASE /\ HasMarker(pend[k])
           /\ Flush(k, pend, arr)
           /\ pc' \in {pc, "ready"}
  BY <1>8, <1>1, <1>3, FlushType
<1> QED BY <1>5, <1>6, <1>7, <1>8

(* Every step of the specification keeps the type invariant. *)
LEMMA TypeStep == TypeOK /\ [Next]_vars => TypeOK'
<1> SUFFICES ASSUME TypeOK, [Next]_vars PROVE TypeOK'
  OBVIOUS
<1> USE DEF netVars, seqVars, outVars, groupVars
<1>1. CASE Send
  <2>1. sent' \in 0 .. NumPackets /\ sent' \in Packets /\ lost' \in Nat
    BY <1>1, StreamAssumption DEF Send, TypeOK, Packets
  <2>2. net' \subseteq Packets
    BY <1>1, <2>1 DEF Send, TypeOK
  <2> QED BY <1>1, <2>1, <2>2 DEF Send, TypeOK, PendingKeys
<1>2. CASE DrainPendingNack
  <2>1. 1 .. sent \subseteq Packets
    BY StreamAssumption DEF TypeOK, Packets
  <2>2. net' \subseteq Packets
    BY <1>2, <2>1 DEF DrainPendingNack, TypeOK
  <2> QED BY <1>2, <2>2 DEF DrainPendingNack, TypeOK, PendingKeys
<1>3. ASSUME NEW p \in Packets, Receive(p) PROVE TypeOK'
  <2>1. /\ net' \subseteq Packets /\ sent' = sent /\ lost' = lost /\ dups' \in Nat
        /\ codec' = codec
    BY <1>3 DEF Receive, TypeOK
  <2>2. maxSeq' \in Seqs \cup {None} /\ nack' \subseteq Seqs
    BY <1>3, SeqType, TrackSeqType DEF Receive
  <2>3. /\ TypeGroups' /\ fed' \in Seq(SUBSET Packets) /\ hole' \in BOOLEAN
        /\ pc' \in {"recv", "ready"}
    BY <1>3, QueuePacketType DEF Receive
  <2> QED BY <2>1, <2>2, <2>3 DEF TypeOK, TypeGroups
<1>4. CASE FlushReady
  <2>1. TypeGroups /\ GroupsOK(pending, arrivedBefore) /\ pc \in {"recv", "ready"}
    BY CurrentGroups DEF TypeOK
  <2>2. CASE PendingKeys = {} /\ pc' = "recv" /\ UNCHANGED <<groupVars, outVars>>
    BY <1>4, <2>2 DEF FlushReady, TypeOK, PendingKeys
  <2>3. ASSUME NEW k \in PendingKeys, GroupComplete(pending[k]),
               Flush(k, pending, arrivedBefore), UNCHANGED pc
        PROVE  TypeGroups' /\ fed' \in Seq(SUBSET Packets) /\ hole' \in BOOLEAN
    BY <2>1, <2>3, FlushType, CompleteHasMarker DEF PendingKeys
  <2>4. ASSUME NEW k \in PendingKeys, Hold({k}, pending, arrivedBefore)
        PROVE  TypeGroups'
    BY <2>1, <2>4, HoldType DEF PendingKeys, KeysOf
  <2>5. \/ PendingKeys = {} /\ pc' = "recv" /\ UNCHANGED <<groupVars, outVars>>
        \/ \E k \in PendingKeys :
             /\ GroupComplete(pending[k])
             /\ Flush(k, pending, arrivedBefore)
             /\ UNCHANGED pc
        \/ \E k \in PendingKeys :
             Hold({k}, pending, arrivedBefore) /\ pc' = "recv" /\ UNCHANGED outVars
    BY <1>4 DEF FlushReady
  <2>6. UNCHANGED <<netVars, seqVars>>
    BY <1>4 DEF FlushReady
  <2> QED BY <2>2, <2>3, <2>4, <2>5, <2>6 DEF TypeOK, TypeGroups
<1>5. CASE EvictStaleGroups
  <2>1. PICK late \in SUBSET deadline, stale \in SUBSET Aging, old \in SUBSET flushed :
          /\ flushed' = (flushed \ old) \cup late \cup stale
          /\ Remove(late \cup stale, pending, arrivedBefore)
          /\ DropGroups(late, stale) \/ UNCHANGED <<anchor, pc, outVars>>
    BY <1>5 DEF EvictStaleGroups, Expired
  <2>2. late \cup stale \subseteq PendingKeys /\ PendingKeys \subseteq AUs
    BY DEF Aging, TypeOK, PendingKeys
  <2>3. flushed' \subseteq AUs
    BY <2>1, <2>2 DEF TypeOK
  <2>4. ASSUME DropGroups(late, stale)
        PROVE  anchor' \in Seqs \cup {None} /\ pc' = "ready" /\ hole' \in BOOLEAN /\ fed' = fed
    <3>1. PICK k \in late \cup stale :
            /\ anchor' = IF HasMarker(pending[k]) THEN MarkerSeq(pending[k]) ELSE None
            /\ hole' = (hole \/ codec = "avc")
            /\ pc' = "ready" /\ fed' = fed
      BY <2>4 DEF DropGroups
    <3>2. pending[k] \in SUBSET Packets
      BY <2>2 DEF TypeOK
    <3> QED BY <3>1, <3>2, MarkerType DEF TypeOK
  <2>5. /\ anchor' \in Seqs \cup {None} /\ pc' \in {"recv", "ready"}
        /\ hole' \in BOOLEAN /\ fed' \in Seq(SUBSET Packets)
    BY <2>1, <2>4 DEF TypeOK
  <2>6. TypeGroups'
    BY <2>1, <2>3, <2>5, CurrentGroups, RemoveType DEF TypeGroups
  <2> QED BY <1>5, <2>5, <2>6 DEF EvictStaleGroups, TypeOK, TypeGroups
<1>6. CASE QuietStream
  BY <1>6 DEF QuietStream, vars, TypeOK, PendingKeys
<1>7. CASE UNCHANGED vars
  BY <1>7 DEF vars, TypeOK, PendingKeys
<1> QED BY <1>1, <1>2, <1>3, <1>4, <1>5, <1>6, <1>7 DEF Next

(* The empty maps are well formed.                                         *)
LEMMA TypeInit == Init => TypeOK
<1> SUFFICES ASSUME Init PROVE TypeOK
  OBVIOUS
<1>1. PendingKeys = {}
  BY DEF Init, PendingKeys
<1>2. /\ pending \in [AUs -> SUBSET Packets]
      /\ \A k \in AUs : pending[k] \subseteq Whole(k)
  BY DEF Init
<1>3. sent \in 0 .. NumPackets /\ fed \in Seq(SUBSET Packets)
  BY StreamAssumption DEF Init
<1> QED BY <1>1, <1>2, <1>3 DEF Init, TypeOK

(* Every map of the receive path keeps its shape, and no deadline or       *)
(* arrival order outlives its group, whatever the stream and the network.  *)
THEOREM TypeCorrect == Spec => []TypeOK
BY TypeInit, TypeStep, PTL DEF Spec

-----------------------------------------------------------------------------
(* The receive path implements the reference chain *)

(* The boundary is where the last fed unit ended, unless a unit was        *)
(* dropped since, and then the decoder knows; HEVC breaks no chain.        *)
ChainInv ==
  /\ codec = "avc" /\ fed # <<>> /\ ~ hole
       => anchor # None /\ anchor = MarkerSeq(fed[Len(fed)])
  /\ codec = "hevc" => hole = FALSE

(* A stream keeps its codec. *)
LEMMA CodecStays == [Next]_vars => codec' = codec
<1> SUFFICES ASSUME [Next]_vars PROVE codec' = codec
  OBVIOUS
<1>1. ASSUME NEW p \in Packets, Receive(p) PROVE codec' = codec
  BY <1>1 DEF Receive
<1>2. CASE FlushReady
  BY <1>2 DEF FlushReady, netVars
<1>3. CASE EvictStaleGroups
  BY <1>3 DEF EvictStaleGroups, netVars
<1>4. CASE Send \/ DrainPendingNack \/ QuietStream \/ UNCHANGED vars
  BY <1>4 DEF Send, DrainPendingNack, QuietStream, vars, netVars
<1> QED BY <1>1, <1>2, <1>3, <1>4 DEF Next

(* A flush of a complete unit is a Feed of the abstract chain. *)
LEMMA FlushFeeds ==
  ASSUME TypeOK, ChainInv, NEW pend, NEW arr, GroupsOK(pend, arr),
         NEW k \in AUs, GroupComplete(pend[k]), Flush(k, pend, arr),
         codec = "avc", codec' = codec
  PROVE  Chain!Feed /\ ChainInv'
<1> DEFINE grp == pend[k]
<1>1. grp \in SUBSET Packets /\ HasMarker(grp) /\ grp # {}
  BY CompleteHasMarker DEF GroupsOK, HasMarker
<1>2. fed' = Append(fed, grp) /\ hole' = FALSE /\ anchor' = MarkerSeq(grp)
  BY DEF Flush, GroupComplete
<1>3. fed' # <<>> /\ fed'[Len(fed')] = grp
  BY <1>1, <1>2, AppendProperties DEF TypeOK
<1>4. LastFed' = [first |-> SeqOf(FirstOf(grp)), last |-> MarkerSeq(grp)]
  BY <1>3 DEF LastFed
<1>5. SeqOf(FirstOf(grp)) \in Seqs /\ MarkerSeq(grp) \in Seqs
  BY <1>1, FirstExists, SeqType, MarkerType
<1>6. LastFed = None \/ hole \/ SeqOf(FirstOf(grp)) = Following(LastFed.last)
  BY DEF GroupComplete, ChainInv, LastFed
<1>7. Chain!Feed
  BY <1>2, <1>4, <1>5, <1>6 DEF Chain!Feed, Chain!Following, Following, Seqs
<1>8. ChainInv'
  BY <1>2, <1>3, <1>5, SeqAssumption DEF ChainInv
<1> QED BY <1>7, <1>8

(* A packet of an AVC stream feeds the next unit of the chain, or nothing. *)
LEMMA QueuePacketFeeds ==
  ASSUME TypeOK, ChainInv, codec = "avc", codec' = codec, NEW p \in Packets, QueuePacket(p)
  PROVE  (Chain!Feed \/ UNCHANGED <<LastFed, hole>>) /\ ChainInv'
<1> DEFINE k == AuOf[p]
           known == \E q \in pending[k] : SeqOf(q) = SeqOf(p)
           pend == IF known THEN pending ELSE [pending EXCEPT ![k] = @ \cup {p}]
           arr == IF pending[k] = {}
                  THEN arrivedBefore \cup (PendingKeys \X {k})
                  ELSE arrivedBefore
<1>1. k \in AUs /\ pending \in [AUs -> SUBSET Packets]
  BY DEF AUs, TypeOK
<1>2. pend[k] # {}
  BY <1>1
<1>3. GroupsOK(pend, arr)
  <2>1. pend = pending \/ pend = [pending EXCEPT ![k] = @ \cup {p}]
    OBVIOUS
  <2>2. arr = arrivedBefore \/ arr = arrivedBefore \cup (PendingKeys \X {k})
    OBVIOUS
  <2> HIDE DEF pend, arr
  <2> QED BY <1>2, <2>1, <2>2, ArrivalType
<1>4. \/ UNCHANGED <<anchor, outVars>>
      \/ GroupComplete(pend[k]) /\ Flush(k, pend, arr)
  BY DEF QueuePacket, Hold, groupVars
<1> HIDE DEF pend, arr, k
<1>5. CASE UNCHANGED <<anchor, outVars>>
  BY <1>5 DEF outVars, ChainInv, LastFed
<1>6. CASE GroupComplete(pend[k]) /\ Flush(k, pend, arr)
  BY <1>1, <1>3, <1>6, FlushFeeds
<1> QED BY <1>4, <1>5, <1>6

(* Every step of an AVC stream is one of the abstract chain.               *)
LEMMA ChainStep ==
  ASSUME codec = "avc", TypeOK, ChainInv, [Next]_vars
  PROVE  [Chain!ChainNext]_<<LastFed, hole>> /\ ChainInv'
<1>0. codec' = codec
  BY CodecStays
<1>1. ASSUME UNCHANGED <<anchor, outVars>>
      PROVE  UNCHANGED <<LastFed, hole>> /\ ChainInv'
  BY <1>0, <1>1 DEF outVars, ChainInv, LastFed
<1>2. CASE Send \/ DrainPendingNack \/ QuietStream \/ UNCHANGED vars
  BY <1>1, <1>2 DEF Send, DrainPendingNack, QuietStream, vars, groupVars
<1>3. ASSUME NEW p \in Packets, Receive(p)
      PROVE  [Chain!ChainNext]_<<LastFed, hole>> /\ ChainInv'
  BY <1>0, <1>3, QueuePacketFeeds DEF Receive, Chain!ChainNext
<1>4. CASE FlushReady
  <2>1. \/ UNCHANGED <<anchor, outVars>>
        \/ \E k \in PendingKeys :
             GroupComplete(pending[k]) /\ Flush(k, pending, arrivedBefore)
    BY <1>4 DEF FlushReady, Hold, groupVars
  <2> QED BY <1>0, <1>1, <2>1, CurrentGroups, FlushFeeds DEF PendingKeys, Chain!ChainNext
<1>5. CASE EvictStaleGroups
  <2>1. PICK late, stale : \/ DropGroups(late, stale)
                           \/ UNCHANGED <<anchor, outVars>>
    BY <1>5 DEF EvictStaleGroups
  <2>2. CASE DropGroups(late, stale)
    <3>1. hole' = TRUE /\ fed' = fed
      BY <2>2 DEF DropGroups
    <3>2. LastFed' = LastFed
      BY <1>0, <3>1 DEF LastFed
    <3> QED BY <1>0, <3>1, <3>2 DEF Chain!ChainNext, Chain!DeclareHole, ChainInv
  <2> QED BY <1>1, <2>1, <2>2
<1> QED BY <1>2, <1>3, <1>4, <1>5 DEF Next

(* An HEVC stream does not touch the chain.                                *)
LEMMA NoChain ==
  ASSUME codec = "hevc", TypeOK, ChainInv, [Next]_vars
  PROVE  UNCHANGED <<LastFed, hole>> /\ ChainInv'
<1>1. codec' = codec /\ hole = FALSE
  BY CodecStays DEF ChainInv
<1>2. LastFed' = LastFed
  BY <1>1 DEF LastFed
<1>3. ASSUME NEW k, NEW pend, NEW arr, Flush(k, pend, arr) PROVE hole' = hole
  BY <1>1, <1>3 DEF Flush, outVars
<1>4. hole' = hole
  <2>1. ASSUME NEW p \in Packets, Receive(p) PROVE hole' = hole
    BY <1>3, <2>1 DEF Receive, QueuePacket, outVars
  <2>2. CASE FlushReady
    BY <1>3, <2>2 DEF FlushReady, outVars
  <2>3. CASE EvictStaleGroups
    <3>1. PICK late, stale : DropGroups(late, stale) \/ UNCHANGED outVars
      BY <2>3 DEF EvictStaleGroups
    <3>2. DropGroups(late, stale) => hole' = (hole \/ codec = "avc")
      BY DEF DropGroups
    <3> QED BY <1>1, <3>1, <3>2 DEF outVars
  <2>4. CASE Send \/ DrainPendingNack \/ QuietStream \/ UNCHANGED vars
    BY <2>4 DEF Send, DrainPendingNack, QuietStream, vars, outVars
  <2> QED BY <2>1, <2>2, <2>3, <2>4 DEF Next
<1> QED BY <1>1, <1>2, <1>4 DEF ChainInv

(* Whatever the network does, the AVC decoder receives a picture only      *)
(* right behind its predecessor or after mark_reference_chain_broken.      *)
THEOREM ChainImplemented == Spec => ImplementsReferenceChain
<1>1. Init => Chain!ChainInit /\ ChainInv
  BY DEF Init, Chain!ChainInit, ChainInv, LastFed
<1>2. TypeOK /\ ChainInv /\ [Next]_vars
        => [Chain!ChainNext]_<<LastFed, hole>> /\ ChainInv'
  BY ChainStep, NoChain DEF TypeOK
<1>3. QED
  BY <1>1, <1>2, TypeCorrect, PTL
     DEF Spec, ImplementsReferenceChain, Chain!ChainSpec, Chain!chainVars

-----------------------------------------------------------------------------
(* A stream of at most half the sequence space: the number of a packet     *)
(* names it, and its distance tells which of two was sent first.           *)

(* The stream is no longer than half the sequence space.                   *)
Short == NumPackets <= SeqMod \div 2

(* The remainder of a number less than one turn away from the range.       *)
LEMMA Reduced ==
  ASSUME NEW m \in Nat \ {0}, NEW a \in Int
  PROVE  /\ a \in 0 .. m - 1 => a % m = a
         /\ a \in m .. 2 * m - 1 => a % m = a - m
         /\ a \in -m .. -1 => a % m = a + m
<1>1. a \in 0 .. m - 1 => a % m = a
  OBVIOUS
<1>2. a \in m .. 2 * m - 1 => a % m = a - m
  OBVIOUS
<1>3. a \in -m .. -1 => a % m = a + m
  OBVIOUS
<1> QED BY <1>1, <1>2, <1>3

(* Twice the packets of a short stream fit in the sequence space.          *)
LEMMA ShortIsHalf == Short => SeqMod \in Nat \ {0} /\ 2 * NumPackets <= SeqMod
BY SeqAssumption, StreamAssumption DEF Short

(* The circular distance, without the remainder.                           *)
LEMMA DistOf ==
  ASSUME NEW a \in Seqs, NEW b \in Seqs
  PROVE  Dist(a, b) = IF a <= b THEN b - a ELSE b - a + SeqMod
<1>1. /\ SeqMod \in Nat \ {0} /\ b - a \in Int
      /\ a <= b => b - a \in 0 .. SeqMod - 1
      /\ ~ (a <= b) => b - a \in -SeqMod .. -1
  BY SeqAssumption DEF Seqs
<1> QED BY <1>1, Reduced DEF Dist

(* A packet's number, before and after the wrap.                           *)
LEMMA SeqOfIs ==
  ASSUME Short, NEW p \in Packets
  PROVE  SeqOf(p) = IF FirstSeq + p < SeqMod THEN FirstSeq + p ELSE FirstSeq + p - SeqMod
<1>0. FirstSeq \in Int /\ p \in Int /\ SeqMod \in Int
  BY SeqAssumption, StreamAssumption DEF Seqs, Packets
<1>1. /\ SeqMod \in Nat \ {0} /\ FirstSeq + p \in Int
      /\ FirstSeq + p < SeqMod => FirstSeq + p \in 0 .. SeqMod - 1
      /\ ~ (FirstSeq + p < SeqMod) => FirstSeq + p \in SeqMod .. 2 * SeqMod - 1
  BY SeqAssumption, StreamAssumption, ShortIsHalf DEF Seqs, Packets
<1>2. CASE FirstSeq + p < SeqMod
  <2>1. FirstSeq + p \in 0 .. SeqMod - 1
    BY <1>1, <1>2
  <2> QED BY <1>1, <1>2, <2>1, Reduced DEF SeqOf
<1>3. CASE ~ (FirstSeq + p < SeqMod)
  <2>1. FirstSeq + p \in SeqMod .. 2 * SeqMod - 1
    BY <1>1, <1>3
  <2>2. (FirstSeq + p) % SeqMod = (FirstSeq + p) - SeqMod
    BY <1>1, <2>1, Reduced
  <2>3. SeqOf(p) = FirstSeq + p - SeqMod
    BY <1>0, <2>2 DEF SeqOf
  <2> QED BY <1>0, <1>3, <2>3
<1> QED BY <1>2, <1>3

(* On a short stream the distance of two numbers tells which packet is     *)
(* later, and a number names its packet.                                   *)
LEMMA ShortDist ==
  ASSUME Short, NEW p \in Packets, NEW q \in Packets
  PROVE  /\ p <= q => Dist(SeqOf(p), SeqOf(q)) = q - p
         /\ q < p => Dist(SeqOf(p), SeqOf(q)) = SeqMod - (p - q)
         /\ SeqOf(p) = SeqOf(q) => p = q
<1>1. SeqOf(p) \in Seqs /\ SeqOf(q) \in Seqs
  BY SeqType
<1>2. /\ p \in Nat /\ q \in Nat /\ FirstSeq \in Nat /\ SeqMod \in Nat
      /\ p <= NumPackets /\ q <= NumPackets /\ 1 <= p /\ 1 <= q /\ NumPackets \in Nat
      /\ FirstSeq < SeqMod /\ 2 * NumPackets <= SeqMod
  BY SeqAssumption, StreamAssumption, ShortIsHalf DEF Seqs, Packets
<1>3. /\ p <= q => Dist(SeqOf(p), SeqOf(q)) = q - p
      /\ q < p => Dist(SeqOf(p), SeqOf(q)) = SeqMod - (p - q)
  BY <1>1, <1>2, DistOf, SeqOfIs
<1>4. SeqOf(p) = SeqOf(q) => p = q
  BY <1>2, SeqOfIs
<1> QED BY <1>3, <1>4

(* The number at a distance behind a packet is that of a packet.           *)
LEMMA ShortAhead ==
  ASSUME Short, NEW p \in Packets, NEW d \in Nat, p + d \in Packets,
         NEW s \in Seqs, Dist(SeqOf(p), s) = d
  PROVE  s = SeqOf(p + d)
<1>1. SeqOf(p) \in Seqs /\ SeqOf(p + d) \in Seqs /\ p <= p + d
  BY SeqType, StreamAssumption DEF Packets
<1>2. Dist(SeqOf(p), SeqOf(p + d)) = d
  BY <1>1, ShortDist, StreamAssumption DEF Packets
<1>3. \A a, b, c \in Seqs : Dist(a, b) = Dist(a, c) => b = c
  <2> SUFFICES ASSUME NEW a \in Seqs, NEW b \in Seqs, NEW c \in Seqs, Dist(a, b) = Dist(a, c)
               PROVE  b = c
    OBVIOUS
  <2>1. a \in Int /\ b \in Int /\ c \in Int /\ SeqMod \in Int
        /\ 0 <= a /\ a < SeqMod /\ 0 <= b /\ b < SeqMod /\ 0 <= c /\ c < SeqMod
    BY SeqAssumption DEF Seqs
  <2> QED BY <2>1, DistOf
<1> QED BY <1>1, <1>2, <1>3

(* A marker is the last packet of its unit.                                *)
LEMMA MarkerEnds ==
  ASSUME NEW p \in Packets, NEW q \in Packets, Marker(p), AuOf[q] = AuOf[p]
  PROVE  q <= p
<1>1. SUFFICES ASSUME q > p PROVE FALSE
  BY StreamAssumption DEF Packets
<1>2. p + 1 \in Packets /\ p <= p + 1 /\ p + 1 <= q
  BY <1>1, StreamAssumption DEF Packets
<1>3. AuOf[p] <= AuOf[p + 1] /\ AuOf[p + 1] <= AuOf[q]
  BY <1>2, StreamAssumption
<1>4. AuOf[p] \in Nat /\ AuOf[p + 1] \in Nat
  BY <1>2, StreamAssumption
<1> QED BY <1>2, <1>3, <1>4 DEF Marker

-----------------------------------------------------------------------------
(* What was fed and what is asked for again *)

(* A packet of unit k was handed to the decoder.                           *)
Fed(k) == \E i \in 1 .. Len(fed) : \E p \in fed[i] : AuOf[p] = k

(* Packets that are here, and those of units that were fed.                *)
Known == {q \in Packets : q \in pending[AuOf[q]] \/ Fed(AuOf[q])}

(* mx is the newest packet that came.                                      *)
Heard(mx) ==
  /\ maxSeq = SeqOf(mx)
  /\ \A q \in Known : q <= mx
  /\ \A s \in nack : \E q \in Packets : q < mx /\ s = SeqOf(q)

(* No packet that is here is newer than the highest number, and none is    *)
(* asked for.                                                              *)
HeardInv ==
  /\ maxSeq = None => nack = {} /\ Known = {}
  /\ maxSeq # None => \E mx \in Packets : Heard(mx)
  /\ NackOnlyMissing

(* A unit that was fed is closed to its packets, or none is under way.     *)
OnceInv ==
  /\ \A k \in flushed : pending[k] = {}
  /\ \A k \in AUs : Fed(k) => pending[k] = {} /\ (k \in flushed \/ Settled(k))
  /\ FedOnce

(* _track_seq withdraws the NACK of the packet, and asks only for packets  *)
(* that are newer than all that came and older than this one.              *)
LEMMA TrackStep ==
  ASSUME Short, TypeOK, HeardInv, NEW p \in Packets, TrackSeq(SeqOf(p))
  PROVE  \E mx \in Packets :
           /\ maxSeq' = SeqOf(mx) /\ p <= mx
           /\ \A q \in Known : q <= mx /\ (SeqOf(q) \in nack' => SeqOf(q) \in nack)
           /\ \A s \in nack' : \E q \in Packets : q < mx /\ s = SeqOf(q)
           /\ SeqOf(p) \notin nack'
<1>0. \A q \in Packets : SeqOf(q) \in Seqs /\ SeqOf(q) # None /\ q \in Int
  <2>1. \A q \in Packets : q \in Int
    BY StreamAssumption DEF Packets
  <2> QED BY <2>1, SeqType, SeqAssumption
<1>1. CASE maxSeq = None
  <2>1. maxSeq' = SeqOf(p) /\ nack' = {} /\ Known = {}
    BY <1>0, <1>1 DEF TrackSeq, HeardInv
  <2> QED BY <1>0, <2>1
<1>2. CASE maxSeq # None
  <2>1. PICK m \in Packets : Heard(m)
    BY <1>2 DEF HeardInv
  <2>2. maxSeq = SeqOf(m) /\ Known \subseteq Packets /\ nack \subseteq Seqs
    BY <2>1 DEF Heard, Known, TypeOK
  <2>3. CASE p = m
    <3>1. Dist(SeqOf(m), SeqOf(p)) = 0 /\ SeqMod \div 2 \in Nat
      BY <1>0, <2>3, ShortDist, SeqAssumption
    <3>2. maxSeq' = SeqOf(m) /\ nack' = nack
      BY <1>2, <2>2, <2>3, <3>1 DEF TrackSeq, seqVars
    <3>3. SeqOf(p) \notin nack
      <4> SUFFICES ASSUME SeqOf(p) \in nack PROVE FALSE
        OBVIOUS
      <4>1. PICK q \in Packets : q < m /\ SeqOf(p) = SeqOf(q)
        BY <2>1 DEF Heard
      <4> QED BY <1>0, <2>3, <4>1, ShortDist
    <3> QED BY <1>0, <2>1, <2>3, <3>2, <3>3 DEF Heard
  <2>4. CASE p < m
    <3>1. Dist(SeqOf(m), SeqOf(p)) = SeqMod - (m - p)
      BY <2>4, ShortDist
    <3>2. ~ (SeqMod - (m - p) <= SeqMod \div 2)
      BY <2>4, ShortIsHalf, StreamAssumption DEF Packets
    <3>3. maxSeq # SeqOf(p)
      BY <1>0, <2>2, <2>4, ShortDist
    <3>4. maxSeq' = SeqOf(m) /\ nack' = nack \ {SeqOf(p)}
      BY <1>2, <2>2, <3>1, <3>2, <3>3 DEF TrackSeq
    <3> QED BY <1>0, <2>1, <2>4, <3>4 DEF Heard
  <2>5. CASE m < p
    <3>1. Dist(SeqOf(m), SeqOf(p)) = p - m
      BY <2>5, <1>0, ShortDist
    <3>2. ~ (p - m > SeqMod \div 2)
      BY <2>5, ShortIsHalf, StreamAssumption DEF Packets, Short
    <3>3. maxSeq # SeqOf(p)
      BY <1>0, <2>2, <2>5, ShortDist
    <3>4. /\ maxSeq' = SeqOf(p)
          /\ \A s \in nack' : s \in nack \/ (s \in Seqs /\ Dist(SeqOf(m), s) \in 1 .. p - m - 1)
      BY <1>2, <2>2, <3>1, <3>2, <3>3 DEF TrackSeq
    <3>5. ASSUME NEW s \in nack', s \notin nack
          PROVE  \E q \in Packets : m < q /\ q < p /\ s = SeqOf(q)
      <4> DEFINE d == Dist(SeqOf(m), s)
      <4>1. s \in Seqs /\ d \in 1 .. p - m - 1
        BY <3>4, <3>5
      <4>2. d \in Nat /\ m + d \in Packets /\ m < m + d /\ m + d < p
        BY <4>1, <2>5, StreamAssumption DEF Packets
      <4> QED BY <4>1, <4>2, ShortAhead
    <3>6. \A s \in nack' : \E q \in Packets : q < p /\ s = SeqOf(q)
      <4> SUFFICES ASSUME NEW s \in nack' PROVE \E q \in Packets : q < p /\ s = SeqOf(q)
        OBVIOUS
      <4>1. CASE s \in nack
        <5>1. PICK q \in Packets : q < m /\ s = SeqOf(q)
          BY <2>1, <4>1 DEF Heard
        <5> QED BY <1>0, <2>5, <5>1
      <4> QED BY <3>5, <4>1
    <3>7. SeqOf(p) \notin nack'
      <4> SUFFICES ASSUME SeqOf(p) \in nack' PROVE FALSE
        OBVIOUS
      <4>1. PICK q \in Packets : q < p /\ SeqOf(p) = SeqOf(q)
        BY <3>6
      <4> QED BY <1>0, <4>1, ShortDist
    <3>8. ASSUME NEW q \in Known
          PROVE  q <= p /\ (SeqOf(q) \in nack' => SeqOf(q) \in nack)
      <4>1. q \in Packets /\ q <= m
        BY <2>1, <2>2 DEF Heard
      <4>2. ASSUME SeqOf(q) \in nack', SeqOf(q) \notin nack PROVE FALSE
        <5>1. PICK r \in Packets : m < r /\ SeqOf(q) = SeqOf(r)
          BY <3>5, <4>2
        <5> QED BY <1>0, <4>1, <5>1, ShortDist
      <4> QED BY <1>0, <2>5, <4>1, <4>2
    <3> QED BY <1>0, <3>4, <3>6, <3>7, <3>8
  <2> QED BY <1>0, <2>3, <2>4, <2>5
<1> QED BY <1>1, <1>2

(* A unit handed over, or dropped for a hole inside it: what _flush_group  *)
(* does to the group, the flushed keys and the decoder's input.            *)
Flushes(k, pend) ==
  /\ HasMarker(pend[k])
  /\ pending' = [j \in AUs |-> IF j = k THEN {} ELSE pend[j]]
  /\ flushed' = flushed \cup {k}
  /\ fed' = fed \/ fed' = Append(fed, pend[k])

(* The groups as they are, or with a packet added.                         *)
Grown(pend) ==
  /\ pend \in [AUs -> SUBSET Packets]
  /\ \A j \in AUs : pend[j] \subseteq Whole(j)
  /\ \A j \in flushed : pend[j] = {}
  /\ \A j \in AUs : Fed(j) => pend[j] = {}

(* A fed unit whose packets all arrived stays settled.                     *)
Stays == \A j \in AUs : Fed(j) /\ Settled(j) => Settled(j)'

(* What a flush does to the maps, in one formula.                          *)
LEMMA FlushIs ==
  ASSUME NEW k \in AUs, NEW pend, NEW arr, HasMarker(pend[k]), Flush(k, pend, arr)
  PROVE  Flushes(k, pend)
BY DEF Flush, Remove, Flushes, outVars

(* Who is in the units that were fed after a flush.                        *)
LEMMA FlushFed ==
  ASSUME TypeOK, NEW k \in AUs, NEW pend, Grown(pend), Flushes(k, pend)
  PROVE  /\ fed' \in Seq(SUBSET Packets)
         /\ \A i \in 1 .. Len(fed') : \/ i \in 1 .. Len(fed) /\ fed'[i] = fed[i]
                                      \/ i = Len(fed) + 1 /\ fed'[i] = pend[k]
         /\ \A j : Fed(j)' => Fed(j) \/ j = k
<1>1. pend[k] \in SUBSET Packets /\ fed \in Seq(SUBSET Packets) /\ Len(fed) \in Nat
  BY LenProperties DEF Grown, TypeOK
<1>2. CASE fed' = fed
  BY <1>1, <1>2 DEF Fed
<1>3. CASE fed' = Append(fed, pend[k])
  <2>1. /\ fed' \in Seq(SUBSET Packets) /\ Len(fed') = Len(fed) + 1
        /\ \A i \in 1 .. Len(fed) : fed'[i] = fed[i]
        /\ fed'[Len(fed) + 1] = pend[k]
    BY <1>1, <1>3, AppendProperties
  <2>2. \A i \in 1 .. Len(fed') : \/ i \in 1 .. Len(fed) /\ fed'[i] = fed[i]
                                  \/ i = Len(fed) + 1 /\ fed'[i] = pend[k]
    BY <1>1, <2>1
  <2>3. ASSUME NEW j, Fed(j)' PROVE Fed(j) \/ j = k
    <3>1. PICK i \in 1 .. Len(fed') : \E p \in fed'[i] : AuOf[p] = j
      BY <2>3 DEF Fed
    <3>2. CASE i \in 1 .. Len(fed) /\ fed'[i] = fed[i]
      BY <3>1, <3>2 DEF Fed
    <3>3. CASE fed'[i] = pend[k]
      BY <3>1, <3>3 DEF Grown, Whole
    <3> QED BY <2>2, <3>2, <3>3
  <2> QED BY <2>1, <2>2, <2>3
<1> QED BY <1>2, <1>3 DEF Flushes

(* A unit that was not fed before is fed once.                             *)
LEMMA FlushOnce ==
  ASSUME TypeOK, OnceInv, NEW k \in AUs, ~ Fed(k), NEW pend, Grown(pend), Stays,
         Flushes(k, pend)
  PROVE  OnceInv'
<1>1. \A j \in flushed' : pending'[j] = {}
  BY DEF Flushes, Grown, TypeOK
<1>2. ASSUME NEW j \in AUs, Fed(j)'
      PROVE  pending'[j] = {} /\ (j \in flushed' \/ Settled(j)')
  BY <1>2, FlushFed DEF Flushes, Grown, OnceInv, Stays
<1>3. FedOnce'
  <2> SUFFICES ASSUME NEW i \in 1 .. Len(fed'), NEW h \in 1 .. Len(fed'), i # h,
                      NEW p \in fed'[i], NEW q \in fed'[h], AuOf[p] = AuOf[q]
               PROVE  FALSE
    BY DEF FedOnce
  <2>1. /\ \/ i \in 1 .. Len(fed) /\ fed'[i] = fed[i]
           \/ i = Len(fed) + 1 /\ fed'[i] = pend[k]
        /\ \/ h \in 1 .. Len(fed) /\ fed'[h] = fed[h]
           \/ h = Len(fed) + 1 /\ fed'[h] = pend[k]
    BY FlushFed
  <2>2. CASE i \in 1 .. Len(fed) /\ h \in 1 .. Len(fed) /\ fed'[i] = fed[i] /\ fed'[h] = fed[h]
    BY <2>2 DEF OnceInv, FedOnce
  <2>3. CASE i \in 1 .. Len(fed) /\ fed'[i] = fed[i] /\ fed'[h] = pend[k]
    BY <2>3 DEF Fed, Grown, Whole
  <2>4. CASE h \in 1 .. Len(fed) /\ fed'[h] = fed[h] /\ fed'[i] = pend[k]
    BY <2>4 DEF Fed, Grown, Whole
  <2> QED BY <2>1, <2>2, <2>3, <2>4
<1> QED BY <1>1, <1>2, <1>3 DEF OnceInv

(* Where nothing is fed, nothing is fed twice.                             *)
LEMMA HoldOnce ==
  ASSUME TypeOK, OnceInv, NEW pend, Grown(pend), Stays,
         pending' = pend, UNCHANGED <<flushed, fed>>
  PROVE  OnceInv'
BY DEF OnceInv, FedOnce, Fed, Grown, Stays

(* What is known after a step is not newer than the newest packet: a unit  *)
(* that is fed has its marker, the last packet it can have.                *)
LEMMA KnownBounded ==
  ASSUME TypeOK, NEW k \in AUs, NEW pend, Grown(pend), NEW mx \in Packets,
         \A q \in Known : q <= mx, \A j \in AUs : \A q \in pend[j] : q <= mx,
         \/ Flushes(k, pend)
         \/ pending' = pend /\ UNCHANGED fed
  PROVE  \A q \in Known' : q <= mx
<1>1. ASSUME pending' = pend, UNCHANGED fed, NEW q \in Known' PROVE q <= mx
  <2>1. q \in Packets /\ AuOf[q] \in AUs /\ (q \in pend[AuOf[q]] \/ Fed(AuOf[q]))
    BY <1>1 DEF Known, Fed, AUs
  <2> QED BY <2>1 DEF Known
<1>2. ASSUME Flushes(k, pend), NEW q \in Known' PROVE q <= mx
  <2>1. q \in Packets /\ AuOf[q] \in AUs /\ (q \in pending'[AuOf[q]] \/ Fed(AuOf[q])')
    BY <1>2 DEF Known, AUs
  <2>2. q \in pending'[AuOf[q]] => q \in pend[AuOf[q]]
    BY <1>2, <2>1 DEF Flushes
  <2>3. q \in pend[AuOf[q]] \/ Fed(AuOf[q]) \/ AuOf[q] = k
    BY <1>2, <2>1, <2>2, FlushFed
  <2>4. CASE AuOf[q] = k
    <3>1. PICK m \in pend[k] : Marker(m)
      BY <1>2 DEF Flushes, HasMarker
    <3>2. m \in Packets /\ AuOf[m] = k /\ m <= mx
      BY <3>1 DEF Grown, Whole
    <3>3. q <= m
      BY <2>1, <2>4, <3>1, <3>2, MarkerEnds
    <3> QED BY <2>1, <3>2, <3>3, StreamAssumption DEF Packets
  <2> QED BY <2>1, <2>3, <2>4 DEF Known
<1> QED BY <1>1, <1>2

(* What _queue_video_group_packet does with a packet of unit k.            *)
LEMMA QueueIs ==
  ASSUME TypeOK, NEW p \in Packets, QueuePacket(p)
  PROVE  \/ UNCHANGED <<pending, flushed, fed>> /\ AuOf[p] \in flushed
         \/ /\ AuOf[p] \notin flushed
            /\ \E pend \in {pending, [pending EXCEPT ![AuOf[p]] = @ \cup {p}]} :
                 \/ pending' = pend /\ UNCHANGED <<flushed, fed>>
                 \/ Flushes(AuOf[p], pend)
<1> DEFINE k == AuOf[p]
           known == \E q \in pending[k] : SeqOf(q) = SeqOf(p)
           pend == IF known THEN pending ELSE [pending EXCEPT ![k] = @ \cup {p}]
           arr == IF pending[k] = {}
                  THEN arrivedBefore \cup (PendingKeys \X {k})
                  ELSE arrivedBefore
           preceding == {j \in PendingKeys \ {k} : Precedes(j, k, pend, arr)}
           unended == {j \in preceding : ~ HasMarker(pend[j])}
<1>1. k \in AUs
  BY DEF AUs
<1>2. \/ UNCHANGED <<groupVars, pc, outVars>> /\ k \in flushed
      \/ /\ k \notin flushed
         /\ \E ks \in {{}, unended, {k}} : Hold(ks, pend, arr)
         /\ UNCHANGED <<pc, outVars>>
      \/ /\ k \notin flushed
         /\ HasMarker(pend[k])
         /\ Flush(k, pend, arr)
  BY DEF QueuePacket
<1>3. pend \in {pending, [pending EXCEPT ![k] = @ \cup {p}]}
  OBVIOUS
<1> HIDE DEF pend, arr, unended, k
<1>4. \/ UNCHANGED <<pending, flushed, fed>> /\ k \in flushed
      \/ /\ k \notin flushed
         /\ \/ pending' = pend /\ UNCHANGED <<flushed, fed>>
            \/ Flushes(k, pend)
  BY <1>1, <1>2, FlushIs DEF Hold, groupVars, outVars
<1> QED BY <1>3, <1>4 DEF k

(* A packet that arrives: of a unit that was closed, or that was not fed   *)
(* yet.                                                                    *)
LEMMA ReceiveKeeps ==
  ASSUME Short, TypeOK, HeardInv, OnceInv, NEW p \in Packets, Receive(p)
  PROVE  HeardInv' /\ OnceInv'
<1> DEFINE k == AuOf[p]
<1>1. k \in AUs /\ p \in Whole(k) /\ TrackSeq(SeqOf(p)) /\ QueuePacket(p) /\ p \in net
  BY DEF Receive, AUs, Whole
<1>2. PICK mx \in Packets :
        /\ maxSeq' = SeqOf(mx) /\ p <= mx
        /\ \A q \in Known : q <= mx /\ (SeqOf(q) \in nack' => SeqOf(q) \in nack)
        /\ \A s \in nack' : \E q \in Packets : q < mx /\ s = SeqOf(q)
        /\ SeqOf(p) \notin nack'
  BY <1>1, TrackStep
<1>3. maxSeq' # None
  BY <1>2, SeqType, SeqAssumption
<1>4. Stays
  <2> SUFFICES ASSUME NEW j \in AUs, Fed(j), Settled(j), NEW q \in Whole(j)
               PROVE  q <= sent' /\ q \notin net' /\ SeqOf(q) \notin nack'
    BY DEF Stays, Settled
  <2>1. q \in Known
    BY DEF Known, Whole
  <2>2. SeqOf(q) \notin nack'
    BY <1>2, <2>1 DEF Settled
  <2>3. sent' = sent /\ net' \subseteq net
    BY DEF Receive
  <2> QED BY <2>2, <2>3 DEF Settled
<1>5. k \in flushed \/ ~ Fed(k)
  BY <1>1 DEF OnceInv, Settled
<1>6. \A q \in Packets, j \in AUs : q \in pending[j] => q \in Known
  BY DEF TypeOK, Known, Whole
<1>7. CASE UNCHANGED <<pending, flushed, fed>>
  <2>1. Known' = Known
    BY <1>7 DEF Known, Fed
  <2>2. NackOnlyMissing'
    BY <1>2, <1>6, <1>7 DEF NackOnlyMissing, HeardInv, TypeOK
  <2>3. OnceInv'
    BY <1>4, <1>7 DEF OnceInv, FedOnce, Fed, Stays
  <2> QED BY <1>2, <1>3, <2>1, <2>2, <2>3 DEF HeardInv, Heard
<1>8. ASSUME k \notin flushed,
             NEW pend \in {pending, [pending EXCEPT ![k] = @ \cup {p}]},
             \/ pending' = pend /\ UNCHANGED <<flushed, fed>>
             \/ Flushes(k, pend)
      PROVE  HeardInv' /\ OnceInv'
  <2>1. Grown(pend)
    <3>1. pend \in [AUs -> SUBSET Packets] /\ \A j \in AUs : pend[j] \subseteq Whole(j)
      BY <1>1, <1>8 DEF TypeOK
    <3>2. \A j \in AUs : j # k => pend[j] = pending[j]
      BY <1>1, <1>8 DEF TypeOK
    <3>3. \A j \in flushed : pend[j] = {}
      BY <1>8, <3>2 DEF OnceInv, TypeOK
    <3>4. \A j \in AUs : Fed(j) => pend[j] = {}
      BY <1>5, <1>8, <3>2 DEF OnceInv
    <3> QED BY <3>1, <3>3, <3>4 DEF Grown
  <2>2. \A j \in AUs : \A q \in pend[j] : q <= mx /\ SeqOf(q) \notin nack'
    <3>1. \A j \in AUs : \A q \in pend[j] : q = p \/ q \in pending[j]
      BY <1>1, <1>8 DEF TypeOK
    <3>2. \A j \in AUs : \A q \in pending[j] : q <= mx /\ SeqOf(q) \notin nack'
      BY <1>2, <1>6 DEF TypeOK, HeardInv, NackOnlyMissing
    <3> QED BY <1>2, <3>1, <3>2
  <2>3. \A q \in Known' : q <= mx
    BY <1>1, <1>2, <1>8, <2>1, <2>2, KnownBounded
  <2>4. NackOnlyMissing'
    BY <1>8, <2>2 DEF NackOnlyMissing, Flushes
  <2>5. OnceInv'
    BY <1>1, <1>4, <1>5, <1>8, <2>1, FlushOnce, HoldOnce
  <2> QED BY <1>2, <1>3, <2>3, <2>4, <2>5 DEF HeardInv, Heard
<1> QED BY <1>1, <1>7, <1>8, QueueIs

(* The flush of the groups that became ready feeds no unit twice.          *)
LEMMA ReadyKeeps ==
  TypeOK /\ HeardInv /\ OnceInv /\ FlushReady => HeardInv' /\ OnceInv'
<1> SUFFICES ASSUME TypeOK, HeardInv, OnceInv, FlushReady PROVE HeardInv' /\ OnceInv'
  OBVIOUS
<1>1. UNCHANGED <<netVars, seqVars>>
  BY DEF FlushReady
<1>2. Stays /\ Grown(pending)
  BY <1>1 DEF Stays, Settled, netVars, seqVars, Grown, TypeOK, OnceInv
<1>3. CASE UNCHANGED <<pending, flushed, fed>>
  BY <1>1, <1>2, <1>3
     DEF seqVars, HeardInv, Heard, Known, Fed, NackOnlyMissing, OnceInv, FedOnce, Stays
<1>4. ASSUME NEW k \in PendingKeys, Flushes(k, pending) PROVE HeardInv' /\ OnceInv'
  <2>1. k \in AUs /\ ~ Fed(k) /\ pending[k] # {}
    BY DEF PendingKeys, OnceInv
  <2>2. OnceInv'
    BY <1>2, <1>4, <2>1, FlushOnce
  <2>3. PICK p \in Packets : p \in pending[k] /\ p \in Known
    BY <2>1 DEF TypeOK, Known, Whole
  <2>4. PICK mx \in Packets : Heard(mx)
    BY <2>3 DEF HeardInv
  <2>5. \A j \in AUs : \A q \in pending[j] : q \in Known
    BY DEF TypeOK, Known, Whole
  <2>6. \A q \in Known' : q <= mx
    BY <1>2, <1>4, <2>1, <2>4, <2>5, KnownBounded DEF Heard
  <2>7. NackOnlyMissing'
    BY <1>1, <1>4 DEF NackOnlyMissing, HeardInv, Flushes, seqVars
  <2>8. Heard(mx)' /\ maxSeq' # None
    BY <1>1, <2>3, <2>4, <2>6 DEF Heard, HeardInv, seqVars
  <2> QED BY <2>2, <2>7, <2>8 DEF HeardInv
<1>5. \/ UNCHANGED <<pending, flushed, fed>>
      \/ \E k \in PendingKeys : HasMarker(pending[k]) /\ Flush(k, pending, arrivedBefore)
  BY CompleteHasMarker DEF FlushReady, Hold, groupVars, outVars
<1>6. \A k \in PendingKeys : k \in AUs
  BY DEF PendingKeys
<1> QED BY <1>3, <1>4, <1>5, <1>6, FlushIs

(* Nor does the eviction, which forgets only units that are settled.       *)
LEMMA EvictKeeps ==
  TypeOK /\ HeardInv /\ OnceInv /\ EvictStaleGroups => HeardInv' /\ OnceInv'
<1> SUFFICES ASSUME TypeOK, HeardInv, OnceInv, EvictStaleGroups PROVE HeardInv' /\ OnceInv'
  OBVIOUS
<1>1. PICK late \in SUBSET deadline, stale \in SUBSET Aging,
           old \in {{}, {k \in flushed : Settled(k)}} :
        /\ flushed' = (flushed \ old) \cup late \cup stale
        /\ Remove(late \cup stale, pending, arrivedBefore)
        /\ DropGroups(late, stale) \/ UNCHANGED <<anchor, pc, outVars>>
  BY DEF EvictStaleGroups, Expired
<1>2. /\ fed' = fed /\ UNCHANGED <<netVars, seqVars>>
      /\ pending' = [j \in AUs |-> IF j \in late \cup stale THEN {} ELSE pending[j]]
  BY <1>1 DEF EvictStaleGroups, DropGroups, Remove, outVars
<1>3. \A j \in AUs : Fed(j)' = Fed(j) /\ Settled(j)' = Settled(j)
  BY <1>2 DEF Fed, Settled, netVars, seqVars
<1>4. OnceInv'
  <2>1. \A j \in flushed' : pending'[j] = {}
    BY <1>1, <1>2 DEF OnceInv, TypeOK, Aging, PendingKeys
  <2>2. ASSUME NEW j \in AUs, Fed(j)'
        PROVE  pending'[j] = {} /\ (j \in flushed' \/ Settled(j)')
    BY <1>1, <1>2, <1>3, <2>2 DEF OnceInv
  <2>3. FedOnce'
    BY <1>2 DEF OnceInv, FedOnce
  <2> QED BY <2>1, <2>2, <2>3 DEF OnceInv
<1>5. Known' \subseteq Known
  BY <1>2, <1>3 DEF Known, AUs
<1>6. NackOnlyMissing'
  BY <1>2 DEF NackOnlyMissing, HeardInv, seqVars
<1>7. maxSeq' = maxSeq /\ nack' = nack
  BY <1>2 DEF seqVars
<1> QED BY <1>4, <1>5, <1>6, <1>7 DEF HeardInv, Heard

(* The host and the network put nothing of a settled unit under way.       *)
LEMMA NetKeeps ==
  TypeOK /\ HeardInv /\ OnceInv /\ (Send \/ DrainPendingNack \/ QuietStream)
    => HeardInv' /\ OnceInv'
<1> SUFFICES ASSUME TypeOK, HeardInv, OnceInv, Send \/ DrainPendingNack \/ QuietStream
             PROVE  HeardInv' /\ OnceInv'
  OBVIOUS
<1>1. /\ UNCHANGED <<pending, flushed, fed, maxSeq>> /\ nack' \subseteq nack
  BY DEF Send, DrainPendingNack, QuietStream, groupVars, outVars, seqVars, vars
<1>2. Known' = Known /\ \A j \in AUs : Fed(j)' = Fed(j)
  BY <1>1 DEF Known, Fed
<1>3. HeardInv'
  BY <1>1, <1>2 DEF HeardInv, Heard, NackOnlyMissing
<1>4. ASSUME NEW j \in AUs, Settled(j) PROVE Settled(j)'
  <2> SUFFICES ASSUME NEW q \in Whole(j)
               PROVE  q <= sent' /\ q \notin net' /\ SeqOf(q) \notin nack'
    BY DEF Settled
  <2>1. q \in Int /\ q <= sent /\ q \notin net /\ SeqOf(q) \notin nack /\ sent \in Int
    BY <1>4, StreamAssumption DEF Settled, Whole, Packets, TypeOK
  <2>2. CASE Send
    BY <1>1, <2>1, <2>2 DEF Send
  <2>3. CASE DrainPendingNack
    BY <1>1, <2>1, <2>3 DEF DrainPendingNack
  <2>4. CASE QuietStream
    BY <2>1, <2>4 DEF QuietStream, vars, netVars, seqVars
  <2> QED BY <2>2, <2>3, <2>4
<1>5. OnceInv'
  BY <1>1, <1>2, <1>4 DEF OnceInv, FedOnce
<1> QED BY <1>3, <1>5

(* Nothing is here and nothing fed at the start.                           *)
LEMMA PathInit == Init => HeardInv /\ OnceInv
<1> SUFFICES ASSUME Init PROVE HeardInv /\ OnceInv
  OBVIOUS
<1>1. Len(fed) = 0 /\ \A j : ~ Fed(j)
  BY DEF Init, Fed
<1>2. Known = {} /\ \A k \in AUs : pending[k] = {}
  BY <1>1 DEF Init, Known, AUs
<1> QED BY <1>1, <1>2 DEF Init, HeardInv, OnceInv, FedOnce, NackOnlyMissing

(* Every step keeps what was heard and fed apart.                          *)
LEMMA PathStep ==
  ASSUME Short
  PROVE  TypeOK /\ HeardInv /\ OnceInv /\ [Next]_vars => HeardInv' /\ OnceInv'
<1> SUFFICES ASSUME TypeOK, HeardInv, OnceInv, [Next]_vars PROVE HeardInv' /\ OnceInv'
  OBVIOUS
<1>1. CASE UNCHANGED vars
  BY <1>1 DEF vars, netVars, groupVars, seqVars, outVars, HeardInv, Heard, Known, Fed,
              NackOnlyMissing, OnceInv, FedOnce, Settled
<1> QED BY <1>1, ReceiveKeeps, ReadyKeeps, EvictKeeps, NetKeeps DEF Next

(* A packet that is here is not asked for again, whatever is lost, resent, *)
(* doubled or reordered (_track_seq), in either codec.                     *)
THEOREM AskedWhenMissing ==
  ASSUME Short
  PROVE  Spec => []NackOnlyMissing
<1>1. HeardInv => NackOnlyMissing
  BY DEF HeardInv
<1>2. TypeOK /\ HeardInv /\ OnceInv /\ [Next]_vars => HeardInv' /\ OnceInv'
  BY PathStep
<1> QED BY <1>1, <1>2, PathInit, TypeCorrect, PTL DEF Spec

(* No packet of a unit that was handed to the decoder makes it decode      *)
(* again, however late (_recently_flushed), in either codec.               *)
THEOREM DecodedOnce ==
  ASSUME Short
  PROVE  Spec => []FedOnce
<1>1. OnceInv => FedOnce
  BY DEF OnceInv
<1>2. TypeOK /\ HeardInv /\ OnceInv /\ [Next]_vars => HeardInv' /\ OnceInv'
  BY PathStep
<1> QED BY <1>1, <1>2, PathInit, TypeCorrect, PTL DEF Spec

-----------------------------------------------------------------------------
(* No hole in the middle of what is fed *)

(* The least of a group's packets.                                         *)
LEMMA EarliestPacket ==
  ASSUME NEW grp \in SUBSET Packets, grp # {}
  PROVE  \E m \in grp : \A q \in grp : m <= q
<1>1. grp \in SUBSET Nat
  BY StreamAssumption DEF Packets
<1> QED BY <1>1, LeastNatural

(* The gap before a packet is its distance from the nearest other one.     *)
LEMMA GapIsLeast ==
  ASSUME NEW grp \in SUBSET Packets, NEW p \in grp, grp \ {p} # {}
  PROVE  \E c \in grp \ {p} :
           /\ GapBefore(p, grp) = Dist(SeqOf(c), SeqOf(p))
           /\ \A r \in grp \ {p} : GapBefore(p, grp) <= Dist(SeqOf(r), SeqOf(p))
<1> DEFINE d(q) == Dist(SeqOf(q), SeqOf(p))
           T == {d(q) : q \in grp \ {p}}
           nearest(q) == \A r \in grp \ {p} : d(q) <= d(r)
<1>1. T \in SUBSET Nat /\ T # {}
  <2>1. \A q \in grp : d(q) \in Seqs
    BY SeqType
  <2> QED BY <2>1, SeqAssumption DEF Seqs
<1>2. PICK x \in T : \A y \in T : x <= y
  <2> HIDE DEF T
  <2> QED BY <1>1, LeastNatural
<1>3. PICK q \in grp \ {p} : nearest(q)
  BY <1>2
<1> DEFINE c == CHOOSE q2 \in grp \ {p} : nearest(q2)
<1>4. c \in grp \ {p} /\ nearest(c)
  <2> HIDE DEF nearest
  <2> QED BY <1>3
<1>5. GapBefore(p, grp) = d(c)
  BY DEF GapBefore
<1> HIDE DEF c
<1> QED BY <1>4, <1>5

(* In a short stream the packet that starts the group is the one sent      *)
(* first, whether or not the numbers straddle the wrap.                    *)
LEMMA FirstIsEarliest ==
  ASSUME Short, NEW grp \in SUBSET Packets, grp # {}
  PROVE  \A q \in grp : FirstOf(grp) <= q
<1> DEFINE f == FirstOf(grp)
<1>1. f \in grp /\ Starts(f, grp)
  BY FirstExists
<1>2. PICK m \in grp : \A q \in grp : m <= q
  BY EarliestPacket
<1>3. /\ f \in Int /\ m \in Int /\ 1 <= m /\ f <= NumPackets /\ NumPackets \in Int
      /\ SeqMod \in Int /\ 2 * NumPackets <= SeqMod /\ FirstSeq \in Int
      /\ f \in Packets /\ m \in Packets
  <2>1. f \in Packets /\ m \in Packets
    BY <1>1, <1>2
  <2> HIDE DEF f
  <2> QED BY <2>1, ShortIsHalf, StreamAssumption, SeqAssumption DEF Packets, Seqs
<1> HIDE DEF f
<1>4. ASSUME m < f PROVE FALSE
  <2>1. CASE \E q, r \in grp : SeqOf(r) - SeqOf(q) > SeqMod \div 2
    <3>1. \/ GapBefore(f, grp) > GapBefore(m, grp)
          \/ GapBefore(f, grp) = GapBefore(m, grp)
      BY <1>1, <1>2, <2>1 DEF Starts
    <3>2. m \in grp \ {f} /\ f \in grp \ {m}
      BY <1>1, <1>2, <1>3, <1>4
    <3>3. GapBefore(f, grp) <= f - m /\ GapBefore(f, grp) \in Int
      <4>1. Dist(SeqOf(m), SeqOf(f)) = f - m
        BY <1>3, <1>4, ShortDist
      <4> QED BY <1>1, <3>2, <4>1, GapIsLeast, GapType, SeqAssumption DEF Seqs
    <3>4. PICK c \in grp \ {m} : GapBefore(m, grp) = Dist(SeqOf(c), SeqOf(m))
      BY <1>2, <3>2, GapIsLeast
    <3>5. c \in Packets /\ c \in Int /\ m < c /\ c <= NumPackets
      BY <1>2, <1>3, <3>4, StreamAssumption DEF Packets
    <3>6. GapBefore(m, grp) = SeqMod - (c - m)
      BY <1>3, <3>4, <3>5, ShortDist
    <3> QED BY <1>3, <3>1, <3>3, <3>5, <3>6
  <2>2. CASE ~ \E q, r \in grp : SeqOf(r) - SeqOf(q) > SeqMod \div 2
    <3>1. SeqOf(f) <= SeqOf(m) /\ ~ (SeqOf(m) - SeqOf(f) > SeqMod \div 2)
      BY <1>1, <1>2, <2>2 DEF Starts
    <3>2. ~ (SeqMod - (f - m) <= SeqMod \div 2)
      BY <1>3, <1>4
    <3> QED BY <1>3, <1>4, <3>1, <3>2, SeqOfIs
  <2> QED BY <2>1, <2>2
<1>5. f <= m
  BY <1>3, <1>4
<1> QED BY <1>2, <1>3, <1>5, StreamAssumption DEF Packets, f

(* A contiguous group has every packet between two of its own.             *)
LEMMA ContiguousIsWhole ==
  ASSUME Short, NEW grp \in SUBSET Packets, Contiguous(grp), NEW p \in grp, NEW q \in grp
  PROVE  p .. q \subseteq grp
<1> SUFFICES ASSUME NEW x \in p .. q, x \notin grp PROVE FALSE
  OBVIOUS
<1>0. \A r \in grp : r \in Int /\ r \in Packets /\ 1 <= r /\ r <= NumPackets
  BY StreamAssumption DEF Packets
<1>1. x \in Int /\ p < x /\ x < q
  BY <1>0
<1> DEFINE behind == {y \in grp : x < y}
<1>2. behind \in SUBSET Packets /\ behind # {}
  BY <1>1
<1>3. PICK y \in behind : \A z \in behind : y <= z
  <2> HIDE DEF behind
  <2> QED BY <1>2, EarliestPacket
<1>4. y # FirstOf(grp)
  BY <1>0, <1>1, <1>3, FirstIsEarliest
<1>5. PICK r \in grp : Dist(SeqOf(r), SeqOf(y)) = 1
  BY <1>3, <1>4 DEF Contiguous
<1>6. y \in Int /\ r \in Int /\ SeqMod \in Int /\ 2 * NumPackets <= SeqMod /\ NumPackets \in Int
  BY <1>0, <1>3, ShortIsHalf, StreamAssumption
<1>7. CASE r <= y
  <2>1. r = y - 1
    BY <1>0, <1>3, <1>5, <1>6, <1>7, ShortDist
  <2>2. x < r \/ r = x
    BY <1>1, <1>3, <1>6, <2>1
  <2> QED BY <1>3, <1>5, <1>6, <2>1, <2>2
<1>8. CASE y < r
  <2>1. SeqMod - (r - y) = 1
    BY <1>0, <1>3, <1>5, <1>8, ShortDist
  <2> QED BY <1>0, <1>3, <1>6, <1>8, <2>1
<1> QED BY <1>6, <1>7, <1>8

(* What a step hands to the decoder is contiguous.                         *)
LEMMA FeedsContiguous ==
  ASSUME TypeOK, [Next]_vars
  PROVE  fed' = fed \/ \E g \in SUBSET Packets : Contiguous(g) /\ fed' = Append(fed, g)
<1>1. ASSUME NEW k \in AUs, NEW pend \in [AUs -> SUBSET Packets], NEW arr, Flush(k, pend, arr)
      PROVE  fed' = fed \/ \E g \in SUBSET Packets : Contiguous(g) /\ fed' = Append(fed, g)
  BY <1>1 DEF Flush, outVars
<1>2. ASSUME NEW p \in Packets, Receive(p)
      PROVE  fed' = fed \/ \E g \in SUBSET Packets : Contiguous(g) /\ fed' = Append(fed, g)
  <2> DEFINE k == AuOf[p]
             known == \E q \in pending[k] : SeqOf(q) = SeqOf(p)
             pend == IF known THEN pending ELSE [pending EXCEPT ![k] = @ \cup {p}]
             arr == IF pending[k] = {}
                    THEN arrivedBefore \cup (PendingKeys \X {k})
                    ELSE arrivedBefore
  <2>1. k \in AUs /\ pend \in [AUs -> SUBSET Packets]
    BY DEF AUs, TypeOK
  <2>2. fed' = fed \/ Flush(k, pend, arr)
    BY <1>2 DEF Receive, QueuePacket, outVars
  <2> HIDE DEF pend, arr, k
  <2> QED BY <1>1, <2>1, <2>2
<1>3. CASE FlushReady
  <2>1. fed' = fed \/ \E k \in PendingKeys : Flush(k, pending, arrivedBefore)
    BY <1>3 DEF FlushReady, outVars
  <2> QED BY <1>1, <2>1 DEF PendingKeys, TypeOK
<1>4. CASE EvictStaleGroups
  BY <1>4 DEF EvictStaleGroups, DropGroups, outVars
<1>5. CASE Send \/ DrainPendingNack \/ QuietStream \/ UNCHANGED vars
  BY <1>5 DEF Send, DrainPendingNack, QuietStream, outVars, vars
<1> QED BY <1>2, <1>3, <1>4, <1>5 DEF Next

(* No picture with a packet missing in its middle reaches the decoder, in  *)
(* either codec (the frame-completeness check of _flush_group).            *)
THEOREM NoHoleFed ==
  ASSUME Short
  PROVE  Spec => []FedWithoutHole
<1>1. Init => FedWithoutHole
  BY DEF Init, FedWithoutHole
<1>2. TypeOK /\ FedWithoutHole /\ [Next]_vars => FedWithoutHole'
  <2> SUFFICES ASSUME TypeOK, FedWithoutHole, [Next]_vars PROVE FedWithoutHole'
    OBVIOUS
  <2>1. CASE fed' = fed
    BY <2>1 DEF FedWithoutHole
  <2>2. ASSUME NEW g \in SUBSET Packets, Contiguous(g), fed' = Append(fed, g)
        PROVE  FedWithoutHole'
    <3>1. \A p, q \in g : p .. q \subseteq g
      BY <2>2, ContiguousIsWhole
    <3>2. \A i \in 1 .. Len(fed') : fed'[i] = g \/ (i \in 1 .. Len(fed) /\ fed'[i] = fed[i])
      BY <2>2, AppendProperties, LenProperties DEF TypeOK
    <3> QED BY <3>1, <3>2 DEF FedWithoutHole
  <2> QED BY <2>1, <2>2, FeedsContiguous
<1> QED BY <1>1, <1>2, TypeCorrect, PTL DEF Spec

-----------------------------------------------------------------------------
(* A boundary, and the unit behind it *)

(* The boundary is the number of a unit's last packet.                     *)
BoundaryInv == anchor # None => \E m \in Packets : Marker(m) /\ anchor = SeqOf(m)

(* The marker number of a group is that of a marker packet.                *)
LEMMA MarkerSeqIs ==
  ASSUME NEW grp \in SUBSET Packets, HasMarker(grp)
  PROVE  \E m \in Packets : Marker(m) /\ MarkerSeq(grp) = SeqOf(m)
BY DEF HasMarker, MarkerSeq

(* The packet with the following number is the next packet.                *)
LEMMA FollowingIsNext ==
  ASSUME Short, NEW p \in Packets, NEW q \in Packets, SeqOf(q) = Following(SeqOf(p))
  PROVE  q = p + 1
<1>1. SeqOf(p) \in Seqs /\ SeqOf(q) \in Seqs
  BY SeqType
<1>2. /\ p \in Int /\ q \in Int /\ SeqMod \in Int /\ NumPackets \in Int
      /\ 1 <= p /\ p <= NumPackets /\ 1 <= q /\ q <= NumPackets /\ 2 * NumPackets <= SeqMod
      /\ SeqOf(p) \in Int /\ 0 <= SeqOf(p) /\ SeqOf(p) < SeqMod
  BY <1>1, ShortIsHalf, StreamAssumption, SeqAssumption DEF Packets, Seqs
<1>3. SeqOf(q) = IF SeqOf(p) + 1 < SeqMod THEN SeqOf(p) + 1 ELSE 0
  <2>1. CASE SeqOf(p) + 1 < SeqMod
    <3>1. SeqOf(p) + 1 \in 0 .. SeqMod - 1 /\ SeqMod \in Nat \ {0} /\ SeqOf(p) + 1 \in Int
      BY <1>2, <2>1, SeqAssumption
    <3>2. (SeqOf(p) + 1) % SeqMod = SeqOf(p) + 1
      BY <3>1, Reduced
    <3> QED BY <2>1, <3>2 DEF Following
  <2>2. CASE ~ (SeqOf(p) + 1 < SeqMod)
    <3>1. SeqOf(p) + 1 = SeqMod /\ SeqMod \in SeqMod .. 2 * SeqMod - 1 /\ SeqMod \in Nat \ {0}
      BY <1>2, <2>2, SeqAssumption
    <3>2. SeqMod % SeqMod = SeqMod - SeqMod
      BY <1>2, <3>1, Reduced
    <3>3. SeqOf(q) = 0
      BY <1>2, <3>1, <3>2 DEF Following
    <3> QED BY <2>2, <3>3
  <2> QED BY <2>1, <2>2
<1>4. Dist(SeqOf(p), SeqOf(q)) = 1
  BY <1>1, <1>2, <1>3, DistOf
<1>5. CASE p <= q
  BY <1>2, <1>4, <1>5, ShortDist
<1>6. CASE q < p
  <2>1. SeqMod - (p - q) = 1
    BY <1>4, <1>6, ShortDist
  <2> QED BY <1>2, <1>6, <2>1
<1> QED BY <1>2, <1>5, <1>6

(* A complete group behind a boundary is the whole unit.                   *)
LEMMA CompleteIsWhole ==
  ASSUME Short, BoundaryInv, anchor # None, NEW k \in AUs, NEW grp \in SUBSET Whole(k),
         GroupComplete(grp)
  PROVE  grp = Whole(k)
<1>1. grp \in SUBSET Packets /\ grp # {}
  BY CompleteHasMarker DEF Whole, HasMarker
<1>2. PICK e \in grp : Marker(e)
  BY DEF GroupComplete
<1>3. PICK m \in Packets : Marker(m) /\ anchor = SeqOf(m)
  BY DEF BoundaryInv
<1> DEFINE f == FirstOf(grp)
<1>4. f \in grp /\ f \in Packets /\ SeqOf(f) = Following(SeqOf(m))
  BY <1>1, <1>3, FirstExists DEF GroupComplete
<1>5. f = m + 1
  <2> HIDE DEF f
  <2> QED BY <1>3, <1>4, FollowingIsNext
<1> HIDE DEF f
<1>6. ASSUME NEW q \in Whole(k) PROVE q \in grp
  <2>1. q \in Packets /\ AuOf[q] = k /\ AuOf[f] = k /\ AuOf[e] = k /\ e \in Packets
    BY <1>1, <1>2, <1>4 DEF Whole
  <2>2. q <= e
    BY <1>2, <2>1, MarkerEnds
  <2>3. ASSUME q < f PROVE FALSE
    <3>1. q <= m /\ m <= f
      BY <1>3, <1>4, <1>5, <2>1, <2>3, StreamAssumption DEF Packets
    <3>2. AuOf[q] <= AuOf[m] /\ AuOf[m] <= AuOf[f] /\ AuOf[m] \in Nat /\ k \in Nat
      BY <1>3, <1>4, <2>1, <3>1, StreamAssumption
    <3>3. AuOf[m] = AuOf[m + 1]
      BY <1>5, <2>1, <3>2
    <3> QED BY <1>3, <1>4, <1>5, <3>3 DEF Marker
  <2>4. q \in f .. e
    BY <1>4, <2>1, <2>2, <2>3, StreamAssumption DEF Packets
  <2>5. Contiguous(grp)
    BY DEF GroupComplete
  <2> QED BY <1>1, <1>2, <1>4, <2>4, <2>5, ContiguousIsWhole
<1> QED BY <1>6

(* What an AVC stream's step hands to the decoder is complete, and the     *)
(* boundary it leaves is a marker's.                                       *)
LEMMA AvcFeeds ==
  ASSUME codec = "avc", TypeOK, BoundaryInv, [Next]_vars
  PROVE  /\ BoundaryInv'
         /\ \/ fed' = fed
            \/ \E k \in AUs : \E g \in SUBSET Whole(k) :
                 GroupComplete(g) /\ fed' = Append(fed, g)
<1> DEFINE Goal == /\ BoundaryInv'
                   /\ \/ fed' = fed
                      \/ \E k \in AUs : \E g \in SUBSET Whole(k) :
                           GroupComplete(g) /\ fed' = Append(fed, g)
<1>1. ASSUME NEW k \in AUs, NEW pend, NEW arr, pend[k] \subseteq Whole(k),
             GroupComplete(pend[k]), Flush(k, pend, arr)
      PROVE  Goal
  <2>1. pend[k] \in SUBSET Packets /\ HasMarker(pend[k])
    BY <1>1, CompleteHasMarker DEF Whole
  <2>2. BoundaryInv'
    BY <1>1, <2>1, MarkerSeqIs DEF Flush, BoundaryInv
  <2>3. fed' = Append(fed, pend[k])
    BY <1>1 DEF Flush, GroupComplete
  <2> QED BY <1>1, <2>2, <2>3
<1>2. ASSUME UNCHANGED <<anchor, fed>> PROVE Goal
  BY <1>2 DEF BoundaryInv
<1>3. ASSUME NEW p \in Packets, Receive(p) PROVE Goal
  <2> DEFINE k == AuOf[p]
             known == \E q \in pending[k] : SeqOf(q) = SeqOf(p)
             pend == IF known THEN pending ELSE [pending EXCEPT ![k] = @ \cup {p}]
             arr == IF pending[k] = {}
                    THEN arrivedBefore \cup (PendingKeys \X {k})
                    ELSE arrivedBefore
  <2>1. k \in AUs /\ pend[k] \subseteq Whole(k)
    BY DEF AUs, Whole, TypeOK
  <2>2. \/ UNCHANGED <<anchor, fed>>
        \/ GroupComplete(pend[k]) /\ Flush(k, pend, arr)
    BY <1>3 DEF Receive, QueuePacket, Hold, groupVars, outVars
  <2> HIDE DEF pend, arr, k
  <2> QED BY <1>1, <1>2, <2>1, <2>2
<1>4. CASE FlushReady
  <2>1. \/ UNCHANGED <<anchor, fed>>
        \/ \E k \in PendingKeys :
             GroupComplete(pending[k]) /\ Flush(k, pending, arrivedBefore)
    BY <1>4 DEF FlushReady, Hold, groupVars, outVars
  <2> QED BY <1>1, <1>2, <2>1 DEF PendingKeys, TypeOK
<1>5. CASE EvictStaleGroups
  <2>1. PICK late \in SUBSET deadline, stale \in SUBSET Aging :
          DropGroups(late, stale) \/ UNCHANGED <<anchor, pc, outVars>>
    BY <1>5 DEF EvictStaleGroups, Expired
  <2>2. CASE DropGroups(late, stale)
    <3>1. PICK k \in late \cup stale :
            /\ anchor' = IF HasMarker(pending[k]) THEN MarkerSeq(pending[k]) ELSE None
            /\ fed' = fed
      BY <2>2 DEF DropGroups
    <3>2. pending[k] \in SUBSET Packets
      BY DEF Aging, PendingKeys, TypeOK
    <3> QED BY <3>1, <3>2, MarkerSeqIs DEF BoundaryInv
  <2> QED BY <1>2, <2>1, <2>2 DEF outVars
<1>6. CASE Send \/ DrainPendingNack \/ QuietStream \/ UNCHANGED vars
  BY <1>2, <1>6 DEF Send, DrainPendingNack, QuietStream, outVars, groupVars, vars
<1> QED BY <1>3, <1>4, <1>5, <1>6 DEF Next

(* An AVC unit whose start is known is fed with all of its packets,        *)
(* whatever was lost around it (_group_complete, _flush_group).            *)
THEOREM WholeUnitsFed ==
  ASSUME Short
  PROVE  Spec => WholeBehindBoundary
<1> DEFINE Inv == codec = "avc" => BoundaryInv
           WholeFed == codec = "avc" /\ fed' # fed /\ anchor # None
                       => \E k \in AUs : fed' = Append(fed, Whole(k))
<1>1. Init => Inv
  BY DEF Init, BoundaryInv
<1>2. TypeOK /\ Inv /\ [Next]_vars => Inv'
  BY AvcFeeds, CodecStays
<1>3. TypeOK /\ Inv /\ [Next]_vars => [WholeFed]_vars
  BY AvcFeeds, CompleteIsWhole
<1> QED BY <1>1, <1>2, <1>3, TypeCorrect, PTL DEF Spec, WholeBehindBoundary
=============================================================================
