----------------------------- MODULE AccessUnits -----------------------------
(***************************************************************************)
(* The video-process thread of proxy/session.py: RTP packets of one SSRC   *)
(* are grouped by timestamp into access units (AUs), an incomplete AVC     *)
(* unit waits a short repair window for its NACKed packets while later     *)
(* units queue behind it, and units reach the decoder in decode order or   *)
(* are dropped with the decoder told that its reference chain is broken.   *)
(*                                                                         *)
(* Time is abstract: a deadline (75 ms), the marker TTL (200 ms) and the   *)
(* dedup TTL (2 s) may expire at any moment, but groups expire in the      *)
(* order in which their clocks were started.  The network loses, delays,   *)
(* reorders and duplicates packets; the tx thread drains the NACK set.     *)
(***************************************************************************)
EXTENDS Integers, FiniteSets, Sequences

CONSTANTS
  NumPackets,   (* packets of the stream, numbered in sending order          *)
  AuOf,         (* packet -> its access unit, i.e. its RTP timestamp         *)
  FirstSeq,     (* sequence number of the packet before packet 1             *)
  SeqMod,       (* size of the sequence space: 2^16 in the code              *)
  MaxNackRun,   (* a forward jump NACKs fewer than this many packets: 32     *)
  Window,       (* bound: packets the network holds at once (reordering)     *)
  MaxLoss,      (* bound: packets the network may lose                       *)
  MaxDup,       (* bound: packets the network may deliver twice              *)
  None

Packets == 1 .. NumPackets
AUs == {AuOf[p] : p \in Packets}
Seqs == 0 .. SeqMod - 1

(* The stream is sent in timestamp order, a whole AU after another. *)
ASSUME StreamAssumption ==
  /\ NumPackets \in Nat \ {0}
  /\ AuOf \in [Packets -> Nat]
  /\ \A p, q \in Packets : p <= q => AuOf[p] <= AuOf[q]

ASSUME SeqAssumption ==
  /\ SeqMod \in Nat \ {0}
  /\ FirstSeq \in Seqs
  /\ None \notin Seqs

ASSUME BoundAssumption ==
  {MaxNackRun, Window, MaxLoss, MaxDup} \subseteq Nat

VARIABLES
  codec,         (* what the stream is coded in: "avc" or "hevc"               *)
  sent,          (* packets the host has sent so far                          *)
  net,           (* packets in flight                                         *)
  lost, dups,    (* how many packets the network lost and duplicated          *)
  pending,       (* AU -> packets collected (_pending_groups); {} = no entry  *)
  arrivedBefore, (* order in which the pending groups were created            *)
  deadline,      (* AUs with a running repair deadline                        *)
  armedBefore,   (* order in which those deadlines were set                   *)
  flushed,       (* _recently_flushed                                         *)
  anchor,        (* _last_group_marker_seq of the SSRC, None if unknown       *)
  maxSeq,        (* _max_seq of the SSRC, None before the first packet        *)
  nack,          (* _nack_pending of the SSRC                                 *)
  pc,            (* "recv", or "ready" inside _flush_ready_groups             *)
  fed,           (* history: the packets of each unit handed to the decoder   *)
  hole           (* mark_reference_chain_broken was called since the last one *)

netVars   == <<codec, sent, net, lost, dups>>
groupVars == <<pending, arrivedBefore, deadline, armedBefore, flushed, anchor>>
seqVars   == <<maxSeq, nack>>
outVars   == <<fed, hole>>
vars      == <<netVars, groupVars, seqVars, pc, outVars>>

-----------------------------------------------------------------------------
(* Packets and groups *)

SeqOf(p) == (FirstSeq + p) % SeqMod
Marker(p) == p + 1 \in Packets => AuOf[p + 1] # AuOf[p]
Whole(k) == {p \in Packets : AuOf[p] = k}

(* Circular distance from sequence number a forward to b. *)
Dist(a, b) == (b - a) % SeqMod
Following(a) == (a + 1) % SeqMod

HasMarker(grp) == \E p \in grp : Marker(p)

(* The sequence number of the group's marker packet. *)
MarkerSeq(grp) == SeqOf(CHOOSE p \in grp : Marker(p))

(* Distance from the nearest other packet of the group before p. *)
GapBefore(p, grp) ==
  LET d(q) == Dist(SeqOf(q), SeqOf(p))
  IN  d(CHOOSE q \in grp \ {p} : \A r \in grp \ {p} : d(q) <= d(r))

(* p comes first when the group is put in sequence order: the smallest     *)
(* number, or the packet after the widest circular gap when the numbers    *)
(* straddle the wrap (the later of two equally wide gaps).                 *)
Starts(p, grp) ==
  LET wraps == \E q, r \in grp : SeqOf(r) - SeqOf(q) > SeqMod \div 2
      g(q) == GapBefore(q, grp)
      before(q) == (SeqOf(q) - g(q)) % SeqMod
  IN  /\ p \in grp
      /\ IF wraps
         THEN \A q \in grp : \/ g(p) > g(q)
                             \/ g(p) = g(q) /\ before(p) >= before(q)
         ELSE \A q \in grp : SeqOf(p) <= SeqOf(q)

FirstOf(grp) == CHOOSE p \in grp : Starts(p, grp)

(* Slip: a single missing number is overlooked. *)
ContiguousSlip(grp) ==
  \A q \in grp \ {FirstOf(grp)} : \E r \in grp : Dist(SeqOf(r), SeqOf(q)) \in 1 .. 2

(* No sequence number is missing between the packets of the group. *)
Contiguous(grp) ==
  \A q \in grp \ {FirstOf(grp)} : \E r \in grp : Dist(SeqOf(r), SeqOf(q)) = 1

EndsWith(grp, p) ==
  \A q \in grp : Dist(SeqOf(FirstOf(grp)), SeqOf(q)) <= Dist(SeqOf(FirstOf(grp)), SeqOf(p))

(* Slip: internal contiguity alone, as for the first unit. *)
GroupCompleteSlip(grp) ==
  /\ \E p \in grp : Marker(p) /\ EndsWith(grp, p)
  /\ Contiguous(grp)

(* The marker ends the group, nothing is missing inside it, and it starts  *)
(* right after the last consumed marker when that boundary is known.       *)
GroupComplete(grp) ==
  /\ \E p \in grp : Marker(p) /\ EndsWith(grp, p)
  /\ Contiguous(grp)
  /\ anchor # None => SeqOf(FirstOf(grp)) = Following(anchor)

PendingKeys == {k \in AUs : pending[k] # {}}

(* Decode order of two groups of the map pend, created in the order arr:   *)
(* distance from the expected sequence number, or arrival while no         *)
(* boundary is known.                                                      *)
Precedes(j, k, pend, arr) ==
  LET d(i) == Dist(Following(anchor), SeqOf(FirstOf(pend[i])))
  IN  IF anchor = None
      THEN <<j, k>> \in arr
      ELSE \/ d(j) < d(k)
           \/ d(j) = d(k) /\ <<j, k>> \in arr

-----------------------------------------------------------------------------
(* Bookkeeping shared by the handlers *)

Without(order, ks) == {jk \in order : jk[1] \notin ks /\ jk[2] \notin ks}

(* Keep the groups, and set a repair deadline on those of ks without one. *)
Hold(ks, pend, arr) ==
  LET new == ks \ deadline
  IN  /\ pending' = pend
      /\ arrivedBefore' = arr
      /\ deadline' = deadline \cup new
      /\ armedBefore' = armedBefore \cup (deadline \X new)
           \cup {jk \in new \X new : Precedes(jk[1], jk[2], pend, arr)}
      /\ UNCHANGED <<flushed, anchor>>

(* Take the groups ks out of every map. *)
Remove(ks, pend, arr) ==
  /\ pending' = [k \in AUs |-> IF k \in ks THEN {} ELSE pend[k]]
  /\ arrivedBefore' = Without(arr, ks)
  /\ deadline' = deadline \ ks
  /\ armedBefore' = Without(armedBefore, ks)

(* Slip: the flushed key is not remembered. *)
FlushSlip(k, pend, arr) ==
  /\ Remove({k}, pend, arr)
  /\ UNCHANGED flushed
  /\ anchor' = MarkerSeq(pend[k])
  /\ IF Contiguous(pend[k])
     THEN fed' = Append(fed, pend[k]) /\ hole' = FALSE
     ELSE UNCHANGED outVars

(* _flush_group of AU k: move the boundary, and hand the unit to the       *)
(* decoder unless packets are missing inside it.                           *)
Flush(k, pend, arr) ==
  /\ Remove({k}, pend, arr)
  /\ flushed' = flushed \cup {k}
  /\ anchor' = MarkerSeq(pend[k])
  /\ IF Contiguous(pend[k])
     THEN fed' = Append(fed, pend[k]) /\ hole' = FALSE
     ELSE UNCHANGED outVars

(* Slip: a late packet leaves its NACK candidate pending. *)
TrackSeqSlip(seq) ==
  LET ahead(s) == Dist(maxSeq, s)
      skipped == {s \in Seqs : ahead(s) \in 1 .. ahead(seq) - 1 /\ ahead(s) < MaxNackRun}
  IN  \/ maxSeq = None /\ maxSeq' = seq /\ UNCHANGED nack
      \/ maxSeq # None /\ ahead(seq) \notin 1 .. SeqMod \div 2 /\ UNCHANGED seqVars
      \/ /\ maxSeq # None
         /\ ahead(seq) \in 1 .. SeqMod \div 2
         /\ nack' = nack \cup skipped
         /\ maxSeq' = seq

(* _track_seq: a forward jump makes the skipped numbers NACK candidates, a *)
(* late packet withdraws its own.                                          *)
TrackSeq(seq) ==
  LET ahead(s) == Dist(maxSeq, s)
      skipped == {s \in Seqs : ahead(s) \in 1 .. ahead(seq) - 1 /\ ahead(s) < MaxNackRun}
  IN  \/ maxSeq = None /\ maxSeq' = seq /\ UNCHANGED nack
      \/ maxSeq = seq /\ UNCHANGED seqVars
      \/ /\ maxSeq # None
         /\ ahead(seq) > SeqMod \div 2
         /\ nack' = nack \ {seq}
         /\ UNCHANGED maxSeq
      \/ /\ maxSeq # None
         /\ ahead(seq) \in 1 .. SeqMod \div 2
         /\ nack' = nack \cup skipped
         /\ maxSeq' = seq

(* _queue_video_group_packet *)
QueuePacket(p) ==
  LET k == AuOf[p]
      known == \E q \in pending[k] : SeqOf(q) = SeqOf(p)
      pend == IF known THEN pending ELSE [pending EXCEPT ![k] = @ \cup {p}]
      arr == IF pending[k] = {}
             THEN arrivedBefore \cup (PendingKeys \X {k})
             ELSE arrivedBefore
      preceding == {j \in PendingKeys \ {k} : Precedes(j, k, pend, arr)}
      unended == {j \in preceding : ~ HasMarker(pend[j])}
      blocked == preceding \cap (deadline \cup unended) # {}
  IN  \/ /\ k \in flushed
         /\ UNCHANGED <<groupVars, pc, outVars>>
      \/ /\ k \notin flushed
         /\ ~ HasMarker(pend[k])
         /\ Hold({}, pend, arr)
         /\ UNCHANGED <<pc, outVars>>
      \/ /\ k \notin flushed
         /\ HasMarker(pend[k])
         /\ codec # "avc"
         /\ Flush(k, pend, arr)
         /\ UNCHANGED pc
      \/ /\ k \notin flushed
         /\ HasMarker(pend[k])
         /\ codec = "avc"
         /\ blocked
         /\ Hold(unended, pend, arr)
         /\ UNCHANGED <<pc, outVars>>
      \/ /\ k \notin flushed
         /\ HasMarker(pend[k])
         /\ codec = "avc"
         /\ ~ blocked
         /\ ~ GroupComplete(pend[k])
         /\ Hold({k}, pend, arr)
         /\ UNCHANGED <<pc, outVars>>
      \/ /\ k \notin flushed
         /\ HasMarker(pend[k])
         /\ codec = "avc"
         /\ ~ blocked
         /\ GroupComplete(pend[k])
         /\ Flush(k, pend, arr)
         /\ pc' = "ready"

-----------------------------------------------------------------------------
(* The host and the network *)

Send ==
  /\ sent < NumPackets
  /\ sent' = sent + 1
  /\ \/ /\ Cardinality(net) < Window
        /\ net' = net \cup {sent'}
        /\ UNCHANGED lost
     \/ /\ lost < MaxLoss
        /\ lost' = lost + 1
        /\ UNCHANGED net
  /\ UNCHANGED <<codec, dups, groupVars, seqVars, pc, outVars>>

(* The tx thread sends the NACK set; the host resends any of those packets. *)
DrainPendingNack ==
  /\ nack # {}
  /\ nack' = {}
  /\ \E again \in SUBSET {p \in 1 .. sent : SeqOf(p) \in nack} :
       /\ net' = net \cup again
       /\ Cardinality(net') <= Window
  /\ UNCHANGED <<codec, sent, lost, dups, groupVars, maxSeq, pc, outVars>>

-----------------------------------------------------------------------------
(* The video-process thread *)

(* One packet: decrypt, _track_seq, _queue_video_group_packet. *)
Receive(p) ==
  /\ pc = "recv"
  /\ p \in net
  /\ \/ net' = net \ {p} /\ UNCHANGED dups
     \/ dups < MaxDup /\ dups' = dups + 1 /\ UNCHANGED net
  /\ UNCHANGED <<codec, sent, lost>>
  /\ TrackSeq(SeqOf(p))
  /\ QueuePacket(p)

(* One turn of the loop of _flush_ready_groups. *)
FlushReady ==
  /\ pc = "ready"
  /\ \/ /\ PendingKeys = {}
        /\ pc' = "recv"
        /\ UNCHANGED <<groupVars, outVars>>
     \/ \E k \in PendingKeys :
          /\ \A j \in PendingKeys \ {k} : ~ Precedes(j, k, pending, arrivedBefore)
          /\ \/ /\ GroupComplete(pending[k])
                /\ Flush(k, pending, arrivedBefore)
                /\ UNCHANGED pc
             \/ /\ ~ GroupComplete(pending[k])
                /\ Hold({k}, pending, arrivedBefore)
                /\ pc' = "recv"
                /\ UNCHANGED outVars
  /\ UNCHANGED <<netVars, seqVars>>

(* No copy of a packet of k can still arrive within the 2 s dedup TTL. *)
Settled(k) == \A p \in Whole(k) : p <= sent /\ p \notin net /\ SeqOf(p) \notin nack

(* The members of ks that run out before any other: an initial part of ks  *)
(* in the order ord.                                                       *)
Expired(ks, ord) ==
  {d \in SUBSET ks : \A k \in d, j \in ks : <<j, k>> \in ord => j \in d}

(* Slip: only groups that have their marker age out. *)
AgingSlip == {k \in PendingKeys \ deadline : HasMarker(pending[k])}

(* The groups subject to the marker TTL. *)
Aging == PendingKeys \ deadline

(* k is dropped last: groups past their deadline go first, in the order of *)
(* their deadlines, then the aged ones in the order of their arrival.      *)
DroppedLast(k, late, stale) ==
  IF stale # {}
  THEN k \in stale /\ \A j \in stale \ {k} : <<j, k>> \in arrivedBefore
  ELSE k \in late /\ \A j \in late \ {k} : <<j, k>> \in armedBefore

(* _drop_incomplete_group for each dropped group; the last one leaves its  *)
(* boundary behind, unknown if it had no marker.                           *)
DropGroups(late, stale) ==
  \E k \in late \cup stale :
    /\ DroppedLast(k, late, stale)
    /\ anchor' = IF HasMarker(pending[k]) THEN MarkerSeq(pending[k]) ELSE None
    /\ hole' = (hole \/ codec = "avc")
    /\ pc' = "ready"
    /\ UNCHANGED fed

(* _evict_stale_groups *)
EvictStaleGroups ==
  /\ pc = "recv"
  /\ \E late \in Expired(deadline, armedBefore),
        stale \in Expired(Aging, arrivedBefore),
        old \in {{}, {k \in flushed : Settled(k)}} :
       /\ late \cup stale \cup old # {}
       /\ flushed' = (flushed \ old) \cup late \cup stale
       /\ Remove(late \cup stale, pending, arrivedBefore)
       /\ \/ DropGroups(late, stale)
          \/ late \cup stale = {} /\ UNCHANGED <<anchor, pc, outVars>>
  /\ UNCHANGED <<netVars, seqVars>>

(* The receive queue times out empty after the last packet. *)
QuietStream == sent = NumPackets /\ net = {} /\ nack = {} /\ UNCHANGED vars

-----------------------------------------------------------------------------

Init ==
  /\ codec \in {"avc", "hevc"}
  /\ sent = 0 /\ net = {} /\ lost = 0 /\ dups = 0
  /\ pending = [k \in AUs |-> {}]
  /\ arrivedBefore = {} /\ deadline = {} /\ armedBefore = {}
  /\ flushed = {} /\ anchor = None
  /\ maxSeq = None /\ nack = {}
  /\ pc = "recv"
  /\ fed = <<>> /\ hole = FALSE

Next ==
  \/ Send
  \/ DrainPendingNack
  \/ \E p \in Packets : Receive(p)
  \/ FlushReady
  \/ EvictStaleGroups
  \/ QuietStream

Spec == Init /\ [][Next]_vars

(* The process loop wakes at least every receive timeout, so a passed      *)
(* deadline is always noticed; its drain loop does not stop half way.      *)
EvictGroups == EvictStaleGroups /\ pending' # pending
FairSpec == Spec /\ WF_vars(FlushReady) /\ WF_vars(EvictGroups)

-----------------------------------------------------------------------------
(* Properties *)

(* Every map holds what its name says, and no deadline or arrival order    *)
(* outlives its group.                                                     *)
TypeOK ==
  /\ codec \in {"avc", "hevc"}
  /\ sent \in 0 .. NumPackets
  /\ net \subseteq Packets
  /\ lost \in Nat /\ dups \in Nat
  /\ pending \in [AUs -> SUBSET Packets]
  /\ \A k \in AUs : pending[k] \subseteq Whole(k)
  /\ arrivedBefore \subseteq PendingKeys \X PendingKeys
  /\ deadline \subseteq PendingKeys
  /\ armedBefore \subseteq deadline \X deadline
  /\ flushed \subseteq AUs
  /\ anchor \in Seqs \cup {None}
  /\ maxSeq \in Seqs \cup {None}
  /\ nack \subseteq Seqs
  /\ pc \in {"recv", "ready"}
  /\ fed \in Seq(SUBSET Packets)
  /\ hole \in BOOLEAN

(* The RTP range of the last unit handed to the AVC decoder; the pictures  *)
(* of an HEVC stream are no chain, its tiles recover one by one.           *)
LastFed ==
  IF codec # "avc" \/ fed = <<>> THEN None
  ELSE [first |-> SeqOf(FirstOf(fed[Len(fed)])), last |-> MarkerSeq(fed[Len(fed)])]

Chain == INSTANCE ReferenceChain WITH lastFed <- LastFed

(* The AVC decoder never receives a picture that does not directly follow  *)
(* the previous one unless _drop_incomplete_group told it that the         *)
(* reference chain is broken: the receive path implements the abstract     *)
(* chain.                                                                  *)
ImplementsReferenceChain == Chain!ChainSpec

(* An AVC unit whose start is known (a boundary is set) is fed with all of *)
(* its packets: neither _group_complete nor _flush_group lets a truncated  *)
(* picture through.                                                        *)
WholeBehindBoundary ==
  [][codec = "avc" /\ fed' # fed /\ anchor # None
       => \E k \in AUs : fed' = Append(fed, Whole(k))]_vars

(* In either codec a late retransmission never makes the same picture      *)
(* decode twice (_recently_flushed).                                       *)
FedOnce ==
  \A i, j \in 1 .. Len(fed) : i # j => \A p \in fed[i], q \in fed[j] : AuOf[p] # AuOf[q]

(* HEVC units have no repair window: a unit is fed as soon as its marker   *)
(* came, and still, in either codec, none with a packet missing in its     *)
(* middle (the frame-completeness check of _flush_group).                  *)
FedWithoutHole == \A i \in 1 .. Len(fed) : \A p, q \in fed[i] : p .. q \subseteq fed[i]

(* The packet that is already here is not asked for again: a reordered     *)
(* packet withdraws its pending NACK.                                      *)
NackOnlyMissing == \A k \in AUs : \A p \in pending[k] : SeqOf(p) \notin nack

(* No group stays behind a hole for good: each is fed or dropped.          *)
GroupsResolve == \A k \in AUs : pending[k] # {} ~> pending[k] = {}
=============================================================================
