------------------------------ MODULE InitialBurst ------------------------------
(***************************************************************************)
(* The first packets of a stream: drained from the video socket before any *)
(* receive thread runs (_drain_socket_into), put together by               *)
(* gather_initial_burst, and handed to the decoder and the packet grouper  *)
(* in the middle of whatever the host is sending; a burst without          *)
(* parameter sets is a reason to shake hands again                         *)
(* (_handshake_with_reconnect), on the same socket.                        *)
(*                                                                         *)
(* The host (external) sends units of UnitLen packets, the last of them    *)
(* with the marker, tile by tile; the parameter sets are in the first      *)
(* packet.  A packet is known by the attempt whose keys protect it and by  *)
(* its number.                                                             *)
(***************************************************************************)
EXTENDS Integers, Sequences, FiniteSets

CONSTANTS
  NumTiles, NumUnits, UnitLen,
  Tries,          (* _BURST_RETRY_ATTEMPTS                                    *)
  MaxDropped      (* bound: packets the network may lose or swap              *)

BurstAssumption ==
  /\ {NumTiles, NumUnits, UnitLen, Tries} \subseteq Nat \ {0}
  /\ MaxDropped \in Nat /\ NumUnits >= NumTiles

VARIABLES
  try,            (* the handshake under way                                  *)
  silentHost,     (* the host accepted it, but sends nothing                  *)
  intras,         (* tiles whose first unit is an IDR                         *)
  sentUpTo,       (* packets of this attempt the host has sent                *)
  sock,           (* packets in the buffer of the video socket                *)
  buf,            (* burst_buf                                                *)
  burstPc,        (* "drain", "gather", "stream", or "failed"                 *)
  groups,         (* unit -> packets: burst_pending, then _pending_groups     *)
  given,          (* history: [unit, packets] of what the decoder got         *)
  seeded, firs,   (* last_idr; tiles that were asked for an intra             *)
  dropped, swaps  (* history: packets lost, and overtaken                     *)

hostVars == <<silentHost, intras, sentUpTo, dropped, swaps>>
handVars == <<groups, given, seeded, firs>>
burstVars == <<try, hostVars, sock, buf, burstPc, handVars>>

Numbers == 1 .. NumUnits * UnitLen
UnitOf(i) == (i - 1) \div UnitLen + 1
Ends(i) == i % UnitLen = 0
TileOf(u) == ((u - 1) % NumTiles) + 1
Units == 1 .. NumUnits
PacketsOf(u) == {i \in Numbers : UnitOf(i) = u}
Intra(u) == u <= NumTiles /\ TileOf(u) \in intras

-----------------------------------------------------------------------------
(* The host and the network *)

(* The next packet comes, is lost, or comes before the one sent last.      *)
HostSends ==
  /\ burstPc # "failed" /\ ~silentHost /\ sentUpTo < NumUnits * UnitLen
  /\ sentUpTo' = sentUpTo + 1
  /\ \/ sock' = Append(sock, <<try, sentUpTo'>>) /\ UNCHANGED <<dropped, swaps>>
     \/ /\ dropped + swaps < MaxDropped /\ dropped' = dropped + 1
        /\ UNCHANGED <<sock, swaps>>
     \/ /\ dropped + swaps < MaxDropped /\ sock # <<>> /\ swaps' = swaps + 1
        /\ sock' = Append(SubSeq(sock, 1, Len(sock) - 1), <<try, sentUpTo'>>)
                     \o <<sock[Len(sock)]>>
        /\ UNCHANGED dropped
  /\ UNCHANGED <<try, silentHost, intras, buf, burstPc, handVars>>

-----------------------------------------------------------------------------
(* _drain_socket_into *)

Drain ==
  /\ burstPc = "drain" /\ sock # <<>>
  /\ buf' = Append(buf, Head(sock)) /\ sock' = Tail(sock)
  /\ UNCHANGED <<try, hostVars, burstPc, handVars>>

(* 50 ms without a packet once there was one - an old one will do - or the *)
(* end of its 2 s (4 s).  What follows stays in the socket: the wait of    *)
(* gather_initial_burst for more packets looks at a list nobody adds to.   *)
DrainEnds ==
  /\ burstPc = "drain"
  /\ burstPc' = "gather"
  /\ UNCHANGED <<try, hostVars, sock, buf, handVars>>

-----------------------------------------------------------------------------
(* gather_initial_burst *)

Readable == {p[2] : p \in {q \in {buf[i] : i \in DOMAIN buf} : q[1] = try}}
Grouped == [u \in Units |-> PacketsOf(u) \cap Readable]

(* A unit whose marker is there counts as complete.                        *)
Complete == {u \in Units : \E i \in Grouped[u] : Ends(i)}

HasParams == 1 \in Readable /\ UnitOf(1) \in Complete

(* Slip: the incomplete groups are not handed over.                        *)
HandOverSlip ==
  /\ burstPc = "gather" /\ HasParams
  /\ burstPc' = "stream"
  /\ groups' = [u \in Units |-> {}]
  /\ given' = given \cup {[unit |-> u, packets |-> Grouped[u]] : u \in Complete}
  /\ seeded' = {TileOf(u) : u \in {v \in Complete : Intra(v)}}
  /\ firs' = (1 .. NumTiles) \ seeded'
  /\ UNCHANGED <<try, hostVars, sock, buf>>

(* Complete units go to the decoder (feed_burst), the others seed          *)
(* _pending_groups, and a tile without an IDR is asked for one.            *)
HandOver ==
  /\ burstPc = "gather" /\ HasParams
  /\ burstPc' = "stream"
  /\ groups' = [u \in Units |-> IF u \in Complete THEN {} ELSE Grouped[u]]
  /\ given' = given \cup {[unit |-> u, packets |-> Grouped[u]] : u \in Complete}
  /\ seeded' = {TileOf(u) : u \in {v \in Complete : Intra(v)}}
  /\ firs' = (1 .. NumTiles) \ seeded'
  /\ UNCHANGED <<try, hostVars, sock, buf>>

(* BurstStarved: the control connection is dropped, which stops the host,  *)
(* and a new attempt starts with new keys and an empty buffer - on the     *)
(* socket as it stands.                                                    *)
Starved ==
  /\ burstPc = "gather" /\ ~HasParams
  /\ IF try < Tries
     THEN /\ burstPc' = "drain" /\ try' = try + 1
          /\ silentHost' \in BOOLEAN /\ sentUpTo' = 0
          /\ buf' = <<>>
     ELSE burstPc' = "failed" /\ UNCHANGED <<try, silentHost, sentUpTo, buf>>
  /\ UNCHANGED <<intras, dropped, swaps, sock, handVars>>

-----------------------------------------------------------------------------
(* The stream after it (AccessUnits has the details): a packet joins its   *)
(* group, and a group with its marker goes to the decoder unless packets   *)
(* are missing inside it.                                                  *)
Stream ==
  /\ burstPc = "stream" /\ sock # <<>> /\ sock' = Tail(sock)
  /\ \/ Head(sock)[1] # try /\ UNCHANGED <<groups, given>>
     \/ \E i \in Numbers :
          LET u == UnitOf(i)
              all == groups[u] \cup {i}
              ended == \E j \in all : Ends(j)
              hole == \E j, k \in all : \E n \in Numbers \ all : j < n /\ n < k
          IN  /\ Head(sock) = <<try, i>>
              /\ groups' = [groups EXCEPT ![u] = IF ended THEN {} ELSE all]
              /\ given' = IF ended /\ ~hole
                          THEN given \cup {[unit |-> u, packets |-> all]} ELSE given
  /\ UNCHANGED <<try, hostVars, buf, burstPc, seeded, firs>>

-----------------------------------------------------------------------------

BurstInit ==
  /\ try = 1 /\ silentHost \in BOOLEAN
  /\ intras \in {t \in SUBSET (1 .. NumTiles) : 1 \in t} /\ sentUpTo = 0
  /\ sock = <<>> /\ buf = <<>> /\ burstPc = "drain"
  /\ groups = [u \in Units |-> {}] /\ given = {}
  /\ seeded = {} /\ firs = {}
  /\ dropped = 0 /\ swaps = 0

BurstNext == HostSends \/ Drain \/ DrainEnds \/ HandOver \/ Starved \/ Stream

-----------------------------------------------------------------------------

BurstTypeOK ==
  /\ try \in 1 .. Tries /\ sentUpTo \in 0 .. NumUnits * UnitLen
  /\ burstPc \in {"drain", "gather", "stream", "failed"}
  /\ \A u \in Units : groups[u] \subseteq PacketsOf(u)
  /\ silentHost \in BOOLEAN /\ dropped + swaps \in 0 .. MaxDropped

(* Wherever the drain cuts the host's stream in two, the decoder gets each *)
(* unit whole and once, as long as the network keeps the order: the first  *)
(* half waits for the second among the pending groups.                     *)
WholeAcrossTheCut ==
  dropped + swaps = 0 =>
    /\ \A g \in given : g.packets = PacketsOf(g.unit)
    /\ burstPc = "stream" =>
         \A u \in Units : [unit |-> u, packets |-> PacketsOf(u)] \notin given =>
           PacketsOf(u) \subseteq
             groups[u] \cup {p[2] : p \in {sock[i] : i \in DOMAIN sock}}
                       \cup sentUpTo + 1 .. NumUnits * UnitLen

(* A tile starts from an IDR or is asked for one.                          *)
TilesSeeded ==
  burstPc = "stream" =>
    \A t \in 1 .. NumTiles :
      (\E g \in given : TileOf(g.unit) = t /\ Intra(g.unit)) \/ t \in firs
=============================================================================
