---------------------------- MODULE ControlChannel ----------------------------
(***************************************************************************)
(* The encrypted control channel (protocol/enc1103.py) on the one TCP      *)
(* socket of a session: several threads send records under the lock of the *)
(* cipher, and the receiving side is read first by the handshake           *)
(* (negotiation.py), then by the tcp-rx thread (session.py).               *)
(*                                                                         *)
(* A record is two pieces of the byte stream, numbered from 1: record r is *)
(* the pieces 2r-1 and 2r, and TCP delivers the stream in chunks that end  *)
(* anywhere.  Half a record never parses: a record read from its middle    *)
(* shows a length that is no multiple of 16 or does not fit.               *)
(***************************************************************************)
EXTENDS Integers, Sequences, FiniteSets

CONSTANTS
  Senders,      (* threads that send: tx, tcp-rx, a frontend                  *)
  Records,      (* bound: records the host sends                              *)
  MaxSend,      (* bound: records the client sends                            *)
  Ahead,        (* _DECRYPT_COUNTER_WINDOW: 6                                 *)
  Queries,      (* bound: answers read, _DEGENERATE_RETRY_LIMIT + 1           *)
  Free          (* the cipher lock's holder when nobody holds it              *)

ChannelAssumption ==
  /\ {Records, MaxSend, Ahead, Queries} \subseteq Nat /\ Ahead >= 1 /\ Queries >= 1
  /\ Free \notin Senders

VARIABLES
  whole,      (* the host's records reach the handshake in one chunk each     *)
  stage,      (* who reads: "tail", "drain", "answer" (handshake) or "loop"   *)
  queries,    (* answers read so far                                          *)
  hostSent,   (* pieces the host has sent                                     *)
  taken,      (* pieces recv() has returned                                   *)
  from,       (* first piece of the reader's buffer                           *)
  lastIn,     (* last record the CBC context of the receiver went through     *)
  decCtr,     (* _dec_ctr                                                     *)
  got,        (* records whose message came out                               *)
  encCtr,     (* _enc_ctr                                                     *)
  holder,     (* thread that holds the cipher lock                            *)
  drafts,     (* sender -> counter of the record it built, 0 if none          *)
  wire        (* counters of the records written, in order                    *)

rxVars == <<stage, queries, taken, from, lastIn, decCtr, got>>
txVars == <<encCtr, holder, drafts, wire>>

-----------------------------------------------------------------------------
(* Sending *)

(* Slip: encrypt_message under the lock, sendall after it. *)
EncryptLockedSlip(t) ==
  /\ holder = Free /\ drafts[t] = 0 /\ encCtr < MaxSend
  /\ encCtr' = encCtr + 1
  /\ drafts' = [drafts EXCEPT ![t] = encCtr']
  /\ UNCHANGED <<wire, holder, whole, hostSent, rxVars>>

(* encrypt_and_send: the counter is taken under the lock ... *)
EncryptLocked(t) ==
  /\ holder = Free /\ drafts[t] = 0 /\ encCtr < MaxSend
  /\ holder' = t
  /\ encCtr' = encCtr + 1
  /\ drafts' = [drafts EXCEPT ![t] = encCtr']
  /\ UNCHANGED <<wire, whole, hostSent, rxVars>>

(* ... and the lock is kept over the sendall. *)
SendAll(t) ==
  /\ drafts[t] # 0
  /\ holder \in {t, Free}
  /\ wire' = Append(wire, drafts[t])
  /\ drafts' = [drafts EXCEPT ![t] = 0]
  /\ holder' = Free
  /\ UNCHANGED <<encCtr, whole, hostSent, rxVars>>

-----------------------------------------------------------------------------
(* Receiving *)

HostSends ==
  /\ hostSent < 2 * Records
  /\ \E n \in {1, 2} : hostSent' = hostSent + n /\ hostSent' <= 2 * Records
  /\ whole => hostSent' % 2 = 0 \/ stage = "loop"
  /\ UNCHANGED <<whole, rxVars, txVars>>

(* A MAC is found for a counter in [ctr-1, ctr+5]; record r carries the    *)
(* counter r - 1.                                                          *)
Found(r, ctr) == r - 1 \in (IF ctr = 0 THEN 0 ELSE ctr - 1) .. ctr + Ahead - 1

(* A record whose predecessor did not go through the CBC context comes out *)
(* garbled in its first block, so its MAC is wrong.                        *)
Chained(r, prev) == r = prev + 1

(* decrypt_message on record r: on a miss the counter moves by one all the *)
(* same.                                                                   *)
DecryptMessage(s, r) ==
  LET ok == Found(r, s.ctr) /\ Chained(r, s.prev)
  IN  [ctr |-> IF ok THEN r ELSE s.ctr + 1, prev |-> r,
       out |-> IF ok THEN s.out \cup {r} ELSE s.out]

(* decrypt_stream: record by record, with the last state and the records   *)
(* that came out.                                                          *)
DecryptStream(first, last) ==
  LET st[r \in first - 1 .. last] ==
        IF r < first THEN [ctr |-> decCtr, prev |-> lastIn, out |-> {}]
        ELSE DecryptMessage(st[r - 1], r)
  IN  st[last]

(* The buffer starts at a record's first piece. *)
Aligned == from % 2 = 1

(* decrypt_stream on the reader's buffer up to piece n: whole records come *)
(* out and the place of the first byte not consumed is left in rest.       *)
Parse(n, rest) ==
  LET first == (from + 1) \div 2
      last == n \div 2
  IN  IF Aligned /\ last >= first
      THEN LET s == DecryptStream(first, last)
           IN  /\ decCtr' = s.ctr /\ lastIn' = s.prev
               /\ got' = got \cup s.out
               /\ rest = 2 * last + 1
      ELSE UNCHANGED <<decCtr, lastIn, got>> /\ rest = from

(* The handshake's reads collect what comes until they time out or have    *)
(* more than 100 bytes.                                                    *)
HandshakeRecv ==
  /\ stage # "loop"
  /\ \E n \in taken + 1 .. hostSent : taken' = n /\ (whole => n % 2 = 0)
  /\ UNCHANGED <<stage, queries, from, lastIn, decCtr, got, whole, hostSent, txVars>>

(* What they collected goes through decrypt_stream once; the incomplete    *)
(* record at its end is dropped with the local buffer.                     *)
DropTail(next) ==
  /\ \E rest \in {from, 2 * (taken \div 2) + 1} : Parse(taken, rest)
  /\ from' = taken + 1
  /\ stage' = next
  /\ UNCHANGED <<taken, whole, hostSent, txVars>>

(* _read_until_enc1103: what followed the key in the clear-text burst *)
ReadUntilEnc1103 == stage = "tail" /\ DropTail("drain") /\ UNCHANGED queries

(* _drain_through_cipher, after the toggle *)
DrainThroughCipher == stage = "drain" /\ DropTail("answer") /\ UNCHANGED queries

(* _read_video_answer, again while the canvas is degenerate *)
ReadVideoAnswer ==
  /\ stage = "answer"
  /\ queries' = queries + 1
  /\ \/ queries' < Queries /\ DropTail("answer")
     \/ DropTail("loop")

(* tcp-rx keeps what was not consumed. *)
TcpRx ==
  /\ stage = "loop"
  /\ \E n \in taken + 1 .. hostSent :
       /\ taken' = n
       /\ \E rest \in {from, 2 * (n \div 2) + 1} : Parse(n, rest) /\ from' = rest
  /\ UNCHANGED <<stage, queries, whole, hostSent, txVars>>

-----------------------------------------------------------------------------

Init ==
  /\ whole \in BOOLEAN
  /\ stage = "tail" /\ queries = 0
  /\ hostSent = 0 /\ taken = 0 /\ from = 1
  /\ lastIn = 0 /\ decCtr = 0 /\ got = {}
  /\ encCtr = 0 /\ holder = Free
  /\ drafts = [t \in Senders |-> 0] /\ wire = <<>>

Next ==
  \/ \E t \in Senders : EncryptLocked(t) \/ SendAll(t)
  \/ HostSends \/ HandshakeRecv
  \/ ReadUntilEnc1103 \/ DrainThroughCipher \/ ReadVideoAnswer
  \/ TcpRx

-----------------------------------------------------------------------------

TypeOK ==
  /\ whole \in BOOLEAN /\ stage \in {"tail", "drain", "answer", "loop"}
  /\ queries \in 0 .. Queries
  /\ hostSent \in 0 .. 2 * Records /\ taken \in 0 .. hostSent
  /\ from \in 1 .. taken + 1
  /\ got \subseteq 1 .. Records /\ lastIn \in 0 .. Records /\ decCtr \in Nat
  /\ encCtr \in 0 .. MaxSend /\ holder \in Senders \cup {Free}
  /\ drafts \in [Senders -> 0 .. MaxSend] /\ wire \in Seq(1 .. MaxSend)

(* The host reads the records in the order of the counters in their MACs:  *)
(* holding the lock across both keeps counter order and wire order equal.  *)
WireInOrder == \A i \in 1 .. Len(wire) : wire[i] = i

(* Every record of which the last byte was read by tcp-rx has come out.    *)
Hears == stage = "loop" => \A r \in 1 .. Records : 2 * r <= taken => r \in got

(* ... if the handshake's reads ended between two records. *)
HearsWhole == whole => Hears

(* Both directions keep their framing and counters. *)
ChannelInStep == WireInOrder /\ HearsWhole
=============================================================================
