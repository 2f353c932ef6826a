----------------------------- MODULE SrtpRollover -----------------------------
(***************************************************************************)
(* The rollover counter of a received SRTP stream (protocol/srtp.py): a    *)
(* packet carries the low part of its index, the receiver guesses the high *)
(* part from the newest packet it accepted, and the tag of the packet says *)
(* which of a few candidates was right.  The network loses, reorders and   *)
(* repeats packets; adoption forgets the streams that lost.                *)
(*                                                                         *)
(* An index is the pair of its rollover count and sequence number; the     *)
(* cipher is external: a tag is right under the counter it was made with.  *)
(***************************************************************************)
EXTENDS Integers

CONSTANTS
  Ssrcs,        (* streams of the host                                        *)
  SeqMod,       (* 2^16                                                       *)
  Half,         (* 0x7FFF                                                     *)
  MaxRoc,       (* bound: rollovers of the host's counter                     *)
  MaxArrive,    (* bound: packets that arrive while a stream is counted       *)
  NoState       (* a stream without _SsrcState                                *)

Index == [roc : 0 .. MaxRoc, seq : 0 .. SeqMod - 1]

ASSUME SrtpAssumption ==
  /\ SeqMod \in Nat /\ SeqMod > 0 /\ Half \in Nat
  /\ MaxRoc \in Nat /\ MaxArrive \in Nat
  /\ NoState \notin Index

VARIABLES
  last,       (* stream -> index of the last packet sent (SRTPEncryptor)       *)
  states,     (* stream -> (roc, max_seq) of _states                           *)
  counts,     (* stream -> packets accepted, _counts                           *)
  arrived,    (* history: stream -> packets that arrived since it is counted   *)
  newest,     (* history: stream -> the newest of them                         *)
  deaf        (* history: streams first heard after their second rollover      *)

srtpVars == <<last, states, counts, arrived, newest, deaf>>

NotAfter(p, q) == p.roc < q.roc \/ (p.roc = q.roc /\ p.seq <= q.seq)
Newer(p, q) == p.roc > q.roc \/ (p.roc = q.roc /\ p.seq > q.seq)

(* Fewer than SeqMod packets lie between the two. *)
Near(p, q) ==
  \/ p.roc = q.roc
  \/ p.roc = q.roc + 1 /\ p.seq < q.seq
  \/ q.roc = p.roc + 1 /\ q.seq < p.seq

Before(r) == IF r = 0 THEN 0 ELSE r - 1

-----------------------------------------------------------------------------

(* The host's stream moves on; a sender of this program counts the same.   *)
Encrypt(s) ==
  /\ \/ /\ last[s].seq < SeqMod - 1
        /\ last' = [last EXCEPT ![s] = [roc |-> @.roc, seq |-> @.seq + 1]]
     \/ /\ last[s].seq = SeqMod - 1 /\ last[s].roc < MaxRoc
        /\ last' = [last EXCEPT ![s] = [roc |-> @.roc + 1, seq |-> 0]]
  /\ UNCHANGED <<states, counts, arrived, newest, deaf>>

RocGuess(st, seq) ==
  IF st = NoState THEN 0
  ELSE IF seq - st.seq > Half THEN Before(st.roc)
  ELSE IF seq - st.seq < -Half THEN st.roc + 1
  ELSE st.roc

(* Slip: only the guess is tried. *)
CandidatesSlip(st, seq) == {RocGuess(st, seq)}

Candidates(st, seq) ==
  LET guess == RocGuess(st, seq)
  IN  {guess, IF st = NoState THEN 0 ELSE st.roc, guess + 1, Before(guess)}

UpdateState(st, p) == IF st = NoState \/ Newer(p, st) THEN p ELSE st

(* decrypt: a packet p arrives, again or for the first time, fewer than    *)
(* SeqMod packets away from the newest one that did.                       *)
Decrypt(s, p) ==
  /\ NotAfter(p, last[s]) /\ arrived[s] < MaxArrive
  /\ arrived[s] > 0 => Near(p, newest[s])
  /\ arrived' = [arrived EXCEPT ![s] = @ + 1]
  /\ newest' = [newest EXCEPT ![s] = IF arrived[s] = 0 \/ Newer(p, @) THEN p ELSE @]
  /\ deaf' = IF arrived[s] = 0 /\ p.roc > 1 THEN deaf \cup {s} ELSE deaf
  /\ IF p.roc \in Candidates(states[s], p.seq)
     THEN /\ states' = [states EXCEPT ![s] = UpdateState(@, p)]
          /\ counts' = [counts EXCEPT ![s] = @ + 1]
     ELSE UNCHANGED <<states, counts>>
  /\ UNCHANGED last

(* forget_ssrcs_except: the streams outside keep start afresh. *)
ForgetSsrcsExcept(keep) ==
  /\ states' = [s \in Ssrcs |-> IF s \in keep THEN states[s] ELSE NoState]
  /\ counts' = [s \in Ssrcs |-> IF s \in keep THEN counts[s] ELSE 0]
  /\ arrived' = [s \in Ssrcs |-> IF s \in keep THEN arrived[s] ELSE 0]
  /\ deaf' = deaf \cap keep
  /\ UNCHANGED <<last, newest>>

SrtpInit ==
  /\ last = [s \in Ssrcs |-> [roc |-> 0, seq |-> 0]]
  /\ states = [s \in Ssrcs |-> NoState]
  /\ counts = [s \in Ssrcs |-> 0] /\ arrived = [s \in Ssrcs |-> 0]
  /\ newest = last /\ deaf = {}

SrtpNext ==
  \/ \E s \in Ssrcs : Encrypt(s) \/ \E p \in Index : Decrypt(s, p)
  \/ \E keep \in SUBSET Ssrcs : ForgetSsrcsExcept(keep)

SrtpSpec == SrtpInit /\ [][SrtpNext]_srtpVars

-----------------------------------------------------------------------------

SrtpTypeOK ==
  /\ last \in [Ssrcs -> Index] /\ newest \in [Ssrcs -> Index]
  /\ states \in [Ssrcs -> Index \cup {NoState}]
  /\ counts \in [Ssrcs -> Nat] /\ arrived \in [Ssrcs -> Nat]
  /\ deaf \subseteq Ssrcs

(* Around any number of wraps no authentic packet of a stream is refused,  *)
(* however lost, late or repeated the ones before it were (decrypt's       *)
(* candidates and _update_state), while losses are shorter than the        *)
(* sequence space and the stream was first heard before its second wrap.   *)
NearIsAccepted == \A s \in Ssrcs \ deaf : counts[s] = arrived[s]

(* The receiver's state is the newest packet that arrived. *)
FollowsNewest ==
  \A s \in Ssrcs \ deaf : states[s] = IF arrived[s] = 0 THEN NoState ELSE newest[s]
=============================================================================
