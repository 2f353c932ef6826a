--------------------------- MODULE ConnectionProofs ---------------------------
(***************************************************************************)
(* The invariants of the views of Connection, for every value of their     *)
(* constants: the life of connections (by SessionLifecycleProofs and       *)
(* SessionTeardownProofs), the rollover counter, the handshake, the        *)
(* control channel, the capture, the initial burst, the sound, the cursor  *)
(* and the clipboards.  Each has an inductive invariant of its own, which  *)
(* the steps of the other views leave alone (EachView).                    *)
(***************************************************************************)
EXTENDS Connection, SessionTeardownProofs, SequenceTheorems, FiniteSetTheorems,
        WellFoundedInduction, TLAPS

(* A step of the whole is a step, or none, of every view. *)
LEMMA EachView ==
  ASSUME [ConnectionNext]_allVars
  PROVE  /\ [Step]_vars
         /\ [SrtpNext]_srtpVars
         /\ [H!HsNext]_handshakeVars
         /\ [C!Next]_channelVars
         /\ [P!PcapNext]_captureVars
         /\ [B!BurstNext]_burstVars
         /\ [T!ClipNext]_clipVars
         /\ [K!CursorNext]_cursorVars
         /\ [A!AudioNext]_audioVars
<1>1. CASE UNCHANGED allVars
  BY <1>1 DEF allVars
<1>2. CASE ConnectionNext
  <2> USE DEF ConnectionNext
  <2>1. CASE view = "lifecycle"
    BY <1>2, <2>1
  <2>2. CASE view = "srtp"
    BY <1>2, <2>2
  <2>3. CASE view = "handshake"
    BY <1>2, <2>3
  <2>4. CASE view = "channel"
    BY <1>2, <2>4
  <2>5. CASE view = "capture"
    BY <1>2, <2>5
  <2>6. CASE view = "burst"
    BY <1>2, <2>6
  <2>7. CASE view = "clipboard"
    BY <1>2, <2>7
  <2>8. CASE view = "cursor"
    BY <1>2, <2>8
  <2>9. CASE view = "sound"
    BY <1>2, <2>9
  <2> QED
    BY <1>2, <2>1, <2>2, <2>3, <2>4, <2>5, <2>6, <2>7, <2>8, <2>9
<1> QED
  BY <1>1, <1>2


-----------------------------------------------------------------------------
(* Sequences and induction *)

(* An element appended behind a concatenation. *)
LEMMA AppendRight ==
  ASSUME NEW S, NEW s \in Seq(S), NEW t \in Seq(S), NEW e \in S
  PROVE  s \o Append(t, e) = Append(s \o t, e)
<1>1. <<e>> \in Seq(S)
  OBVIOUS
<1>2. Append(t, e) = t \o <<e>> /\ s \o t \in Seq(S)
  BY AppendIsConcat, ConcatProperties
<1>3. Append(s \o t, e) = (s \o t) \o <<e>>
  BY <1>2, AppendIsConcat
<1> QED
  BY <1>1, <1>2, <1>3, ConcatAssociative

(* The head of the second part goes over to the end of the first. *)
LEMMA HeadOver ==
  ASSUME NEW S, NEW s \in Seq(S), NEW t \in Seq(S), t # <<>>
  PROVE  Append(s, Head(t)) \o Tail(t) = s \o t
<1>1. Head(t) \in S /\ Tail(t) \in Seq(S) /\ <<Head(t)>> \in Seq(S)
  BY HeadTailProperties
<1>2. <<Head(t)>> \o Tail(t) = t
  BY <1>1
<1>3. Append(s, Head(t)) = s \o <<Head(t)>>
  BY <1>1, AppendIsConcat
<1> QED
  BY <1>1, <1>2, <1>3, ConcatAssociative


(* Every non-empty set of naturals has a least element. *)
LEMMA LeastNatural ==
  ASSUME NEW Nums \in SUBSET Nat, Nums # {}
  PROVE  \E x \in Nums : \A y \in Nums : x <= y
<1> DEFINE R == {ss \in Nat \X Nat : ss[1] < ss[2]}
<1>1. IsWellFoundedOn(R, Nat)
  BY NatLessThanWellFounded DEF OpToRel
<1>2. \E x \in Nums : \A y \in Nums : ~ (<<y, x>> \in R)
  <2> HIDE DEF R
  <2> QED BY <1>1, WFMin
<1>3. PICK x \in Nums : \A y \in Nums : ~ (<<y, x>> \in R)
  BY <1>2
<1>4. ASSUME NEW y \in Nums PROVE x <= y
  <2>1. x \in Nat /\ y \in Nat /\ ~ (<<y, x>> \in R)
    BY <1>3
  <2>2. ~ (y < x)
    BY <2>1
  <2> QED BY <2>1, <2>2
<1> QED BY <1>4

(* A set that holds a number, and with every number of an interval the     *)
(* next one, holds the interval.                                           *)
LEMMA IntervalInduction ==
  ASSUME NEW Nums, NEW a \in Nat, NEW b \in Int,
         a <= b => a \in Nums,
         \A n \in a .. b : n \in Nums /\ n < b => n + 1 \in Nums
  PROVE  \A n \in a .. b : n \in Nums
<1> DEFINE Out == {n \in a .. b : n \notin Nums}
<1> SUFFICES ASSUME Out # {} PROVE FALSE
  OBVIOUS
<1>1. Out \in SUBSET Nat
  OBVIOUS
<1>2. PICK x \in Out : \A y \in Out : x <= y
  <2> HIDE DEF Out
  <2> QED
    BY <1>1, LeastNatural
<1>3. x \in a .. b /\ x # a
  BY <1>2
<1>4. x - 1 \in a .. b /\ x - 1 \notin Out
  BY <1>2, <1>3
<1> QED
  BY <1>2, <1>3, <1>4

-----------------------------------------------------------------------------
(* The life of connections *)

(* A behaviour of the whole is one of SessionLifecycle.                    *)
LEMMA LivesAsModelled == ConnectionSpec => Spec
<1>1. ConnectionInit => Init
  BY DEF ConnectionInit
<1>2. [ConnectionNext]_allVars => [Step]_vars
  BY EachView
<1> QED
  BY <1>1, <1>2, PTL DEF ConnectionSpec, Spec

(* With no call under way a session seen connected has a tcp-rx that will  *)
(* lower the flag, or missed the end of it (connect, _tcp_rx_loop).        *)
COROLLARY ReaderThere == ConnectionSpec => []UpMeansReading
BY LivesAsModelled, ReaderPresent, PTL

(* With a consumer that waits for every close, what is down holds nothing, *)
(* only a worker whose join gave up outlives its connection, and there is  *)
(* one channel, socket pair, decoder and control server (_teardown).       *)
COROLLARY TornDown ==
  ASSUME Policy = "waits"
  PROVE  ConnectionSpec => [](DownIsReleased /\ OneGeneration /\ OneTransport)
<1>1. (Spec => []DownIsReleased) /\ (Spec => []OneGeneration) /\ (Spec => []OneTransport)
  BY NothingHeld, WorkersOfOneConnection, OneOfEach
<1> QED
  BY <1>1, LivesAsModelled, PTL

-----------------------------------------------------------------------------
(* SRTP around the wrap of the sequence numbers *)

(* The inductive invariant: every counter follows the newest packet heard. *)
SrtpInv == SrtpTypeOK /\ FollowsNewest /\ NearIsAccepted

(* The counter of a packet near the newest one is among the candidates.    *)
LEMMA NearIsCandidate ==
  ASSUME NEW p \in Index, NEW q \in Index, Near(p, q)
  PROVE  p.roc \in Candidates(q, p.seq)
<1>1. q # NoState
  BY SrtpAssumption
<1>2. /\ p.roc \in Nat /\ q.roc \in Nat /\ p.seq \in Nat /\ q.seq \in Nat
      /\ Half \in Nat
  BY SrtpAssumption DEF Index
<1>3. CASE p.roc = q.roc
  BY <1>1, <1>3 DEF Candidates
<1>4. CASE p.roc = q.roc + 1 /\ p.seq < q.seq
  <2>1. p.seq - q.seq <= Half
    BY <1>2, <1>4
  <2>2. RocGuess(q, p.seq) \in {q.roc, q.roc + 1}
    BY <1>1, <1>2, <2>1 DEF RocGuess
  <2> QED BY <1>4, <2>2 DEF Candidates
<1>5. CASE q.roc = p.roc + 1 /\ q.seq < p.seq
  <2>1. p.seq - q.seq >= -Half /\ Before(q.roc) = p.roc
    BY <1>2, <1>5 DEF Before
  <2>2. RocGuess(q, p.seq) \in {q.roc, p.roc}
    BY <1>1, <1>2, <2>1 DEF RocGuess
  <2> QED BY <1>5, <2>1, <2>2 DEF Candidates
<1> QED BY <1>3, <1>4, <1>5 DEF Near

(* A stream that was not heard before is followed from its first two laps. *)
LEMMA FirstIsCandidate ==
  ASSUME NEW p \in Index, p.roc <= 1
  PROVE  p.roc \in Candidates(NoState, p.seq)
<1>1. p.roc = 0 \/ p.roc = 1
  BY SrtpAssumption DEF Index
<1> QED BY <1>1 DEF Candidates, RocGuess, Before

(* No stream was heard yet. *)
LEMMA InitIsFollowed == SrtpInit => SrtpInv
<1>1. [roc |-> 0, seq |-> 0] \in Index
  BY SrtpAssumption DEF Index
<1> QED BY <1>1 DEF SrtpInit, SrtpInv, SrtpTypeOK, FollowsNewest, NearIsAccepted

(* A packet sent is not heard yet. *)
LEMMA EncryptIsFollowed ==
  ASSUME SrtpInv, NEW s \in Ssrcs, Encrypt(s)
  PROVE  SrtpInv'
<1>1. last' \in [Ssrcs -> Index]
  <2>1. last[s] \in Index
    BY DEF SrtpInv, SrtpTypeOK
  <2>2. [roc |-> last[s].roc, seq |-> last[s].seq + 1] \in Index
           \/ last[s].seq >= SeqMod - 1
    BY <2>1, SrtpAssumption DEF Index
  <2>3. [roc |-> last[s].roc + 1, seq |-> 0] \in Index \/ last[s].roc >= MaxRoc
    BY <2>1, SrtpAssumption DEF Index
  <2>4. last[s].seq \in Int /\ last[s].roc \in Int
    BY <2>1, SrtpAssumption DEF Index
  <2>5. \E e \in Index : last' = [last EXCEPT ![s] = e]
    <3>1. CASE last[s].seq < SeqMod - 1
      BY <2>2, <2>4, <3>1, SrtpAssumption DEF Encrypt
    <3>2. CASE last[s].seq = SeqMod - 1 /\ last[s].roc < MaxRoc
      BY <2>3, <2>4, <3>2, SrtpAssumption DEF Encrypt
    <3> QED BY <3>1, <3>2 DEF Encrypt
  <2> QED BY <2>5 DEF SrtpInv, SrtpTypeOK
<1> QED BY <1>1 DEF Encrypt, SrtpInv, SrtpTypeOK, FollowsNewest, NearIsAccepted

(* A packet that is accepted moves the counter to the newest one. *)
LEMMA DecryptIsFollowed ==
  ASSUME SrtpInv, NEW s \in Ssrcs, NEW p \in Index, Decrypt(s, p)
  PROVE  SrtpInv'
<1>1. /\ states[s] \in Index \cup {NoState} /\ newest[s] \in Index
      /\ counts[s] \in Nat /\ arrived[s] \in Nat
  BY DEF SrtpInv, SrtpTypeOK
<1>2. SrtpTypeOK'
  <2>1. newest' \in [Ssrcs -> Index] /\ arrived' \in [Ssrcs -> Nat] /\ deaf' \subseteq Ssrcs
    BY DEF Decrypt, SrtpInv, SrtpTypeOK
  <2>2. states' \in [Ssrcs -> Index \cup {NoState}] /\ counts' \in [Ssrcs -> Nat]
    BY DEF Decrypt, SrtpInv, SrtpTypeOK, UpdateState
  <2> QED BY <2>1, <2>2 DEF Decrypt, SrtpInv, SrtpTypeOK
<1>3. s \notin deaf' => p.roc \in Candidates(states[s], p.seq)
  <2>1. SUFFICES ASSUME s \notin deaf' PROVE p.roc \in Candidates(states[s], p.seq)
    OBVIOUS
  <2>2. s \notin deaf
    BY <2>1 DEF Decrypt
  <2>3. CASE arrived[s] = 0
    <3>1. ~ p.roc > 1 /\ states[s] = NoState
      BY <2>1, <2>2, <2>3 DEF Decrypt, SrtpInv, FollowsNewest
    <3>2. p.roc <= 1
      BY <3>1, SrtpAssumption DEF Index
    <3> QED BY <3>1, <3>2, FirstIsCandidate
  <2>4. CASE arrived[s] # 0
    <3>1. states[s] = newest[s] /\ Near(p, newest[s])
      BY <1>1, <2>2, <2>4 DEF Decrypt, SrtpInv, FollowsNewest
    <3> QED BY <1>1, <3>1, NearIsCandidate
  <2> QED BY <2>3, <2>4
<1>4. ASSUME NEW x \in Ssrcs \ deaf'
      PROVE  /\ counts'[x] = arrived'[x]
             /\ states'[x] = IF arrived'[x] = 0 THEN NoState ELSE newest'[x]
  <2>1. x \notin deaf
    BY <1>4 DEF Decrypt
  <2>2. counts[x] = arrived[x] /\ states[x] = IF arrived[x] = 0 THEN NoState ELSE newest[x]
    BY <2>1, <1>4 DEF SrtpInv, NearIsAccepted, FollowsNewest
  <2>3. CASE x # s
    BY <2>2, <2>3 DEF Decrypt, SrtpInv, SrtpTypeOK
  <2>4. CASE x = s
    <3>1. p.roc \in Candidates(states[s], p.seq)
      BY <1>3, <1>4, <2>4
    <3>2. /\ states'[s] = UpdateState(states[s], p) /\ counts'[s] = counts[s] + 1
          /\ arrived'[s] = arrived[s] + 1
          /\ newest'[s] = IF arrived[s] = 0 \/ Newer(p, newest[s]) THEN p ELSE newest[s]
      BY <3>1 DEF Decrypt, SrtpInv, SrtpTypeOK
    <3>3. newest[s] # NoState
      BY <1>1, SrtpAssumption
    <3> QED BY <1>1, <2>2, <2>4, <3>2, <3>3 DEF UpdateState
  <2> QED BY <2>3, <2>4
<1> QED BY <1>2, <1>4 DEF SrtpInv, FollowsNewest, NearIsAccepted

(* A stream that is forgotten has no counter. *)
LEMMA ForgetIsFollowed ==
  ASSUME SrtpInv, NEW keep \in SUBSET Ssrcs, ForgetSsrcsExcept(keep)
  PROVE  SrtpInv'
<1>1. SrtpTypeOK'
  BY DEF ForgetSsrcsExcept, SrtpInv, SrtpTypeOK
<1>2. ASSUME NEW x \in Ssrcs \ deaf'
      PROVE  /\ counts'[x] = arrived'[x]
             /\ states'[x] = IF arrived'[x] = 0 THEN NoState ELSE newest'[x]
  BY <1>2 DEF ForgetSsrcsExcept, SrtpInv, FollowsNewest, NearIsAccepted
<1> QED BY <1>1, <1>2 DEF SrtpInv, FollowsNewest, NearIsAccepted

(* Every authentic packet of a stream that was heard in time is accepted,  *)
(* whatever the width of the sequence number and the threshold 0x7FFF.     *)
THEOREM AcceptsAroundTheWrap == SrtpSpec => []NearIsAccepted
<1>1. SrtpInv /\ [SrtpNext]_srtpVars => SrtpInv'
  <2>1. SUFFICES ASSUME SrtpInv, [SrtpNext]_srtpVars PROVE SrtpInv'
    OBVIOUS
  <2>2. CASE UNCHANGED srtpVars
    BY <2>1, <2>2 DEF srtpVars, SrtpInv, SrtpTypeOK, FollowsNewest, NearIsAccepted
  <2>3. CASE SrtpNext
    BY <2>1, <2>3, EncryptIsFollowed, DecryptIsFollowed, ForgetIsFollowed DEF SrtpNext
  <2> QED BY <2>1, <2>2, <2>3
<1>2. SrtpInv => NearIsAccepted
  BY DEF SrtpInv
<1> QED BY <1>1, <1>2, InitIsFollowed, PTL DEF SrtpSpec

(* So it is beside the other views. *)
COROLLARY AcceptsInAll == ConnectionSpec => []NearIsAccepted
<1>1. ConnectionInit => SrtpInit
  BY DEF ConnectionInit
<1>2. [ConnectionNext]_allVars => [SrtpNext]_srtpVars
  BY EachView
<1> QED
  BY <1>1, <1>2, AcceptsAroundTheWrap, PTL DEF ConnectionSpec, SrtpSpec

-----------------------------------------------------------------------------
(* The handshake *)

(* Authentication is behind it, and the key is of this connection. *)
Keyed == {"init", "peek", "prompt", "ack", "display", "enc1103", "offer", "done"}

(* The stages of a handshake. *)
HsStages == Keyed \cup {"open", "rsa1", "modulus", "challenge", "proof", "credentials",
                        "result", "failed"}

(* The inductive invariant: what each stage has agreed with the host so    *)
(* far.                                                                    *)
HsInv ==
  /\ hsStage \in HsStages
  /\ hsStage \in Keyed => ecbKey = socket
  /\ hsStage \notin {"offer", "done", "failed"} => asks = 0
  /\ hsStage = "offer" => asks <= Asks
  /\ granted # "none" =>
       /\ hsStage \in {"display", "enc1103", "offer", "done", "failed"}
       /\ granted = IF alt THEN "alt" ELSE "share"
  /\ hsStage \in {"offer", "done"} /\ elsewhere => granted # "none"
  /\ hsStage \in {"enc1103", "offer", "done"} => altDisplay = alt
  /\ H!HsTypeOK
  /\ H!RightKey
  /\ H!OneConnection

(* Nothing is agreed before the first message. *)
LEMMA HsInitially == ConnectionInit => HsInv
<1>1. H!HsInit => {again, redo, alt, altDisplay, elsewhere} \subseteq BOOLEAN
  BY DEF H!HsInit
<1>2. H!HsInit => H!HsTypeOK
  BY <1>1, ConnectionAssumption DEF H!HsInit, H!HsTypeOK, H!HandshakeAssumption
<1> QED
  BY <1>2 DEF ConnectionInit, H!HsInit, HsInv, HsStages, Keyed, H!RightKey, H!OneConnection

(* Each message agrees on what the next one rests on. *)
LEMMA HsStep ==
  ASSUME HsInv, [H!HsNext]_handshakeVars
  PROVE  HsInv'
<1> USE ConnectionAssumption DEF HsInv, HsStages, Keyed, H!HsTypeOK, H!RightKey, H!OneConnection,
     H!HandshakeAssumption, H!configVars, H!sessionVars, H!laterVars, H!Goto, H!AuthStep
<1>1. CASE H!OpenSocket
  <2>1. unclosed = {}
    BY <1>1 DEF H!OpenSocket
  <2>2. unclosed' = {socket'} /\ socket' = socket + 1 /\ socket' \in 1 .. socket'
    BY <1>1, <2>1 DEF H!OpenSocket
  <2> QED
    BY <1>1, <2>2 DEF H!OpenSocket
<1>2. CASE H!Rsa1Init
  BY <1>2 DEF H!Rsa1Init
<1>3. CASE H!SendNonsrpCredentials
  BY <1>3 DEF H!SendNonsrpCredentials
<1>4. CASE H!SendSrpModulus
  BY <1>4 DEF H!SendSrpModulus
<1>5. CASE H!ReadSrpChallenge
  BY <1>5 DEF H!ReadSrpChallenge
<1>6. CASE H!SendSrpProof
  BY <1>6 DEF H!SendSrpProof
<1>7. CASE H!AuthFails
  BY <1>7 DEF H!AuthFails
<1>8. CASE H!AuthSucceeds
  BY <1>8 DEF H!AuthSucceeds
<1>9. CASE H!ClientInit
  BY <1>9 DEF H!ClientInit
<1>10. CASE H!PeekPrompt
  BY <1>10 DEF H!PeekPrompt
<1>11. CASE H!PeekNothing
  BY <1>11 DEF H!PeekNothing
<1>12. CASE H!AnswerPrompt
  BY <1>12 DEF H!AnswerPrompt
<1>13. CASE H!PromptIsLate
  BY <1>13 DEF H!PromptIsLate
<1>14. CASE H!Acknowledged
  BY <1>14 DEF H!Acknowledged
<1>15. CASE H!ConfigureDisplay
  BY <1>15 DEF H!ConfigureDisplay
<1>16. CASE H!EnableEnc1103
  BY <1>16 DEF H!EnableEnc1103
<1>17. CASE H!NoEnc1103
  BY <1>17 DEF H!NoEnc1103
<1>18. CASE H!MediaOffer
  BY <1>18 DEF H!MediaOffer
<1>19. CASE H!SocketFails
  BY <1>19 DEF H!SocketFails
<1>20. CASE UNCHANGED handshakeVars
  BY <1>20 DEF handshakeVars
<1> QED
  BY <1>1, <1>2, <1>3, <1>4, <1>5, <1>6, <1>7, <1>8, <1>9, <1>10, <1>11, <1>12, <1>13,
     <1>14, <1>15, <1>16, <1>17, <1>18, <1>19, <1>20 DEF H!HsNext

(* What is encrypted or decrypted is of the connection the keys were       *)
(* agreed on, through a fallback and a second connection with one of its   *)
(* own; at most one connection is open; and the session granted is the     *)
(* one that is then configured (_phase_auth, connect_and_negotiate).       *)
THEOREM KeysAgree == ConnectionSpec => []HandshakeAgrees
<1>1. HsInv /\ [ConnectionNext]_allVars => HsInv'
  BY EachView, HsStep
<1>2. HsInv => HandshakeAgrees
  BY DEF HsInv, HandshakeAgrees, H!HandshakeAgrees, H!GrantedDisplay
<1> QED
  BY HsInitially, <1>1, <1>2, PTL DEF ConnectionSpec

-----------------------------------------------------------------------------
(* The control channel *)

(* The states decrypt_stream goes through, record by record. *)
IsRun(st, first, end) ==
  st = [r \in first - 1 .. end |->
          IF r < first THEN [ctr |-> decCtr, prev |-> lastIn, out |-> {}]
          ELSE C!DecryptMessage(st[r - 1], r)]

(* There is such a run, for every stretch of records. *)
LEMMA RunExists ==
  ASSUME NEW first \in Nat \ {0}, NEW end \in Nat, end >= first - 1
  PROVE  \E st : IsRun(st, first, end)
<1> DEFINE Reached == {n \in Nat : \E st : IsRun(st, first, n)}
           start == [ctr |-> decCtr, prev |-> lastIn, out |-> {}]
<1>1. first - 1 \in Reached
  <2> DEFINE f == [r \in first - 1 .. first - 1 |-> start]
  <2>1. f = [r \in first - 1 .. first - 1 |->
               IF r < first THEN start ELSE C!DecryptMessage(f[r - 1], r)]
    OBVIOUS
  <2> HIDE DEF f
  <2>2. IsRun(f, first, first - 1)
    BY <2>1 DEF IsRun
  <2> QED
    BY <2>2
<1>2. ASSUME NEW n \in first - 1 .. end, n \in Reached, n < end
      PROVE  n + 1 \in Reached
  <2>1. PICK f : IsRun(f, first, n)
    BY <1>2
  <2> DEFINE g == [r \in first - 1 .. n + 1 |->
                     IF r = n + 1 THEN C!DecryptMessage(f[n], n + 1) ELSE f[r]]
  <2>2. ASSUME NEW r \in first - 1 .. n + 1
        PROVE  g[r] = IF r < first THEN start ELSE C!DecryptMessage(g[r - 1], r)
    <3>1. CASE r = n + 1
      BY <3>1
    <3>2. CASE r \in first - 1 .. n
      <4>1. f[r] = IF r < first THEN start ELSE C!DecryptMessage(f[r - 1], r)
        BY <2>1, <3>2 DEF IsRun
      <4>2. g[r] = f[r] /\ (r >= first => g[r - 1] = f[r - 1])
        BY <3>2
      <4> HIDE DEF g, start
      <4> QED
        BY <4>1, <4>2, <3>2
    <3> QED
      BY <3>1, <3>2
  <2>3. g = [r \in first - 1 .. n + 1 |-> g[r]]
    OBVIOUS
  <2> HIDE DEF g, start
  <2>4. g = [r \in first - 1 .. n + 1 |->
               IF r < first THEN start ELSE C!DecryptMessage(g[r - 1], r)]
    BY <2>2, <2>3
  <2>5. IsRun(g, first, n + 1)
    BY <2>4 DEF IsRun, start
  <2> QED
    BY <2>5
<1>3. \A n \in first - 1 .. end : n \in Reached
  <2> HIDE DEF Reached
  <2>1. first - 1 \in Nat /\ end \in Int
    OBVIOUS
  <2>2. \A n \in first - 1 .. end : n \in Reached /\ n < end => n + 1 \in Reached
    BY <1>2
  <2> QED
    BY <1>1, <2>1, <2>2, IntervalInduction
<1> QED
  BY <1>3

(* decrypt_stream is the run over what was received. *)
LEMMA StreamIsRun ==
  ASSUME NEW first \in Nat \ {0}, NEW end \in Nat, end >= first - 1
  PROVE  \E st : IsRun(st, first, end) /\ C!DecryptStream(first, end) = st[end]
<1>1. \E st : IsRun(st, first, end)
  BY RunExists
<1> QED
  BY <1>1 DEF IsRun, C!DecryptStream


(* A run goes from record to record by decrypt_message. *)
LEMMA RunSteps ==
  ASSUME NEW st, NEW first \in Nat \ {0}, NEW end \in Nat, end >= first,
         IsRun(st, first, end)
  PROVE  /\ st[first - 1] = [ctr |-> decCtr, prev |-> lastIn, out |-> {}]
         /\ \A r \in first - 1 .. end - 1 : st[r + 1] = C!DecryptMessage(st[r], r + 1)
<1>1. ASSUME NEW q \in first - 1 .. end
      PROVE  st[q] = IF q < first THEN [ctr |-> decCtr, prev |-> lastIn, out |-> {}]
                     ELSE C!DecryptMessage(st[q - 1], q)
  BY DEF IsRun
<1>2. ASSUME NEW r \in first - 1 .. end - 1
      PROVE  st[r + 1] = C!DecryptMessage(st[r], r + 1)
  <2>1. r + 1 \in first - 1 .. end /\ ~ (r + 1 < first) /\ (r + 1) - 1 = r
    OBVIOUS
  <2> QED
    BY <1>1, <2>1
<1>3. first - 1 \in first - 1 .. end /\ first - 1 < first
  OBVIOUS
<1> QED
  BY <1>1, <1>2, <1>3

(* What a run of decrypt_stream leaves, whatever was lost of the stream. *)
LEMMA RunTypes ==
  ASSUME C!TypeOK, NEW first \in Nat \ {0}, NEW end \in Nat, end >= first
  PROVE  LET s == C!DecryptStream(first, end)
         IN  s.ctr \in Nat /\ s.prev = end /\ s.out \subseteq first .. end
<1>1. PICK st : IsRun(st, first, end) /\ C!DecryptStream(first, end) = st[end]
  BY StreamIsRun
<1> DEFINE Good(r) == /\ st[r].ctr \in Nat /\ st[r].out \subseteq first .. r
                      /\ r >= first => st[r].prev = r
           Reached == {r \in Nat : Good(r)}
<1>2. st[first - 1] = [ctr |-> decCtr, prev |-> lastIn, out |-> {}]
  BY <1>1, RunSteps
<1>3. first - 1 \in Reached
  BY <1>2 DEF C!TypeOK
<1>4. ASSUME NEW r \in first - 1 .. end, r \in Reached, r < end
      PROVE  r + 1 \in Reached
  <2>1. st[r + 1] = C!DecryptMessage(st[r], r + 1)
    BY <1>1, <1>4, RunSteps
  <2>2. Good(r) /\ r + 1 \in Nat
    BY <1>4
  <2>3. r + 1 \in first .. r + 1 /\ first .. r \subseteq first .. r + 1
    BY <1>4
  <2>4. st[r + 1].prev = r + 1
    BY <2>1 DEF C!DecryptMessage
  <2>5. st[r + 1].ctr \in Nat
    BY <2>1, <2>2 DEF C!DecryptMessage
  <2>6. st[r + 1].out \subseteq st[r].out \cup {r + 1}
    BY <2>1 DEF C!DecryptMessage
  <2>7. st[r + 1].out \subseteq first .. r + 1
    BY <2>2, <2>3, <2>6
  <2> QED
    BY <2>2, <2>4, <2>5, <2>7
<1>5. \A r \in first - 1 .. end : r \in Reached
  <2> HIDE DEF Reached
  <2>1. first - 1 \in Nat /\ end \in Int
    OBVIOUS
  <2>2. \A r \in first - 1 .. end : r \in Reached /\ r < end => r + 1 \in Reached
    BY <1>4
  <2> QED
    BY <1>3, <2>1, <2>2, IntervalInduction
<1>6. Good(end)
  <2>1. end \in Reached
    BY <1>5
  <2> QED
    BY <2>1
<1> QED
  BY <1>1, <1>6

(* A reader that has lost nothing gets every record out. *)
LEMMA RunWhole ==
  ASSUME ConnectionAssumption,
         NEW first \in Nat \ {0}, NEW end \in Nat, end >= first,
         decCtr = first - 1, lastIn = first - 1
  PROVE  C!DecryptStream(first, end) = [ctr |-> end, prev |-> end, out |-> first .. end]
<1>1. PICK st : IsRun(st, first, end) /\ C!DecryptStream(first, end) = st[end]
  BY StreamIsRun
<1> DEFINE upto(r) == first .. r
           state(r) == [ctr |-> r, prev |-> r, out |-> upto(r)]
           Reached == {r \in Nat : st[r] = state(r)}
<1>2. upto(first - 1) = {} /\ \A r \in first - 1 .. end - 1 : upto(r + 1) = upto(r) \cup {r + 1}
  OBVIOUS
<1> HIDE DEF upto
<1>3. first - 1 \in Reached
  <2>1. st[first - 1] = [ctr |-> decCtr, prev |-> lastIn, out |-> {}]
    BY <1>1, RunSteps
  <2>2. first - 1 \in Nat /\ upto(first - 1) = {}
    BY <1>2
  <2>3. state(first - 1) = [ctr |-> first - 1, prev |-> first - 1, out |-> {}]
    BY <2>2
  <2>4. st[first - 1] = [ctr |-> first - 1, prev |-> first - 1, out |-> {}]
    BY <2>1
  <2> HIDE DEF state
  <2> QED
    BY <2>2, <2>3, <2>4
<1>4. ASSUME NEW r \in first - 1 .. end, r \in Reached, r < end
      PROVE  r + 1 \in Reached
  <2>1. r \in Nat /\ r \in first - 1 .. end - 1 /\ st[r] = state(r)
    BY <1>4
  <2>2. st[r + 1] = C!DecryptMessage(state(r), r + 1)
    BY <1>1, <2>1, RunSteps
  <2>3. Ahead \in Nat /\ Ahead >= 1
    BY DEF ConnectionAssumption, C!ChannelAssumption
  <2>4. C!Found(r + 1, r) /\ C!Chained(r + 1, r)
    BY <2>1, <2>3 DEF C!Found, C!Chained
  <2>5. C!DecryptMessage(state(r), r + 1) =
          [ctr |-> r + 1, prev |-> r + 1, out |-> upto(r) \cup {r + 1}]
    BY <2>4 DEF C!DecryptMessage
  <2>6. st[r + 1] = state(r + 1)
    BY <1>2, <2>1, <2>2, <2>5
  <2> QED
    BY <2>1, <2>6
<1>5. \A r \in first - 1 .. end : r \in Reached
  <2> HIDE DEF Reached
  <2>1. first - 1 \in Nat /\ end \in Int
    OBVIOUS
  <2>2. \A r \in first - 1 .. end : r \in Reached /\ r < end => r + 1 \in Reached
    BY <1>4
  <2> QED
    BY <1>3, <2>1, <2>2, IntervalInduction
<1>6. end \in Reached
  BY <1>5
<1> QED
  BY <1>1, <1>6 DEF upto

(* The lock is held by the thread whose draft has the newest counter. *)
LockInv ==
  /\ \A t \in Senders : drafts[t] # 0 <=> holder = t
  /\ \A t \in Senders : drafts[t] # 0 => drafts[t] = encCtr
  /\ encCtr = Len(wire) + (IF holder = Free THEN 0 ELSE 1)
  /\ C!WireInOrder

(* Where the reader stands while nothing was cut: all it went through came *)
(* out, and a whole record is not left in the buffer.                      *)
ReaderStands ==
  /\ from = 2 * lastIn + 1 /\ decCtr = lastIn
  /\ 1 .. lastIn \subseteq got
  /\ stage # "loop" => taken % 2 = 0
  /\ stage = "loop" => taken <= from

(* The inductive invariant: the lock, the reader, and the types. *)
ChannelInv ==
  /\ C!TypeOK /\ LockInv
  /\ stage # "loop" => queries < Queries
  /\ whole => ReaderStands

(* What Parse leaves is typed, whatever was lost. *)
LEMMA ParseTypes ==
  ASSUME C!TypeOK, NEW n \in taken .. hostSent, NEW rest \in {from, 2 * (n \div 2) + 1},
         C!Parse(n, rest)
  PROVE  /\ rest \in 1 .. n + 1
         /\ got' \subseteq 1 .. Records /\ lastIn' \in 0 .. Records /\ decCtr' \in Nat
<1> DEFINE first == (from + 1) \div 2
           end == n \div 2
<1>1. Records \in Nat
  BY ConnectionAssumption DEF C!ChannelAssumption
<1>2. first \in Nat \ {0} /\ end \in 0 .. Records /\ n \in Nat
  BY <1>1 DEF C!TypeOK
<1>3. rest \in 1 .. n + 1
  BY <1>1 DEF C!TypeOK
<1>4. CASE C!Aligned /\ end >= first
  <2>1. LET s == C!DecryptStream(first, end)
        IN  s.ctr \in Nat /\ s.prev = end /\ s.out \subseteq first .. end
    BY <1>2, <1>4, RunTypes
  <2>2. first .. end \subseteq 1 .. Records
    BY <1>1, <1>2
  <2> HIDE DEF first, end
  <2>3. /\ decCtr' = C!DecryptStream(first, end).ctr
        /\ lastIn' = C!DecryptStream(first, end).prev
        /\ got' = got \cup C!DecryptStream(first, end).out
    BY <1>4 DEF C!Parse, first, end
  <2> QED
    BY <1>2, <1>3, <2>1, <2>2, <2>3 DEF C!TypeOK
<1>5. CASE ~ (C!Aligned /\ end >= first)
  <2> HIDE DEF first, end
  <2>1. UNCHANGED <<decCtr, lastIn, got>>
    BY <1>5 DEF C!Parse, first, end
  <2> QED
    BY <1>3, <2>1 DEF C!TypeOK
<1> QED
  BY <1>4, <1>5

(* A reader that has lost nothing stands where it should after             *)
(* Parse.                                                            *)
LEMMA ParseWhole ==
  ASSUME C!TypeOK, ReaderStands, NEW n \in taken .. hostSent,
         NEW rest \in {from, 2 * (n \div 2) + 1}, C!Parse(n, rest)
  PROVE  /\ rest = 2 * lastIn' + 1 /\ decCtr' = lastIn' /\ 1 .. lastIn' \subseteq got'
         /\ n <= rest
<1> DEFINE first == (from + 1) \div 2
           end == n \div 2
<1>1. Records \in Nat
  BY ConnectionAssumption DEF C!ChannelAssumption
<1>2. n \in Nat /\ lastIn \in Nat /\ end \in Nat /\ from = 2 * lastIn + 1
  BY <1>1 DEF C!TypeOK, ReaderStands
<1>3. first = lastIn + 1 /\ C!Aligned
  BY <1>2 DEF C!Aligned
<1>4. CASE end >= first
  <2>1. C!DecryptStream(first, end) = [ctr |-> end, prev |-> end, out |-> first .. end]
    BY <1>2, <1>3, <1>4, RunWhole, ConnectionAssumption DEF ReaderStands
  <2>2. 1 .. end \subseteq (1 .. lastIn) \cup (first .. end)
    BY <1>2, <1>3
  <2> HIDE DEF first, end
  <2>3. /\ decCtr' = C!DecryptStream(first, end).ctr
        /\ lastIn' = C!DecryptStream(first, end).prev
        /\ got' = got \cup C!DecryptStream(first, end).out
        /\ rest = 2 * end + 1
    BY <1>3, <1>4 DEF C!Parse, first, end
  <2>4. n <= 2 * end + 1
    BY <1>2 DEF end
  <2> QED
    BY <2>1, <2>2, <2>3, <2>4 DEF ReaderStands
<1>5. CASE ~ (end >= first)
  <2>1. UNCHANGED <<decCtr, lastIn, got>> /\ rest = from
    BY <1>5 DEF C!Parse
  <2>2. n <= from
    BY <1>2, <1>3, <1>5
  <2> QED
    BY <2>1, <2>2 DEF ReaderStands
<1> QED
  BY <1>4, <1>5


(* The channel starts with nothing sent and nothing read. *)
LEMMA ChannelInitially == ConnectionInit => ChannelInv
<1> SUFFICES ASSUME C!Init PROVE ChannelInv
  BY DEF ConnectionInit
<1>1. <<>> \in Seq(1 .. MaxSend) /\ Len(<<>>) = 0
  BY EmptySeq
<1>2. C!TypeOK
  BY <1>1, ConnectionAssumption DEF C!Init, C!TypeOK, C!ChannelAssumption
<1>3. LockInv
  BY <1>1, ConnectionAssumption DEF C!Init, LockInv, C!WireInOrder, C!ChannelAssumption
<1>4. ReaderStands
  BY DEF C!Init, ReaderStands
<1> QED
  BY <1>2, <1>3, <1>4, ConnectionAssumption DEF ChannelInv, C!Init, C!ChannelAssumption

(* A sender takes the counter with the lock, and returns it with the bytes. *)
LEMMA SendersKeepLock ==
  ASSUME ChannelInv, NEW t \in Senders, C!EncryptLocked(t) \/ C!SendAll(t)
  PROVE  C!TypeOK' /\ LockInv'
<1>1. Free \notin Senders /\ MaxSend \in Nat
  BY ConnectionAssumption DEF C!ChannelAssumption
<1>2. encCtr \in 0 .. MaxSend /\ drafts \in [Senders -> 0 .. MaxSend]
        /\ wire \in Seq(1 .. MaxSend) /\ Len(wire) \in Nat
  BY LenProperties DEF ChannelInv, C!TypeOK
<1>3. CASE C!EncryptLocked(t)
  <2> USE <1>3 DEF C!EncryptLocked, C!rxVars
  <2>1. encCtr' = encCtr + 1 /\ encCtr' \in 1 .. MaxSend /\ holder = Free /\ holder' = t
    BY <1>1, <1>2
  <2>2. drafts' \in [Senders -> 0 .. MaxSend]
    BY <1>2, <2>1
  <2>3. \A s \in Senders : drafts'[s] = IF s = t THEN encCtr' ELSE 0
    BY <1>1, <1>2, <2>1 DEF ChannelInv, LockInv
  <2>4. LockInv'
    BY <1>1, <1>2, <2>1, <2>3 DEF ChannelInv, LockInv, C!WireInOrder
  <2> QED
    BY <2>1, <2>2, <2>4 DEF ChannelInv, C!TypeOK
<1>4. CASE C!SendAll(t)
  <2> USE <1>4 DEF C!SendAll, C!rxVars
  <2>1. holder = t /\ drafts[t] = encCtr /\ encCtr = Len(wire) + 1 /\ holder' = Free
    BY <1>1 DEF ChannelInv, LockInv
  <2>2. encCtr \in 1 .. MaxSend /\ encCtr' = encCtr /\ wire' = Append(wire, encCtr)
    BY <1>1, <1>2, <2>1
  <2>3. /\ wire' \in Seq(1 .. MaxSend) /\ Len(wire') = Len(wire) + 1
        /\ \A i \in 1 .. Len(wire) : wire'[i] = wire[i]
        /\ wire'[Len(wire) + 1] = encCtr
    BY <1>2, <2>2, AppendProperties
  <2>4. C!WireInOrder'
    BY <1>2, <2>1, <2>3 DEF ChannelInv, LockInv, C!WireInOrder
  <2>5. drafts' \in [Senders -> 0 .. MaxSend] /\ \A s \in Senders : drafts'[s] = 0
    BY <1>1, <1>2, <2>1 DEF ChannelInv, LockInv
  <2>6. LockInv'
    BY <1>1, <1>2, <2>1, <2>2, <2>3, <2>4, <2>5 DEF LockInv
  <2> QED
    BY <2>1, <2>3, <2>5, <2>6 DEF ChannelInv, C!TypeOK
<1> QED
  BY <1>3, <1>4

(* A half record is left of an odd number of halves. *)
LEMMA OddNumber == ASSUME NEW k \in Nat PROVE (2 * k + 1) % 2 = 1
  OBVIOUS

(* What the handshake's reads do with the end of the stream they cut. *)
LEMMA TailDropped ==
  ASSUME ChannelInv, NEW next \in {"drain", "answer", "loop"}, stage # "loop",
         C!DropTail(next), queries' \in 0 .. Queries, next # "loop" => queries' < Queries
  PROVE  ChannelInv'
<1>1. PICK rest \in {from, 2 * (taken \div 2) + 1} : C!Parse(taken, rest)
  BY DEF C!DropTail
<1>2. taken \in taken .. hostSent /\ taken \in Nat
  BY ConnectionAssumption DEF ChannelInv, C!TypeOK, C!ChannelAssumption
<1>3. /\ rest \in 1 .. taken + 1
      /\ got' \subseteq 1 .. Records /\ lastIn' \in 0 .. Records /\ decCtr' \in Nat
  BY <1>1, <1>2, ParseTypes DEF ChannelInv
<1>4. from' = taken + 1 /\ stage' = next /\ UNCHANGED <<taken, whole, hostSent, C!txVars>>
  BY DEF C!DropTail
<1>5. C!TypeOK'
  BY <1>2, <1>3, <1>4 DEF ChannelInv, C!TypeOK, C!txVars
<1>6. LockInv'
  BY <1>4 DEF ChannelInv, LockInv, C!WireInOrder, C!txVars
<1>7. ASSUME whole PROVE ReaderStands'
  <2>1. ReaderStands /\ taken % 2 = 0
    BY <1>7 DEF ChannelInv, ReaderStands
  <2>2. /\ rest = 2 * lastIn' + 1 /\ decCtr' = lastIn' /\ 1 .. lastIn' \subseteq got'
        /\ taken <= rest
    BY <1>1, <1>2, <2>1, ParseWhole DEF ChannelInv
  <2>3. taken \in Nat /\ rest \in 1 .. taken + 1 /\ lastIn' \in Nat
    BY <1>2, <1>3, ConnectionAssumption DEF C!ChannelAssumption
  <2>4. rest = taken + 1
    <3>1. taken <= rest /\ rest = 2 * lastIn' + 1
      BY <2>2
    <3>2. PICK k \in Nat : k = lastIn'
      BY <2>3
    <3>3. rest = 2 * k + 1 /\ taken <= rest
      BY <3>1, <3>2
    <3>4. taken \in Nat /\ rest \in 1 .. taken + 1
      BY <2>3
    <3>5. (2 * k + 1) % 2 = 1
      BY OddNumber
    <3>6. rest \in {taken, taken + 1}
      BY <3>3, <3>4
    <3> QED
      BY <2>1, <3>3, <3>5, <3>6
  <2> QED
    BY <1>2, <1>4, <2>1, <2>2, <2>4 DEF ReaderStands
<1> QED
  BY <1>4, <1>5, <1>6, <1>7 DEF ChannelInv

(* What a read of the main loop leaves. *)
LEMMA ReaderKeepsUp ==
  ASSUME ChannelInv, C!TcpRx
  PROVE  ChannelInv'
<1>1. PICK n \in taken + 1 .. hostSent :
        /\ taken' = n
        /\ \E rest \in {from, 2 * (n \div 2) + 1} : C!Parse(n, rest) /\ from' = rest
  BY DEF C!TcpRx
<1>2. PICK rest \in {from, 2 * (n \div 2) + 1} : C!Parse(n, rest) /\ from' = rest
  BY <1>1
<1>3. n \in taken .. hostSent /\ n \in Nat /\ n <= hostSent
  BY ConnectionAssumption DEF ChannelInv, C!TypeOK, C!ChannelAssumption
<1>4. /\ rest \in 1 .. n + 1
      /\ got' \subseteq 1 .. Records /\ lastIn' \in 0 .. Records /\ decCtr' \in Nat
  BY <1>2, <1>3, ParseTypes DEF ChannelInv
<1>5. UNCHANGED <<stage, queries, whole, hostSent, C!txVars>> /\ stage = "loop"
  BY DEF C!TcpRx
<1>6. C!TypeOK'
  BY <1>1, <1>2, <1>3, <1>4, <1>5 DEF ChannelInv, C!TypeOK, C!txVars
<1>7. LockInv'
  BY <1>5 DEF ChannelInv, LockInv, C!WireInOrder, C!txVars
<1>8. ASSUME whole PROVE ReaderStands'
  <2>1. ReaderStands
    BY <1>8 DEF ChannelInv
  <2>2. /\ rest = 2 * lastIn' + 1 /\ decCtr' = lastIn' /\ 1 .. lastIn' \subseteq got'
        /\ n <= rest
    BY <1>2, <1>3, <2>1, ParseWhole DEF ChannelInv
  <2> QED
    BY <1>1, <1>2, <1>5, <2>2 DEF ReaderStands
<1> QED
  BY <1>5, <1>6, <1>7, <1>8 DEF ChannelInv

(* Each step keeps the lock and the reader. *)
LEMMA ChannelStep ==
  ASSUME ChannelInv, [C!Next]_channelVars
  PROVE  ChannelInv'
<1>0. {Records, MaxSend, Ahead, Queries} \subseteq Nat
  BY ConnectionAssumption DEF C!ChannelAssumption
<1>1. ASSUME NEW t \in Senders, C!EncryptLocked(t) \/ C!SendAll(t) PROVE ChannelInv'
  <2>1. UNCHANGED <<whole, hostSent, C!rxVars>>
    BY <1>1 DEF C!EncryptLocked, C!SendAll
  <2>2. C!TypeOK' /\ LockInv'
    BY <1>1, SendersKeepLock
  <2> QED
    BY <2>1, <2>2 DEF ChannelInv, ReaderStands, C!rxVars
<1>2. CASE C!HostSends
  <2>1. hostSent' \in hostSent .. 2 * Records
    BY <1>0, <1>2 DEF C!HostSends, ChannelInv, C!TypeOK
  <2>2. UNCHANGED <<whole, C!rxVars, C!txVars>>
    BY <1>2 DEF C!HostSends
  <2>3. C!TypeOK'
    BY <1>0, <2>1, <2>2 DEF ChannelInv, C!TypeOK, C!rxVars, C!txVars
  <2> QED
    BY <2>2, <2>3 DEF ChannelInv, LockInv, C!WireInOrder, ReaderStands, C!rxVars, C!txVars
<1>3. CASE C!HandshakeRecv
  <2>0. PICK n \in taken + 1 .. hostSent : taken' = n
    BY <1>3 DEF C!HandshakeRecv
  <2>1. (whole => taken' % 2 = 0) /\ stage # "loop"
    BY <1>3 DEF C!HandshakeRecv
  <2>2. UNCHANGED <<stage, queries, from, lastIn, decCtr, got, whole, hostSent, C!txVars>>
    BY <1>3 DEF C!HandshakeRecv
  <2>3. taken \in Nat /\ hostSent \in Nat /\ from \in 1 .. taken + 1
    BY <1>0 DEF ChannelInv, C!TypeOK
  <2>4. n \in 0 .. hostSent /\ from \in 1 .. n + 1
    BY <2>3
  <2>5. C!TypeOK'
    BY <2>0, <2>2, <2>4 DEF ChannelInv, C!TypeOK, C!txVars
  <2> QED
    BY <2>1, <2>2, <2>5 DEF ChannelInv, LockInv, C!WireInOrder, ReaderStands, C!txVars
<1>4. CASE C!ReadUntilEnc1103
  BY <1>4, TailDropped DEF C!ReadUntilEnc1103, ChannelInv, C!TypeOK
<1>5. CASE C!DrainThroughCipher
  BY <1>5, TailDropped DEF C!DrainThroughCipher, ChannelInv, C!TypeOK
<1>6. CASE C!ReadVideoAnswer
  <2>1. queries \in 0 .. Queries /\ queries' = queries + 1 /\ stage = "answer"
          /\ queries < Queries
    BY <1>6 DEF C!ReadVideoAnswer, ChannelInv, C!TypeOK
  <2>2. queries' \in 0 .. Queries
    BY <1>0, <2>1
  <2> QED
    BY <1>6, <2>1, <2>2, TailDropped DEF C!ReadVideoAnswer
<1>7. CASE C!TcpRx
  BY <1>7, ReaderKeepsUp
<1>8. CASE UNCHANGED channelVars
  BY <1>8 DEF channelVars, ChannelInv, C!TypeOK, LockInv, C!WireInOrder, ReaderStands
<1> QED
  BY <1>1, <1>2, <1>3, <1>4, <1>5, <1>6, <1>7, <1>8 DEF C!Next

(* Records go out in the order of their counters, with any number of       *)
(* senders; and every record tcp-rx has read to its end has come out, if   *)
(* the reads of the handshake ended between two records (StreamCipher,     *)
(* _drain_through_cipher, _tcp_rx).                                        *)
THEOREM ChannelKept == ConnectionSpec => []ChannelInStep
<1>1. ChannelInv /\ [ConnectionNext]_allVars => ChannelInv'
  BY EachView, ChannelStep
<1>2. ChannelInv => ChannelInStep
  <2> SUFFICES ASSUME ChannelInv PROVE ChannelInStep
    OBVIOUS
  <2>1. ASSUME whole, stage = "loop", NEW r \in 1 .. Records, 2 * r <= taken
        PROVE  r \in got
    <3>1. lastIn \in Nat /\ taken \in Nat /\ taken <= 2 * lastIn + 1
      BY <2>1, ConnectionAssumption DEF ChannelInv, C!TypeOK, ReaderStands, C!ChannelAssumption
    <3>2. r \in 1 .. lastIn
      BY <2>1, <3>1
    <3> QED
      BY <2>1, <3>2 DEF ChannelInv, ReaderStands
  <2> QED
    BY <2>1 DEF ChannelInv, ChannelInStep, LockInv, C!ChannelInStep, C!HearsWhole, C!Hears
<1> QED
  BY ChannelInitially, <1>1, <1>2, PTL DEF ConnectionSpec

-----------------------------------------------------------------------------
(* The capture *)

(* A record of the capture: a stretch of the stream, or a datagram. *)
PcapRecord == [seq : Int, from : Int, to : Int] \cup [udp : Int]

(* The inductive invariant: what is in the file, in the batch and in the   *)
(* queue is what was recorded, in order.                                   *)
PcapInv ==
  /\ consumed \in Int /\ datagrams \in Int /\ tcpSeq \in Int
  /\ tap = Idle \/ tap \in [from : Int, to : Int]
  /\ file \in Seq(PcapRecord) /\ batch \in Seq(PcapRecord)
  /\ queue \in Seq(PcapRecord) /\ recorded \in Seq(PcapRecord)
  /\ endPc \in {"open", "join"} => ~impatient
  /\ endPc \in {"drain", "closed"} /\ ~impatient => writerPc = "ended"
  /\ P!PcapTypeOK
  /\ P!FileInOrder

(* The capture starts empty. *)
LEMMA PcapInitially == ConnectionInit => PcapInv
<1>1. <<>> \in Seq(PcapRecord)
  BY EmptySeq
<1>2. P!PcapInit => P!FileInOrder
  BY DEF P!PcapInit, P!FileInOrder
<1>3. P!PcapInit => P!PcapTypeOK
  BY ConnectionAssumption DEF P!PcapInit, P!PcapTypeOK, P!PcapAssumption
<1> QED
  BY <1>1, <1>2, <1>3 DEF ConnectionInit, P!PcapInit, PcapInv

(* A record joins the end of the queue. *)
LEMMA QueueOne ==
  ASSUME PcapInv, NEW r \in PcapRecord,
         queue' = Append(queue, r), recorded' = Append(recorded, r),
         UNCHANGED <<file, batch, impatient>>
  PROVE  /\ queue' \in Seq(PcapRecord) /\ recorded' \in Seq(PcapRecord)
         /\ P!FileInOrder'
<1>1. file \o batch \in Seq(PcapRecord) /\ queue \in Seq(PcapRecord)
  BY ConcatProperties DEF PcapInv
<1>2. (file \o batch) \o Append(queue, r) = Append((file \o batch) \o queue, r)
  BY <1>1, AppendRight
<1>3. Append(queue, r) \in Seq(PcapRecord) /\ Append(recorded, r) \in Seq(PcapRecord)
  BY AppendProperties DEF PcapInv
<1> QED
  BY <1>2, <1>3 DEF PcapInv, P!FileInOrder

(* Each step moves records on without a change of their order. *)
LEMMA PcapStep ==
  ASSUME PcapInv, [P!PcapNext]_captureVars
  PROVE  PcapInv'
<1> USE ConnectionAssumption
       DEF PcapInv, P!PcapTypeOK, P!FileInOrder, P!writerVars, P!endVars, P!PcapAssumption
<1>0. <<>> \in Seq(PcapRecord)
  BY EmptySeq
<1>1. CASE P!Recv
  BY <1>1 DEF P!Recv
<1>2. CASE P!RecvPeek
  BY <1>2 DEF P!RecvPeek
<1>3. CASE P!RecordTcp
  <2>1. CASE endPc = "closed"
    BY <1>3, <2>1 DEF P!RecordTcp
  <2>2. CASE endPc # "closed"
    <3> DEFINE r == [seq |-> tcpSeq, from |-> tap.from, to |-> tap.to]
    <3>1. r \in PcapRecord /\ tcpSeq' \in Int
      BY <1>3, <2>2 DEF P!RecordTcp, PcapRecord
    <3>2. queue' = Append(queue, r) /\ recorded' = Append(recorded, r)
      BY <1>3, <2>2 DEF P!RecordTcp
    <3>3. UNCHANGED <<consumed, file, batch, writerPc, halt, endPc, impatient, datagrams, peeks>>
      BY <1>3 DEF P!RecordTcp
    <3> HIDE DEF r
    <3>4. queue' \in Seq(PcapRecord) /\ recorded' \in Seq(PcapRecord) /\ P!FileInOrder'
      BY <3>1, <3>2, <3>3, QueueOne
    <3> QED
      BY <1>3, <3>1, <3>3, <3>4 DEF P!RecordTcp
  <2> QED
    BY <2>1, <2>2
<1>4. CASE P!RecordUdp
  <2>1. CASE endPc = "closed"
    BY <1>4, <2>1 DEF P!RecordUdp
  <2>2. CASE endPc # "closed"
    <3> DEFINE r == [udp |-> datagrams']
    <3>1. r \in PcapRecord
      BY <1>4 DEF P!RecordUdp, PcapRecord
    <3>2. queue' = Append(queue, r) /\ recorded' = Append(recorded, r)
      BY <1>4, <2>2 DEF P!RecordUdp
    <3>3. UNCHANGED <<consumed, tap, tcpSeq, file, batch, writerPc, halt, endPc, impatient, peeks>>
      BY <1>4 DEF P!RecordUdp
    <3> HIDE DEF r
    <3>4. queue' \in Seq(PcapRecord) /\ recorded' \in Seq(PcapRecord) /\ P!FileInOrder'
      BY <3>1, <3>2, <3>3, QueueOne
    <3>5. datagrams' \in 0 .. MaxDatagrams
      BY <1>4 DEF P!RecordUdp
    <3> HIDE DEF P!FileInOrder
    <3> QED
      BY <3>3, <3>4, <3>5
  <2> QED
    BY <2>1, <2>2
<1>5. CASE P!WriterTake
  <2>1. CASE queue = <<>>
    BY <1>5, <2>1 DEF P!WriterTake
  <2>2. CASE queue # <<>>
    <3>1. batch = <<>> /\ file \o batch = file /\ batch' = queue /\ queue' = <<>>
      BY <1>5, <2>2, ConcatEmptySeq DEF P!WriterTake
    <3>2. (file \o queue) \o <<>> = file \o queue
      BY ConcatProperties, ConcatEmptySeq
    <3> QED
      BY <1>0, <1>5, <2>2, <3>1, <3>2 DEF P!WriterTake
  <2> QED
    BY <2>1, <2>2
<1>6. CASE P!WriterWrite
  <2>1. CASE endPc = "closed"
    BY <1>0, <1>6, <2>1 DEF P!WriterWrite
  <2>2. CASE endPc # "closed"
    <3>1. batch # <<>>
      BY <1>6 DEF P!WriterWrite
    <3>2. /\ Append(file, Head(batch)) \o Tail(batch) = file \o batch
          /\ Head(batch) \in PcapRecord /\ Tail(batch) \in Seq(PcapRecord)
      BY <3>1, HeadOver, HeadTailProperties
    <3>3. Append(file, Head(batch)) \in Seq(PcapRecord)
      BY <3>2, AppendProperties
    <3> QED
      BY <1>6, <2>2, <3>1, <3>2, <3>3 DEF P!WriterWrite
  <2> QED
    BY <2>1, <2>2
<1>7. CASE P!Halt
  BY <1>7 DEF P!Halt
<1>8. CASE P!Join
  BY <1>8 DEF P!Join
<1>9. CASE P!DrainAndClose
  <2>1. file \o queue \in Seq(PcapRecord)
    BY ConcatProperties
  <2>2. batch = <<>> => (file \o batch) \o queue = ((file \o queue) \o batch) \o <<>>
    BY <2>1, ConcatEmptySeq
  <2>3. P!FileInOrder'
    BY <1>9, <2>2 DEF P!DrainAndClose
  <2> HIDE DEF P!FileInOrder
  <2> QED
    BY <1>0, <1>9, <2>1, <2>3 DEF P!DrainAndClose
<1>10. CASE UNCHANGED captureVars
  BY <1>10 DEF captureVars
<1> QED
  BY <1>1, <1>2, <1>3, <1>4, <1>5, <1>6, <1>7, <1>8, <1>9, <1>10 DEF P!PcapNext

(* Nothing that was queued is lost, doubled or reordered on its way to the *)
(* file, as long as the join did not time out (_writer_loop, close).       *)
THEOREM CaptureInOrder == ConnectionSpec => []FileInOrder
<1>1. PcapInv /\ [ConnectionNext]_allVars => PcapInv'
  BY EachView, PcapStep
<1>2. PcapInv => FileInOrder
  BY DEF PcapInv, FileInOrder
<1> QED
  BY PcapInitially, <1>1, <1>2, PTL DEF ConnectionSpec

-----------------------------------------------------------------------------
(* The initial burst *)

(* Division by the length of a unit. *)
LEMMA DivStep ==
  ASSUME NEW m \in Nat \ {0}, NEW a \in Nat, NEW b \in Nat, a <= b
  PROVE  a \div m <= b \div m
<1> DEFINE p == a \div m
           q == b \div m
<1>1. /\ p \in Int /\ q \in Int
      /\ m * p <= a /\ a < m * p + m
      /\ m * q <= b /\ b < m * q + m
  OBVIOUS
<1> SUFFICES ASSUME p >= q + 1 PROVE FALSE
  BY <1>1
<1> HIDE DEF p, q
<1>2. m * p >= m * (q + 1)
  BY <1>1
<1>3. m * (q + 1) = m * q + m
  BY <1>1
<1> QED
  BY <1>1, <1>2, <1>3

(* A number of the next unit, after the last of one. *)
LEMMA DivAtMultiple ==
  ASSUME NEW m \in Nat \ {0}, NEW a \in Nat \ {0}, a % m = 0
  PROVE  (a - 1) \div m < a \div m
<1> DEFINE p == (a - 1) \div m
           q == a \div m
<1>1. /\ p \in Int /\ q \in Int
      /\ m * p <= a - 1
      /\ a = m * q
  OBVIOUS
<1> SUFFICES ASSUME p >= q PROVE FALSE
  BY <1>1
<1> HIDE DEF p, q
<1>2. m * p >= m * q
  BY <1>1
<1> QED
  BY <1>1, <1>2


(* The units of the numbers ascend, and an end is the last of its unit.   *)
LEMMA UnitFacts ==
  /\ NumUnits * UnitLen \in Nat /\ UnitLen \in Nat \ {0}
  /\ \A i \in B!Numbers : B!UnitOf(i) \in B!Units /\ i \in B!PacketsOf(B!UnitOf(i))
  /\ \A i, j \in B!Numbers : i <= j => B!UnitOf(i) <= B!UnitOf(j)
  /\ \A i, j \in B!Numbers : B!Ends(i) /\ i < j => B!UnitOf(i) < B!UnitOf(j)
<1>1. {NumTiles, NumUnits, UnitLen, Tries} \subseteq Nat \ {0}
  BY ConnectionAssumption DEF B!BurstAssumption
<1>2. NumUnits * UnitLen \in Nat /\ UnitLen \in Nat \ {0} /\ NumUnits \in Nat \ {0}
  BY <1>1
<1>3. ASSUME NEW i \in B!Numbers, NEW j \in B!Numbers, i <= j
      PROVE  B!UnitOf(i) <= B!UnitOf(j)
  <2>1. i - 1 \in Nat /\ j - 1 \in Nat /\ i - 1 <= j - 1
    BY <1>2, <1>3 DEF B!Numbers
  <2>2. (i - 1) \div UnitLen <= (j - 1) \div UnitLen
    BY <1>2, <2>1, DivStep
  <2> QED
    BY <1>2, <2>1, <2>2 DEF B!UnitOf
<1>4. ASSUME NEW i \in B!Numbers, NEW j \in B!Numbers, B!Ends(i), i < j
      PROVE  B!UnitOf(i) < B!UnitOf(j)
  <2>1. i \in Nat \ {0} /\ j - 1 \in Nat /\ i <= j - 1 /\ i % UnitLen = 0
    BY <1>2, <1>4 DEF B!Numbers, B!Ends
  <2>2. (i - 1) \div UnitLen < i \div UnitLen /\ i \div UnitLen <= (j - 1) \div UnitLen
    BY <1>2, <2>1, DivStep, DivAtMultiple
  <2> QED
    BY <1>2, <2>1, <2>2 DEF B!UnitOf
<1>5. ASSUME NEW i \in B!Numbers
      PROVE  B!UnitOf(i) \in B!Units /\ i \in B!PacketsOf(B!UnitOf(i))
  <2> DEFINE q == (i - 1) \div UnitLen
  <2>1. q \in Nat /\ UnitLen * q <= i - 1 /\ i - 1 < NumUnits * UnitLen
    BY <1>2 DEF B!Numbers
  <2>2. q < NumUnits
    <3> HIDE DEF q
    <3> SUFFICES ASSUME q >= NumUnits PROVE FALSE
      BY <1>2, <2>1
    <3>1. UnitLen * q >= UnitLen * NumUnits
      BY <1>2, <2>1
    <3> QED
      BY <1>2, <2>1, <3>1 DEF B!Numbers
  <2> QED
    BY <1>2, <2>1, <2>2 DEF B!UnitOf, B!Units, B!PacketsOf
<1> QED
  BY <1>2, <1>3, <1>4, <1>5

(* Packets on their way: <<attempt, number>>. *)
BurstPacket == (1 .. Tries) \X B!Numbers

(* What is in the socket, the buffer and the groups. *)
BurstTyped ==
  /\ B!BurstTypeOK
  /\ sock \in Seq(BurstPacket) /\ buf \in Seq(BurstPacket)
  /\ dropped \in Nat /\ swaps \in Nat
  /\ groups \in [B!Units -> SUBSET B!Numbers]
  /\ given \subseteq [unit : B!Units, packets : SUBSET B!Numbers]
  /\ burstPc # "stream" => given = {} /\ \A u \in B!Units : groups[u] = {}

(* What was read off the socket of this attempt's packets. *)
Taken ==
  IF burstPc = "stream"
  THEN {n \in B!Numbers : (\E g \in given : n \in g.packets) \/ n \in groups[B!UnitOf(n)]}
  ELSE B!Readable

(* The packets of this attempt are read in the order they were sent, and   *)
(* those the host sent have been read or are in the socket.                *)
InOrder ==
  /\ \A i \in 1 .. Len(sock) :
       /\ sock[i][1] <= try
       /\ sock[i][1] = try =>
            /\ sock[i][2] <= sentUpTo
            /\ \A j \in 1 .. Len(sock) : i < j /\ sock[j][1] = try => sock[i][2] < sock[j][2]
            /\ \A n \in Taken : n < sock[i][2]
  /\ \A n \in Taken : n <= sentUpTo
  /\ \A n \in 1 .. sentUpTo : n \in Taken \/ \E i \in 1 .. Len(sock) : sock[i] = <<try, n>>

(* A unit is with the decoder, whole, or its end is to come. *)
WholeOrOpen ==
  /\ \A g \in given : g.packets = B!PacketsOf(g.unit)
  /\ \A u \in B!Units : \A n \in groups[u] : ~ B!Ends(n)

(* The inductive invariant: the order and the wholeness hold as long as    *)
(* the network keeps the order.                                            *)
BurstInv ==
  /\ BurstTyped
  /\ B!TilesSeeded
  /\ dropped + swaps = 0 => InOrder /\ WholeOrOpen

(* Nothing was sent yet. *)
LEMMA BurstInitially == ConnectionInit => BurstInv
<1> SUFFICES ASSUME B!BurstInit PROVE BurstInv
  BY DEF ConnectionInit
<1>1. <<>> \in Seq(BurstPacket) /\ Len(<<>>) = 0
  BY EmptySeq
<1>2. BurstTyped
  BY <1>1, UnitFacts, ConnectionAssumption
     DEF B!BurstInit, BurstTyped, B!BurstTypeOK, B!BurstAssumption
<1>3. Taken = {}
  BY DEF B!BurstInit, Taken, B!Readable
<1>4. InOrder /\ WholeOrOpen /\ B!TilesSeeded
  BY <1>1, <1>3 DEF B!BurstInit, InOrder, WholeOrOpen, B!TilesSeeded
<1> QED
  BY <1>2, <1>4 DEF BurstInv

(* What the decoder does not have yet is in its group, in the socket, or   *)
(* to come.                                                                *)
LEMMA InOrderIsWhole ==
  ASSUME BurstInv
  PROVE  B!WholeAcrossTheCut
<1> SUFFICES ASSUME dropped + swaps = 0, burstPc = "stream",
                    NEW u \in B!Units, [unit |-> u, packets |-> B!PacketsOf(u)] \notin given,
                    NEW n \in B!PacketsOf(u)
             PROVE  n \in groups[u] \cup {p[2] : p \in {sock[i] : i \in DOMAIN sock}}
                            \cup sentUpTo + 1 .. NumUnits * UnitLen
  BY DEF BurstInv, WholeOrOpen, B!WholeAcrossTheCut
<1>1. n \in B!Numbers /\ B!UnitOf(n) = u /\ sentUpTo \in Nat /\ NumUnits * UnitLen \in Nat
  BY UnitFacts DEF B!PacketsOf, BurstInv, BurstTyped, B!BurstTypeOK
<1>2. CASE n > sentUpTo
  BY <1>1, <1>2 DEF B!Numbers
<1>3. CASE n \in Taken
  <2>1. CASE n \in groups[u]
    BY <2>1
  <2>2. CASE \E g \in given : n \in g.packets
    <3>1. PICK g \in given : n \in g.packets
      BY <2>2
    <3>2. g \in [unit : B!Units, packets : SUBSET B!Numbers] /\ g.packets = B!PacketsOf(g.unit)
      BY DEF BurstInv, BurstTyped, WholeOrOpen
    <3>3. g.unit = u
      BY <1>1, <3>1, <3>2 DEF B!PacketsOf
    <3>4. g = [unit |-> u, packets |-> B!PacketsOf(u)]
      BY <3>2, <3>3
    <3> QED
      BY <3>1, <3>4
  <2> QED
    BY <1>1, <1>3, <2>1, <2>2 DEF Taken
<1>4. CASE \E i \in 1 .. Len(sock) : sock[i] = <<try, n>>
  <2>1. PICK i \in 1 .. Len(sock) : sock[i] = <<try, n>>
    BY <1>4
  <2>2. i \in DOMAIN sock /\ sock[i][2] = n
    BY <2>1 DEF BurstInv, BurstTyped
  <2> QED
    BY <2>2
<1>5. n \in 1 .. sentUpTo \/ n > sentUpTo
  BY <1>1 DEF B!Numbers
<1> QED
  BY <1>2, <1>3, <1>4, <1>5 DEF BurstInv, InOrder


(* A packet sent joins the end of the socket. *)
LEMMA BurstSends ==
  ASSUME BurstInv, B!HostSends
  PROVE  BurstInv'
<1> DEFINE s == sentUpTo + 1
           p == <<try, s>>
<1> USE DEF B!hostVars, B!handVars
<1>1. /\ sentUpTo' = s /\ p \in BurstPacket /\ s \in B!Numbers
      /\ UNCHANGED <<try, silentHost, intras, buf, burstPc, groups, given, seeded, firs>>
  <2>1. /\ sentUpTo' = s
        /\ UNCHANGED <<try, silentHost, intras, buf, burstPc, groups, given, seeded, firs>>
    BY DEF B!HostSends
  <2>2. try \in 1 .. Tries /\ sentUpTo \in Nat /\ sentUpTo < NumUnits * UnitLen
    BY UnitFacts DEF B!HostSends, BurstInv, BurstTyped, B!BurstTypeOK
  <2>3. s \in B!Numbers
    BY <2>2, UnitFacts DEF B!Numbers
  <2> QED
    BY <2>1, <2>2, <2>3 DEF BurstPacket
<1>2. \/ sock' = Append(sock, p) /\ UNCHANGED <<dropped, swaps>>
      \/ dropped + swaps < MaxDropped /\ dropped' = dropped + 1 /\ UNCHANGED <<sock, swaps>>
      \/ /\ dropped + swaps < MaxDropped /\ sock # <<>> /\ swaps' = swaps + 1
         /\ sock' = Append(SubSeq(sock, 1, Len(sock) - 1), p) \o <<sock[Len(sock)]>>
         /\ UNCHANGED dropped
  BY <1>1 DEF B!HostSends
<1> HIDE DEF p
<1>3. sock' \in Seq(BurstPacket)
  <2>1. sock \in Seq(BurstPacket)
    BY DEF BurstInv, BurstTyped
  <2>2. CASE sock' = Append(sock, p)
    BY <1>1, <2>1, <2>2, AppendProperties
  <2>3. CASE sock' = sock
    BY <2>1, <2>3
  <2>4. CASE sock # <<>> /\ sock' = Append(SubSeq(sock, 1, Len(sock) - 1), p) \o <<sock[Len(sock)]>>
    <3>1. Len(sock) \in Nat /\ Len(sock) # 0 /\ sock[Len(sock)] \in BurstPacket
      BY <2>1, <2>4, LenProperties, EmptySeq
    <3>2. SubSeq(sock, 1, Len(sock) - 1) \in Seq(BurstPacket)
      BY <2>1, <3>1
    <3>3. /\ Append(SubSeq(sock, 1, Len(sock) - 1), p) \in Seq(BurstPacket)
          /\ <<sock[Len(sock)]>> \in Seq(BurstPacket)
      BY <1>1, <3>1, <3>2, AppendProperties
    <3> QED
      BY <2>4, <3>3, ConcatProperties
  <2> QED
    BY <1>2, <2>2, <2>3, <2>4
<1>4. BurstTyped'
  <2>1. dropped' \in Nat /\ swaps' \in Nat /\ dropped' + swaps' \in 0 .. MaxDropped
    <3>1. dropped \in Nat /\ swaps \in Nat /\ dropped + swaps <= MaxDropped /\ MaxDropped \in Nat
      BY ConnectionAssumption DEF BurstInv, BurstTyped, B!BurstTypeOK, B!BurstAssumption
    <3>2. \E d, w \in Nat : dropped' = d /\ swaps' = w /\ d + w <= MaxDropped
      <4>1. CASE UNCHANGED <<dropped, swaps>>
        BY <3>1, <4>1
      <4>2. CASE dropped + swaps < MaxDropped /\ dropped' = dropped + 1 /\ swaps' = swaps
        <5>1. dropped + 1 \in Nat /\ dropped + 1 + swaps <= MaxDropped
          BY <3>1, <4>2
        <5> QED
          BY <3>1, <4>2, <5>1
      <4>3. CASE dropped + swaps < MaxDropped /\ swaps' = swaps + 1 /\ dropped' = dropped
        <5>1. swaps + 1 \in Nat /\ dropped + (swaps + 1) <= MaxDropped
          BY <3>1, <4>3
        <5> QED
          BY <3>1, <4>3, <5>1
      <4> QED
        BY <1>2, <4>1, <4>2, <4>3
    <3>3. PICK d \in Nat, w \in Nat : dropped' = d /\ swaps' = w /\ d + w <= MaxDropped
      BY <3>2
    <3> QED
      BY <3>1, <3>3
  <2>2. sentUpTo' \in 0 .. NumUnits * UnitLen
    BY <1>1, UnitFacts DEF B!Numbers
  <2> QED
    BY <1>1, <1>3, <2>1, <2>2 DEF BurstInv, BurstTyped, B!BurstTypeOK
<1>5. B!TilesSeeded'
  BY <1>1 DEF BurstInv, B!TilesSeeded, B!Intra
<1>6. ASSUME dropped' + swaps' = 0
      PROVE  InOrder' /\ WholeOrOpen'
  <2>1. sock' = Append(sock, p) /\ dropped + swaps = 0
    BY <1>2, <1>6 DEF BurstInv, BurstTyped
  <2>2. WholeOrOpen'
    BY <1>1, <2>1 DEF BurstInv, WholeOrOpen
  <2>3. Taken' = Taken
    BY <1>1 DEF Taken, B!Readable
  <2>4. InOrder
    BY <2>1 DEF BurstInv
  <2>5. /\ sock \in Seq(BurstPacket) /\ Len(sock) \in Nat /\ Len(sock') = Len(sock) + 1
        /\ \A i \in 1 .. Len(sock) : sock'[i] = sock[i] /\ sock[i] \in BurstPacket
        /\ sock'[Len(sock) + 1] = p
    BY <1>1, <2>1, AppendProperties DEF BurstInv, BurstTyped
  <2>6. p[1] = try /\ p[2] = s /\ p = <<try, s>> /\ sentUpTo \in Nat /\ s \in Nat /\ try \in Nat
    BY UnitFacts, ConnectionAssumption DEF p, BurstInv, BurstTyped, B!BurstTypeOK, B!BurstAssumption
  <2>7. \A n \in Taken : n \in Nat /\ n <= sentUpTo
    <3>1. Taken \subseteq Nat
      BY UnitFacts DEF Taken, B!Readable, BurstInv, BurstTyped, B!Numbers, BurstPacket
    <3> QED
      BY <2>4, <3>1 DEF InOrder
  <2>8. \A i \in 1 .. Len(sock') : i \in 1 .. Len(sock) \/ i = Len(sock) + 1
    BY <2>5
  <2> HIDE DEF s
  <2>9. s = sentUpTo + 1
    BY DEF s
  <2>10. ASSUME NEW i \in 1 .. Len(sock'), sock'[i][1] = try
         PROVE  sock'[i][2] <= s /\ \A n \in Taken : n < sock'[i][2]
    <3>1. CASE i = Len(sock) + 1
      BY <2>5, <2>6, <2>7, <2>9, <3>1
    <3>2. CASE i \in 1 .. Len(sock)
      <4>1. sock[i][2] <= sentUpTo /\ \A n \in Taken : n < sock[i][2]
        BY <2>4, <2>5, <2>10, <3>2 DEF InOrder
      <4>2. sock[i][2] \in Nat
        BY <2>5, <3>2, UnitFacts DEF BurstPacket, B!Numbers
      <4> QED
        BY <2>5, <2>6, <2>9, <3>2, <4>1, <4>2
    <3> QED
      BY <2>8, <3>1, <3>2
  <2>11. ASSUME NEW i \in 1 .. Len(sock'), NEW j \in 1 .. Len(sock'), i < j,
                sock'[i][1] = try, sock'[j][1] = try
         PROVE  sock'[i][2] < sock'[j][2]
    <3>1. i \in 1 .. Len(sock)
      BY <2>5, <2>11
    <3>2. CASE j = Len(sock) + 1
      <4>1. sock[i][2] <= sentUpTo /\ sock[i][2] \in Nat
        BY <2>4, <2>5, <2>11, <3>1, UnitFacts DEF InOrder, BurstPacket, B!Numbers
      <4> QED
        BY <2>5, <2>6, <2>9, <3>1, <3>2, <4>1
    <3>3. CASE j \in 1 .. Len(sock)
      BY <2>4, <2>5, <2>11, <3>1, <3>3 DEF InOrder
    <3> QED
      BY <2>8, <3>2, <3>3
  <2>12. ASSUME NEW i \in 1 .. Len(sock') PROVE sock'[i][1] <= try
    <3>1. CASE i = Len(sock) + 1
      BY <2>5, <2>6, <3>1
    <3>2. CASE i \in 1 .. Len(sock)
      BY <2>4, <2>5, <3>2 DEF InOrder
    <3> QED
      BY <2>8, <3>1, <3>2
  <2>13. ASSUME NEW n \in 1 .. s
         PROVE  n \in Taken \/ \E i \in 1 .. Len(sock') : sock'[i] = <<try, n>>
    <3>1. CASE n = s
      BY <2>5, <2>6, <3>1
    <3>2. CASE n \in 1 .. sentUpTo
      <4>1. n \in Taken \/ \E i \in 1 .. Len(sock) : sock[i] = <<try, n>>
        BY <2>4, <3>2 DEF InOrder
      <4>2. \A i \in 1 .. Len(sock) : i \in 1 .. Len(sock')
        BY <2>5
      <4> QED
        BY <2>5, <4>1, <4>2
    <3> QED
      BY <2>6, <2>9, <3>1, <3>2
  <2>14. \A n \in Taken : n <= s
    BY <2>6, <2>7, <2>9
  <2>15. InOrder'
    BY <1>1, <2>3, <2>10, <2>11, <2>12, <2>13, <2>14 DEF InOrder
  <2> QED
    BY <2>2, <2>15
<1> QED
  BY <1>4, <1>5, <1>6 DEF BurstInv



(* The socket without its first packet. *)
LEMMA SocketTail ==
  ASSUME BurstInv, sock # <<>>, sock' = Tail(sock)
  PROVE  /\ sock \in Seq(BurstPacket) /\ sock' \in Seq(BurstPacket)
         /\ Len(sock) \in Nat /\ Len(sock') = Len(sock) - 1 /\ 1 \in 1 .. Len(sock)
         /\ Head(sock) = sock[1] /\ Head(sock) \in BurstPacket
         /\ \A i \in 1 .. Len(sock') : sock'[i] = sock[i + 1] /\ i + 1 \in 1 .. Len(sock)
         /\ \A i \in 1 .. Len(sock) : i = 1 \/ i - 1 \in 1 .. Len(sock')
         /\ \A i \in 1 .. Len(sock) : sock[i] \in BurstPacket
<1>1. sock \in Seq(BurstPacket)
  BY DEF BurstInv, BurstTyped
<1>2. /\ Head(sock) \in BurstPacket /\ sock' \in Seq(BurstPacket) /\ Len(sock') = Len(sock) - 1
      /\ \A i \in 1 .. Len(sock') : sock'[i] = sock[i + 1]
  BY <1>1, HeadTailProperties
<1>3. Len(sock) \in Nat /\ Len(sock) # 0
  BY <1>1, LenProperties, EmptySeq
<1>4. \A i \in 1 .. Len(sock') : i + 1 \in 1 .. Len(sock)
  BY <1>2, <1>3
<1>5. Head(sock) = sock[1] /\ 1 \in 1 .. Len(sock)
  BY <1>1, <1>3
<1>6. \A i \in 1 .. Len(sock) : i = 1 \/ i - 1 \in 1 .. Len(sock')
  BY <1>2, <1>3
<1>7. \A i \in 1 .. Len(sock) : sock[i] \in BurstPacket
  BY <1>1
<1> QED
  BY <1>1, <1>2, <1>3, <1>4, <1>5, <1>6, <1>7

(* The first packet of the socket is read. *)
LEMMA OrderAfterHead ==
  ASSUME BurstInv, InOrder, sock # <<>>, sock' = Tail(sock), UNCHANGED <<try, sentUpTo>>,
         Taken' = Taken \cup {n \in B!Numbers : Head(sock) = <<try, n>>}
  PROVE  InOrder'
<1> USE SocketTail
<1> DEFINE h == Head(sock)
<1>1. /\ h = sock[1] /\ h = <<h[1], h[2]>> /\ h[2] \in B!Numbers
  BY DEF BurstPacket
<1>2. \A n \in Taken' : n \in Taken \/ (sock[1] = <<try, n>> /\ sock[1][1] = try /\ sock[1][2] = n)
  BY <1>1
<1>3. ASSUME NEW i \in 1 .. Len(sock')
      PROVE  /\ sock'[i][1] <= try
             /\ sock'[i][1] = try =>
                  /\ sock'[i][2] <= sentUpTo
                  /\ \A j \in 1 .. Len(sock') :
                       i < j /\ sock'[j][1] = try => sock'[i][2] < sock'[j][2]
                  /\ \A n \in Taken' : n < sock'[i][2]
  <2>1. sock'[i] = sock[i + 1] /\ i + 1 \in 1 .. Len(sock) /\ 1 < i + 1
    BY <1>3
  <2>2. sock'[i][1] <= try /\ (sock'[i][1] = try => sock'[i][2] <= sentUpTo)
    BY <2>1 DEF InOrder
  <2>3. ASSUME NEW j \in 1 .. Len(sock'), i < j, sock'[i][1] = try, sock'[j][1] = try
        PROVE  sock'[i][2] < sock'[j][2]
    <3>1. sock'[j] = sock[j + 1] /\ j + 1 \in 1 .. Len(sock) /\ i + 1 < j + 1
      BY <2>3
    <3> QED
      BY <2>1, <2>3, <3>1 DEF InOrder
  <2>4. ASSUME NEW n \in Taken', sock'[i][1] = try
        PROVE  n < sock'[i][2]
    BY <1>2, <2>1, <2>4 DEF InOrder
  <2> QED
    BY <2>2, <2>3, <2>4
<1>4. ASSUME NEW n \in Taken' PROVE n <= sentUpTo
  BY <1>2, <1>4 DEF InOrder
<1>5. ASSUME NEW n \in 1 .. sentUpTo
      PROVE  n \in Taken' \/ \E i \in 1 .. Len(sock') : sock'[i] = <<try, n>>
  <2>1. CASE n \in Taken
    BY <2>1
  <2>2. CASE \E i \in 1 .. Len(sock) : sock[i] = <<try, n>>
    <3>1. PICK i \in 1 .. Len(sock) : sock[i] = <<try, n>>
      BY <2>2
    <3>2. CASE i = 1
      <4>1. h = <<try, n>> /\ n = h[2]
        BY <1>1, <3>1, <3>2
      <4> QED
        BY <1>1, <4>1
    <3>3. CASE i - 1 \in 1 .. Len(sock')
      <4>1. sock'[i - 1] = sock[i - 1 + 1] /\ i - 1 + 1 = i
        BY <3>3
      <4> QED
        BY <3>1, <3>3, <4>1
    <3> QED
      BY <3>2, <3>3
  <2> QED
    BY <2>1, <2>2 DEF InOrder
<1> QED
  BY <1>3, <1>4, <1>5 DEF InOrder

(* The packets of this attempt's numbers that are in the buffer. *)
LEMMA ReadableIs ==
  ASSUME buf \in Seq(BurstPacket)
  PROVE  /\ B!Readable \subseteq B!Numbers
         /\ \A n \in B!Numbers : n \in B!Readable <=> \E i \in 1 .. Len(buf) : buf[i] = <<try, n>>
<1>1. DOMAIN buf = 1 .. Len(buf) /\ \A i \in DOMAIN buf : buf[i] \in BurstPacket
  OBVIOUS
<1>2. ASSUME NEW i \in DOMAIN buf
      PROVE  buf[i] = <<buf[i][1], buf[i][2]>> /\ buf[i][2] \in B!Numbers
  BY <1>1 DEF BurstPacket
<1>3. \A n : n \in B!Readable <=> \E i \in DOMAIN buf : buf[i][1] = try /\ buf[i][2] = n
  BY DEF B!Readable
<1>4. \A n : (\E i \in DOMAIN buf : buf[i][1] = try /\ buf[i][2] = n)
                <=> \E i \in DOMAIN buf : buf[i] = <<try, n>>
  BY <1>2
<1> QED
  BY <1>1, <1>2, <1>3, <1>4

(* The drain reads a packet into the buffer. *)
LEMMA BurstDrains ==
  ASSUME BurstInv, B!Drain
  PROVE  BurstInv'
<1> DEFINE h == Head(sock)
<1>1. /\ burstPc = "drain" /\ sock # <<>> /\ buf' = Append(buf, h) /\ sock' = Tail(sock)
      /\ UNCHANGED <<try, silentHost, intras, sentUpTo, dropped, swaps, burstPc, groups,
                     given, seeded, firs>>
  BY DEF B!Drain, B!hostVars, B!handVars
<1>2. /\ h \in BurstPacket /\ sock' \in Seq(BurstPacket)
      /\ buf \in Seq(BurstPacket)
  BY <1>1, SocketTail DEF BurstInv, BurstTyped
<1> HIDE DEF h
<1>3. /\ buf' \in Seq(BurstPacket) /\ Len(buf) \in Nat /\ Len(buf') = Len(buf) + 1
      /\ \A i \in 1 .. Len(buf) : buf'[i] = buf[i]
      /\ buf'[Len(buf) + 1] = h
  BY <1>1, <1>2, AppendProperties
<1>4. BurstTyped'
  BY <1>1, <1>2, <1>3 DEF BurstInv, BurstTyped, B!BurstTypeOK
<1>5. B!TilesSeeded' /\ (WholeOrOpen => WholeOrOpen')
  BY <1>1 DEF BurstInv, B!TilesSeeded, WholeOrOpen
<1>6. Taken' = Taken \cup {n \in B!Numbers : h = <<try, n>>}
  <2>1. Taken = B!Readable /\ Taken' = B!Readable'
    BY <1>1 DEF Taken
  <2>2. B!Readable \subseteq B!Numbers
    BY <1>2, ReadableIs
  <2>3. /\ B!Readable' \subseteq B!Numbers
        /\ \A n \in B!Numbers : n \in B!Readable' <=> \E i \in 1 .. Len(buf') : buf'[i] = <<try, n>>
    <3>1. \A i \in 1 .. Len(buf') : buf'[i] \in BurstPacket
      BY <1>3
    <3>2. DOMAIN buf' = 1 .. Len(buf')
      BY <1>3
    <3>3. ASSUME NEW i \in DOMAIN buf'
          PROVE  buf'[i] = <<buf'[i][1], buf'[i][2]>> /\ buf'[i][2] \in B!Numbers
      BY <3>1, <3>2 DEF BurstPacket
    <3>4. \A n : n \in B!Readable' <=> \E i \in DOMAIN buf' : buf'[i][1] = try /\ buf'[i][2] = n
      BY <1>1 DEF B!Readable
    <3> QED
      BY <3>2, <3>3, <3>4
  <2>4. ASSUME NEW n \in B!Numbers
        PROVE  (\E i \in 1 .. Len(buf') : buf'[i] = <<try, n>>)
                 <=> (\E i \in 1 .. Len(buf) : buf[i] = <<try, n>>) \/ h = <<try, n>>
    <3>1. 1 .. Len(buf') = (1 .. Len(buf)) \cup {Len(buf) + 1}
      BY <1>3
    <3> QED
      BY <1>3, <3>1
  <2>5. \A n \in B!Numbers : n \in B!Readable <=> \E i \in 1 .. Len(buf) : buf[i] = <<try, n>>
    BY <1>2, ReadableIs
  <2> QED
    BY <2>1, <2>2, <2>3, <2>4, <2>5
<1>7. InOrder => InOrder'
  BY <1>1, <1>6, OrderAfterHead DEF h
<1> QED
  BY <1>1, <1>4, <1>5, <1>7 DEF BurstInv

(* The end of the drain changes nothing that was read. *)
LEMMA BurstDrained ==
  ASSUME BurstInv, B!DrainEnds
  PROVE  BurstInv'
<1> USE DEF B!DrainEnds, B!hostVars, B!handVars
<1>1. BurstTyped' /\ B!TilesSeeded' /\ (WholeOrOpen => WholeOrOpen')
  BY DEF BurstInv, BurstTyped, B!BurstTypeOK, B!TilesSeeded, WholeOrOpen
<1>2. Taken' = Taken
  BY DEF Taken, B!Readable
<1>3. InOrder => InOrder'
  BY <1>2 DEF InOrder
<1> QED
  BY <1>1, <1>3 DEF BurstInv

(* After a new handshake no packet in the socket is of this attempt. *)
LEMMA BurstStarves ==
  ASSUME BurstInv, B!Starved
  PROVE  BurstInv'
<1> USE DEF B!Starved, B!hostVars, B!handVars
<1>0. <<>> \in Seq(BurstPacket) /\ Len(<<>>) = 0
  BY EmptySeq
<1>1. BurstTyped'
  <2>1. try' \in 1 .. Tries /\ sentUpTo' \in 0 .. NumUnits * UnitLen
    BY UnitFacts, ConnectionAssumption DEF BurstInv, BurstTyped, B!BurstTypeOK, B!BurstAssumption
  <2> QED
    BY <1>0, <2>1 DEF BurstInv, BurstTyped, B!BurstTypeOK
<1>2. B!TilesSeeded' /\ (WholeOrOpen => WholeOrOpen')
  BY DEF BurstInv, B!TilesSeeded, WholeOrOpen
<1>3. ASSUME InOrder PROVE InOrder'
  <2>1. CASE try < Tries
    <3>1. Taken' = {} /\ sentUpTo' = 0
      BY <1>0, <2>1 DEF Taken, B!Readable
    <3>2. \A i \in 1 .. Len(sock) : sock[i][1] \in Nat /\ sock[i][1] <= try
      BY <1>3, ConnectionAssumption
         DEF InOrder, BurstInv, BurstTyped, BurstPacket, B!BurstAssumption
    <3>3. try \in Nat /\ sock' = sock /\ try' = try + 1
      BY <2>1, ConnectionAssumption DEF BurstInv, BurstTyped, B!BurstTypeOK, B!BurstAssumption
    <3>4. \A i \in 1 .. Len(sock') : sock'[i][1] <= try' /\ sock'[i][1] # try'
      BY <3>2, <3>3
    <3>5. \A n \in 1 .. sentUpTo' : FALSE
      BY <3>1
    <3> QED
      BY <3>1, <3>4, <3>5 DEF InOrder
  <2>2. CASE ~ (try < Tries)
    <3>1. Taken' = Taken /\ UNCHANGED <<try, sentUpTo, sock>>
      BY <2>2 DEF Taken, B!Readable
    <3> QED
      BY <1>3, <3>1 DEF InOrder
  <2> QED
    BY <2>1, <2>2
<1> QED
  BY <1>1, <1>2, <1>3 DEF BurstInv


(* What comes before a packet that is read now was read before it. *)
LEMMA EarlierTaken ==
  ASSUME BurstInv, InOrder, NEW m \in B!Numbers, NEW n \in B!Numbers, n < m,
         m \in Taken \/ (sock # <<>> /\ sock[1] = <<try, m>>)
  PROVE  n \in Taken
<1>1. m \in Nat /\ n \in 1 .. m /\ sentUpTo \in Nat
  BY UnitFacts DEF B!Numbers, BurstInv, BurstTyped, B!BurstTypeOK
<1>2. sock \in Seq(BurstPacket) /\ Len(sock) \in Nat /\ (sock # <<>> => 1 \in 1 .. Len(sock))
  <2>1. sock \in Seq(BurstPacket)
    BY DEF BurstInv, BurstTyped
  <2> QED
    BY <2>1, LenProperties, EmptySeq
<1>3. m <= sentUpTo
  <2>1. CASE m \in Taken
    BY <2>1 DEF InOrder
  <2>2. CASE sock # <<>> /\ sock[1] = <<try, m>>
    <3>1. 1 \in 1 .. Len(sock) /\ sock[1][1] = try /\ sock[1][2] = m
      BY <1>2, <2>2
    <3> QED
      BY <3>1 DEF InOrder
  <2> QED
    BY <2>1, <2>2
<1>4. n \in 1 .. sentUpTo
  BY <1>1, <1>3
<1> SUFFICES ASSUME NEW i \in 1 .. Len(sock), sock[i] = <<try, n>> PROVE FALSE
  BY <1>4 DEF InOrder
<1>5. sock[i][1] = try /\ sock[i][2] = n
  OBVIOUS
<1>6. CASE m \in Taken
  <2>1. m < n
    BY <1>5, <1>6 DEF InOrder
  <2> QED
    BY <1>1, <2>1
<1>7. CASE sock # <<>> /\ sock[1] = <<try, m>>
  <2>1. sock[1][1] = try /\ sock[1][2] = m /\ 1 \in 1 .. Len(sock)
    BY <1>2, <1>7
  <2>2. i = 1 \/ 1 < i
    BY <1>2
  <2>3. CASE i = 1
    BY <1>1, <1>5, <2>1, <2>3
  <2>4. CASE 1 < i
    <3>1. m < n
      BY <1>5, <2>1, <2>4 DEF InOrder
    <3> QED
      BY <1>1, <3>1
  <2> QED
    BY <2>2, <2>3, <2>4
<1> QED
  BY <1>6, <1>7

(* What is handed over is whole, and the rest waits in its groups. *)
LEMMA BurstGiven ==
  ASSUME BurstInv, B!HandOver
  PROVE  BurstInv'
<1> DEFINE new == {[unit |-> u, packets |-> B!Grouped[u]] : u \in B!Complete}
<1>1. /\ burstPc = "gather" /\ burstPc' = "stream" /\ given = {}
      /\ given' = new
      /\ groups' = [u \in B!Units |-> IF u \in B!Complete THEN {} ELSE B!Grouped[u]]
      /\ seeded' = {B!TileOf(u) : u \in {v \in B!Complete : B!Intra(v)}}
      /\ firs' = (1 .. NumTiles) \ seeded'
      /\ UNCHANGED <<try, silentHost, intras, sentUpTo, dropped, swaps, sock, buf>>
  BY DEF B!HandOver, B!hostVars, BurstInv, BurstTyped
<1>2. /\ \A u \in B!Units : B!Grouped[u] = B!PacketsOf(u) \cap B!Readable
      /\ B!Complete \subseteq B!Units
      /\ \A u \in B!Units : B!PacketsOf(u) \subseteq B!Numbers
  BY DEF B!Grouped, B!Complete, B!PacketsOf
<1>3. B!Readable \subseteq B!Numbers /\ Taken = B!Readable
  BY <1>1, ReadableIs DEF Taken, BurstInv, BurstTyped
<1>4. BurstTyped'
  <2>1. /\ groups' \in [B!Units -> SUBSET B!Numbers]
        /\ \A u \in B!Units : groups'[u] \subseteq B!PacketsOf(u)
    BY <1>1, <1>2
  <2>2. given' \subseteq [unit : B!Units, packets : SUBSET B!Numbers]
    BY <1>1, <1>2
  <2> QED
    BY <1>1, <2>1, <2>2 DEF BurstInv, BurstTyped, B!BurstTypeOK
<1>5. B!TilesSeeded'
  <2> SUFFICES ASSUME NEW t \in 1 .. NumTiles, t \notin firs'
               PROVE  \E g \in given' : B!TileOf(g.unit) = t /\ (B!Intra(g.unit))'
    BY DEF B!TilesSeeded
  <2>1. PICK v \in B!Complete : B!Intra(v) /\ B!TileOf(v) = t
    BY <1>1
  <2>2. [unit |-> v, packets |-> B!Grouped[v]] \in given'
    BY <1>1
  <2>3. (B!Intra(v))'
    BY <1>1, <2>1 DEF B!Intra
  <2> QED
    BY <2>1, <2>2, <2>3 DEF B!Intra
<1>6. Taken' = Taken
  <2>1. Taken' = {n \in B!Numbers :
                    (\E g \in given' : n \in g.packets) \/ n \in groups'[B!UnitOf(n)]}
    BY <1>1 DEF Taken
  <2>2. ASSUME NEW n \in Taken'
        PROVE  n \in B!Readable
    BY <1>1, <1>2, <2>1, UnitFacts
  <2>3. ASSUME NEW n \in B!Readable
        PROVE  n \in Taken'
    <3>1. n \in B!Numbers /\ B!UnitOf(n) \in B!Units /\ n \in B!Grouped[B!UnitOf(n)]
      BY <1>2, <1>3, UnitFacts
    <3>2. CASE B!UnitOf(n) \in B!Complete
      <4>1. [unit |-> B!UnitOf(n), packets |-> B!Grouped[B!UnitOf(n)]] \in given'
        BY <1>1, <3>2
      <4> QED
        BY <2>1, <3>1, <4>1
    <3>3. CASE B!UnitOf(n) \notin B!Complete
      BY <1>1, <2>1, <3>1, <3>3
    <3> QED
      BY <3>2, <3>3
  <2> QED
    BY <1>3, <2>2, <2>3
<1>7. InOrder => InOrder'
  BY <1>1, <1>6 DEF InOrder
<1>8. ASSUME InOrder PROVE WholeOrOpen'
  <2>1. ASSUME NEW u \in B!Complete PROVE B!Grouped[u] = B!PacketsOf(u)
    <3> SUFFICES ASSUME NEW n \in B!PacketsOf(u) PROVE n \in B!Readable
      BY <1>2
    <3>1. PICK m \in B!Grouped[u] : B!Ends(m)
      BY DEF B!Complete
    <3>2. /\ m \in B!Numbers /\ n \in B!Numbers /\ B!UnitOf(m) = u /\ B!UnitOf(n) = u
          /\ m \in Taken
      BY <1>2, <1>3 DEF B!PacketsOf
    <3>3. m \in Int /\ n \in Int /\ u \in Int
      BY <1>2, <3>2, UnitFacts DEF B!Numbers, B!Units
    <3>4. ~ (m < n)
      BY <3>1, <3>2, <3>3, UnitFacts
    <3>5. n = m \/ n < m
      BY <3>3, <3>4
    <3>6. CASE n < m
      BY <1>3, <1>8, <3>2, <3>6, EarlierTaken
    <3> QED
      BY <1>3, <3>2, <3>5, <3>6
  <2>2. \A g \in given' : g.packets = B!PacketsOf(g.unit)
    BY <1>1, <2>1
  <2>3. ASSUME NEW u \in B!Units, NEW n \in groups'[u] PROVE ~ B!Ends(n)
    BY <1>1, <1>2, <2>3 DEF B!Complete
  <2> QED
    BY <2>2, <2>3 DEF WholeOrOpen
<1> QED
  BY <1>1, <1>4, <1>5, <1>7, <1>8 DEF BurstInv

(* A packet joins its group, which goes to the decoder with its marker. *)
Joined(i, u, all) ==
  /\ u = B!UnitOf(i) /\ all = groups[u] \cup {i}
  /\ Head(sock) = <<try, i>>
  /\ groups' = [groups EXCEPT ![u] = IF \E j \in all : B!Ends(j) THEN {} ELSE all]
  /\ given' = IF /\ \E j \in all : B!Ends(j)
                 /\ ~ \E j, k \in all : \E n \in B!Numbers \ all : j < n /\ n < k
              THEN given \cup {[unit |-> u, packets |-> all]} ELSE given

(* A datagram that is joined to what was taken keeps the whole in one      *)
(* piece.                                                                  *)
LEMMA BurstJoins ==
  ASSUME BurstInv, InOrder, WholeOrOpen, burstPc = "stream", burstPc' = "stream",
         sock # <<>>, NEW i \in B!Numbers, NEW u, NEW all, Joined(i, u, all)
  PROVE  WholeOrOpen' /\ Taken' = Taken \cup {i}
<1> USE DEF Joined
<1>1. /\ u \in B!Units /\ u \in Int /\ i \in Int /\ B!Numbers \subseteq Int
      /\ groups \in [B!Units -> SUBSET B!Numbers]
      /\ \A v \in B!Units : groups[v] \subseteq B!PacketsOf(v)
  BY UnitFacts DEF BurstInv, BurstTyped, B!BurstTypeOK, B!Units, B!Numbers
<1>2. all \subseteq B!PacketsOf(u) /\ all \subseteq B!Numbers
  BY <1>1, UnitFacts DEF B!PacketsOf
<1>3. sock[1] = <<try, i>> /\ 1 \in 1 .. Len(sock)
  <2>1. sock \in Seq(BurstPacket)
    BY DEF BurstInv, BurstTyped
  <2> QED
    BY <2>1, LenProperties, EmptySeq
<1>4. i \notin Taken
  <2> SUFFICES ASSUME i \in Taken PROVE FALSE
    OBVIOUS
  <2>1. sock[1][1] = try /\ sock[1][2] = i
    BY <1>3
  <2>2. i < i
    BY <1>3, <2>1 DEF InOrder
  <2> QED
    BY <1>1, <2>2
<1>5. ASSUME NEW n \in B!Numbers, B!UnitOf(n) = u, n < i
      PROVE  n \in groups[u]
  <2>1. n \in Taken
    BY <1>3, <1>5, EarlierTaken
  <2> SUFFICES ASSUME NEW g \in given, n \in g.packets PROVE FALSE
    BY <1>5, <2>1 DEF Taken
  <2>2. g.packets = B!PacketsOf(g.unit)
    BY DEF WholeOrOpen
  <2>3. g.unit = u
    BY <1>5, <2>2 DEF B!PacketsOf
  <2>4. i \in Taken
    BY <2>2, <2>3 DEF Taken, B!PacketsOf
  <2> QED
    BY <1>4, <2>4
<1>6. \A n \in groups[u] : n < i
  <2> SUFFICES ASSUME NEW n \in groups[u] PROVE n < i
    OBVIOUS
  <2>1. n \in Taken
    BY <1>1 DEF Taken, B!PacketsOf
  <2> QED
    BY <1>3, <2>1 DEF InOrder
<1>7. ASSUME NEW j \in all, NEW k \in all, NEW n \in B!Numbers, j < n, n < k
      PROVE  n \in all
  <2>1. j \in B!Numbers /\ k \in B!Numbers /\ B!UnitOf(j) = u /\ B!UnitOf(k) = u
    BY <1>2 DEF B!PacketsOf
  <2>2. B!UnitOf(n) \in Int /\ j \in Int /\ k \in Int /\ n \in Int
    BY <1>1, <2>1, UnitFacts DEF B!Units
  <2>3. u <= B!UnitOf(n) /\ B!UnitOf(n) <= u
    BY <1>7, <2>1, <2>2, UnitFacts
  <2>4. B!UnitOf(n) = u
    BY <1>1, <2>2, <2>3
  <2>5. n < i
    BY <1>1, <1>6, <1>7, <2>2
  <2> QED
    BY <1>5, <2>4, <2>5
<1>8. ASSUME NEW m \in all, B!Ends(m)
      PROVE  all = B!PacketsOf(u)
  <2>1. m = i
    BY <1>1, <1>8 DEF WholeOrOpen
  <2> SUFFICES ASSUME NEW n \in B!PacketsOf(u) PROVE n \in all
    BY <1>2
  <2>2. n \in B!Numbers /\ B!UnitOf(n) = u /\ n \in Int
    BY <1>1 DEF B!PacketsOf
  <2>3. ~ (i < n)
    BY <1>1, <1>8, <2>1, <2>2, UnitFacts
  <2>4. n = i \/ n < i
    BY <1>1, <2>2, <2>3
  <2> QED
    BY <1>5, <2>2, <2>4
<1>9. CASE \E j \in all : B!Ends(j)
  <2>1. /\ groups' = [groups EXCEPT ![u] = {}]
        /\ given' = given \cup {[unit |-> u, packets |-> all]}
    BY <1>7, <1>9
  <2>2. all = B!PacketsOf(u)
    BY <1>8, <1>9
  <2>3. WholeOrOpen'
    <3>1. \A g \in given' : g.packets = B!PacketsOf(g.unit)
      <4> DEFINE new == [unit |-> u, packets |-> all]
      <4>1. new.unit = u /\ new.packets = all
        OBVIOUS
      <4> HIDE DEF new
      <4>2. \A g \in given' : g \in given \/ g = new
        BY <2>1 DEF new
      <4>3. \A g \in given : g.packets = B!PacketsOf(g.unit)
        BY DEF WholeOrOpen
      <4> QED
        BY <2>2, <4>1, <4>2, <4>3
    <3>2. \A v \in B!Units : groups'[v] \subseteq groups[v]
      BY <1>1, <2>1
    <3> QED
      BY <3>1, <3>2 DEF WholeOrOpen
  <2>4. Taken' = {n \in B!Numbers :
                    (\E g \in given' : n \in g.packets) \/ n \in groups'[B!UnitOf(n)]}
    BY DEF Taken
  <2>5. ASSUME NEW n \in Taken' PROVE n \in Taken \cup {i}
    BY <1>1, <1>2, <2>1, <2>4, UnitFacts DEF Taken, B!PacketsOf
  <2>6. ASSUME NEW n \in Taken \cup {i} PROVE n \in Taken'
    BY <1>1, <2>1, <2>4, UnitFacts DEF Taken
  <2> QED
    BY <2>3, <2>5, <2>6
<1>10. CASE ~ \E j \in all : B!Ends(j)
  <2>1. groups' = [groups EXCEPT ![u] = all] /\ given' = given
    BY <1>10
  <2>2. WholeOrOpen'
    BY <1>1, <1>10, <2>1 DEF WholeOrOpen
  <2>3. Taken' = {n \in B!Numbers :
                    (\E g \in given' : n \in g.packets) \/ n \in groups'[B!UnitOf(n)]}
    BY DEF Taken
  <2>4. ASSUME NEW n \in Taken' PROVE n \in Taken \cup {i}
    BY <1>1, <2>1, <2>3, UnitFacts DEF Taken
  <2>5. ASSUME NEW n \in Taken \cup {i} PROVE n \in Taken'
    BY <1>1, <2>1, <2>3, UnitFacts DEF Taken
  <2> QED
    BY <2>2, <2>4, <2>5
<1> QED
  BY <1>9, <1>10

(* A packet of the stream is skipped or joins. *)
LEMMA BurstStreams ==
  ASSUME BurstInv, B!Stream
  PROVE  BurstInv'
<1>1. /\ burstPc = "stream" /\ burstPc' = "stream" /\ sock # <<>> /\ sock' = Tail(sock)
      /\ UNCHANGED <<try, silentHost, intras, sentUpTo, dropped, swaps, buf, seeded, firs>>
  BY DEF B!Stream, B!hostVars
<1>2. CASE Head(sock)[1] # try /\ UNCHANGED <<groups, given>>
  <2>1. BurstTyped' /\ B!TilesSeeded' /\ (WholeOrOpen => WholeOrOpen')
    BY <1>1, <1>2, SocketTail
       DEF BurstInv, BurstTyped, B!BurstTypeOK, B!TilesSeeded, WholeOrOpen, B!Intra
  <2>2. Taken' = Taken /\ {n \in B!Numbers : Head(sock) = <<try, n>>} = {}
    BY <1>1, <1>2 DEF Taken
  <2>3. InOrder => InOrder'
    BY <1>1, <2>2, OrderAfterHead
  <2> QED
    BY <1>1, <2>1, <2>3 DEF BurstInv
<1>3. ASSUME NEW i \in B!Numbers, NEW u, NEW all, Joined(i, u, all)
      PROVE  BurstInv'
  <2>1. /\ u \in B!Units /\ groups \in [B!Units -> SUBSET B!Numbers]
        /\ \A v \in B!Units : groups[v] \subseteq B!PacketsOf(v)
        /\ i \in B!PacketsOf(u)
    BY <1>3, UnitFacts DEF Joined, BurstInv, BurstTyped, B!BurstTypeOK
  <2>2. all \subseteq B!PacketsOf(u) /\ all \subseteq B!Numbers
    BY <1>3, <2>1 DEF Joined
  <2>3. /\ groups' \in [B!Units -> SUBSET B!Numbers]
        /\ \A v \in B!Units : groups'[v] \subseteq B!PacketsOf(v)
    BY <1>3, <2>1, <2>2 DEF Joined
  <2>4. given' \subseteq [unit : B!Units, packets : SUBSET B!Numbers] /\ given \subseteq given'
    BY <1>3, <2>1, <2>2 DEF BurstInv, BurstTyped, Joined
  <2>5. BurstTyped'
    BY <1>1, <2>3, <2>4, SocketTail DEF BurstInv, BurstTyped, B!BurstTypeOK
  <2>6. B!TilesSeeded'
    BY <1>1, <2>4 DEF BurstInv, B!TilesSeeded, B!Intra
  <2>7. ASSUME InOrder, WholeOrOpen PROVE InOrder' /\ WholeOrOpen'
    <3>1. WholeOrOpen' /\ Taken' = Taken \cup {i}
      BY <1>1, <1>3, <2>7, BurstJoins
    <3>2. {n \in B!Numbers : Head(sock) = <<try, n>>} = {i}
      BY <1>3 DEF Joined
    <3> QED
      BY <1>1, <2>7, <3>1, <3>2, OrderAfterHead
  <2> QED
    BY <1>1, <2>5, <2>6, <2>7 DEF BurstInv
<1> QED
  BY <1>2, <1>3 DEF B!Stream, Joined

(* Each step keeps the order. *)
LEMMA BurstStep ==
  ASSUME BurstInv, [B!BurstNext]_burstVars
  PROVE  BurstInv'
<1>1. ASSUME UNCHANGED burstVars PROVE BurstInv'
  <2> USE <1>1 DEF burstVars
  <2>1. BurstTyped' /\ B!TilesSeeded' /\ (WholeOrOpen => WholeOrOpen')
    BY DEF BurstInv, BurstTyped, B!BurstTypeOK, B!TilesSeeded, B!Intra, WholeOrOpen
  <2>2. Taken' = Taken
    BY DEF Taken, B!Readable
  <2>3. InOrder => InOrder'
    BY <2>2 DEF InOrder
  <2> QED
    BY <2>1, <2>3 DEF BurstInv
<1> QED
  BY <1>1, BurstSends, BurstDrains, BurstDrained, BurstGiven, BurstStarves, BurstStreams
     DEF B!BurstNext

(* However the first burst and the stream after it are cut, the decoder    *)
(* gets every unit whole as long as the network keeps the order, and every *)
(* tile starts from an intra or is asked for one (gather_initial_burst,    *)
(* _drain_socket_into, the seeding of _pending_groups).                    *)
THEOREM BurstHandedOver == ConnectionSpec => []BurstHandsOver
<1>1. BurstInv /\ [ConnectionNext]_allVars => BurstInv'
  BY EachView, BurstStep
<1>2. BurstInv => BurstHandsOver
  BY InOrderIsWhole DEF BurstInv, BurstTyped, BurstHandsOver
<1> QED
  BY BurstInitially, <1>1, <1>2, PTL DEF ConnectionSpec

-----------------------------------------------------------------------------
(* The sound *)

(* Chunks and times, and what bounds them. *)
AudioTyped ==
  /\ clock \in Nat /\ cutoff \in Int /\ fed \in 0 .. MaxFeeds
  /\ feeding \in {A!Silence, fed} /\ feedAt \in Nat /\ feedAt <= clock
  /\ heard \in 0 .. A!Queued /\ head \in 0 .. A!Queued /\ known \in 0 .. A!Queued
  /\ headOff \in 0 .. ChunkLen - 1 /\ headAt \in Nat
  /\ waiting \in Seq(Nat \X Nat) /\ Len(waiting) <= QueueCap
  /\ cbPc \in {"idle", "drop", "fill", "copy"} /\ idx \in 0 .. Block
  /\ stream \in {"made", "running", "over"}
  /\ stopPc \in {"none", "device", "clear", "done"}

(* What waits was queued in its order and in time, and comes after what    *)
(* was heard and after the chunk being played; among what was there when   *)
(* the late ones were dropped, none is late.                               *)
QueueOrdered ==
  /\ \A i \in 1 .. Len(waiting) :
       /\ heard < waiting[i][1] /\ head < waiting[i][1] /\ waiting[i][1] <= A!Queued
       /\ waiting[i][2] <= clock /\ (feeding # A!Silence => waiting[i][2] <= feedAt)
  /\ \A i, j \in 1 .. Len(waiting) :
       i < j => waiting[i][1] < waiting[j][1] /\ waiting[i][2] <= waiting[j][2]
  /\ cbPc \in {"fill", "copy"} =>
       \A i \in 1 .. Len(waiting) : waiting[i][1] <= known => waiting[i][2] >= cutoff

(* The chunk being played: one that was begun has been played up to its    *)
(* offset, and one that was not is about to be.                            *)
HeadPlaying ==
  /\ cbPc = "copy" /\ head # A!Silence /\ headOff = 0 /\ head <= known => headAt >= cutoff
  /\ head # A!Silence /\ headOff = 0 => cbPc = "copy"
  /\ head # A!Silence => \/ head = heard /\ headOff = heardOff
                         \/ head > heard /\ headOff = 0

(* The callback runs in a running stream only, and what was stopped takes  *)
(* on one chunk at the most.                                               *)
StopKeepsLittle ==
  /\ cbPc # "idle" => stream = "running"
  /\ cbPc = "copy" => idx < Block
  /\ stopPc # "none" => closed
  /\ stopPc = "done" => Len(waiting) <= 1 /\ (feeding # A!Silence => Len(waiting) = 0)
  /\ stopPc = "done" /\ stream # "running" => head = A!Silence

(* The inductive invariant. *)
AudioInv == AudioTyped /\ QueueOrdered /\ HeadPlaying /\ StopKeepsLittle

(* The constants of the sound are natural numbers. *)
LEMMA AudioConstants ==
  /\ QueueCap \in Nat \ {0} /\ ChunkLen \in Nat \ {0} /\ Block \in Nat \ {0}
  /\ Late \in Nat /\ MaxFeeds \in Nat
BY ConnectionAssumption DEF A!AudioAssumption

(* Nothing waits and nothing was heard. *)
LEMMA AudioInitially == ConnectionInit => AudioInv
<1> SUFFICES ASSUME A!AudioInit PROVE AudioInv
  BY DEF ConnectionInit
<1> USE DEF A!AudioInit, A!Silence
<1>1. <<>> \in Seq(Nat \X Nat) /\ Len(<<>>) = 0
  BY EmptySeq
<1>2. A!Queued = 0
  BY DEF A!Queued
<1>3. AudioTyped
  BY <1>1, <1>2, AudioConstants DEF AudioTyped
<1> QED
  BY <1>1, <1>3 DEF AudioInv, QueueOrdered, HeadPlaying, StopKeepsLittle

(* The invariant is strong enough. *)
LEMMA AudioHolds ==
  ASSUME AudioInv
  PROVE  SoundInOrder
<1> USE AudioConstants DEF AudioInv, AudioTyped, A!Silence
<1>1. A!Queued \in 0 .. MaxFeeds /\ DOMAIN waiting = 1 .. Len(waiting)
  BY DEF A!Queued
<1>2. A!AudioTypeOK
  BY <1>1 DEF A!AudioTypeOK
<1>3. \A i \in 1 .. Len(waiting) : waiting[i][1] \in Nat
  OBVIOUS
<1>4. /\ \A i, j \in DOMAIN waiting : i < j => waiting[i][1] < waiting[j][1]
      /\ \A i \in DOMAIN waiting : waiting[i][1] > heard /\ waiting[i][1] > head
  BY <1>1, <1>3 DEF QueueOrdered
<1> QED
  BY <1>2, <1>4 DEF SoundInOrder, A!SoundInOrder, HeadPlaying, StopKeepsLittle

(* The queue loses its first n chunks. *)
LEMMA FrontGoes ==
  ASSUME AudioInv, NEW n \in 0 .. Len(waiting),
         NEW rest, rest = SubSeq(waiting, n + 1, Len(waiting))
  PROVE  /\ rest \in Seq(Nat \X Nat) /\ Len(waiting) \in Nat /\ Len(rest) = Len(waiting) - n
         /\ \A i \in 1 .. Len(rest) : n + i \in 1 .. Len(waiting) /\ rest[i] = waiting[n + i]
<1>1. waiting \in Seq(Nat \X Nat) /\ Len(waiting) \in Nat /\ n \in Nat /\ n <= Len(waiting)
  BY DEF AudioInv, AudioTyped
<1>2. rest \in Seq(Nat \X Nat) /\ Len(rest) = Len(waiting) - n
  BY <1>1
<1>3. \A i \in 1 .. Len(rest) : n + i \in 1 .. Len(waiting) /\ rest[i] = waiting[n + i]
  BY <1>1, <1>2
<1> QED
  BY <1>1, <1>2, <1>3


(* The clock only goes on. *)
LEMMA AudioTimes ==
  ASSUME AudioInv, A!Time
  PROVE  AudioInv'
<1> USE AudioConstants DEF A!Time, A!device, A!callback, A!feedVars
<1>1. PICK c \in Nat : c = clock' /\ clock <= c
  BY DEF AudioInv, AudioTyped
<1>2. A!Queued' = A!Queued
  BY DEF A!Queued
<1>3. AudioTyped'
  <2>1. feedAt \in Nat /\ clock \in Nat /\ feedAt <= clock
    BY DEF AudioInv, AudioTyped
  <2>2. feedAt' <= clock' /\ clock' \in Nat
    BY <1>1, <2>1
  <2> HIDE DEF A!Time
  <2>3. UNCHANGED <<waiting, head, headOff, headAt, stream, closed, stopPc, feeding, feedAt, fed,
                    cbPc, idx, cutoff, known, heard, heardOff>>
    BY DEF A!Time
  <2> QED
    BY <1>2, <2>2, <2>3 DEF AudioInv, AudioTyped
<1>4. QueueOrdered'
  <2>1. waiting \in Seq(Nat \X Nat) /\ clock \in Nat
    BY DEF AudioInv, AudioTyped
  <2>2. \A i \in 1 .. Len(waiting) : waiting[i][2] \in Nat /\ waiting[i][2] <= clock
    BY <2>1 DEF AudioInv, QueueOrdered
  <2>3. \A i \in 1 .. Len(waiting) : waiting[i][2] <= clock'
    BY <1>1, <2>1, <2>2
  <2> QED
    BY <1>2, <2>3 DEF AudioInv, QueueOrdered
<1> QED
  BY <1>3, <1>4 DEF AudioInv, HeadPlaying, StopKeepsLittle

(* A chunk that is taken on comes after all in the queue. *)
LEMMA AudioTaken ==
  ASSUME AudioInv, A!FeedTest
  PROVE  AudioInv'
<1> USE AudioConstants DEF A!FeedTest, A!device, A!callback, A!Silence
<1>1. fed \in Nat /\ fed + 1 \in 1 .. MaxFeeds /\ fed' = fed + 1 /\ feeding' = fed + 1
  BY DEF AudioInv, AudioTyped
<1>2. A!Queued = fed /\ A!Queued' = fed
  BY <1>1 DEF A!Queued
<1>3. AudioTyped'
  <2>1. fed' \in 0 .. MaxFeeds /\ feeding' \in {0, fed'}
    BY <1>1
  <2>2. heard' \in 0 .. A!Queued' /\ head' \in 0 .. A!Queued' /\ known' \in 0 .. A!Queued'
    BY <1>2 DEF AudioInv, AudioTyped
  <2>3. feedAt' \in Nat /\ feedAt' <= clock'
    BY DEF AudioInv, AudioTyped
  <2> QED
    BY <2>1, <2>2, <2>3 DEF AudioInv, AudioTyped
<1>4. QueueOrdered'
  BY <1>2 DEF AudioInv, QueueOrdered
<1> QED
  BY <1>3, <1>4 DEF AudioInv, HeadPlaying, StopKeepsLittle

(* It joins the end of the queue, which may lose its first. *)
LEMMA AudioQueued ==
  ASSUME AudioInv, A!FeedAppend
  PROVE  AudioInv'
<1> USE AudioConstants DEF A!Silence
<1> DEFINE room == IF Len(waiting) >= QueueCap THEN Tail(waiting) ELSE waiting
           n == IF Len(waiting) >= QueueCap THEN 1 ELSE 0
<1>1. PICK now \in feedAt .. clock : waiting' = Append(room, <<feeding, now>>)
  BY DEF A!FeedAppend
<1>2. /\ feeding # 0 /\ feeding' = 0
      /\ UNCHANGED <<head, headOff, headAt, stream, closed, stopPc, cbPc, idx, cutoff, known,
                     clock, fed, feedAt, heard, heardOff>>
  BY DEF A!FeedAppend, A!device, A!callback
<1>3. /\ feeding = fed /\ fed \in 1 .. MaxFeeds /\ A!Queued = fed - 1 /\ A!Queued' = fed
      /\ feedAt \in Nat /\ clock \in Nat /\ feedAt <= clock
  BY <1>2 DEF AudioInv, AudioTyped, A!Queued
<1>4. waiting \in Seq(Nat \X Nat) /\ Len(waiting) \in Nat /\ Len(waiting) <= QueueCap
  BY DEF AudioInv, AudioTyped
<1>5. /\ room \in Seq(Nat \X Nat) /\ Len(room) = Len(waiting) - n /\ n \in {0, 1}
      /\ Len(room) < QueueCap
      /\ \A i \in 1 .. Len(room) : n + i \in 1 .. Len(waiting) /\ room[i] = waiting[n + i]
  <2>1. CASE Len(waiting) >= QueueCap
    <3>1. waiting # <<>>
      BY <1>4, <2>1, EmptySeq
    <3>2. /\ Tail(waiting) \in Seq(Nat \X Nat) /\ Len(Tail(waiting)) = Len(waiting) - 1
          /\ \A i \in 1 .. Len(Tail(waiting)) : Tail(waiting)[i] = waiting[i + 1]
      BY <1>4, <3>1, HeadTailProperties
    <3>3. \A i \in 1 .. Len(Tail(waiting)) : i + 1 \in 1 .. Len(waiting) /\ i + 1 = 1 + i
      BY <1>4, <3>2
    <3> QED
      BY <1>4, <2>1, <3>2, <3>3
  <2>2. CASE ~ (Len(waiting) >= QueueCap)
    BY <1>4, <2>2
  <2> QED
    BY <2>1, <2>2
<1> HIDE DEF room, n
<1> DEFINE new == <<fed, now>>
<1>6. /\ new \in Nat \X Nat /\ new[1] = fed /\ new[2] = now /\ now \in Nat
      /\ feedAt <= now /\ now <= clock
  BY <1>3
<1>7. /\ waiting' \in Seq(Nat \X Nat) /\ Len(room) \in Nat /\ Len(waiting') = Len(room) + 1
      /\ \A i \in 1 .. Len(room) : waiting'[i] = room[i]
      /\ waiting'[Len(room) + 1] = new
  <2>1. waiting' = Append(room, new)
    BY <1>1, <1>3
  <2>2. new \in Nat \X Nat
    BY <1>6
  <2> HIDE DEF new
  <2> QED
    BY <1>5, <2>1, <2>2, AppendProperties
<1> HIDE DEF new
<1>8. \A i \in 1 .. Len(waiting') : i \in 1 .. Len(room) \/ i = Len(room) + 1
  BY <1>7
<1>9. \A i \in 1 .. Len(room) : waiting'[i] = waiting[n + i] /\ n + i \in 1 .. Len(waiting)
  BY <1>5, <1>7
<1>10. \A k \in 1 .. Len(waiting) :
         /\ heard < waiting[k][1] /\ head < waiting[k][1] /\ waiting[k][1] <= fed - 1
         /\ waiting[k][2] <= clock /\ waiting[k][2] <= feedAt
         /\ waiting[k][1] \in Nat /\ waiting[k][2] \in Nat
  BY <1>2, <1>3, <1>4 DEF AudioInv, QueueOrdered
<1>11. heard \in 0 .. fed - 1 /\ head \in 0 .. fed - 1 /\ known \in 0 .. fed - 1
  BY <1>3 DEF AudioInv, AudioTyped
<1>12. AudioTyped'
  <2>1. heard' \in 0 .. A!Queued' /\ head' \in 0 .. A!Queued' /\ known' \in 0 .. A!Queued'
    <3>1. heard \in 0 .. fed /\ head \in 0 .. fed /\ known \in 0 .. fed
      BY <1>3, <1>11
    <3> QED
      BY <1>2, <1>3, <3>1
  <2>2. Len(waiting') <= QueueCap
    BY <1>5, <1>7
  <2>3. fed \in 0 .. MaxFeeds
    BY <1>3
  <2> QED
    BY <1>2, <1>3, <1>7, <2>1, <2>2, <2>3 DEF AudioInv, AudioTyped
<1>13. QueueOrdered'
  <2>1. ASSUME NEW i \in 1 .. Len(waiting')
        PROVE  /\ heard < waiting'[i][1] /\ head < waiting'[i][1] /\ waiting'[i][1] <= fed
               /\ waiting'[i][2] <= clock
    <3>1. CASE i \in 1 .. Len(room)
      BY <1>3, <1>9, <1>10, <3>1
    <3>2. CASE i = Len(room) + 1
      BY <1>3, <1>6, <1>7, <1>11, <3>2
    <3> QED
      BY <1>8, <3>1, <3>2
  <2>2. ASSUME NEW i \in 1 .. Len(waiting'), NEW j \in 1 .. Len(waiting'), i < j
        PROVE  waiting'[i][1] < waiting'[j][1] /\ waiting'[i][2] <= waiting'[j][2]
    <3>1. i \in 1 .. Len(room)
      BY <1>7, <2>2
    <3>2. CASE j \in 1 .. Len(room)
      <4>1. n + i < n + j
        BY <1>5, <2>2, <3>1, <3>2
      <4> QED
        BY <1>9, <3>1, <3>2, <4>1 DEF AudioInv, QueueOrdered
    <3>3. CASE j = Len(room) + 1
      <4>1. waiting'[i][1] <= fed - 1 /\ waiting'[i][1] \in Nat
            /\ waiting'[i][2] <= feedAt /\ waiting'[i][2] \in Nat
        BY <1>9, <1>10, <3>1
      <4>2. waiting'[j][1] = fed /\ waiting'[j][2] = now
        BY <1>6, <1>7, <3>3
      <4> QED
        BY <1>3, <1>6, <4>1, <4>2
    <3> QED
      BY <1>8, <3>2, <3>3
  <2>3. ASSUME cbPc \in {"fill", "copy"}, NEW i \in 1 .. Len(waiting'), waiting'[i][1] <= known
        PROVE  waiting'[i][2] >= cutoff
    <3>1. CASE i \in 1 .. Len(room)
      BY <1>9, <2>3, <3>1 DEF AudioInv, QueueOrdered
    <3>2. CASE i = Len(room) + 1
      BY <1>3, <1>6, <1>7, <1>11, <2>3, <3>2
    <3> QED
      BY <1>8, <3>1, <3>2
  <2> QED
    BY <1>2, <1>3, <2>1, <2>2, <2>3 DEF QueueOrdered
<1>14. StopKeepsLittle'
  <2>1. stopPc = "done" => Len(waiting') <= 1
    <3>1. stopPc = "done" => Len(waiting) = 0
      BY <1>2 DEF AudioInv, StopKeepsLittle
    <3> QED
      BY <1>5, <1>7, <3>1
  <2> QED
    BY <1>2, <2>1 DEF AudioInv, StopKeepsLittle
<1> QED
  BY <1>2, <1>12, <1>13, <1>14 DEF AudioInv, HeadPlaying


(* A callback begins with nothing played. *)
LEMMA AudioCalled ==
  ASSUME AudioInv, A!Callback
  PROVE  AudioInv'
<1> USE AudioConstants DEF A!Callback, A!device, A!feedVars
<1>1. cutoff' \in Int /\ idx' = 0 /\ cbPc' = "drop"
  BY DEF AudioInv, AudioTyped
<1>2. A!Queued' = A!Queued
  BY DEF A!Queued
<1> QED
  BY <1>1, <1>2
     DEF AudioInv, AudioTyped, QueueOrdered, HeadPlaying, StopKeepsLittle, A!Silence

(* Times ascend, so that what stays is not late. *)
LEMMA AudioDrops ==
  ASSUME AudioInv, A!DropLate
  PROVE  AudioInv'
<1> USE AudioConstants DEF A!Silence
<1>1. PICK n \in 0 .. Len(waiting) :
        /\ \A i \in 1 .. n : ~ A!Fresh(waiting[i])
        /\ n < Len(waiting) => A!Fresh(waiting[n + 1])
        /\ waiting' = SubSeq(waiting, n + 1, Len(waiting))
  BY DEF A!DropLate
<1>2. /\ cbPc = "drop" /\ cbPc' = "fill" /\ known' = A!Queued /\ A!Queued' = A!Queued
      /\ UNCHANGED <<head, headOff, headAt, stream, closed, stopPc, feeding, feedAt, fed,
                     idx, cutoff, clock, heard, heardOff>>
  BY DEF A!DropLate, A!device, A!feedVars, A!Queued
<1>3. /\ waiting' \in Seq(Nat \X Nat) /\ Len(waiting) \in Nat /\ Len(waiting') = Len(waiting) - n
      /\ \A i \in 1 .. Len(waiting') : n + i \in 1 .. Len(waiting) /\ waiting'[i] = waiting[n + i]
  BY <1>1, FrontGoes
<1>4. AudioTyped'
  <2>1. Len(waiting') <= QueueCap /\ A!Queued \in 0 .. A!Queued
    BY <1>3 DEF AudioInv, AudioTyped, A!Queued
  <2> QED
    BY <1>2, <1>3, <2>1 DEF AudioInv, AudioTyped
<1>5. QueueOrdered'
  <2>1. \A i \in 1 .. Len(waiting') :
          /\ heard < waiting'[i][1] /\ head < waiting'[i][1] /\ waiting'[i][1] <= A!Queued
          /\ waiting'[i][2] <= clock /\ (feeding # A!Silence => waiting'[i][2] <= feedAt)
    BY <1>3 DEF AudioInv, QueueOrdered
  <2>2. ASSUME NEW i \in 1 .. Len(waiting'), NEW j \in 1 .. Len(waiting'), i < j
        PROVE  waiting'[i][1] < waiting'[j][1] /\ waiting'[i][2] <= waiting'[j][2]
    <3>1. n + i < n + j
      BY <1>3, <2>2
    <3> QED
      BY <1>3, <3>1 DEF AudioInv, QueueOrdered
  <2>3. ASSUME NEW i \in 1 .. Len(waiting')
        PROVE  waiting'[i][2] >= cutoff
    <3>1. n < Len(waiting) /\ n + 1 \in 1 .. Len(waiting) /\ n + i \in 1 .. Len(waiting)
          /\ (n + 1 = n + i \/ n + 1 < n + i)
      BY <1>3
    <3>2. waiting \in Seq(Nat \X Nat)
      BY DEF AudioInv, AudioTyped
    <3>3. waiting[n + 1][2] >= cutoff /\ waiting[n + 1][2] \in Nat /\ waiting[n + i][2] \in Nat
      <4>1. A!Fresh(waiting[n + 1])
        BY <1>1, <3>1
      <4>2. waiting[n + 1] \in Nat \X Nat /\ waiting[n + i] \in Nat \X Nat
        BY <3>1, <3>2
      <4> QED
        BY <4>1, <4>2 DEF A!Fresh
    <3>4. waiting[n + 1][2] <= waiting[n + i][2]
      BY <3>1, <3>3 DEF AudioInv, QueueOrdered
    <3>5. cutoff \in Int
      BY DEF AudioInv, AudioTyped
    <3> QED
      BY <1>3, <3>3, <3>4, <3>5
  <2> QED
    BY <1>2, <2>1, <2>2, <2>3 DEF QueueOrdered
<1>6. StopKeepsLittle'
  BY <1>2, <1>3 DEF AudioInv, StopKeepsLittle
<1> QED
  BY <1>2, <1>4, <1>5, <1>6 DEF AudioInv, HeadPlaying

(* The first chunk of the queue is begun, if none is being played. *)
LEMMA AudioBegins ==
  ASSUME AudioInv, A!TakeHead
  PROVE  AudioInv'
<1> USE AudioConstants DEF A!Silence
<1>1. /\ cbPc = "fill" /\ idx < Block /\ cbPc' = (IF head' = 0 THEN "idle" ELSE "copy")
      /\ A!Queued' = A!Queued
      /\ UNCHANGED <<stream, closed, stopPc, feeding, feedAt, fed, idx, cutoff, known, clock,
                     heard, heardOff>>
  BY DEF A!TakeHead, A!device, A!feedVars, A!Queued
<1>2. CASE head # 0 \/ waiting = <<>>
  <2>1. UNCHANGED <<waiting, head, headOff, headAt>>
    BY <1>2 DEF A!TakeHead
  <2> QED
    BY <1>1, <2>1 DEF AudioInv, AudioTyped, QueueOrdered, HeadPlaying, StopKeepsLittle
<1>3. CASE ~ (head # 0 \/ waiting = <<>>)
  <2>1. /\ head' = Head(waiting)[1] /\ headAt' = Head(waiting)[2] /\ headOff' = 0
        /\ waiting' = Tail(waiting) /\ waiting # <<>>
    BY <1>3 DEF A!TakeHead
  <2>2. waiting \in Seq(Nat \X Nat) /\ Len(waiting) \in Nat /\ Len(waiting) # 0
    BY <2>1, LenProperties, EmptySeq DEF AudioInv, AudioTyped
  <2>3. /\ Head(waiting) = waiting[1] /\ 1 \in 1 .. Len(waiting)
        /\ waiting[1][1] \in Nat /\ waiting[1][2] \in Nat
    BY <2>2
  <2>4. /\ waiting' \in Seq(Nat \X Nat) /\ Len(waiting') = Len(waiting) - 1
        /\ \A i \in 1 .. Len(waiting') : 1 + i \in 1 .. Len(waiting) /\ waiting'[i] = waiting[1 + i]
    <3>1. /\ Tail(waiting) \in Seq(Nat \X Nat) /\ Len(Tail(waiting)) = Len(waiting) - 1
          /\ \A i \in 1 .. Len(Tail(waiting)) : Tail(waiting)[i] = waiting[i + 1]
      BY <2>1, <2>2, HeadTailProperties
    <3>2. \A i \in 1 .. Len(Tail(waiting)) : i + 1 \in 1 .. Len(waiting) /\ i + 1 = 1 + i
      BY <2>2, <3>1
    <3> QED
      BY <2>1, <3>1, <3>2
  <2>5. /\ heard < waiting[1][1] /\ waiting[1][1] <= A!Queued /\ heard \in Nat /\ A!Queued \in Nat
        /\ (waiting[1][1] <= known => waiting[1][2] >= cutoff)
    BY <1>1, <2>3 DEF AudioInv, AudioTyped, QueueOrdered, A!Queued
  <2>6. AudioTyped'
    <3>1. head' \in 0 .. A!Queued' /\ headAt' \in Nat /\ headOff' \in 0 .. ChunkLen - 1
      BY <1>1, <2>1, <2>3, <2>5
    <3>2. Len(waiting') <= QueueCap
      BY <2>2, <2>4 DEF AudioInv, AudioTyped
    <3> QED
      BY <1>1, <2>4, <3>1, <3>2 DEF AudioInv, AudioTyped
  <2>7. QueueOrdered'
    <3>1. ASSUME NEW i \in 1 .. Len(waiting')
          PROVE  /\ heard < waiting'[i][1] /\ waiting[1][1] < waiting'[i][1]
                 /\ waiting'[i][1] <= A!Queued
                 /\ waiting'[i][2] <= clock /\ (feeding # A!Silence => waiting'[i][2] <= feedAt)
      <4>1. 1 < 1 + i
        BY <2>2, <2>4
      <4> QED
        BY <2>3, <2>4, <4>1 DEF AudioInv, QueueOrdered
    <3>2. ASSUME NEW i \in 1 .. Len(waiting'), NEW j \in 1 .. Len(waiting'), i < j
          PROVE  waiting'[i][1] < waiting'[j][1] /\ waiting'[i][2] <= waiting'[j][2]
      <4>1. 1 + i < 1 + j
        BY <2>2, <2>4, <3>2
      <4> QED
        BY <2>4, <4>1 DEF AudioInv, QueueOrdered
    <3>3. head' = waiting[1][1] /\ head' # 0
      BY <2>1, <2>3, <2>5
    <3>4. \A i \in 1 .. Len(waiting') : waiting'[i][1] <= known => waiting'[i][2] >= cutoff
      BY <1>1, <2>4 DEF AudioInv, QueueOrdered
    <3> QED
      BY <1>1, <3>1, <3>2, <3>3, <3>4 DEF QueueOrdered
  <2>8. HeadPlaying'
    <3>1. head' > heard /\ head' # 0 /\ (head' <= known => headAt' >= cutoff)
      BY <2>1, <2>3, <2>5
    <3> QED
      BY <1>1, <2>1, <3>1 DEF HeadPlaying
  <2>9. StopKeepsLittle'
    <3>1. stream = "running" /\ cbPc' = "copy" /\ Len(waiting') <= Len(waiting)
      BY <1>1, <2>1, <2>2, <2>3, <2>4, <2>5 DEF AudioInv, StopKeepsLittle
    <3> QED
      BY <1>1, <2>2, <2>4, <3>1 DEF AudioInv, StopKeepsLittle
  <2> QED
    BY <2>6, <2>7, <2>8, <2>9 DEF AudioInv
<1> QED
  BY <1>2, <1>3

(* The chunk is played on, up to its end at the most. *)
LEMMA AudioCopies ==
  ASSUME AudioInv, A!CopyHead
  PROVE  AudioInv'
<1> USE AudioConstants DEF A!Silence
<1>1. /\ cbPc = "copy" /\ A!Queued' = A!Queued
      /\ UNCHANGED <<waiting, headAt, closed, stopPc, feeding, feedAt, fed, cutoff, known, clock>>
  BY DEF A!CopyHead, A!feedVars, A!Queued
<1>2. CASE head = 0
  <2>1. cbPc' = "idle" /\ stream' = "over" /\ UNCHANGED <<head, headOff, idx, heard, heardOff>>
    BY <1>2 DEF A!CopyHead
  <2> QED
    BY <1>1, <1>2, <2>1 DEF AudioInv, AudioTyped, QueueOrdered, HeadPlaying, StopKeepsLittle
<1>3. CASE head # 0
  <2> DEFINE avail == ChunkLen - headOff
             n == IF avail < Block - idx THEN avail ELSE Block - idx
  <2>1. /\ idx' = idx + n /\ heard' = head /\ heardOff' = headOff + n
        /\ head' = IF n = avail THEN 0 ELSE head
        /\ headOff' = IF n = avail THEN 0 ELSE headOff + n
        /\ cbPc' = "fill" /\ stream' = stream
    BY <1>3 DEF A!CopyHead
  <2>2. /\ headOff \in 0 .. ChunkLen - 1 /\ idx \in 0 .. Block - 1 /\ stream = "running"
        /\ head \in 1 .. A!Queued /\ A!Queued \in Nat
    BY <1>1, <1>3 DEF AudioInv, AudioTyped, StopKeepsLittle, A!Queued
  <2>3. n \in Nat \ {0} /\ n <= avail /\ idx + n \in 0 .. Block /\ avail \in Nat
    BY <2>2
  <2>4. IF n = avail THEN head' = 0 /\ headOff' = 0
        ELSE head' = head /\ headOff' = headOff + n /\ headOff + n \in 1 .. ChunkLen - 1
    BY <2>1, <2>2, <2>3
  <2> HIDE DEF n, avail
  <2>5. AudioTyped'
    <3>1. /\ head' \in 0 .. A!Queued' /\ heard' \in 0 .. A!Queued' /\ idx' \in 0 .. Block
          /\ headOff' \in 0 .. ChunkLen - 1
      BY <1>1, <2>1, <2>2, <2>3, <2>4
    <3> QED
      BY <1>1, <2>1, <3>1 DEF AudioInv, AudioTyped
  <2>6. QueueOrdered'
    <3>1. waiting \in Seq(Nat \X Nat)
      BY DEF AudioInv, AudioTyped
    <3>2. \A i \in 1 .. Len(waiting) : waiting[i][1] \in Nat
      BY <3>1
    <3>3. \A i \in 1 .. Len(waiting) : head < waiting[i][1] /\ head' < waiting[i][1]
      BY <2>2, <2>4, <3>2 DEF AudioInv, QueueOrdered
    <3>4. \A i \in 1 .. Len(waiting) : waiting[i][1] <= known => waiting[i][2] >= cutoff
      BY <1>1 DEF AudioInv, QueueOrdered
    <3> QED
      BY <1>1, <2>1, <3>3, <3>4 DEF AudioInv, QueueOrdered
  <2>7. HeadPlaying'
    BY <1>1, <1>3, <2>1, <2>2, <2>4 DEF HeadPlaying
  <2>8. StopKeepsLittle'
    BY <1>1, <2>1, <2>2, <2>4 DEF AudioInv, StopKeepsLittle
  <2> QED
    BY <2>5, <2>6, <2>7, <2>8 DEF AudioInv
<1> QED
  BY <1>2, <1>3

(* Each step keeps the order. *)
LEMMA AudioStep ==
  ASSUME AudioInv, [A!AudioNext]_audioVars
  PROVE  AudioInv'
<1> USE AudioConstants DEF AudioInv, AudioTyped, A!Silence
<1>1. ASSUME A!BlockFull PROVE AudioInv'
  BY <1>1
     DEF A!BlockFull, A!device, A!feedVars, A!Queued, QueueOrdered, HeadPlaying, StopKeepsLittle
<1>2. ASSUME A!Start PROVE AudioInv'
  BY <1>2 DEF A!Start, A!callback, A!feedVars, A!Queued, QueueOrdered, HeadPlaying, StopKeepsLittle
<1>3. ASSUME A!Stop PROVE AudioInv'
  BY <1>3 DEF A!Stop, A!callback, A!feedVars, A!Queued, QueueOrdered, HeadPlaying, StopKeepsLittle
<1>4. ASSUME A!StopDevice PROVE AudioInv'
  BY <1>4 DEF A!StopDevice, A!callback, A!feedVars, A!Queued, QueueOrdered, HeadPlaying,
              StopKeepsLittle
<1>5. ASSUME A!StopClears PROVE AudioInv'
  <2>1. <<>> \in Seq(Nat \X Nat) /\ Len(<<>>) = 0 /\ 0 \in 0 .. A!Queued
    BY EmptySeq DEF A!Queued
  <2> QED
    BY <1>5, <2>1 DEF A!StopClears, A!callback, A!feedVars, A!Queued, QueueOrdered, HeadPlaying,
                      StopKeepsLittle
<1>6. ASSUME UNCHANGED audioVars PROVE AudioInv'
  BY <1>6 DEF audioVars, A!Queued, QueueOrdered, HeadPlaying, StopKeepsLittle
<1> HIDE DEF AudioInv
<1> QED
  BY <1>1, <1>2, <1>3, <1>4, <1>5, <1>6, AudioTimes, AudioTaken, AudioQueued, AudioCalled,
     AudioDrops, AudioBegins, AudioCopies DEF A!AudioNext

(* Sound is played in the order it was fed, once, not late, and a device   *)
(* that was stopped plays and keeps nothing but what was on its way in     *)
(* (AudioSink.feed, _cb, stop).                                            *)
THEOREM SoundPlayed == ConnectionSpec => []SoundInOrder
<1>1. AudioInv /\ [ConnectionNext]_allVars => AudioInv'
  BY EachView, AudioStep
<1> QED
  BY AudioInitially, <1>1, AudioHolds, PTL DEF ConnectionSpec

-----------------------------------------------------------------------------
(* The cursor *)

(* A shape: the id it was drawn under, and its number. *)
CursorShapes == CacheIds \X Nat

(* What is on the wire: a shape goes with its own id. *)
CursorNotes ==
  {m \in [id : CacheIds, hit : BOOLEAN, shape : CursorShapes \cup {K!NoCursor}] :
     m.shape # K!NoCursor => m.shape[1] = m.id}

(* Shapes, messages and the cache. *)
CursorTyped ==
  /\ unsent => hostCursor \in CursorShapes
  /\ hostTold \in [CacheIds -> CursorShapes \cup {K!NoCursor}]
  /\ \A id \in CacheIds : hostTold[id] # K!NoCursor => hostTold[id][1] = id
  /\ drawnCount \in Nat
  /\ cursorWire \in Seq(CursorNotes)
  /\ cursorCache \in Seq(CacheIds \X CursorShapes)
  /\ \A i \in 1 .. Len(cursorCache) : cursorCache[i][2][1] = cursorCache[i][1]
  /\ lastNotified \in CursorShapes \cup {K!NoCursor}
  /\ armed \in BOOLEAN /\ registered \in BOOLEAN /\ lateReplay \in BOOLEAN
  /\ unread \in BOOLEAN /\ unknownNow \in BOOLEAN

(* The cache knows CacheSize ids at the most, each once. *)
CacheKept ==
  /\ Len(cursorCache) <= CacheSize
  /\ \A i, j \in 1 .. Len(cursorCache) : cursorCache[i][1] = cursorCache[j][1] => i = j

(* The last message on the wire is about the id sent last; once it has     *)
(* been worked off, the shape notified last is of that id, unless it was   *)
(* not known or could not be read; and the frontend has that shape, or     *)
(* none, unless the callback has yet to run or a late replay undid it.     *)
CursorFollows ==
  /\ cursorWire # <<>> => cursorWire[Len(cursorWire)].id = sentId
  /\ cursorWire = <<>> /\ ~unread /\ ~unknownNow /\ lastNotified # K!NoCursor =>
       lastNotified[1] = sentId
  /\ rxPc = "call" => rxImage = IF unknownNow THEN K!NoCursor ELSE lastNotified
  /\ rxPc \in {"idle", "call"} /\ regPc \in {"start", "replay", "done"}
  /\ registered <=> regPc # "start"
  /\ regPc = "start" => handed = K!NoCursor
  /\ rxPc = "idle" /\ regPc = "done" /\ ~lateReplay =>
       handed = K!NoCursor \/ (handed = lastNotified /\ ~unknownNow)

(* The inductive invariant. *)
CursorInv == CursorTyped /\ CacheKept /\ CursorFollows

(* No shape is not one. *)
LEMMA NoShape == K!NoCursor \notin CursorShapes
BY DEF K!NoCursor, CursorShapes

(* Nothing was drawn, and nothing is shown. *)
LEMMA CursorInitially == ConnectionInit => CursorInv
<1> SUFFICES ASSUME K!CursorInit PROVE CursorInv
  BY DEF ConnectionInit
<1> USE DEF K!CursorInit
<1>1. /\ <<>> \in Seq(CursorNotes) /\ <<>> \in Seq(CacheIds \X CursorShapes)
      /\ Len(<<>>) = 0 /\ CacheSize \in Nat
  BY EmptySeq, ConnectionAssumption DEF K!CursorAssumption
<1>2. CursorTyped
  <2>1. /\ hostTold \in [CacheIds -> CursorShapes \cup {K!NoCursor}]
        /\ \A id \in CacheIds : hostTold[id] = K!NoCursor
    OBVIOUS
  <2>2. /\ ~ unsent /\ drawnCount \in Nat /\ lastNotified = K!NoCursor
        /\ cursorWire = <<>> /\ cursorCache = <<>>
    OBVIOUS
  <2>3. \A i \in 1 .. Len(cursorCache) : FALSE
    BY <1>1, <2>2
  <2>4. /\ armed \in BOOLEAN /\ registered \in BOOLEAN /\ lateReplay \in BOOLEAN
        /\ unread \in BOOLEAN /\ unknownNow \in BOOLEAN
    OBVIOUS
  <2> HIDE DEF K!CursorInit
  <2> QED
    BY <1>1, <2>1, <2>2, <2>3, <2>4 DEF CursorTyped
<1>3. CacheKept
  BY <1>1 DEF CacheKept
<1>4. CursorFollows
  BY DEF CursorFollows
<1> QED
  BY <1>2, <1>3, <1>4 DEF CursorInv

(* The invariant is strong enough. *)
LEMMA CursorHolds ==
  ASSUME CursorInv
  PROVE  CursorAgrees
<1>1. K!IsInjective([i \in DOMAIN cursorCache |-> cursorCache[i][1]])
  <2>1. DOMAIN cursorCache = 1 .. Len(cursorCache)
    BY DEF CursorInv, CursorTyped
  <2> QED
    BY <2>1 DEF CursorInv, CacheKept, K!IsInjective
<1>2. K!CursorTypeOK
  <2>1. Len(cursorCache) <= CacheSize
    BY DEF CursorInv, CacheKept
  <2>2. armed \in BOOLEAN /\ registered \in BOOLEAN /\ lateReplay \in BOOLEAN /\ unread \in BOOLEAN
    BY DEF CursorInv, CursorTyped
  <2> QED
    BY <1>1, <2>1, <2>2 DEF K!CursorTypeOK
<1>3. K!CursorAgrees
  <2> SUFFICES ASSUME rxPc = "idle", cursorWire = <<>>, regPc = "done", ~unread, ~lateReplay,
                      handed # K!NoCursor
               PROVE  handed[1] = sentId /\ handed = lastNotified
    BY DEF K!CursorAgrees, K!AtRest
  <2>1. handed = lastNotified /\ ~unknownNow
    BY DEF CursorInv, CursorFollows
  <2>2. lastNotified[1] = sentId
    BY <2>1 DEF CursorInv, CursorFollows
  <2> QED
    BY <2>1, <2>2
<1> QED
  BY <1>2, <1>3 DEF CursorAgrees

(* What the host draws is not sent yet. *)
LEMMA CursorDrawn ==
  ASSUME CursorInv, NEW id \in CacheIds, K!HostDraws(id)
  PROVE  CursorInv'
<1> USE DEF K!HostDraws, K!reg, K!notes
<1>1. drawnCount \in Nat /\ drawnCount + 1 \in Nat /\ drawnCount' = drawnCount + 1
  BY DEF CursorInv, CursorTyped
<1>2. hostCursor' \in CursorShapes
  <2>1. CASE hostTold[id] # K!NoCursor /\ hostCursor' = hostTold[id]
    BY <2>1 DEF CursorInv, CursorTyped
  <2>2. CASE hostCursor' = <<id, drawnCount'>>
    BY <1>1, <2>2 DEF CursorShapes
  <2> QED
    BY <2>1, <2>2
<1>3. CursorTyped'
  BY <1>1, <1>2 DEF CursorInv, CursorTyped
<1>4. CacheKept' /\ CursorFollows'
  BY DEF CursorInv, CacheKept, CursorFollows
<1> QED
  BY <1>3, <1>4 DEF CursorInv

(* What it sends is behind all on the wire. *)
LEMMA CursorSent ==
  ASSUME CursorInv, K!HostSends
  PROVE  CursorInv'
<1> DEFINE id == hostCursor[1]
<1>1. /\ armed' = FALSE /\ unsent' = FALSE /\ unsent
      /\ hostTold' = [hostTold EXCEPT ![id] = hostCursor] /\ sentId' = id
      /\ UNCHANGED <<hostCursor, drawnCount, cursorCache, lastNotified, rxPc, rxImage, registered,
                     regPc, regImage, handed, unknownNow, lateReplay, unread>>
  BY DEF K!HostSends, K!reg
<1>2. hostCursor \in CursorShapes /\ id \in CacheIds /\ K!NoCursor \notin CursorShapes
  BY <1>1, NoShape DEF CursorInv, CursorTyped, CursorShapes
<1>3. PICK hit \in BOOLEAN, shape \in {hostCursor, K!NoCursor} :
        cursorWire' = Append(cursorWire, [id |-> id, hit |-> hit, shape |-> shape])
  BY DEF K!HostSends
<1> DEFINE m == [id |-> id, hit |-> hit, shape |-> shape]
<1>4. m \in CursorNotes /\ m.id = id
  BY <1>2 DEF CursorNotes
<1> HIDE DEF m, id
<1>5. cursorWire \in Seq(CursorNotes) /\ cursorWire' = Append(cursorWire, m)
  BY <1>3 DEF CursorInv, CursorTyped, m
<1>6. /\ cursorWire' \in Seq(CursorNotes) /\ Len(cursorWire') = Len(cursorWire) + 1
      /\ cursorWire'[Len(cursorWire) + 1] = m
  BY <1>4, <1>5, AppendProperties
<1>7. CursorTyped'
  <2>1. hostTold' \in [CacheIds -> CursorShapes \cup {K!NoCursor}]
    BY <1>1, <1>2 DEF CursorInv, CursorTyped
  <2>2. \A k \in CacheIds : hostTold'[k] # K!NoCursor => hostTold'[k][1] = k
    BY <1>1, <1>2 DEF CursorInv, CursorTyped, id
  <2> QED
    BY <1>1, <1>6, <2>1, <2>2 DEF CursorInv, CursorTyped
<1>8. CursorFollows'
  <2>1. cursorWire' # <<>> /\ cursorWire'[Len(cursorWire')].id = sentId'
    <3>1. Len(cursorWire) \in Nat
      BY <1>5, LenProperties
    <3>2. Len(cursorWire') # 0
      BY <1>6, <3>1
    <3> QED
      BY <1>1, <1>4, <1>6, <3>2, EmptySeq
  <2> QED
    BY <1>1, <2>1 DEF CursorInv, CursorFollows
<1>9. CacheKept'
  BY <1>1 DEF CursorInv, CacheKept
<1> QED
  BY <1>7, <1>8, <1>9 DEF CursorInv

(* A message is worked off: the next one is the last, or another follows. *)
LEMMA CursorHead ==
  ASSUME CursorInv, cursorWire # <<>>, cursorWire' = Tail(cursorWire), sentId' = sentId
  PROVE  /\ Head(cursorWire) \in CursorNotes /\ cursorWire' \in Seq(CursorNotes)
         /\ cursorWire' # <<>> => cursorWire'[Len(cursorWire')].id = sentId'
         /\ cursorWire' = <<>> => Head(cursorWire).id = sentId'
<1>1. cursorWire \in Seq(CursorNotes) /\ Len(cursorWire) \in Nat /\ Len(cursorWire) # 0
  BY LenProperties, EmptySeq DEF CursorInv, CursorTyped
<1>2. /\ Head(cursorWire) \in CursorNotes /\ cursorWire' \in Seq(CursorNotes)
      /\ Len(cursorWire') = Len(cursorWire) - 1
      /\ \A i \in 1 .. Len(cursorWire') : cursorWire'[i] = cursorWire[i + 1]
  BY <1>1, HeadTailProperties
<1>3. cursorWire[Len(cursorWire)].id = sentId
  BY DEF CursorInv, CursorFollows
<1>4. ASSUME cursorWire' # <<>>
      PROVE  cursorWire'[Len(cursorWire')] = cursorWire[Len(cursorWire)]
  <2>1. Len(cursorWire') # 0
    BY <1>2, <1>4, EmptySeq
  <2>2. Len(cursorWire') \in 1 .. Len(cursorWire') /\ Len(cursorWire') + 1 = Len(cursorWire)
    BY <1>1, <1>2, <2>1
  <2> QED
    BY <1>2, <2>2
<1>5. ASSUME cursorWire' = <<>>
      PROVE  Head(cursorWire) = cursorWire[Len(cursorWire)]
  <2>1. Len(cursorWire') = 0
    BY <1>2, <1>5, EmptySeq
  <2>2. Len(cursorWire) = 1
    BY <1>1, <1>2, <2>1
  <2> QED
    BY <1>1, <2>2
<1> QED
  BY <1>2, <1>3, <1>4, <1>5

(* The id alone: the shape of the cache, or none. *)
LEMMA CursorCached ==
  ASSUME CursorInv, K!CursorHit
  PROVE  CursorInv'
<1> DEFINE id == Head(cursorWire).id
<1>1. /\ rxPc = "idle" /\ cursorWire # <<>> /\ cursorWire' = Tail(cursorWire) /\ unread' = FALSE
      /\ UNCHANGED <<hostCursor, unsent, hostTold, drawnCount, armed, cursorCache, registered,
                     regPc, regImage, handed, sentId, lateReplay>>
  BY DEF K!CursorHit, K!AtRest, K!host, K!reg
<1>2. /\ cursorWire' \in Seq(CursorNotes)
      /\ cursorWire' # <<>> => cursorWire'[Len(cursorWire')].id = sentId'
      /\ cursorWire' = <<>> => id = sentId'
  BY <1>1, CursorHead
<1>3. PICK image : /\ K!Notify(image)
                   /\ image = K!NoCursor \/ (image \in CursorShapes /\ image[1] = id)
  <2>1. CASE K!Cached(id)
    <3>1. PICK i \in DOMAIN cursorCache : cursorCache[i][1] = id /\ K!Notify(cursorCache[i][2])
      BY <2>1 DEF K!CursorHit
    <3>2. cursorCache \in Seq(CacheIds \X CursorShapes) /\ i \in 1 .. Len(cursorCache)
      BY <3>1 DEF CursorInv, CursorTyped
    <3>3. cursorCache[i][2] \in CursorShapes /\ cursorCache[i][2][1] = id
      BY <3>1, <3>2 DEF CursorInv, CursorTyped
    <3> QED
      BY <3>1, <3>3
  <2>2. CASE ~ K!Cached(id)
    BY <2>2 DEF K!CursorHit
  <2> QED
    BY <2>1, <2>2
<1>4. /\ rxPc' = "call" /\ rxImage' = image /\ unknownNow' = (image = K!NoCursor)
      /\ lastNotified' = IF image = K!NoCursor THEN lastNotified ELSE image
  BY <1>3 DEF K!Notify
<1> HIDE DEF id
<1>5. CursorTyped'
  BY <1>1, <1>2, <1>3, <1>4 DEF CursorInv, CursorTyped
<1>6. CursorFollows'
  BY <1>1, <1>2, <1>3, <1>4 DEF CursorInv, CursorFollows
<1> QED
  BY <1>1, <1>5, <1>6 DEF CursorInv, CacheKept

(* A new shape takes its place, or that of the oldest. *)
LEMMA CacheRemembers ==
  ASSUME CursorInv, NEW id \in CacheIds, NEW shape \in CursorShapes, shape[1] = id,
         NEW kept, kept = K!Remember(id, shape)
  PROVE  /\ kept \in Seq(CacheIds \X CursorShapes) /\ Len(kept) <= CacheSize
         /\ \A i \in 1 .. Len(kept) : kept[i][2][1] = kept[i][1]
         /\ \A i, j \in 1 .. Len(kept) : kept[i][1] = kept[j][1] => i = j
<1> DEFINE e == <<id, shape>>
           n == Len(cursorCache)
<1>1. /\ e \in CacheIds \X CursorShapes /\ e[1] = id /\ e[2] = shape
      /\ CacheSize \in Nat \ {0}
  BY ConnectionAssumption DEF K!CursorAssumption
<1>2. /\ cursorCache \in Seq(CacheIds \X CursorShapes) /\ n \in Nat /\ n <= CacheSize
      /\ DOMAIN cursorCache = 1 .. n
      /\ \A i \in 1 .. n : cursorCache[i] \in CacheIds \X CursorShapes
      /\ \A i \in 1 .. n : cursorCache[i][2][1] = cursorCache[i][1]
      /\ \A i, j \in 1 .. n : cursorCache[i][1] = cursorCache[j][1] => i = j
  BY DEF CursorInv, CursorTyped, CacheKept
<1>3. CASE K!Cached(id)
  <2>1. kept = [i \in 1 .. n |-> IF cursorCache[i][1] = id THEN e ELSE cursorCache[i]]
    BY <1>2, <1>3 DEF K!Remember
  <2> HIDE DEF e, n
  <2>2. \A i \in 1 .. n : kept[i] \in CacheIds \X CursorShapes
    BY <1>1, <1>2, <2>1
  <2>3. kept \in Seq(CacheIds \X CursorShapes) /\ Len(kept) = n
    BY <1>2, <2>1, <2>2, IsASeq
  <2>4. \A i \in 1 .. n : kept[i][1] = cursorCache[i][1] /\ kept[i][2][1] = kept[i][1]
    BY <1>1, <1>2, <2>1
  <2> QED
    BY <1>2, <2>3, <2>4
<1>4. CASE ~ K!Cached(id)
  <2> DEFINE more == Append(cursorCache, e)
  <2>1. kept = IF Len(more) > CacheSize THEN Tail(more) ELSE more
    BY <1>4 DEF K!Remember
  <2> HIDE DEF e
  <2>2. /\ more \in Seq(CacheIds \X CursorShapes) /\ Len(more) = n + 1
        /\ \A i \in 1 .. n : more[i] = cursorCache[i]
        /\ more[n + 1] = e
    BY <1>1, <1>2, AppendProperties
  <2> HIDE DEF n, more
  <2>3. \A i \in 1 .. Len(more) : i \in 1 .. n \/ i = n + 1
    BY <1>2, <2>2
  <2>4. \A i \in 1 .. n : cursorCache[i][1] # id
    BY <1>2, <1>4 DEF K!Cached
  <2>5. \A i \in 1 .. Len(more) : more[i][2][1] = more[i][1]
    BY <1>1, <1>2, <2>2, <2>3
  <2>6. \A i, j \in 1 .. Len(more) : more[i][1] = more[j][1] => i = j
    BY <1>1, <1>2, <2>2, <2>3, <2>4
  <2>7. CASE Len(more) > CacheSize
    <3>1. more # <<>>
      BY <1>2, <2>2, EmptySeq
    <3>2. /\ kept \in Seq(CacheIds \X CursorShapes) /\ Len(kept) = Len(more) - 1
          /\ \A i \in 1 .. Len(kept) : kept[i] = more[i + 1]
      BY <2>1, <2>2, <2>7, <3>1, HeadTailProperties
    <3>3. \A i \in 1 .. Len(kept) : i + 1 \in 1 .. Len(more)
      BY <1>2, <2>2, <3>2
    <3>4. \A i, j \in 1 .. Len(kept) : kept[i][1] = kept[j][1] => i = j
      <4> SUFFICES ASSUME NEW i \in 1 .. Len(kept),
                          NEW j \in 1 .. Len(kept), kept[i][1] = kept[j][1]
                   PROVE  i = j
        OBVIOUS
      <4>1. i + 1 = j + 1
        BY <2>6, <3>2, <3>3
      <4> QED
        BY <4>1
    <3> QED
      BY <1>2, <2>2, <2>5, <3>2, <3>3, <3>4
  <2>8. CASE ~ (Len(more) > CacheSize)
    BY <1>1, <1>2, <2>1, <2>2, <2>5, <2>6, <2>8
  <2> QED
    BY <2>7, <2>8
<1> QED
  BY <1>3, <1>4

(* A shape: remembered and notified, or unreadable. *)
LEMMA CursorShaped ==
  ASSUME CursorInv, K!CursorShape
  PROVE  CursorInv'
<1> DEFINE m == Head(cursorWire)
<1>1. /\ rxPc = "idle" /\ cursorWire # <<>> /\ cursorWire' = Tail(cursorWire)
      /\ UNCHANGED <<hostCursor, unsent, hostTold, drawnCount, armed, registered, regPc, regImage,
                     handed, sentId, lateReplay>>
  BY DEF K!CursorShape, K!AtRest, K!host, K!reg
<1>2. /\ m \in CursorNotes /\ cursorWire' \in Seq(CursorNotes)
      /\ cursorWire' # <<>> => cursorWire'[Len(cursorWire')].id = sentId'
      /\ cursorWire' = <<>> => m.id = sentId'
  BY <1>1, CursorHead
<1>3. CASE m.shape = K!NoCursor
  <2>1. unread' = TRUE /\ UNCHANGED <<cursorCache, rxPc, rxImage, lastNotified, unknownNow>>
    BY <1>3 DEF K!CursorShape
  <2>2. CursorTyped' /\ CacheKept'
    BY <1>1, <1>2, <2>1 DEF CursorInv, CursorTyped, CacheKept
  <2>3. CursorFollows'
    BY <1>1, <1>2, <2>1 DEF CursorInv, CursorFollows
  <2> QED
    BY <2>2, <2>3 DEF CursorInv
<1>4. CASE m.shape # K!NoCursor
  <2>1. /\ cursorCache' = K!Remember(m.id, m.shape) /\ unread' = FALSE
        /\ rxPc' = "call" /\ rxImage' = m.shape /\ unknownNow' = FALSE /\ lastNotified' = m.shape
    BY <1>4 DEF K!CursorShape, K!Notify
  <2>2. m.id \in CacheIds /\ m.shape \in CursorShapes /\ m.shape[1] = m.id
    BY <1>2, <1>4 DEF CursorNotes
  <2> HIDE DEF m
  <2>3. /\ cursorCache' \in Seq(CacheIds \X CursorShapes)
        /\ \A i \in 1 .. Len(cursorCache') : cursorCache'[i][2][1] = cursorCache'[i][1]
        /\ CacheKept'
    BY <2>1, <2>2, CacheRemembers DEF CacheKept
  <2>4. CursorTyped'
    BY <1>1, <1>2, <2>1, <2>2, <2>3 DEF CursorInv, CursorTyped
  <2>5. CursorFollows'
    BY <1>1, <1>2, <2>1, <2>2 DEF CursorInv, CursorFollows
  <2> QED
    BY <2>3, <2>4, <2>5 DEF CursorInv
<1> QED
  BY <1>3, <1>4

(* Each step keeps the id. *)
LEMMA CursorStep ==
  ASSUME CursorInv, [K!CursorNext]_cursorVars
  PROVE  CursorInv'
<1>1. ASSUME K!Ask PROVE CursorInv'
  BY <1>1 DEF K!Ask, K!host, K!reg, K!notes, CursorInv, CursorTyped, CacheKept, CursorFollows
<1>2. ASSUME K!CallBack PROVE CursorInv'
  <2> USE <1>2 DEF K!CallBack, K!host, K!reg
  <2>1. CursorTyped' /\ CacheKept'
    BY DEF CursorInv, CursorTyped, CacheKept
  <2>2. CursorFollows'
    BY DEF CursorInv, CursorTyped, CursorFollows
  <2> QED
    BY <2>1, <2>2 DEF CursorInv
<1>3. ASSUME K!Register PROVE CursorInv'
  <2> USE <1>3 DEF K!Register, K!host, K!notes
  <2>1. CursorTyped' /\ CacheKept'
    BY DEF CursorInv, CursorTyped, CacheKept
  <2>2. CursorFollows'
    BY DEF CursorInv, CursorTyped, CursorFollows
  <2> QED
    BY <2>1, <2>2 DEF CursorInv
<1>4. ASSUME K!Replay PROVE CursorInv'
  <2> USE <1>4 DEF K!Replay, K!host
  <2>1. CursorTyped' /\ CacheKept'
    BY DEF CursorInv, CursorTyped, CacheKept
  <2>2. CursorFollows'
    BY DEF CursorInv, CursorTyped, CursorFollows
  <2> QED
    BY <2>1, <2>2 DEF CursorInv
<1>5. ASSUME UNCHANGED cursorVars PROVE CursorInv'
  BY <1>5 DEF cursorVars, CursorInv, CursorTyped, CacheKept, CursorFollows
<1> QED
  BY <1>1, <1>2, <1>3, <1>4, <1>5, CursorDrawn, CursorSent, CursorCached, CursorShaped
     DEF K!CursorNext

(* The frontend has the cursor the host named last, or none, once what was *)
(* sent has been worked off (_handle_cursor_rect, _notify_cursor,          *)
(* set_cursor_callback); and the cache stays in its bound, each id once.   *)
THEOREM CursorFollowed == ConnectionSpec => []CursorAgrees
<1>1. CursorInv /\ [ConnectionNext]_allVars => CursorInv'
  BY EachView, CursorStep
<1> QED
  BY CursorInitially, <1>1, CursorHolds, PTL DEF ConnectionSpec

-----------------------------------------------------------------------------
(* The clipboards *)

(* What travels in either direction of the channel. *)
ClipRequests == {T!Fetch} \cup {T!Text(t) : t \in Texts}
ClipReplies == {T!Changed} \cup {T!Text(t) : t \in Texts} \cup {T!Rest(t) : t \in Texts}

(* A text of the host is two records in a row. *)
Paired ==
  \A i \in 1 .. Len(toClient) : \A t \in Texts :
    toClient[i] = T!Text(t) => i < Len(toClient) /\ toClient[i + 1] = T!Rest(t)

(* The types of the clipboards. *)
ClipTyped ==
  /\ T!ClipTypeOK
  /\ toHost \in Seq(ClipRequests) /\ toClient \in Seq(ClipReplies)
  /\ pollPc \in {"start", "read", "compare"}
  /\ pollPc = "compare" => cur \in Texts /\ cur = lastSeen

(* Something is under way between the host and the local clipboard. *)
Flow == toHost # <<>> \/ toClient # <<>> \/ pushing # NoText

(* The newest record to the client tells of the host's text, and once all  *)
(* are read the client knows that text or has something to hear.           *)
HostHeard ==
  IF toClient # <<>> THEN toClient[Len(toClient)] \in {T!Changed, T!Rest(remote)}
                     ELSE toHost # <<>> \/ lastReceived = remote

(* What tcp-rx pushes or has pushed is the text it noted; the poller, if   *)
(* nothing was pushed since it looked, has seen that text or something is  *)
(* under way.                                                              *)
PollerHeard ==
  /\ pushing # NoText => pushing = lastReceived
  /\ pushed = TRUE /\ pushing = NoText => local = lastReceived
  /\ pollPc = "start" => Flow \/ local = lastReceived
  /\ pollPc = "read" /\ unseen = FALSE => Flow \/ lastSeen = lastReceived

(* The inductive invariant. *)
ClipInv == ClipTyped /\ Paired /\ HostHeard /\ PollerHeard

(* The records are told apart by their kinds. *)
LEMMA ClipKinds ==
  /\ T!Changed \in ClipReplies /\ T!Fetch \in ClipRequests
  /\ \A t \in Texts :
       /\ T!Text(t) \in ClipRequests \cap ClipReplies /\ T!Rest(t) \in ClipReplies
       /\ T!Text(t).text = t /\ T!Text(t) # T!Fetch
       /\ T!Text(t) # T!Changed /\ T!Rest(t) # T!Changed
       /\ \A u \in Texts : /\ T!Text(t) # T!Rest(u)
                           /\ T!Rest(t) = T!Rest(u) => t = u
                           /\ T!Text(t) = T!Text(u) => t = u
<1>1. ASSUME NEW t \in Texts, NEW u \in Texts
      PROVE  /\ T!Text(t).text = t /\ T!Text(t) # T!Fetch
             /\ T!Text(t) # T!Changed /\ T!Rest(t) # T!Changed
             /\ T!Text(t) # T!Rest(u)
             /\ T!Rest(t) = T!Rest(u) => t = u
             /\ T!Text(t) = T!Text(u) => t = u
  <2>1. /\ T!Text(t).kind = "text" /\ T!Text(t).text = t /\ T!Text(u).text = u
        /\ T!Rest(t).kind = "rest" /\ T!Rest(u).kind = "rest"
        /\ T!Rest(t).text = t /\ T!Rest(u).text = u
        /\ T!Fetch.kind = "fetch" /\ T!Changed.kind = "changed"
    BY DEF T!Text, T!Rest, T!Fetch, T!Changed
  <2> QED
    BY <2>1
<1>2. /\ T!Changed \in ClipReplies /\ T!Fetch \in ClipRequests
      /\ \A t \in Texts : T!Text(t) \in ClipRequests \cap ClipReplies /\ T!Rest(t) \in ClipReplies
  BY DEF ClipReplies, ClipRequests
<1> QED
  BY <1>1, <1>2

(* The start: a fetch is under way. *)
LEMMA ClipInitially == T!ClipInit => ClipInv
<1> SUFFICES ASSUME T!ClipInit PROVE ClipInv
  OBVIOUS
<1>1. toHost = <<T!Fetch>> /\ toClient = <<>>
  BY DEF T!ClipInit
<1>2. toHost \in Seq(ClipRequests) /\ toClient \in Seq(ClipReplies) /\ toHost # <<>>
  BY <1>1, ClipKinds
<1>3. ClipTyped
  <2>1. /\ local \in Texts /\ remote \in Texts /\ copies \in 0 .. MaxCopies
        /\ {lastSeen, lastReceived, cur, pushing, partial} \subseteq Texts \cup {NoText}
        /\ partial = NoText /\ pollPc = "start"
    BY ConnectionAssumption DEF T!ClipInit, T!ClipboardAssumption
  <2>2. {pushed, curPushed, unseen} \subseteq BOOLEAN
    BY DEF T!ClipInit
  <2> QED
    BY <1>2, <2>1, <2>2 DEF ClipTyped, T!ClipTypeOK
<1>4. Paired /\ HostHeard
  BY <1>1, <1>2 DEF Paired, HostHeard
<1>5. PollerHeard
  BY <1>2 DEF T!ClipInit, PollerHeard, Flow
<1> QED
  BY <1>3, <1>4, <1>5 DEF ClipInv

(* A record is added behind the others: Changed, or a whole text. *)
LEMMA ClipAdded ==
  ASSUME ClipTyped, Paired, remote' \in Texts,
         \/ toClient' = Append(toClient, T!Changed)
         \/ toClient' = toClient \o <<T!Text(remote'), T!Rest(remote')>>
  PROVE  /\ toClient' \in Seq(ClipReplies) /\ toClient' # <<>> /\ Paired'
         /\ toClient # <<>> => Head(toClient') = Head(toClient)
         /\ toClient'[Len(toClient')] \in {T!Changed, T!Rest(remote')}
<1>1. toClient \in Seq(ClipReplies)
  BY DEF ClipTyped
<1>2. CASE toClient' = Append(toClient, T!Changed)
  <2>1. /\ toClient' \in Seq(ClipReplies) /\ Len(toClient') = Len(toClient) + 1
        /\ \A i \in 1 .. Len(toClient) : toClient'[i] = toClient[i]
        /\ toClient'[Len(toClient) + 1] = T!Changed /\ Len(toClient) \in Nat
    BY <1>1, <1>2, ClipKinds
  <2>2. Paired'
    BY <2>1, ClipKinds DEF Paired
  <2>3. toClient # <<>> => Head(toClient') = Head(toClient)
    BY <1>1, <2>1
  <2> QED
    BY <2>1, <2>2, <2>3
<1>3. CASE toClient' = toClient \o <<T!Text(remote'), T!Rest(remote')>>
  <2> DEFINE both == <<T!Text(remote'), T!Rest(remote')>>
  <2>1. both \in Seq(ClipReplies) /\ Len(both) = 2
        /\ both[1] = T!Text(remote') /\ both[2] = T!Rest(remote')
    BY ClipKinds
  <2> HIDE DEF both
  <2>2. toClient' = toClient \o both
    BY <1>3 DEF both
  <2>3. /\ toClient' \in Seq(ClipReplies) /\ Len(toClient') = Len(toClient) + 2
        /\ \A i \in 1 .. Len(toClient) : toClient'[i] = toClient[i]
        /\ toClient'[Len(toClient) + 1] = T!Text(remote')
        /\ toClient'[Len(toClient) + 2] = T!Rest(remote') /\ Len(toClient) \in Nat
    <3>1. /\ toClient' \in Seq(ClipReplies) /\ Len(toClient') = Len(toClient) + 2
          /\ \A i \in 1 .. Len(toClient) + 2 : toClient'[i] =
               IF i <= Len(toClient) THEN toClient[i] ELSE both[i - Len(toClient)]
          /\ Len(toClient) \in Nat
      <4>1. /\ toClient \o both \in Seq(ClipReplies)
            /\ Len(toClient \o both) = Len(toClient) + Len(both)
            /\ \A i \in 1 .. Len(toClient) + Len(both) : (toClient \o both)[i] =
                 IF i <= Len(toClient) THEN toClient[i] ELSE both[i - Len(toClient)]
            /\ Len(toClient) \in Nat
        BY <1>1, <2>1, ConcatProperties, LenProperties
      <4> QED
        BY <2>1, <2>2, <4>1
    <3> QED
      BY <2>1, <3>1
  <2>4. Paired'
    <3> SUFFICES ASSUME NEW i \in 1 .. Len(toClient'), NEW t \in Texts,
                        toClient'[i] = T!Text(t)
                 PROVE  i < Len(toClient') /\ toClient'[i + 1] = T!Rest(t)
      BY DEF Paired
    <3>1. CASE i \in 1 .. Len(toClient)
      <4>1. toClient[i] = T!Text(t)
        BY <2>3, <3>1
      <4>2. i < Len(toClient) /\ toClient[i + 1] = T!Rest(t)
        BY <3>1, <4>1 DEF Paired
      <4> QED
        BY <2>3, <3>1, <4>2
    <3>2. CASE i = Len(toClient) + 1
      <4>1. t = remote'
        BY <2>3, <3>2, ClipKinds
      <4> QED
        BY <2>3, <3>2, <4>1
    <3>3. CASE i = Len(toClient) + 2
      BY <2>3, <3>3, ClipKinds
    <3> QED
      BY <2>3, <3>1, <3>2, <3>3
  <2>5. toClient # <<>> => Head(toClient') = Head(toClient)
    BY <1>1, <2>3
  <2> QED
    BY <2>3, <2>4, <2>5
<1> QED
  BY <1>2, <1>3

(* A record is taken from the front. *)
LEMMA ClipTaken ==
  ASSUME ClipTyped, Paired, NEW m \in ClipReplies, T!Take(m)
  PROVE  /\ pushing = NoText /\ toClient # <<>> /\ toClient[1] = m
         /\ toClient' \in Seq(ClipReplies) /\ Paired'
         /\ toClient' # <<>> => toClient'[Len(toClient')] = toClient[Len(toClient)]
         /\ toClient' = <<>> => Len(toClient) = 1
         /\ \A t \in Texts : m = T!Text(t) => toClient' # <<>> /\ Head(toClient') = T!Rest(t)
<1>1. toClient \in Seq(ClipReplies) /\ toClient # <<>> /\ toClient[1] = m
      /\ toClient' = Tail(toClient) /\ pushing = NoText
  BY DEF ClipTyped, T!Take
<1>2. /\ toClient' \in Seq(ClipReplies) /\ Len(toClient') = Len(toClient) - 1
      /\ Len(toClient) \in Nat \ {0}
      /\ \A i \in 1 .. Len(toClient') : toClient'[i] = toClient[i + 1]
  BY <1>1
<1>3. Paired'
  <2> SUFFICES ASSUME NEW i \in 1 .. Len(toClient'), NEW t \in Texts,
                      toClient'[i] = T!Text(t)
               PROVE  i < Len(toClient') /\ toClient'[i + 1] = T!Rest(t)
    BY DEF Paired
  <2>1. i + 1 \in 1 .. Len(toClient) /\ toClient[i + 1] = T!Text(t)
    BY <1>2
  <2>2. i + 1 < Len(toClient) /\ toClient[i + 1 + 1] = T!Rest(t)
    BY <2>1 DEF Paired
  <2> QED
    BY <1>2, <2>2
<1>4. toClient' # <<>> => toClient'[Len(toClient')] = toClient[Len(toClient)]
  <2>1. toClient' # <<>> => Len(toClient') \in 1 .. Len(toClient')
    BY <1>2
  <2> QED
    BY <1>2, <2>1
<1>5. ASSUME NEW t \in Texts, m = T!Text(t)
      PROVE  toClient' # <<>> /\ Head(toClient') = T!Rest(t)
  <2>1. 1 < Len(toClient) /\ toClient[1 + 1] = T!Rest(t)
    BY <1>1, <1>2, <1>5 DEF Paired
  <2> QED
    BY <1>2, <2>1
<1>6. toClient' = <<>> => Len(toClient) = 1
  BY <1>2
<1> QED
  BY <1>1, <1>2, <1>3, <1>4, <1>5, <1>6

(* The users and the host keep the invariant. *)
LEMMA ClipSides ==
  ASSUME ClipInv, (\E t \in Texts : T!CopyLocal(t) \/ T!CopyRemote(t)) \/ T!HostServes
  PROVE  ClipInv'
<1> USE DEF ClipInv
<1>1. ASSUME NEW t \in Texts, T!CopyLocal(t) PROVE ClipInv'
  <2> USE <1>1 DEF T!CopyLocal, T!pollVars, T!rxVars
  <2>1. copies' \in 0 .. MaxCopies
    BY ConnectionAssumption DEF ClipTyped, T!ClipTypeOK, T!ClipboardAssumption
  <2>2. {pushed', curPushed', unseen'} \subseteq BOOLEAN
    <3>1. pushed' \in BOOLEAN /\ curPushed' \in BOOLEAN /\ unseen' \in BOOLEAN
      BY DEF ClipTyped, T!ClipTypeOK
    <3> QED
      BY <3>1
  <2>3. ClipTyped'
    BY <2>1, <2>2 DEF ClipTyped, T!ClipTypeOK
  <2>4. Paired' /\ HostHeard'
    BY DEF Paired, HostHeard
  <2>5. PollerHeard'
    BY DEF PollerHeard, Flow
  <2> QED
    BY <2>3, <2>4, <2>5
<1>2. ASSUME NEW t \in Texts, T!CopyRemote(t) PROVE ClipInv'
  <2> USE <1>2 DEF T!CopyRemote, T!pollVars, T!rxVars
  <2>1. /\ toClient' \in Seq(ClipReplies) /\ toClient' # <<>> /\ Paired'
        /\ toClient # <<>> => Head(toClient') = Head(toClient)
        /\ toClient'[Len(toClient')] \in {T!Changed, T!Rest(remote')}
    BY ClipAdded
  <2>2. ClipTyped'
    BY <2>1, ConnectionAssumption DEF ClipTyped, T!ClipTypeOK, T!ClipboardAssumption
  <2>3. HostHeard' /\ PollerHeard'
    BY <2>1 DEF HostHeard, PollerHeard, Flow
  <2> QED
    BY <2>1, <2>2, <2>3
<1>3. ASSUME T!HostServes PROVE ClipInv'
  <2> USE <1>3 DEF T!pollVars, T!rxVars
  <2>1. /\ toHost \in Seq(ClipRequests) /\ toHost # <<>> /\ toHost' = Tail(toHost)
        /\ UNCHANGED <<local, lastSeen, pollPc, cur, curPushed, lastReceived, pushing,
                       partial, copies, pushed, unseen>>
    BY DEF T!HostServes, ClipTyped
  <2>2. toHost' \in Seq(ClipRequests) /\ Head(toHost) \in ClipRequests
    BY <2>1
  <2>3. /\ remote' \in Texts
        /\ \/ toClient' = Append(toClient, T!Changed)
           \/ toClient' = toClient \o <<T!Text(remote'), T!Rest(remote')>>
    <3>1. CASE Head(toHost) = T!Fetch
      BY <3>1 DEF T!HostServes, ClipTyped, T!ClipTypeOK
    <3>2. CASE Head(toHost) # T!Fetch
      <4>1. PICK t \in Texts : Head(toHost) = T!Text(t)
        BY <2>2, <3>2 DEF ClipRequests
      <4>2. remote' = t
        BY <3>2, <4>1, ClipKinds DEF T!HostServes
      <4> QED
        BY <3>2, <4>2 DEF T!HostServes
    <3> QED
      BY <3>1, <3>2
  <2>4. /\ toClient' \in Seq(ClipReplies) /\ toClient' # <<>> /\ Paired'
        /\ toClient # <<>> => Head(toClient') = Head(toClient)
        /\ toClient'[Len(toClient')] \in {T!Changed, T!Rest(remote')}
    BY <2>3, ClipAdded
  <2>5. ClipTyped'
    BY <2>1, <2>2, <2>3, <2>4 DEF ClipTyped, T!ClipTypeOK
  <2>6. HostHeard' /\ PollerHeard'
    BY <2>1, <2>4 DEF HostHeard, PollerHeard, Flow
  <2> QED
    BY <2>4, <2>5, <2>6
<1> QED
  BY <1>1, <1>2, <1>3

(* The poller keeps it. *)
LEMMA ClipPolls == ASSUME ClipInv, T!Poller PROVE ClipInv'
<1> USE DEF ClipInv, T!rxVars
<1>1. CASE T!PollStart
  <2> USE <1>1 DEF T!PollStart
  <2>1. ClipTyped' /\ Paired' /\ HostHeard'
    BY DEF ClipTyped, T!ClipTypeOK, Paired, HostHeard
  <2>2. PollerHeard'
    BY DEF PollerHeard, Flow
  <2> QED
    BY <2>1, <2>2
<1>2. CASE T!PollRead
  <2> USE <1>2 DEF T!PollRead
  <2>1. ClipTyped' /\ Paired' /\ HostHeard'
    BY DEF ClipTyped, T!ClipTypeOK, Paired, HostHeard
  <2>2. PollerHeard'
    BY DEF PollerHeard, Flow
  <2> QED
    BY <2>1, <2>2
<1>3. CASE T!PollCompare
  <2>1. /\ pollPc = "compare" /\ pollPc' = "read" /\ cur \in Texts /\ cur = lastSeen
        /\ UNCHANGED <<local, remote, lastSeen, cur, curPushed, lastReceived, pushing,
                       partial, toClient, copies, pushed, unseen>>
    BY <1>3 DEF T!PollCompare, ClipTyped
  <2>2. /\ toHost' \in Seq(ClipRequests)
        /\ toHost # <<>> => toHost' # <<>>
        /\ cur # lastReceived => toHost' # <<>>
    <3>1. CASE cur = lastReceived
      BY <1>3, <3>1 DEF T!PollCompare, ClipTyped
    <3>2. CASE cur # lastReceived
      <4>1. toHost' = Append(toHost, T!Text(cur))
        BY <1>3, <3>2 DEF T!PollCompare
      <4>2. T!Text(cur) \in ClipRequests /\ toHost \in Seq(ClipRequests)
        BY <2>1, ClipKinds DEF ClipTyped
      <4> QED
        BY <4>1, <4>2
    <3> QED
      BY <3>1, <3>2
  <2>3. ClipTyped'
    BY <2>1, <2>2 DEF ClipTyped, T!ClipTypeOK
  <2>5. Paired' /\ HostHeard'
    BY <2>1, <2>2 DEF Paired, HostHeard
  <2>4. PollerHeard'
    BY <2>1, <2>2 DEF PollerHeard, Flow
  <2> QED
    BY <2>3, <2>4, <2>5
<1> QED
  BY <1>1, <1>2, <1>3 DEF T!Poller

(* So does tcp-rx. *)
LEMMA ClipReads == ASSUME ClipInv, T!TcpRx PROVE ClipInv'
<1> USE DEF ClipInv, T!pollVars, T!rxVars
<1>0. NoText \notin Texts
  BY ConnectionAssumption DEF T!ClipboardAssumption
<1>1. CASE T!RxChanged
  <2>1. /\ T!Take(T!Changed) /\ toHost' = Append(toHost, T!Fetch)
        /\ UNCHANGED <<local, remote, lastSeen, pollPc, cur, curPushed, lastReceived, pushing,
                       partial, copies, pushed, unseen>>
    BY <1>1 DEF T!RxChanged
  <2>2. toHost' \in Seq(ClipRequests) /\ toHost' # <<>>
    BY <2>1, ClipKinds DEF ClipTyped
  <2>3. /\ toClient # <<>> /\ toClient[1] = T!Changed /\ toClient' \in Seq(ClipReplies) /\ Paired'
        /\ toClient' # <<>> => toClient'[Len(toClient')] = toClient[Len(toClient)]
    BY <2>1, ClipTaken, ClipKinds
  <2>4. partial = NoText
    <3>1. partial # NoText => toClient[1] = T!Rest(partial) /\ partial \in Texts
      BY <2>3 DEF ClipTyped, T!ClipTypeOK
    <3> QED
      BY <2>3, <3>1, ClipKinds
  <2>5. ClipTyped'
    BY <2>1, <2>2, <2>3, <2>4 DEF ClipTyped, T!ClipTypeOK
  <2>6. HostHeard' /\ PollerHeard'
    BY <2>1, <2>2, <2>3 DEF HostHeard, PollerHeard, Flow
  <2> QED
    BY <2>3, <2>5, <2>6
<1>2. ASSUME NEW t \in Texts, T!RxFirst(t) PROVE ClipInv'
  <2>1. /\ T!Take(T!Text(t)) /\ partial' = t
        /\ UNCHANGED <<local, remote, lastSeen, pollPc, cur, curPushed, lastReceived, pushing,
                       toHost, copies, pushed, unseen>>
    BY <1>2 DEF T!RxFirst
  <2>2. /\ toClient # <<>> /\ toClient' \in Seq(ClipReplies) /\ Paired'
        /\ toClient' # <<>> => toClient'[Len(toClient')] = toClient[Len(toClient)]
        /\ toClient' # <<>> /\ Head(toClient') = T!Rest(t)
    BY <2>1, ClipTaken, ClipKinds
  <2>3. ClipTyped'
    BY <2>1, <2>2 DEF ClipTyped, T!ClipTypeOK
  <2>4. HostHeard' /\ PollerHeard'
    BY <2>1, <2>2 DEF HostHeard, PollerHeard, Flow
  <2> QED
    BY <2>2, <2>3, <2>4
<1>3. ASSUME NEW t \in Texts, T!RxComplete(t) PROVE ClipInv'
  <2>1. /\ T!Take(T!Rest(t)) /\ partial' = NoText /\ lastReceived' = t /\ pushing' = t
        /\ UNCHANGED <<local, remote, lastSeen, pollPc, cur, curPushed, toHost, copies,
                       pushed, unseen>>
    BY <1>3 DEF T!RxComplete
  <2>2. /\ toClient # <<>> /\ toClient[1] = T!Rest(t)
        /\ toClient' \in Seq(ClipReplies) /\ Paired'
        /\ toClient' # <<>> => toClient'[Len(toClient')] = toClient[Len(toClient)]
        /\ toClient' = <<>> => Len(toClient) = 1
    BY <2>1, ClipTaken, ClipKinds
  <2>3. ClipTyped'
    BY <2>1, <2>2 DEF ClipTyped, T!ClipTypeOK
  <2>4. HostHeard'
    <3>1. CASE toClient' # <<>>
      BY <2>1, <2>2, <3>1 DEF HostHeard
    <3>2. CASE toClient' = <<>>
      <4>1. T!Rest(t) \in {T!Changed, T!Rest(remote)} /\ remote \in Texts
        BY <2>2, <3>2 DEF HostHeard, ClipTyped, T!ClipTypeOK
      <4> QED
        BY <2>1, <3>2, <4>1, ClipKinds DEF HostHeard
    <3> QED
      BY <3>1, <3>2
  <2>5. PollerHeard'
    BY <1>0, <2>1, <2>2 DEF PollerHeard, Flow
  <2> QED
    BY <2>2, <2>3, <2>4, <2>5
<1>4. CASE T!RxPush
  <2> USE <1>4 DEF T!RxPush
  <2>1. ClipTyped' /\ Paired' /\ HostHeard'
    BY DEF ClipTyped, T!ClipTypeOK, Paired, HostHeard
  <2>2. PollerHeard'
    BY DEF PollerHeard, Flow
  <2> QED
    BY <2>1, <2>2
<1> QED
  BY <1>1, <1>2, <1>3, <1>4 DEF T!TcpRx

(* Every step of the clipboards keeps their invariant. *)
LEMMA ClipStep == ASSUME ClipInv, [T!ClipNext]_clipVars PROVE ClipInv'
<1>1. CASE UNCHANGED clipVars
  BY <1>1 DEF clipVars, ClipInv, ClipTyped, T!ClipTypeOK, Paired, HostHeard, PollerHeard, Flow
<1>2. CASE T!ClipNext
  BY <1>2, ClipSides, ClipPolls, ClipReads DEF T!ClipNext
<1> QED
  BY <1>1, <1>2

(* With all worked off the two clipboards hold one text, or the last copy  *)
(* was missed, whatever was echoed before (_handle_clipboard_send notes a  *)
(* text before it pushes it, the poller compares with what is noted).      *)
THEOREM ClipboardsMeet ==
  ConnectionSpec => [](T!ClipTypeOK /\ T!RestAgrees)
<1>1. ConnectionInit => ClipInv
  BY ClipInitially DEF ConnectionInit
<1>2. ClipInv /\ [ConnectionNext]_allVars => ClipInv'
  BY EachView, ClipStep
<1>3. ClipInv => T!ClipTypeOK /\ T!RestAgrees
  BY DEF ClipInv, ClipTyped, T!ClipTypeOK, HostHeard, PollerHeard, Flow, T!RestAgrees, T!Missed
<1> QED
  BY <1>1, <1>2, <1>3, PTL DEF ConnectionSpec
=============================================================================
