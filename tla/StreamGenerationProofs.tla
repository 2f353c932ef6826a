------------------------ MODULE StreamGenerationProofs ------------------------
(***************************************************************************)
(* For every set of groups, canvases and parameter sets: type correctness  *)
(* of StreamGeneration, no return to a group that was given up, and the    *)
(* separation of SSRC generations in the AVC decoder.                      *)
(*                                                                         *)
(* The separation needs an inductive invariant: a unit between a restart   *)
(* and its feeding belongs to the group that is mapped, because only the   *)
(* thread that feeds it adopts another group.                              *)
(***************************************************************************)
EXTENDS StreamGeneration, TLAPS

(* The counters stay in their range. *)
LEMMA CountRange ==
  /\ 0 \in 0 .. Threshold /\ 0 \in 0 .. MaxEvents
  /\ \A n \in 0 .. Threshold : n < Threshold => n + 1 \in 0 .. Threshold
  /\ \A n \in 0 .. MaxEvents : n < MaxEvents => n + 1 \in 0 .. MaxEvents
BY GenerationAssumption

(* What a sequence holds is still there when its head is taken. *)
LEMMA Heads ==
  ASSUME NEW S, NEW s \in Seq(S), s # <<>>
  PROVE  Head(s) \in S /\ Tail(s) \in Seq(S)
OBVIOUS

(* An appended element makes a sequence of the same set.                   *)
LEMMA Appended ==
  ASSUME NEW S, NEW s \in Seq(S), NEW e \in S
  PROVE  Append(s, e) \in Seq(S)
OBVIOUS

(* The initial state has its types.                                        *)
LEMMA TypeInit == Init => TypeOK
<1> SUFFICES ASSUME Init PROVE TypeOK
  OBVIOUS
<1>1. tcp \in Seq(Canvases) /\ flight \in Seq(Units)
  BY GenerationAssumption DEF Init
<1>2. /\ params \in [Parts -> Canvases] /\ found \in [Parts -> Canvases \cup {None}]
      /\ counts \in [Groups -> 0 .. Threshold] /\ events \in 0 .. MaxEvents
  BY CountRange, GenerationAssumption DEF Init
<1> QED BY <1>1, <1>2, GenerationAssumption DEF Init, TypeOK, WorldType, DecoderType, GroupType, UnitType, LayoutType, FlagType

(* A unit the host sends is one of Units. *)
LEMMA SendType ==
  ASSUME TypeOK, NEW g \in Groups, NEW parts \in SUBSET Parts, NEW key \in BOOLEAN,
         Send(g, parts, key)
  PROVE  flight' \in Seq(Units)
<1>1. [group |-> g, canvas |-> hostCanvas, parts |-> parts, key |-> key] \in Units
  BY DEF TypeOK, WorldType, DecoderType, GroupType, UnitType, LayoutType, FlagType, Units
<1> QED BY <1>1, Appended DEF TypeOK, WorldType, DecoderType, GroupType, UnitType, LayoutType, FlagType, Send

(* An adoption takes a group that was not given up. *)
LEMMA AdoptType ==
  ASSUME TypeOK, NEW g \in Groups, g # map, g \notin blacklist, Adopt(g)
  PROVE  /\ used' \subseteq Groups /\ blacklist' \subseteq used'
         /\ map' \in used' \ blacklist'
         /\ dpb' \subseteq Groups /\ awaiting' \in BOOLEAN
         /\ awaiting' => dpb' = {}
         /\ silent' \in BOOLEAN /\ asked' \in BOOLEAN
BY DEF TypeOK, WorldType, DecoderType, GroupType, UnitType, LayoutType, FlagType, Adopt, Restart

(* Feeding a unit: the gate is down before a picture enters the DPB. *)
LEMMA FeedType ==
  ASSUME TypeOK, NEW u \in Units, Feed(u)
  PROVE  /\ dpb' \subseteq Groups /\ awaiting' \in BOOLEAN
         /\ awaiting' => dpb' = {}
         /\ silent' \in BOOLEAN
<1>1. u.group \in Groups
  BY DEF Units
<1>2. CASE u.key \/ ~awaiting
  <2>1. awaiting' = FALSE /\ dpb' \subseteq Groups
    BY <1>1, <1>2 DEF TypeOK, WorldType, DecoderType, GroupType, UnitType, LayoutType, FlagType, Feed
  <2>2. silent' \in BOOLEAN
    BY <1>2, Zenon DEF TypeOK, WorldType, DecoderType, GroupType, UnitType, LayoutType, FlagType, Feed
  <2> QED BY <2>1, <2>2
<1>3. CASE ~(u.key \/ ~awaiting)
  BY <1>3 DEF TypeOK, WorldType, DecoderType, GroupType, UnitType, LayoutType, FlagType, Feed
<1> QED BY <1>2, <1>3

(* The parts of the type invariant, and what each needs to stand.          *)
LEMMA TypeParts ==
  ASSUME TypeOK
  PROVE  WorldType /\ DecoderType /\ GroupType /\ UnitType /\ LayoutType /\ FlagType
BY DEF TypeOK

(* The types of the parts are the types of the whole.                      *)
LEMMA TypeWhole ==
  ASSUME WorldType', DecoderType', GroupType', UnitType', LayoutType', FlagType'
  PROVE  TypeOK'
BY DEF TypeOK

(* A step that leaves the host and the network alone keeps their types.    *)
LEMMA WorldStands ==
  ASSUME WorldType, UNCHANGED <<hostVars, netVars>>, asked' \in BOOLEAN
  PROVE  WorldType'
BY DEF WorldType, hostVars, netVars, Units

(* Likewise the decoder.                                                   *)
LEMMA DecoderStands == DecoderType /\ UNCHANGED decoderVars => DecoderType'
BY DEF DecoderType, decoderVars

(* Likewise the pending groups.                                            *)
LEMMA GroupStands == GroupType /\ UNCHANGED groupVars => GroupType'
BY DEF GroupType, groupVars

(* Likewise the unit in hand.                                              *)
LEMMA UnitStands == UnitType /\ UNCHANGED videoVars => UnitType'
BY DEF UnitType, videoVars, Units

(* Likewise the layout.                                                    *)
LEMMA LayoutStands == LayoutType /\ UNCHANGED <<layoutVars, found, silent, videoVars>> => LayoutType'
BY DEF LayoutType, layoutVars, videoVars

(* Likewise the flags.                                                     *)
LEMMA FlagStands == FlagType /\ UNCHANGED <<codec, flagVars, slipped, videoVars>> => FlagType'
BY DEF FlagType, flagVars, videoVars, Waits

(* What is the receiver's own.                                             *)
OwnVars == <<codec, layoutVars, flagVars, found, groupVars, silent, videoVars, decoderVars, slipped>>

(* The host moves, the session stands still. *)
LEMMA SessionStands ==
  ASSUME TypeOK, UNCHANGED OwnVars, WorldType'
  PROVE  TypeOK'
<1>1. UNCHANGED <<codec, layoutVars, flagVars, found, groupVars, silent, videoVars, decoderVars, slipped>>
  BY DEF OwnVars
<1> QED
  BY <1>1, TypeParts, TypeWhole, DecoderStands, GroupStands, UnitStands, LayoutStands, FlagStands

(* Every step of the session, the host and the network keeps the type      *)
(* invariant.                                                              *)
LEMMA TypeStep == TypeOK /\ [Next]_vars => TypeOK'
<1> SUFFICES ASSUME TypeOK, [Next]_vars PROVE TypeOK'
  OBVIOUS
<1> USE GenerationAssumption
<1>1. CASE HostRestarts
  <2>1. UNCHANGED OwnVars
    BY <1>1 DEF HostRestarts, OwnVars
  <2>2. WorldType'
    BY <1>1, TypeParts DEF HostRestarts, WorldType
  <2> QED BY <2>1, <2>2, SessionStands
<1>2. CASE HostResizes
  <2>1. hostCanvas' \in Canvases /\ tcp' \in Seq(Canvases)
    BY <1>2, Appended DEF TypeOK, WorldType, DecoderType, GroupType, UnitType, LayoutType, FlagType, HostResizes
  <2>2. events' \in 0 .. MaxEvents
    BY <1>2, CountRange DEF TypeOK, WorldType, DecoderType, GroupType, UnitType, LayoutType, FlagType, HostResizes
  <2>3. UNCHANGED OwnVars
    BY <1>2 DEF HostResizes, OwnVars
  <2>4. WorldType'
    BY <1>2, <2>1, <2>2, TypeParts DEF HostResizes, WorldType
  <2> QED BY <2>3, <2>4, SessionStands
<1>3. CASE HostRegroups
  <2>1. UNCHANGED OwnVars
    BY <1>3 DEF HostRegroups, OwnVars
  <2>2. events' \in 0 .. MaxEvents /\ hostGroups' \subseteq Groups
    BY <1>3, CountRange DEF TypeOK, WorldType, DecoderType, GroupType, UnitType, LayoutType, FlagType, HostRegroups
  <2>3. WorldType'
    BY <1>3, <2>2, TypeParts DEF HostRegroups, WorldType, netVars
  <2> QED BY <2>1, <2>3, SessionStands
<1>4. ASSUME NEW g \in Groups, NEW parts \in SUBSET Parts, NEW key \in BOOLEAN,
             Send(g, parts, key), asked' \in BOOLEAN
      PROVE  TypeOK'
  <2>1. flight' \in Seq(Units)
    BY <1>4, SendType
  <2>2. UNCHANGED OwnVars
    BY <1>4 DEF Send, OwnVars
  <2>3. WorldType'
    BY <1>4, <2>1, TypeParts DEF Send, WorldType, hostVars
  <2> QED BY <2>2, <2>3, SessionStands
<1>5. CASE SendKey
  <2>1. PICK g \in hostGroups, key \in BOOLEAN, parts \in SUBSET Parts :
               Send(g, parts, key) /\ UNCHANGED asked
    BY <1>5 DEF SendKey
  <2>2. g \in Groups /\ asked' \in BOOLEAN
    BY <2>1 DEF TypeOK, WorldType, DecoderType, GroupType, UnitType, LayoutType, FlagType
  <2> QED BY <1>4, <2>1, <2>2
<1>6. CASE AnswerKey
  BY <1>4, <1>6 DEF TypeOK, WorldType, DecoderType, GroupType, UnitType, LayoutType, FlagType, AnswerKey
<1>7. ASSUME NEW g \in Groups, SendDelta(g) PROVE TypeOK'
  BY <1>4, <1>7 DEF TypeOK, WorldType, DecoderType, GroupType, UnitType, LayoutType, FlagType, SendDelta
<1>8. CASE Lose
  <2>1. flight' \in Seq(Units)
    <3>1. CASE flight # <<>> /\ flight' = Tail(flight)
      BY <3>1, Heads DEF TypeOK, WorldType, DecoderType, GroupType, UnitType, LayoutType, FlagType
    <3>2. CASE UNCHANGED flight
      BY <3>2 DEF TypeOK, WorldType, DecoderType, GroupType, UnitType, LayoutType, FlagType
    <3> QED BY <1>8, <3>1, <3>2 DEF Lose
  <2>2. asked' \in BOOLEAN
    BY <1>8 DEF TypeOK, WorldType, DecoderType, GroupType, UnitType, LayoutType, FlagType, Lose
  <2>3. events' \in 0 .. MaxEvents
    BY <1>8, CountRange DEF TypeOK, WorldType, DecoderType, GroupType, UnitType, LayoutType, FlagType, Lose
  <2>4. UNCHANGED OwnVars
    BY <1>8 DEF Lose, OwnVars
  <2>5. WorldType'
    BY <1>8, <2>1, <2>2, <2>3, TypeParts DEF Lose, WorldType
  <2> QED BY <2>4, <2>5, SessionStands
<1>9. CASE VideoNote
  <2>1. Head(flight) \in Units /\ flight' \in Seq(Units) /\ unit' = Head(flight)
    BY <1>9, Heads DEF TypeOK, WorldType, DecoderType, GroupType, UnitType, LayoutType, FlagType, VideoNote
  <2>2. counts' \in [Groups -> 0 .. Threshold]
    BY <1>9, <2>1, CountRange DEF TypeOK, WorldType, DecoderType, GroupType, UnitType, LayoutType, FlagType, VideoNote, Units
  <2>3. /\ used' \subseteq Groups /\ blacklist' \subseteq used'
        /\ map' \in used' \ blacklist'
        /\ dpb' \subseteq Groups /\ awaiting' \in BOOLEAN
        /\ awaiting' => dpb' = {}
        /\ silent' \in BOOLEAN /\ asked' \in BOOLEAN
    <3>1. CASE \E heard : \E new \in Candidates(heard) : Adopt(new)
      BY <3>1, AdoptType DEF Candidates
    <3>2. CASE UNCHANGED <<map, used, blacklist, silent, asked, dpb, awaiting>>
      BY <3>2 DEF TypeOK, WorldType, DecoderType, GroupType, UnitType, LayoutType, FlagType
    <3> QED BY <1>9, <3>1, <3>2, Zenon DEF VideoNote
  <2> QED BY <1>9, <2>1, <2>2, <2>3 DEF TypeOK, WorldType, DecoderType, GroupType, UnitType, LayoutType, FlagType, VideoNote, hostVars, layoutVars, flagVars
<1>10. CASE VideoFlush
  <2>0. UNCHANGED <<hostVars, netVars, asked, codec, layoutVars, flagVars, groupVars, slipped>>
    BY <1>10 DEF VideoFlush
  <2>1. unit \in Units
    BY <1>10 DEF TypeOK, WorldType, DecoderType, GroupType, UnitType, LayoutType, FlagType, VideoFlush
  <2>2. CASE unit.group # map /\ Done /\ UNCHANGED <<found, silent, decoderVars>>
    BY <1>10, <2>2 DEF TypeOK, WorldType, DecoderType, GroupType, UnitType, LayoutType, FlagType, VideoFlush, Done, hostVars, netVars, layoutVars, flagVars, groupVars, decoderVars
  <2>3. CASE Waits /\ codec = "avc" /\ Reharvest(unit) /\ UNCHANGED <<found, silent>>
    <3>1. unit.canvas \in Canvases
      BY <2>1 DEF Units
    <3>2. CASE unit.parts = Parts /\ ~AllOf(params, unit.canvas)
      <4>1. /\ params' \in [Parts -> Canvases] /\ dpb' = {} /\ awaiting' = TRUE
            /\ videoPc' = "lower" /\ unit' = unit
        BY <2>3, <3>1, <3>2 DEF Reharvest, Restart
      <4> QED BY <1>10, <2>1, <2>3, <4>1
              DEF TypeOK, WorldType, DecoderType, GroupType, UnitType, LayoutType, FlagType, VideoFlush, Waits, hostVars, netVars, layoutVars, flagVars, groupVars
    <3>3. CASE ~(unit.parts = Parts /\ ~AllOf(params, unit.canvas))
      <4>1. Done /\ UNCHANGED decoderVars
        BY <2>3, <3>3 DEF Reharvest
      <4> QED BY <2>0, <2>3, <4>1
              DEF TypeOK, WorldType, DecoderType, GroupType, UnitType, LayoutType, FlagType, Done, hostVars, netVars, layoutVars, flagVars, groupVars, decoderVars
    <3> QED BY <3>2, <3>3
  <2>4. CASE Waits /\ codec = "hevc" /\ HarvestParamSets(unit) /\ UNCHANGED silent
    <3>1. unit.canvas \in Canvases
      BY <2>1 DEF Units
    <3>2. found' \in [Parts -> Canvases \cup {None}]
      BY <2>4, <3>1 DEF TypeOK, WorldType, DecoderType, GroupType, UnitType, LayoutType, FlagType, HarvestParamSets
    <3>3. Complete(found') => found' \in [Parts -> Canvases]
      BY <3>2 DEF Complete
    <3>4. CASE Complete(found')
      <4>1. /\ params' \in [Parts -> Canvases] /\ dpb' = {} /\ awaiting' = TRUE
            /\ videoPc' = "lower" /\ unit' = unit
        BY <2>4, <3>3, <3>4 DEF HarvestParamSets, Restart
      <4> QED BY <1>10, <2>1, <2>4, <3>2, <4>1
              DEF TypeOK, WorldType, DecoderType, GroupType, UnitType, LayoutType, FlagType, VideoFlush, Waits, hostVars, netVars, layoutVars, flagVars, groupVars
    <3>5. CASE ~Complete(found')
      <4>1. Done /\ UNCHANGED decoderVars
        BY <2>4, <3>5 DEF HarvestParamSets
      <4> QED BY <2>0, <2>4, <3>2, <4>1
              DEF TypeOK, WorldType, DecoderType, GroupType, UnitType, LayoutType, FlagType, Done, hostVars, netVars, layoutVars, flagVars, groupVars, decoderVars
    <3> QED BY <3>4, <3>5
  <2>5. CASE ~Waits /\ Feed(unit) /\ Done /\ UNCHANGED <<found, params>>
    <3>1. /\ dpb' \subseteq Groups /\ awaiting' \in BOOLEAN
          /\ awaiting' => dpb' = {}
          /\ silent' \in BOOLEAN
      BY <2>1, <2>5, FeedType
    <3> QED BY <1>10, <2>5, <3>1
            DEF TypeOK, WorldType, DecoderType, GroupType, UnitType, LayoutType, FlagType, VideoFlush, Done, hostVars, netVars, layoutVars, flagVars, groupVars
  <2> QED BY <1>10, <2>2, <2>3, <2>4, <2>5 DEF VideoFlush
<1>11. CASE VideoLower
  <2>1. slipped' \in BOOLEAN
    BY <1>11, Zenon DEF TypeOK, WorldType, DecoderType, GroupType, UnitType, LayoutType, FlagType, VideoLower
  <2> QED BY <1>11, <2>1
          DEF TypeOK, WorldType, DecoderType, GroupType, UnitType, LayoutType, FlagType, VideoLower, Waits, hostVars, netVars, layoutVars, groupVars, decoderVars
<1>12. CASE VideoFeed
  <2>1. /\ dpb' \subseteq Groups /\ awaiting' \in BOOLEAN
        /\ awaiting' => dpb' = {}
        /\ silent' \in BOOLEAN
    BY <1>12, FeedType DEF TypeOK, WorldType, DecoderType, GroupType, UnitType, LayoutType, FlagType, VideoFeed
  <2> QED BY <1>12, <2>1
          DEF TypeOK, WorldType, DecoderType, GroupType, UnitType, LayoutType, FlagType, VideoFeed, Done, hostVars, netVars, layoutVars, flagVars, groupVars
<1>13. CASE TcpLayout
  <2>1. /\ tcpPc' \in {"idle", "clear", "offer"}
        /\ canvas' = Head(tcp) /\ tcp' = Tail(tcp) /\ tcp # <<>>
        /\ UNCHANGED <<hostVars, offered, flight, asked, codec, postFir, found, groupVars,
                       silent, videoVars, decoderVars>>
    BY <1>13 DEF TcpLayout, TypeOK, WorldType, DecoderType, GroupType, UnitType, LayoutType, FlagType
  <2>2. Head(tcp) \in Canvases /\ tcp' \in Seq(Canvases)
    BY <2>1, Heads DEF TypeOK, WorldType, DecoderType, GroupType, UnitType, LayoutType, FlagType
  <2>3. WorldType'
    BY <2>1, <2>2, TypeParts DEF WorldType, hostVars, Units
  <2>4. LayoutType'
    BY <2>1, <2>2, TypeParts DEF LayoutType, videoVars
  <2>5. FlagType'
    <3>1. CASE Changed(Head(tcp))
      <4>1. /\ armed' = (armed \/ codec = "avc")
            /\ harvest' = (harvest \/ codec = "hevc")
            /\ slipped' = (slipped \/ (codec = "avc" /\ AllOf(params, Head(tcp))))
        BY <1>13, <3>1, Zenon DEF TcpLayout
      <4>2. /\ armed' \in BOOLEAN
            /\ harvest' \in BOOLEAN
            /\ slipped' \in BOOLEAN
        BY <4>1, Zenon
      <4>3. /\ armed' => codec = "avc"
            /\ harvest' => codec = "hevc"
            /\ videoPc = "lower" => Waits'
        <5>1. FlagType
          BY TypeParts
        <5>2. /\ armed => codec = "avc"
              /\ harvest => codec = "hevc"
              /\ videoPc = "lower" => Waits
          BY <5>1 DEF FlagType
        <5>3. armed' => codec = "avc"
          BY <4>1, <5>2, Zenon
        <5>4. harvest' => codec = "hevc"
          BY <4>1, <5>2, Zenon
        <5>5. /\ armed => armed'
              /\ harvest => harvest'
          BY <4>1, Zenon
        <5>6. videoPc = "lower" => Waits'
          BY <2>1, <5>2, <5>5, Zenon DEF Waits
        <5> QED BY <5>3, <5>4, <5>6
      <4>4. codec' = codec /\ videoPc' = videoPc /\ codec \in Codecs
        BY <2>1 DEF videoVars, TypeOK, WorldType, DecoderType, GroupType, UnitType, LayoutType, FlagType
      <4>5. /\ armed' => codec' = "avc"
            /\ harvest' => codec' = "hevc"
            /\ videoPc' = "lower" => Waits'
        BY <4>3, <4>4, Zenon
      <4> QED BY <4>2, <4>4, <4>5, Zenon DEF FlagType
    <3>2. CASE ~Changed(Head(tcp))
      <4>1. UNCHANGED <<flagVars, slipped>>
        BY <1>13, <3>2 DEF TcpLayout
      <4> QED BY <2>1, <4>1, TypeParts, FlagStands
    <3> QED BY <3>1, <3>2
  <2> QED
    BY <2>1, <2>3, <2>4, <2>5, TypeParts, TypeWhole, DecoderStands, GroupStands, UnitStands
<1>14. CASE TcpClear
  <2>1. /\ UNCHANGED <<hostVars, netVars, asked, codec, canvas, postFir, flagVars, groupVars,
                        silent, videoVars, decoderVars, slipped>>
        /\ tcpPc' = "offer" /\ found' = [p \in Parts |-> None]
    BY <1>14 DEF TcpClear
  <2>2. LayoutType'
    BY <2>1, TypeParts DEF LayoutType, videoVars
  <2>3. asked' \in BOOLEAN
    BY <2>1 DEF TypeOK, WorldType, DecoderType, GroupType, UnitType, LayoutType, FlagType
  <2> QED
    BY <2>1, <2>2, <2>3, TypeParts, TypeWhole, WorldStands, DecoderStands, GroupStands,
       UnitStands, FlagStands
<1>15. CASE TcpOffer
  <2>1. /\ UNCHANGED <<hostVars, tcp, flight, asked, codec, canvas, flagVars, found, groupVars,
                        silent, videoVars, decoderVars, slipped>>
        /\ tcpPc' = "idle" /\ postFir' = TRUE /\ offered' = TRUE
    BY <1>15 DEF TcpOffer
  <2>2. LayoutType'
    BY <2>1, TypeParts DEF LayoutType, videoVars
  <2>3. WorldType'
    BY <2>1, TypeParts DEF WorldType, hostVars, Units
  <2> QED
    BY <2>1, <2>2, <2>3, TypeParts, TypeWhole, DecoderStands, GroupStands, UnitStands, FlagStands
<1>16. CASE TxPostLayout
  <2>1. /\ UNCHANGED <<hostVars, netVars, codec, canvas, tcpPc, flagVars, found, groupVars,
                        silent, videoVars, decoderVars, slipped>>
        /\ asked' = TRUE /\ postFir' = FALSE
    BY <1>16 DEF TxPostLayout
  <2>2. LayoutType'
    BY <2>1, TypeParts DEF LayoutType, videoVars
  <2> QED
    BY <2>1, <2>2, TypeParts, TypeWhole, WorldStands, DecoderStands, GroupStands,
       UnitStands, FlagStands
<1>17. CASE TxStall
  <2>1. /\ dpb' \subseteq Groups /\ awaiting' \in BOOLEAN
        /\ awaiting' => dpb' = {}
    <3>1. CASE Restart
      BY <3>1 DEF Restart
    <3>2. CASE UNCHANGED <<dpb, awaiting>>
      BY <3>2 DEF TypeOK, WorldType, DecoderType, GroupType, UnitType, LayoutType, FlagType
    <3> QED BY <1>17, <3>1, <3>2 DEF TxStall
  <2>2. UNCHANGED <<hostVars, netVars, codec, layoutVars, flagVars, found, groupVars, silent,
                    videoVars, params, slipped>> /\ asked' = TRUE
    BY <1>17 DEF TxStall
  <2>3. DecoderType'
    BY <2>1, <2>2, TypeParts DEF DecoderType
  <2> QED
    BY <2>2, <2>3, TypeParts, TypeWhole, WorldStands, GroupStands, UnitStands, LayoutStands,
       FlagStands
<1>18. CASE Silence
  <2>1. UNCHANGED <<hostVars, netVars, asked, codec, layoutVars, flagVars, found, groupVars,
                    videoVars, decoderVars, slipped>> /\ silent' = TRUE
    BY <1>18 DEF Silence
  <2>2. LayoutType' /\ asked' \in BOOLEAN
    BY <2>1, TypeParts DEF LayoutType, layoutVars, videoVars, WorldType
  <2> QED
    BY <2>1, <2>2, TypeParts, TypeWhole, WorldStands, DecoderStands, GroupStands, UnitStands,
       FlagStands
<1>19. CASE UNCHANGED vars
  <2>1. /\ UNCHANGED <<hostVars, netVars, asked, codec, layoutVars, flagVars, found, groupVars>>
        /\ UNCHANGED <<silent, videoVars, decoderVars, slipped>>
    BY <1>19 DEF vars
  <2>2. asked' \in BOOLEAN
    BY <2>1 DEF TypeOK, WorldType, DecoderType, GroupType, UnitType, LayoutType, FlagType
  <2> QED
    BY <2>1, <2>2, TypeParts, TypeWhole, WorldStands, DecoderStands, GroupStands, UnitStands,
       LayoutStands, FlagStands
<1> QED
  BY <1>1, <1>2, <1>3, <1>5, <1>6, <1>7, <1>8, <1>9, <1>10, <1>11, <1>12, <1>13,
     <1>14, <1>15, <1>16, <1>17, <1>18, <1>19
  DEF Next, Host, Stream, Video, Tcp, Tx

(* The state is well-formed: only the codec's own flag is ever raised, and *)
(* the map is never a group that was given up.                             *)
THEOREM TypeCorrect == Spec => []TypeOK
BY TypeInit, TypeStep, PTL DEF Spec

-----------------------------------------------------------------------------
(* No return to a group that was given up. *)

(* Every group ever mapped is the present one or blacklisted. *)
UsedInv == used \subseteq blacklist \cup {map}

(* What a step does to the map: nothing, or an adoption. *)
LEMMA MapSteps ==
  ASSUME [Next]_vars
  PROVE  \/ UNCHANGED groupVars
         \/ VideoNote /\ UNCHANGED <<map, used, blacklist>>
         \/ VideoNote /\ \E g \in Groups : g # map /\ g \notin blacklist /\ Adopt(g)
<1>1. CASE VideoNote
  BY <1>1 DEF VideoNote, Candidates
<1>2. CASE Host \/ Stream \/ Tcp \/ Tx \/ Silence \/ UNCHANGED vars
  BY <1>2
  DEF Host, HostResizes, HostRestarts, HostRegroups, Stream, SendKey, AnswerKey, SendDelta,
      Send, Lose, Tcp, TcpLayout, TcpClear, TcpOffer, Tx, TxPostLayout, TxStall, Silence, vars
<1>3. CASE VideoFlush \/ VideoLower \/ VideoFeed
  BY <1>3 DEF VideoFlush, VideoLower, VideoFeed
<1> QED BY <1>1, <1>2, <1>3 DEF Next, Video

(* Every step keeps the use of the generations.                            *)
LEMMA UsedStep == UsedInv /\ [Next]_vars => UsedInv'
BY MapSteps DEF UsedInv, Adopt, groupVars

(* Whatever the threads do, a map is only ever replaced by a group the     *)
(* session has never mapped (_note_unknown_ssrc and its blacklist).        *)
THEOREM NoReturn == Spec => NoPingPong
<1>1. Init => UsedInv
  BY DEF Init, UsedInv
<1>2. UsedInv /\ [Next]_vars => [map' # map => map' \notin used]_vars
  BY MapSteps DEF UsedInv, Adopt, groupVars
<1> QED BY <1>1, <1>2, UsedStep, PTL DEF Spec, NoPingPong

-----------------------------------------------------------------------------
(* The separation of generations. *)

(* A unit that waits for its restart to be done is of the mapped group. *)
FedIsMapped == videoPc \in {"lower", "feed"} => unit.group = map

(* The inductive invariant of the generations.                             *)
GenInv == TypeOK /\ FedIsMapped /\ GenerationsApart

(* Every step feeds only units of a mapped stream.                         *)
LEMMA FedStep == FedIsMapped /\ [Next]_vars => FedIsMapped'
<1> SUFFICES ASSUME FedIsMapped, [Next]_vars PROVE FedIsMapped'
  OBVIOUS
<1>1. CASE Host \/ Stream \/ Tcp \/ Tx \/ Silence \/ UNCHANGED vars
  <2>1. UNCHANGED <<videoVars, groupVars>>
    BY <1>1
    DEF Host, HostResizes, HostRestarts, HostRegroups, Stream, SendKey, AnswerKey, SendDelta,
        Send, Lose, Tcp, TcpLayout, TcpClear, TcpOffer, Tx, TxPostLayout, TxStall, Silence, vars
  <2> QED BY <2>1 DEF FedIsMapped, videoVars, groupVars
<1>2. CASE VideoNote
  BY <1>2 DEF VideoNote, FedIsMapped
<1>3. CASE VideoFlush
  <2>1. map' = map
    BY <1>3 DEF VideoFlush, groupVars
  <2>2. CASE unit.group # map /\ Done
    BY <2>2 DEF Done, FedIsMapped
  <2>3. CASE unit.group = map /\ (Reharvest(unit) \/ HarvestParamSets(unit) \/ Done)
    <3>1. unit' = unit \/ videoPc' = "idle"
      BY <2>3 DEF Reharvest, HarvestParamSets, Done
    <3> QED BY <2>1, <2>3, <3>1 DEF FedIsMapped
  <2> QED BY <1>3, <2>2, <2>3 DEF VideoFlush
<1>4. CASE VideoLower \/ VideoFeed
  BY <1>4 DEF VideoLower, VideoFeed, Done, FedIsMapped, groupVars
<1> QED BY <1>1, <1>2, <1>3, <1>4 DEF Next, Video

(* Every step keeps the generations apart.                                 *)
LEMMA ApartStep == GenInv /\ [Next]_vars => GenerationsApart'
<1> SUFFICES ASSUME GenInv, [Next]_vars, codec' = "avc" PROVE dpb' \subseteq {map'}
  BY DEF GenerationsApart
<1>1. codec = "avc"
  BY DEF Next, Host, HostResizes, HostRestarts, HostRegroups, Stream, SendKey, AnswerKey,
         SendDelta, Send, Lose, Video, VideoNote, VideoFlush, VideoLower, VideoFeed, Tcp,
         TcpLayout, TcpClear, TcpOffer, Tx, TxPostLayout, TxStall, Silence, vars
<1>2. dpb \subseteq {map} /\ ~harvest
  BY <1>1 DEF GenInv, GenerationsApart, TypeOK, WorldType, DecoderType, GroupType, UnitType, LayoutType, FlagType
<1>3. CASE Host \/ Stream \/ Tcp \/ Silence \/ TxPostLayout \/ VideoLower \/ UNCHANGED vars
  <2>1. UNCHANGED <<map, dpb>>
    BY <1>3
    DEF Host, HostResizes, HostRestarts, HostRegroups, Stream, SendKey, AnswerKey, SendDelta,
        Send, Lose, Tcp, TcpLayout, TcpClear, TcpOffer, TxPostLayout, Silence, VideoLower, vars,
        decoderVars, groupVars
  <2> QED BY <1>2, <2>1
<1>4. CASE TxStall
  BY <1>2, <1>4 DEF TxStall, Restart, groupVars
<1>5. CASE VideoNote
  <2>1. CASE \E g \in Groups : Adopt(g)
    BY <1>1, <1>2, <2>1 DEF Adopt, AdoptRestarts, Restart
  <2>2. CASE UNCHANGED <<map, dpb>>
    BY <1>2, <2>2
  <2> QED BY <1>5, <2>1, <2>2 DEF VideoNote, Candidates
<1>6. ASSUME NEW u, u.group = map, Feed(u) PROVE dpb' \subseteq {map}
  BY <1>1, <1>2, <1>6 DEF Feed
<1>7. CASE VideoFlush
  <2>1. map' = map
    BY <1>7 DEF VideoFlush, groupVars
  <2>2. dpb' \subseteq {map}
    <3>1. CASE UNCHANGED dpb
      BY <1>2, <3>1
    <3>2. CASE dpb' = {}
      BY <3>2
    <3>3. CASE unit.group = map /\ Feed(unit)
      BY <1>6, <3>3
    <3> QED BY <1>7, <3>1, <3>2, <3>3
            DEF VideoFlush, Reharvest, HarvestParamSets, Restart, decoderVars
  <2> QED BY <2>1, <2>2
<1>8. CASE VideoFeed
  <2>1. unit.group = map /\ map' = map
    BY <1>8 DEF VideoFeed, GenInv, FedIsMapped, groupVars
  <2> QED BY <1>2, <1>6, <1>8, <2>1 DEF VideoFeed
<1> QED BY <1>3, <1>4, <1>5, <1>7, <1>8 DEF Next, Video, Tx

(* Whatever the order of units, layouts, restarts and adoptions, the AVC   *)
(* decoder never holds pictures of two SSRC generations.                   *)
THEOREM NeverMixed == Spec => []GenerationsApart
<1>1. Init => GenInv
  BY TypeInit DEF Init, GenInv, FedIsMapped, GenerationsApart
<1>2. GenInv /\ [Next]_vars => GenInv'
  BY TypeStep, FedStep, ApartStep DEF GenInv
<1>3. GenInv => GenerationsApart
  BY DEF GenInv
<1> QED BY <1>1, <1>2, <1>3, PTL DEF Spec

=============================================================================
