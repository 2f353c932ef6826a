--------------------------- MODULE StreamGeneration ---------------------------
(***************************************************************************)
(* How a session follows the host to a new picture size and to a new group *)
(* of SSRCs (proxy/session.py: _handle_fbu, _schedule_post_layout_arm,     *)
(* _maybe_reharvest_avc_config, _harvest_param_sets, _note_unknown_ssrc    *)
(* and the part of _flush_group between them).                             *)
(*                                                                         *)
(* The layout message comes over TCP and is handled by the tcp-rx thread;  *)
(* the stream comes over UDP to the video-process thread; the sender       *)
(* thread asks for keyframes.  They share flags without a lock.            *)
(*                                                                         *)
(* An access unit is one step here: AccessUnits shows how units are made   *)
(* from packets, Recovery how requests are paced.                          *)
(***************************************************************************)
EXTENDS Naturals, Sequences

CONSTANTS
  Codecs,      (* the codecs a session may run: "avc", "hevc"               *)
  Canvases,    (* backing sizes of the host's picture                       *)
  Groups,      (* groups of consecutive SSRCs, in SSRC order                *)
  FirstCanvas, FirstGroup,  (* what the session was connected with          *)
  Parts,       (* the parameter sets a decoder needs                        *)
  Threshold,   (* _DYNAMIC_SSRC_PACKET_THRESHOLD                            *)
  MaxFlight,   (* units in flight                                           *)
  MaxEvents,   (* resizes, agent switches and losses together               *)
  None

ASSUME GenerationAssumption ==
  /\ Codecs \subseteq {"avc", "hevc"} /\ Groups \subseteq Nat
  /\ FirstCanvas \in Canvases /\ FirstGroup \in Groups
  /\ None \notin Canvases /\ None \notin Groups
  /\ {Threshold, MaxFlight, MaxEvents} \subseteq Nat

VARIABLES
  (* the host and the network *)
  hostCanvas, hostGroups, streaming,
  offered,     (* a media offer the host has not answered                   *)
  asked,       (* a keyframe request the host has not answered              *)
  tcp,         (* layout messages under way                                 *)
  flight,      (* units under way                                           *)
  events,
  (* the session *)
  codec,
  canvas,      (* _runtime_canvas_w and _h                                  *)
  armed,       (* _avc_needs_reconfig                                       *)
  harvest,     (* _needs_param_harvest                                      *)
  found,       (* _harvest_vps, _harvest_sps, _harvest_pps                  *)
  postFir,     (* _needs_post_layout_fir                                    *)
  map,         (* the group in _ssrc_to_tile                                *)
  blacklist, counts,
  silent,      (* _last_publish_t is older than the thresholds              *)
  tcpPc, videoPc, unit,
  (* the decoder: its parameter sets, the groups in its DPB, its key gate   *)
  params, dpb, awaiting,
  (* history: groups ever mapped; a reconfigure that missed its layout      *)
  used, slipped

hostVars == <<hostCanvas, hostGroups, streaming, events>>
netVars == <<offered, tcp, flight>>
layoutVars == <<canvas, postFir, tcpPc>>
flagVars == <<armed, harvest>>
groupVars == <<map, blacklist, counts, used>>
decoderVars == <<params, dpb, awaiting>>
videoVars == <<videoPc, unit>>
vars == <<hostVars, netVars, asked, codec, layoutVars, flagVars, found,
          groupVars, silent, videoVars, decoderVars, slipped>>

Units == [group : Groups, canvas : Canvases, parts : SUBSET Parts, key : BOOLEAN]

AllOf(sets, c) == \A p \in Parts : sets[p] = c
Complete(sets) == \A p \in Parts : sets[p] # None

-----------------------------------------------------------------------------
(* The host and the network *)

(* A display change: a layout message, and no video until the media session*)
(* is offered again.                                                       *)
HostResizes ==
  /\ events < MaxEvents /\ events' = events + 1
  /\ \E c \in Canvases \ {hostCanvas} : hostCanvas' = c /\ tcp' = Append(tcp, c)
  /\ streaming' = FALSE
  /\ UNCHANGED <<hostGroups, offered, flight, asked, codec,
                 layoutVars, flagVars, found, groupVars, silent, videoVars,
                 decoderVars, slipped>>

HostRestarts ==
  /\ offered /\ offered' = FALSE
  /\ streaming' = TRUE
  /\ UNCHANGED <<hostCanvas, hostGroups, events, tcp, flight,
                 asked, codec, layoutVars, flagVars, found, groupVars, silent,
                 videoVars, decoderVars, slipped>>

(* An agent switch: other groups, for a while perhaps two at once.         *)
HostRegroups ==
  /\ events < MaxEvents /\ events' = events + 1
  /\ hostGroups' \in (SUBSET Groups) \ {{}, hostGroups}
  /\ UNCHANGED <<hostCanvas, streaming, netVars, asked, codec, layoutVars,
                 flagVars, found, groupVars, silent, videoVars, decoderVars, slipped>>

Send(g, parts, key) ==
  /\ streaming /\ Len(flight) < MaxFlight
  /\ flight' = Append(flight, [group |-> g, canvas |-> hostCanvas,
                               parts |-> parts, key |-> key])
  /\ UNCHANGED <<hostVars, offered, tcp, codec, layoutVars, flagVars, found,
                 groupVars, silent, videoVars, decoderVars, slipped>>

SendDelta(g) == g \in hostGroups /\ Send(g, {}, FALSE) /\ UNCHANGED asked

(* A keyframe nobody asked for.  AVC sends the config with it; HEVC may    *)
(* spread the sets over units, and some of them may be lost.               *)
SendKey ==
  \E g \in hostGroups, key \in BOOLEAN :
    \E parts \in IF codec = "hevc" THEN (SUBSET Parts) \ {{}} ELSE {Parts} :
      Send(g, parts, key) /\ UNCHANGED asked

(* A request names the SSRCs of the map.                                   *)
AnswerKey ==
  /\ asked /\ map \in hostGroups /\ asked' = FALSE
  /\ Send(map, Parts, TRUE)

Lose ==
  /\ events < MaxEvents /\ events' = events + 1
  /\ \/ flight # <<>> /\ flight' = Tail(flight) /\ UNCHANGED asked
     \/ asked /\ asked' = FALSE /\ UNCHANGED flight
  /\ UNCHANGED <<hostCanvas, hostGroups, streaming, offered, tcp, codec, layoutVars, flagVars, found,
                 groupVars, silent, videoVars, decoderVars, slipped>>

-----------------------------------------------------------------------------
(* The decoder *)

Restart == dpb' = {} /\ awaiting' = TRUE

(* A recovery picture of AVC is no IDR and leaves the DPB as it is.        *)
Feed(u) ==
  IF u.key \/ ~awaiting
  THEN /\ awaiting' = FALSE
       /\ dpb' = (IF u.key /\ codec = "hevc" THEN {} ELSE dpb) \cup {u.group}
       /\ silent' = (silent /\ ~AllOf(params, u.canvas))
  ELSE UNCHANGED <<awaiting, dpb, silent>>

-----------------------------------------------------------------------------
(* The video-process thread *)

Candidates(heard) ==
  {g \in Groups : g # map /\ g \notin blacklist /\ heard[g] >= Threshold}

(* Slip: a rapid change of AVC groups keeps the decoder as well.           *)
AdoptRestartsSlip(rested) == ~harvest /\ rested

(* rested: no restart within three seconds.                                *)
AdoptRestarts(rested) == ~harvest /\ (codec = "avc" \/ rested)

(* Slip: the map is replaced before its groups are blacklisted.            *)
AdoptSlip(g) ==
  /\ map' = g /\ used' = used \cup {g}
  /\ blacklist' = blacklist \cup {g}
  /\ silent' = FALSE /\ asked' = TRUE
  /\ \E rested \in BOOLEAN :
       IF AdoptRestarts(rested) THEN Restart ELSE UNCHANGED <<dpb, awaiting>>

Adopt(g) ==
  /\ map' = g /\ used' = used \cup {g}
  /\ blacklist' = blacklist \cup {map}
  /\ silent' = FALSE /\ asked' = TRUE
  /\ \E rested \in BOOLEAN :
       IF AdoptRestarts(rested) THEN Restart ELSE UNCHANGED <<dpb, awaiting>>

(* _note_unknown_ssrc *)
VideoNote ==
  /\ videoPc = "idle" /\ flight # <<>>
  /\ videoPc' = "flush" /\ unit' = Head(flight) /\ flight' = Tail(flight)
  /\ LET g == Head(flight).group
         heard == [counts EXCEPT ![g] =
                     IF g # map /\ @ < Threshold THEN @ + 1 ELSE @]
     IN /\ counts' = heard
        /\ IF g # map /\ silent /\ Candidates(heard) # {}
           THEN \E new \in Candidates(heard) :
                  (\A h \in Candidates(heard) : new <= h) /\ Adopt(new)
           ELSE UNCHANGED <<map, used, blacklist, silent, asked, dpb, awaiting>>
  /\ UNCHANGED <<hostVars, offered, tcp, codec, layoutVars, flagVars, found,
                 params, slipped>>

Done == videoPc' = "idle" /\ unit' = None

(* Units wait for the parameter sets of a new picture.                     *)
Waits == IF codec = "avc" THEN armed ELSE harvest

(* _maybe_reharvest_avc_config up to the restart.                          *)
Reharvest(u) ==
  IF u.parts = Parts /\ ~AllOf(params, u.canvas)
  THEN /\ params' = [p \in Parts |-> u.canvas] /\ Restart
       /\ videoPc' = "lower" /\ UNCHANGED unit
  ELSE Done /\ UNCHANGED decoderVars

(* _harvest_param_sets up to the restart.  What was found is kept.         *)
HarvestParamSets(u) ==
  /\ found' = [p \in Parts |-> IF p \in u.parts THEN u.canvas ELSE found[p]]
  /\ IF Complete(found')
     THEN params' = found' /\ Restart /\ videoPc' = "lower" /\ UNCHANGED unit
     ELSE Done /\ UNCHANGED decoderVars

(* _flush_group *)
VideoFlush ==
  /\ videoPc = "flush"
  /\ \/ /\ unit.group # map
        /\ Done /\ UNCHANGED <<found, silent, decoderVars>>
     \/ /\ unit.group = map /\ Waits /\ codec = "avc"
        /\ Reharvest(unit) /\ UNCHANGED <<found, silent>>
     \/ /\ unit.group = map /\ Waits /\ codec = "hevc"
        /\ HarvestParamSets(unit) /\ UNCHANGED silent
     \/ /\ unit.group = map /\ ~Waits
        /\ Feed(unit) /\ Done /\ UNCHANGED <<found, params>>
  /\ UNCHANGED <<hostVars, netVars, asked, codec, layoutVars, flagVars, groupVars,
                 slipped>>

(* After the restart: the flag comes down, whatever tcp-rx did meanwhile.  *)
VideoLower ==
  /\ videoPc = "lower" /\ videoPc' = "feed"
  /\ IF codec = "avc" THEN armed' = FALSE /\ UNCHANGED harvest
                      ELSE harvest' = FALSE /\ UNCHANGED armed
  /\ asked' = TRUE
  /\ slipped' = (slipped \/ ~AllOf(params, canvas))
  /\ UNCHANGED <<hostVars, netVars, codec, layoutVars, found, groupVars, silent,
                 unit, decoderVars>>

VideoFeed ==
  /\ videoPc = "feed" /\ Done
  /\ IF Waits THEN UNCHANGED <<awaiting, dpb, silent>> ELSE Feed(unit)
  /\ UNCHANGED <<hostVars, netVars, asked, codec, layoutVars, flagVars, found,
                 groupVars, params, slipped>>

-----------------------------------------------------------------------------
(* The tcp-rx thread: a layout message *)

Changed(c) == canvas # None /\ canvas # c

(* Slip: the harvest is flagged for every codec.                           *)
TcpLayoutSlip ==
  /\ tcpPc = "idle" /\ tcp # <<>>
  /\ tcp' = Tail(tcp) /\ canvas' = Head(tcp)
  /\ IF Changed(Head(tcp))
     THEN /\ armed' = (armed \/ codec = "avc") /\ harvest' = TRUE
          /\ tcpPc' = IF codec = "hevc" THEN "clear" ELSE "offer"
          /\ slipped' = (slipped \/ (codec = "avc" /\ AllOf(params, Head(tcp))))
     ELSE UNCHANGED <<flagVars, tcpPc, slipped>>
  /\ UNCHANGED <<hostVars, offered, flight, asked, codec, postFir, found,
                 groupVars, silent, videoVars, decoderVars>>

TcpLayout ==
  /\ tcpPc = "idle" /\ tcp # <<>>
  /\ tcp' = Tail(tcp) /\ canvas' = Head(tcp)
  /\ IF Changed(Head(tcp))
     THEN /\ armed' = (armed \/ codec = "avc")
          /\ harvest' = (harvest \/ codec = "hevc")
          /\ tcpPc' = IF codec = "hevc" THEN "clear" ELSE "offer"
          /\ slipped' = (slipped \/ (codec = "avc" /\ AllOf(params, Head(tcp))))
     ELSE UNCHANGED <<flagVars, tcpPc, slipped>>
  /\ UNCHANGED <<hostVars, offered, flight, asked, codec, postFir, found,
                 groupVars, silent, videoVars, decoderVars>>

(* The accumulators are emptied after the flag was raised.                 *)
TcpClear ==
  /\ tcpPc = "clear" /\ tcpPc' = "offer"
  /\ found' = [p \in Parts |-> None]
  /\ UNCHANGED <<hostVars, netVars, asked, codec, canvas, postFir, flagVars,
                 groupVars, silent, videoVars, decoderVars, slipped>>

(* Slip: only HEVC offers the media session again.                         *)
TcpOfferSlip ==
  /\ tcpPc = "offer" /\ tcpPc' = "idle"
  /\ offered' = (offered \/ codec = "hevc") /\ postFir' = TRUE
  /\ UNCHANGED <<hostVars, tcp, flight, asked, codec, canvas, flagVars, found,
                 groupVars, silent, videoVars, decoderVars, slipped>>

(* _schedule_post_layout_arm *)
TcpOffer ==
  /\ tcpPc = "offer" /\ tcpPc' = "idle"
  /\ offered' = TRUE /\ postFir' = TRUE
  /\ UNCHANGED <<hostVars, tcp, flight, asked, codec, canvas, flagVars, found,
                 groupVars, silent, videoVars, decoderVars, slipped>>

-----------------------------------------------------------------------------
(* The sender thread, and time *)

TxPostLayout ==
  /\ postFir /\ postFir' = FALSE /\ asked' = TRUE
  /\ UNCHANGED <<hostVars, netVars, codec, canvas, tcpPc, flagVars, found, groupVars,
                 silent, videoVars, decoderVars, slipped>>

(* _check_stall: a request, after a longer silence with a restart.         *)
TxStall ==
  /\ silent /\ asked' = TRUE
  /\ Restart \/ UNCHANGED <<dpb, awaiting>>
  /\ UNCHANGED <<hostVars, netVars, codec, layoutVars, flagVars, found, groupVars,
                 silent, videoVars, params, slipped>>

(* Nothing was published for a while; a still screen is silent too.        *)
Silence ==
  /\ ~silent /\ silent' = TRUE
  /\ UNCHANGED <<hostVars, netVars, asked, codec, layoutVars, flagVars, found,
                 groupVars, videoVars, decoderVars, slipped>>

-----------------------------------------------------------------------------

Init ==
  /\ codec \in Codecs
  /\ hostCanvas = FirstCanvas /\ hostGroups = {FirstGroup}
  /\ streaming = TRUE /\ offered = FALSE /\ asked = FALSE
  /\ tcp = <<hostCanvas>> /\ flight = <<>>
  /\ events = 0
  /\ canvas = None /\ armed = FALSE /\ harvest = FALSE
  /\ found = [p \in Parts |-> None] /\ postFir = FALSE
  /\ map = FirstGroup /\ used = {FirstGroup}
  /\ blacklist = {} /\ counts = [g \in Groups |-> 0]
  /\ silent = FALSE
  /\ tcpPc = "idle" /\ videoPc = "idle" /\ unit = None
  /\ params = [p \in Parts |-> hostCanvas]
  /\ dpb = {} /\ awaiting = TRUE
  /\ slipped = FALSE

Host == HostRestarts \/ HostResizes \/ HostRegroups
Stream == SendKey \/ AnswerKey \/ (\E g \in Groups : SendDelta(g)) \/ Lose
Video == VideoNote \/ VideoFlush \/ VideoLower \/ VideoFeed
Tcp == TcpLayout \/ TcpClear \/ TcpOffer
Tx == TxPostLayout \/ TxStall

Next == Host \/ Stream \/ Video \/ Tcp \/ Tx \/ Silence

Spec == Init /\ [][Next]_vars

(* Nothing can be published.                                               *)
Blocked ==
  Waits \/ awaiting \/ map \notin hostGroups \/ ~AllOf(params, hostCanvas)

(* Threads run, time passes, and the host restarts when offered, keeps     *)
(* sending every group and answers requests that reach it.                 *)
FairSpec ==
  /\ Spec
  /\ WF_vars(HostRestarts) /\ WF_vars(Video) /\ WF_vars(Tcp)
  /\ WF_vars(TxPostLayout) /\ WF_vars(TxStall /\ ~asked)
  /\ WF_vars(Silence /\ Blocked)
  /\ SF_vars(AnswerKey) /\ \A g \in Groups : SF_vars(SendDelta(g))

-----------------------------------------------------------------------------
(* Properties *)

(* Only the codec's own flag is ever raised, a flag that is being lowered  *)
(* was raised, and the map is never a group that was given up.             *)
WorldType ==
  /\ hostCanvas \in Canvases /\ hostGroups \subseteq Groups
  /\ tcp \in Seq(Canvases) /\ flight \in Seq(Units)
  /\ streaming \in BOOLEAN /\ offered \in BOOLEAN /\ asked \in BOOLEAN
  /\ events \in 0 .. MaxEvents
DecoderType ==
  /\ params \in [Parts -> Canvases] /\ dpb \subseteq Groups
  /\ awaiting \in BOOLEAN
  /\ awaiting => dpb = {}
GroupType ==
  /\ blacklist \subseteq used /\ used \subseteq Groups /\ map \in used \ blacklist
  /\ counts \in [Groups -> 0 .. Threshold]
UnitType == IF videoPc = "idle" THEN unit = None ELSE unit \in Units
LayoutType ==
  /\ canvas \in Canvases \cup {None} /\ found \in [Parts -> Canvases \cup {None}]
  /\ postFir \in BOOLEAN /\ silent \in BOOLEAN
  /\ tcpPc \in {"idle", "clear", "offer"}
  /\ videoPc \in {"idle", "flush", "lower", "feed"}
FlagType ==
  /\ codec \in Codecs /\ armed \in BOOLEAN /\ harvest \in BOOLEAN /\ slipped \in BOOLEAN
  /\ armed => codec = "avc"
  /\ harvest => codec = "hevc"
  /\ videoPc = "lower" => Waits
TypeOK ==
  WorldType /\ DecoderType /\ GroupType /\ UnitType /\ LayoutType /\ FlagType

(* The comment of _note_unknown_ssrc: an AVC DPB never holds pictures of   *)
(* two SSRC generations, whenever the units of each arrive and whatever is *)
(* restarted meanwhile.                                                    *)
GenerationsApart == codec = "avc" => dpb \subseteq {map}

(* A group that was given up never comes back (the blacklist).             *)
NoPingPong == [][map' # map => map' \notin used]_vars

(* The host keeps sending a group that the session has not given up.       *)
Reachable == <>[]~(hostGroups \subseteq blacklist)

(* A raised flag comes down under every order of layouts, parameter sets,  *)
(* groups and losses, unless the host keeps the parameters already in use. *)
ReconfigureEnds ==
  Reachable => []<>(~harvest /\ (armed => AllOf(params, hostCanvas)))

Followed ==
  map \in hostGroups /\ ~armed /\ ~harvest /\ AllOf(params, hostCanvas)

(* The decoder ends with the parameters of the host's picture, whatever    *)
(* happens, unless a reconfigure missed its layout on the way.             *)
ResizeFollows == Reachable /\ []~slipped => <>[]Followed

(* _flush_group: "The post-layout FIR makes Apple repeat the               *)
(* config/keyframe; resume only after" it is installed.                    *)
EveryResizeFollows == Reachable => <>[]Followed
=============================================================================
