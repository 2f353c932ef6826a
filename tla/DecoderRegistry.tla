---------------------------- MODULE DecoderRegistry ----------------------------
(***************************************************************************)
(* Which codec and which decoder a session gets (media/registry.py, with   *)
(* the probes of media/hwcaps.py): the codec by what hardware can do, then *)
(* an override or the candidates in order, skipping what fails to start.   *)
(***************************************************************************)
EXTENDS Naturals

(* _REGISTRY, with the platforms a decoder is for, best first by kind and  *)
(* priority.                                                               *)
Entry(name, codec, kind, priority, on) ==
  [name |-> name, codec |-> codec, kind |-> kind, priority |-> priority, on |-> on]
Platforms == {"darwin", "win32", "linux"}
Registry == {
  Entry("vt", "hevc", "hardware", 100, {"darwin"}),
  Entry("libav", "hevc", "hardware", 60, Platforms),
  Entry("qsv", "hevc", "hardware", 50, {"win32", "linux"}),
  Entry("sw", "hevc", "software", 20, Platforms),
  Entry("avc", "avc", "hardware", 50, Platforms)}

VARIABLES
  machine,      \* what the probes find: platform, VideoToolbox, HEVC method
  wish,         \* what the user asked for: a codec or "auto", a decoder or none
  broken,       \* decoders that fail to start
  session,      \* the codec of the session
  ladder,       \* the decoders still to try
  built         \* the decoder, "none" so far

regVars == <<machine, wish, broken, session, ladder, built>>

Machines ==
  {m \in [platform : Platforms, vt : BOOLEAN, method : {"libav", "qsv", "none"}] :
     /\ m.vt => m.platform = "darwin"
     /\ m.method = "qsv" => m.platform # "darwin"}

Supported(s) == machine.platform \in s.on
Available(s) ==
  CASE s.name = "vt" -> machine.vt
    [] s.name = "libav" -> machine.method = "libav"
    [] s.name = "qsv" -> machine.method = "qsv"
    [] OTHER -> TRUE

Better(s, r) ==
  IF s.kind = r.kind THEN s.priority > r.priority ELSE s.kind = "hardware"
Candidates(c) == {s \in Registry : s.codec = c /\ Supported(s) /\ Available(s)}

(* resolve_codec *)
ResolveCodec ==
  /\ session = "none"
  /\ session' = IF wish.codec # "auto" THEN wish.codec
              ELSE IF \E s \in Candidates("hevc") : s.kind = "hardware" THEN "hevc" ELSE "avc"
  /\ UNCHANGED <<machine, wish, broken, ladder, built>>

(* normalize_override: "libav" is the decoder of the codec. *)
Override == IF wish.decoder = "libav" /\ session = "avc" THEN "avc" ELSE wish.decoder

(* The override, if this platform has it: of whichever codec, and available*)
(* or not.                                                                 *)
Asked == {s \in Registry : s.name = Override /\ Supported(s)}

(* The order in which they are tried. *)
Before(s, r) == s \in Asked \/ (r \notin Asked /\ Better(s, r))

(* Slip: an override is taken whatever the platform. *)
SelectSlip ==
  /\ session # "none" /\ ladder = {} /\ built = "none"
  /\ ladder' = {s \in Registry : s.name = Override} \cup Candidates(session)
  /\ UNCHANGED <<machine, wish, broken, session, built>>

(* select, and build_best's list. *)
Select ==
  /\ session # "none" /\ ladder = {} /\ built = "none"
  /\ ladder' = Asked \cup Candidates(session)
  /\ UNCHANGED <<machine, wish, broken, session, built>>

(* build_best: the first that starts, or none. *)
Build ==
  /\ built = "none"
  /\ \E s \in ladder :
       /\ \A r \in ladder \ {s} : Before(s, r)
       /\ IF s.name \in broken
          THEN ladder' = ladder \ {s} /\ built' = IF ladder' = {} THEN "nothing" ELSE built
          ELSE built' = s.name /\ UNCHANGED ladder
  /\ UNCHANGED <<machine, wish, broken, session>>

RegInit ==
  /\ machine \in Machines
  /\ wish \in [codec : {"auto", "hevc", "avc"}, decoder : {"none", "vt", "libav", "qsv", "sw"}]
  /\ broken \in SUBSET {"vt", "libav", "qsv"}
  /\ session = "none" /\ ladder = {} /\ built = "none"

RegNext == ResolveCodec \/ Select \/ Build

(* What a session gets starts on this platform, and unless it was asked for*)
(* nothing better for its codec that the probes found would have started.  *)
BestThatStarts ==
  built \notin {"none", "nothing"} =>
    LET got == CHOOSE s \in Registry : s.name = built
    IN  /\ Supported(got) /\ built \notin broken
        /\ built = Override
           \/ (got \in Candidates(session)
               /\ \A s \in Candidates(session) : Better(s, got) => s.name \in broken)
=============================================================================
