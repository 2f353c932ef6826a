------------------------------- MODULE HevcStart -------------------------------
(***************************************************************************)
(* How the decoder of media/hevc.py gets its codec: the accelerators of    *)
(* the platform in order, else software; then the units of the initial     *)
(* burst, decoded at once on the connecting thread to see whether the      *)
(* accelerator works.  If it does not, the codec is replaced and the burst *)
(* decoded again.                                                          *)
(*                                                                         *)
(* Whether an accelerator opens, binds to the stream and decodes a unit is *)
(* a choice; a unit without a root gives no picture.                       *)
(***************************************************************************)
EXTENDS Naturals, Sequences

CONSTANTS
  Tiles,          \* the tiles; 0 is the one the host sends IDRs on
  Accels,         \* bound: accelerators of a platform
  BurstEvery,     \* units between two checks: eight rounds
  BurstErrors,    \* _HWACCEL_BURST_ERROR_THRESHOLD
  BurstWindow,    \* _HWACCEL_BURST_ERROR_WINDOW
  BurstMin,       \* _HWACCEL_BURST_MIN_FRAMES
  MaxBurst,       \* bound: units in the burst
  MaxAgain        \* bound: restarts

StartAssumption ==
  /\ 0 \in Tiles
  /\ BurstEvery \in Nat \ {0}
  /\ {Accels, BurstErrors, BurstWindow, BurstMin, MaxBurst, MaxAgain} \subseteq Nat

Software == 0     \* no accelerator: _hw_name is None

VARIABLES
  prefer,       \* _prefer_hwaccel
  gaveUp,       \* _hw_failed
  offers,     \* accelerators of this platform
  trying,       \* the next of them to open
  accel,        \* _hw_name
  startPc, resumes,  \* where start, feed_burst or restart is, and what follows
  burst, next,  \* the units of the burst, and the one to be decoded next
  isHw, expected, rootedTiles, goodAt,  \* locals of feed_burst
  good,         \* the sum of good_count
  again,        \* restarts so far
  offered       \* history: units of the burst the codec was offered

codecVars == <<prefer, gaveUp, offers, trying, accel>>
countVars == <<isHw, expected, rootedTiles, goodAt>>
startVars == <<codecVars, startPc, resumes, burst, next, countVars, good, again, offered>>

BurstUnits == [tile : Tiles, key : {FALSE}] \cup [tile : {0}, key : {TRUE}]
Bursts == UNION {[1 .. n -> BurstUnits] : n \in 0 .. MaxBurst}

(* _create_codec begins: a codec that must not be accelerated tries none.  *)
Create(force, after) ==
  /\ startPc' = "create" /\ resumes' = after
  /\ trying' = IF force \/ ~prefer \/ gaveUp' THEN offers + 1 ELSE 1
  /\ good' = 0 /\ offered' = <<>>

(* _try_hwaccel, _make_sw_context, _install_codec. *)
TryHwaccel ==
  /\ startPc = "create"
  /\ \/ /\ trying <= offers
        /\ trying' = trying + 1 /\ UNCHANGED <<accel, startPc>>
     \/ /\ accel' = IF trying <= offers THEN trying ELSE Software
        /\ startPc' = resumes /\ UNCHANGED trying
  /\ UNCHANGED <<prefer, gaveUp, offers, resumes, burst, next, countVars, good, again,
                 offered>>

(* _decode_one of the unit at hand, as far as the burst looks at it: with  *)
(* a root it may give a picture, and the first picture of a codec shows    *)
(* whether the accelerator is bound (_publish_frame).                      *)
DecodeOne ==
  LET rooted == burst[next].key \/ \E i \in 1 .. Len(offered) : burst[offered[i]].key
  IN  /\ offered' = Append(offered, next) /\ next' = next + 1
      /\ \/ rooted /\ good' = good + 1
         \/ good' = good
      /\ \/ UNCHANGED accel
         \/ good = 0 /\ good' = 1 /\ accel' = Software

BurstBegin ==
  /\ startPc = "begin"
  /\ burst' \in Bursts /\ next' = 1
  /\ startPc' = IF burst' = <<>> THEN "live" ELSE "burst"
  /\ isHw' = (accel # Software) /\ expected' = 0 /\ rootedTiles' = {} /\ goodAt' = good
  /\ UNCHANGED <<codecVars, resumes, good, again, offered>>

(* A round of feed_burst: a unit counts if its tile had an IDR.            *)
BurstUnit ==
  /\ startPc = "burst" /\ next <= Len(burst)
  /\ rootedTiles' = IF burst[next].key THEN rootedTiles \cup {burst[next].tile} ELSE rootedTiles
  /\ expected' = IF burst[next].tile \in rootedTiles' THEN expected + 1 ELSE expected
  /\ DecodeOne
  /\ startPc' = IF isHw /\ next % BurstEvery = 0 THEN "check" ELSE "burst"
  /\ UNCHANGED <<prefer, gaveUp, offers, trying, resumes, burst, isHw, goodAt, again>>

(* Slip: the burst goes on where it was, on the new codec. *)
FallbackToSoftwareSlip ==
  /\ gaveUp' = TRUE
  /\ Create(TRUE, "burst")
  /\ UNCHANGED <<prefer, offers, accel, burst, next, countVars, again>>

(* _fallback_to_software: for good, and with the whole burst once more.    *)
FallbackToSoftware ==
  /\ gaveUp' = TRUE
  /\ Create(TRUE, "refeed") /\ next' = 1
  /\ UNCHANGED <<prefer, offers, accel, burst, countVars, again>>

(* More pictures than expected hide errors of other tiles. *)
Errors == IF expected > good - goodAt THEN expected - (good - goodAt) ELSE 0

GoesTo(pc) ==
  /\ startPc' = pc
  /\ UNCHANGED <<codecVars, resumes, burst, next, countVars, good, again, offered>>

BurstCheck ==
  /\ startPc = "check"
  /\ IF Errors > BurstErrors /\ expected > BurstWindow
     THEN FallbackToSoftware ELSE GoesTo("burst")

BurstEnd ==
  /\ startPc = "burst" /\ next > Len(burst)
  /\ IF isHw /\ expected > BurstWindow /\ good < BurstMin
     THEN FallbackToSoftware ELSE GoesTo("live")

Refeed ==
  /\ startPc = "refeed"
  /\ IF next > Len(burst) THEN GoesTo("live")
     ELSE /\ DecodeOne
          /\ UNCHANGED <<prefer, gaveUp, offers, trying, startPc, resumes, burst,
                         countVars, again>>

(* restart: the burst is not decoded again. *)
RestartCodec ==
  /\ startPc = "live" /\ again < MaxAgain /\ again' = again + 1
  /\ UNCHANGED gaveUp /\ Create(gaveUp, "live")
  /\ UNCHANGED <<prefer, offers, accel, burst, next, countVars>>

-----------------------------------------------------------------------------

(* start() runs _create_codec. *)
StartInit ==
  /\ prefer \in BOOLEAN /\ gaveUp = FALSE /\ offers \in 0 .. Accels
  /\ trying = IF prefer THEN 1 ELSE offers + 1
  /\ accel = Software /\ startPc = "create" /\ resumes = "begin"
  /\ burst = <<>> /\ next = 1 /\ good = 0 /\ again = 0 /\ offered = <<>>
  /\ isHw = FALSE /\ expected = 0 /\ rootedTiles = {} /\ goodAt = 0

StartNext ==
  \/ TryHwaccel
  \/ BurstBegin \/ BurstUnit \/ BurstCheck \/ BurstEnd \/ Refeed
  \/ RestartCodec

-----------------------------------------------------------------------------

StartTypeOK ==
  /\ {prefer, gaveUp, isHw} \subseteq BOOLEAN
  /\ offers \in 0 .. Accels /\ accel \in 0 .. offers
  /\ startPc \in {"create", "begin", "burst", "check", "refeed", "live"}
  /\ next \in 1 .. Len(burst) + 1 /\ rootedTiles \subseteq Tiles
  /\ good \in 0 .. Len(burst) /\ again \in 0 .. MaxAgain

(* Whichever codec is left when the burst is over was given all of it, in  *)
(* its order and each unit once (feed_burst, _fallback_to_software); one   *)
(* that lost most of it is not accelerated; and an accelerator that was    *)
(* given up, or not wanted, does not come back with a restart.             *)
BurstDecoded ==
  /\ startPc = "live" /\ again = 0 => offered = [i \in 1 .. Len(burst) |-> i]
  /\ startPc = "live" /\ again = 0 /\ accel # Software =>
       expected <= BurstWindow \/ good >= BurstMin
  /\ (gaveUp \/ ~prefer) /\ startPc # "create" => accel = Software
=============================================================================
