------------------------------ MODULE PageHealth ------------------------------
(***************************************************************************)
(* What the bridge makes of the reports its pages send every second        *)
(* (handle_input_event, "stats", in frontend/wt/server.py): a page tells   *)
(* what its canvas looks like, and a grey canvas is either a broken        *)
(* picture or a grey desktop.  The bridge asks the host for an intra when  *)
(* grey is reported twice in a row soon after a packet was lost.  Its      *)
(* notes are shared by all pages.                                          *)
(*                                                                         *)
(* A tick is the second between two reports of a page; a page in a hidden  *)
(* tab, whose timer the browser slows down, is not a page here.            *)
(***************************************************************************)
EXTENDS Naturals

CONSTANTS
  Pages,
  Recent,         (* 5 s: how long a loss explains a grey canvas              *)
  ForceEvery,     (* 3 s between two requests                                 *)
  MaxLost,        (* bound: packets lost                                      *)
  MaxGrey,        (* bound: times the desktop turns grey                      *)
  MaxDown,        (* bound: sessions that end                                 *)
  Unseen          (* no report has looked at the loss counter yet             *)

HealthAssumption ==
  /\ {Recent, ForceEvery, MaxLost, MaxGrey, MaxDown} \subseteq Nat
  /\ ForceEvery < Recent /\ Unseen \notin Nat

VARIABLES
  pages,          (* tabs that are open                                       *)
  broken,         (* those whose canvas is grey for want of a reference       *)
  grey,           (* the desktop itself is grey                               *)
  reported,       (* tabs whose report of this second is there                *)
  up,             (* _session is set                                          *)
  lostPkts,       (* _lost_pkts of the session                                *)
  lastSeenLoss,   (* _last_seen_loss                                          *)
  sinceLoss,      (* age of _last_browser_loss_t                              *)
  stuckStreak,    (* _stuck_streak, as far as it is compared                  *)
  sinceForced,    (* age of _last_browser_fir_t                               *)
  owed,           (* the host has been asked for an intra                     *)
  losses, greys, downs,  (* lost, turned grey, ended so far                   *)
  sinceReal       (* history: age of the last packet lost                     *)

worldVars == <<pages, broken, grey, losses, greys, downs>>
noteVars == <<lastSeenLoss, sinceLoss, stuckStreak, sinceForced>>
healthVars == <<worldVars, reported, up, lostPkts, noteVars, owed, sinceReal>>

-----------------------------------------------------------------------------
(* The host, the network and the pages *)

(* A packet of video is lost: the repair succeeds, or all pictures break.  *)
Lose ==
  /\ up /\ losses < MaxLost /\ losses' = losses + 1
  /\ lostPkts' = lostPkts + 1 /\ sinceReal' = 0
  /\ broken' \in {broken, pages}
  /\ UNCHANGED <<pages, grey, greys, downs, reported, up, noteVars, owed>>

(* The window of the desktop is grey for a while. *)
TurnGrey ==
  /\ grey' = ~grey /\ (grey' => greys < MaxGrey)
  /\ greys' = IF grey' THEN greys + 1 ELSE greys
  /\ UNCHANGED <<pages, broken, losses, downs, reported, up, lostPkts, noteVars,
                 owed, sinceReal>>

(* An intra that was asked for mends every page. *)
Answered ==
  /\ owed /\ up /\ owed' = FALSE /\ broken' = {}
  /\ UNCHANGED <<pages, grey, losses, greys, downs, reported, up, lostPkts,
                 noteVars, sinceReal>>

(* The session goes, and the notes stay with the bridge. *)
SessionDown ==
  /\ up /\ downs < MaxDown /\ downs' = downs + 1
  /\ up' = FALSE /\ lostPkts' = 0 /\ owed' = FALSE
  /\ UNCHANGED <<pages, broken, grey, losses, greys, reported, noteVars, sinceReal>>

(* The config of the next one builds the pages' decoders anew. *)
SessionUp ==
  /\ ~up /\ up' = TRUE /\ broken' = {}
  /\ UNCHANGED <<pages, grey, losses, greys, downs, reported, lostPkts, noteVars, owed,
                 sinceReal>>

-----------------------------------------------------------------------------
(* The report of a page *)

(* Grey is grey, whatever made it so; anything else is a good picture or   *)
(* one that does not move (NO_FRAMES, DECODE_LAG), which asks nothing.     *)
Stuck(p) == p \in broken \/ grey

(* Slip: the counter is compared with the one of the first report.         *)
NoteLossSlip ==
  /\ lastSeenLoss' = IF lastSeenLoss = Unseen THEN lostPkts ELSE lastSeenLoss
  /\ sinceLoss' = IF lastSeenLoss # Unseen /\ lostPkts > lastSeenLoss THEN 0 ELSE sinceLoss

(* The first report has nothing to compare the counter with. *)
NoteLoss ==
  /\ lastSeenLoss' = lostPkts
  /\ sinceLoss' = IF lastSeenLoss # Unseen /\ lostPkts > lastSeenLoss THEN 0 ELSE sinceLoss

Force(streak) == up /\ streak >= 2 /\ sinceForced >= ForceEvery

HandleStats(p) ==
  /\ p \in pages \ reported /\ reported' = reported \cup {p}
  /\ NoteLoss
  /\ stuckStreak' = IF sinceLoss' < Recent /\ Stuck(p)
                    THEN IF stuckStreak < 2 THEN stuckStreak + 1 ELSE 2
                    ELSE 0
  /\ IF Force(stuckStreak')
     THEN sinceForced' = 0 /\ owed' = TRUE
     ELSE UNCHANGED <<sinceForced, owed>>
  /\ UNCHANGED <<worldVars, up, lostPkts, sinceReal>>

Older(age, cap) == IF age < cap THEN age + 1 ELSE cap

(* A second in which every page has reported. *)
Second ==
  /\ reported = pages /\ reported' = {}
  /\ sinceLoss' = Older(sinceLoss, Recent)
  /\ sinceForced' = Older(sinceForced, ForceEvery)
  /\ sinceReal' = Older(sinceReal, Recent + 1)
  /\ UNCHANGED <<worldVars, up, lostPkts, lastSeenLoss, stuckStreak, owed>>

-----------------------------------------------------------------------------

HealthInit ==
  /\ pages \in (SUBSET Pages) \ {{}} /\ broken = {} /\ grey = FALSE /\ reported = {}
  /\ up = TRUE /\ lostPkts = 0 /\ lastSeenLoss = Unseen
  /\ sinceLoss = Recent /\ sinceForced = ForceEvery /\ sinceReal = Recent + 1
  /\ stuckStreak = 0 /\ owed = FALSE
  /\ losses = 0 /\ greys = 0 /\ downs = 0

HealthNext ==
  \/ Lose \/ TurnGrey \/ Answered \/ SessionDown \/ SessionUp
  \/ \E p \in Pages : HandleStats(p)
  \/ Second

(* The pages' timers run. *)
Reports == Second \/ \E p \in Pages : HandleStats(p)

-----------------------------------------------------------------------------

HealthTypeOK ==
  /\ pages \subseteq Pages /\ broken \subseteq pages /\ reported \subseteq pages
  /\ {grey, up, owed} \subseteq BOOLEAN
  /\ lostPkts \in 0 .. MaxLost /\ lastSeenLoss \in 0 .. MaxLost \cup {Unseen}
  /\ sinceLoss \in 0 .. Recent /\ sinceForced \in 0 .. ForceEvery
  /\ stuckStreak \in 0 .. 2

(* A grey desktop on a clean stream asks for nothing: each request follows *)
(* a packet lost in the last seconds, of which one may pass before a       *)
(* report notes it ("on a clean stream gray is just content").             *)
GreyIsContent == [][owed' /\ ~owed => sinceReal <= Recent]_healthVars

(* When a loss has broken every open page, and the reports have seen the   *)
(* counter before, the host is asked: grey desktops, other losses and the  *)
(* limit of one request in three seconds delay it and do not lose it.  A   *)
(* page that is well would reset the streak of the others.                 *)
BreakIsReported ==
  up /\ broken = pages /\ lastSeenLoss # Unseen /\ lostPkts > lastSeenLoss
    ~> owed \/ broken # pages \/ ~up
=============================================================================
