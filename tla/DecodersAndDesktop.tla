-------------------------- MODULE DecodersAndDesktop ---------------------------
(***************************************************************************)
(* The decoders of a session: the choice (DecoderRegistry), the codec of   *)
(* hevc.py and its burst (HevcStart), then one of the worker of hevc.py    *)
(* and qsvhevc.py (TileWorker), the recovery of hevc.py (DecodeWedge) and  *)
(* avc.py (AvcDecoder).  And the desktop that shows what they decode: its  *)
(* window (DesktopWindow), and the keyboard and the pointer it sends to    *)
(* the host (DesktopKeys, DesktopPointer).                                 *)
(*                                                                         *)
(* Only one decoder lives in a session, and the desktop's three share no   *)
(* state of these models, so a behaviour is about one view, picked at the  *)
(* start.                                                                  *)
(***************************************************************************)
EXTENDS TileWorker

CONSTANTS
  Tiles, Limit, Backlog, MaxJams, MaxLost, Keys, MaxRebuilds,
  Accels, BurstEvery, BurstErrors, BurstWindow, BurstMin, MaxBurst, MaxAgain,
  WinSizes, FirstSize, Cap, MaxResizes, MaxLayouts, MaxShapes, Unset,
  MaxActs, MaxQueue,
  Panes, Buttons, Motions, Tick, EmitMax, WheelCap, MaxMoves, NoPane

VARIABLES
  view,
  machine, wish, broken, session, ladder, built,
  prefer, gaveUp, offers, trying, accel, startPc, resumes, burst, next, isHw, expected,
  rootedTiles, goodAt, good, again, offered,
  perTile, rooted, awaiting, streak, silent, recovering, errored, required,
  waiting, jam, asked, since, jams, lost,
  open, context, awaitKey, pending, hwFailed, hardware, feeding, shown,
  keys, rebuilds, closed,
  rects, runtime, negotiated, laying, cursorSlot, mode, dynamic, winSize, guard, pendSize,
  canvas, source, viewCrop, autoGap, spawned, views, cropApplied, shape, overlay, hidden,
  dirty, drawn, pointer, firstSeen, deskPc, toServer, toViewer, resizes, onOwn, shapes,
  askedFor, resynced, staleCrop,
  platform, remap, grabbed, modsHeld, foreground, events, phys, osCtrl, glfwDown, host,
  gone, over, keyActs, combo, overtaken,
  mask, known, accum, shut, held, capture, hostButtons, moves, cut, turned, ticks,
  spilled, atLimit

R == INSTANCE DecoderRegistry
S == INSTANCE HevcStart
D == INSTANCE DecodeWedge
A == INSTANCE AvcDecoder
W == INSTANCE DesktopWindow
K == INSTANCE DesktopKeys
P == INSTANCE DesktopPointer

ASSUME DesktopAssumption ==
  /\ S!StartAssumption /\ D!WedgeAssumption /\ A!AvcAssumption
  /\ W!DesktopAssumption /\ K!KeysAssumption /\ P!PointerAssumption

choiceVars == <<machine, wish, broken, session, ladder, built>>
startVars == <<prefer, gaveUp, offers, trying, accel, startPc, resumes, burst, next,
               isHw, expected, rootedTiles, goodAt, good, again, offered>>
wedgeVars == <<perTile, rooted, awaiting, streak, silent, recovering, errored, required,
               waiting, jam, asked, since, jams, lost>>
avcVars == <<open, context, awaitKey, pending, hwFailed, hardware, feeding, shown,
             keys, rebuilds, closed>>
deskVars == <<rects, runtime, negotiated, laying, cursorSlot, mode, dynamic, winSize,
              guard, pendSize, canvas, source, viewCrop, autoGap, spawned, views,
              cropApplied, shape, overlay, hidden, dirty, drawn, pointer, firstSeen,
              deskPc, toServer, toViewer, resizes, onOwn, shapes, askedFor, resynced,
              staleCrop>>
keyVars == <<platform, remap, grabbed, modsHeld, foreground, events, phys, osCtrl,
             glfwDown, host, gone, over, keyActs, combo, overtaken>>
pointerVars == <<mask, known, accum, shut, held, capture, hostButtons, moves, cut,
                 turned, ticks, spilled, atLimit>>
decoderVars == <<choiceVars, startVars, wedgeVars, avcVars>>
desktopVars == <<deskVars, keyVars, pointerVars>>
allVars == <<view, vars, decoderVars, desktopVars>>

(* A view that is not looked at stands at one of its initial states. *)
AllInit ==
  /\ view \in {"choice", "start", "worker", "wedge", "avc", "desktop", "keys", "pointer"}
  /\ Init /\ (view # "worker" => make = "hevc")
  /\ D!Init /\ (view # "wedge" => perTile /\ rooted)
  /\ A!Init /\ (view # "avc" => hardware)
  /\ W!DeskInit /\ (view # "desktop" => mode = "all" /\ dynamic)
  /\ K!KeysInit /\ (view # "keys" => platform = "x11" /\ ~remap /\ ~grabbed)
  /\ P!PointerInit
  /\ S!StartInit /\ (view # "start" => prefer /\ offers = 0)
  /\ R!RegInit
  /\ view # "choice" => /\ machine = [platform |-> "linux", vt |-> FALSE, method |-> "none"]
                        /\ wish = [codec |-> "auto", decoder |-> "none"] /\ broken = {}

AllNext ==
  \/ /\ view = "choice" /\ R!RegNext
     /\ UNCHANGED <<view, vars, startVars, wedgeVars, avcVars, desktopVars>>
  \/ /\ view = "start" /\ S!StartNext
     /\ UNCHANGED <<view, vars, choiceVars, wedgeVars, avcVars, desktopVars>>
  \/ /\ view = "worker" /\ Next
     /\ UNCHANGED <<view, decoderVars, desktopVars>>
  \/ /\ view = "wedge" /\ D!Next
     /\ UNCHANGED <<view, vars, choiceVars, startVars, avcVars, desktopVars>>
  \/ /\ view = "avc" /\ A!Next
     /\ UNCHANGED <<view, vars, choiceVars, startVars, wedgeVars, desktopVars>>
  \/ /\ view = "desktop" /\ W!DeskNext
     /\ UNCHANGED <<view, vars, decoderVars, keyVars, pointerVars>>
  \/ /\ view = "keys" /\ K!KeysNext
     /\ UNCHANGED <<view, vars, decoderVars, deskVars, pointerVars>>
  \/ /\ view = "pointer" /\ P!PointerNext
     /\ UNCHANGED <<view, vars, decoderVars, deskVars, keyVars>>

(* The fairness of the two modules that have some, in their view; the      *)
(* others promise safety only.                                             *)
AllSpec ==
  /\ AllInit /\ [][AllNext]_allVars
  /\ WF_vars(view = "worker" /\ Feeder)
  /\ \A w \in Workers : WF_vars(view = "worker" /\ Worker(w))
  /\ \A t \in Threads : WF_vars(view = "worker" /\ Stop(t))
  /\ WF_vars(view = "worker" /\ RestartBegin("tx") /\ Stalled)
  /\ WF_wedgeVars(view = "wedge" /\ D!Arrive) /\ SF_wedgeVars(view = "wedge" /\ D!Answer)
  /\ WF_wedgeVars(view = "wedge" /\ D!Worker)
  /\ WF_wedgeVars(view = "wedge" /\ D!SendFir)
  /\ WF_wedgeVars(view = "wedge" /\ D!Watchdog)
  /\ SF_wedgeVars(view = "wedge" /\ D!Publishes /\ D!u.key)

(* The decoder a session gets is the best that starts (DecoderRegistry),   *)
(* with a codec that decodes, and that was given all of the initial burst  *)
(* (HevcStart).                                                            *)
BestThatStarts == R!BestThatStarts /\ S!StartTypeOK /\ S!BurstDecoded

(* Tiles that wait for an IDR decode again (DecodeWedge). *)
AwaitEnds == D!AwaitEnds

(* No picture of a broken chain is published (AvcDecoder), and the         *)
(* decoders' variables have their types.                                   *)
HoleHidden == TypeOK /\ D!TypeOK /\ A!TypeOK /\ A!HoleHidden

(* A pointer is always seen, and the desktop window shows what the session *)
(* holds once it has caught up (DesktopWindow).                            *)
DesktopFollows == W!DeskTypeOK /\ W!PointerVisible /\ W!FollowsAtRest

(* The host has no key and no button down that the user has let go, the    *)
(* keyboard is given back, and no turn of the wheel is lost (DesktopKeys,  *)
(* DesktopPointer).                                                        *)
InputLetsGo ==
  /\ K!KeysTypeOK /\ K!KeysLetGo /\ K!KeyboardGivenBack
  /\ P!PointerTypeOK /\ P!ButtonsAgree /\ P!WheelKept
=============================================================================
