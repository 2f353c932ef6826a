------------------------------- MODULE Frontends -------------------------------
(***************************************************************************)
(* What stands between a session and its users: the browser bridge         *)
(* (ViewerBridge), the way of a picture through it to a page               *)
(* (ViewerQueue), what the pages report of it (PageHealth), the control    *)
(* socket (ControlServer) and the connect window that launches the program *)
(* (ConnectWindow).                                                        *)
(*                                                                         *)
(* They share no state of these models, so a behaviour is about one view,  *)
(* picked at the start.                                                    *)
(***************************************************************************)
EXTENDS ViewerBridge

CONSTANTS
  MaxFrames, MaxStreams, MaxConfigs, MaxErrors, HighWater, GapMax, Nothing,
  Clients, MaxCasts, NoClient,
  Launches, Nobody,
  Pages, Recent, ForceEvery, MaxLost, MaxGrey, MaxDown, Unseen

VARIABLES
  view,
  single, auSeq, cached, configs, firPending, asked, posted, gap, frames, flight,
  wants, built, awaitingKey, nextSeq, reorder, gapTimed, errors, feeds,
  ctlStop, listening, closePc, conn, hungUp, jammed, clients, clientThreads,
  acceptPc, accepted, reader, castPc, todo, failed, casts,
  browser, launchPc, taken, proc, url, status, ctrl, alive, port, served, said,
  readers, pump, overlap,
  pages, broken, grey, reported, up, lostPkts, lastSeenLoss, sinceLoss, stuckStreak,
  sinceForced, owed, losses, greys, downs, sinceReal

Q == INSTANCE ViewerQueue
S == INSTANCE ControlServer
W == INSTANCE ConnectWindow
H == INSTANCE PageHealth

ASSUME FrontendsAssumption ==
  /\ Q!QueueAssumption /\ S!ControlAssumption /\ W!WindowAssumption
  /\ H!HealthAssumption

queueVars == <<single, auSeq, cached, configs, firPending, asked, posted, gap, frames,
               flight, wants, built, awaitingKey, nextSeq, reorder, gapTimed, errors, feeds>>
controlVars == <<ctlStop, listening, closePc, conn, hungUp, jammed, clients,
                 clientThreads, acceptPc, accepted, reader, castPc, todo, failed, casts>>
windowVars == <<browser, launchPc, taken, proc, url, status, ctrl, alive, port, served,
                said, readers, pump, overlap>>
healthVars == <<pages, broken, grey, reported, up, lostPkts, lastSeenLoss, sinceLoss,
                stuckStreak, sinceForced, owed, losses, greys, downs, sinceReal>>
allVars == <<view, vars, queueVars, controlVars, windowVars, healthVars>>

(* A view that is not looked at stands at one of its initial states. *)
FrontendsInit ==
  /\ view \in {"bridge", "queue", "control", "launch", "health"}
  /\ Init /\ Q!QueueInit /\ S!CtlInit /\ W!WindowInit /\ H!HealthInit
  /\ view # "queue" => single
  /\ view # "launch" => browser = Launches
  /\ view # "health" => pages = Pages

FrontendsNext ==
  \/ /\ view = "bridge" /\ Next
     /\ UNCHANGED <<view, queueVars, controlVars, windowVars, healthVars>>
  \/ /\ view = "queue" /\ Q!QueueNext
     /\ UNCHANGED <<view, vars, controlVars, windowVars, healthVars>>
  \/ /\ view = "control" /\ S!CtlNext
     /\ UNCHANGED <<view, vars, queueVars, windowVars, healthVars>>
  \/ /\ view = "launch" /\ W!WindowNext
     /\ UNCHANGED <<view, vars, queueVars, controlVars, healthVars>>
  \/ /\ view = "health" /\ H!HealthNext
     /\ UNCHANGED <<view, vars, queueVars, controlVars, windowVars>>

(* The fairness of the bridge, in its view. *)
BridgeFair ==
  /\ WF_vars(view = "bridge" /\ LoopClosed) /\ WF_vars(view = "bridge" /\ Recon)
  /\ WF_vars(view = "bridge" /\ Retry)
  /\ \A s \in Slots :
       /\ WF_vars(view = "bridge" /\ Video(s)) /\ SF_vars(view = "bridge" /\ Install(s))
       /\ WF_vars(view = "bridge" /\ HostDrops(s))
       /\ WF_vars(view = "bridge" /\ (Connect(s) \/ ConnectFails(s)))
  /\ SF_vars(\E s \in Slots : view = "bridge" /\ Connect(s))

(* That of the queue, the control socket and the reports: a thread that    *)
(* can run does, the peer answers, and the timers of the pages run.  The   *)
(* window promises safety only.                                            *)
SurroundingsFair ==
  /\ WF_queueVars(view = "queue" /\ Q!Served)
  /\ WF_controlVars(view = "control" /\ S!AcceptThread)
  /\ WF_controlVars(view = "control" /\ S!Serves)
  /\ WF_healthVars(view = "health" /\ H!Reports)

FrontendsSpec ==
  FrontendsInit /\ [][FrontendsNext]_allVars /\ BridgeFair /\ SurroundingsFair

(* A delta reaches the decoder after its predecessor (ViewerQueue). *)
WindowKeepsChain == Q!QueueTypeOK /\ Q!WindowKeepsChain

(* A page that waits for a key gets one (ViewerQueue); the pages that a    *)
(* loss has broken make the bridge ask for one, and a page that shows a    *)
(* grey desktop does not (PageHealth).                                     *)
PageServed ==
  /\ Q!PageServed
  /\ []H!HealthTypeOK /\ H!GreyIsContent /\ H!BreakIsReported

(* A closed control socket keeps no client (ControlServer). *)
CloseReleases == [](S!CtlTypeOK /\ S!SocketsOwned) /\ S!CloseReleases

(* Launches one after another leave one child, and the connect window      *)
(* shows what became of it (ConnectWindow).                                *)
OneChild == W!WindowTypeOK /\ W!OneChild /\ W!SettlesOnTruth
=============================================================================
