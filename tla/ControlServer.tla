----------------------------- MODULE ControlServer -----------------------------
(***************************************************************************)
(* The local control socket (control.py): an accept thread, a reader per   *)
(* client, broadcasts from the session's threads under the clients' lock,  *)
(* and close(), which runs while any of them is anywhere.                  *)
(*                                                                         *)
(* A client is a socket: "away", in the "backlog" of the listening socket, *)
(* "open" on the server's side, or "closed" there.  A socket's buffer      *)
(* holds more than one message, so a client that does not read is full     *)
(* only after its reader set the socket's timeout.                         *)
(***************************************************************************)
EXTENDS FiniteSets, Naturals

CONSTANTS
  Clients,      (* connections of the TUI, the connect window, a monitor      *)
  MaxCasts,     (* bound: broadcasts                                          *)
  NoClient

ControlAssumption == MaxCasts \in Nat /\ NoClient \notin Clients

VARIABLES
  ctlStop,    (* _stop                                                        *)
  listening,  (* the listening socket is open                                 *)
  closePc,    (* place of close(): "serving", "clear", "join", "closed"       *)
  conn,       (* client -> its socket                                         *)
  hungUp,     (* clients that closed their side                               *)
  jammed,     (* clients whose buffer is full                                 *)
  clients,    (* _clients                                                     *)
  clientThreads, (* _client_threads                                           *)
  acceptPc, accepted, (* place of the accept thread, the client it holds      *)
  reader,     (* client -> place of its reader                                *)
  castPc, todo, failed, casts (* the broadcast that holds _clients_lock       *)

closeVars == <<ctlStop, listening, closePc>>
worldVars == <<hungUp, jammed>>
acceptVars == <<acceptPc, accepted>>
castVars == <<castPc, todo, failed, casts>>

Unlocked == castPc = "idle"

-----------------------------------------------------------------------------
(* Clients *)

Connect(c) ==
  /\ conn[c] = "away" /\ listening
  /\ conn' = [conn EXCEPT ![c] = "backlog"]
  /\ UNCHANGED <<closeVars, worldVars, acceptVars, castVars, clients, clientThreads, reader>>

HangUp(c) ==
  /\ conn[c] # "away" /\ c \notin hungUp
  /\ hungUp' = hungUp \cup {c}
  /\ UNCHANGED <<closeVars, jammed, acceptVars, castVars, conn, clients, clientThreads, reader>>

StopReading(c) ==
  /\ reader[c] = "read" /\ c \notin jammed
  /\ jammed' = jammed \cup {c}
  /\ UNCHANGED <<closeVars, hungUp, acceptVars, castVars, conn, clients, clientThreads, reader>>

-----------------------------------------------------------------------------
(* The accept thread *)

AcceptGoto(place) == acceptPc' = place

(* The loop tests _stop; accept() fails once the socket is closed.         *)
AcceptTest ==
  /\ acceptPc = "test"
  /\ AcceptGoto(IF ctlStop THEN "ended" ELSE "accept")
  /\ UNCHANGED <<closeVars, worldVars, accepted, castVars, conn, clients, clientThreads, reader>>

Accept ==
  /\ acceptPc = "accept"
  /\ \/ \E c \in Clients :
          /\ listening /\ conn[c] = "backlog"
          /\ conn' = [conn EXCEPT ![c] = "open"] /\ accepted' = c
          /\ AcceptGoto("hello")
     \/ /\ AcceptGoto(IF listening THEN "test" ELSE "ended")
        /\ UNCHANGED <<conn, accepted>>
  /\ UNCHANGED <<closeVars, worldVars, castVars, clients, clientThreads, reader>>

Hello ==
  /\ acceptPc = "hello"
  /\ IF accepted \in hungUp
     THEN /\ conn' = [conn EXCEPT ![accepted] = "closed"]
          /\ accepted' = NoClient /\ AcceptGoto("test")
     ELSE /\ AcceptGoto("append") /\ UNCHANGED <<conn, accepted>>
  /\ UNCHANGED <<closeVars, worldVars, castVars, clients, clientThreads, reader>>

(* The client is listed under the lock, and its reader started after it.   *)
ListClient ==
  /\ acceptPc = "append" /\ Unlocked
  /\ clients' = clients \cup {accepted} /\ AcceptGoto("spawn")
  /\ UNCHANGED <<closeVars, worldVars, accepted, castVars, conn, clientThreads, reader>>

StartReader ==
  /\ acceptPc = "spawn"
  /\ reader' = [reader EXCEPT ![accepted] = "read"] /\ AcceptGoto("note")
  /\ UNCHANGED <<closeVars, worldVars, accepted, castVars, conn, clients, clientThreads>>

ListReader ==
  /\ acceptPc = "note" /\ Unlocked
  /\ clientThreads' = clientThreads \cup {accepted}
  /\ accepted' = NoClient /\ AcceptGoto("test")
  /\ UNCHANGED <<closeVars, worldVars, castVars, conn, clients, reader>>

AcceptThread == AcceptTest \/ Accept \/ Hello \/ ListClient \/ StartReader \/ ListReader

-----------------------------------------------------------------------------
(* A client's reader: it serves commands until an end of file, an error or *)
(* _stop, leaves the list under the lock and closes the socket.            *)

ReaderGoto(c, place) == reader' = [reader EXCEPT ![c] = place]

ReadEnds(c) ==
  /\ reader[c] = "read"
  /\ ctlStop \/ c \in hungUp \/ conn[c] = "closed"
  /\ ReaderGoto(c, "leave")
  /\ UNCHANGED <<closeVars, worldVars, acceptVars, castVars, conn, clients, clientThreads>>

Deregister(c) ==
  /\ reader[c] = "leave" /\ Unlocked
  /\ clients' = clients \ {c} /\ ReaderGoto(c, "shut")
  /\ UNCHANGED <<closeVars, worldVars, acceptVars, castVars, conn, clientThreads>>

(* Slip: the socket is left to close(). *)
ReaderShutSlip(c) ==
  /\ reader[c] = "shut"
  /\ ReaderGoto(c, "done")
  /\ UNCHANGED <<closeVars, worldVars, acceptVars, castVars, conn, clients, clientThreads>>

ReaderShut(c) ==
  /\ reader[c] = "shut"
  /\ conn' = [conn EXCEPT ![c] = "closed"] /\ ReaderGoto(c, "done")
  /\ UNCHANGED <<closeVars, worldVars, acceptVars, castVars, clients, clientThreads>>

Reader(c) == ReadEnds(c) \/ Deregister(c) \/ ReaderShut(c)

-----------------------------------------------------------------------------
(* _broadcast: the lock is held from the first sendall to the pruning.     *)

BroadcastBegin ==
  /\ Unlocked /\ casts < MaxCasts /\ closePc # "closed"
  /\ castPc' = "send" /\ todo' = clients /\ failed' = {} /\ casts' = casts + 1
  /\ UNCHANGED <<closeVars, worldVars, acceptVars, conn, clients, clientThreads, reader>>

(* sendall returns, fails, or times out on a full buffer. *)
BroadcastSend ==
  /\ castPc = "send"
  /\ \E c \in todo :
       /\ todo' = todo \ {c}
       /\ failed' = IF c \in hungUp \cup jammed \/ conn[c] = "closed"
                    THEN failed \cup {c} ELSE failed
  /\ UNCHANGED <<closeVars, worldVars, acceptVars, castPc, casts, conn, clients, clientThreads, reader>>

BroadcastEnd ==
  /\ castPc = "send" /\ todo = {}
  /\ clients' = clients \ failed
  /\ conn' = [c \in Clients |-> IF c \in failed THEN "closed" ELSE conn[c]]
  /\ castPc' = "idle" /\ failed' = {}
  /\ UNCHANGED <<closeVars, worldVars, acceptVars, todo, casts, clientThreads, reader>>

-----------------------------------------------------------------------------
(* close *)

CloseBegin ==
  /\ closePc = "serving"
  /\ ctlStop' = TRUE /\ listening' = FALSE /\ closePc' = "clear"
  /\ conn' = [c \in Clients |-> IF conn[c] = "backlog" THEN "closed" ELSE conn[c]]
  /\ UNCHANGED <<worldVars, acceptVars, castVars, clients, clientThreads, reader>>

CloseClients ==
  /\ closePc = "clear" /\ Unlocked
  /\ conn' = [c \in Clients |-> IF c \in clients THEN "closed" ELSE conn[c]]
  /\ clients' = {} /\ clientThreads' = {} /\ closePc' = "join"
  /\ UNCHANGED <<ctlStop, listening, worldVars, acceptVars, castVars, reader>>

(* The joins have timeouts: close returns whatever still runs. *)
CloseEnd ==
  /\ closePc = "join" /\ closePc' = "closed"
  /\ UNCHANGED <<ctlStop, listening, worldVars, acceptVars, castVars, conn, clients, clientThreads, reader>>

-----------------------------------------------------------------------------

CtlInit ==
  /\ ctlStop = FALSE /\ listening = TRUE /\ closePc = "serving"
  /\ conn = [c \in Clients |-> "away"] /\ hungUp = {} /\ jammed = {}
  /\ clients = {} /\ clientThreads = {}
  /\ acceptPc = "test" /\ accepted = NoClient
  /\ reader = [c \in Clients |-> "none"]
  /\ castPc = "idle" /\ todo = {} /\ failed = {} /\ casts = 0

(* Everything but the clients, the accept thread and the callers. *)
Serves ==
  \/ BroadcastSend \/ BroadcastEnd \/ CloseClients \/ CloseEnd
  \/ \E c \in Clients : Reader(c)

CtlNext ==
  \/ \E c \in Clients : Connect(c) \/ HangUp(c) \/ StopReading(c)
  \/ AcceptThread \/ BroadcastBegin \/ CloseBegin \/ Serves

-----------------------------------------------------------------------------

CtlTypeOK ==
  /\ conn \in [Clients -> {"away", "backlog", "open", "closed"}]
  /\ clients \cup clientThreads \cup hungUp \cup jammed \cup todo \cup failed \subseteq Clients
  /\ accepted \in Clients \cup {NoClient}
  /\ reader \in [Clients -> {"none", "read", "leave", "shut", "done"}]
  /\ casts \in 0 .. MaxCasts
  /\ ~listening <=> ctlStop

(* Each open socket and each listed client has a thread that will let it   *)
(* go: the accept thread until the reader started, its reader then; and    *)
(* nobody waits in the backlog of a closed socket (_accept_loop, close).   *)
SocketsOwned ==
  /\ \A c \in Clients :
       /\ conn[c] = "open" =>
            \/ acceptPc \in {"hello", "append", "spawn"} /\ accepted = c
            \/ reader[c] \in {"read", "leave", "shut"}
       /\ c \in clients =>
            \/ acceptPc = "spawn" /\ accepted = c
            \/ reader[c] \in {"read", "leave"}
       /\ conn[c] = "backlog" => listening

Released ==
  /\ clients = {} /\ acceptPc = "ended"
  /\ \A c \in Clients : conn[c] # "open" /\ reader[c] \in {"none", "done"}

(* After close() no client stays connected, not even one that was accepted *)
(* before and listed after the list was emptied: its own reader sees _stop *)
(* (_client_read_loop).  A client that does not read holds the lock, and   *)
(* with it close(), no longer than its timeout (_broadcast).               *)
CloseReleases ==
  /\ ctlStop ~> [](closePc = "closed" /\ Released)
  /\ ~Unlocked ~> Unlocked
=============================================================================
