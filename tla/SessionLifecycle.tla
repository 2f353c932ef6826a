-------------------------- MODULE SessionLifecycle --------------------------
(***************************************************************************)
(* connect(), close() and what runs between them (proxy/session.py).       *)
(*                                                                         *)
(* The consumer's thread connects and closes; a "quit" from the control    *)
(* socket closes on a thread of its own (_handle_ctrl_command); the worker *)
(* threads of a connection run until the stop event is set, or until the   *)
(* socket they read is closed.  Nothing here is under a lock: a teardown   *)
(* tests an attribute, uses it and sets it to None in separate steps.      *)
(*                                                                         *)
(* A connection is known by its number `gen`.  The objects a connection    *)
(* creates are known by the connection and the handshake attempt.          *)
(***************************************************************************)
EXTENDS Naturals, FiniteSets

CONSTANTS
  Main,            (* the consumer's thread                                 *)
  Quitters,        (* threads started by "quit" commands                    *)
  Attempts,        (* _BURST_RETRY_ATTEMPTS                                 *)
  MaxGen,          (* connections of one Session                            *)
  Policy           (* when the consumer connects again: "waits" until every *)
                   (* close has ended, "hurries" once its own has returned, *)
                   (* or "dead", as soon as it finds the session dead       *)

ASSUME LifecycleAssumption ==
  /\ Main \notin Quitters
  /\ Attempts \in Nat \ {0} /\ MaxGen \in Nat
  /\ Policy \in {"waits", "hurries", "dead"}

VARIABLES
  (* the session's attributes *)
  connected, closing,
  stop,        (* _stop_evt                                                 *)
  threads,     (* _threads                                                  *)
  attr,        (* _control, _decoder, the UDP sockets, _negotiation         *)
  (* what exists *)
  open,        (* objects that have not been closed                         *)
  workers,     (* threads that run                                          *)
  dead,        (* connections whose TCP channel the host has ended          *)
  (* the callers *)
  gen, attempt,
  consumer,    (* whether its last call left the consumer with a session    *)
  failing,     (* the consumer's teardown is that of a failed connect       *)
  pc,
  part, held,  (* the attribute a teardown looks at, what it read there     *)
  (* history: rx had ended when the flag was raised; running workers a join  *)
  (* gave up on                                                             *)
  missed, outlived

sessionVars == <<connected, closing, stop, threads, attr>>
worldVars == <<open, workers, dead>>
callVars == <<gen, attempt, consumer, failing>>
history == <<missed, outlived>>
vars == <<sessionVars, worldVars, callVars, pc, part, held, history>>

Threads == Quitters \cup {Main}
Parts == {"control", "decoder", "socks", "neg"}
Kinds == {"rx", "drain", "loop"}
Gens == 1 .. MaxGen
Ids == Gens \X (1 .. Attempts)
None == <<0, 0>>

Made == <<gen, 1>>
Worker(kind) == <<gen, kind>>
TcpLost(g) == g \in dead \/ \A id \in open["neg"] : id[1] # g

Goto(t, place) == pc' = [pc EXCEPT ![t] = place]
Install(p, id) ==
  /\ attr' = [attr EXCEPT ![p] = id]
  /\ open' = [open EXCEPT ![p] = @ \cup {id}]

Init ==
  /\ connected = FALSE /\ closing = FALSE /\ stop = FALSE /\ threads = {}
  /\ attr = [p \in Parts |-> None]
  /\ open = [p \in Parts |-> {}] /\ workers = {} /\ dead = {}
  /\ gen = 0 /\ attempt = 1 /\ consumer = "down" /\ failing = FALSE
  /\ pc = [t \in Threads |-> "idle"]
  /\ part = [t \in Threads |-> "control"] /\ held = [t \in Threads |-> None]
  /\ missed = FALSE /\ outlived = {}

-----------------------------------------------------------------------------
(* connect *)

MayConnect ==
  /\ pc[Main] = "idle"
  /\ Policy = "waits" /\ consumer = "down" => \A q \in Quitters : pc[q] \in {"idle", "gone"}

(* connect() is a no-op on a connected session.                            *)
ConnectNothing ==
  /\ MayConnect /\ connected
  /\ consumer' = "up"
  /\ UNCHANGED <<sessionVars, worldVars, gen, attempt, failing, pc, part, held, history>>

ConnectCall ==
  /\ MayConnect /\ ~connected /\ gen < MaxGen
  /\ consumer = "down" \/ Policy = "dead"
  /\ gen' = gen + 1 /\ attempt' = 1 /\ consumer' = "down"
  /\ Goto(Main, "bind")
  /\ UNCHANGED <<sessionVars, worldVars, failing, part, held, history>>

Starts(t) ==
  /\ pc' = [pc EXCEPT ![t] = "see"]
  /\ part' = [part EXCEPT ![t] = "control"]

(* Slip: raise without the teardown.                                       *)
RaiseSlip ==
  /\ Goto(Main, "idle")
  /\ UNCHANGED <<sessionVars, worldVars, callVars, part, held, history>>

(* An exception below connect(): it tears down and raises.                 *)
Raise ==
  /\ failing' = TRUE /\ Starts(Main)
  /\ UNCHANGED <<sessionVars, worldVars, gen, attempt, consumer, held, history>>

Continue(place) ==
  /\ Goto(Main, place)
  /\ UNCHANGED <<closing, dead, gen, consumer, failing, part, held>>

(* A port in use, a host that refuses, a failed authentication, a last     *)
(* starved burst, no usable decoder, a decoder that does not start.        *)
ConnectFails ==
  /\ pc[Main] \in {"bind", "negotiate", "burst", "decoder", "clear"}
  /\ Raise

Bind ==
  /\ pc[Main] = "bind" /\ Install("socks", Made) /\ Continue("negotiate")
  /\ UNCHANGED <<connected, stop, threads, workers, attempt, missed, outlived>>

Negotiate ==
  /\ pc[Main] = "negotiate" /\ Install("neg", <<gen, attempt>>) /\ Continue("burst")
  /\ UNCHANGED <<connected, stop, threads, workers, attempt, missed, outlived>>

(* Slip: the TCP channel is not dropped.                                   *)
TeardownNegotiationTcpSlip == UNCHANGED <<open, attr>>

(* _teardown_negotiation_tcp *)
TeardownNegotiationTcp ==
  /\ open' = [open EXCEPT !["neg"] = @ \ {attr["neg"]}]
  /\ attr' = [attr EXCEPT !["neg"] = None]

(* A starved burst: drop the TCP channel and negotiate again.              *)
Starved ==
  /\ pc[Main] = "burst" /\ attempt < Attempts
  /\ attempt' = attempt + 1
  /\ TeardownNegotiationTcp
  /\ Continue("negotiate")
  /\ UNCHANGED <<connected, stop, threads, workers, missed, outlived>>

(* From the burst on, another thread's teardown may have taken an attribute *)
(* that this step of connect() uses: the use raises.                        *)
Needs(place) ==
  CASE place \in {"burst", "decoder"} -> {"neg"}
    [] place = "clear" -> {"neg", "decoder"}
    [] place = "hello" -> {"control", "neg", "decoder"}
    [] OTHER -> {}

Lacks == \E p \in Needs(pc[Main]) : attr[p] = None

Missing == Lacks /\ Raise

Gather ==
  /\ pc[Main] = "burst" /\ ~Lacks /\ Continue("decoder")
  /\ UNCHANGED <<connected, stop, threads, attr, open, workers, attempt, missed, outlived>>

BuildDecoder ==
  /\ pc[Main] = "decoder" /\ ~Lacks
  /\ Install("decoder", Made) /\ Continue("clear")
  /\ UNCHANGED <<connected, stop, threads, workers, attempt, missed, outlived>>

ClearStop ==
  /\ pc[Main] = "clear" /\ ~Lacks
  /\ stop' = FALSE /\ Continue("spawn")
  /\ UNCHANGED <<connected, threads, attr, open, workers, attempt, missed, outlived>>

(* Slip: one worker is started and not remembered.                         *)
SpawnThreadsSlip ==
  /\ pc[Main] = "spawn"
  /\ workers' = workers \cup {Worker(k) : k \in Kinds}
  /\ threads' = threads \cup {Worker(k) : k \in Kinds \ {"loop"}}
  /\ Continue("serve")
  /\ UNCHANGED <<connected, stop, attr, open, attempt, missed, outlived>>

SpawnThreads ==
  /\ pc[Main] = "spawn"
  /\ workers' = workers \cup {Worker(k) : k \in Kinds}
  /\ threads' = threads \cup {Worker(k) : k \in Kinds}
  /\ Continue("serve")
  /\ UNCHANGED <<connected, stop, attr, open, attempt, missed, outlived>>

Serve ==
  /\ pc[Main] = "serve" /\ Install("control", Made) /\ Continue("hello")
  /\ UNCHANGED <<connected, stop, threads, workers, attempt, missed, outlived>>

(* No control socket: not asked for, or its setup failed.                  *)
ServeNot ==
  /\ pc[Main] = "serve" /\ Continue("flag")
  /\ attr' = [attr EXCEPT !["control"] = None]
  /\ UNCHANGED <<connected, stop, threads, open, workers, attempt, missed, outlived>>

Hello ==
  /\ pc[Main] = "hello" /\ ~Lacks /\ Continue("flag")
  /\ UNCHANGED <<connected, stop, threads, attr, open, workers, attempt, missed, outlived>>

(* connect() raises the flag last, whatever has happened to the workers.   *)
RaiseFlag ==
  /\ pc[Main] = "flag"
  /\ connected' = TRUE /\ consumer' = "up"
  /\ missed' = (stop \/ Worker("rx") \notin workers)
  /\ Goto(Main, "idle")
  /\ UNCHANGED <<closing, stop, threads, attr, worldVars, gen, attempt, failing,
                 part, held, outlived>>

Connect ==
  \/ ConnectFails \/ Missing \/ Bind \/ Negotiate \/ Starved \/ Gather \/ BuildDecoder
  \/ ClearStop \/ SpawnThreads \/ Serve \/ ServeNot \/ Hello \/ RaiseFlag

-----------------------------------------------------------------------------
(* close and teardown *)

CloseCall ==
  /\ pc[Main] = "idle" /\ consumer = "up"
  /\ consumer' = "down" /\ Goto(Main, "test")
  /\ UNCHANGED <<sessionVars, worldVars, gen, attempt, failing, part, held, history>>

(* A client of the control socket says "quit".                             *)
Quit(q) ==
  /\ pc[q] = "idle" /\ open["control"] # {}
  /\ Goto(q, "test")
  /\ UNCHANGED <<sessionVars, worldVars, callVars, part, held, history>>

Over(t) == IF t = Main THEN "idle" ELSE "gone"

(* close() returns at once when a close is under way.                      *)
TestClosing(t) ==
  /\ pc[t] = "test"
  /\ Goto(t, IF closing THEN Over(t) ELSE "set")
  /\ UNCHANGED <<sessionVars, worldVars, callVars, part, held, history>>

SetClosing(t) ==
  /\ pc[t] = "set" /\ closing' = TRUE /\ Starts(t)
  /\ UNCHANGED <<connected, stop, threads, attr, worldVars, callVars, held, history>>

(* The teardown's order: control, the workers, decoder, sockets, TCP.      *)
Proceed(t) ==
  /\ pc' = [pc EXCEPT ![t] = CASE part[t] = "control" -> "halt"
                               [] part[t] = "neg" -> "end"
                               [] OTHER -> "see"]
  /\ part' = [part EXCEPT ![t] = CASE @ = "decoder" -> "socks"
                                   [] @ = "socks" -> "neg"
                                   [] OTHER -> @]

See(t) ==
  /\ pc[t] = "see"
  /\ held' = [held EXCEPT ![t] = IF part[t] = "socks" THEN attr["socks"] ELSE None]
  /\ IF attr[part[t]] = None THEN Proceed(t) ELSE Goto(t, "drop") /\ UNCHANGED part
  /\ UNCHANGED <<sessionVars, worldVars, callVars, history>>

(* The sockets are closed through a local; every other attribute is read   *)
(* again, and is None when another teardown was faster: an AttributeError  *)
(* ends this one.                                                          *)
Drop(t) ==
  /\ pc[t] = "drop"
  /\ IF attr[part[t]] = None /\ part[t] # "socks"
     THEN Goto(t, "end") /\ UNCHANGED <<attr, open, part>>
     ELSE /\ open' = [open EXCEPT ![part[t]] =
                        @ \ {IF part[t] = "socks" THEN held[t] ELSE attr[part[t]]}]
          /\ attr' = [attr EXCEPT ![part[t]] = None]
          /\ Proceed(t)
  /\ held' = [held EXCEPT ![t] = None]
  /\ UNCHANGED <<connected, closing, stop, threads, workers, dead, callVars, history>>

Halt(t) ==
  /\ pc[t] = "halt" /\ stop' = TRUE /\ Goto(t, "join")
  /\ UNCHANGED <<connected, closing, threads, attr, worldVars, callVars, part, held, history>>

(* Slip: join without a limit.                                             *)
JoinSlip(t) ==
  /\ pc[t] = "join" /\ threads \cap workers = {}
  /\ threads' = {}
  /\ pc' = [pc EXCEPT ![t] = "see"] /\ part' = [part EXCEPT ![t] = "decoder"]
  /\ UNCHANGED <<connected, closing, stop, attr, worldVars, callVars, held, history>>

(* Each join waits two seconds and no longer.                              *)
Join(t) ==
  /\ pc[t] = "join"
  /\ outlived' = outlived \cup (threads \cap workers)
  /\ threads' = {}
  /\ pc' = [pc EXCEPT ![t] = "see"] /\ part' = [part EXCEPT ![t] = "decoder"]
  /\ UNCHANGED <<connected, closing, stop, attr, worldVars, callVars, held, missed>>

(* The end of a failed connect, and of a close.                            *)
EndConnect ==
  /\ pc[Main] = "end" /\ failing
  /\ failing' = FALSE /\ Goto(Main, "idle")
  /\ UNCHANGED <<sessionVars, worldVars, gen, attempt, consumer, part, held, history>>

EndClose(t) ==
  /\ pc[t] = "end" /\ (t = Main => ~failing)
  /\ closing' = FALSE /\ connected' = FALSE /\ Goto(t, Over(t))
  /\ UNCHANGED <<stop, threads, attr, worldVars, callVars, part, held, history>>

Teardown(t) == See(t) \/ Drop(t) \/ Halt(t) \/ Join(t) \/ EndClose(t)
Close(t) == TestClosing(t) \/ SetClosing(t) \/ Teardown(t)

-----------------------------------------------------------------------------
(* the workers *)

Ends(w) ==
  /\ w \in workers
  /\ workers' = workers \ {w} /\ outlived' = outlived \ {w}
  /\ UNCHANGED <<open, dead, callVars, pc, part, held, missed>>

(* A worker sees the stop event at the head of its loop.                   *)
WorkerStops(w) ==
  /\ stop /\ Ends(w)
  /\ UNCHANGED sessionVars

(* A drain's recvfrom on a closed socket.                                  *)
DrainEnds(g) ==
  /\ <<g, 1>> \notin open["socks"] /\ Ends(<<g, "drain">>)
  /\ UNCHANGED sessionVars

(* Slip: tcp-rx returns without lowering the flag.                         *)
RxEndsSlip(g) ==
  /\ TcpLost(g) /\ Ends(<<g, "rx">>)
  /\ UNCHANGED sessionVars

(* tcp-rx: the read fails or the peer has closed.                          *)
RxEnds(g) ==
  /\ TcpLost(g) /\ Ends(<<g, "rx">>)
  /\ connected' = FALSE
  /\ UNCHANGED <<closing, stop, threads, attr>>

HostDrops ==
  /\ gen \notin dead /\ \E id \in open["neg"] : id[1] = gen
  /\ dead' = dead \cup {gen}
  /\ UNCHANGED <<sessionVars, open, workers, callVars, pc, part, held, history>>

-----------------------------------------------------------------------------
Step ==
  \/ ConnectNothing \/ ConnectCall \/ Connect \/ CloseCall \/ EndConnect
  \/ \E q \in Quitters : Quit(q)
  \/ \E t \in Threads : Close(t)
  \/ \E g \in Gens : DrainEnds(g) \/ RxEnds(g)
  \/ \E w \in Gens \X Kinds : WorkerStops(w)
  \/ HostDrops

Spec == Init /\ [][Step]_vars

(* The callers' threads run; a network call ends by its time-out.  Nothing *)
(* is assumed of the workers.                                              *)
FairSpec ==
  /\ Spec
  /\ WF_vars(Connect) /\ WF_vars(EndConnect)
  /\ \A t \in Threads : WF_vars(Close(t))

-----------------------------------------------------------------------------
Places == {"idle", "gone", "bind", "negotiate", "burst", "decoder", "clear", "spawn",
           "serve", "hello", "flag", "test", "set", "see", "drop", "halt", "join", "end"}

(* Types: the attempts stay within their bound, and no object outlives the *)
(* numbering of connections.                                               *)
TypeOK ==
  /\ connected \in BOOLEAN /\ closing \in BOOLEAN /\ stop \in BOOLEAN
  /\ threads \subseteq Gens \X Kinds /\ workers \subseteq Gens \X Kinds
  /\ outlived \subseteq Gens \X Kinds
  /\ attr \in [Parts -> Ids \cup {None}] /\ open \in [Parts -> SUBSET Ids]
  /\ dead \subseteq Gens /\ gen \in 0 .. MaxGen /\ attempt \in 1 .. Attempts
  /\ consumer \in {"down", "up"} /\ failing \in BOOLEAN
  /\ pc \in [Threads -> Places] /\ part \in [Threads -> Parts]
  /\ held \in [Threads -> Ids \cup {None}]
  /\ missed \in BOOLEAN

Quiet == \A t \in Threads : pc[t] \in {"idle", "gone"}

(* Once the consumer's close() or failed connect() and every quit have     *)
(* ended, nothing is held: whichever threads tore down, and whatever they  *)
(* took from each other on the way.                                        *)
DownIsReleased ==
  Quiet /\ consumer = "down" =>
    /\ ~connected /\ (gen > 0 => stop)
    /\ \A p \in Parts : attr[p] = None /\ open[p] = {}

(* A worker of an earlier connection runs on only while the stop event is  *)
(* set, or after a join gave up on it.                                     *)
OneGeneration ==
  \A w \in workers : w[1] = gen \/ stop \/ w \in outlived

(* One TCP channel, one pair of sockets, one decoder and one control       *)
(* server at a time, through every retry of the handshake: the host serves *)
(* one viewer.                                                             *)
OneTransport == \A p \in Parts : Cardinality(open[p]) <= 1

(* A consumer that sees the session connected has a reader on the TCP      *)
(* channel that will lower the flag, unless the reader had gone before     *)
(* connect() raised it.                                                    *)
UpMeansReading ==
  connected /\ ~missed /\ Quiet => ~stop /\ Worker("rx") \in workers

(* Every call of connect() and close() returns.                            *)
CallsReturn ==
  \A t \in Threads : pc[t] \notin {"idle", "gone"} ~> pc[t] \in {"idle", "gone"}
=============================================================================
