------------------------ MODULE SessionTeardownProofs ------------------------
(***************************************************************************)
(* A consumer that waits for every close before it connects again leaves   *)
(* nothing behind, for every number of connections, attempts and quits:    *)
(* the three invariants of SessionLifecycle about what is held.            *)
(*                                                                         *)
(* Several teardowns run at once, take attributes from each other and fail *)
(* with an AttributeError half way.  The invariant says of each thing that *)
(* is still to be done which kind of thread will do it: one that has not   *)
(* passed it and will not fail before it.  The teardown that takes an      *)
(* attribute from another also takes over the rest of its work.            *)
(***************************************************************************)
EXTENDS SessionLifecycleProofs, FiniteSetTheorems

(* The places of connect() before another thread can hold the session.     *)
Early == {"bind", "negotiate", "burst", "decoder", "clear", "spawn", "serve"}

(* The attributes that connect() has not installed at a place.             *)
NotYet(place) ==
  CASE place = "bind" -> Parts
    [] place = "negotiate" -> {"control", "decoder", "neg"}
    [] place \in {"burst", "decoder"} -> {"control", "decoder"}
    [] place \in {"clear", "spawn", "serve"} -> {"control"}
    [] OTHER -> {}

(* What a teardown has to do, and what is left of it at a place.           *)
Duties == Parts \cup {"halt", "join"}

(* What a teardown has still to do when it has come to a place.            *)
Todo(place) ==
  CASE place \in {"set", "control"} -> Duties
    [] place = "halt" -> Duties \ {"control"}
    [] place = "join" -> {"join", "decoder", "socks", "neg"}
    [] place = "decoder" -> {"decoder", "socks", "neg"}
    [] place = "socks" -> {"socks", "neg"}
    [] place = "neg" -> {"neg"}
    [] OTHER -> {}

(* The place a thread works at, or returns to from an object it closes.    *)
Place(t) == IF pc[t] \in {"see", "drop"} THEN part[t] ELSE pc[t]

(* A duty of the teardown that is not done yet.                            *)
Undone(x) ==
  CASE x = "halt" -> gen > 0 /\ ~stop
    [] x = "join" -> threads # {}
    [] OTHER -> attr[x] # None

(* It will use an attribute that another teardown has taken.               *)
Doomed(t) == pc[t] = "drop" /\ part[t] # "socks" /\ attr[part[t]] = None

(* The thread has the duty before it.                                      *)
WillDo(t, x) ==
  /\ ~Doomed(t)
  /\ x \in Todo(Place(t)) \/ (pc[t] = "test" /\ ~closing)

(* The session is to be torn down.                                         *)
Owed == closing \/ (consumer = "down" /\ pc[Main] \notin ConnectPlaces)

(* The thread closes, or is about to.                                      *)
WillClose(t) == Closes(t) \/ pc[t] = "set" \/ (pc[t] = "test" /\ ~closing)

(* What is left has somebody who does it.                                  *)
WorkInv ==
  /\ Owed => \A x \in Duties : Undone(x) => \E t \in Threads : WillDo(t, x)
  /\ closing => \E t \in Threads : Closes(t)
  /\ connected /\ consumer = "down" /\ pc[Main] \notin ConnectPlaces
       => \E t \in Threads : WillClose(t)

(* Nothing exists that the session has no attribute for, and a teardown    *)
(* closes the sockets that the session has.                                *)
HeldInv ==
  /\ \A p \in Parts : open[p] \subseteq {attr[p]}
  /\ \A t \in Threads : pc[t] = "drop" /\ part[t] = "socks"
       => attr["socks"] \in {held[t], None}
  /\ \A w \in threads : w[1] = gen
  /\ workers \subseteq threads \cup outlived

(* While connect() installs, it is alone.                                  *)
AloneInv ==
  /\ pc[Main] \in Early => \A q \in Quitters : pc[q] \in {"idle", "gone"}
  /\ \A p \in NotYet(pc[Main]) : attr[p] = None
  /\ pc[Main] \in Early \ {"serve"} => threads = {}

(* The inductive invariant of the teardown.                                *)
TeardownInv == ReaderInv /\ WorkInv /\ HeldInv /\ AloneInv

-----------------------------------------------------------------------------

(* None is not the identity of an object.                                  *)
LEMMA NoneIsNoId == None \notin Ids
BY DEF None, Ids, Gens

(* The domains of the maps of a state.                                     *)
LEMMA Shapes ==
  ASSUME TeardownInv
  PROVE  /\ Main \in Threads /\ DOMAIN pc = Threads /\ DOMAIN part = Threads
         /\ DOMAIN held = Threads /\ DOMAIN attr = Parts /\ DOMAIN open = Parts
         /\ Threads = Quitters \cup {Main} /\ Main \notin Quitters
         /\ part \in [Threads -> Parts] /\ TypeInv
         /\ \A p \in Parts : open[p] \subseteq Ids
BY LifecycleAssumption DEF TeardownInv, ReaderInv, TypeInv, TypeOK, Threads

(* While connect() installs, no close is under way.                        *)
LEMMA AloneMeansOpen == TeardownInv /\ pc[Main] \in Early => ~closing /\ ~Owed
BY Shapes DEF TeardownInv, WorkInv, AloneInv, Early, Closes, TearPlaces, Owed, ConnectPlaces

(* Once everybody has ended and the session is owed a teardown, it has had *)
(* one.                                                                    *)
LEMMA NothingLeft ==
  ASSUME TeardownInv, Owed, \A t \in Threads : pc[t] \in {"idle", "gone"}
  PROVE  /\ ~closing /\ threads = {} /\ (gen > 0 => stop)
         /\ \A p \in Parts : attr[p] = None /\ open[p] = {}
         /\ consumer = "down" => ~connected
<1>1. \A t \in Threads, x \in Duties : ~WillDo(t, x)
  BY DEF WillDo, Place, Todo
<1>2. \A x \in Duties : ~Undone(x)
  BY <1>1 DEF TeardownInv, WorkInv
<1>3. \A t \in Threads : ~Closes(t) /\ ~WillClose(t)
  BY DEF WillClose, Closes, TearPlaces
<1>4. ~closing /\ (consumer = "down" => ~connected)
  BY <1>3, Shapes DEF TeardownInv, WorkInv, ConnectPlaces
<1>5. threads = {} /\ (gen > 0 => stop)
  BY <1>2 DEF Undone, Duties
<1>6. \A p \in Parts : attr[p] = None
  BY <1>2 DEF Undone, Duties, Parts
<1>7. \A p \in Parts : open[p] = {}
  BY <1>6, NoneIsNoId, Shapes DEF TeardownInv, HeldInv
<1> QED BY <1>4, <1>5, <1>6, <1>7

(* Nothing is to be torn down at the start.                                *)
LEMMA TeardownInit == Init => TeardownInv
<1> SUFFICES ASSUME Init PROVE TeardownInv
  OBVIOUS
<1>0. pc[Main] = "idle"
  BY DEF Init, Threads
<1>1. ReaderInv
  BY ReaderInit
<1>2. WorkInv
  <2>1. \A x \in Duties : ~Undone(x)
    BY DEF Init, Undone, Duties, Parts
  <2> QED BY <2>1 DEF Init, WorkInv
<1>3. HeldInv
  BY DEF Init, HeldInv
<1>4. AloneInv
  BY <1>0 DEF Init, AloneInv, NotYet, Early
<1> QED BY <1>1, <1>2, <1>3, <1>4 DEF TeardownInv

-----------------------------------------------------------------------------
(* connect() *)

(* A step of connect() that goes on to another place.                      *)
LEMMA EarlyWork ==
  ASSUME TeardownInv, pc[Main] \in Early, NEW place \in ConnectPlaces, Continue(place)
  PROVE  WorkInv'
<1>1. pc'[Main] = place /\ closing' = FALSE
  BY AloneMeansOpen, Shapes DEF Continue, Goto
<1> QED BY <1>1 DEF WorkInv, Owed

(* While a connect is early no thread drops an object.                     *)
LEMMA EarlySocks ==
  ASSUME TeardownInv, pc[Main] \in Early, NEW place \in ConnectPlaces, Continue(place)
  PROVE  \A t \in Threads : pc'[t] # "drop"
BY Shapes DEF Continue, Goto, TeardownInv, AloneInv, ConnectPlaces

(* While a connect is early no other thread closes.                        *)
LEMMA EarlyAlone ==
  ASSUME TeardownInv, pc[Main] \in Early, NEW place \in ConnectPlaces, Continue(place)
  PROVE  \A q \in Quitters : pc'[q] \in {"idle", "gone"}
BY Shapes DEF Continue, Goto, TeardownInv, AloneInv

(* An attribute that connect() installs was free, and so was what it stands*)
(* for.                                                                    *)
LEMMA InstallHeld ==
  ASSUME TeardownInv, NEW p \in Parts, NEW id \in Ids, attr[p] = None, Install(p, id)
  PROVE  \A x \in Parts : open'[x] \subseteq {attr'[x]}
<1>1. open[p] = {}
  BY NoneIsNoId, Shapes DEF TeardownInv, HeldInv
<1> QED BY <1>1, Shapes DEF Install, TeardownInv, HeldInv

(* A step of a connect keeps the invariant.                                *)
LEMMA ConnectKeeps == TeardownInv /\ Connect => TeardownInv'
<1> SUFFICES ASSUME TeardownInv, Connect PROVE TeardownInv'
  OBVIOUS
<1>0. ReaderInv'
  BY ReaderConnect DEF TeardownInv
<1> USE Shapes
<1>1. CASE ConnectFails \/ Missing
  <2>1. Raise /\ pc[Main] \in ConnectPlaces
    BY <1>1 DEF ConnectFails, Missing, Lacks, Needs, ConnectPlaces
  <2>2. /\ pc' = [pc EXCEPT ![Main] = "see"] /\ part' = [part EXCEPT ![Main] = "control"]
        /\ failing' = TRUE
        /\ UNCHANGED <<connected, closing, stop, threads, attr, open, workers, gen, consumer,
                       held, outlived>>
    BY <2>1 DEF Raise, Starts, sessionVars, worldVars, history
  <2>3. \A x \in Duties : WillDo(Main, x)'
    BY <2>2 DEF WillDo, Doomed, Todo, Place
  <2>4. ~connected /\ ~failing
    BY <2>1 DEF TeardownInv, ReaderInv
  <2>5. \A t \in Threads : Closes(t) => Closes(t)'
    BY <2>1, <2>2, <2>4 DEF Closes, TearPlaces, ConnectPlaces
  <2>6. WorkInv'
    BY <2>2, <2>3, <2>4, <2>5 DEF TeardownInv, WorkInv
  <2>7. HeldInv'
    BY <2>2 DEF TeardownInv, HeldInv
  <2>8. AloneInv'
    BY <2>2 DEF AloneInv, NotYet, Early
  <2> QED BY <1>0, <2>6, <2>7, <2>8 DEF TeardownInv
<1>2. CASE Bind
  <2>1. pc[Main] \in Early /\ Continue("negotiate") /\ "negotiate" \in ConnectPlaces
    BY <1>2 DEF Bind, Early, ConnectPlaces
  <2>2. Made \in Ids /\ "socks" \in Parts /\ \A p \in Parts : attr[p] = None
    BY <1>2, Numbers, MadeIds
       DEF Bind, TeardownInv, AloneInv, NotYet, TypeInv, Made, Parts, ConnectPlaces
  <2>3. /\ UNCHANGED <<threads, workers, outlived, gen>> /\ pc'[Main] = "negotiate"
        /\ attr' = [attr EXCEPT !["socks"] = Made]
    BY <1>2 DEF Bind, Continue, Goto, Install
  <2>4. HeldInv'
    BY <1>2, <2>1, <2>2, <2>3, InstallHeld, EarlySocks DEF Bind, TeardownInv, HeldInv
  <2>5. AloneInv'
    BY <1>2, <2>1, <2>2, <2>3, EarlyAlone
       DEF Bind, TeardownInv, AloneInv, NotYet, Early, Parts
  <2> QED BY <1>0, <2>1, <2>4, <2>5, EarlyWork DEF TeardownInv
<1>3. CASE Negotiate
  <2>1. pc[Main] \in Early /\ Continue("burst") /\ "burst" \in ConnectPlaces
    BY <1>3 DEF Negotiate, Early, ConnectPlaces
  <2>2. /\ <<gen, attempt>> \in Ids /\ "neg" \in Parts
        /\ \A p \in {"control", "decoder", "neg"} : attr[p] = None
    BY <1>3, MadeIds DEF Negotiate, TeardownInv, AloneInv, NotYet, TypeInv, TypeOK, Parts,
                         ConnectPlaces
  <2>3. /\ UNCHANGED <<threads, workers, outlived, gen>> /\ pc'[Main] = "burst"
        /\ attr' = [attr EXCEPT !["neg"] = <<gen, attempt>>]
    BY <1>3 DEF Negotiate, Continue, Goto, Install
  <2>4. HeldInv'
    BY <1>3, <2>1, <2>2, <2>3, InstallHeld, EarlySocks DEF Negotiate, TeardownInv, HeldInv
  <2>5. AloneInv'
    BY <1>3, <2>1, <2>2, <2>3, EarlyAlone
       DEF Negotiate, TeardownInv, AloneInv, NotYet, Early, Parts
  <2> QED BY <1>0, <2>1, <2>4, <2>5, EarlyWork DEF TeardownInv
<1>4. CASE Starved
  <2>1. pc[Main] \in Early /\ Continue("negotiate") /\ "negotiate" \in ConnectPlaces
    BY <1>4 DEF Starved, Early, ConnectPlaces
  <2>2. \A p \in {"control", "decoder"} : attr[p] = None
    BY <1>4 DEF Starved, TeardownInv, AloneInv, NotYet
  <2>3. /\ UNCHANGED <<threads, workers, outlived, gen>> /\ pc'[Main] = "negotiate"
        /\ attr' = [attr EXCEPT !["neg"] = None]
        /\ open' = [open EXCEPT !["neg"] = @ \ {attr["neg"]}]
    BY <1>4 DEF Starved, TeardownNegotiationTcp, Continue, Goto
  <2>4. HeldInv'
    BY <1>4, <2>1, <2>2, <2>3, EarlySocks DEF TeardownInv, HeldInv, Parts
  <2>5. AloneInv'
    BY <1>4, <2>1, <2>2, <2>3, EarlyAlone
       DEF Starved, TeardownInv, AloneInv, NotYet, Early, Parts
  <2> QED BY <1>0, <2>1, <2>4, <2>5, EarlyWork DEF TeardownInv
<1>5. CASE Gather
  <2>1. pc[Main] \in Early /\ Continue("decoder") /\ "decoder" \in ConnectPlaces
    BY <1>5 DEF Gather, Early, ConnectPlaces
  <2>2. /\ UNCHANGED <<threads, workers, outlived, gen, attr, open>>
        /\ pc[Main] = "burst" /\ pc'[Main] = "decoder"
    BY <1>5 DEF Gather, Continue, Goto
  <2>3. HeldInv'
    BY <2>1, <2>2, EarlySocks DEF TeardownInv, HeldInv
  <2>4. AloneInv'
    BY <2>1, <2>2, EarlyAlone DEF TeardownInv, AloneInv, NotYet, Early
  <2> QED BY <1>0, <2>1, <2>3, <2>4, EarlyWork DEF TeardownInv
<1>6. CASE BuildDecoder
  <2>1. pc[Main] \in Early /\ Continue("clear") /\ "clear" \in ConnectPlaces
    BY <1>6 DEF BuildDecoder, Early, ConnectPlaces
  <2>2. /\ Made \in Ids /\ "decoder" \in Parts
        /\ \A p \in {"control", "decoder"} : attr[p] = None
    BY <1>6, Numbers, MadeIds
       DEF BuildDecoder, TeardownInv, AloneInv, NotYet, TypeInv, Made, Parts, ConnectPlaces
  <2>3. /\ UNCHANGED <<threads, workers, outlived, gen>> /\ pc'[Main] = "clear"
        /\ attr' = [attr EXCEPT !["decoder"] = Made]
    BY <1>6 DEF BuildDecoder, Continue, Goto, Install
  <2>4. HeldInv'
    BY <1>6, <2>1, <2>2, <2>3, InstallHeld, EarlySocks DEF BuildDecoder, TeardownInv, HeldInv
  <2>5. AloneInv'
    BY <1>6, <2>1, <2>2, <2>3, EarlyAlone
       DEF BuildDecoder, TeardownInv, AloneInv, NotYet, Early, Parts
  <2> QED BY <1>0, <2>1, <2>4, <2>5, EarlyWork DEF TeardownInv
<1>7. CASE ClearStop
  <2>1. pc[Main] \in Early /\ Continue("spawn") /\ "spawn" \in ConnectPlaces
    BY <1>7 DEF ClearStop, Early, ConnectPlaces
  <2>2. /\ UNCHANGED <<threads, workers, outlived, gen, attr, open>>
        /\ pc[Main] = "clear" /\ pc'[Main] = "spawn"
    BY <1>7 DEF ClearStop, Continue, Goto
  <2>3. HeldInv'
    BY <2>1, <2>2, EarlySocks DEF TeardownInv, HeldInv
  <2>4. AloneInv'
    BY <2>1, <2>2, EarlyAlone DEF TeardownInv, AloneInv, NotYet, Early
  <2> QED BY <1>0, <2>1, <2>3, <2>4, EarlyWork DEF TeardownInv
<1>8. CASE SpawnThreads
  <2>1. pc[Main] \in Early /\ Continue("serve") /\ "serve" \in ConnectPlaces
    BY <1>8 DEF SpawnThreads, Early, ConnectPlaces
  <2>2. /\ UNCHANGED <<outlived, gen, attr, open>>
        /\ pc[Main] = "spawn" /\ pc'[Main] = "serve"
        /\ workers' = workers \cup {Worker(k) : k \in Kinds}
        /\ threads' = threads \cup {Worker(k) : k \in Kinds}
    BY <1>8 DEF SpawnThreads, Continue, Goto
  <2>3. HeldInv'
    BY <2>1, <2>2, EarlySocks DEF TeardownInv, HeldInv, Worker
  <2>4. AloneInv'
    BY <2>1, <2>2, EarlyAlone DEF TeardownInv, AloneInv, NotYet, Early
  <2> QED BY <1>0, <2>1, <2>3, <2>4, EarlyWork DEF TeardownInv
<1>9. CASE Serve
  <2>1. pc[Main] \in Early /\ Continue("hello") /\ "hello" \in ConnectPlaces
    BY <1>9 DEF Serve, Early, ConnectPlaces
  <2>2. Made \in Ids /\ "control" \in Parts /\ attr["control"] = None
    BY <1>9, Numbers, MadeIds
       DEF Serve, TeardownInv, AloneInv, NotYet, TypeInv, Made, Parts, ConnectPlaces
  <2>3. /\ UNCHANGED <<threads, workers, outlived, gen>> /\ pc'[Main] = "hello"
        /\ attr' = [attr EXCEPT !["control"] = Made]
    BY <1>9 DEF Serve, Continue, Goto, Install
  <2>4. HeldInv'
    BY <1>9, <2>1, <2>2, <2>3, InstallHeld, EarlySocks DEF Serve, TeardownInv, HeldInv
  <2>5. AloneInv'
    BY <2>3 DEF AloneInv, NotYet, Early
  <2> QED BY <1>0, <2>1, <2>4, <2>5, EarlyWork DEF TeardownInv
<1>10. CASE ServeNot
  <2>1. pc[Main] \in Early /\ Continue("flag") /\ "flag" \in ConnectPlaces
    BY <1>10 DEF ServeNot, Early, ConnectPlaces
  <2>2. /\ UNCHANGED <<threads, workers, outlived, gen, open, attr>> /\ pc'[Main] = "flag"
    BY <1>10 DEF ServeNot, Continue, Goto, TeardownInv, AloneInv, NotYet, TypeInv, TypeOK, Parts
  <2>3. HeldInv'
    BY <2>1, <2>2, EarlySocks DEF TeardownInv, HeldInv
  <2>4. AloneInv'
    BY <2>2 DEF AloneInv, NotYet, Early
  <2> QED BY <1>0, <2>1, <2>3, <2>4, EarlyWork DEF TeardownInv
<1>11. CASE Hello
  <2>1. /\ pc[Main] = "hello" /\ pc' = [pc EXCEPT ![Main] = "flag"]
        /\ UNCHANGED <<connected, closing, stop, threads, attr, open, workers, gen, consumer,
                       failing, part, held, outlived>>
    BY <1>11 DEF Hello, Continue, Goto
  <2>2. \A t \in Threads, x \in Duties : WillDo(t, x) => WillDo(t, x)'
    BY <2>1 DEF WillDo, Doomed, Place, Todo
  <2>3. \A t \in Threads : Closes(t) => Closes(t)'
    BY <2>1 DEF Closes, TearPlaces
  <2>4. WorkInv'
    BY <2>1, <2>2, <2>3
       DEF TeardownInv, WorkInv, Owed, Undone, ConnectPlaces
  <2>5. HeldInv'
    BY <2>1 DEF TeardownInv, HeldInv
  <2>6. AloneInv'
    BY <2>1 DEF AloneInv, NotYet, Early
  <2> QED BY <1>0, <2>4, <2>5, <2>6 DEF TeardownInv
<1>12. CASE RaiseFlag
  <2>1. /\ pc[Main] = "flag" /\ pc' = [pc EXCEPT ![Main] = "idle"]
        /\ consumer' = "up"
        /\ UNCHANGED <<closing, stop, threads, attr, open, workers, gen, failing, part, held,
                       outlived>>
    BY <1>12 DEF RaiseFlag, Goto, worldVars
  <2>2. \A t \in Threads, x \in Duties : WillDo(t, x) => WillDo(t, x)'
    BY <2>1 DEF WillDo, Doomed, Place, Todo
  <2>3. \A t \in Threads : Closes(t) => Closes(t)'
    BY <2>1 DEF Closes, TearPlaces
  <2>4. WorkInv'
    BY <2>1, <2>2, <2>3 DEF TeardownInv, WorkInv, Owed, Undone
  <2>5. HeldInv'
    BY <2>1 DEF TeardownInv, HeldInv
  <2>6. AloneInv'
    BY <2>1 DEF AloneInv, NotYet, Early
  <2> QED BY <1>0, <2>4, <2>5, <2>6 DEF TeardownInv
<1> QED BY <1>1, <1>2, <1>3, <1>4, <1>5, <1>6, <1>7, <1>8, <1>9, <1>10, <1>11, <1>12 DEF Connect

-----------------------------------------------------------------------------
(* close() *)

(* No close runs beside the early places.                                  *)
LEMMA CloseIsLate ==
  ASSUME TeardownInv, NEW t \in Threads, Close(t)
  PROVE  AloneInv' /\ pc[Main] \notin Early
<1> USE Shapes
<1>1. pc[t] \in TearPlaces \cup {"test", "set"}
  BY DEF Close, Teardown, TestClosing, SetClosing, See, Drop, Halt, Join, EndClose, TearPlaces
<1>2. pc[Main] \notin Early
  BY <1>1 DEF TeardownInv, AloneInv, Early, TearPlaces
<1>3. pc'[Main] \in TearPlaces \cup {"idle", "gone", "set"} \/ pc'[Main] = pc[Main]
  BY DEF Close, Teardown, TestClosing, SetClosing, Starts, Goto, Over, See, Drop, Proceed,
         Halt, Join, EndClose, TearPlaces
<1>4. pc'[Main] \notin Early
  BY <1>2, <1>3 DEF Early, TearPlaces
<1> QED BY <1>2, <1>4 DEF AloneInv, NotYet, Early

(* A thread that goes on to the next place keeps the duties that are left. *)
LEMMA ProceedTodo ==
  ASSUME TeardownInv, NEW t \in Threads, pc[t] \in {"see", "drop"}, Proceed(t)
  PROVE  /\ pc'[t] \in {"see", "halt", "end"} /\ ~Doomed(t)'
         /\ Todo(Place(t)') = Todo(part[t]) \ {part[t]}
         /\ \A s \in Threads : s # t => pc'[s] = pc[s] /\ part'[s] = part[s]
<1> USE Shapes
<1>1. part[t] \in Parts
  OBVIOUS
<1>2. \A s \in Threads : s # t => pc'[s] = pc[s] /\ part'[s] = part[s]
  BY DEF Proceed
<1>3. CASE part[t] = "control"
  BY <1>2, <1>3 DEF Proceed, Doomed, Place, Todo, Duties, Parts
<1>4. CASE part[t] = "decoder"
  BY <1>2, <1>4 DEF Proceed, Doomed, Place, Todo
<1>5. CASE part[t] = "socks"
  BY <1>2, <1>5 DEF Proceed, Doomed, Place, Todo
<1>6. CASE part[t] = "neg"
  BY <1>2, <1>6 DEF Proceed, Doomed, Place, Todo
<1> QED BY <1>1, <1>3, <1>4, <1>5, <1>6 DEF Parts

(* While t takes a step inside its teardown, whoever would close will.     *)
LEMMA StillCloses ==
  ASSUME TeardownInv, NEW t \in Threads, pc[t] \in TearPlaces, pc'[t] \in TearPlaces,
         \A s \in Threads : s # t => pc'[s] = pc[s], UNCHANGED <<failing, closing>>
  PROVE  /\ \A s \in Threads : Closes(s) => Closes(s)'
         /\ \A s \in Threads : WillClose(s) => WillClose(s)'
         /\ pc[Main] \notin ConnectPlaces <=> pc'[Main] \notin ConnectPlaces
BY Shapes DEF Closes, WillClose, TearPlaces, ConnectPlaces

(* The work is kept by a step of t inside its teardown when every witness  *)
(* that is lost is replaced.                                               *)
LEMMA TearWork ==
  ASSUME TeardownInv, NEW t \in Threads, pc[t] \in TearPlaces, pc'[t] \in TearPlaces,
         \A s \in Threads : s # t => pc'[s] = pc[s],
         UNCHANGED <<failing, closing, connected, consumer>>,
         \A x \in Duties : Undone(x)' => Undone(x),
         \A x \in Duties, s \in Threads :
           Undone(x)' /\ WillDo(s, x) => \E u \in Threads : WillDo(u, x)'
  PROVE  WorkInv'
<1>1. Owed' <=> Owed
  BY StillCloses DEF Owed
<1>2. Owed' => \A x \in Duties : Undone(x)' => \E u \in Threads : WillDo(u, x)'
  BY <1>1 DEF TeardownInv, WorkInv
<1> QED BY <1>2, StillCloses DEF TeardownInv, WorkInv

(* A thread that takes an object to close leaves nothing undone.           *)
LEMMA SeeKeeps == ASSUME TeardownInv, NEW t \in Threads, See(t) PROVE WorkInv' /\ HeldInv'
<1> USE Shapes
<1>0. /\ pc[t] = "see" /\ part[t] \in Parts
      /\ held' = [held EXCEPT ![t] = IF part[t] = "socks" THEN attr["socks"] ELSE None]
      /\ UNCHANGED <<connected, closing, stop, threads, attr, open, workers, gen, consumer,
                     failing, outlived>>
  BY DEF See, sessionVars, worldVars, callVars, history
<1>1. CASE attr[part[t]] = None
  <2>1. Proceed(t)
    BY <1>1 DEF See
  <2>2. pc'[t] \in TearPlaces /\ pc[t] \in TearPlaces
    BY <1>0, <2>1, ProceedTodo DEF TearPlaces
  <2>3. \A x \in Duties : Undone(x)' <=> Undone(x)
    BY <1>0 DEF Undone
  <2>4. ASSUME NEW x \in Duties, NEW s \in Threads, Undone(x), WillDo(s, x)
        PROVE  WillDo(s, x)'
    <3>1. CASE s = t
      <4>1. x \in Todo(part[t])
        BY <1>0, <2>4, <3>1 DEF WillDo, Place
      <4>2. x # part[t]
        BY <1>0, <1>1, <2>4 DEF Undone, Parts
      <4> QED BY <1>0, <2>1, <3>1, <4>1, <4>2, ProceedTodo DEF WillDo
    <3>2. CASE s # t
      BY <1>0, <2>1, <2>4, <3>2, ProceedTodo DEF WillDo, Doomed, Place
    <3> QED BY <3>1, <3>2
  <2>5. WorkInv'
    BY <1>0, <2>1, <2>2, <2>3, <2>4, ProceedTodo, TearWork
  <2>6. HeldInv'
    BY <1>0, <2>1, ProceedTodo DEF TeardownInv, HeldInv
  <2> QED BY <2>5, <2>6
<1>2. CASE attr[part[t]] # None
  <2>1. pc' = [pc EXCEPT ![t] = "drop"] /\ part' = part
    BY <1>2 DEF See, Goto
  <2>2. pc'[t] \in TearPlaces /\ pc[t] \in TearPlaces
    BY <1>0, <2>1 DEF TearPlaces
  <2>3. \A x \in Duties : Undone(x)' <=> Undone(x)
    BY <1>0 DEF Undone
  <2>4. \A x \in Duties, s \in Threads : WillDo(s, x) => WillDo(s, x)'
    BY <1>0, <1>2, <2>1 DEF WillDo, Doomed, Place
  <2>5. WorkInv'
    BY <1>0, <2>1, <2>2, <2>3, <2>4, TearWork
  <2>6. HeldInv'
    BY <1>0, <2>1 DEF TeardownInv, HeldInv
  <2> QED BY <2>5, <2>6
<1> QED BY <1>1, <1>2

(* The one that takes an attribute takes over from those it dooms.         *)
LEMMA DropKeeps == ASSUME TeardownInv, NEW t \in Threads, Drop(t) PROVE WorkInv' /\ HeldInv'
<1> USE Shapes
<1>0. /\ pc[t] = "drop" /\ part[t] \in Parts /\ pc[t] \in TearPlaces
      /\ held' = [held EXCEPT ![t] = None]
      /\ UNCHANGED <<connected, closing, stop, threads, workers, gen, consumer, failing, outlived>>
  BY DEF Drop, callVars, history, TearPlaces
<1>1. CASE Doomed(t)
  <2>1. pc' = [pc EXCEPT ![t] = "end"] /\ UNCHANGED <<attr, open, part>>
    BY <1>1 DEF Drop, Doomed, Goto
  <2>2. pc'[t] \in TearPlaces
    BY <2>1 DEF TearPlaces
  <2>3. \A x \in Duties : Undone(x)' <=> Undone(x)
    BY <1>0, <2>1 DEF Undone
  <2>4. \A x \in Duties, s \in Threads : WillDo(s, x) => WillDo(s, x)'
    BY <1>0, <1>1, <2>1 DEF WillDo, Doomed, Place
  <2>5. WorkInv'
    BY <1>0, <2>1, <2>2, <2>3, <2>4, TearWork
  <2>6. HeldInv'
    BY <1>0, <2>1 DEF TeardownInv, HeldInv
  <2> QED BY <2>5, <2>6
<1>2. CASE ~Doomed(t)
  <2>1. /\ open' = [open EXCEPT ![part[t]] =
                      @ \ {IF part[t] = "socks" THEN held[t] ELSE attr[part[t]]}]
        /\ attr' = [attr EXCEPT ![part[t]] = None]
        /\ Proceed(t)
    BY <1>0, <1>2 DEF Drop, Doomed
  <2>2. pc'[t] \in TearPlaces
    BY <1>0, <2>1, ProceedTodo DEF TearPlaces
  <2>3. /\ \A x \in Duties : Undone(x)' => Undone(x) /\ x # part[t]
    BY <1>0, <2>1 DEF Undone, Parts
  <2>4. ASSUME NEW x \in Duties, NEW s \in Threads, Undone(x)', WillDo(s, x)
        PROVE  \E u \in Threads : WillDo(u, x)'
    <3>1. CASE s = t \/ (pc[s] = "drop" /\ part[s] = part[t])
      <4>1. x \in Todo(part[t])
        BY <1>0, <2>4, <3>1 DEF WillDo, Place
      <4>2. WillDo(t, x)'
        BY <1>0, <2>1, <2>3, <2>4, <4>1, ProceedTodo DEF WillDo
      <4> QED BY <4>2
    <3>2. CASE s # t /\ ~(pc[s] = "drop" /\ part[s] = part[t])
      <4>1. pc'[s] = pc[s] /\ part'[s] = part[s]
        BY <1>0, <2>1, <3>2, ProceedTodo
      <4>2. ~Doomed(s)'
        BY <2>1, <2>4, <3>2, <4>1 DEF WillDo, Doomed
      <4> QED BY <1>0, <2>4, <4>1, <4>2 DEF WillDo, Place
    <3> QED BY <3>1, <3>2
  <2>5. WorkInv'
    BY <1>0, <2>1, <2>2, <2>3, <2>4, ProceedTodo, TearWork
  <2>6. \A p \in Parts : open'[p] \subseteq {attr'[p]}
    BY <1>0, <2>1 DEF TeardownInv, HeldInv
  <2>7. HeldInv'
    BY <1>0, <2>1, <2>6, ProceedTodo DEF TeardownInv, HeldInv
  <2> QED BY <2>5, <2>7
<1> QED BY <1>1, <1>2

(* Nor does one that stops or joins the workers.                           *)
LEMMA HaltKeeps ==
  ASSUME TeardownInv, NEW t \in Threads, Halt(t) \/ Join(t)
  PROVE  WorkInv' /\ HeldInv'
<1> USE Shapes
<1>1. CASE Halt(t)
  <2>1. /\ pc[t] = "halt" /\ pc' = [pc EXCEPT ![t] = "join"] /\ stop' = TRUE
        /\ UNCHANGED <<connected, closing, threads, attr, open, workers, gen, consumer,
                       failing, part, held, outlived>>
    BY <1>1 DEF Halt, Goto, worldVars, callVars, history
  <2>2. pc'[t] \in TearPlaces /\ pc[t] \in TearPlaces
    BY <2>1 DEF TearPlaces
  <2>3. \A x \in Duties : Undone(x)' => Undone(x) /\ x # "halt"
    BY <2>1 DEF Undone
  <2>4. \A x \in Duties, s \in Threads : x # "halt" /\ WillDo(s, x) => WillDo(s, x)'
    BY <2>1 DEF WillDo, Doomed, Place, Todo, Duties, Parts
  <2>5. WorkInv'
    BY <2>1, <2>2, <2>3, <2>4, TearWork
  <2>6. HeldInv'
    BY <2>1 DEF TeardownInv, HeldInv
  <2> QED BY <2>5, <2>6
<1>2. CASE Join(t)
  <2>1. /\ pc[t] = "join" /\ pc' = [pc EXCEPT ![t] = "see"]
        /\ part' = [part EXCEPT ![t] = "decoder"] /\ threads' = {}
        /\ outlived' = outlived \cup (threads \cap workers)
        /\ UNCHANGED <<connected, closing, stop, attr, open, workers, gen, consumer,
                       failing, held>>
    BY <1>2 DEF Join, worldVars, callVars
  <2>2. pc'[t] \in TearPlaces /\ pc[t] \in TearPlaces
    BY <2>1 DEF TearPlaces
  <2>3. \A x \in Duties : Undone(x)' => Undone(x) /\ x # "join"
    BY <2>1 DEF Undone
  <2>4. \A x \in Duties, s \in Threads : x # "join" /\ WillDo(s, x) => WillDo(s, x)'
    BY <2>1 DEF WillDo, Doomed, Place, Todo
  <2>5. WorkInv'
    BY <2>1, <2>2, <2>3, <2>4, TearWork
  <2>6. HeldInv'
    BY <2>1 DEF TeardownInv, HeldInv
  <2> QED BY <2>5, <2>6
<1> QED BY <1>1, <1>2

(* A close that finds another under way leaves the work to it; the last    *)
(* step of a close has no work left.                                       *)
LEMMA EdgeKeeps ==
  ASSUME TeardownInv, NEW t \in Threads, TestClosing(t) \/ SetClosing(t) \/ EndClose(t)
  PROVE  WorkInv' /\ HeldInv'
<1> USE Shapes
<1>0. UNCHANGED <<stop, threads, attr, open, workers, gen, consumer, failing, held, outlived>>
  BY DEF TestClosing, SetClosing, EndClose, sessionVars, worldVars, callVars, history
<1>1. CASE TestClosing(t)
  <2>1. /\ pc[t] = "test" /\ UNCHANGED <<connected, closing, part>>
        /\ pc' = [pc EXCEPT ![t] = IF closing THEN Over(t) ELSE "set"]
    BY <1>1 DEF TestClosing, Goto, sessionVars
  <2>2. \A x \in Duties : Undone(x)' <=> Undone(x)
    BY <1>0 DEF Undone
  <2>3. \A x \in Duties, s \in Threads : WillDo(s, x) => WillDo(s, x)'
    BY <1>0, <2>1 DEF WillDo, Doomed, Place, Todo
  <2>4. /\ \A s \in Threads : Closes(s) => Closes(s)'
        /\ \A s \in Threads : WillClose(s) => WillClose(s)'
    BY <1>0, <2>1 DEF Closes, WillClose, TearPlaces
  <2>5. Owed' <=> Owed
    BY <1>0, <2>1 DEF Owed, ConnectPlaces, Over
  <2>6. pc'[Main] \notin ConnectPlaces <=> pc[Main] \notin ConnectPlaces
    BY <2>1 DEF ConnectPlaces, Over
  <2>7. WorkInv'
    BY <1>0, <2>1, <2>2, <2>3, <2>4, <2>5, <2>6 DEF TeardownInv, WorkInv
  <2>8. HeldInv'
    BY <1>0, <2>1 DEF TeardownInv, HeldInv, Over
  <2> QED BY <2>7, <2>8
<1>2. CASE SetClosing(t)
  <2>1. /\ pc[t] = "set" /\ pc' = [pc EXCEPT ![t] = "see"]
        /\ part' = [part EXCEPT ![t] = "control"] /\ closing' = TRUE
    BY <1>2 DEF SetClosing, Starts
  <2>2. \A x \in Duties : WillDo(t, x)'
    BY <2>1 DEF WillDo, Doomed, Place, Todo
  <2>3. t = Main => ~failing
    BY <2>1 DEF TeardownInv, ReaderInv, TearPlaces
  <2>4. Closes(t)' /\ WillClose(t)'
    BY <1>0, <2>1, <2>3 DEF Closes, WillClose, TearPlaces
  <2>5. WorkInv'
    BY <2>2, <2>4 DEF WorkInv
  <2>6. HeldInv'
    BY <1>0, <2>1 DEF TeardownInv, HeldInv
  <2> QED BY <2>5, <2>6
<1>3. CASE EndClose(t)
  <2>1. /\ pc[t] = "end" /\ pc' = [pc EXCEPT ![t] = Over(t)] /\ part' = part
        /\ closing' = FALSE /\ connected' = FALSE
    BY <1>3 DEF EndClose, Goto
  <2>2. \A x \in Duties : Undone(x)' <=> Undone(x)
    BY <1>0 DEF Undone
  <2>3. \A x \in Duties, s \in Threads : WillDo(s, x) => WillDo(s, x)'
    BY <1>0, <2>1 DEF WillDo, Doomed, Place, Todo
  <2>4. Owed' => Owed
    BY <1>0, <2>1 DEF Owed, ConnectPlaces, Over
  <2>5. WorkInv'
    BY <2>1, <2>2, <2>3, <2>4 DEF TeardownInv, WorkInv
  <2>6. HeldInv'
    BY <1>0, <2>1 DEF TeardownInv, HeldInv, Over
  <2> QED BY <2>5, <2>6
<1> QED BY <1>1, <1>2, <1>3

(* A step of a close keeps the invariant.                                  *)
LEMMA CloseKeeps == ASSUME TeardownInv, NEW t \in Threads, Close(t) PROVE TeardownInv'
<1>1. ReaderInv' /\ AloneInv'
  BY ReaderClose, CloseIsLate DEF TeardownInv
<1>2. WorkInv' /\ HeldInv'
  BY SeeKeeps, DropKeeps, HaltKeeps, EdgeKeeps DEF Close, Teardown
<1> QED BY <1>1, <1>2 DEF TeardownInv

-----------------------------------------------------------------------------
(* The other steps *)

(* Where a second close waits for the first, every step keeps the          *)
(* invariant.                                                              *)
LEMMA TeardownStep ==
  ASSUME Policy = "waits"
  PROVE  TeardownInv /\ [Step]_vars => TeardownInv'
<1> SUFFICES ASSUME TeardownInv, [Step]_vars PROVE TeardownInv'
  OBVIOUS
<1> USE Shapes
<1>0. ReaderInv'
  BY ReaderStep DEF TeardownInv
<1>1. CASE ConnectNothing
  <2>1. /\ pc[Main] = "idle" /\ consumer' = "up"
        /\ UNCHANGED <<connected, closing, stop, threads, attr, open, workers, gen, failing,
                       pc, part, held, outlived>>
    BY <1>1 DEF ConnectNothing, MayConnect, sessionVars, worldVars, history
  <2>2. WorkInv'
    BY <2>1 DEF TeardownInv, WorkInv, Owed, Undone, WillDo, Doomed, Place, Closes
  <2>3. HeldInv' /\ AloneInv'
    BY <2>1 DEF TeardownInv, HeldInv, AloneInv
  <2> QED BY <1>0, <2>2, <2>3 DEF TeardownInv
<1>2. CASE ConnectCall
  <2>1. /\ pc[Main] = "idle" /\ consumer = "down" /\ gen' = gen + 1
        /\ pc' = [pc EXCEPT ![Main] = "bind"]
        /\ \A q \in Quitters : pc[q] \in {"idle", "gone"}
        /\ UNCHANGED <<connected, closing, stop, threads, attr, open, workers, failing,
                       part, held, outlived>>
    BY <1>2 DEF ConnectCall, MayConnect, Goto, sessionVars, worldVars, history
  <2>2. Owed /\ \A t \in Threads : pc[t] \in {"idle", "gone"}
    BY <2>1 DEF Owed, ConnectPlaces
  <2>3. /\ ~closing /\ threads = {} /\ \A p \in Parts : attr[p] = None
    BY <2>2, NothingLeft
  <2>4. WorkInv'
    BY <2>1, <2>3 DEF WorkInv, Owed, ConnectPlaces
  <2>5. HeldInv'
    BY <2>1, <2>3 DEF TeardownInv, HeldInv
  <2>6. AloneInv'
    BY <2>1, <2>3 DEF AloneInv, NotYet
  <2> QED BY <1>0, <2>4, <2>5, <2>6 DEF TeardownInv
<1>3. CASE Connect
  BY <1>3, ConnectKeeps
<1>4. CASE CloseCall
  <2>1. /\ pc[Main] = "idle" /\ pc' = [pc EXCEPT ![Main] = "test"]
        /\ UNCHANGED <<connected, closing, stop, threads, attr, open, workers, gen, failing,
                       part, held, outlived>>
    BY <1>4 DEF CloseCall, Goto, sessionVars, worldVars, history
  <2>2. \A x \in Duties : Undone(x)' <=> Undone(x)
    BY <2>1 DEF Undone
  <2>3. \A x \in Duties, s \in Threads : WillDo(s, x) => WillDo(s, x)'
    BY <2>1 DEF WillDo, Doomed, Place, Todo
  <2>4. \A s \in Threads : Closes(s) => Closes(s)' /\ WillClose(s)'
    BY <2>1 DEF Closes, WillClose, TearPlaces
  <2>5. ASSUME closing PROVE WorkInv'
    <3>1. PICK s \in Threads : Closes(s)
      BY <2>5 DEF TeardownInv, WorkInv
    <3>2. Closes(s)' /\ WillClose(s)'
      BY <2>4, <3>1
    <3>3. \A x \in Duties : Undone(x)' => \E t \in Threads : WillDo(t, x)'
      BY <2>2, <2>3, <2>5 DEF TeardownInv, WorkInv, Owed
    <3> QED BY <3>2, <3>3 DEF WorkInv
  <2>6. ASSUME ~closing PROVE WorkInv'
    <3>1. pc'[Main] = "test" /\ ~closing'
      BY <2>1, <2>6
    <3>2. WillClose(Main)' /\ \A x \in Duties : WillDo(Main, x)'
      BY <3>1 DEF WillClose, WillDo, Doomed
    <3> QED BY <3>1, <3>2 DEF WorkInv
  <2>7. HeldInv' /\ AloneInv'
    BY <2>1 DEF TeardownInv, HeldInv, AloneInv, NotYet, Early
  <2>8. WorkInv'
    BY <2>5, <2>6
  <2> QED BY <1>0, <2>7, <2>8 DEF TeardownInv
<1>5. CASE EndConnect
  <2>1. /\ pc[Main] = "end" /\ failing /\ failing' = FALSE
        /\ pc' = [pc EXCEPT ![Main] = "idle"]
        /\ UNCHANGED <<connected, closing, stop, threads, attr, open, workers, gen, consumer,
                       part, held, outlived>>
    BY <1>5 DEF EndConnect, Goto, sessionVars, worldVars, history
  <2>2. \A x \in Duties : Undone(x)' <=> Undone(x)
    BY <2>1 DEF Undone
  <2>3. \A x \in Duties, s \in Threads : WillDo(s, x) => WillDo(s, x)'
    BY <2>1 DEF WillDo, Doomed, Place, Todo
  <2>4. \A s \in Threads : Closes(s) => Closes(s)'
    BY <2>1 DEF Closes
  <2>5. ~connected
    BY <2>1 DEF TeardownInv, ReaderInv
  <2>6. WorkInv'
    BY <2>1, <2>2, <2>3, <2>4, <2>5 DEF TeardownInv, WorkInv, Owed, ConnectPlaces
  <2>7. HeldInv' /\ AloneInv'
    BY <2>1 DEF TeardownInv, HeldInv, AloneInv, NotYet, Early
  <2> QED BY <1>0, <2>6, <2>7 DEF TeardownInv
<1>6. ASSUME NEW q \in Quitters, Quit(q) PROVE TeardownInv'
  <2>1. /\ q \in Threads /\ q # Main /\ pc[q] = "idle" /\ pc' = [pc EXCEPT ![q] = "test"]
        /\ open["control"] # {}
        /\ UNCHANGED <<connected, closing, stop, threads, attr, open, workers, gen, consumer,
                       failing, part, held, outlived>>
    BY <1>6 DEF Quit, Goto, sessionVars, worldVars, callVars, history
  <2>2. pc[Main] \notin Early
    <3>1. attr["control"] # None
      BY <2>1, NoneIsNoId DEF TeardownInv, HeldInv, Parts
    <3> QED BY <3>1 DEF TeardownInv, AloneInv, NotYet, Early, Parts
  <2>3. \A x \in Duties : Undone(x)' <=> Undone(x)
    BY <2>1 DEF Undone
  <2>4. \A x \in Duties, s \in Threads : WillDo(s, x) => WillDo(s, x)'
    BY <2>1 DEF WillDo, Doomed, Place, Todo
  <2>5. /\ \A s \in Threads : Closes(s) => Closes(s)'
        /\ \A s \in Threads : WillClose(s) => WillClose(s)'
    BY <2>1 DEF Closes, WillClose, TearPlaces
  <2>6. WorkInv'
    <3>1. pc'[Main] = pc[Main] /\ (Owed' <=> Owed)
      BY <2>1 DEF Owed
    <3>2. Owed' => \A x \in Duties : Undone(x)' => \E t \in Threads : WillDo(t, x)'
      BY <2>3, <2>4, <3>1 DEF TeardownInv, WorkInv
    <3>3. closing' => \E t \in Threads : Closes(t)'
      BY <2>1, <2>5 DEF TeardownInv, WorkInv
    <3>4. connected' /\ consumer' = "down" /\ pc'[Main] \notin ConnectPlaces
            => \E t \in Threads : WillClose(t)'
      BY <2>1, <2>5, <3>1 DEF TeardownInv, WorkInv
    <3> QED BY <3>2, <3>3, <3>4 DEF WorkInv
  <2>7. HeldInv' /\ AloneInv'
    BY <2>1, <2>2 DEF TeardownInv, HeldInv, AloneInv, NotYet, Early
  <2> QED BY <1>0, <2>6, <2>7 DEF TeardownInv
<1>7. ASSUME NEW t \in Threads, Close(t) PROVE TeardownInv'
  BY <1>7, CloseKeeps
<1>8. ASSUME NEW w, Ends(w), connected' \in {connected, FALSE},
             UNCHANGED <<closing, stop, threads, attr>>
      PROVE  TeardownInv'
  <2>1. /\ workers' = workers \ {w} /\ outlived' = outlived \ {w}
        /\ UNCHANGED <<open, gen, consumer, failing, pc, part, held>>
    BY <1>8 DEF Ends, callVars
  <2>2. WorkInv'
    <3>0. connected' => connected
      BY <1>8
    <3>1. Owed' <=> Owed
      BY <1>8, <2>1 DEF Owed
    <3>2. \A x \in Duties : Undone(x)' <=> Undone(x)
      BY <1>8, <2>1 DEF Undone
    <3>3. \A x \in Duties, t \in Threads : WillDo(t, x)' <=> WillDo(t, x)
      BY <1>8, <2>1 DEF WillDo, Doomed, Place
    <3>4. \A t \in Threads : (Closes(t)' <=> Closes(t)) /\ (WillClose(t)' <=> WillClose(t))
      BY <1>8, <2>1 DEF Closes, WillClose
    <3> QED BY <1>8, <2>1, <3>0, <3>1, <3>2, <3>3, <3>4 DEF TeardownInv, WorkInv
  <2>3. HeldInv' /\ AloneInv'
    BY <1>8, <2>1 DEF TeardownInv, HeldInv, AloneInv
  <2> QED BY <1>0, <2>2, <2>3 DEF TeardownInv
<1>9. ASSUME NEW g \in Gens, DrainEnds(g) \/ RxEnds(g) PROVE TeardownInv'
  BY <1>8, <1>9 DEF DrainEnds, RxEnds, sessionVars
<1>10. ASSUME NEW w \in Gens \X Kinds, WorkerStops(w) PROVE TeardownInv'
  BY <1>8, <1>10 DEF WorkerStops, sessionVars
<1>11. CASE HostDrops \/ UNCHANGED vars
  <2>1. UNCHANGED <<sessionVars, open, workers, callVars, pc, part, held, outlived>>
    BY <1>11 DEF HostDrops, vars, worldVars, history
  <2>2. WorkInv'
    BY <2>1 DEF TeardownInv, WorkInv, Owed, Undone, WillDo, Doomed, Place, Closes, WillClose,
                sessionVars, callVars
  <2>3. HeldInv' /\ AloneInv'
    BY <2>1 DEF TeardownInv, HeldInv, AloneInv, sessionVars, callVars
  <2> QED BY <1>0, <2>2, <2>3 DEF TeardownInv
<1> QED BY <1>1, <1>2, <1>3, <1>4, <1>5, <1>6, <1>7, <1>9, <1>10, <1>11 DEF Step

-----------------------------------------------------------------------------

(* After the consumer's close() or failed connect(), and every quit, have  *)
(* ended, the session holds no socket, decoder or TCP channel, whatever the*)
(* teardowns took from each other (_teardown, session.py).                 *)
THEOREM NothingHeld ==
  ASSUME Policy = "waits"
  PROVE  Spec => []DownIsReleased
<1>1. TeardownInv => DownIsReleased
  <2> SUFFICES ASSUME TeardownInv, Quiet, consumer = "down"
               PROVE  /\ ~connected /\ (gen > 0 => stop)
                      /\ \A p \in Parts : attr[p] = None /\ open[p] = {}
    BY DEF DownIsReleased
  <2>1. Owed /\ \A t \in Threads : pc[t] \in {"idle", "gone"}
    BY Shapes DEF Quiet, Owed, ConnectPlaces
  <2> QED BY <2>1, NothingLeft
<1>2. TeardownInv /\ [Step]_vars => TeardownInv'
  BY TeardownStep
<1> QED BY <1>1, <1>2, TeardownInit, PTL DEF Spec

(* A worker of an earlier connection runs on only after a join gave up on  *)
(* it (_teardown, the joins of two seconds).                               *)
THEOREM WorkersOfOneConnection ==
  ASSUME Policy = "waits"
  PROVE  Spec => []OneGeneration
<1>1. TeardownInv => OneGeneration
  BY DEF TeardownInv, HeldInv, OneGeneration
<1>2. TeardownInv /\ [Step]_vars => TeardownInv'
  BY TeardownStep
<1> QED BY <1>1, <1>2, TeardownInit, PTL DEF Spec

(* Through every retry of the handshake and every connection there is one  *)
(* TCP channel, one pair of sockets, one decoder and one control server.   *)
THEOREM OneOfEach ==
  ASSUME Policy = "waits"
  PROVE  Spec => []OneTransport
<1>1. TeardownInv => OneTransport
  <2> SUFFICES ASSUME TeardownInv, NEW p \in Parts PROVE Cardinality(open[p]) <= 1
    BY DEF OneTransport
  <2>1. open[p] = {} \/ open[p] = {attr[p]}
    BY DEF TeardownInv, HeldInv
  <2>2. Cardinality(open[p]) = 0 \/ Cardinality(open[p]) = 1
    BY <2>1, FS_EmptySet, FS_Singleton
  <2> QED BY <2>2
<1>2. TeardownInv /\ [Step]_vars => TeardownInv'
  BY TeardownStep
<1> QED BY <1>1, <1>2, TeardownInit, PTL DEF Spec
=============================================================================
