----------------------- MODULE SessionLifecycleProofs -----------------------
(***************************************************************************)
(* For every number of connections, attempts and quits, and for every      *)
(* policy of the consumer: type correctness of SessionLifecycle, and that  *)
(* a session seen connected has a reader that will notice its death.       *)
(*                                                                         *)
(* The second needs that a connect in progress runs with the flag down, so *)
(* that only a close ends what a raised flag stands for; and that a close  *)
(* which has begun lowers the flag at its end.                             *)
(***************************************************************************)
EXTENDS SessionLifecycle, TLAPS

(* The places of a connect.                                                *)
ConnectPlaces == {"bind", "negotiate", "burst", "decoder", "clear", "spawn",
                  "serve", "hello", "flag"}

(* The places of a teardown.                                               *)
TearPlaces == {"see", "drop", "halt", "join", "end"}

(* What a connect creates carries the number of a connection.              *)
TypeInv == TypeOK /\ (pc[Main] \in ConnectPlaces => gen \in Gens)

(* The counts that a step adds one to.                                     *)
LEMMA Numbers ==
  /\ 0 \in 0 .. MaxGen /\ 1 \in 1 .. Attempts
  /\ \A n \in 0 .. MaxGen : n < MaxGen => n + 1 \in 0 .. MaxGen /\ n + 1 \in Gens
  /\ \A n \in 1 .. Attempts : n < Attempts => n + 1 \in 1 .. Attempts
BY LifecycleAssumption DEF Gens

(* What an attempt makes has an identity.                                  *)
LEMMA MadeIds == \A g \in Gens, a \in 1 .. Attempts : <<g, a>> \in Ids
BY DEF Ids

(* An attribute that is set, and an object that comes to exist.            *)
LEMMA InstallType ==
  ASSUME TypeOK, NEW p \in Parts, NEW id \in Ids, Install(p, id)
  PROVE  attr' \in [Parts -> Ids \cup {None}] /\ open' \in [Parts -> SUBSET Ids]
BY DEF TypeOK, Install

(* A thread that goes on is at a place.                                    *)
LEMMA GotoType ==
  ASSUME TypeOK, NEW t \in Threads, NEW place \in Places, Goto(t, place)
  PROVE  pc' \in [Threads -> Places]
BY DEF TypeOK, Goto

(* The initial state has its types.                                        *)
LEMMA TypeInit == Init => TypeInv
<1> SUFFICES ASSUME Init PROVE TypeInv
  OBVIOUS
<1> QED BY Numbers, LifecycleAssumption
        DEF Init, TypeInv, TypeOK, ConnectPlaces, Parts, Places, Threads

(* A connect that raises, and one that goes on.                            *)
LEMMA RaiseType == TypeInv /\ Raise => TypeInv'
<1> SUFFICES ASSUME TypeInv, Raise PROVE TypeInv'
  OBVIOUS
<1>1. Main \in Threads /\ pc'[Main] = "see"
  BY DEF TypeInv, TypeOK, Raise, Starts, Threads
<1>2. TypeOK'
  BY DEF TypeInv, TypeOK, Raise, Starts, Threads, Places, Parts, sessionVars, worldVars, history
<1> QED BY <1>1, <1>2 DEF TypeInv, ConnectPlaces

(* A connect that goes on keeps the places and the objects held.           *)
LEMMA ContinueType ==
  ASSUME TypeInv, pc[Main] \in ConnectPlaces, NEW place \in ConnectPlaces, Continue(place)
  PROVE  /\ closing' \in BOOLEAN /\ dead' \subseteq Gens /\ gen' \in 0 .. MaxGen
         /\ consumer' \in {"down", "up"} /\ failing' \in BOOLEAN
         /\ pc' \in [Threads -> Places] /\ part' \in [Threads -> Parts]
         /\ held' \in [Threads -> Ids \cup {None}]
         /\ gen \in Gens /\ gen' \in Gens
BY DEF TypeInv, TypeOK, Continue, Goto, ConnectPlaces, Places, Threads

(* A step of a connect keeps the types.                                    *)
LEMMA ConnectType == TypeInv /\ Connect => TypeInv'
<1> SUFFICES ASSUME TypeInv, Connect PROVE TypeInv'
  OBVIOUS
<1>1. CASE ConnectFails \/ Missing
  BY <1>1, RaiseType DEF ConnectFails, Missing
<1>2. CASE Bind
  <2>1. pc[Main] \in ConnectPlaces /\ Continue("negotiate") /\ "negotiate" \in ConnectPlaces
    BY <1>2 DEF Bind, ConnectPlaces
  <2>2. Made \in Ids /\ "socks" \in Parts
    BY <2>1, Numbers, MadeIds DEF TypeInv, Made, Parts
  <2>3. attr' \in [Parts -> Ids \cup {None}] /\ open' \in [Parts -> SUBSET Ids]
    BY <1>2, <2>2, InstallType DEF TypeInv, Bind
  <2> QED BY <1>2, <2>1, <2>3, ContinueType DEF TypeInv, TypeOK, Bind
<1>3. CASE Negotiate
  <2>1. pc[Main] \in ConnectPlaces /\ Continue("burst") /\ "burst" \in ConnectPlaces
    BY <1>3 DEF Negotiate, ConnectPlaces
  <2>2. <<gen, attempt>> \in Ids /\ "neg" \in Parts
    BY <2>1, MadeIds DEF TypeInv, TypeOK, Parts
  <2>3. attr' \in [Parts -> Ids \cup {None}] /\ open' \in [Parts -> SUBSET Ids]
    BY <1>3, <2>2, InstallType DEF TypeInv, Negotiate
  <2> QED BY <1>3, <2>1, <2>3, ContinueType DEF TypeInv, TypeOK, Negotiate
<1>4. CASE Starved
  <2>1. pc[Main] \in ConnectPlaces /\ Continue("negotiate") /\ "negotiate" \in ConnectPlaces
    BY <1>4 DEF Starved, ConnectPlaces
  <2>2. attempt' \in 1 .. Attempts
    BY <1>4, Numbers DEF TypeInv, TypeOK, Starved, TeardownNegotiationTcp
  <2>3. attr' \in [Parts -> Ids \cup {None}] /\ open' \in [Parts -> SUBSET Ids]
    BY <1>4 DEF TypeInv, TypeOK, Starved, TeardownNegotiationTcp, Parts
  <2> QED BY <1>4, <2>1, <2>2, <2>3, ContinueType DEF TypeInv, TypeOK, Starved, TeardownNegotiationTcp
<1>5. CASE Gather
  <2>1. pc[Main] \in ConnectPlaces /\ Continue("decoder") /\ "decoder" \in ConnectPlaces
    BY <1>5 DEF Gather, ConnectPlaces
  <2> QED BY <1>5, <2>1, ContinueType DEF TypeInv, TypeOK, Gather
<1>6. CASE BuildDecoder
  <2>1. pc[Main] \in ConnectPlaces /\ Continue("clear") /\ "clear" \in ConnectPlaces
    BY <1>6 DEF BuildDecoder, ConnectPlaces
  <2>2. Made \in Ids /\ "decoder" \in Parts
    BY <2>1, Numbers, MadeIds DEF TypeInv, Made, Parts
  <2>3. attr' \in [Parts -> Ids \cup {None}] /\ open' \in [Parts -> SUBSET Ids]
    BY <1>6, <2>2, InstallType DEF TypeInv, BuildDecoder
  <2> QED BY <1>6, <2>1, <2>3, ContinueType DEF TypeInv, TypeOK, BuildDecoder
<1>7. CASE ClearStop
  <2>1. pc[Main] \in ConnectPlaces /\ Continue("spawn") /\ "spawn" \in ConnectPlaces
    BY <1>7 DEF ClearStop, ConnectPlaces
  <2> QED BY <1>7, <2>1, ContinueType DEF TypeInv, TypeOK, ClearStop
<1>8. CASE SpawnThreads
  <2>1. pc[Main] \in ConnectPlaces /\ Continue("serve") /\ "serve" \in ConnectPlaces
    BY <1>8 DEF SpawnThreads, ConnectPlaces
  <2>2. {Worker(k) : k \in Kinds} \subseteq Gens \X Kinds
    BY <2>1, ContinueType DEF Worker
  <2>3. workers' \subseteq Gens \X Kinds /\ threads' \subseteq Gens \X Kinds
    BY <1>8, <2>2 DEF TypeInv, TypeOK, SpawnThreads
  <2> QED BY <1>8, <2>1, <2>3, ContinueType DEF TypeInv, TypeOK, SpawnThreads
<1>9. CASE Serve
  <2>1. pc[Main] \in ConnectPlaces /\ Continue("hello") /\ "hello" \in ConnectPlaces
    BY <1>9 DEF Serve, ConnectPlaces
  <2>2. Made \in Ids /\ "control" \in Parts
    BY <2>1, Numbers, MadeIds DEF TypeInv, Made, Parts
  <2>3. attr' \in [Parts -> Ids \cup {None}] /\ open' \in [Parts -> SUBSET Ids]
    BY <1>9, <2>2, InstallType DEF TypeInv, Serve
  <2> QED BY <1>9, <2>1, <2>3, ContinueType DEF TypeInv, TypeOK, Serve
<1>10. CASE ServeNot
  <2>1. pc[Main] \in ConnectPlaces /\ Continue("flag") /\ "flag" \in ConnectPlaces
    BY <1>10 DEF ServeNot, ConnectPlaces
  <2>2. attr' \in [Parts -> Ids \cup {None}]
    BY <1>10 DEF TypeInv, TypeOK, ServeNot
  <2> QED BY <1>10, <2>1, <2>2, ContinueType DEF TypeInv, TypeOK, ServeNot
<1>11. CASE Hello
  <2>1. pc[Main] \in ConnectPlaces /\ Continue("flag") /\ "flag" \in ConnectPlaces
    BY <1>11 DEF Hello, ConnectPlaces
  <2> QED BY <1>11, <2>1, ContinueType DEF TypeInv, TypeOK, Hello
<1>12. CASE RaiseFlag
  <2>1. pc' \in [Threads -> Places] /\ pc'[Main] = "idle"
    BY <1>12 DEF TypeInv, TypeOK, RaiseFlag, Goto, Places, Threads
  <2>2. missed' \in BOOLEAN
    BY <1>12, Zenon DEF RaiseFlag
  <2>3. TypeOK'
    BY <1>12, <2>1, <2>2 DEF TypeInv, TypeOK, RaiseFlag, worldVars
  <2> QED BY <2>1, <2>3 DEF TypeInv, ConnectPlaces
<1> QED BY <1>1, <1>2, <1>3, <1>4, <1>5, <1>6, <1>7, <1>8, <1>9, <1>10, <1>11, <1>12 DEF Connect

(* A close leaves the connect alone, wherever it is.                       *)
LEMMA CloseType == ASSUME TypeInv, NEW t \in Threads, Close(t) PROVE TypeInv'
<1>1. pc' \in [Threads -> Places] /\ part' \in [Threads -> Parts]
  BY DEF TypeInv, TypeOK, Close, Teardown, TestClosing, SetClosing, Starts, Goto, Over, See, Drop,
         Proceed, Halt, Join, EndClose, Places, Parts
<1>2. /\ connected' \in BOOLEAN /\ closing' \in BOOLEAN /\ stop' \in BOOLEAN
      /\ threads' \subseteq Gens \X Kinds /\ outlived' \subseteq Gens \X Kinds
      /\ UNCHANGED <<workers, dead, callVars, missed>>
  BY DEF TypeInv, TypeOK, Close, Teardown, TestClosing, SetClosing, See, Drop, Halt, Join, EndClose,
         sessionVars, worldVars, history
<1>3. /\ attr' \in [Parts -> Ids \cup {None}] /\ open' \in [Parts -> SUBSET Ids]
      /\ held' \in [Threads -> Ids \cup {None}]
  <2>1. CASE See(t)
    <3>1. part[t] \in Parts /\ "socks" \in Parts
      BY DEF TypeInv, TypeOK, Parts
    <3> QED BY <2>1, <3>1 DEF TypeInv, TypeOK, See, sessionVars, worldVars
  <2>2. CASE Drop(t)
    <3>1. part[t] \in Parts
      BY DEF TypeInv, TypeOK
    <3>2. held' \in [Threads -> Ids \cup {None}]
      BY <2>2 DEF TypeInv, TypeOK, Drop
    <3>3. attr' \in [Parts -> Ids \cup {None}] /\ open' \in [Parts -> SUBSET Ids]
      BY <2>2, <3>1 DEF TypeInv, TypeOK, Drop
    <3> QED BY <3>2, <3>3
  <2>3. CASE TestClosing(t) \/ SetClosing(t) \/ Halt(t) \/ Join(t) \/ EndClose(t)
    BY <2>3 DEF TypeInv, TypeOK, TestClosing, SetClosing, Halt, Join, EndClose,
                sessionVars, worldVars
  <2> QED BY <2>1, <2>2, <2>3 DEF Close, Teardown
<1>4. pc'[Main] \in ConnectPlaces => pc[Main] \in ConnectPlaces
  BY DEF TypeInv, TypeOK, Close, Teardown, TestClosing, SetClosing, Starts, Goto, Over, See, Drop,
         Proceed, Halt, Join, EndClose, ConnectPlaces, Threads
<1> QED BY <1>1, <1>2, <1>3, <1>4 DEF TypeInv, TypeOK, callVars

(* A worker that ends keeps the types.                                     *)
LEMMA EndsType ==
  ASSUME TypeInv, NEW w, Ends(w), connected' \in BOOLEAN, UNCHANGED <<closing, stop, threads, attr>>
  PROVE  TypeInv'
BY DEF TypeInv, TypeOK, Ends, callVars

(* Every step keeps the types.                                             *)
LEMMA TypeStep == TypeInv /\ [Step]_vars => TypeInv'
<1> SUFFICES ASSUME TypeInv, [Step]_vars PROVE TypeInv'
  OBVIOUS
<1>0. Main \in Threads
  BY DEF Threads
<1>1. CASE ConnectNothing
  BY <1>1 DEF TypeInv, TypeOK, ConnectNothing, sessionVars, worldVars, history
<1>2. CASE ConnectCall
  <2>1. gen' \in 0 .. MaxGen /\ gen' \in Gens /\ attempt' \in 1 .. Attempts
    BY <1>2, Numbers DEF TypeInv, TypeOK, ConnectCall
  <2>2. pc' \in [Threads -> Places]
    BY <1>0, <1>2, GotoType DEF TypeInv, ConnectCall, Places
  <2> QED BY <1>2, <2>1, <2>2 DEF TypeInv, TypeOK, ConnectCall, sessionVars, worldVars, history
<1>3. CASE Connect
  BY <1>3, ConnectType
<1>4. CASE CloseCall
  <2>1. pc' \in [Threads -> Places] /\ pc'[Main] = "test"
    BY <1>0, <1>4 DEF TypeInv, TypeOK, CloseCall, Goto, Places
  <2> QED BY <1>4, <2>1 DEF TypeInv, TypeOK, CloseCall, ConnectPlaces, sessionVars, worldVars, history
<1>5. CASE EndConnect
  <2>1. pc' \in [Threads -> Places] /\ pc'[Main] = "idle"
    BY <1>0, <1>5 DEF TypeInv, TypeOK, EndConnect, Goto, Places
  <2> QED BY <1>5, <2>1 DEF TypeInv, TypeOK, EndConnect, ConnectPlaces, sessionVars, worldVars, history
<1>6. ASSUME NEW q \in Quitters, Quit(q) PROVE TypeInv'
  <2>1. pc' \in [Threads -> Places] /\ pc'[Main] = pc[Main]
    BY <1>6, LifecycleAssumption DEF TypeInv, TypeOK, Quit, Goto, Places, Threads
  <2> QED BY <1>6, <2>1 DEF TypeInv, TypeOK, Quit, callVars, sessionVars, worldVars, history
<1>7. ASSUME NEW t \in Threads, Close(t) PROVE TypeInv'
  BY <1>7, CloseType
<1>8. ASSUME NEW g \in Gens, DrainEnds(g) \/ RxEnds(g) PROVE TypeInv'
  BY <1>8, EndsType DEF TypeInv, TypeOK, DrainEnds, RxEnds, sessionVars
<1>9. ASSUME NEW w \in Gens \X Kinds, WorkerStops(w) PROVE TypeInv'
  BY <1>9, EndsType DEF TypeInv, TypeOK, WorkerStops, sessionVars
<1>10. CASE HostDrops
  <2>1. PICK id \in open["neg"] : id[1] = gen
    BY <1>10 DEF HostDrops
  <2>2. gen \in Gens
    BY <2>1 DEF TypeInv, TypeOK, Ids, Parts
  <2> QED BY <1>10, <2>2 DEF TypeInv, TypeOK, HostDrops, callVars, sessionVars, history
<1>11. CASE UNCHANGED vars
  BY <1>11 DEF TypeInv, TypeOK, vars, callVars, sessionVars, worldVars, history
<1> QED BY <1>1, <1>2, <1>3, <1>4, <1>5, <1>6, <1>7, <1>8, <1>9, <1>10, <1>11 DEF Step

(* The type invariant, for every number of attempts and connections: the   *)
(* retries of a starved burst stay within _BURST_RETRY_ATTEMPTS.           *)
THEOREM TypeCorrect == Spec => []TypeOK
<1>1. TypeInv => TypeOK
  BY DEF TypeInv
<1> QED BY <1>1, TypeInit, TypeStep, PTL DEF Spec

-----------------------------------------------------------------------------
(* A close that has begun its teardown, and will lower the flag.           *)
Closes(t) == pc[t] \in TearPlaces /\ (t = Main => ~failing)

(* The workers are to stop, or the receiver has ended.                     *)
NoReader == stop \/ Worker("rx") \notin workers

(* A connect under way is not connected yet; a session that is connected   *)
(* without a reader, and has not missed its close, is about to be closed.  *)
ReaderInv ==
  /\ TypeInv
  /\ pc[Main] \in ConnectPlaces => ~connected /\ ~failing
  /\ failing => ~connected /\ pc[Main] \in TearPlaces
  /\ connected /\ ~missed /\ NoReader => \E t \in Threads : Closes(t)

(* No session is connected at the start.                                   *)
LEMMA ReaderInit == Init => ReaderInv
BY TypeInit, LifecycleAssumption DEF Init, ReaderInv, ConnectPlaces, TearPlaces, Threads

(* A step of connect() runs with the flag down, but for the one that       *)
(* raises it and records whether the reader was there.                     *)
LEMMA ReaderConnect == ReaderInv /\ Connect => ReaderInv'
<1> SUFFICES ASSUME ReaderInv, Connect PROVE ReaderInv'
  OBVIOUS
<1>0. Main \in Threads /\ pc[Main] \in Places /\ DOMAIN pc = Threads
  BY DEF ReaderInv, TypeInv, TypeOK, Threads
<1>1. TypeInv'
  BY ConnectType DEF ReaderInv
<1>2. pc[Main] \in ConnectPlaces
  BY DEF Connect, ConnectFails, Missing, Lacks, Needs, Bind, Negotiate, Starved, TeardownNegotiationTcp, Gather,
         BuildDecoder, ClearStop, SpawnThreads, Serve, ServeNot, Hello, RaiseFlag, ConnectPlaces
<1>3. CASE ConnectFails \/ Missing
  <2>1. Raise
    BY <1>3 DEF ConnectFails, Missing
  <2>2. pc'[Main] = "see" /\ connected' = FALSE
    BY <1>0, <1>2, <2>1 DEF ReaderInv, TypeInv, TypeOK, Raise, Starts, sessionVars
  <2> QED BY <1>1, <2>2 DEF ReaderInv, ConnectPlaces, TearPlaces
<1>4. ASSUME NEW place \in ConnectPlaces, Continue(place), connected' = connected
      PROVE  ReaderInv'
  <2>1. pc'[Main] = place /\ connected' = FALSE /\ failing' = FALSE
    BY <1>0, <1>2, <1>4 DEF ReaderInv, TypeInv, TypeOK, Continue, Goto
  <2> QED BY <1>1, <2>1 DEF ReaderInv, ConnectPlaces, TearPlaces
<1>5. CASE RaiseFlag
  <2>1. pc'[Main] = "idle" /\ failing' = FALSE
    BY <1>0, <1>2, <1>5 DEF ReaderInv, TypeInv, TypeOK, RaiseFlag, Goto
  <2>2. missed' <=> NoReader'
    BY <1>5 DEF RaiseFlag, NoReader, Worker, worldVars
  <2> QED BY <1>1, <2>1, <2>2 DEF ReaderInv, ConnectPlaces, TearPlaces
<1> QED BY <1>3, <1>4, <1>5 DEF Connect, Bind, Negotiate, Starved, TeardownNegotiationTcp, Gather, BuildDecoder, ClearStop,
           SpawnThreads, Serve, ServeNot, Hello, ConnectPlaces

(* A close that takes the reader away is one that will lower the flag.     *)
LEMMA ReaderClose == ASSUME ReaderInv, NEW t \in Threads, Close(t) PROVE ReaderInv'
<1>0. Main \in Threads /\ DOMAIN pc = Threads /\ TypeInv'
  BY CloseType DEF ReaderInv, TypeInv, TypeOK, Threads
<1>1. UNCHANGED <<workers, gen, failing, missed>>
  BY DEF Close, Teardown, TestClosing, SetClosing, See, Drop, Halt, Join, EndClose,
         sessionVars, worldVars, callVars, history
<1>2. \A s \in Threads : s # t => pc'[s] = pc[s]
  BY <1>0 DEF Close, Teardown, TestClosing, SetClosing, Starts, Goto, See, Drop, Proceed,
         Halt, Join, EndClose
<1>3. CASE EndClose(t)
  <2>1. connected' = FALSE /\ pc'[t] \in {"idle", "gone"} /\ pc[t] = "end"
    BY <1>0, <1>3 DEF EndClose, Goto, Over
  <2>2. (t = Main => ~failing)
    BY <1>3 DEF EndClose
  <2> QED BY <1>0, <1>1, <1>2, <2>1, <2>2 DEF ReaderInv, ConnectPlaces
<1>4. CASE TestClosing(t)
  <2>1. pc[t] = "test" /\ pc'[t] \in {"idle", "gone", "set"} /\ UNCHANGED <<connected, stop>>
    BY <1>0, <1>4 DEF TestClosing, Goto, Over, sessionVars
  <2>2. \A s \in Threads : Closes(s) => Closes(s)'
    BY <1>1, <1>2, <2>1 DEF Closes, TearPlaces
  <2> QED BY <1>0, <1>1, <1>2, <2>1, <2>2
          DEF ReaderInv, NoReader, Worker, ConnectPlaces, TearPlaces
<1>5. CASE SetClosing(t) \/ See(t) \/ Drop(t) \/ Halt(t) \/ Join(t)
  <2>1. pc[t] \in TearPlaces \cup {"set"} /\ pc'[t] \in TearPlaces /\ UNCHANGED connected
    BY <1>0, <1>5 DEF SetClosing, Starts, Goto, See, Drop, Proceed, Halt, Join, TearPlaces,
                      sessionVars
  <2>2. \A s \in Threads : Closes(s) => Closes(s)'
    BY <1>1, <1>2, <2>1 DEF Closes
  <2>3. CASE Halt(t)
    <3>1. connected => (t = Main => ~failing)
      BY DEF ReaderInv
    <3>2. connected => Closes(t)'
      BY <1>1, <2>1, <3>1 DEF Closes
    <3> QED BY <1>0, <1>1, <1>2, <2>1, <3>2 DEF ReaderInv, ConnectPlaces, TearPlaces
  <2>4. CASE ~Halt(t)
    <3>1. UNCHANGED stop
      BY <1>5, <2>4 DEF SetClosing, See, Drop, Join, sessionVars
    <3> QED BY <1>0, <1>1, <1>2, <2>1, <2>2, <3>1
            DEF ReaderInv, NoReader, Worker, ConnectPlaces, TearPlaces
  <2> QED BY <2>3, <2>4
<1> QED BY <1>3, <1>4, <1>5 DEF Close, Teardown

(* Every step keeps it.                                                    *)
LEMMA ReaderStep == ReaderInv /\ [Step]_vars => ReaderInv'
<1> SUFFICES ASSUME ReaderInv, [Step]_vars PROVE ReaderInv'
  OBVIOUS
<1>0. Main \in Threads /\ DOMAIN pc = Threads /\ TypeInv'
  BY TypeStep DEF ReaderInv, TypeInv, TypeOK, Threads
<1>1. CASE ConnectNothing
  BY <1>0, <1>1 DEF ReaderInv, NoReader, Worker, Closes, ConnectNothing,
                    sessionVars, worldVars, history
<1>2. CASE ConnectCall
  <2>1. pc'[Main] = "bind" /\ connected' = FALSE /\ failing' = failing /\ pc[Main] = "idle"
    BY <1>0, <1>2 DEF ConnectCall, MayConnect, Goto, sessionVars
  <2> QED BY <1>0, <2>1 DEF ReaderInv, TearPlaces
<1>3. CASE Connect
  BY <1>3, ReaderConnect
<1>4. CASE CloseCall
  <2>1. pc[Main] = "idle" /\ pc' = [pc EXCEPT ![Main] = "test"]
        /\ UNCHANGED <<connected, stop, workers, gen, missed, failing>>
    BY <1>4 DEF CloseCall, Goto, sessionVars, worldVars, history
  <2>2. \A s \in Threads : Closes(s) => Closes(s)'
    BY <1>0, <2>1 DEF Closes, TearPlaces
  <2> QED BY <1>0, <2>1, <2>2 DEF ReaderInv, NoReader, Worker, ConnectPlaces, TearPlaces
<1>5. CASE EndConnect
  <2>1. pc'[Main] = "idle" /\ connected' = FALSE /\ failing' = FALSE
    BY <1>0, <1>5 DEF ReaderInv, TypeInv, TypeOK, EndConnect, Goto, sessionVars
  <2> QED BY <1>0, <2>1 DEF ReaderInv, ConnectPlaces
<1>6. ASSUME NEW q \in Quitters, Quit(q) PROVE ReaderInv'
  <2>1. q # Main /\ q \in Threads /\ pc[q] = "idle" /\ pc' = [pc EXCEPT ![q] = "test"]
        /\ UNCHANGED <<connected, stop, workers, gen, missed, failing>>
    BY <1>6, LifecycleAssumption
       DEF Quit, Goto, Threads, callVars, sessionVars, worldVars, history
  <2>2. \A s \in Threads : Closes(s) => Closes(s)'
    BY <1>0, <2>1 DEF Closes, TearPlaces
  <2> QED BY <1>0, <2>1, <2>2 DEF ReaderInv, NoReader, Worker
<1>7. ASSUME NEW t \in Threads, Close(t) PROVE ReaderInv'
  BY <1>7, ReaderClose
<1>8. ASSUME NEW g \in Gens, RxEnds(g) PROVE ReaderInv'
  BY <1>0, <1>8 DEF ReaderInv, RxEnds, Ends, callVars
<1>9. ASSUME NEW g \in Gens, DrainEnds(g) PROVE ReaderInv'
  <2>1. UNCHANGED <<connected, stop, gen, missed, failing, pc>> /\ workers' = workers \ {<<g, "drain">>}
    BY <1>9 DEF DrainEnds, Ends, callVars, sessionVars
  <2>2. NoReader' <=> NoReader
    BY <2>1 DEF NoReader, Worker
  <2> QED BY <1>0, <2>1, <2>2 DEF ReaderInv, Closes
<1>10. ASSUME NEW w \in Gens \X Kinds, WorkerStops(w) PROVE ReaderInv'
  <2>1. UNCHANGED <<connected, stop, gen, missed, failing, pc>> /\ stop
    BY <1>10 DEF WorkerStops, Ends, callVars, sessionVars
  <2> QED BY <1>0, <2>1 DEF ReaderInv, NoReader, Closes
<1>11. CASE HostDrops \/ UNCHANGED vars
  <2>1. UNCHANGED <<connected, stop, workers, gen, missed, failing, pc>>
    BY <1>11 DEF HostDrops, vars, callVars, sessionVars, worldVars, history
  <2> QED BY <1>0, <2>1 DEF ReaderInv, NoReader, Worker, Closes
<1> QED BY <1>1, <1>2, <1>3, <1>4, <1>5, <1>6, <1>7, <1>8, <1>9, <1>10, <1>11 DEF Step

(* A consumer that sees the session connected, with no close under way,    *)
(* has a reader on the TCP channel: for every number of quits and whenever *)
(* the consumer chooses to connect again.                                  *)
THEOREM ReaderPresent == Spec => []UpMeansReading
<1>1. ReaderInv => UpMeansReading
  BY DEF ReaderInv, UpMeansReading, NoReader, Quiet, Closes, TearPlaces
<1> QED BY <1>1, ReaderInit, ReaderStep, PTL DEF Spec
=============================================================================
