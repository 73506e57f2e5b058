-------------------------- MODULE HttpServerProofs --------------------------
(***************************************************************************)
(* Safety of the threads of http_server for any number of connections.     *)
(***************************************************************************)
EXTENDS HttpServer, TLAPS

\* The invariant holds when main waits for its first key.
LEMMA ThreadInit == Init => ThreadInv
BY NoConnectionAssumption
DEF Init, ThreadInv, TypeOK, Order, Ownership, OnlyFailuresLinger, Working

\* Every step of main, of the listener, of a handler and of the kernel keeps the
\* invariant: above all, that a thread at work is on the list or about to be put
\* there, and that a thread takes itself off only after it was put there.
LEMMA ThreadStep == ThreadInv /\ [Next]_vars => ThreadInv'
<1> SUFFICES ASSUME ThreadInv, [Next]_vars PROVE ThreadInv'
  OBVIOUS
<1> USE DEF ThreadInv, TypeOK, Order, Ownership, OnlyFailuresLinger, Working, Alive
<1>1. ASSUME NEW c \in Connections, Accept(c) PROVE ThreadInv'
  BY <1>1, NoConnectionAssumption DEF Accept, lists
<1>2. ASSUME ListenerEnds PROVE ThreadInv'
  BY <1>2, NoConnectionAssumption DEF ListenerEnds, lists
<1>3. ASSUME Spawn PROVE ThreadInv'
  BY <1>3, NoConnectionAssumption DEF Spawn, lists
<1>4. ASSUME SpawnFails PROVE ThreadInv'
  BY <1>4, NoConnectionAssumption DEF SpawnFails, lists
<1>5. ASSUME Emplace PROVE ThreadInv'
  BY <1>5, NoConnectionAssumption DEF Emplace, lists
<1>6. ASSUME NEW c \in Connections, Receive(c) PROVE ThreadInv'
  BY <1>6, NoConnectionAssumption DEF Receive, HandlerGoes, lists
<1>7. ASSUME NEW c \in Connections, Respond(c) PROVE ThreadInv'
  BY <1>7, NoConnectionAssumption DEF Respond, HandlerGoes, lists
<1>8. ASSUME NEW c \in Connections, Refuse(c) PROVE ThreadInv'
  BY <1>8, NoConnectionAssumption DEF Refuse, HandlerGoes, lists
<1>9. ASSUME NEW c \in Connections, Leave(c) PROVE ThreadInv'
  BY <1>9, NoConnectionAssumption DEF Leave, HandlerGoes, Locked, lists
<1>10. ASSUME NEW c \in Connections, Close(c) PROVE ThreadInv'
  BY <1>10, NoConnectionAssumption DEF Close, HandlerGoes, lists
<1>11. ASSUME JoinListener PROVE ThreadInv'
  BY <1>11, NoConnectionAssumption DEF JoinListener, lists
<1>12. ASSUME Claim PROVE ThreadInv'
  BY <1>12, NoConnectionAssumption DEF Claim, lists
<1>13. ASSUME NEW c \in Connections, JoinHandler(c) PROVE ThreadInv'
  BY <1>13, NoConnectionAssumption DEF JoinHandler, lists
<1>14. ASSUME Return PROVE ThreadInv'
  BY <1>14, NoConnectionAssumption DEF Return, lists
<1>15. ASSUME Shutdown PROVE ThreadInv'
  BY <1>15, NoConnectionAssumption DEF Shutdown, lists
<1>16. ASSUME NEW c \in Connections, Connect(c) PROVE ThreadInv'
  BY <1>16, NoConnectionAssumption DEF Connect, lists
<1>17. ASSUME NEW c \in Connections, SendToNobody(c) PROVE ThreadInv'
  BY <1>17, NoConnectionAssumption DEF SendToNobody, lists
<1>18. ASSUME NEW c \in Connections, Fail(c) PROVE ThreadInv'
  BY <1>18, NoConnectionAssumption DEF Fail, HandlerGoes, lists
<1>19. ASSUME NEW c \in Connections, NEW d \in Connections, RaceForContentType(c, d)
       PROVE  ThreadInv'
  BY <1>19, NoConnectionAssumption DEF RaceForContentType, lists
<1>20. CASE UNCHANGED vars
  BY <1>20 DEF vars, lists
<1> QED
  BY <1>1, <1>2, <1>3, <1>4, <1>5, <1>6, <1>7, <1>8, <1>9, <1>10, <1>11, <1>12,
     <1>13, <1>14, <1>15, <1>16, <1>17, <1>18, <1>19, <1>20
  DEF Next, ListenerNext, HandlerNext, MainNext

\* Who owns a connection, who is on the list and who may change it, at every
\* moment of every run.
THEOREM ThreadInvariance == Spec => []ThreadInv
BY ThreadInit, ThreadStep, PTL DEF Spec

\* Every variable keeps its type, joined threads included.
THEOREM TypeCorrect == Spec => []TypeOK
BY ThreadInvariance, PTL DEF ThreadInv

\* Whatever the threads' interleaving and however many connections there are,
\* main returns only when no handler works on a request any more.
THEOREM ReturnSafe == Spec => []ReturnsAfterWork
<1>1. ThreadInv => ReturnsAfterWork
  BY NoConnectionAssumption
  DEF ThreadInv, TypeOK, Order, Ownership, ReturnsAfterWork, Working
<1> QED BY <1>1, ThreadInvariance, PTL

\* Throughout a shutdown, for any number of connections, the thread that main waits
\* for is through or can go on: the safety half of the end of a shutdown.
THEOREM ShutdownNeverStuck == Spec => []MainWaitsForTheLiving
<1>1. ThreadInv => MainWaitsForTheLiving
  <2> SUFFICES ASSUME ThreadInv PROVE MainWaitsForTheLiving
    OBVIOUS
  <2>1. main = "join_listener" => ListenerGoesOn
    BY DEF ThreadInv, Order, ListenerGoesOn
  <2>2. main \in {"claim", "join_handlers"} => ~Locked
    BY DEF ThreadInv, Order, Locked
  <2>3. ASSUME main = "join_handlers", NEW c \in running_handler_threads \ joined
        PROVE  conn[c] = "ended" \/ HandlerGoesOn(c)
    BY <2>2, <2>3 DEF ThreadInv, Ownership, HandlerGoesOn
  <2> QED BY <2>1, <2>2, <2>3 DEF MainWaitsForTheLiving
<1> QED BY <1>1, ThreadInvariance, PTL

\* A handler that has responded never stays on the list of a running server.
THEOREM NoneLinger == Spec => []OnlyFailuresLinger
BY ThreadInvariance, PTL DEF ThreadInv

\* No thread changes the list while main goes through it without the mutex.
THEOREM IterationSafe == Spec => MainIteratesAlone
<1>1. ThreadInv /\ [Next]_vars =>
        [main = "join_handlers" =>
           running_handler_threads' = running_handler_threads]_vars
  <2> SUFFICES ASSUME ThreadInv, Next, main = "join_handlers"
               PROVE  running_handler_threads' = running_handler_threads
    BY DEF vars
  <2>1. listener = "ended" /\ ~remove_handler_threads_on_completion
    BY DEF ThreadInv, Order
  <2>2. ASSUME NEW c \in Connections, HandlerNext(c)
        PROVE  running_handler_threads' = running_handler_threads
    BY <2>1, <2>2 DEF HandlerNext, Receive, Fail, Respond, Refuse, Leave, Close, lists
  <2>3. ~ListenerNext /\ ~Shutdown /\ ~SpawnFails
    BY <2>1 DEF ListenerNext, Accept, ListenerEnds, Spawn, Emplace, Shutdown,
                SpawnFails
  <2>4. CASE MainNext
    BY <2>4 DEF MainNext, JoinListener, Claim, JoinHandler, Return, lists
  <2>5. ASSUME NEW c \in Connections, Connect(c) \/ SendToNobody(c)
        PROVE  running_handler_threads' = running_handler_threads
    BY <2>5 DEF Connect, SendToNobody, lists
  <2>6. ASSUME NEW c \in Connections, NEW d \in Connections, RaceForContentType(c, d)
        PROVE  running_handler_threads' = running_handler_threads
    BY <2>6 DEF RaceForContentType, lists
  <2> QED BY <2>2, <2>3, <2>4, <2>5, <2>6 DEF Next
<1> QED BY <1>1, ThreadInvariance, PTL DEF Spec, MainIteratesAlone

-----------------------------------------------------------------------------
(***************************************************************************)
(* The threads implement HttpService.                                      *)
(***************************************************************************)
\* A handler's step moves the exchange of its connection, and no other.
LEMMA ExchangeMoves ==
  ASSUME ThreadInv, NEW c \in Connections, NEW to,
         conn' = [conn EXCEPT ![c] = to]
  PROVE  Exchange' = [Exchange EXCEPT ![c] = ExchangeOf(to)]
BY DEF Exchange, ThreadInv, TypeOK

\* What does not move in between stays the same to the client.
LEMMA Unmoved ==
  ASSUME ThreadInv, NEW c \in Connections, NEW to,
         conn' = [conn EXCEPT ![c] = to], ExchangeOf(to) = ExchangeOf(conn[c])
  PROVE  Exchange' = Exchange
<1>1. Exchange' = [Exchange EXCEPT ![c] = ExchangeOf(to)]
  BY ExchangeMoves
<1>2. Exchange[c] = ExchangeOf(to)
  BY DEF Exchange
<1> QED BY <1>1, <1>2 DEF Exchange

\* Before its first key, the service is open and nobody has come.
LEMMA ServiceInit == Init => Service!Init
<1> SUFFICES ASSUME Init PROVE Service!Init
  OBVIOUS
<1>1. ServiceState = "open"
  BY DEF Init, ServiceState
<1>2. Exchange = [c \in Connections |-> "none"]
  BY DEF Init, Exchange, ExchangeOf
<1> QED BY <1>1, <1>2 DEF Init, Service!Init

\* Every step of a thread is a step of the service, or none.
LEMMA ServiceStep == ThreadInv /\ [Next]_vars => [Service!Next]_(Service!vars)
<1> SUFFICES ASSUME ThreadInv, [Next]_vars PROVE [Service!Next]_(Service!vars)
  OBVIOUS
<1>t. TypeOK /\ Order /\ Ownership
  BY DEF ThreadInv
<1>same. ASSUME UNCHANGED <<main, conn, answer>> PROVE UNCHANGED Service!vars
  BY <1>same, Zenon DEF Service!vars, ServiceState, Exchange
<1>live. ASSUME UNCHANGED main PROVE UNCHANGED ServiceState
  BY <1>live DEF ServiceState
<1>1. ASSUME NEW c \in Connections, Connect(c) PROVE Service!Come(c)
  <2>1. Exchange' = [Exchange EXCEPT ![c] = "waiting"] /\ Exchange[c] = "none"
    BY <1>1, ExchangeMoves DEF Connect, Exchange, ExchangeOf
  <2>2. ServiceState = "open" /\ UNCHANGED ServiceState
    BY <1>1, <1>t, <1>live DEF Connect, Alive, Order, ServiceState
  <2> QED BY <1>1, <2>1, <2>2 DEF Connect, Service!Come, Service!Goes
<1>2. ASSUME NEW c \in Connections, Accept(c) PROVE Service!Take(c)
  <2>1. Exchange' = [Exchange EXCEPT ![c] = "taken"] /\ Exchange[c] = "waiting"
    BY <1>2, ExchangeMoves DEF Accept, Exchange, ExchangeOf
  <2>2. ServiceState = "open" /\ UNCHANGED ServiceState
    BY <1>2, <1>t, <1>live DEF Accept, Alive, Order, ServiceState
  <2> QED BY <1>2, <2>1, <2>2 DEF Accept, Service!Take, Service!Goes
<1>3. CASE Spawn
  <2>1. accepted \in Connections /\ conn[accepted] = "accepted"
    BY <1>3, <1>t, NoConnectionAssumption DEF Spawn, TypeOK, Ownership
  <2>2. Exchange' = Exchange
    BY <1>3, <2>1, Unmoved DEF Spawn, ExchangeOf
  <2> QED BY <1>3, <2>2, <1>live DEF Spawn, Service!vars
<1>4. CASE ListenerEnds \/ Emplace \/ JoinListener \/ Claim
             \/ \E c \in Connections : JoinHandler(c)
  <2>1. UNCHANGED <<conn, answer, ServiceState>>
    BY <1>4 DEF ListenerEnds, Emplace, JoinListener, Claim, JoinHandler, ServiceState
  <2> QED BY <2>1 DEF Service!vars, Exchange
<1>5. ASSUME NEW c \in Connections, HandlerNext(c)
      PROVE  Service!Answer(c) \/ Service!Drop(c) \/ UNCHANGED Service!vars
  <2>1. /\ ServiceState \in {"open", "closing"} /\ UNCHANGED ServiceState
    BY <1>5, <1>t, <1>live
    DEF HandlerNext, Receive, Fail, Respond, Refuse, Leave, Close, HandlerGoes,
        Alive, ServiceState, TypeOK
  <2>2. ASSUME NEW from, NEW to, HandlerGoes(c, from, to)
        PROVE  /\ Exchange' = [Exchange EXCEPT ![c] = ExchangeOf(to)]
               /\ Exchange[c] = ExchangeOf(from)
               /\ ExchangeOf(from) = ExchangeOf(to) => Exchange' = Exchange
    BY <2>2, ExchangeMoves, Unmoved DEF HandlerGoes, Exchange
  <2>3. CASE Receive(c) \/ Leave(c) \/ Close(c)
    <3>1. Exchange' = Exchange /\ UNCHANGED answer
      BY <2>2, <2>3 DEF Receive, Leave, Close, ExchangeOf
    <3> QED BY <2>1, <3>1 DEF Service!vars
  <2>4. CASE Fail(c)
    <3>1. PICK from \in {"reading", "responding"} : HandlerGoes(c, from, "closing")
      BY <2>4 DEF Fail
    <3>2. Exchange' = [Exchange EXCEPT ![c] = "finished"] /\ Exchange[c] = "taken"
      BY <2>2, <3>1 DEF ExchangeOf
    <3> QED BY <2>1, <2>4, <3>2 DEF Fail, Service!Drop, Service!Goes
  <2>5. CASE Respond(c)
    <3>1. Exchange' = [Exchange EXCEPT ![c] = "finished"] /\ Exchange[c] = "taken"
      BY <2>2, <2>5 DEF Respond, ExchangeOf
    <3>2. answer[c] = "none"
      BY <2>5, <1>t DEF Respond, HandlerGoes, Ownership
    <3> QED BY <2>1, <2>5, <3>1, <3>2 DEF Respond, Service!Answer, Service!Goes
  <2>6. CASE Refuse(c)
    <3>1. Exchange' = [Exchange EXCEPT ![c] = "finished"] /\ Exchange[c] = "taken"
      BY <2>2, <2>6 DEF Refuse, ExchangeOf
    <3>2. answer[c] = "none"
      BY <2>6, <1>t DEF Refuse, HandlerGoes, Ownership
    <3> QED BY <2>1, <2>6, <3>1, <3>2 DEF Refuse, Service!Answer, Service!Goes
  <2> QED BY <1>5, <2>3, <2>4, <2>5, <2>6 DEF HandlerNext
<1>6. CASE Shutdown
  <2>1. ServiceState = "open" /\ ServiceState' = "closing"
    BY <1>6 DEF Shutdown, ServiceState
  <2>2. UNCHANGED <<Exchange, answer>>
    BY <1>6 DEF Shutdown, Exchange
  <2> QED BY <2>1, <2>2 DEF Service!CloseDown, Service!Next
<1>7. CASE Return
  <2>1. ServiceState = "closing" /\ ServiceState' = "over"
    BY <1>7 DEF Return, ServiceState
  <2>2. ASSUME NEW c \in Connections PROVE Exchange[c] # "taken"
    <3>1. conn[c] \notin {"accepted", "reading", "responding", "refusing"}
      BY <1>7, <1>t, NoConnectionAssumption DEF Return, TypeOK, Order, Ownership, Working
    <3> QED BY <3>1, <1>t DEF Exchange, ExchangeOf, TypeOK, Working
  <2>3. UNCHANGED <<Exchange, answer>>
    BY <1>7 DEF Return, Exchange
  <2> QED BY <2>1, <2>2, <2>3 DEF Service!Over, Service!Next
<1>8. CASE \/ SpawnFails
           \/ \E c \in Connections : SendToNobody(c)
           \/ \E c, d \in Connections : RaceForContentType(c, d)
  <2>1. Alive /\ main' = "killed" /\ UNCHANGED <<conn, answer>>
    BY <1>8 DEF SpawnFails, SendToNobody, RaceForContentType
  <2>2. ServiceState \in {"open", "closing"} /\ ServiceState' = "broken"
    BY <2>1, <1>t DEF Alive, ServiceState, TypeOK
  <2>3. PICK c \in Connections : conn[c] \in {"accepted", "responding", "refusing"}
    BY <1>8, <1>t, NoConnectionAssumption
    DEF SpawnFails, SendToNobody, RaceForContentType, TypeOK, Ownership
  <2>4. Exchange[c] = "taken"
    BY <2>3 DEF Exchange, ExchangeOf
  <2> QED BY <2>1, <2>2, <2>4 DEF Service!Break, Service!Next, Exchange
<1>9. CASE UNCHANGED vars
  BY <1>9, <1>same DEF vars
<1> QED
  BY <1>1, <1>2, <1>3, <1>4, <1>5, <1>6, <1>7, <1>8, <1>9
  DEF Next, ListenerNext, MainNext, Service!Next

\* Every run of the threads, with any number of connections, is one of the service.
THEOREM Implements == Spec => ImplementsHttpService
BY ServiceInit, ServiceStep, ThreadInvariance, PTL
DEF Spec, ImplementsHttpService, Service!Spec

=============================================================================
