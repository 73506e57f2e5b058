----------------------------- MODULE HttpServer -----------------------------
(***************************************************************************)
(* The threads of http_server: main, which waits for the key q and then    *)
(* shuts down; the listener, which accepts connections; and one handler    *)
(* thread per connection.  Handlers are kept on the list                   *)
(* running_handler_threads, guarded by handler_threads_mutex.  A handler   *)
(* takes itself off the list when it is through, unless main has begun to  *)
(* join what is on it.                                                     *)
(*                                                                         *)
(* A thread is named by its connection.  The critical sections of main and *)
(* of the handlers are single steps; that of the listener has two, as the  *)
(* new thread runs before it is on the list.  The list is a set: threads   *)
(* are found by their identity, and joining them one by one waits for all  *)
(* in whatever order.                                                      *)
(***************************************************************************)
CONSTANTS
  Connections,  \* connections that clients may open
  NoConnection

ASSUME NoConnectionAssumption == NoConnection \notin Connections

VARIABLES
  main,       \* where main is, or how the process has ended
  listening,  \* the socket has not been shut down
  listener,   \* where the listener thread is
  accepted,   \* the connection it has accepted and not yet put on the list
  conn,       \* how far each connection is
  answer,     \* what its client has been sent
  running_handler_threads,
  remove_handler_threads_on_completion,
  joined      \* the threads main has joined

lists == <<running_handler_threads, remove_handler_threads_on_completion, joined>>

vars == <<main, listening, listener, accepted, conn, answer, lists>>

\* Between its start and its end a handler reads the request, responds or
\* refuses, waits to leave the list, and closes the connection.
Working == {"reading", "responding", "refusing", "leaving"}

\* Every variable has its type; main joins threads of the list only, and the
\* listener owns a connection exactly between accept and the end of emplace_back.
TypeOK ==
  /\ main \in {"input", "join_listener", "claim", "join_handlers", "returned",
               "killed"}
  /\ listening \in BOOLEAN
  /\ listener \in {"accept", "spawn", "emplace", "ended"}
  /\ accepted \in Connections \cup {NoConnection}
  /\ (accepted # NoConnection) <=> (listener \in {"spawn", "emplace"})
  /\ conn \in [Connections ->
                 {"none", "backlog", "accepted", "closing", "ended"} \cup Working]
  /\ answer \in [Connections -> {"none", "response", "bad_request"}]
  /\ running_handler_threads \subseteq Connections
  /\ remove_handler_threads_on_completion \in BOOLEAN
  /\ joined \subseteq running_handler_threads

Init ==
  /\ main = "input"
  /\ listening = TRUE
  /\ listener = "accept"
  /\ accepted = NoConnection
  /\ conn = [c \in Connections |-> "none"]
  /\ answer = [c \in Connections |-> "none"]
  /\ running_handler_threads = {}
  /\ remove_handler_threads_on_completion = TRUE
  /\ joined = {}

\* The process runs: main has not returned, no signal has ended it.
Alive == main \notin {"returned", "killed"}

\* Mutant: main keeps the mutex while it joins the handlers.
LockedWhileJoining == listener = "emplace" \/ main = "join_handlers"

\* handler_threads_mutex is held over a step.
Locked == listener = "emplace"

-----------------------------------------------------------------------------
\* The kernel completes a connection while the socket listens.
Connect(c) ==
  /\ Alive /\ listening
  /\ conn[c] = "none"
  /\ conn' = [conn EXCEPT ![c] = "backlog"]
  /\ UNCHANGED <<main, listening, listener, accepted, answer, lists>>

(***************************************************************************)
(* The listener thread.                                                    *)
(***************************************************************************)
Accept(c) ==
  /\ Alive /\ listening
  /\ listener = "accept"
  /\ conn[c] = "backlog"
  /\ listener' = "spawn"
  /\ accepted' = c
  /\ conn' = [conn EXCEPT ![c] = "accepted"]
  /\ UNCHANGED <<main, listening, answer, lists>>

\* accept fails with EINVAL, which throws ListenerClosedException.
ListenerEnds ==
  /\ Alive /\ ~listening
  /\ listener = "accept"
  /\ listener' = "ended"
  /\ UNCHANGED <<main, listening, accepted, conn, answer, lists>>

\* With the mutex, the new thread is started ...
Spawn ==
  /\ Alive
  /\ listener = "spawn"
  /\ listener' = "emplace"
  /\ conn' = [conn EXCEPT ![accepted] = "reading"]
  /\ UNCHANGED <<main, listening, accepted, answer, lists>>

\* ... or cannot be: nobody catches the system_error.
SpawnFails ==
  /\ Alive
  /\ listener = "spawn"
  /\ main' = "killed"
  /\ UNCHANGED <<listening, listener, accepted, conn, answer, lists>>

\* Mutant: the listener keeps the connection it has handed over.
EmplaceAndKeep ==
  /\ Alive
  /\ listener = "emplace"
  /\ running_handler_threads' = running_handler_threads \cup {accepted}
  /\ listener' = "accept"
  /\ UNCHANGED <<main, listening, accepted, conn, answer, joined,
                 remove_handler_threads_on_completion>>

\* ... and put on the list.
Emplace ==
  /\ Alive
  /\ listener = "emplace"
  /\ running_handler_threads' = running_handler_threads \cup {accepted}
  /\ listener' = "accept"
  /\ accepted' = NoConnection
  /\ UNCHANGED <<main, listening, conn, answer, joined,
                 remove_handler_threads_on_completion>>

-----------------------------------------------------------------------------
(***************************************************************************)
(* A handler thread.                                                       *)
(***************************************************************************)
HandlerGoes(c, from, to) ==
  /\ Alive
  /\ conn[c] = from
  /\ conn' = [conn EXCEPT ![c] = to]
  /\ UNCHANGED <<main, listening, listener, accepted>>

\* The request arrives and can be parsed, or it cannot.
Receive(c) ==
  /\ \E next \in {"responding", "refusing"} : HandlerGoes(c, "reading", next)
  /\ UNCHANGED <<answer, lists>>

\* An exception while receiving, or while the response is put together (a
\* directory that may not be read): it is caught around the handler, the client
\* has no answer, and the list is not looked at.
Fail(c) ==
  /\ \E from \in {"reading", "responding"} : HandlerGoes(c, from, "closing")
  /\ UNCHANGED <<answer, lists>>

Respond(c) ==
  /\ HandlerGoes(c, "responding", "leaving")
  /\ answer' = [answer EXCEPT ![c] = "response"]
  /\ UNCHANGED lists

\* BAD_REQUEST: the handler returns without a look at the list.
Refuse(c) ==
  /\ HandlerGoes(c, "refusing", "closing")
  /\ answer' = [answer EXCEPT ![c] = "bad_request"]
  /\ UNCHANGED lists

\* The client is gone, and sending to it raises SIGPIPE.
SendToNobody(c) ==
  /\ Alive
  /\ conn[c] \in {"responding", "refusing"}
  /\ main' = "killed"
  /\ UNCHANGED <<listening, listener, accepted, conn, answer, lists>>

\* Two handlers look up the content type of files with extensions that the map
\* of types has no entry for: operator[] adds one, and nothing guards the map.
RaceForContentType(c, d) ==
  /\ Alive
  /\ c # d
  /\ conn[c] = "responding" /\ conn[d] = "responding"
  /\ main' = "killed"
  /\ UNCHANGED <<listening, listener, accepted, conn, answer, lists>>

\* Mutant: the list is changed without the mutex.
LeaveUnlocked(c) ==
  /\ HandlerGoes(c, "leaving", "closing")
  /\ running_handler_threads' =
       IF remove_handler_threads_on_completion
         THEN running_handler_threads \ {c}
         ELSE running_handler_threads
  /\ UNCHANGED <<answer, joined, remove_handler_threads_on_completion>>

\* remove_handler_thread: detached, and off the list.
Leave(c) ==
  /\ ~Locked
  /\ HandlerGoes(c, "leaving", "closing")
  /\ running_handler_threads' =
       IF remove_handler_threads_on_completion
         THEN running_handler_threads \ {c}
         ELSE running_handler_threads
  /\ UNCHANGED <<answer, joined, remove_handler_threads_on_completion>>

Close(c) == HandlerGoes(c, "closing", "ended") /\ UNCHANGED <<answer, lists>>

-----------------------------------------------------------------------------
(***************************************************************************)
(* main                                                                    *)
(***************************************************************************)
\* Mutant: the socket goes on listening.
KeepListening ==
  /\ main = "input"
  /\ main' = "join_listener"
  /\ UNCHANGED <<listening, listener, accepted, conn, answer, lists>>

\* The key q.
Shutdown ==
  /\ main = "input"
  /\ main' = "join_listener"
  /\ listening' = FALSE
  /\ UNCHANGED <<listener, accepted, conn, answer, lists>>

\* Mutant: main does not wait for the listener.
DetachListener ==
  /\ main = "join_listener"
  /\ main' = "claim"
  /\ UNCHANGED <<listening, listener, accepted, conn, answer, lists>>

JoinListener ==
  /\ main = "join_listener"
  /\ listener = "ended"
  /\ main' = "claim"
  /\ UNCHANGED <<listening, listener, accepted, conn, answer, lists>>

\* Mutant: the handlers are not told to stay on the list.
ClaimNothing ==
  /\ main = "claim"
  /\ ~Locked
  /\ main' = "join_handlers"
  /\ UNCHANGED <<listening, listener, accepted, conn, answer, lists>>

\* From here on the list is main's alone.
Claim ==
  /\ main = "claim"
  /\ ~Locked
  /\ main' = "join_handlers"
  /\ remove_handler_threads_on_completion' = FALSE
  /\ UNCHANGED <<listening, listener, accepted, conn, answer, joined,
                 running_handler_threads>>

JoinHandler(c) ==
  /\ main = "join_handlers"
  /\ c \in running_handler_threads \ joined
  /\ conn[c] = "ended"
  /\ joined' = joined \cup {c}
  /\ UNCHANGED <<main, listening, listener, accepted, conn, answer,
                 running_handler_threads, remove_handler_threads_on_completion>>

Return ==
  /\ main = "join_handlers"
  /\ joined = running_handler_threads
  /\ main' = "returned"
  /\ UNCHANGED <<listening, listener, accepted, conn, answer, lists>>

-----------------------------------------------------------------------------
ListenerNext ==
  \/ \E c \in Connections : Accept(c)
  \/ ListenerEnds
  \/ Spawn
  \/ Emplace

HandlerNext(c) ==
  Receive(c) \/ Fail(c) \/ Respond(c) \/ Refuse(c) \/ Leave(c) \/ Close(c)

MainNext ==
  \/ JoinListener
  \/ Claim
  \/ \E c \in Connections : JoinHandler(c)
  \/ Return

Next ==
  \/ ListenerNext
  \/ \E c \in Connections : HandlerNext(c)
  \/ MainNext
  \/ Shutdown
  \/ SpawnFails
  \/ \E c \in Connections : Connect(c) \/ SendToNobody(c)
  \/ \E c, d \in Connections : RaceForContentType(c, d)

Spec == Init /\ [][Next]_vars

\* Threads run.  A client sends its request or closes the connection sooner or
\* later: the server itself would wait for it without limit.  Nobody has to
\* press q, no client has to connect, and no fault has to occur.
Fairness ==
  /\ WF_vars(ListenerNext)
  /\ WF_vars(MainNext)
  /\ \A c \in Connections : WF_vars(HandlerNext(c))

FairSpec == Spec /\ Fairness

-----------------------------------------------------------------------------
(***************************************************************************)
(* Properties                                                              *)
(***************************************************************************)

\* main does not return while a handler still works on a request: what it has
\* accepted is answered, refused or has failed, although a handler that has
\* left the list is not joined.
ReturnsAfterWork ==
  main = "returned" => \A c \in Connections : conn[c] \notin Working \cup {"accepted"}

\* While main goes through the list, which it does without the mutex, no other
\* thread changes it.
MainIteratesAlone ==
  [][main = "join_handlers" =>
       running_handler_threads' = running_handler_threads]_vars

\* A handler that has responded does not stay on the list, however early it
\* is through: only requests that were refused or failed leave an entry behind
\* until the server is shut down.
OnlyFailuresLinger ==
  \A c \in Connections :
    /\ remove_handler_threads_on_completion
    /\ conn[c] \in {"closing", "ended"}
    /\ answer[c] = "response"
    => c \notin running_handler_threads /\ accepted # c

ListenerGoesOn == listener # "accept" \/ ~listening

\* The client of a handler that reads is somebody else's matter.
HandlerGoesOn(c) ==
  /\ conn[c] \in Working \cup {"closing"}
  /\ conn[c] = "leaving" => ~Locked

\* Whoever main waits for during a shutdown can go on, or is through: the listener
\* when main joins it, the owner of the mutex when main claims the list, and every
\* handler that main still has to join.  No two threads wait for each other.
MainWaitsForTheLiving ==
  /\ main = "join_listener" => ListenerGoesOn
  /\ main = "claim" => ~Locked
  /\ main = "join_handlers" =>
       \A c \in running_handler_threads \ joined :
         conn[c] = "ended" \/ HandlerGoesOn(c)

(***************************************************************************)
(* What the threads add up to for a client.                                *)
(***************************************************************************)
ServiceState ==
  CASE main = "input"    -> "open"
    [] main = "returned" -> "over"
    [] main = "killed"   -> "broken"
    [] OTHER             -> "closing"

\* A handler that has answered has finished the exchange.
ExchangeOf(state) ==
  CASE state = "none"                                            -> "none"
    [] state = "backlog"                                         -> "waiting"
    [] state \in {"accepted", "reading", "responding", "refusing"} -> "taken"
    [] state \in {"leaving", "closing", "ended"}                 -> "finished"

Exchange == [c \in Connections |-> ExchangeOf(conn[c])]

Service ==
  INSTANCE HttpService WITH
    Clients  <- Connections,
    service  <- ServiceState,
    exchange <- Exchange

\* The threads implement the service: however they interleave, a client has one
\* answer at most, nobody is taken once the key q is pressed, and the server
\* returns only after it has finished with everybody it has taken.
ImplementsHttpService == Service!Spec

\* A shutdown comes to its end: the listener wakes up, and main and the handlers
\* do not wait for each other.
ShutdownCompletes == main = "join_listener" ~> ~Alive

\* Every accepted connection is closed, unless the process ends first.
EveryConnectionCloses ==
  \A c \in Connections : conn[c] = "accepted" ~> conn[c] = "ended" \/ ~Alive

-----------------------------------------------------------------------------
(***************************************************************************)
(* Why they hold: an invariant that every step preserves.                  *)
(***************************************************************************)
\* The listener is joined first, and the list claimed before it is gone through.
Order ==
  /\ main \in {"claim", "join_handlers", "returned"} => listener = "ended"
  /\ main \in {"input", "join_listener", "claim"} =>
       remove_handler_threads_on_completion
  /\ main \in {"join_handlers", "returned"} =>
       ~remove_handler_threads_on_completion
  /\ main = "returned" => joined = running_handler_threads
  /\ main = "input" => listening
  /\ listening => main \in {"input", "killed"}

\* A connection is either the listener's or has a thread; a thread that works is
\* on the list or about to be put there, and only threads are on the list.
Ownership ==
  /\ \A c \in Connections : conn[c] = "accepted" <=> listener = "spawn" /\ accepted = c
  /\ \A c \in Connections :
       conn[c] \in Working => c \in running_handler_threads \/ accepted = c
  /\ \A c \in running_handler_threads : conn[c] \in Working \cup {"closing", "ended"}
  /\ listener = "emplace" => conn[accepted] \in Working \cup {"closing", "ended"}
  /\ \A c \in joined : conn[c] = "ended"
  /\ \A c \in Connections :
       answer[c] # "none" => conn[c] \in {"leaving", "closing", "ended"}

\* The inductive invariant behind ReturnsAfterWork, OnlyFailuresLinger,
\* MainIteratesAlone and MainWaitsForTheLiving, for any interleaving of the threads.
ThreadInv == TypeOK /\ Order /\ Ownership /\ OnlyFailuresLinger

=============================================================================
