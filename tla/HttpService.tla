---------------------------- MODULE HttpService ----------------------------
(***************************************************************************)
(* What http_server promises to its clients, without threads, lists and    *)
(* locks: a connection that the open service takes gets one answer or      *)
(* none, and a service that is closed finishes what it has taken first.    *)
(***************************************************************************)
CONSTANT Clients

VARIABLES
  service,   \* open; closing; over, as asked for; or broken
  exchange,  \* exchange[c]: how far the exchange with client c is
  answer     \* answer[c]: what c has been told

vars == <<service, exchange, answer>>

Init ==
  /\ service = "open"
  /\ exchange = [c \in Clients |-> "none"]
  /\ answer = [c \in Clients |-> "none"]

Goes(c, from, to) ==
  /\ exchange[c] = from
  /\ exchange' = [exchange EXCEPT ![c] = to]
  /\ UNCHANGED service

\* While the service is open, clients come and are taken.
Come(c) == service = "open" /\ Goes(c, "none", "waiting") /\ UNCHANGED answer

Take(c) == service = "open" /\ Goes(c, "waiting", "taken") /\ UNCHANGED answer

\* An exchange ends with an answer, the first to this client, or without one.
Answer(c) ==
  /\ service \in {"open", "closing"}
  /\ answer[c] = "none"
  /\ Goes(c, "taken", "finished")
  /\ \E a \in {"response", "bad_request"} : answer' = [answer EXCEPT ![c] = a]

Drop(c) ==
  /\ service \in {"open", "closing"}
  /\ Goes(c, "taken", "finished")
  /\ UNCHANGED answer

CloseDown ==
  /\ service = "open"
  /\ service' = "closing"
  /\ UNCHANGED <<exchange, answer>>

\* The service is over when every exchange it has taken is finished.
Over ==
  /\ service = "closing"
  /\ \A c \in Clients : exchange[c] # "taken"
  /\ service' = "over"
  /\ UNCHANGED <<exchange, answer>>

\* A fault ends the service, but only in the middle of an exchange.
Break ==
  /\ service \in {"open", "closing"}
  /\ \E c \in Clients : exchange[c] = "taken"
  /\ service' = "broken"
  /\ UNCHANGED <<exchange, answer>>

Next ==
  \/ \E c \in Clients : Come(c) \/ Take(c) \/ Answer(c) \/ Drop(c)
  \/ CloseDown
  \/ Over
  \/ Break

Spec == Init /\ [][Next]_vars

=============================================================================
