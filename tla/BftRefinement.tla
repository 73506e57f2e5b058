--------------------------- MODULE BftRefinement ---------------------------
(***************************************************************************)
(* Bft implements UploadService: every step of the two programs and of the *)
(* path between them is a step of the service, or none.                    *)
(***************************************************************************)
EXTENDS BftInvariant

\* Every client has a file name of its own.
DistinctNames == \A c, o \in Clients : Name[c] = Name[o] => c = o

Serving == srv \in Running

Owner == IF session = NoSession THEN NoSession ELSE session.addr

\* What the end of a client's process, or its last words, tell its user.
OutcomeOf(p) ==
  CASE p \in {"start", "wait"}                      -> "open"
    [] p = "done"                                   -> "stored"
    [] p \in {"denied", "gaveup"}                   -> "failed"
    [] p \in InHandler \cup {"killed", "crashed"}   -> "quit"

Outcome == [c \in Clients |-> OutcomeOf(pc[c])]

Service ==
  INSTANCE UploadService WITH
    Old     <- OldContents,
    Nobody  <- NoSession,
    serving <- Serving,
    owner   <- Owner,
    store   <- files,
    outcome <- Outcome

\* The two programs implement the service: whatever the path loses, doubles,
\* delays or damages, and whenever either side is stopped, the stored file
\* grows by the owner's next chunk only, an upload ends whole, discarded after
\* its owner has quit, or with the server, success means a stored file, and a
\* file that was reported stored stays.
ImplementsUploadService == Service!Spec

=============================================================================
