--------------------------- MODULE UploadService ---------------------------
(***************************************************************************)
(* What Basic File Transfer promises to its users, without datagrams,      *)
(* acknowledgements, sequence numbers, timers or losses: the server takes  *)
(* one upload at a time, takes the owner's file chunk after chunk, and     *)
(* gives the upload up only when its owner has quit or the server stops;   *)
(* a client reports success only when its file is there.                   *)
(***************************************************************************)
EXTENDS Naturals, Sequences

CONSTANTS
  Clients,    \* each uploads one file
  Name,       \* Name[c]: the name of the file of c
  File,       \* File[c]: its chunks
  FileNames,  \* the names of the upload directory
  Old,        \* what a file may hold from before
  Nobody,     \* no upload is running
  NoFile      \* there is no such file

VARIABLES
  serving,  \* the server is up
  owner,    \* the client whose upload is running
  store,    \* the upload directory
  outcome   \* outcome[c]: what the user of client c knows

vars == <<serving, owner, store, outcome>>

Init ==
  /\ serving = TRUE
  /\ owner = Nobody
  /\ store \in [FileNames -> Old \cup {NoFile}]
  /\ outcome = [c \in Clients |-> "open"]

\* A client gets the free server; an older file of its name is replaced, never
\* one that the client knows to be stored.
Accept(c) ==
  /\ serving
  /\ owner = Nobody
  /\ outcome[c] # "stored"
  /\ owner' = c
  /\ store' = [store EXCEPT ![Name[c]] = <<>>]
  /\ UNCHANGED <<serving, outcome>>

\* What is stored grows by the very next chunk of the owner's file.
TakeChunk ==
  /\ owner # Nobody
  /\ LET name == Name[owner] IN
       /\ Len(store[name]) < Len(File[owner])
       /\ store' = [store EXCEPT
                      ![name] = Append(@, File[owner][Len(@) + 1])]
  /\ UNCHANGED <<serving, owner, outcome>>

\* An upload is complete with the whole file.
Complete ==
  /\ owner # Nobody
  /\ store[Name[owner]] = File[owner]
  /\ owner' = Nobody
  /\ UNCHANGED <<serving, store, outcome>>

\* The owner has quit: its upload ends, and of its file nothing stays but the
\* empty one of an upload without a chunk.
Discard ==
  /\ owner # Nobody
  /\ outcome[owner] = "quit"
  /\ owner' = Nobody
  /\ store' = [store EXCEPT
                 ![Name[owner]] = IF @ = <<>> THEN <<>> ELSE NoFile]
  /\ UNCHANGED <<serving, outcome>>

\* The server goes down, and what is stored stays.
GoDown ==
  /\ serving
  /\ serving' = FALSE
  /\ owner' = Nobody
  /\ UNCHANGED <<store, outcome>>

\* The server goes down at the moment in which it accepts a client: the older
\* file of that name is gone, the new one may be there without a chunk.
GoDownReplacing(c) ==
  /\ serving
  /\ owner = Nobody
  /\ outcome[c] # "stored"
  /\ serving' = FALSE
  /\ \E left \in {NoFile, <<>>} :
       store' = [store EXCEPT ![Name[c]] = left]
  /\ UNCHANGED <<owner, outcome>>

ComeUp ==
  /\ ~serving
  /\ serving' = TRUE
  /\ UNCHANGED <<owner, store, outcome>>

\* A client learns that its file is stored.
Succeed(c) ==
  /\ outcome[c] = "open"
  /\ store[Name[c]] = File[c]
  /\ outcome' = [outcome EXCEPT ![c] = "stored"]
  /\ UNCHANGED <<serving, owner, store>>

\* A client is refused, or loses patience.
Fail(c) ==
  /\ outcome[c] = "open"
  /\ outcome' = [outcome EXCEPT ![c] = "failed"]
  /\ UNCHANGED <<serving, owner, store>>

\* A client quits.
Quit(c) ==
  /\ outcome[c] = "open"
  /\ outcome' = [outcome EXCEPT ![c] = "quit"]
  /\ UNCHANGED <<serving, owner, store>>

Next ==
  \/ \E c \in Clients :
       \/ Accept(c)
       \/ GoDownReplacing(c)
       \/ Succeed(c)
       \/ Fail(c)
       \/ Quit(c)
  \/ TakeChunk
  \/ Complete
  \/ Discard
  \/ GoDown
  \/ ComeUp

Spec == Init /\ [][Next]_vars

=============================================================================
