-------------------------------- MODULE Bft --------------------------------
(***************************************************************************)
(* The Basic File Transfer system: the clients, the server and the UDP     *)
(* path between them.                                                      *)
(***************************************************************************)
EXTENDS BftServer, BftClient

CONSTANT OldContents  \* what the server's files may hold from before

ASSUME OldContentsAssumption == OldContents \subseteq Seq(Chunks)

ASSUME HostAssumption == DOMAIN Host = Clients

ASSUME NoValueAssumption ==
  /\ NoSession \notin Session /\ NoSession \notin Clients
  /\ NoDatagram \notin Datagram
  /\ NoFile \notin Seq(Chunks)
  /\ NoPayload \notin Chunks \cup FileNames

vars == <<netVars, serverVars, clientVars>>

Init == NetInit /\ ServerInit(OldContents) /\ ClientInit

NetworkNext ==
  \E c \in Clients : LoseToServer(c) \/ LoseToClient(c)

Next ==
  \/ ServerNext /\ UNCHANGED clientVars
  \/ \E c \in Clients : ClientNext(c) /\ UNCHANGED serverVars
  \/ NetworkNext /\ UNCHANGED <<serverVars, clientVars>>

Spec == Init /\ [][Next]_vars

-----------------------------------------------------------------------------
(***************************************************************************)
(* Fairness.  Both programs run as long as their processes live: they read *)
(* what is there to read, and a client's timer runs out.  The path is fair *)
(* to every datagram: one that could be read again and again is again and  *)
(* again read intact and for the last time (the queue gets shorter), by    *)
(* the server with room for its answer.  Starting programs, interrupting   *)
(* them, and every fault are left to chance.                               *)
(***************************************************************************)
Requests(c) ==
  {Outgoing(c, k, k % 2) : k \in 0..Len(File[c]) + 1} \cup {ABR}

Responses(c) ==
  {create_ACK(d) : d \in Requests(c)} \cup {ABR, AGN(0), AGN(1)}

ServerReadsIntact(c, d) ==
  /\ HandleIntact(c, d)
  /\ Len(toServer'[c]) < Len(toServer[c])
  /\ UNCHANGED clientVars

ClientReadsIntact(c, d) ==
  /\ ReceiveIntact(c, d)
  /\ Len(toClient'[c]) < Len(toClient[c])
  /\ UNCHANGED serverVars

ProcessFairness(c) ==
  /\ WF_vars(\E d \in ToSet(toServer[c]) : ServerReadsIntact(c, d))
  /\ WF_vars(\E d \in ToSet(toClient[c]) : ClientReadsIntact(c, d))
  /\ WF_vars(Expire(c) /\ UNCHANGED serverVars)
  /\ WF_vars(DropUndeliverable(c) /\ UNCHANGED clientVars)

PathFairness(c) ==
  /\ \A d \in Requests(c) :
       SF_vars(ServerReadsIntact(c, d) /\ toClient' # toClient)
  /\ \A d \in Responses(c) : SF_vars(ClientReadsIntact(c, d))

Fairness ==
  /\ WF_vars(HandlePending /\ UNCHANGED clientVars)
  /\ \A c \in Clients : ProcessFairness(c) /\ PathFairness(c)

FairSpec == Spec /\ Fairness

-----------------------------------------------------------------------------
(***************************************************************************)
(* Safety                                                                  *)
(***************************************************************************)

\* Every variable has its type; a client is never past the end of its file,
\* and the server handles a datagram only within a session.
TypeOK == NetTypeOK /\ ServerTypeOK /\ ClientTypeOK

Started(c) == pc[c] # "start"

\* Another client that uses the same name may replace the file of c.
NameReused(c) == \E o \in Clients \ {c} : Started(o) /\ Name[o] = Name[c]

Stored(c) == files[Name[c]] = File[c]

\* A client that reports "Finished sending file to server" has its file on the
\* server, chunk by chunk as far as it could read it, unless another client
\* uploads under that name: neither lost ACKs, nor retransmissions, nor a restart
\* of the server in the middle of the upload make the client believe in a file
\* that is not there.
SuccessMeansStored ==
  \A c \in Clients : pc[c] = "done" => Stored(c) \/ NameReused(c)

\* The file as it will be once the datagram acknowledged last is written.
Uploaded ==
  IF srv = "handle" /\ "FIN" \notin pending.flags
    THEN Append(files[session.file], pending.payload)
    ELSE files[session.file]

\* During an upload the server's file is the beginning of the client's: no
\* chunk twice, none missing, none of another client; and a chunk that the
\* client has seen acknowledged is in it.
UploadIsPrefix ==
  session # NoSession =>
    LET c == session.addr IN
      /\ session.file = Name[c]
      /\ IsPrefix(Uploaded, File[c])
      /\ pos[c] > Len(Uploaded) + 1 => Uploaded = File[c]

\* A server that keeps running ends an upload for two reasons only: the FIN
\* after the whole file, or an ABR of the very client that uploads.
OnlyOwnerEndsUpload ==
  [][session # NoSession /\ session' = NoSession /\ srv' \in Running =>
       \/ srv = "handle" /\ files[session.file] = File[session.addr]
       \/ ABR \in ToSet(toServer[session.addr])]_vars

\* Once the server has acknowledged the ABR of an interrupted client, no
\* datagram of that client still under way can open an upload again: the
\* server is free, or serves somebody else.
ConfirmedAbortFreesServer ==
  \A c \in Clients :
    create_ACK(ABR) \in ToSet(toClient[c]) =>
      session = NoSession \/ session.addr # c

\* A file stream that failed stays failed, so that even on a disk that refuses
\* some writes the file is the beginning of the client's, without a hole.
NoHoles ==
  session # NoSession =>
    IsPrefix(files[session.file], File[session.addr])

HasRival(c) == \E o \in Clients \ {c} : Started(o)

Serves(c) == session # NoSession /\ session.addr = c

\* A client that is told "Server busy" has met a server that another client may
\* have been using; or the server is busy with the client's own upload, whose
\* SYN was sent once more; or the file is there, and the FIN was sent once more.
\* There is no fourth way, as long as the server runs.
DenialHasCause ==
  \A c \in Clients :
    pc[c] = "denied" /\ srv \in Running => HasRival(c) \/ Serves(c) \/ Stored(c)

\* As long as nobody stops the server, a client that is told "Server busy" when
\* one of its chunks has already been acknowledged has nothing to repeat: only
\* its FIN, whose ACK was lost, can meet a server without a session, and the
\* file is there, unless another client uploads under that name.
LateDenialMeansStored ==
  \A c \in Clients :
    pc[c] = "denied" /\ pos[c] >= 2 => Stored(c) \/ NameReused(c)

-----------------------------------------------------------------------------
(***************************************************************************)
(* Liveness                                                                *)
(***************************************************************************)

\* The handshake of c is over, and nothing is left of it on the path.
Established(c) ==
  /\ pc[c] = "wait"
  /\ pos[c] >= 1
  /\ Serves(c)
  /\ \A d \in ToSet(toServer[c]) : ~is_SYN(d)
  /\ \A d \in ToSet(toClient[c]) : ~IsAbort(d)

\* With the default of unlimited retransmissions, an upload that got past its
\* handshake ends up on the server whole, and leaves the server free for the
\* next one, however many datagrams are lost, doubled, delayed or damaged: the
\* session, which has no timeout of its own, ends all the same.
EstablishedUploadIsStored ==
  \A c \in Clients : Established(c) ~> Stored(c) /\ session = NoSession

\* A client with a limit of timeouts in a row ends, whether or not there is a
\* server, over a path that may lose, double, delay, reorder and damage but is
\* fair to what is sent again and again.  A path that damaged every answer would
\* keep it for ever: each damaged answer starts the count of timeouts anew.
LimitedClientEnds ==
  \A c \in Clients : pc[c] = "wait" ~> pc[c] # "wait"

\* A client stopped with CTRL+C once its timeout is set exits: it waits for the
\* ACK of its ABR or for a limited number of timeouts, and over a fair path
\* nothing the server sends can keep it.
InterruptedClientExits ==
  \A c \in Clients : pc[c] = "abort" ~> pc[c] \in Ended

-----------------------------------------------------------------------------
(***************************************************************************)
(* What the documentation, the comments and the messages of the programs   *)
(* say, and the code does not keep.                                        *)
(***************************************************************************)

\* A corrupt datagram makes the server "request repeat of current packet",
\* it does not make the server read through a null pointer.
NoNullDereference == srv # "sigsegv"

\* The log line about the bytes written does not end the server.
NoDivisionByZero == srv # "sigfpe"

\* A client that reports "Server busy, aborting upload" has met a server that
\* another client was using, as long as nobody stops the server.
DeniedOnlyWhenBusy ==
  \A c \in Clients :
    pc[c] = "denied" => HasRival(c)

=============================================================================
