----------------------------- MODULE BftServer -----------------------------
(***************************************************************************)
(* bft_server: one thread, one UDP socket and at most one upload at a      *)
(* time, the session current_client.  One action is one turn of the main   *)
(* loop, except that a datagram acknowledged in turn is handled (written,  *)
(* or taken as the end of the file) in a step of its own: the ACK leaves   *)
(* before handle_valid_datagram runs.                                      *)
(***************************************************************************)
EXTENDS UdpNetwork

CONSTANTS
  Host,       \* Host[c]: the IP address of the machine client c runs on
  NoSession,  \* current_client == nullptr
  NoFile,     \* no such file in the upload directory
  NoDatagram  \* nothing to handle

VARIABLES
  srv,      \* what the server process is doing
  session,  \* current_client
  pending,  \* the datagram acknowledged and not yet handled
  files     \* the upload directory

serverVars == <<srv, session, pending, files>>

Running == {"recv", "handle"}

\* Stopped with CTRL+C, left through exit(1), or ended by a signal.
Down == {"stopped", "exited", "sigsegv", "sigfpe"}

\* The time since last_log: less than a millisecond, up to a second, or more.
\* Without the fault "instant" it is never less than a millisecond.
SinceLog == 0..2

JustLogged == IF "instant" \in Faults THEN 0 ELSE 1

\* written: bytes_written > 0, the server believes it has written something;
\* good: the file stream has not failed; since: the time since last_log.
Session ==
  [addr : Clients, sqn : Bit, file : FileNames, written : BOOLEAN,
   good : BOOLEAN, since : SinceLog]

ServerTypeOK ==
  /\ srv \in Running \cup Down
  /\ session \in Session \cup {NoSession}
  /\ pending \in Request \cup {NoDatagram}
  /\ files \in [FileNames -> Seq(Chunks) \cup {NoFile}]
  /\ (srv = "handle") <=> (pending # NoDatagram)
  /\ srv = "handle" => session # NoSession
  /\ session # NoSession => files[session.file] # NoFile

\* old: the contents a file may be left with from before the server's start.
ServerInit(old) ==
  /\ srv = "recv"
  /\ session = NoSession
  /\ pending = NoDatagram
  /\ files \in [FileNames -> old \cup {NoFile}]

SameHost(c) == session # NoSession /\ Host[c] = Host[session.addr]

-----------------------------------------------------------------------------
(***************************************************************************)
(* The turns of the main loop.                                             *)
(***************************************************************************)

\* recvfrom returns a datagram of c, and its checksum is right.
ServerReceives(c, d) == srv = "recv" /\ ServerReads(c, d)

\* The datagram is corrupt: the server asks for it again, with the sequence
\* number of the session, which it reads through current_client whether or
\* not there is a session.  A stated length beyond the payload is used before
\* the checksum is looked at.
HandleCorrupt(c, d) ==
  /\ "corrupt" \in Faults
  /\ ServerReceives(c, d)
  /\ \/ /\ session # NoSession
        /\ Reply(c, AGN(session.sqn))
        /\ UNCHANGED <<srv, session>>
     \/ /\ session = NoSession \/ "badsize" \in Faults
        /\ srv' = "sigsegv"
        /\ session' = NoSession
        /\ UNCHANGED toClient
  /\ UNCHANGED <<pending, files>>

\* Mutant: a SYN during an upload is denied, and ends the upload.
DenySYNAndReset(c, d) ==
  /\ ServerReceives(c, d)
  /\ is_SYN(d)
  /\ session # NoSession
  /\ Reply(c, ABR)
  /\ session' = NoSession
  /\ UNCHANGED <<srv, pending, files>>

\* A SYN during an upload is denied, whoever sent it.
DenySYN(c, d) ==
  /\ ServerReceives(c, d)
  /\ is_SYN(d)
  /\ session # NoSession
  /\ Reply(c, ABR)
  /\ UNCHANGED serverVars

\* Mutant: an existing file is kept and appended to.
AcceptSYNAppending(c, d) ==
  /\ ServerReceives(c, d)
  /\ is_SYN(d)
  /\ session = NoSession
  /\ session' = [addr |-> c, sqn |-> Flip(SQN_START_VAL), file |-> d.payload,
                 written |-> FALSE, good |-> TRUE, since |-> JustLogged]
  /\ files' = [files EXCEPT ![d.payload] = IF @ = NoFile THEN <<>> ELSE @]
  /\ Reply(c, create_ACK(d))
  /\ UNCHANGED <<srv, pending>>

\* A SYN while idle: the file is created anew, the SYN acknowledged, and the
\* session expects the first datagram after it.  Between the removal of an old
\* file and the ACK nothing can be seen of it, unless the server ends there
\* (InterruptedReplacing, FailToOpen).
AcceptSYN(c, d) ==
  /\ ServerReceives(c, d)
  /\ is_SYN(d)
  /\ session = NoSession
  /\ session' = [addr |-> c, sqn |-> Flip(SQN_START_VAL), file |-> d.payload,
                 written |-> FALSE, good |-> TRUE, since |-> JustLogged]
  /\ files' = [files EXCEPT ![d.payload] = <<>>]
  /\ Reply(c, create_ACK(d))
  /\ UNCHANGED <<srv, pending>>

\* The file cannot be opened: the server exits.  The old file may be gone.
FailToOpen(c, d) ==
  /\ "disk" \in Faults
  /\ ServerReceives(c, d)
  /\ is_SYN(d)
  /\ session = NoSession
  /\ srv' = "exited"
  /\ \E left \in {NoFile, files[d.payload]} :
       files' = [files EXCEPT ![d.payload] = left]
  /\ UNCHANGED <<session, pending, toClient>>

\* CTRL+C in the middle of handle_SYN: the old file is removed and the new one
\* not yet there, or it is there and, once current_client points to its session,
\* the handler sends an ABR.
InterruptedReplacing(c, d) ==
  /\ "stop" \in Faults
  /\ ServerReceives(c, d)
  /\ is_SYN(d)
  /\ session = NoSession
  /\ srv' = "stopped"
  /\ \E left \in {NoFile, <<>>} :
       /\ files' = [files EXCEPT ![d.payload] = left]
       /\ UNCHANGED toClient \/ (left = <<>> /\ Reply(c, ABR))
  /\ UNCHANGED <<session, pending>>

\* FileWriter::abort
Aborted == IF session.written THEN NoFile ELSE files[session.file]

\* Mutant: an ABR ends the upload whichever address it comes from.
HandleAnyABR(c, d) ==
  /\ ServerReceives(c, d)
  /\ is_ABR(d)
  /\ Reply(c, create_ACK(d))
  /\ IF session # NoSession
       THEN /\ session' = NoSession
            /\ files' = [files EXCEPT ![session.file] = Aborted]
       ELSE UNCHANGED <<session, files>>
  /\ UNCHANGED <<srv, pending>>

\* An ABR is always acknowledged; from the host of the uploading client it
\* ends the upload.
HandleABR(c, d) ==
  /\ ServerReceives(c, d)
  /\ is_ABR(d)
  /\ Reply(c, create_ACK(d))
  /\ IF SameHost(c)
       THEN /\ session' = NoSession
            /\ files' = [files EXCEPT ![session.file] = Aborted]
       ELSE UNCHANGED <<session, files>>
  /\ UNCHANGED <<srv, pending>>

IsRegular(d) == ~is_SYN(d) /\ ~is_ABR(d)

\* Mutant: what belongs to no upload is acknowledged.
HandleForeignAcknowledging(c, d) ==
  /\ ServerReceives(c, d)
  /\ IsRegular(d)
  /\ ~SameHost(c)
  /\ Reply(c, create_ACK(d))
  /\ UNCHANGED serverVars

\* Any other datagram that is not of the uploading client's host.
HandleForeign(c, d) ==
  /\ ServerReceives(c, d)
  /\ IsRegular(d)
  /\ ~SameHost(c)
  /\ Reply(c, ABR)
  /\ UNCHANGED serverVars

\* Mutant: a datagram that was already handled is not acknowledged again.
IgnoreDuplicate(c, d) ==
  /\ ServerReceives(c, d)
  /\ IsRegular(d)
  /\ SameHost(c)
  /\ get_SQN(d) # session.sqn
  /\ UNCHANGED toClient
  /\ UNCHANGED serverVars

\* Mutant: a datagram that was already handled is refused.
RefuseDuplicate(c, d) ==
  /\ ServerReceives(c, d)
  /\ IsRegular(d)
  /\ SameHost(c)
  /\ get_SQN(d) # session.sqn
  /\ Reply(session.addr, ABR)
  /\ UNCHANGED serverVars

\* A datagram that was already handled is acknowledged again.
HandleDuplicate(c, d) ==
  /\ ServerReceives(c, d)
  /\ IsRegular(d)
  /\ SameHost(c)
  /\ get_SQN(d) # session.sqn
  /\ Reply(session.addr, create_ACK(d))
  /\ UNCHANGED serverVars

\* Mutant: the sequence number is not looked at.
AcknowledgeAny(c, d) ==
  /\ ServerReceives(c, d)
  /\ IsRegular(d)
  /\ SameHost(c)
  /\ Reply(session.addr, create_ACK(d))
  /\ session' = [session EXCEPT !.sqn = Flip(@)]
  /\ pending' = d
  /\ srv' = "handle"
  /\ UNCHANGED files

\* Mutant: the sender's address is not looked at.
AcknowledgeForeign(c, d) ==
  /\ ServerReceives(c, d)
  /\ IsRegular(d)
  /\ session # NoSession
  /\ get_SQN(d) = session.sqn
  /\ Reply(session.addr, create_ACK(d))
  /\ session' = [session EXCEPT !.sqn = Flip(@)]
  /\ pending' = d
  /\ srv' = "handle"
  /\ UNCHANGED files

\* The datagram that is next in turn: first the ACK, then the handling.
Acknowledge(c, d) ==
  /\ ServerReceives(c, d)
  /\ IsRegular(d)
  /\ SameHost(c)
  /\ get_SQN(d) = session.sqn
  /\ Reply(session.addr, create_ACK(d))
  /\ session' = [session EXCEPT !.sqn = Flip(@)]
  /\ pending' = d
  /\ srv' = "handle"
  /\ UNCHANGED files

-----------------------------------------------------------------------------
(***************************************************************************)
(* handle_valid_datagram                                                   *)
(***************************************************************************)

\* FIN: the transfer rate is logged and the session ends.  The rate is the
\* quotient by the milliseconds since the last log line about the file.
FinishUpload ==
  /\ srv = "handle"
  /\ "FIN" \in pending.flags
  /\ srv' = IF session.since = 0 THEN "sigfpe" ELSE "recv"
  /\ session' = NoSession
  /\ pending' = NoDatagram
  /\ UNCHANGED <<files, netVars>>

\* Mutant: a stream that failed recovers by itself.
WriteBytesAnyway ==
  /\ srv = "handle"
  /\ "FIN" \notin pending.flags
  /\ \E good \in IF "disk" \in Faults THEN BOOLEAN ELSE {TRUE} :
       /\ session' = [session EXCEPT !.good = good, !.written = TRUE]
       /\ files' = IF good
                     THEN [files EXCEPT ![session.file] =
                                           Append(@, pending.payload)]
                     ELSE files
  /\ pending' = NoDatagram
  /\ srv' = "recv"
  /\ UNCHANGED netVars

\* No flag but SQN: a rate is logged once a second, and the payload goes to the
\* file stream, whose state nobody looks at; a stream that failed once ignores
\* everything after it.  Any other datagram is forgotten, though acknowledged.
WriteBytes ==
  /\ srv = "handle"
  /\ "FIN" \notin pending.flags
  /\ IF pending.flags \ {"SQN"} = {}
       THEN \E good \in {session.good}
                       \cup (IF "disk" \in Faults THEN {FALSE} ELSE {}) :
              /\ session' = [session EXCEPT
                               !.good = good, !.written = TRUE,
                               !.since = IF @ = 2 THEN JustLogged ELSE @]
              /\ files' = IF good
                            THEN [files EXCEPT ![session.file] =
                                            Append(@, pending.payload)]
                            ELSE files
       ELSE UNCHANGED <<session, files>>
  /\ pending' = NoDatagram
  /\ srv' = "recv"
  /\ UNCHANGED netVars

\* Time passes.
Tick ==
  /\ "instant" \in Faults
  /\ srv \in Running
  /\ session # NoSession
  /\ session.since < 2
  /\ session' = [session EXCEPT !.since = @ + 1]
  /\ UNCHANGED <<srv, pending, files, netVars>>

-----------------------------------------------------------------------------
(***************************************************************************)
(* The process: CTRL+C, and a start after it has gone down.                *)
(***************************************************************************)

\* signalHandler: the uploading client, if any, is told.
ServerInterrupted ==
  /\ "stop" \in Faults
  /\ srv \in Running
  /\ IF session # NoSession THEN Reply(session.addr, ABR) ELSE UNCHANGED toClient
  /\ srv' = "stopped"
  /\ session' = NoSession
  /\ pending' = NoDatagram
  /\ UNCHANGED <<files, toServer>>

\* Nobody listens on the port of a server that is down.
DropUndeliverable(c) ==
  /\ srv \in Down
  /\ toServer[c] # <<>>
  /\ toServer' = [toServer EXCEPT ![c] = <<>>]
  /\ UNCHANGED <<toClient, serverVars>>

ServerStart ==
  /\ "restart" \in Faults
  /\ srv \in Down
  /\ srv' = "recv"
  /\ session' = NoSession
  /\ UNCHANGED <<pending, files, netVars>>

\* One turn that reads an intact datagram of c.
HandleIntact(c, d) ==
  \/ DenySYN(c, d)
  \/ AcceptSYN(c, d)
  \/ HandleABR(c, d)
  \/ HandleForeign(c, d)
  \/ HandleDuplicate(c, d)
  \/ Acknowledge(c, d)

HandlePending == FinishUpload \/ WriteBytes

ServerNext ==
  \/ \E c \in Clients : \E d \in ToSet(toServer[c]) :
       \/ HandleIntact(c, d)
       \/ HandleCorrupt(c, d)
       \/ FailToOpen(c, d)
       \/ InterruptedReplacing(c, d)
  \/ HandlePending
  \/ Tick
  \/ ServerInterrupted
  \/ ServerStart
  \/ \E c \in Clients : DropUndeliverable(c)

=============================================================================
