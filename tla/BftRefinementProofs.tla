------------------------ MODULE BftRefinementProofs ------------------------
(***************************************************************************)
(* Bft implements UploadService for every number of clients, all files and *)
(* all sizes of the buffers: each step of the programs and of the path is  *)
(* a step of the service or leaves all that the service shows unchanged.   *)
(***************************************************************************)
EXTENDS BftRefinement, BftProofs

\* What the service shows of Bft.
shown == <<Serving, Owner, files, Outcome>>

\* A step that the service does not see, or that only moves the process of c.
LEMMA SeenByClient ==
  ASSUME UNCHANGED serverVars, NEW c \in Clients, ClientTypeOK, NEW p,
         pc' = [pc EXCEPT ![c] = p],
         \/ OutcomeOf(p) = OutcomeOf(pc[c])
         \/ OutcomeOf(pc[c]) = "open" /\ OutcomeOf(p) \in {"failed", "quit"}
         \/ OutcomeOf(pc[c]) = "open" /\ OutcomeOf(p) = "stored" /\ Stored(c)
  PROVE  [Service!Next]_shown
<1>1. Serving' = Serving /\ Owner' = Owner /\ files' = files
  BY DEF serverVars, Serving, Owner
<1>2. Outcome' = [Outcome EXCEPT ![c] = OutcomeOf(p)]
  <2>1. \A o \in Clients : pc'[o] = IF o = c THEN p ELSE pc[o]
    BY DEF ClientTypeOK
  <2>2. Outcome' = [o \in Clients |-> OutcomeOf(pc'[o])]
    BY DEF Outcome, OutcomeOf
  <2>3. \A o \in Clients :
          OutcomeOf(pc'[o]) = IF o = c THEN OutcomeOf(p) ELSE OutcomeOf(pc[o])
    BY <2>1
  <2>4. Outcome' = [o \in Clients |-> IF o = c THEN OutcomeOf(p) ELSE Outcome[o]]
    BY <2>2, <2>3 DEF Outcome
  <2> QED BY <2>4 DEF Outcome
<1>3. Outcome[c] = OutcomeOf(pc[c])
  BY DEF Outcome
<1>4. CASE OutcomeOf(p) = OutcomeOf(pc[c])
  <2>1. Outcome' = Outcome
    BY <1>2, <1>3, <1>4 DEF Outcome
  <2> QED BY <1>1, <2>1 DEF shown
<1>5. CASE OutcomeOf(pc[c]) = "open" /\ OutcomeOf(p) = "failed"
  BY <1>1, <1>2, <1>3, <1>5 DEF Service!Next, Service!Fail
<1>6. CASE OutcomeOf(pc[c]) = "open" /\ OutcomeOf(p) = "quit"
  BY <1>1, <1>2, <1>3, <1>6 DEF Service!Next, Service!Quit
<1>7. CASE OutcomeOf(pc[c]) = "open" /\ OutcomeOf(p) = "stored" /\ Stored(c)
  BY <1>1, <1>2, <1>3, <1>7 DEF Service!Next, Service!Succeed, Stored
<1> QED BY <1>4, <1>5, <1>6, <1>7

\* Every step of a client.
LEMMA ClientRefines ==
  ASSUME DiskWorks, DistinctNames, IInv, IInv', NEW c \in Clients,
         ClientNext(c), UNCHANGED serverVars
  PROVE  [Service!Next]_shown
<1>1. ClientTypeOK /\ pos[c] \in Nat /\ LastPos(c) \in Int
  BY InvTypes
<1>2. pc[c] \in {"start", "wait"} \cup InHandler \cup Ended
  BY <1>1 DEF ClientTypeOK
<1>3. CASE pc' = pc
  <2>1. pc' = [pc EXCEPT ![c] = pc[c]]
    BY <1>1, <1>3 DEF ClientTypeOK
  <2> QED BY <1>1, <2>1, SeenByClient
<1>4. CASE pc[c] = "start" /\ pc' = [pc EXCEPT ![c] = "wait"]
  BY <1>1, <1>4, SeenByClient DEF OutcomeOf, InHandler
<1>5. CASE /\ pc[c] \in {"start", "wait"}
           /\ \E p \in {"denied", "gaveup", "crashed"} \cup InHandler :
                pc' = [pc EXCEPT ![c] = p]
  BY <1>1, <1>5, SeenByClient DEF OutcomeOf, InHandler
<1>6. CASE /\ pc[c] \in InHandler
           /\ \E p \in {"killed", "crashed"} : pc' = [pc EXCEPT ![c] = p]
  BY <1>1, <1>6, SeenByClient DEF OutcomeOf, InHandler
<1>7. ASSUME NEW d, Advance(c, d), pos[c] + 1 = LastPos(c)
      PROVE  [Service!Next]_shown
  <2>1. /\ pc[c] = "wait" /\ pc' = [pc EXCEPT ![c] = "done"]
        /\ pos' = [pos EXCEPT ![c] = @ + 1]
    BY <1>7 DEF Advance, ClientReceives
  <2>2. pos'[c] = LastPos(c)' /\ files' = files
    BY <1>1, <1>7, <2>1 DEF ClientTypeOK, LastPos, serverVars
  <2>3. Stored(c)' \/ NameReused(c)'
    BY <2>2 DEF IInv, StoredInv, FinAcknowledged, DiskWorks
  <2>4. Stored(c)
    BY <2>2, <2>3 DEF NameReused, DistinctNames, Stored
  <2> QED BY <1>1, <2>1, <2>4, SeenByClient DEF OutcomeOf, InHandler
<1>8. ASSUME NEW d, Advance(c, d), pos[c] + 1 # LastPos(c)
      PROVE  pc' = pc
  BY <1>8 DEF Advance
<1>9. ASSUME NEW d, ReceiveIntact(c, d)
      PROVE  [Service!Next]_shown
  BY <1>3, <1>5, <1>6, <1>7, <1>8, <1>9
  DEF ReceiveIntact, Denied, Resend, AbortAcknowledged, AbortUnanswered,
      ClientReceives
<1>10. ASSUME NEW d, ClientReceivesCorrupt(c, d)
       PROVE  [Service!Next]_shown
  <2>1. CASE pc' = pc
    BY <1>3, <2>1
  <2>2. CASE pc[c] = "wait" /\ pc' = [pc EXCEPT ![c] = "crashed"]
    BY <1>5, <2>2
  <2>3. CASE pc[c] \in InHandler /\ pc' = [pc EXCEPT ![c] = "crashed"]
    BY <1>6, <2>3
  <2> QED BY <1>10, <2>1, <2>2, <2>3 DEF ClientReceivesCorrupt
<1>11. CASE Expire(c)
  BY <1>3, <1>5, <1>6, <1>11
  DEF Expire, ClientTimeout, ClientGivesUp, AbortTimeout, AbortGivesUp, SendAgain,
      InHandler
<1>12. CASE ClientStart(c) \/ ClientInterrupted(c)
  BY <1>4, <1>5, <1>12 DEF ClientStart, ClientInterrupted, InHandler
<1> QED BY <1>9, <1>10, <1>11, <1>12 DEF ClientNext

-----------------------------------------------------------------------------
\* A server step leaves what the clients' users know.
LEMMA OutcomeKept == UNCHANGED clientVars => Outcome' = Outcome
BY DEF clientVars, Outcome, OutcomeOf

\* A step of the server that changes neither the files nor who is served.
LEMMA Unseen ==
  ASSUME UNCHANGED clientVars, files' = files,
         srv' = srv \/ (srv \in Running /\ srv' \in Running),
         \/ session' = session
         \/ session # NoSession /\ session' # NoSession /\ session'.addr = session.addr
  PROVE  [Service!Next]_shown
<1>1. Serving' = Serving /\ Owner' = Owner
  BY DEF Serving, Owner
<1> QED BY <1>1, OutcomeKept DEF shown

\* The server reads a SYN of a client at its handshake only, which has not been
\* told that its file is stored.
LEMMA SYNNotStored ==
  ASSUME InOrder, IInv, NEW c \in Clients, NEW d, ServerReads(c, d), is_SYN(d)
  PROVE  d.payload = Name[c] /\ Outcome[c] # "stored"
<1>1. d.payload = Name[c] /\ pos[c] \in {0, 1}
  BY SYNFacts
<1>2. pos[c] # LastPos(c)
  BY <1>1, InvTypes
<1>3. pc[c] # "done" /\ pc[c] \in {"start", "wait"} \cup InHandler \cup Ended
  BY <1>2, InvTypes DEF IInv, ClientInv, ClientTypeOK
<1> QED BY <1>1, <1>3 DEF Outcome, OutcomeOf, Ended

\* A SYN that is accepted opens the upload of its client.
LEMMA AcceptRefines ==
  ASSUME InOrder, IInv, IInv', UNCHANGED clientVars,
         NEW c \in Clients, NEW d, AcceptSYN(c, d)
  PROVE  Service!Accept(c)
<1>1. /\ ServerReads(c, d) /\ is_SYN(d) /\ srv = "recv" /\ srv' = srv
      /\ session = NoSession
      /\ files' = [files EXCEPT ![d.payload] = <<>>]
      /\ session' = [addr |-> c, sqn |-> Flip(SQN_START_VAL), file |-> d.payload,
                     written |-> FALSE, good |-> TRUE, since |-> JustLogged]
  BY DEF AcceptSYN, ServerReceives
<1>2. d.payload \in FileNames
  BY <1>1, RequestFacts DEF Request
<1>3. session' \in Session
  BY <1>1, <1>2 DEF Session, Bit, Flip, SQN_START_VAL, JustLogged, SinceLog
<1>4. session' # NoSession /\ session'.addr = c /\ session'.file = d.payload
  BY <1>1, <1>3, NoValueAssumption
<1>5. d.payload = Name[c] /\ Outcome[c] # "stored"
  BY <1>1, SYNNotStored
<1>6. Serving /\ Serving' = Serving /\ Owner = NoSession /\ Owner' = c
  BY <1>1, <1>4 DEF Serving, Running, Owner
<1> QED BY <1>1, <1>5, <1>6, OutcomeKept DEF Service!Accept

\* A server stopped in the middle of handle_SYN has replaced the older file of a
\* client that is at its handshake.
LEMMA InterruptedReplacingRefines ==
  ASSUME InOrder, IInv, UNCHANGED clientVars, NEW c \in Clients, NEW d,
         InterruptedReplacing(c, d)
  PROVE  Service!GoDownReplacing(c)
<1>1. /\ ServerReads(c, d) /\ is_SYN(d) /\ srv = "recv" /\ srv' = "stopped"
      /\ session = NoSession /\ session' = session
      /\ \E left \in {NoFile, <<>>} : files' = [files EXCEPT ![d.payload] = left]
  BY DEF InterruptedReplacing, ServerReceives
<1>2. d.payload = Name[c] /\ Outcome[c] # "stored"
  BY <1>1, SYNNotStored
<1>3. Serving /\ Serving' = FALSE /\ Owner = NoSession /\ Owner' = Owner
  BY <1>1 DEF Serving, Running, Owner
<1> QED BY <1>1, <1>2, <1>3, OutcomeKept DEF Service!GoDownReplacing

\* An ABR of the owner, who has quit, discards the upload.
LEMMA AbortRefines ==
  ASSUME InOrder, DiskWorks, OwnAddresses, IInv, UNCHANGED clientVars,
         NEW c \in Clients, NEW d, HandleABR(c, d), SameHost(c)
  PROVE  Service!Discard
<1>1. /\ ServerReads(c, d) /\ is_ABR(d) /\ srv' = srv
      /\ session' = NoSession
      /\ files' = [files EXCEPT ![session.file] = Aborted]
  BY DEF HandleABR, ServerReceives
<1>2. session # NoSession /\ session.addr = c
  BY InvTypes DEF SameHost, OwnAddresses
<1>3. /\ session.file = Name[c]
      /\ session.written <=> files[Name[c]] # <<>>
      /\ files \in [FileNames -> Seq(Chunks) \cup {NoFile}]
  BY <1>2, InvTypes DEF IInv, SessionInv, Session, ServerTypeOK
<1>4. d = ABR
  <2>1. pos[c] \in Int /\ pos[c] - 1 \in Int /\ sqn[c] \in Bit /\ Flip(sqn[c]) \in Bit
    BY InvTypes DEF Flip, Bit
  <2>2. ~is_ABR(Current(c)) /\ ~is_ABR(Previous(c))
    BY <2>1, OutgoingFacts DEF Current, Previous
  <2> QED BY <1>1, <2>2, RequestFacts
<1>5. Outcome[c] = "quit"
  <2>1. pc[c] \in Aborting
    BY <1>1, <1>4, RequestFacts
  <2> QED BY <2>1 DEF Outcome, OutcomeOf, Aborting, InHandler
<1>6. Aborted = IF files[Name[c]] = <<>> THEN <<>> ELSE NoFile
  BY <1>3 DEF Aborted
<1>7. Serving' = Serving /\ Owner # NoSession /\ Owner = c /\ Owner' = NoSession
  BY <1>1, <1>2, NoValueAssumption DEF Serving, Owner
<1> QED BY <1>1, <1>2, <1>3, <1>5, <1>6, <1>7, OutcomeKept DEF Service!Discard

\* A chunk that is written is the next one of the owner's file.
LEMMA WriteRefines ==
  ASSUME DiskWorks, IInv, IInv', UNCHANGED clientVars, WriteBytes
  PROVE  Service!TakeChunk
<1>1. /\ session # NoSession /\ session.addr \in Clients
      /\ srv = "handle" /\ "FIN" \notin pending.flags
      /\ session' # NoSession /\ session'.addr = session.addr
  BY WriteBytesFacts
<1>2. PICK c \in Clients : session.addr = c
  BY <1>1
<1>3. session.file = Name[c] /\ session.good
  BY <1>1, <1>2 DEF IInv, SessionInv
<1>4. files' = [files EXCEPT ![Name[c]] = Append(@, pending.payload)]
  BY <1>3, WriteBytesFacts
<1>5. PICK k \in 1..Len(File[c]) :
        pending.payload = File[c][k] /\ files[Name[c]] = SubSeq(File[c], 1, k - 1)
  BY <1>1, <1>2, <1>3, PendingFacts DEF Holds
<1>6. Len(files[Name[c]]) = k - 1 /\ k - 1 < Len(File[c]) /\ k - 1 + 1 = k
  BY <1>5, InvTypes
<1>7. /\ Serving' = Serving /\ Owner' = Owner /\ Owner = c /\ Owner # NoSession
  <2>1. srv' = "recv"
    BY DEF WriteBytes
  <2> QED BY <1>1, <1>2, <2>1, NoValueAssumption DEF Serving, Owner, Running
<1> QED BY <1>4, <1>5, <1>6, <1>7, OutcomeKept DEF Service!TakeChunk

\* A FIN completes the upload of a whole file, unless the log line about it ends
\* the server.
LEMMA FinishRefines ==
  ASSUME DiskWorks, IInv, UNCHANGED clientVars, FinishUpload
  PROVE  Service!Complete \/ Service!GoDown
<1>1. /\ srv = "handle" /\ "FIN" \in pending.flags
      /\ srv' = IF session.since = 0 THEN "sigfpe" ELSE "recv"
      /\ session' = NoSession /\ files' = files
  BY DEF FinishUpload
<1>2. session # NoSession /\ session.addr \in Clients
  BY <1>1, PendingFacts
<1>3. PICK c \in Clients : session.addr = c
  BY <1>2
<1>4. files[Name[c]] = File[c]
  BY <1>1, <1>2, <1>3, FinFacts
<1>5. /\ Serving /\ Owner = c /\ Owner # NoSession /\ Owner' = NoSession
      /\ Serving' <=> session.since # 0
  BY <1>1, <1>2, <1>3, NoValueAssumption DEF Serving, Running, Owner
<1>6. CASE session.since = 0
  BY <1>1, <1>5, <1>6, OutcomeKept DEF Service!GoDown, Serving, Running
<1>7. CASE session.since # 0
  BY <1>1, <1>4, <1>5, <1>7, OutcomeKept DEF Service!Complete, Serving, Running
<1> QED BY <1>6, <1>7

\* The server goes down in the middle of whatever it does.
LEMMA DownRefines ==
  ASSUME UNCHANGED clientVars, srv \in Running, srv' \in Down,
         session' = NoSession, files' = files
  PROVE  Service!GoDown
<1>1. Serving /\ Serving' = FALSE /\ Owner' = NoSession
  BY DEF Serving, Running, Down, Owner
<1> QED BY <1>1, OutcomeKept DEF Service!GoDown

\* Every step of the server.
LEMMA ServerRefines ==
  ASSUME InOrder, DiskWorks, OwnAddresses, IInv, IInv', UNCHANGED clientVars,
         ServerNext
  PROVE  [Service!Next]_shown
<1>1. ASSUME NEW c \in Clients, NEW d, HandleIntact(c, d)
      PROVE  [Service!Next]_shown
  <2>1. CASE AcceptSYN(c, d)
    BY <2>1, AcceptRefines DEF Service!Next
  <2>2. CASE HandleABR(c, d) /\ SameHost(c)
    BY <2>2, AbortRefines DEF Service!Next
  <2>3. CASE Acknowledge(c, d)
    <3>1. /\ session # NoSession /\ session' = [session EXCEPT !.sqn = Flip(@)]
          /\ srv = "recv" /\ srv' = "handle" /\ files' = files
      BY <2>3 DEF Acknowledge, SameHost, ServerReceives
    <3>2. session' # NoSession /\ session'.addr = session.addr
      <4>1. session \in Session /\ Flip(session.sqn) \in Bit
        BY <3>1, InvTypes DEF Session, Flip, Bit
      <4>2. session' \in Session /\ session'.addr = session.addr
        BY <3>1, <4>1 DEF Session
      <4> QED BY <4>2, NoValueAssumption
    <3> QED BY <3>1, <3>2, Unseen DEF Running
  <2>4. CASE \/ DenySYN(c, d) \/ HandleForeign(c, d) \/ HandleDuplicate(c, d)
             \/ HandleABR(c, d) /\ ~SameHost(c)
    BY <2>4, Unseen DEF DenySYN, HandleForeign, HandleDuplicate, HandleABR, serverVars
  <2> QED BY <1>1, <2>1, <2>2, <2>3, <2>4 DEF HandleIntact
<1>2. ASSUME NEW c \in Clients, NEW d, HandleCorrupt(c, d)
      PROVE  [Service!Next]_shown
  <2>1. CASE session' = session /\ srv' = srv
    BY <1>2, <2>1, Unseen DEF HandleCorrupt
  <2>2. CASE session' = NoSession /\ srv' = "sigsegv"
    BY <1>2, <2>2, DownRefines
    DEF HandleCorrupt, ServerReceives, Running, Down, Service!Next
  <2> QED BY <1>2, <2>1, <2>2 DEF HandleCorrupt
<1>3. \A c \in Clients : \A d : ~FailToOpen(c, d)
  BY DEF FailToOpen, DiskWorks
<1>4. CASE FinishUpload
  BY <1>4, FinishRefines DEF Service!Next
<1>5. CASE WriteBytes
  BY <1>5, WriteRefines DEF Service!Next
<1>6. CASE Tick
  <2>1. /\ session \in Session /\ session.since < 2 /\ srv' = srv /\ files' = files
        /\ session' = [session EXCEPT !.since = @ + 1]
    BY <1>6, InvTypes DEF Tick
  <2>2. session' \in Session /\ session'.addr = session.addr
    BY <2>1 DEF Session, SinceLog
  <2> QED BY <2>1, <2>2, NoValueAssumption, Unseen
<1>7. CASE ServerInterrupted
  BY <1>7, DownRefines DEF ServerInterrupted, Down, Service!Next
<1>8. CASE ServerStart
  <2>1. Serving = FALSE /\ Serving' = TRUE /\ Owner' = NoSession /\ files' = files
    BY <1>8 DEF ServerStart, Serving, Running, Down, Owner
  <2>2. Owner = NoSession
    BY <2>1 DEF IInv, Serving, Owner
  <2> QED BY <2>1, <2>2, OutcomeKept DEF Service!ComeUp, Service!Next
<1>9. ASSUME NEW c \in Clients, DropUndeliverable(c)
      PROVE  [Service!Next]_shown
  BY <1>9, Unseen DEF DropUndeliverable, serverVars
<1>10. ASSUME NEW c \in Clients, NEW d, InterruptedReplacing(c, d)
       PROVE  [Service!Next]_shown
  BY <1>10, InterruptedReplacingRefines DEF Service!Next
<1> QED BY <1>1, <1>2, <1>3, <1>4, <1>5, <1>6, <1>7, <1>8, <1>9, <1>10
        DEF ServerNext, HandlePending

-----------------------------------------------------------------------------
\* The service starts as Bft does.
LEMMA InitRefines == Init => Service!Init
<1> SUFFICES ASSUME Init PROVE Service!Init
  OBVIOUS
<1>1. /\ srv = "recv" /\ session = NoSession
      /\ files \in [FileNames -> OldContents \cup {NoFile}]
      /\ pc = [c \in Clients |-> "start"]
  BY DEF Init, ServerInit, ClientInit
<1>2. Serving = TRUE /\ Owner = NoSession
  BY <1>1 DEF Serving, Running, Owner
<1>3. Outcome = [c \in Clients |-> "open"]
  <2>1. OutcomeOf("start") = "open"
    BY DEF OutcomeOf, InHandler
  <2> QED BY <1>1, <2>1 DEF Outcome
<1> QED BY <1>1, <1>2, <1>3 DEF Service!Init

\* Every step of Bft is one of the service, or none.
LEMMA StepRefines ==
  ASSUME InOrder, DiskWorks, OwnAddresses, DistinctNames, IInv, IInv', [Next]_vars
  PROVE  [Service!Next]_shown
<1>1. CASE ServerNext /\ UNCHANGED clientVars
  BY <1>1, ServerRefines
<1>2. ASSUME NEW c \in Clients, ClientNext(c), UNCHANGED serverVars
      PROVE  [Service!Next]_shown
  BY <1>2, ClientRefines
<1>3. CASE UNCHANGED <<serverVars, clientVars>>
  BY <1>3, Unseen DEF serverVars
<1> QED BY <1>1, <1>2, <1>3 DEF Next, vars

\* Over a path that keeps the order, on a disk that works, for clients with hosts
\* and file names of their own, the programs implement the service.
THEOREM Implements ==
  ASSUME InOrder, DiskWorks, OwnAddresses, DistinctNames
  PROVE  Spec => ImplementsUploadService
<1>1. IInv /\ IInv' /\ [Next]_vars => [Service!Next]_shown
  BY StepRefines
<1>2. [][Service!Next]_shown <=> [][Service!Next]_(Service!vars)
  BY DEF shown, Service!vars
<1> QED BY <1>1, <1>2, InStep, InitRefines, PTL
        DEF Spec, ImplementsUploadService, Service!Spec

=============================================================================
