--------------------------- MODULE BftServerSteps ---------------------------
(***************************************************************************)
(* Every step of the server keeps IInv: over an ordered path, with a       *)
(* working disk and clients on hosts of their own.                         *)
(***************************************************************************)
EXTENDS BftPaths

(***************************************************************************)
(* What a step leaves alone.                                               *)
(***************************************************************************)
\* The step concerns no other client than c.
Alone(c) ==
  \A o \in Clients \ {c} :
    /\ toServer'[o] = toServer[o] /\ toClient'[o] = toClient[o]
    /\ pc'[o] = pc[o] /\ pos'[o] = pos[o] /\ sqn'[o] = sqn[o]

\* Of the files, the step may change that of c.
OwnFile(c) ==
  \A n \in FileNames : files'[n] # files[n] => n = Name[c] /\ Started(c)

\* The session after the step is none, or that of c, or another one untouched.
SessionAfter(c) ==
  \/ session' = NoSession
  \/ session' # NoSession /\ session'.addr = c /\ SessionInv(c)' /\ srv' \in Running
  \/ UNCHANGED serverVars /\ (session # NoSession => session.addr # c)

\* The facts about types that IInv contains.
LEMMA InvTypes ==
  ASSUME IInv
  PROVE  /\ NetTypeOK /\ ServerTypeOK /\ ClientTypeOK /\ TypeInv
         /\ session # NoSession => session \in Session /\ session.addr \in Clients
         /\ \A c \in Clients :
              /\ toServer[c] \in Seq(Request) /\ toClient[c] \in Seq(Datagram)
              /\ pos[c] \in Nat /\ sqn[c] \in Bit /\ Len(File[c]) \in Nat
              /\ LastPos(c) = Len(File[c]) + 2
              /\ Name[c] \in FileNames /\ File[c] \in Seq(Chunks)
<1>1. NetTypeOK /\ ServerTypeOK /\ ClientTypeOK
  BY DEF IInv, TypeOK
<1>2. TypeInv
  BY DEF IInv, TypeInv, DoneAtEnd, ClientInv
<1>3. session # NoSession => session \in Session /\ session.addr \in Clients
  BY <1>1 DEF ServerTypeOK, Session
<1>4. \A c \in Clients : /\ toServer[c] \in Seq(Request)
                         /\ toClient[c] \in Seq(Datagram)
  BY <1>1 DEF NetTypeOK
<1>5. \A c \in Clients : pos[c] \in Nat /\ sqn[c] \in Bit
  BY <1>1 DEF ClientTypeOK
<1>6. \A c \in Clients : File[c] \in Seq(Chunks) /\ Name[c] \in FileNames
  BY FileAssumption
<1>7. \A c \in Clients : Len(File[c]) \in Nat
  BY <1>6
<1> QED BY <1>1, <1>2, <1>3, <1>4, <1>5, <1>6, <1>7 DEF LastPos

\* The upload of c is stored as before when its file and its answers are.
LEMMA StoredKeeps ==
  ASSUME IInv, NEW c \in Clients, SameUpload(c),
         files'[Name[c]] = files[Name[c]],
         NoneOf(toClient[c], create_ACK(Current(c))) =>
           NoneOf(toClient'[c], create_ACK(Current(c))),
         \A o \in Clients : Started(o) => Started(o)'
  PROVE  StoredInv(c)'
<1>1. Current(c)' = Current(c) /\ LastPos(c)' = LastPos(c)
  BY DEF Current, SameUpload, LastPos
<1>2. FinAcknowledged(c)' => FinAcknowledged(c)
  BY <1>1 DEF FinAcknowledged, SameUpload
<1>3. NameReused(c) => NameReused(c)'
  BY DEF NameReused
<1>4. Stored(c) => Stored(c)'
  BY DEF Stored
<1> QED BY <1>2, <1>3, <1>4 DEF StoredInv, IInv

\* A step that concerns only c keeps IInv, if it does for c.
LEMMA Assemble ==
  ASSUME IInv, TypeOK', NEW c \in Clients, Alone(c), OwnFile(c), SessionAfter(c),
         Started(c) => Started(c)', Link(c)', StoredInv(c)'
  PROVE  IInv'
<1>1. \A o \in Clients : Started(o) => Started(o)'
  BY DEF Alone, Started
<1>2. ASSUME NEW o \in Clients \ {c} PROVE Link(o)' /\ StoredInv(o)'
  <2>1. /\ toServer'[o] = toServer[o] /\ toClient'[o] = toClient[o]
        /\ pc'[o] = pc[o] /\ SameUpload(o)
    BY DEF Alone, SameUpload
  <2>2. Link(o)'
    <3>1. Keeps(toServer[o], toServer'[o]) /\ Keeps(toClient[o], toClient'[o])
      BY <2>1, EmptyQueue
    <3>2. Link(o)
      BY DEF IInv, Link
    <3> QED BY <2>1, <3>1, <3>2, LinkKeeps
  <2>3. CASE files'[Name[o]] = files[Name[o]]
    BY <2>1, <2>2, <2>3, <1>1, StoredKeeps
  <2>4. CASE files'[Name[o]] # files[Name[o]]
    <3>1. Name[o] = Name[c] /\ Started(c)
      BY <2>4, InvTypes DEF OwnFile
    <3>2. NameReused(o)'
      BY <1>1, <3>1 DEF NameReused
    <3> QED BY <2>2, <3>2 DEF StoredInv
  <2> QED BY <2>2, <2>3, <2>4
<1>3. session' # NoSession => SessionInv(session.addr)' /\ srv' \in Running
  <2>1. CASE session' = NoSession
    BY <2>1
  <2>2. CASE session' # NoSession /\ session'.addr = c /\ SessionInv(c)' /\ srv' \in Running
    BY <2>2
  <2>3. CASE UNCHANGED serverVars /\ (session # NoSession => session.addr # c)
    <3> SUFFICES ASSUME session # NoSession
                 PROVE  SessionInv(session.addr)' /\ srv' \in Running
      BY <2>3 DEF serverVars
    <3>1. PICK o \in Clients \ {c} : session.addr = o
      BY <2>3, InvTypes
    <3>2. /\ toServer'[o] = toServer[o] /\ toClient'[o] = toClient[o]
          /\ pc'[o] = pc[o] /\ pos'[o] = pos[o] /\ sqn'[o] = sqn[o]
      BY DEF Alone
    <3>3. session' = session /\ srv' = srv /\ pending' = pending /\ files' = files
      BY <2>3 DEF serverVars
    <3>4. Current(o)' = Current(o) /\ Previous(o)' = Previous(o)
          /\ Acknowledged(o)' = Acknowledged(o)
      BY <3>2, <3>3 DEF Current, Previous, Acknowledged
    <3>5. SessionInv(o) /\ srv \in Running
      BY <3>1 DEF IInv
    <3>6. SessionInv(o)'
      BY <3>2, <3>3, <3>4, <3>5 DEF SessionInv, Holds
    <3> QED BY <3>1, <3>3, <3>5, <3>6
  <2> QED BY <2>1, <2>2, <2>3 DEF SessionAfter
<1> QED BY <1>2, <1>3 DEF IInv, Link

\* A session of c that the step does not touch stays in step with c.
LEMMA SessionKeeps ==
  ASSUME IInv, NEW c \in Clients, session # NoSession, session.addr = c,
         UNCHANGED serverVars, SameUpload(c), Started(c)',
         NoneOf(toServer[c], Previous(c)) => NoneOf(toServer'[c], Previous(c)),
         session.sqn = sqn[c] /\ NoneOf(toClient[c], create_ACK(Current(c))) =>
           NoneOf(toClient'[c], create_ACK(Current(c))),
         NoneOf(toClient[c], create_ACK(ABR)) => NoneOf(toClient'[c], create_ACK(ABR))
  PROVE  SessionAfter(c)
<1>1. SessionInv(c) /\ srv \in Running
  BY DEF IInv
<1>2. session' = session /\ srv' = srv /\ pending' = pending /\ files' = files
  BY DEF serverVars
<1>3. Current(c)' = Current(c) /\ Previous(c)' = Previous(c)
      /\ Acknowledged(c)' = Acknowledged(c)
  BY <1>2 DEF Current, Previous, Acknowledged, SameUpload
<1>4. SessionInv(c)'
  BY <1>1, <1>2, <1>3 DEF SessionInv, Holds, SameUpload, Started
<1> QED BY <1>1, <1>2, <1>4 DEF SessionAfter

\* As long as the server has acknowledged no more than the chunks of the file, the
\* FIN has not been acknowledged.
LEMMA NotOver ==
  ASSUME IInv, NEW c \in Clients, SessionInv(c), Acknowledged(c) <= Len(File[c])
  PROVE  /\ pos[c] # LastPos(c)
         /\ session.sqn # sqn[c] => pos[c] + 1 # LastPos(c)
         /\ ~FinAcknowledged(c)
<1>1. pos[c] \in Nat /\ Len(File[c]) \in Nat /\ LastPos(c) = Len(File[c]) + 2
  BY InvTypes
<1>2. session.sqn = sqn[c] => NoneOf(toClient[c], create_ACK(Current(c)))
  BY DEF SessionInv
<1>3. CASE session.sqn = sqn[c]
  <2>1. Acknowledged(c) = pos[c] - 1
    BY <1>3 DEF Acknowledged
  <2> QED BY <1>1, <1>2, <1>3, <2>1 DEF FinAcknowledged
<1>4. CASE session.sqn # sqn[c]
  <2>1. Acknowledged(c) = pos[c]
    BY <1>4 DEF Acknowledged
  <2> QED BY <1>1, <1>4, <2>1 DEF FinAcknowledged
<1> QED BY <1>3, <1>4

\* While the server waits within an upload, the FIN of its client has not been
\* acknowledged.
LEMMA SessionNotOver ==
  ASSUME IInv, NEW c \in Clients, session # NoSession, session.addr = c, srv = "recv"
  PROVE  /\ pos[c] # LastPos(c)
         /\ session.sqn # sqn[c] => pos[c] + 1 # LastPos(c)
         /\ ~FinAcknowledged(c)
<1>1. SessionInv(c)
  BY DEF IInv
<1>2. Acknowledged(c) <= Len(File[c])
  BY <1>1 DEF SessionInv
<1> QED BY <1>1, <1>2, NotOver

\* A server that serves nobody after the step, and has touched no file.
LEMMA Freed ==
  ASSUME IInv, TypeOK', session' = NoSession, files' = files, UNCHANGED clientVars,
         \A c \in Clients :
           /\ Link(c)'
           /\ NoneOf(toClient[c], create_ACK(Current(c))) =>
                NoneOf(toClient'[c], create_ACK(Current(c)))
  PROVE  IInv'
<1>1. pc' = pc /\ pos' = pos /\ sqn' = sqn
  BY DEF clientVars
<1>2. ASSUME NEW c \in Clients PROVE StoredInv(c)'
  BY <1>1, StoredKeeps DEF SameUpload, Started
<1> QED BY <1>2 DEF IInv, Link

\* A server that is left without a session while nothing is sent.
LEMMA FreedSilently ==
  ASSUME IInv, TypeOK', session' = NoSession, files' = files, UNCHANGED clientVars,
         \A c \in Clients : /\ Keeps(toServer[c], toServer'[c])
                            /\ Keeps(toClient[c], toClient'[c])
  PROVE  IInv'
<1>1. pc' = pc /\ pos' = pos /\ sqn' = sqn
  BY DEF clientVars
<1>2. ASSUME NEW c \in Clients PROVE Link(c)'
  <2>1. Link(c) /\ SameUpload(c)
    BY <1>1 DEF IInv, Link, SameUpload
  <2> QED BY <1>1, <2>1, LinkKeeps
<1>3. \A c \in Clients : NoneOf(toClient[c], create_ACK(Current(c))) =>
                          NoneOf(toClient'[c], create_ACK(Current(c)))
  BY DEF Keeps
<1> QED BY <1>2, <1>3, Freed

-----------------------------------------------------------------------------
(***************************************************************************)
(* The server reads.                                                       *)
(***************************************************************************)
\* What the server can read from c, and what that says of the rest.
LEMMA RequestFacts ==
  ASSUME IInv, InOrder, NEW c \in Clients, NEW d, ServerReads(c, d)
  PROVE  /\ d \in Request /\ d \in {Current(c), Previous(c), ABR}
         /\ Started(c)
         /\ Keeps(toServer[c], toServer'[c])
         /\ \A o \in Clients \ {c} : toServer'[o] = toServer[o]
         /\ d = Current(c) => NoneOf(toServer'[c], Previous(c))
         /\ d = Previous(c) => /\ pos[c] > 0
                               /\ NoneOf(toClient[c], create_ACK(Current(c)))
         /\ IF d = ABR
              THEN pc[c] \in Aborting /\ OnlyFrom(toServer'[c], {ABR})
              ELSE NoneOf(toClient[c], create_ACK(ABR))
<1>1. NetTypeOK /\ pos[c] \in Nat /\ sqn[c] \in Bit
  BY InvTypes
<1>2. ClientInv(c) /\ PathInv(c) /\ AbortInv(c)
  BY DEF IInv
<1>3. /\ Current(c) # Previous(c) /\ Current(c) # ABR /\ Previous(c) # ABR
  BY <1>1, Distinct
<1>4. /\ Keeps(toServer[c], toServer'[c])
      /\ ~NoneOf(toServer[c], d)
      /\ \A T : OnlyFrom(toServer[c], T) => d \in T
      /\ \A y : NeverAfter(toServer[c], d, y) /\ d # y => NoneOf(toServer'[c], y)
      /\ OnlyAfter(toServer[c], d) => OnlyFrom(toServer'[c], {d})
      /\ \A o \in Clients \ {c} : toServer'[o] = toServer[o]
  BY <1>1, ServerReadsFacts
<1>5. d \in Request
  BY <1>1, ServerReadsType
<1>6. d \in Sent(c)
  BY <1>2, <1>4 DEF PathInv
<1>7. Started(c)
  <2>1. toServer[c] # <<>>
    BY <1>4, EmptyQueue
  <2> QED BY <1>2, <2>1 DEF ClientInv, Started
<1>8. d = Current(c) => NoneOf(toServer'[c], Previous(c))
  BY <1>2, <1>3, <1>4 DEF PathInv
<1>9. d = Previous(c) => pos[c] > 0 /\ NoneOf(toClient[c], create_ACK(Current(c)))
  BY <1>2, <1>3, <1>4, <1>6 DEF PathInv, Sent
<1>10. d = ABR => pc[c] \in Aborting /\ OnlyFrom(toServer'[c], {ABR})
  BY <1>2, <1>4 DEF AbortInv, Aborting
<1>11. d # ABR => NoneOf(toClient[c], create_ACK(ABR))
  BY <1>2, <1>4 DEF AbortInv
<1>12. d \in {Current(c), Previous(c), ABR}
  BY <1>6 DEF Sent
<1> QED BY <1>4, <1>5, <1>7, <1>8, <1>9, <1>10, <1>11, <1>12

\* The server has read a datagram of c and answers it: which answer leaves the path
\* of c sound, and what it leaves of the answers under way.
LEMMA ServerAnswers ==
  ASSUME IInv, InOrder, NEW c \in Clients, NEW d, ServerReads(c, d),
         NEW a \in Datagram, Reply(c, a), UNCHANGED clientVars,
         a \in Answers(c),
         a = create_ACK(Previous(c)) => NoneOf(toClient[c], create_ACK(Current(c))),
         a = create_ACK(Current(c)) => NoneOf(toServer'[c], Previous(c)),
         a = create_ACK(ABR) => d = ABR
  PROVE  /\ Alone(c) /\ SameUpload(c) /\ Link(c)'
         /\ \A o \in Clients : Started(o) => Started(o)'
         /\ Started(c)'
         /\ \A x : NoneOf(toClient[c], x) /\ a # x => NoneOf(toClient'[c], x)
<1>1. NetTypeOK /\ ClientTypeOK /\ toClient[c] \in Seq(Datagram)
  BY InvTypes
<1>2. toClient' = [toClient EXCEPT ![c] = Enqueue(@, a)]
  BY DEF Reply
<1>3. toClient'[c] = Enqueue(toClient[c], a)
      /\ \A o \in Clients \ {c} : toClient'[o] = toClient[o]
  BY <1>1, <1>2 DEF NetTypeOK
<1>4. pc' = pc /\ pos' = pos /\ sqn' = sqn
  BY DEF clientVars
<1>5. Alone(c) /\ SameUpload(c)
  BY <1>3, <1>4, RequestFacts DEF Alone, SameUpload
<1>6. Started(c)' /\ \A o \in Clients : Started(o) => Started(o)'
  BY <1>4, RequestFacts DEF Started
<1>7. \A x : NoneOf(toClient[c], x) /\ a # x => NoneOf(toClient'[c], x)
  BY <1>1, <1>3, EnqueueKeeps
<1>8. Link(c)
  BY DEF IInv, Link
<1>9. Link(c)'
  BY <1>1, <1>3, <1>4, <1>5, <1>8, RequestFacts, LinkAnswered
<1> QED BY <1>5, <1>6, <1>7, <1>9

-----------------------------------------------------------------------------
(***************************************************************************)
(* The turns of the main loop.                                             *)
(***************************************************************************)
\* An answer that is neither an ACK of an upload nor one of an ABR can always be
\* given, whoever is served.
LEMMA SignalAnswer ==
  ASSUME IInv, InOrder, TypeOK', NEW c \in Clients, NEW d, ServerReads(c, d),
         NEW a \in {ABR, AGN(0), AGN(1)}, Reply(c, a),
         UNCHANGED serverVars, UNCHANGED clientVars
  PROVE  IInv'
<1>1. /\ a \notin {create_ACK(Current(c)), create_ACK(Previous(c)), create_ACK(ABR)}
      /\ a \in Datagram /\ a \in Answers(c)
  <2>1. pos[c] \in Nat /\ sqn[c] \in Bit
    BY InvTypes
  <2>2. ABR \in Datagram /\ AGN(0) \in Datagram /\ AGN(1) \in Datagram
    BY SignalTypes DEF Request, Bit
  <2> QED BY <2>1, <2>2, Distinct DEF Answers
<1>2. /\ Alone(c) /\ SameUpload(c) /\ Link(c)' /\ Started(c)'
      /\ \A o \in Clients : Started(o) => Started(o)'
      /\ \A x : NoneOf(toClient[c], x) /\ a # x => NoneOf(toClient'[c], x)
  BY <1>1, ServerAnswers
<1>3. OwnFile(c) /\ files' = files
  BY DEF OwnFile, serverVars
<1>4. StoredInv(c)'
  BY <1>1, <1>2, <1>3, StoredKeeps
<1>5. SessionAfter(c)
  <2>1. CASE session # NoSession /\ session.addr = c
    BY <1>1, <1>2, <2>1, RequestFacts, SessionKeeps DEF Keeps
  <2>2. CASE session = NoSession \/ session.addr # c
    BY <2>2 DEF SessionAfter
  <2> QED BY <2>1, <2>2
<1> QED BY <1>2, <1>3, <1>4, <1>5, Assemble

\* A SYN during an upload is denied.
LEMMA DenySYNStep ==
  ASSUME IInv, InOrder, TypeOK', NEW c \in Clients, NEW d, DenySYN(c, d),
         UNCHANGED clientVars
  PROVE  IInv'
<1>1. ServerReads(c, d) /\ Reply(c, ABR) /\ UNCHANGED serverVars
  BY DEF DenySYN, ServerReceives
<1> QED BY <1>1, SignalAnswer

\* A SYN is the client's current datagram or, after a restart of the server, the
\* one before, and names the client's file.
LEMMA SYNFacts ==
  ASSUME IInv, InOrder, NEW c \in Clients, NEW d, ServerReads(c, d), is_SYN(d)
  PROVE  /\ \/ d = Current(c) /\ pos[c] = 0 /\ sqn[c] = 0
            \/ d = Previous(c) /\ pos[c] = 1 /\ sqn[c] = 1
         /\ d.payload = Name[c]
<1>1. pos[c] \in Nat /\ sqn[c] \in Bit
  BY InvTypes
<1>2. \/ d = Current(c) /\ pos[c] = 0 /\ sqn[c] = 0
      \/ d = Previous(c) /\ pos[c] = 1 /\ sqn[c] = 1
  <2>1. pos[c] \in Int /\ pos[c] - 1 \in Int /\ Flip(sqn[c]) \in Bit
    BY <1>1 DEF Flip, Bit
  <2>2. d \in {Current(c), Previous(c)}
    BY SignalFacts, RequestFacts
  <2>3. CASE d = Current(c)
    BY <1>1, <2>1, <2>3, OutgoingFacts DEF Current, IInv, ClientInv
  <2>4. CASE d = Previous(c)
    <3>1. pos[c] - 1 = 0
      BY <2>1, <2>4, OutgoingFacts DEF Previous
    <3>2. pos[c] = 1
      BY <1>1, <3>1
    <3> QED BY <2>4, <3>2 DEF IInv, ClientInv
  <2> QED BY <2>2, <2>3, <2>4
<1>3. d.payload = Name[c]
  <2>1. 0 \in Int /\ pos[c] \in Int
    BY <1>1
  <2>2. pos[c] - 1 = 0 => Previous(c) = Outgoing(c, 0, Flip(sqn[c]))
    BY DEF Previous
  <2>3. Flip(1) \in Bit /\ 0 \in Bit /\ 1 - 1 = 0
    BY DEF Flip, Bit
  <2> QED BY <1>2, <2>1, <2>2, <2>3, OutgoingFacts DEF Current
<1> QED BY <1>2, <1>3

\* A SYN while idle opens a session of its client, the file new and empty.
LEMMA AcceptSYNStep ==
  ASSUME IInv, InOrder, TypeOK', NEW c \in Clients, NEW d, AcceptSYN(c, d),
         UNCHANGED clientVars
  PROVE  IInv'
<1>1. /\ ServerReads(c, d) /\ Reply(c, create_ACK(d)) /\ is_SYN(d)
      /\ session = NoSession /\ srv = "recv" /\ srv' = srv /\ pending' = pending
      /\ files' = [files EXCEPT ![d.payload] = <<>>]
      /\ session' = [addr |-> c, sqn |-> Flip(SQN_START_VAL), file |-> d.payload,
                     written |-> FALSE, good |-> TRUE, since |-> JustLogged]
  BY DEF AcceptSYN, ServerReceives
<1>2. /\ pos[c] \in Nat /\ sqn[c] \in Bit /\ Len(File[c]) \in Nat
      /\ LastPos(c) = Len(File[c]) + 2
      /\ Name[c] \in FileNames /\ File[c] \in Seq(Chunks)
      /\ files \in [FileNames -> Seq(Chunks) \cup {NoFile}]
  BY InvTypes DEF ServerTypeOK
<1>3. /\ Current(c) # Previous(c)
      /\ create_ACK(Current(c)) # create_ACK(Previous(c))
      /\ \A a \in {create_ACK(Current(c)), create_ACK(Previous(c))} :
           a \notin {ABR, create_ACK(ABR)} /\ a \in Datagram
  BY <1>2, Distinct
<1>4. \/ d = Current(c) /\ pos[c] = 0 /\ sqn[c] = 0
      \/ d = Previous(c) /\ pos[c] = 1 /\ sqn[c] = 1
  BY <1>1, SYNFacts
<1>5. d.payload = Name[c]
  BY <1>1, SYNFacts
<1>6. /\ create_ACK(d) \in Answers(c)
      /\ create_ACK(d) = create_ACK(Previous(c)) =>
           NoneOf(toClient[c], create_ACK(Current(c)))
      /\ create_ACK(d) = create_ACK(Current(c)) => NoneOf(toServer'[c], Previous(c))
      /\ create_ACK(d) # create_ACK(ABR)
      /\ create_ACK(d) \in Datagram
  BY <1>1, <1>3, <1>4, RequestFacts DEF Answers
<1>7. /\ Alone(c) /\ SameUpload(c) /\ Link(c)' /\ Started(c)'
      /\ \A x : NoneOf(toClient[c], x) /\ create_ACK(d) # x => NoneOf(toClient'[c], x)
  BY <1>1, <1>6, ServerAnswers
<1>8. OwnFile(c) /\ files'[Name[c]] = <<>>
  BY <1>1, <1>2, <1>5, RequestFacts DEF OwnFile
<1>9. /\ session' # NoSession /\ session'.addr = c /\ session'.sqn = 1
      /\ session'.file = Name[c] /\ session'.good /\ ~session'.written
  <2>1. session' \in Session
    BY <1>1, <1>2, <1>5
    DEF Session, Bit, Flip, SQN_START_VAL, JustLogged, SinceLog
  <2>2. session' # NoSession
    BY <2>1, NoValueAssumption
  <2>3. Flip(SQN_START_VAL) = 1
    BY DEF Flip, SQN_START_VAL
  <2>4. /\ session'.addr = c /\ session'.sqn = Flip(SQN_START_VAL)
        /\ session'.file = d.payload /\ session'.good = TRUE
        /\ session'.written = FALSE
    BY <1>1
  <2> QED BY <1>5, <2>2, <2>3, <2>4
<1>10. /\ Current(c)' = Current(c) /\ Previous(c)' = Previous(c)
       /\ pos'[c] = pos[c] /\ sqn'[c] = sqn[c]
  BY <1>7 DEF Current, Previous, SameUpload
<1>11. NoneOf(toClient'[c], create_ACK(ABR))
  BY <1>1, <1>3, <1>4, <1>6, <1>7, SignalFacts, RequestFacts
<1>12. d = Previous(c) => NoneOf(toClient'[c], create_ACK(Current(c)))
  BY <1>1, <1>3, <1>7, RequestFacts
<1>13. SessionInv(c)'
  <2>1. Acknowledged(c)' = 0
    BY <1>4, <1>9, <1>10 DEF Acknowledged
  <2>2. SubSeq(File[c], 1, 0) = <<>>
    BY <1>2
  <2>3. pc'[c] # "start"
    BY <1>7 DEF Started
  <2>4. IF session'.sqn = sqn'[c]
          THEN pos'[c] >= 1 /\ NoneOf(toClient'[c], create_ACK(Current(c)'))
          ELSE NoneOf(toServer'[c], Previous(c)')
    BY <1>1, <1>4, <1>9, <1>10, <1>12, RequestFacts
  <2>5. srv' = "recv"
    BY <1>1
  <2> QED BY <1>2, <1>8, <1>9, <1>11, <2>1, <2>2, <2>3, <2>4, <2>5
         DEF SessionInv, Holds
<1>14. StoredInv(c)'
  <2>1. pos[c] # Len(File[c]) + 2
    BY <1>2, <1>4
  <2>2. CASE d = Current(c) /\ pos[c] = 0
    BY <1>2, <1>10, <2>1, <2>2 DEF StoredInv, FinAcknowledged, LastPos
  <2>3. CASE d = Previous(c)
    BY <1>2, <1>10, <1>12, <2>1, <2>3 DEF StoredInv, FinAcknowledged, LastPos
  <2> QED BY <1>4, <2>2, <2>3
<1>15. SessionAfter(c)
  BY <1>1, <1>9, <1>13 DEF SessionAfter, Running
<1> QED BY <1>7, <1>8, <1>14, <1>15, Assemble

\* The server exits when it cannot open the file of a SYN.
LEMMA FailToOpenStep ==
  ASSUME IInv, InOrder, TypeOK', NEW c \in Clients, NEW d, FailToOpen(c, d),
         UNCHANGED clientVars
  PROVE  IInv'
<1>1. /\ "disk" \in Faults /\ ServerReads(c, d)
      /\ session' = NoSession /\ toClient' = toClient
  BY DEF FailToOpen, ServerReceives
<1>2. pc' = pc /\ pos' = pos /\ sqn' = sqn
  BY DEF clientVars
<1>3. ASSUME NEW o \in Clients PROVE Link(o)' /\ StoredInv(o)'
  <2>1. Link(o) /\ SameUpload(o) /\ Keeps(toClient[o], toClient'[o])
    BY <1>1, <1>2, EmptyQueue DEF IInv, Link, SameUpload
  <2>2. Keeps(toServer[o], toServer'[o])
    <3>1. CASE o = c
      BY <1>1, <3>1, RequestFacts
    <3>2. CASE o # c
      BY <1>1, <3>2, RequestFacts, EmptyQueue
    <3> QED BY <3>1, <3>2
  <2>3. ~DiskWorks
    BY <1>1 DEF DiskWorks
  <2> QED BY <1>2, <2>1, <2>2, <2>3, LinkKeeps DEF StoredInv
<1> QED BY <1>1, <1>3 DEF IInv, Link

\* A server that is stopped in the middle of handle_SYN leaves the client at its
\* handshake, whose file is not acknowledged to its end.
LEMMA InterruptedReplacingStep ==
  ASSUME IInv, InOrder, TypeOK', NEW c \in Clients, NEW d,
         InterruptedReplacing(c, d), UNCHANGED clientVars
  PROVE  IInv'
<1>1. /\ ServerReads(c, d) /\ is_SYN(d) /\ session' = NoSession
      /\ UNCHANGED toClient \/ Reply(c, ABR)
      /\ \A n \in FileNames \ {d.payload} : files'[n] = files[n]
  BY InvTypes DEF InterruptedReplacing, ServerReceives, ServerTypeOK
<1>2. /\ pos[c] \in Nat /\ sqn[c] \in Bit /\ Len(File[c]) \in Nat
      /\ LastPos(c) = Len(File[c]) + 2 /\ Name[c] \in FileNames
  BY InvTypes
<1>3. /\ \/ d = Current(c) /\ pos[c] = 0
         \/ d = Previous(c) /\ pos[c] = 1
      /\ d.payload = Name[c]
  BY <1>1, SYNFacts
<1>4. /\ Alone(c) /\ SameUpload(c) /\ Link(c)' /\ Started(c)'
      /\ NoneOf(toClient[c], create_ACK(Current(c))) =>
           NoneOf(toClient'[c], create_ACK(Current(c)))
  <2>1. CASE UNCHANGED toClient
    <3>1. pc' = pc /\ pos' = pos /\ sqn' = sqn
      BY DEF clientVars
    <3>2. Alone(c) /\ SameUpload(c) /\ Started(c)'
      BY <1>1, <2>1, <3>1, RequestFacts DEF Alone, SameUpload, Started
    <3>3. Link(c) /\ Keeps(toServer[c], toServer'[c]) /\ Keeps(toClient[c], toClient'[c])
      BY <1>1, <2>1, RequestFacts, EmptyQueue DEF IInv, Link
    <3> QED BY <2>1, <3>1, <3>2, <3>3, LinkKeeps
  <2>2. CASE Reply(c, ABR)
    <3>1. /\ ABR \in Datagram /\ ABR \in Answers(c)
          /\ ABR \notin {create_ACK(Current(c)), create_ACK(Previous(c)), create_ACK(ABR)}
      BY <1>2, SignalTypes, Distinct DEF Answers, Request
    <3> QED BY <1>1, <2>2, <3>1, ServerAnswers
  <2> QED BY <1>1, <2>1, <2>2
<1>5. OwnFile(c)
  BY <1>1, <1>3, RequestFacts DEF OwnFile
<1>6. StoredInv(c)'
  <2>1. /\ pos'[c] = pos[c] /\ Current(c)' = Current(c)
        /\ LastPos(c)' = LastPos(c) /\ pos[c] # LastPos(c)
    BY <1>2, <1>3, <1>4 DEF SameUpload, Current, LastPos
  <2>2. CASE d = Current(c) /\ pos[c] = 0
    BY <1>2, <2>1, <2>2 DEF StoredInv, FinAcknowledged
  <2>3. CASE d = Previous(c)
    <3>1. NoneOf(toClient[c], create_ACK(Current(c)))
      BY <1>1, <2>3, RequestFacts
    <3> QED BY <1>4, <2>1, <3>1 DEF StoredInv, FinAcknowledged
  <2> QED BY <1>3, <2>2, <2>3
<1>7. SessionAfter(c)
  BY <1>1 DEF SessionAfter
<1> QED BY <1>4, <1>5, <1>6, <1>7, Assemble

\* An ABR ends the upload of its client, which has nothing else under way.
LEMMA HandleABRStep ==
  ASSUME IInv, InOrder, OwnAddresses, TypeOK', NEW c \in Clients, NEW d,
         HandleABR(c, d), UNCHANGED clientVars
  PROVE  IInv'
<1>1. /\ ServerReads(c, d) /\ Reply(c, create_ACK(d)) /\ is_ABR(d) /\ srv = "recv"
      /\ IF SameHost(c)
           THEN /\ session' = NoSession
                /\ files' = [files EXCEPT ![session.file] = Aborted]
           ELSE UNCHANGED <<session, files>>
      /\ UNCHANGED <<srv, pending>>
  BY DEF HandleABR, ServerReceives
<1>2. /\ pos[c] \in Nat /\ sqn[c] \in Bit /\ LastPos(c) \in Nat
      /\ session # NoSession => session.addr \in Clients
      /\ files \in [FileNames -> Seq(Chunks) \cup {NoFile}]
  BY InvTypes, LastPosType DEF ServerTypeOK
<1>3. \A a \in {create_ACK(Current(c)), create_ACK(Previous(c))} : a # create_ACK(ABR)
  BY <1>2, Distinct
<1>4. d = ABR
  <2>1. pos[c] \in Int /\ pos[c] - 1 \in Int /\ Flip(sqn[c]) \in Bit
    BY <1>2 DEF Flip, Bit
  <2>2. ~is_ABR(Current(c)) /\ ~is_ABR(Previous(c))
    BY <1>2, <2>1, OutgoingFacts DEF Current, Previous
  <2>3. d \in {Current(c), Previous(c), ABR} /\ is_ABR(d)
    BY <1>1, RequestFacts
  <2> QED BY <2>2, <2>3
<1>5. create_ACK(ABR) \in Datagram /\ create_ACK(ABR) \in Answers(c)
  BY AckType, SignalTypes DEF Answers, Request
<1>6. /\ Alone(c) /\ SameUpload(c) /\ Link(c)' /\ Started(c)'
      /\ \A o \in Clients : Started(o) => Started(o)'
      /\ \A x : NoneOf(toClient[c], x) /\ create_ACK(ABR) # x => NoneOf(toClient'[c], x)
  BY <1>1, <1>3, <1>4, <1>5, ServerAnswers
<1>7. CASE session # NoSession /\ session.addr = c
  <2>1. session' = NoSession /\ files' = [files EXCEPT ![session.file] = Aborted]
    BY <1>1, <1>7 DEF SameHost
  <2>2. session.file = Name[c] /\ SessionInv(c)
    BY <1>7 DEF IInv, SessionInv
  <2>3. OwnFile(c)
    BY <1>1, <1>2, <2>1, <2>2, RequestFacts DEF OwnFile
  <2>4. /\ pos[c] # LastPos(c)
        /\ ~FinAcknowledged(c)
    BY <1>1, <1>7, SessionNotOver
  <2>5. ~FinAcknowledged(c)'
    <3>1. Current(c)' = Current(c) /\ LastPos(c)' = LastPos(c)
      BY <1>6 DEF Current, SameUpload, LastPos
    <3> QED BY <1>3, <1>6, <2>4, <3>1 DEF FinAcknowledged, SameUpload
  <2>6. StoredInv(c)' /\ SessionAfter(c)
    BY <2>1, <2>5 DEF StoredInv, SessionAfter
  <2> QED BY <1>6, <2>3, <2>6, Assemble
<1>8. CASE session = NoSession \/ session.addr # c
  <2>1. ~SameHost(c)
    BY <1>2, <1>8 DEF SameHost, OwnAddresses
  <2>2. UNCHANGED serverVars
    BY <1>1, <2>1 DEF serverVars
  <2>3. OwnFile(c) /\ files' = files
    BY <2>2 DEF OwnFile, serverVars
  <2>4. StoredInv(c)'
    BY <1>3, <1>6, <2>3, StoredKeeps
  <2>5. SessionAfter(c)
    BY <1>8, <2>2 DEF SessionAfter
  <2> QED BY <1>6, <2>3, <2>4, <2>5, Assemble
<1> QED BY <1>7, <1>8

\* A regular datagram of a client that is not served is answered with ABR.
LEMMA HandleForeignStep ==
  ASSUME IInv, InOrder, TypeOK', NEW c \in Clients, NEW d, HandleForeign(c, d),
         UNCHANGED clientVars
  PROVE  IInv'
<1>1. ServerReads(c, d) /\ Reply(c, ABR) /\ UNCHANGED serverVars
  BY DEF HandleForeign, ServerReceives
<1> QED BY <1>1, SignalAnswer

\* A regular datagram from the host of the client that is served is one of that
\* client's: the current one or the one before, told apart by the sequence bit.
LEMMA RegularFacts ==
  ASSUME IInv, InOrder, OwnAddresses, NEW c \in Clients, NEW d, ServerReads(c, d),
         IsRegular(d), SameHost(c)
  PROVE  /\ session # NoSession /\ session.addr = c
         /\ session.sqn \in Bit
         /\ IF get_SQN(d) = sqn[c] THEN d = Current(c) ELSE d = Previous(c)
         /\ create_ACK(d) \in Answers(c)
         /\ create_ACK(d) \in Datagram /\ create_ACK(d) # create_ACK(ABR)
         /\ create_ACK(Current(c)) # create_ACK(Previous(c))
         /\ create_ACK(d) = create_ACK(Previous(c)) =>
              NoneOf(toClient[c], create_ACK(Current(c)))
         /\ create_ACK(d) = create_ACK(Current(c)) => NoneOf(toServer'[c], Previous(c))
<1>1. session # NoSession /\ session.addr = c /\ session.sqn \in Bit
  BY InvTypes DEF SameHost, OwnAddresses, Session
<1>2. pos[c] \in Nat /\ sqn[c] \in Bit
  BY InvTypes
<1>3. d \in {Current(c), Previous(c)}
  BY SignalFacts, RequestFacts DEF IsRegular
<1>4. /\ get_SQN(Current(c)) = sqn[c] /\ get_SQN(Previous(c)) # sqn[c]
      /\ create_ACK(Current(c)) # create_ACK(Previous(c))
      /\ \A a \in {create_ACK(Current(c)), create_ACK(Previous(c))} :
           a # create_ACK(ABR) /\ a \in Datagram
  BY <1>2, Distinct
<1>5. IF get_SQN(d) = sqn[c] THEN d = Current(c) ELSE d = Previous(c)
  BY <1>3, <1>4
<1>6. create_ACK(d) \in Answers(c)
  BY <1>3, RequestFacts DEF Answers
<1> QED BY <1>1, <1>3, <1>4, <1>5, <1>6, RequestFacts

\* A datagram of the upload that was handled already is acknowledged again.
LEMMA HandleDuplicateStep ==
  ASSUME IInv, InOrder, OwnAddresses, TypeOK', NEW c \in Clients, NEW d,
         HandleDuplicate(c, d), UNCHANGED clientVars
  PROVE  IInv'
<1>1. /\ ServerReads(c, d) /\ IsRegular(d) /\ SameHost(c)
      /\ get_SQN(d) # session.sqn /\ srv = "recv"
      /\ Reply(session.addr, create_ACK(d)) /\ UNCHANGED serverVars
  BY DEF HandleDuplicate, ServerReceives
<1>2. /\ session # NoSession /\ session.addr = c /\ session.sqn \in Bit
      /\ IF get_SQN(d) = sqn[c] THEN d = Current(c) ELSE d = Previous(c)
      /\ create_ACK(d) \in Answers(c)
      /\ create_ACK(d) \in Datagram /\ create_ACK(d) # create_ACK(ABR)
      /\ create_ACK(Current(c)) # create_ACK(Previous(c))
      /\ create_ACK(d) = create_ACK(Previous(c)) =>
           NoneOf(toClient[c], create_ACK(Current(c)))
      /\ create_ACK(d) = create_ACK(Current(c)) => NoneOf(toServer'[c], Previous(c))
  BY <1>1, RegularFacts
<1>3. /\ Alone(c) /\ SameUpload(c) /\ Link(c)' /\ Started(c)'
      /\ \A o \in Clients : Started(o) => Started(o)'
      /\ \A x : NoneOf(toClient[c], x) /\ create_ACK(d) # x => NoneOf(toClient'[c], x)
  BY <1>1, <1>2, ServerAnswers
<1>4. OwnFile(c) /\ files' = files
  BY <1>1 DEF OwnFile, serverVars
<1>5. session.sqn = sqn[c] => d = Previous(c)
  BY <1>1, <1>2
<1>6. /\ pos[c] # LastPos(c)
      /\ session.sqn # sqn[c] => pos[c] + 1 # LastPos(c)
      /\ ~FinAcknowledged(c)
  BY <1>1, <1>2, SessionNotOver
<1>7. StoredInv(c)'
  <2>1. Current(c)' = Current(c) /\ LastPos(c)' = LastPos(c)
    BY <1>3 DEF Current, SameUpload, LastPos
  <2>2. ~FinAcknowledged(c)'
    BY <1>2, <1>3, <1>5, <1>6, <2>1 DEF FinAcknowledged, SameUpload
  <2> QED BY <2>2 DEF StoredInv
<1>8. SessionAfter(c)
  <2>1. NoneOf(toServer[c], Previous(c)) => NoneOf(toServer'[c], Previous(c))
    BY <1>1, RequestFacts DEF Keeps
  <2>2. session.sqn = sqn[c] /\ NoneOf(toClient[c], create_ACK(Current(c))) =>
          NoneOf(toClient'[c], create_ACK(Current(c)))
    BY <1>2, <1>3, <1>5
  <2>3. NoneOf(toClient[c], create_ACK(ABR)) => NoneOf(toClient'[c], create_ACK(ABR))
    BY <1>2, <1>3
  <2> QED BY <1>1, <1>2, <1>3, <2>1, <2>2, <2>3, SessionKeeps
<1> QED BY <1>3, <1>4, <1>7, <1>8, Assemble

\* The datagram in turn is the current one of the client that is served: the server
\* is now as far as the client has sent.
LEMMA AcknowledgeStep ==
  ASSUME IInv, InOrder, OwnAddresses, TypeOK', NEW c \in Clients, NEW d,
         Acknowledge(c, d), UNCHANGED clientVars
  PROVE  IInv'
<1>1. /\ ServerReads(c, d) /\ IsRegular(d) /\ SameHost(c)
      /\ get_SQN(d) = session.sqn /\ srv = "recv"
      /\ Reply(session.addr, create_ACK(d))
      /\ session' = [session EXCEPT !.sqn = Flip(@)]
      /\ pending' = d /\ srv' = "handle" /\ files' = files
  BY DEF Acknowledge, ServerReceives
<1>2. /\ session # NoSession /\ session.addr = c /\ session.sqn \in Bit
      /\ IF get_SQN(d) = sqn[c] THEN d = Current(c) ELSE d = Previous(c)
      /\ create_ACK(d) \in Answers(c)
      /\ create_ACK(d) \in Datagram /\ create_ACK(d) # create_ACK(ABR)
      /\ create_ACK(Current(c)) # create_ACK(Previous(c))
      /\ create_ACK(d) = create_ACK(Previous(c)) =>
           NoneOf(toClient[c], create_ACK(Current(c)))
      /\ create_ACK(d) = create_ACK(Current(c)) => NoneOf(toServer'[c], Previous(c))
  BY <1>1, RegularFacts
<1>3. /\ Alone(c) /\ SameUpload(c) /\ Link(c)' /\ Started(c)'
      /\ \A x : NoneOf(toClient[c], x) /\ create_ACK(d) # x => NoneOf(toClient'[c], x)
  BY <1>1, <1>2, ServerAnswers
<1>4. OwnFile(c)
  BY <1>1 DEF OwnFile
<1>5. SessionInv(c)
  BY <1>2 DEF IInv
<1>6. session.sqn = sqn[c] /\ d = Current(c)
  <2>1. CASE get_SQN(d) = sqn[c]
    BY <1>1, <1>2, <2>1
  <2>2. CASE get_SQN(d) # sqn[c]
    <3>1. NoneOf(toServer[c], Previous(c))
      BY <1>1, <1>5, <2>2 DEF SessionInv
    <3>2. ~NoneOf(toServer[c], d)
      BY <1>1, InvTypes, ServerReadsFacts
    <3> QED BY <1>2, <2>2, <3>1, <3>2
  <2> QED BY <2>1, <2>2
<1>7. /\ pos[c] \in Nat /\ sqn[c] \in Bit /\ Len(File[c]) \in Nat
      /\ LastPos(c) = Len(File[c]) + 2 /\ File[c] \in Seq(Chunks)
      /\ session \in Session
  BY <1>2, InvTypes
<1>8. /\ pos[c] >= 1 /\ pos[c] - 1 <= Len(File[c])
      /\ Holds(c, pos[c] - 1)
  BY <1>1, <1>5, <1>6 DEF SessionInv, Acknowledged
<1>9. /\ session' \in Session /\ session' # NoSession /\ session'.addr = c
      /\ session'.sqn = Flip(sqn[c])
      /\ session'.file = session.file /\ session'.good = session.good
      /\ session'.written = session.written
      /\ Flip(sqn[c]) # sqn[c] /\ Flip(Flip(sqn[c])) = sqn[c]
  <2>1. Flip(sqn[c]) \in Bit /\ Flip(sqn[c]) # sqn[c] /\ Flip(Flip(sqn[c])) = sqn[c]
    BY <1>7 DEF Flip, Bit
  <2>2. session' \in Session
    BY <1>1, <1>6, <1>7, <2>1 DEF Session
  <2> QED BY <1>1, <1>2, <1>6, <1>7, <2>1, <2>2, NoValueAssumption DEF Session
<1>10. /\ Current(c)' = Current(c) /\ Previous(c)' = Previous(c)
       /\ pos'[c] = pos[c] /\ sqn'[c] = sqn[c]
  BY <1>3 DEF Current, Previous, SameUpload
<1>11. Acknowledged(c)' = pos[c]
  BY <1>9, <1>10 DEF Acknowledged
<1>12. SessionInv(c)'
  <2>1. /\ session'.file = Name[c] /\ pc'[c] # "start"
        /\ DiskWorks => session'.good
        /\ session'.written \/ files'[Name[c]] = <<>>
        /\ DiskWorks /\ session'.written => files'[Name[c]] # <<>>
    BY <1>1, <1>3, <1>5, <1>9 DEF SessionInv, Started
  <2>2. NoneOf(toServer'[c], Previous(c)') /\ session'.sqn # sqn'[c]
    BY <1>2, <1>6, <1>9, <1>10
  <2>3. NoneOf(toClient'[c], create_ACK(ABR))
    BY <1>2, <1>3, <1>5 DEF SessionInv
  <2>4. /\ 1 <= pos[c] /\ pos[c] <= Len(File[c]) + 1
        /\ pending' = Outgoing(c, pos[c], Flip(session'.sqn))
    BY <1>1, <1>6, <1>7, <1>8, <1>9 DEF Current
  <2>6. IF session'.good
          THEN files'[Name[c]] = SubSeq(File[c], 1, pos[c] - 1)
          ELSE \E k \in 0..pos[c] - 1 : files'[Name[c]] = SubSeq(File[c], 1, k)
    BY <1>1, <1>8, <1>9 DEF Holds
  <2>5. srv' = "handle"
    BY <1>1
  <2> QED BY <1>11, <2>1, <2>2, <2>3, <2>4, <2>5, <2>6 DEF SessionInv, Holds
<1>13. StoredInv(c)'
  <2>1. FinAcknowledged(c)' => pos[c] = Len(File[c]) + 1
    BY <1>7, <1>8, <1>10 DEF FinAcknowledged, LastPos
  <2>2. DiskWorks /\ pos[c] = Len(File[c]) + 1 => Stored(c)'
    <3>1. pos[c] = Len(File[c]) + 1 => pos[c] - 1 = Len(File[c])
      BY <1>7
    <3>2. SubSeq(File[c], 1, Len(File[c])) = File[c]
      BY <1>7
    <3>3. DiskWorks => files[Name[c]] = SubSeq(File[c], 1, pos[c] - 1)
      BY <1>5, <1>8 DEF SessionInv, Holds
    <3> QED BY <1>1, <3>1, <3>2, <3>3 DEF Stored
  <2> QED BY <2>1, <2>2 DEF StoredInv
<1>14. SessionAfter(c)
  BY <1>1, <1>9, <1>12 DEF SessionAfter, Running
<1> QED BY <1>3, <1>4, <1>13, <1>14, Assemble

\* A corrupt datagram: AGN, or the end of the process.
LEMMA HandleCorruptStep ==
  ASSUME IInv, InOrder, TypeOK', NEW c \in Clients, NEW d, HandleCorrupt(c, d),
         UNCHANGED clientVars
  PROVE  IInv'
<1>1. ServerReads(c, d) /\ UNCHANGED <<pending, files>>
  BY DEF HandleCorrupt, ServerReceives
<1>2. CASE session # NoSession /\ Reply(c, AGN(session.sqn)) /\ UNCHANGED <<srv, session>>
  <2>1. session.sqn \in Bit
    BY <1>2, InvTypes DEF Session
  <2>2. AGN(session.sqn) \in {ABR, AGN(0), AGN(1)}
    BY <2>1 DEF Bit
  <2>3. UNCHANGED serverVars
    BY <1>1, <1>2 DEF serverVars
  <2> QED BY <1>1, <1>2, <2>2, <2>3, SignalAnswer
<1>3. CASE session' = NoSession /\ UNCHANGED toClient
  <2>1. \A o \in Clients : Keeps(toServer[o], toServer'[o])
    <3>1. Keeps(toServer[c], toServer'[c])
          /\ \A o \in Clients \ {c} : toServer'[o] = toServer[o]
      BY <1>1, RequestFacts
    <3> QED BY <3>1, EmptyQueue
  <2>2. \A o \in Clients : Keeps(toClient[o], toClient'[o])
    BY <1>3, EmptyQueue
  <2> QED BY <1>1, <1>3, <2>1, <2>2, FreedSilently
<1> QED BY <1>2, <1>3 DEF HandleCorrupt

-----------------------------------------------------------------------------
(***************************************************************************)
(* handle_valid_datagram, time, and the process.                           *)
(***************************************************************************)
\* What the server handles: a chunk in turn, or the FIN behind all of them.
LEMMA PendingFacts ==
  ASSUME IInv, srv = "handle"
  PROVE  /\ session # NoSession /\ session \in Session
         /\ session.addr \in Clients /\ SessionInv(session.addr)
         /\ "FIN" \notin pending.flags =>
              LET c == session.addr
                  k == Acknowledged(c)
              IN  /\ k \in 1..Len(File[c])
                  /\ pending.flags \ {"SQN"} = {}
                  /\ pending.payload = File[c][k]
                  /\ Holds(c, k - 1)
<1>1. session # NoSession /\ session \in Session /\ session.addr \in Clients
  BY InvTypes DEF ServerTypeOK
<1>2. SessionInv(session.addr)
  BY <1>1 DEF IInv
<1> DEFINE c == session.addr
           k == Acknowledged(c)
<1>3. pos[c] \in Nat /\ Len(File[c]) \in Nat /\ session.sqn \in Bit
  BY <1>1, InvTypes DEF Session
<1>4. k \in Int /\ Flip(session.sqn) \in Bit
  BY <1>3 DEF Acknowledged, Flip, Bit
<1>5. /\ 1 <= k
      /\ pending = Outgoing(c, k, Flip(session.sqn))
      /\ Holds(c, k - 1)
  BY <1>2 DEF SessionInv
<1> HIDE DEF k
<1>6. "FIN" \in pending.flags <=> k \notin 0..Len(File[c])
  BY <1>1, <1>4, <1>5, OutgoingFacts
<1>7. "FIN" \notin pending.flags => k \in 1..Len(File[c])
  BY <1>3, <1>4, <1>5, <1>6
<1>8. k \in 1..Len(File[c]) => /\ pending.flags \ {"SQN"} = {}
                               /\ pending.payload = File[c][k]
  BY <1>1, <1>4, <1>5, OutgoingFacts
<1> QED BY <1>1, <1>2, <1>5, <1>7, <1>8 DEF k

\* The FIN ends the session.
LEMMA FinishUploadStep ==
  ASSUME IInv, TypeOK', FinishUpload, UNCHANGED clientVars
  PROVE  IInv'
BY FreedSilently, EmptyQueue DEF FinishUpload, netVars

\* Writing changes the file of the session only, and that only by the payload.
LEMMA WriteBytesFacts ==
  ASSUME IInv, WriteBytes
  PROVE  /\ session # NoSession /\ session \in Session
         /\ srv = "handle" /\ "FIN" \notin pending.flags
         /\ session.addr \in Clients
         /\ session' # NoSession /\ session'.addr = session.addr
         /\ session'.sqn = session.sqn /\ session'.file = session.file
         /\ session'.written = TRUE
         /\ \/ /\ session'.good = TRUE /\ session.good = TRUE
               /\ files' = [files EXCEPT ![session.file] =
                                          Append(@, pending.payload)]
            \/ /\ session'.good = FALSE /\ files' = files
               /\ DiskWorks => session.good = FALSE
<1>1. /\ session # NoSession /\ session \in Session
      /\ srv = "handle" /\ "FIN" \notin pending.flags
      /\ session.addr \in Clients /\ pending.flags \ {"SQN"} = {}
  BY PendingFacts DEF WriteBytes
<1> DEFINE t == IF session.since = 2 THEN JustLogged ELSE session.since
<1>2. t \in SinceLog
  BY <1>1 DEF Session, SinceLog, JustLogged
<1>3. PICK good \in {session.good}
                    \cup (IF "disk" \in Faults THEN {FALSE} ELSE {}) :
        /\ session' = [session EXCEPT !.good = good, !.written = TRUE, !.since = t]
        /\ files' = IF good THEN [files EXCEPT ![session.file] =
                                                 Append(@, pending.payload)]
                            ELSE files
  BY <1>1 DEF WriteBytes
<1> HIDE DEF t
<1>4. session.good \in BOOLEAN /\ good \in BOOLEAN
  BY <1>1, <1>3 DEF Session
<1>5. session' \in Session
  BY <1>1, <1>2, <1>3, <1>4 DEF Session
<1>6. /\ session'.addr = session.addr
      /\ session'.sqn = session.sqn /\ session'.file = session.file
      /\ session'.good = good /\ session'.written = TRUE
  BY <1>1, <1>3 DEF Session
<1>7. session' # NoSession
  BY <1>5, NoValueAssumption
<1>8. CASE good = TRUE
  BY <1>1, <1>3, <1>6, <1>7, <1>8
<1>9. CASE good = FALSE
  BY <1>1, <1>3, <1>6, <1>7, <1>9 DEF DiskWorks
<1> QED BY <1>4, <1>8, <1>9

\* A chunk in turn goes behind those that are written already, or is lost to a
\* file stream that fails.
LEMMA WriteBytesStep ==
  ASSUME IInv, TypeOK', WriteBytes, UNCHANGED clientVars
  PROVE  IInv'
<1>1. /\ session # NoSession /\ session \in Session
      /\ srv = "handle" /\ "FIN" \notin pending.flags
      /\ session.addr \in Clients
  BY WriteBytesFacts
<1>2. PICK c \in Clients : session.addr = c
  BY <1>1
<1>3. PICK k \in 1..Len(File[c]) :
        /\ Acknowledged(c) = k
        /\ pending.payload = File[c][k]
        /\ Holds(c, k - 1)
        /\ SessionInv(c)
  BY <1>1, <1>2, PendingFacts
<1>4. /\ session.file = Name[c] /\ pc[c] # "start"
      /\ DiskWorks => session.good = TRUE
  BY <1>1, <1>3 DEF SessionInv, Session
<1>5. \/ /\ session'.good = TRUE /\ session.good = TRUE
         /\ files' = [files EXCEPT ![Name[c]] = Append(@, pending.payload)]
      \/ session'.good = FALSE /\ files' = files /\ ~DiskWorks
  BY <1>4, WriteBytesFacts
<1>6. /\ srv' = "recv"
      /\ toServer' = toServer /\ toClient' = toClient
      /\ pc' = pc /\ pos' = pos /\ sqn' = sqn
  BY DEF WriteBytes, netVars, clientVars
<1>7. /\ File[c] \in Seq(Chunks) /\ Name[c] \in FileNames /\ Len(File[c]) \in Nat
      /\ pos[c] \in Nat
      /\ files \in [FileNames -> Seq(Chunks) \cup {NoFile}]
  BY InvTypes DEF ServerTypeOK
<1>8. /\ session' # NoSession /\ session'.addr = session.addr
      /\ session'.sqn = session.sqn /\ session'.file = session.file
      /\ session'.written = TRUE
  BY WriteBytesFacts
<1>9. Holds(c, k)'
  <2>1. CASE session'.good = TRUE
    <3>1. /\ files[Name[c]] = SubSeq(File[c], 1, k - 1)
          /\ files' = [files EXCEPT ![Name[c]] = Append(@, pending.payload)]
      BY <1>3, <1>5, <2>1 DEF Holds
    <3>2. files'[Name[c]] = Append(SubSeq(File[c], 1, k - 1), File[c][k])
      BY <1>3, <1>7, <3>1
    <3>3. Append(SubSeq(File[c], 1, k - 1), File[c][k]) = SubSeq(File[c], 1, k)
      BY <1>7
    <3> QED BY <2>1, <3>2, <3>3 DEF Holds
  <2>2. CASE session'.good = FALSE
    <3>1. \E n \in 0..k - 1 : files[Name[c]] = SubSeq(File[c], 1, n)
      BY <1>3, <1>7 DEF Holds
    <3>2. \E n \in 0..k : files'[Name[c]] = SubSeq(File[c], 1, n)
      BY <1>5, <1>7, <2>2, <3>1
    <3> QED BY <2>2, <3>2 DEF Holds
  <2> QED BY <1>5, <2>1, <2>2
<1>10. /\ Acknowledged(c)' = k
       /\ Current(c)' = Current(c) /\ Previous(c)' = Previous(c)
  BY <1>3, <1>6, <1>8 DEF Acknowledged, Current, Previous
<1>11. Alone(c) /\ SameUpload(c) /\ Started(c) /\ Started(c)'
  BY <1>4, <1>6 DEF Alone, SameUpload, Started
<1>12. Link(c)'
  <2>1. Link(c)
    BY DEF IInv, Link
  <2> QED BY <1>6, <1>11, <2>1, LinkKeeps, EmptyQueue
<1>13. OwnFile(c)
  BY <1>4, <1>5, <1>7, <1>11 DEF OwnFile
<1>14. StoredInv(c)'
  <2>1. Acknowledged(c) <= Len(File[c])
    BY <1>3, <1>7
  <2>2. ~FinAcknowledged(c)
    BY <1>3, <2>1, NotOver
  <2>3. ~FinAcknowledged(c)'
    BY <1>6, <1>10, <2>2 DEF FinAcknowledged, LastPos
  <2> QED BY <2>3 DEF StoredInv
<1>15. SessionInv(c)'
  <2>1. k <= Len(File[c])
    BY <1>7
  <2>2. /\ IF session.sqn = sqn[c]
             THEN pos[c] >= 1 /\ NoneOf(toClient[c], create_ACK(Current(c)))
             ELSE NoneOf(toServer[c], Previous(c))
        /\ NoneOf(toClient[c], create_ACK(ABR))
    BY <1>3 DEF SessionInv
  <2>3. DiskWorks => session'.good
    BY <1>5
  <2>4. DiskWorks => files'[Name[c]] # <<>>
    <3>1. files[Name[c]] \in Seq(Chunks)
      BY <1>1, <1>4, <1>7, InvTypes DEF ServerTypeOK
    <3>2. Append(files[Name[c]], pending.payload) # <<>>
      BY <3>1
    <3> QED BY <1>5, <1>7, <3>2
  <2> QED BY <1>4, <1>6, <1>8, <1>9, <1>10, <2>1, <2>2, <2>3, <2>4 DEF SessionInv
<1>16. SessionAfter(c)
  BY <1>2, <1>6, <1>8, <1>15 DEF SessionAfter, Running
<1> QED BY <1>11, <1>12, <1>13, <1>14, <1>16, Assemble

\* Time matters to the log only.
LEMMA TickStep ==
  ASSUME IInv, TypeOK', Tick, UNCHANGED clientVars
  PROVE  IInv'
<1>1. /\ session # NoSession /\ session \in Session /\ session.addr \in Clients
      /\ SessionInv(session.addr) /\ srv \in Running
  BY InvTypes DEF Tick, IInv
<1>2. PICK c \in Clients : session.addr = c /\ SessionInv(c)
  BY <1>1
<1>3. /\ srv' = srv /\ pending' = pending /\ files' = files
      /\ toServer' = toServer /\ toClient' = toClient
      /\ pc' = pc /\ pos' = pos /\ sqn' = sqn
      /\ session' = [session EXCEPT !.since = @ + 1] /\ session.since < 2
  BY DEF Tick, netVars, clientVars
<1>4. /\ session' # NoSession /\ session'.addr = session.addr
      /\ session'.sqn = session.sqn /\ session'.file = session.file
      /\ session'.good = session.good /\ session'.written = session.written
  <2>1. session' \in Session
    BY <1>1, <1>3 DEF Session, SinceLog
  <2> QED BY <1>1, <1>3, <2>1, NoValueAssumption DEF Session
<1>5. /\ Acknowledged(c)' = Acknowledged(c)
      /\ Current(c)' = Current(c) /\ Previous(c)' = Previous(c)
  BY <1>3, <1>4 DEF Acknowledged, Current, Previous
<1>6. SessionInv(c)'
  BY <1>2, <1>3, <1>4, <1>5 DEF SessionInv, Holds
<1>7. /\ Alone(c) /\ SameUpload(c) /\ OwnFile(c) /\ (Started(c) => Started(c)')
      /\ \A o \in Clients : Started(o) => Started(o)'
  BY <1>3 DEF Alone, SameUpload, OwnFile, Started
<1>8. Link(c)'
  <2>1. Link(c)
    BY DEF IInv, Link
  <2> QED BY <1>3, <1>7, <2>1, LinkKeeps, EmptyQueue
<1>9. StoredInv(c)'
  BY <1>3, <1>7, StoredKeeps
<1>10. SessionAfter(c)
  BY <1>1, <1>2, <1>3, <1>4, <1>6 DEF SessionAfter
<1> QED BY <1>7, <1>8, <1>9, <1>10, Assemble

\* CTRL+C: the client that is served is told.
LEMMA ServerInterruptedStep ==
  ASSUME IInv, TypeOK', ServerInterrupted, UNCHANGED clientVars
  PROVE  IInv'
<1>1. session' = NoSession /\ files' = files /\ toServer' = toServer
      /\ IF session # NoSession THEN Reply(session.addr, ABR) ELSE toClient' = toClient
  BY DEF ServerInterrupted
<1>2. CASE session = NoSession
  BY <1>1, <1>2, FreedSilently, EmptyQueue
<1>3. CASE session # NoSession
  <2>1. session.addr \in Clients /\ NetTypeOK /\ ClientTypeOK
    BY <1>3, InvTypes
  <2>0. PICK c \in Clients : session.addr = c
    BY <2>1
  <2>2. /\ toClient'[c] = Enqueue(toClient[c], ABR)
        /\ \A o \in Clients \ {c} : toClient'[o] = toClient[o]
    BY <1>1, <1>3, <2>0, <2>1 DEF Reply, NetTypeOK
  <2>3. pc' = pc /\ pos' = pos /\ sqn' = sqn
    BY DEF clientVars
  <2>4. ABR \in Datagram /\ ABR \in Answers(c)
        /\ ABR \notin {create_ACK(Current(c)), create_ACK(Previous(c)), create_ACK(ABR)}
    <3>1. pos[c] \in Nat /\ sqn[c] \in Bit
      BY <2>1, InvTypes
    <3> QED BY <2>1, <3>1, SignalTypes, Distinct DEF Answers, Request
  <2>5. ASSUME NEW o \in Clients
        PROVE  /\ Link(o)'
               /\ NoneOf(toClient[o], create_ACK(Current(o))) =>
                    NoneOf(toClient'[o], create_ACK(Current(o)))
    <3>1. Link(o) /\ SameUpload(o) /\ Keeps(toServer[o], toServer'[o])
          /\ pc'[o] = pc[o]
      BY <1>1, <2>3, EmptyQueue DEF IInv, Link, SameUpload
    <3>2. CASE o = c
      <4>1. Link(c)'
        BY <2>1, <2>2, <2>4, <3>1, <3>2, LinkAnswered
      <4>2. toClient[c] \in Seq(Datagram)
        BY <2>1 DEF NetTypeOK
      <4>3. \A x : NoneOf(toClient[c], x) /\ ABR # x => NoneOf(toClient'[c], x)
        BY <2>2, <2>4, <4>2, EnqueueKeeps
      <4> QED BY <2>4, <3>2, <4>1, <4>3
    <3>3. CASE o # c
      <4>1. toClient'[o] = toClient[o]
        BY <2>2, <3>3
      <4>2. Keeps(toClient[o], toClient'[o])
        BY <4>1, EmptyQueue
      <4> QED BY <3>1, <4>1, <4>2, LinkKeeps
    <3> QED BY <3>2, <3>3
  <2> QED BY <1>1, <2>5, Freed
<1> QED BY <1>2, <1>3

\* A server that starts knows of no session.
LEMMA ServerStartStep ==
  ASSUME IInv, TypeOK', ServerStart, UNCHANGED clientVars
  PROVE  IInv'
BY FreedSilently, EmptyQueue DEF ServerStart, netVars

\* What is sent to a server that is down is dropped.
LEMMA DropUndeliverableStep ==
  ASSUME IInv, TypeOK', NEW c \in Clients, DropUndeliverable(c), UNCHANGED clientVars
  PROVE  IInv'
<1>1. /\ toServer' = [toServer EXCEPT ![c] = <<>>] /\ toClient' = toClient
      /\ session' = session /\ files' = files /\ srv \in Down
  BY DEF DropUndeliverable, serverVars
<1>2. session' = NoSession
  BY <1>1 DEF IInv, Running, Down
<1>3. \A o \in Clients : Keeps(toServer[o], toServer'[o])
  BY <1>1, InvTypes, EmptyQueue DEF NetTypeOK
<1>4. \A o \in Clients : Keeps(toClient[o], toClient'[o])
  BY <1>1, EmptyQueue
<1> QED BY <1>1, <1>2, <1>3, <1>4, FreedSilently

\* Every step of the server.
LEMMA ServerStep ==
  ASSUME IInv, InOrder, OwnAddresses, TypeOK', ServerNext, UNCHANGED clientVars
  PROVE  IInv'
<1>1. ASSUME NEW c \in Clients, NEW d, HandleIntact(c, d)
      PROVE  IInv'
  BY <1>1, DenySYNStep, AcceptSYNStep, HandleABRStep, HandleForeignStep,
     HandleDuplicateStep, AcknowledgeStep DEF HandleIntact
<1>2. ASSUME NEW c \in Clients, NEW d, HandleCorrupt(c, d)
      PROVE  IInv'
  BY <1>2, HandleCorruptStep
<1>3. ASSUME NEW c \in Clients, NEW d, FailToOpen(c, d)
      PROVE  IInv'
  BY <1>3, FailToOpenStep
<1>4. ASSUME NEW c \in Clients, NEW d, InterruptedReplacing(c, d)
      PROVE  IInv'
  BY <1>4, InterruptedReplacingStep
<1>5. ASSUME HandlePending
      PROVE  IInv'
  BY <1>5, FinishUploadStep, WriteBytesStep DEF HandlePending
<1>6. ASSUME NEW c \in Clients, DropUndeliverable(c)
      PROVE  IInv'
  BY <1>6, DropUndeliverableStep
<1> QED BY <1>1, <1>2, <1>3, <1>4, <1>5, <1>6, TickStep, ServerInterruptedStep,
           ServerStartStep DEF ServerNext

=============================================================================
