----------------------------- MODULE BftProofs -----------------------------
(***************************************************************************)
(* Safety of Bft for any number of clients, files and queue lengths: over  *)
(* an ordered path, with a working disk and clients on hosts of their own, *)
(* IInv is an invariant, and the safety properties follow from it.         *)
(***************************************************************************)
EXTENDS BftServerSteps

(***************************************************************************)
(* Steps of a client, and of the path, that leave its upload where it is.  *)
(***************************************************************************)
\* Nobody else is concerned, and answers may only get read or lost.
LEMMA QuietStep ==
  ASSUME IInv, TypeOK', NEW c \in Clients, UNCHANGED serverVars,
         Alone(c), SameUpload(c), Link(c)', Started(c) => Started(c)',
         NoneOf(toServer[c], Previous(c)) => NoneOf(toServer'[c], Previous(c)),
         Keeps(toClient[c], toClient'[c])
  PROVE  IInv'
<1>1. OwnFile(c) /\ files' = files
  BY DEF OwnFile, serverVars
<1>2. \A o \in Clients : Started(o) => Started(o)'
  BY DEF Alone, Started
<1>3. \A x : NoneOf(toClient[c], x) => NoneOf(toClient'[c], x)
  BY DEF Keeps
<1>4. StoredInv(c)'
  BY <1>1, <1>2, <1>3, StoredKeeps
<1>5. CASE session # NoSession /\ session.addr = c
  <2>1. Started(c)'
    BY <1>5 DEF IInv, SessionInv, Started
  <2>2. SessionAfter(c)
    BY <1>3, <1>5, <2>1, SessionKeeps
  <2> QED BY <1>1, <1>4, <2>2, Assemble
<1>6. CASE session = NoSession \/ session.addr # c
  <2>1. SessionAfter(c)
    BY <1>6 DEF SessionAfter
  <2> QED BY <1>1, <1>4, <2>1, Assemble
<1> QED BY <1>5, <1>6

\* The client reads at most one answer.
Hears(c) == toClient' = toClient \/ \E d : ClientReads(c, d)

\* What hearing leaves of the answers.
LEMMA HearsFacts ==
  ASSUME InOrder, NetTypeOK, NEW c \in Clients, Hears(c)
  PROVE  /\ Keeps(toClient[c], toClient'[c])
         /\ \A o \in Clients \ {c} : toClient'[o] = toClient[o]
<1>1. CASE toClient' = toClient
  BY <1>1, EmptyQueue
<1>2. ASSUME NEW d, ClientReads(c, d)
      PROVE  /\ Keeps(toClient[c], toClient'[c])
             /\ \A o \in Clients \ {c} : toClient'[o] = toClient[o]
  BY <1>2, ClientReadsFacts
<1> QED BY <1>1, <1>2 DEF Hears

\* The client sends its datagram, or ABR, once more.
LEMMA SendStep ==
  ASSUME IInv, InOrder, TypeOK', NEW c \in Clients, UNCHANGED serverVars,
         Hears(c), pos' = pos, sqn' = sqn,
         \A o \in Clients \ {c} : pc'[o] = pc[o],
         NEW d \in {Current(c), ABR}, Transmit(c, d),
         IF d = ABR THEN /\ pc'[c] \in InHandler
                         /\ pc[c] \in {"start", "wait"} \cup InHandler
                    ELSE pc'[c] = "wait" /\ pc[c] \in {"start", "wait"}
  PROVE  IInv'
<1>1. NetTypeOK /\ ClientTypeOK /\ pos[c] \in Nat /\ sqn[c] \in Bit
      /\ toServer[c] \in Seq(Request)
  BY InvTypes
<1>2. /\ toServer'[c] = Enqueue(toServer[c], d)
      /\ \A o \in Clients \ {c} : toServer'[o] = toServer[o]
  BY <1>1 DEF Transmit, NetTypeOK
<1>3. /\ Keeps(toClient[c], toClient'[c])
      /\ \A o \in Clients \ {c} : toClient'[o] = toClient[o]
  BY <1>1, HearsFacts
<1>4. Alone(c) /\ SameUpload(c) /\ Started(c)'
  BY <1>2, <1>3 DEF Alone, SameUpload, Started, InHandler
<1>5. Link(c)'
  <2>1. Link(c)
    BY DEF IInv, Link
  <2> QED BY <1>1, <1>2, <1>3, <1>4, <2>1, LinkSent
<1>6. NoneOf(toServer[c], Previous(c)) => NoneOf(toServer'[c], Previous(c))
  <2>1. d # Previous(c)
    BY <1>1, Distinct
  <2>2. d \in Request
    <3>1. pos[c] \in Int
      BY <1>1
    <3>2. Current(c) \in Request
      BY <1>1, <3>1, OutgoingFacts DEF Current
    <3> QED BY <3>2, SignalTypes
  <2> QED BY <1>1, <1>2, <2>1, <2>2, EnqueueKeeps
<1> QED BY <1>3, <1>4, <1>5, <1>6, QuietStep

\* The client ends, without having been acknowledged to the end.
LEMMA EndStep ==
  ASSUME IInv, InOrder, TypeOK', NEW c \in Clients, UNCHANGED serverVars,
         Hears(c), toServer' = toServer, pos' = pos, sqn' = sqn,
         NEW p \in {"denied", "gaveup", "killed", "crashed"},
         pc' = [pc EXCEPT ![c] = p],
         pc[c] \in {"wait"} \cup InHandler,
         pc[c] \in InHandler => p \in Aborting
  PROVE  IInv'
<1>1. NetTypeOK /\ ClientTypeOK
  BY InvTypes
<1>2. pc'[c] = p /\ \A o \in Clients \ {c} : pc'[o] = pc[o]
  BY <1>1 DEF ClientTypeOK
<1>3. /\ Keeps(toClient[c], toClient'[c])
      /\ \A o \in Clients \ {c} : toClient'[o] = toClient[o]
      /\ Keeps(toServer[c], toServer'[c])
  BY <1>1, HearsFacts, EmptyQueue
<1>4. Alone(c) /\ SameUpload(c) /\ Started(c)'
  BY <1>2, <1>3 DEF Alone, SameUpload, Started
<1>5. Link(c)'
  <2>1. Link(c)
    BY DEF IInv, Link
  <2>2. /\ pc'[c] # "done" /\ pc[c] # "done" /\ pc'[c] # "start"
        /\ pc[c] \in Aborting => pc'[c] \in Aborting
    BY <1>2 DEF Aborting, InHandler
  <2> QED BY <1>3, <1>4, <2>1, <2>2, LinkKeeps
<1> QED BY <1>3, <1>4, <1>5, QuietStep

\* A datagram or an answer is lost.
LEMMA LossStep ==
  ASSUME IInv, InOrder, TypeOK', NEW c \in Clients,
         LoseToServer(c) \/ LoseToClient(c),
         UNCHANGED serverVars, UNCHANGED clientVars
  PROVE  IInv'
<1>1. /\ NetTypeOK /\ toServer[c] \in Seq(Request) /\ toClient[c] \in Seq(Datagram)
  BY InvTypes
<1>2. pc' = pc /\ pos' = pos /\ sqn' = sqn
  BY DEF clientVars
<1>3. /\ Keeps(toServer[c], toServer'[c]) /\ Keeps(toClient[c], toClient'[c])
      /\ \A o \in Clients \ {c} : toServer'[o] = toServer[o] /\ toClient'[o] = toClient[o]
  <2>1. CASE LoseToServer(c)
    <3>1. PICK i \in Positions(toServer[c]) :
            toServer' = [toServer EXCEPT ![c] = RemoveAt(@, i)]
      BY <2>1 DEF LoseToServer
    <3>2. RemoveAt(toServer[c], i) \in Remaining(toServer[c], i)
      BY DEF Remaining
    <3>3. Keeps(toServer[c], RemoveAt(toServer[c], i))
      BY <1>1, <3>2, ReadingKeeps
    <3> QED BY <1>1, <2>1, <3>1, <3>3, EmptyQueue DEF LoseToServer, NetTypeOK
  <2>2. CASE LoseToClient(c)
    <3>1. PICK i \in Positions(toClient[c]) :
            toClient' = [toClient EXCEPT ![c] = RemoveAt(@, i)]
      BY <2>2 DEF LoseToClient
    <3>2. RemoveAt(toClient[c], i) \in Remaining(toClient[c], i)
      BY DEF Remaining
    <3>3. Keeps(toClient[c], RemoveAt(toClient[c], i))
      BY <1>1, <3>2, ReadingKeeps
    <3> QED BY <1>1, <2>2, <3>1, <3>3, EmptyQueue DEF LoseToClient, NetTypeOK
  <2> QED BY <2>1, <2>2
<1>4. Alone(c) /\ SameUpload(c) /\ (Started(c) => Started(c)')
  BY <1>2, <1>3 DEF Alone, SameUpload, Started
<1>5. Link(c)'
  <2>1. Link(c)
    BY DEF IInv, Link
  <2> QED BY <1>2, <1>3, <1>4, <2>1, LinkKeeps
<1>6. NoneOf(toServer[c], Previous(c)) => NoneOf(toServer'[c], Previous(c))
  BY <1>3 DEF Keeps
<1> QED BY <1>3, <1>4, <1>5, <1>6, QuietStep

-----------------------------------------------------------------------------
(***************************************************************************)
(* The acknowledgement a client waits for.                                 *)
(***************************************************************************)
\* Only the ACK of the current datagram is taken for it, and none of the one
\* before is left behind it.
LEMMA ExpectedFacts ==
  ASSUME IInv, InOrder, NEW c \in Clients, NEW d, ClientReads(c, d), IsExpected(c, d)
  PROVE  /\ d = create_ACK(Current(c))
         /\ ~NoneOf(toClient[c], create_ACK(Current(c)))
         /\ NoneOf(toClient'[c], create_ACK(Previous(c)))
<1>1. NetTypeOK /\ pos[c] \in Nat /\ sqn[c] \in Bit
  BY InvTypes
<1>2. PathInv(c)
  BY DEF IInv
<1>3. /\ ~NoneOf(toClient[c], d) /\ d \in Answers(c)
      /\ \A y : NeverAfter(toClient[c], d, y) /\ d # y => NoneOf(toClient'[c], y)
  BY <1>1, <1>2, ClientReadsFacts DEF PathInv
<1>4. "ACK" \in d.flags /\ ~IsAbort(d) /\ get_SQN(d) = sqn[c]
  BY DEF IsExpected, is_ACK_for
<1>5. d \notin {ABR, AGN(0), AGN(1), create_ACK(ABR)}
  BY <1>4, SignalFacts DEF Bit
<1>6. get_SQN(create_ACK(Previous(c))) = Flip(sqn[c]) /\ Flip(sqn[c]) # sqn[c]
  <2>1. Flip(sqn[c]) \in Bit /\ pos[c] - 1 \in Int /\ Flip(sqn[c]) # sqn[c]
    BY <1>1 DEF Flip, Bit
  <2> QED BY <2>1, AckFacts DEF Previous
<1>7. d = create_ACK(Current(c))
  BY <1>3, <1>4, <1>5, <1>6 DEF Answers
<1>8. create_ACK(Current(c)) # create_ACK(Previous(c))
  BY <1>1, Distinct
<1> QED BY <1>2, <1>3, <1>7, <1>8 DEF PathInv

\* The client goes on to the next datagram, or is done.
LEMMA AdvanceStep ==
  ASSUME IInv, InOrder, TypeOK', NEW c \in Clients, NEW d, Advance(c, d),
         UNCHANGED serverVars
  PROVE  IInv'
<1>1. /\ pc[c] = "wait" /\ ClientReads(c, d) /\ IsExpected(c, d)
      /\ pos' = [pos EXCEPT ![c] = @ + 1]
      /\ sqn' = [sqn EXCEPT ![c] = Flip(@)]
      /\ IF pos[c] + 1 = LastPos(c)
           THEN pc' = [pc EXCEPT ![c] = "done"] /\ toServer' = toServer
           ELSE Transmit(c, Outgoing(c, pos[c] + 1, Flip(sqn[c]))) /\ pc' = pc
  BY DEF Advance, ClientReceives, SendAfresh
<1>2. NetTypeOK /\ ClientTypeOK /\ pos[c] \in Nat /\ sqn[c] \in Bit
      /\ LastPos(c) = Len(File[c]) + 2 /\ Len(File[c]) \in Nat
  BY InvTypes
<1>3. /\ pos'[c] = pos[c] + 1 /\ sqn'[c] = Flip(sqn[c])
      /\ \A o \in Clients \ {c} : pos'[o] = pos[o] /\ sqn'[o] = sqn[o]
  BY <1>1, <1>2 DEF ClientTypeOK
<1>4. /\ ~NoneOf(toClient[c], create_ACK(Current(c)))
      /\ NoneOf(toClient'[c], create_ACK(Previous(c)))
  BY <1>1, ExpectedFacts
<1>5. /\ Keeps(toClient[c], toClient'[c])
      /\ \A o \in Clients \ {c} : toClient'[o] = toClient[o]
  BY <1>1, <1>2, ClientReadsFacts
<1>6. /\ \A o \in Clients \ {c} : pc'[o] = pc[o] /\ toServer'[o] = toServer[o]
      /\ \/ pc'[c] = "wait" /\ toServer'[c] = Enqueue(toServer[c], Current(c)')
            /\ pos'[c] # LastPos(c)
         \/ pc'[c] = "done" /\ toServer'[c] = toServer[c] /\ pos'[c] = LastPos(c)
  <2>1. CASE pos[c] + 1 = LastPos(c)
    BY <1>1, <1>2, <1>3, <2>1 DEF ClientTypeOK
  <2>2. CASE pos[c] + 1 # LastPos(c)
    <3>1. Current(c)' = Outgoing(c, pos[c] + 1, Flip(sqn[c]))
      BY <1>3 DEF Current
    <3>2. /\ toServer'[c] = Enqueue(toServer[c], Current(c)')
          /\ \A o \in Clients \ {c} : toServer'[o] = toServer[o]
      BY <1>1, <1>2, <2>2, <3>1 DEF Transmit, NetTypeOK
    <3> QED BY <1>1, <1>3, <2>2, <3>2
  <2> QED BY <2>1, <2>2
<1>7. /\ Link(c)' /\ Previous(c)' = Current(c)
      /\ NoneOf(toClient'[c], create_ACK(Current(c)'))
  <2>1. Link(c)
    BY DEF IInv, Link
  <2> QED BY <1>1, <1>2, <1>3, <1>4, <1>5, <1>6, <2>1, LinkAdvanced
<1>8. /\ Alone(c) /\ Started(c) /\ Started(c)'
      /\ \A o \in Clients : Started(o) => Started(o)'
  BY <1>1, <1>3, <1>5, <1>6 DEF Alone, Started
<1>9. session' = session /\ srv' = srv /\ pending' = pending /\ files' = files
      /\ OwnFile(c)
  BY DEF serverVars, OwnFile
<1>10. StoredInv(c)'
  <2>1. FinAcknowledged(c)' => pos[c] + 1 = LastPos(c)
    BY <1>3, <1>7 DEF FinAcknowledged, LastPos
  <2>2. DiskWorks /\ pos[c] + 1 = LastPos(c) => Stored(c) \/ NameReused(c)
    BY <1>4 DEF IInv, StoredInv, FinAcknowledged
  <2>3. (Stored(c) => Stored(c)') /\ (NameReused(c) => NameReused(c)')
    BY <1>8, <1>9 DEF Stored, NameReused
  <2> QED BY <2>1, <2>2, <2>3 DEF StoredInv
<1>11. SessionAfter(c)
  <2>1. CASE session # NoSession /\ session.addr = c
    <3>1. SessionInv(c) /\ srv \in Running /\ session.sqn \in Bit
      BY <2>1, InvTypes DEF IInv, Session
    <3>2. session.sqn # sqn[c]
      BY <1>4, <3>1 DEF SessionInv
    <3>3. session.sqn = sqn'[c]
      BY <1>2, <1>3, <3>1, <3>2 DEF Flip, Bit
    <3>4. Acknowledged(c)' = Acknowledged(c) /\ pos'[c] >= 1
      BY <1>2, <1>3, <1>9, <3>2, <3>3 DEF Acknowledged
    <3>5. NoneOf(toClient'[c], create_ACK(ABR))
      BY <1>5, <3>1 DEF SessionInv, Keeps
    <3>6. SessionInv(c)'
      BY <1>7, <1>8, <1>9, <3>1, <3>3, <3>4, <3>5
      DEF SessionInv, Holds, Started
    <3> QED BY <1>9, <2>1, <3>1, <3>6 DEF SessionAfter
  <2>2. CASE session = NoSession \/ session.addr # c
    BY <2>2 DEF SessionAfter
  <2> QED BY <2>1, <2>2
<1> QED BY <1>7, <1>8, <1>9, <1>10, <1>11, Assemble

\* Every other step of a client sends once more or ends the client.
LEMMA ClientStep ==
  ASSUME IInv, InOrder, TypeOK', NEW c \in Clients, ClientNext(c),
         UNCHANGED serverVars
  PROVE  IInv'
<1>1. NetTypeOK /\ ClientTypeOK /\ pos[c] \in Nat /\ sqn[c] \in Bit
  BY InvTypes
<1>2. Current(c) # ABR
  BY <1>1, Distinct
<1>3. CASE ClientStart(c)
  <2>1. pc'[c] = "wait" /\ \A o \in Clients \ {c} : pc'[o] = pc[o]
    BY <1>1, <1>3 DEF ClientStart, ClientTypeOK
  <2> QED BY <1>2, <1>3, <2>1, SendStep DEF ClientStart, Hears
<1>4. ASSUME NEW d, ReceiveIntact(c, d) PROVE IInv'
  <2>1. CASE Denied(c, d)
    BY <2>1, EndStep DEF Denied, ClientReceives, Hears, InHandler
  <2>2. CASE Advance(c, d)
    BY <2>2, AdvanceStep
  <2>3. CASE Resend(c, d)
    BY <1>2, <2>3, SendStep DEF Resend, SendAfresh, ClientReceives, Hears
  <2>4. CASE AbortAcknowledged(c, d)
    BY <2>4, EndStep DEF AbortAcknowledged, Hears, Aborting
  <2>5. CASE AbortUnanswered(c, d)
    BY <2>5, SendStep DEF AbortUnanswered, SendAfresh, Hears
  <2> QED BY <1>4, <2>1, <2>2, <2>3, <2>4, <2>5 DEF ReceiveIntact
<1>5. ASSUME NEW d, ClientReceivesCorrupt(c, d) PROVE IInv'
  <2>1. Hears(c) /\ pc[c] \in {"wait"} \cup InHandler /\ pos' = pos /\ sqn' = sqn
    BY <1>5 DEF ClientReceivesCorrupt, Hears
  <2>2. CASE UNCHANGED pc /\ SendAfresh(c, IF pc[c] = "wait" THEN Current(c) ELSE ABR)
    <3>1. CASE pc[c] = "wait"
      BY <1>2, <2>1, <2>2, <3>1, SendStep DEF SendAfresh
    <3>2. CASE pc[c] \in InHandler
      BY <2>1, <2>2, <3>2, SendStep DEF SendAfresh, InHandler
    <3> QED BY <2>1, <3>1, <3>2
  <2>3. CASE pc' = [pc EXCEPT ![c] = "crashed"] /\ UNCHANGED <<retries, toServer>>
    BY <2>1, <2>3, EndStep DEF Aborting
  <2> QED BY <1>5, <2>2, <2>3 DEF ClientReceivesCorrupt
<1>6. CASE Expire(c)
  <2>1. CASE ClientTimeout(c)
    BY <1>2, <2>1, SendStep DEF ClientTimeout, SendAgain, Hears
  <2>2. CASE ClientGivesUp(c)
    BY <2>2, EndStep DEF ClientGivesUp, Hears, netVars, InHandler
  <2>3. CASE AbortTimeout(c)
    BY <2>3, SendStep DEF AbortTimeout, SendAgain, Hears, InHandler
  <2>4. CASE AbortGivesUp(c)
    BY <2>4, EndStep DEF AbortGivesUp, Hears, netVars, Aborting, InHandler
  <2> QED BY <1>6, <2>1, <2>2, <2>3, <2>4 DEF Expire
<1>7. CASE ClientInterrupted(c)
  <2>1. pc'[c] \in InHandler /\ \A o \in Clients \ {c} : pc'[o] = pc[o]
    BY <1>1, <1>7 DEF ClientInterrupted, ClientTypeOK, InHandler
  <2> QED BY <1>7, <2>1, SendStep DEF ClientInterrupted, SendAfresh, Hears
<1> QED BY <1>3, <1>4, <1>5, <1>6, <1>7 DEF ClientNext

-----------------------------------------------------------------------------
(***************************************************************************)
(* The invariant.                                                          *)
(***************************************************************************)
\* Nothing is under way at first, and nobody has been acknowledged.
LEMMA IInvInit == Init => IInv
<1> SUFFICES ASSUME Init PROVE IInv
  OBVIOUS
<1>1. TypeOK
  BY TypeInit DEF TypeInv
<1>2. session = NoSession
  BY DEF Init, ServerInit
<1>3. ASSUME NEW c \in Clients
      PROVE  ClientInv(c) /\ PathInv(c) /\ AbortInv(c) /\ StoredInv(c)
  <2>1. /\ toServer[c] = <<>> /\ toClient[c] = <<>>
        /\ pc[c] = "start" /\ pos[c] = 0 /\ sqn[c] = 0
    BY DEF Init, NetInit, ClientInit, SQN_START_VAL
  <2>2. pos[c] # LastPos(c) /\ pos[c] + 1 # LastPos(c)
    BY <2>1, LastPosType
  <2>3. ClientInv(c) /\ StoredInv(c)
    BY <2>1, <2>2 DEF ClientInv, StoredInv, FinAcknowledged
  <2>4. PathInv(c) /\ AbortInv(c)
    BY <2>1, EmptyQueue DEF PathInv, AbortInv
  <2> QED BY <2>3, <2>4
<1> QED BY <1>1, <1>2, <1>3 DEF IInv

\* Every step keeps IInv.
LEMMA IInvStep ==
  ASSUME InOrder, OwnAddresses, IInv, [Next]_vars
  PROVE  IInv'
<1>1. TypeOK'
  BY InvTypes, TypeStep DEF TypeInv
<1>2. CASE ServerNext /\ UNCHANGED clientVars
  BY <1>1, <1>2, ServerStep
<1>3. ASSUME NEW c \in Clients, ClientNext(c), UNCHANGED serverVars
      PROVE  IInv'
  BY <1>1, <1>3, ClientStep
<1>4. CASE NetworkNext /\ UNCHANGED <<serverVars, clientVars>>
  BY <1>1, <1>4, LossStep DEF NetworkNext
<1>5. CASE UNCHANGED vars
  <2>1. \A c \in Clients : /\ Keeps(toServer[c], toServer'[c])
                           /\ Keeps(toClient[c], toClient'[c])
    BY <1>5, EmptyQueue DEF vars, netVars
  <2>2. /\ session' = session /\ files' = files /\ srv' = srv /\ pending' = pending
        /\ UNCHANGED clientVars /\ UNCHANGED serverVars
        /\ toServer' = toServer /\ toClient' = toClient
        /\ pc' = pc /\ pos' = pos /\ sqn' = sqn
    BY <1>5 DEF vars, netVars, serverVars, clientVars
  <2>3. CASE session = NoSession
    BY <1>1, <2>1, <2>2, <2>3, FreedSilently
  <2>4. CASE session # NoSession
    <3>1. PICK c \in Clients : session.addr = c
      BY <2>4, InvTypes
    <3>2. Link(c) /\ Alone(c) /\ SameUpload(c) /\ (Started(c) => Started(c)')
      BY <2>2 DEF IInv, Link, Alone, SameUpload, Started
    <3>3. Link(c)'
      BY <2>1, <2>2, <3>2, LinkKeeps
    <3> QED BY <1>1, <2>1, <2>2, <3>2, <3>3, QuietStep
  <2> QED BY <2>3, <2>4
<1> QED BY <1>2, <1>3, <1>4, <1>5 DEF Next

\* Over a path that keeps the order of datagrams, with a disk that works and every
\* client on a host of its own, client, server and path stay in step, whatever
\* is lost, doubled, delayed or damaged and whoever is stopped and restarted.
THEOREM InStep ==
  ASSUME InOrder, OwnAddresses
  PROVE  Spec => []IInv
<1>1. IInv /\ [Next]_vars => IInv'
  BY IInvStep
<1> QED BY <1>1, IInvInit, PTL DEF Spec

-----------------------------------------------------------------------------
(***************************************************************************)
(* What follows.                                                           *)
(***************************************************************************)
\* A client that reports success has its file on the server, unless another
\* client has used the name.
THEOREM SuccessIsStored ==
  ASSUME InOrder, DiskWorks, OwnAddresses
  PROVE  Spec => []SuccessMeansStored
<1>1. IInv => SuccessMeansStored
  BY DEF IInv, ClientInv, StoredInv, FinAcknowledged, SuccessMeansStored
<1> QED BY <1>1, InStep, PTL

\* Once the ABR of a client is acknowledged, the server no longer serves it, and
\* nothing of it that is still under way changes that.
THEOREM AbortFrees ==
  ASSUME InOrder, OwnAddresses
  PROVE  Spec => []ConfirmedAbortFreesServer
<1>1. IInv => ConfirmedAbortFreesServer
  <2> SUFFICES ASSUME IInv, NEW c \in Clients,
                      create_ACK(ABR) \in ToSet(toClient[c]),
                      session # NoSession, session.addr = c
               PROVE  FALSE
    BY DEF ConfirmedAbortFreesServer
  <2>1. NoneOf(toClient[c], create_ACK(ABR))
    BY DEF IInv, SessionInv
  <2> QED BY <2>1 DEF NoneOf, ToSet
<1> QED BY <1>1, InStep, PTL

\* The beginning of a sequence is a prefix of it.
LEMMA SubSeqPrefix ==
  ASSUME NEW S, NEW q \in Seq(S), NEW k \in Nat, k <= Len(q)
  PROVE  /\ IsPrefix(SubSeq(q, 1, k), q)
         /\ Len(SubSeq(q, 1, k)) = k
         /\ SubSeq(q, 1, Len(q)) = q
<1>1. Len(q) \in Nat
  OBVIOUS
<1>2. SubSeq(q, 1, k) \in Seq(S) /\ Len(SubSeq(q, 1, k)) = k
  BY <1>1
<1>3. SubSeq(SubSeq(q, 1, k), 1, k) = SubSeq(q, 1, k)
  BY <1>1, <1>2
<1>4. SubSeq(q, 1, Len(q)) = q
  BY <1>1
<1> QED BY <1>2, <1>3, <1>4 DEF IsPrefix

\* The FIN is handled once the whole file is written.
LEMMA FinFacts ==
  ASSUME IInv, DiskWorks, NEW c \in Clients, session # NoSession, session.addr = c,
         srv = "handle", "FIN" \in pending.flags
  PROVE  session.file = Name[c] /\ files[Name[c]] = File[c]
<1>1. /\ session.file = Name[c]
      /\ 1 <= Acknowledged(c) /\ Acknowledged(c) <= Len(File[c]) + 1
      /\ pending = Outgoing(c, Acknowledged(c), Flip(session.sqn))
      /\ files[Name[c]] = SubSeq(File[c], 1, Acknowledged(c) - 1)
  BY DEF IInv, SessionInv, Holds
<1>2. /\ pos[c] \in Nat /\ Len(File[c]) \in Nat /\ File[c] \in Seq(Chunks)
      /\ Flip(session.sqn) \in Bit
  BY InvTypes DEF Session, Flip, Bit
<1>3. Acknowledged(c) \in Int
  BY <1>2 DEF Acknowledged
<1>4. Acknowledged(c) \notin 0..Len(File[c])
  BY <1>1, <1>2, <1>3, OutgoingFacts
<1>5. Acknowledged(c) - 1 = Len(File[c])
  BY <1>1, <1>2, <1>3, <1>4
<1>6. SubSeq(File[c], 1, Len(File[c])) = File[c]
  BY <1>2
<1> QED BY <1>1, <1>5, <1>6

\* How far an upload is: the file holds, or is about to hold, the first chunks of
\* the client's, as many as the client has sent or all but the last one.
LEMMA UploadFacts ==
  ASSUME IInv, DiskWorks, NEW c \in Clients, session # NoSession, session.addr = c
  PROVE  /\ session.file = Name[c]
         /\ \E k \in 0..Len(File[c]) : /\ Uploaded = SubSeq(File[c], 1, k)
                                       /\ pos[c] > k + 1 => k = Len(File[c])
<1>1. SessionInv(c) /\ srv \in Running
  BY DEF IInv
<1>2. /\ pos[c] \in Nat /\ Len(File[c]) \in Nat /\ File[c] \in Seq(Chunks)
      /\ session.sqn \in Bit
  BY InvTypes DEF Session
<1>3. /\ Acknowledged(c) \in Int
      /\ Acknowledged(c) >= 0
      /\ pos[c] <= Acknowledged(c) + 1
  <2>1. CASE session.sqn = sqn[c]
    <3>1. pos[c] >= 1 /\ Acknowledged(c) = pos[c] - 1
      BY <1>1, <2>1 DEF SessionInv, Acknowledged
    <3> QED BY <1>2, <3>1
  <2>2. CASE session.sqn # sqn[c]
    <3>1. Acknowledged(c) = pos[c]
      BY <2>2 DEF Acknowledged
    <3> QED BY <1>2, <3>1
  <2> QED BY <2>1, <2>2
<1>4. session.file = Name[c]
  BY <1>1 DEF SessionInv
<1>5. CASE srv = "recv"
  <2>1. /\ Acknowledged(c) <= Len(File[c])
        /\ Uploaded = SubSeq(File[c], 1, Acknowledged(c))
    BY <1>1, <1>4, <1>5 DEF SessionInv, Holds, Uploaded
  <2>2. Acknowledged(c) \in 0..Len(File[c]) /\ ~(pos[c] > Acknowledged(c) + 1)
    BY <1>2, <1>3, <2>1
  <2> QED BY <1>4, <2>1, <2>2
<1>6. CASE srv = "handle" /\ "FIN" \notin pending.flags
  <2>1. PICK k \in 1..Len(File[c]) :
          /\ k = Acknowledged(c)
          /\ pending.payload = File[c][k]
          /\ files[Name[c]] = SubSeq(File[c], 1, k - 1)
    BY <1>1, <1>6, PendingFacts DEF SessionInv, Holds
  <2>2. Uploaded = Append(SubSeq(File[c], 1, k - 1), File[c][k])
    BY <1>4, <1>6, <2>1 DEF Uploaded
  <2>3. Append(SubSeq(File[c], 1, k - 1), File[c][k]) = SubSeq(File[c], 1, k)
    BY <1>2
  <2>4. k \in 0..Len(File[c]) /\ ~(pos[c] > k + 1)
    BY <1>2, <1>3, <2>1
  <2> QED BY <1>4, <2>2, <2>3, <2>4
<1>7. CASE srv = "handle" /\ "FIN" \in pending.flags
  <2>1. Uploaded = File[c]
    BY <1>4, <1>7, FinFacts DEF Uploaded
  <2>2. SubSeq(File[c], 1, Len(File[c])) = File[c] /\ Len(File[c]) \in 0..Len(File[c])
    BY <1>2
  <2> QED BY <1>4, <2>1, <2>2
<1> QED BY <1>1, <1>5, <1>6, <1>7 DEF Running

\* During an upload the server's file is the beginning of the client's, and every
\* chunk that the client has seen acknowledged is in it.
THEOREM PrefixStored ==
  ASSUME InOrder, DiskWorks, OwnAddresses
  PROVE  Spec => []UploadIsPrefix
<1>1. IInv => UploadIsPrefix
  <2> SUFFICES ASSUME IInv, session # NoSession,
                      NEW c \in Clients, session.addr = c
               PROVE  /\ session.file = Name[c]
                      /\ IsPrefix(Uploaded, File[c])
                      /\ pos[c] > Len(Uploaded) + 1 => Uploaded = File[c]
    BY InvTypes DEF UploadIsPrefix
  <2>1. File[c] \in Seq(Chunks) /\ Len(File[c]) \in Nat
    BY InvTypes
  <2>2. PICK k \in 0..Len(File[c]) : /\ Uploaded = SubSeq(File[c], 1, k)
                                     /\ pos[c] > k + 1 => k = Len(File[c])
    BY UploadFacts
  <2>3. k \in Nat /\ k <= Len(File[c])
    BY <2>1
  <2>4. /\ IsPrefix(Uploaded, File[c]) /\ Len(Uploaded) = k
        /\ SubSeq(File[c], 1, Len(File[c])) = File[c]
    BY <2>1, <2>2, <2>3, SubSeqPrefix
  <2> QED BY <2>2, <2>4, UploadFacts
<1> QED BY <1>1, InStep, PTL

\* Even on a disk that refuses some writes the file that is being uploaded has no
\* hole: it holds the first chunks of the client's, and nothing else.
THEOREM HolesNever ==
  ASSUME InOrder, OwnAddresses
  PROVE  Spec => []NoHoles
<1>1. IInv => NoHoles
  <2> SUFFICES ASSUME IInv, session # NoSession,
                      NEW c \in Clients, session.addr = c
               PROVE  IsPrefix(files[session.file], File[c])
    BY InvTypes DEF NoHoles
  <2>1. /\ SessionInv(c) /\ srv \in Running /\ session.file = Name[c]
        /\ session \in Session
    BY InvTypes DEF IInv, SessionInv
  <2>2. /\ File[c] \in Seq(Chunks) /\ Len(File[c]) \in Nat
        /\ pos[c] \in Nat /\ session.sqn \in Bit /\ sqn[c] \in Bit
    BY <2>1, InvTypes DEF Session
  <2>3. Acknowledged(c) \in Int /\ Acknowledged(c) >= 0
    BY <2>1, <2>2 DEF SessionInv, Acknowledged
  <2>4. \E n \in 0..Len(File[c]) : Holds(c, n)
    <3>1. CASE srv = "recv"
      BY <2>1, <2>2, <2>3, <3>1 DEF SessionInv
    <3>2. CASE srv = "handle"
      <4>1. /\ 1 <= Acknowledged(c) /\ Acknowledged(c) <= Len(File[c]) + 1
            /\ Holds(c, Acknowledged(c) - 1)
        BY <2>1, <3>2 DEF SessionInv
      <4>2. Acknowledged(c) - 1 \in 0..Len(File[c])
        BY <2>2, <2>3, <4>1
      <4> QED BY <4>1, <4>2
    <3> QED BY <2>1, <3>1, <3>2 DEF Running
  <2>5. PICK k \in 0..Len(File[c]) : files[Name[c]] = SubSeq(File[c], 1, k)
    BY <2>2, <2>4 DEF Holds
  <2> QED BY <2>1, <2>2, <2>5, SubSeqPrefix
<1> QED BY <1>1, InStep, PTL

\* What ends an upload on a server that keeps running.
LEMMA EndOfUpload ==
  ASSUME InOrder, DiskWorks, OwnAddresses, IInv, Next, TypeOK',
         session # NoSession, session' = NoSession, srv' \in Running
  PROVE  \/ srv = "handle" /\ files[session.file] = File[session.addr]
         \/ ABR \in ToSet(toServer[session.addr])
<1>1. ServerNext
  BY DEF Next, serverVars
<1>2. srv \in Running /\ session \in Session /\ session.addr \in Clients
  BY InvTypes DEF IInv
<1>3. ASSUME NEW c \in Clients, NEW d \in ToSet(toServer[c]), HandleIntact(c, d)
      PROVE  ABR \in ToSet(toServer[session.addr])
  <2>1. CASE HandleABR(c, d)
    <3>1. /\ ServerReads(c, d) /\ is_ABR(d) /\ SameHost(c)
      BY <2>1 DEF HandleABR, ServerReceives
    <3>2. session.addr = c
      BY <1>2, <3>1 DEF SameHost, OwnAddresses
    <3>3. d \in {Current(c), Previous(c), ABR}
      BY <3>1, RequestFacts
    <3>4. pos[c] \in Int /\ pos[c] - 1 \in Int /\ sqn[c] \in Bit /\ Flip(sqn[c]) \in Bit
      BY InvTypes DEF Flip, Bit
    <3>5. ~is_ABR(Current(c)) /\ ~is_ABR(Previous(c))
      BY <3>4, OutgoingFacts DEF Current, Previous
    <3> QED BY <1>3, <3>1, <3>2, <3>3, <3>5
  <2>2. CASE Acknowledge(c, d)
    <3>1. session' = [session EXCEPT !.sqn = Flip(@)]
      BY <2>2 DEF Acknowledge
    <3>2. Flip(session.sqn) \in Bit
      BY <1>2 DEF Session, Flip, Bit
    <3>3. session' \in Session
      BY <1>2, <3>1, <3>2 DEF Session
    <3> QED BY <3>3, NoValueAssumption
  <2>3. ~DenySYN(c, d) /\ ~AcceptSYN(c, d) /\ ~HandleForeign(c, d)
        /\ ~HandleDuplicate(c, d)
    BY DEF DenySYN, AcceptSYN, HandleForeign, HandleDuplicate, serverVars
  <2> QED BY <1>3, <2>1, <2>2, <2>3 DEF HandleIntact
<1>4. CASE FinishUpload
  <2>1. srv = "handle" /\ "FIN" \in pending.flags
    BY <1>4 DEF FinishUpload
  <2>2. PICK c \in Clients : session.addr = c
    BY <1>2
  <2> QED BY <2>1, <2>2, FinFacts
<1>5. ~WriteBytes
  <2> SUFFICES ASSUME WriteBytes PROVE FALSE
    OBVIOUS
  <2> DEFINE t == IF session.since = 2 THEN JustLogged ELSE session.since
  <2>1. pending.flags \ {"SQN"} = {}
    BY DEF WriteBytes
  <2>2. PICK good \in BOOLEAN :
          session' = [session EXCEPT !.good = good, !.written = TRUE, !.since = t]
    BY <1>2, <2>1 DEF WriteBytes, Session
  <2>3. t \in SinceLog
    BY <1>2 DEF Session, SinceLog, JustLogged
  <2> HIDE DEF t
  <2>4. session' \in Session
    BY <1>2, <2>2, <2>3 DEF Session
  <2> QED BY <2>4, NoValueAssumption
<1>6. CASE Tick
  <2>1. session' = [session EXCEPT !.since = @ + 1] /\ session.since < 2
    BY <1>6 DEF Tick
  <2>2. session' \in Session
    BY <1>2, <2>1 DEF Session, SinceLog
  <2> QED BY <2>2, NoValueAssumption
<1>7. ASSUME NEW c \in Clients, NEW d,
             HandleCorrupt(c, d) \/ FailToOpen(c, d) \/ InterruptedReplacing(c, d)
      PROVE  FALSE
  BY <1>7 DEF HandleCorrupt, FailToOpen, InterruptedReplacing, Running
<1>8. ~ServerInterrupted /\ ~ServerStart
  BY <1>2 DEF ServerInterrupted, ServerStart, Running, Down
<1>9. \A c \in Clients : ~DropUndeliverable(c)
  BY DEF DropUndeliverable, serverVars
<1> QED BY <1>1, <1>3, <1>4, <1>5, <1>6, <1>7, <1>8, <1>9
        DEF ServerNext, HandlePending

\* A server that keeps running ends an upload for two reasons only: the FIN behind
\* the whole file, or an ABR of the client that uploads.
THEOREM OwnerEnds ==
  ASSUME InOrder, DiskWorks, OwnAddresses
  PROVE  Spec => OnlyOwnerEndsUpload
<1>1. IInv /\ IInv' /\ [Next]_vars =>
        [session # NoSession /\ session' = NoSession /\ srv' \in Running =>
           \/ srv = "handle" /\ files[session.file] = File[session.addr]
           \/ ABR \in ToSet(toServer[session.addr])]_vars
  <2> SUFFICES ASSUME IInv, IInv', Next, session # NoSession,
                      session' = NoSession, srv' \in Running
               PROVE  \/ srv = "handle" /\ files[session.file] = File[session.addr]
                      \/ ABR \in ToSet(toServer[session.addr])
    OBVIOUS
  <2>1. TypeOK'
    BY DEF IInv
  <2> QED BY <2>1, EndOfUpload
<1> QED BY <1>1, InStep, PTL DEF Spec, OnlyOwnerEndsUpload

-----------------------------------------------------------------------------
\* A number less than m is the remainder of it and m by m.
LEMMA OnceOver ==
  ASSUME NEW m \in Nat, NEW r \in Nat, r < m
  PROVE  (m + r) % m = r
OBVIOUS

\* The timeval made of the option -r is the RTO, whole seconds and the rest of less
\* than a second, for every number of milliseconds; so that only an RTO of 0 turns
\* the timer off.
THEOREM TimevalIsRto ==
  ASSUME NEW ms \in Nat
  PROVE  LET tv == Timeval(ms)
         IN  tv.sec * (1000 * 1000) + tv.usec = ms * 1000 /\ tv.usec < 1000 * 1000
<1> DEFINE sec == ms \div 1000
           rest == ms % 1000
           usec == IF sec = 0 THEN ms * 1000 ELSE (ms % (sec * 1000)) * 1000
<1>1. /\ sec \in Nat /\ rest \in Nat /\ rest < 1000
      /\ ms = (sec * 1000) + rest
  OBVIOUS
<1>2. Timeval(ms).sec = sec /\ Timeval(ms).usec = usec
  BY DEF Timeval
<1>3. usec = rest * 1000
  <2> HIDE DEF sec, rest
  <2>1. CASE sec = 0
    BY <1>1, <2>1
  <2>2. CASE sec # 0
    <3>1. sec * 1000 \in Nat /\ rest < sec * 1000
      BY <1>1, <2>2
    <3>2. ms % (sec * 1000) = rest
      BY <1>1, <3>1, OnceOver
    <3> QED BY <2>2, <3>2
  <2> QED BY <2>1, <2>2
<1> HIDE DEF sec, rest, usec
<1>4. sec * (1000 * 1000) + usec = ms * 1000 /\ usec < 1000 * 1000
  BY <1>1, <1>3
<1> QED BY <1>2, <1>4

=============================================================================
