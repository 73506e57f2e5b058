------------------------------ MODULE BftTypes ------------------------------
(***************************************************************************)
(* Type correctness of Bft, and the facts about datagrams and queues on    *)
(* which it and the safety proofs rest.                                    *)
(***************************************************************************)
EXTENDS Bft, TLAPS, SequenceTheorems

LEMMA RemoveAtType ==
  ASSUME NEW S, NEW q \in Seq(S), NEW i \in DOMAIN q
  PROVE  RemoveAt(q, i) \in Seq(S)
BY SMT DEF RemoveAt

LEMMA RemainingType ==
  ASSUME NEW S, NEW q \in Seq(S), NEW i \in Positions(q),
         NEW rest \in Remaining(q, i)
  PROVE  rest \in Seq(S) /\ q[i] \in S
<1>1. i \in DOMAIN q BY DEF Positions
<1>2. RemoveAt(q, i) \in Seq(S) BY <1>1, RemoveAtType
<1>3. rest \in {RemoveAt(q, i), q} BY DEF Remaining
<1> QED BY <1>1, <1>2, <1>3

LEMMA EnqueueType ==
  ASSUME NEW S, NEW q \in Seq(S), NEW d \in S
  PROVE  Enqueue(q, d) \in Seq(S)
BY DEF Enqueue

LEMMA NewDatagramType ==
  ASSUME NEW flags \in SUBSET Flags, NEW payload \in Payload, NEW s \in Bit
  PROVE  NewDatagram(flags, payload, s) \in Datagram
BY DEF NewDatagram, Datagram, Flags

LEMMA SqnType == ASSUME NEW d PROVE get_SQN(d) \in Bit
BY DEF get_SQN, Bit

LEMMA AckType ==
  ASSUME NEW d \in Datagram PROVE create_ACK(d) \in Datagram
<1>1. d.flags \cup {"ACK"} \in SUBSET Flags BY DEF Datagram, Flags
<1>2. NoPayload \in Payload BY DEF Payload
<1> QED BY <1>1, <1>2, SqnType, NewDatagramType DEF create_ACK

LEMMA SignalTypes == ABR \in Request /\ \A s \in Bit : AGN(s) \in Datagram
<1>1. NoPayload \in Payload /\ SQN_START_VAL \in Bit
  BY DEF Payload, SQN_START_VAL, Bit
<1>2. ABR \in Datagram
  BY <1>1, NewDatagramType DEF ABR, Flags
<1>3. ABR.flags = {"ABR"}
  BY DEF ABR, NewDatagram, SQN_START_VAL
<1>4. ~is_SYN(ABR) /\ ABR.flags \ {"SQN"} # {}
  BY <1>3 DEF is_SYN
<1>5. \A s \in Bit : AGN(s) \in Datagram
  BY <1>1, NewDatagramType DEF AGN, Flags
<1> QED BY <1>2, <1>4, <1>5 DEF Request

-----------------------------------------------------------------------------
\* The three kinds of datagrams an upload consists of.
Kinds == {{"SYN"}, {}, {"FIN"}}

LEMMA KindFacts ==
  ASSUME NEW kind \in Kinds, NEW p \in Payload, NEW s \in Bit
  PROVE  LET d == NewDatagram(kind, p, s)
         IN  /\ d \in Datagram
             /\ d.payload = p
             /\ d.flags \ {"SQN"} = kind
             /\ d.flags \cap {"ACK", "ABR", "AGN"} = {}
             /\ "FIN" \in d.flags <=> kind = {"FIN"}
             /\ get_SQN(d) = s
             /\ is_SYN(d) <=> kind = {"SYN"} /\ s = 0
             /\ ~is_ABR(d) /\ d # ABR
<1> DEFINE d == NewDatagram(kind, p, s)
<1>1. kind \in SUBSET Flags /\ "SQN" \notin kind
      /\ kind \cap {"ACK", "ABR", "AGN"} = {}
  BY DEF Kinds, Flags
<1>2. d.flags = (IF s = 1 THEN kind \cup {"SQN"} ELSE kind) /\ d.payload = p
  BY DEF NewDatagram
<1>3. d \in Datagram
  BY <1>1, NewDatagramType
<1>4. d.flags \ {"SQN"} = kind /\ d.flags \cap {"ACK", "ABR", "AGN"} = {}
  BY <1>1, <1>2
<1>5. "FIN" \in d.flags <=> "FIN" \in kind
  BY <1>2
<1>6. "FIN" \in kind <=> kind = {"FIN"}
  BY DEF Kinds
<1>7. s = 0 \/ s = 1
  BY DEF Bit
<1>8. get_SQN(d) = s
  BY <1>1, <1>2, <1>7 DEF get_SQN
<1>9. is_SYN(d) <=> kind = {"SYN"} /\ s = 0
  <2>1. CASE s = 0
    BY <2>1, <1>2, <1>8 DEF is_SYN, SQN_START_VAL
  <2>2. CASE s = 1
    BY <2>2, <1>8 DEF is_SYN, SQN_START_VAL
  <2> QED BY <2>1, <2>2, <1>7
<1>10. "ABR" \notin d.flags
  BY <1>4
<1>11. ~is_ABR(d) /\ d # ABR
  BY <1>10 DEF is_ABR, ABR, NewDatagram, SQN_START_VAL
<1> QED BY <1>2, <1>3, <1>4, <1>5, <1>6, <1>8, <1>9, <1>11

\* What the k-th datagram of a client is.
LEMMA OutgoingFacts ==
  ASSUME NEW c \in Clients, NEW k \in Int, NEW s \in Bit
  PROVE  LET d == Outgoing(c, k, s)
         IN  /\ d \in Request
             /\ get_SQN(d) = s
             /\ d # ABR /\ ~is_ABR(d)
             /\ is_SYN(d) <=> k = 0 /\ s = 0
             /\ "FIN" \in d.flags <=> k \notin 0..Len(File[c])
             /\ d.flags \ {"SQN"} = {} <=> k \in 1..Len(File[c])
             /\ k = 0 => d.payload = Name[c]
             /\ k \in 1..Len(File[c]) => d.payload = File[c][k]
             /\ d.flags \cap {"ACK", "ABR", "AGN"} = {}
<1> DEFINE d == Outgoing(c, k, s)
<1>1. File[c] \in Seq(Chunks) /\ Name[c] \in FileNames
  BY FileAssumption
<1>2. DOMAIN File[c] = 1..Len(File[c]) /\ Len(File[c]) \in Nat
  BY <1>1
<1>3. Kinds = {{"SYN"}, {}, {"FIN"}} /\ {"SYN"} # {} /\ {"FIN"} # {} /\ {"SYN"} # {"FIN"}
  BY DEF Kinds
<1>4. CASE k = 0
  <2>1. d = NewDatagram({"SYN"}, Name[c], s) /\ Name[c] \in Payload
    BY <1>1, <1>2, <1>4 DEF Outgoing, Payload
  <2> QED
    BY <2>1, <1>1, <1>2, <1>3, <1>4, KindFacts DEF Request
<1>5. CASE k \in 1..Len(File[c])
  <2>1. d = NewDatagram({}, File[c][k], s)
    BY <1>2, <1>5 DEF Outgoing
  <2>2. File[c][k] \in Chunks /\ File[c][k] \in Payload
    BY <1>1, <1>5, ElementOfSeq DEF Payload
  <2> QED
    BY <2>1, <2>2, <1>2, <1>3, <1>5, KindFacts DEF Request
<1>6. CASE k \notin 0..Len(File[c])
  <2>1. d = NewDatagram({"FIN"}, NoPayload, s) /\ NoPayload \in Payload
    BY <1>2, <1>6 DEF Outgoing, Payload
  <2> QED
    BY <2>1, <1>2, <1>3, <1>6, KindFacts DEF Request
<1> QED BY <1>2, <1>4, <1>5, <1>6

-----------------------------------------------------------------------------
(***************************************************************************)
(* The path keeps its type.                                                *)
(***************************************************************************)
LEMMA ServerReadsType ==
  ASSUME NetTypeOK, NEW c \in Clients, NEW d, ServerReads(c, d)
  PROVE  d \in Request /\ toServer' \in [Clients -> Seq(Request)]
<1>1. PICK i \in Positions(toServer[c]) :
        /\ d = toServer[c][i]
        /\ \E rest \in Remaining(toServer[c], i) :
             toServer' = [toServer EXCEPT ![c] = rest]
  BY DEF ServerReads
<1>2. toServer[c] \in Seq(Request) BY DEF NetTypeOK
<1> QED BY <1>1, <1>2, RemainingType DEF NetTypeOK

LEMMA ClientReadsType ==
  ASSUME NetTypeOK, NEW c \in Clients, NEW d, ClientReads(c, d)
  PROVE  d \in Datagram /\ toClient' \in [Clients -> Seq(Datagram)]
<1>1. PICK i \in Positions(toClient[c]) :
        /\ d = toClient[c][i]
        /\ \E rest \in Remaining(toClient[c], i) :
             toClient' = [toClient EXCEPT ![c] = rest]
  BY DEF ClientReads
<1>2. toClient[c] \in Seq(Datagram) BY DEF NetTypeOK
<1> QED BY <1>1, <1>2, RemainingType DEF NetTypeOK

LEMMA TransmitType ==
  ASSUME NetTypeOK, NEW c \in Clients, NEW d \in Request, Transmit(c, d)
  PROVE  toServer' \in [Clients -> Seq(Request)]
BY EnqueueType DEF NetTypeOK, Transmit

LEMMA ReplyType ==
  ASSUME NetTypeOK, NEW c \in Clients, NEW d \in Datagram, Reply(c, d)
  PROVE  toClient' \in [Clients -> Seq(Datagram)]
BY EnqueueType DEF NetTypeOK, Reply

LEMMA LossType ==
  ASSUME NetTypeOK, NEW c \in Clients, LoseToServer(c) \/ LoseToClient(c)
  PROVE  NetTypeOK'
<1>1. CASE LoseToServer(c)
  <2>1. toServer[c] \in Seq(Request) BY DEF NetTypeOK
  <2>2. PICK i \in DOMAIN toServer[c] :
          toServer' = [toServer EXCEPT ![c] = RemoveAt(@, i)]
    BY <1>1 DEF LoseToServer, Positions
  <2> QED BY <1>1, <2>1, <2>2, RemoveAtType DEF NetTypeOK, LoseToServer
<1>2. CASE LoseToClient(c)
  <2>1. toClient[c] \in Seq(Datagram) BY DEF NetTypeOK
  <2>2. PICK i \in DOMAIN toClient[c] :
          toClient' = [toClient EXCEPT ![c] = RemoveAt(@, i)]
    BY <1>2 DEF LoseToClient, Positions
  <2> QED BY <1>2, <2>1, <2>2, RemoveAtType DEF NetTypeOK, LoseToClient
<1> QED BY <1>1, <1>2

-----------------------------------------------------------------------------
(***************************************************************************)
(* Type correctness.  It needs one fact more than the types: a client that *)
(* still waits has not reached the end.                                    *)
(***************************************************************************)
DoneAtEnd == \A c \in Clients : pc[c] = "done" <=> pos[c] = LastPos(c)

TypeInv == TypeOK /\ DoneAtEnd

LEMMA LastPosType == ASSUME NEW c \in Clients PROVE LastPos(c) \in Nat \ {0, 1}
BY FileAssumption DEF LastPos

LEMMA TypeInit == Init => TypeInv
<1> SUFFICES ASSUME Init PROVE TypeInv
  OBVIOUS
<1>1. NetTypeOK
  BY DEF Init, NetInit, NetTypeOK
<1>2. ServerTypeOK
  BY OldContentsAssumption
  DEF Init, ServerInit, ServerTypeOK, Running, Down
<1>3. ClientTypeOK /\ DoneAtEnd
  BY LastPosType
  DEF Init, ClientInit, ClientTypeOK, DoneAtEnd, Ended, Bit, SQN_START_VAL
<1> QED BY <1>1, <1>2, <1>3 DEF TypeInv, TypeOK

\* What every action of the server leaves of the other components.
LEMMA ServerStepType ==
  ASSUME TypeInv, ServerNext
  PROVE  NetTypeOK' /\ ServerTypeOK'
<1> USE DEF TypeInv, TypeOK
<1>1. ASSUME NEW c \in Clients, NEW d, HandleIntact(c, d)
      PROVE  NetTypeOK' /\ ServerTypeOK'
  <2>1. ServerReceives(c, d)
    BY <1>1 DEF HandleIntact, DenySYN, AcceptSYN, HandleABR, HandleForeign,
                HandleDuplicate, Acknowledge
  <2>2. srv = "recv" /\ d \in Request /\ toServer' \in [Clients -> Seq(Request)]
    BY <2>1, ServerReadsType DEF ServerReceives
  <2>3. create_ACK(d) \in Datagram /\ ABR \in Datagram
    BY <2>2, AckType, SignalTypes DEF Request
  <2>4. session # NoSession => session.addr \in Clients
    BY DEF ServerTypeOK, Session
  <2>5. CASE DenySYN(c, d) \/ HandleForeign(c, d)
    BY <2>5, <2>2, <2>3, ReplyType
    DEF DenySYN, HandleForeign, serverVars, NetTypeOK, ServerTypeOK
  <2>6. CASE AcceptSYN(c, d)
    <3>1. d.payload \in FileNames
      BY <2>6, <2>2 DEF AcceptSYN, Request
    <3>2. session' \in Session
      BY <2>6, <3>1
      DEF AcceptSYN, Session, Bit, Flip, SQN_START_VAL, JustLogged, SinceLog
    <3>3. files' \in [FileNames -> Seq(Chunks) \cup {NoFile}]
      BY <2>6, <3>1 DEF AcceptSYN, ServerTypeOK
    <3>4. files'[session'.file] # NoFile
      <4>1. session'.file = d.payload /\ files'[d.payload] = <<>>
        BY <2>6, <3>1 DEF AcceptSYN, ServerTypeOK
      <4>2. <<>> \in Seq(Chunks)
        OBVIOUS
      <4> QED BY <4>1, <4>2, NoValueAssumption
    <3> QED
      BY <2>6, <2>2, <2>3, <3>2, <3>3, <3>4, ReplyType, NoValueAssumption
      DEF AcceptSYN, NetTypeOK, ServerTypeOK
  <2>7. CASE HandleABR(c, d)
    <3>1. NetTypeOK'
      BY <2>7, <2>2, <2>3, ReplyType DEF HandleABR, NetTypeOK
    <3>2. CASE SameHost(c)
      <4>1. session \in Session
        BY <3>2 DEF SameHost, ServerTypeOK
      <4>2. Aborted \in Seq(Chunks) \cup {NoFile}
        BY <4>1 DEF Aborted, Session, ServerTypeOK
      <4>3. files' \in [FileNames -> Seq(Chunks) \cup {NoFile}]
        BY <2>7, <3>2, <4>1, <4>2 DEF HandleABR, Session, ServerTypeOK
      <4> QED
        BY <2>7, <2>2, <3>1, <3>2, <4>3 DEF HandleABR, ServerTypeOK
    <3>3. CASE ~SameHost(c)
      BY <2>7, <3>1, <3>3 DEF HandleABR, ServerTypeOK
    <3> QED BY <3>2, <3>3
  <2>8. CASE HandleDuplicate(c, d)
    BY <2>8, <2>2, <2>3, <2>4, ReplyType
    DEF HandleDuplicate, SameHost, serverVars, NetTypeOK, ServerTypeOK
  <2>9. CASE Acknowledge(c, d)
    <3>1. session \in Session /\ session # NoSession
      BY <2>9 DEF Acknowledge, SameHost, ServerTypeOK
    <3>2. session' \in Session /\ session'.file = session.file
      BY <2>9, <3>1 DEF Acknowledge, Session, Bit, Flip
    <3>3. d # NoDatagram
      BY <2>2, NoValueAssumption DEF Request
    <3> QED
      BY <2>9, <2>2, <2>3, <2>4, <3>1, <3>2, <3>3, ReplyType, NoValueAssumption
      DEF Acknowledge, NetTypeOK, ServerTypeOK, Running
  <2> QED BY <1>1, <2>5, <2>6, <2>7, <2>8, <2>9 DEF HandleIntact
<1>2. ASSUME NEW c \in Clients, NEW d, HandleCorrupt(c, d)
      PROVE  NetTypeOK' /\ ServerTypeOK'
  <2>1. srv = "recv" /\ toServer' \in [Clients -> Seq(Request)]
    BY <1>2, ServerReadsType DEF HandleCorrupt, ServerReceives
  <2>2. session # NoSession => AGN(session.sqn) \in Datagram
    BY SignalTypes DEF ServerTypeOK, Session
  <2> QED
    BY <1>2, <2>1, <2>2, ReplyType
    DEF HandleCorrupt, NetTypeOK, ServerTypeOK, Down
<1>3. ASSUME NEW c \in Clients, NEW d, FailToOpen(c, d)
      PROVE  NetTypeOK' /\ ServerTypeOK'
  <2>1. srv = "recv" /\ d \in Request /\ toServer' \in [Clients -> Seq(Request)]
    BY <1>3, ServerReadsType DEF FailToOpen, ServerReceives
  <2>2. d.payload \in FileNames
    BY <1>3, <2>1 DEF FailToOpen, Request
  <2> QED
    BY <1>3, <2>1, <2>2 DEF FailToOpen, NetTypeOK, ServerTypeOK, Down
<1>4. CASE FinishUpload
  BY <1>4 DEF FinishUpload, netVars, NetTypeOK, ServerTypeOK, Down, Running
<1>5. CASE WriteBytes
  <2>1. pending \in Request /\ session \in Session /\ session # NoSession
    BY <1>5 DEF WriteBytes, ServerTypeOK
  <2>2. CASE pending.flags \ {"SQN"} = {}
    <3>1. pending.payload \in Chunks
      BY <2>1, <2>2 DEF Request
    <3>2. PICK good \in BOOLEAN :
            /\ session' = [session EXCEPT
                             !.good = good, !.written = TRUE,
                             !.since = IF @ = 2 THEN JustLogged ELSE @]
            /\ files' = IF good
                          THEN [files EXCEPT ![session.file] =
                                                Append(@, pending.payload)]
                          ELSE files
      BY <1>5, <2>1, <2>2 DEF WriteBytes, Session
    <3>3. session' \in Session /\ session'.file = session.file
      <4> DEFINE since == IF session.since = 2 THEN JustLogged ELSE session.since
      <4>1. since \in SinceLog
        BY <2>1 DEF Session, JustLogged, SinceLog
      <4>2. session' = [session EXCEPT !.good = good, !.written = TRUE,
                                       !.since = since]
        BY <2>1, <3>2 DEF Session
      <4> HIDE DEF since
      <4> QED BY <2>1, <4>1, <4>2 DEF Session
    <3>4. files[session.file] \in Seq(Chunks) /\ session.file \in FileNames
      BY <2>1 DEF ServerTypeOK, Session
    <3>5. Append(files[session.file], pending.payload) \in Seq(Chunks)
      BY <3>1, <3>4, AppendProperties
    <3>6. /\ files' \in [FileNames -> Seq(Chunks) \cup {NoFile}]
          /\ files'[session.file] # NoFile
      BY <3>2, <3>4, <3>5, NoValueAssumption DEF ServerTypeOK
    <3> QED
      BY <1>5, <3>3, <3>6
      DEF WriteBytes, netVars, NetTypeOK, ServerTypeOK, Running
  <2>3. CASE pending.flags \ {"SQN"} # {}
    BY <1>5, <2>3 DEF WriteBytes, netVars, NetTypeOK, ServerTypeOK, Running
  <2> QED BY <2>2, <2>3
<1>6. CASE Tick
  <2>1. session \in Session
    BY <1>6 DEF Tick, ServerTypeOK
  <2>2. session' \in Session /\ session'.file = session.file
    BY <1>6, <2>1 DEF Tick, Session, SinceLog
  <2> QED
    BY <1>6, <2>2, NoValueAssumption DEF Tick, netVars, NetTypeOK, ServerTypeOK
<1>7. CASE ServerInterrupted
  <2>1. session # NoSession => session.addr \in Clients
    BY DEF ServerTypeOK, Session
  <2>2. ABR \in Datagram
    BY SignalTypes DEF Request
  <2>3. NetTypeOK'
    BY <1>7, <2>1, <2>2, ReplyType DEF ServerInterrupted, NetTypeOK
  <2> QED
    BY <1>7, <2>3 DEF ServerInterrupted, ServerTypeOK, Down
<1>8. CASE ServerStart
  BY <1>8 DEF ServerStart, netVars, NetTypeOK, ServerTypeOK, Running, Down
<1>9. ASSUME NEW c \in Clients, DropUndeliverable(c)
      PROVE  NetTypeOK' /\ ServerTypeOK'
  BY <1>9 DEF DropUndeliverable, serverVars, NetTypeOK, ServerTypeOK
<1>10. ASSUME NEW c \in Clients, NEW d, InterruptedReplacing(c, d)
      PROVE  NetTypeOK' /\ ServerTypeOK'
  <2>1. srv = "recv" /\ d \in Request /\ toServer' \in [Clients -> Seq(Request)]
    BY <1>10, ServerReadsType DEF InterruptedReplacing, ServerReceives
  <2>2. d.payload \in FileNames
    BY <1>10, <2>1 DEF InterruptedReplacing, Request
  <2>3. toClient' \in [Clients -> Seq(Datagram)]
    <3>1. ABR \in Datagram
      BY SignalTypes DEF Request
    <3>2. UNCHANGED toClient \/ Reply(c, ABR)
      BY <1>10 DEF InterruptedReplacing
    <3> QED BY <3>1, <3>2, ReplyType DEF NetTypeOK
  <2>4. files' \in [FileNames -> Seq(Chunks) \cup {NoFile}]
    <3>1. PICK left \in {NoFile, <<>>} : files' = [files EXCEPT ![d.payload] = left]
      BY <1>10 DEF InterruptedReplacing
    <3>2. left = NoFile \/ left = <<>>
      BY <3>1
    <3>3. left \in Seq(Chunks) \cup {NoFile}
      <4>1. <<>> \in Seq(Chunks)
        OBVIOUS
      <4> QED BY <3>2, <4>1, Zenon
    <3> QED BY <2>2, <3>1, <3>3 DEF ServerTypeOK
  <2>5. /\ srv' = "stopped" /\ session' = NoSession
        /\ pending' = pending /\ pending = NoDatagram
    BY <1>10, <2>1 DEF InterruptedReplacing, ServerTypeOK
  <2>6. toServer' \in [Clients -> Seq(Request)]
    BY <2>1
  <2>7. NetTypeOK'
    BY <2>3, <2>6 DEF NetTypeOK
  <2>8. ServerTypeOK'
    BY <2>4, <2>5 DEF ServerTypeOK, Running, Down
  <2> QED BY <2>7, <2>8
<1> QED
  BY <1>1, <1>2, <1>3, <1>4, <1>5, <1>6, <1>7, <1>8, <1>9, <1>10
  DEF ServerNext, HandlePending

LEMMA SendAfreshType ==
  ASSUME NetTypeOK, ClientTypeOK, NEW c \in Clients, NEW d \in Request,
         SendAfresh(c, d)
  PROVE  toServer' \in [Clients -> Seq(Request)] /\ retries' \in [Clients -> Nat]
BY TransmitType DEF SendAfresh, ClientTypeOK

LEMMA ClientStepType ==
  ASSUME TypeInv, NEW c \in Clients, ClientNext(c)
  PROVE  NetTypeOK' /\ ClientTypeOK' /\ DoneAtEnd'
<1> USE DEF TypeInv, TypeOK, InHandler
<1>1. pos[c] \in Nat /\ sqn[c] \in Bit /\ Flip(sqn[c]) \in Bit
  BY DEF ClientTypeOK, Bit, Flip
<1>2. Current(c) \in Request /\ Outgoing(c, pos[c] + 1, Flip(sqn[c])) \in Request
  <2>1. pos[c] \in Int /\ pos[c] + 1 \in Int
    BY <1>1
  <2> QED BY <1>1, <2>1, OutgoingFacts DEF Current
<1>3. ABR \in Request
  BY SignalTypes
<1>4. pc[c] \in {"start", "wait"} \cup InHandler => pos[c] + 1 <= LastPos(c)
  BY <1>1, LastPosType DEF ClientTypeOK, DoneAtEnd
<1>5. ASSUME NEW d, ReceiveIntact(c, d)
      PROVE  NetTypeOK' /\ ClientTypeOK' /\ DoneAtEnd'
  <2>1. d \in Datagram /\ toClient' \in [Clients -> Seq(Datagram)]
    BY <1>5, ClientReadsType
    DEF ReceiveIntact, Denied, Advance, Resend, ClientReceives,
        AbortAcknowledged, AbortUnanswered
  <2>2. CASE Denied(c, d) \/ AbortAcknowledged(c, d)
    BY <2>2, <2>1, <1>4, LastPosType
    DEF Denied, AbortAcknowledged, ClientReceives, NetTypeOK, ClientTypeOK,
        DoneAtEnd, Ended
  <2>3. CASE Advance(c, d)
    <3>1. pc[c] = "wait" /\ pos' = [pos EXCEPT ![c] = @ + 1]
          /\ sqn' = [sqn EXCEPT ![c] = Flip(@)]
      BY <2>3 DEF Advance, ClientReceives
    <3>2. CASE pos[c] + 1 = LastPos(c)
      <4>1. pc' = [pc EXCEPT ![c] = "done"] /\ UNCHANGED <<retries, toServer>>
        BY <2>3, <3>2 DEF Advance
      <4> QED
        BY <1>1, <2>1, <3>1, <3>2, <4>1, LastPosType
        DEF NetTypeOK, ClientTypeOK, DoneAtEnd, Ended, LastPos
    <3>3. CASE pos[c] + 1 # LastPos(c)
      <4>1. SendAfresh(c, Outgoing(c, pos[c] + 1, Flip(sqn[c]))) /\ UNCHANGED pc
        BY <2>3, <3>3 DEF Advance
      <4>2. /\ toServer' \in [Clients -> Seq(Request)]
            /\ retries' \in [Clients -> Nat]
        BY <4>1, <1>2, SendAfreshType
      <4>3. pos[c] + 1 < LastPos(c)
        BY <1>1, <1>4, <3>1, <3>3, LastPosType
      <4>4. NetTypeOK'
        BY <2>1, <4>2 DEF NetTypeOK
      <4>5. pos' \in [Clients -> Nat] /\ sqn' \in [Clients -> Bit]
        BY <1>1, <3>1 DEF ClientTypeOK
      <4>6. \A o \in Clients : pos'[o] <= LastPos(o)
        BY <1>1, <3>1, <4>3, LastPosType DEF ClientTypeOK
      <4>7. ClientTypeOK'
        BY <4>1, <4>2, <4>5, <4>6 DEF ClientTypeOK, LastPos
      <4>8. DoneAtEnd'
        BY <1>1, <3>1, <4>1, <4>3 DEF ClientTypeOK, DoneAtEnd, LastPos
      <4> QED BY <4>4, <4>7, <4>8
    <3> QED BY <3>2, <3>3
  <2>4. CASE Resend(c, d) \/ AbortUnanswered(c, d)
    <3>1. toServer' \in [Clients -> Seq(Request)] /\ retries' \in [Clients -> Nat]
      BY <2>4, <1>2, <1>3, SendAfreshType DEF Resend, AbortUnanswered
    <3>2. UNCHANGED <<pc, pos, sqn>>
      BY <2>4 DEF Resend, AbortUnanswered
    <3> QED
      BY <2>1, <3>1, <3>2 DEF NetTypeOK, ClientTypeOK, DoneAtEnd, LastPos
  <2> QED BY <1>5, <2>2, <2>3, <2>4 DEF ReceiveIntact
<1>6. ASSUME NEW d, ClientReceivesCorrupt(c, d)
      PROVE  NetTypeOK' /\ ClientTypeOK' /\ DoneAtEnd'
  <2>1. d \in Datagram /\ toClient' \in [Clients -> Seq(Datagram)]
    BY <1>6, ClientReadsType DEF ClientReceivesCorrupt
  <2>2. toServer' \in [Clients -> Seq(Request)] /\ retries' \in [Clients -> Nat]
    BY <1>6, <1>2, <1>3, SendAfreshType
    DEF ClientReceivesCorrupt, NetTypeOK, ClientTypeOK
  <2>3. /\ pc[c] \in {"wait"} \cup InHandler
        /\ UNCHANGED pc \/ pc' = [pc EXCEPT ![c] = "crashed"]
        /\ UNCHANGED <<pos, sqn>>
    BY <1>6 DEF ClientReceivesCorrupt
  <2> QED
    BY <1>4, <2>1, <2>2, <2>3
    DEF NetTypeOK, ClientTypeOK, DoneAtEnd, Ended, LastPos
<1>7. CASE ClientStart(c)
  <2>1. toServer' \in [Clients -> Seq(Request)]
    BY <1>7, <1>2, TransmitType DEF ClientStart
  <2> QED
    BY <1>7, <1>4, <2>1
    DEF ClientStart, NetTypeOK, ClientTypeOK, DoneAtEnd, LastPos
<1>8. CASE ClientTimeout(c) \/ AbortTimeout(c)
  <2>1. PICK d \in Request, max \in {MaxTimeouts, AbortTimeouts} :
          SendAgain(c, d, max)
    BY <1>8, <1>2, <1>3 DEF ClientTimeout, AbortTimeout
  <2>2. toServer' \in [Clients -> Seq(Request)]
    BY <2>1, TransmitType DEF SendAgain
  <2>3. retries' \in [Clients -> Nat]
    BY <2>1 DEF SendAgain, ClientTypeOK
  <2> QED
    BY <2>1, <2>2, <2>3
    DEF SendAgain, NetTypeOK, ClientTypeOK, DoneAtEnd, LastPos
<1>9. CASE ClientGivesUp(c) \/ AbortGivesUp(c)
  BY <1>9, <1>4
  DEF ClientGivesUp, AbortGivesUp, netVars, NetTypeOK, ClientTypeOK, DoneAtEnd,
      Ended, LastPos
<1>10. CASE ClientInterrupted(c)
  <2>1. toServer' \in [Clients -> Seq(Request)]
    BY <1>10, <1>3, TransmitType DEF ClientInterrupted, SendAfresh
  <2> QED
    BY <1>10, <1>4, <2>1
    DEF ClientInterrupted, SendAfresh, NetTypeOK, ClientTypeOK, DoneAtEnd, LastPos
<1> QED
  BY <1>5, <1>6, <1>7, <1>8, <1>9, <1>10 DEF ClientNext, Expire

LEMMA TypeStep == TypeInv /\ [Next]_vars => TypeInv'
<1> SUFFICES ASSUME TypeInv, [Next]_vars PROVE TypeInv'
  OBVIOUS
<1> USE DEF TypeInv, TypeOK
<1>1. CASE ServerNext /\ UNCHANGED clientVars
  BY <1>1, ServerStepType DEF clientVars, ClientTypeOK, DoneAtEnd, LastPos
<1>2. ASSUME NEW c \in Clients, ClientNext(c), UNCHANGED serverVars
      PROVE  TypeInv'
  BY <1>2, ClientStepType DEF serverVars, ServerTypeOK
<1>3. CASE NetworkNext /\ UNCHANGED <<serverVars, clientVars>>
  BY <1>3, LossType
  DEF NetworkNext, serverVars, clientVars, ServerTypeOK, ClientTypeOK, DoneAtEnd,
      LastPos
<1>4. CASE UNCHANGED vars
  BY <1>4
  DEF vars, netVars, serverVars, clientVars, NetTypeOK, ServerTypeOK,
      ClientTypeOK, DoneAtEnd, LastPos
<1> QED BY <1>1, <1>2, <1>3, <1>4 DEF Next

LEMMA TypeInvariance == Spec => []TypeInv
BY TypeInit, TypeStep, PTL DEF Spec

\* Every variable keeps its type, whatever faults occur: in particular a client
\* is never past the end of its file, the server only ever appends to a file
\* that exists, and it handles datagrams only within a session.
THEOREM TypeCorrect == Spec => []TypeOK
BY TypeInvariance, PTL DEF TypeInv

=============================================================================
