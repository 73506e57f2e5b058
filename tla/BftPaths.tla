------------------------------ MODULE BftPaths ------------------------------
(***************************************************************************)
(* Facts about the path of one client: what reading, losing, sending and   *)
(* answering leave of the order of its datagrams and its answers.          *)
(***************************************************************************)
EXTENDS BftInvariant, BftTypes

(***************************************************************************)
(* Queues: reading from an ordered one, and appending.                     *)
(***************************************************************************)

\* Reading takes the head; what is left is the queue, or the queue shifted by
\* one, so that whatever holds of the order of its elements goes on holding.
LEMMA ReadingShifts ==
  ASSUME InOrder, NEW S, NEW q \in Seq(S), NEW i \in Positions(q),
         NEW rest \in Remaining(q, i)
  PROVE  /\ i = 1 /\ 1 \in DOMAIN q
         /\ \E o \in {0, 1} : /\ Len(rest) = Len(q) - o
                              /\ \A k \in DOMAIN rest : rest[k] = q[k + o]
<1>1. i = 1 /\ 1 \in DOMAIN q
  BY DEF Positions, InOrder
<1>2. rest \in {RemoveAt(q, 1), q} /\ Len(q) \in Nat
  BY <1>1 DEF Remaining
<1>3. CASE rest = q
  BY <1>1, <1>2, <1>3
<1>4. CASE rest = RemoveAt(q, 1)
  <2>1. Len(rest) = Len(q) - 1 /\ \A k \in DOMAIN rest : rest[k] = q[k + 1]
    <3> DEFINE tail == SubSeq(q, 2, Len(q))
    <3>1. RemoveAt(q, 1) = <<>> \o tail
      BY SubSeqEmpty DEF RemoveAt
    <3>2. \A k \in 2..Len(q) : q[k] \in S
      BY ElementOfSeq
    <3>3. 2 \in Int /\ Len(q) \in Int /\ Len(q) >= 1
      BY <1>1, <1>2
    <3>4. /\ tail \in Seq(S)
          /\ Len(tail) = IF 2 <= Len(q) THEN Len(q) - 2 + 1 ELSE 0
          /\ \A k \in 1..(Len(q) - 2 + 1) : tail[k] = q[2 + k - 1]
      BY <3>2, <3>3, SubSeqProperties
    <3>5. rest = tail
      BY <1>4, <3>1, <3>4, ConcatEmptySeq
    <3> HIDE DEF tail
    <3>6. Len(tail) = Len(q) - 1 /\ DOMAIN tail = 1..(Len(q) - 1)
      <4>1. DOMAIN tail = 1..Len(tail)
        BY <3>4, LenProperties
      <4>2. Len(tail) = IF 2 <= Len(q) THEN Len(q) - 2 + 1 ELSE 0
        BY <3>4
      <4>3. \A n \in Int : n >= 1 => (IF 2 <= n THEN n - 2 + 1 ELSE 0) = n - 1
        OBVIOUS
      <4>4. Len(tail) = Len(q) - 1
        BY <3>3, <4>2, <4>3
      <4> QED BY <4>1, <4>4
    <3>7. \A k \in 1..(Len(q) - 1) : k \in 1..(Len(q) - 2 + 1) /\ 2 + k - 1 = k + 1
      BY <3>3
    <3>8. \A k \in 1..(Len(q) - 1) : tail[k] = q[k + 1]
      BY <3>4, <3>7
    <3> QED BY <3>5, <3>6, <3>8
  <2> QED BY <1>1, <2>1
<1> QED BY <1>2, <1>3, <1>4

\* r is what is left of q: whatever holds of the order of q holds of r.
Keeps(q, r) ==
  /\ q = <<>> => r = <<>>
  /\ \A T : OnlyFrom(q, T) => OnlyFrom(r, T)
  /\ \A x : NoneOf(q, x) => NoneOf(r, x)
  /\ \A x, y : NeverAfter(q, x, y) => NeverAfter(r, x, y)
  /\ \A x : OnlyAfter(q, x) => OnlyAfter(r, x)

\* Reading keeps the order; what may not follow the head is not in the rest.
LEMMA ReadingKeeps ==
  ASSUME InOrder, NEW S, NEW q \in Seq(S), NEW i \in Positions(q),
         NEW rest \in Remaining(q, i)
  PROVE  /\ i = 1 /\ 1 \in DOMAIN q
         /\ Keeps(q, rest)
         /\ \A x, y : NeverAfter(q, x, y) /\ q[1] = x /\ x # y => NoneOf(rest, y)
         /\ \A x : OnlyAfter(q, x) /\ q[1] = x => OnlyFrom(rest, {x})
<1>1. rest \in Seq(S)
  BY RemainingType
<1>2. DOMAIN q = 1..Len(q) /\ DOMAIN rest = 1..Len(rest)
      /\ Len(q) \in Nat /\ Len(rest) \in Nat
  BY <1>1
<1>3. i = 1 /\ 1 \in DOMAIN q
  BY ReadingShifts
<1>4. PICK o \in {0, 1} : /\ Len(rest) = Len(q) - o
                          /\ \A k \in DOMAIN rest : rest[k] = q[k + o]
  BY ReadingShifts
<1>5. \A k \in DOMAIN rest : k + o \in DOMAIN q /\ rest[k] = q[k + o]
  BY <1>2, <1>4
<1>6. \A k, l \in DOMAIN rest : k < l => k + o < l + o
  BY <1>2, <1>4
<1>7. \A k \in DOMAIN rest : k + o = 1 \/ 1 < k + o
  BY <1>2, <1>4
<1>8. \A T : OnlyFrom(q, T) => OnlyFrom(rest, T)
  BY <1>5 DEF OnlyFrom
<1>9. \A x : NoneOf(q, x) => NoneOf(rest, x)
  BY <1>5 DEF NoneOf
<1>10. \A x, y : NeverAfter(q, x, y) => NeverAfter(rest, x, y)
  BY <1>5, <1>6 DEF NeverAfter
<1>11. \A x, y : NeverAfter(q, x, y) /\ q[1] = x /\ x # y => NoneOf(rest, y)
  BY <1>3, <1>5, <1>7 DEF NeverAfter, NoneOf
<1>12. \A x : OnlyAfter(q, x) => OnlyAfter(rest, x)
  BY <1>5, <1>6 DEF OnlyAfter
<1>13. \A x : OnlyAfter(q, x) /\ q[1] = x => OnlyFrom(rest, {x})
  BY <1>3, <1>5, <1>7 DEF OnlyAfter, OnlyFrom
<1>14. q # <<>>
  BY <1>2, <1>3
<1>15. Keeps(q, rest)
  BY <1>8, <1>9, <1>10, <1>12, <1>14 DEF Keeps
<1> QED BY <1>3, <1>11, <1>13, <1>15

\* Sending puts a datagram behind everything, or drops it.
LEMMA EnqueueKeeps ==
  ASSUME NEW S, NEW q \in Seq(S), NEW d \in S
  PROVE  LET r == Enqueue(q, d)
         IN  /\ \A T : OnlyFrom(q, T) /\ d \in T => OnlyFrom(r, T)
             /\ \A x : NoneOf(q, x) /\ d # x => NoneOf(r, x)
             /\ \A x, y : NeverAfter(q, x, y) /\ (d # y \/ NoneOf(q, x)) =>
                  NeverAfter(r, x, y)
             /\ \A x : OnlyAfter(q, x) /\ (d = x \/ NoneOf(q, x)) =>
                  OnlyAfter(r, x)
<1> DEFINE r == Enqueue(q, d)
<1>1. DOMAIN q = 1..Len(q) /\ Len(q) \in Nat
  OBVIOUS
<1>2. CASE r = q
  BY <1>2
<1>3. CASE r = Append(q, d)
  <2>1. DOMAIN r = 1..(Len(q) + 1)
    BY <1>3
  <2>2. /\ \A k \in DOMAIN q : r[k] = q[k]
        /\ r[Len(q) + 1] = d
    BY <1>3
  <2>3. \A k \in DOMAIN r : k \in DOMAIN q \/ k = Len(q) + 1
    BY <1>1, <2>1
  <2>4. \A k, l \in DOMAIN r : k < l => k \in DOMAIN q
    BY <1>1, <2>1
  <2> HIDE DEF r
  <2>5. \A T : OnlyFrom(q, T) /\ d \in T => OnlyFrom(r, T)
    BY <2>2, <2>3 DEF OnlyFrom
  <2>6. \A x : NoneOf(q, x) /\ d # x => NoneOf(r, x)
    BY <2>2, <2>3 DEF NoneOf
  <2>7. \A x, y : NeverAfter(q, x, y) /\ (d # y \/ NoneOf(q, x)) =>
          NeverAfter(r, x, y)
    BY <2>2, <2>3, <2>4 DEF NeverAfter, NoneOf
  <2>8. \A x : OnlyAfter(q, x) /\ (d = x \/ NoneOf(q, x)) => OnlyAfter(r, x)
    BY <2>2, <2>3, <2>4 DEF OnlyAfter, NoneOf
  <2> QED BY <2>5, <2>6, <2>7, <2>8 DEF r
<1> QED BY <1>2, <1>3 DEF Enqueue

\* An emptied queue.
LEMMA EmptyQueue ==
  /\ \A T : OnlyFrom(<<>>, T)
  /\ \A x : NoneOf(<<>>, x) /\ OnlyAfter(<<>>, x)
  /\ \A x, y : NeverAfter(<<>>, x, y)
  /\ \A q : Keeps(q, q) /\ Keeps(q, <<>>)
BY DEF OnlyFrom, NoneOf, NeverAfter, OnlyAfter, Keeps

-----------------------------------------------------------------------------
(***************************************************************************)
(* Datagrams: what tells the ones under way apart.                         *)
(***************************************************************************)
\* The ACK of a datagram of an upload is nothing else.
LEMMA AckFacts ==
  ASSUME NEW c \in Clients, NEW k \in Int, NEW s \in Bit
  PROVE  LET a == create_ACK(Outgoing(c, k, s))
         IN  /\ a \in Datagram
             /\ get_SQN(a) = s
             /\ "ACK" \in a.flags /\ "ABR" \notin a.flags /\ "AGN" \notin a.flags
             /\ a # create_ACK(ABR)
<1> DEFINE d == Outgoing(c, k, s)
           a == create_ACK(d)
<1>1. d \in Datagram /\ get_SQN(d) = s /\ d.flags \cap {"ACK", "ABR", "AGN"} = {}
  BY OutgoingFacts DEF Request
<1>2. a.flags = (IF s = 1 THEN d.flags \cup {"ACK", "SQN"} ELSE d.flags \cup {"ACK"})
  BY <1>1 DEF create_ACK, NewDatagram
<1>3. a \in Datagram
  BY <1>1, AckType
<1>4. "ACK" \in a.flags /\ "ABR" \notin a.flags /\ "AGN" \notin a.flags
  BY <1>1, <1>2
<1>5. get_SQN(a) = s
  BY <1>1, <1>2 DEF get_SQN, Bit
<1>6. "ABR" \in create_ACK(ABR).flags
  BY DEF create_ACK, ABR, NewDatagram, get_SQN, SQN_START_VAL
<1> QED BY <1>3, <1>4, <1>5, <1>6

\* ABR, its ACK and AGN.
LEMMA SignalFacts ==
  /\ is_ABR(ABR) /\ ~is_SYN(ABR) /\ IsAbort(ABR) /\ "ACK" \notin ABR.flags
  /\ IsAbort(create_ACK(ABR)) /\ is_ACK_for(create_ACK(ABR), ABR)
  /\ "ACK" \in create_ACK(ABR).flags
  /\ create_ACK(ABR) # ABR
  /\ \A s \in Bit : /\ get_SQN(AGN(s)) = s
                     /\ "ACK" \notin AGN(s).flags /\ "ABR" \notin AGN(s).flags
<1>1. ABR.flags = {"ABR"} /\ get_SQN(ABR) = 0
  BY DEF ABR, NewDatagram, get_SQN, SQN_START_VAL
<1>2. create_ACK(ABR).flags = {"ABR", "ACK"}
  BY <1>1 DEF create_ACK, NewDatagram
<1>3. get_SQN(create_ACK(ABR)) = 0
  BY <1>2 DEF get_SQN
<1>4. \A s \in Bit : AGN(s).flags = IF s = 1 THEN {"AGN", "SQN"} ELSE {"AGN"}
  BY DEF AGN, NewDatagram, Bit
<1>5. \A s \in Bit : get_SQN(AGN(s)) = s
  BY <1>4 DEF get_SQN, Bit
<1>6. is_ABR(ABR) /\ ~is_SYN(ABR) /\ IsAbort(ABR) /\ "ACK" \notin ABR.flags
  BY <1>1 DEF is_ABR, is_SYN, IsAbort, SQN_START_VAL
<1>7. IsAbort(create_ACK(ABR)) /\ "ACK" \in create_ACK(ABR).flags
  BY <1>2, <1>3 DEF IsAbort
<1>8. is_ACK_for(create_ACK(ABR), ABR)
  BY <1>1, <1>2, <1>3 DEF is_ACK_for
<1>9. create_ACK(ABR) # ABR
  BY <1>6, <1>7
<1>10. \A s \in Bit : "ACK" \notin AGN(s).flags /\ "ABR" \notin AGN(s).flags
  BY <1>4
<1> QED BY <1>5, <1>6, <1>7, <1>8, <1>9, <1>10

\* The datagrams of one client, and the answers to them, at one moment.
LEMMA Distinct ==
  ASSUME NEW c \in Clients, pos[c] \in Nat, sqn[c] \in Bit
  PROVE  /\ Current(c) # Previous(c) /\ Current(c) # ABR /\ Previous(c) # ABR
         /\ create_ACK(Current(c)) # create_ACK(Previous(c))
         /\ \A a \in {create_ACK(Current(c)), create_ACK(Previous(c))} :
              /\ a \notin {ABR, AGN(0), AGN(1), create_ACK(ABR)}
              /\ a \in Datagram
         /\ create_ACK(ABR) \notin {ABR, AGN(0), AGN(1)}
         /\ get_SQN(Current(c)) = sqn[c] /\ get_SQN(Previous(c)) = Flip(sqn[c])
         /\ Flip(sqn[c]) \in Bit /\ Flip(sqn[c]) # sqn[c]
<1>1. Flip(sqn[c]) \in Bit /\ Flip(sqn[c]) # sqn[c] /\ pos[c] - 1 \in Int /\ pos[c] \in Int
  BY DEF Flip, Bit
<1>2. /\ get_SQN(Current(c)) = sqn[c] /\ get_SQN(Previous(c)) = Flip(sqn[c])
      /\ Current(c) # ABR /\ Previous(c) # ABR
  BY <1>1, OutgoingFacts DEF Current, Previous
<1>3. /\ get_SQN(create_ACK(Current(c))) = sqn[c]
      /\ get_SQN(create_ACK(Previous(c))) = Flip(sqn[c])
      /\ \A a \in {create_ACK(Current(c)), create_ACK(Previous(c))} :
           "ACK" \in a.flags /\ a \in Datagram /\ a # create_ACK(ABR)
  BY <1>1, AckFacts DEF Current, Previous
<1>4. \A a \in {ABR, AGN(0), AGN(1)} : "ACK" \notin a.flags
  BY SignalFacts DEF Bit
<1> QED BY <1>1, <1>2, <1>3, <1>4, SignalFacts

-----------------------------------------------------------------------------
(***************************************************************************)
(* The path of one client.                                                 *)
(***************************************************************************)
\* A client with the path between it and the server.
Link(c) == ClientInv(c) /\ PathInv(c) /\ AbortInv(c)

Aborting == InHandler \cup {"killed", "crashed"}

\* The datagrams of c stay what they are.
SameUpload(c) == pos'[c] = pos[c] /\ sqn'[c] = sqn[c]

\* Reading a request, or losing it.
LEMMA ServerReadsFacts ==
  ASSUME InOrder, NetTypeOK, NEW c \in Clients, NEW d, ServerReads(c, d)
  PROVE  /\ Keeps(toServer[c], toServer'[c])
         /\ ~NoneOf(toServer[c], d)
         /\ \A T : OnlyFrom(toServer[c], T) => d \in T
         /\ \A y : NeverAfter(toServer[c], d, y) /\ d # y => NoneOf(toServer'[c], y)
         /\ OnlyAfter(toServer[c], d) => OnlyFrom(toServer'[c], {d})
         /\ \A o \in Clients \ {c} : toServer'[o] = toServer[o]
<1>1. PICK i \in Positions(toServer[c]) :
        /\ d = toServer[c][i]
        /\ \E rest \in Remaining(toServer[c], i) : toServer' = [toServer EXCEPT ![c] = rest]
  BY DEF ServerReads
<1>0. PICK rest \in Remaining(toServer[c], i) : toServer' = [toServer EXCEPT ![c] = rest]
  BY <1>1
<1>2. toServer[c] \in Seq(Request) /\ toServer'[c] = rest
  BY <1>0 DEF NetTypeOK
<1>3. /\ i = 1 /\ 1 \in DOMAIN toServer[c]
      /\ Keeps(toServer[c], rest)
      /\ \A x, y : NeverAfter(toServer[c], x, y) /\ toServer[c][1] = x /\ x # y =>
           NoneOf(rest, y)
      /\ \A x : OnlyAfter(toServer[c], x) /\ toServer[c][1] = x => OnlyFrom(rest, {x})
  BY <1>2, ReadingKeeps
<1>4. ~NoneOf(toServer[c], d) /\ \A T : OnlyFrom(toServer[c], T) => d \in T
  BY <1>1, <1>3 DEF NoneOf, OnlyFrom
<1>5. \A o \in Clients \ {c} : toServer'[o] = toServer[o]
  BY <1>0 DEF NetTypeOK
<1> QED BY <1>1, <1>2, <1>3, <1>4, <1>5

\* Reading an answer, or losing it.
LEMMA ClientReadsFacts ==
  ASSUME InOrder, NetTypeOK, NEW c \in Clients, NEW d, ClientReads(c, d)
  PROVE  /\ Keeps(toClient[c], toClient'[c])
         /\ ~NoneOf(toClient[c], d)
         /\ \A T : OnlyFrom(toClient[c], T) => d \in T
         /\ \A y : NeverAfter(toClient[c], d, y) /\ d # y => NoneOf(toClient'[c], y)
         /\ \A o \in Clients \ {c} : toClient'[o] = toClient[o]
<1>1. PICK i \in Positions(toClient[c]) :
        /\ d = toClient[c][i]
        /\ \E rest \in Remaining(toClient[c], i) : toClient' = [toClient EXCEPT ![c] = rest]
  BY DEF ClientReads
<1>0. PICK rest \in Remaining(toClient[c], i) : toClient' = [toClient EXCEPT ![c] = rest]
  BY <1>1
<1>2. toClient[c] \in Seq(Datagram) /\ toClient'[c] = rest
  BY <1>0 DEF NetTypeOK
<1>3. /\ i = 1 /\ 1 \in DOMAIN toClient[c]
      /\ Keeps(toClient[c], rest)
      /\ \A x, y : NeverAfter(toClient[c], x, y) /\ toClient[c][1] = x /\ x # y =>
           NoneOf(rest, y)
  BY <1>2, ReadingKeeps
<1>4. ~NoneOf(toClient[c], d) /\ \A T : OnlyFrom(toClient[c], T) => d \in T
  BY <1>1, <1>3 DEF NoneOf, OnlyFrom
<1>5. \A o \in Clients \ {c} : toClient'[o] = toClient[o]
  BY <1>0 DEF NetTypeOK
<1> QED BY <1>1, <1>2, <1>3, <1>4, <1>5

\* Datagrams and answers that get read or lost leave a sound path, whatever
\* becomes of the client that neither starts, ends its upload nor leaves Aborting.
LEMMA LinkKeeps ==
  ASSUME NEW c \in Clients, Link(c), SameUpload(c),
         Keeps(toServer[c], toServer'[c]), Keeps(toClient[c], toClient'[c]),
         pc'[c] = "done" <=> pc[c] = "done",
         pc'[c] = "start" => pc[c] = "start",
         pc[c] \in Aborting => pc'[c] \in Aborting
  PROVE  Link(c)'
<1>1. Current(c)' = Current(c) /\ Previous(c)' = Previous(c)
      /\ Sent(c)' = Sent(c) /\ Answers(c)' = Answers(c)
  BY DEF Current, Previous, Sent, Answers, SameUpload
<1>2. ClientInv(c)'
  BY DEF Link, ClientInv, SameUpload, Keeps, LastPos
<1>3. PathInv(c)'
  <2>1. PathInv(c)
    BY DEF Link
  <2> QED BY <1>1, <2>1 DEF PathInv, Keeps
<1>4. AbortInv(c)'
  <2>1. AbortInv(c)
    BY DEF Link
  <2> QED BY <1>1, <2>1 DEF AbortInv, Keeps, Aborting
<1> QED BY <1>2, <1>3, <1>4 DEF Link

\* The server answers: which answer may join those under way.
LEMMA LinkAnswered ==
  ASSUME NetTypeOK, ClientTypeOK, NEW c \in Clients, Link(c), SameUpload(c),
         pc'[c] = pc[c],
         Keeps(toServer[c], toServer'[c]),
         NEW a \in Datagram,
         toClient'[c] = Enqueue(toClient[c], a),
         a \in Answers(c),
         a = create_ACK(Previous(c)) => NoneOf(toClient[c], create_ACK(Current(c))),
         a = create_ACK(Current(c)) => NoneOf(toServer'[c], Previous(c)),
         a = create_ACK(ABR) => pc[c] \in Aborting /\ OnlyFrom(toServer'[c], {ABR})
  PROVE  Link(c)'
<1>1. Current(c)' = Current(c) /\ Previous(c)' = Previous(c)
      /\ Sent(c)' = Sent(c) /\ Answers(c)' = Answers(c)
  BY DEF Current, Previous, Sent, Answers, SameUpload
<1>2. toClient[c] \in Seq(Datagram) /\ pos[c] \in Nat /\ sqn[c] \in Bit
  BY DEF NetTypeOK, ClientTypeOK
<1>3. /\ \A T : OnlyFrom(toClient[c], T) /\ a \in T => OnlyFrom(toClient'[c], T)
      /\ \A x : NoneOf(toClient[c], x) /\ a # x => NoneOf(toClient'[c], x)
      /\ \A x, y : NeverAfter(toClient[c], x, y) /\ (a # y \/ NoneOf(toClient[c], x)) =>
           NeverAfter(toClient'[c], x, y)
  BY <1>2, EnqueueKeeps
<1>4. ClientInv(c)'
  BY DEF Link, ClientInv, SameUpload, Keeps, LastPos
<1>5. PathInv(c)'
  <2>1. PathInv(c)
    BY DEF Link
  <2>2. OnlyFrom(toServer'[c], Sent(c)) /\ NeverAfter(toServer'[c], Current(c), Previous(c))
    BY <2>1 DEF PathInv, Keeps
  <2>3. OnlyFrom(toClient'[c], Answers(c))
    BY <2>1, <1>3 DEF PathInv
  <2>4. NeverAfter(toClient'[c], create_ACK(Current(c)), create_ACK(Previous(c)))
    BY <2>1, <1>3 DEF PathInv
  <2>5. \/ NoneOf(toServer'[c], Previous(c))
        \/ NoneOf(toClient'[c], create_ACK(Current(c)))
    BY <2>1, <1>3 DEF PathInv, Keeps
  <2> QED BY <1>1, <2>2, <2>3, <2>4, <2>5 DEF PathInv
<1>6. AbortInv(c)'
  <2>1. AbortInv(c)
    BY DEF Link
  <2>2. pc[c] \notin Aborting =>
          NoneOf(toServer'[c], ABR) /\ NoneOf(toClient'[c], create_ACK(ABR))
    BY <2>1, <1>3 DEF AbortInv, Keeps, Aborting
  <2>3. OnlyAfter(toServer'[c], ABR)
    BY <2>1 DEF AbortInv, Keeps
  <2>4. NoneOf(toClient'[c], create_ACK(ABR)) \/ OnlyFrom(toServer'[c], {ABR})
    BY <2>1, <1>3 DEF AbortInv, Keeps
  <2> QED BY <2>2, <2>3, <2>4 DEF AbortInv, Aborting
<1> QED BY <1>4, <1>5, <1>6 DEF Link

\* The client sends its current datagram (again), or ABR, after it may have read.
LEMMA LinkSent ==
  ASSUME NetTypeOK, ClientTypeOK, NEW c \in Clients, Link(c), SameUpload(c),
         Keeps(toClient[c], toClient'[c]),
         NEW d \in {Current(c), ABR},
         toServer'[c] = Enqueue(toServer[c], d),
         IF d = ABR THEN /\ pc'[c] \in InHandler
                           /\ pc[c] \in {"start", "wait"} \cup InHandler
                    ELSE pc'[c] = "wait" /\ pc[c] \in {"start", "wait"}
  PROVE  Link(c)'
<1>1. Current(c)' = Current(c) /\ Previous(c)' = Previous(c)
      /\ Sent(c)' = Sent(c) /\ Answers(c)' = Answers(c)
  BY DEF Current, Previous, Sent, Answers, SameUpload
<1>2. toServer[c] \in Seq(Request) /\ pos[c] \in Nat /\ sqn[c] \in Bit
  BY DEF NetTypeOK, ClientTypeOK
<1>3. Current(c) # Previous(c) /\ Current(c) # ABR /\ Previous(c) # ABR
  BY <1>2, Distinct
<1>4. d \in Request
  <2>1. pos[c] \in Int
    BY <1>2
  <2>2. Current(c) \in Request /\ ABR \in Request
    BY <1>2, <2>1, OutgoingFacts, SignalTypes DEF Current
  <2> QED BY <2>2
<1>5. /\ \A T : OnlyFrom(toServer[c], T) /\ d \in T => OnlyFrom(toServer'[c], T)
      /\ \A x : NoneOf(toServer[c], x) /\ d # x => NoneOf(toServer'[c], x)
      /\ \A x, y : NeverAfter(toServer[c], x, y) /\ (d # y \/ NoneOf(toServer[c], x)) =>
           NeverAfter(toServer'[c], x, y)
      /\ \A x : OnlyAfter(toServer[c], x) /\ (d = x \/ NoneOf(toServer[c], x)) =>
           OnlyAfter(toServer'[c], x)
  BY <1>2, <1>4, EnqueueKeeps
<1>6. ClientInv(c)'
  BY DEF Link, ClientInv, SameUpload, LastPos, InHandler
<1>7. PathInv(c)'
  <2>1. PathInv(c)
    BY DEF Link
  <2>2. OnlyFrom(toServer'[c], Sent(c))
    BY <2>1, <1>5 DEF PathInv, Sent
  <2>3. NeverAfter(toServer'[c], Current(c), Previous(c))
    BY <2>1, <1>3, <1>5 DEF PathInv
  <2>4. \/ NoneOf(toServer'[c], Previous(c))
        \/ NoneOf(toClient'[c], create_ACK(Current(c)))
    BY <2>1, <1>3, <1>5 DEF PathInv, Keeps
  <2>5. /\ OnlyFrom(toClient'[c], Answers(c))
        /\ NeverAfter(toClient'[c], create_ACK(Current(c)), create_ACK(Previous(c)))
    BY <2>1 DEF PathInv, Keeps
  <2> QED BY <1>1, <2>2, <2>3, <2>4, <2>5 DEF PathInv
<1>8. AbortInv(c)'
  <2>1. AbortInv(c)
    BY DEF Link
  <2>2. NoneOf(toClient[c], create_ACK(ABR)) => NoneOf(toClient'[c], create_ACK(ABR))
    BY DEF Keeps
  <2>3. CASE d = ABR
    <3>1. OnlyAfter(toServer'[c], ABR)
      BY <2>1, <2>3, <1>5 DEF AbortInv
    <3>2. OnlyFrom(toServer[c], {ABR}) => OnlyFrom(toServer'[c], {ABR})
      BY <2>3, <1>5
    <3> QED BY <2>1, <2>2, <2>3, <3>1, <3>2 DEF AbortInv
  <2>4. CASE d # ABR
    <3>1. NoneOf(toServer[c], ABR) /\ NoneOf(toClient[c], create_ACK(ABR))
      BY <2>1, <2>4 DEF AbortInv, InHandler
    <3>2. NoneOf(toServer'[c], ABR) /\ OnlyAfter(toServer'[c], ABR)
      BY <2>1, <2>4, <3>1, <1>5 DEF AbortInv
    <3> QED BY <2>2, <3>1, <3>2 DEF AbortInv
  <2> QED BY <2>3, <2>4
<1> QED BY <1>6, <1>7, <1>8 DEF Link

\* The client has read the ACK it waits for, and sends the next datagram or is
\* done: what was current becomes previous.
LEMMA LinkAdvanced ==
  ASSUME NetTypeOK, ClientTypeOK, NEW c \in Clients, Link(c), pc[c] = "wait",
         ~NoneOf(toClient[c], create_ACK(Current(c))),
         Keeps(toClient[c], toClient'[c]),
         NoneOf(toClient'[c], create_ACK(Previous(c))),
         pos'[c] = pos[c] + 1, sqn'[c] = Flip(sqn[c]),
         \/ pc'[c] = "wait" /\ toServer'[c] = Enqueue(toServer[c], Current(c)')
            /\ pos'[c] # LastPos(c)
         \/ pc'[c] = "done" /\ toServer'[c] = toServer[c] /\ pos'[c] = LastPos(c)
  PROVE  /\ Link(c)'
         /\ Previous(c)' = Current(c)
         /\ NoneOf(toClient'[c], create_ACK(Current(c)'))
<1>1. /\ toServer[c] \in Seq(Request) /\ pos[c] \in Nat /\ sqn[c] \in Bit
      /\ pos'[c] \in Nat /\ pos'[c] > 0 /\ sqn'[c] \in Bit /\ Flip(sqn'[c]) = sqn[c]
  BY DEF NetTypeOK, ClientTypeOK, Bit, Flip
<1>2. /\ Current(c) # Previous(c) /\ Current(c) # ABR /\ Previous(c) # ABR
      /\ create_ACK(Current(c)) # create_ACK(Previous(c))
      /\ create_ACK(Current(c)) \notin {ABR, AGN(0), AGN(1), create_ACK(ABR)}
  BY <1>1, Distinct
<1>3. Previous(c)' = Current(c)
  <2>1. pos'[c] - 1 = pos[c]
    BY <1>1
  <2> QED BY <1>1, <2>1 DEF Previous, Current
<1>4. Current(c)' = Outgoing(c, pos[c] + 1, Flip(sqn[c]))
  BY DEF Current
<1> DEFINE N == Outgoing(c, pos[c] + 1, Flip(sqn[c]))
<1>5. /\ N \in Request /\ get_SQN(N) = Flip(sqn[c]) /\ N # ABR
      /\ get_SQN(create_ACK(N)) = Flip(sqn[c]) /\ "ACK" \in create_ACK(N).flags
      /\ create_ACK(N) # create_ACK(ABR)
      /\ get_SQN(Current(c)) = sqn[c] /\ get_SQN(create_ACK(Current(c))) = sqn[c]
      /\ Flip(sqn[c]) # sqn[c]
  <2>1. pos[c] + 1 \in Int /\ pos[c] \in Int /\ Flip(sqn[c]) \in Bit
        /\ Flip(sqn[c]) # sqn[c]
    BY <1>1 DEF Flip, Bit
  <2> QED BY <1>1, <2>1, OutgoingFacts, AckFacts DEF Current
<1> HIDE DEF N
<1>6. N # Current(c) /\ create_ACK(N) # create_ACK(Current(c))
  BY <1>5
<1>7. create_ACK(N) \notin {ABR, AGN(0), AGN(1), create_ACK(ABR)}
  BY <1>5, SignalFacts DEF Bit
<1>8. PathInv(c) /\ AbortInv(c) /\ ClientInv(c)
  BY DEF Link
<1>9. OnlyFrom(toServer[c], {Current(c)})
  <2>1. NoneOf(toServer[c], Previous(c)) /\ NoneOf(toServer[c], ABR)
    BY <1>8 DEF PathInv, AbortInv, InHandler
  <2> QED BY <1>8, <2>1 DEF PathInv, Sent, OnlyFrom, NoneOf
<1>10. OnlyFrom(toClient'[c], {create_ACK(Current(c)), ABR, AGN(0), AGN(1)})
  <2>1. NoneOf(toClient'[c], create_ACK(ABR))
    BY <1>8 DEF AbortInv, Keeps, InHandler
  <2>2. OnlyFrom(toClient'[c], Answers(c))
    BY <1>8 DEF PathInv, Keeps
  <2> QED BY <2>1, <2>2 DEF Answers, OnlyFrom, NoneOf
<1>11. /\ OnlyFrom(toServer'[c], {Current(c), N})
       /\ NeverAfter(toServer'[c], N, Current(c))
       /\ NoneOf(toServer'[c], ABR)
  <2>1. /\ OnlyFrom(toServer[c], {Current(c), N})
        /\ NoneOf(toServer[c], N)
        /\ NoneOf(toServer[c], ABR)
    BY <1>2, <1>6, <1>9 DEF OnlyFrom, NoneOf
  <2>2. NeverAfter(toServer[c], N, Current(c))
    BY <2>1 DEF NoneOf, NeverAfter
  <2>3. CASE toServer'[c] = toServer[c]
    BY <2>1, <2>2, <2>3
  <2>4. CASE toServer'[c] = Enqueue(toServer[c], N)
    BY <1>1, <1>5, <2>1, <2>2, <2>4, EnqueueKeeps
  <2> QED BY <1>4, <2>3, <2>4 DEF N
<1>12. /\ NoneOf(toClient'[c], create_ACK(N)) /\ NoneOf(toClient'[c], create_ACK(ABR))
  <2>1. NoneOf(toClient'[c], create_ACK(ABR))
    BY <1>8 DEF AbortInv, Keeps, InHandler
  <2> QED BY <1>2, <1>6, <1>7, <1>10, <2>1 DEF OnlyFrom, NoneOf
<1>13. ClientInv(c)'
  <2>1. pc'[c] = "done" <=> pos'[c] = LastPos(c)'
    BY DEF LastPos
  <2>2. pos'[c] # 0 /\ (pos'[c] = 1 => pos[c] = 0)
    BY <1>1
  <2>3. pos'[c] = 1 => sqn'[c] = 1
    BY <1>8, <2>2 DEF ClientInv, Flip
  <2> QED BY <2>1, <2>2, <2>3 DEF ClientInv
<1>14. PathInv(c)'
  <2>1. Sent(c)' = {N, ABR, Current(c)}
    BY <1>1, <1>3, <1>4 DEF Sent, N
  <2>2. {create_ACK(Current(c)), ABR, AGN(0), AGN(1)} \subseteq Answers(c)'
    BY <1>1, <1>3 DEF Answers
  <2>3. OnlyFrom(toServer'[c], Sent(c)')
    BY <1>11, <2>1 DEF OnlyFrom
  <2>4. OnlyFrom(toClient'[c], Answers(c)')
    BY <1>10, <2>2 DEF OnlyFrom
  <2>5. NeverAfter(toClient'[c], create_ACK(N), create_ACK(Current(c)))
    BY <1>12 DEF NoneOf, NeverAfter
  <2>6. Current(c)' = N
    BY <1>4 DEF N
  <2> QED BY <1>3, <1>11, <1>12, <2>3, <2>4, <2>5, <2>6 DEF PathInv
<1>15. AbortInv(c)'
  <2>1. OnlyAfter(toServer'[c], ABR)
    BY <1>11 DEF NoneOf, OnlyAfter
  <2> QED BY <1>11, <1>12, <2>1 DEF AbortInv
<1>16. NoneOf(toClient'[c], create_ACK(Current(c)'))
  BY <1>4, <1>12 DEF N
<1> QED BY <1>3, <1>13, <1>14, <1>15, <1>16 DEF Link

=============================================================================
