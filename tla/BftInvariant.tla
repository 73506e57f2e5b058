---------------------------- MODULE BftInvariant ----------------------------
(***************************************************************************)
(* The inductive invariant behind the safety properties of Bft: what may   *)
(* be under way between a client and the server at any moment.             *)
(***************************************************************************)
EXTENDS Bft

\* The path keeps the order of datagrams.
InOrder == "reorder" \notin Faults

\* Every write to the server's disk succeeds.
DiskWorks == "disk" \notin Faults

\* Nobody stops the server with CTRL+C or starts it anew.
NobodyStops == "stop" \notin Faults /\ "restart" \notin Faults

\* No two clients share an IP address.
OwnAddresses == \A c, o \in Clients : Host[c] = Host[o] => c = o

-----------------------------------------------------------------------------
(***************************************************************************)
(* Queues: all elements are in S; x does not occur; y never follows x;     *)
(* only x follows x.                                                       *)
(***************************************************************************)
OnlyFrom(q, S) == \A i \in DOMAIN q : q[i] \in S

NoneOf(q, x) == \A i \in DOMAIN q : q[i] # x

NeverAfter(q, x, y) ==
  \A i, j \in DOMAIN q : i < j /\ q[i] = x => q[j] # y

OnlyAfter(q, x) ==
  \A i, j \in DOMAIN q : i < j /\ q[i] = x => q[j] = x

-----------------------------------------------------------------------------
\* The datagram before the current one, whose ACK the client has seen.
Previous(c) == Outgoing(c, pos[c] - 1, Flip(sqn[c]))

\* What may be under way: the current datagram, the one before it, an ABR.
Sent(c) ==
  {Current(c), ABR} \cup (IF pos[c] > 0 THEN {Previous(c)} ELSE {})

Answers(c) ==
  {create_ACK(Current(c)), create_ACK(ABR), ABR, AGN(0), AGN(1)}
    \cup (IF pos[c] > 0 THEN {create_ACK(Previous(c))} ELSE {})

\* The client's own variables.
ClientInv(c) ==
  /\ pc[c] = "done" <=> pos[c] = LastPos(c)
  /\ pos[c] = 0 => sqn[c] = 0
  /\ pos[c] = 1 => sqn[c] = 1
  /\ pc[c] = "start" => toServer[c] = <<>>

\* The path of one client: the order of its datagrams, and of its answers.
PathInv(c) ==
  /\ OnlyFrom(toServer[c], Sent(c))
  /\ OnlyFrom(toClient[c], Answers(c))
  /\ NeverAfter(toServer[c], Current(c), Previous(c))
  /\ NeverAfter(toClient[c], create_ACK(Current(c)), create_ACK(Previous(c)))
  /\ \/ NoneOf(toServer[c], Previous(c))
     \/ NoneOf(toClient[c], create_ACK(Current(c)))

\* An ABR is the last thing a client says.
AbortInv(c) ==
  /\ pc[c] \notin InHandler \cup {"killed", "crashed"} =>
       NoneOf(toServer[c], ABR) /\ NoneOf(toClient[c], create_ACK(ABR))
  /\ OnlyAfter(toServer[c], ABR)
  /\ \/ NoneOf(toClient[c], create_ACK(ABR))
     \/ OnlyFrom(toServer[c], {ABR})

\* How many datagrams after the SYN the server has acknowledged: as many as
\* its client has sent, or all but the current one.
Acknowledged(c) == IF session.sqn = sqn[c] THEN pos[c] - 1 ELSE pos[c]

\* The file of c holds its first n chunks, or, once the file stream has failed,
\* fewer of them.
Holds(c, n) ==
  IF session.good THEN files[Name[c]] = SubSeq(File[c], 1, n)
                  ELSE \E k \in 0..n : files[Name[c]] = SubSeq(File[c], 1, k)

\* The session is in step with its client.
SessionInv(c) ==
  /\ session.file = Name[c]
  /\ DiskWorks => session.good
  /\ session.written \/ files[Name[c]] = <<>>
  /\ DiskWorks /\ session.written => files[Name[c]] # <<>>
  /\ pc[c] # "start"
  /\ IF session.sqn = sqn[c]
       THEN pos[c] >= 1 /\ NoneOf(toClient[c], create_ACK(Current(c)))
       ELSE NoneOf(toServer[c], Previous(c))
  /\ NoneOf(toClient[c], create_ACK(ABR))
  /\ srv = "recv" => /\ Acknowledged(c) <= Len(File[c])
                     /\ Holds(c, Acknowledged(c))
  /\ srv = "handle" =>
       /\ 1 <= Acknowledged(c)
       /\ Acknowledged(c) <= Len(File[c]) + 1
       /\ pending = Outgoing(c, Acknowledged(c), Flip(session.sqn))
       /\ Holds(c, Acknowledged(c) - 1)

\* The FIN of c has been acknowledged, whether or not c knows.
FinAcknowledged(c) ==
  \/ pos[c] = LastPos(c)
  \/ /\ pos[c] + 1 = LastPos(c)
     /\ ~NoneOf(toClient[c], create_ACK(Current(c)))

StoredInv(c) ==
  DiskWorks /\ FinAcknowledged(c) => Stored(c) \/ NameReused(c)

\* Over an ordered path, with clients on hosts of their own, all of this holds
\* in every state: it is preserved by every step.
IInv ==
  /\ TypeOK
  /\ \A c \in Clients : ClientInv(c) /\ PathInv(c) /\ AbortInv(c) /\ StoredInv(c)
  /\ session # NoSession => SessionInv(session.addr)
  /\ session # NoSession => srv \in Running

-----------------------------------------------------------------------------
(***************************************************************************)
(* What an ABR of the server says.  With a disk that works and as long as  *)
(* nobody stops the server, an upload past its handshake has lost its      *)
(* session only to its own FIN.                                            *)
(***************************************************************************)
\* Only the ACK of the FIN is missing: the file is there, and nothing older than
\* the FIN is under way.
OnlyFinLeft(c) ==
  /\ pos[c] + 1 = LastPos(c)
  /\ Stored(c) \/ NameReused(c)
  /\ NoneOf(toServer[c], Previous(c))

\* The SYN of c has been acknowledged, whether or not c knows.
SynAcknowledged(c) ==
  pos[c] >= 1 \/ ~NoneOf(toClient[c], create_ACK(Current(c)))

Uploading == {"start", "wait"}

\* An upload past its handshake is in the server's hands until its FIN.
KeptInHand(c) ==
  pc[c] \in Uploading /\ srv \in Running /\ SynAcknowledged(c) =>
    Serves(c) \/ OnlyFinLeft(c)

\* The ABR that denies a retransmitted SYN is older than the ACK of the first
\* chunk; an ABR from then on answers a FIN, as does the one a client ended with.
AbortAnswersFin(c) ==
  /\ pc[c] \in Uploading /\ pos[c] = 1 /\ LastPos(c) > 2 =>
       NeverAfter(toClient[c], create_ACK(Current(c)), ABR)
  /\ pos[c] >= 2 =>
       /\ pc[c] \in Uploading /\ ~NoneOf(toClient[c], ABR) =>
            ~Serves(c) /\ OnlyFinLeft(c)
       /\ pc[c] = "denied" => ~Serves(c) /\ OnlyFinLeft(c)

\* An ABR to c, under way or read, has a cause that lasts.
AbortHasCause(c) ==
  /\ srv \in Running
  /\ \/ pc[c] \in Uploading /\ ~NoneOf(toClient[c], ABR)
     \/ pc[c] = "denied"
  => HasRival(c) \/ Serves(c) \/ OnlyFinLeft(c)

\* Over an ordered path, with a working disk, clients on hosts of their own and
\* a server that nobody stops, all of this holds in every state.
DenialInv ==
  \A c \in Clients : KeptInHand(c) /\ AbortAnswersFin(c) /\ AbortHasCause(c)

=============================================================================
