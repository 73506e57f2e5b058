----------------------------- MODULE UdpNetwork -----------------------------
(***************************************************************************)
(* The UDP path between every client and the server, with the faults the   *)
(* path may have.  toServer[c] holds the datagrams client c has sent and   *)
(* the server has not read, toClient[c] the opposite direction; the oldest *)
(* datagram is at the head.  A socket buffer holds at most Capacity        *)
(* datagrams; what does not fit is dropped, as the kernel does.            *)
(*                                                                         *)
(* Faults names what may go wrong in a run:                                *)
(*   loss       a datagram disappears                                      *)
(*   duplicate  a datagram is delivered more than once                     *)
(*   reorder    a datagram overtakes older ones                            *)
(*   corrupt    a datagram arrives with a checksum that does not match     *)
(*   badsize    a corrupt datagram states a length beyond its payload      *)
(*   delay      a round trip may take longer than the client's RTO         *)
(*   interrupt  a user stops a client with CTRL+C                          *)
(*   stop       an operator stops the server with CTRL+C                   *)
(*   restart    a server that is down is started again                     *)
(*   disk       opening or writing a file on the server fails              *)
(*   instant    steps of the server may fall into the same millisecond     *)
(***************************************************************************)
EXTENDS Naturals, Sequences, SequencesExt, BftDatagram

CONSTANTS
  Clients,   \* client processes, each uploads one file and exits
  Capacity,  \* datagrams a socket buffer holds
  Faults     \* the faults of this run

FaultKinds ==
  {"loss", "duplicate", "reorder", "corrupt", "badsize", "delay", "interrupt",
   "stop", "restart", "disk", "instant"}

ASSUME CapacityAssumption == Capacity \in Nat \ {0}
ASSUME FaultsAssumption   == Faults \subseteq FaultKinds

VARIABLES toServer, toClient

netVars == <<toServer, toClient>>

NetTypeOK ==
  /\ toServer \in [Clients -> Seq(Request)]
  /\ toClient \in [Clients -> Seq(Datagram)]

NetInit ==
  /\ toServer = [c \in Clients |-> <<>>]
  /\ toClient = [c \in Clients |-> <<>>]

\* The queue after sendto(d).
Enqueue(queue, d) == IF Len(queue) < Capacity THEN Append(queue, d) ELSE queue

\* The positions recvfrom may read from.
Positions(queue) ==
  IF "reorder" \in Faults THEN DOMAIN queue ELSE DOMAIN queue \cap {1}

\* What may be left in the queue once position i has been read.
Remaining(queue, i) ==
  {RemoveAt(queue, i)} \cup (IF "duplicate" \in Faults THEN {queue} ELSE {})

\* A request goes from c to the server; a reply from the server to c.
Transmit(c, d) == toServer' = [toServer EXCEPT ![c] = Enqueue(@, d)]

Reply(c, d) == toClient' = [toClient EXCEPT ![c] = Enqueue(@, d)]

\* recvfrom on the server's socket yields d, sent by c.
ServerReads(c, d) ==
  \E i \in Positions(toServer[c]) :
    /\ d = toServer[c][i]
    /\ \E rest \in Remaining(toServer[c], i) :
         toServer' = [toServer EXCEPT ![c] = rest]

\* recvfrom on the socket of c yields d.
ClientReads(c, d) ==
  \E i \in Positions(toClient[c]) :
    /\ d = toClient[c][i]
    /\ \E rest \in Remaining(toClient[c], i) :
         toClient' = [toClient EXCEPT ![c] = rest]

\* Losing the datagram that would be read next is as good as losing it
\* earlier: nobody has looked at it.
LoseToServer(c) ==
  /\ "loss" \in Faults
  /\ \E i \in Positions(toServer[c]) :
       toServer' = [toServer EXCEPT ![c] = RemoveAt(@, i)]
  /\ UNCHANGED toClient

LoseToClient(c) ==
  /\ "loss" \in Faults
  /\ \E i \in Positions(toClient[c]) :
       toClient' = [toClient EXCEPT ![c] = RemoveAt(@, i)]
  /\ UNCHANGED toServer

=============================================================================
