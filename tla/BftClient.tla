----------------------------- MODULE BftClient -----------------------------
(***************************************************************************)
(* bft_client: uploads one file and exits.  Every datagram, the SYN with   *)
(* the file's name, one per chunk and the FIN, is sent and resent until    *)
(* its acknowledgement arrives; then the next one is sent (stop and wait). *)
(* A client is modelled at its recvfrom: an action is what happens from    *)
(* one return of recvfrom to the next call.                                *)
(***************************************************************************)
EXTENDS Integers, UdpNetwork

CONSTANTS
  Name,        \* Name[c]: the name of the file client c uploads
  File,        \* File[c]: its contents as its stream yields them, in chunks
  MaxTimeouts, \* option -R: timeouts in a row before giving up, -1 for never
  RtoMillis    \* option -r: the retransmission timeout in milliseconds

ASSUME FileAssumption ==
  /\ Name \in [Clients -> FileNames]
  /\ File \in [Clients -> Seq(Chunks)]

ASSUME MaxTimeoutsAssumption == MaxTimeouts \in Nat \cup {-1}

ASSUME RtoAssumption == RtoMillis \in Nat

\* Mutant: the default of send_and_receive_response, no limit.
UnlimitedAbortTimeouts == -1

\* What signalHandler passes for the ABR.
AbortTimeouts == 3

VARIABLES
  pc,      \* where client c is, or how it ended
  pos,     \* the datagrams of c acknowledged so far
  sqn,     \* currSQN
  retries  \* retry_count of the call that waits for a response

clientVars == <<pc, pos, sqn, retries>>

\* done: all acknowledged; denied: told that the server is busy; gaveup: too
\* many timeouts; killed: stopped with CTRL+C; crashed: ended by a signal.
Ended == {"done", "denied", "gaveup", "killed", "crashed"}

\* signalHandler waits for an answer to its ABR; abort_untimed: on a socket that
\* has no timeout yet.
InHandler == {"abort", "abort_untimed"}

LastPos(c) == Len(File[c]) + 2

ClientTypeOK ==
  /\ pc \in [Clients -> {"start", "wait"} \cup InHandler \cup Ended]
  /\ pos \in [Clients -> Nat]
  /\ sqn \in [Clients -> Bit]
  /\ retries \in [Clients -> Nat]
  /\ \A c \in Clients : pos[c] <= LastPos(c)

ClientInit ==
  /\ pc = [c \in Clients |-> "start"]
  /\ pos = [c \in Clients |-> 0]
  /\ sqn = [c \in Clients |-> SQN_START_VAL]
  /\ retries = [c \in Clients |-> 0]

\* The datagram of c after k acknowledged ones.  The FIN follows the last chunk
\* that the file's stream yields: one that cannot be opened or read on is taken
\* for one that has ended.
Outgoing(c, k, s) ==
  CASE k = 0                -> NewDatagram({"SYN"}, Name[c], s)
    [] k \in DOMAIN File[c] -> NewDatagram({}, File[c][k], s)
    [] OTHER                -> NewDatagram({"FIN"}, NoPayload, s)

Current(c) == Outgoing(c, pos[c], sqn[c])

ClientStart(c) ==
  /\ pc[c] = "start"
  /\ pc' = [pc EXCEPT ![c] = "wait"]
  /\ Transmit(c, Current(c))
  /\ UNCHANGED <<pos, sqn, retries, toClient>>

-----------------------------------------------------------------------------
(***************************************************************************)
(* send_datagram_and_wait_for_ACK: a response has arrived.                 *)
(***************************************************************************)
ClientReceives(c, d) == pc[c] = "wait" /\ ClientReads(c, d)

\* A call of send_and_receive_response sends and starts counting anew.
SendAfresh(c, d) ==
  /\ Transmit(c, d)
  /\ retries' = [retries EXCEPT ![c] = 0]

IsAbort(d) == "ABR" \in d.flags /\ get_SQN(d) = 0

Denied(c, d) ==
  /\ ClientReceives(c, d)
  /\ IsAbort(d)
  /\ pc' = [pc EXCEPT ![c] = "denied"]
  /\ UNCHANGED <<pos, sqn, retries, toServer>>

\* Mutant: any acknowledgement is taken for the one that is awaited.
IsAnyAck(c, d) == ~IsAbort(d) /\ "ACK" \in d.flags

IsExpected(c, d) ==
  /\ ~IsAbort(d)
  /\ get_SQN(d) = sqn[c]
  /\ is_ACK_for(d, Current(c))

\* The acknowledgement: on to the next datagram, or out after the FIN's.
Advance(c, d) ==
  /\ ClientReceives(c, d)
  /\ IsExpected(c, d)
  /\ pos' = [pos EXCEPT ![c] = @ + 1]
  /\ sqn' = [sqn EXCEPT ![c] = Flip(@)]
  /\ IF pos[c] + 1 = LastPos(c)
       THEN /\ pc' = [pc EXCEPT ![c] = "done"]
            /\ UNCHANGED <<retries, toServer>>
       ELSE /\ SendAfresh(c, Outgoing(c, pos[c] + 1, Flip(sqn[c])))
            /\ UNCHANGED pc

\* An old acknowledgement, or a request to send again.
Resend(c, d) ==
  /\ ClientReceives(c, d)
  /\ ~IsAbort(d)
  /\ ~IsExpected(c, d)
  /\ SendAfresh(c, Current(c))
  /\ UNCHANGED <<pc, pos, sqn>>

(***************************************************************************)
(* The timeval that main passes with SO_RCVTIMEO for an RTO of ms          *)
(* milliseconds; the option takes 0 seconds and 0 microseconds for no      *)
(* timeout at all.                                                         *)
(***************************************************************************)
\* Mutant: an RTO below a second loses its microseconds.
WholeSeconds(ms) ==
  LET sec == ms \div 1000
  IN  [sec |-> sec, usec |-> IF sec = 0 THEN 0 ELSE (ms % (sec * 1000)) * 1000]

Timeval(ms) ==
  LET sec == ms \div 1000
  IN  [sec  |-> sec,
       usec |-> IF sec = 0 THEN ms * 1000 ELSE (ms % (sec * 1000)) * 1000]

TimerRuns == Timeval(RtoMillis) # [sec |-> 0, usec |-> 0]

(***************************************************************************)
(* send_and_receive_response: recvfrom has timed out.  Unless the network  *)
(* may be slower than the RTO, that happens only when nothing of c is on   *)
(* its way in either direction.                                            *)
(***************************************************************************)
TimedOut(c) ==
  /\ TimerRuns
  /\ "delay" \in Faults \/ (toServer[c] = <<>> /\ toClient[c] = <<>>)

\* Mutant: the timeouts in a row are not counted.
SendAgainUncounted(c, d, max) ==
  /\ TimedOut(c)
  /\ Transmit(c, d)
  /\ UNCHANGED <<pc, pos, sqn, retries, toClient>>

SendAgain(c, d, max) ==
  /\ TimedOut(c)
  /\ max < 0 \/ retries[c] < max
  /\ retries' = [retries EXCEPT ![c] = IF max < 0 THEN @ ELSE @ + 1]
  /\ Transmit(c, d)
  /\ UNCHANGED <<pc, pos, sqn, toClient>>

\* The exception of send_and_receive_response.
Throws(c, max) == TimedOut(c) /\ max >= 0 /\ retries[c] >= max

ClientTimeout(c) == pc[c] = "wait" /\ SendAgain(c, Current(c), MaxTimeouts)

\* Nobody catches it: the process ends, and the server is not told.
ClientGivesUp(c) ==
  /\ pc[c] = "wait"
  /\ Throws(c, MaxTimeouts)
  /\ pc' = [pc EXCEPT ![c] = "gaveup"]
  /\ UNCHANGED <<pos, sqn, retries, netVars>>

-----------------------------------------------------------------------------
(***************************************************************************)
(* signalHandler: CTRL+C.  The handler takes over and never returns.  It   *)
(* is installed before SO_RCVTIMEO is set: a CTRL+C in between makes it    *)
(* wait for an answer without a timeout.                                   *)
(***************************************************************************)
ClientInterrupted(c) ==
  /\ "interrupt" \in Faults
  /\ \/ pc[c] \in {"start", "wait"} /\ pc' = [pc EXCEPT ![c] = "abort"]
     \/ pc[c] = "start" /\ pc' = [pc EXCEPT ![c] = "abort_untimed"]
  /\ SendAfresh(c, ABR)
  /\ UNCHANGED <<pos, sqn, toClient>>

AbortAcknowledged(c, d) ==
  /\ pc[c] \in InHandler
  /\ ClientReads(c, d)
  /\ is_ACK_for(d, ABR)
  /\ pc' = [pc EXCEPT ![c] = "killed"]
  /\ UNCHANGED <<pos, sqn, retries, toServer>>

\* Mutant: the upload's datagram is sent again instead of the ABR.
AbortUnansweredByUpload(c, d) ==
  /\ pc[c] \in InHandler
  /\ ClientReads(c, d)
  /\ ~is_ACK_for(d, ABR)
  /\ SendAfresh(c, Current(c))
  /\ UNCHANGED <<pc, pos, sqn>>

\* Anything else that is answered to the ABR.
AbortUnanswered(c, d) ==
  /\ pc[c] \in InHandler
  /\ ClientReads(c, d)
  /\ ~is_ACK_for(d, ABR)
  /\ SendAfresh(c, ABR)
  /\ UNCHANGED <<pc, pos, sqn>>

AbortTimeout(c) == pc[c] = "abort" /\ SendAgain(c, ABR, AbortTimeouts)

AbortGivesUp(c) ==
  /\ pc[c] = "abort"
  /\ Throws(c, AbortTimeouts)
  /\ pc' = [pc EXCEPT ![c] = "killed"]
  /\ UNCHANGED <<pos, sqn, retries, netVars>>

-----------------------------------------------------------------------------
\* A corrupt response is answered by sending again what waits for one.  Its
\* stated length is used before the checksum is looked at.
ClientReceivesCorrupt(c, d) ==
  /\ "corrupt" \in Faults
  /\ pc[c] \in {"wait"} \cup InHandler
  /\ ClientReads(c, d)
  /\ \/ /\ SendAfresh(c, IF pc[c] = "wait" THEN Current(c) ELSE ABR)
        /\ UNCHANGED pc
     \/ /\ "badsize" \in Faults
        /\ pc' = [pc EXCEPT ![c] = "crashed"]
        /\ UNCHANGED <<retries, toServer>>
  /\ UNCHANGED <<pos, sqn>>

\* One intact response of the server.
ReceiveIntact(c, d) ==
  \/ Denied(c, d)
  \/ Advance(c, d)
  \/ Resend(c, d)
  \/ AbortAcknowledged(c, d)
  \/ AbortUnanswered(c, d)

Expire(c) ==
  \/ ClientTimeout(c)
  \/ ClientGivesUp(c)
  \/ AbortTimeout(c)
  \/ AbortGivesUp(c)

ClientNext(c) ==
  \/ ClientStart(c)
  \/ \E d \in ToSet(toClient[c]) : ReceiveIntact(c, d) \/ ClientReceivesCorrupt(c, d)
  \/ Expire(c)
  \/ ClientInterrupted(c)

=============================================================================
