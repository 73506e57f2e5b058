---------------------------- MODULE BftDatagram ----------------------------
(***************************************************************************)
(* The datagram of the Basic File Transfer protocol (aufg4/bft_base).      *)
(*                                                                         *)
(* The Flags bit mask is a set of flag names; the payload is a file name   *)
(* (in a SYN), one chunk of a file (in a data datagram) or nothing.  The   *)
(* checksum is not a field: whether check_integrity() holds is decided     *)
(* when a datagram is read, by the fault "corrupt" of UdpNetwork.          *)
(***************************************************************************)
EXTENDS Naturals

CONSTANTS
  FileNames,  \* names a client may put into its SYN
  Chunks,     \* contents of a full payload
  NoPayload   \* payload_size = 0

Flags == {"SQN", "ACK", "FIN", "ABR", "SYN", "AGN"}

Payload == FileNames \cup Chunks \cup {NoPayload}

Datagram == [flags : SUBSET Flags, payload : Payload]

(***************************************************************************)
(* The one-bit sequence number.  Both sides start from SQN_START_VAL and   *)
(* advance with an exclusive or.                                           *)
(***************************************************************************)
Bit == {0, 1}

SQN_START_VAL == 0

\* Mutant: the sequence number is counted up.
FlipByIncrement(b) == b + 1

Flip(b) == 1 - b

\* The three constructors: the SQN flag is added when sqn is set.
NewDatagram(flags, payload, sqn) ==
  [flags   |-> IF sqn = 1 THEN flags \cup {"SQN"} ELSE flags,
   payload |-> payload]

get_SQN(d) == IF "SQN" \in d.flags THEN 1 ELSE 0

\* SYN and ABR are compared with the whole mask, so a SYN or an ABR that
\* carries the SQN flag is neither.
is_SYN(d) == d.flags = {"SYN"} /\ get_SQN(d) = SQN_START_VAL

is_ABR(d) == d.flags = {"ABR"} /\ get_SQN(d) = SQN_START_VAL

create_ACK(d) == NewDatagram(d.flags \cup {"ACK"}, NoPayload, get_SQN(d))

is_ACK_for(d, original) ==
  /\ "ACK" \in d.flags
  /\ d.flags \ {"ACK"} = original.flags
  /\ get_SQN(d) = get_SQN(original)

ABR == NewDatagram({"ABR"}, NoPayload, SQN_START_VAL)

AGN(sqn) == NewDatagram({"AGN"}, NoPayload, sqn)

\* What clients send: a SYN names a file, a datagram without flags has a chunk.
Request ==
  {d \in Datagram : /\ is_SYN(d) => d.payload \in FileNames
                    /\ d.flags \ {"SQN"} = {} => d.payload \in Chunks}

=============================================================================
