-------------------------- MODULE BftDenialProofs --------------------------
(***************************************************************************)
(* What "Server busy" means: over an ordered path, with a working disk,    *)
(* clients on hosts of their own and nobody who stops the server, a client *)
(* is denied because of a rival, because of its own upload that goes on,   *)
(* or because it is over; and once a chunk has been acknowledged, because  *)
(* it is over.                                                             *)
(***************************************************************************)
EXTENDS BftProofs

Kept(c) == Stored(c) \/ NameReused(c)

DenialFor(c) == KeptInHand(c) /\ AbortAnswersFin(c) /\ AbortHasCause(c)

Concerned == Uploading \cup {"denied"}

(***************************************************************************)
(* Steps that take nothing from c and tell it nothing new.                 *)
(***************************************************************************)
\* What is known of a denial of c goes on holding when c stays where it is in its
\* upload, the session of c begins and ends with nothing but the process, and no
\* new ABR joins the answers to c, nor an ACK unless the server serves c.
LEMMA DenialKeeps ==
  ASSUME NEW c \in Clients, DenialFor(c), SameUpload(c),
         pc'[c] \in Uploading => pc[c] \in Uploading,
         pc'[c] = "denied" => pc[c] = "denied",
         Serves(c)' => Serves(c),
         srv' \in Running => srv \in Running /\ (Serves(c) => Serves(c)'),
         ~Serves(c) /\ Kept(c) => Kept(c)',
         HasRival(c) => HasRival(c)',
         pc'[c] \in Concerned /\ NoneOf(toServer[c], Previous(c)) =>
           NoneOf(toServer'[c], Previous(c)),
         NoneOf(toClient[c], ABR) => NoneOf(toClient'[c], ABR),
         NeverAfter(toClient[c], create_ACK(Current(c)), ABR) =>
           NeverAfter(toClient'[c], create_ACK(Current(c)), ABR),
         Serves(c) \/ (NoneOf(toClient[c], create_ACK(Current(c))) =>
                         NoneOf(toClient'[c], create_ACK(Current(c))))
  PROVE  DenialFor(c)'
<1>1. /\ Current(c)' = Current(c) /\ Previous(c)' = Previous(c)
      /\ LastPos(c)' = LastPos(c) /\ pos'[c] = pos[c]
  BY DEF SameUpload, Current, Previous, LastPos
<1>2. pc'[c] \in Concerned /\ ~Serves(c) /\ OnlyFinLeft(c) => OnlyFinLeft(c)'
  BY <1>1 DEF OnlyFinLeft, Kept
<1>3. ~Serves(c) /\ SynAcknowledged(c)' => SynAcknowledged(c)
  BY <1>1 DEF SynAcknowledged
<1>4. KeptInHand(c)'
  BY <1>2, <1>3 DEF DenialFor, KeptInHand, Concerned
<1>5. AbortAnswersFin(c)'
  BY <1>1, <1>2 DEF DenialFor, AbortAnswersFin, Concerned
<1>6. AbortHasCause(c)'
  BY <1>2 DEF DenialFor, AbortHasCause, Concerned
<1> QED BY <1>4, <1>5, <1>6 DEF DenialFor

\* The file of c is kept by every step that does not serve c: another client that
\* writes to it uses the name of c.
LEMMA KeptStays ==
  ASSUME IInv, NEW c \in Clients, Kept(c), NEW o \in Clients, o # c, Started(o),
         files' = files \/ \E f : files' = [files EXCEPT ![Name[o]] = f],
         \A p \in Clients : Started(p) => Started(p)'
  PROVE  Kept(c)'
<1>1. Name[c] \in FileNames /\ files \in [FileNames -> Seq(Chunks) \cup {NoFile}]
  BY InvTypes DEF ServerTypeOK
<1>2. CASE NameReused(c) \/ Name[o] = Name[c]
  BY <1>2 DEF Kept, NameReused
<1>3. CASE Stored(c) /\ Name[o] # Name[c]
  BY <1>1, <1>3 DEF Kept, Stored
<1> QED BY <1>2, <1>3 DEF Kept

\* A step of the server that concerns no client but another one, o.
LEMMA OthersServed ==
  ASSUME IInv, NEW c \in Clients, DenialFor(c), NEW o \in Clients, o # c, Started(o),
         UNCHANGED clientVars, toServer'[c] = toServer[c], toClient'[c] = toClient[c],
         Serves(c)' => Serves(c),
         srv' \in Running => srv \in Running /\ (Serves(c) => Serves(c)'),
         files' = files \/ \E f : files' = [files EXCEPT ![Name[o]] = f]
  PROVE  DenialFor(c)'
<1>1. SameUpload(c) /\ pc' = pc
  BY DEF SameUpload, clientVars
<1>2. \A p \in Clients : Started(p) => Started(p)'
  BY <1>1 DEF Started
<1>3. (Kept(c) => Kept(c)') /\ (HasRival(c) => HasRival(c)')
  BY <1>2, KeptStays DEF HasRival
<1> QED BY <1>1, <1>3, DenialKeeps

\* The server has answered c, which it serves or which gets AGN.
LEMMA Answered ==
  ASSUME IInv, NEW c \in Clients, DenialFor(c), UNCHANGED clientVars, files' = files,
         NEW a \in Datagram, a # ABR, Serves(c) \/ a # create_ACK(Current(c)),
         Keeps(toServer[c], toServer'[c]), toClient'[c] = Enqueue(toClient[c], a),
         Serves(c)' => Serves(c),
         srv' \in Running => srv \in Running /\ (Serves(c) => Serves(c)')
  PROVE  DenialFor(c)'
<1>1. SameUpload(c) /\ pc' = pc /\ (Kept(c) => Kept(c)') /\ (HasRival(c) => HasRival(c)')
  BY DEF SameUpload, clientVars, Kept, Stored, NameReused, HasRival, Started
<1>2. toClient[c] \in Seq(Datagram)
  BY InvTypes
<1>3. /\ \A x : NoneOf(toClient[c], x) /\ a # x => NoneOf(toClient'[c], x)
      /\ \A x : NeverAfter(toClient[c], x, ABR) => NeverAfter(toClient'[c], x, ABR)
  BY <1>2, EnqueueKeeps
<1> QED BY <1>1, <1>3, DenialKeeps DEF Keeps

-----------------------------------------------------------------------------
(***************************************************************************)
(* The server's answers.                                                   *)
(***************************************************************************)
\* A client more than one datagram into its upload has no SYN under way.
LEMMA SynFacts ==
  ASSUME IInv, InOrder, NEW c \in Clients, NEW d, ServerReads(c, d), is_SYN(d)
  PROVE  /\ pos[c] < 2 /\ d # ABR /\ create_ACK(d) # ABR /\ create_ACK(d) \in Datagram
         /\ pos[c] = 1 => NoneOf(toClient[c], create_ACK(Current(c)))
         /\ d.payload = Name[c]
<1>1. /\ pos[c] \in Nat /\ pos[c] \in Int /\ pos[c] - 1 \in Int
      /\ sqn[c] \in Bit /\ Flip(sqn[c]) \in Bit
  BY InvTypes DEF Flip, Bit
<1>2. d \in {Current(c), Previous(c), ABR} /\ d # ABR
  BY RequestFacts, SignalFacts
<1>3. CASE d = Current(c)
  <2>1. pos[c] = 0 /\ d.payload = Name[c]
    BY <1>1, <1>3, OutgoingFacts DEF Current
  <2>2. create_ACK(d) # ABR /\ create_ACK(d) \in Datagram
    BY <1>1, <1>3, Distinct
  <2> QED BY <1>2, <2>1, <2>2
<1>4. CASE d = Previous(c)
  <2>1. pos[c] - 1 = 0 /\ d.payload = Name[c]
    BY <1>1, <1>4, OutgoingFacts DEF Previous
  <2>2. create_ACK(d) # ABR /\ create_ACK(d) \in Datagram
    BY <1>1, <1>4, Distinct
  <2>3. NoneOf(toClient[c], create_ACK(Current(c)))
    BY <1>4, RequestFacts
  <2> QED BY <1>1, <1>2, <2>1, <2>2, <2>3
<1> QED BY <1>2, <1>3, <1>4

\* A regular datagram is not the first one of a client.
LEMMA RegularPast ==
  ASSUME IInv, InOrder, NEW c \in Clients, NEW d, ServerReads(c, d), IsRegular(d)
  PROVE  pos[c] >= 1
<1>1. pos[c] \in Nat /\ sqn[c] \in Bit /\ (pos[c] = 0 => sqn[c] = 0)
  BY InvTypes DEF IInv, ClientInv
<1>2. d \in {Current(c), Previous(c), ABR} /\ (d = Previous(c) => pos[c] > 0)
  BY RequestFacts
<1>3. d # ABR
  BY SignalFacts DEF IsRegular
<1>4. pos[c] = 0 => is_SYN(Current(c))
  BY <1>1, OutgoingFacts DEF Current
<1> QED BY <1>1, <1>2, <1>3, <1>4 DEF IsRegular

\* An answer to one client is none to another.
LEMMA AnswersOne ==
  ASSUME IInv, NEW o \in Clients, NEW a, Reply(o, a)
  PROVE  /\ toClient'[o] = Enqueue(toClient[o], a)
         /\ \A c \in Clients \ {o} : toClient'[c] = toClient[c]
BY InvTypes DEF Reply, NetTypeOK

\* A SYN is denied: at a client that has seen the ACK of its SYN the ABR arrives
\* before the ACK of what follows.
LEMMA DenySYNDenial ==
  ASSUME IInv, InOrder, NEW c \in Clients, DenialFor(c), NEW o \in Clients, NEW d,
         DenySYN(o, d), UNCHANGED clientVars
  PROVE  DenialFor(c)'
<1>1. /\ ServerReads(o, d) /\ is_SYN(d) /\ Reply(o, ABR)
      /\ session # NoSession
      /\ session' = session /\ srv' = srv /\ files' = files
  BY DEF DenySYN, ServerReceives, serverVars
<1>2. /\ Started(o) /\ Keeps(toServer[o], toServer'[o])
      /\ \A p \in Clients \ {o} : toServer'[p] = toServer[p]
  BY <1>1, RequestFacts
<1>3. CASE o # c
  BY <1>1, <1>2, <1>3, AnswersOne, OthersServed DEF Serves
<1>4. CASE o = c
  <2>1. /\ pos[c] < 2 /\ pos[c] \in Nat /\ sqn[c] \in Bit
        /\ pos[c] = 1 => NoneOf(toClient[c], create_ACK(Current(c)))
    BY <1>1, <1>4, SynFacts, InvTypes
  <2>2. toClient'[c] = Enqueue(toClient[c], ABR) /\ toClient[c] \in Seq(Datagram)
        /\ ABR \in Datagram
    BY <1>1, <1>4, AnswersOne, InvTypes, SignalTypes DEF Request
  <2>3. /\ \A x : NoneOf(toClient[c], x) /\ x # ABR => NoneOf(toClient'[c], x)
        /\ \A x : NeverAfter(toClient[c], x, ABR) /\ NoneOf(toClient[c], x) =>
             NeverAfter(toClient'[c], x, ABR)
    BY <2>2, EnqueueKeeps
  <2>4. create_ACK(Current(c)) # ABR
    BY <2>1, Distinct
  <2>5. /\ pos' = pos /\ pc' = pc /\ LastPos(c)' = LastPos(c)
        /\ Current(c)' = Current(c) /\ files' = files
        /\ Serves(c)' <=> Serves(c)
    BY <1>1 DEF clientVars, LastPos, Current, Serves
  <2>6. SynAcknowledged(c)' => SynAcknowledged(c)
    BY <2>3, <2>4, <2>5 DEF SynAcknowledged
  <2>7. OnlyFinLeft(c) => OnlyFinLeft(c)'
    BY <1>2, <1>4, <2>5 DEF OnlyFinLeft, Stored, NameReused, Started, Previous, Keeps,
                           clientVars
  <2>8. KeptInHand(c)'
    BY <1>1, <2>5, <2>6, <2>7 DEF DenialFor, KeptInHand
  <2>9. pos[c] = 1 => NeverAfter(toClient'[c], create_ACK(Current(c)), ABR)
    <3>1. ASSUME NoneOf(toClient[c], create_ACK(Current(c)))
          PROVE  NeverAfter(toClient[c], create_ACK(Current(c)), ABR)
      BY <3>1 DEF NoneOf, NeverAfter
    <3> QED BY <2>1, <2>3, <3>1
  <2>10. AbortAnswersFin(c)'
    BY <2>1, <2>5, <2>9 DEF AbortAnswersFin
  <2>11. Serves(c) \/ HasRival(c)
    BY <1>1, InvTypes DEF Serves, HasRival, IInv, SessionInv, Started
  <2>12. AbortHasCause(c)'
    BY <2>5, <2>11 DEF AbortHasCause, HasRival, Started
  <2> QED BY <2>8, <2>10, <2>12 DEF DenialFor
<1> QED BY <1>3, <1>4

\* A SYN is accepted: it is not that of a client whose session has ended already.
LEMMA AcceptSYNDenial ==
  ASSUME IInv, InOrder, NEW c \in Clients, DenialFor(c), NEW o \in Clients, NEW d,
         AcceptSYN(o, d), UNCHANGED clientVars
  PROVE  DenialFor(c)'
<1>1. /\ ServerReads(o, d) /\ is_SYN(d) /\ Reply(o, create_ACK(d))
      /\ session = NoSession /\ srv' = srv
      /\ files' = [files EXCEPT ![d.payload] = <<>>]
      /\ session' = [addr |-> o, sqn |-> Flip(SQN_START_VAL), file |-> d.payload,
                     written |-> FALSE, good |-> TRUE, since |-> JustLogged]
  BY DEF AcceptSYN, ServerReceives
<1>2. /\ Started(o) /\ Keeps(toServer[o], toServer'[o])
      /\ \A p \in Clients \ {o} : toServer'[p] = toServer[p]
  BY <1>1, RequestFacts
<1>3. session'.addr = o /\ ~Serves(c)
  BY <1>1 DEF Serves
<1>4. CASE o # c
  <2>1. d.payload = Name[o]
    BY <1>1, SynFacts
  <2>2. ~Serves(c)'
    BY <1>3, <1>4 DEF Serves
  <2> QED BY <1>1, <1>2, <1>3, <1>4, <2>1, <2>2, AnswersOne, OthersServed
<1>5. CASE o = c
  <2>1. /\ pos[c] < 2 /\ pos[c] \in Nat /\ create_ACK(d) # ABR
        /\ create_ACK(d) \in Datagram
    BY <1>1, <1>5, SynFacts, InvTypes
  <2>2. toClient'[c] = Enqueue(toClient[c], create_ACK(d))
        /\ toClient[c] \in Seq(Datagram)
    BY <1>1, <1>5, AnswersOne, InvTypes
  <2>3. \A x : NeverAfter(toClient[c], x, ABR) => NeverAfter(toClient'[c], x, ABR)
    BY <2>1, <2>2, EnqueueKeeps
  <2>4. session' # NoSession
    <3>1. session' \in Session
      <4>1. o \in Clients /\ d.payload \in FileNames
        BY <1>1, SynFacts, InvTypes
      <4> QED BY <1>1, <4>1 DEF Session, Flip, Bit, SQN_START_VAL, JustLogged, SinceLog
    <3> QED BY <3>1, NoValueAssumption
  <2>5. Serves(c)'
    BY <1>3, <1>5, <2>4 DEF Serves
  <2>6. pos' = pos /\ pc' = pc /\ LastPos(c)' = LastPos(c) /\ Current(c)' = Current(c)
    BY DEF clientVars, LastPos, Current
  <2>7. KeptInHand(c)' /\ AbortHasCause(c)'
    BY <2>5 DEF KeptInHand, AbortHasCause
  <2>8. AbortAnswersFin(c)'
    BY <2>1, <2>3, <2>6 DEF DenialFor, AbortAnswersFin
  <2> QED BY <2>7, <2>8 DEF DenialFor
<1> QED BY <1>4, <1>5

\* An ABR ends the session of its own client only, which no longer waits for an
\* answer to its upload.
LEMMA HandleABRDenial ==
  ASSUME IInv, InOrder, OwnAddresses, NEW c \in Clients, DenialFor(c),
         NEW o \in Clients, NEW d, HandleABR(o, d), UNCHANGED clientVars
  PROVE  DenialFor(c)'
<1>1. /\ ServerReads(o, d) /\ is_ABR(d) /\ Reply(o, create_ACK(d)) /\ srv' = srv
      /\ IF SameHost(o)
           THEN session' = NoSession
                /\ files' = [files EXCEPT ![session.file] = Aborted]
           ELSE session' = session /\ files' = files
  BY DEF HandleABR, ServerReceives
<1>2. /\ d = ABR /\ Started(o)
      /\ \A p \in Clients \ {o} : toServer'[p] = toServer[p]
  <2>1. /\ pos[o] \in Int /\ pos[o] - 1 \in Int /\ sqn[o] \in Bit
        /\ Flip(sqn[o]) \in Bit
    BY InvTypes DEF Flip, Bit
  <2>2. ~is_ABR(Current(o)) /\ ~is_ABR(Previous(o))
    BY <2>1, OutgoingFacts DEF Current, Previous
  <2> QED BY <1>1, <2>2, RequestFacts
<1>3. CASE o = c
  <2>1. pc[c] \in Aborting
    BY <1>1, <1>2, <1>3, RequestFacts
  <2>2. pc'[c] \notin {"start", "wait", "denied"}
    BY <2>1 DEF Aborting, InHandler, clientVars
  <2> QED BY <2>2
    DEF DenialFor, KeptInHand, AbortAnswersFin, AbortHasCause, Uploading
<1>4. CASE o # c /\ SameHost(o)
  <2>1. session # NoSession /\ session.addr = o /\ session.file = Name[o]
    BY <1>4, InvTypes DEF SameHost, OwnAddresses, IInv, SessionInv
  <2>2. ~Serves(c) /\ ~Serves(c)'
    BY <1>1, <1>4, <2>1 DEF Serves
  <2> QED BY <1>1, <1>2, <1>4, <2>1, <2>2, AnswersOne, OthersServed
<1>5. CASE o # c /\ ~SameHost(o)
  BY <1>1, <1>2, <1>5, AnswersOne, OthersServed DEF Serves
<1> QED BY <1>3, <1>4, <1>5

\* A regular datagram of a client that the server does not serve is its FIN once
\* more, or the client is not past its handshake.
LEMMA HandleForeignDenial ==
  ASSUME IInv, InOrder, NEW c \in Clients, DenialFor(c), NEW o \in Clients, NEW d,
         HandleForeign(o, d), UNCHANGED clientVars
  PROVE  DenialFor(c)'
<1>1. /\ ServerReads(o, d) /\ IsRegular(d) /\ Reply(o, ABR) /\ srv = "recv" /\ ~SameHost(o)
      /\ session' = session /\ srv' = srv /\ files' = files
  BY DEF HandleForeign, ServerReceives, serverVars
<1>2. /\ Started(o) /\ Keeps(toServer[o], toServer'[o])
      /\ \A p \in Clients \ {o} : toServer'[p] = toServer[p]
  BY <1>1, RequestFacts
<1>3. CASE o # c
  BY <1>1, <1>2, <1>3, AnswersOne, OthersServed DEF Serves
<1>4. CASE o = c
  <2>1. ~Serves(c) /\ pos[c] \in Nat /\ sqn[c] \in Bit /\ srv \in Running
    BY <1>1, <1>4, InvTypes DEF SameHost, Serves, Running
  <2>2. toClient'[c] = Enqueue(toClient[c], ABR) /\ toClient[c] \in Seq(Datagram)
        /\ ABR \in Datagram
    BY <1>1, <1>4, AnswersOne, InvTypes, SignalTypes DEF Request
  <2>3. \A x : NoneOf(toClient[c], x) /\ x # ABR => NoneOf(toClient'[c], x)
    BY <2>2, EnqueueKeeps
  <2>4. create_ACK(Current(c)) # ABR
    BY <2>1, Distinct
  <2>5. /\ pos' = pos /\ pc' = pc /\ LastPos(c)' = LastPos(c)
        /\ Current(c)' = Current(c) /\ files' = files
        /\ Serves(c)' <=> Serves(c)
    BY <1>1 DEF clientVars, LastPos, Current, Serves
  <2>6. SynAcknowledged(c)' => SynAcknowledged(c)
    BY <2>3, <2>4, <2>5 DEF SynAcknowledged
  <2>7. OnlyFinLeft(c) => OnlyFinLeft(c)'
    BY <1>2, <1>4, <2>5 DEF OnlyFinLeft, Stored, NameReused, Started, Previous, Keeps,
                           clientVars
  <2>8. pc[c] \in Uploading => OnlyFinLeft(c)
    BY <1>1, <1>4, <2>1, RegularPast DEF DenialFor, KeptInHand, SynAcknowledged
  <2>9. KeptInHand(c)'
    BY <2>5, <2>7, <2>8 DEF KeptInHand
  <2>10. AbortAnswersFin(c)'
    BY <2>1, <2>5, <2>7, <2>8 DEF DenialFor, AbortAnswersFin, OnlyFinLeft
  <2>11. AbortHasCause(c)'
    BY <2>1, <2>5, <2>7, <2>8 DEF DenialFor, AbortHasCause, HasRival, Started
  <2> QED BY <2>9, <2>10, <2>11 DEF DenialFor
<1> QED BY <1>3, <1>4

\* An ACK goes to the client that is served, and the session goes on.
LEMMA RegularDenial ==
  ASSUME IInv, InOrder, OwnAddresses, NEW c \in Clients, DenialFor(c),
         NEW o \in Clients, NEW d, HandleDuplicate(o, d) \/ Acknowledge(o, d),
         UNCHANGED clientVars
  PROVE  DenialFor(c)'
<1>1. /\ ServerReads(o, d) /\ IsRegular(d) /\ SameHost(o) /\ srv \in Running
      /\ files' = files
  BY DEF HandleDuplicate, Acknowledge, ServerReceives, serverVars, Running
<1>2. /\ session # NoSession /\ session \in Session /\ session.addr = o /\ Started(o)
      /\ create_ACK(d) \in Datagram /\ Keeps(toServer[o], toServer'[o])
      /\ \A p \in Clients \ {o} : toServer'[p] = toServer[p]
  BY <1>1, RegularFacts, RequestFacts, InvTypes
<1>3. Reply(o, create_ACK(d))
  BY <1>2 DEF HandleDuplicate, Acknowledge
<1>4. session' # NoSession /\ session'.addr = o
  <2>1. CASE HandleDuplicate(o, d)
    BY <1>2, <2>1 DEF HandleDuplicate, serverVars
  <2>2. CASE Acknowledge(o, d)
    <3>1. session' = [session EXCEPT !.sqn = Flip(@)] /\ Flip(session.sqn) \in Bit
      BY <1>2, <2>2 DEF Acknowledge, Session, Flip, Bit
    <3>2. session' \in Session /\ session'.addr = o
      BY <1>2, <3>1 DEF Session
    <3> QED BY <3>2, NoValueAssumption
  <2> QED BY <2>1, <2>2
<1>5. Serves(c)' <=> Serves(c)
  BY <1>2, <1>4 DEF Serves
<1>6. CASE o # c
  BY <1>1, <1>2, <1>3, <1>5, <1>6, AnswersOne, OthersServed
<1>7. CASE o = c
  <2>1. create_ACK(d) # ABR
    BY SignalFacts DEF create_ACK, NewDatagram
  <2>2. Serves(c)
    BY <1>2, <1>7 DEF Serves
  <2> QED BY <1>1, <1>2, <1>3, <1>5, <1>7, <2>1, <2>2, AnswersOne, Answered
<1> QED BY <1>6, <1>7

\* A damaged datagram is answered with AGN, or is the end of the server.
LEMMA HandleCorruptDenial ==
  ASSUME IInv, InOrder, NEW c \in Clients, DenialFor(c), NEW o \in Clients, NEW d,
         HandleCorrupt(o, d), UNCHANGED clientVars
  PROVE  DenialFor(c)'
<1>1. /\ ServerReads(o, d) /\ Started(o) /\ files' = files /\ srv \in Running
      /\ Keeps(toServer[o], toServer'[o])
      /\ \A p \in Clients \ {o} : toServer'[p] = toServer[p]
  BY RequestFacts DEF HandleCorrupt, ServerReceives, Running
<1>2. CASE session # NoSession /\ Reply(o, AGN(session.sqn)) /\ UNCHANGED <<srv, session>>
  <2>1. session.sqn \in Bit /\ Serves(c)' = Serves(c)
    BY <1>2, InvTypes DEF Session, Serves
  <2>2. AGN(session.sqn) \in Datagram /\ AGN(session.sqn) # ABR
    BY <2>1, SignalTypes, SignalFacts DEF IsAbort
  <2>3. AGN(session.sqn) # create_ACK(Current(c))
    <3>1. pos[c] \in Nat /\ sqn[c] \in Bit
      BY InvTypes
    <3> QED BY <2>1, <3>1, Distinct DEF Bit
  <2>4. CASE o # c
    BY <1>1, <1>2, <2>1, <2>4, AnswersOne, OthersServed
  <2>5. CASE o = c
    BY <1>1, <1>2, <2>1, <2>2, <2>3, <2>5, AnswersOne, Answered
  <2> QED BY <2>4, <2>5
<1>3. CASE srv' = "sigsegv" /\ session' = NoSession /\ toClient' = toClient
  <2>1. srv' \notin Running /\ ~Serves(c)'
    BY <1>3 DEF Running, Serves
  <2>2. /\ SameUpload(c) /\ pc' = pc /\ (Kept(c) => Kept(c)')
        /\ HasRival(c) => HasRival(c)'
    BY <1>1 DEF SameUpload, clientVars, Kept, Stored, NameReused, HasRival, Started
  <2>3. Keeps(toServer[c], toServer'[c])
    BY <1>1, EmptyQueue
  <2> QED BY <1>3, <2>1, <2>2, <2>3, DenialKeeps DEF Keeps
<1> QED BY <1>2, <1>3 DEF HandleCorrupt

\* The FIN ends the session: what its client waits for is the ACK of the FIN.
LEMMA FinishUploadDenial ==
  ASSUME IInv, DiskWorks, NEW c \in Clients, DenialFor(c), FinishUpload,
         UNCHANGED clientVars
  PROVE  DenialFor(c)'
<1>1. /\ srv = "handle" /\ "FIN" \in pending.flags /\ session' = NoSession
      /\ files' = files /\ toClient' = toClient /\ toServer' = toServer
      /\ ~Serves(c)' /\ srv \in Running
  BY DEF FinishUpload, netVars, Serves, Running
<1>2. /\ SameUpload(c) /\ pc' = pc /\ (Kept(c) => Kept(c)')
      /\ HasRival(c) => HasRival(c)'
  BY <1>1 DEF SameUpload, clientVars, Kept, Stored, NameReused, HasRival, Started
<1>3. CASE ~Serves(c)
  BY <1>1, <1>2, <1>3, DenialKeeps
<1>4. CASE Serves(c)
  <2>1. Stored(c)
    BY <1>1, <1>4, FinFacts DEF Serves, Stored
  <2>2. ASSUME pc[c] # "done"
        PROVE  pos[c] + 1 = LastPos(c) /\ NoneOf(toServer[c], Previous(c))
    <3>1. /\ Acknowledged(c) <= Len(File[c]) + 1 /\ ClientInv(c)
          /\ pending = Outgoing(c, Acknowledged(c), Flip(session.sqn))
          /\ 1 <= Acknowledged(c)
          /\ session.sqn # sqn[c] => NoneOf(toServer[c], Previous(c))
      BY <1>1, <1>4 DEF IInv, SessionInv, Serves
    <3>2. /\ pos[c] \in Nat /\ Len(File[c]) \in Nat /\ LastPos(c) = Len(File[c]) + 2
          /\ pos[c] <= LastPos(c) /\ Flip(session.sqn) \in Bit
      BY <1>4, InvTypes DEF Serves, Session, Flip, Bit, ClientTypeOK
    <3>3. Acknowledged(c) = IF session.sqn = sqn[c] THEN pos[c] - 1 ELSE pos[c]
      BY DEF Acknowledged
    <3>4. Acknowledged(c) \notin 0..Len(File[c])
      BY <1>1, <3>1, <3>2, <3>3, OutgoingFacts
    <3>5. Acknowledged(c) = Len(File[c]) + 1
      BY <3>1, <3>2, <3>3, <3>4
    <3>6. pos[c] # LastPos(c)
      BY <2>2, <3>1 DEF ClientInv
    <3> QED BY <3>1, <3>2, <3>3, <3>5, <3>6
  <2>3. pc[c] # "done" => OnlyFinLeft(c)'
    BY <1>1, <1>2, <2>1, <2>2 DEF OnlyFinLeft, Stored, SameUpload, LastPos, Previous
  <2>4. KeptInHand(c)' /\ AbortHasCause(c)'
    BY <1>2, <2>3 DEF KeptInHand, AbortHasCause, Uploading
  <2>5. pc[c] \in Concerned => ~(pos[c] = 1 /\ LastPos(c) > 2)
    BY <2>2 DEF Concerned, Uploading
  <2>6. AbortAnswersFin(c)'
    BY <1>1, <1>2, <2>3, <2>5
    DEF AbortAnswersFin, SameUpload, LastPos, Concerned, Uploading
  <2> QED BY <2>4, <2>6 DEF DenialFor
<1> QED BY <1>3, <1>4

\* A chunk goes to the file of the client that is served.
LEMMA WriteBytesDenial ==
  ASSUME IInv, NEW c \in Clients, DenialFor(c), WriteBytes, UNCHANGED clientVars
  PROVE  DenialFor(c)'
<1>1. /\ session # NoSession /\ session.addr \in Clients /\ srv \in Running
      /\ session' # NoSession /\ session'.addr = session.addr
      /\ \/ files' = files
         \/ \E f : files' = [files EXCEPT ![session.file] = f]
  BY WriteBytesFacts DEF Running
<1>2. toServer' = toServer /\ toClient' = toClient /\ (Serves(c)' <=> Serves(c))
  BY <1>1 DEF WriteBytes, netVars, Serves
<1>3. CASE Serves(c)
  <2>1. SameUpload(c) /\ pc' = pc /\ (HasRival(c) => HasRival(c)')
    BY DEF SameUpload, clientVars, HasRival, Started
  <2> QED BY <1>1, <1>2, <1>3, <2>1, DenialKeeps
<1>4. CASE ~Serves(c)
  <2>1. PICK o \in Clients : session.addr = o
    BY <1>1
  <2>2. o # c /\ session.file = Name[o] /\ Started(o)
    BY <1>1, <1>4, <2>1 DEF Serves, IInv, SessionInv, Started
  <2> QED BY <1>1, <1>2, <2>2, OthersServed
<1> QED BY <1>3, <1>4

\* Every step of a server that nobody stops.
LEMMA ServerDenial ==
  ASSUME IInv, InOrder, DiskWorks, OwnAddresses, NobodyStops, NEW c \in Clients,
         DenialFor(c), ServerNext, UNCHANGED clientVars
  PROVE  DenialFor(c)'
<1>1. ASSUME NEW o \in Clients, NEW d, HandleIntact(o, d)
      PROVE  DenialFor(c)'
  BY <1>1, DenySYNDenial, AcceptSYNDenial, HandleABRDenial, HandleForeignDenial,
     RegularDenial DEF HandleIntact
<1>2. ASSUME NEW o \in Clients, NEW d, HandleCorrupt(o, d) PROVE DenialFor(c)'
  BY <1>2, HandleCorruptDenial
<1>3. \A o \in Clients : \A d : ~FailToOpen(o, d) /\ ~InterruptedReplacing(o, d)
  BY DEF FailToOpen, DiskWorks, InterruptedReplacing, NobodyStops
<1>4. CASE HandlePending
  BY <1>4, FinishUploadDenial, WriteBytesDenial DEF HandlePending
<1>5. ASSUME Tick \/ \E o \in Clients : DropUndeliverable(o) PROVE DenialFor(c)'
  <2>1. /\ srv' = srv /\ files' = files /\ toClient' = toClient
        /\ SameUpload(c) /\ pc' = pc /\ (Kept(c) => Kept(c)')
        /\ HasRival(c) => HasRival(c)'
    BY <1>5 DEF Tick, DropUndeliverable, netVars, serverVars, SameUpload, clientVars,
                Kept, Stored, NameReused, HasRival, Started
  <2>2. Serves(c)' <=> Serves(c)
    <3>1. CASE Tick
      <4>1. /\ session # NoSession /\ session \in Session /\ session.since < 2
            /\ session' = [session EXCEPT !.since = @ + 1]
        BY <3>1, InvTypes DEF Tick
      <4>2. session' \in Session /\ session'.addr = session.addr
        BY <4>1 DEF Session, SinceLog
      <4> QED BY <4>1, <4>2, NoValueAssumption DEF Serves
    <3>2. CASE ~Tick
      BY <1>5, <3>2 DEF DropUndeliverable, serverVars, Serves
    <3> QED BY <3>1, <3>2
  <2>3. Keeps(toServer[c], toServer'[c])
    BY <1>5, InvTypes, EmptyQueue DEF Tick, DropUndeliverable, netVars, NetTypeOK
  <2> QED BY <2>1, <2>2, <2>3, DenialKeeps DEF Keeps
<1>6. ~ServerInterrupted /\ ~ServerStart
  BY DEF ServerInterrupted, ServerStart, NobodyStops
<1> QED BY <1>1, <1>2, <1>3, <1>4, <1>5, <1>6 DEF ServerNext

-----------------------------------------------------------------------------
(***************************************************************************)
(* The client, and the path.                                               *)
(***************************************************************************)
\* What the client reads or loses of its answers makes no denial of its own.
LEMMA HeardDenial ==
  ASSUME NEW c \in Clients, DenialFor(c), UNCHANGED serverVars, SameUpload(c),
         Keeps(toClient[c], toClient'[c]),
         pc'[c] \in Concerned /\ NoneOf(toServer[c], Previous(c)) =>
           NoneOf(toServer'[c], Previous(c)),
         \A o \in Clients : Started(o) => Started(o)',
         pc'[c] \in Uploading => pc[c] \in Uploading,
         pc'[c] = "denied" => pc[c] = "denied"
  PROVE  DenialFor(c)'
<1>1. /\ srv' = srv /\ (Serves(c)' <=> Serves(c)) /\ (Kept(c) => Kept(c)')
      /\ HasRival(c) => HasRival(c)'
  BY DEF serverVars, Serves, Kept, Stored, NameReused, HasRival
<1> QED BY <1>1, DenialKeeps DEF Keeps

\* The client is denied: an ABR has come that answers its FIN, or that came before
\* the second ACK.
LEMMA DeniedDenial ==
  ASSUME IInv, InOrder, NEW c \in Clients, DenialFor(c), NEW d, Denied(c, d),
         UNCHANGED serverVars
  PROVE  DenialFor(c)'
<1>1. /\ pc[c] = "wait" /\ ClientReads(c, d) /\ IsAbort(d)
      /\ pc' = [pc EXCEPT ![c] = "denied"] /\ pos' = pos /\ sqn' = sqn
      /\ toServer' = toServer
  BY DEF Denied, ClientReceives
<1>2. pc'[c] = "denied" /\ \A o \in Clients : Started(o) => Started(o)'
  BY <1>1, InvTypes DEF ClientTypeOK, Started
<1>3. ~NoneOf(toClient[c], d) /\ d \in Answers(c)
  BY <1>1, InvTypes, ClientReadsFacts DEF IInv, PathInv
<1>4. d = ABR
  <2>1. d # create_ACK(ABR)
    BY <1>1, <1>3 DEF IInv, AbortInv, InHandler
  <2>2. d \notin {AGN(0), AGN(1)}
    BY <1>1, SignalFacts DEF IsAbort, Bit
  <2>3. d # create_ACK(Current(c)) /\ d # create_ACK(Previous(c))
    <3>1. /\ pos[c] \in Int /\ pos[c] - 1 \in Int /\ sqn[c] \in Bit
          /\ Flip(sqn[c]) \in Bit
      BY InvTypes DEF Flip, Bit
    <3> QED BY <1>1, <3>1, AckFacts DEF Current, Previous, IsAbort
  <2> QED BY <1>3, <2>1, <2>2, <2>3 DEF Answers
<1>5. /\ pos[c] >= 2 => ~Serves(c) /\ OnlyFinLeft(c)
      /\ srv \in Running => HasRival(c) \/ Serves(c) \/ OnlyFinLeft(c)
  BY <1>1, <1>3, <1>4 DEF DenialFor, AbortAnswersFin, AbortHasCause, Uploading
<1>6. /\ Serves(c)' <=> Serves(c)
      /\ OnlyFinLeft(c) => OnlyFinLeft(c)'
      /\ HasRival(c) => HasRival(c)'
      /\ srv' = srv
  BY <1>1, <1>2
  DEF serverVars, Serves, OnlyFinLeft, LastPos, Stored, NameReused, HasRival, Previous
<1>7. KeptInHand(c)'
  BY <1>2 DEF KeptInHand, Uploading
<1>8. AbortAnswersFin(c)'
  BY <1>1, <1>2, <1>5, <1>6 DEF AbortAnswersFin, Uploading
<1>9. AbortHasCause(c)'
  BY <1>5, <1>6 DEF AbortHasCause
<1> QED BY <1>7, <1>8, <1>9 DEF DenialFor

\* The client goes on: at its second ACK no ABR is left behind it.
LEMMA AdvanceDenial ==
  ASSUME IInv, InOrder, NEW c \in Clients, DenialFor(c), NEW d, Advance(c, d),
         UNCHANGED serverVars
  PROVE  DenialFor(c)'
<1>1. /\ pc[c] = "wait" /\ ClientReads(c, d) /\ IsExpected(c, d)
      /\ pos' = [pos EXCEPT ![c] = @ + 1]
      /\ sqn' = [sqn EXCEPT ![c] = Flip(@)]
      /\ IF pos[c] + 1 = LastPos(c)
           THEN pc' = [pc EXCEPT ![c] = "done"] /\ toServer' = toServer
           ELSE Transmit(c, Outgoing(c, pos[c] + 1, Flip(sqn[c]))) /\ pc' = pc
  BY DEF Advance, ClientReceives, SendAfresh
<1>2. NetTypeOK /\ ClientTypeOK /\ pos[c] \in Nat /\ sqn[c] \in Bit
      /\ LastPos(c) = Len(File[c]) + 2 /\ Len(File[c]) \in Nat
  BY InvTypes
<1>3. CASE pos[c] + 1 = LastPos(c)
  <2>1. pc'[c] = "done"
    BY <1>1, <1>2, <1>3 DEF ClientTypeOK
  <2> QED BY <2>1
    DEF DenialFor, KeptInHand, AbortAnswersFin, AbortHasCause, Uploading
<1>4. CASE pos[c] + 1 # LastPos(c)
  <2>1. /\ d = create_ACK(Current(c)) /\ d # ABR
        /\ ~NoneOf(toClient[c], create_ACK(Current(c)))
        /\ NoneOf(toClient'[c], create_ACK(Previous(c)))
        /\ Keeps(toClient[c], toClient'[c])
        /\ NeverAfter(toClient[c], d, ABR) => NoneOf(toClient'[c], ABR)
    BY <1>1, <1>2, ExpectedFacts, ClientReadsFacts, Distinct
  <2>2. pc'[c] = "wait" /\ pos'[c] = pos[c] + 1 /\ sqn'[c] = Flip(sqn[c])
    BY <1>1, <1>2, <1>4 DEF ClientTypeOK
  <2>3. Current(c)' = Outgoing(c, pos[c] + 1, Flip(sqn[c]))
    BY <2>2 DEF Current
  <2>4. toServer'[c] = Enqueue(toServer[c], Current(c)')
    BY <1>1, <1>2, <1>4, <2>3 DEF Transmit, NetTypeOK
  <2>5. NoneOf(toClient'[c], create_ACK(Current(c)'))
    <3>1. Link(c) /\ pos'[c] # LastPos(c)
      BY <1>4, <2>2 DEF IInv, Link
    <3> QED BY <1>1, <1>2, <2>1, <2>2, <2>4, <3>1, LinkAdvanced
  <2>6. /\ srv' = srv /\ (Serves(c)' <=> Serves(c)) /\ LastPos(c)' = LastPos(c)
        /\ HasRival(c) => HasRival(c)'
    BY <1>1, <1>4 DEF serverVars, Serves, LastPos, HasRival, Started
  <2>7. srv \in Running => Serves(c)
    BY <1>1, <1>4, <2>1
    DEF DenialFor, KeptInHand, SynAcknowledged, OnlyFinLeft, Uploading
  <2>8. NeverAfter(toClient'[c], create_ACK(Current(c)'), ABR)
    BY <2>5 DEF NeverAfter, NoneOf
  <2>9. pos[c] >= 1 => NoneOf(toClient'[c], ABR)
    <3>1. CASE pos[c] = 1
      <4>1. LastPos(c) > 2
        BY <1>2, <1>4, <3>1
      <4> QED BY <1>1, <2>1, <3>1, <4>1 DEF DenialFor, AbortAnswersFin, Uploading
    <3>2. CASE pos[c] >= 2
      <4>1. NoneOf(toClient[c], ABR)
        BY <1>1, <1>4, <3>2 DEF DenialFor, AbortAnswersFin, OnlyFinLeft, Uploading
      <4> QED BY <2>1, <4>1 DEF Keeps
    <3> QED BY <1>2, <3>1, <3>2
  <2>10. KeptInHand(c)' /\ AbortHasCause(c)'
    BY <2>6, <2>7 DEF KeptInHand, AbortHasCause
  <2>11. AbortAnswersFin(c)'
    BY <1>2, <2>2, <2>6, <2>8, <2>9 DEF AbortAnswersFin
  <2> QED BY <2>10, <2>11 DEF DenialFor
<1> QED BY <1>3, <1>4

\* What a client sends is its current datagram, or ABR once it has been killed: as
\* long as it is concerned, it does not send what has been acknowledged.
LEMMA SendsForward ==
  ASSUME IInv, NEW c \in Clients, NEW o \in Clients,
         \/ toServer' = toServer
         \/ Transmit(o, Current(o))
         \/ Transmit(o, ABR) /\ pc'[o] \notin Concerned,
         pc'[c] \in Concerned, NoneOf(toServer[c], Previous(c))
  PROVE  NoneOf(toServer'[c], Previous(c))
<1>1. NetTypeOK /\ pos[c] \in Nat /\ pos[c] \in Int /\ sqn[c] \in Bit
      /\ toServer[c] \in Seq(Request)
  BY InvTypes
<1>2. CASE toServer'[c] = toServer[c]
  BY <1>2
<1>3. CASE toServer'[c] = Enqueue(toServer[c], Current(c))
  <2>1. Current(c) \in Request /\ Current(c) # Previous(c)
    BY <1>1, OutgoingFacts, Distinct DEF Current
  <2> QED BY <1>1, <1>3, <2>1, EnqueueKeeps
<1> QED BY <1>1, <1>2, <1>3 DEF Transmit, NetTypeOK

\* Every step of a client: its own denials, and those of others.
LEMMA ClientDenial ==
  ASSUME IInv, InOrder, NEW c \in Clients, DenialFor(c), NEW o \in Clients,
         ClientNext(o), UNCHANGED serverVars
  PROVE  DenialFor(c)'
<1>0. NetTypeOK /\ ClientTypeOK
  BY InvTypes
<1>1. ASSUME Hears(o), pos' = pos, sqn' = sqn,
             NEW p \in {"wait", "gaveup", "killed", "crashed"} \cup InHandler,
             pc[o] \in {"start", "wait"} \cup InHandler,
             p = "wait" => pc[o] \notin InHandler,
             pc' = [pc EXCEPT ![o] = p],
             \/ toServer' = toServer
             \/ Transmit(o, Current(o))
             \/ Transmit(o, ABR) /\ p \in InHandler
      PROVE  DenialFor(c)'
  <2>1. Keeps(toClient[c], toClient'[c]) /\ SameUpload(c)
    <3>1. CASE o = c
      BY <1>0, <1>1, <3>1, HearsFacts DEF SameUpload
    <3>2. CASE o # c
      BY <1>0, <1>1, <3>2, HearsFacts, EmptyQueue DEF SameUpload
    <3> QED BY <3>1, <3>2
  <2>2. pc'[o] = p /\ \A q \in Clients \ {o} : pc'[q] = pc[q]
    BY <1>0, <1>1 DEF ClientTypeOK
  <2>3. /\ \A q \in Clients : Started(q) => Started(q)'
        /\ pc'[c] \in Uploading => pc[c] \in Uploading
        /\ pc'[c] = "denied" => pc[c] = "denied"
    BY <1>1, <2>2 DEF Started, Uploading, InHandler
  <2>4. p \in InHandler => pc'[o] \notin Concerned
    BY <2>2 DEF Concerned, Uploading, InHandler
  <2>5. pc'[c] \in Concerned /\ NoneOf(toServer[c], Previous(c)) =>
          NoneOf(toServer'[c], Previous(c))
    BY <1>1, <2>4, SendsForward
  <2> QED BY <2>1, <2>3, <2>5, HeardDenial
<1>2. ASSUME NEW d, Denied(o, d) \/ Advance(o, d), o # c PROVE DenialFor(c)'
  <2>1. /\ ClientReads(o, d) /\ pos'[c] = pos[c] /\ sqn'[c] = sqn[c]
        /\ pc'[c] = pc[c] /\ \A q \in Clients : Started(q) => Started(q)'
    BY <1>0, <1>2 DEF Denied, Advance, ClientReceives, ClientTypeOK, Started
  <2>2. toServer'[c] = toServer[c]
    BY <1>0, <1>2 DEF Denied, Advance, SendAfresh, Transmit, NetTypeOK
  <2>3. Keeps(toClient[c], toClient'[c]) /\ SameUpload(c)
    BY <1>0, <1>2, <2>1, ClientReadsFacts, EmptyQueue DEF SameUpload
  <2> QED BY <2>1, <2>2, <2>3, HeardDenial
<1>3. CASE ClientStart(o)
  BY <1>1, <1>3 DEF ClientStart, Hears, InHandler
<1>4. ASSUME NEW d, ReceiveIntact(o, d) PROVE DenialFor(c)'
  <2>1. CASE Denied(o, d)
    BY <1>2, <2>1, DeniedDenial
  <2>2. CASE Advance(o, d)
    BY <1>2, <2>2, AdvanceDenial
  <2>3. CASE Resend(o, d)
    <3>1. pc[o] = "wait" /\ pc' = [pc EXCEPT ![o] = "wait"]
      BY <1>0, <2>3 DEF Resend, ClientReceives, ClientTypeOK
    <3> QED
      BY <1>1, <2>3, <3>1 DEF Resend, ClientReceives, SendAfresh, Hears, InHandler
  <2>4. CASE AbortAcknowledged(o, d)
    BY <1>1, <2>4 DEF AbortAcknowledged, Hears
  <2>5. CASE AbortUnanswered(o, d)
    <3>1. pc[o] \in InHandler /\ pc' = [pc EXCEPT ![o] = pc[o]]
      BY <1>0, <2>5 DEF AbortUnanswered, ClientTypeOK
    <3> QED BY <1>1, <2>5, <3>1 DEF AbortUnanswered, SendAfresh, Hears, InHandler
  <2> QED BY <1>4, <2>1, <2>2, <2>3, <2>4, <2>5 DEF ReceiveIntact
<1>5. ASSUME NEW d, ClientReceivesCorrupt(o, d) PROVE DenialFor(c)'
  <2>1. Hears(o) /\ pos' = pos /\ sqn' = sqn
    BY <1>5 DEF ClientReceivesCorrupt, Hears
  <2>2. CASE pc' = [pc EXCEPT ![o] = "crashed"] /\ toServer' = toServer
    BY <1>1, <1>5, <2>1, <2>2 DEF ClientReceivesCorrupt
  <2>3. CASE pc[o] = "wait" /\ pc' = pc /\ Transmit(o, Current(o))
    <3>1. pc' = [pc EXCEPT ![o] = "wait"]
      BY <1>0, <2>3 DEF ClientTypeOK
    <3> QED BY <1>1, <2>1, <2>3, <3>1 DEF InHandler
  <2>4. CASE pc[o] \in InHandler /\ pc' = pc /\ Transmit(o, ABR)
    <3>1. pc' = [pc EXCEPT ![o] = pc[o]]
      BY <1>0, <2>4 DEF ClientTypeOK
    <3> QED BY <1>1, <2>1, <2>4, <3>1 DEF InHandler
  <2> QED
    BY <1>5, <2>2, <2>3, <2>4 DEF ClientReceivesCorrupt, SendAfresh, InHandler
<1>6. CASE ClientTimeout(o)
  <2>1. pc[o] = "wait" /\ pc' = [pc EXCEPT ![o] = "wait"]
    BY <1>0, <1>6 DEF ClientTimeout, SendAgain, ClientTypeOK
  <2> QED BY <1>1, <1>6, <2>1 DEF ClientTimeout, SendAgain, Hears, InHandler
<1>7. CASE AbortTimeout(o)
  <2>1. pc[o] = "abort" /\ pc' = [pc EXCEPT ![o] = "abort"]
    BY <1>0, <1>7 DEF AbortTimeout, SendAgain, ClientTypeOK
  <2> QED BY <1>1, <1>7, <2>1 DEF AbortTimeout, SendAgain, Hears, InHandler
<1>8. CASE ClientGivesUp(o) \/ AbortGivesUp(o)
  BY <1>1, <1>8 DEF ClientGivesUp, AbortGivesUp, Hears, netVars, InHandler
<1>9. CASE ClientInterrupted(o)
  BY <1>1, <1>9 DEF ClientInterrupted, SendAfresh, Hears, InHandler
<1> QED BY <1>3, <1>4, <1>5, <1>6, <1>7, <1>8, <1>9 DEF ClientNext, Expire

\* A loss takes no client anywhere.
LEMMA LossDenial ==
  ASSUME IInv, InOrder, NEW c \in Clients, DenialFor(c), NEW o \in Clients,
         LoseToServer(o) \/ LoseToClient(o),
         UNCHANGED serverVars, UNCHANGED clientVars
  PROVE  DenialFor(c)'
<1>1. pc' = pc /\ SameUpload(c) /\ \A q \in Clients : Started(q) => Started(q)'
  BY DEF clientVars, SameUpload, Started
<1>2. /\ NetTypeOK /\ toServer[o] \in Seq(Request) /\ toClient[o] \in Seq(Datagram)
  BY InvTypes
<1>3. Keeps(toClient[c], toClient'[c]) /\ Keeps(toServer[c], toServer'[c])
  <2>1. CASE LoseToServer(o)
    <3>1. PICK i \in Positions(toServer[o]) :
            toServer' = [toServer EXCEPT ![o] = RemoveAt(@, i)]
      BY <2>1 DEF LoseToServer
    <3>2. RemoveAt(toServer[o], i) \in Remaining(toServer[o], i)
      BY DEF Remaining
    <3>3. Keeps(toServer[o], RemoveAt(toServer[o], i))
      BY <1>2, <3>2, ReadingKeeps
    <3> QED BY <1>2, <2>1, <3>1, <3>3, EmptyQueue DEF LoseToServer, NetTypeOK
  <2>2. CASE LoseToClient(o)
    <3>1. PICK i \in Positions(toClient[o]) :
            toClient' = [toClient EXCEPT ![o] = RemoveAt(@, i)]
      BY <2>2 DEF LoseToClient
    <3>2. RemoveAt(toClient[o], i) \in Remaining(toClient[o], i)
      BY DEF Remaining
    <3>3. Keeps(toClient[o], RemoveAt(toClient[o], i))
      BY <1>2, <3>2, ReadingKeeps
    <3> QED BY <1>2, <2>2, <3>1, <3>3, EmptyQueue DEF LoseToClient, NetTypeOK
  <2> QED BY <2>1, <2>2
<1> QED BY <1>1, <1>3, HeardDenial DEF Keeps

-----------------------------------------------------------------------------
(***************************************************************************)
(* The invariant, and what follows.                                        *)
(***************************************************************************)
\* As long as nobody stops the server, an upload past its handshake is served until
\* its FIN has been handled, and every ABR that a client gets has a cause: a rival,
\* the client's own upload, or its FIN, handled already.
THEOREM DenialInvariance ==
  ASSUME InOrder, DiskWorks, OwnAddresses, NobodyStops
  PROVE  Spec => []DenialInv
<1>0. DenialInv <=> \A c \in Clients : DenialFor(c)
  BY DEF DenialInv, DenialFor
<1>1. Init => DenialInv
  <2> SUFFICES ASSUME Init, NEW c \in Clients PROVE DenialFor(c)
    BY <1>0
  <2>1. toClient[c] = <<>> /\ pc[c] = "start" /\ pos[c] = 0
    BY DEF Init, NetInit, ClientInit
  <2> QED BY <2>1, EmptyQueue
    DEF DenialFor, KeptInHand, AbortAnswersFin, AbortHasCause, SynAcknowledged
<1>2. IInv /\ DenialInv /\ [Next]_vars => DenialInv'
  <2> SUFFICES ASSUME IInv, DenialInv, [Next]_vars, NEW c \in Clients
               PROVE  DenialFor(c)'
    BY DEF DenialInv, DenialFor
  <2>1. DenialFor(c)
    BY <1>0
  <2>2. CASE ServerNext /\ UNCHANGED clientVars
    BY <2>1, <2>2, ServerDenial
  <2>3. ASSUME NEW o \in Clients, ClientNext(o), UNCHANGED serverVars
        PROVE  DenialFor(c)'
    BY <2>1, <2>3, ClientDenial
  <2>4. CASE NetworkNext /\ UNCHANGED <<serverVars, clientVars>>
    BY <2>1, <2>4, LossDenial DEF NetworkNext
  <2>5. CASE UNCHANGED vars
    <3>1. /\ UNCHANGED serverVars /\ SameUpload(c) /\ toClient' = toClient /\ pc' = pc
          /\ toServer' = toServer /\ \A q \in Clients : Started(q) => Started(q)'
      BY <2>5 DEF vars, netVars, clientVars, serverVars, SameUpload, Started
    <3> QED BY <2>1, <3>1, EmptyQueue, HeardDenial
  <2> QED BY <2>2, <2>3, <2>4, <2>5 DEF Next
<1> QED BY <1>1, <1>2, InStep, PTL DEF Spec

\* A client that is told "Server busy" after one of its chunks has been acknowledged
\* has its file on the server, unless another client has used the name: what says
\* so answers its FIN, sent again because the ACK of it was lost.
THEOREM LateDenialStored ==
  ASSUME InOrder, DiskWorks, OwnAddresses, NobodyStops
  PROVE  Spec => []LateDenialMeansStored
<1>1. DenialInv => LateDenialMeansStored
  BY DEF DenialInv, AbortAnswersFin, OnlyFinLeft, LateDenialMeansStored
<1> QED BY <1>1, DenialInvariance, PTL

\* "Server busy" has a cause: another client has come, or the server is busy with
\* the very upload it denies, or that upload is over and stored.
THEOREM DenialCaused ==
  ASSUME InOrder, DiskWorks, OwnAddresses, NobodyStops
  PROVE  Spec => []DenialHasCause
<1>1. DenialInv => DenialHasCause
  BY DEF DenialInv, AbortHasCause, OnlyFinLeft, DenialHasCause, NameReused, HasRival
<1> QED BY <1>1, DenialInvariance, PTL

=============================================================================
