---------------------------- MODULE HttpExchange ----------------------------
(***************************************************************************)
(* One request and its response, between snatch (or another client) and a  *)
(* handler thread of http_server, over a TCP connection.  Both sides use   *)
(* Connection::receive_bytes, which returns what one recv yields, and that *)
(* may be any beginning of what is there.                                  *)
(*                                                                         *)
(* A request is five units: the status line, its line end, a header, its   *)
(* line end, and the empty line; a line without its end is not understood. *)
(* A response is a header and the bytes of the content, named by their     *)
(* offsets.  snatch takes it apart, and prints or saves the content.       *)
(***************************************************************************)
EXTENDS HttpResponse

CONSTANTS
  FileSizes,  \* sizes the requested file may have
  Offsets,    \* offsets a range may name
  Blanks,     \* sets of offsets at which a file may have line ends
  Pieces,     \* BYTES of snatch's option -s
  RecvSize,   \* units of a response that fit into one recv
  AtOnce,     \* no option -s
  NoRange,    \* no range is asked for
  NoEnd,      \* a range without an end
  TooLarge,   \* a number that no int holds
  NoFile      \* nothing has been saved

ASSUME SizesAssumption ==
  /\ FileSizes \subseteq Nat
  /\ Offsets \subseteq Nat
  /\ Blanks \subseteq SUBSET Nat
  /\ Pieces \subseteq Nat
  /\ RecvSize \in Nat

Number == Nat \cup {TooLarge}

ASSUME NoValuesAssumption ==
  /\ AtOnce \notin Nat /\ NoEnd \notin Number /\ TooLarge \notin Nat
  /\ NoRange \notin [start : Number, end : Number \cup {NoEnd}]
  /\ NoFile \notin Seq(Unit)

Ranges ==
  [start : Offsets \cup {TooLarge}, end : Offsets \cup {TooLarge, NoEnd}]

\* snatch names its range header "Range", the server looks for "Content-Range".
\* index is a directory with an index.html, listing a directory without.
Request ==
  [method : {"GET", "other"}, target : {"file", "index", "listing", "missing"},
   header : {"Range", "Content-Range"}, range : Ranges \cup {NoRange}]

StatusLineEnd == 2
HeaderEnd     == 4
RequestLength == 5

\* The size of a text that the server composes: a listing, or a reason.
TextSize == 1

VARIABLES
  asked,     \* the request
  size,      \* the size of the file; a file that may not be read counts as empty
  blank,     \* the offsets of its line ends
  slow,      \* the client's option -s
  client,    \* what the client is doing, or how it ended
  out,       \* the units the client has sent
  payload,   \* the payload of what it has received
  printed,   \* what it has written to its standard output
  kept,      \* the file it has written
  server,    \* what the handler thread is doing
  got,       \* the units its recv has yielded
  reply      \* the response: status, first offset, length, size of the content

inputs == <<asked, size, blank, slow>>

saved == <<payload, printed, kept>>

clientVars == <<client, out, saved>>

vars == <<inputs, clientVars, server, got, reply>>

Reply(status, first, length, of) ==
  [status |-> status, first |-> first, length |-> length, of |-> of]

TypeOK ==
  /\ asked \in Request
  /\ size \in FileSizes
  /\ blank \in Blanks
  /\ slow \in Pieces \cup {AtOnce}
  /\ client \in {"sending", "receiving", "received", "done", "failed", "crashed"}
  /\ out \in Nat /\ got \in 0..out
  /\ server \in {"receiving", "responding", "header", "data", "closed"}
  /\ reply \in [status : {"none", "OK", "BAD_REQUEST", "METHOD_NOT_ALLOWED"},
                first : Nat, length : Nat, of : Nat]
  /\ payload \in Seq(Unit)
  /\ printed \in Seq(Unit)
  /\ kept \in Seq(Unit) \cup {NoFile}

Init ==
  /\ asked \in Request
  /\ size \in FileSizes
  /\ blank \in Blanks
  /\ slow \in Pieces \cup {AtOnce}
  /\ client = "sending"
  /\ server = "receiving"
  /\ out = 0 /\ got = 0
  /\ payload = <<>> /\ printed = <<>> /\ kept = NoFile
  /\ reply = Reply("none", 0, 0, 0)

Answered == reply.status # "none"

-----------------------------------------------------------------------------
(***************************************************************************)
(* The client.                                                             *)
(***************************************************************************)
\* Connection::send
Send ==
  /\ client = "sending"
  /\ slow = AtOnce
  /\ out' = RequestLength
  /\ client' = "receiving"
  /\ UNCHANGED <<inputs, server, got, reply, saved>>

\* What send_slow sends: a piece that holds the message is sent at once, and
\* then the loop sends it another time.
SlowLength == IF slow >= RequestLength THEN 2 * RequestLength ELSE RequestLength

\* Connection::send_slow: piece by piece; with pieces of 0 bytes the loop never
\* ends.
SendSlow ==
  /\ client = "sending"
  /\ slow # AtOnce
  /\ out' = IF slow >= RequestLength        THEN out + RequestLength
            ELSE IF out + slow >= RequestLength THEN RequestLength
            ELSE out + slow
  /\ client' = IF out' = SlowLength THEN "receiving" ELSE "sending"
  /\ UNCHANGED <<inputs, server, got, reply, saved>>

\* SIGPIPE, once the server has closed the connection in the middle.
SendToNobody ==
  /\ client = "sending"
  /\ slow # AtOnce
  /\ server = "closed"
  /\ client' = "crashed"
  /\ UNCHANGED <<inputs, out, server, got, reply, saved>>

\* The i-th unit of the content of the response.
Sent(i) ==
  LET at == reply.first + i - 1
  IN  [is |-> IF at \in blank THEN "crlf" ELSE "byte", at |-> at]

\* What has come of the response: the header is sent before the content.
Arrived ==
  LET content == IF server = "header" THEN 0 ELSE reply.length IN
    [i \in 1..Len(ResponseHeader) + content |->
       IF i <= Len(ResponseHeader) THEN ResponseHeader[i] ELSE Sent(i - Len(ResponseHeader))]

\* One recv: the header, or a part of it, and what has come of the content.
ClientReceives ==
  /\ client = "receiving"
  /\ Answered
  /\ \E n \in 1..Len(Arrived) :
       n <= RecvSize /\ payload' = Parsed(SubSeq(Arrived, 1, n)).payload
  /\ client' = "received"
  /\ UNCHANGED <<inputs, out, printed, kept, server, got, reply>>

\* The server closes the connection unanswered: recv yields 0.
ClientReceivesNothing ==
  /\ client = "receiving"
  /\ server = "closed" /\ ~Answered
  /\ payload' = Parsed(<<>>).payload
  /\ client' = "received"
  /\ UNCHANGED <<inputs, out, printed, kept, server, got, reply>>

\* A server that closes a connection with unread data resets it; recv fails,
\* and receive_bytes takes the -1 for a size.
ClientIsReset ==
  /\ client = "receiving"
  /\ server = "closed"
  /\ got < out
  /\ client' = "crashed"
  /\ UNCHANGED <<inputs, out, server, got, reply, saved>>

\* Without a file name, from -o or from the URL with -O, the content is printed.
PrintPayload ==
  /\ client = "received"
  /\ printed' = payload
  /\ client' = "done"
  /\ UNCHANGED <<inputs, out, payload, kept, server, got, reply>>

\* With one, the content is written to the file, as far as the disk takes it,
\* and printed as well.
Save ==
  /\ client = "received"
  /\ \E n \in 0..Len(payload) : kept' = SubSeq(payload, 1, n)
  /\ printed' = payload
  /\ client' = "done"
  /\ UNCHANGED <<inputs, out, payload, server, got, reply>>

\* The file cannot be opened: EXIT_FAILURE.
FailToSave ==
  /\ client = "received"
  /\ client' = "failed"
  /\ UNCHANGED <<inputs, out, saved, server, got, reply>>

-----------------------------------------------------------------------------
(***************************************************************************)
(* The server.                                                             *)
(***************************************************************************)
\* Mutant: the server reads on until the client closes the connection.
ReceiveUntilClosed ==
  /\ server = "receiving"
  /\ client \in {"done", "failed", "crashed"}
  /\ got' = out
  /\ server' = "responding"
  /\ UNCHANGED <<inputs, clientVars, reply>>

\* receive_bytes: the loop is left after the first recv, as three characters
\* never equal four.
Receive ==
  /\ server = "receiving"
  /\ got' \in 1..out
  /\ server' = "responding"
  /\ UNCHANGED <<inputs, clientVars, reply>>

\* The range as HttpRequest reads it.
RangeRead ==
  IF asked.header = "Content-Range" /\ got >= HeaderEnd THEN asked.range ELSE NoRange

\* Mutant: the order of start and end is not looked at.
NeverBackwards(r) == FALSE

IsBackwards(r) == r # NoRange /\ r.end # NoEnd /\ r.end < r.start

\* Numbers that std::stoi refuses with an exception.
IsUnreadable(r) == r # NoRange /\ TooLarge \in {r.start, r.end}

Malformed ==
  got < StatusLineEnd \/ IsUnreadable(RangeRead) \/ IsBackwards(RangeRead)

\* ResponseFactory::create: the status and the size of the content.
Content ==
  IF asked.method # "GET"                    THEN <<"METHOD_NOT_ALLOWED", TextSize>>
  ELSE CASE asked.target \in {"file", "index"} -> <<"OK", size>>
         [] asked.target = "listing"           -> <<"OK", TextSize>>
         [] asked.target = "missing"           -> <<"BAD_REQUEST", TextSize>>

\* Mutant: the end of a range is taken for exclusive.
PartWithoutEnd(status, n, r) ==
  LET end == IF r.end # NoEnd /\ r.end > n THEN NoEnd ELSE r.end IN
    IF r.start > n      THEN Reply(status, 0, n, n)
    ELSE IF end = NoEnd THEN Reply(status, r.start, n - r.start, n)
    ELSE Reply(status, r.start, end - r.start, n)

\* Mutant: an end beyond the content is not looked for.
PartToAnyEnd(status, n, r) ==
  IF r.start > n        THEN Reply(status, 0, n, n)
  ELSE IF r.end = NoEnd THEN Reply(status, r.start, n - r.start, n)
  ELSE Reply(status, r.start, r.end - r.start + 1, n)

\* Connection::send with a range: an end beyond the content is ignored, and a
\* start beyond it makes everything be sent.
Part(status, n, r) ==
  LET end == IF r.end # NoEnd /\ r.end > n THEN NoEnd ELSE r.end IN
    IF r.start > n      THEN Reply(status, 0, n, n)
    ELSE IF end = NoEnd THEN Reply(status, r.start, n - r.start, n)
    ELSE Reply(status, r.start, end - r.start + 1, n)

\* handle_incoming_request: the response to what has been received.
Response ==
  IF Malformed THEN Reply("BAD_REQUEST", 0, TextSize, TextSize)
  ELSE IF RangeRead = NoRange THEN Reply(Content[1], 0, Content[2], Content[2])
  ELSE Part(Content[1], Content[2], RangeRead)

\* The header of the response is sent.
Respond ==
  /\ server = "responding"
  /\ reply' = Response
  /\ server' = "header"
  /\ UNCHANGED <<inputs, clientVars, got>>

\* A directory that may not be read, or a file that vanishes while it is listed:
\* the exception is caught around the handler, which closes the connection.
FailToList ==
  /\ server = "responding"
  /\ ~Malformed
  /\ asked.method = "GET" /\ asked.target = "listing"
  /\ server' = "closed"
  /\ UNCHANGED <<inputs, clientVars, got, reply>>

SendContent ==
  /\ server = "header"
  /\ server' = "data"
  /\ UNCHANGED <<inputs, clientVars, got, reply>>

Close ==
  /\ server = "data"
  /\ server' = "closed"
  /\ UNCHANGED <<inputs, clientVars, got, reply>>

ClientNext ==
  \/ Send \/ SendSlow
  \/ ClientReceives \/ ClientReceivesNothing \/ ClientIsReset
  \/ PrintPayload \/ Save \/ FailToSave

ServerNext == Receive \/ Respond \/ FailToList \/ SendContent \/ Close

Next == ClientNext \/ ServerNext \/ SendToNobody

Spec == Init /\ [][Next]_vars

\* Both processes run, and TCP delivers.
FairSpec == Spec /\ WF_vars(ClientNext) /\ WF_vars(ServerNext)

-----------------------------------------------------------------------------
SentOffsets == {i \in 0..(reply.first + reply.length) :
                  reply.first <= i /\ i < reply.first + reply.length}

\* The offsets a range names, within a content of n bytes.
Named(r, n) ==
  {i \in 0..n : i < n /\ r.start <= i /\ (r.end # NoEnd => i <= r.end)}

\* Of the content, the server sends exactly the part that the request names,
\* or everything: when no range is understood, or when it starts beyond the
\* end; a range that runs backwards is refused.  A request that arrives in
\* pieces is never served another part than it names.
PartAsNamed ==
  Answered =>
    LET all == 0..reply.of \ {reply.of} IN
      \/ SentOffsets = all
      \/ /\ asked.range # NoRange
         /\ asked.header = "Content-Range"
         /\ SentOffsets \cap all = Named(asked.range, reply.of)

\* A range that is read, of a content that exists, is served: what is sent of the
\* content is what the range names, from its first byte to its last, or everything
\* if the range starts beyond the end.  A range that starts at the end, at the size
\* of the content, counts as one that names nothing of it.
RangeIsServed ==
  Answered /\ RangeRead # NoRange /\ reply.status = "OK" =>
    LET all == 0..reply.of \ {reply.of} IN
      SentOffsets \cap all =
        IF RangeRead.start > reply.of THEN all ELSE Named(RangeRead, reply.of)

\* What is sent of the memory behind the content is one byte, whatever the range,
\* and only when the range names the size of the content as its last offset.
OverreadIsOneByte ==
  Answered =>
    LET beyond == SentOffsets \ 0..(reply.of - 1) IN
      beyond # {} =>
        /\ beyond = {reply.of}
        /\ asked.header = "Content-Range"
        /\ asked.range # NoRange
        /\ asked.range.end = reply.of

\* Whatever comes of the response with the one recv, and whatever its content
\* looks like, what snatch prints and what it saves is a beginning of the content
\* that the server has sent, never a part of the header, nor a later part.
DownloadIsBeginning ==
  \A seq \in {payload, printed} \cup ({kept} \ {NoFile}) :
    /\ Len(seq) <= reply.length
    /\ \A i \in DOMAIN seq : seq[i] = Sent(i)

\* Neither side waits for the other for ever: the client gets an answer, or
\* learns that there is none, unless it was told to send pieces of 0 bytes.
ExchangeEnds ==
  slow # 0 => <>(client \in {"done", "failed", "crashed"})

\* "when the range start is not inside data, just send everything", and "when the
\* range end is not inside data, just send until the end": a range of which neither
\* is inside the content gets the whole content, and nothing behind it.
RangeOutsideSendsEverything ==
  Answered /\ RangeRead # NoRange /\ reply.status = "OK" =>
    LET outside(n) == n >= reply.of IN
      outside(RangeRead.start) /\ RangeRead.end # NoEnd /\ outside(RangeRead.end)
        => SentOffsets = 0..reply.of \ {reply.of}

\* The client receives "while bytes_recvd > 0": all of the content.
AllReceived == client = "done" => Len(payload) = reply.length

=============================================================================
