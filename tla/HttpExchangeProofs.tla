------------------------- MODULE HttpExchangeProofs -------------------------
(***************************************************************************)
(* What http_server sends, for files and ranges of any size and requests   *)
(* that arrive in any pieces.                                              *)
(***************************************************************************)
EXTENDS HttpExchange, SequenceTheorems, TLAPS

\* A client that is still sending has not sent a whole request, unless it sends the
\* request twice.
PiecesLeft ==
  client = "sending" /\ (slow = AtOnce \/ slow < RequestLength) => out < RequestLength

\* The response is made of the request, of what has been received of it, and of
\* the file; nothing changes it later, and the client receives nothing before.
ResponseInv ==
  /\ TypeOK
  /\ PiecesLeft
  /\ server \in {"receiving", "responding"} => ~Answered
  /\ ~Answered => /\ reply = Reply("none", 0, 0, 0)
                  /\ payload = <<>> /\ printed = <<>> /\ kept \in {NoFile, <<>>}
  /\ Answered => reply = Response
  /\ DownloadIsBeginning

-----------------------------------------------------------------------------
(***************************************************************************)
(* What the client makes of a response.                                    *)
(***************************************************************************)
\* Two sequences of units in a row.
LEMMA Joined ==
  ASSUME NEW s \in Seq(Unit), NEW t \in Seq(Unit)
  PROVE  \E h \in Seq(Unit) :
           /\ h = s \o t
           /\ Len(h) = Len(s) + Len(t)
           /\ \A i \in 1..Len(s) + Len(t) :
                h[i] = IF i <= Len(s) THEN s[i] ELSE t[i - Len(s)]
<1>1. /\ s \o t \in Seq(Unit)
      /\ Len(s \o t) = Len(s) + Len(t)
      /\ \A i \in 1..Len(s) + Len(t) :
           (s \o t)[i] = IF i <= Len(s) THEN s[i] ELSE t[i - Len(s)]
  BY ConcatProperties, Zenon
<1>2. s \o t \in Seq(Unit)
  BY <1>1, Zenon
<1> WITNESS s \o t \in Seq(Unit)
<1> QED BY <1>1, Zenon

\* The header of every response, with its only empty line at the end.
LEMMA HeaderUnits ==
  /\ ResponseHeader \in Seq(Unit)
  /\ Len(ResponseHeader) = 7
  /\ \A i \in 1..7 : ResponseHeader[i].is = "crlf" <=> i \in {2, 4, 6, 7}
<1> DEFINE first == <<Line("status"), CRLF>>
           type == <<Line("type"), CRLF>>
           length == <<Line("length"), CRLF>>
           last == <<CRLF>>
<1>1. /\ first \in Seq(Unit) /\ type \in Seq(Unit) /\ length \in Seq(Unit)
      /\ last \in Seq(Unit)
  BY DEF Line, CRLF, Unit
<1>2. /\ Len(first) = 2 /\ Len(type) = 2 /\ Len(length) = 2 /\ Len(last) = 1
      /\ first[1].is = "status" /\ type[1].is = "type" /\ length[1].is = "length"
      /\ first[2].is = "crlf" /\ type[2].is = "crlf" /\ length[2].is = "crlf"
      /\ last[1].is = "crlf"
  BY DEF Line, CRLF
<1>3. ResponseHeader = (first \o ((<<>> \o type) \o length)) \o last
  BY DEF ResponseHeader, build_header, add_header
<1> HIDE DEF first, type, length, last
<1>4. <<>> \o type = type
  BY <1>1, ConcatEmptySeq, Zenon
<1>5. ResponseHeader = (first \o (type \o length)) \o last
  BY <1>3, <1>4, Zenon
<1>6. \E g \in Seq(Unit) :
        /\ g = (first \o (type \o length)) \o last
        /\ Len(g) = 7
        /\ g[1] = first[1] /\ g[2] = first[2] /\ g[3] = type[1] /\ g[4] = type[2]
        /\ g[5] = length[1] /\ g[6] = length[2] /\ g[7] = last[1]
  <2>0. Len(first) = 2 /\ Len(type) = 2 /\ Len(length) = 2 /\ Len(last) = 1
    BY <1>2
  <2>1. PICK fields \in Seq(Unit) :
          /\ fields = type \o length
          /\ Len(fields) = Len(type) + Len(length)
          /\ \A i \in 1..Len(type) + Len(length) :
               fields[i] = IF i <= Len(type) THEN type[i] ELSE length[i - Len(type)]
    BY <1>1, Joined, Zenon
  <2>2. /\ Len(fields) = 4
        /\ fields[1] = type[1] /\ fields[2] = type[2]
        /\ fields[3] = length[1] /\ fields[4] = length[2]
    BY <2>0, <2>1
  <2>3. PICK most \in Seq(Unit) :
          /\ most = first \o fields
          /\ Len(most) = Len(first) + Len(fields)
          /\ \A i \in 1..Len(first) + Len(fields) :
               most[i] = IF i <= Len(first) THEN first[i] ELSE fields[i - Len(first)]
    BY <1>1, Joined, Zenon
  <2>4. /\ Len(most) = 6
        /\ most[1] = first[1] /\ most[2] = first[2] /\ most[3] = fields[1]
        /\ most[4] = fields[2] /\ most[5] = fields[3] /\ most[6] = fields[4]
    BY <2>0, <2>2, <2>3
  <2>5. PICK h \in Seq(Unit) :
          /\ h = most \o last
          /\ Len(h) = Len(most) + Len(last)
          /\ \A i \in 1..Len(most) + Len(last) :
               h[i] = IF i <= Len(most) THEN most[i] ELSE last[i - Len(most)]
    BY <1>1, Joined, Zenon
  <2>6. /\ Len(h) = 7
        /\ h[1] = most[1] /\ h[2] = most[2] /\ h[3] = most[3] /\ h[4] = most[4]
        /\ h[5] = most[5] /\ h[6] = most[6] /\ h[7] = last[1]
    <3>1. Len(most) = 6 /\ Len(last) = 1
      BY <2>0, <2>4
    <3>2. Len(h) = 7
      BY <2>5, <3>1
    <3>3. \A i \in 1..7 : h[i] = IF i <= 6 THEN most[i] ELSE last[i - 6]
      BY <2>5, <3>1
    <3>4. \A i \in 1..6 : h[i] = most[i]
      BY <3>3
    <3>5. h[7] = last[1]
      BY <3>3
    <3> QED BY <3>2, <3>4, <3>5
  <2>7. h = (first \o (type \o length)) \o last
    BY <2>1, <2>3, <2>5, Zenon
  <2> QED BY <2>2, <2>4, <2>6, <2>7, Zenon
<1>7. PICK g \in Seq(Unit) :
        /\ g = (first \o (type \o length)) \o last
        /\ Len(g) = 7
        /\ g[1] = first[1] /\ g[2] = first[2] /\ g[3] = type[1] /\ g[4] = type[2]
        /\ g[5] = length[1] /\ g[6] = length[2] /\ g[7] = last[1]
  BY <1>6, Zenon
<1>8. \A i \in 1..7 : g[i].is = "crlf" <=> i \in {2, 4, 6, 7}
  BY <1>2, <1>7
<1> QED BY <1>5, <1>7, <1>8, Zenon

\* What arrives is a sequence of units: the header and then the content.
LEMMA ArrivedUnits ==
  ASSUME TypeOK
  PROVE  /\ Len(Arrived) \in 7..7 + reply.length
         /\ DOMAIN Arrived = 1..Len(Arrived)
         /\ \A i \in 1..Len(Arrived) :
              /\ Arrived[i] \in Unit
              /\ Arrived[i] = IF i <= 7 THEN ResponseHeader[i] ELSE Sent(i - 7)
<1> DEFINE k == IF server = "header" THEN 0 ELSE reply.length
           n == 7 + k
           a == [i \in 1..n |-> IF i <= 7 THEN ResponseHeader[i] ELSE Sent(i - 7)]
<1>1. k \in 0..reply.length /\ reply.first \in Nat /\ reply.length \in Nat
  BY DEF TypeOK
<1>2. Arrived = a
  BY HeaderUnits DEF Arrived
<1>3. ASSUME NEW i \in 1..n PROVE a[i] \in Unit
  <2>1. CASE i <= 7
    <3>1. i \in 1..7 /\ a[i] = ResponseHeader[i]
      BY <1>1, <2>1
    <3>2. ResponseHeader[i] \in Unit
      <4>1. /\ ResponseHeader \in Seq(Unit) /\ Len(ResponseHeader) = 7
        BY HeaderUnits
      <4>2. i \in 1..7
        BY <3>1
      <4> QED BY <4>1, <4>2, ElementOfSeq
    <3> QED BY <3>1, <3>2
  <2>2. CASE ~(i <= 7)
    <3>1. reply.first + (i - 7) - 1 \in Nat
      BY <1>1, <2>2
    <3> QED BY <2>2, <3>1 DEF Sent, Unit
  <2> QED BY <2>1, <2>2
<1> HIDE DEF k
<1>4. n \in Nat /\ DOMAIN a = 1..n /\ Len(a) = n
  BY <1>1
<1> QED BY <1>1, <1>2, <1>3, <1>4

\* However much of a response one recv yields, its payload is a beginning of the
\* content that has been sent, and empty when the header is not complete.
LEMMA PayloadIsBeginning ==
  ASSUME TypeOK, NEW n \in 1..Len(Arrived)
  PROVE  LET p == Parsed(SubSeq(Arrived, 1, n)).payload IN
           /\ p \in Seq(Unit)
           /\ Len(p) <= reply.length
           /\ \A i \in 1..Len(p) : p[i] = Sent(i)
<1> DEFINE d == SubSeq(Arrived, 1, n)
           p == Parsed(d).payload
<1>1. n \in Nat /\ reply.length \in Nat /\ n <= 7 + reply.length
  BY ArrivedUnits DEF TypeOK
<1>2. d \in Seq(Unit) /\ Len(d) = n /\ \A i \in 1..n : d[i] = Arrived[i]
  <2>1. \A i \in 1..n : Arrived[i] \in Unit
    BY ArrivedUnits, <1>1
  <2> QED BY <2>1, <1>1, SubSeqProperties
<1>3. \A i \in 1..n : d[i] = IF i <= 7 THEN ResponseHeader[i] ELSE Sent(i - 7)
  BY <1>1, <1>2, ArrivedUnits
<1> HIDE DEF d
<1>4. \A i \in EmptyLines(d) : i \in 1..n - 1 /\ 6 <= i
  BY <1>2, <1>3, HeaderUnits DEF EmptyLines
<1>5. CASE EmptyLines(d) = {}
  <2>1. p = <<>>
    BY <1>5 DEF Parsed
  <2> HIDE DEF p
  <2>2. p \in Seq(Unit) /\ Len(p) = 0
    BY <2>1
  <2>3. p \in Seq(Unit) /\ Len(p) <= reply.length /\ \A i \in 1..Len(p) : p[i] = Sent(i)
    BY <2>2, <1>1
  <2> QED BY <2>3 DEF d, p
<1>6. CASE EmptyLines(d) # {}
  <2>1. n >= 7
    BY <1>6, <1>4, <1>1
  <2>2. 6 \in EmptyLines(d)
    BY <2>1, <1>1, <1>2, <1>3, HeaderUnits DEF EmptyLines
  <2> DEFINE e == CHOOSE i \in EmptyLines(d) : \A j \in EmptyLines(d) : i <= j
  <2>3. e \in EmptyLines(d) /\ \A j \in EmptyLines(d) : e <= j
    BY <2>2, <1>4
  <2>4. e = 6
    BY <2>2, <2>3, <1>4
  <2>5. p = SubSeq(d, e + 2, Len(d))
    BY <1>6 DEF Parsed
  <2> HIDE DEF e, p
  <2>6. p = SubSeq(d, 8, n)
    BY <2>4, <2>5, <1>2
  <2>7. \A i \in 8..n : d[i] \in Unit
    BY <1>1, <1>2
  <2>8. p \in Seq(Unit) /\ Len(p) = n - 7 /\ \A i \in 1..n - 7 : p[i] = d[8 + i - 1]
    BY <2>1, <2>6, <2>7, <1>1, SubSeqProperties
  <2>9. \A i \in 1..n - 7 : p[i] = Sent(i)
    <3> SUFFICES ASSUME NEW i \in 1..n - 7 PROVE p[i] = Sent(i)
      OBVIOUS
    <3>1. 8 + i - 1 \in 1..n /\ ~(8 + i - 1 <= 7) /\ (8 + i - 1) - 7 = i
      BY <1>1
    <3> QED BY <2>8, <3>1, <1>3
  <2> QED BY <2>8, <2>9, <1>1 DEF d, p
<1> QED BY <1>5, <1>6 DEF d, p

-----------------------------------------------------------------------------
(***************************************************************************)
(* What the server sends.                                                  *)
(***************************************************************************)
\* A range that is read is one of the request; unless the request is refused,
\* its numbers can be read and its end does not precede its start.
LEMMA RangeFacts ==
  ASSUME TypeOK, RangeRead # NoRange
  PROVE  /\ asked.header = "Content-Range" /\ asked.range = RangeRead
         /\ ~Malformed => /\ RangeRead \in [start : Nat, end : Nat \cup {NoEnd}]
                          /\ RangeRead.end # NoEnd => RangeRead.start <= RangeRead.end
<1>1. asked.header = "Content-Range" /\ asked.range = RangeRead
  BY DEF RangeRead
<1>2. RangeRead \in [start : Number, end : Number \cup {NoEnd}]
  BY <1>1, SizesAssumption DEF TypeOK, Request, Ranges, Number
<1>3. ASSUME ~Malformed
      PROVE  RangeRead.start # TooLarge /\ RangeRead.end # TooLarge
  BY <1>3 DEF Malformed, IsUnreadable
<1>4. ASSUME ~Malformed
      PROVE  RangeRead \in [start : Nat, end : Nat \cup {NoEnd}]
  BY <1>2, <1>3, <1>4 DEF Number
<1>5. ASSUME ~Malformed, RangeRead.end # NoEnd
      PROVE  RangeRead.start <= RangeRead.end
  BY <1>4, <1>5 DEF Malformed, IsBackwards
<1> QED BY <1>1, <1>4, <1>5

\* The content has a size, whatever is asked for.
LEMMA ContentFacts ==
  ASSUME TypeOK
  PROVE  /\ Content[1] \in {"OK", "BAD_REQUEST", "METHOD_NOT_ALLOWED"}
         /\ Content[2] \in Nat
  BY SizesAssumption, Zenon DEF TypeOK, Content, Request, TextSize

\* Ranged send: a part lies within the content, but for its end, and its length is
\* not negative.
LEMMA PartType ==
  ASSUME NEW status, NEW n \in Nat, NEW r \in [start : Nat, end : Nat \cup {NoEnd}],
         r.end # NoEnd => r.start <= r.end
  PROVE  LET p == Part(status, n, r) IN
           /\ p = Reply(status, p.first, p.length, n)
           /\ p.first \in Nat /\ p.length \in Nat
  BY NoValuesAssumption DEF Part, Reply, Number

\* Ranged send: within the content it sends what the range names, unless the range
\* starts beyond the content, when it sends everything.
LEMMA PartContent ==
  ASSUME NEW status, NEW n \in Nat, NEW r \in [start : Nat, end : Nat \cup {NoEnd}],
         r.end # NoEnd => r.start <= r.end
  PROVE  LET p == Part(status, n, r) IN
           IF r.start > n
             THEN p.first = 0 /\ p.length = n
             ELSE \A i \in Nat :
                    (i < n /\ p.first <= i /\ i < p.first + p.length)
                      <=> (i < n /\ r.start <= i /\ (r.end # NoEnd => i <= r.end))
  BY NoValuesAssumption DEF Part, Reply, Number

\* Ranged send: beyond the content it sends one byte at most, for a range that ends
\* at the size of the content.
LEMMA PartBeyond ==
  ASSUME NEW status, NEW n \in Nat, NEW r \in [start : Nat, end : Nat \cup {NoEnd}],
         r.end # NoEnd => r.start <= r.end
  PROVE  LET p == Part(status, n, r) IN
           \/ p.first + p.length <= n
           \/ r.end = n /\ p.first <= n /\ p.first + p.length = n + 1
  BY NoValuesAssumption DEF Part, Reply, Number

\* The response has its type.
LEMMA ResponseType ==
  ASSUME TypeOK
  PROVE  Response \in [status : {"OK", "BAD_REQUEST", "METHOD_NOT_ALLOWED"},
                       first : Nat, length : Nat, of : Nat]
<1>1. CASE Malformed
  BY <1>1 DEF Response, Reply, TextSize
<1>2. CASE ~Malformed /\ RangeRead = NoRange
  BY <1>2, ContentFacts DEF Response, Reply
<1>3. CASE ~Malformed /\ RangeRead # NoRange
  <2> DEFINE p == Part(Content[1], Content[2], RangeRead)
  <2>1. /\ p = Reply(Content[1], p.first, p.length, Content[2])
        /\ p.first \in Nat /\ p.length \in Nat
    BY <1>3, RangeFacts, ContentFacts, PartType
  <2>2. Response = p
    BY <1>3 DEF Response
  <2> HIDE DEF p
  <2> QED BY <2>1, <2>2, ContentFacts DEF Reply
<1> QED BY <1>1, <1>2, <1>3

\* The invariant holds before anything is sent.
LEMMA ResponseInit == Init => ResponseInv
  BY SizesAssumption
  DEF Init, ResponseInv, PiecesLeft, TypeOK, Answered, Reply, RequestLength,
      DownloadIsBeginning

\* A beginning of a beginning is one.
LEMMA BeginningOfBeginning ==
  ASSUME TypeOK, NEW s \in Seq(Unit), NEW n \in 0..Len(s), Len(s) <= reply.length,
         \A i \in DOMAIN s : s[i] = Sent(i)
  PROVE  /\ SubSeq(s, 1, n) \in Seq(Unit)
         /\ Len(SubSeq(s, 1, n)) <= reply.length
         /\ \A i \in DOMAIN SubSeq(s, 1, n) : SubSeq(s, 1, n)[i] = Sent(i)
<1> DEFINE t == SubSeq(s, 1, n)
<1>1. n \in Nat /\ Len(s) \in Nat /\ n <= Len(s) /\ DOMAIN s = 1..Len(s)
  OBVIOUS
<1>2. \A i \in 1..n : s[i] \in Unit
  BY <1>1
<1>3. t \in Seq(Unit) /\ Len(t) = n /\ \A i \in 1..n : t[i] = s[i]
  BY <1>1, <1>2, SubSeqProperties
<1>4. DOMAIN t = 1..n
  BY <1>3
<1> HIDE DEF t
<1>5. reply.length \in Nat
  BY DEF TypeOK
<1> QED BY <1>1, <1>3, <1>4, <1>5 DEF t

\* The steps that only move the client or the server on.
LEMMA QuietStep ==
  ASSUME ResponseInv, TypeOK', UNCHANGED <<inputs, saved, reply>>,
         got' = got \/ ~Answered,
         PiecesLeft',
         server' \in {"receiving", "responding"} => server \in {"receiving", "responding"}
  PROVE  ResponseInv'
<1>1. Answered' = Answered /\ DownloadIsBeginning'
  BY DEF ResponseInv, Answered, DownloadIsBeginning, Sent, inputs, saved
<1>2. ASSUME Answered PROVE Response' = Response
  <2>1. UNCHANGED <<inputs, got>>
    BY <1>2
  <2> QED BY <2>1 DEF Response, Malformed, IsUnreadable, IsBackwards, RangeRead, Content, inputs
<1> QED BY <1>1, <1>2 DEF ResponseInv, inputs, saved

\* Every step of the client and of the handler keeps it.
LEMMA ResponseStep == ResponseInv /\ [Next]_vars => ResponseInv'
<1> SUFFICES ASSUME ResponseInv, [Next]_vars PROVE ResponseInv'
  OBVIOUS
<1>a. TypeOK
  BY DEF ResponseInv
<1>b. ASSUME UNCHANGED <<inputs, got>> PROVE Response' = Response
  BY <1>b DEF Response, Malformed, IsUnreadable, IsBackwards, RangeRead, Content, inputs
<1>1. CASE Send
  <2>1. TypeOK'
    BY <1>1, <1>a DEF ResponseInv, PiecesLeft, TypeOK, Send, RequestLength, inputs, saved
  <2> QED BY <2>1, <1>1, QuietStep DEF Send, PiecesLeft
<1>2. CASE SendSlow
  <2>1. slow \in Nat /\ out \in Nat /\ (slow < RequestLength => out < RequestLength)
    BY <1>2, <1>a, SizesAssumption, NoValuesAssumption
    DEF ResponseInv, PiecesLeft, TypeOK, SendSlow
  <2>2. out' \in Nat /\ out <= out'
    BY <1>2, <2>1 DEF SendSlow, RequestLength
  <2>3. client' \in {"sending", "receiving"}
    BY <1>2 DEF SendSlow
  <2>4. UNCHANGED <<inputs, saved, server, got, reply>>
    BY <1>2 DEF SendSlow
  <2>5. PiecesLeft'
    BY <1>2, <2>1, <2>4 DEF SendSlow, SlowLength, RequestLength, PiecesLeft, inputs
  <2>6. TypeOK'
    BY <2>2, <2>3, <2>4, <1>a DEF TypeOK, inputs, saved
  <2> QED BY <2>4, <2>5, <2>6, QuietStep
<1>3. CASE SendToNobody \/ ClientIsReset \/ FailToSave
  <2>1. TypeOK'
    BY <1>3, <1>a DEF SendToNobody, ClientIsReset, FailToSave, TypeOK, inputs, saved
  <2> QED
    BY <1>3, <2>1, QuietStep DEF SendToNobody, ClientIsReset, FailToSave, PiecesLeft
<1>4. CASE ClientReceives
  <2>1. PICK n \in 1..Len(Arrived) : payload' = Parsed(SubSeq(Arrived, 1, n)).payload
    BY <1>4 DEF ClientReceives
  <2>2. /\ payload' \in Seq(Unit) /\ Len(payload') <= reply.length
        /\ \A i \in DOMAIN payload' : payload'[i] = Sent(i)
    <3> DEFINE p == Parsed(SubSeq(Arrived, 1, n)).payload
    <3>1. p \in Seq(Unit) /\ Len(p) <= reply.length /\ \A i \in 1..Len(p) : p[i] = Sent(i)
      BY <1>a, PayloadIsBeginning
    <3>2. payload' = p
      BY <2>1
    <3> HIDE DEF p
    <3>3. DOMAIN p = 1..Len(p)
      BY <3>1
    <3> QED BY <3>1, <3>2, <3>3
  <2>3. UNCHANGED <<inputs, out, printed, kept, server, got, reply>> /\ Answered
        /\ client' = "received"
    BY <1>4 DEF ClientReceives
  <2>4. TypeOK' /\ Answered' /\ \A i : Sent(i)' = Sent(i)
    BY <2>2, <2>3, <1>a DEF TypeOK, inputs, Answered, Sent
  <2>5. DownloadIsBeginning'
    BY <2>2, <2>3, <2>4 DEF ResponseInv, DownloadIsBeginning, Sent, inputs
  <2> QED BY <2>3, <2>4, <2>5, <1>b DEF ResponseInv, PiecesLeft
<1>5. CASE ClientReceivesNothing
  <2>1. payload' = <<>>
    BY <1>5 DEF ClientReceivesNothing, Parsed, EmptyLines
  <2>2. UNCHANGED <<inputs, out, printed, kept, server, got, reply>> /\ ~Answered
        /\ client' = "received"
    BY <1>5 DEF ClientReceivesNothing
  <2>3. TypeOK' /\ ~Answered'
    BY <2>1, <2>2, <1>a DEF TypeOK, inputs, Answered
  <2>4. DownloadIsBeginning'
    BY <2>1, <2>2, <1>a DEF ResponseInv, DownloadIsBeginning, Sent, inputs, TypeOK
  <2> QED BY <2>1, <2>2, <2>3, <2>4 DEF ResponseInv, PiecesLeft
<1>6. CASE PrintPayload \/ Save
  <2>1. /\ UNCHANGED <<inputs, out, payload, server, got, reply>>
        /\ client' = "done" /\ printed' = payload
        /\ kept' = kept \/ \E n \in 0..Len(payload) : kept' = SubSeq(payload, 1, n)
    BY <1>6 DEF PrintPayload, Save
  <2>2. /\ payload \in Seq(Unit) /\ Len(payload) <= reply.length
        /\ \A i \in DOMAIN payload : payload[i] = Sent(i)
    BY <1>a DEF ResponseInv, DownloadIsBeginning, TypeOK
  <2>3. \/ kept' = kept
        \/ /\ kept' \in Seq(Unit) /\ Len(kept') <= reply.length
           /\ \A i \in DOMAIN kept' : kept'[i] = Sent(i)
    BY <2>1, <2>2, <1>a, BeginningOfBeginning
  <2>4. TypeOK' /\ Answered' = Answered /\ \A i : Sent(i)' = Sent(i)
    BY <2>1, <2>2, <2>3, <1>a DEF TypeOK, inputs, Answered, Sent
  <2>5. DownloadIsBeginning'
    BY <2>1, <2>2, <2>3, <2>4 DEF ResponseInv, DownloadIsBeginning, Sent, inputs
  <2>6. ASSUME ~Answered PROVE kept' \in {NoFile, <<>>}
    <3>1. payload = <<>> /\ kept \in {NoFile, <<>>}
      BY <2>6 DEF ResponseInv
    <3>2. ASSUME NEW n \in 0..Len(payload) PROVE SubSeq(payload, 1, n) = <<>>
      BY <3>1, <3>2
    <3> QED BY <2>1, <3>1, <3>2
  <2> QED BY <2>1, <2>4, <2>5, <2>6, <1>b DEF ResponseInv, PiecesLeft
<1>7. CASE Receive
  <2>1. TypeOK'
    BY <1>7, <1>a DEF Receive, TypeOK, inputs, clientVars, saved
  <2> QED BY <2>1, <1>7, QuietStep DEF Receive, ResponseInv, PiecesLeft, inputs, clientVars
<1>8. CASE Respond
  <2>1. ~Answered /\ UNCHANGED <<inputs, clientVars, got>> /\ server' = "header"
    BY <1>8 DEF Respond, ResponseInv
  <2>2. reply' = Response /\ Response' = Response
    BY <1>8, <1>b, <2>1 DEF Respond
  <2>3. TypeOK' /\ Answered'
    BY <1>a, <2>1, <2>2, ResponseType DEF Answered, TypeOK, inputs, clientVars, saved
  <2>4. payload' = <<>> /\ printed' = <<>> /\ kept' \in {NoFile, <<>>}
    BY <2>1 DEF ResponseInv, clientVars, saved
  <2>5. DownloadIsBeginning'
    BY <2>3, <2>4 DEF DownloadIsBeginning, TypeOK
  <2> QED BY <2>1, <2>2, <2>3, <2>5 DEF ResponseInv, PiecesLeft, inputs, clientVars
<1>9. CASE FailToList \/ SendContent \/ Close
  <2>1. TypeOK'
    BY <1>9, <1>a DEF FailToList, SendContent, Close, TypeOK, inputs, clientVars, saved
  <2> QED
    BY <1>9, <2>1, QuietStep
    DEF FailToList, SendContent, Close, ResponseInv, PiecesLeft, inputs, clientVars
<1>10. CASE UNCHANGED vars
  <2>1. TypeOK'
    BY <1>10, <1>a DEF vars, inputs, clientVars, saved, TypeOK
  <2> QED BY <2>1, <1>10, QuietStep DEF vars, inputs, clientVars, ResponseInv, PiecesLeft
<1> QED
  BY <1>1, <1>2, <1>3, <1>4, <1>5, <1>6, <1>7, <1>8, <1>9, <1>10
  DEF Next, ClientNext, ServerNext

\* What is sent is the response to what was received, at every moment.
THEOREM ResponseInvariance == Spec => []ResponseInv
BY ResponseInit, ResponseStep, PTL DEF Spec

\* Every variable keeps its type, what is saved included.
THEOREM TypeCorrect == Spec => []TypeOK
BY ResponseInvariance, PTL DEF ResponseInv

\* For every content, with line ends wherever they are, and every cut that recv
\* makes in the response: what is printed and saved is a beginning of the content.
THEOREM DownloadCorrect == Spec => []DownloadIsBeginning
BY ResponseInvariance, PTL DEF ResponseInv

\* A response without a part is the whole content.
LEMMA WholeSent ==
  ASSUME TypeOK, reply.first = 0, reply.length = reply.of
  PROVE  SentOffsets = 0..reply.of \ {reply.of}
  BY DEF SentOffsets, TypeOK

\* When a range is read, what is sent of the content is what the range names, or
\* everything if the range starts beyond it.
LEMMA RangedSent ==
  ASSUME ResponseInv, Answered, ~Malformed, RangeRead # NoRange
  PROVE  IF RangeRead.start > reply.of
           THEN SentOffsets = 0..reply.of \ {reply.of}
           ELSE SentOffsets \cap (0..reply.of \ {reply.of}) = Named(RangeRead, reply.of)
<1> DEFINE n == Content[2]
           r == RangeRead
<1>1. TypeOK /\ reply = Part(Content[1], n, r)
  BY DEF ResponseInv, Response
<1>2. n \in Nat /\ reply.of = n
  BY <1>1, ContentFacts, RangeFacts, PartType DEF Reply
<1>3. IF r.start > n
        THEN reply.first = 0 /\ reply.length = n
        ELSE \A i \in Nat :
               (i < n /\ reply.first <= i /\ i < reply.first + reply.length)
                 <=> (i < n /\ r.start <= i /\ (r.end # NoEnd => i <= r.end))
  BY <1>1, <1>2, RangeFacts, PartContent
<1>4. r \in [start : Nat, end : Nat \cup {NoEnd}]
  BY <1>1, RangeFacts
<1>5. reply.first \in Nat /\ reply.length \in Nat
  BY <1>1 DEF TypeOK
<1> HIDE DEF n, r
<1>6. CASE r.start > n
  BY <1>1, <1>2, <1>3, <1>6, WholeSent DEF r
<1>7. CASE ~(r.start > n)
  <2>1. SentOffsets \cap (0..n \ {n}) = Named(r, n)
    BY <1>2, <1>3, <1>4, <1>5, <1>7 DEF SentOffsets, Named
  <2> QED BY <1>2, <1>7, <2>1 DEF r
<1> QED BY <1>6, <1>7

\* Whatever has arrived of a request, the part of the content that is sent is the
\* one the request names, or all of it.
THEOREM PartCorrect == Spec => []PartAsNamed
<1>1. ASSUME ResponseInv, Answered
      PROVE  \/ SentOffsets = 0..reply.of \ {reply.of}
             \/ /\ asked.range # NoRange
                /\ asked.header = "Content-Range"
                /\ SentOffsets \cap (0..reply.of \ {reply.of}) = Named(asked.range, reply.of)
  <2>1. TypeOK /\ reply = Response
    BY <1>1 DEF ResponseInv
  <2>2. CASE Malformed \/ RangeRead = NoRange
    BY <2>1, <2>2, WholeSent DEF Response, Reply
  <2>3. CASE ~Malformed /\ RangeRead # NoRange
    BY <1>1, <2>1, <2>3, RangedSent, RangeFacts
  <2> QED BY <2>2, <2>3
<1>2. ResponseInv => PartAsNamed
  BY <1>1, Zenon DEF PartAsNamed
<1> QED BY <1>2, ResponseInvariance, PTL

\* Whatever range is read of whatever content: what it names of the content is what
\* is sent of it, or everything if it starts beyond the end.
THEOREM RangeServed == Spec => []RangeIsServed
<1>1. ASSUME ResponseInv, Answered, RangeRead # NoRange, reply.status = "OK"
      PROVE  SentOffsets \cap (0..reply.of \ {reply.of}) =
               IF RangeRead.start > reply.of
                 THEN 0..reply.of \ {reply.of} ELSE Named(RangeRead, reply.of)
  <2>1. reply = Response
    BY <1>1 DEF ResponseInv
  <2>2. ~Malformed
    BY <1>1, <2>1 DEF Response, Reply
  <2>3. CASE RangeRead.start > reply.of
    BY <1>1, <2>2, <2>3, RangedSent
  <2>4. CASE ~(RangeRead.start > reply.of)
    BY <1>1, <2>2, <2>4, RangedSent
  <2> QED BY <2>3, <2>4
<1>2. ResponseInv => RangeIsServed
  BY <1>1, Zenon DEF RangeIsServed
<1> QED BY <1>2, ResponseInvariance, PTL

\* Whatever range is asked for, of a content of whatever size, at most the one byte
\* behind the content is sent along, and only for a range that ends at the size.
THEOREM OverreadBounded == Spec => []OverreadIsOneByte
<1>1. ASSUME ResponseInv, Answered
      PROVE  \/ SentOffsets \ (0..(reply.of - 1)) = {}
             \/ /\ SentOffsets \ (0..(reply.of - 1)) = {reply.of}
                /\ asked.header = "Content-Range"
                /\ asked.range # NoRange
                /\ asked.range.end = reply.of
  <2>1. TypeOK /\ reply = Response
    BY <1>1 DEF ResponseInv
  <2>2. reply.first \in Nat /\ reply.length \in Nat /\ reply.of \in Nat
    BY <2>1 DEF TypeOK
  <2>3. ASSUME reply.first + reply.length <= reply.of
        PROVE  SentOffsets \ (0..(reply.of - 1)) = {}
    BY <2>2, <2>3 DEF SentOffsets
  <2>4. CASE Malformed \/ RangeRead = NoRange
    <3>1. reply.first = 0 /\ reply.length = reply.of
      BY <2>1, <2>4 DEF Response, Reply
    <3> QED BY <2>2, <2>3, <3>1
  <2>5. CASE ~Malformed /\ RangeRead # NoRange
    <3>1. /\ asked.header = "Content-Range" /\ asked.range = RangeRead
          /\ RangeRead \in [start : Nat, end : Nat \cup {NoEnd}]
          /\ RangeRead.end # NoEnd => RangeRead.start <= RangeRead.end
      BY <2>1, <2>5, RangeFacts
    <3>2. reply = Part(Content[1], Content[2], RangeRead) /\ Content[2] \in Nat
      BY <2>1, <2>5, ContentFacts DEF Response
    <3>3. reply.of = Content[2]
      BY <3>1, <3>2, PartType DEF Reply
    <3>4. \/ reply.first + reply.length <= reply.of
          \/ /\ RangeRead.end = reply.of /\ reply.first <= reply.of
             /\ reply.first + reply.length = reply.of + 1
      BY <3>1, <3>2, <3>3, PartBeyond
    <3>5. ASSUME reply.first <= reply.of, reply.first + reply.length = reply.of + 1
          PROVE  SentOffsets \ (0..(reply.of - 1)) = {reply.of}
      BY <2>2, <3>5 DEF SentOffsets
    <3> QED BY <2>3, <2>5, <3>1, <3>4, <3>5
  <2> QED BY <2>4, <2>5
<1>2. ResponseInv => OverreadIsOneByte
  BY <1>1, Zenon DEF OverreadIsOneByte
<1> QED BY <1>2, ResponseInvariance, PTL

=============================================================================
