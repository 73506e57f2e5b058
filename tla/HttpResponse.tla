---------------------------- MODULE HttpResponse ----------------------------
(***************************************************************************)
(* The format of a response: how the server puts the header together, and  *)
(* how the client takes what it has received apart.  A response is a       *)
(* sequence of units: the lines of the header, line ends, and the bytes of *)
(* the content, each with its offset.  Content may hold line ends as well. *)
(***************************************************************************)
EXTENDS Naturals, Sequences

Unit == [is : {"status", "type", "length", "crlf", "byte"}, at : Nat]

Line(what) == [is |-> what, at |-> 0]

CRLF == Line("crlf")

add_header(header, key) == header \o <<Line(key), CRLF>>

\* The status line, the fields, and the empty line.
build_header(header) == <<Line("status"), CRLF>> \o header \o <<CRLF>>

\* create_from_... names the type of the content, Connection::send its length.
ResponseHeader == build_header(add_header(add_header(<<>>, "type"), "length"))

\* The places where a line end follows a line end.
EmptyLines(data) ==
  {i \in 1..Len(data) - 1 : data[i].is = "crlf" /\ data[i + 1].is = "crlf"}

\* Mutant: the header is taken to reach to the last empty line.
ParsedToLast(data) ==
  IF EmptyLines(data) = {} THEN [header |-> data, payload |-> <<>>]
  ELSE LET i == CHOOSE i \in EmptyLines(data) : \A j \in EmptyLines(data) : j <= i
       IN  [header  |-> SubSeq(data, 1, i),
            payload |-> SubSeq(data, i + 2, Len(data))]

\* HttpResponse(data): the header reaches to the first empty line, or is all
\* there is; what follows the empty line is the payload.
Parsed(data) ==
  IF EmptyLines(data) = {} THEN [header |-> data, payload |-> <<>>]
  ELSE LET i == CHOOSE i \in EmptyLines(data) : \A j \in EmptyLines(data) : i <= j
       IN  [header  |-> SubSeq(data, 1, i),
            payload |-> SubSeq(data, i + 2, Len(data))]

=============================================================================
