# Verification of the network exercises: Basic File Transfer and HTTP

This directory holds TLA+ models of the programs of this repository, the TLC
configurations that check them on small instances, and theorems that TLAPS
proves for every value of the constants. Paths below are relative to the root
of the repository.

## 1. The system

| component | sources | state | operations |
|---|---|---|---|
| BFT datagram | `aufg4/bft_base/bft_datagram.{hpp,cpp}`, `flags.{hpp,cpp}` | flags, payload, checksum of one datagram | constructors, `create_ACK`, `is_ACK_for`, `is_SYN`, `is_ABR`, `check_integrity`, `send`, `receive` |
| UDP path | sockets, used through `send` / `receive` | datagrams under way | delivery; loss, duplication, reordering, damage, delay |
| BFT server | `aufg4/bft_server/main.cpp`, `file_writer.cpp` | `current_client` (address, `current_SQN`, file writer), the upload directory | the branches of the main loop, `handle_SYN`, `handle_valid_datagram`, `FileWriter::writeBytes / log_bytes_written / abort`, `signalHandler` |
| BFT client | `aufg4/bft_client/main.cpp` | `currSQN`, position in the file, `retry_count` | `main`, `send_datagram_and_wait_for_ACK`, `send_and_receive_response`, `signalHandler` |
| BFT logger, options | `bft_base/logger.hpp`, `options.hpp` | a mutex, the level | log lines, command lines |
| BFT experiment | `aufg4/bftp_experiment/experiment.py` | - | starts both programs in mininet with losses |
| HTTP connection base | `aufg2_3_http/connection_base/src` | a socket | `receive_bytes`, `send`, ranged `send`, parsing of requests and responses |
| HTTP server | `aufg2_3_http/http_server/src` | list of handler threads, its mutex, `remove_handler_threads_on_completion` | listener thread, handler threads, shutdown in `main`, `ResponseFactory::create` |
| snatch | `aufg2_3_http/snatch/src` | - | URL parsing, one request, one response |
| vendored | `CRC.h`, `cxxopts.hpp`, `date.hpp` | - | third-party |

**Interaction.** A BFT client sends SYN (with the file's name), one datagram per
chunk and FIN, each with a one-bit sequence number, and waits for the ACK of one
before it sends the next. The server serves one client at a time; it answers a
SYN with ACK or, while busy, with ABR; a damaged datagram with AGN; a datagram
in turn with ACK, and only then writes it; a datagram it has seen already with
another ACK; a datagram of anybody else with ABR. An ABR of the client ends the
upload. The HTTP server accepts connections in one thread and handles each in a
thread of its own, which takes itself off a list guarded by a mutex; `main` joins
what is left on the list.

**What is hard.** Retransmissions that cross their ACK, in the handshake, in the
transfer and at the end; several clients competing for one session; CTRL+C on
either side at any moment; a server that goes down in the middle of an upload and
comes back without memory; acknowledging before writing; limits of
retransmissions; and, in the HTTP server, the hand-over between handler threads
and the shutdown. `PROJECT.json` lists each such hazard at its line.

**What makes it correct.** A client that reports success has its file on the
server, byte for byte; during an upload the server's file is a beginning of the
client's; nobody but its owner ends an upload; an interrupted client leaves the
server free; an upload over a fair path completes; a limited or interrupted
client ends; the server survives whatever arrives. `http_server` returns only
after the work it has accepted, keeps no entry of a thread that has responded,
comes to the end of a shutdown, and sends of a file the part that was asked for;
`snatch` prints and saves a beginning of what was sent. Two abstract specifications
say this as a whole: `UploadService` for BFT, `HttpService` for the HTTP server.

## 2. The modules

| module | models |
|---|---|
| `BftDatagram` | the datagram: flag sets, constructors, ACKs, `is_ACK_for`, the sequence bit |
| `UdpNetwork` | the two queues between each client and the server, and the faults of the path |
| `BftServer` | `bft_server`: one action per branch of the main loop, plus the handling after the ACK, the clock, CTRL+C, crash and restart |
| `BftClient` | `bft_client`: one action per return of `recvfrom`, plus CTRL+C |
| `Bft` | the composition, its fairness and all properties |
| `BftInvariant` | the inductive invariants: `IInv` behind the safety properties, `DenialInv` behind those about denials |
| `BftTypes` | theorem `TypeCorrect`: `Spec => []TypeOK` |
| `BftPaths` | lemmas about the path of one client: what reading, losing, sending and answering leave of its order |
| `BftServerSteps` | every step of the server keeps `IInv` |
| `BftProofs` | every step of a client and of the path keeps `IInv`; the safety theorems of `Bft` |
| `UploadService` | abstract: what BFT promises its users, without datagrams, ACKs and timers |
| `BftRefinement` | the mapping from `Bft` to `UploadService`, and `ImplementsUploadService` |
| `BftDenialProofs` | what "Server busy" means to a client: the inductive invariant `DenialInv` and its theorems |
| `BftRefinementProofs` | theorem `Implements`: `Spec => ImplementsUploadService` |
| `MCBft` | the instances of `Bft` for TLC |
| `HttpServer` | `http_server`'s threads: main, listener, handlers, their list, its mutex and flag |
| `HttpService` | abstract: what `http_server` promises its clients, without threads and locks |
| `HttpServerProofs` | its inductive invariant, the safety theorems and the implementation of `HttpService` |
| `MCHttpServer` | the instance for TLC |
| `HttpResponse` | the format of a response: how the header is put together, how it is taken apart |
| `HttpExchange` | one request and its response between `snatch` (or another client) and a handler |
| `HttpExchangeProofs` | what is sent, and what snatch makes of it, for every file, range and fragmentation |
| `MCHttpExchange` | the instances for TLC |

`BftServer` and `BftClient` extend `UdpNetwork`, which extends `BftDatagram`;
`Bft` extends both programs, and `BftRefinement` extends `BftInvariant`, which extends `Bft`.
`HttpServer` instantiates `HttpService`; `HttpExchange` extends `HttpResponse`.

**Server.** `session` is `current_client`: `addr` the address, `sqn` the
`current_SQN`, `file` the path, `written` whether `bytes_written > 0`, `good`
whether the stream has not failed, `since` the time since `last_log` in three
classes (under a millisecond, up to a second, more). `srv = "recv"` is the
server at `recvfrom`; `srv = "handle"` is the server between the ACK of a datagram
in turn (`main.cpp:115`) and the end of `handle_valid_datagram`, with the datagram in
`pending`. A client can act on the ACK, and the server can be stopped, between the
two. `srv` in `Down` is a server that is not running, with the way it ended.
`files` maps each name to the chunks of the file or to `NoFile`. The other branches of the
loop are one step each, with their answer: nobody but a signal can tell what happens inside
them. CTRL+C inside `handle_SYN` is a step of its own, since the old file is removed
(`main.cpp:150`) before the new one is opened (`main.cpp:156`): `InterruptedReplacing`
leaves no file, or the new one without its session, or with it and an ABR. CTRL+C between
the ACK of an ABR and the end of the upload (`main.cpp:95-99`) leaves the file as CTRL+C just
before does, and the lost session goes with the process; it is not a step of its own.

**Client.** `pos` counts acknowledged datagrams: 0 is the SYN, 1 to the number of
chunks are the chunks, the next is the FIN. `Outgoing(c, k, s)` is the datagram
after `k` acknowledged ones, so the file's contents need not be read step by
step. `pc` is where the client waits (`wait` in the upload, `abort` in
`signalHandler`) or how it ended. The handler is installed (`main.cpp:69`) before the
timeout of the socket is set (`main.cpp:83`): a client stopped in between waits in
`abort_untimed`, where no timeout occurs. `File[c]` is what the client's stream yields: a
file that cannot be opened, and a read that fails, are taken for the end of the file
(`main.cpp:92-97`), and the FIN follows. `retries` is `retry_count`, local to one call of
`send_and_receive_response` and therefore reset by each call (`SendAfresh`). With
no limit the counter changes nothing the client does, and it is not counted.
`Timeval` is the conversion of the option `-r` (`RtoMillis`) to the seconds and
microseconds of `SO_RCVTIMEO`, for which 0 means no timeout: `TimerRuns` guards every
timeout.

**Path.** A queue per client and direction. A datagram is read at the head, or
anywhere with `reorder`; it stays in the queue with `duplicate`. A full queue drops
what is sent. Damage is decided when a datagram is read, since nobody looks at it
before; the CRC is taken to detect every damage. `delay` lets a timeout occur
while something is under way; without it a timeout occurs only when both queues
of the client are empty.

**Upload service** (`UploadService`, `BftRefinement`). The state is what a user can see:
whether the server is up, whose upload runs, the files, and what each client knows
(`open`, `stored`, `failed`, `quit`). The files are the files of `Bft`; the owner is the
session's address; the outcome is read off `pc`. A chunk is taken in the step
that writes it, an upload completes with the step that handles the FIN, and most steps
of `Bft` (everything the path does, every retransmission) are steps of nothing.
`Discard` takes the file of an owner who has quit away, whole; only the empty file of an upload
without a chunk may stay. `Accept` and `GoDownReplacing` take an older file away. The second is
a server that goes down while it replaces: the older file may be gone and nothing in its
place. Neither befalls a client that knows its file to be stored, whatever of its
datagrams is still under way.

**HTTP threads** (`HttpServer`). A thread is named by its connection; `conn[c]` is where
the handler is, from the kernel's queue (`backlog`) to the closed connection (`ended`).
`running_handler_threads` and `remove_handler_threads_on_completion` are the
globals of `main.cpp:16-19`. The critical sections of main (`Claim`) and of a handler
(`Leave`) are single steps. That of the listener is two: the new thread runs from
`Spawn` on and is on the list from `Emplace` on, with the mutex held in between
(`Locked`). A refused request (`Refuse`) and one that ends in an exception (`Fail`) never
reach the code that leaves the list. main joins one thread at a time
(`JoinHandler`), in any order, since it waits for all of them. A `std::thread` that cannot
be started and a response to a client that is gone end the process (`killed`), and so
may two handlers that use `content_type_map` at once (`RaceForContentType`: `operator[]`
inserts an entry for an unknown extension, with no mutex). main goes on with `Shutdown`
when q is pressed.

**HTTP service** (`HttpService`). The state is whether the service is open, closing, over
or broken, how far the exchange with each client is, and what it was answered. The
listener's queue is `waiting`, an accepted connection is `taken` until its handler has
answered or failed. Every fault that ends the process is the step `Break`, which
is there only while an exchange is under way: an idle server does not break.

**HTTP exchange** (`HttpExchange`). A request is five units (status line, its end, a
header, its end, the empty line), because that is what the parser tells apart: a line
counts when its `\r` has arrived. `out` counts the units sent, `got` those the server's
one `recv` has yielded, which is any beginning. A content is a sequence of bytes named by
their offsets; `blank` says which of them are line ends. `reply` says which of them are
sent (`first`, `length`) of how many (`of`). `Part` is the ranged `send`, `Response` the
response that `handle_incoming_request` puts together; a range backwards and a number that
no `int` holds (`IsUnreadable`) are refused. snatch writes its range in a header
`Range: bytes=`, `http_server` looks for `Content-Range` with bare numbers: a range of
snatch is not understood, and everything is sent (`RangeRead`). `send_slow` with pieces as
large as the message sends it twice, in two steps between which the server may answer; with
pieces of 0 bytes it never ends (`SendSlow`). A
server that closes a connection with unread data resets it. A directory that cannot be
listed makes the handler close the connection unanswered (`FailToList`).

**HTTP response** (`HttpResponse`). A response is a sequence of seven units of header (three
lines with their ends, and the empty line) and the units of the content (`Arrived`).
snatch's one `recv` yields any beginning of it, at most `RecvSize` units (`ClientReceives`),
and `Parsed` takes that apart at the first empty line, as the constructor of
`HttpResponse` does. The payload is printed (`PrintPayload`), or saved and printed as well
(`Save`): `main.cpp:41-45` prints it also when it has written the file, although
`options.hpp:24` says "instead of stdout". Writes are not checked, so what is saved may
be any beginning of the payload.

**Data.** Chunks and names are model values. Two chunks (or one) make a file; the
split of a file in payloads of 504 bytes is not modelled. A file is never empty of
datagrams: SYN and FIN are always there.

## 3. The runs

Deadlock is not checked: when every BFT client has ended, the system stops, with the
server at `recvfrom`; `http_server` stops when its process has ended; an exchange is
over when both sides are through. That nobody waits for ever is checked as liveness.
The first five runs use `MCBft`.

| run | instance and faults | checks | shows |
|---|---|---|---|
| `OneClient` | 1 client, 2 chunks, an older file of the same name, capacity 3; loss, duplicate, corrupt, badsize, delay, interrupt, stop (also in the middle of replacing the file), restart | `TypeOK`, `SuccessMeansStored`, `UploadIsPrefix`, `ConfirmedAbortFreesServer`, `IInv`, `OnlyOwnerEndsUpload`, `ImplementsUploadService` | the alternating bit carries every upload across lost, doubled and late datagrams and restarts |
| `TwoClients` | 2 clients on 2 hosts, one with 2 chunks and one with an empty file, capacity 1; loss, delay, interrupt, stop, restart | `SuccessMeansStored`, `UploadIsPrefix`, `OnlyOwnerEndsUpload`, `ImplementsUploadService` | clients do not disturb each other |
| `DiskFaults` | 2 clients, one file name, 1 retransmission; loss, interrupt, disk, restart, instant | `NoHoles` | failed writes truncate, they leave no holes |
| `Delivery` | 1 client, no limit, fair; loss, duplicate, corrupt, delay | `LateDenialMeansStored`, `DenialHasCause`, `DenialInv`, `EstablishedUploadIsStored` | an upload past its handshake is stored and frees the server; a client that is alone is denied only over its own SYN or its own FIN, and a late denial loses nothing |
| `Termination` | 1 client with an empty file, 1 retransmission, RTO of 500 ms, fair; loss, duplicate, reorder, corrupt, delay, interrupt, stop | `LimitedClientEnds`, `InterruptedClientExits` | clients end |
| `HttpThreads` | 3 connections, fair threads | `TypeOK`, `ReturnsAfterWork`, `OnlyFailuresLinger`, `MainWaitsForTheLiving`, `ThreadInv`, `MainIteratesAlone`, `ImplementsHttpService`, `ShutdownCompletes`, `EveryConnectionCloses` | the list is handed over safely, the shutdown ends after the work, and main never waits for a thread that cannot go on |
| `HttpRequests` | files of 0, 1, 3 bytes with and without an empty line, ranges of 0, 1, 3, 4 and a number too large, pieces of 0, 2, 3, 6 units, 9 units per `recv` of the client | `TypeOK`, `PartAsNamed`, `RangeIsServed`, `OverreadIsOneByte`, `DownloadIsBeginning`, `ExchangeEnds` | a range that is read is served as named, or with everything if it starts beyond the end, with one byte too many at most; snatch keeps a beginning of what is sent, both sides come to an end |

Runs that end in a counterexample, because the code does not do what a comment, a
message or a document says (`PROJECT.json`, `findings`):

| run | violates | what happens |
|---|---|---|
| `CorruptWhileIdle` | `NoNullDereference` | damaged datagram, no session: `current_client->current_SQN` |
| `InstantFin` | `NoDivisionByZero` | FIN in the millisecond of the last log line: division by 0 |
| `LostSynAck` | `DeniedOnlyWhenBusy` | the retransmitted SYN is denied because of the session it opened |
| `RangeOutside` | `RangeOutsideSendsEverything` | range 3-3 of a file of 3 bytes: not everything is sent, nor the end of the file, but the one byte behind it |
| `SingleRecv` | `AllReceived` | snatch takes the first `recv` for the whole response |

The model also shows four things that the properties allow. A FIN whose ACK is
lost is sent again and answered with ABR, so the client reports "Server busy, aborting
upload" for a file that is stored whole (`HandleForeign`, `Denied`; `LateDenialMeansStored` says
that it is). An ABR before the first chunk leaves an empty file, although the server logs that it is deleting
it (`main.cpp:97`, "Client aborted upload, deleting"; `Aborted`, and `Discard` of the service). A client that reaches its limit of retransmissions throws and sends no ABR;
the server, which has no timeout, stays busy (`ClientGivesUp`). Addresses are compared
without the port, so that with two clients on one host `OnlyOwnerEndsUpload` fails
(`SameHost`).

`SuccessMeansStored` and `UploadIsPrefix` need an ordered path and a disk that works.
One sequence bit cannot tell an overtaken ACK from a new one, and a write that fails is
acknowledged like any other (`file_writer.cpp:38`, with its `//todo proper error
handling`): with `reorder` or `disk` TLC finds a client that reports success for a file
that is not there. `BftInvariant` names the two assumptions `InOrder` and `DiskWorks`,
and `OwnAddresses` for clients on one host.

**Bounds.** Two chunks make uploads in which a chunk with sequence bit 1 is followed
by one with bit 0 and a FIN with bit 1: the bit comes round, which is what an old
ACK needs to be mistaken. A capacity of 3 holds a datagram, its retransmission and
a retransmission of the one before; full queues drop, so a larger capacity adds only
more copies of the same. Two clients suffice for every comparison of addresses, as
the server has one session; the second one uploads an empty file, whose FIN follows its
SYN, and disturbs the first with both. The limit of 1 retransmission lets a client retry once
and give up. In `Termination` the file is empty: each datagram of a client waits in a
call of its own, with a count of its own, so that the SYN and the FIN stand for every one in
between, and the run has room for every fault of the path at once. The queues are the only unbounded part, and `Capacity` bounds them
in the guard of `Enqueue`, as the kernel does. Three connections are one in each of
three different phases: one being accepted, one at work, one leaving or joined.
Files of 0, 1 and 3 bytes with offsets up to 4 put the start and the end of a range
before, at and beyond the end of the content; the theorems of section 4 have no
such bounds. Line ends at the offsets 0 and 1 are an empty line inside the content.
Pieces of 2 and 3 units cut a request within and between its lines, a piece of 6
holds it whole. A `recv` of 9 units holds the header and two of three bytes, or less.
`LateDenialMeansStored`, `DenialHasCause` and `DenialInv` are about a server that nobody stops
(`NobodyStops`): after a restart a client is denied in the middle of its upload, and rightly
so. The run has one client, which is the case in which nobody else can be the cause; that
rivals, interrupts and damaged lengths change nothing is proved.

**Fairness** (`Bft!Fairness`). Both programs loop without waiting for anything but
a datagram or a timer, so their reads, their timers, and the handling after an ACK
are weakly fair. The path is fair to each datagram: one that is sent again and again
is again and again read intact and for the last time, and the server's answer to it
finds room in the client's buffer (strong fairness of `ServerReadsIntact` and
`ClientReadsIntact` for every datagram). This is the usual fair-lossy channel; the
retransmissions of the code are made for it. `LimitedClientEnds` needs it as well, and not only
the limit: a damaged answer makes the client call `send_and_receive_response` again, with a
new `retry_count` (client `main.cpp:121-124`, `149`), so that a path which damaged every
answer would keep the client for ever. `InterruptedClientExits` is about the state
`abort`, a client whose timeout is set; in `abort_untimed` one lost datagram is enough to keep
it. Interrupts, restarts, starts of
clients, and all faults are not fair.

In `HttpServer` the threads are weakly fair, each by itself, the step `Receive` or `Fail`
included: a client sends its request or closes the connection sooner or later, and reads its
response (or goes away), so that `::send` does not block. The code itself sets no limit to
either: a client that stays silent, or does not read, keeps its handler, and
with it a shutdown, waiting. Nobody has to press q, no client has to connect. In
`HttpExchange` both processes are weakly fair; what one `recv` yields is not.

## 4. The proofs

`BftTypes` proves `TypeCorrect`, `Spec => []TypeOK`, for any set of clients, any
files, any capacity and every set of faults. `TypeOK` is not inductive: that a
client's position stays within its file needs that a client that still waits has
not reached the end. `TypeInv` adds this (`DoneAtEnd`). The proof has lemmas for
queues (`RemainingType`, `EnqueueType`), for datagrams (`OutgoingFacts`: which tests
of the server each datagram of a client passes) and one case per action.
Assumptions of all theorems: the named `ASSUME`s of the modules, which say that capacities are
positive, that files and names have their types, and that the "no value" constants
are not values; TLC evaluates them in every run. The proof modules hold no `ASSUME` of their own;
what a theorem needs besides (`InOrder`, `DiskWorks`, ...) is named in its statement.

`BftProofs` proves `InStep`, `Spec => []IInv`, and from it `SuccessIsStored`, `PrefixStored`,
`AbortFrees` and `OwnerEnds` (the safety properties of the first two runs), for any
number of clients, any files and any capacity, under `InOrder`, `DiskWorks` and
`OwnAddresses` and every other fault. `IInv` itself does without the disk: only the theorems
about whole files and prefixes assume `DiskWorks`. `HolesNever` is `NoHoles`, under `InOrder` and
`OwnAddresses` only, so for a disk that fails: the stream refuses every write after the first that failed. None of the properties is inductive: that the file
is whole when the client is done depends on every datagram and ACK still under way.
`IInv` says what that may be. Each path holds the current datagram, the one before it and
ABR only (`OnlyFrom`), and their ACKs back; the older one never follows the newer
(`NeverAfter`); the ACK of the current datagram is under way only when no older datagram is
(the alternating bit's argument, `PathInv`); behind an ABR there is nothing but ABRs, and its
ACK is under way only when nothing else is (`AbortInv`). The session is then one step
behind its client or level with it, and the file holds the chunks so far acknowledged
(`SessionInv`, which also says that a session that has written has something in its file);
and the FIN is acknowledged only for a stored file (`StoredInv`).
`BftPaths` proves what each use of a queue leaves of that order. `BftServerSteps` has one lemma
per branch of the main loop, each of which shows what becomes of the path (`ServerAnswers`),
of the session and of the file, put together by `Assemble` or, when the session ends,
`Freed`. `BftProofs` has `SendStep`, `EndStep` and `AdvanceStep` for clients. `OwnerEnds` is
an action property: `EndOfUpload` goes through the server's steps that can end a session.
`TimevalIsRto` is arithmetic: for every RTO the seconds and microseconds add up to it.

`BftDenialProofs` proves `DenialInvariance`, `Spec => []DenialInv`, and from it `LateDenialStored` and
`DenialCaused`, under the same three assumptions and `NobodyStops` (no CTRL+C at the server
and no restart; clients may be killed, may give up and may crash, and so may the server,
by a damaged datagram). The client knows a denial only as an ABR, and no ABR says why it was sent. `DenialInv`
therefore says it for every ABR on its way. An upload whose SYN has been acknowledged is in the
server's session, or only its FIN is left, its file is stored and no older datagram of
it is on the path (`KeptInHand`, `OnlyFinLeft`). At the second ACK of a client no ABR
is behind it: those that deny a retransmitted SYN are older, since no SYN is sent after the
first chunk (`AbortAnswersFin`). And an ABR of a running server has a cause that is still there
when it is read: a rival, the session of the client itself, or its stored file
(`AbortHasCause`). The properties alone are not inductive: that an ABR cannot come
late needs the order of ABRs and ACKs, that nothing but the FIN meets a server without
the session needs that an acknowledged SYN never comes back, and both need `IInv`. `DenialKeeps` is the
lemma for the steps that concern another client or nobody; the lemmas for
`DenySYN`, `HandleForeign`, `FinishUpload`, `Denied` and `Advance` carry the argument. Together with the run
`LostSynAck` this is the whole story of "Server busy": alone, a client is denied over its
own SYN or over its own FIN, and in no third way.

`BftRefinementProofs` proves `Implements`, `Spec => ImplementsUploadService`, under the same three
assumptions and `DistinctNames`: two clients with one file name would replace each other's
file in the middle of an upload. Initial states map to initial states; `ClientRefines` and
`ServerRefines` go through the actions and name the step of the service each is, or that the
service's variables are unchanged. `Succeed` needs `SuccessIsStored`'s argument before the
step, `TakeChunk` and `Complete` need `SessionInv`. `Discard` needs that an ABR under way
means an owner who has quit, and that what it leaves is empty. `Accept` and `GoDownReplacing`
need that no SYN of a client is read once that client is done (`SYNNotStored`): a SYN sent
again must not cost a client the file it knows to be stored.

`HttpServerProofs` proves, for any number of connections, `ThreadInvariance`
(`Spec => []ThreadInv`) and from it `TypeCorrect`, `ReturnSafe`, `NoneLinger`, `IterationSafe`, `ShutdownNeverStuck` and
`Implements` (`Spec => ImplementsHttpService`). None of these
properties is inductive. That main returns after the work needs that every
thread at work is on the list or about to be put there (`Ownership`), that the listener
has ended before main claims the list and that main returns with everything
joined (`Order`). That nobody changes the list under main's loop needs that the flag is
down from `Claim` on, and that the listener has ended. That no thread lingers needs that
a thread which has responded can leave only when the mutex is free, that is after
`Emplace`. `ShutdownNeverStuck` is the safety half of `ShutdownCompletes`, which the prover cannot
reach: the listener that main joins finds its socket shut down, nobody holds the mutex
after the listener's end, and whatever is on the list is a thread that runs or has run. The
proof has one step per action; the only assumption is that the sentinel
`NoConnection` is no connection. For `Implements`, `ServiceStep` names the step of the service for
every step of the threads. That nobody is taken after the shutdown needs that the
socket listens only while main waits for its key; that the service is over only when every
exchange taken is finished is `Ownership` with everything joined; that a fault meets an
exchange under way is `Ownership` again, and what the handler at fault is doing.

`HttpExchangeProofs` proves `TypeCorrect`, `PartCorrect`, `RangeServed`, `OverreadBounded` and `DownloadCorrect` for every
size of a file, every range, every fragmentation of the request and of the response.
The invariant `ResponseInv` says that the reply is `Response` of what has been received,
and that the client has nothing before; `PartContent` is the arithmetic of the ranged
`send`. `RangeServed` covers every range that is read: one that starts at the size of the content
gets nothing of it, one that starts beyond gets everything. `DownloadCorrect` rests on the format: `HeaderUnits` finds the only empty line of a
header at its end, so that no beginning of a response has an earlier one
(`PayloadIsBeginning`), whatever the content holds. That the content may hold empty lines
is why it must be the first. `RangeOutsideSendsEverything` is what the comments in the ranged
`send` say and the code does not; `RangeServed` and `OverreadBounded` say what it does instead,
the latter how far it reads beyond the content: one byte, and only for a range that names
the size as its last offset (`PartBeyond`), such as 0-3 of 3 bytes.

Only model-checked: all liveness (out of the prover's reach) and every counterexample.

## 5. Not modelled

- The CRC and its chance of missing damage; the layout of datagrams in memory.
- Socket creation, `bind`, permanent errors of `sendto` and `recvfrom` (`exit`).
- Log output, except the division in `log_bytes_written`. CTRL+C while the program holds the
  logger's mutex (`logger.hpp:57`) blocks the signal handler for ever. For the safety
  properties that is a program that takes no further step, which `Spec` allows at any time;
  `InterruptedClientExits` is about a handler that has got past its first log line.
- Errors of the client's file stream: they end the file (see *Client*), and the client reports
  that it has finished. Nothing is claimed about a file that the client could not read.
- HTTP: resolving host names, parsing URLs and command lines, the texts of listings, the
  values of content types, log output. These are conversions of text with no state.
- A detached handler that is still closing its connection when main has returned: the
  system ends it with the process.
- `experiment.py`, which only starts the programs; vendored code (`CRC.h`, `cxxopts.hpp`,
  `date.hpp`), which is most of the repository's lines.

## 6. Plan

Done in this order: `BftDatagram`, `UdpNetwork`, `BftServer`, `BftClient`, `Bft`, the
runs, `BftInvariant`, `BftTypes`, `HttpServer` and its proofs, `HttpExchange` and its
proofs, `BftPaths`, `BftServerSteps` and `BftProofs`, `UploadService` with `BftRefinement` and its
proofs, the conversion of the RTO, `HolesNever`, `HttpService` and its refinement,
`HttpResponse` and what snatch makes of a response, `DenialInv` with `BftDenialProofs`, the
safety half of the shutdown and the bound of the ranged `send`. What could follow:

1. `HttpExchange` as the handler of each connection of `HttpServer`, one composed module
   in place of the two views of a handler.
2. `UrlParser`, the regular expressions of `url_info.cpp` over token sequences, against the
   URLs that `snatch/src/main.cpp:12-17` names.
