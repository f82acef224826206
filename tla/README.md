# Verification of the Liso web server

TLA+ models of the server in `src/`, the TLC runs that check them on small
instances, and TLAPS proofs for every value of the constants.  Paths below are
relative to `src/src/` unless they start with `src/`; headers are in
`src/include/`.

## 1. The system

Liso is an HTTP/1.1 server in one thread.  `main` (`sample_server.cpp:43-59`)
repeats three calls for ever:

    pool.Select();  pool.check_clients();  pool.check_server();

| Component | State | Operations |
|---|---|---|
| Server loop (`sample_server.cpp`) | none | the order of the three calls |
| `SelPool` (`SelectEngine.cpp`) | `clients` (a vector), `read_set`, `write_set`, `maxfd` | `Select`, `check_clients` with `readHandler`, `processHandler`, `writeHandler`, `pipeHandler`; `check_server` with `add_client` |
| `ClientConnection` | `state`, `isOpen`, read and write buffer, `req`, `res` | accessors; `removeReadSize`, `removeWriteSize`; constructor, destructor |
| `HTTPRequest` | method, `uri`, headers, `contentLength`, `statusCode`, `state`, `parseStatus`, `isCGI` | `httpParse`, `httpParseLine`, `isValidRequest`, `checkIsCGIRequest` |
| `HTTPResponse` | status line and headers, `headerPtr`/`maxHeaderPtr`, `filePtr`/`maxFilePtr`, `fileBuffer`, `CGIout` | `buildResponse`, `writeResponse` |
| `FileIO` | path, `length`, the mapping | `loadFile`, `getSize` |
| CGI programs | a pipe | write, end |
| Peers and the kernel's sockets | segments in flight, send buffers, half-closes, resets | connect, send, receive, close, abort |
| `HTTPHeader`, `MyString`, `Logger`, `Utility`, `Socket` | little or none | helpers |

**How they interact.**  The kernel tells `Select` which descriptors are ready;
`check_clients` walks the vector and, by the state of each client, reads and
parses (`Ready_ForRead`), dumps the next piece of a file, or reads a piece of
CGI output (`Writing_Response`); after each of these it writes the buffer to the
socket with a blocking `write`.  The request object of a connection is created
once and parses all its requests; the response object is created per request
and deleted when all of it has been dumped.  Several members are shared by
agreement: `Select` and `check_clients` read `getCGIout()` of the *response*
because the *request* says CGI; `processHandler` builds a response only when
`writeHandler` has deleted the previous one; a closed connection is removed
because `readHandler` pretends that a request was parsed.

**What is hard.**  Everything that lies between `select` and the use of its
result: peers send, stop receiving, close and abort at any time, and the model
lets them do so between any two handlers.  Responses in several pieces; CGI
output in any pieces; `erase` while iterating; an object that is never reset;
system calls whose results nobody looks at; tables that children inherit;
strings without a terminating zero; numbers at their limits.  `PROJECT.json`
lists these hazards at their lines, with the properties aimed at them.

**What makes each part correct.**  For the pool: handlers run for a client that
exists, and a client that is closed is removed, and only then.  For a
connection: no buffer overrun; each parsed request is answered once; what the
peer gets is the responses in order, each from its first to its last unit.  For
the parser: a rest state between calls, no dangling target of a request without
an error, no negative length, nothing of an earlier request in the header block
of a later one.  (Its body is another matter: that is measured with the first
`Content-Length` of the connection.)  For a response: pieces that add up.  For the descriptors: a number that a client holds is that of its own connection, pipes end, and what is
closed is closed for good.  For the process: only what the code has no defence
against ends it.

## 2. The modules

| Module | Models | Extends |
|---|---|---|
| `Streams` | units, and what it means that a stream is `Unbroken` and `Finished` | |
| `Service` | the abstract specification of a connection: what its peer is promised | `Streams` |
| `HTTPRequest` | the request object and `httpParse` as operators | |
| `HTTPResponse` | the response object, `buildResponse`, `writeResponse`, `loadFile` as operators | `HTTPRequest` |
| `SelectEngine` | the loop, the pool, the connections, sockets, peers, CGI programs: the state machine | `HTTPResponse`, `Streams` |
| `RequestObject` | one request object over the life of a connection, and `httpParse` line by line | `HTTPResponse` |
| `RequestBytes` | `httpParse` byte by byte: the end of a request, the cutting of lines, what is removed, the scan of the request line | |
| `Descriptors` | processes and descriptor tables: start-up, `Select` and `maxfd`, `accept`, `pipe`, `fork`, `execv` with their failures | |
| `MCSelectEngine`, `MCRequestObject`, `MCRequestBytes`, `MCDescriptors` | instances for TLC | |
| `HTTPProofs` | lemmas about the operators | `HTTPResponse` |
| `SelectEngineProofs`, `RequestObjectProofs`, `RequestBytesProofs`, `DescriptorsProofs`, `ServiceProofs` | inductive invariants and theorems | |
| `RefinementProofs` | `SelectEngine` implements `Service` | `SelectEngineProofs` |
| `HandlerProofs` | what the handlers make of requests and responses, and what may end the process | `SelectEngineProofs` |

`HTTPRequest` and `HTTPResponse` have no variables: the same operators are used
by both state machines, so that what is proved of one `httpParse` serves both.
The definitions carry the source's names; `PROJECT.json` maps each to its lines.
`Streams` and `Service` stand for no code and have no lines: `KeepsPromise` is
what ties them to it.

**Granularity of `SelectEngine`.**  `pc` names the function that runs next:
`Select`, `check_clients`, `processHandler`, `writeHandler`, `check_server`, or
`killed`.  Each handler is one action with all it does; they are separate
because the kernel may do something between two system calls.  A `write` that
has to wait for room takes several `WriteSome` steps, `copied` being what the
kernel has taken so far.  One iteration of `check_clients` starts at
`clients[it]`: `Skip`, `WriteMore`, `ReadHandler` and `PipeHandler` are its
cases.  `CloseClient` is `processHandler` on a closed connection *and* the
`Close_Socket`, `FD_CLR`, `delete`, `erase`, `continue` that follow in
`check_clients:137-144`; when the same function is called from the
`Writing_Response` case there is no such test, which is `ProcessClosed`.

**Data.**  A read buffer holds *lines* (kinds: request, header, blank, junk) and
`BUF_SIZE` counts them; a write buffer holds *units*, each named by the number
of its response on the connection and its place in it, so that loss,
duplication, reordering and mixing are visible.  A header list is what
`getHeaderValueByKey` finds, the first entry of each key.  A response header has
a length and a status.  Undefined behaviour has the outcomes a build can
produce: `delete` of a deleted pointer may end the process or go on; a null
dereference ends it; `gmtime` of a time that was never set may have no result.
The copy of a line that `sscanf` scans has no terminating zero, so that it reads
on in the heap where words of a request line or the value of a header are
missing: a line with `own = FALSE` is one that got what it lacked from there, and
is taken like one that was sent so, or ends the process, since the arrays it is
copied to have the length of the line (`overruns`); one that found nothing is
junk.  `mmap`, `pipe` and `fork` may fail whenever they are called: `Outcomes`
has one value for each end of the calls of one `buildResponse`.  A program that
was not started leaves `CGIout` at -1, and `Select` puts that into a set: either
the library aborts (`SelectAborts`), or the client waits for a bit that is never
looked at, as long as the server has fewer descriptors than that bit's number
(see the bounds of `Descriptors`).
A file length is an `int` (`asInt`), and `size_t` is arithmetic modulo
`SIZE_MAX + 1` where a negative number gets there (`getSize()` into
`maxFilePtr`).

**History.**  `asked` and `answers` count requests parsed and record the lengths
of the responses built; no action reads them, but for the number a unit carries.

**`Service` and the refinement.**  A session is what has been exchanged on a
connection: how many requests were taken up, the lengths of their answers, the
units produced.  `Ask` takes a request up when nothing of the answer before is
left; `Answer` starts one, of a length that is fixed or grows; `Produce` adds
its next units; `Grow` and `End` are what a program does to its own answer;
`Leave` is the peer's; `GiveUp`, only after it, ends the session.  In
`SelectEngine` the mapping is `Session(c)`: `lens` is `answers[c]`; `pos` is
`Position(c)`, the two pointers of `writeResponse` or what was read from the
pipe; `out` is `Stream(c)`, what the kernel was given followed by what is left
of the write buffer; `ended` says that no program is alive; `good` is `isOpen`,
and a connection the server has given up on maps to the session that is over.
`KeepsPromise` is `S!Spec` under that mapping: no pool, buffer or descriptor
is left in what the peer may rely on.

**`Descriptors`.**  The same loop with the data taken out and the numbers put
in.  A process is a table of descriptors and, while it is a server, a vector of
clients, a `maxfd` and a place in the loop.  `open`, `accept` and `pipe` take
the lowest free number, `fork` copies the table, and an object is closed when
no process holds it: a pipe is at its end when nobody can write to it.  `Start`
is `main` up to the loop, where a failure exits.  `FailCGI` leaves open what was
opened before the failure and a client whose `CGIout` is -1; `ForkCGI` either
starts a program or, when `execv` returns, a second server in the same loop,
with the sockets and clients of the first; `FailAccept` makes a client of -1.
`deleteClient` closes the number that `Close_Socket` has closed before it.

**`RequestBytes`.**  One call of `httpParse` per run.  Bytes are the ones the
code tells apart: CR, LF, space, NUL, two kinds of others.  The pointers into
the copy of the request are positions in it, and `lines` records which parts
were handed to `httpParseLine`; `scan` is what `sscanf` makes of the first of
them, followed by whatever lies after the array in the heap.  That each line
has one of the kinds `HTTPRequest` works on is what `LinesAreCut` and
`BlankEnds` are for.

## 3. The runs

| Run | Instance | Checks | Shows |
|---|---|---|---|
| `static` | 2 connections, 2 file requests on each | 7 invariants, 2 action properties | keep-alive, requests joined and delayed, answers in pieces, slow receivers, half-closes: every request is read as it was sent and as if it came first, and answered in order, whole, in full pieces |
| `faults` | 1 connection with every kind of bad luck, 1 that comes and goes | 8 invariants, the refinement, 1 action property | malformed requests and ones larger than the buffer, lines read beyond their end, CGI programs that start and that do not, resets, `SIGPIPE`, `HEAD`, empty, missing and huge files, an `mmap` that fails, a negative `Content-Length`: one answer for each request, the one it asks for, and every step is one of `Service` |
| `live` | a long file or CGI program on one, an error answer on the other | 2 leads-to | every response that was started is finished, every closed connection is removed |
| `tables` | 2 connections, 3 processes, 2 sizes of the table | 5 invariants, 2 leads-to | every failure of `accept`, `pipe`, `fork` and `execv`, and the second server |
| `bytes` | every buffer of up to 5 fragments | 5 invariants | how bytes become lines |
| `reuse` | every sequence of 250 different buffers on one request object | 5 invariants | what an object has parsed before never spoils the header block of a good request, leaves no such request without a target, and makes no length negative |
| `partial`, `closed`, `overlong`, `error`, `zero`, `leak` | the instances above | 1 each | counterexamples, see section 5 |

**`EndsForCause`** is the property of the process: when it is killed, the
connection it was serving is one the code has no defence against
(`Undefended`): its peer aborted; its request was malformed or a `HEAD`; its
`Content-Length` is negative; its file is missing, or `mmap` refused it, because
it is empty or longer than an `int`, or for any reason of its own (it is a
directory, the address space is used up by the mappings of earlier responses);
`sscanf` read beyond the end of one of its lines; or its program could not be
started.  Everything else, in any order and split in any way, leaves the server
alive, and no connection but the one being served ends it.

**Bounds, and why they are enough.**
*`SelectEngine`*: two connections are the smallest number at which `erase` moves
an element into the iterator's place, and at which one client can make another
wait; a client's handlers read no other client, and `static` treats the two
alike (`SYMMETRY`, sound for its invariants and action properties).  With `BufSize` 3 the file `/big`
(1 unit of header, 6 of file) leaves in three pieces, with one that mixes header
and file and one that is not full; with 4 the file `/mid` (5 units) leaves in
two.  `SndBuf` 2, less than the buffer, makes every full write wait.  At
`BufSize` 3 a request with one header fills the read buffer exactly and a
pipelined one overflows it; one with two headers does not fit and is dropped.
`CGIOutput` 3 fills the write buffer, 1 and 2 do
not.  Two requests on a connection are the smallest number for an old response,
an old `isCGI` or an old `uri` to matter; sequences of any length are in
`reuse`, whose object has finitely many states.  `INT_MAX` is 9 and `/huge` 12,
which is negative as an `int`; `SIZE_MAX` is 99.  `Resetters` says whose peer may
abort.
`StreamsAgree`, which every run of this instance evaluates, compares `Unbroken`
and `Finished` with the concatenation of the answers on all short streams.
*`Descriptors`*: a request on each of two connections, one of which the peer may
close.  A table of 8 is full after one connection and one pipe; one of 12 has
room for two programs at once, so that the second inherits what the first
response left open.  Three processes are the server, a program and either
another program or a second server; the server's `fork` fails when they are
gone, as well as at any other time.  `FD_SET(-1)` sets the last bit of the first
word of the set, 31 or 63 (-1 divided by the bits of a word is 0): limits below
32 keep every number below it, so that no client's bit is touched, and a build
that checks its sets aborts instead; both are outcomes.
*`RequestBytes`*: five fragments hold a request line, a header line and the
blank line with a stray byte between them, or two requests, the second not
whole.  Buffers of 13 bytes are full, and longer ones are left out.  Two bytes of
heap can continue a word, end it, or end the string.

**Deadlock** is not checked where the server may stop or wait for ever: one
without clients that come back waits in `select`, a killed one stops, and so
does a peer that has nothing more to ask for.

**Fairness.**  `FairSpec` of `SelectEngine` (`live`, `partial`): `WF(Server)`, for
the loop is the whole process and the scheduler runs it whenever it can move; it
may wait in `select` or in `write`.  `WF(PeerRecv(c))`: peers take what they are
sent; without it a blocked `write` stops everything, as in the code.
`WF(CGIExit(c))`: programs end.  Peers need not connect, send or close.  Both
leads-to leave out a client whose program was not started (`Stuck`): it waits for
ever, and so does its connection when the peer closes it.
`FairSpec` of `Descriptors` (`tables`) says the same of each process: a server
runs, a program ends.  Both leads-to of that run are about the first server
while it is alone: two servers on the same sockets take each other's requests,
and one of them then waits in `read` for ever, which the code does nothing
about.

**Mutants.**  Definitions with a suffix (`EndResponse_Keep`, `WriteSome_Short`,
...) are the code with a plausible bug; `PROJECT.json` pairs each property with
one that breaks it.  They stand next to the definition they vary and are used by
nothing else.

## 4. What is proved

For any number of connections, any scripts of lines, any buffer sizes, files
and CGI output, under the named assumptions on the constants
(`RequestAssumption`, `ResponseAssumption`, `SelectAssumption`,
`BuffersAssumption`, `BytesAssumption`, `DescriptorsAssumption`: sizes and limits
are numbers, buffers have room for something, scripts are made of lines, `NULL` is
not an object, a table has from 6 to 31 entries):

| Theorem | Property |
|---|---|
| `SelectEngineProofs!TypeCorrect` | `TypeOK` |
| `SelectEngineProofs!IteratorSafe` | `IteratorInRange` |
| `SelectEngineProofs!ResponseFresh` | `FreshResponse` |
| `SelectEngineProofs!ResponsePresent` | `WriterHasResponse` |
| `SelectEngineProofs!NoOverrun` | `BuffersFit` |
| `SelectEngineProofs!OneResponsePerRequest` | `OneAnswerEach` |
| `SelectEngineProofs!OnlyPeersClose` | `ClosedByPeer` |
| `ServiceProofs!AnswersUnbroken` | `InOrder`, of `Service` itself |
| `ServiceProofs!AnswersComplete` | `InFull`, of `Service` itself |
| `RefinementProofs!Implementation` | `KeepsPromise` |
| `RefinementProofs!InOrderDelivered` | `AnswersInOrder` |
| `RefinementProofs!WholeDelivered` | `AnswersWhole` |
| `HandlerProofs!EndsHaveCauses` | `EndsForCause` |
| `HandlerProofs!RequestAnswered` | `AnswersTheRequest` |
| `HandlerProofs!FullPieces` | `PiecesAreFull` |
| `HandlerProofs!SegmentsDoNotMatter` | `ReadAsSent` (action property) |
| `HandlerProofs!RequestsReadAsNew` | `ReadAsNew` (action property) |
| `RequestObjectProofs!ObjectTypeCorrect` | `TypeOK` |
| `RequestObjectProofs!TargetLives` | `TargetIsLive` |
| `RequestObjectProofs!ContentBounded` | `ContentWithinLength` |
| `RequestObjectProofs!LoopAlwaysAgrees` | `LoopAgrees` |
| `RequestObjectProofs!ReuseAlwaysAsNew` | `ReusedAsNew` |
| `RequestBytesProofs!LineAlwaysThere` | `LineIsThere` |
| `RequestBytesProofs!LinesPartition` | `LinesAreCut` |
| `RequestBytesProofs!BlankLineLast` | `BlankEnds` |
| `RequestBytesProofs!RemovesRequest` | `RequestIsRemoved` |
| `RequestBytesProofs!RequestLineAlone` | `ScanIsLocal` |
| `DescriptorsProofs!DescriptorsTyped` | `TypeOK` |
| `DescriptorsProofs!ClientsOwnSockets` | `OwnSocket` |
| `DescriptorsProofs!SocketsServed` | `SocketsHaveClients` |
| `DescriptorsProofs!PipesCanEnd` | `PipesEnd` |
| `DescriptorsProofs!EverythingSeen` | `SelectSees` |

**The argument for the server.**  None of the properties is inductive alone.
`IInv` adds: `HandlerHasWork` (`processHandler` is only reached with a parsed
request, or a file to go on with: without it a handler could build a response
for a client that reads); `RequestsRest` (every parser rests between calls, and
a correctly parsed request has a uri, without which `loadFile` has no type);
`ResponsesInRange` (no response is past its end, without which the pieces of
`writeResponse` could be negative and overrun the buffer); `ProgramAnswers` (a
program that runs, or has output left, is that of an answer in the history);
`BacklogReady` (the
backlog that `select` saw is there when `accept` is called); `AcceptedOnce` (a
connection that waits is in no other place and has no history, without which
`add_client` would reset a client in use).  `StepInv` has one lemma per action;
the `Frame` lemmas say what a step that leaves some variables alone preserves.
`HTTPProofs` has what the operators return: `ParseType` (`httpParse` returns a
well-formed object and never more than the buffer), `ParseURI`, `BuildType`,
`WriteResponseFits`.

**The argument for the promise.**  `InOrder` is not inductive: it does not say
where in the answers the stream is.  `Sound` does: an unbroken stream ends with
unit `pos` of the last answer, or, when none of that was produced, with the
last unit there was, and the answers between are empty.  Adding an answer,
adding its next units and letting it grow keep a stream sound; a sound stream
of a session that is `Whole` is `Finished`.  All of it is about sequences of
any length, without a word on servers; the one assumption is that lengths are
numbers (`NaturalLengths`).

**The argument for the refinement.**  `RInv` is the part of the server's state
the mapping reads.  `Handed`: only the write in progress has handed part of a
buffer to the kernel, so that a partial `write` moves units from the buffer to
the socket and leaves the stream as it is.  `HeaderFirst`: no file before all of
its header, so that one position describes both pointers of `writeResponse` and
what it dumps is the next run of units (`DumpedIsRun`).  `LengthKept`: the
history has the length of the response that is being sent, or what its program
has written.  `ProgramServed`: a program runs only for the response being sent,
so that `Grow` is about the last answer.  `DoneIsAll` and `ReadyIsEmpty`: when
`writeHandler` deletes the response, nothing of it is missing, which is what
`Ask` asks for.  `LooksNew`: `add_client` finds a connection in its first state,
so that it changes no session.  Every action has a lemma that shows `RInv'` and
that the step is a step of `Service` on one connection or leaves all sessions
as they are; a crash after the response was built is an `Answer` of which nothing
is produced.  `Implementation` follows; and since `Spec` then implies
`S!Spec`, the theorems of `ServiceProofs`, instantiated under the mapping (their
assumption is `LengthsAreNatural` here), give `InOrderDelivered` and, with
`ReadyIsEmpty` and `CaughtUp` (a client that reads has as many answers as it
had requests), `WholeDelivered`.

**The argument for the request object.**  `TypeOK`, `Resting` and the bound on
the content are preserved by every call, through `parseRequestLine`,
`addHeaders`, `endOfHeaders` and `parseContent` in turn; the bound needs that
the first `Content-Length` of a connection is never replaced and that content
is only taken up to it.

*The loop.*  `HTTPRequest` defines the result of `httpParse` on the parts of a
request (its first line, its headers, what follows the blank line), and
`RequestObject` also as the code has it, a loop over the lines with a parser
state.  `LoopAgrees` says that the two are one.  The loop is `FoldLeft`, which is
a recursive function under a `CHOOSE`: `FoldExists` shows that such a function
exists for each initial state (were there a length without one, there would be a
smallest), which gives its equation for one more line.  `HeadersLoop` and
`ContentLoop` carry the state through the headers and the content, again by the
smallest length at which they would fail, and `LoopIsBlock` joins them with the
first line.

*Reuse.*  Two objects are `Alike` when they agree on the parser state, the method,
the target and the kind of response.  A good first line makes any two objects alike (`LineReused`): method,
target and kind of response come from the line alone.  Headers and content keep
them so (`HeadersReused`), though the values found may differ, since those of an
earlier request come first.  `RequestReused`, in `HTTPProofs`, is the whole of it,
and `ReusedAsNew` follows: it holds of any object whose parser rests, not
only of the reachable ones.  What it says of the two numbers that measure a body
is less, as the code does less: they are a new object's as long as no request
before has brought a `Content-Length`.  `GoOn` is the common part of the last
lemmas: what a parser that has accepted a request line does with the headers.

**The argument for the requests.**  `Incoming(c)` is all that the parser has yet to
see of what a peer sends: the read buffer, what the kernel holds, what is still to
be sent.  A read moves lines from the one to the other and leaves the whole as it
is (`ReceivedSplit`).  The end of the first request is a position in the whole that
does not depend on what follows (`FirstEnd`, `OneEnd`), the parser looks at nothing
behind it (`TakenPrefix`), and `removeReadSize` leaves exactly the rest
(`DropBefore`).  So a step takes the first request of the whole with the result the
whole would give, or drops a full buffer, or leaves everything: `ReadAsSent`, for any
scripts, segments and buffer.  `ReadAsNew` follows from it and `RequestReused`: the
result on the connection's object is that on a new one.

**The argument for the responses.**  `AnswersTheRequest` compares the response with
what `buildResponse` makes of the request object now.  It is kept because the
request changes only when there is no response (`FreshResponse`), and a piece that
is dumped moves the two pointers only.  For `PiecesAreFull`: `writeResponse` leaves
room in the buffer only when it has dumped the whole response, so that a client
still in `Writing_Response` has a full one.  Both are parts of `HInv`, which also
says that connections that were never accepted are as the constructor leaves them
(`UnusedConns`).

**The argument for the bytes.**  Buffers of any length over the same alphabet.
Positions take the place of subsequences: `Break(s, j)` says that a line break
starts at `j`, `Blank(s, j)` that two do, and `FindsBreak` and `FindsBlank` that
`strnstr` returns the first of them.  `BInv` says that the copy ends with its
first blank line, that each line cut so far has one break, at its end, and that
the next one begins behind the last.  A line break is then always left
(`BreakIsLeft`): the next line cannot begin at the last byte, since the byte
before it would have to be the end of one break and the start of the last.  A
line of two bytes after the first is a break after a break, so the blank line
that ends the copy; that is `BlankEnds`.  `ScanIsLocal` follows from the line
break at the end of every line: each position the scan finds is at or before it
(`NextIsLocal`), whatever comes after.

**The argument for the ends of the process.**  When a handler copies a file, the
cause of a fault lies in an earlier call: the response was built of a request
that may have been for a bad file.  `Defended` carries it over: a response with
units of a file left and no file mapped is one of a request for a file that
`mmap` refused (`FileThere`, from `BuiltFile` when it is built and
`WrittenFile` when a piece of it leaves), and no body is ahead of the length
announced for it (`Within`, shared with the request object).  Then the five
steps that can end the process (`SelectAborts`, `ReadData`, `ReadCrash`,
`DumpCrash`, `BrokenPipe`) do so only for one of the causes, and nothing moves afterwards.

**The argument for the descriptors.**  Tables of any limit the assumption allows,
any number of clients and of processes, each call failing or not.  `DInv` says of
every table that no entry is an end of the pipe that would be made next
(`IsTable`), so that new ends are told from all others; and of every server's
table: `StdKept` (what `dup2` and an `execv` that failed write over is 0 and 1,
which hold no connection), `Owns` (clients and connections in the table match one
to one, in both directions, without which closing one could free the number of
another), and `Waits` (the pipe waited for is above 1 and its writing end is not in
the table).  `OneWriter` is the part on several processes: while there is one
server, the writing end of a pipe it waits for is in one process at most.  It needs
that a child gets the ends of earlier pipes only for reading, which is `Waits` of
its parent.  `LocalStep` says what a step of one process has to show for `DInv'`;
`Grown` is what `pipe`, `fork` and `dup2` do to a table (only free numbers and the
standard ones are written over, and only with new ends), and `ClientUpdated`,
`ClientAdded`, `ClientErased` what the loop does to the vector.  Only `fork`
changes two processes: `ForkTables` and `ForkCGIStep` follow both, through the
failing `execv` after which the child is a server too.

For `SelectSees` the inductive invariant is `SInv`: in every server `maxfd` is at
or above the number it listens at and that of each client.  `Seen` of a process is
kept by a step that listens at nothing new and has no client `maxfd` does not
reach (`Reaches`); the table lemmas say that of each action.  A child of a failed
`execv` has its parent's `maxfd` and clients, and a table that listens at nothing
else (`WaitingSees`).

**Only model-checked.**  The liveness properties, `ResponseCompletes`,
`ClosedIsRemoved`, `CGICompletes` and `ConnectionEnds`: fairness and `ENABLED` are
out of the prover's reach.

## 5. Where code and comments disagree

  - `overlong`: `HTTPRequest.cpp:83` says that a request longer than the buffer
    is an error, and sets `ParsedError`; lines 146-150 overwrite it.
  - `error`: `HTTPResponse.cpp:81` serves error requests, but a request line that
    does not match, behind a CGI request of the connection, never gets there:
    `isCGI` is the old one, and `buildCGIResponse` passes on the `uri` that the
    clean-up of the parser has deleted.
  - `zero`: `HTTPRequest.cpp:126` says that the length of what was parsed is
    returned and will be removed, but line 127 asks `strlen`: of a request with a
    zero byte, parsed to its end, only what lies before that byte is removed.
  - `partial`: `HTTPRequest.cpp:89` waits for more reading, which
    `SelectEngine.cpp:61` no longer asks for.
  - `closed`: `SelectEngine.cpp:279` skips a closed connection, which
    `check_clients:163-164` then writes to.
  - `leak`: `ClientConnection.cpp:148` cleans the CGI object by closing the
    `CGIout` of the connection, but `HTTPResponse.cpp:224` sets only that of the
    response: the read end of every pipe stays open.

Things no comment contradicts, and the models do as the code: every correct
`HEAD` request dereferences a null pointer (`HTTPResponse.cpp:116`), an empty
file, a directory, or any file that `mmap` refuses is a response of `SIZE_MAX`
units copied from a null pointer (`FileIO.cpp:73`), a file that does not exist has a date that was never set (`FileIO.cpp:55`), one longer than an `int`
has a wrong length (`FileIO.cpp:66`), a peer that has gone ends the process by
`SIGPIPE` (`SelectEngine.cpp:349`), a malformed request line deletes `_method`
twice (`HTTPRequest.cpp:181, 213`), a header without a value takes one from
behind its line (`HTTPRequest.cpp:245`), the first `Content-Length` of a
connection and what was taken of earlier bodies measure every later one, so that
a second `POST` may end before its body (`HTTPRequest.cpp:261-276`), a client
whose program could not be started waits for ever or ends the server
(`SelectEngine.cpp:76`), a full table makes a client of descriptor -1 in every
pass (`SelectEngine.cpp:100`), and a failed `execv` makes a second server
(`HTTPResponse.cpp:202`).  They are the outcomes `EndsForCause`, `ReusedAsNew`,
`ResponseCompletes`, `OwnSocket` and `ConnectionEnds` are stated around.

## 6. What is not modelled

  - The text of headers, paths, MIME types and dates; the parsing of a path in
    `FileIO`; how much memory and how many mappings the server has taken and
    never freed: that `mmap` may fail stands for the latter, and `new` does not.
  - In `SelectEngine` a segment carries whole lines and no zero byte, `accept`
    succeeds, and a `pipe` or `fork` that fails has no effect on the numbers: the
    other cases are those of `RequestBytes` and `Descriptors`, each over the part
    of the program it changes.  A table with more than
    `FD_SETSIZE` entries; a failing `dup2`; signals other than `SIGPIPE` and the
    abort of a checked build (no handler is installed for any, so that no call
    returns `EINTR`).
  - What a program computes, and what `printf` reads after a buffer that is not
    terminated (`SelectEngine.cpp:330`).  What the heap holds behind a line, but
    for whether `sscanf` finds what it looks for there.
  - `Logger` and `Utility`, which keep no state that another part reads; TLS
    (all of it commented out in the code); the stand-alone clients and samples.

## 7. Order of the work

 1. *(done)* the operators of the request and the response; the loop with its
    pool, connections, peers and programs; the request object; type invariants,
    safety, liveness; inductive invariants.
 2. *(done)* `Service`, and `SelectEngine` as its implementation, by TLC and by
    proof; from it `AnswersInOrder` and `AnswersWhole`; `EndsForCause`.
 3. *(done)* `Descriptors`, with the failures of the system calls, and
    `RequestBytes`; the safety properties of both are proved.
 4. *(done)* what the parser makes of a stream of requests and of a reused object,
    its loop, the responses it gets, and what `select` sees: every invariant
    and action property of the passing runs is now a theorem.
 5. *(done)* `mmap`, `pipe` and `fork` that fail under a connection, lines that
    `sscanf` reads beyond their end, the client without a pipe: `EndsForCause`
    and the refinement with these, and what an object that was used before takes
    over into a request.
