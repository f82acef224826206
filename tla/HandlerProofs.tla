---------------------------- MODULE HandlerProofs ---------------------------
(***************************************************************************)
(* What the handlers of SelectEngine do with requests and responses:       *)
(*                                                                         *)
(*  - every end of the process is one of the causes Undefended names, on   *)
(*    the connection being served (EndsHaveCauses);                        *)
(*  - the response that is sent is that of the request, and leaves in full *)
(*    buffers (RequestAnswered, FullPieces);                               *)
(*  - the parser takes the requests of a connection one by one from all    *)
(*    that its peer sends, however that arrives (SegmentsDoNotMatter).     *)
(***************************************************************************)
EXTENDS SelectEngineProofs

-----------------------------------------------------------------------------
(* The inductive invariant                                                 *)

\* A response that has a length of a file, and no file mapped, says that mmap
\* failed.
FileThere(r) == ~r.fileBuffer /\ r.maxFilePtr # 0 => mapFailed(r)

\* No body is ahead of its length, and no other response lacks its file.
Defended ==
  \A c \in Conns : Within(req[c]) /\ (res[c] # NULL => FileThere(res[c]))

EInv == Defended /\ EndsForCause

-----------------------------------------------------------------------------
(* The operators                                                           *)

\* What the parser may not survive it takes for an error.
LEMMA FaultIsError ==
  ASSUME NEW r \in Requests, NEW buf \in Seq(Lines), NEW full \in BOOLEAN,
         parseFaults(r, buf)
  PROVE  httpParse(r, buf, full).req.state = "ParsedError"
<1> DEFINE e == CHOOSE j \in requestEnd(buf) : TRUE
           block == SubSeq(buf, 1, e)
           q == parseRequestLine(r, block[1])
<1>1. requestEnd(buf) # {} /\ r.parseStatus = "requestLine" /\ DoubleDelete(r, buf[1])
  BY DEF parseFaults
<1>2. e \in 2..Len(buf)
  BY <1>1 DEF requestEnd
<1> HIDE DEF e
<1>3. block[1] = buf[1] /\ buf[1] \in Lines
  BY <1>2
<1>4. httpParse(r, buf, full).req = setRequestState(parseBlock(r, block))
  BY <1>1 DEF httpParse, e
<1> HIDE DEF block
<1>5. q \in Requests
  BY <1>3, RequestLineType
<1>6. q.parseStatus = "requestError"
  <2>1. CASE buf[1].kind # "request"
    <3> DEFINE p == setRequestError([r EXCEPT !.method = r.method], 400)
    <3>1. q = deleteURI(p)
      BY <1>3, <2>1 DEF parseRequestLine
    <3> QED
      BY <3>1 DEF deleteURI, setRequestError, Requests
  <2>2. CASE buf[1].kind = "request"
    BY <1>1, <1>3, <2>2 DEF DoubleDelete
  <2> QED
    BY <2>1, <2>2
<1>7. parseBlock(r, block) = q
  BY <1>1, <1>6 DEF parseBlock
<1> HIDE DEF q
<1>8. setRequestState(q) = [q EXCEPT !.state = "ParsedError", !.parseStatus = "requestLine"]
  BY <1>6 DEF setRequestState
<1> QED
  BY <1>4, <1>5, <1>7, <1>8 DEF Requests

\* A response starts with its file mapped, or with the length of a failure.
LEMMA BuiltFile ==
  ASSUME NEW q \in Requests, q.isCGI \/ q.state = "ParsedError" \/ q.uri \in URIs, NEW o
  PROVE  FileThere(buildResponse(q, o))
<1>1. CASE q.isCGI
  <2>1. buildResponse(q, o).maxFilePtr = 0
    BY <1>1 DEF buildResponse, buildCGIResponse, NewResponse
  <2> QED
    BY <2>1 DEF FileThere
<1>2. CASE ~q.isCGI /\ q.state = "ParsedError"
  <2>1. buildResponse(q, o) =
          [[NewResponse EXCEPT !.status = 200, !.maxHeaderPtr = HeaderSize]
             EXCEPT !.status = q.statusCode]
    BY <1>2 DEF buildResponse, buildHTTPResponse
  <2>2. buildResponse(q, o).maxFilePtr = 0
    BY <2>1 DEF NewResponse
  <2> QED
    BY <2>2 DEF FileThere
<1>3. CASE ~q.isCGI /\ q.state # "ParsedError" /\ q.uri \in URIs
  <2> DEFINE f == loadFile(q.uri, o)
             n == f.length % (SIZE_MAX + 1)
  <2>1. /\ f.mapped \in BOOLEAN /\ (~f.mapped => f.length = 0 \/ f.length = -1)
        /\ SIZE_MAX \in Nat
    BY <1>3, LoadType, ResponseAssumption
  <2> HIDE DEF f
  <2>2. buildResponse(q, o) =
          [[NewResponse EXCEPT !.status = 200, !.maxHeaderPtr = HeaderSize]
             EXCEPT !.status = IF f.mapped THEN 200 ELSE 404,
                    !.fileBuffer = f.mapped, !.maxFilePtr = n]
    BY <1>3 DEF buildResponse, buildHTTPResponse, f
  <2>3. ~f.mapped => n = 0 \/ n = SIZE_MAX
    <3>1. CASE f.length = 0
      BY <2>1, <3>1
    <3>2. CASE f.length = -1
      BY <2>1, <3>2
    <3> QED
      BY <2>1, <3>1, <3>2
  <2> HIDE DEF n
  <2>4. buildResponse(q, o).fileBuffer = f.mapped /\ buildResponse(q, o).maxFilePtr = n
    BY <2>2, ZenonT(60) DEF NewResponse
  <2> QED
    BY <2>3, <2>4 DEF FileThere, mapFailed
<1> QED
  BY <1>1, <1>2, <1>3

\* Writing a piece of it moves the two positions only.
LEMMA WrittenFile ==
  ASSUME NEW r \in Responses, FileThere(r), NEW space
  PROVE  FileThere(writeResponse(r, space))
BY DEF FileThere, mapFailed, writeResponse, Responses

\* A piece of a file that is not mapped is one of a file that mmap refused.
LEMMA FaultIsFailure ==
  ASSUME NEW r \in Responses, PointersInRange(r), FileThere(r),
         NEW space \in Nat, writeFaults(r, space)
  PROVE  mapFailed(r)
<1>1. fdPart_size(r, space) > 0 /\ ~r.fileBuffer
  BY DEF writeFaults
<1>2. /\ fdPart_size(r, space) \in Nat /\ r.filePtr \in Nat /\ r.maxFilePtr \in Nat
      /\ writeResponse(r, space).filePtr <= writeResponse(r, space).maxFilePtr
  BY WriteResponseFits DEF Responses, PointersInRange
<1>3. /\ writeResponse(r, space).filePtr = r.filePtr + fdPart_size(r, space)
      /\ writeResponse(r, space).maxFilePtr = r.maxFilePtr
  BY DEF writeResponse, Responses
<1>4. r.maxFilePtr # 0
  BY <1>1, <1>2, <1>3
<1> QED
  BY <1>1, <1>4 DEF FileThere

-----------------------------------------------------------------------------
(* The steps                                                               *)

\* What a step that parses and builds nothing preserves: a response may go, and
\* a connection may be new.
LEMMA FrameDefended ==
  ASSUME Defended,
         \A d \in Conns : req'[d] = req[d] \/ req'[d] = NewRequest,
         \A d \in Conns : res'[d] = res[d] \/ res'[d] = NULL
  PROVE  Defended'
<1>1. ASSUME NEW d \in Conns
      PROVE  Within(req'[d]) /\ (res'[d] # NULL => FileThere(res'[d]))
  BY NewWithin DEF Defended
<1> QED
  BY <1>1 DEF Defended

\* Every end of the process has a cause: the step goes on, or the connection it
\* serves is undefended.
LEMMA EndHasCause ==
  ASSUME pc' = "killed" => Undefended(clients[it])', Defended'
  PROVE  EInv'
BY DEF EInv, EndsForCause

\* The steps that leave req and res alone and do not end the process.
LEMMA QuietSteps ==
  ASSUME EInv, IInv, UNCHANGED <<req, res>>, pc' # "killed"
  PROVE  EInv'
<1>1. Defended'
  BY DEF EInv, Defended
<1> QED
  BY <1>1, EndHasCause

\* What a read leaves in the buffer for the parser.
LEMMA ReceivedType ==
  ASSUME IInv, NEW c \in Conns
  PROVE  Received(c) \in Seq(Lines)
<1> DEFINE n == ReadSize(c)
           t == SubSeq(sock[c].inq, 1, n)
<1>1. readBuffer[c] \in Seq(Lines) /\ sock[c] \in Sockets
  BY DEF IInv, TypeOK
<1>2. sock[c].inq \in Seq(Lines)
  BY <1>1, SocketUpdates
<1>3. n \in 0..Len(sock[c].inq)
  <2> DEFINE a == BufSize - Len(readBuffer[c])
             b == Len(sock[c].inq)
  <2>1. a \in Nat
    <3>1. Len(readBuffer[c]) \in Nat /\ Len(readBuffer[c]) <= BufSize /\ BufSize \in Nat
      BY <1>1, SelectAssumption DEF IInv, BuffersFit
    <3> QED
      BY <3>1
  <2>2. b \in Nat
    BY <1>2
  <2>3. n = IF a <= b THEN a ELSE b
    BY DEF ReadSize, least
  <2> HIDE DEF a, b, n
  <2>4. n \in 0..b
    BY <2>1, <2>2, <2>3
  <2> QED
    BY <2>4 DEF b
<1> HIDE DEF n
<1>4. t \in Seq(Lines)
  BY <1>2, <1>3, SubSeqProperties
<1> HIDE DEF t
<1>5. readBuffer[c] \o t \in Seq(Lines)
  BY <1>1, <1>4, ConcatProperties
<1> QED
  BY <1>5 DEF Received, t, n

\* ReadData: a request that is malformed may end the process.
LEMMA ReadDataEnds ==
  ASSUME EInv, IInv, NEW c \in Conns, ReadHandler(c), ReadData(c)
  PROVE  EInv'
<1> DEFINE buf  == Received(c)
           full == Len(buf) = BufSize
           q    == httpParse(req[c], buf, full).req
<1>1. /\ pc = "check_clients" /\ clients[it] = c /\ clients' = clients /\ res' = res
      /\ req' = [req EXCEPT ![c] = q] /\ ~parseEnds(req[c], buf)
      /\ \/ pc' # "killed"
         \/ parseFaults(req[c], buf) /\ pc' = "killed" /\ it' = it
      /\ state[c] = "Ready_ForRead"
  BY DEF ReadHandler, ReadData, Handling, NextClient
<1>2. buf \in Seq(Lines) /\ full \in BOOLEAN
  BY ReceivedType
<1> HIDE DEF buf, full
<1>3. req[c] \in Requests /\ req \in [Conns -> Requests] /\ Within(req[c])
  BY DEF IInv, TypeOK, EInv, Defended
<1>4. Within(q)
  BY <1>1, <1>2, <1>3, ParseWithin
<1>5. parseFaults(req[c], buf) => q.state = "ParsedError"
  BY <1>2, <1>3, FaultIsError
<1> HIDE DEF q
<1>6. req'[c] = q /\ \A d \in Conns \ {c} : req'[d] = req[d]
  BY <1>1, <1>3
<1>7. Defended'
  <2>1. res[c] = NULL
    BY <1>1 DEF IInv, FreshResponse
  <2> QED
    BY <1>1, <1>4, <1>6, <2>1 DEF EInv, Defended
<1>8. pc' = "killed" => Undefended(clients[it])'
  BY <1>1, <1>5, <1>6 DEF Undefended
<1> QED
  BY <1>7, <1>8, EndHasCause

\* ReadCrash: the rest of a body is negative only if its length is, and the
\* lines that are read beyond their end are those Undefended names.
LEMMA ReadCrashEnds ==
  ASSUME EInv, IInv, NEW c \in Conns, ReadHandler(c), ReadCrash(c)
  PROVE  EInv'
<1>1. /\ clients[it] = c /\ UNCHANGED <<clients, it, req, res, sock, readBuffer>>
      /\ parseEnds(req[c], Received(c)) \/ overruns(req[c], Received(c))
  BY DEF ReadHandler, ReadCrash, Handling
<1>2. req[c] \in Requests /\ Within(req[c])
  BY DEF IInv, TypeOK, EInv, Defended
<1>3. ASSUME parseEnds(req[c], Received(c)) PROVE Undefended(c)'
  <2> DEFINE length == Atoi[req[c].headers["Content-Length"]]
  <2>1. length < req[c].contentLength /\ (length >= 0 => req[c].contentLength <= length)
    BY <1>2, <1>3 DEF parseEnds, negativeBody, Within
  <2>2. length \in Int /\ req[c].contentLength \in Nat
    BY <1>2, LengthType
  <2> HIDE DEF length
  <2>3. length < 0
    BY <2>1, <2>2
  <2>4. Atoi[req'[c].headers["Content-Length"]] < 0
    BY <1>1, <2>3 DEF length
  <2> QED
    BY <2>4, Zenon DEF Undefended
<1>4. ASSUME overruns(req[c], Received(c)) PROVE Undefended(c)'
  <2>1. Received(c)' = Received(c) /\ req'[c] = req[c]
    BY <1>1 DEF Received, ReadSize
  <2>2. overruns(req'[c], Received(c)')
    BY <1>4, <2>1, Zenon
  <2> QED
    BY <2>2, Zenon DEF Undefended
<1>5. Undefended(clients[it])'
  <2>1. Undefended(c)'
    BY <1>1, <1>3, <1>4
  <2>2. (clients[it])' = c
    BY <1>1
  <2> QED
    BY <2>1, <2>2, Zenon
<1>6. Defended'
  BY <1>1 DEF EInv, Defended
<1> QED
  BY <1>5, <1>6, EndHasCause

\* SelectAborts: a program of the client was not started.
LEMMA SelectAbortsEnds ==
  ASSUME EInv, IInv, SelectAborts
  PROVE  EInv'
<1>1. PICK i \in DOMAIN clients :
        /\ state[clients[i]] = "Writing_Response" /\ req[clients[i]].isCGI
        /\ ~piped(clients[i]) /\ it' = i
  BY DEF SelectAborts
<1>2. UNCHANGED <<clients, req, res>>
  BY DEF SelectAborts, connVars
<1>3. clients[i] \in Conns
  BY <1>1 DEF IInv, TypeOK
<1>4. res[clients[i]] # NULL /\ ~res[clients[i]].CGIout
  BY <1>1, <1>3 DEF IInv, WriterHasResponse, piped
<1>5. Undefended(clients[it])'
  BY <1>1, <1>2, <1>4 DEF Undefended
<1>6. Defended'
  BY <1>2 DEF EInv, Defended
<1> QED
  BY <1>5, <1>6, EndHasCause

\* The response a handler goes on with is one that was built of its request.
LEMMA ResponseFile ==
  ASSUME EInv, IInv, NEW c \in Conns, Processing(c), Parsed(req[c]), NEW o
  PROVE  /\ Response(c, o) \in Responses /\ PointersInRange(Response(c, o))
         /\ FileThere(Response(c, o))
<1>1. Response(c, o) \in Responses /\ PointersInRange(Response(c, o))
  BY ResponseType DEF Processing
<1>2. CASE res[c] # NULL
  BY <1>1, <1>2 DEF Response, EInv, Defended
<1>3. CASE res[c] = NULL
  <2>1. req[c] \in Requests /\ (req[c].state = "ParsedError" \/ req[c].uri \in URIs)
    BY DEF IInv, TypeOK, RequestsRest, Parsed
  <2>2. Response(c, o) = buildResponse(req[c], o)
    BY <1>3 DEF Response
  <2> QED
    BY <1>1, <2>1, <2>2, BuiltFile
<1> QED
  BY <1>1, <1>2, <1>3

\* StartCGI: a CGI response has no file.
LEMMA StartCGIEnds ==
  ASSUME EInv, IInv, NEW c \in Conns, NEW o \in Outcomes, StartCGI(c, o)
  PROVE  EInv'
<1>1. FileThere(Response(c, o))
  BY ResponseFile DEF StartCGI
<1>2. /\ req' = req /\ pc' # "killed" /\ res'[c] = Response(c, o)
      /\ \A d \in Conns \ {c} : res'[d] = res[d]
  BY DEF StartCGI, IInv, TypeOK
<1>3. Defended'
  BY <1>1, <1>2 DEF EInv, Defended
<1> QED
  BY <1>2, <1>3, EndHasCause

\* The space left in a write buffer.
LEMMA SpaceType ==
  ASSUME IInv, NEW c \in Conns
  PROVE  BufSize - Len(writeBuffer[c]) \in Nat
<1>1. Len(writeBuffer[c]) \in Nat /\ Len(writeBuffer[c]) <= BufSize /\ BufSize \in Nat
  BY SelectAssumption DEF IInv, TypeOK, BuffersFit
<1> QED
  BY <1>1

\* DumpResponse: a response keeps its file.
LEMMA DumpResponseEnds ==
  ASSUME EInv, IInv, NEW c \in Conns, NEW o \in Outcomes, DumpResponse(c, o)
  PROVE  EInv'
<1> DEFINE r == writeResponse(Response(c, o), BufSize - Len(writeBuffer[c]))
<1>1. FileThere(r)
  <2>1. Processing(c) /\ Parsed(req[c])
    BY DEF DumpResponse
  <2> QED
    BY <2>1, ResponseFile, SpaceType, WrittenFile
<1>2. /\ req' = req /\ res' = [res EXCEPT ![c] = r] /\ pc' # "killed"
  BY DEF DumpResponse
<1> HIDE DEF r
<1>3. res'[c] = r /\ \A d \in Conns \ {c} : res'[d] = res[d]
  BY <1>2 DEF IInv, TypeOK
<1>4. Defended'
  BY <1>1, <1>2, <1>3 DEF EInv, Defended
<1> QED
  BY <1>2, <1>4, EndHasCause

\* DumpCrash: HEAD, a file that is missing and one that was not mapped.
LEMMA DumpCrashEnds ==
  ASSUME EInv, IInv, NEW c \in Conns, NEW o \in Outcomes, DumpCrash(c, o)
  PROVE  EInv'
<1>1. /\ Processing(c) /\ Parsed(req[c]) /\ ~req[c].isCGI /\ UNCHANGED <<clients, it, req>>
      /\ \/ /\ BuildFaults(c) \/ (res[c] = NULL /\ dateMayFault(req[c]))
            /\ UNCHANGED res
         \/ CopyFaults(c, o) /\ res' = [res EXCEPT ![c] = Response(c, o)]
  BY DEF DumpCrash, poolVars
<1>2. CASE BuildFaults(c) /\ UNCHANGED res
  <2>1. Undefended(c)'
    BY <1>1, <1>2 DEF BuildFaults, buildFaults, Undefended
  <2>2. Defended'
    BY <1>1, <1>2 DEF EInv, Defended
  <2> QED
    BY <1>1, <2>1, <2>2, EndHasCause DEF Processing, Undefended
<1>3. CASE dateMayFault(req[c]) /\ UNCHANGED res
  <2>1. req[c].uri \in URIs /\ FileSize[req[c].uri] = Absent
    BY <1>3 DEF dateMayFault, IInv, RequestsRest
  <2>2. Undefended(c)'
    BY <1>1, <2>1 DEF Undefended
  <2>3. Defended'
    BY <1>1, <1>3 DEF EInv, Defended
  <2> QED
    BY <1>1, <2>2, <2>3, EndHasCause DEF Processing, Undefended
<1>4. CASE CopyFaults(c, o) /\ res' = [res EXCEPT ![c] = Response(c, o)]
  <2>1. /\ Response(c, o) \in Responses /\ FileThere(Response(c, o))
        /\ PointersInRange(Response(c, o))
    BY <1>1, ResponseFile
  <2>2. mapFailed(Response(c, o))
    BY <1>4, <2>1, SpaceType, FaultIsFailure DEF CopyFaults
  <2>3. res'[c] = Response(c, o) /\ \A d \in Conns \ {c} : res'[d] = res[d]
    BY <1>4 DEF IInv, TypeOK
  <2>4. Response(c, o) # NULL
    BY <2>1, SelectAssumption
  <2>5. Undefended(c)'
    BY <2>2, <2>3, <2>4 DEF Undefended
  <2>6. Defended'
    BY <1>1, <2>1, <2>3 DEF EInv, Defended
  <2> QED
    BY <1>1, <2>5, <2>6, EndHasCause DEF Processing, Undefended
<1> QED
  BY <1>1, <1>2, <1>3, <1>4

\* writeHandler: only a write to a peer that is gone ends the process.
LEMMA WriteHandlerEnds ==
  ASSUME EInv, IInv, NEW c \in Conns, WriteHandler(c)
  PROVE  EInv'
<1>1. UNCHANGED <<clients, req>> /\ clients[it] = c /\ pc = "writeHandler"
  BY DEF WriteHandler, Writing
<1>2. CASE BrokenPipe(c)
  <2>1. Undefended(clients[it])'
    BY <1>1, <1>2 DEF BrokenPipe, Undefended
  <2>2. Defended'
    BY <1>1, <1>2 DEF BrokenPipe, EInv, Defended
  <2> QED
    BY <2>1, <2>2, EndHasCause
<1>3. CASE WriteSome(c) \/ WriteError(c)
  <2>1. pc' # "killed"
    BY <1>1, <1>3 DEF WriteSome, WriteError, NextClient
  <2>2. EndResponse(c) \/ res' = res
    BY <1>3 DEF WriteSome, WriteError
  <2>3. \A d \in Conns : res'[d] = res[d] \/ res'[d] = NULL
    BY <2>2 DEF EndResponse, IInv, TypeOK
  <2>4. Defended'
    BY <1>1, <2>3, FrameDefended DEF EInv
  <2> QED
    BY <2>1, <2>4, EndHasCause
<1> QED
  BY <1>2, <1>3 DEF WriteHandler

\* CheckServer: the client of a new connection has a new request.
LEMMA CheckServerEnds ==
  ASSUME EInv, IInv, CheckServer
  PROVE  EInv'
<1>1. pc' # "killed"
  BY DEF CheckServer
<1>2. \A d \in Conns : req'[d] = req[d] \/ req'[d] = NewRequest
  BY DEF CheckServer, IInv, TypeOK, connVars
<1>3. \A d \in Conns : res'[d] = res[d] \/ res'[d] = NULL
  BY DEF CheckServer, IInv, TypeOK, connVars
<1> QED
  BY <1>1, <1>2, <1>3, FrameDefended, EndHasCause DEF EInv

\* A peer or a program does nothing to a process that has ended.
LEMMA OutsideEnds ==
  ASSUME EInv, IInv, NEW c \in Conns, Peer(c) \/ CGIWrite(c) \/ CGIExit(c)
  PROVE  EInv'
<1>1. pc # "killed" /\ UNCHANGED <<pc, req, res>>
  BY DEF Peer, PeerConnect, PeerSend, PeerClose, PeerReset, PeerRecv, CGIWrite, CGIExit,
         Connected, serverVars, connVars
<1> QED
  BY <1>1, QuietSteps

-----------------------------------------------------------------------------
(* The theorem                                                             *)

LEMMA StepEnds ==
  ASSUME EInv, IInv, [Next]_vars
  PROVE  EInv'
<1>1. CASE Select \/ EndOfPass
  <2>1. UNCHANGED <<req, res>> /\ pc' # "killed"
    BY <1>1 DEF Select, EndOfPass, connVars
  <2> QED
    BY <2>1, QuietSteps
<1>2. CASE CheckServer
  BY <1>2, CheckServerEnds
<1>9. CASE SelectAborts
  BY <1>9, SelectAbortsEnds
<1>3. ASSUME NEW c \in Conns, Skip(c) \/ WriteMore(c) \/ PipeHandler(c) PROVE EInv'
  <2>1. UNCHANGED <<req, res>> /\ pc' # "killed"
    BY <1>3 DEF Skip, WriteMore, PipeHandler, NextClient, connVars
  <2> QED
    BY <2>1, QuietSteps
<1>4. ASSUME NEW c \in Conns, ReadHandler(c) PROVE EInv'
  <2>1. CASE ReadEOF(c) \/ ReadError(c)
    <3>1. UNCHANGED <<req, res>> /\ pc' # "killed"
      BY <1>4, <2>1 DEF ReadHandler, ReadEOF, ReadError, NextClient
    <3> QED
      BY <3>1, QuietSteps
  <2>2. CASE ReadData(c)
    BY <1>4, <2>2, ReadDataEnds
  <2>3. CASE ReadCrash(c)
    BY <1>4, <2>3, ReadCrashEnds
  <2> QED
    BY <1>4, <2>1, <2>2, <2>3 DEF ReadHandler
<1>5. ASSUME NEW c \in Conns, ProcessHandler(c) PROVE EInv'
  <2>1. CASE CloseClient(c) \/ ProcessClosed(c)
    <3>1. UNCHANGED <<req, res>> /\ pc' # "killed"
      BY <2>1 DEF CloseClient, ProcessClosed
    <3> QED
      BY <3>1, QuietSteps
  <2> QED
    BY <1>5, <2>1, StartCGIEnds, DumpResponseEnds, DumpCrashEnds DEF ProcessHandler
<1>6. ASSUME NEW c \in Conns, WriteHandler(c) PROVE EInv'
  BY <1>6, WriteHandlerEnds
<1>7. ASSUME NEW c \in Conns, Peer(c) \/ CGIWrite(c) \/ CGIExit(c) PROVE EInv'
  BY <1>7, OutsideEnds
<1>8. CASE UNCHANGED vars
  <2>1. UNCHANGED <<pc, clients, it, req, res, sock, readBuffer>>
    BY <1>8 DEF vars, poolVars, connVars, envVars
  <2>2. \A c : Undefended(c)' = Undefended(c)
    BY <2>1 DEF Undefended, Received, ReadSize
  <2> QED
    BY <2>1, <2>2 DEF EInv, Defended, EndsForCause
<1> QED
  BY <1>1, <1>2, <1>3, <1>4, <1>5, <1>6, <1>7, <1>8, <1>9 DEF Next, Server

\* Nothing ends the server but what Undefended names: a peer that is gone, a
\* malformed request, HEAD, a negative Content-Length, a file that is missing
\* or that mmap refuses, a line that sscanf reads beyond its end, a program
\* that could not be started.
THEOREM EndsHaveCauses == Spec => []EndsForCause
<1>1. Init => EInv
  <2>1. Init => Defended
    BY NewWithin DEF Init, Defended
  <2> QED
    BY <2>1 DEF Init, EInv, EndsForCause
<1>2. EInv /\ IInv /\ [Next]_vars => EInv'
  BY StepEnds
<1>3. EInv => EndsForCause
  BY DEF EInv
<1> QED
  BY <1>1, <1>2, <1>3, Invariance, PTL DEF Spec

-----------------------------------------------------------------------------
(* What comes in                                                           *)

LEMMA LinesJoin ==
  ASSUME NEW s \in Seq(Lines), NEW t \in Seq(Lines), NEW u \in Seq(Lines)
  PROVE  (s \o t) \o u = s \o (t \o u)
BY ConcatAssociative, SMTT(40)

\* What lies behind the first n of a sequence.
LEMMA Behind ==
  ASSUME NEW s \in Seq(Lines), NEW n \in 0..Len(s)
  PROVE  LET a == SubSeq(s, n + 1, Len(s))
         IN /\ a \in Seq(Lines) /\ Len(a) = Len(s) - n
            /\ \A i \in 1..(Len(s) - n) : a[i] = s[n + i]
<1> DEFINE m == Len(s)
           a == SubSeq(s, n + 1, m)
<1>1. m \in Nat /\ n \in Nat /\ n <= m
  OBVIOUS
<1>2. \A i \in (n + 1)..m : s[i] \in Lines
  OBVIOUS
<1>3. n + 1 \in Int /\ m \in Int
  BY <1>1
<1> HIDE DEF m
<1>4. /\ a \in Seq(Lines) /\ Len(a) = IF n + 1 <= m THEN m - (n + 1) + 1 ELSE 0
      /\ \A i \in 1..(m - (n + 1) + 1) : a[i] = s[n + 1 + i - 1]
  BY <1>2, <1>3, SubSeqProperties
<1>5. \A i \in 1..(m - n) : n + 1 + i - 1 = n + i /\ i \in 1..(m - (n + 1) + 1)
  BY <1>1
<1> HIDE DEF a
<1>6. a \in Seq(Lines) /\ Len(a) = m - n /\ \A i \in 1..(m - n) : a[i] = s[n + i]
  BY <1>1, <1>4, <1>5
<1> QED
  BY <1>6 DEF a, m

\* The same, with more behind it.
LEMMA DropBefore ==
  ASSUME NEW s \in Seq(Lines), NEW t \in Seq(Lines), NEW n \in 0..Len(s)
  PROVE  SubSeq(s, n + 1, Len(s)) \o t = SubSeq(s \o t, n + 1, Len(s \o t))
<1> DEFINE a == SubSeq(s, n + 1, Len(s))
           u == s \o t
           b == SubSeq(u, n + 1, Len(u))
           v == a \o t
<1>1. Len(s) \in Nat /\ Len(t) \in Nat /\ n \in Nat /\ n <= Len(s)
  OBVIOUS
<1>2. u \in Seq(Lines) /\ Len(u) = Len(s) + Len(t)
      /\ \A i \in 1..(Len(s) + Len(t)) : u[i] = IF i <= Len(s) THEN s[i] ELSE t[i - Len(s)]
  BY ConcatProperties
<1>3. a \in Seq(Lines) /\ Len(a) = Len(s) - n /\ \A i \in 1..(Len(s) - n) : a[i] = s[n + i]
  BY Behind
<1> HIDE DEF u, a
<1>4. b \in Seq(Lines) /\ Len(b) = Len(u) - n /\ \A i \in 1..(Len(u) - n) : b[i] = u[n + i]
  <2>1. n \in 0..Len(u)
    BY <1>1, <1>2
  <2> QED
    BY <1>2, <2>1, Behind
<1>5. v \in Seq(Lines) /\ Len(v) = Len(a) + Len(t)
      /\ \A i \in 1..(Len(a) + Len(t)) : v[i] = IF i <= Len(a) THEN a[i] ELSE t[i - Len(a)]
  BY <1>3, ConcatProperties
<1> HIDE DEF b, v
<1>6. ASSUME NEW i \in 1..(Len(s) + Len(t) - n)
      PROVE  v[i] = b[i]
  <2>1. /\ n + i \in 1..(Len(s) + Len(t)) /\ i \in 1..(Len(a) + Len(t))
        /\ i \in 1..(Len(u) - n)
    BY <1>1, <1>2, <1>3
  <2>2. b[i] = IF n + i <= Len(s) THEN s[n + i] ELSE t[n + i - Len(s)]
    BY <1>1, <1>2, <1>4, <2>1
  <2>3. v[i] = IF i <= Len(s) - n THEN a[i] ELSE t[i - (Len(s) - n)]
    BY <1>3, <1>5, <2>1
  <2>4. CASE i <= Len(s) - n
    <3>1. n + i <= Len(s) /\ i \in 1..(Len(s) - n)
      BY <1>1, <2>4
    <3> QED
      BY <1>3, <2>2, <2>3, <2>4, <3>1
  <2>5. CASE ~(i <= Len(s) - n)
    <3>1. ~(n + i <= Len(s)) /\ i - (Len(s) - n) = n + i - Len(s)
      BY <1>1, <2>5
    <3> QED
      BY <2>2, <2>3, <2>5, <3>1
  <2> QED
    BY <2>4, <2>5
<1>7. Len(v) = Len(b) /\ Len(b) = Len(s) + Len(t) - n
  BY <1>1, <1>2, <1>3, <1>4, <1>5
<1>8. v = b
  BY <1>4, <1>5, <1>6, <1>7, SeqEqual
<1> QED
  BY <1>8 DEF a, b, u, v

\* The first end of a request in a buffer is that of all that comes after it too.
LEMMA FirstEnd ==
  ASSUME NEW s \in Seq(Lines), NEW t \in Seq(Lines)
  PROVE  \A e : e \in requestEnd(s) <=> e \in requestEnd(s \o t) /\ e <= Len(s)
<1> DEFINE u == s \o t
<1>1. /\ u \in Seq(Lines) /\ Len(u) = Len(s) + Len(t) /\ Len(s) \in Nat /\ Len(t) \in Nat
      /\ \A i \in 1..Len(s) : u[i] = s[i]
  BY ConcatProperties
<1> HIDE DEF u
<1>2. \A e : e \in 2..Len(s) <=> e \in 2..Len(u) /\ e <= Len(s)
  BY <1>1
<1>3. \A e \in 2..Len(s) : /\ u[e] = s[e]
                           /\ \A i \in 2..(e - 1) : u[i] = s[i]
  BY <1>1
<1>4. ASSUME NEW e, e \in 2..Len(s)
      PROVE  e \in requestEnd(s) <=> e \in requestEnd(u)
  BY <1>2, <1>3, <1>4 DEF requestEnd
<1>5. \A e : e \in requestEnd(s) => e \in 2..Len(s)
  BY DEF requestEnd
<1>6. \A e : e \in requestEnd(u) => e \in 2..Len(u)
  BY DEF requestEnd
<1> QED
  BY <1>2, <1>4, <1>5, <1>6 DEF u

\* There is only one.
LEMMA OneEnd ==
  ASSUME NEW s \in Seq(Lines), NEW e \in requestEnd(s)
  PROVE  (CHOOSE j \in requestEnd(s) : TRUE) = e
<1>1. \A j \in requestEnd(s) : j \in 2..Len(s) /\ s[j] = Blank /\ \A i \in 2..(j - 1) : s[i] # Blank
  BY DEF requestEnd
<1>2. \A j \in requestEnd(s) : j = e
  BY <1>1
<1> QED
  BY <1>2

\* What the parser makes of a buffer with a request in it.
Taken(r, s) ==
  setRequestState(parseBlock(r, SubSeq(s, 1, CHOOSE j \in requestEnd(s) : TRUE)))

\* It is what it would make of all that comes.
LEMMA TakenPrefix ==
  ASSUME NEW r \in Requests, NEW s \in Seq(Lines), NEW t \in Seq(Lines), NEW e \in requestEnd(s)
  PROVE  Taken(r, s) = Taken(r, s \o t) /\ e \in requestEnd(s \o t)
<1>1. e \in requestEnd(s \o t)
  BY FirstEnd
<1>2. s \o t \in Seq(Lines)
  BY ConcatProperties
<1>3. (CHOOSE j \in requestEnd(s) : TRUE) = e /\ (CHOOSE j \in requestEnd(s \o t) : TRUE) = e
  BY <1>1, <1>2, OneEnd
<1>4. e \in 1..Len(s) /\ 1 \in 1..Len(s)
  BY DEF requestEnd
<1>5. SubSeq(s \o t, 1, e) = SubSeq(s, 1, e)
  BY <1>4, SubSeqOfConcat1
<1> QED
  BY <1>1, <1>3, <1>5 DEF Taken

\* A call that finds no request in its buffer leaves the object as it was.
LEMMA ParseNothing ==
  ASSUME NEW r \in Requests, Resting(r), NEW s, requestEnd(s) = {}, NEW full \in BOOLEAN
  PROVE  LET p == httpParse(r, s, full)
         IN /\ p.size = IF full THEN Len(s) ELSE 0
            /\ ~full => p.req = [r EXCEPT !.state = "Parsing"]
            /\ full => p.req = [r EXCEPT !.state = "Parsing", !.parseStatus = "requestLine"]
<1> DEFINE q == IF full THEN [r EXCEPT !.parseStatus = "requestLine"] ELSE r
<1>1. httpParse(r, s, full) =
        [req |-> setRequestState(q), size |-> IF full THEN Len(s) ELSE 0]
  BY DEF httpParse
<1>2. q.parseStatus \in {"requestLine", "contentLine"}
  BY DEF Resting, Requests
<1>3. setRequestState(q) = [q EXCEPT !.state = "Parsing"]
  <2> HIDE DEF q
  <2> QED
    BY <1>2 DEF setRequestState
<1>4. full => [q EXCEPT !.state = "Parsing"]
                = [r EXCEPT !.state = "Parsing", !.parseStatus = "requestLine"]
  BY DEF Requests
<1>5. ~full => q = r
  OBVIOUS
<1> HIDE DEF q
<1> QED
  BY <1>1, <1>3, <1>4, <1>5

\* How much a read takes, where it goes, and what is left for the next one.
LEMMA ReceivedSplit ==
  ASSUME IInv, NEW c \in Conns
  PROVE  LET n == ReadSize(c)
             rest == SubSeq(sock[c].inq, n + 1, Len(sock[c].inq)) \o sock[c].todo
         IN /\ n \in 0..Len(sock[c].inq) /\ rest \in Seq(Lines)
            /\ Incoming(c) = Received(c) \o rest
<1> DEFINE n == ReadSize(c)
           b == readBuffer[c]
           q == sock[c].inq
           front == SubSeq(q, 1, n)
           back == SubSeq(q, n + 1, Len(q))
           todo == sock[c].todo
<1>1. b \in Seq(Lines) /\ q \in Seq(Lines) /\ todo \in Seq(Lines)
      /\ Len(b) <= BufSize
  BY SocketUpdates DEF IInv, TypeOK, BuffersFit
<1>2. n = IF BufSize - Len(b) <= Len(q) THEN BufSize - Len(b) ELSE Len(q)
  BY DEF ReadSize, least
<1> HIDE DEF b, q, n, todo
<1>3. n \in 0..Len(q)
  <2>1. Len(b) \in Nat /\ Len(q) \in Nat /\ BufSize \in Nat
    BY <1>1, SelectAssumption
  <2> QED
    BY <1>1, <1>2, <2>1
<1>4. front \in Seq(Lines) /\ back \in Seq(Lines) /\ front \o back = q
  <2>1. 1 \in 1..(Len(q) + 1) /\ n \in (1 - 1)..Len(q) /\ Len(q) \in n..Len(q)
        /\ Len(q) \in Nat
    BY <1>1, <1>3
  <2>2. front \o back = SubSeq(q, 1, Len(q))
    BY <1>1, <2>1, ConcatAdjacentSubSeq
  <2>3. SubSeq(q, 1, Len(q)) = q
    BY <1>1, SubSeqFull
  <2>4. back \in Seq(Lines)
    BY <1>1, <1>3, Behind
  <2>5. front \in Seq(Lines)
    <3>1. \A i \in 1..n : q[i] \in Lines
      BY <1>1, <1>3
    <3>2. 1 \in Int /\ n \in Int
      BY <1>3
    <3> QED
      BY <3>1, <3>2, SubSeqProperties
  <2> QED
    BY <2>2, <2>3, <2>4, <2>5
<1> HIDE DEF front, back
<1>5. back \o todo \in Seq(Lines)
  BY <1>1, <1>4, ConcatProperties
<1>6. (b \o q) \o todo = (b \o front) \o (back \o todo)
  <2>1. b \o q = (b \o front) \o back
    <3>1. (b \o front) \o back = b \o (front \o back)
      BY <1>1, <1>4, LinesJoin, ZenonT(60)
    <3> QED
      BY <1>4, <3>1, Zenon
  <2>2. b \o front \in Seq(Lines)
    BY <1>1, <1>4, ConcatProperties
  <2> HIDE DEF b
  <2>3. ((b \o front) \o back) \o todo = (b \o front) \o (back \o todo)
    BY <1>1, <1>4, <2>2, LinesJoin, ZenonT(60)
  <2> QED
    BY <2>1, <2>3
<1> QED
  BY <1>3, <1>5, <1>6 DEF Incoming, Received, b, q, n, front, back, todo

\* One connection's part of ReadAsSent.
AsSent(c) ==
  LET all == Incoming(c)
  IN \/ Incoming(c)' = all /\ req'[c] \in {req[c], [req[c] EXCEPT !.state = "Parsing"]}
     \/ \E e \in requestEnd(all) :
          /\ Incoming(c)' = SubSeq(all, e + 1, Len(all))
          /\ req'[c] = httpParse(req[c], all, FALSE).req
     \/ /\ Len(all) >= BufSize /\ \A e \in requestEnd(all) : e > BufSize
        /\ Incoming(c)' = SubSeq(all, BufSize + 1, Len(all))
        /\ req'[c] = [req[c] EXCEPT !.state = "Parsing", !.parseStatus = "requestLine"]

\* ReadData is the only action that takes anything.
LEMMA ReadDataAsSent ==
  ASSUME IInv, NEW c \in Conns, ReadHandler(c), ReadData(c)
  PROVE  AsSent(c)
<1> DEFINE n == ReadSize(c)
           buf == Received(c)
           full == Len(buf) = BufSize
           p == httpParse(req[c], buf, full)
           todo == sock[c].todo
           back == SubSeq(sock[c].inq, n + 1, Len(sock[c].inq))
           rest == back \o todo
           left == removeSize(buf, p.size)
<1>1. /\ sock' = [sock EXCEPT ![c].inq = back]
      /\ readBuffer' = [readBuffer EXCEPT ![c] = left]
      /\ req' = [req EXCEPT ![c] = p.req]
      /\ ~parseEnds(req[c], buf)
  BY DEF ReadData
<1>2. /\ n \in 0..Len(sock[c].inq) /\ rest \in Seq(Lines) /\ Incoming(c) = buf \o rest
  BY ReceivedSplit
<1>3. buf \in Seq(Lines) /\ full \in BOOLEAN
  BY ReceivedType
<1>4. req[c] \in Requests /\ Resting(req[c]) /\ req \in [Conns -> Requests]
      /\ readBuffer \in [Conns -> Seq(Lines)] /\ sock \in [Conns -> Sockets]
      /\ sock[c] \in Sockets /\ sock[c].inq \in Seq(Lines) /\ todo \in Seq(Lines)
  BY SocketUpdates DEF IInv, TypeOK, RequestsRest
<1>5. back \in Seq(Lines)
  BY <1>2, <1>4, Behind
<1> HIDE DEF n, back
<1>6. sock'[c].inq = back /\ sock'[c].todo = todo
  <2>1. sock'[c] = [sock[c] EXCEPT !.inq = back]
    BY <1>1, <1>4
  <2> QED
    BY <1>4, <2>1 DEF Sockets
<1> HIDE DEF todo, buf, full, p
<1>7. p.size \in 0..Len(buf)
  BY <1>1, <1>3, <1>4, ParseType DEF p
<1>8. left \in Seq(Lines)
  BY <1>3, <1>7, Behind DEF removeSize
<1>9. readBuffer'[c] = left /\ req'[c] = p.req
  <2> HIDE DEF left
  <2> QED
    BY <1>1, <1>4
<1>10. Incoming(c)' = left \o rest
  <2> HIDE DEF left
  <2>1. Incoming(c)' = (left \o back) \o todo
    BY <1>6, <1>9 DEF Incoming
  <2>2. todo \in Seq(Lines)
    BY <1>4 DEF todo
  <2>3. (left \o back) \o todo = left \o (back \o todo)
    BY <1>5, <1>8, <2>2, LinesJoin
  <2> QED
    BY <2>1, <2>3, Zenon
<1>11. left \o rest = SubSeq(buf \o rest, p.size + 1, Len(buf \o rest))
  <2> HIDE DEF rest
  <2> QED
    BY <1>2, <1>3, <1>7, DropBefore DEF removeSize
<1> HIDE DEF left, rest
<1> DEFINE all == buf \o rest
<1>12. Len(buf) \in Nat /\ all \in Seq(Lines) /\ Len(all) \in Nat /\ Len(all) >= Len(buf)
  BY <1>2, <1>3, ConcatProperties
<1>13. ASSUME NEW e \in requestEnd(buf)
       PROVE  AsSent(c)
  <2>1. /\ p.req = httpParse(req[c], all, FALSE).req /\ p.size = e /\ e \in requestEnd(all)
    <3>1. (CHOOSE j \in requestEnd(buf) : TRUE) = e
      BY <1>3, OneEnd
    <3>2. p.req = Taken(req[c], buf) /\ p.size = e
      BY <3>1 DEF p, httpParse, Taken
    <3>3. Taken(req[c], buf) = Taken(req[c], all) /\ e \in requestEnd(all)
      BY <1>2, <1>3, <1>4, TakenPrefix
    <3> HIDE DEF all
    <3>4. httpParse(req[c], all, FALSE).req = Taken(req[c], all)
      BY <3>3 DEF httpParse, Taken
    <3> QED
      BY <3>2, <3>3, <3>4
  <2> HIDE DEF all
  <2> QED
    BY <1>2, <1>9, <1>10, <1>11, <2>1 DEF AsSent, all
<1>14. CASE requestEnd(buf) = {} /\ ~full
  <2>1. p.size = 0 /\ p.req = [req[c] EXCEPT !.state = "Parsing"]
    BY <1>3, <1>4, <1>14, ParseNothing, ZenonT(60) DEF p
  <2>2. SubSeq(all, 0 + 1, Len(all)) = all
    <3>1. 0 + 1 = 1
      OBVIOUS
    <3>2. SubSeq(all, 1, Len(all)) = all
      BY <1>12, SubSeqFull
    <3> QED
      BY <3>1, <3>2
  <2> HIDE DEF all
  <2>3. Incoming(c)' = all /\ Incoming(c) = all
    BY <1>2, <1>10, <1>11, <2>1, <2>2 DEF all
  <2> QED
    BY <1>9, <2>1, <2>3 DEF AsSent
<1>15. CASE requestEnd(buf) = {} /\ full
  <2>1. /\ p.size = BufSize /\ Len(buf) = BufSize
        /\ p.req = [req[c] EXCEPT !.state = "Parsing", !.parseStatus = "requestLine"]
    BY <1>3, <1>4, <1>15, ParseNothing DEF p, full
  <2>2. \A e \in requestEnd(all) : e > BufSize
    <3>1. \A e \in requestEnd(all) : ~(e <= Len(buf))
      BY <1>2, <1>3, <1>15, FirstEnd
    <3>2. \A e \in requestEnd(all) : e \in Nat
      <4> HIDE DEF all
      <4> QED
        BY <1>12 DEF requestEnd
    <3> HIDE DEF all
    <3> QED
      BY <1>12, <2>1, <3>1, <3>2
  <2>3. Incoming(c)' = SubSeq(all, BufSize + 1, Len(all)) /\ Incoming(c) = all
    BY <1>2, <1>10, <1>11, <2>1
  <2> HIDE DEF all
  <2> QED
    BY <1>9, <1>12, <2>1, <2>2, <2>3 DEF AsSent
<1> QED
  BY <1>3, <1>13, <1>14, <1>15

-----------------------------------------------------------------------------
(* The requests and their responses                                        *)

\* A connection that has not been accepted has a client's members as new.
UnusedConns ==
  \A c \in Conns : sock[c].phase = "none" \/ Waiting(c) =>
    req[c] = NewRequest /\ readBuffer[c] = <<>>

HInv == UnusedConns /\ AnswersTheRequest /\ PiecesAreFull

\* A response as it was built, whatever has been sent of it.
Rewound(r) == [r EXCEPT !.headerPtr = 0, !.filePtr = 0]
Answering(r, q) == \E o \in Outcomes : Rewound(r) = buildResponse(q, o)

\* That is what buildResponse returns.
LEMMA BuiltRewound ==
  ASSUME NEW q \in Requests, q.isCGI \/ q.state = "ParsedError" \/ q.uri \in URIs, NEW o
  PROVE  Rewound(buildResponse(q, o)) = buildResponse(q, o)
<1> DEFINE b == buildResponse(q, o)
<1>1. b \in Responses
  BY BuildType
<1>2. b.headerPtr = 0 /\ b.filePtr = 0
  BY DEF buildResponse, buildCGIResponse, buildHTTPResponse, NewResponse
<1> HIDE DEF b
<1>3. Rewound(b) = b
  BY <1>1, <1>2 DEF Rewound, Responses
<1> QED
  BY <1>3 DEF b

\* writeResponse only moves the two positions.
LEMMA WrittenRewound ==
  ASSUME NEW r \in Responses, NEW space
  PROVE  Rewound(writeResponse(r, space)) = Rewound(r)
BY DEF Rewound, writeResponse, Responses

\* It fills the space, or has dumped all there is.
LEMMA FullOrAll ==
  ASSUME NEW r \in Responses, PointersInRange(r), NEW space \in Nat
  PROVE  \/ hdPart_size(r, space) + fdPart_size(r, space) = space
         \/ AllDumped(writeResponse(r, space))
<1> DEFINE hd == hdPart_size(r, space)
           fd == fdPart_size(r, space)
           w == writeResponse(r, space)
<1>1. /\ r.headerPtr \in Nat /\ r.maxHeaderPtr \in Nat /\ r.filePtr \in Nat
      /\ r.maxFilePtr \in Nat
      /\ r.headerPtr <= r.maxHeaderPtr /\ r.filePtr <= r.maxFilePtr
  BY DEF Responses, PointersInRange
<1>2. /\ w.headerPtr = r.headerPtr + hd /\ w.filePtr = r.filePtr + fd
      /\ w.maxHeaderPtr = r.maxHeaderPtr /\ w.maxFilePtr = r.maxFilePtr
  BY DEF writeResponse, Responses
<1>3. CASE space = 0
  <2>1. hd = 0 /\ fd = 0
    BY <1>3 DEF hdPart_size, fdPart_size
  <2> QED
    BY <1>3, <2>1
<1>4. CASE space > 0 /\ r.headerPtr + space <= r.maxHeaderPtr
  <2>1. hd = space /\ fd = 0
    BY <1>4 DEF hdPart_size, fdPart_size
  <2> QED
    BY <2>1
<1>5. CASE space > 0 /\ ~(r.headerPtr + space <= r.maxHeaderPtr)
  <2>1. hd = r.maxHeaderPtr - r.headerPtr
    BY <1>5 DEF hdPart_size
  <2>2. fd = IF r.filePtr + (space - hd) > r.maxFilePtr THEN r.maxFilePtr - r.filePtr
             ELSE space - hd
    BY <1>5 DEF fdPart_size
  <2> HIDE DEF hd, fd, w
  <2>3. CASE r.filePtr + (space - hd) > r.maxFilePtr
    <3>1. w.headerPtr = w.maxHeaderPtr /\ w.filePtr = w.maxFilePtr
      BY <1>1, <1>2, <2>1, <2>2, <2>3
    <3> QED
      BY <3>1 DEF AllDumped, w
  <2>4. CASE ~(r.filePtr + (space - hd) > r.maxFilePtr)
    <3>1. hd + fd = space
      BY <1>1, <2>1, <2>2, <2>4
    <3> QED
      BY <3>1 DEF hd, fd
  <2> QED
    BY <2>3, <2>4
<1> QED
  BY <1>3, <1>4, <1>5

-----------------------------------------------------------------------------
(* What the steps preserve of HInv                                         *)

\* The requests are left alone, and the connections go on or are over.
LEMMA FrameUnused ==
  ASSUME HInv, UNCHANGED <<req, readBuffer, backlog>>,
         \A c \in Conns : sock'[c].phase = "none" => sock[c].phase = "none"
  PROVE  UnusedConns'
BY DEF HInv, UnusedConns, Waiting

\* A response stays with its request, or is deleted.
LEMMA FrameResponses ==
  ASSUME HInv, \A c \in Conns : (res'[c] = res[c] /\ req'[c] = req[c]) \/ res'[c] = NULL
  PROVE  AnswersTheRequest'
<1>1. ASSUME NEW c \in Conns, res'[c] # NULL
      PROVE  Answering(res'[c], req'[c])
  <2>1. res'[c] = res[c] /\ req'[c] = req[c]
    BY <1>1
  <2> QED
    BY <1>1, <2>1 DEF HInv, AnswersTheRequest, Answering, Rewound
<1> QED
  BY <1>1 DEF AnswersTheRequest, Answering, Rewound

\* No write has begun.
LEMMA FramePieces ==
  ASSUME pc' # "writeHandler"
  PROVE  PiecesAreFull'
BY DEF PiecesAreFull, Writing

\* A step that leaves requests, responses and the ends of the sockets alone, and
\* does not begin a write.
LEMMA QuietHandlers ==
  ASSUME HInv, UNCHANGED <<req, res, readBuffer, backlog, sock>>, pc' # "writeHandler"
  PROVE  HInv'
BY FrameUnused, FrameResponses, FramePieces DEF HInv

\* A connection that is handled is not one that has not been accepted.
LEMMA HandledIsUsed ==
  ASSUME IInv, NEW c \in InPool
  PROVE  sock[c].phase # "none" /\ ~Waiting(c)
BY SMTT(40) DEF IInv, AcceptedOnce, InPool, TypeOK

\* Only pool members are handled.
LEMMA HandledInPool ==
  ASSUME IInv, NEW c \in Conns, Handling(c)
  PROVE  c \in InPool
<1>1. it \in DOMAIN clients
  BY DEF IInv, TypeOK, IteratorInRange, Handling
<1> QED
  BY <1>1 DEF InPool, Handling

\* What an update of one part of a socket leaves alone.
SamePhases == \A d \in Conns : sock'[d].phase = sock[d].phase
SameLines == \A d \in Conns : sock'[d].inq = sock[d].inq /\ sock'[d].todo = sock[d].todo

LEMMA SocketParts ==
  ASSUME IInv, NEW c \in Conns, NEW x
  PROVE  /\ sock' = [sock EXCEPT ![c].inq = x] => SamePhases
         /\ sock' = [sock EXCEPT ![c].phase = x] => SameLines
         /\ sock' = [sock EXCEPT ![c].fin = x] => SamePhases /\ SameLines
         /\ sock' = [sock EXCEPT ![c].rst = x] => SamePhases /\ SameLines
         /\ sock' = [sock EXCEPT ![c].sent = x] => SamePhases /\ SameLines
         /\ sock' = [sock EXCEPT ![c].rcvd = x] => SamePhases /\ SameLines
<1>1. sock \in [Conns -> Sockets] /\ sock[c] \in Sockets
  BY DEF IInv, TypeOK
<1>2. ASSUME sock' = [sock EXCEPT ![c].inq = x] PROVE SamePhases
  <2>1. sock'[c] = [sock[c] EXCEPT !.inq = x] /\ \A d \in Conns \ {c} : sock'[d] = sock[d]
    BY <1>1, <1>2
  <2>2. sock'[c].phase = sock[c].phase
    BY <1>1, <2>1 DEF Sockets
  <2> QED
    BY <2>1, <2>2 DEF SamePhases
<1>3. ASSUME sock' = [sock EXCEPT ![c].phase = x] PROVE SameLines
  <2>1. sock'[c] = [sock[c] EXCEPT !.phase = x] /\ \A d \in Conns \ {c} : sock'[d] = sock[d]
    BY <1>1, <1>3
  <2>2. sock'[c].inq = sock[c].inq /\ sock'[c].todo = sock[c].todo
    BY <1>1, <2>1 DEF Sockets
  <2> QED
    BY <2>1, <2>2 DEF SameLines
<1>4. ASSUME sock' = [sock EXCEPT ![c].fin = x] PROVE SamePhases /\ SameLines
  <2>1. sock'[c] = [sock[c] EXCEPT !.fin = x] /\ \A d \in Conns \ {c} : sock'[d] = sock[d]
    BY <1>1, <1>4
  <2>2. /\ sock'[c].phase = sock[c].phase /\ sock'[c].inq = sock[c].inq
         /\ sock'[c].todo = sock[c].todo
    BY <1>1, <2>1 DEF Sockets
  <2> QED
    BY <2>1, <2>2 DEF SamePhases, SameLines
<1>5. ASSUME sock' = [sock EXCEPT ![c].rst = x] PROVE SamePhases /\ SameLines
  <2>1. sock'[c] = [sock[c] EXCEPT !.rst = x] /\ \A d \in Conns \ {c} : sock'[d] = sock[d]
    BY <1>1, <1>5
  <2>2. /\ sock'[c].phase = sock[c].phase /\ sock'[c].inq = sock[c].inq
         /\ sock'[c].todo = sock[c].todo
    BY <1>1, <2>1 DEF Sockets
  <2> QED
    BY <2>1, <2>2 DEF SamePhases, SameLines
<1>6. ASSUME sock' = [sock EXCEPT ![c].sent = x] PROVE SamePhases /\ SameLines
  <2>1. sock'[c] = [sock[c] EXCEPT !.sent = x] /\ \A d \in Conns \ {c} : sock'[d] = sock[d]
    BY <1>1, <1>6
  <2>2. /\ sock'[c].phase = sock[c].phase /\ sock'[c].inq = sock[c].inq
         /\ sock'[c].todo = sock[c].todo
    BY <1>1, <2>1 DEF Sockets
  <2> QED
    BY <2>1, <2>2 DEF SamePhases, SameLines
<1>7. ASSUME sock' = [sock EXCEPT ![c].rcvd = x] PROVE SamePhases /\ SameLines
  <2>1. sock'[c] = [sock[c] EXCEPT !.rcvd = x] /\ \A d \in Conns \ {c} : sock'[d] = sock[d]
    BY <1>1, <1>7
  <2>2. /\ sock'[c].phase = sock[c].phase /\ sock'[c].inq = sock[c].inq
         /\ sock'[c].todo = sock[c].todo
    BY <1>1, <2>1 DEF Sockets
  <2> QED
    BY <2>1, <2>2 DEF SamePhases, SameLines
<1> QED
  BY <1>2, <1>3, <1>4, <1>5, <1>6, <1>7

\* A segment moves lines from what is to be sent to what has arrived.
LEMMA SegmentMoves ==
  ASSUME IInv, NEW c \in Conns, PeerSend(c)
  PROVE  /\ SamePhases /\ \A d \in Conns \ {c} : sock'[d] = sock[d]
         /\ \E a, b \in Seq(Lines) : /\ a \o b = sock[c].todo /\ sock'[c].todo = b
                                     /\ sock'[c].inq = sock[c].inq \o a
<1>1. sock \in [Conns -> Sockets] /\ sock[c] \in Sockets
  BY DEF IInv, TypeOK
<1>2. PICK n \in 1..Len(sock[c].todo) :
        sock' = [sock EXCEPT ![c].inq  = @ \o SubSeq(sock[c].todo, 1, n),
                             ![c].todo = SubSeq(@, n + 1, Len(@))]
  BY DEF PeerSend
<1> DEFINE q == sock[c].inq
           t == sock[c].todo
           a == SubSeq(t, 1, n)
           b == SubSeq(t, n + 1, Len(t))
<1>3. t \in Seq(Lines)
  BY <1>1, SocketUpdates
<1>4. sock'[c] = [sock[c] EXCEPT !.inq = q \o a, !.todo = b]
      /\ \A d \in Conns \ {c} : sock'[d] = sock[d]
  BY <1>1, <1>2 DEF Sockets
<1> HIDE DEF q, t
<1>5. a \in Seq(Lines) /\ b \in Seq(Lines)
  BY <1>3, SubSeqProperties, SMTT(40) DEF t
<1>6. a \o b = t
  <2>1. 1 \in 1..(Len(t) + 1) /\ n \in (1 - 1)..Len(t) /\ Len(t) \in n..Len(t)
    BY <1>3 DEF t
  <2>2. a \o b = SubSeq(t, 1, Len(t))
    BY <1>3, <2>1, ConcatAdjacentSubSeq
  <2>3. SubSeq(t, 1, Len(t)) = t
    BY <1>3, SubSeqFull
  <2> QED
    BY <2>2, <2>3, Zenon
<1> HIDE DEF a, b
<1>7. /\ sock'[c].phase = sock[c].phase /\ sock'[c].todo = b
      /\ sock'[c].inq = q \o a
  BY <1>1, <1>4 DEF Sockets
<1>8. SamePhases
  BY <1>4, <1>7 DEF SamePhases
<1> QED
  BY <1>4, <1>5, <1>6, <1>7, <1>8 DEF q, t

\* The server's end stays as it is in these.
LEMMA PhaseKept ==
  ASSUME IInv, NEW c \in Conns,
         \/ ReadHandler(c) \/ WriteHandler(c)
         \/ PeerSend(c) \/ PeerClose(c) \/ PeerReset(c) \/ PeerRecv(c)
         \/ CGIWrite(c) \/ CGIExit(c)
  PROVE  SamePhases
<1>1. sock' = sock => SamePhases
  BY DEF SamePhases
<1>2. CASE ReadHandler(c)
  BY <1>1, <1>2, SocketParts DEF ReadHandler, ReadData, ReadCrash, ReadEOF, ReadError
<1>3. CASE WriteHandler(c)
  BY <1>1, <1>3, SocketParts DEF WriteHandler, WriteSome, WriteError, BrokenPipe
<1>4. CASE PeerSend(c)
  BY <1>4, SegmentMoves
<1>5. CASE PeerClose(c) \/ PeerReset(c) \/ PeerRecv(c) \/ CGIWrite(c) \/ CGIExit(c)
  BY <1>1, <1>5, SocketParts DEF PeerClose, PeerReset, PeerRecv, CGIWrite, CGIExit
<1> QED
  BY <1>2, <1>3, <1>4, <1>5

\* readHandler: a connection that reads has no response a new request could
\* disagree with.
LEMMA ReadHandlerKeeps ==
  ASSUME HInv, IInv, NEW c \in Conns, ReadHandler(c)
  PROVE  HInv'
<1>1. /\ Handling(c) /\ state[c] = "Ready_ForRead"
      /\ UNCHANGED <<clients, backlog, res>>
      /\ \A d \in Conns \ {c} : req'[d] = req[d] /\ readBuffer'[d] = readBuffer[d]
      /\ \A d \in Conns : sock'[d].phase = sock[d].phase
      /\ pc' # "writeHandler"
  <2>1. /\ Handling(c) /\ state[c] = "Ready_ForRead"
        /\ UNCHANGED <<clients, backlog, res>>
    BY DEF ReadHandler
  <2>2. pc' # "writeHandler"
    BY DEF ReadHandler, ReadData, ReadCrash, ReadEOF, ReadError, NextClient
  <2>3. \A d \in Conns \ {c} : req'[d] = req[d] /\ readBuffer'[d] = readBuffer[d]
    BY DEF ReadHandler, ReadData, ReadCrash, ReadEOF, ReadError, IInv, TypeOK
  <2>4. \A d \in Conns : sock'[d].phase = sock[d].phase
    BY PhaseKept DEF SamePhases
  <2> QED
    BY <2>1, <2>2, <2>3, <2>4
<1>2. res[c] = NULL
  BY <1>1 DEF IInv, FreshResponse, Handling
<1>3. AnswersTheRequest'
  BY <1>1, <1>2, FrameResponses
<1>4. UnusedConns'
  <2>1. c \in InPool
    BY <1>1, HandledInPool
  <2>2. sock[c].phase # "none" /\ ~Waiting(c)
    BY <2>1, HandledIsUsed
  <2>3. \A d : Waiting(d)' = Waiting(d)
    BY <1>1 DEF Waiting
  <2> QED
    BY <1>1, <2>2, <2>3 DEF HInv, UnusedConns
<1> QED
  BY <1>1, <1>3, <1>4, FramePieces DEF HInv

\* processHandler goes on with the response of its request.
LEMMA ResponseAnswers ==
  ASSUME HInv, IInv, NEW c \in Conns, Processing(c), Parsed(req[c]), NEW o \in Outcomes
  PROVE  Response(c, o) \in Responses /\ Answering(Response(c, o), req[c])
<1>1. Response(c, o) \in Responses
  BY ResponseType DEF Processing
<1>2. CASE res[c] # NULL
  BY <1>1, <1>2 DEF Response, HInv, AnswersTheRequest, Answering, Rewound
<1>3. CASE res[c] = NULL
  <2>1. req[c] \in Requests /\ (req[c].state = "ParsedError" \/ req[c].uri \in URIs)
    BY DEF IInv, TypeOK, RequestsRest, Parsed
  <2>2. Response(c, o) = buildResponse(req[c], o)
    BY <1>3 DEF Response
  <2>3. Rewound(buildResponse(req[c], o)) = buildResponse(req[c], o)
    BY <2>1, BuiltRewound
  <2> QED
    BY <1>1, <2>2, <2>3 DEF Answering
<1> QED
  BY <1>2, <1>3

\* Only the response of c is set, to one that answers its request.
LEMMA FrameOthersResponses ==
  ASSUME HInv, IInv, NEW c \in Conns, NEW r, res' = [res EXCEPT ![c] = r], UNCHANGED req,
         Answering(r, req[c])
  PROVE  AnswersTheRequest'
<1>1. res'[c] = r /\ \A d \in Conns \ {c} : res'[d] = res[d]
  BY DEF IInv, TypeOK
<1>2. ASSUME NEW d \in Conns, res'[d] # NULL
      PROVE  Answering(res'[d], req'[d])
  BY <1>1, <1>2 DEF HInv, AnswersTheRequest, Answering, Rewound
<1> QED
  BY <1>2 DEF AnswersTheRequest, Answering, Rewound

\* Only one connection is written to.
LEMMA FrameWriting ==
  ASSUME NEW c \in Conns, clients[it] = c, UNCHANGED <<clients, it>>,
         state'[c] = "Writing_Response" /\ ~req'[c].isCGI => Len(writeBuffer'[c]) = BufSize
  PROVE  PiecesAreFull'
BY DEF PiecesAreFull, Writing

LEMMA StartCGIKeeps ==
  ASSUME HInv, IInv, NEW c \in Conns, NEW o \in Outcomes, StartCGI(c, o)
  PROVE  HInv'
<1>1. /\ Processing(c) /\ Parsed(req[c]) /\ req[c].isCGI
      /\ res' = [res EXCEPT ![c] = Response(c, o)]
      /\ UNCHANGED <<req, readBuffer, backlog, sock, clients, it>>
  BY DEF StartCGI, poolVars
<1>2. AnswersTheRequest'
  BY <1>1, ResponseAnswers, FrameOthersResponses
<1>3. PiecesAreFull'
  BY <1>1, FrameWriting DEF Processing
<1> QED
  BY <1>1, <1>2, <1>3, FrameUnused DEF HInv

\* DumpResponse: what does not fit has filled the buffer.
LEMMA DumpResponseKeeps ==
  ASSUME HInv, IInv, NEW c \in Conns, NEW o \in Outcomes, DumpResponse(c, o)
  PROVE  HInv'
<1> DEFINE space == BufSize - Len(writeBuffer[c])
           p == Response(c, o)
           r == writeResponse(p, space)
           d == Dumped(Len(answers'[c]), p, space)
<1>1. /\ Processing(c) /\ Parsed(req[c]) /\ ~req[c].isCGI /\ isOpen[c]
      /\ res' = [res EXCEPT ![c] = r]
      /\ writeBuffer' = [writeBuffer EXCEPT ![c] = @ \o d]
      /\ state' = [state EXCEPT ![c] = IF AllDumped(r) THEN "Done_Response"
                                       ELSE "Writing_Response"]
      /\ UNCHANGED <<req, readBuffer, backlog, sock, clients, it>>
      /\ answers' = Answered(c, o)
  BY DEF DumpResponse, poolVars, envVars
<1>2. /\ p \in Responses /\ PointersInRange(p) /\ Answering(p, req[c])
      /\ space \in Nat /\ clients[it] = c
  BY <1>1, ResponseAnswers, ResponseType, SpaceType DEF Processing
<1>3. AnswersTheRequest'
  <2>1. Answering(r, req[c])
    <3> HIDE DEF p, space
    <3> QED
      BY <1>2, WrittenRewound DEF Answering
  <2> HIDE DEF r
  <2> QED
    BY <1>1, <2>1, FrameOthersResponses
<1>4. state'[c] = "Writing_Response" => ~AllDumped(r)
  <2> HIDE DEF r
  <2> QED
    BY <1>1 DEF IInv, TypeOK
<1>5. Len(d) = hdPart_size(p, space) + fdPart_size(p, space)
  <2>1. hdPart_size(p, space) \in Nat /\ fdPart_size(p, space) \in Nat
    BY <1>2, WriteResponseFits
  <2> QED
    BY <2>1 DEF Dumped
<1>6. d \in Seq(Units) /\ writeBuffer[c] \in Seq(Units)
  <2>1. Len(answers'[c]) \in Nat
    <3>1. answers' \in [Conns -> Seq(Nat)]
      BY <1>1, AnsweredStep DEF Processing
    <3> QED
      BY <3>1
  <2> QED
    BY <1>2, <2>1, DumpedType DEF IInv, TypeOK
<1>7. writeBuffer'[c] = writeBuffer[c] \o d
  <2> HIDE DEF d
  <2> QED
    BY <1>1 DEF IInv, TypeOK
<1>8. ASSUME state'[c] = "Writing_Response"
      PROVE  Len(writeBuffer'[c]) = BufSize
  <2>1. Len(d) = space
    <3> HIDE DEF d, p, space
    <3> QED
      BY <1>2, <1>4, <1>5, <1>8, FullOrAll
  <2>2. Len(writeBuffer'[c]) = Len(writeBuffer[c]) + Len(d)
    <3> HIDE DEF d
    <3> QED
      BY <1>6, <1>7, ConcatProperties
  <2>3. Len(writeBuffer[c]) \in Nat /\ BufSize \in Nat
    BY <1>6, SelectAssumption
  <2> HIDE DEF d
  <2> QED
    BY <2>1, <2>2, <2>3
<1>9. PiecesAreFull'
  BY <1>1, <1>2, <1>8, FrameWriting
<1>10. UnusedConns'
  BY <1>1, FrameUnused
<1> QED
  BY <1>3, <1>9, <1>10 DEF HInv

\* DumpCrash: a response that could not be sent was built for its request too.
LEMMA DumpCrashKeeps ==
  ASSUME HInv, IInv, NEW c \in Conns, NEW o \in Outcomes, DumpCrash(c, o)
  PROVE  HInv'
<1>1. /\ Processing(c) /\ Parsed(req[c]) /\ pc' = "killed"
      /\ res' = res \/ res' = [res EXCEPT ![c] = Response(c, o)]
      /\ UNCHANGED <<req, readBuffer, backlog, sock>>
  BY DEF DumpCrash, envVars
<1>2. AnswersTheRequest'
  <2>1. CASE res' = res
    BY <1>1, <2>1, FrameResponses
  <2>2. CASE res' = [res EXCEPT ![c] = Response(c, o)]
    BY <1>1, <2>2, ResponseAnswers, FrameOthersResponses
  <2> QED
    BY <1>1, <2>1, <2>2
<1> QED
  BY <1>1, <1>2, FrameUnused, FramePieces DEF HInv

\* writeHandler: the buffer is kept until all of it has been taken.
LEMMA WriteHandlerKeeps ==
  ASSUME HInv, IInv, NEW c \in Conns, WriteHandler(c)
  PROVE  HInv'
<1>1. /\ clients[it] = c /\ UNCHANGED <<clients, req, readBuffer, backlog>>
      /\ pc = "writeHandler"
  BY DEF WriteHandler, Writing
<1>2. \A d \in Conns : sock'[d].phase = sock[d].phase
  BY PhaseKept DEF SamePhases
<1>3. \A d \in Conns : res'[d] = res[d] \/ res'[d] = NULL
  BY DEF WriteHandler, WriteSome, WriteError, BrokenPipe, EndResponse, IInv, TypeOK
<1>4. \/ pc' # "writeHandler"
      \/ UNCHANGED <<pc, it, state, writeBuffer>>
  BY DEF WriteHandler, WriteSome, WriteError, BrokenPipe, NextClient
<1>5. PiecesAreFull'
  BY <1>1, <1>4, FramePieces DEF HInv, PiecesAreFull, Writing
<1> QED
  BY <1>1, <1>2, <1>3, <1>5, FrameUnused, FrameResponses DEF HInv

\* CheckServer: the new client has new members, and no response.
LEMMA CheckServerKeeps ==
  ASSUME HInv, IInv, CheckServer
  PROVE  HInv'
<1>1. pc' = "Select" /\ sock' = sock /\ pc = "check_server"
  BY DEF CheckServer
<1>2. CASE Listen \notin read_set
  <2>1. UNCHANGED <<req, res, readBuffer, backlog>>
    BY <1>2 DEF CheckServer, connVars
  <2> QED
    BY <1>1, <2>1, QuietHandlers
<1>3. CASE Listen \in read_set
  <2> DEFINE c == Head(backlog)
  <2>1. backlog # <<>> /\ backlog \in Seq(Conns)
    BY <1>1, <1>3 DEF IInv, TypeOK, BacklogReady
  <2>2. c \in Conns /\ \A d : Waiting(d)' => Waiting(d)
    <3>1. c \in Conns /\ Len(backlog) \in Nat \ {0} /\ DOMAIN backlog = 1..Len(backlog)
      BY <2>1
    <3>2. Tail(backlog) \in Seq(Conns) /\ Len(Tail(backlog)) = Len(backlog) - 1
          /\ \A i \in 1..(Len(backlog) - 1) : Tail(backlog)[i] = backlog[i + 1]
      BY <2>1, HeadTailProperties
    <3>3. backlog' = Tail(backlog)
      BY <1>3 DEF CheckServer
    <3>4. \A i \in DOMAIN backlog' : i + 1 \in DOMAIN backlog /\ backlog'[i] = backlog[i + 1]
      BY <3>1, <3>2, <3>3
    <3> QED
      BY <3>1, <3>4 DEF Waiting
  <2>3. /\ readBuffer' = [readBuffer EXCEPT ![c] = <<>>]
        /\ req' = [req EXCEPT ![c] = NewRequest]
        /\ res' = [res EXCEPT ![c] = NULL]
    BY <1>3 DEF CheckServer
  <2> HIDE DEF c
  <2>4. /\ readBuffer'[c] = <<>> /\ req'[c] = NewRequest /\ res'[c] = NULL
        /\ \A d \in Conns \ {c} : /\ readBuffer'[d] = readBuffer[d] /\ req'[d] = req[d]
                                  /\ res'[d] = res[d]
    BY <2>2, <2>3 DEF IInv, TypeOK
  <2>5. UnusedConns'
    BY <1>1, <2>2, <2>4 DEF HInv, UnusedConns
  <2>6. AnswersTheRequest'
    BY <2>4, FrameResponses
  <2> QED
    BY <1>1, <2>5, <2>6, FramePieces DEF HInv
<1> QED
  BY <1>2, <1>3

\* Peers and programs: a connection that is opened waits, as new as before.
LEMMA OutsideKeeps ==
  ASSUME HInv, IInv, NEW c \in Conns, Peer(c) \/ CGIWrite(c) \/ CGIExit(c)
  PROVE  HInv'
<1>1. UNCHANGED serverVars
  BY DEF Peer, PeerConnect, PeerSend, PeerClose, PeerReset, PeerRecv, CGIWrite, CGIExit
<1>2. PiecesAreFull'
  BY <1>1 DEF HInv, PiecesAreFull, Writing, serverVars, poolVars, connVars
<1>3. AnswersTheRequest'
  BY <1>1, FrameResponses DEF serverVars, connVars
<1>4. UNCHANGED <<req, readBuffer>>
  BY <1>1 DEF serverVars, connVars
<1>5. CASE PeerConnect(c)
  <2>1. sock[c].phase = "none" /\ backlog' = Append(backlog, c)
        /\ \A d \in Conns \ {c} : sock'[d] = sock[d]
    BY <1>5 DEF PeerConnect, IInv, TypeOK
  <2>2. \A d : Waiting(d)' => Waiting(d) \/ d = c
    <3>1. backlog \in Seq(Conns)
      BY DEF IInv, TypeOK
    <3>2. \A i \in DOMAIN backlog' :
            backlog'[i] = c \/ (i \in DOMAIN backlog /\ backlog'[i] = backlog[i])
      BY <2>1, <3>1
    <3> QED
      BY <3>2 DEF Waiting
  <2>3. UnusedConns'
    BY <1>4, <2>1, <2>2 DEF HInv, UnusedConns
  <2> QED
    BY <1>2, <1>3, <2>3 DEF HInv
<1>6. CASE ~PeerConnect(c)
  <2>1. backlog' = backlog
    BY <1>6 DEF Peer, PeerSend, PeerClose, PeerReset, PeerRecv, CGIWrite, CGIExit
  <2>2. \A d \in Conns : sock'[d].phase = sock[d].phase
    BY <1>6, PhaseKept DEF Peer, SamePhases
  <2> QED
    BY <1>2, <1>3, <1>4, <2>1, <2>2, FrameUnused DEF HInv
<1> QED
  BY <1>5, <1>6

\* Every step preserves HInv.
LEMMA StepKeeps ==
  ASSUME HInv, IInv, [Next]_vars
  PROVE  HInv'
<1>1. CASE Select \/ SelectAborts \/ EndOfPass
  <2>1. UNCHANGED <<req, res, readBuffer, backlog, sock>> /\ pc' # "writeHandler"
    BY <1>1 DEF Select, SelectAborts, EndOfPass, connVars, envVars
  <2> QED
    BY <2>1, QuietHandlers
<1>2. CASE CheckServer
  BY <1>2, CheckServerKeeps
<1>3. ASSUME NEW c \in Conns, Skip(c) \/ WriteMore(c) PROVE HInv'
  <2>1. UNCHANGED <<req, res, readBuffer, backlog, sock>> /\ pc' # "writeHandler"
    BY <1>3 DEF Skip, WriteMore, NextClient, connVars, envVars
  <2> QED
    BY <2>1, QuietHandlers
<1>4. ASSUME NEW c \in Conns, PipeHandler(c) PROVE HInv'
  <2>1. /\ UNCHANGED <<req, res, readBuffer, backlog, sock, clients, it>> /\ req[c].isCGI
        /\ clients[it] = c
    BY <1>4 DEF PipeHandler, Handling, poolVars
  <2>2. PiecesAreFull'
    BY <2>1, FrameWriting
  <2> QED
    BY <2>1, <2>2, FrameUnused, FrameResponses DEF HInv
<1>5. ASSUME NEW c \in Conns, ReadHandler(c) PROVE HInv'
  BY <1>5, ReadHandlerKeeps
<1>6. ASSUME NEW c \in Conns, ProcessHandler(c) PROVE HInv'
  <2>1. CASE CloseClient(c)
    <3>1. UNCHANGED <<req, res, readBuffer, backlog>> /\ pc' # "writeHandler"
      BY <2>1 DEF CloseClient
    <3>2. \A d \in Conns : sock'[d].phase = "none" => sock[d].phase = "none"
      BY <2>1 DEF CloseClient, IInv, TypeOK, Sockets
    <3> QED
      BY <3>1, <3>2, FrameUnused, FrameResponses, FramePieces DEF HInv
  <2>2. CASE ProcessClosed(c)
    <3>1. /\ UNCHANGED <<req, res, readBuffer, backlog, sock, clients, it>>
          /\ clients[it] = c /\ state'[c] = "Closed"
      BY <2>2 DEF ProcessClosed, Processing, poolVars, envVars, IInv, TypeOK
    <3>2. PiecesAreFull'
      BY <3>1, FrameWriting
    <3> QED
      BY <3>1, <3>2, FrameUnused, FrameResponses DEF HInv
  <2> QED
    BY <1>6, <2>1, <2>2, StartCGIKeeps, DumpResponseKeeps, DumpCrashKeeps DEF ProcessHandler
<1>7. ASSUME NEW c \in Conns, WriteHandler(c) PROVE HInv'
  BY <1>7, WriteHandlerKeeps
<1>8. ASSUME NEW c \in Conns, Peer(c) \/ CGIWrite(c) \/ CGIExit(c) PROVE HInv'
  BY <1>8, OutsideKeeps
<1>9. CASE UNCHANGED vars
  <2>1. UNCHANGED <<req, res, readBuffer, backlog, sock, pc, clients, it, state, writeBuffer>>
    BY <1>9 DEF vars, poolVars, connVars, envVars
  <2>2. PiecesAreFull'
    BY <2>1 DEF HInv, PiecesAreFull, Writing
  <2> QED
    BY <2>1, <2>2, FrameUnused, FrameResponses DEF HInv
<1> QED
  BY <1>1, <1>2, <1>3, <1>4, <1>5, <1>6, <1>7, <1>8, <1>9 DEF Next, Server

-----------------------------------------------------------------------------
(* What each step takes of what comes in                                   *)

\* Whatever does not parse leaves it there.
LEMMA NothingTaken ==
  ASSUME NEW c \in Conns, readBuffer'[c] = readBuffer[c], req'[c] = req[c],
         sock'[c].inq = sock[c].inq, sock'[c].todo = sock[c].todo
  PROVE  AsSent(c)
BY DEF AsSent, Incoming

LEMMA ServerTakesNothing ==
  ASSUME UNCHANGED <<readBuffer, req>>, SameLines
  PROVE  \A c \in Conns : AsSent(c)
BY NothingTaken DEF SameLines

\* A segment arrives: it goes on to be the first thing to come.
LEMMA SegmentAsSent ==
  ASSUME IInv, NEW c \in Conns, PeerSend(c)
  PROVE  \A d \in Conns : AsSent(d)
<1>1. UNCHANGED <<readBuffer, req>>
  BY DEF PeerSend, serverVars, connVars
<1>2. ASSUME NEW d \in Conns \ {c} PROVE AsSent(d)
  BY <1>1, SegmentMoves, NothingTaken
<1>3. AsSent(c)
  <2> DEFINE u == readBuffer[c]
             q == sock[c].inq
  <2>1. PICK a, b \in Seq(Lines) : /\ a \o b = sock[c].todo /\ sock'[c].todo = b
                                   /\ sock'[c].inq = q \o a
    BY SegmentMoves
  <2>2. u \in Seq(Lines) /\ q \in Seq(Lines)
    BY SocketUpdates DEF IInv, TypeOK
  <2>3. Incoming(c)' = (u \o (q \o a)) \o b /\ Incoming(c) = (u \o q) \o (a \o b)
    BY <1>1, <2>1 DEF Incoming
  <2> HIDE DEF u, q
  <2>4. u \o q \in Seq(Lines)
    BY <2>2, ConcatProperties
  <2>5. u \o (q \o a) = (u \o q) \o a
    BY <2>1, <2>2, LinesJoin, ZenonT(60)
  <2>6. ((u \o q) \o a) \o b = (u \o q) \o (a \o b)
    BY <2>1, <2>4, LinesJoin
  <2>7. Incoming(c)' = Incoming(c)
    BY <2>3, <2>5, <2>6, Zenon
  <2> QED
    BY <1>1, <2>7 DEF AsSent
<1> QED
  BY <1>2, <1>3

\* readHandler: the other connections wait.
LEMMA ReadHandlerAsSent ==
  ASSUME IInv, NEW c \in Conns, ReadHandler(c)
  PROVE  \A d \in Conns : AsSent(d)
<1>1. CASE ReadData(c)
  <2>1. AsSent(c)
    BY <1>1, ReadDataAsSent
  <2>2. ASSUME NEW d \in Conns \ {c} PROVE AsSent(d)
    <3>1. sock'[d] = sock[d] /\ readBuffer'[d] = readBuffer[d] /\ req'[d] = req[d]
      BY <1>1 DEF ReadData, IInv, TypeOK
    <3> QED
      BY <3>1, NothingTaken
  <2> QED
    BY <2>1, <2>2
<1>2. CASE ReadCrash(c) \/ ReadEOF(c)
  BY <1>2, ServerTakesNothing DEF ReadCrash, ReadEOF, SameLines
<1>3. CASE ReadError(c)
  BY <1>3, ServerTakesNothing, SocketParts DEF ReadError
<1> QED
  BY <1>1, <1>2, <1>3 DEF ReadHandler

\* check_server: of a connection that is accepted nothing has been read.
LEMMA CheckServerAsSent ==
  ASSUME HInv, IInv, CheckServer
  PROVE  \A d \in Conns : AsSent(d)
<1>1. sock' = sock /\ pc = "check_server"
  BY DEF CheckServer
<1>2. CASE Listen \notin read_set
  BY <1>1, <1>2, ServerTakesNothing DEF CheckServer, connVars, SameLines
<1>3. CASE Listen \in read_set
  <2> DEFINE c == Head(backlog)
  <2>1. backlog # <<>> /\ backlog \in Seq(Conns)
    BY <1>1, <1>3 DEF IInv, TypeOK, BacklogReady
  <2>2. c \in Conns /\ Waiting(c)
    BY <2>1 DEF Waiting
  <2>3. readBuffer' = [readBuffer EXCEPT ![c] = <<>>] /\ req' = [req EXCEPT ![c] = NewRequest]
    BY <1>3 DEF CheckServer
  <2> HIDE DEF c
  <2>4. readBuffer[c] = <<>> /\ req[c] = NewRequest
    BY <2>2 DEF HInv, UnusedConns
  <2>5. \A d \in Conns : readBuffer'[d] = readBuffer[d] /\ req'[d] = req[d]
    BY <2>2, <2>3, <2>4 DEF IInv, TypeOK
  <2> QED
    BY <1>1, <2>5, NothingTaken
<1> QED
  BY <1>2, <1>3

LEMMA StepAsSent ==
  ASSUME HInv, IInv, [Next]_vars
  PROVE  \A c \in Conns : AsSent(c)
<1>1. sock' = sock => SameLines
  BY DEF SameLines
<1>2. CASE Select \/ SelectAborts \/ EndOfPass
  BY <1>1, <1>2, ServerTakesNothing DEF Select, SelectAborts, EndOfPass, connVars, envVars
<1>3. CASE CheckServer
  BY <1>3, CheckServerAsSent
<1>4. ASSUME NEW c \in Conns, Skip(c) \/ WriteMore(c) \/ PipeHandler(c)
      PROVE  \A d \in Conns : AsSent(d)
  BY <1>1, <1>4, ServerTakesNothing DEF Skip, WriteMore, PipeHandler, connVars, envVars
<1>5. ASSUME NEW c \in Conns, ReadHandler(c) PROVE \A d \in Conns : AsSent(d)
  BY <1>5, ReadHandlerAsSent
<1>6. ASSUME NEW c \in Conns, ProcessHandler(c) PROVE \A d \in Conns : AsSent(d)
  <2>1. UNCHANGED <<readBuffer, req>>
    BY <1>6 DEF ProcessHandler, CloseClient, ProcessClosed, StartCGI, DumpResponse, DumpCrash,
                connVars
  <2>2. SameLines
    BY <1>1, <1>6, SocketParts DEF ProcessHandler, CloseClient, ProcessClosed, StartCGI,
                                   DumpResponse, DumpCrash, envVars
  <2> QED
    BY <2>1, <2>2, ServerTakesNothing
<1>7. ASSUME NEW c \in Conns, WriteHandler(c) PROVE \A d \in Conns : AsSent(d)
  <2>1. UNCHANGED <<readBuffer, req>>
    BY <1>7 DEF WriteHandler
  <2>2. SameLines
    BY <1>1, <1>7, SocketParts DEF WriteHandler, WriteSome, WriteError, BrokenPipe
  <2> QED
    BY <2>1, <2>2, ServerTakesNothing
<1>8. ASSUME NEW c \in Conns, PeerSend(c) PROVE \A d \in Conns : AsSent(d)
  BY <1>8, SegmentAsSent
<1>9. ASSUME NEW c \in Conns,
             \/ PeerConnect(c) \/ PeerClose(c) \/ PeerReset(c) \/ PeerRecv(c)
             \/ CGIWrite(c) \/ CGIExit(c)
      PROVE  \A d \in Conns : AsSent(d)
  <2>1. UNCHANGED <<readBuffer, req>>
    BY <1>9 DEF PeerConnect, PeerClose, PeerReset, PeerRecv, CGIWrite, CGIExit,
                serverVars, connVars
  <2>2. SameLines
    BY <1>1, <1>9, SocketParts DEF PeerConnect, PeerClose, PeerReset, PeerRecv,
                                   CGIWrite, CGIExit
  <2> QED
    BY <2>1, <2>2, ServerTakesNothing
<1>10. CASE UNCHANGED vars
  BY <1>1, <1>10, ServerTakesNothing DEF vars, connVars, envVars
<1> QED
  BY <1>2, <1>3, <1>4, <1>5, <1>6, <1>7, <1>8, <1>9, <1>10 DEF Next, Server, Peer

-----------------------------------------------------------------------------
(* The theorems                                                            *)

LEMMA HandlersInductive == Spec => []HInv
<1>1. Init => HInv
  <2>1. Init => UnusedConns
    BY DEF Init, UnusedConns
  <2>2. Init => AnswersTheRequest /\ PiecesAreFull
    BY DEF Init, AnswersTheRequest, PiecesAreFull, Writing
  <2> QED
    BY <2>1, <2>2 DEF HInv
<1>2. HInv /\ IInv /\ [Next]_vars => HInv'
  BY StepKeeps
<1> QED
  BY <1>1, <1>2, Invariance, PTL DEF Spec

\* The response that is sent, through all the passes it takes, is one that
\* buildResponse makes of the request of the connection.
THEOREM RequestAnswered == Spec => []AnswersTheRequest
<1>1. HInv => AnswersTheRequest
  BY DEF HInv
<1> QED
  BY <1>1, HandlersInductive, PTL

\* processHandler leaves no room in the write buffer while there is more to
\* send: a response takes as few passes as the buffer allows.
THEOREM FullPieces == Spec => []PiecesAreFull
<1>1. HInv => PiecesAreFull
  BY DEF HInv
<1> QED
  BY <1>1, HandlersInductive, PTL

\* The segments a peer's requests arrive in, and what arrives behind them, make
\* no difference to what httpParse makes of each of them.
THEOREM SegmentsDoNotMatter == Spec => ReadAsSent
<1>1. HInv /\ IInv /\ [Next]_vars => \A c \in Conns : AsSent(c)
  BY StepAsSent
<1>2. Spec => [][\A c \in Conns : AsSent(c)]_vars
  BY <1>1, HandlersInductive, Invariance, PTL DEF Spec
<1> QED
  BY <1>2 DEF ReadAsSent, AsSent

\* One connection's part of ReadAsNew: what is taken of all that comes is what the
\* code would make of it on its own.
AsNew(c) ==
  LET all == Incoming(c)
      new == httpParse(NewRequest, all, FALSE).req
  IN \A e \in requestEnd(all) :
       /\ Incoming(c)' # all /\ e <= BufSize
       /\ req[c].parseStatus = "requestLine" /\ new.state # "ParsedError"
       => /\ Incoming(c)' = SubSeq(all, e + 1, Len(all))
          /\ \A m \in {"state", "parseStatus", "method", "uri", "isCGI"} :
               req'[c][m] = new[m]

LEMMA AsSentIsAsNew ==
  ASSUME IInv, NEW c \in Conns, AsSent(c)
  PROVE  AsNew(c)
<1> DEFINE all == Incoming(c)
           new == httpParse(NewRequest, all, FALSE).req
           next == Incoming(c)'
<1>1. all \in Seq(Lines)
  <2>1. /\ readBuffer[c] \in Seq(Lines) /\ sock[c].inq \in Seq(Lines)
        /\ sock[c].todo \in Seq(Lines)
    BY SocketUpdates DEF IInv, TypeOK
  <2> QED
    BY <2>1, ConcatProperties DEF Incoming
<1> HIDE DEF all, next
<1>2. SUFFICES ASSUME NEW e \in requestEnd(all), next # all, e <= BufSize,
                      req[c].parseStatus = "requestLine", new.state # "ParsedError"
               PROVE  /\ next = SubSeq(all, e + 1, Len(all))
                      /\ \A m \in SharedMembers : req'[c][m] = new[m]
  BY DEF AsNew, SharedMembers, all, next
<1>3. e \in Nat /\ BufSize \in Nat
  BY <1>1, SelectAssumption DEF requestEnd
<1>4. PICK f \in requestEnd(all) :
        next = SubSeq(all, f + 1, Len(all)) /\ req'[c] = httpParse(req[c], all, FALSE).req
  <2>1. ~(\A f \in requestEnd(all) : f > BufSize)
    BY <1>2, <1>3
  <2> QED
    BY <1>2, <2>1 DEF AsSent, all, next
<1>5. f = e
  BY <1>1, OneEnd
<1>6. \A m \in SharedMembers : httpParse(req[c], all, FALSE).req[m] = new[m]
  <2>1. req[c] \in Requests
    BY DEF IInv, TypeOK
  <2> QED
    BY <1>1, <1>2, <2>1, RequestReused
<1> QED
  BY <1>4, <1>5, <1>6

\* Behind whatever other requests of its connection, a good request is the one it
\* would be on a connection of its own.
THEOREM RequestsReadAsNew == Spec => ReadAsNew
<1>1. HInv /\ IInv /\ [Next]_vars => \A c \in Conns : AsNew(c)
  BY StepAsSent, AsSentIsAsNew
<1>2. Spec => [][\A c \in Conns : AsNew(c)]_vars
  BY <1>1, HandlersInductive, Invariance, PTL DEF Spec
<1> QED
  BY <1>2 DEF ReadAsNew, AsNew

=============================================================================
