------------------------- MODULE SelectEngineProofs -------------------------
(***************************************************************************)
(* Theorems about SelectEngine: the inductive invariant IInv, that every   *)
(* action preserves it, and the safety properties that follow.             *)
(***************************************************************************)
EXTENDS SelectEngine, HTTPProofs

-----------------------------------------------------------------------------
(* The inductive invariant                                                 *)

\* processHandler is only reached with something for it to do.
HandlerHasWork ==
  pc = "processHandler" =>
    \/ state[clients[it]] = "Request_Parsed"
    \/ state[clients[it]] = "Writing_Response" /\ ~req[clients[it]].isCGI

\* Every request object rests between calls of httpParse, and has a uri when it
\* is to be served from one.
RequestsRest ==
  \A c \in Conns : /\ Resting(req[c])
                   /\ req[c].state = "ParsedCorrect" => req[c].uri \in URIs

\* No response is dumped past its end.
ResponsesInRange == \A c \in Conns : res[c] # NULL => PointersInRange(res[c])

\* The listening socket stays readable from select to check_server.
BacklogReady == pc \notin {"Select", "killed"} /\ Listen \in read_set => backlog # <<>>

\* A connection is accepted once, and has no history before.
Waiting(c) == \E i \in DOMAIN backlog : backlog[i] = c
AcceptedOnce ==
  /\ \A i, j \in DOMAIN backlog : backlog[i] = backlog[j] => i = j
  /\ \A c \in Conns : sock[c].phase = "none" => ~Waiting(c)
  /\ \A c \in Conns : sock[c].phase = "none" \/ Waiting(c) =>
       c \notin InPool /\ asked[c] = 0 /\ answers[c] = <<>>

\* A program writes to an answer of its connection.
Working(c) == cgi[c].alive \/ cgi[c].got < cgi[c].wrote
ProgramAnswers == \A c \in Conns : Working(c) => answers[c] # <<>>

IInv ==
  /\ TypeOK /\ IteratorInRange /\ HandlerHasWork
  /\ RequestsRest /\ ResponsesInRange /\ FreshResponse /\ WriterHasResponse /\ ProgramAnswers
  /\ BuffersFit /\ ClosedByPeer
  /\ BacklogReady /\ AcceptedOnce /\ OneAnswerEach

-----------------------------------------------------------------------------
(* Data                                                                    *)

\* An update of one field of a socket that keeps the field's type.
LEMMA SocketUpdates ==
  ASSUME NEW s \in Sockets
  PROVE  /\ s.phase \in Phases /\ s.todo \in Seq(Lines) /\ s.inq \in Seq(Lines)
         /\ s.fin \in BOOLEAN /\ s.rst \in Resets /\ s.sent \in Seq(Units) /\ s.rcvd \in Nat
         /\ \A p \in Phases : [s EXCEPT !.phase = p] \in Sockets
         /\ \A q \in Seq(Lines) : [s EXCEPT !.inq = q] \in Sockets
         /\ \A q, r \in Seq(Lines) : [s EXCEPT !.inq = q, !.todo = r] \in Sockets
         /\ [s EXCEPT !.fin = TRUE] \in Sockets
         /\ \A r \in Resets : [s EXCEPT !.rst = r] \in Sockets
         /\ \A u \in Seq(Units) : [s EXCEPT !.sent = u] \in Sockets
         /\ \A n \in Nat : [s EXCEPT !.rcvd = n] \in Sockets
BY DEF Sockets

\* clients.erase removes one element.
LEMMA EraseType ==
  ASSUME NEW s \in Seq(Conns), NEW i \in 1..Len(s)
  PROVE  /\ erase(s, i) \in Seq(Conns) /\ Len(erase(s, i)) = Len(s) - 1
         /\ \A j \in DOMAIN erase(s, i) : \E k \in DOMAIN s : erase(s, i)[j] = s[k]
<1> DEFINE a == SubSeq(s, 1, i - 1)
           b == SubSeq(s, i + 1, Len(s))
<1>1. a \in Seq(Conns) /\ Len(a) = i - 1 /\ \A j \in 1..Len(a) : a[j] = s[j]
  BY SubSeqProperties
<1>2. b \in Seq(Conns) /\ Len(b) = Len(s) - i /\ \A j \in 1..Len(b) : b[j] = s[i + j]
  BY SubSeqProperties
<1> HIDE DEF a, b
<1>3. erase(s, i) = a \o b
  BY DEF erase, a, b
<1>4. a \o b \in Seq(Conns) /\ Len(a \o b) = Len(a) + Len(b)
  <2>1. a \in Seq(Conns) /\ b \in Seq(Conns)
    BY <1>1, <1>2
  <2> QED
    BY <2>1, ConcatProperties, Zenon
<1>5. Len(a \o b) = Len(s) - 1
  BY <1>1, <1>2, <1>4
<1>6. ASSUME NEW j \in DOMAIN (a \o b)
      PROVE  \E k \in DOMAIN s : (a \o b)[j] = s[k]
  <2>1. j \in 1..(Len(a) + Len(b))
    BY <1>4
  <2>2. CASE j <= Len(a)
    <3>1. (a \o b)[j] = a[j]
      BY <1>1, <1>2, <2>1, <2>2
    <3>2. j \in DOMAIN s /\ (a \o b)[j] = s[j]
      BY <1>1, <2>1, <2>2, <3>1
    <3> QED
      BY <3>2
  <2>3. CASE j > Len(a)
    <3> DEFINE k == j - Len(a)
    <3>1. k \in 1..Len(b) /\ (a \o b)[j] = b[k]
      BY <1>1, <1>2, <2>1, <2>3
    <3> HIDE DEF k
    <3>2. k \in 1..(Len(s) - i) /\ b[k] = s[i + k]
      BY <1>2, <3>1
    <3>3. i + k \in DOMAIN s
      BY <3>2
    <3> QED
      BY <3>1, <3>2, <3>3
  <2> QED
    BY <1>1, <2>1, <2>2, <2>3
<1> QED
  BY <1>3, <1>4, <1>5, <1>6

\* Dumped makes units, as many as writeResponse copies.
LEMMA DumpedType ==
  ASSUME NEW n \in Nat, NEW r \in Responses, PointersInRange(r), NEW space \in Nat
  PROVE  /\ Dumped(n, r, space) \in Seq(Units) /\ Len(Dumped(n, r, space)) <= space
<1> DEFINE hd == hdPart_size(r, space)
           fd == fdPart_size(r, space)
           u(i) == <<n, IF i <= hd THEN r.headerPtr + i
                        ELSE r.maxHeaderPtr + r.filePtr + (i - hd)>>
<1>1. hd \in Nat /\ fd \in Nat /\ hd + fd <= space
  BY WriteResponseFits
<1>2. r.headerPtr \in Nat /\ r.maxHeaderPtr \in Nat /\ r.filePtr \in Nat
  BY DEF Responses
<1>3. Dumped(n, r, space) = [i \in 1..(hd + fd) |-> u(i)]
  BY DEF Dumped
<1> HIDE DEF hd, fd
<1>4. \A i \in 1..(hd + fd) : u(i) \in Units
  BY <1>1, <1>2 DEF Units
<1> HIDE DEF u
<1>5. [i \in 1..(hd + fd) |-> u(i)] \in Seq(Units) /\ Len([i \in 1..(hd + fd) |-> u(i)]) = hd + fd
  BY <1>1, <1>4
<1> QED
  BY <1>1, <1>3, <1>5

-----------------------------------------------------------------------------
(* The initial states                                                      *)

\* The server starts with no client, no response and nothing asked.
LEMMA InitInv == Init => IInv
<1> SUFFICES ASSUME Init PROVE IInv
  OBVIOUS
<1>1. TypeOK
  <2>1. sock \in [Conns -> Sockets]
    <3> DEFINE All == UNION {Scripts[c] : c \in Conns}
    <3>1. PICK script \in [Conns -> All] :
            /\ \A c \in Conns : script[c] \in Scripts[c]
            /\ sock = [c \in Conns |-> NewSocket(script[c])]
      BY DEF Init
    <3>2. \A c \in Conns : script[c] \in Seq(Lines)
      BY <3>1, SelectAssumption
    <3>3. \A t \in Seq(Lines) : NewSocket(t) \in Sockets
      BY DEF NewSocket, Sockets, Phases, Resets
    <3> QED
      BY <3>1, <3>2, <3>3
  <2>2. req \in [Conns -> Requests]
    BY NewType DEF Init
  <2>3. cgi \in [Conns -> Programs]
    BY DEF Init, Programs
  <2>4. /\ pc \in Points /\ clients \in Seq(Conns) /\ it \in Nat /\ copied \in Nat
        /\ read_set \subseteq Descriptors /\ write_set \subseteq Descriptors
        /\ state \in [Conns -> ConnStates] /\ isOpen \in [Conns -> BOOLEAN]
        /\ res \in [Conns -> Responses \cup {NULL}] /\ backlog \in Seq(Conns)
        /\ asked \in [Conns -> Nat]
    BY DEF Init, Points, ConnStates, Descriptors
  <2>5. /\ readBuffer \in [Conns -> Seq(Lines)] /\ writeBuffer \in [Conns -> Seq(Units)]
        /\ answers \in [Conns -> Seq(Nat)]
    BY DEF Init
  <2> QED
    BY <2>1, <2>2, <2>3, <2>4, <2>5 DEF TypeOK
<1>2. IteratorInRange /\ HandlerHasWork /\ BacklogReady
  BY DEF Init, IteratorInRange, HandlerHasWork, BacklogReady
<1>3. RequestsRest
  BY DEF Init, RequestsRest, Resting, NewRequest
<1>4. ResponsesInRange /\ FreshResponse /\ WriterHasResponse /\ ClosedByPeer /\ ProgramAnswers
  BY DEF Init, ResponsesInRange, FreshResponse, WriterHasResponse, ClosedByPeer,
         ProgramAnswers, Working
<1>5. BuffersFit
  BY SelectAssumption DEF Init, BuffersFit
<1>6. AcceptedOnce /\ OneAnswerEach
  BY DEF Init, AcceptedOnce, Waiting, InPool, OneAnswerEach
<1> QED
  BY <1>1, <1>2, <1>3, <1>4, <1>5, <1>6 DEF IInv

-----------------------------------------------------------------------------
(* What a step that changes nothing of it preserves                        *)

\* The members of the connections and their programs are left alone, and what
\* is said of them alone stays true.
LEMMA FrameConn ==
  ASSUME IInv, UNCHANGED <<connVars, cgi, answers>>, pc = "killed" => pc' = "killed"
  PROVE  /\ RequestsRest' /\ ResponsesInRange' /\ FreshResponse' /\ WriterHasResponse'
         /\ ProgramAnswers' /\ BuffersFit'
<1>1. RequestsRest' /\ ResponsesInRange' /\ FreshResponse' /\ BuffersFit'
  BY DEF IInv, RequestsRest, ResponsesInRange, FreshResponse, BuffersFit, connVars
<1>2. WriterHasResponse'
  BY DEF IInv, WriterHasResponse, piped, connVars
<1>3. ProgramAnswers'
  BY DEF IInv, ProgramAnswers, Working
<1> QED
  BY <1>1, <1>2, <1>3

\* The programs and their answers are left alone.
LEMMA FramePrograms ==
  ASSUME IInv, UNCHANGED <<cgi, answers>>
  PROVE  ProgramAnswers'
BY DEF IInv, ProgramAnswers, Working

\* The programs are left alone, and so is the connection of each that has work to do.
LEMMA FrameWriters ==
  ASSUME IInv, UNCHANGED cgi,
         \A d \in Conns : Working(d) => UNCHANGED <<state[d], req[d].isCGI, piped(d)>>,
         \A d \in Conns : state'[d] \in {"Writing_Response", "Done_Response"} =>
           res'[d] # NULL /\ (res'[d].CGIout => req'[d].isCGI)
  PROVE  WriterHasResponse'
<1>1. ASSUME NEW d \in Conns, Working(d)
      PROVE  (state[d] = "Writing_Response" /\ req[d].isCGI /\ piped(d))'
  BY <1>1 DEF IInv, WriterHasResponse, Working
<1> QED
  BY <1>1 DEF WriterHasResponse, Working

\* The connections that wait for no program: all but those that write.
LEMMA IdleOutside ==
  ASSUME IInv, NEW c \in Conns, state[c] # "Writing_Response" \/ ~req[c].isCGI
  PROVE  ~Working(c)
BY DEF IInv, WriterHasResponse, Working

\* The parsers are left alone, and go on resting.
LEMMA FrameRequest ==
  ASSUME IInv, UNCHANGED req
  PROVE  RequestsRest'
BY DEF IInv, RequestsRest

\* No connection is given up on and no peer takes back that it closed.
LEMMA FrameClosed ==
  ASSUME IInv, UNCHANGED isOpen,
         \A c \in Conns : sock'[c].fin = sock[c].fin /\ sock'[c].rst = sock[c].rst
  PROVE  ClosedByPeer'
BY DEF IInv, ClosedByPeer

\* The pool, the backlog and the ends of the sockets are left alone.
LEMMA FrameAccepted ==
  ASSUME IInv, UNCHANGED <<backlog, history>>, InPool' \subseteq InPool,
         \A c \in Conns : sock'[c].phase = "none" => sock[c].phase = "none"
  PROVE  AcceptedOnce'
<1>1. \A c : Waiting(c)' = Waiting(c)
  BY DEF Waiting
<1>2. (\A i, j \in DOMAIN backlog : backlog[i] = backlog[j] => i = j)'
  BY DEF IInv, AcceptedOnce
<1> QED
  BY <1>1, <1>2 DEF IInv, AcceptedOnce, history

\* Nothing is asked and nothing is answered.
LEMMA FrameAnswers ==
  ASSUME IInv, UNCHANGED <<state, isOpen, asked>>, pc = "killed" => pc' = "killed",
         \A c \in Conns : Len(answers'[c]) = Len(answers[c])
  PROVE  OneAnswerEach'
BY DEF IInv, OneAnswerEach

\* Only connection c asks or is answered, so only its count is at stake.
LEMMA FrameOthersAnswers ==
  ASSUME IInv, NEW c \in Conns, pc = "killed" => pc' = "killed",
         \A d \in Conns \ {c} : /\ isOpen'[d] = isOpen[d] /\ state'[d] = state[d]
                                /\ asked'[d] = asked[d] /\ answers'[d] = answers[d],
         isOpen'[c] => asked'[c] = Len(answers'[c])
                                   + IF state'[c] = "Request_Parsed" THEN 1 ELSE 0
  PROVE  OneAnswerEach'
<1>1. ASSUME NEW d \in Conns, isOpen'[d], pc' # "killed"
      PROVE  asked'[d] = Len(answers'[d]) + IF state'[d] = "Request_Parsed" THEN 1 ELSE 0
  <2>1. CASE d # c
    <3>1. asked[d] = Len(answers[d]) + IF state[d] = "Request_Parsed" THEN 1 ELSE 0
      BY <1>1, <2>1 DEF IInv, OneAnswerEach
    <3> QED
      BY <2>1, <3>1
  <2> QED
    BY <1>1, <2>1
<1> QED
  BY <1>1 DEF OneAnswerEach

\* The vector keeps its clients and the iterator its place.
LEMMA FrameIterator ==
  ASSUME IInv, UNCHANGED clients,
         it' = it \/ (it <= Len(clients) /\ it' = it + 1),
         pc' \in {"processHandler", "writeHandler"} => it' <= Len(clients)
  PROVE  IteratorInRange'
<1>1. Len(clients) \in Nat /\ it \in 1..(Len(clients) + 1)
  BY DEF IInv, TypeOK, IteratorInRange
<1> QED
  BY <1>1 DEF IteratorInRange

\* Connections that wait for accept are left alone.
LEMMA FrameBacklog ==
  ASSUME IInv, pc \notin {"Select", "killed"}, UNCHANGED backlog, read_set' \subseteq read_set
  PROVE  BacklogReady'
BY DEF IInv, BacklogReady

\* The same vector holds the same clients.
LEMMA FramePool == ASSUME UNCHANGED clients PROVE InPool' = InPool
BY DEF InPool

-----------------------------------------------------------------------------
(* The steps of the loop that touch no client                              *)

\* Select: nothing of a connection changes.
LEMMA SelectInv ==
  ASSUME IInv, Select
  PROVE  IInv'
<1>1. read_set' \subseteq Descriptors /\ write_set' \subseteq Descriptors
  <2>1. InPool \subseteq Conns
    BY DEF IInv, TypeOK, InPool
  <2> QED
    BY <2>1 DEF Select, watchRead, watchWrite, Descriptors, Sock, Pipe
<1>2. TypeOK' /\ IteratorInRange'
  BY <1>1, SMTT(40) DEF Select, IInv, TypeOK, IteratorInRange, Points, connVars, envVars, history
<1>3. HandlerHasWork'
  BY DEF Select, HandlerHasWork
<1>4. BacklogReady'
  <2>1. Readable(Listen) => backlog # <<>>
    BY DEF Readable, Listen, Sock, Pipe
  <2> QED
    BY <2>1 DEF Select, BacklogReady, envVars
<1>5. UNCHANGED <<clients, connVars, envVars, history>> /\ pc # "killed"
  BY DEF Select
<1>6. AcceptedOnce' /\ ClosedByPeer' /\ OneAnswerEach'
  BY <1>5, FrameAccepted, FrameClosed, FrameAnswers, FramePool DEF connVars, envVars, history
<1> QED
  BY <1>1, <1>2, <1>3, <1>4, <1>5, <1>6, FrameConn DEF IInv, envVars, history

\* SelectAborts: the process ends where it is.
LEMMA SelectAbortsInv ==
  ASSUME IInv, SelectAborts
  PROVE  IInv'
<1>1. /\ UNCHANGED <<clients, read_set, write_set, copied, connVars, envVars, history>>
      /\ pc = "Select" /\ pc' = "killed" /\ it' \in DOMAIN clients
  BY DEF SelectAborts
<1>2. DOMAIN clients = 1..Len(clients) /\ Len(clients) \in Nat
  BY DEF IInv, TypeOK
<1>3. it' \in Nat /\ IteratorInRange'
  BY <1>1, <1>2 DEF IteratorInRange
<1>7. TypeOK'
  BY <1>1, <1>3 DEF IInv, TypeOK, Points, connVars, envVars, history
<1>4. HandlerHasWork'
  BY <1>1 DEF HandlerHasWork
<1>5. BacklogReady'
  BY <1>1 DEF BacklogReady
<1>6. AcceptedOnce' /\ ClosedByPeer' /\ OneAnswerEach'
  BY <1>1, FrameAccepted, FrameClosed, FrameAnswers, FramePool DEF connVars, envVars, history
<1> QED
  BY <1>1, <1>3, <1>4, <1>5, <1>6, <1>7, FrameConn DEF IInv, envVars, history

\* EndOfPass: check_clients returns, and nothing of a connection changes.
LEMMA EndOfPassInv ==
  ASSUME IInv, EndOfPass
  PROVE  IInv'
<1>1. TypeOK' /\ IteratorInRange' /\ HandlerHasWork' /\ BacklogReady'
  BY DEF EndOfPass, IInv, TypeOK, IteratorInRange, HandlerHasWork, BacklogReady, Points,
         poolVars, connVars, envVars, history
<1>2. UNCHANGED <<clients, connVars, envVars, history>> /\ pc # "killed"
  BY DEF EndOfPass, poolVars
<1>3. AcceptedOnce' /\ ClosedByPeer' /\ OneAnswerEach'
  BY <1>2, FrameAccepted, FrameClosed, FrameAnswers, FramePool DEF connVars, envVars, history
<1> QED
  BY <1>1, <1>2, <1>3, FrameConn DEF IInv, envVars, history

\* Skip: the pass goes on.
LEMMA SkipInv ==
  ASSUME IInv, NEW c \in Conns, Skip(c)
  PROVE  IInv'
<1>1. /\ UNCHANGED <<clients, read_set, write_set, copied, connVars, envVars, history>>
      /\ pc = "check_clients" /\ it <= Len(clients) /\ pc' = pc /\ it' = it + 1
  BY DEF Skip, Handling, NextClient
<1>2. TypeOK'
  BY <1>1 DEF IInv, TypeOK, connVars, envVars, history
<1>3. IteratorInRange' /\ HandlerHasWork' /\ BacklogReady'
  BY <1>1, FrameIterator, FrameBacklog DEF HandlerHasWork, envVars
<1>4. AcceptedOnce' /\ ClosedByPeer' /\ OneAnswerEach'
  BY <1>1, FrameAccepted, FrameClosed, FrameAnswers, FramePool DEF connVars, envVars, history
<1> QED
  BY <1>1, <1>2, <1>3, <1>4, FrameConn DEF IInv, envVars, history

\* WriteMore: processHandler is called for a client that has a response.
LEMMA WriteMoreInv ==
  ASSUME IInv, NEW c \in Conns, WriteMore(c)
  PROVE  IInv'
<1>1. /\ UNCHANGED <<poolVars, copied, connVars, envVars, history>>
      /\ pc = "check_clients" /\ it <= Len(clients) /\ pc' = "processHandler"
      /\ clients[it] = c /\ state[c] = "Writing_Response" /\ ~req[c].isCGI
  BY DEF WriteMore, Handling
<1>2. TypeOK' /\ IteratorInRange' /\ BacklogReady'
  BY <1>1 DEF IInv, TypeOK, IteratorInRange, BacklogReady, Points,
              poolVars, connVars, envVars, history
<1>3. HandlerHasWork'
  BY <1>1 DEF HandlerHasWork, poolVars, connVars
<1>4. AcceptedOnce' /\ ClosedByPeer' /\ OneAnswerEach'
  BY <1>1, FrameAccepted, FrameClosed, FrameAnswers, FramePool
     DEF poolVars, connVars, envVars, history
<1> QED
  BY <1>1, <1>2, <1>3, <1>4, FrameConn DEF IInv, envVars, history

-----------------------------------------------------------------------------
(* readHandler                                                             *)

\* ReadData: what is read fits the buffer, and the parser keeps the object well
\* formed, whatever it was given.
LEMMA ReadDataInv ==
  ASSUME IInv, NEW c \in Conns, ReadHandler(c), ReadData(c)
  PROVE  IInv'
<1> DEFINE n    == ReadSize(c)
           buf  == Received(c)
           pars == httpParse(req[c], buf, Len(buf) = BufSize)
           left == SubSeq(buf, pars.size + 1, Len(buf))
           s    == [sock[c] EXCEPT !.inq = SubSeq(@, n + 1, Len(@))]
<1> HIDE DEF n, buf, pars, left, s
<1>0. /\ pc = "check_clients" /\ it \in 1..Len(clients) /\ clients[it] = c
      /\ state[c] = "Ready_ForRead" /\ Len(readBuffer[c]) < BufSize
      /\ UNCHANGED <<clients, read_set, write_set, copied, isOpen, writeBuffer, res,
                     backlog, cgi, answers>>
  <2>1. it \in 1..(Len(clients) + 1) /\ Len(clients) \in Nat
    BY DEF IInv, TypeOK, IteratorInRange
  <2>2. /\ pc = "check_clients" /\ it <= Len(clients) /\ clients[it] = c
        /\ state[c] = "Ready_ForRead" /\ Len(readBuffer[c]) < BufSize
        /\ UNCHANGED <<clients, read_set, write_set, copied, writeBuffer, res,
                       backlog, cgi, answers>>
    BY DEF ReadHandler, Handling
  <2>3. UNCHANGED isOpen
    BY DEF ReadData
  <2> QED
    BY <2>1, <2>2, <2>3
<1>1. /\ readBuffer[c] \in Seq(Lines) /\ req[c] \in Requests /\ Resting(req[c])
      /\ sock[c] \in Sockets /\ sock[c].inq \in Seq(Lines) /\ BufSize \in Nat
  <2>1. /\ readBuffer[c] \in Seq(Lines) /\ req[c] \in Requests /\ sock[c] \in Sockets
    BY DEF IInv, TypeOK
  <2>2. Resting(req[c])
    BY DEF IInv, RequestsRest
  <2> QED
    BY <2>1, <2>2, SocketUpdates, SelectAssumption
<1>2. n \in 0..Len(sock[c].inq) /\ Len(readBuffer[c]) + n <= BufSize
  <2> DEFINE a == BufSize - Len(readBuffer[c])
             b == Len(sock[c].inq)
  <2>1. a \in Nat /\ b \in Nat /\ Len(readBuffer[c]) \in Nat /\ BufSize \in Nat
    BY <1>0, <1>1
  <2>2. n = IF a <= b THEN a ELSE b
    BY DEF n, ReadSize, least
  <2>3. Len(readBuffer[c]) + a = BufSize
    BY <2>1
  <2> HIDE DEF a, b
  <2>4. n \in 0..b /\ n <= a /\ n \in Nat
    BY <2>1, <2>2
  <2> QED
    BY <2>1, <2>3, <2>4 DEF b
<1> USE DEF buf, pars, left, s
<1>3. SubSeq(sock[c].inq, 1, n) \in Seq(Lines) /\ Len(SubSeq(sock[c].inq, 1, n)) = n
  BY <1>1, <1>2, SubSeqProperties
<1>4. buf \in Seq(Lines) /\ Len(buf) <= BufSize
  <2> DEFINE t == SubSeq(sock[c].inq, 1, n)
  <2> HIDE DEF t
  <2>1. readBuffer[c] \o t \in Seq(Lines)
        /\ Len(readBuffer[c] \o t) = Len(readBuffer[c]) + Len(t)
    BY <1>1, <1>3, ConcatProperties DEF t
  <2> QED
    BY <1>1, <1>2, <1>3, <2>1 DEF t, Received, n
<1> HIDE DEF buf
<1>5. /\ pars.req \in Requests /\ pars.size \in 0..Len(buf)
      /\ Resting(pars.req) /\ (pars.req.state = "ParsedCorrect" => pars.req.uri \in URIs)
  <2>1. ~parseEnds(req[c], buf)
    BY DEF ReadData, buf
  <2>2. /\ pars.req \in Requests /\ pars.size \in 0..Len(buf) /\ Resting(pars.req)
        /\ pars.req.state = "ParsedCorrect" => HasTarget(pars.req)
    BY <1>1, <1>4, <2>1, ParseType, ParseURI, Zenon
  <2> QED
    BY <2>2 DEF HasTarget
<1> HIDE DEF pars
<1>6. left \in Seq(Lines) /\ Len(left) <= BufSize
  BY <1>1, <1>4, <1>5, SubSeqProperties
<1>7. s \in Sockets
  <2>1. SubSeq(sock[c].inq, n + 1, Len(sock[c].inq)) \in Seq(Lines)
    BY <1>1, <1>2, SubSeqProperties
  <2> QED
    BY <1>1, <2>1, SocketUpdates
<1>8. /\ sock' = [sock EXCEPT ![c] = s] /\ s.fin = sock[c].fin /\ s.rst = sock[c].rst
      /\ s.phase = sock[c].phase
      /\ readBuffer' = [readBuffer EXCEPT ![c] = left]
      /\ req' = [req EXCEPT ![c] = pars.req]
  BY <1>1 DEF ReadData, removeSize, n, buf, pars, Sockets
<1> HIDE DEF s, left
<1>9. \/ /\ state' = [state EXCEPT ![c] = "Request_Parsed"]
         /\ asked' = [asked EXCEPT ![c] = @ + 1]
         /\ pc' = "processHandler" /\ it' = it
      \/ pc' = "check_clients" /\ it' = it + 1 /\ UNCHANGED <<state, asked>>
      \/ pc' = "killed" /\ UNCHANGED <<it, state, asked>>
  BY DEF ReadData, NextClient
<1>10. TypeOK'
  <2>1. pc' \in Points /\ it' \in Nat
    BY <1>9 DEF IInv, TypeOK, Points
  <2>2. state' \in [Conns -> ConnStates]
    BY <1>9 DEF IInv, TypeOK, ConnStates
  <2>4. asked' \in [Conns -> Nat]
    BY <1>9 DEF IInv, TypeOK
  <2>3. /\ readBuffer' \in [Conns -> Seq(Lines)] /\ req' \in [Conns -> Requests]
        /\ sock' \in [Conns -> Sockets]
    BY <1>5, <1>6, <1>7, <1>8 DEF IInv, TypeOK
  <2> QED
    BY <1>0, <2>1, <2>2, <2>3, <2>4 DEF IInv, TypeOK
<1>11. IteratorInRange' /\ BacklogReady'
  BY <1>0, <1>9, FrameIterator, FrameBacklog
<1>12. HandlerHasWork'
  BY <1>0, <1>9 DEF IInv, TypeOK, HandlerHasWork
<1>13. RequestsRest'
  BY <1>5, <1>8 DEF IInv, TypeOK, RequestsRest
<1>14. ResponsesInRange' /\ FreshResponse'
  BY <1>0, <1>9 DEF IInv, TypeOK, ResponsesInRange, FreshResponse
<1>15. WriterHasResponse' /\ ProgramAnswers'
  <2>1. ~Working(c)
    BY <1>0, IdleOutside
  <2>2. \A d \in Conns \ {c} : state'[d] = state[d] /\ req'[d] = req[d]
    BY <1>8, <1>9 DEF IInv, TypeOK
  <2>3. state'[c] \in {"Ready_ForRead", "Request_Parsed"}
    BY <1>0, <1>9 DEF IInv, TypeOK
  <2>4. \A d \in Conns : Working(d) => UNCHANGED <<state[d], req[d].isCGI, piped(d)>>
    BY <1>0, <2>1, <2>2 DEF piped
  <2>5. \A d \in Conns : state'[d] \in {"Writing_Response", "Done_Response"} =>
          res'[d] # NULL /\ (res'[d].CGIout => req'[d].isCGI)
    BY <1>0, <2>2, <2>3 DEF IInv, WriterHasResponse
  <2> QED
    BY <1>0, <2>4, <2>5, FrameWriters, FramePrograms
<1>16. BuffersFit'
  BY <1>0, <1>6, <1>8 DEF IInv, TypeOK, BuffersFit
<1>17. ClosedByPeer'
  BY <1>0, <1>8, FrameClosed DEF IInv, TypeOK
<1>18. AcceptedOnce'
  <2>1. c \in InPool
    BY <1>0 DEF InPool
  <2>2. \A d : Waiting(d)' = Waiting(d)
    BY <1>0 DEF Waiting
  <2>3. \A d \in Conns \ {c} : asked'[d] = asked[d]
    BY <1>9 DEF IInv, TypeOK
  <2>4. \A d \in Conns : sock'[d].phase = sock[d].phase
    BY <1>8 DEF IInv, TypeOK
  <2>5. InPool' = InPool
    BY <1>0, FramePool
  <2> QED
    BY <1>0, <2>1, <2>2, <2>3, <2>4, <2>5 DEF IInv, AcceptedOnce
<1>19. OneAnswerEach'
  <2>1. ASSUME NEW d \in Conns, isOpen'[d], pc' # "killed"
        PROVE  asked'[d] = Len(answers'[d]) + IF state'[d] = "Request_Parsed" THEN 1 ELSE 0
    <3>1. asked[d] = Len(answers[d]) + IF state[d] = "Request_Parsed" THEN 1 ELSE 0
      BY <1>0, <2>1 DEF IInv, OneAnswerEach
    <3>2. Len(answers[d]) \in Nat /\ asked \in [Conns -> Nat] /\ state \in [Conns -> ConnStates]
      BY DEF IInv, TypeOK
    <3>3. CASE d = c
      <4>1. asked[c] = Len(answers'[c]) /\ asked[c] \in Nat
        BY <1>0, <3>1, <3>2, <3>3
      <4>2. \/ state'[c] = "Request_Parsed" /\ asked'[c] = asked[c] + 1
            \/ state'[c] = "Ready_ForRead" /\ asked'[c] = asked[c]
        BY <1>0, <1>9, <3>2
      <4>3. CASE state'[c] = "Request_Parsed" /\ asked'[c] = asked[c] + 1
        BY <3>3, <4>1, <4>3
      <4>4. CASE state'[c] = "Ready_ForRead" /\ asked'[c] = asked[c]
        BY <3>3, <4>1, <4>4
      <4> QED
        BY <4>2, <4>3, <4>4
    <3>4. CASE d # c
      BY <1>0, <1>9, <3>1, <3>2, <3>4
    <3> QED
      BY <3>3, <3>4
  <2> QED
    BY <2>1 DEF OneAnswerEach
<1> QED
  BY <1>10, <1>11, <1>12, <1>13, <1>14, <1>15, <1>16, <1>17, <1>18, <1>19 DEF IInv

\* ReadCrash: the process ends where it is.
LEMMA ReadCrashInv ==
  ASSUME IInv, NEW c \in Conns, ReadHandler(c), ReadCrash(c)
  PROVE  IInv'
<1>1. /\ UNCHANGED <<poolVars, copied, connVars, envVars, history>>
      /\ pc = "check_clients" /\ pc' = "killed"
  BY DEF ReadHandler, ReadCrash, Handling, poolVars, connVars, envVars, history
<1>2. TypeOK'
  BY <1>1 DEF IInv, TypeOK, Points, poolVars, connVars, envVars, history
<1>3. IteratorInRange' /\ BacklogReady' /\ HandlerHasWork'
  BY <1>1, FrameIterator, FrameBacklog DEF HandlerHasWork, poolVars, envVars
<1>4. AcceptedOnce' /\ ClosedByPeer' /\ OneAnswerEach'
  BY <1>1, FrameAccepted, FrameClosed, FrameAnswers, FramePool
     DEF poolVars, connVars, envVars, history
<1> QED
  BY <1>1, <1>2, <1>3, <1>4, FrameConn DEF IInv, envVars, history

\* ReadEOF: the connection is marked closed because its peer
\* has closed it.
LEMMA ReadEOFInv ==
  ASSUME IInv, NEW c \in Conns, ReadHandler(c), ReadEOF(c)
  PROVE  IInv'
<1>1. /\ pc = "check_clients" /\ it \in 1..Len(clients) /\ clients[it] = c
      /\ state[c] = "Ready_ForRead"
      /\ UNCHANGED <<clients, read_set, write_set, copied, writeBuffer, res, backlog, cgi,
                     answers, it, sock, readBuffer, req, asked>>
      /\ pc' = "processHandler"
      /\ isOpen' = [isOpen EXCEPT ![c] = FALSE]
      /\ state' = [state EXCEPT ![c] = "Request_Parsed"]
      /\ sock[c].fin \/ sock[c].rst = "reported"
  BY DEF IInv, IteratorInRange, ReadHandler, Handling, ReadEOF
<1>2. TypeOK'
  BY <1>1 DEF IInv, TypeOK, Points, ConnStates
<1>3. IteratorInRange' /\ BacklogReady' /\ RequestsRest'
  BY <1>1, FrameIterator, FrameBacklog, FrameRequest
<1>4. HandlerHasWork'
  BY <1>1 DEF IInv, TypeOK, HandlerHasWork
<1>5. ResponsesInRange' /\ FreshResponse' /\ BuffersFit' /\ WriterHasResponse' /\ ProgramAnswers'
  <2>1. ResponsesInRange' /\ FreshResponse' /\ BuffersFit'
    BY <1>1 DEF IInv, TypeOK, ResponsesInRange, FreshResponse, BuffersFit
  <2>2. ~Working(c)
    BY <1>1, IdleOutside
  <2>3. WriterHasResponse'
    BY <1>1, <2>2, FrameWriters DEF IInv, TypeOK, WriterHasResponse, piped
  <2> QED
    BY <1>1, <2>1, <2>3, FramePrograms
<1>6. ClosedByPeer'
  BY <1>1 DEF IInv, TypeOK, ClosedByPeer
<1>7. AcceptedOnce'
  BY <1>1, FrameAccepted, FramePool DEF history
<1>8. OneAnswerEach'
  BY <1>1, FrameOthersAnswers DEF IInv, TypeOK
<1> QED
  BY <1>2, <1>3, <1>4, <1>5, <1>6, <1>7, <1>8 DEF IInv

\* ReadError: the connection is marked closed because it was aborted.
LEMMA ReadErrorInv ==
  ASSUME IInv, NEW c \in Conns, ReadHandler(c), ReadError(c)
  PROVE  IInv'
<1> DEFINE s == [sock[c] EXCEPT !.rst = "reported"]
<1>1. /\ pc = "check_clients" /\ it \in 1..Len(clients) /\ clients[it] = c
      /\ UNCHANGED <<clients, read_set, write_set, copied, writeBuffer, res, backlog, cgi,
                     answers, state, readBuffer, req, asked>>
      /\ pc' = "check_clients" /\ it' = it + 1
      /\ isOpen' = [isOpen EXCEPT ![c] = FALSE]
      /\ sock' = [sock EXCEPT ![c] = s]
  BY DEF IInv, IteratorInRange, ReadHandler, Handling, ReadError, NextClient
<1>2. s \in Sockets /\ s.rst # "no" /\ s.phase = sock[c].phase
  <2>1. sock[c] \in Sockets /\ "reported" \in Resets
    BY DEF IInv, TypeOK, Resets
  <2>2. s \in Sockets
    BY <2>1, SocketUpdates
  <2> QED
    BY <2>1, <2>2 DEF Sockets
<1> HIDE DEF s
<1>3. sock' \in [Conns -> Sockets]
  BY <1>1, <1>2 DEF IInv, TypeOK
<1>4. it' \in Nat /\ pc' \in Points /\ isOpen' \in [Conns -> BOOLEAN]
  BY <1>1 DEF IInv, TypeOK, Points
<1>5. TypeOK'
  BY <1>1, <1>3, <1>4 DEF IInv, TypeOK
<1>6. IteratorInRange' /\ BacklogReady' /\ RequestsRest' /\ HandlerHasWork'
  BY <1>1, FrameIterator, FrameBacklog, FrameRequest DEF HandlerHasWork
<1>7. ResponsesInRange' /\ FreshResponse' /\ BuffersFit' /\ WriterHasResponse' /\ ProgramAnswers'
  <2>1. ResponsesInRange' /\ FreshResponse' /\ BuffersFit'
    BY <1>1 DEF IInv, TypeOK, ResponsesInRange, FreshResponse, BuffersFit
  <2>2. WriterHasResponse'
    BY <1>1 DEF IInv, WriterHasResponse, piped
  <2> QED
    BY <1>1, <2>1, <2>2, FramePrograms
<1>8. ClosedByPeer'
  BY <1>1, <1>2 DEF IInv, TypeOK, ClosedByPeer
<1>9. AcceptedOnce'
  <2>1. \A d \in Conns : sock'[d].phase = sock[d].phase
    BY <1>1, <1>2 DEF IInv, TypeOK
  <2> QED
    BY <1>1, <2>1, FrameAccepted, FramePool DEF history
<1>10. OneAnswerEach'
  BY <1>1, FrameOthersAnswers DEF IInv, TypeOK
<1> QED
  BY <1>5, <1>6, <1>7, <1>8, <1>9, <1>10 DEF IInv

-----------------------------------------------------------------------------
(* processHandler                                                          *)

\* CloseClient: the client leaves the vector, and the iterator is at the next
\* one or at the end.
LEMMA CloseClientInv ==
  ASSUME IInv, NEW c \in Conns, CloseClient(c)
  PROVE  IInv'
<1> DEFINE s == [sock[c] EXCEPT !.phase = "closed"]
<1>1. /\ pc = "processHandler" /\ it \in 1..Len(clients) /\ clients[it] = c /\ ~isOpen[c]
      /\ state[c] = "Request_Parsed"
      /\ UNCHANGED <<it, write_set, copied, isOpen, readBuffer, writeBuffer, req, res,
                     backlog, cgi, history>>
      /\ pc' = "check_clients" /\ clients' = erase(clients, it)
      /\ read_set' = read_set \ {Sock(c)}
      /\ state' = [state EXCEPT ![c] = "Closed"]
      /\ sock' = [sock EXCEPT ![c] = s]
  BY DEF IInv, IteratorInRange, CloseClient, Processing
<1>2. s \in Sockets /\ s.rst = sock[c].rst /\ s.fin = sock[c].fin /\ s.phase # "none"
  <2>1. sock[c] \in Sockets /\ "closed" \in Phases
    BY DEF IInv, TypeOK, Phases
  <2>2. s \in Sockets
    BY <2>1, SocketUpdates
  <2> QED
    BY <2>1, <2>2 DEF Sockets
<1> HIDE DEF s
<1>3. /\ clients' \in Seq(Conns) /\ Len(clients') = Len(clients) - 1
      /\ \A j \in DOMAIN clients' : \E k \in DOMAIN clients : clients'[j] = clients[k]
  BY <1>1, EraseType DEF IInv, TypeOK
<1>4. TypeOK'
  <2>1. sock' \in [Conns -> Sockets]
    BY <1>1, <1>2 DEF IInv, TypeOK
  <2>2. pc' \in Points /\ state' \in [Conns -> ConnStates] /\ read_set' \subseteq Descriptors
    BY <1>1 DEF IInv, TypeOK, Points, ConnStates
  <2> QED
    BY <1>1, <1>3, <2>1, <2>2 DEF IInv, TypeOK, history
<1>5. IteratorInRange'
  <2>1. Len(clients) \in Nat
    BY DEF IInv, TypeOK
  <2> QED
    BY <1>1, <1>3, <2>1 DEF IteratorInRange
<1>6. BacklogReady' /\ RequestsRest' /\ HandlerHasWork'
  BY <1>1, FrameBacklog, FrameRequest DEF HandlerHasWork
<1>7. ResponsesInRange' /\ FreshResponse' /\ BuffersFit' /\ WriterHasResponse' /\ ProgramAnswers'
  <2>1. ResponsesInRange' /\ FreshResponse' /\ BuffersFit'
    BY <1>1 DEF IInv, TypeOK, ResponsesInRange, FreshResponse, BuffersFit
  <2>2. ~Working(c)
    BY <1>1, IdleOutside
  <2>3. WriterHasResponse'
    BY <1>1, <2>2, FrameWriters DEF IInv, TypeOK, WriterHasResponse, piped
  <2> QED
    BY <1>1, <2>1, <2>3, FramePrograms DEF history
<1>8. ClosedByPeer'
  <2>1. \A d \in Conns : sock'[d].fin = sock[d].fin /\ sock'[d].rst = sock[d].rst
    BY <1>1, <1>2 DEF IInv, TypeOK
  <2> QED
    BY <1>1, <2>1, FrameClosed
<1>9. AcceptedOnce'
  <2>1. InPool' \subseteq InPool
    BY <1>3 DEF InPool
  <2>2. \A d \in Conns : sock'[d].phase = "none" => sock[d].phase = "none"
    BY <1>1, <1>2 DEF IInv, TypeOK
  <2> QED
    BY <1>1, <2>1, <2>2, FrameAccepted
<1>10. OneAnswerEach'
  BY <1>1, FrameOthersAnswers DEF IInv, TypeOK, history
<1> QED
  BY <1>4, <1>5, <1>6, <1>7, <1>8, <1>9, <1>10 DEF IInv

\* ProcessClosed: the state becomes Closed, and the client stays in the vector.
LEMMA ProcessClosedInv ==
  ASSUME IInv, NEW c \in Conns, ProcessClosed(c)
  PROVE  IInv'
<1>1. /\ pc = "processHandler" /\ it \in 1..Len(clients) /\ clients[it] = c /\ ~isOpen[c]
      /\ UNCHANGED <<it, clients, read_set, write_set, copied, isOpen, readBuffer, writeBuffer,
                     req, res, sock, backlog, cgi, history>>
      /\ pc' = "writeHandler"
      /\ state' = [state EXCEPT ![c] = "Closed"]
  BY DEF IInv, IteratorInRange, ProcessClosed, Processing, poolVars, envVars
<1>2. TypeOK'
  BY <1>1 DEF IInv, TypeOK, Points, ConnStates, history
<1>3. IteratorInRange' /\ BacklogReady' /\ RequestsRest' /\ HandlerHasWork'
  BY <1>1, FrameIterator, FrameBacklog, FrameRequest DEF HandlerHasWork
<1>4. ResponsesInRange' /\ FreshResponse' /\ BuffersFit' /\ WriterHasResponse' /\ ProgramAnswers'
  <2>1. ResponsesInRange' /\ FreshResponse' /\ BuffersFit'
    BY <1>1 DEF IInv, TypeOK, ResponsesInRange, FreshResponse, BuffersFit
  <2>2. ~Working(c)
    BY <1>1, IdleOutside DEF IInv, HandlerHasWork
  <2>3. WriterHasResponse'
    BY <1>1, <2>2, FrameWriters DEF IInv, TypeOK, WriterHasResponse, piped
  <2> QED
    BY <1>1, <2>1, <2>3, FramePrograms DEF history
<1>5. ClosedByPeer' /\ AcceptedOnce'
  BY <1>1, FrameClosed, FrameAccepted, FramePool
<1>6. OneAnswerEach'
  BY <1>1, FrameOthersAnswers DEF IInv, TypeOK, history
<1> QED
  BY <1>2, <1>3, <1>4, <1>5, <1>6 DEF IInv

\* The response of a connection that is processed: the one it has, or the new
\* one, which starts at its beginning and has a pipe only for a CGI request.
LEMMA ResponseType ==
  ASSUME IInv, NEW c \in Conns, NEW o, pc = "processHandler", clients[it] = c,
         Parsed(req[c])
  PROVE  /\ Response(c, o) \in Responses /\ PointersInRange(Response(c, o))
         /\ Response(c, o).CGIout => req[c].isCGI
         /\ res[c] = NULL <=> state[c] = "Request_Parsed"
         /\ state[c] \in {"Request_Parsed", "Writing_Response"}
<1>1. state[c] \in {"Request_Parsed", "Writing_Response"}
  BY DEF IInv, HandlerHasWork
<1>2. res[c] = NULL <=> state[c] = "Request_Parsed"
  BY <1>1 DEF IInv, FreshResponse, WriterHasResponse
<1>3. CASE res[c] # NULL
  <2>1. state[c] = "Writing_Response"
    BY <1>1, <1>2, <1>3
  <2>2. Response(c, o) = res[c]
    BY <1>3 DEF Response
  <2> QED
    BY <1>1, <1>2, <1>3, <2>1, <2>2 DEF IInv, TypeOK, ResponsesInRange, WriterHasResponse
<1>4. CASE res[c] = NULL
  <2>1. req[c] \in Requests /\ (req[c].state = "ParsedError" \/ req[c].uri \in URIs)
    BY DEF IInv, TypeOK, RequestsRest, Parsed
  <2>2. Response(c, o) = buildResponse(req[c], o)
    BY <1>4 DEF Response
  <2> QED
    BY <1>1, <1>2, <2>1, <2>2, BuildType
<1> QED
  BY <1>3, <1>4

\* The history: a response is counted when it is built.
LEMMA AnsweredStep ==
  ASSUME IInv, NEW c \in Conns, NEW o, pc = "processHandler", clients[it] = c, isOpen[c],
         Parsed(req[c]), answers' = Answered(c, o)
  PROVE  /\ answers' \in [Conns -> Seq(Nat)]
         /\ \A d \in Conns \ {c} : answers'[d] = answers[d]
         /\ asked[c] = Len(answers'[c])
         /\ res[c] = NULL => answers'[c] # <<>>
         /\ answers[c] # <<>> => answers'[c] # <<>>
<1>1. /\ Response(c, o) \in Responses
      /\ res[c] = NULL <=> state[c] = "Request_Parsed"
      /\ answers \in [Conns -> Seq(Nat)]
      /\ asked[c] = Len(answers[c]) + IF state[c] = "Request_Parsed" THEN 1 ELSE 0
  BY ResponseType DEF IInv, TypeOK, OneAnswerEach
<1>2. CASE res[c] # NULL
  <2>1. answers' = answers /\ asked[c] = Len(answers[c])
    BY <1>1, <1>2 DEF Answered
  <2> QED
    BY <1>1, <2>1
<1>3. CASE res[c] = NULL
  <2> DEFINE n == Response(c, o).maxHeaderPtr + Response(c, o).maxFilePtr
             a == Append(answers[c], n)
  <2>1. n \in Nat
    BY <1>1 DEF Responses
  <2>2. answers' = [answers EXCEPT ![c] = a]
    BY <1>3 DEF Answered
  <2> HIDE DEF n
  <2>3. a \in Seq(Nat) /\ Len(a) = Len(answers[c]) + 1 /\ a # <<>>
    <3>1. answers[c] \in Seq(Nat)
      BY <1>1
    <3> QED
      BY <2>1, <3>1, AppendProperties
  <2>4. asked[c] = Len(answers[c]) + 1
    BY <1>1, <1>3
  <2> HIDE DEF a
  <2> QED
    BY <1>1, <2>2, <2>3, <2>4
<1> QED
  BY <1>2, <1>3

\* StartCGI: no unit is written, and the pipe is there for the passes to come.
LEMMA StartCGIInv ==
  ASSUME IInv, NEW c \in Conns, NEW o \in Outcomes, StartCGI(c, o)
  PROVE  IInv'
<1>1. /\ pc = "processHandler" /\ it \in 1..Len(clients) /\ clients[it] = c /\ isOpen[c]
      /\ Parsed(req[c]) /\ req[c].isCGI
      /\ UNCHANGED <<it, clients, read_set, write_set, copied, isOpen, readBuffer, writeBuffer,
                     req, sock, backlog, asked>>
      /\ pc' = "writeHandler" /\ answers' = Answered(c, o)
      /\ res' = [res EXCEPT ![c] = Response(c, o)]
      /\ state' = [state EXCEPT ![c] = "Writing_Response"]
  BY DEF IInv, IteratorInRange, StartCGI, Processing, poolVars
<1>2. /\ Response(c, o) \in Responses /\ PointersInRange(Response(c, o))
      /\ Response(c, o).CGIout \in BOOLEAN /\ Response(c, o) # NULL
      /\ res[c] # NULL => Response(c, o) = res[c]
  <2>1. Response(c, o) \in Responses /\ PointersInRange(Response(c, o))
    BY <1>1, ResponseType
  <2> QED
    BY <2>1, SelectAssumption DEF Response, Responses
<1>3. /\ answers' \in [Conns -> Seq(Nat)]
      /\ \A d \in Conns \ {c} : answers'[d] = answers[d]
      /\ asked[c] = Len(answers'[c])
      /\ res[c] = NULL => answers'[c] # <<>>
      /\ answers[c] # <<>> => answers'[c] # <<>>
  BY <1>1, AnsweredStep
<1> DEFINE p == [alive |-> Response(c, o).CGIout, wrote |-> 0, got |-> 0]
<1>11. cgi' = IF res[c] # NULL THEN cgi ELSE [cgi EXCEPT ![c] = p]
  BY DEF StartCGI
<1>12. p \in Programs /\ p.alive = Response(c, o).CGIout /\ ~(p.got < p.wrote)
  BY <1>2 DEF Programs
<1> HIDE DEF p
<1>4. cgi' \in [Conns -> Programs]
  BY <1>11, <1>12 DEF IInv, TypeOK
<1>5. TypeOK'
  <2>1. res' \in [Conns -> Responses \cup {NULL}] /\ state' \in [Conns -> ConnStates]
        /\ pc' \in Points
    BY <1>1, <1>2 DEF IInv, TypeOK, Points, ConnStates
  <2> QED
    BY <1>1, <1>3, <1>4, <2>1 DEF IInv, TypeOK
<1>6. IteratorInRange' /\ BacklogReady' /\ RequestsRest' /\ HandlerHasWork'
  BY <1>1, FrameIterator, FrameBacklog, FrameRequest DEF HandlerHasWork
<1>7. ResponsesInRange' /\ FreshResponse' /\ BuffersFit'
  BY <1>1, <1>2 DEF IInv, TypeOK, ResponsesInRange, FreshResponse, BuffersFit
<1>13. WriterHasResponse' /\ ProgramAnswers'
  <2>1. ASSUME NEW d \in Conns \ {c}
        PROVE  /\ UNCHANGED <<state[d], req[d], res[d], cgi[d], answers[d]>>
    BY <1>1, <1>3, <1>11 DEF IInv, TypeOK
  <2>2. /\ state'[c] = "Writing_Response" /\ req'[c].isCGI /\ res'[c] = Response(c, o)
    BY <1>1 DEF IInv, TypeOK
  <2>3. (Working(c) => piped(c) /\ answers[c] # <<>>)'
    <3>1. CASE res[c] # NULL
      <4>1. cgi'[c] = cgi[c] /\ res'[c] = res[c]
        BY <1>2, <1>11, <2>2, <3>1
      <4> QED
        BY <1>3, <4>1 DEF IInv, WriterHasResponse, ProgramAnswers, Working, piped
    <3>2. CASE res[c] = NULL
      <4>1. cgi'[c] = p
        BY <1>11, <3>2 DEF IInv, TypeOK
      <4> QED
        BY <1>2, <1>3, <1>12, <2>2, <3>2, <4>1 DEF Working, piped
    <3> QED
      BY <3>1, <3>2
  <2>4. ProgramAnswers'
    BY <2>1, <2>3 DEF IInv, ProgramAnswers, Working
  <2>5. WriterHasResponse'
    <3>1. ASSUME NEW d \in Conns \ {c}
          PROVE  /\ state'[d] \in {"Writing_Response", "Done_Response"} =>
                      res'[d] # NULL /\ (res'[d].CGIout => req'[d].isCGI)
                 /\ cgi'[d].alive \/ cgi'[d].got < cgi'[d].wrote =>
                      state'[d] = "Writing_Response" /\ req'[d].isCGI /\ piped(d)'
      BY <2>1, <3>1 DEF IInv, WriterHasResponse, piped
    <3>2. /\ res'[c] # NULL
          /\ cgi'[c].alive \/ cgi'[c].got < cgi'[c].wrote => piped(c)'
      BY <1>2, <2>2, <2>3 DEF Working
    <3> QED
      BY <2>2, <3>1, <3>2 DEF WriterHasResponse
  <2> QED
    BY <2>4, <2>5
<1>8. ClosedByPeer'
  BY <1>1, FrameClosed
<1>9. AcceptedOnce'
  <2>1. c \in InPool /\ InPool' = InPool
    BY <1>1, FramePool DEF InPool
  <2>2. \A d : Waiting(d)' = Waiting(d)
    BY <1>1 DEF Waiting
  <2> QED
    BY <1>1, <1>3, <2>1, <2>2 DEF IInv, AcceptedOnce
<1>10. OneAnswerEach'
  <2>1. state'[c] = "Writing_Response" /\ asked'[c] = Len(answers'[c])
    BY <1>1, <1>3 DEF IInv, TypeOK
  <2>2. Len(answers'[c]) \in Nat
    BY <1>3
  <2>3. \A d \in Conns \ {c} : state'[d] = state[d]
    BY <1>1 DEF IInv, TypeOK
  <2> QED
    BY <1>1, <1>3, <2>1, <2>2, <2>3, FrameOthersAnswers
<1> QED
  BY <1>5, <1>6, <1>7, <1>8, <1>9, <1>10, <1>13 DEF IInv

\* DumpResponse: what is dumped fits the write buffer.
LEMMA DumpResponseInv ==
  ASSUME IInv, NEW c \in Conns, NEW o \in Outcomes, DumpResponse(c, o)
  PROVE  IInv'
<1> DEFINE space == BufSize - Len(writeBuffer[c])
           r     == writeResponse(Response(c, o), space)
           u     == Dumped(Len(answers'[c]), Response(c, o), space)
           st    == IF AllDumped(r) THEN "Done_Response" ELSE "Writing_Response"
<1>1. /\ pc = "processHandler" /\ it \in 1..Len(clients) /\ clients[it] = c /\ isOpen[c]
      /\ Parsed(req[c]) /\ ~req[c].isCGI
      /\ UNCHANGED <<it, clients, read_set, write_set, copied, isOpen, readBuffer,
                     req, sock, backlog, cgi, asked>>
      /\ pc' = "writeHandler" /\ answers' = Answered(c, o)
      /\ res' = [res EXCEPT ![c] = r]
      /\ writeBuffer' = [writeBuffer EXCEPT ![c] = writeBuffer[c] \o u]
      /\ state' = [state EXCEPT ![c] = st]
  BY DEF IInv, IteratorInRange, DumpResponse, Processing, poolVars, envVars
<1>2. /\ Response(c, o) \in Responses /\ PointersInRange(Response(c, o))
      /\ Response(c, o).CGIout => req[c].isCGI
  BY <1>1, ResponseType
<1>3. /\ answers' \in [Conns -> Seq(Nat)]
      /\ \A d \in Conns \ {c} : answers'[d] = answers[d]
      /\ asked[c] = Len(answers'[c])
      /\ answers[c] # <<>> => answers'[c] # <<>>
  BY <1>1, AnsweredStep
<1>4. space \in Nat /\ writeBuffer[c] \in Seq(Units) /\ Len(writeBuffer[c]) + space = BufSize
  BY SelectAssumption DEF IInv, TypeOK, BuffersFit
<1> HIDE DEF space
<1>5. r \in Responses /\ PointersInRange(r) /\ (r.CGIout => req[c].isCGI) /\ r # NULL
  BY <1>2, <1>4, WriteResponseFits, SelectAssumption
<1>6. u \in Seq(Units) /\ Len(u) <= space
  BY <1>2, <1>3, <1>4, DumpedType
<1> HIDE DEF u, r
<1>7. writeBuffer[c] \o u \in Seq(Units) /\ Len(writeBuffer[c] \o u) <= BufSize
  <2>1. /\ writeBuffer[c] \o u \in Seq(Units)
        /\ Len(writeBuffer[c] \o u) = Len(writeBuffer[c]) + Len(u)
    BY <1>4, <1>6, ConcatProperties
  <2>2. Len(writeBuffer[c]) \in Nat /\ Len(u) \in Nat /\ BufSize \in Nat
    BY <1>4, <1>6, SelectAssumption
  <2> QED
    BY <1>4, <1>6, <2>1, <2>2
<1>8. st \in {"Done_Response", "Writing_Response"}
  OBVIOUS
<1> HIDE DEF st
<1>9. TypeOK'
  <2>1. res' \in [Conns -> Responses \cup {NULL}] /\ state' \in [Conns -> ConnStates]
        /\ pc' \in Points
    BY <1>1, <1>5, <1>8 DEF IInv, TypeOK, Points, ConnStates
  <2>2. writeBuffer' \in [Conns -> Seq(Units)]
    BY <1>1, <1>7 DEF IInv, TypeOK
  <2> QED
    BY <1>1, <1>3, <2>1, <2>2 DEF IInv, TypeOK
<1>10. IteratorInRange' /\ BacklogReady' /\ RequestsRest' /\ HandlerHasWork'
  BY <1>1, FrameIterator, FrameBacklog, FrameRequest DEF HandlerHasWork
<1>11. ResponsesInRange' /\ FreshResponse' /\ WriterHasResponse' /\ ProgramAnswers'
  <2>1. ~Working(c)
    BY <1>1, IdleOutside
  <2>2. \A d \in Conns \ {c} : state'[d] = state[d] /\ res'[d] = res[d]
    BY <1>1 DEF IInv, TypeOK
  <2>3. state'[c] = st /\ res'[c] = r
    BY <1>1 DEF IInv, TypeOK
  <2>4. ResponsesInRange' /\ FreshResponse'
    BY <1>1, <1>5, <1>8, <2>2, <2>3 DEF IInv, ResponsesInRange, FreshResponse
  <2>5. \A d \in Conns : Working(d) => UNCHANGED <<state[d], req[d].isCGI, piped(d)>>
    BY <1>1, <2>1, <2>2 DEF piped
  <2>6. \A d \in Conns : state'[d] \in {"Writing_Response", "Done_Response"} =>
          res'[d] # NULL /\ (res'[d].CGIout => req'[d].isCGI)
    BY <1>1, <1>5, <2>2, <2>3 DEF IInv, WriterHasResponse
  <2>7. ProgramAnswers'
    BY <1>1, <1>3 DEF IInv, ProgramAnswers, Working
  <2> QED
    BY <1>1, <2>4, <2>5, <2>6, <2>7, FrameWriters
<1>12. BuffersFit'
  BY <1>1, <1>7 DEF IInv, TypeOK, BuffersFit
<1>13. ClosedByPeer'
  BY <1>1, FrameClosed
<1>14. AcceptedOnce'
  <2>1. c \in InPool /\ InPool' = InPool
    BY <1>1, FramePool DEF InPool
  <2>2. \A d : Waiting(d)' = Waiting(d)
    BY <1>1 DEF Waiting
  <2> QED
    BY <1>1, <1>3, <2>1, <2>2 DEF IInv, AcceptedOnce
<1>15. OneAnswerEach'
  <2>1. state'[c] # "Request_Parsed" /\ asked'[c] = Len(answers'[c])
    BY <1>1, <1>3, <1>8 DEF IInv, TypeOK
  <2>2. Len(answers'[c]) \in Nat
    BY <1>3
  <2>3. \A d \in Conns \ {c} : state'[d] = state[d]
    BY <1>1 DEF IInv, TypeOK
  <2> QED
    BY <1>1, <1>3, <2>1, <2>2, <2>3, FrameOthersAnswers
<1> QED
  BY <1>9, <1>10, <1>11, <1>12, <1>13, <1>14, <1>15 DEF IInv

\* DumpCrash: the process ends where it is, and may have built the response.
LEMMA DumpCrashInv ==
  ASSUME IInv, NEW c \in Conns, NEW o \in Outcomes, DumpCrash(c, o)
  PROVE  IInv'
<1>1. /\ UNCHANGED <<poolVars, copied, state, isOpen, readBuffer, writeBuffer, req,
                     envVars, asked>>
      /\ pc = "processHandler" /\ pc' = "killed" /\ clients[it] = c /\ isOpen[c]
      /\ Parsed(req[c]) /\ ~req[c].isCGI
      /\ \/ UNCHANGED <<res, answers>>
         \/ res' = [res EXCEPT ![c] = Response(c, o)] /\ answers' = Answered(c, o)
  BY DEF DumpCrash, Processing
<1>2. /\ Response(c, o) \in Responses /\ PointersInRange(Response(c, o))
      /\ Response(c, o).CGIout => req[c].isCGI
      /\ Response(c, o) # NULL
  BY <1>1, ResponseType, SelectAssumption
<1>3. /\ answers' \in [Conns -> Seq(Nat)]
      /\ \A d \in Conns \ {c} : answers'[d] = answers[d]
      /\ answers[c] # <<>> => answers'[c] # <<>>
  <2>1. CASE UNCHANGED answers
    BY <2>1 DEF IInv, TypeOK
  <2>2. CASE answers' = Answered(c, o)
    BY <1>1, <2>2, AnsweredStep
  <2> QED
    BY <1>1, <2>1, <2>2
<1>4. /\ res' \in [Conns -> Responses \cup {NULL}]
      /\ \A d \in Conns \ {c} : res'[d] = res[d]
      /\ res'[c] = res[c] \/ res'[c] = Response(c, o)
  <2>1. res \in [Conns -> Responses \cup {NULL}]
    BY DEF IInv, TypeOK
  <2>2. CASE UNCHANGED res
    BY <2>1, <2>2
  <2>3. CASE res' = [res EXCEPT ![c] = Response(c, o)]
    BY <1>2, <2>1, <2>3
  <2> QED
    BY <1>1, <2>2, <2>3
<1>5. TypeOK'
  BY <1>1, <1>3, <1>4 DEF IInv, TypeOK, Points, poolVars, envVars
<1>6. IteratorInRange' /\ BacklogReady' /\ HandlerHasWork' /\ RequestsRest'
  BY <1>1, FrameIterator, FrameBacklog, FrameRequest DEF HandlerHasWork, poolVars, envVars
<1>7. ResponsesInRange' /\ FreshResponse' /\ BuffersFit'
  BY <1>1, <1>2, <1>4 DEF IInv, ResponsesInRange, FreshResponse, BuffersFit
<1>8. WriterHasResponse' /\ ProgramAnswers'
  <2>1. ~Working(c)
    BY <1>1, IdleOutside
  <2>2. \A d \in Conns : Working(d) => UNCHANGED <<state[d], req[d].isCGI, piped(d)>>
    BY <1>1, <1>4, <2>1 DEF piped
  <2>3. \A d \in Conns : state'[d] \in {"Writing_Response", "Done_Response"} =>
          res'[d] # NULL /\ (res'[d].CGIout => req'[d].isCGI)
    BY <1>1, <1>2, <1>4 DEF IInv, WriterHasResponse
  <2>4. ProgramAnswers'
    BY <1>1, <1>3 DEF IInv, ProgramAnswers, Working, envVars
  <2> QED
    BY <1>1, <2>2, <2>3, <2>4, FrameWriters DEF envVars
<1>9. ClosedByPeer' /\ OneAnswerEach'
  <2>1. OneAnswerEach'
    BY <1>1 DEF OneAnswerEach
  <2> QED
    BY <1>1, <2>1, FrameClosed DEF envVars
<1>10. AcceptedOnce'
  <2>1. c \in InPool /\ InPool' = InPool
    BY <1>1, FramePool DEF InPool, IInv, IteratorInRange, poolVars
  <2>2. \A d : Waiting(d)' = Waiting(d)
    BY <1>1 DEF Waiting, envVars
  <2> QED
    BY <1>1, <1>3, <2>1, <2>2 DEF IInv, AcceptedOnce, envVars
<1> QED
  BY <1>5, <1>6, <1>7, <1>8, <1>9, <1>10 DEF IInv

-----------------------------------------------------------------------------
(* writeHandler                                                            *)

\* Its end: a response is deleted when all of it was dumped, never before.
LEMMA EndResponseStep ==
  ASSUME IInv, NEW c \in Conns, EndResponse(c), UNCHANGED <<req, cgi, answers>>,
         pc = "writeHandler"
  PROVE  /\ state' \in [Conns -> ConnStates] /\ res' \in [Conns -> Responses \cup {NULL}]
         /\ \A d \in Conns \ {c} : state'[d] = state[d]
         /\ (state'[c] = "Request_Parsed") = (state[c] = "Request_Parsed")
         /\ ResponsesInRange' /\ FreshResponse' /\ WriterHasResponse' /\ ProgramAnswers'
<1>1. CASE state[c] = "Done_Response"
  <2>1. /\ state' = [state EXCEPT ![c] = "Ready_ForRead"]
        /\ res' = [res EXCEPT ![c] = NULL]
    BY <1>1 DEF EndResponse
  <2>2. ~Working(c)
    BY <1>1, IdleOutside
  <2>3. WriterHasResponse'
    BY <2>1, <2>2, FrameWriters DEF IInv, TypeOK, WriterHasResponse, piped
  <2> QED
    BY <1>1, <2>1, <2>3, FramePrograms
       DEF IInv, TypeOK, ConnStates, ResponsesInRange, FreshResponse
<1>2. CASE state[c] # "Done_Response"
  <2>1. UNCHANGED <<state, res>>
    BY <1>2 DEF EndResponse
  <2>2. WriterHasResponse'
    BY <2>1 DEF IInv, WriterHasResponse, piped
  <2> QED
    BY <2>1, <2>2, FramePrograms DEF IInv, TypeOK, ResponsesInRange, FreshResponse
<1> QED
  BY <1>1, <1>2

\* WriteSome: nothing leaves the buffer but to the socket.
LEMMA WriteSomeInv ==
  ASSUME IInv, NEW c \in Conns, WriteHandler(c), WriteSome(c)
  PROVE  IInv'
<1> DEFINE k == least(room(c), Len(writeBuffer[c]) - copied)
           s == [sock[c] EXCEPT !.sent = @ \o SubSeq(writeBuffer[c], copied + 1, copied + k)]
<1>1. /\ pc = "writeHandler" /\ it \in 1..Len(clients) /\ clients[it] = c
      /\ UNCHANGED <<clients, read_set, write_set, isOpen, readBuffer, req, backlog, cgi,
                     asked, answers>>
      /\ sock' = [sock EXCEPT ![c] = s]
      /\ \/ /\ copied' = 0 /\ writeBuffer' = [writeBuffer EXCEPT ![c] = <<>>]
            /\ EndResponse(c) /\ pc' = "check_clients" /\ it' = it + 1
         \/ k > 0 /\ copied' = copied + k /\ UNCHANGED <<pc, it, state, writeBuffer, res>>
  BY DEF IInv, IteratorInRange, WriteHandler, Writing, WriteSome, NextClient, history
<1>2. /\ sock[c] \in Sockets /\ writeBuffer[c] \in Seq(Units) /\ copied \in Nat
      /\ sock[c].sent \in Seq(Units) /\ sock[c].rcvd \in Nat /\ SndBuf \in Nat
  BY SocketUpdates, SelectAssumption DEF IInv, TypeOK
<1>3. k \in Int /\ copied + k <= Len(writeBuffer[c])
  <2>1. Len(sock[c].sent) \in Nat /\ Len(writeBuffer[c]) \in Nat
    BY <1>2
  <2>2. room(c) \in Int
    BY <1>2, <2>1 DEF room
  <2> QED
    BY <1>2, <2>1, <2>2 DEF least
<1> HIDE DEF k
<1>4. s \in Sockets /\ s.fin = sock[c].fin /\ s.rst = sock[c].rst /\ s.phase = sock[c].phase
  <2> DEFINE u == SubSeq(writeBuffer[c], copied + 1, copied + k)
  <2>1. u \in Seq(Units)
    BY <1>2, <1>3, SubSeqProperties
  <2> HIDE DEF u
  <2>2. sock[c].sent \o u \in Seq(Units)
    BY <1>2, <2>1, ConcatProperties
  <2>3. s = [sock[c] EXCEPT !.sent = sock[c].sent \o u]
    BY DEF u
  <2> HIDE DEF s
  <2> QED
    BY <1>2, <2>2, <2>3, SocketUpdates DEF Sockets
<1> HIDE DEF s
<1>5. /\ state' \in [Conns -> ConnStates] /\ res' \in [Conns -> Responses \cup {NULL}]
      /\ \A d \in Conns \ {c} : state'[d] = state[d]
      /\ (state'[c] = "Request_Parsed") = (state[c] = "Request_Parsed")
      /\ ResponsesInRange' /\ FreshResponse' /\ WriterHasResponse' /\ ProgramAnswers'
  <2>1. CASE EndResponse(c)
    BY <1>1, <2>1, EndResponseStep
  <2>2. CASE UNCHANGED <<state, res>>
    <3>1. WriterHasResponse'
      BY <1>1, <2>2 DEF IInv, WriterHasResponse, piped
    <3> QED
      BY <1>1, <2>2, <3>1, FramePrograms DEF IInv, TypeOK, ResponsesInRange, FreshResponse
  <2> QED
    BY <1>1, <2>1, <2>2
<1>6. TypeOK'
  <2>1. sock' \in [Conns -> Sockets]
    BY <1>1, <1>4 DEF IInv, TypeOK
  <2>2. copied' \in Nat
    BY <1>1, <1>2, <1>3
  <2>3. it' \in Nat /\ pc' \in Points
    <3>1. it \in Nat /\ pc \in Points /\ "check_clients" \in Points
      BY DEF IInv, TypeOK, Points
    <3>2. (it' = it \/ it' = it + 1) /\ (pc' = pc \/ pc' = "check_clients")
      BY <1>1
    <3> QED
      BY <3>1, <3>2
  <2>4. writeBuffer' \in [Conns -> Seq(Units)]
    <3>1. <<>> \in Seq(Units) /\ writeBuffer \in [Conns -> Seq(Units)]
      BY DEF IInv, TypeOK
    <3>2. \A e \in Seq(Units) : [writeBuffer EXCEPT ![c] = e] \in [Conns -> Seq(Units)]
      BY <3>1
    <3> QED
      BY <1>1, <3>1, <3>2
  <2> QED
    BY <1>1, <1>5, <2>1, <2>2, <2>3, <2>4 DEF IInv, TypeOK
<1>7. IteratorInRange' /\ BacklogReady' /\ RequestsRest' /\ HandlerHasWork'
  BY <1>1, FrameIterator, FrameBacklog, FrameRequest DEF HandlerHasWork
<1>8. BuffersFit'
  <2>1. \A d \in Conns : writeBuffer'[d] = writeBuffer[d] \/ writeBuffer'[d] = <<>>
    BY <1>1 DEF IInv, TypeOK
  <2>2. BufSize \in Nat /\ Len(<<>>) = 0
    BY SelectAssumption
  <2> QED
    BY <1>1, <2>1, <2>2 DEF IInv, BuffersFit
<1>9. ClosedByPeer' /\ AcceptedOnce'
  <2>1. \A d \in Conns : /\ sock'[d].fin = sock[d].fin /\ sock'[d].rst = sock[d].rst
                         /\ sock'[d].phase = sock[d].phase
    BY <1>1, <1>4 DEF IInv, TypeOK
  <2> QED
    BY <1>1, <2>1, FrameClosed, FrameAccepted, FramePool DEF history
<1>10. OneAnswerEach'
  <2>1. \A d \in Conns : (state'[d] = "Request_Parsed") = (state[d] = "Request_Parsed")
    BY <1>5
  <2> QED
    BY <1>1, <2>1 DEF IInv, OneAnswerEach
<1> QED
  BY <1>5, <1>6, <1>7, <1>8, <1>9, <1>10 DEF IInv

\* WriteError: the connection is marked closed because it was aborted.
LEMMA WriteErrorInv ==
  ASSUME IInv, NEW c \in Conns, WriteHandler(c), WriteError(c)
  PROVE  IInv'
<1> DEFINE r == IF copied > 0 THEN sock[c].rst ELSE "reported"
           s == [sock[c] EXCEPT !.rst = r]
<1>1. /\ pc = "writeHandler" /\ it \in 1..Len(clients) /\ clients[it] = c
      /\ UNCHANGED <<clients, read_set, write_set, readBuffer, req, backlog, cgi,
                     asked, answers, writeBuffer>>
      /\ sock' = [sock EXCEPT ![c] = s]
      /\ isOpen' = [isOpen EXCEPT ![c] = FALSE] /\ copied' = 0
      /\ EndResponse(c) /\ pc' = "check_clients" /\ it' = it + 1
      /\ sock[c].rst = "pending"
  BY DEF IInv, IteratorInRange, WriteHandler, Writing, WriteError, NextClient, history
<1>2. s \in Sockets /\ s.rst # "no" /\ s.phase = sock[c].phase
  <2>1. sock[c] \in Sockets /\ r \in Resets /\ r # "no"
    BY <1>1 DEF IInv, TypeOK, Resets
  <2> HIDE DEF r
  <2>2. s \in Sockets
    BY <2>1, SocketUpdates
  <2> QED
    BY <2>1, <2>2 DEF Sockets
<1> HIDE DEF s, r
<1>3. /\ state' \in [Conns -> ConnStates] /\ res' \in [Conns -> Responses \cup {NULL}]
      /\ \A d \in Conns \ {c} : state'[d] = state[d]
      /\ ResponsesInRange' /\ FreshResponse' /\ WriterHasResponse' /\ ProgramAnswers'
  BY <1>1, EndResponseStep
<1>4. TypeOK'
  <2>1. sock' \in [Conns -> Sockets]
    BY <1>1, <1>2 DEF IInv, TypeOK
  <2>2. it' \in Nat /\ pc' \in Points /\ isOpen' \in [Conns -> BOOLEAN]
    BY <1>1 DEF IInv, TypeOK, Points
  <2> QED
    BY <1>1, <1>3, <2>1, <2>2 DEF IInv, TypeOK
<1>5. IteratorInRange' /\ BacklogReady' /\ RequestsRest' /\ HandlerHasWork'
  BY <1>1, FrameIterator, FrameBacklog, FrameRequest DEF HandlerHasWork
<1>6. BuffersFit'
  BY <1>1 DEF IInv, BuffersFit
<1>7. ClosedByPeer'
  BY <1>1, <1>2 DEF IInv, TypeOK, ClosedByPeer
<1>8. AcceptedOnce'
  <2>1. \A d \in Conns : sock'[d].phase = sock[d].phase
    BY <1>1, <1>2 DEF IInv, TypeOK
  <2> QED
    BY <1>1, <2>1, FrameAccepted, FramePool DEF history
<1>9. OneAnswerEach'
  <2>1. ~isOpen'[c] /\ \A d \in Conns \ {c} : isOpen'[d] = isOpen[d]
    BY <1>1 DEF IInv, TypeOK
  <2> QED
    BY <1>1, <1>3, <2>1, FrameOthersAnswers
<1> QED
  BY <1>3, <1>4, <1>5, <1>6, <1>7, <1>8, <1>9 DEF IInv

\* BrokenPipe: the process ends where it is.
LEMMA BrokenPipeInv ==
  ASSUME IInv, NEW c \in Conns, WriteHandler(c), BrokenPipe(c)
  PROVE  IInv'
<1>1. /\ UNCHANGED <<poolVars, copied, connVars, envVars, history>>
      /\ pc = "writeHandler" /\ pc' = "killed"
  BY DEF WriteHandler, Writing, BrokenPipe, poolVars, connVars, envVars
<1>2. TypeOK'
  BY <1>1 DEF IInv, TypeOK, Points, poolVars, connVars, envVars, history
<1>3. IteratorInRange' /\ BacklogReady' /\ HandlerHasWork'
  BY <1>1, FrameIterator, FrameBacklog DEF HandlerHasWork, poolVars, envVars
<1>4. AcceptedOnce' /\ ClosedByPeer' /\ OneAnswerEach'
  BY <1>1, FrameAccepted, FrameClosed, FrameAnswers, FramePool
     DEF poolVars, connVars, envVars, history
<1> QED
  BY <1>1, <1>2, <1>3, <1>4, FrameConn DEF IInv, envVars, history

-----------------------------------------------------------------------------
(* pipeHandler                                                             *)

\* A read of the pipe takes no more than the write buffer has room for.
LEMMA PipeHandlerInv ==
  ASSUME IInv, NEW c \in Conns, PipeHandler(c)
  PROVE  IInv'
<1> DEFINE space == BufSize - Len(writeBuffer[c])
           k     == least(space, cgi[c].wrote - cgi[c].got)
           u     == [i \in 1..k |-> <<Len(answers[c]), cgi[c].got + i>>]
           p     == [cgi[c] EXCEPT !.got = @ + k]
<1>1. /\ pc = "check_clients" /\ it \in 1..Len(clients) /\ clients[it] = c
      /\ state[c] = "Writing_Response"
      /\ UNCHANGED <<clients, it, read_set, write_set, copied, isOpen, readBuffer, req, res,
                     sock, backlog, history>>
      /\ pc' = "writeHandler"
  BY DEF IInv, IteratorInRange, PipeHandler, ReadPipe, Handling, poolVars
<1>11. \/ UNCHANGED <<state, writeBuffer, cgi>>
      \/ /\ k > 0 /\ UNCHANGED state
         /\ writeBuffer' = [writeBuffer EXCEPT ![c] = writeBuffer[c] \o u]
         /\ cgi' = [cgi EXCEPT ![c] = p]
      \/ /\ state' = [state EXCEPT ![c] = "Done_Response"]
         /\ cgi[c].wrote = cgi[c].got /\ ~cgi[c].alive
         /\ UNCHANGED <<writeBuffer, cgi>>
  BY DEF PipeHandler, ReadPipe
<1>2. /\ cgi[c] \in Programs /\ cgi[c].wrote \in Nat /\ cgi[c].got \in Nat
      /\ writeBuffer[c] \in Seq(Units) /\ Len(answers[c]) \in Nat
      /\ space \in Nat /\ Len(writeBuffer[c]) + space = BufSize
  BY SelectAssumption DEF IInv, TypeOK, BuffersFit, Programs
<1>3. k \in Int /\ k <= space /\ k <= cgi[c].wrote - cgi[c].got
  BY <1>2 DEF least
<1> HIDE DEF space, k
<1>4. ASSUME k > 0
      PROVE  /\ p \in Programs /\ p.alive = cgi[c].alive /\ cgi[c].got < cgi[c].wrote
             /\ writeBuffer[c] \o u \in Seq(Units) /\ Len(writeBuffer[c] \o u) <= BufSize
  <2>1. cgi[c].got + k \in Nat
    BY <1>2, <1>3, <1>4
  <2>2. p \in Programs /\ p.alive = cgi[c].alive
    BY <1>2, <2>1 DEF Programs
  <2>3. u \in Seq(Units) /\ Len(u) = k
    BY <1>2, <1>3, <1>4 DEF Units
  <2> HIDE DEF u, p
  <2>4. /\ writeBuffer[c] \o u \in Seq(Units)
        /\ Len(writeBuffer[c] \o u) = Len(writeBuffer[c]) + Len(u)
    BY <1>2, <2>3, ConcatProperties
  <2>5. cgi[c].got < cgi[c].wrote
    BY <1>2, <1>3, <1>4
  <2>6. Len(writeBuffer[c] \o u) <= BufSize
    BY <1>2, <1>3, <2>3, <2>4
  <2> QED
    BY <2>2, <2>4, <2>5, <2>6
<1> HIDE DEF u, p
<1>5. TypeOK'
  <2>1. pc' \in Points /\ state' \in [Conns -> ConnStates]
    BY <1>1, <1>11 DEF IInv, TypeOK, Points, ConnStates
  <2>2. writeBuffer' \in [Conns -> Seq(Units)] /\ cgi' \in [Conns -> Programs]
    <3>1. CASE UNCHANGED <<writeBuffer, cgi>>
      BY <3>1 DEF IInv, TypeOK
    <3>2. CASE /\ k > 0
               /\ writeBuffer' = [writeBuffer EXCEPT ![c] = writeBuffer[c] \o u]
               /\ cgi' = [cgi EXCEPT ![c] = p]
      BY <1>4, <3>2 DEF IInv, TypeOK
    <3> QED
      BY <1>11, <3>1, <3>2
  <2> QED
    BY <1>1, <2>1, <2>2 DEF IInv, TypeOK, history
<1>6. IteratorInRange' /\ BacklogReady' /\ RequestsRest' /\ HandlerHasWork'
  BY <1>1, FrameIterator, FrameBacklog, FrameRequest DEF HandlerHasWork
<1>7. ResponsesInRange' /\ FreshResponse'
  BY <1>1, <1>11 DEF IInv, TypeOK, ResponsesInRange, FreshResponse
<1>12. WriterHasResponse' /\ ProgramAnswers'
  <2>1. \A d \in Conns : Working(d)' => Working(d)
    <3>1. CASE UNCHANGED cgi
      BY <3>1 DEF Working
    <3>2. CASE k > 0 /\ cgi' = [cgi EXCEPT ![c] = p]
      BY <1>4, <3>2 DEF IInv, TypeOK, Working
    <3> QED
      BY <1>11, <3>1, <3>2
  <2>2. \A d \in Conns : Working(d)' => state'[d] = state[d]
    <3>1. CASE UNCHANGED state
      BY <3>1
    <3>2. CASE /\ state' = [state EXCEPT ![c] = "Done_Response"]
               /\ cgi[c].wrote = cgi[c].got /\ ~cgi[c].alive /\ UNCHANGED cgi
      BY <1>2, <3>2 DEF IInv, TypeOK, Working
    <3> QED
      BY <1>11, <3>1, <3>2
  <2>3. \A d \in Conns : piped(d)' = piped(d)
    BY <1>1 DEF piped
  <2>4. \A d \in Conns : Working(d)' =>
          (state[d] = "Writing_Response" /\ req[d].isCGI /\ piped(d))'
    BY <1>1, <2>1, <2>2, <2>3 DEF IInv, WriterHasResponse, Working
  <2>5. \A d \in Conns : state'[d] \in {"Writing_Response", "Done_Response"} =>
          res'[d] # NULL /\ (res'[d].CGIout => req'[d].isCGI)
    BY <1>1, <1>11 DEF IInv, TypeOK, WriterHasResponse
  <2> QED
    BY <1>1, <2>1, <2>4, <2>5 DEF IInv, WriterHasResponse, ProgramAnswers, Working, history
<1>8. BuffersFit'
  BY <1>1, <1>11, <1>4 DEF IInv, TypeOK, BuffersFit
<1>9. ClosedByPeer' /\ AcceptedOnce'
  BY <1>1, FrameClosed, FrameAccepted, FramePool
<1>10. OneAnswerEach'
  <2>1. \A d \in Conns : (state'[d] = "Request_Parsed") = (state[d] = "Request_Parsed")
    BY <1>1, <1>11 DEF IInv, TypeOK
  <2> QED
    BY <1>1, <2>1 DEF IInv, OneAnswerEach, history
<1> QED
  BY <1>5, <1>6, <1>7, <1>8, <1>9, <1>10, <1>12 DEF IInv

-----------------------------------------------------------------------------
(* check_server                                                            *)

\* A connection is accepted when there is one, and starts with nothing of an
\* earlier one.
LEMMA CheckServerInv ==
  ASSUME IInv, CheckServer
  PROVE  IInv'
<1>1. /\ pc = "check_server" /\ pc' = "Select"
      /\ UNCHANGED <<it, write_set, copied, sock, cgi, history>>
  BY DEF CheckServer
<1>2. CASE Listen \notin read_set
  <2>1. UNCHANGED <<clients, read_set, connVars, backlog>>
    BY <1>2 DEF CheckServer
  <2>2. TypeOK'
    BY <1>1, <2>1 DEF IInv, TypeOK, Points, connVars, history
  <2>3. IteratorInRange' /\ BacklogReady' /\ HandlerHasWork'
    BY <1>1, <2>1, FrameIterator, FrameBacklog DEF HandlerHasWork
  <2>4. AcceptedOnce' /\ ClosedByPeer' /\ OneAnswerEach'
    BY <1>1, <2>1, FrameAccepted, FrameClosed, FrameAnswers, FramePool DEF connVars, history
  <2> QED
    BY <1>1, <2>1, <2>2, <2>3, <2>4, FrameConn DEF IInv, history
<1>3. CASE Listen \in read_set
  <2> DEFINE c == Head(backlog)
  <2>1. /\ backlog' = Tail(backlog) /\ clients' = Append(clients, c)
        /\ read_set' = read_set \cup {Sock(c)}
        /\ state'       = [state EXCEPT ![c] = "Ready_ForRead"]
        /\ isOpen'      = [isOpen EXCEPT ![c] = TRUE]
        /\ readBuffer'  = [readBuffer EXCEPT ![c] = <<>>]
        /\ writeBuffer' = [writeBuffer EXCEPT ![c] = <<>>]
        /\ req'         = [req EXCEPT ![c] = NewRequest]
        /\ res'         = [res EXCEPT ![c] = NULL]
    BY <1>3 DEF CheckServer
  <2>2. backlog # <<>> /\ backlog \in Seq(Conns)
    BY <1>1, <1>3 DEF IInv, TypeOK, BacklogReady
  <2>3. /\ c \in Conns /\ c = backlog[1] /\ 1 \in DOMAIN backlog
        /\ Tail(backlog) \in Seq(Conns)
        /\ \A i \in DOMAIN Tail(backlog) :
             i + 1 \in DOMAIN backlog /\ Tail(backlog)[i] = backlog[i + 1]
    <3>1. Head(backlog) = backlog[1]
      OBVIOUS
    <3>2. /\ Head(backlog) \in Conns /\ Tail(backlog) \in Seq(Conns)
          /\ Len(Tail(backlog)) = Len(backlog) - 1
          /\ \A i \in 1..Len(Tail(backlog)) : Tail(backlog)[i] = backlog[i + 1]
      BY <2>2, HeadTailProperties
    <3>3. Len(backlog) \in Nat \ {0}
      BY <2>2
    <3> QED
      BY <2>2, <3>1, <3>2, <3>3
  <2> HIDE DEF c
  <2>4. /\ clients' \in Seq(Conns) /\ Len(clients') = Len(clients) + 1
        /\ InPool' = InPool \cup {c}
    <3>1. clients \in Seq(Conns)
      BY DEF IInv, TypeOK
    <3>2. /\ clients' \in Seq(Conns) /\ Len(clients') = Len(clients) + 1
          /\ \A i \in 1..Len(clients) : clients'[i] = clients[i]
          /\ clients'[Len(clients) + 1] = c
      BY <2>1, <2>3, <3>1, AppendProperties
    <3>3. DOMAIN clients = 1..Len(clients) /\ DOMAIN clients' = 1..(Len(clients) + 1)
          /\ Len(clients) \in Nat
      BY <3>1, <3>2
    <3>4. \A i \in 1..(Len(clients) + 1) : i \in 1..Len(clients) \/ i = Len(clients) + 1
      BY <3>3
    <3> QED
      BY <3>2, <3>3, <3>4 DEF InPool
  <2>5. TypeOK'
    <3>1. Sock(c) \in Descriptors
      BY <2>3 DEF Sock, Descriptors
    <3>2. req' \in [Conns -> Requests] /\ res' \in [Conns -> Responses \cup {NULL}]
      BY <2>1, NewType DEF IInv, TypeOK
    <3>3. /\ pc' \in Points /\ state' \in [Conns -> ConnStates] /\ isOpen' \in [Conns -> BOOLEAN]
      BY <1>1, <2>1 DEF IInv, TypeOK, Points, ConnStates
    <3>4. readBuffer' \in [Conns -> Seq(Lines)] /\ writeBuffer' \in [Conns -> Seq(Units)]
      <4>1. <<>> \in Seq(Lines) /\ <<>> \in Seq(Units)
        OBVIOUS
      <4>2. /\ readBuffer \in [Conns -> Seq(Lines)]
            /\ writeBuffer \in [Conns -> Seq(Units)]
        BY DEF IInv, TypeOK
      <4>3. /\ \A e \in Seq(Lines) : [readBuffer EXCEPT ![c] = e] \in [Conns -> Seq(Lines)]
            /\ \A e \in Seq(Units) : [writeBuffer EXCEPT ![c] = e] \in [Conns -> Seq(Units)]
        BY <4>2
      <4> QED
        BY <2>1, <4>1, <4>3
    <3>5. read_set' \subseteq Descriptors
      BY <2>1, <3>1 DEF IInv, TypeOK
    <3> QED
      BY <1>1, <2>1, <2>3, <2>4, <3>2, <3>3, <3>4, <3>5 DEF IInv, TypeOK, history
  <2>6. IteratorInRange' /\ BacklogReady' /\ HandlerHasWork'
    <3>1. Len(clients) \in Nat
      BY DEF IInv, TypeOK
    <3> QED
      BY <1>1, <2>4, <3>1 DEF IInv, IteratorInRange, BacklogReady, HandlerHasWork
  <2>7. RequestsRest'
    <3>1. Resting(NewRequest) /\ NewRequest.state # "ParsedCorrect"
      BY DEF Resting, NewRequest
    <3> QED
      BY <2>1, <3>1 DEF IInv, TypeOK, RequestsRest
  <2>8. ResponsesInRange' /\ FreshResponse' /\ WriterHasResponse' /\ ProgramAnswers'
    <3>1. Waiting(c)
      BY <2>3 DEF Waiting
    <3>2. ~Working(c)
      BY <2>3, <3>1 DEF IInv, AcceptedOnce, ProgramAnswers
    <3>3. WriterHasResponse'
      BY <1>1, <2>1, <3>2, FrameWriters DEF IInv, TypeOK, WriterHasResponse, piped
    <3> QED
      BY <1>1, <2>1, <3>3, FramePrograms
         DEF IInv, TypeOK, ResponsesInRange, FreshResponse, history
  <2>9. BuffersFit'
    <3>1. BufSize \in Nat /\ Len(<<>>) = 0
      BY SelectAssumption
    <3>2. \A d \in Conns : /\ readBuffer'[d] = readBuffer[d] \/ readBuffer'[d] = <<>>
                           /\ writeBuffer'[d] = writeBuffer[d] \/ writeBuffer'[d] = <<>>
      BY <2>1 DEF IInv, TypeOK
    <3> QED
      BY <3>1, <3>2 DEF IInv, BuffersFit
  <2>10. ClosedByPeer'
    BY <1>1, <2>1 DEF IInv, TypeOK, ClosedByPeer
  <2>11. Waiting(c)
    BY <2>3 DEF Waiting
  <2>12. \A d : Waiting(d)' => Waiting(d) /\ d # c
    <3>1. ASSUME NEW d, Waiting(d)'
          PROVE  Waiting(d) /\ d # c
      <4>1. PICK i \in DOMAIN Tail(backlog) : Tail(backlog)[i] = d
        BY <2>1, <3>1 DEF Waiting
      <4>2. i + 1 \in DOMAIN backlog /\ backlog[i + 1] = d /\ i + 1 # 1
        BY <2>3, <4>1
      <4>3. backlog[i + 1] # backlog[1]
        BY <2>3, <4>2 DEF IInv, AcceptedOnce
      <4> QED
        BY <2>3, <4>2, <4>3 DEF Waiting
    <3> QED
      BY <3>1
  <2>13. AcceptedOnce'
    <3>1. (\A i, j \in DOMAIN backlog : backlog[i] = backlog[j] => i = j)'
      <4>1. ASSUME NEW i \in DOMAIN Tail(backlog), NEW j \in DOMAIN Tail(backlog),
                   Tail(backlog)[i] = Tail(backlog)[j]
            PROVE  i = j
        <5>1. i + 1 = j + 1
          BY <2>3, <4>1 DEF IInv, AcceptedOnce
        <5>2. i \in Nat /\ j \in Nat
          BY <2>3
        <5> QED
          BY <5>1, <5>2
      <4> QED
        BY <2>1, <4>1
    <3> QED
      BY <1>1, <2>4, <2>11, <2>12, <3>1 DEF IInv, AcceptedOnce, history
  <2>14. OneAnswerEach'
    <3>1. asked[c] = 0 /\ answers[c] = <<>>
      BY <2>3, <2>11 DEF IInv, AcceptedOnce
    <3>2. \A d \in Conns \ {c} : isOpen'[d] = isOpen[d] /\ state'[d] = state[d]
      BY <2>1 DEF IInv, TypeOK
    <3>3. state'[c] = "Ready_ForRead"
      BY <2>1, <2>3 DEF IInv, TypeOK
    <3>4. asked'[c] = Len(answers'[c]) + IF state'[c] = "Request_Parsed" THEN 1 ELSE 0
      <4>1. Len(<<>>) = 0
        OBVIOUS
      <4> QED
        BY <1>1, <3>1, <3>3, <4>1 DEF history
    <3> QED
      BY <1>1, <2>3, <3>2, <3>4, FrameOthersAnswers DEF history
  <2> QED
    BY <2>5, <2>6, <2>7, <2>8, <2>9, <2>10, <2>13, <2>14 DEF IInv
<1> QED
  BY <1>2, <1>3

-----------------------------------------------------------------------------
(* Peers and CGI programs                                                  *)

\* What a step of a peer does to a socket leaves the server alone.
LEMMA PeerFrame ==
  ASSUME IInv, NEW c \in Conns, NEW s \in Sockets,
         sock' = [sock EXCEPT ![c] = s], s.phase = sock[c].phase,
         sock[c].fin => s.fin, sock[c].rst # "no" => s.rst # "no",
         UNCHANGED <<serverVars, backlog, cgi, history>>
  PROVE  IInv'
<1>1. sock' \in [Conns -> Sockets]
  BY DEF IInv, TypeOK
<1>2. TypeOK'
  BY <1>1 DEF IInv, TypeOK, serverVars, poolVars, connVars, history
<1>3. IteratorInRange' /\ HandlerHasWork' /\ BacklogReady'
  BY DEF IInv, IteratorInRange, HandlerHasWork, BacklogReady, serverVars, poolVars, connVars
<1>4. /\ RequestsRest' /\ ResponsesInRange' /\ FreshResponse' /\ WriterHasResponse'
      /\ ProgramAnswers' /\ BuffersFit'
  BY FrameConn DEF serverVars, history
<1>5. ClosedByPeer'
  BY DEF IInv, TypeOK, ClosedByPeer, serverVars, connVars
<1>6. AcceptedOnce' /\ OneAnswerEach'
  <2>1. \A d \in Conns : sock'[d].phase = sock[d].phase
    BY DEF IInv, TypeOK
  <2> QED
    BY <2>1, FrameAccepted, FrameAnswers, FramePool DEF serverVars, poolVars, connVars, history
<1> QED
  BY <1>2, <1>3, <1>4, <1>5, <1>6 DEF IInv

\* PeerConnect: a connection waits in the backlog that was in no other place.
LEMMA PeerConnectInv ==
  ASSUME IInv, NEW c \in Conns, PeerConnect(c)
  PROVE  IInv'
<1> DEFINE s == [sock[c] EXCEPT !.phase = "open"]
<1>1. /\ sock' = [sock EXCEPT ![c] = s] /\ sock[c].phase = "none"
      /\ backlog' = Append(backlog, c)
      /\ UNCHANGED <<serverVars, cgi, history>>
  BY DEF PeerConnect
<1>2. s \in Sockets /\ s.rst = sock[c].rst /\ s.fin = sock[c].fin /\ s.phase = "open"
  <2>1. sock[c] \in Sockets /\ "open" \in Phases
    BY DEF IInv, TypeOK, Phases
  <2>2. s \in Sockets
    BY <2>1, SocketUpdates
  <2> QED
    BY <2>1, <2>2 DEF Sockets
<1> HIDE DEF s
<1>3. /\ backlog \in Seq(Conns) /\ Len(backlog) \in Nat
      /\ backlog' \in Seq(Conns) /\ backlog' # <<>> /\ Len(backlog') = Len(backlog) + 1
      /\ \A i \in 1..Len(backlog) : backlog'[i] = backlog[i]
      /\ backlog'[Len(backlog) + 1] = c
  <2>1. backlog \in Seq(Conns)
    BY DEF IInv, TypeOK
  <2> QED
    BY <1>1, <2>1, AppendProperties
<1>4. TypeOK'
  <2>1. sock' \in [Conns -> Sockets]
    BY <1>1, <1>2 DEF IInv, TypeOK
  <2> QED
    BY <1>1, <1>3, <2>1 DEF IInv, TypeOK, serverVars, poolVars, connVars, history
<1>5. IteratorInRange' /\ HandlerHasWork' /\ BacklogReady'
  BY <1>1, <1>3 DEF IInv, IteratorInRange, HandlerHasWork, BacklogReady,
                    serverVars, poolVars, connVars
<1>6. /\ RequestsRest' /\ ResponsesInRange' /\ FreshResponse' /\ WriterHasResponse'
      /\ ProgramAnswers' /\ BuffersFit'
  BY <1>1, FrameConn DEF serverVars, history
<1>7. \A d \in Conns : /\ sock'[d].fin = sock[d].fin /\ sock'[d].rst = sock[d].rst
                       /\ sock'[d].phase = IF d = c THEN "open" ELSE sock[d].phase
  BY <1>1, <1>2 DEF IInv, TypeOK
<1>8. ClosedByPeer' /\ OneAnswerEach'
  BY <1>1, <1>7, FrameClosed, FrameAnswers DEF serverVars, connVars, history
<1>9. AcceptedOnce'
  <2>1. DOMAIN backlog = 1..Len(backlog) /\ DOMAIN backlog' = 1..(Len(backlog) + 1)
        /\ \A i \in DOMAIN backlog' : i \in DOMAIN backlog \/ i = Len(backlog) + 1
    BY <1>3
  <2>2. ~Waiting(c) /\ c \notin InPool /\ asked[c] = 0 /\ answers[c] = <<>>
    BY <1>1 DEF IInv, AcceptedOnce
  <2>3. (\A i, j \in DOMAIN backlog : backlog[i] = backlog[j] => i = j)'
    <3>1. \A i \in DOMAIN backlog : backlog'[i] = backlog[i] /\ backlog[i] # c
      BY <1>3, <2>1, <2>2 DEF Waiting
    <3>2. ASSUME NEW i \in DOMAIN backlog', NEW j \in DOMAIN backlog', backlog'[i] = backlog'[j]
          PROVE  i = j
      BY <1>3, <2>1, <3>1, <3>2 DEF IInv, AcceptedOnce
    <3> QED
      BY <3>2
  <2>4. \A d : Waiting(d)' => Waiting(d) \/ d = c
    BY <1>3, <2>1 DEF Waiting
  <2>5. InPool' = InPool /\ UNCHANGED <<asked, answers>>
    BY <1>1, FramePool DEF serverVars, poolVars, history
  <2> QED
    BY <1>7, <2>2, <2>3, <2>4, <2>5 DEF IInv, AcceptedOnce
<1> QED
  BY <1>4, <1>5, <1>6, <1>8, <1>9 DEF IInv

\* What a peer sends, closes, aborts or takes changes only its socket.
LEMMA PeerInv ==
  ASSUME IInv, NEW c \in Conns, PeerSend(c) \/ PeerClose(c) \/ PeerReset(c) \/ PeerRecv(c)
  PROVE  IInv'
<1>1. sock[c] \in Sockets
  BY SMTT(40) DEF IInv, TypeOK
<1>2. CASE PeerSend(c)
  <2>1. PICK n \in 1..Len(sock[c].todo) :
          sock' = [sock EXCEPT ![c].inq  = @ \o SubSeq(sock[c].todo, 1, n),
                               ![c].todo = SubSeq(@, n + 1, Len(@))]
    BY <1>2 DEF PeerSend
  <2> DEFINE a == SubSeq(sock[c].todo, 1, n)
             b == SubSeq(sock[c].todo, n + 1, Len(sock[c].todo))
             s == [sock[c] EXCEPT !.inq = sock[c].inq \o a, !.todo = b]
  <2>2. sock[c].todo \in Seq(Lines) /\ sock[c].inq \in Seq(Lines)
    BY <1>1, SocketUpdates
  <2>3. a \in Seq(Lines) /\ b \in Seq(Lines)
    BY <2>2, SubSeqProperties
  <2>4. sock' = [sock EXCEPT ![c] = s]
    BY <1>1, <2>1 DEF Sockets, IInv, TypeOK
  <2> HIDE DEF a, b
  <2>5. sock[c].inq \o a \in Seq(Lines)
    BY <2>2, <2>3, ConcatProperties
  <2>6. s \in Sockets /\ s.phase = sock[c].phase /\ s.fin = sock[c].fin /\ s.rst = sock[c].rst
    BY <1>1, <2>3, <2>5, SocketUpdates DEF Sockets
  <2> HIDE DEF s
  <2> QED
    BY <1>2, <2>4, <2>6, PeerFrame DEF PeerSend
<1>3. CASE PeerClose(c)
  <2> DEFINE s == [sock[c] EXCEPT !.fin = TRUE]
  <2>1. s \in Sockets /\ s.phase = sock[c].phase /\ s.fin /\ s.rst = sock[c].rst
    BY <1>1, SocketUpdates DEF Sockets
  <2>2. sock' = [sock EXCEPT ![c] = s]
    BY <1>3 DEF PeerClose
  <2> HIDE DEF s
  <2> QED
    BY <1>3, <2>1, <2>2, PeerFrame DEF PeerClose
<1>4. CASE PeerReset(c)
  <2> DEFINE s == [sock[c] EXCEPT !.rst = "pending"]
  <2>1. "pending" \in Resets
    BY DEF Resets
  <2>2. s \in Sockets /\ s.phase = sock[c].phase /\ s.fin = sock[c].fin /\ s.rst # "no"
    BY <1>1, <2>1, SocketUpdates DEF Sockets
  <2>3. sock' = [sock EXCEPT ![c] = s]
    BY <1>4 DEF PeerReset
  <2> HIDE DEF s
  <2> QED
    BY <1>4, <2>2, <2>3, PeerFrame DEF PeerReset
<1>5. CASE PeerRecv(c)
  <2> DEFINE s == [sock[c] EXCEPT !.rcvd = Len(sock[c].sent)]
  <2>1. Len(sock[c].sent) \in Nat
    <3>1. sock[c].sent \in Seq(Units)
      BY <1>1, SocketUpdates
    <3> QED
      BY <3>1
  <2>2. s \in Sockets /\ s.phase = sock[c].phase /\ s.fin = sock[c].fin /\ s.rst = sock[c].rst
    BY <1>1, <2>1, SocketUpdates DEF Sockets
  <2>3. sock' = [sock EXCEPT ![c] = s]
    BY <1>5 DEF PeerRecv
  <2> HIDE DEF s
  <2> QED
    BY <1>5, <2>2, <2>3, PeerFrame DEF PeerRecv
<1> QED
  BY <1>2, <1>3, <1>4, <1>5

\* What a CGI program does adds to its own answer.
LEMMA CGIInv ==
  ASSUME IInv, NEW c \in Conns, CGIWrite(c) \/ CGIExit(c)
  PROVE  IInv'
<1> DEFINE a == [answers[c] EXCEPT ![Len(answers[c])] = @ + 1]
<1>1. UNCHANGED <<serverVars, sock, backlog, asked>>
  BY DEF CGIWrite, CGIExit, history
<1>2. cgi' \in [Conns -> Programs]
  <2>1. cgi[c] \in Programs /\ cgi[c].wrote \in Nat
    BY DEF IInv, TypeOK, Programs
  <2>2. /\ [cgi[c] EXCEPT !.wrote = @ + 1] \in Programs
        /\ [cgi[c] EXCEPT !.alive = FALSE] \in Programs
    <3>1. cgi[c].wrote + 1 \in Nat
      BY <2>1
    <3>2. \A n \in Nat : [cgi[c] EXCEPT !.wrote = n] \in Programs
      BY <2>1 DEF Programs
    <3>3. [cgi[c] EXCEPT !.alive = FALSE] \in Programs
      BY <2>1 DEF Programs
    <3> QED
      BY <3>1, <3>2, <3>3
  <2>3. \/ cgi' = [cgi EXCEPT ![c] = [cgi[c] EXCEPT !.wrote = @ + 1]]
        \/ cgi' = [cgi EXCEPT ![c] = [cgi[c] EXCEPT !.alive = FALSE]]
    BY DEF CGIWrite, CGIExit
  <2> QED
    BY <2>2, <2>3 DEF IInv, TypeOK
<1>3. a \in Seq(Nat) /\ Len(a) = Len(answers[c])
  <2>1. answers[c] \in Seq(Nat) /\ Len(answers[c]) \in Nat
    BY DEF IInv, TypeOK
  <2>2. CASE Len(answers[c]) = 0
    <3>1. answers[c] \in [1..0 -> Nat]
      BY <2>1, <2>2, LenProperties
    <3>2. \A v : [answers[c] EXCEPT ![0] = v] = answers[c]
      BY <3>1
    <3> QED
      BY <2>1, <2>2, <3>2
  <2>3. CASE Len(answers[c]) # 0
    <3>1. Len(answers[c]) \in 1..Len(answers[c]) /\ answers[c][Len(answers[c])] + 1 \in Nat
      BY <2>1, <2>3
    <3> QED
      BY <2>1, <3>1, ExceptSeq
  <2> QED
    BY <2>2, <2>3
<1>4. UNCHANGED answers \/ answers' = [answers EXCEPT ![c] = a]
  BY DEF CGIWrite, CGIExit, history
<1> HIDE DEF a
<1>5. /\ answers' \in [Conns -> Seq(Nat)]
      /\ \A d \in Conns : Len(answers'[d]) = Len(answers[d])
  BY <1>3, <1>4 DEF IInv, TypeOK
<1>6. TypeOK'
  BY <1>1, <1>2, <1>5 DEF IInv, TypeOK, serverVars, poolVars, connVars
<1>7. IteratorInRange' /\ HandlerHasWork' /\ BacklogReady'
  BY <1>1 DEF IInv, IteratorInRange, HandlerHasWork, BacklogReady, serverVars, poolVars, connVars
<1>8. RequestsRest' /\ ResponsesInRange' /\ FreshResponse' /\ BuffersFit'
  BY <1>1 DEF IInv, RequestsRest, ResponsesInRange, FreshResponse, BuffersFit,
              serverVars, connVars
<1>11. WriterHasResponse' /\ ProgramAnswers'
  <2>1. cgi[c].alive
    BY DEF CGIWrite, CGIExit
  <2>2. Working(c) /\ answers[c] # <<>>
    BY <2>1 DEF IInv, ProgramAnswers, Working
  <2>3. \A d \in Conns \ {c} : cgi'[d] = cgi[d] /\ answers'[d] = answers[d]
    BY <1>4 DEF CGIWrite, CGIExit, IInv, TypeOK
  <2>4. \A d \in Conns : Working(d)' => Working(d)
    BY <2>2, <2>3 DEF Working
  <2>5. WriterHasResponse'
    BY <1>1, <2>4 DEF IInv, WriterHasResponse, Working, piped, serverVars, connVars
  <2>6. answers'[c] # <<>>
    <3>1. answers'[c] \in Seq(Nat) /\ answers[c] \in Seq(Nat) /\ Len(answers'[c]) = Len(answers[c])
      BY <1>5 DEF IInv, TypeOK
    <3> QED
      BY <2>2, <3>1, EmptySeq
  <2> QED
    BY <2>2, <2>3, <2>4, <2>5, <2>6 DEF IInv, ProgramAnswers
<1>9. ClosedByPeer' /\ OneAnswerEach'
  BY <1>1, <1>5, FrameClosed, FrameAnswers DEF serverVars, connVars
<1>10. AcceptedOnce'
  <2>1. \A d \in Conns : answers[d] = <<>> => answers'[d] = <<>>
    <3>1. \A d \in Conns : answers'[d] \in Seq(Nat) /\ answers[d] \in Seq(Nat)
      BY <1>5 DEF IInv, TypeOK
    <3>2. \A x \in Seq(Nat) : x = <<>> <=> Len(x) = 0
      BY EmptySeq
    <3> QED
      BY <1>5, <3>1, <3>2
  <2>2. InPool' = InPool /\ \A d : Waiting(d)' = Waiting(d)
    BY <1>1, FramePool DEF serverVars, poolVars, Waiting
  <2> QED
    BY <1>1, <2>1, <2>2 DEF IInv, AcceptedOnce
<1> QED
  BY <1>6, <1>7, <1>8, <1>9, <1>10, <1>11 DEF IInv

-----------------------------------------------------------------------------
(* The theorems                                                            *)

\* Every step of the server, of a peer and of a program preserves IInv.
LEMMA StepInv ==
  ASSUME IInv, [Next]_vars
  PROVE  IInv'
<1>1. CASE Select
  BY <1>1, SelectInv
<1>13. CASE SelectAborts
  BY <1>13, SelectAbortsInv
<1>2. CASE EndOfPass
  BY <1>2, EndOfPassInv
<1>3. CASE CheckServer
  BY <1>3, CheckServerInv
<1>4. ASSUME NEW c \in Conns, Skip(c) PROVE IInv'
  BY <1>4, SkipInv
<1>5. ASSUME NEW c \in Conns, WriteMore(c) PROVE IInv'
  BY <1>5, WriteMoreInv
<1>6. ASSUME NEW c \in Conns, ReadHandler(c) PROVE IInv'
  <2>1. ReadData(c) \/ ReadCrash(c) \/ ReadEOF(c) \/ ReadError(c)
    BY <1>6 DEF ReadHandler
  <2> QED
    BY <1>6, <2>1, ReadDataInv, ReadCrashInv, ReadEOFInv, ReadErrorInv
<1>7. ASSUME NEW c \in Conns, ProcessHandler(c) PROVE IInv'
  BY <1>7, CloseClientInv, ProcessClosedInv, StartCGIInv, DumpResponseInv, DumpCrashInv
     DEF ProcessHandler
<1>8. ASSUME NEW c \in Conns, WriteHandler(c) PROVE IInv'
  <2>1. WriteSome(c) \/ WriteError(c) \/ BrokenPipe(c)
    BY <1>8 DEF WriteHandler
  <2> QED
    BY <1>8, <2>1, WriteSomeInv, WriteErrorInv, BrokenPipeInv
<1>9. ASSUME NEW c \in Conns, PipeHandler(c) PROVE IInv'
  BY <1>9, PipeHandlerInv
<1>10. ASSUME NEW c \in Conns, Peer(c) PROVE IInv'
  BY <1>10, PeerConnectInv, PeerInv DEF Peer
<1>11. ASSUME NEW c \in Conns, CGIWrite(c) \/ CGIExit(c) PROVE IInv'
  BY <1>11, CGIInv
<1>12. CASE UNCHANGED vars
  <2>1. /\ UNCHANGED <<serverVars, sock, backlog, cgi, history>>
    BY <1>12 DEF vars, serverVars, envVars
  <2>2. TypeOK'
    BY <2>1 DEF IInv, TypeOK, serverVars, poolVars, connVars, history
  <2>3. IteratorInRange' /\ HandlerHasWork' /\ BacklogReady'
    BY <2>1 DEF IInv, IteratorInRange, HandlerHasWork, BacklogReady,
                serverVars, poolVars, connVars
  <2>4. AcceptedOnce' /\ ClosedByPeer' /\ OneAnswerEach'
    BY <2>1, FrameAccepted, FrameClosed, FrameAnswers, FramePool
       DEF serverVars, poolVars, connVars, history
  <2> QED
    BY <2>1, <2>2, <2>3, <2>4, FrameConn DEF IInv, serverVars, history
<1> QED
  BY <1>1, <1>2, <1>3, <1>4, <1>5, <1>6, <1>7, <1>8, <1>9, <1>10, <1>11, <1>12,
     <1>13 DEF Next, Server

\* The invariant holds in every reachable state.
THEOREM Invariance == Spec => []IInv
BY InitInv, StepInv, PTL DEF Spec

\* Every variable of the server, of its connections and of their sockets keeps
\* its type, for any number of connections, any buffer sizes, any requests.
THEOREM TypeCorrect == Spec => []TypeOK
<1>1. IInv => TypeOK
  BY DEF IInv
<1> QED
  BY <1>1, Invariance, PTL

\* check_clients never uses its iterator past the end of the vector, whatever
\* the handlers erase: every handler runs for an element of clients.
THEOREM IteratorSafe == Spec => []IteratorInRange
<1>1. IInv => IteratorInRange
  BY DEF IInv
<1> QED
  BY <1>1, Invariance, PTL

\* A connection that reads has no response: no request is ever answered with
\* the response of an earlier one.
THEOREM ResponseFresh == Spec => []FreshResponse
<1>1. IInv => FreshResponse
  BY DEF IInv
<1> QED
  BY <1>1, Invariance, PTL

\* A connection that writes has a response when Select and check_clients ask it
\* for its pipe, and a program that runs, or whose output is not all read, has
\* its connection waiting for it there.
THEOREM ResponsePresent == Spec => []WriterHasResponse
<1>1. IInv => WriterHasResponse
  BY DEF IInv
<1> QED
  BY <1>1, Invariance, PTL

\* No read, no piece of a response and no CGI output overruns a buffer of
\* BUF_SIZE, whatever BUF_SIZE is.
THEOREM NoOverrun == Spec => []BuffersFit
<1>1. IInv => BuffersFit
  BY DEF IInv
<1> QED
  BY <1>1, Invariance, PTL

\* Every parsed request of a connection that is still open has exactly one
\* response, but the one that is about to be processed.
THEOREM OneResponsePerRequest == Spec => []OneAnswerEach
<1>1. IInv => OneAnswerEach
  BY DEF IInv
<1> QED
  BY <1>1, Invariance, PTL

\* The server only gives up on a connection whose peer has.
THEOREM OnlyPeersClose == Spec => []ClosedByPeer
<1>1. IInv => ClosedByPeer
  BY DEF IInv
<1> QED
  BY <1>1, Invariance, PTL

=============================================================================
