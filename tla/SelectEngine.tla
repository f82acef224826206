---------------------------- MODULE SelectEngine ----------------------------
(***************************************************************************)
(* The server loop of src/src/sample_server.cpp over the connection pool   *)
(* of src/src/SelectEngine.cpp and src/src/ClientConnection.cpp, with the  *)
(* kernel's side of its sockets and pipes, the peers and the CGI programs. *)
(*                                                                         *)
(* The server is one thread:                                               *)
(*                                                                         *)
(*   while (1) { Select(); check_clients(); check_server(); }              *)
(*                                                                         *)
(* pc says which function runs next.  Each handler is one action; a        *)
(* blocking write takes as many as it has to wait.  Peers and CGI programs *)
(* move between any two of them.                                           *)
(*                                                                         *)
(* A descriptor is named by what it refers to.  An output unit is named by *)
(* the response of its connection it belongs to and its place in it, so    *)
(* that what a peer gets can be compared with what it should get.          *)
(***************************************************************************)
EXTENDS HTTPResponse, Streams

CONSTANTS
  Conns,      \* the connections peers may open
  Scripts,    \* what the peer of each may send in the life of the connection
  Resetters,  \* the connections whose peer may abort them
  BufSize,    \* BUF_SIZE, in lines for reads and in units for writes
  SndBuf,     \* the capacity of a socket's send buffer, in units
  CGIOutput   \* a bound on what one CGI program writes, in units

ASSUME SelectAssumption ==
  /\ NULL \notin Conns /\ NULL \notin Responses
  /\ Resetters \subseteq Conns
  /\ Scripts \in [Conns -> SUBSET Seq(Lines)]
  /\ BufSize \in Nat \ {0} /\ SndBuf \in Nat \ {0} /\ CGIOutput \in Nat

VARIABLES
  pc,           \* the function the server thread is about to run
  clients,      \* SelPool::clients, a vector
  it,           \* check_clients' iterator, as a 1-based index
  read_set, write_set,
  copied,       \* how much the write in progress has handed to the kernel
  \* the members of each ClientConnection
  state, isOpen, readBuffer, writeBuffer, req, res,
  \* the rest of the world
  sock,         \* the two ends of each connection
  backlog,      \* connections waiting for accept
  cgi,          \* the CGI program of each connection
  \* history
  asked,        \* requests parsed on each connection
  answers       \* the lengths of the responses built for them

poolVars == <<clients, it, read_set, write_set>>
connVars == <<state, isOpen, readBuffer, writeBuffer, req, res>>
envVars  == <<sock, backlog, cgi>>
history  == <<asked, answers>>
vars     == <<pc, poolVars, copied, connVars, envVars, history>>

least(a, b) == IF a <= b THEN a ELSE b

-----------------------------------------------------------------------------
(* Descriptors and sockets                                                 *)

Listen  == <<"listen", NULL>>
Sock(c) == <<"sock", c>>
Pipe(c) == <<"pipe", c>>
Descriptors == {Listen} \cup ({"sock", "pipe"} \X Conns)

\* phase: of the server's end.  todo, inq: lines the peer has yet to send, and
\* those sent and not read.  fin: the peer has finished sending.  rst: the
\* connection was aborted, and then a system call has reported it.  sent,
\* rcvd: all units the kernel accepted, and how many the peer has taken.
Phases == {"none", "open", "closed"}
Resets == {"no", "pending", "reported"}
Sockets ==
  [phase : Phases, todo : Seq(Lines), inq : Seq(Lines), fin : BOOLEAN,
   rst : Resets, sent : Seq(Units), rcvd : Nat]

NewSocket(script) ==
  [phase |-> "none", todo |-> script, inq |-> <<>>, fin |-> FALSE,
   rst |-> "no", sent |-> <<>>, rcvd |-> 0]

room(c) == SndBuf - (Len(sock[c].sent) - sock[c].rcvd)

\* What the kernel tells select of a descriptor.
Readable(d) ==
  \/ d = Listen /\ backlog # <<>>
  \/ \E c \in Conns :
       \/ d = Sock(c) /\ (sock[c].inq # <<>> \/ sock[c].fin \/ sock[c].rst # "no")
       \/ d = Pipe(c) /\ (cgi[c].got < cgi[c].wrote \/ ~cgi[c].alive)
Writable(d) == \E c \in Conns : d = Sock(c) /\ (sock[c].rst # "no" \/ room(c) > 0)

-----------------------------------------------------------------------------
(* SelPool::Select                                                         *)

InPool == {clients[i] : i \in DOMAIN clients}

\* A client that waits for a program has its pipe, and not the -1 of a program
\* that could not be started.
piped(c) == res[c] # NULL /\ res[c].CGIout

\* Mutant: a client that waits for a CGI program is watched like any other.
watchRead_NoPipe ==
  {Listen} \cup {Sock(c) : c \in {d \in InPool :
                   readBuffer[d] = <<>> /\ state[d] = "Ready_ForRead"}}
watchRead ==
  {Listen}
  \cup {Sock(c) : c \in {d \in InPool :
          readBuffer[d] = <<>> /\ state[d] = "Ready_ForRead"}}
  \cup {Pipe(c) : c \in {d \in InPool :
          state[d] = "Writing_Response" /\ req[d].isCGI /\ piped(d)}}
watchWrite == {Sock(c) : c \in {d \in InPool : state[d] = "Writing_Response"}}

Select ==
  /\ pc = "Select"
  /\ read_set'  = {d \in watchRead : Readable(d)}
  /\ write_set' = {d \in watchWrite : Writable(d)}
  /\ read_set' # {} \/ write_set' # {}     \* it waits for that
  /\ pc' = "check_clients" /\ it' = 1
  /\ UNCHANGED <<clients, copied, connVars, envVars, history>>

\* FD_SET(-1): a library that checks the number ends the process, and one that
\* does not sets a bit above every descriptor.
SelectAborts ==
  /\ pc = "Select"
  /\ \E i \in DOMAIN clients :
       /\ state[clients[i]] = "Writing_Response" /\ req[clients[i]].isCGI
       /\ ~piped(clients[i])
       /\ it' = i
  /\ pc' = "killed"
  /\ UNCHANGED <<clients, read_set, write_set, copied, connVars, envVars, history>>

-----------------------------------------------------------------------------
(* SelPool::check_clients                                                  *)

Handling(c) == pc = "check_clients" /\ it <= Len(clients) /\ clients[it] = c

\* it++
NextClient == pc' = "check_clients" /\ it' = it + 1

\* A client none of whose descriptors is ready in the state it is in.
Skip(c) ==
  /\ Handling(c)
  /\ CASE state[c] = "Ready_ForRead"    -> Sock(c) \notin read_set
       [] state[c] = "Writing_Response" ->
            \/ Sock(c) \notin write_set
            \/ req[c].isCGI /\ Pipe(c) \notin read_set
       [] OTHER -> TRUE
  /\ NextClient
  /\ UNCHANGED <<clients, read_set, write_set, copied, connVars, envVars, history>>

\* A writable client with more of a file to send: back to processHandler.
WriteMore(c) ==
  /\ Handling(c)
  /\ state[c] = "Writing_Response" /\ Sock(c) \in write_set /\ ~req[c].isCGI
  /\ pc' = "processHandler"
  /\ UNCHANGED <<poolVars, copied, connVars, envVars, history>>

EndOfPass ==
  /\ pc = "check_clients" /\ it > Len(clients)
  /\ pc' = "check_server"
  /\ UNCHANGED <<poolVars, copied, connVars, envVars, history>>

-----------------------------------------------------------------------------
(* SelPool::readHandler                                                    *)

\* How much arrives, and the buffer with it.
ReadSize(c) == least(BufSize - Len(readBuffer[c]), Len(sock[c].inq))
Received(c) == readBuffer[c] \o SubSeq(sock[c].inq, 1, ReadSize(c))

\* removeReadSize, removeWriteSize: what lies behind moves to the front.  Mutant:
\* it is dropped with the request.
removeSize_Clear(buf, n) == IF n = 0 THEN buf ELSE <<>>
removeSize(buf, n) == SubSeq(buf, n + 1, Len(buf))

\* Bytes arrived: append them, parse, drop what was parsed.  A parse that hits
\* undefined behaviour may abort the process or go on.
ReadData(c) ==
  LET n    == ReadSize(c)
      buf  == Received(c)
      pars == httpParse(req[c], buf, Len(buf) = BufSize)
  IN /\ sock[c].inq # <<>> /\ ~parseEnds(req[c], buf)
     /\ sock' = [sock EXCEPT ![c].inq = SubSeq(@, n + 1, Len(@))]
     /\ readBuffer' = [readBuffer EXCEPT ![c] = removeSize(buf, pars.size)]
     /\ req' = [req EXCEPT ![c] = pars.req]
     /\ \/ /\ Parsed(pars.req)
           /\ state' = [state EXCEPT ![c] = "Request_Parsed"]
           /\ asked' = [asked EXCEPT ![c] = @ + 1]
           /\ pc' = "processHandler" /\ UNCHANGED it
        \/ ~Parsed(pars.req) /\ NextClient /\ UNCHANGED <<state, asked>>
        \/ parseFaults(req[c], buf) /\ pc' = "killed" /\ UNCHANGED <<it, state, asked>>
     /\ UNCHANGED isOpen

\* They end the process in the parser, or it does what it likes with the heap.
ReadCrash(c) ==
  /\ sock[c].inq # <<>>
  /\ parseEnds(req[c], Received(c)) \/ overruns(req[c], Received(c))
  /\ pc' = "killed"
  /\ UNCHANGED <<it, state, isOpen, sock, readBuffer, req, asked>>

\* read returned 0.  Mutant: the state is left to the next pass.
ReadEOF_NoState(c) ==
  /\ sock[c].inq = <<>>
  /\ sock[c].rst = "reported" \/ (sock[c].rst = "no" /\ sock[c].fin)
  /\ isOpen' = [isOpen EXCEPT ![c] = FALSE]
  /\ NextClient
  /\ UNCHANGED <<state, sock, readBuffer, req, asked>>
ReadEOF(c) ==
  /\ sock[c].inq = <<>>
  /\ sock[c].rst = "reported" \/ (sock[c].rst = "no" /\ sock[c].fin)
  /\ isOpen' = [isOpen EXCEPT ![c] = FALSE]
  /\ state' = [state EXCEPT ![c] = "Request_Parsed"]
  /\ pc' = "processHandler"
  /\ UNCHANGED <<it, sock, readBuffer, req, asked>>

\* read returned -1.
ReadError(c) ==
  /\ sock[c].inq = <<>> /\ sock[c].rst = "pending"
  /\ sock' = [sock EXCEPT ![c].rst = "reported"]
  /\ isOpen' = [isOpen EXCEPT ![c] = FALSE]
  /\ NextClient
  /\ UNCHANGED <<state, readBuffer, req, asked>>

ReadHandler(c) ==
  /\ Handling(c)
  /\ state[c] = "Ready_ForRead" /\ Sock(c) \in read_set
  /\ Len(readBuffer[c]) < BufSize
  /\ ReadData(c) \/ ReadCrash(c) \/ ReadEOF(c) \/ ReadError(c)
  /\ UNCHANGED <<clients, read_set, write_set, copied, writeBuffer, res,
                 backlog, cgi, answers>>

-----------------------------------------------------------------------------
(* SelPool::processHandler                                                 *)

Processing(c) == pc = "processHandler" /\ clients[it] = c

\* clients.erase
erase(s, i) == SubSeq(s, 1, i - 1) \o SubSeq(s, i + 1, Len(s))

\* Called after a read that found the connection closed: check_clients closes
\* the socket, deletes the client and goes on with the one that takes its
\* place in the vector.  Mutant: it++ is not skipped.
CloseClient_Advance(c) ==
  /\ Processing(c) /\ ~isOpen[c] /\ state[c] = "Request_Parsed"
  /\ state' = [state EXCEPT ![c] = "Closed"]
  /\ sock' = [sock EXCEPT ![c].phase = "closed"]
  /\ read_set' = read_set \ {Sock(c)}
  /\ clients' = erase(clients, it)
  /\ NextClient
  /\ UNCHANGED <<write_set, copied, isOpen, readBuffer, writeBuffer, req, res,
                 backlog, cgi, history>>
CloseClient(c) ==
  /\ Processing(c) /\ ~isOpen[c] /\ state[c] = "Request_Parsed"
  /\ state' = [state EXCEPT ![c] = "Closed"]
  /\ sock' = [sock EXCEPT ![c].phase = "closed"]
  /\ read_set' = read_set \ {Sock(c)}
  /\ clients' = erase(clients, it)
  /\ pc' = "check_clients"
  /\ UNCHANGED <<it, write_set, copied, isOpen, readBuffer, writeBuffer, req, res,
                 backlog, cgi, history>>

\* Called to send more: the state is set and the caller goes on to write.
ProcessClosed(c) ==
  /\ Processing(c) /\ ~isOpen[c] /\ state[c] = "Writing_Response"
  /\ state' = [state EXCEPT ![c] = "Closed"]
  /\ pc' = "writeHandler"
  /\ UNCHANGED <<poolVars, copied, isOpen, readBuffer, writeBuffer, req, res,
                 envVars, history>>

\* The response, built on the first call for a request with outcome o.
Response(c, o) == IF res[c] = NULL THEN buildResponse(req[c], o) ELSE res[c]
\* The history of answers with it.
Answered(c, o) ==
  IF res[c] # NULL THEN answers
  ELSE [answers EXCEPT ![c] =
          Append(@, Response(c, o).maxHeaderPtr + Response(c, o).maxFilePtr)]

\* A CGI program is started, or could not be, and nothing is written before the
\* next select.
StartCGI(c, o) ==
  /\ Processing(c) /\ isOpen[c] /\ Parsed(req[c]) /\ req[c].isCGI
  /\ res' = [res EXCEPT ![c] = Response(c, o)]
  /\ answers' = Answered(c, o)
  /\ cgi' = IF res[c] # NULL THEN cgi
            ELSE [cgi EXCEPT ![c] =
                    [alive |-> Response(c, o).CGIout, wrote |-> 0, got |-> 0]]
  /\ state' = [state EXCEPT ![c] = "Writing_Response"]
  /\ pc' = "writeHandler"
  /\ UNCHANGED <<poolVars, copied, isOpen, readBuffer, writeBuffer, req,
                 sock, backlog, asked>>

\* The units a call of writeResponse appends to the write buffer.
Dumped(n, r, space) ==
  LET hd == hdPart_size(r, space)
  IN [i \in 1..(hd + fdPart_size(r, space)) |->
        <<n, IF i <= hd THEN r.headerPtr + i
             ELSE r.maxHeaderPtr + r.filePtr + (i - hd)>>]

\* The build, or the copy of the file, dereferences a null pointer.
BuildFaults(c) == res[c] = NULL /\ buildFaults(req[c])
CopyFaults(c, o) ==
  ~BuildFaults(c) /\ writeFaults(Response(c, o), BufSize - Len(writeBuffer[c]))

DumpResponse(c, o) ==
  LET space == BufSize - Len(writeBuffer[c])
      r     == writeResponse(Response(c, o), space)
  IN /\ Processing(c) /\ isOpen[c] /\ Parsed(req[c]) /\ ~req[c].isCGI
     /\ ~BuildFaults(c) /\ ~CopyFaults(c, o)
     /\ answers' = Answered(c, o)
     /\ res' = [res EXCEPT ![c] = r]
     /\ writeBuffer' = [writeBuffer EXCEPT ![c] =
                          @ \o Dumped(Len(answers'[c]), Response(c, o), space)]
     /\ state' = [state EXCEPT ![c] =
                    IF AllDumped(r) THEN "Done_Response" ELSE "Writing_Response"]
     /\ pc' = "writeHandler"
     /\ UNCHANGED <<poolVars, copied, isOpen, readBuffer, req, envVars, asked>>

\* A null dereference ends the process, and that of gmtime's result may: in the
\* build, or when the response is there.
DumpCrash(c, o) ==
  /\ Processing(c) /\ isOpen[c] /\ Parsed(req[c]) /\ ~req[c].isCGI
  /\ \/ /\ BuildFaults(c) \/ (res[c] = NULL /\ dateMayFault(req[c]))
        /\ UNCHANGED <<res, answers>>
     \/ /\ CopyFaults(c, o)
        /\ res' = [res EXCEPT ![c] = Response(c, o)]
        /\ answers' = Answered(c, o)
  /\ pc' = "killed"
  /\ UNCHANGED <<poolVars, copied, state, isOpen, readBuffer, writeBuffer, req,
                 envVars, asked>>

ProcessHandler(c) ==
  \/ CloseClient(c) \/ ProcessClosed(c)
  \/ \E o \in Outcomes : StartCGI(c, o) \/ DumpResponse(c, o) \/ DumpCrash(c, o)

-----------------------------------------------------------------------------
(* SelPool::writeHandler                                                   *)

Writing(c) == pc = "writeHandler" /\ clients[it] = c

\* Its end: a response all of which was dumped is deleted, and the connection
\* is ready for the next request.  Mutants: the response is kept; it is
\* deleted after every write; the client goes back to reading while a file is
\* half sent.
EndResponse_Keep(c) ==
  /\ state' = [state EXCEPT ![c] = IF @ = "Done_Response" THEN "Ready_ForRead" ELSE @]
  /\ UNCHANGED res
EndResponse_Always(c) ==
  /\ state' = [state EXCEPT ![c] = IF @ = "Done_Response" THEN "Ready_ForRead" ELSE @]
  /\ res' = [res EXCEPT ![c] = NULL]
EndResponse_Early(c) ==
  IF state[c] # "Closed" /\ ~req[c].isCGI
  THEN /\ state' = [state EXCEPT ![c] = "Ready_ForRead"]
       /\ res' = [res EXCEPT ![c] = NULL]
  ELSE UNCHANGED <<state, res>>
EndResponse(c) ==
  IF state[c] = "Done_Response"
  THEN /\ state' = [state EXCEPT ![c] = "Ready_ForRead"]
       /\ res' = [res EXCEPT ![c] = NULL]
  ELSE UNCHANGED <<state, res>>

\* The kernel takes what it has room for; the call returns when it has taken
\* the whole buffer, and waits until then.
\* Mutant: a short count ends the call, and is an error.
WriteSome_Short(c) ==
  LET k == least(room(c), Len(writeBuffer[c]))
  IN /\ sock[c].rst = "no"
     /\ sock' = [sock EXCEPT ![c].sent = @ \o SubSeq(writeBuffer[c], 1, k)]
     /\ IF k = Len(writeBuffer[c])
        THEN writeBuffer' = [writeBuffer EXCEPT ![c] = <<>>] /\ UNCHANGED isOpen
        ELSE isOpen' = [isOpen EXCEPT ![c] = FALSE] /\ UNCHANGED writeBuffer
     /\ EndResponse(c) /\ NextClient /\ UNCHANGED copied
\* Mutant: the buffer is kept after a complete write.
WriteSome_Keep(c) ==
  LET k == least(room(c), Len(writeBuffer[c]) - copied)
  IN /\ sock[c].rst = "no"
     /\ sock' = [sock EXCEPT ![c].sent =
                   @ \o SubSeq(writeBuffer[c], copied + 1, copied + k)]
     /\ IF copied + k = Len(writeBuffer[c])
        THEN /\ copied' = 0
             /\ UNCHANGED writeBuffer
             /\ EndResponse(c) /\ NextClient
        ELSE /\ k > 0 /\ copied' = copied + k
             /\ UNCHANGED <<pc, it, state, writeBuffer, res>>
     /\ UNCHANGED isOpen
WriteSome(c) ==
  LET k == least(room(c), Len(writeBuffer[c]) - copied)
  IN /\ sock[c].rst = "no"
     /\ sock' = [sock EXCEPT ![c].sent =
                   @ \o SubSeq(writeBuffer[c], copied + 1, copied + k)]
     /\ IF copied + k = Len(writeBuffer[c])
        THEN /\ copied' = 0
             /\ writeBuffer' = [writeBuffer EXCEPT ![c] = <<>>]
             /\ EndResponse(c) /\ NextClient
        ELSE /\ k > 0 /\ copied' = copied + k
             /\ UNCHANGED <<pc, it, state, writeBuffer, res>>
     /\ UNCHANGED isOpen

\* The connection was aborted.  The error is returned once, unless part of the
\* buffer had been taken: then that count is.
WriteError(c) ==
  /\ sock[c].rst = "pending" /\ (copied > 0 \/ ~sock[c].fin)
  /\ sock' = [sock EXCEPT ![c].rst = IF copied > 0 THEN @ ELSE "reported"]
  /\ isOpen' = [isOpen EXCEPT ![c] = FALSE]
  /\ copied' = 0
  /\ EndResponse(c) /\ NextClient /\ UNCHANGED writeBuffer

\* Nothing ignores the SIGPIPE of a later write, or of the first one after
\* the peer had closed its end.
BrokenPipe(c) ==
  /\ copied = 0
  /\ sock[c].rst = "reported" \/ (sock[c].rst = "pending" /\ sock[c].fin)
  /\ pc' = "killed"
  /\ UNCHANGED <<it, copied, sock, isOpen, state, writeBuffer, res>>

WriteHandler(c) ==
  /\ Writing(c)
  /\ WriteSome(c) \/ WriteError(c) \/ BrokenPipe(c)
  /\ UNCHANGED <<clients, read_set, write_set, readBuffer, req, backlog, cgi, history>>

-----------------------------------------------------------------------------
(* SelPool::pipeHandler                                                    *)

\* read from the pipe, into what is left of the write buffer.  Mutant: a short
\* count is taken for the end.
ReadPipe_ShortIsEnd(c) ==
  LET space == BufSize - Len(writeBuffer[c])
      k     == least(space, cgi[c].wrote - cgi[c].got)
  IN /\ writeBuffer' = [writeBuffer EXCEPT ![c] =
          @ \o [i \in 1..k |-> <<Len(answers[c]), cgi[c].got + i>>]]
     /\ cgi' = [cgi EXCEPT ![c].got = @ + k]
     /\ state' = [state EXCEPT ![c] = IF k < space THEN "Done_Response" ELSE @]
ReadPipe(c) ==
  LET space == BufSize - Len(writeBuffer[c])
      k     == least(space, cgi[c].wrote - cgi[c].got)
  IN \/ space = 0 /\ UNCHANGED <<state, writeBuffer, cgi>>
     \/ /\ k > 0
        /\ writeBuffer' = [writeBuffer EXCEPT ![c] =
             @ \o [i \in 1..k |-> <<Len(answers[c]), cgi[c].got + i>>]]
        /\ cgi' = [cgi EXCEPT ![c].got = @ + k]
        /\ UNCHANGED state
     \/ /\ space > 0 /\ cgi[c].wrote = cgi[c].got /\ ~cgi[c].alive
        /\ state' = [state EXCEPT ![c] = "Done_Response"]
        /\ UNCHANGED <<writeBuffer, cgi>>

PipeHandler(c) ==
  /\ Handling(c)
  /\ state[c] = "Writing_Response" /\ Sock(c) \in write_set
  /\ req[c].isCGI /\ Pipe(c) \in read_set
  /\ ReadPipe(c)
  /\ pc' = "writeHandler"
  /\ UNCHANGED <<poolVars, copied, isOpen, readBuffer, req, res, sock,
                 backlog, history>>

-----------------------------------------------------------------------------
(* SelPool::check_server and add_client                                    *)

CheckServer ==
  /\ pc = "check_server" /\ pc' = "Select"
  /\ IF Listen \in read_set
     THEN LET c == Head(backlog)
          IN /\ backlog' = Tail(backlog)
             /\ clients' = Append(clients, c)
             /\ read_set' = read_set \cup {Sock(c)}
             /\ state'       = [state EXCEPT ![c] = "Ready_ForRead"]
             /\ isOpen'      = [isOpen EXCEPT ![c] = TRUE]
             /\ readBuffer'  = [readBuffer EXCEPT ![c] = <<>>]
             /\ writeBuffer' = [writeBuffer EXCEPT ![c] = <<>>]
             /\ req'         = [req EXCEPT ![c] = NewRequest]
             /\ res'         = [res EXCEPT ![c] = NULL]
     ELSE UNCHANGED <<backlog, clients, read_set, connVars>>
  /\ UNCHANGED <<it, write_set, copied, sock, cgi, history>>

-----------------------------------------------------------------------------
(* Peers and CGI programs (external)                                       *)

Connected(c) == pc # "killed" /\ sock[c].phase = "open"
serverVars == <<pc, poolVars, copied, connVars>>

PeerConnect(c) ==
  /\ pc # "killed" /\ sock[c].phase = "none"
  /\ sock' = [sock EXCEPT ![c].phase = "open"]
  /\ backlog' = Append(backlog, c)
  /\ UNCHANGED <<serverVars, cgi, history>>

\* A segment arrives.
PeerSend(c) ==
  /\ Connected(c) /\ ~sock[c].fin /\ sock[c].rst = "no"
  /\ \E n \in 1..Len(sock[c].todo) :
       sock' = [sock EXCEPT ![c].inq  = @ \o SubSeq(sock[c].todo, 1, n),
                            ![c].todo = SubSeq(@, n + 1, Len(@))]
  /\ UNCHANGED <<serverVars, backlog, cgi, history>>

\* The peer shuts down its sending side, and still receives.
PeerClose(c) ==
  /\ Connected(c) /\ ~sock[c].fin /\ sock[c].rst = "no"
  /\ sock' = [sock EXCEPT ![c].fin = TRUE]
  /\ UNCHANGED <<serverVars, backlog, cgi, history>>

\* The peer is gone: it aborted, or closed and then got data.
PeerReset(c) ==
  /\ Connected(c) /\ c \in Resetters /\ sock[c].rst = "no"
  /\ sock' = [sock EXCEPT ![c].rst = "pending"]
  /\ UNCHANGED <<serverVars, backlog, cgi, history>>

PeerRecv(c) ==
  /\ Connected(c) /\ sock[c].rst = "no" /\ sock[c].rcvd < Len(sock[c].sent)
  /\ sock' = [sock EXCEPT ![c].rcvd = Len(sock[c].sent)]
  /\ UNCHANGED <<serverVars, backlog, cgi, history>>

CGIWrite(c) ==
  /\ pc # "killed" /\ cgi[c].alive /\ cgi[c].wrote < CGIOutput
  /\ cgi' = [cgi EXCEPT ![c].wrote = @ + 1]
  /\ answers' = [answers EXCEPT ![c][Len(answers[c])] = @ + 1]
  /\ UNCHANGED <<serverVars, sock, backlog, asked>>

CGIExit(c) ==
  /\ pc # "killed" /\ cgi[c].alive
  /\ cgi' = [cgi EXCEPT ![c].alive = FALSE]
  /\ UNCHANGED <<serverVars, sock, backlog, history>>

-----------------------------------------------------------------------------
Init ==
  /\ pc = "Select" /\ clients = <<>> /\ it = 1 /\ copied = 0
  /\ read_set = {Listen} /\ write_set = {}
  /\ state       = [c \in Conns |-> "Ready_ForRead"]
  /\ isOpen      = [c \in Conns |-> TRUE]
  /\ readBuffer  = [c \in Conns |-> <<>>]
  /\ writeBuffer = [c \in Conns |-> <<>>]
  /\ req         = [c \in Conns |-> NewRequest]
  /\ res         = [c \in Conns |-> NULL]
  /\ sock \in {[c \in Conns |-> NewSocket(script[c])] :
                script \in {f \in [Conns -> UNION {Scripts[c] : c \in Conns}] :
                             \A c \in Conns : f[c] \in Scripts[c]}}
  /\ backlog = <<>>
  /\ cgi = [c \in Conns |-> [alive |-> FALSE, wrote |-> 0, got |-> 0]]
  /\ asked   = [c \in Conns |-> 0]
  /\ answers = [c \in Conns |-> <<>>]

Server ==
  \/ Select \/ SelectAborts \/ EndOfPass \/ CheckServer
  \/ \E c \in Conns : Skip(c) \/ WriteMore(c) \/ ReadHandler(c) \/ ProcessHandler(c)
                      \/ WriteHandler(c) \/ PipeHandler(c)

Peer(c) == PeerConnect(c) \/ PeerSend(c) \/ PeerClose(c) \/ PeerReset(c) \/ PeerRecv(c)

Next == Server \/ \E c \in Conns : Peer(c) \/ CGIWrite(c) \/ CGIExit(c)

Spec == Init /\ [][Next]_vars

\* The server thread runs, peers receive what they are sent, and CGI programs
\* end.
FairSpec ==
  /\ Spec
  /\ WF_vars(Server)
  /\ \A c \in Conns : WF_vars(PeerRecv(c)) /\ WF_vars(CGIExit(c))

-----------------------------------------------------------------------------
(* Properties                                                              *)

Points == {"Select", "check_clients", "processHandler", "writeHandler",
           "check_server", "killed"}
ConnStates == {"Ready_ForRead", "Request_Parsed", "Writing_Response",
               "Done_Response", "Closed"}
Programs == [alive : BOOLEAN, wrote : Nat, got : Nat]

\* Every variable keeps its type: the one type invariant of the module.
TypeOK ==
  /\ pc \in Points
  /\ clients \in Seq(Conns) /\ it \in Nat /\ copied \in Nat
  /\ read_set \subseteq Descriptors /\ write_set \subseteq Descriptors
  /\ state \in [Conns -> ConnStates]
  /\ isOpen \in [Conns -> BOOLEAN]
  /\ readBuffer \in [Conns -> Seq(Lines)]
  /\ writeBuffer \in [Conns -> Seq(Units)]
  /\ req \in [Conns -> Requests]
  /\ res \in [Conns -> Responses \cup {NULL}]
  /\ sock \in [Conns -> Sockets]
  /\ backlog \in Seq(Conns)
  /\ cgi \in [Conns -> Programs]
  /\ asked \in [Conns -> Nat]
  /\ answers \in [Conns -> Seq(Nat)]

\* The iterator of check_clients survives clients.erase: it is never past the
\* end of the vector, and a handler always runs for an element of it.
IteratorInRange ==
  /\ it \in 1..(Len(clients) + 1)
  /\ pc \in {"processHandler", "writeHandler"} => it <= Len(clients)

\* A connection that reads has no response: processHandler builds a new one for
\* each request, instead of sending an old one again, and the destructor,
\* which deletes res twice, deletes nothing.
FreshResponse ==
  pc # "killed" =>
    \A c \in Conns : state[c] \in {"Ready_ForRead", "Request_Parsed"} => res[c] = NULL

\* While a response is sent there is one: Select and check_clients take
\* getCGIout() of it on the word of the request alone.  And whatever a program
\* writes has its client waiting at the pipe: none leaves before the program
\* has ended and all of it was read, and the only one that waits for no pipe
\* is one whose program was never started.
WriterHasResponse ==
  \A c \in Conns :
    /\ state[c] \in {"Writing_Response", "Done_Response"} =>
         res[c] # NULL /\ (res[c].CGIout => req[c].isCGI)
    /\ cgi[c].alive \/ cgi[c].got < cgi[c].wrote =>
         state[c] = "Writing_Response" /\ req[c].isCGI /\ piped(c)

\* The response that is sent is the one that the request asks for: nothing
\* between the call that builds it and the last piece of it changes either,
\* and no response is still there when the next request is served.
AnswersTheRequest ==
  \A c \in Conns : res[c] # NULL =>
    \E o \in Outcomes :
      [res[c] EXCEPT !.headerPtr = 0, !.filePtr = 0] = buildResponse(req[c], o)

\* A response longer than the write buffer leaves in full buffers: a pass that
\* does not finish it has filled the buffer, so that one of n units takes no
\* more than n / BufSize passes and another one.
PiecesAreFull ==
  \A c \in Conns : Writing(c) /\ state[c] = "Writing_Response" /\ ~req[c].isCGI =>
    Len(writeBuffer[c]) = BufSize

\* All that the parser has yet to take of what the peer of c sends, wherever it is.
Incoming(c) == readBuffer[c] \o sock[c].inq \o sock[c].todo

\* What the parser makes of a request does not depend on how it was cut into
\* segments, how much of it was read at a time, and what came behind it: a step
\* takes the first request of all that comes, and nothing else, with the result
\* the whole stream would have; or it drops a buffer the request does not fit;
\* or it leaves everything there.
ReadAsSent ==
  [][\A c \in Conns :
       LET all == Incoming(c)
       IN \/ Incoming(c)' = all /\ req'[c] \in {req[c], [req[c] EXCEPT !.state = "Parsing"]}
          \/ \E e \in requestEnd(all) :
               /\ Incoming(c)' = SubSeq(all, e + 1, Len(all))
               /\ req'[c] = httpParse(req[c], all, FALSE).req
          \/ /\ Len(all) >= BufSize /\ \A e \in requestEnd(all) : e > BufSize
             /\ Incoming(c)' = SubSeq(all, BufSize + 1, Len(all))
             /\ req'[c] = [req[c] EXCEPT !.state = "Parsing", !.parseStatus = "requestLine"]
    ]_vars

\* A request is taken as a new object would take it: one that is good on a
\* connection of its own is the same request behind any others, with its own
\* method, target and kind of response, as soon as it is in the buffer.
ReadAsNew ==
  [][\A c \in Conns :
       LET all == Incoming(c)
           new == httpParse(NewRequest, all, FALSE).req
       IN \A e \in requestEnd(all) :
            /\ Incoming(c)' # all /\ e <= BufSize
            /\ req[c].parseStatus = "requestLine" /\ new.state # "ParsedError"
            => /\ Incoming(c)' = SubSeq(all, e + 1, Len(all))
               /\ \A m \in {"state", "parseStatus", "method", "uri", "isCGI"} :
                    req'[c][m] = new[m]
    ]_vars

\* Neither buffer is ever filled past its end: not by a read, not by the pieces
\* of writeResponse, and not by what a CGI program has in its pipe.
BuffersFit ==
  \A c \in Conns : Len(readBuffer[c]) <= BufSize /\ Len(writeBuffer[c]) <= BufSize

\* Every request that was parsed, correct or not, is answered once: the
\* repeated calls of processHandler for a long response count as one.
OneAnswerEach ==
  \A c \in Conns : isOpen[c] /\ pc # "killed" =>
    asked[c] = Len(answers[c]) + IF state[c] = "Request_Parsed" THEN 1 ELSE 0

\* What the connection has produced, in the kernel or in the write buffer.
Stream(c) ==
  LET done == IF pc = "writeHandler" /\ clients[it] = c THEN copied ELSE 0
  IN sock[c].sent \o SubSeq(writeBuffer[c], done + 1, Len(writeBuffer[c]))

\* How much of the last response it has produced: the two positions of writeResponse,
\* or what was read from the pipe.
LastAnswer(c) == IF answers[c] = <<>> THEN 0 ELSE answers[c][Len(answers[c])]
Position(c) ==
  CASE res[c] = NULL                  -> LastAnswer(c)
    [] res[c] # NULL /\ req[c].isCGI  -> cgi[c].got
    [] res[c] # NULL /\ ~req[c].isCGI -> res[c].headerPtr + res[c].filePtr

\* The lengths a response may have when it is built.
BuiltLengths ==
  {0, HeaderSize}
  \cup {HeaderSize + (loadFile(u, o).length % (SIZE_MAX + 1)) : u \in URIs, o \in Outcomes}

\* What the connection means to its peer.  One the server has given up on is over.
Session(c) ==
  [good  |-> isOpen[c],
   asked |-> IF isOpen[c] THEN asked[c] ELSE 0,
   lens  |-> IF isOpen[c] THEN answers[c] ELSE <<>>,
   ended |-> isOpen[c] => ~cgi[c].alive,
   pos   |-> IF isOpen[c] THEN Position(c) ELSE 0,
   out   |-> IF isOpen[c] THEN Stream(c) ELSE <<>>]

S == INSTANCE Service WITH
       Lengths <- BuiltLengths,
       session <- [c \in Conns |-> Session(c)],
       gone    <- [c \in Conns |-> sock[c].fin \/ sock[c].rst # "no"]

\* The server keeps the promise of Service: through the passes of the loop, the
\* pieces of writeResponse, the write buffer, partial writes and pipe reads,
\* every step is one of the promise or changes nothing of it.
KeepsPromise == S!Spec

\* A peer gets the responses in order, without gaps, repetitions or units of
\* another response, for as long as the connection is good.
AnswersInOrder ==
  \A c \in Conns : isOpen[c] => Unbroken(Stream(c), answers[c])

\* Before the next request is read every earlier response has been handed to
\* the kernel completely; a CGI response is all the program wrote.
AnswersWhole ==
  \A c \in Conns : isOpen[c] /\ state[c] = "Ready_ForRead" =>
    Finished(sock[c].sent, answers[c]) /\ writeBuffer[c] = <<>>

\* A connection is only given up on when its peer has closed or aborted it: no
\* pause of a peer, no full send buffer makes writeHandler setClosed.
ClosedByPeer ==
  \A c \in Conns : ~isOpen[c] => sock[c].fin \/ sock[c].rst # "no"

\* What the code has no defence against: a peer that is gone, a malformed
\* request, HEAD, a body of negative length, a file that is missing or that
\* mmap refuses, a line that sscanf reads beyond its end, a program that could
\* not be started.
Undefended(c) ==
  \/ sock[c].rst # "no"
  \/ req[c].state = "ParsedError"
  \/ req[c].method = "HEAD"
  \/ Atoi[req[c].headers["Content-Length"]] < 0
  \/ req[c].uri \in URIs /\ FileSize[req[c].uri] = Absent
  \/ res[c] # NULL /\ mapFailed(res[c])
  \/ overruns(req[c], Received(c))
  \/ res[c] # NULL /\ req[c].isCGI /\ ~res[c].CGIout

\* Nothing else ends the server, and only the connection that is being served
\* does: requests for files that can be mapped, for programs that start, and
\* their bodies, however their peers split, delay and pipeline them, never do,
\* and neither does a file that is half sent when another connection is served.
EndsForCause == pc = "killed" => Undefended(clients[it])

\* It waits for a program that could not be started, and nothing moves it again.
Stuck(c) == state[c] = "Writing_Response" /\ req[c].isCGI /\ ~piped(c)

\* A response that has been started is finished, if its peer goes on receiving
\* and its CGI program was started and ends.
ResponseCompletes ==
  \A c \in Conns :
    (state[c] = "Writing_Response" /\ ~Stuck(c))
      ~> (state[c] # "Writing_Response" \/ pc = "killed")

\* A connection whose peer has closed, with nothing left to read of it, is
\* deleted and its descriptor closed.
ClosedIsRemoved ==
  \A c \in Conns :
    (/\ sock[c].phase = "open" /\ sock[c].fin /\ sock[c].inq = <<>>
     /\ readBuffer[c] = <<>>)
      ~> (sock[c].phase = "closed" \/ pc = "killed" \/ Stuck(c))

\* HTTPRequest.cpp:89 of a request that is not complete in the buffer: "Do
\* nothing. Wait for more reqeust reading."  Select no longer watches such a
\* connection, so that what arrives later is never read.
PartialRequestIsRead ==
  \A c \in Conns :
    (/\ sock[c].phase = "open" /\ sock[c].inq # <<>>
     /\ readBuffer[c] # <<>> /\ state[c] = "Ready_ForRead")
      ~> (sock[c].inq = <<>>)

\* SelectEngine.cpp:279, in processHandler: "skip connection that has been
\* closed".  Called from the Writing_Response case it only sets the state, and
\* the caller goes on to write to the connection.
ClosedIsSkipped ==
  pc = "writeHandler" => state[clients[it]] # "Closed"

=============================================================================
