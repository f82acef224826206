---------------------------- MODULE Descriptors ----------------------------
(***************************************************************************)
(* The processes of the server and their descriptor tables: which          *)
(* descriptor numbers SelPool, ClientConnection and buildCGIResponse hold, *)
(* what they refer to, and what becomes of them when a table is full, a    *)
(* fork fails or an execv returns.                                         *)
(*                                                                         *)
(* SelectEngine names a descriptor by what it refers to and has calls that *)
(* succeed.  Here a descriptor is a number in the table of one process, a  *)
(* child starts with its parent's table, and an end of a pipe or of a      *)
(* connection is closed only when no process holds it.  Requests, answers  *)
(* and the output of programs are reduced to their effect on descriptors.  *)
(***************************************************************************)
EXTENDS Integers, Sequences, FiniteSets, FiniteSetsExt

CONSTANTS
  NULL,        \* a free slot of a table
  Conns,       \* the connections peers may open
  Procs,       \* the process numbers
  Main,        \* that of the server
  Limits,      \* the limits on open descriptors it may run under
  Requests,    \* how many requests each may bring at most
  Closers      \* those the peer may close

VARIABLES
  limit,   \* RLIMIT_NOFILE, the same for all processes
  proc,    \* the processes
  conns,   \* the connections
  pipes    \* how many pipes were made

vars == <<limit, proc, conns, pipes>>

Fds == 0..(Max(Limits) - 1)
NoFd == -1

-----------------------------------------------------------------------------
(* What a descriptor refers to                                             *)

Std(i)     == <<"std", i>>          \* and the log, number 3
Listen     == <<"listen", 0>>
Sock(c)    == <<"sock", c>>
ReadEnd(k) == <<"read", k>>         \* of the k-th pipe
WriteEnd(k) == <<"write", k>>

Objects == ({"std", "listen"} \X (0..3)) \cup ({"sock"} \X Conns)
             \cup ({"read", "write"} \X (Nat \ {0}))

\* The bit that FD_SET(-1) sets is above every descriptor.
ASSUME DescriptorsAssumption ==
  /\ Main \in Procs /\ NULL \notin Conns /\ NULL \notin Objects
  /\ Limits \subseteq 6..31 /\ Limits # {}
  /\ Requests \in [Conns -> Nat] /\ Closers \subseteq Conns

Files == [Fds -> Objects \cup {NULL}]

NoFiles == [d \in Fds |-> NULL]
free(f) == {d \in Fds : d < limit /\ f[d] = NULL}
used(f) == {f[d] : d \in Fds} \ {NULL}
fdOf(f, o) == Min({d \in Fds : f[d] = o})

\* open, accept, pipe: the lowest free number is taken.
alloc(f, o) == [f EXCEPT ![Min(free(f))] = o]
makePipe(f, k) == alloc(alloc(f, ReadEnd(k)), WriteEnd(k))
close(f, d) == IF d \in Fds THEN [f EXCEPT ![d] = NULL] ELSE f
closeAll(f, D) == [d \in Fds |-> IF d \in D THEN NULL ELSE f[d]]
dup2(f, d, e) == [f EXCEPT ![e] = f[d]]

-----------------------------------------------------------------------------
(* Processes and clients                                                   *)

\* out: CGIout of the response of the client, while it has one.
ClientStates == {"Ready_ForRead", "Writing_Response"}
Clients == [conn : Conns \cup {NULL}, fd : Fds \cup {NoFd},
            state : ClientStates, out : Fds \cup {NoFd}]
NewClient(c, d) == [conn |-> c, fd |-> d, state |-> "Ready_ForRead", out |-> NoFd]

Kinds  == {"none", "starting", "server", "program", "ended", "aborted"}
Points == {"Select", "check_clients", "check_server"}
Processes ==
  [kind : Kinds, fds : Files, pc : Points, it : Nat \ {0},
   maxfd : Fds, ready : SUBSET Fds, clients : Seq(Clients)]

Process(k, f) ==
  [kind |-> k, fds |-> f, pc |-> "Select", it |-> 1,
   maxfd |-> 0, ready |-> {}, clients |-> <<>>]

Live    == {p \in Procs : proc[p].kind \in {"starting", "server", "program"}}
Servers == {p \in Procs : proc[p].kind = "server"}
Holders(o) == {p \in Live : o \in used(proc[p].fds)}

\* No child has become a server, and the server runs.
Alone == \A p \in Procs : proc[p].kind \in {"server", "aborted"} <=>
                            p = Main /\ proc[p].kind = "server"

\* The process is over.  Nobody waits for a child, which keeps its number.
Over(p, k) == [proc EXCEPT ![p] = Process(k, NoFiles)]

Readable(o) ==
  \/ o = Listen /\ \E c \in Conns : conns[c].phase = "waiting"
  \/ \E c \in Conns : o = Sock(c) /\ (conns[c].inq > 0 \/ conns[c].fin)
  \/ \E k \in 1..pipes : o = ReadEnd(k) /\ Holders(WriteEnd(k)) = {}

-----------------------------------------------------------------------------
(* Start-up                                                                *)

\* Open_ListenSocket: when socket, setsockopt, bind or listen fails, the process exits.
Start(p) ==
  /\ proc[p].kind = "starting"
  /\ \/ LET f == alloc(proc[p].fds, Listen)
        IN proc' = [proc EXCEPT ![p] =
                      [Process("server", f) EXCEPT !.maxfd = fdOf(f, Listen)]]
     \/ proc' = Over(p, "ended")
  /\ UNCHANGED <<limit, conns, pipes>>

-----------------------------------------------------------------------------
(* Select                                                                  *)

Reading(s) == {s.clients[i].fd : i \in {j \in DOMAIN s.clients :
                                          s.clients[j].state = "Ready_ForRead"}}
Writing(s) == {i \in DOMAIN s.clients : s.clients[i].state = "Writing_Response"}
Outs(s)    == {s.clients[i].out : i \in Writing(s)}
watched(s) == {fdOf(s.fds, Listen)} \cup Reading(s) \cup Outs(s)

\* Mutant: maxfd is left to add_client.
raised_AddOnly(s) == s.maxfd
raised(s) == Max({s.maxfd} \cup Outs(s))

\* A socket is always writable here, so that a client that writes ends the wait.
Select(p) ==
  LET s == proc[p]
      r == {d \in watched(s) \ {NoFd} : d <= raised(s) /\ Readable(s.fds[d])}
  IN /\ s.kind = "server" /\ s.pc = "Select"
     /\ r # {} \/ Writing(s) # {}
     /\ proc' = [proc EXCEPT ![p] = [s EXCEPT
                   !.pc = "check_clients", !.it = 1, !.maxfd = raised(s), !.ready = r]]
     /\ UNCHANGED <<limit, conns, pipes>>

\* A build that checks its FD_SETs aborts at one of -1.
SelectAborts(p) ==
  /\ proc[p].kind = "server" /\ proc[p].pc = "Select"
  /\ NoFd \in watched(proc[p])
  /\ proc' = Over(p, "aborted")
  /\ UNCHANGED <<limit, conns, pipes>>

-----------------------------------------------------------------------------
(* check_clients                                                           *)

Handling(p) ==
  /\ proc[p].kind = "server" /\ proc[p].pc = "check_clients"
  /\ proc[p].it <= Len(proc[p].clients)
Client(p) == proc[p].clients[proc[p].it]
ReadyToRead(p) == Client(p).state = "Ready_ForRead" /\ Client(p).fd \in proc[p].ready
ReadyToPipe(p) == Client(p).state = "Writing_Response" /\ Client(p).out \in proc[p].ready

EndOfPass(p) ==
  /\ proc[p].kind = "server" /\ proc[p].pc = "check_clients"
  /\ proc[p].it > Len(proc[p].clients)
  /\ proc' = [proc EXCEPT ![p].pc = "check_server"]
  /\ UNCHANGED <<limit, conns, pipes>>

Skip(p) ==
  /\ Handling(p) /\ ~ReadyToRead(p) /\ ~ReadyToPipe(p)
  /\ proc' = [proc EXCEPT ![p].it = @ + 1]
  /\ UNCHANGED <<limit, conns, pipes>>

\* A request is read.  With two servers on one connection the other may have
\* read it: then read waits for the next.  Mutant: it does not wait.
TakeRequest_NoWait(p) ==
  /\ Handling(p) /\ ReadyToRead(p)
  /\ conns' = [conns EXCEPT ![Client(p).conn].inq = @ - 1]
TakeRequest(p) ==
  LET c == Client(p).conn
  IN /\ Handling(p) /\ ReadyToRead(p) /\ conns[c].inq > 0
     /\ conns' = [conns EXCEPT ![c].inq = @ - 1]

\* One for a file: what loadFile opens it closes.
ServeFile(p) ==
  /\ TakeRequest(p)
  /\ proc' = [proc EXCEPT ![p].it = @ + 1]
  /\ UNCHANGED <<limit, pipes>>

\* The table of the server, and the connection's own CGIout, which nothing sets.
cleanCGI(f, CGIout) == IF CGIout > 0 THEN close(f, CGIout) ELSE f
deleteClient(f, client) == cleanCGI(close(f, client.fd), NoFd)

\* The peer has closed: Close_Socket, delete and erase.  Mutants: the vector keeps
\* the client; the descriptor is left open.
CloseClient_NoErase(p) ==
  /\ Handling(p) /\ ReadyToRead(p)
  /\ conns[Client(p).conn].inq = 0 /\ conns[Client(p).conn].fin
  /\ proc' = [proc EXCEPT ![p].fds = deleteClient(close(@, Client(p).fd), Client(p)),
                          ![p].it = @ + 1]
  /\ UNCHANGED <<limit, conns, pipes>>
CloseClient_NoClose(p) ==
  /\ Handling(p) /\ ReadyToRead(p)
  /\ conns[Client(p).conn].inq = 0 /\ conns[Client(p).conn].fin
  /\ proc' = [proc EXCEPT
                ![p].clients = SubSeq(@, 1, proc[p].it - 1)
                               \o SubSeq(@, proc[p].it + 1, Len(@))]
  /\ UNCHANGED <<limit, conns, pipes>>
CloseClient(p) ==
  /\ Handling(p) /\ ReadyToRead(p)
  /\ conns[Client(p).conn].inq = 0 /\ conns[Client(p).conn].fin
  /\ proc' = [proc EXCEPT
                ![p].fds = deleteClient(close(@, Client(p).fd), Client(p)),
                ![p].ready = @ \ {Client(p).fd},
                ![p].clients = SubSeq(@, 1, proc[p].it - 1)
                               \o SubSeq(@, proc[p].it + 1, Len(@))]
  /\ UNCHANGED <<limit, conns, pipes>>

\* pipeHandler finds the pipe at its end: the response is done and deleted.
\* Nothing closes CGIout.
EndCGI(p) ==
  /\ Handling(p) /\ ReadyToPipe(p)
  /\ proc' = [proc EXCEPT
       ![p].clients[proc[p].it] = [@ EXCEPT !.state = "Ready_ForRead", !.out = NoFd],
       ![p].it = @ + 1]
  /\ UNCHANGED <<limit, conns, pipes>>

-----------------------------------------------------------------------------
(* buildCGIResponse                                                        *)

\* The server after it, with table f and CGIout d.
waiting(s, f, d) ==
  [s EXCEPT !.fds = f, !.it = @ + 1,
            !.clients[s.it] = [@ EXCEPT !.state = "Writing_Response", !.out = d]]

FreeProcs == {q \in Procs : proc[q].kind = "none"}

\* pipe fails when two slots are not there, and fork at any time: what was
\* opened before stays open.
FailCGI(p) ==
  LET s == proc[p]
      one == makePipe(s.fds, pipes + 1)
      two == makePipe(one, pipes + 2)
  IN /\ TakeRequest(p)
     /\ \/ /\ Cardinality(free(s.fds)) < 2
           /\ proc' = [proc EXCEPT ![p] = waiting(s, s.fds, NoFd)]
           /\ UNCHANGED pipes
        \/ /\ Cardinality(free(s.fds)) \in 2..3
           /\ proc' = [proc EXCEPT ![p] = waiting(s, one, NoFd)]
           /\ pipes' = pipes + 1
        \/ /\ Cardinality(free(s.fds)) >= 4
           /\ proc' = [proc EXCEPT ![p] = waiting(s, two, NoFd)]
           /\ pipes' = pipes + 2
     /\ UNCHANGED limit

\* The two pipes of a child: stdin_pipe and stdout_pipe.
In  == pipes + 1
Out == pipes + 2

\* The ends each side closes before it goes on.  Mutant: the parent keeps one.
parentCloses_KeepsOut == {ReadEnd(In), WriteEnd(In)}
parentCloses == {WriteEnd(Out), ReadEnd(In), WriteEnd(In)}
childCloses  == {ReadEnd(Out), WriteEnd(In)}
fdsOf(f, O) == {d \in Fds : f[d] \in O}

\* fork, and in the child execv: it becomes the program, or execv returns and
\* the child goes on in the loop as a server with its parent's clients.
ForkCGI(p) ==
  LET s == proc[p]
      f == makePipe(makePipe(s.fds, In), Out)
      g == closeAll(f, fdsOf(f, childCloses))
      h == dup2(dup2(g, fdOf(f, WriteEnd(Out)), 1), fdOf(f, ReadEnd(In)), 0)
  IN /\ TakeRequest(p)
     /\ Cardinality(free(s.fds)) >= 4 /\ FreeProcs # {}
     /\ LET q == CHOOSE q \in FreeProcs : TRUE
        IN \E child \in {Process("program", h), waiting(s, h, NoFd)} :
             proc' = [proc EXCEPT
                        ![p] = waiting(s, closeAll(f, fdsOf(f, parentCloses)),
                                       fdOf(f, ReadEnd(Out))),
                        ![q] = child]
     /\ pipes' = pipes + 2 /\ UNCHANGED limit

-----------------------------------------------------------------------------
(* check_server                                                            *)

\* accept gives a connection, waits when another process took it, or fails on a
\* full table; its result is not looked at.
Accept(p) ==
  LET s == proc[p]
      d == Min(free(s.fds))
  IN /\ free(s.fds) # {}
     /\ \E c \in Conns :
          /\ conns[c].phase = "waiting"
          /\ conns' = [conns EXCEPT ![c].phase = "open"]
          /\ proc' = [proc EXCEPT ![p] = [s EXCEPT
                        !.pc = "Select", !.fds = alloc(@, Sock(c)),
                        !.maxfd = IF d > @ THEN d ELSE @,
                        !.clients = Append(@, NewClient(c, d))]]

\* It fails again in every pass: one client of -1 stands for all of them.
FailAccept(p) ==
  /\ free(proc[p].fds) = {}
  /\ \/ proc' = [proc EXCEPT ![p].pc = "Select",
                 ![p].clients = IF \E i \in DOMAIN @ : @[i].fd = NoFd THEN @
                                ELSE Append(@, NewClient(NULL, NoFd))]
     \/ proc' = Over(p, "aborted")                       \* at FD_SET(-1)
  /\ UNCHANGED conns

CheckServer(p) ==
  /\ proc[p].kind = "server" /\ proc[p].pc = "check_server"
  /\ IF fdOf(proc[p].fds, Listen) \in proc[p].ready
     THEN Accept(p) \/ FailAccept(p)
     ELSE proc' = [proc EXCEPT ![p].pc = "Select"] /\ UNCHANGED conns
  /\ UNCHANGED <<limit, pipes>>

-----------------------------------------------------------------------------
(* Programs and peers (external)                                           *)

ProgramEnds(p) ==
  /\ proc[p].kind = "program" /\ proc' = Over(p, "ended")
  /\ UNCHANGED <<limit, conns, pipes>>

PeerConnect(c) ==
  /\ conns[c].phase = "none" /\ Holders(Listen) # {}
  /\ conns' = [conns EXCEPT ![c].phase = "waiting"]
  /\ UNCHANGED <<limit, proc, pipes>>

PeerSend(c) ==
  /\ conns[c].phase # "none" /\ ~conns[c].fin /\ conns[c].sent < Requests[c]
  /\ conns' = [conns EXCEPT ![c].inq = @ + 1, ![c].sent = @ + 1]
  /\ UNCHANGED <<limit, proc, pipes>>

PeerClose(c) ==
  /\ c \in Closers /\ conns[c].phase # "none" /\ ~conns[c].fin
  /\ conns' = [conns EXCEPT ![c].fin = TRUE]
  /\ UNCHANGED <<limit, proc, pipes>>

-----------------------------------------------------------------------------
Init ==
  /\ limit \in Limits
  /\ proc = [p \in Procs |->
       IF p = Main
       THEN Process("starting", [d \in Fds |-> IF d <= 3 THEN Std(d) ELSE NULL])
       ELSE Process("none", NoFiles)]
  /\ conns = [c \in Conns |-> [phase |-> "none", inq |-> 0, sent |-> 0, fin |-> FALSE]]
  /\ pipes = 0

Server(p) ==
  \/ Start(p) \/ Select(p) \/ SelectAborts(p) \/ EndOfPass(p) \/ Skip(p) \/ ServeFile(p)
  \/ CloseClient(p) \/ EndCGI(p) \/ FailCGI(p) \/ ForkCGI(p) \/ CheckServer(p)

Next ==
  \/ \E p \in Procs : Server(p) \/ ProgramEnds(p)
  \/ \E c \in Conns : PeerConnect(c) \/ PeerSend(c) \/ PeerClose(c)

Spec == Init /\ [][Next]_vars

\* The processes run and the programs end.
FairSpec == Spec /\ \A p \in Procs : WF_vars(Server(p)) /\ WF_vars(ProgramEnds(p))

-----------------------------------------------------------------------------
(* Properties                                                              *)

\* Every variable keeps its type: the one type invariant of the module.
TypeOK ==
  /\ limit \in Limits
  /\ proc \in [Procs -> Processes]
  /\ conns \in [Conns -> [phase : {"none", "waiting", "open"}, inq : Nat, sent : Nat,
                          fin : BOOLEAN]]
  /\ pipes \in Nat

\* The number a client holds is that of its own connection, in every server,
\* though numbers are used again and a closed one is closed twice: the
\* destructor's close never hits the descriptor of another client.
OwnSocket ==
  \A p \in Servers : \A i \in DOMAIN proc[p].clients :
    LET client == proc[p].clients[i]
    IN /\ client.fd = NoFd <=> client.conn = NULL
       /\ client.fd # NoFd => proc[p].fds[client.fd] = Sock(client.conn)
       /\ \A j \in DOMAIN proc[p].clients :
            i # j /\ client.fd # NoFd => proc[p].clients[j].fd # client.fd

\* No connection is left open without a client that will close it.
SocketsHaveClients ==
  \A p \in Servers : \A c \in Conns : Sock(c) \in used(proc[p].fds) =>
    \E i \in DOMAIN proc[p].clients : proc[p].clients[i].conn = c

\* A server that waits for the end of a pipe does not itself keep it from ending,
\* and while there is one server nor does any program but the one it started
\* for it, however many were started while others ran.
PipesEnd ==
  \A p \in Servers : \A i \in Writing(proc[p]) : proc[p].clients[i].out # NoFd =>
    \E k \in 1..pipes :
      /\ proc[p].fds[proc[p].clients[i].out] = ReadEnd(k)
      /\ p \notin Holders(WriteEnd(k))
      /\ Alone => Cardinality(Holders(WriteEnd(k))) <= 1

\* select looks at every number a server waits at, in one that came of a fork
\* too: maxfd is raised to each new client and pipe, though numbers are given
\* again, and is never lower than that of a client that stays.
SelectSees ==
  \A p \in Servers : LET s == proc[p] IN
    \A d \in watched(s) \cup {s.clients[i].fd : i \in Writing(s)} : d <= raised(s)

\* A CGI response ends once its program has, whatever numbers its pipe got:
\* maxfd is high enough for select to see it.
PipeAtEnd(c) ==
  \E i \in Writing(proc[Main]) :
    LET client == proc[Main].clients[i]
    IN client.conn = c /\ client.out # NoFd /\ Readable(proc[Main].fds[client.out])
CGICompletes == \A c \in Conns : PipeAtEnd(c) ~> (~PipeAtEnd(c) \/ ~Alone)

\* A connection whose peer has closed ends: its requests are read, its client
\* is deleted, and no process holds it, though programs were started with it in
\* their tables.  Where a CGI response could not be started its client stays.
Stuck(c) == \E i \in Writing(proc[Main]) : /\ proc[Main].clients[i].conn = c
                                          /\ proc[Main].clients[i].out = NoFd
ConnectionEnds ==
  \A c \in Closers :
    (conns[c].phase = "open" /\ conns[c].fin)
      ~> (Holders(Sock(c)) = {} \/ Stuck(c) \/ ~Alone)

\* ClientConnection.cpp:148, of cleanCGI, called by the destructor: "clean CGI
\* object".  It closes the CGIout of the connection, which nothing sets: when
\* the clients are gone the pipes of their responses should be too.
PipesCleaned ==
  proc[Main].clients = <<>> => \A d \in Fds : \A k \in 1..pipes :
                                 proc[Main].fds[d] # ReadEnd(k)

=============================================================================
