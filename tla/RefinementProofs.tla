--------------------------- MODULE RefinementProofs ---------------------------
(***************************************************************************)
(* The server of SelectEngine keeps the promise of Service: every step of  *)
(* the loop, of a peer or of a program is a step of the promise or changes *)
(* nothing of it.  What is proved of the promise then holds of the server. *)
(***************************************************************************)
EXTENDS SelectEngineProofs

-----------------------------------------------------------------------------
(* The invariant the mapping needs                                         *)

\* Only the write in progress has handed part of a buffer to the kernel.
Handed ==
  copied # 0 =>
    pc = "writeHandler" /\ copied <= Len(writeBuffer[clients[it]])

\* A connection that has not been accepted looks like a new one.
LooksNew(c) ==
  sock[c].phase = "none" \/ Waiting(c) =>
    isOpen[c] /\ res[c] = NULL /\ ~cgi[c].alive /\ writeBuffer[c] = <<>>

\* Nothing of a file is dumped before all of its header.
HeaderFirst(c) == res[c] # NULL /\ res[c].filePtr > 0 => res[c].headerPtr = res[c].maxHeaderPtr

\* The history has the length of the response that is being sent, or what its
\* program has written so far.
LengthKept(c) ==
  isOpen[c] /\ res[c] # NULL =>
    /\ answers[c] # <<>>
    /\ req[c].isCGI => LastAnswer(c) = cgi[c].wrote /\ cgi[c].got <= cgi[c].wrote
    /\ ~req[c].isCGI => LastAnswer(c) = res[c].maxHeaderPtr + res[c].maxFilePtr

\* A program runs only for a response that is being sent.
ProgramServed(c) ==
  cgi[c].alive /\ isOpen[c] => state[c] = "Writing_Response" /\ req[c].isCGI

\* Done_Response means that: of a program, that it has ended and its pipe is
\* empty.
DoneIsAll(c) ==
  isOpen[c] /\ state[c] = "Done_Response" =>
    /\ req[c].isCGI => ~cgi[c].alive /\ cgi[c].got = cgi[c].wrote
    /\ ~req[c].isCGI => AllDumped(res[c])

\* A connection that reads has nothing left to write.
ReadyIsEmpty(c) == isOpen[c] /\ state[c] = "Ready_ForRead" => writeBuffer[c] = <<>>

Faithful(c) ==
  /\ LooksNew(c) /\ HeaderFirst(c) /\ LengthKept(c) /\ ProgramServed(c)
  /\ DoneIsAll(c) /\ ReadyIsEmpty(c)

RInv == Handed /\ \A c \in Conns : Faithful(c)

-----------------------------------------------------------------------------
(* Data                                                                    *)

\* How much of c's write buffer has been handed over.
Done(c) == IF pc = "writeHandler" /\ clients[it] = c THEN copied ELSE 0

\* What has been produced, and what it is after a step.
LEMMA StreamIs ==
  ASSUME NEW c \in Conns
  PROVE  Stream(c) = sock[c].sent \o SubSeq(writeBuffer[c], Done(c) + 1, Len(writeBuffer[c]))
BY DEF Stream, Done

LEMMA StreamIsNext ==
  ASSUME NEW c \in Conns
  PROVE  Stream(c)' = sock'[c].sent
                        \o SubSeq(writeBuffer'[c], Done(c)' + 1, Len(writeBuffer'[c]))
BY DEF Stream, Done

\* A step that leaves it where it is.
LEMMA SameStream ==
  ASSUME NEW c \in Conns, sock'[c].sent = sock[c].sent, writeBuffer'[c] = writeBuffer[c],
         Done(c)' = Done(c)
  PROVE  Stream(c)' = Stream(c)
BY StreamIs, StreamIsNext

\* Outside a write it is the whole buffer that has yet to go.
LEMMA WholeStream ==
  ASSUME IInv, NEW c \in Conns, Done(c) = 0
  PROVE  Stream(c) = sock[c].sent \o writeBuffer[c]
<1>1. writeBuffer[c] \in Seq(Units)
  BY DEF IInv, TypeOK
<1>2. SubSeq(writeBuffer[c], 1, Len(writeBuffer[c])) = writeBuffer[c]
  BY <1>1, SubSeqFull
<1>3. Done(c) + 1 = 1
  OBVIOUS
<1> QED
  BY <1>2, <1>3, StreamIs

LEMMA WholeStreamNext ==
  ASSUME IInv', NEW c \in Conns, Done(c)' = 0
  PROVE  Stream(c)' = sock'[c].sent \o writeBuffer'[c]
<1>1. writeBuffer'[c] \in Seq(Units)
  BY DEF IInv, TypeOK
<1>2. SubSeq(writeBuffer'[c], 1, Len(writeBuffer'[c])) = writeBuffer'[c]
  BY <1>1, SubSeqFull
<1>3. Done(c)' + 1 = 1
  OBVIOUS
<1> QED
  BY <1>2, <1>3, StreamIsNext

\* It is a sequence of units.
LEMMA StreamType ==
  ASSUME IInv, NEW c \in Conns
  PROVE  Stream(c) \in Seq(Units)
<1>1. writeBuffer[c] \in Seq(Units) /\ sock[c].sent \in Seq(Units) /\ Done(c) \in Nat
  BY SocketUpdates DEF IInv, TypeOK, Done
<1>2. SubSeq(writeBuffer[c], Done(c) + 1, Len(writeBuffer[c])) \in Seq(Units)
  BY <1>1, SubSeqProperties
<1> QED
  BY <1>1, <1>2, StreamIs, ConcatProperties

\* Handing over part of a buffer changes nothing of the stream.
LEMMA HandOver ==
  ASSUME NEW sent \in Seq(Units), NEW buf \in Seq(Units),
         NEW a \in Nat, NEW b \in Nat, a <= b, b <= Len(buf)
  PROVE  (sent \o SubSeq(buf, a + 1, b)) \o SubSeq(buf, b + 1, Len(buf))
           = sent \o SubSeq(buf, a + 1, Len(buf))
<1> DEFINE x == SubSeq(buf, a + 1, b)
           y == SubSeq(buf, b + 1, Len(buf))
           z == SubSeq(buf, a + 1, Len(buf))
<1>1. Len(buf) \in Nat
  OBVIOUS
<1>2. x \in Seq(Units)
  BY <1>1, SubSeqProperties
<1>3. y \in Seq(Units)
  BY <1>1, SubSeqProperties
<1>4. x \o y = z
  <2>1. a + 1 \in 1..(Len(buf) + 1) /\ b \in ((a + 1) - 1)..Len(buf) /\ Len(buf) \in b..Len(buf)
    BY <1>1
  <2> QED
    BY <2>1, ConcatAdjacentSubSeq
<1> HIDE DEF x, y, z
<1>5. (sent \o x) \o y = sent \o (x \o y)
  BY <1>2, <1>3, ConcatAssociative, SMTT(40)
<1> QED
  BY <1>4, <1>5 DEF x, y, z

\* What writeResponse dumps is the next run of the response: the file only
\* starts when the header is complete.
LEMMA DumpedIsRun ==
  ASSUME NEW n \in Nat, NEW r \in Responses, PointersInRange(r), NEW space \in Nat,
         r.filePtr > 0 => r.headerPtr = r.maxHeaderPtr
  PROVE  /\ Dumped(n, r, space) =
              Run(n, r.headerPtr + r.filePtr, hdPart_size(r, space) + fdPart_size(r, space))
         /\ LET w == writeResponse(r, space)
            IN /\ w.filePtr > 0 => w.headerPtr = w.maxHeaderPtr
               /\ w.headerPtr = r.headerPtr + hdPart_size(r, space)
               /\ w.filePtr = r.filePtr + fdPart_size(r, space)
               /\ w.maxHeaderPtr = r.maxHeaderPtr /\ w.maxFilePtr = r.maxFilePtr
<1> DEFINE hd == hdPart_size(r, space)
           fd == fdPart_size(r, space)
           w  == writeResponse(r, space)
           p  == r.headerPtr + r.filePtr
<1>1. hd \in Nat /\ fd \in Nat
  BY WriteResponseFits
<1>2. /\ r.headerPtr \in Nat /\ r.maxHeaderPtr \in Nat /\ r.filePtr \in Nat
      /\ r.headerPtr <= r.maxHeaderPtr
  BY DEF Responses, PointersInRange
<1>3. fd > 0 => r.headerPtr + hd = r.maxHeaderPtr
  BY <1>2 DEF hdPart_size, fdPart_size
<1>4. r.filePtr > 0 => hd = 0
  BY <1>2 DEF hdPart_size
<1>5. Dumped(n, r, space) =
        [i \in 1..(hd + fd) |->
           <<n, IF i <= hd THEN r.headerPtr + i ELSE r.maxHeaderPtr + r.filePtr + (i - hd)>>]
  BY DEF Dumped
<1>6. w.headerPtr = r.headerPtr + hd /\ w.filePtr = r.filePtr + fd
      /\ w.maxHeaderPtr = r.maxHeaderPtr /\ w.maxFilePtr = r.maxFilePtr
  BY DEF writeResponse, Responses
<1> HIDE DEF hd, fd, w
<1>7. \A i \in 1..(hd + fd) :
        (IF i <= hd THEN r.headerPtr + i ELSE r.maxHeaderPtr + r.filePtr + (i - hd)) = p + i
  <2> TAKE i \in 1..(hd + fd)
  <2>1. CASE i <= hd
    <3>1. r.filePtr = 0
      BY <1>1, <1>2, <1>4, <2>1
    <3> QED
      BY <1>1, <1>2, <2>1, <3>1
  <2>2. CASE ~(i <= hd)
    <3>1. fd > 0
      BY <1>1, <2>2
    <3> QED
      BY <1>1, <1>2, <1>3, <2>2, <3>1
  <2> QED
    BY <2>1, <2>2
<1>8. Dumped(n, r, space) = Run(n, p, hd + fd)
  BY <1>5, <1>7 DEF Run
<1>9. w.filePtr > 0 => w.headerPtr = w.maxHeaderPtr
  BY <1>1, <1>2, <1>3, <1>4, <1>6
<1> QED
  BY <1>6, <1>8, <1>9 DEF hd, fd, w

\* The length of a new response is one that the promise allows.
LEMMA BuiltLength ==
  ASSUME NEW r \in Requests, ~r.isCGI, r.state = "ParsedError" \/ r.uri \in URIs,
         NEW o \in Outcomes
  PROVE  LET b == buildResponse(r, o)
         IN b.maxHeaderPtr + b.maxFilePtr \in BuiltLengths /\ b.headerPtr = 0 /\ b.filePtr = 0
<1>1. HeaderSize \in Nat
  BY ResponseAssumption
<1> QED
  BY <1>1 DEF buildResponse, buildHTTPResponse, NewResponse, BuiltLengths

-----------------------------------------------------------------------------
(* Frames                                                                  *)

\* The peer of a connection has closed or aborted it.
Gone(c) == sock[c].fin \/ sock[c].rst # "no"

\* A step that leaves alone all that the mapping sees of connection c.
Untouched(c) ==
  /\ state'[c] = state[c] /\ isOpen'[c] = isOpen[c] /\ writeBuffer'[c] = writeBuffer[c]
  /\ req'[c] = req[c] /\ res'[c] = res[c] /\ cgi'[c] = cgi[c]
  /\ asked'[c] = asked[c] /\ answers'[c] = answers[c]
  /\ sock'[c].sent = sock[c].sent
  /\ sock'[c].phase = "none" \/ Waiting(c)' => sock[c].phase = "none" \/ Waiting(c)

\* Such a step keeps the invariant at c, and what c means to its peer.
LEMMA UntouchedFaithful ==
  ASSUME NEW c \in Conns, Faithful(c), Untouched(c)
  PROVE  Faithful(c)'
BY DEF Faithful, Untouched, LooksNew, HeaderFirst, LengthKept, LastAnswer, ProgramServed,
       DoneIsAll, ReadyIsEmpty

LEMMA UntouchedSession ==
  ASSUME NEW c \in Conns, Untouched(c), Done(c)' = Done(c)
  PROVE  Session(c)' = Session(c)
<1>1. Stream(c)' = Stream(c)
  BY StreamIs, StreamIsNext DEF Untouched
<1>2. Position(c)' = Position(c)
  BY DEF Untouched, Position, LastAnswer
<1> QED
  BY <1>1, <1>2 DEF Untouched, Session

\* What the server has given up on stays given up on.
LEMMA OverSession ==
  ASSUME NEW c \in Conns, isOpen[c] = FALSE
  PROVE  Session(c) = S!Over
<1> DEFINE over(x, y) == [good |-> x, asked |-> 0, lens |-> <<>>, ended |-> y,
                          pos |-> 0, out |-> <<>>]
<1>1. S!Over = over(FALSE, TRUE)
  BY DEF S!Over
<1>2. (isOpen[c] => ~cgi[c].alive) = TRUE
  OBVIOUS
<1>3. Session(c) = over(isOpen[c], isOpen[c] => ~cgi[c].alive)
  BY DEF Session
<1> HIDE DEF over
<1>4. Session(c) = over(FALSE, TRUE)
  BY <1>2, <1>3, Zenon
<1> QED
  BY <1>1, <1>4, Zenon

LEMMA OverSessionNext ==
  ASSUME NEW c \in Conns, isOpen'[c] = FALSE
  PROVE  Session(c)' = S!Over
<1> DEFINE over(x, y) == [good |-> x, asked |-> 0, lens |-> <<>>, ended |-> y,
                          pos |-> 0, out |-> <<>>]
<1>1. S!Over = over(FALSE, TRUE)
  BY DEF S!Over
<1>2. (isOpen'[c] => ~cgi'[c].alive) = TRUE
  OBVIOUS
<1>3. Session(c)' = over(isOpen'[c], isOpen'[c] => ~cgi'[c].alive)
  BY DEF Session
<1> HIDE DEF over
<1>4. Session(c)' = over(FALSE, TRUE)
  BY <1>2, <1>3, Zenon
<1> QED
  BY <1>1, <1>4, Zenon

\* The session of a connection that is good.
LEMMA OpenSession ==
  ASSUME NEW c \in Conns, isOpen[c]
  PROVE  Session(c) = [good |-> TRUE, asked |-> asked[c], lens |-> answers[c],
                       ended |-> ~cgi[c].alive, pos |-> Position(c), out |-> Stream(c)]
BY DEF Session

LEMMA OpenSessionNext ==
  ASSUME NEW c \in Conns, isOpen'[c]
  PROVE  Session(c)' = [good |-> TRUE, asked |-> asked'[c], lens |-> answers'[c],
                        ended |-> ~cgi'[c].alive, pos |-> Position(c)', out |-> Stream(c)']
BY DEF Session

\* Steps of connection c leave those of the others alone, and no peer comes or goes.
Others(c) ==
  /\ \A d \in Conns \ {c} : Session(d)' = Session(d)
  /\ \A d \in Conns : Gone(d)' = Gone(d)

\* Then the sessions change at c only.
LEMMA SessionsStep ==
  ASSUME NEW c \in Conns, Others(c), NEW t, Session(c)' = t
  PROVE  /\ [d \in Conns |-> Session(d)]' = [[d \in Conns |-> Session(d)] EXCEPT ![c] = t]
         /\ [d \in Conns |-> sock[d].fin \/ sock[d].rst # "no"]'
              = [d \in Conns |-> sock[d].fin \/ sock[d].rst # "no"]
<1>1. \A d \in Conns : Session(d)' = IF d = c THEN t ELSE Session(d)
  BY DEF Others
<1>2. \A d \in Conns :
        (sock'[d].fin \/ sock'[d].rst # "no") = (sock[d].fin \/ sock[d].rst # "no")
  BY DEF Others, Gone
<1>3. [d \in Conns |-> Session(d)]' = [[d \in Conns |-> Session(d)] EXCEPT ![c] = t]
  BY <1>1
<1>4. [d \in Conns |-> sock'[d].fin \/ sock'[d].rst # "no"]
        = [d \in Conns |-> sock[d].fin \/ sock[d].rst # "no"]
  BY <1>2, Zenon
<1> QED
  BY <1>3, <1>4

-----------------------------------------------------------------------------
(* The steps of the promise, in terms of the server's state                *)

Fields(g, a, l, e, p, o) ==
  [good |-> g, asked |-> a, lens |-> l, ended |-> e, pos |-> p, out |-> o]

RecordsOf(V) == [good : V, asked : V, lens : V, ended : V, pos : V, out : V]

\* What a step of the promise changes of a session.
LEMMA AskedUpdate ==
  ASSUME NEW V, NEW r \in RecordsOf(V), NEW x \in V
  PROVE  [r EXCEPT !.asked = x] = Fields(r.good, x, r.lens, r.ended, r.pos, r.out)
BY DEF RecordsOf, Fields

LEMMA LensUpdate ==
  ASSUME NEW V, NEW r \in RecordsOf(V), NEW x \in V
  PROVE  [r EXCEPT !.lens = x] = Fields(r.good, r.asked, x, r.ended, r.pos, r.out)
BY DEF RecordsOf, Fields

LEMMA EndedUpdate ==
  ASSUME NEW V, NEW r \in RecordsOf(V), NEW x \in V
  PROVE  [r EXCEPT !.ended = x] = Fields(r.good, r.asked, r.lens, x, r.pos, r.out)
BY DEF RecordsOf, Fields

Promised == [S!Next]_(S!vars)

\* Nothing of any session changes.
LEMMA NothingSeen ==
  ASSUME \A d \in Conns : Session(d)' = Session(d) /\ (Gone(d)' = Gone(d))
  PROVE  Promised
<1>1. [d \in Conns |-> Session(d)]' = [d \in Conns |-> Session(d)]
  OBVIOUS
<1>2. \A d \in Conns :
        (sock'[d].fin \/ sock'[d].rst # "no") = (sock[d].fin \/ sock[d].rst # "no")
  BY DEF Gone
<1>3. [d \in Conns |-> sock'[d].fin \/ sock'[d].rst # "no"]
        = [d \in Conns |-> sock[d].fin \/ sock[d].rst # "no"]
  BY <1>2, Zenon
<1> QED
  BY <1>1, <1>3 DEF Promised, S!vars

\* A request is parsed.
LEMMA AskSeen ==
  ASSUME NEW c \in Conns, Others(c), isOpen[c], isOpen'[c],
         ~cgi[c].alive, Len(answers[c]) = asked[c], Position(c) = LastAnswer(c),
         asked'[c] = asked[c] + 1, answers'[c] = answers[c], cgi'[c].alive = cgi[c].alive,
         Position(c)' = Position(c), Stream(c)' = Stream(c)
  PROVE  Promised
<1> DEFINE s == Session(c)
           e == ~cgi[c].alive
           r == Fields(TRUE, asked[c], answers[c], e, Position(c), Stream(c))
           t == Fields(TRUE, asked[c] + 1, answers[c], e, Position(c), Stream(c))
<1>1. s = r
  BY OpenSession DEF Fields
<1>2. s' = t
  BY OpenSessionNext DEF Fields
<1>4. r.good = TRUE /\ r.asked = asked[c] /\ r.lens = answers[c] /\ r.ended = e
      /\ r.pos = Position(c) /\ r.out = Stream(c)
  BY DEF Fields
<1>3. [r EXCEPT !.asked = asked[c] + 1] = t
  <2> DEFINE n == asked[c] + 1
             V == {TRUE, asked[c], n, answers[c], e, Position(c), Stream(c)}
  <2>1. r \in RecordsOf(V) /\ n \in V
    BY DEF Fields, RecordsOf
  <2> HIDE DEF V, n, r
  <2>2. [r EXCEPT !.asked = n] = Fields(r.good, n, r.lens, r.ended, r.pos, r.out)
    BY <2>1, AskedUpdate
  <2> QED
    BY <1>4, <2>2, Zenon DEF n
<1>5. S!Whole(r)
  <2>1. answers[c] = <<>> <=> Len(answers[c]) = 0
    OBVIOUS
  <2> QED
    BY <1>4, <2>1 DEF S!Whole, S!LastLength, S!Length, LastAnswer
<1> HIDE DEF s, r, t
<1>6. [s EXCEPT !.asked = s.asked + 1] = t
  BY <1>1, <1>3, <1>4, Zenon
<1>7. s.good /\ S!Whole(s)
  BY <1>1, <1>4, <1>5, Zenon
<1>8. S!Ask(c)
  BY <1>2, <1>6, <1>7, SessionsStep DEF S!Ask, s
<1> QED
  BY <1>8 DEF Promised, S!Next

\* A response is started.
LEMMA AnswerSeen ==
  ASSUME NEW c \in Conns, Others(c), isOpen[c], isOpen'[c],
         Len(answers[c]) < asked[c],
         asked'[c] = asked[c], NEW n \in BuiltLengths, NEW k \in 0..n,
         answers'[c] = Append(answers[c], n), Position(c)' = k,
         Stream(c)' = Stream(c) \o Run(Len(answers[c]) + 1, 0, k)
  PROVE  Promised
<1> DEFINE s == Session(c)
           e == ~cgi[c].alive
           f == ~cgi'[c].alive
           l == Append(answers[c], n)
           o == Stream(c) \o S!Run(Len(answers[c]) + 1, 0, k)
           r == Fields(TRUE, asked[c], answers[c], e, Position(c), Stream(c))
           t == Fields(TRUE, asked[c], l, f, k, o)
           V == {TRUE, asked[c], answers[c], e, Position(c), Stream(c), l, f, k, o}
           u == [s EXCEPT !.lens = l, !.ended = f, !.pos = k, !.out = o]
<1>1. s = r
  BY OpenSession DEF Fields
<1>2. s' = t
  BY OpenSessionNext DEF Fields, Run, S!Run
<1>3. r \in RecordsOf(V)
  BY DEF Fields, RecordsOf
<1>4. r.good = TRUE /\ r.asked = asked[c] /\ r.lens = answers[c] /\ r.out = Stream(c)
  BY DEF Fields
<1>5. l \in V /\ f \in V /\ k \in V /\ o \in V /\ f \in BOOLEAN
  OBVIOUS
<1> HIDE DEF s, r, t, V, e, f, l, o
<1>6. u = t
  <2> DEFINE v == [r EXCEPT !.lens = l, !.ended = f, !.pos = k, !.out = o]
  <2>0. /\ v \in RecordsOf(V) /\ v.good = r.good /\ v.asked = r.asked /\ v.lens = l
        /\ v.ended = f /\ v.pos = k /\ v.out = o
    BY <1>3, <1>5 DEF RecordsOf
  <2> HIDE DEF v
  <2>1. v = Fields(r.good, r.asked, l, f, k, o)
    BY <2>0 DEF Fields, RecordsOf
  <2> QED
    BY <1>1, <1>4, <2>1, Zenon DEF t, v
<1> HIDE DEF u
<1>7. s.good /\ Len(s.lens) < s.asked /\ s.lens = answers[c] /\ s.out = Stream(c)
  BY <1>1, <1>4
<1>8. u = [s EXCEPT !.lens = Append(s.lens, n), !.ended = f, !.pos = k,
                    !.out = s.out \o S!Run(Len(s.lens) + 1, 0, k)]
  BY <1>7, Zenon DEF u, l, o
<1>9. S!Answer(c)
  <2> DEFINE all == [d \in Conns |-> Session(d)]
  <2>1. all' = [all EXCEPT ![c] = t]
        /\ UNCHANGED [d \in Conns |-> sock[d].fin \/ sock[d].rst # "no"]
    BY <1>2, SessionsStep DEF s
  <2>2. all[c] = s
    BY DEF s
  <2> HIDE DEF all
  <2>3. all' = [all EXCEPT ![c] =
          [s EXCEPT !.lens = Append(s.lens, n), !.ended = f, !.pos = k,
                    !.out = s.out \o S!Run(Len(s.lens) + 1, 0, k)]]
    BY <1>6, <1>8, <2>1, Zenon
  <2>4. all[c].good /\ Len(all[c].lens) < all[c].asked
    BY <1>7, <2>2
  <2>5. \E m \in BuiltLengths, x \in BOOLEAN : \E j \in 0..m :
          all' = [all EXCEPT ![c] =
            [all[c] EXCEPT !.lens = Append(all[c].lens, m), !.ended = x, !.pos = j,
                           !.out = all[c].out \o S!Run(Len(all[c].lens) + 1, 0, j)]]
    BY <1>5, <2>2, <2>3, Zenon
  <2> QED
    BY <2>1, <2>4, <2>5, Zenon DEF S!Answer, all
<1> QED
  BY <1>9 DEF Promised, S!Next

\* A piece of it is produced.
LEMMA ProduceSeen ==
  ASSUME NEW c \in Conns, Others(c), isOpen[c], isOpen'[c], answers[c] # <<>>,
         answers[c] \in Seq(Nat), NEW k \in 1..(LastAnswer(c) - Position(c)),
         asked'[c] = asked[c], answers'[c] = answers[c], cgi'[c].alive = cgi[c].alive,
         Position(c)' = Position(c) + k,
         Stream(c)' = Stream(c) \o Run(Len(answers[c]), Position(c), k)
  PROVE  Promised
<1> DEFINE s == Session(c)
           e == ~cgi[c].alive
           p == Position(c) + k
           o == Stream(c) \o S!Run(Len(answers[c]), Position(c), k)
           r == Fields(TRUE, asked[c], answers[c], e, Position(c), Stream(c))
           t == Fields(TRUE, asked[c], answers[c], e, p, o)
           V == {TRUE, asked[c], answers[c], e, Position(c), Stream(c), p, o}
           u == [s EXCEPT !.pos = p, !.out = o]
<1>1. s = r
  BY OpenSession DEF Fields
<1>2. s' = t
  BY OpenSessionNext DEF Fields, Run, S!Run
<1>3. r \in RecordsOf(V)
  BY DEF Fields, RecordsOf
<1>4. /\ r.good = TRUE /\ r.asked = asked[c] /\ r.lens = answers[c] /\ r.ended = e
      /\ r.pos = Position(c) /\ r.out = Stream(c)
  BY DEF Fields
<1>5. p \in V /\ o \in V
  OBVIOUS
<1> HIDE DEF s, r, t, V, e, p, o
<1>6. u = t
  <2> DEFINE v == [r EXCEPT !.pos = p, !.out = o]
  <2>1. /\ v \in RecordsOf(V) /\ v.good = r.good /\ v.asked = r.asked /\ v.lens = r.lens
        /\ v.ended = r.ended /\ v.pos = p /\ v.out = o
    BY <1>3, <1>5 DEF RecordsOf
  <2> HIDE DEF v
  <2>2. v = Fields(r.good, r.asked, r.lens, r.ended, p, o)
    BY <2>1 DEF Fields, RecordsOf
  <2> QED
    BY <1>1, <1>4, <2>2, Zenon DEF t, v
<1> HIDE DEF u
<1>7. s.good /\ s.lens = answers[c] /\ s.pos = Position(c) /\ s.out = Stream(c)
  BY <1>1, <1>4
<1>8. k \in 1..(S!LastLength(s) - s.pos)
  <2>1. Len(answers[c]) # 0
    OBVIOUS
  <2> QED
    BY <1>7, <2>1 DEF S!LastLength, S!Length, LastAnswer
<1>9. S!Produce(c)
  <2> DEFINE all == [d \in Conns |-> Session(d)]
  <2>1. all' = [all EXCEPT ![c] = u]
        /\ UNCHANGED [d \in Conns |-> sock[d].fin \/ sock[d].rst # "no"]
    BY <1>2, <1>6, SessionsStep DEF s
  <2>2. all[c] = s
    BY DEF s
  <2>3. [all EXCEPT ![c].pos = @ + k, ![c].out = @ \o S!Run(Len(s.lens), s.pos, k)]
          = [all EXCEPT ![c] = [all[c] EXCEPT !.pos = @ + k,
                                              !.out = @ \o S!Run(Len(s.lens), s.pos, k)]]
    OBVIOUS
  <2> HIDE DEF all
  <2>4. u = [all[c] EXCEPT !.pos = all[c].pos + k,
                           !.out = all[c].out \o S!Run(Len(s.lens), s.pos, k)]
    BY <1>7, <2>2, Zenon DEF u, p, o
  <2>5. all' = [all EXCEPT ![c].pos = @ + k, ![c].out = @ \o S!Run(Len(s.lens), s.pos, k)]
    BY <2>1, <2>3, <2>4, Zenon
  <2>6. all[c].good
    BY <1>7, <2>2
  <2>7. \E j \in 1..(S!LastLength(all[c]) - all[c].pos) :
          all' = [all EXCEPT ![c].pos = @ + j,
                             ![c].out = @ \o S!Run(Len(all[c].lens), all[c].pos, j)]
    BY <1>8, <2>2, <2>5, Zenon
  <2> QED
    BY <2>1, <2>6, <2>7, Zenon DEF S!Produce, all
<1> QED
  BY <1>9 DEF Promised, S!Next

\* A program writes.
LEMMA GrowSeen ==
  ASSUME NEW c \in Conns, Others(c), isOpen[c], isOpen'[c], answers[c] # <<>>,
         answers[c] \in Seq(Nat), cgi[c].alive, cgi'[c].alive,
         asked'[c] = asked[c],
         answers'[c] = [answers[c] EXCEPT ![Len(answers[c])] = @ + 1],
         Position(c)' = Position(c), Stream(c)' = Stream(c)
  PROVE  Promised
<1> DEFINE s == Session(c)
           e == ~cgi[c].alive
           n == Len(answers[c])
           l == [answers[c] EXCEPT ![n] = @ + 1]
           r == Fields(TRUE, asked[c], answers[c], e, Position(c), Stream(c))
           t == Fields(TRUE, asked[c], l, e, Position(c), Stream(c))
           V == {TRUE, asked[c], answers[c], e, Position(c), Stream(c), l}
<1>1. s = r
  BY OpenSession DEF Fields
<1>2. s' = t
  BY OpenSessionNext DEF Fields
<1>3. r \in RecordsOf(V) /\ l \in V /\ e = FALSE
  BY DEF Fields, RecordsOf
<1>4. /\ r.good = TRUE /\ r.asked = asked[c] /\ r.lens = answers[c] /\ r.ended = e
      /\ r.pos = Position(c) /\ r.out = Stream(c)
  BY DEF Fields
<1>5. n > 0
  OBVIOUS
<1> HIDE DEF s, r, t, V, e, l, n
<1>6. [r EXCEPT !.lens = l] = t
  <2>1. [r EXCEPT !.lens = l] = Fields(r.good, r.asked, l, r.ended, r.pos, r.out)
    BY <1>3, LensUpdate, SMTT(40)
  <2> QED
    BY <1>4, <2>1, Zenon DEF t
<1>7. s.good = TRUE /\ s.lens = answers[c] /\ s.ended = FALSE /\ [s EXCEPT !.lens = l] = t
  BY <1>1, <1>3, <1>4, <1>6, Zenon
<1>8. S!Grow(c)
  <2> DEFINE all == [d \in Conns |-> Session(d)]
  <2>1. all' = [all EXCEPT ![c] = t]
        /\ UNCHANGED [d \in Conns |-> sock[d].fin \/ sock[d].rst # "no"]
    BY <1>2, SessionsStep DEF s
  <2>2. all[c] = s
    BY DEF s
  <2>3. [all EXCEPT ![c].lens[n] = @ + 1]
          = [all EXCEPT ![c] = [all[c] EXCEPT !.lens = [all[c].lens EXCEPT ![n] = @ + 1]]]
    OBVIOUS
  <2> HIDE DEF all
  <2>4. all[c].lens = answers[c] /\ all[c].good /\ ~all[c].ended /\ Len(all[c].lens) = n
    BY <1>7, <2>2 DEF n
  <2>5. all' = [all EXCEPT ![c].lens[n] = @ + 1]
    BY <1>7, <2>1, <2>2, <2>3, <2>4, Zenon DEF l
  <2>6. all' = [all EXCEPT ![c].lens[Len(all[c].lens)] = @ + 1]
    BY <2>4, <2>5, Zenon
  <2> QED
    BY <1>5, <2>1, <2>4, <2>6 DEF S!Grow, all
<1> QED
  BY <1>8 DEF Promised, S!Next

\* A program ends.
LEMMA EndSeen ==
  ASSUME NEW c \in Conns, Others(c), isOpen[c], isOpen'[c], cgi[c].alive, ~cgi'[c].alive,
         asked'[c] = asked[c], answers'[c] = answers[c],
         Position(c)' = Position(c), Stream(c)' = Stream(c)
  PROVE  Promised
<1> DEFINE s == Session(c)
           r == Fields(TRUE, asked[c], answers[c], FALSE, Position(c), Stream(c))
           t == Fields(TRUE, asked[c], answers[c], TRUE, Position(c), Stream(c))
           V == {TRUE, FALSE, asked[c], answers[c], Position(c), Stream(c)}
<1>1. s = r
  BY OpenSession DEF Fields
<1>2. s' = t
  BY OpenSessionNext DEF Fields
<1>3. r \in RecordsOf(V) /\ TRUE \in V
  BY DEF Fields, RecordsOf
<1>4. /\ r.good = TRUE /\ r.asked = asked[c] /\ r.lens = answers[c] /\ r.ended = FALSE
      /\ r.pos = Position(c) /\ r.out = Stream(c)
  BY DEF Fields
<1> HIDE DEF s, r, t, V
<1>5. [r EXCEPT !.ended = TRUE] = t
  <2>1. [r EXCEPT !.ended = TRUE] = Fields(r.good, r.asked, r.lens, TRUE, r.pos, r.out)
    BY <1>3, EndedUpdate
  <2> QED
    BY <1>4, <2>1, Zenon DEF t
<1>6. s.good = TRUE /\ s.ended = FALSE /\ [s EXCEPT !.ended = TRUE] = t
  BY <1>1, <1>4, <1>5, Zenon
<1>7. S!End(c)
  BY <1>2, <1>6, SessionsStep DEF S!End, s
<1> QED
  BY <1>7 DEF Promised, S!Next

\* The server gives up on a connection.
LEMMA GiveUpSeen ==
  ASSUME NEW c \in Conns, Others(c), isOpen'[c] = FALSE, Gone(c)
  PROVE  Promised
<1>1. Session(c)' = S!Over
  BY OverSessionNext
<1>2. S!GiveUp(c)
  BY <1>1, SessionsStep DEF S!GiveUp, Gone
<1> QED
  BY <1>2 DEF Promised, S!Next

\* A peer closes or aborts its connection.
LEMMA LeaveSeen ==
  ASSUME NEW c \in Conns, \A d \in Conns : Session(d)' = Session(d),
         \A d \in Conns \ {c} : Gone(d)' = Gone(d), Gone(c)'
  PROVE  Promised
<1>1. CASE Gone(c)
  <2>1. \A d \in Conns : Gone(d)' = Gone(d)
    BY <1>1 DEF Gone
  <2> QED
    BY <2>1, NothingSeen
<1>2. CASE ~Gone(c)
  <2> DEFINE g(d) == sock[d].fin \/ sock[d].rst # "no"
  <2>1. \A d \in Conns : g(d)' = IF d = c THEN TRUE ELSE g(d)
    BY DEF Gone
  <2>2. ~g(c) /\ [d \in Conns |-> Session(d)]' = [d \in Conns |-> Session(d)]
    BY <1>2 DEF Gone
  <2> HIDE DEF g
  <2>3. [d \in Conns |-> g(d)]' = [[d \in Conns |-> g(d)] EXCEPT ![c] = TRUE]
    BY <2>1
  <2>4. S!Leave(c)
    BY <2>2, <2>3 DEF S!Leave, g
  <2> QED
    BY <2>4 DEF Promised, S!Next
<1> QED
  BY <1>1, <1>2

-----------------------------------------------------------------------------
(* The initial states                                                      *)

\* Nothing has been asked when the server starts.
LEMMA StartFaithful == Init => RInv /\ S!Init
<1> SUFFICES ASSUME Init PROVE RInv /\ S!Init
  OBVIOUS
<1>1. \A c \in Conns : /\ sock[c].sent = <<>> /\ ~sock[c].fin /\ sock[c].rst = "no"
                       /\ sock[c].phase = "none"
  BY DEF Init, NewSocket
<1>2. RInv
  BY DEF Init, RInv, Handed, Faithful, LooksNew, HeaderFirst, LengthKept, ProgramServed,
         DoneIsAll, ReadyIsEmpty
<1>3. ASSUME NEW c \in Conns
      PROVE  Session(c) = S!Start
  <2>1. isOpen[c] /\ ~cgi[c].alive /\ asked[c] = 0 /\ answers[c] = <<>> /\ res[c] = NULL
        /\ writeBuffer[c] = <<>> /\ (~cgi[c].alive) = TRUE
    BY DEF Init
  <2>2. Position(c) = 0
    BY <2>1 DEF Position, LastAnswer
  <2>3. Stream(c) = <<>>
    <3>1. Done(c) + 1 = 1
      BY DEF Init, Done
    <3>2. SubSeq(<<>>, 1, Len(<<>>)) = <<>> /\ <<>> \o <<>> = <<>>
      OBVIOUS
    <3> QED
      BY <1>1, <2>1, <3>1, <3>2, StreamIs
  <2>4. Session(c) = [good |-> TRUE, asked |-> 0, lens |-> <<>>, ended |-> ~cgi[c].alive,
                      pos |-> 0, out |-> <<>>]
    BY <2>1, <2>2, <2>3, OpenSession
  <2> QED
    BY <2>1, <2>4, Zenon DEF S!Start
<1>4. S!Init
  <2>1. [c \in Conns |-> Session(c)] = [c \in Conns |-> S!Start]
    BY <1>3
  <2>2. \A c \in Conns : (sock[c].fin \/ sock[c].rst # "no") = FALSE
    BY <1>1
  <2>3. [c \in Conns |-> sock[c].fin \/ sock[c].rst # "no"] = [c \in Conns |-> FALSE]
    BY <2>2, Zenon
  <2> QED
    BY <2>1, <2>3 DEF S!Init
<1> QED
  BY <1>2, <1>4

-----------------------------------------------------------------------------
(* Steps that the mapping does not see                                     *)

\* Connection c is the only one a step touches.
LEMMA OthersKept ==
  ASSUME RInv, NEW c \in Conns, \A d \in Conns \ {c} : Untouched(d),
         \A d \in Conns \ {c} : Done(d)' = Done(d), \A d \in Conns : Gone(d)' = Gone(d)
  PROVE  Others(c) /\ \A d \in Conns \ {c} : Faithful(d)'
<1>1. \A d \in Conns \ {c} : Session(d)' = Session(d)
  BY UntouchedSession
<1>2. \A d \in Conns \ {c} : Faithful(d)'
  BY UntouchedFaithful DEF RInv
<1> QED
  BY <1>1, <1>2 DEF Others

\* Nothing changes that the mapping sees.
LEMMA Quiet ==
  ASSUME RInv, UNCHANGED <<copied, connVars, cgi, history>>,
         copied = 0 \/ UNCHANGED <<pc, clients, it>>,
         \A d \in Conns :
           /\ sock'[d].sent = sock[d].sent /\ (Gone(d)' = Gone(d))
           /\ sock'[d].phase = "none" \/ Waiting(d)' => sock[d].phase = "none" \/ Waiting(d)
  PROVE  RInv' /\ Promised
<1>1. \A d \in Conns : Untouched(d)
  BY DEF Untouched, connVars, history
<1>2. \A d \in Conns : Done(d)' = Done(d)
  BY DEF Done
<1>3. \A d \in Conns : Session(d)' = Session(d) /\ Faithful(d)'
  BY <1>1, <1>2, UntouchedSession, UntouchedFaithful DEF RInv
<1>4. Handed'
  BY DEF RInv, Handed, connVars
<1> QED
  BY <1>3, <1>4, NothingSeen DEF RInv

\* Select and the turns of check_clients.
LEMMA LoopFaithful ==
  ASSUME RInv, NEW c \in Conns,
         Select \/ SelectAborts \/ EndOfPass \/ Skip(c) \/ WriteMore(c)
  PROVE  RInv' /\ Promised
<1>1. UNCHANGED <<copied, connVars, cgi, sock, backlog, history>> /\ pc # "writeHandler"
  BY DEF Select, SelectAborts, EndOfPass, Skip, WriteMore, Handling, envVars, poolVars
<1>2. copied = 0
  BY <1>1 DEF RInv, Handed
<1>3. \A d \in Conns : (Gone(d)' = Gone(d)) /\ (Waiting(d)' = Waiting(d))
  BY <1>1 DEF Gone, Waiting
<1> QED
  BY <1>1, <1>2, <1>3, Quiet

\* A crash changes nothing that a peer was promised: it gets no more of it.
LEMMA CrashFaithful ==
  ASSUME RInv, NEW c \in Conns,
         (ReadHandler(c) /\ ReadCrash(c)) \/ (WriteHandler(c) /\ BrokenPipe(c))
  PROVE  RInv' /\ Promised
<1>1. UNCHANGED <<copied, connVars, cgi, sock, backlog, history>>
      /\ (pc # "writeHandler" \/ copied = 0)
  BY DEF ReadHandler, ReadCrash, WriteHandler, BrokenPipe, Handling, connVars, history
<1>2. copied = 0
  BY <1>1 DEF RInv, Handed
<1>3. \A d \in Conns : (Gone(d)' = Gone(d)) /\ (Waiting(d)' = Waiting(d))
  BY <1>1 DEF Gone, Waiting
<1> QED
  BY <1>1, <1>2, <1>3, Quiet

-----------------------------------------------------------------------------
(* readHandler                                                             *)

\* A client in the vector has been accepted.
LEMMA ClientAccepted ==
  ASSUME IInv, NEW c \in Conns, it \in 1..Len(clients), clients[it] = c
  PROVE  sock[c].phase # "none" /\ ~Waiting(c)
<1>1. c \in InPool
  BY DEF InPool, IInv, TypeOK
<1> QED
  BY <1>1 DEF IInv, AcceptedOnce

\* A connection the server has given up on stays as it is.
LEMMA StillOver ==
  ASSUME NEW c \in Conns, Others(c), isOpen[c] = FALSE, isOpen'[c] = FALSE
  PROVE  Promised
<1>1. Session(c)' = Session(c)
  BY OverSession, OverSessionNext
<1> QED
  BY <1>1, NothingSeen DEF Others

\* Nothing changes of a connection that is good.
LEMMA StillGood ==
  ASSUME NEW c \in Conns, Others(c), isOpen[c], isOpen'[c],
         asked'[c] = asked[c], answers'[c] = answers[c], cgi'[c].alive = cgi[c].alive,
         Position(c)' = Position(c), Stream(c)' = Stream(c)
  PROVE  Promised
<1> DEFINE e == ~cgi[c].alive
           f == ~cgi'[c].alive
<1>1. e = f
  OBVIOUS
<1>2. /\ Session(c) = Fields(TRUE, asked[c], answers[c], e, Position(c), Stream(c))
      /\ Session(c)' = Fields(TRUE, asked'[c], answers'[c], f, Position(c)', Stream(c)')
  BY OpenSession, OpenSessionNext DEF Fields
<1> HIDE DEF e, f
<1>3. Session(c)' = Session(c)
  BY <1>1, <1>2
<1> QED
  BY <1>3, NothingSeen DEF Others

\* ReadData: a request is asked for when it is parsed, and the answers before have left.
LEMMA ReadDataFaithful ==
  ASSUME IInv, RInv, NEW c \in Conns, ReadHandler(c), ReadData(c)
  PROVE  RInv' /\ Promised
<1>1. /\ pc = "check_clients" /\ it \in 1..Len(clients) /\ clients[it] = c
      /\ state[c] = "Ready_ForRead"
      /\ UNCHANGED <<clients, copied, isOpen, writeBuffer, res, backlog, cgi, answers>>
  BY DEF IInv, IteratorInRange, ReadHandler, ReadData, Handling
<1>2. /\ \A d \in Conns \ {c} : req'[d] = req[d] /\ state'[d] = state[d] /\ asked'[d] = asked[d]
      /\ \/ state'[c] = "Request_Parsed" /\ asked'[c] = asked[c] + 1
         \/ state'[c] = "Ready_ForRead" /\ asked'[c] = asked[c]
  BY <1>1 DEF ReadData, IInv, TypeOK
<1>3. \A d \in Conns : /\ sock'[d].sent = sock[d].sent /\ sock'[d].phase = sock[d].phase
                       /\ sock'[d].fin = sock[d].fin /\ sock'[d].rst = sock[d].rst
  BY ZenonT(60) DEF ReadData, IInv, TypeOK, Sockets
<1>4. \A d \in Conns : (Gone(d)' = Gone(d)) /\ (Waiting(d)' = Waiting(d))
  BY <1>1, <1>3 DEF Gone, Waiting
<1>5. copied = 0 /\ \A d \in Conns : Done(d) = 0 /\ Done(d)' = 0
  BY <1>1 DEF RInv, Handed, Done
<1>6. \A d \in Conns \ {c} : Untouched(d)
  BY <1>1, <1>2, <1>3, <1>4 DEF Untouched
<1>7. Others(c) /\ \A d \in Conns \ {c} : Faithful(d)'
  BY <1>4, <1>5, <1>6, OthersKept
<1>8. sock[c].phase # "none" /\ ~Waiting(c) /\ res[c] = NULL /\ isOpen[c] \in BOOLEAN
  BY <1>1, ClientAccepted DEF IInv, FreshResponse, TypeOK
<1>9. isOpen[c] => ~cgi[c].alive /\ writeBuffer[c] = <<>>
  BY <1>1 DEF RInv, Faithful, ProgramServed, ReadyIsEmpty
<1>10. Faithful(c)'
  BY <1>1, <1>2, <1>3, <1>4, <1>8, <1>9
     DEF Faithful, LooksNew, HeaderFirst, LengthKept, ProgramServed, DoneIsAll, ReadyIsEmpty
<1>11. RInv'
  BY <1>1, <1>5, <1>7, <1>10 DEF RInv, Handed
<1>12. Position(c) = LastAnswer(c) /\ Position(c)' = Position(c) /\ Stream(c)' = Stream(c)
  <2>1. res'[c] = NULL /\ answers'[c] = answers[c]
    BY <1>1, <1>8
  <2>2. Stream(c)' = Stream(c)
    BY <1>1, <1>3, <1>5, SameStream
  <2> QED
    BY <1>8, <2>1, <2>2 DEF Position, LastAnswer
<1>13. Promised
  <2>1. CASE isOpen[c] = FALSE
    BY <1>1, <1>7, <2>1, StillOver
  <2>2. CASE isOpen[c] /\ asked'[c] = asked[c]
    BY <1>1, <1>7, <1>12, <2>2, StillGood
  <2>3. CASE isOpen[c] /\ asked'[c] = asked[c] + 1
    <3>1. asked[c] = Len(answers[c]) + IF state[c] = "Request_Parsed" THEN 1 ELSE 0
      BY <1>1, <2>3 DEF IInv, OneAnswerEach
    <3>2. answers[c] \in Seq(Nat)
      BY DEF IInv, TypeOK
    <3>3. asked[c] = Len(answers[c])
      BY <1>1, <3>1, <3>2
    <3> QED
      BY <1>1, <1>7, <1>9, <1>12, <2>3, <3>3, AskSeen
  <2> QED
    BY <1>2, <1>8, <2>1, <2>2, <2>3
<1> QED
  BY <1>11, <1>13

\* ReadEOF and ReadError: the server gives up on a connection whose peer is gone.
LEMMA ReadEndFaithful ==
  ASSUME IInv, RInv, NEW c \in Conns, ReadHandler(c), ReadEOF(c) \/ ReadError(c)
  PROVE  RInv' /\ Promised
<1>1. /\ pc = "check_clients" /\ it \in 1..Len(clients) /\ clients[it] = c
      /\ state[c] = "Ready_ForRead"
      /\ UNCHANGED <<clients, copied, writeBuffer, req, res, backlog, cgi, asked, answers>>
      /\ isOpen' = [isOpen EXCEPT ![c] = FALSE]
      /\ pc' # "writeHandler"
  BY DEF IInv, IteratorInRange, ReadHandler, ReadEOF, ReadError, Handling, NextClient
<1>2. /\ \A d \in Conns \ {c} : isOpen'[d] = isOpen[d] /\ state'[d] = state[d]
      /\ isOpen'[c] = FALSE /\ state'[c] \in {"Request_Parsed", "Ready_ForRead"}
  BY <1>1 DEF ReadEOF, ReadError, IInv, TypeOK
<1>3. \A d \in Conns : /\ sock'[d].sent = sock[d].sent /\ sock'[d].phase = sock[d].phase
                       /\ sock'[d].fin = sock[d].fin
                       /\ (sock'[d].rst = "no") = (sock[d].rst = "no")
  <2>1. CASE ReadEOF(c)
    BY <2>1 DEF ReadEOF
  <2>2. CASE ReadError(c)
    <3> DEFINE t == [sock[c] EXCEPT !.rst = "reported"]
    <3>1. sock' = [sock EXCEPT ![c] = t] /\ sock[c].rst = "pending" /\ sock[c] \in Sockets
          /\ sock \in [Conns -> Sockets]
      BY <2>2 DEF ReadError, IInv, TypeOK
    <3>2. t.sent = sock[c].sent /\ t.phase = sock[c].phase /\ t.fin = sock[c].fin
          /\ t.rst = "reported"
      BY <3>1 DEF Sockets
    <3> HIDE DEF t
    <3> QED
      BY <3>1, <3>2
  <2> QED
    BY <2>1, <2>2
<1>4. \A d \in Conns : (Gone(d)' = Gone(d)) /\ (Waiting(d)' = Waiting(d))
  BY <1>1, <1>3 DEF Gone, Waiting
<1>5. copied = 0 /\ \A d \in Conns : Done(d) = 0 /\ Done(d)' = 0
  BY <1>1 DEF RInv, Handed, Done
<1>6. \A d \in Conns \ {c} : Untouched(d)
  BY <1>1, <1>2, <1>3, <1>4 DEF Untouched
<1>7. Others(c) /\ \A d \in Conns \ {c} : Faithful(d)'
  BY <1>4, <1>5, <1>6, OthersKept
<1>8. sock[c].phase # "none" /\ ~Waiting(c) /\ res[c] = NULL
  BY <1>1, ClientAccepted DEF IInv, FreshResponse
<1>9. Faithful(c)'
  BY <1>1, <1>2, <1>3, <1>4, <1>8
     DEF Faithful, LooksNew, HeaderFirst, LengthKept, ProgramServed, DoneIsAll, ReadyIsEmpty
<1>10. RInv'
  BY <1>1, <1>5, <1>7, <1>9 DEF RInv, Handed
<1>11. Gone(c)
  BY DEF ReadEOF, ReadError, Gone
<1> QED
  BY <1>2, <1>7, <1>10, <1>11, GiveUpSeen

-----------------------------------------------------------------------------
(* processHandler                                                          *)

\* CloseClient and ProcessClosed: nothing is left to promise.
LEMMA ClosedFaithful ==
  ASSUME IInv, RInv, NEW c \in Conns, CloseClient(c) \/ ProcessClosed(c)
  PROVE  RInv' /\ Promised
<1>1. /\ pc = "processHandler" /\ it \in 1..Len(clients) /\ clients[it] = c
      /\ UNCHANGED <<copied, isOpen, writeBuffer, req, res, backlog, cgi, asked, answers>>
      /\ state' = [state EXCEPT ![c] = "Closed"] /\ ~isOpen[c]
  BY DEF IInv, IteratorInRange, CloseClient, ProcessClosed, Processing, envVars, history
<1>2. /\ \A d \in Conns \ {c} : state'[d] = state[d]
      /\ state'[c] = "Closed" /\ isOpen[c] = FALSE
  BY <1>1 DEF IInv, TypeOK
<1>3. \A d \in Conns : /\ sock'[d].sent = sock[d].sent /\ sock'[d].fin = sock[d].fin
                       /\ sock'[d].rst = sock[d].rst
                       /\ sock'[d].phase = "none" => sock[d].phase = "none"
  <2>1. CASE ProcessClosed(c)
    BY <2>1 DEF ProcessClosed, envVars
  <2>2. CASE CloseClient(c)
    BY <2>2, ZenonT(60) DEF CloseClient, IInv, TypeOK, Sockets
  <2> QED
    BY <2>1, <2>2
<1>4. \A d \in Conns : (Gone(d)' = Gone(d)) /\ (Waiting(d)' = Waiting(d))
  BY <1>1, <1>3 DEF Gone, Waiting
<1>5. copied = 0 /\ copied' = 0 /\ \A d \in Conns : Done(d) = 0 /\ Done(d)' = 0
  BY <1>1 DEF RInv, Handed, Done
<1>6. \A d \in Conns \ {c} : Untouched(d)
  BY <1>1, <1>2, <1>3, <1>4 DEF Untouched
<1>7. Others(c) /\ \A d \in Conns \ {c} : Faithful(d)'
  BY <1>4, <1>5, <1>6, OthersKept
<1>8. sock[c].phase # "none" /\ ~Waiting(c)
  BY <1>1, ClientAccepted
<1>9. Faithful(c)'
  BY <1>1, <1>2, <1>3, <1>4, <1>8
     DEF RInv, Faithful, LooksNew, HeaderFirst, LengthKept, ProgramServed, DoneIsAll, ReadyIsEmpty
<1>10. RInv'
  BY <1>5, <1>7, <1>9 DEF RInv, Handed
<1> QED
  BY <1>1, <1>2, <1>7, <1>10, StillOver

\* StartCGI: a response of no length yet, which grows.
LEMMA StartCGIFaithful ==
  ASSUME IInv, RInv, NEW c \in Conns, NEW o \in Outcomes, StartCGI(c, o)
  PROVE  RInv' /\ Promised
<1>1. /\ pc = "processHandler" /\ it \in 1..Len(clients) /\ clients[it] = c
      /\ isOpen[c] /\ Parsed(req[c]) /\ req[c].isCGI
      /\ UNCHANGED <<it, clients, copied, isOpen, writeBuffer, req, sock, backlog, asked>>
      /\ state' = [state EXCEPT ![c] = "Writing_Response"]
      /\ res' = [res EXCEPT ![c] = Response(c, o)] /\ answers' = Answered(c, o)
  BY DEF IInv, IteratorInRange, StartCGI, Processing, poolVars
<1>2. res[c] = NULL /\ state[c] = "Request_Parsed"
  BY <1>1, ResponseType DEF IInv, HandlerHasWork
<1>3. /\ Response(c, o) \in Responses /\ Response(c, o) # NULL
      /\ Response(c, o).maxHeaderPtr = 0 /\ Response(c, o).maxFilePtr = 0
      /\ Response(c, o).filePtr = 0
  <2>1. Response(c, o) \in Responses /\ Response(c, o) # NULL
    BY <1>1, ResponseType, SelectAssumption
  <2>2. Response(c, o) = [NewResponse EXCEPT !.CGIout = (o = "done")]
    BY <1>1, <1>2 DEF Response, buildResponse, buildCGIResponse
  <2>3. /\ [NewResponse EXCEPT !.CGIout = (o = "done")].maxHeaderPtr = 0
        /\ [NewResponse EXCEPT !.CGIout = (o = "done")].maxFilePtr = 0
        /\ [NewResponse EXCEPT !.CGIout = (o = "done")].filePtr = 0
    BY DEF NewResponse
  <2> QED
    BY <2>1, <2>2, <2>3
<1>4. /\ answers[c] \in Seq(Nat) /\ answers' = [answers EXCEPT ![c] = Append(answers[c], 0)]
      /\ answers'[c] = Append(answers[c], 0)
      /\ Len(answers'[c]) = Len(answers[c]) + 1 /\ answers'[c][Len(answers'[c])] = 0
      /\ answers'[c] # <<>>
  <2>1. answers[c] \in Seq(Nat) /\ answers \in [Conns -> Seq(Nat)]
    BY DEF IInv, TypeOK
  <2>2. answers' = [answers EXCEPT ![c] = Append(answers[c], 0)]
    BY <1>1, <1>2, <1>3 DEF Answered
  <2>3. answers'[c] = Append(answers[c], 0)
    BY <2>1, <2>2
  <2> QED
    BY <2>1, <2>2, <2>3
<1>5. /\ \A d \in Conns \ {c} : state'[d] = state[d] /\ res'[d] = res[d] /\ cgi'[d] = cgi[d]
                                /\ answers'[d] = answers[d]
      /\ state'[c] = "Writing_Response" /\ res'[c] = Response(c, o)
      /\ cgi'[c] = [alive |-> Response(c, o).CGIout, wrote |-> 0, got |-> 0]
  BY <1>1, <1>2, <1>4 DEF StartCGI, IInv, TypeOK
<1>6. \A d \in Conns : (Gone(d)' = Gone(d)) /\ (Waiting(d)' = Waiting(d))
  BY <1>1 DEF Gone, Waiting
<1>7. copied = 0 /\ copied' = 0 /\ \A d \in Conns : Done(d) = 0 /\ Done(d)' = 0
  BY <1>1 DEF RInv, Handed, Done
<1>8. \A d \in Conns \ {c} : Untouched(d)
  BY <1>1, <1>5, <1>6 DEF Untouched
<1>9. Others(c) /\ \A d \in Conns \ {c} : Faithful(d)'
  BY <1>6, <1>7, <1>8, OthersKept
<1>10. sock[c].phase # "none" /\ ~Waiting(c)
  BY <1>1, ClientAccepted
<1>11. LastAnswer(c)' = 0 /\ Position(c)' = 0
  BY <1>1, <1>3, <1>4, <1>5 DEF LastAnswer, Position
<1>12. Faithful(c)'
  <2>1. cgi'[c].wrote = 0 /\ cgi'[c].got = 0 /\ req'[c].isCGI
    BY <1>1, <1>5
  <2>2. LengthKept(c)'
    BY <1>4, <1>11, <2>1 DEF LengthKept
  <2> QED
    BY <1>1, <1>3, <1>5, <1>6, <1>10, <2>1, <2>2
       DEF Faithful, LooksNew, HeaderFirst, ProgramServed, DoneIsAll, ReadyIsEmpty
<1>13. RInv'
  BY <1>7, <1>9, <1>12 DEF RInv, Handed
<1>14. Len(answers[c]) < asked[c]
  <2>1. asked[c] = Len(answers[c]) + IF state[c] = "Request_Parsed" THEN 1 ELSE 0
    BY <1>1 DEF IInv, OneAnswerEach
  <2> QED
    BY <1>2, <1>4, <2>1
<1>15. Stream(c)' = Stream(c) \o Run(Len(answers[c]) + 1, 0, 0)
  <2>1. Stream(c)' = Stream(c)
    BY <1>1, <1>7, SameStream
  <2>2. Run(Len(answers[c]) + 1, 0, 0) = <<>>
    BY DEF Run
  <2>3. Stream(c) \in Seq(Units)
    BY StreamType
  <2> QED
    BY <2>1, <2>2, <2>3
<1>16. 0 \in BuiltLengths /\ 0 \in 0..0
  BY DEF BuiltLengths
<1> QED
  BY <1>1, <1>4, <1>9, <1>11, <1>13, <1>14, <1>15, <1>16, AnswerSeen

\* DumpResponse: the next piece of the response, and its start on the first call.
LEMMA DumpResponseFaithful ==
  ASSUME IInv, RInv, NEW c \in Conns, NEW o \in Outcomes, DumpResponse(c, o)
  PROVE  RInv' /\ Promised
<1> DEFINE space == BufSize - Len(writeBuffer[c])
           r     == Response(c, o)
           w     == writeResponse(r, space)
           n     == Len(answers'[c])
           p     == r.headerPtr + r.filePtr
           k     == hdPart_size(r, space) + fdPart_size(r, space)
           u     == Dumped(n, r, space)
           total == r.maxHeaderPtr + r.maxFilePtr
<1>1. /\ pc = "processHandler" /\ it \in 1..Len(clients) /\ clients[it] = c
      /\ isOpen[c] /\ Parsed(req[c]) /\ ~req[c].isCGI
      /\ UNCHANGED <<it, clients, copied, isOpen, req, sock, backlog, cgi, asked>>
      /\ answers' = Answered(c, o) /\ res' = [res EXCEPT ![c] = w]
      /\ writeBuffer' = [writeBuffer EXCEPT ![c] = writeBuffer[c] \o u]
      /\ state' = [state EXCEPT ![c] =
                     IF AllDumped(w) THEN "Done_Response" ELSE "Writing_Response"]
  BY DEF IInv, IteratorInRange, DumpResponse, Processing, poolVars, envVars
<1>2. /\ r \in Responses /\ PointersInRange(r)
      /\ res[c] = NULL <=> state[c] = "Request_Parsed"
      /\ state[c] \in {"Request_Parsed", "Writing_Response"}
  BY <1>1, ResponseType
<1>3. /\ answers' \in [Conns -> Seq(Nat)]
      /\ \A d \in Conns \ {c} : answers'[d] = answers[d]
      /\ asked[c] = n /\ n \in Nat
  <2>1. /\ answers' \in [Conns -> Seq(Nat)]
        /\ \A d \in Conns \ {c} : answers'[d] = answers[d]
        /\ asked[c] = Len(answers'[c])
    BY <1>1, AnsweredStep
  <2>2. asked[c] \in Nat
    BY DEF IInv, TypeOK
  <2> QED
    BY <2>1, <2>2
<1>4. space \in Nat /\ writeBuffer[c] \in Seq(Units) /\ sock[c].sent \in Seq(Units)
  <2>1. writeBuffer[c] \in Seq(Units) /\ sock[c] \in Sockets
        /\ Len(writeBuffer[c]) <= BufSize
    BY DEF IInv, TypeOK, BuffersFit
  <2>2. BufSize \in Nat
    BY SelectAssumption
  <2>3. sock[c].sent \in Seq(Units)
    BY <2>1, SocketUpdates
  <2> QED
    BY <2>1, <2>2, <2>3
<1>5. r.filePtr > 0 => r.headerPtr = r.maxHeaderPtr
  <2>1. CASE res[c] # NULL
    BY <2>1 DEF Response, RInv, Faithful, HeaderFirst
  <2>2. CASE res[c] = NULL
    <3>1. r = buildResponse(req[c], o)
      BY <2>2 DEF Response
    <3>2. req[c] \in Requests /\ (req[c].state = "ParsedError" \/ req[c].uri \in URIs)
      BY <1>1 DEF IInv, TypeOK, RequestsRest, Parsed
    <3>3. r.filePtr = 0
      BY <1>1, <3>1, <3>2, BuiltLength
    <3> QED
      BY <3>3
  <2> QED
    BY <2>1, <2>2
<1>6. u \in Seq(Units)
  BY <1>2, <1>3, <1>4, DumpedType
<1>7. /\ w \in Responses /\ PointersInRange(w) /\ w # NULL
      /\ hdPart_size(r, space) \in Nat /\ fdPart_size(r, space) \in Nat
  BY <1>2, <1>4, WriteResponseFits, SelectAssumption
<1>8. /\ u = Run(n, p, k) /\ w.headerPtr + w.filePtr = p + k
      /\ w.filePtr > 0 => w.headerPtr = w.maxHeaderPtr
      /\ w.maxHeaderPtr + w.maxFilePtr = total
      /\ p \in Nat /\ k \in Nat /\ total \in Nat /\ p + k <= total
  <2>1. /\ u = Run(n, p, k)
        /\ w.filePtr > 0 => w.headerPtr = w.maxHeaderPtr
        /\ w.headerPtr = r.headerPtr + hdPart_size(r, space)
        /\ w.filePtr = r.filePtr + fdPart_size(r, space)
        /\ w.maxHeaderPtr = r.maxHeaderPtr /\ w.maxFilePtr = r.maxFilePtr
    BY <1>2, <1>3, <1>4, <1>5, DumpedIsRun
  <2>2. /\ r.headerPtr \in Nat /\ r.filePtr \in Nat /\ r.maxHeaderPtr \in Nat
        /\ r.maxFilePtr \in Nat
    BY <1>2 DEF Responses
  <2> DEFINE hd == hdPart_size(r, space)
             fd == fdPart_size(r, space)
  <2>3. /\ hd \in Nat /\ fd \in Nat /\ r.headerPtr + hd <= r.maxHeaderPtr
        /\ r.filePtr + fd <= r.maxFilePtr
    <3> HIDE DEF w
    <3> QED
      BY <1>7, <2>1 DEF PointersInRange
  <2>4. /\ w.headerPtr = r.headerPtr + hd /\ w.filePtr = r.filePtr + fd
        /\ p = r.headerPtr + r.filePtr /\ total = r.maxHeaderPtr + r.maxFilePtr
        /\ k = hd + fd
    BY <2>1
  <2> HIDE DEF w, u, n, hd, fd, r, p, total, k
  <2>5. w.headerPtr + w.filePtr = p + k /\ p \in Nat /\ k \in Nat
        /\ total \in Nat /\ p + k <= total
    BY <2>2, <2>3, <2>4
  <2>6. w.maxHeaderPtr + w.maxFilePtr = total
    BY <2>1, <2>4
  <2> QED
    BY <2>1, <2>5, <2>6
<1> HIDE DEF u, w, n, space
<1>9. /\ \A d \in Conns \ {c} : /\ state'[d] = state[d] /\ res'[d] = res[d]
                                /\ writeBuffer'[d] = writeBuffer[d]
      /\ res'[c] = w /\ writeBuffer'[c] = writeBuffer[c] \o u
      /\ state'[c] \in {"Done_Response", "Writing_Response"}
      /\ state'[c] = "Done_Response" => AllDumped(w)
  BY <1>1 DEF IInv, TypeOK
<1>10. \A d \in Conns : (Gone(d)' = Gone(d)) /\ (Waiting(d)' = Waiting(d))
  BY <1>1 DEF Gone, Waiting
<1>11. copied = 0 /\ copied' = 0 /\ \A d \in Conns : Done(d) = 0 /\ Done(d)' = 0
  BY <1>1 DEF RInv, Handed, Done
<1>12. \A d \in Conns \ {c} : Untouched(d)
  BY <1>1, <1>3, <1>9, <1>10 DEF Untouched
<1>13. Others(c) /\ \A d \in Conns \ {c} : Faithful(d)'
  BY <1>10, <1>11, <1>12, OthersKept
<1>14. sock[c].phase # "none" /\ ~Waiting(c)
  BY <1>1, ClientAccepted
<1>15. ~cgi[c].alive
  BY <1>1 DEF RInv, Faithful, ProgramServed
<1>16. /\ answers[c] \in Seq(Nat) /\ answers'[c] # <<>> /\ LastAnswer(c)' = total
       /\ IF res[c] = NULL
          THEN answers'[c] = Append(answers[c], total) /\ n = Len(answers[c]) + 1
          ELSE answers'[c] = answers[c] /\ n = Len(answers[c]) /\ LastAnswer(c) = total
  <2>1. answers[c] \in Seq(Nat) /\ answers \in [Conns -> Seq(Nat)]
    BY DEF IInv, TypeOK
  <2>2. CASE res[c] = NULL
    <3>1. answers'[c] = Append(answers[c], total)
      BY <1>1, <2>1, <2>2 DEF Answered
    <3> HIDE DEF total
    <3> QED
      BY <1>8, <2>1, <2>2, <3>1 DEF n, LastAnswer
  <2>3. CASE res[c] # NULL
    <3>1. answers'[c] = answers[c] /\ r = res[c]
      BY <1>1, <2>3 DEF Answered, Response
    <3>2. answers[c] # <<>> /\ LastAnswer(c) = total
      BY <1>1, <2>3, <3>1 DEF RInv, Faithful, LengthKept
    <3> HIDE DEF total
    <3> QED
      BY <2>1, <2>3, <3>1, <3>2 DEF n, LastAnswer
  <2> QED
    BY <2>1, <2>2, <2>3
<1>17. Faithful(c)'
  <2>1. LengthKept(c)'
    BY <1>1, <1>8, <1>9, <1>16, SMTT(40) DEF LengthKept
  <2> QED
    BY <1>1, <1>8, <1>9, <1>10, <1>14, <1>15, <2>1
       DEF Faithful, LooksNew, HeaderFirst, ProgramServed, DoneIsAll, ReadyIsEmpty
<1>18. RInv'
  BY <1>11, <1>13, <1>17 DEF RInv, Handed
<1>19. Stream(c)' = Stream(c) \o Run(n, p, k)
  <2>1. Stream(c) = sock[c].sent \o writeBuffer[c]
    BY <1>11, WholeStream
  <2>2. Stream(c)' = sock[c].sent \o (writeBuffer[c] \o u)
    <3>1. IInv'
      BY DumpResponseInv
    <3>2. Stream(c)' = sock'[c].sent \o writeBuffer'[c]
      BY <1>11, <3>1, WholeStreamNext
    <3> QED
      BY <1>1, <1>9, <3>2
  <2>3. (sock[c].sent \o writeBuffer[c]) \o u = sock[c].sent \o (writeBuffer[c] \o u)
    <3> DEFINE a == sock[c].sent
               b == writeBuffer[c]
    <3>1. a \in Seq(Units) /\ b \in Seq(Units) /\ u \in Seq(Units)
      BY <1>4, <1>6
    <3> HIDE DEF a, b
    <3>2. (a \o b) \o u = a \o (b \o u)
      BY <3>1, ConcatAssociative, SMTT(40)
    <3> QED
      BY <3>2 DEF a, b
  <2> QED
    BY <1>8, <2>1, <2>2, <2>3
<1>20. Position(c)' = p + k
  BY <1>1, <1>7, <1>8, <1>9 DEF Position
<1> HIDE DEF p, k, total
<1>21. CASE res[c] = NULL
  <2>1. r = buildResponse(req[c], o) /\ total \in BuiltLengths /\ p = 0
    <3>1. r = buildResponse(req[c], o)
      BY <1>21 DEF Response
    <3>2. req[c] \in Requests /\ (req[c].state = "ParsedError" \/ req[c].uri \in URIs)
      BY <1>1 DEF IInv, TypeOK, RequestsRest, Parsed
    <3> QED
      BY <1>1, <3>1, <3>2, BuiltLength DEF total, p
  <2>2. k \in 0..total /\ Position(c)' = k
    BY <1>8, <1>20, <2>1
  <2>3. Len(answers[c]) < asked[c] /\ asked'[c] = asked[c] /\ isOpen'[c]
    BY <1>1, <1>3, <1>16, <1>21
  <2>4. Stream(c)' = Stream(c) \o Run(Len(answers[c]) + 1, 0, k)
    BY <1>16, <1>19, <1>21, <2>1
  <2> QED
    BY <1>1, <1>13, <1>16, <1>18, <1>21, <2>1, <2>2, <2>3, <2>4, AnswerSeen
<1>22. CASE res[c] # NULL
  <2>1. Position(c) = p
    <3>1. r = res[c]
      BY <1>22 DEF Response
    <3> QED
      BY <1>1, <1>22, <3>1 DEF Position, p
  <2>2. asked'[c] = asked[c] /\ isOpen'[c] /\ answers'[c] = answers[c] /\ LastAnswer(c) = total
        /\ (cgi'[c].alive = cgi[c].alive) /\ n = Len(answers[c]) /\ answers[c] # <<>>
    BY <1>1, <1>16, <1>22
  <2>3. CASE k > 0
    <3>1. k \in 1..(LastAnswer(c) - Position(c))
      BY <1>8, <2>1, <2>2, <2>3
    <3> QED
      BY <1>1, <1>13, <1>16, <1>18, <1>19, <1>20, <2>1, <2>2, <3>1, ProduceSeen
  <2>4. CASE k = 0
    <3>1. Position(c)' = Position(c)
      BY <1>8, <1>20, <2>1, <2>4
    <3>2. Stream(c)' = Stream(c)
      <4>1. Run(n, p, 0) = <<>>
        BY DEF Run
      <4>2. Stream(c) \in Seq(Units)
        BY StreamType
      <4> QED
        BY <1>19, <2>4, <4>1, <4>2
    <3> QED
      BY <1>1, <1>13, <1>18, <2>2, <3>1, <3>2, StillGood
  <2> QED
    BY <1>8, <2>3, <2>4
<1> QED
  BY <1>21, <1>22

\* DumpCrash: if the response had been built, it is one of which nothing is produced.
LEMMA DumpCrashFaithful ==
  ASSUME IInv, RInv, NEW c \in Conns, NEW o \in Outcomes, DumpCrash(c, o)
  PROVE  RInv' /\ Promised
<1> DEFINE r     == Response(c, o)
           total == r.maxHeaderPtr + r.maxFilePtr
           built == res' = [res EXCEPT ![c] = r] /\ answers' = Answered(c, o)
<1>1. /\ pc = "processHandler" /\ it \in 1..Len(clients) /\ clients[it] = c
      /\ isOpen[c] /\ Parsed(req[c]) /\ ~req[c].isCGI /\ pc' = "killed"
      /\ UNCHANGED <<it, clients, copied, state, isOpen, readBuffer, writeBuffer, req, sock,
                     backlog, cgi, asked>>
      /\ UNCHANGED <<res, answers>> \/ built
  BY DEF IInv, IteratorInRange, DumpCrash, Processing, poolVars, envVars
<1>2. copied = 0 /\ copied' = 0 /\ \A d \in Conns : Done(d) = 0 /\ Done(d)' = 0
  BY <1>1 DEF RInv, Handed, Done
<1>3. \A d \in Conns : (Gone(d)' = Gone(d)) /\ (Waiting(d)' = Waiting(d))
  BY <1>1 DEF Gone, Waiting
<1>4. CASE UNCHANGED <<res, answers>>
  BY <1>1, <1>2, <1>3, <1>4, Quiet DEF connVars, history
<1>5. CASE built /\ res[c] # NULL
  <2>1. UNCHANGED <<res, answers>>
    BY <1>5 DEF Response, Answered, IInv, TypeOK
  <2> QED
    BY <1>4, <2>1
<1>6. CASE built /\ res[c] = NULL
  <2>1. /\ state[c] = "Request_Parsed" /\ r \in Responses /\ r # NULL
        /\ answers \in [Conns -> Seq(Nat)] /\ answers[c] \in Seq(Nat)
        /\ res \in [Conns -> Responses \cup {NULL}]
    <3>1. r \in Responses /\ state[c] = "Request_Parsed"
      BY <1>1, <1>6, ResponseType
    <3>2. r # NULL
      BY <3>1, SelectAssumption
    <3> QED
      BY <3>1, <3>2 DEF IInv, TypeOK
  <2>2. total \in BuiltLengths /\ r.headerPtr = 0 /\ r.filePtr = 0
    <3>1. r = buildResponse(req[c], o)
      BY <1>6 DEF Response
    <3>2. req[c] \in Requests /\ (req[c].state = "ParsedError" \/ req[c].uri \in URIs)
      BY <1>1 DEF IInv, TypeOK, RequestsRest, Parsed
    <3> QED
      BY <1>1, <3>1, <3>2, BuiltLength
  <2>3. total \in Nat
    BY <2>1 DEF Responses
  <2>4. res'[c] = r /\ answers' = [answers EXCEPT ![c] = Append(answers[c], total)]
        /\ \A d \in Conns \ {c} : res'[d] = res[d]
    BY <1>6, <2>1 DEF Answered
  <2> HIDE DEF r, total, built
  <2>5. answers'[c] = Append(answers[c], total) /\ answers'[c] # <<>> /\ LastAnswer(c)' = total
        /\ \A d \in Conns \ {c} : answers'[d] = answers[d]
    BY <2>1, <2>3, <2>4 DEF LastAnswer
  <2>6. \A d \in Conns \ {c} : Untouched(d)
    BY <1>1, <1>3, <2>4, <2>5 DEF Untouched
  <2>7. Others(c) /\ \A d \in Conns \ {c} : Faithful(d)'
    BY <1>2, <1>3, <2>6, OthersKept
  <2>8. sock[c].phase # "none" /\ ~Waiting(c) /\ ~cgi[c].alive
    BY <1>1, ClientAccepted DEF RInv, Faithful, ProgramServed
  <2>9. LengthKept(c)'
    BY <1>1, <2>4, <2>5 DEF LengthKept, total
  <2>10. Faithful(c)'
    BY <1>1, <1>3, <2>1, <2>2, <2>4, <2>8, <2>9
       DEF Faithful, LooksNew, HeaderFirst, ProgramServed, DoneIsAll, ReadyIsEmpty
  <2>11. RInv'
    BY <1>2, <2>7, <2>10 DEF RInv, Handed
  <2>12. Len(answers[c]) < asked[c]
    <3>1. asked[c] = Len(answers[c]) + 1
      BY <1>1, <2>1 DEF IInv, OneAnswerEach
    <3> QED
      BY <2>1, <3>1
  <2>13. Stream(c)' = Stream(c) \o Run(Len(answers[c]) + 1, 0, 0)
    <3>1. Stream(c)' = Stream(c)
      BY <1>1, <1>2, SameStream
    <3>2. Run(Len(answers[c]) + 1, 0, 0) = <<>>
      BY DEF Run
    <3>3. Stream(c) \in Seq(Units)
      BY StreamType
    <3> QED
      BY <3>1, <3>2, <3>3
  <2>14. Position(c)' = 0
    BY <1>1, <2>1, <2>2, <2>4 DEF Position
  <2>15. 0 \in 0..total
    BY <2>3
  <2> QED
    BY <1>1, <2>2, <2>5, <2>7, <2>11, <2>12, <2>13, <2>14, <2>15, AnswerSeen
<1> QED
  BY <1>1, <1>4, <1>5, <1>6

-----------------------------------------------------------------------------
(* writeHandler                                                            *)

\* WriteSome: units move from the write buffer to the kernel, and a response that
\* is deleted after it had been produced to its end.
LEMMA WriteSomeFaithful ==
  ASSUME IInv, RInv, NEW c \in Conns, WriteHandler(c), WriteSome(c)
  PROVE  RInv' /\ Promised
<1> DEFINE buf  == writeBuffer[c]
           sent == sock[c].sent
           k    == least(room(c), Len(buf) - copied)
           u    == SubSeq(buf, copied + 1, copied + k)
           t    == [sock[c] EXCEPT !.sent = sent \o u]
           complete == /\ copied + k = Len(buf) /\ copied' = 0
                       /\ writeBuffer' = [writeBuffer EXCEPT ![c] = <<>>]
                       /\ EndResponse(c) /\ pc' = "check_clients"
           partial  == /\ k > 0 /\ copied' = copied + k
                       /\ UNCHANGED <<pc, it, state, writeBuffer, res>>
<1>1. /\ pc = "writeHandler" /\ it \in 1..Len(clients) /\ clients[it] = c
      /\ UNCHANGED <<clients, isOpen, req, backlog, cgi, asked, answers>>
      /\ sock' = [sock EXCEPT ![c] = t]
      /\ complete \/ partial
  BY DEF IInv, IteratorInRange, WriteHandler, Writing, WriteSome, NextClient, history
<1>2. buf \in Seq(Units) /\ sock[c] \in Sockets /\ sent \in Seq(Units) /\ copied \in Nat
      /\ sock[c].rcvd \in Nat /\ SndBuf \in Nat
  BY SocketUpdates, SelectAssumption DEF IInv, TypeOK
<1>3. Len(buf) \in Nat /\ Len(sent) \in Nat
  BY <1>2
<1>4. copied <= Len(buf)
  BY <1>1, <1>3 DEF RInv, Handed
<1>5. k \in Int /\ copied + k <= Len(buf)
  <2>1. room(c) \in Int
    BY <1>2, <1>3 DEF room
  <2> HIDE DEF buf
  <2> QED
    BY <1>2, <1>3, <2>1 DEF least
<1> HIDE DEF k
<1>6. k \in Nat
  <2> HIDE DEF buf
  <2> QED
    BY <1>1, <1>2, <1>3, <1>4, <1>5
<1>7. u \in Seq(Units)
  BY <1>2, <1>3, <1>5, <1>6, SubSeqProperties
<1> HIDE DEF u
<1>8. /\ t.sent = sent \o u /\ t.phase = sock[c].phase /\ t.fin = sock[c].fin
      /\ t.rst = sock[c].rst
  BY <1>2 DEF Sockets
<1> HIDE DEF t
<1>9. /\ \A d \in Conns : /\ sock'[d].phase = sock[d].phase /\ sock'[d].fin = sock[d].fin
                          /\ sock'[d].rst = sock[d].rst
      /\ \A d \in Conns \ {c} : sock'[d].sent = sock[d].sent
      /\ sock'[c].sent = sent \o u
  BY <1>1, <1>8 DEF IInv, TypeOK
<1>10. \A d \in Conns : (Gone(d)' = Gone(d)) /\ (Waiting(d)' = Waiting(d))
  BY <1>1, <1>9 DEF Gone, Waiting
<1>11. /\ \A d \in Conns \ {c} : /\ state'[d] = state[d] /\ res'[d] = res[d]
                                 /\ writeBuffer'[d] = writeBuffer[d]
       /\ \/ complete /\ writeBuffer'[c] = <<>>
             /\ \/ /\ state[c] = "Done_Response"
                   /\ state'[c] = "Ready_ForRead" /\ res'[c] = NULL
                \/ state[c] # "Done_Response" /\ state'[c] = state[c] /\ res'[c] = res[c]
          \/ partial /\ writeBuffer'[c] = buf /\ state'[c] = state[c] /\ res'[c] = res[c]
  <2>1. CASE complete
    BY <2>1 DEF EndResponse, IInv, TypeOK
  <2>2. CASE partial
    BY <2>2
  <2> QED
    BY <1>1, <2>1, <2>2
<1>12. /\ Done(c) = copied
       /\ \A d \in Conns \ {c} : Done(d) = 0 /\ Done(d)' = 0
       /\ complete => Done(c)' = 0
       /\ partial => Done(c)' = copied + k
  BY <1>1 DEF Done
<1>13. \A d \in Conns \ {c} : Untouched(d)
  BY <1>1, <1>9, <1>10, <1>11 DEF Untouched
<1>14. Others(c) /\ \A d \in Conns \ {c} : Faithful(d)'
  BY <1>10, <1>12, <1>13, OthersKept
<1>15. sock[c].phase # "none" /\ ~Waiting(c)
  BY <1>1, ClientAccepted
<1>16. /\ HeaderFirst(c) /\ LengthKept(c) /\ ProgramServed(c) /\ DoneIsAll(c) /\ ReadyIsEmpty(c)
       /\ state[c] = "Done_Response" => res[c] # NULL
  BY DEF RInv, Faithful, IInv, WriterHasResponse
<1>17. Faithful(c)'
  <2>1. LengthKept(c)' /\ HeaderFirst(c)'
    BY <1>1, <1>11, <1>16 DEF LengthKept, HeaderFirst, LastAnswer
  <2>2. ProgramServed(c)' /\ DoneIsAll(c)' /\ ReadyIsEmpty(c)'
    BY <1>1, <1>11, <1>16 DEF ProgramServed, DoneIsAll, ReadyIsEmpty
  <2> QED
    BY <1>9, <1>10, <1>15, <2>1, <2>2 DEF Faithful, LooksNew
<1>18. Handed'
  <2>1. CASE complete
    BY <2>1 DEF Handed
  <2>2. CASE partial
    BY <1>1, <1>5, <2>2 DEF Handed
  <2> QED
    BY <1>1, <2>1, <2>2
<1>19. RInv'
  BY <1>14, <1>17, <1>18 DEF RInv
<1>20. Stream(c)' = Stream(c)
  <2>1. Stream(c) = sent \o SubSeq(buf, copied + 1, Len(buf))
    BY <1>12, StreamIs
  <2>2. CASE partial
    <3>1. Stream(c)' = (sent \o u) \o SubSeq(buf, (copied + k) + 1, Len(buf))
      BY <1>9, <1>11, <1>12, <2>2, StreamIsNext
    <3>2. copied + k \in Nat /\ copied <= copied + k
      BY <1>2, <1>6
    <3> HIDE DEF buf, sent
    <3> QED
      BY <1>2, <1>5, <2>1, <3>1, <3>2, HandOver DEF u
  <2>3. CASE complete
    <3>1. Stream(c)' = (sent \o u) \o SubSeq(<<>>, 0 + 1, Len(<<>>))
      BY <1>9, <1>11, <1>12, <2>3, StreamIsNext, SMTT(40)
    <3>2. SubSeq(<<>>, 0 + 1, Len(<<>>)) = <<>>
      OBVIOUS
    <3>3. sent \o u \in Seq(Units)
      BY <1>2, <1>7, ConcatProperties
    <3>4. Stream(c)' = sent \o u
      <4> HIDE DEF sent
      <4> QED
        BY <3>1, <3>2, <3>3
    <3>5. u = SubSeq(buf, copied + 1, Len(buf))
      BY <2>3 DEF u
    <3> QED
      BY <2>1, <3>4, <3>5
  <2> QED
    BY <1>1, <2>2, <2>3
<1>21. CASE isOpen[c] = FALSE
  BY <1>1, <1>14, <1>19, <1>21, StillOver
<1>22. CASE isOpen[c]
  <2>1. LastAnswer(c)' = LastAnswer(c)
    BY <1>1 DEF LastAnswer
  <2>2. CASE state[c] = "Done_Response" /\ res'[c] = NULL
    <3>1. Position(c)' = LastAnswer(c)
      BY <2>1, <2>2 DEF Position
    <3>2. Position(c) = LastAnswer(c)
      <4>1. state[c] = "Done_Response" /\ res[c] # NULL
        BY <1>11, <1>16, <2>2
      <4> QED
        BY <1>16, <1>22, <4>1 DEF Position, DoneIsAll, LengthKept, AllDumped
    <3> QED
      BY <1>1, <1>14, <1>19, <1>20, <1>22, <3>1, <3>2, StillGood
  <2>3. CASE res'[c] = res[c]
    <3>1. Position(c)' = Position(c)
      BY <1>1, <2>1, <2>3 DEF Position
    <3> QED
      BY <1>1, <1>14, <1>19, <1>20, <1>22, <3>1, StillGood
  <2> QED
    BY <1>11, <2>2, <2>3
<1>23. isOpen[c] \in BOOLEAN
  BY DEF IInv, TypeOK
<1> QED
  BY <1>21, <1>22, <1>23

\* WriteError: the peer has aborted the connection.
LEMMA WriteErrorFaithful ==
  ASSUME IInv, RInv, NEW c \in Conns, WriteHandler(c), WriteError(c)
  PROVE  RInv' /\ Promised
<1> DEFINE x == IF copied > 0 THEN sock[c].rst ELSE "reported"
           t == [sock[c] EXCEPT !.rst = x]
<1>1. /\ pc = "writeHandler" /\ it \in 1..Len(clients) /\ clients[it] = c
      /\ UNCHANGED <<clients, writeBuffer, req, backlog, cgi, asked, answers>>
      /\ sock' = [sock EXCEPT ![c] = t] /\ sock[c].rst = "pending"
      /\ isOpen' = [isOpen EXCEPT ![c] = FALSE]
      /\ copied' = 0 /\ EndResponse(c) /\ pc' = "check_clients"
  BY DEF IInv, IteratorInRange, WriteHandler, Writing, WriteError, NextClient, history
<1>2. x # "no" /\ sock[c] \in Sockets
  BY <1>1 DEF IInv, TypeOK
<1> HIDE DEF x
<1>3. t.sent = sock[c].sent /\ t.phase = sock[c].phase /\ t.fin = sock[c].fin /\ t.rst = x
  BY <1>2 DEF Sockets
<1> HIDE DEF t
<1>4. \A d \in Conns : /\ sock'[d].sent = sock[d].sent /\ sock'[d].phase = sock[d].phase
                       /\ sock'[d].fin = sock[d].fin
                       /\ (sock'[d].rst = "no") = (sock[d].rst = "no")
  BY <1>1, <1>2, <1>3 DEF IInv, TypeOK
<1>5. \A d \in Conns : (Gone(d)' = Gone(d)) /\ (Waiting(d)' = Waiting(d))
  BY <1>1, <1>4 DEF Gone, Waiting
<1>6. /\ \A d \in Conns \ {c} : /\ state'[d] = state[d] /\ res'[d] = res[d]
                                /\ isOpen'[d] = isOpen[d]
      /\ isOpen'[c] = FALSE /\ res'[c] \in {res[c], NULL}
  BY <1>1 DEF EndResponse, IInv, TypeOK
<1>7. \A d \in Conns \ {c} : Done(d) = 0 /\ Done(d)' = 0
  BY <1>1 DEF Done
<1>8. \A d \in Conns \ {c} : Untouched(d)
  BY <1>1, <1>4, <1>5, <1>6 DEF Untouched
<1>9. Others(c) /\ \A d \in Conns \ {c} : Faithful(d)'
  BY <1>5, <1>7, <1>8, OthersKept
<1>10. sock[c].phase # "none" /\ ~Waiting(c)
  BY <1>1, ClientAccepted
<1>11. Faithful(c)'
  BY <1>4, <1>5, <1>6, <1>10
     DEF RInv, Faithful, LooksNew, HeaderFirst, LengthKept, ProgramServed, DoneIsAll, ReadyIsEmpty
<1>12. RInv'
  BY <1>1, <1>9, <1>11 DEF RInv, Handed
<1>13. Gone(c)
  BY <1>1 DEF Gone
<1> QED
  BY <1>6, <1>9, <1>12, <1>13, GiveUpSeen


-----------------------------------------------------------------------------
(* pipeHandler                                                             *)

\* PipeHandler: what is read of the pipe is the next of the response, and its end
\* is not taken for read before the program has ended.
LEMMA PipeFaithful ==
  ASSUME IInv, RInv, NEW c \in Conns, PipeHandler(c)
  PROVE  RInv' /\ Promised
<1> DEFINE buf   == writeBuffer[c]
           space == BufSize - Len(buf)
           k     == least(space, cgi[c].wrote - cgi[c].got)
           u     == [i \in 1..k |-> <<Len(answers[c]), cgi[c].got + i>>]
           p     == [cgi[c] EXCEPT !.got = @ + k]
           reads == /\ k > 0 /\ UNCHANGED state
                    /\ writeBuffer' = [writeBuffer EXCEPT ![c] = buf \o u]
                    /\ cgi' = [cgi EXCEPT ![c] = p]
           ends  == /\ cgi[c].wrote = cgi[c].got /\ ~cgi[c].alive
                    /\ state' = [state EXCEPT ![c] = "Done_Response"]
                    /\ UNCHANGED <<writeBuffer, cgi>>
<1>1. /\ pc = "check_clients" /\ it \in 1..Len(clients) /\ clients[it] = c
      /\ state[c] = "Writing_Response" /\ req[c].isCGI
      /\ UNCHANGED <<it, clients, copied, isOpen, readBuffer, req, res, sock, backlog,
                     asked, answers>>
  BY SMTT(40) DEF IInv, IteratorInRange, PipeHandler, ReadPipe, Handling, poolVars, history
<1>2. UNCHANGED <<state, writeBuffer, cgi>> \/ reads \/ ends
  BY DEF PipeHandler, ReadPipe
<1>3. /\ cgi[c] \in Programs /\ cgi[c].wrote \in Nat /\ cgi[c].got \in Nat
      /\ buf \in Seq(Units) /\ answers[c] \in Seq(Nat) /\ Len(answers[c]) \in Nat
      /\ space \in Nat
  BY SelectAssumption DEF IInv, TypeOK, BuffersFit, Programs
<1>4. k \in Int /\ k <= cgi[c].wrote - cgi[c].got
  BY <1>3 DEF least
<1> HIDE DEF space, k
<1>5. /\ p.got = cgi[c].got + k /\ p.wrote = cgi[c].wrote /\ (p.alive = cgi[c].alive)
      /\ u = Run(Len(answers[c]), cgi[c].got, k)
  BY <1>3 DEF Programs, Run
<1>6. ASSUME k > 0 PROVE u \in Seq(Units)
  BY <1>3, <1>4, <1>6 DEF Units
<1> HIDE DEF p, u
<1>7. /\ \A d \in Conns \ {c} : /\ state'[d] = state[d] /\ cgi'[d] = cgi[d]
                                /\ writeBuffer'[d] = writeBuffer[d]
      /\ reads => /\ writeBuffer'[c] = buf \o u /\ cgi'[c] = p
                  /\ state'[c] = "Writing_Response"
      /\ ends => /\ state'[c] = "Done_Response" /\ cgi'[c] = cgi[c] /\ writeBuffer'[c] = buf
  BY <1>1, <1>2 DEF IInv, TypeOK
<1>8. \A d \in Conns : (Gone(d)' = Gone(d)) /\ (Waiting(d)' = Waiting(d))
  BY <1>1 DEF Gone, Waiting
<1>9. copied = 0 /\ copied' = 0 /\ \A d \in Conns : Done(d) = 0 /\ Done(d)' = 0
  BY <1>1 DEF RInv, Handed, Done
<1>10. \A d \in Conns \ {c} : Untouched(d)
  BY <1>1, <1>7, <1>8 DEF Untouched
<1>11. Others(c) /\ \A d \in Conns \ {c} : Faithful(d)'
  BY <1>8, <1>9, <1>10, OthersKept
<1>12. sock[c].phase # "none" /\ ~Waiting(c)
  BY <1>1, ClientAccepted
<1>13. /\ HeaderFirst(c) /\ LengthKept(c) /\ ProgramServed(c) /\ res[c] # NULL
       /\ Position(c) = cgi[c].got
  BY <1>1 DEF RInv, Faithful, IInv, WriterHasResponse, Position
<1>14. CASE UNCHANGED <<state, writeBuffer, cgi>>
  BY <1>1, <1>8, <1>9, <1>14, Quiet DEF connVars, history
<1>15. CASE reads
  <2>1. LengthKept(c)'
    <3>1. LastAnswer(c)' = LastAnswer(c)
      BY <1>1 DEF LastAnswer
    <3>2. cgi'[c].wrote = cgi[c].wrote /\ cgi'[c].got <= cgi'[c].wrote
      BY <1>3, <1>4, <1>5, <1>7, <1>15
    <3> QED
      BY <1>1, <1>13, <3>1, <3>2 DEF LengthKept
  <2>2. Faithful(c)'
    BY <1>1, <1>7, <1>8, <1>12, <1>13, <1>15, <2>1
       DEF Faithful, LooksNew, HeaderFirst, ProgramServed, DoneIsAll, ReadyIsEmpty
  <2>3. RInv'
    BY <1>9, <1>11, <2>2 DEF RInv, Handed
  <2>4. Stream(c)' = Stream(c) \o u
    <3> DEFINE sent == sock[c].sent
    <3>1. sent \in Seq(Units) /\ u \in Seq(Units) /\ buf \in Seq(Units)
      BY <1>3, <1>6, <1>15, SocketUpdates DEF IInv, TypeOK
    <3>2. Stream(c) = sent \o buf
      BY <1>9, WholeStream
    <3>3. Stream(c)' = sent \o (buf \o u)
      <4>1. IInv'
        BY PipeHandlerInv
      <4>2. Stream(c)' = sock'[c].sent \o writeBuffer'[c]
        BY <1>9, <4>1, WholeStreamNext
      <4> QED
        BY <1>1, <1>7, <1>15, <4>2
    <3> HIDE DEF sent, buf
    <3>4. (sent \o buf) \o u = sent \o (buf \o u)
      BY <3>1, ConcatAssociative, SMTT(40)
    <3> QED
      BY <3>2, <3>3, <3>4
  <2>5. CASE isOpen[c] = FALSE
    BY <1>1, <1>11, <2>3, <2>5, StillOver
  <2>6. CASE isOpen[c]
    <3>1. answers[c] # <<>> /\ LastAnswer(c) = cgi[c].wrote
      BY <1>1, <1>13, <2>6 DEF LengthKept
    <3>2. k \in 1..(LastAnswer(c) - Position(c))
      BY <1>3, <1>4, <1>13, <1>15, <3>1
    <3>3. Position(c)' = Position(c) + k
      <4>1. Position(c)' = cgi'[c].got
        BY <1>1, <1>13 DEF Position
      <4> QED
        BY <1>5, <1>7, <1>13, <1>15, <4>1
    <3>4. Stream(c)' = Stream(c) \o Run(Len(answers[c]), Position(c), k)
      BY <1>5, <1>13, <2>4
    <3>5. isOpen'[c] /\ asked'[c] = asked[c] /\ answers'[c] = answers[c]
          /\ (cgi'[c].alive = cgi[c].alive)
      BY <1>1, <1>5, <1>7, <1>15, <2>6
    <3> QED
      BY <1>3, <1>11, <2>3, <2>6, <3>1, <3>2, <3>3, <3>4, <3>5, ProduceSeen
  <2>7. isOpen[c] \in BOOLEAN
    BY DEF IInv, TypeOK
  <2> QED
    BY <2>5, <2>6, <2>7
<1>16. CASE ends
  <2>1. LengthKept(c)'
    BY <1>1, <1>7, <1>13, <1>16 DEF LengthKept, LastAnswer
  <2>2. Faithful(c)'
    BY <1>1, <1>7, <1>8, <1>12, <1>13, <1>16, <2>1
       DEF Faithful, LooksNew, HeaderFirst, ProgramServed, DoneIsAll, ReadyIsEmpty
  <2>3. RInv'
    BY <1>9, <1>11, <2>2 DEF RInv, Handed
  <2>4. CASE isOpen[c] = FALSE
    BY <1>1, <1>11, <2>3, <2>4, StillOver
  <2>5. CASE isOpen[c]
    <3>1. Position(c)' = Position(c)
      BY <1>1, <1>7, <1>13, <1>16 DEF Position
    <3>2. Stream(c)' = Stream(c)
      BY <1>1, <1>7, <1>9, <1>16, SameStream
    <3> QED
      BY <1>1, <1>7, <1>11, <1>16, <2>3, <2>5, <3>1, <3>2, StillGood
  <2>6. isOpen[c] \in BOOLEAN
    BY DEF IInv, TypeOK
  <2> QED
    BY <2>4, <2>5, <2>6
<1> QED
  BY <1>2, <1>14, <1>15, <1>16


-----------------------------------------------------------------------------
(* check_server                                                            *)

\* CheckServer: what is accepted looked like a new connection before.
LEMMA CheckServerFaithful ==
  ASSUME IInv, RInv, CheckServer
  PROVE  RInv' /\ Promised
<1>1. /\ pc = "check_server" /\ pc' = "Select"
      /\ UNCHANGED <<it, copied, sock, cgi, asked, answers>>
  BY DEF CheckServer, history
<1>2. copied = 0 /\ copied' = 0 /\ \A d \in Conns : Done(d) = 0 /\ Done(d)' = 0
  BY <1>1 DEF RInv, Handed, Done
<1>3. CASE Listen \notin read_set
  <2>1. UNCHANGED <<backlog, connVars>>
    BY <1>3 DEF CheckServer
  <2>2. \A d \in Conns : (Gone(d)' = Gone(d)) /\ (Waiting(d)' = Waiting(d))
    BY <1>1, <2>1 DEF Gone, Waiting
  <2> QED
    BY <1>1, <1>2, <2>1, <2>2, Quiet DEF history
<1>4. CASE Listen \in read_set
  <2>1. backlog # <<>> /\ backlog \in Seq(Conns)
    BY <1>1, <1>4 DEF IInv, TypeOK, BacklogReady
  <2>head. PICK c \in Conns : c = Head(backlog)
    BY <2>1, HeadTailProperties
  <2>2. /\ backlog' = Tail(backlog)
        /\ state'       = [state EXCEPT ![c] = "Ready_ForRead"]
        /\ isOpen'      = [isOpen EXCEPT ![c] = TRUE]
        /\ writeBuffer' = [writeBuffer EXCEPT ![c] = <<>>]
        /\ req'         = [req EXCEPT ![c] = NewRequest]
        /\ res'         = [res EXCEPT ![c] = NULL]
    BY <1>4, <2>head DEF CheckServer
  <2>3. /\ c = backlog[1] /\ 1 \in DOMAIN backlog
        /\ Tail(backlog) \in Seq(Conns)
        /\ \A i \in DOMAIN Tail(backlog) :
             i + 1 \in DOMAIN backlog /\ i + 1 # 1 /\ Tail(backlog)[i] = backlog[i + 1]
    <3>1. Head(backlog) = backlog[1]
      OBVIOUS
    <3>2. /\ Head(backlog) \in Conns /\ Tail(backlog) \in Seq(Conns)
          /\ Len(Tail(backlog)) = Len(backlog) - 1
          /\ \A i \in 1..Len(Tail(backlog)) : Tail(backlog)[i] = backlog[i + 1]
      BY <2>1, HeadTailProperties
    <3>3. Len(backlog) \in Nat \ {0}
      BY <2>1
    <3> QED
      BY <2>1, <2>head, <3>1, <3>2, <3>3
  <2>4. \A d \in Conns : Waiting(d)' => Waiting(d) /\ d # c
    <3> SUFFICES ASSUME NEW d \in Conns, Waiting(d)' PROVE Waiting(d) /\ d # c
      OBVIOUS
    <3>1. PICK i \in DOMAIN Tail(backlog) : Tail(backlog)[i] = d
      BY <2>2 DEF Waiting
    <3>2. i + 1 \in DOMAIN backlog /\ i + 1 # 1 /\ backlog[i + 1] = d
      BY <2>3, <3>1
    <3> QED
      BY <2>3, <3>2 DEF Waiting, IInv, AcceptedOnce
  <2>5. Waiting(c) /\ sock[c].phase # "none"
    <3>1. Waiting(c)
      BY <2>3 DEF Waiting
    <3> QED
      BY <2>3, <3>1 DEF IInv, AcceptedOnce
  <2>6. isOpen[c] /\ res[c] = NULL /\ ~cgi[c].alive /\ writeBuffer[c] = <<>>
    BY <2>3, <2>5 DEF RInv, Faithful, LooksNew
  <2>7. /\ \A d \in Conns \ {c} : /\ state'[d] = state[d] /\ isOpen'[d] = isOpen[d]
                                  /\ writeBuffer'[d] = writeBuffer[d]
                                  /\ req'[d] = req[d] /\ res'[d] = res[d]
        /\ isOpen'[c] /\ res'[c] = NULL /\ writeBuffer'[c] = <<>>
        /\ state'[c] = "Ready_ForRead"
    BY <2>2, <2>3 DEF IInv, TypeOK
  <2>8. \A d \in Conns : Gone(d)' = Gone(d)
    BY <1>1 DEF Gone
  <2>9. \A d \in Conns \ {c} : Untouched(d)
    BY <1>1, <2>4, <2>7 DEF Untouched
  <2>10. Others(c) /\ \A d \in Conns \ {c} : Faithful(d)'
    BY <1>2, <2>3, <2>8, <2>9, OthersKept
  <2>11. Faithful(c)'
    BY <1>1, <2>3, <2>4, <2>5, <2>6, <2>7
       DEF Faithful, LooksNew, HeaderFirst, LengthKept, ProgramServed, DoneIsAll, ReadyIsEmpty
  <2>12. RInv'
    BY <1>2, <2>10, <2>11 DEF RInv, Handed
  <2>13. Position(c)' = Position(c) /\ Stream(c)' = Stream(c)
    <3>1. Position(c)' = Position(c)
      BY <1>1, <2>6, <2>7 DEF Position, LastAnswer
    <3> QED
      BY <1>1, <1>2, <2>3, <2>6, <2>7, <3>1, SameStream
  <2> QED
    BY <1>1, <2>3, <2>6, <2>7, <2>10, <2>12, <2>13, StillGood
<1> QED
  BY <1>3, <1>4

-----------------------------------------------------------------------------
(* Peers and programs                                                      *)

\* A peer that connects, sends or receives; what the kernel keeps of a peer is
\* none of the promise.
LEMMA PeerFaithful ==
  ASSUME IInv, RInv, NEW c \in Conns, PeerConnect(c) \/ PeerSend(c) \/ PeerRecv(c)
  PROVE  RInv' /\ Promised
<1>1. UNCHANGED <<serverVars, cgi, history>>
  BY DEF PeerConnect, PeerSend, PeerRecv
<1>2. \A d \in Conns :
        /\ sock'[d].sent = sock[d].sent /\ sock'[d].fin = sock[d].fin
        /\ sock'[d].rst = sock[d].rst
        /\ sock'[d].phase = "none" => sock[d].phase = "none"
        /\ d # c => sock'[d].phase = sock[d].phase
  <2>1. CASE PeerConnect(c)
    BY <2>1 DEF PeerConnect, IInv, TypeOK, Sockets
  <2>2. CASE PeerRecv(c)
    <3> DEFINE n == Len(sock[c].sent)
               t == [sock[c] EXCEPT !.rcvd = n]
    <3>1. sock' = [sock EXCEPT ![c] = t] /\ sock[c] \in Sockets /\ sock \in [Conns -> Sockets]
      BY <2>2 DEF PeerRecv, IInv, TypeOK
    <3> HIDE DEF n
    <3>2. t.sent = sock[c].sent /\ t.fin = sock[c].fin /\ t.rst = sock[c].rst
          /\ t.phase = sock[c].phase
      BY <3>1 DEF Sockets
    <3> HIDE DEF t
    <3> QED
      BY <3>1, <3>2
  <2>3. CASE PeerSend(c)
    <3>1. PICK n \in 1..Len(sock[c].todo) :
            sock' = [sock EXCEPT ![c].inq  = @ \o SubSeq(sock[c].todo, 1, n),
                                 ![c].todo = SubSeq(@, n + 1, Len(@))]
      BY <2>3 DEF PeerSend
    <3> DEFINE q == sock[c].inq \o SubSeq(sock[c].todo, 1, n)
               r == SubSeq(sock[c].todo, n + 1, Len(sock[c].todo))
               t == [sock[c] EXCEPT !.inq = q, !.todo = r]
    <3>2. sock[c] \in Sockets /\ sock \in [Conns -> Sockets]
      BY DEF IInv, TypeOK
    <3>3. sock' = [sock EXCEPT ![c] = t]
      BY <3>1, <3>2 DEF Sockets
    <3> HIDE DEF q, r
    <3>4. t.sent = sock[c].sent /\ t.fin = sock[c].fin /\ t.rst = sock[c].rst
          /\ t.phase = sock[c].phase
      BY <3>2 DEF Sockets
    <3> HIDE DEF t
    <3> QED
      BY <3>2, <3>3, <3>4, SMTT(40)
  <2> QED
    BY <2>1, <2>2, <2>3
<1>3. \A d \in Conns : Gone(d)' = Gone(d)
  BY <1>2 DEF Gone
<1>4. \A d \in Conns :
        sock'[d].phase = "none" \/ Waiting(d)' => sock[d].phase = "none" \/ Waiting(d)
  <2>1. CASE UNCHANGED backlog
    BY <1>2, <2>1 DEF Waiting
  <2>2. CASE PeerConnect(c)
    <3>1. backlog' = Append(backlog, c) /\ sock[c].phase = "none" /\ backlog \in Seq(Conns)
      BY <2>2 DEF PeerConnect, IInv, TypeOK
    <3>2. \A d \in Conns : Waiting(d)' => Waiting(d) \/ d = c
      <4> SUFFICES ASSUME NEW d \in Conns, Waiting(d)' PROVE Waiting(d) \/ d = c
        OBVIOUS
      <4>1. PICK i \in DOMAIN backlog' : backlog'[i] = d
        BY DEF Waiting
      <4>2. i \in DOMAIN backlog \/ i = Len(backlog) + 1
        BY <3>1, <4>1
      <4> QED
        BY <3>1, <4>1, <4>2 DEF Waiting
    <3> QED
      BY <1>2, <3>1, <3>2
  <2> QED
    BY <2>1, <2>2 DEF PeerSend, PeerRecv
<1> QED
  BY <1>1, <1>2, <1>3, <1>4, Quiet DEF serverVars, poolVars

\* A peer that closes or aborts its connection.
LEMMA LeaveFaithful ==
  ASSUME IInv, RInv, NEW c \in Conns, PeerClose(c) \/ PeerReset(c)
  PROVE  RInv' /\ Promised
<1>1. UNCHANGED <<serverVars, backlog, cgi, history>>
  BY DEF PeerClose, PeerReset
<1>2. /\ \A d \in Conns : sock'[d].sent = sock[d].sent /\ sock'[d].phase = sock[d].phase
      /\ \A d \in Conns \ {c} : sock'[d] = sock[d]
      /\ sock'[c].fin \/ sock'[c].rst # "no"
  <2>1. CASE PeerClose(c)
    BY <2>1, ZenonT(60) DEF PeerClose, IInv, TypeOK, Sockets
  <2>2. CASE PeerReset(c)
    BY <2>2, ZenonT(60) DEF PeerReset, IInv, TypeOK, Sockets
  <2> QED
    BY <2>1, <2>2
<1>3. \A d \in Conns : Untouched(d) /\ Done(d)' = Done(d)
  BY <1>1, <1>2 DEF Untouched, Done, Waiting, serverVars, poolVars, connVars, history
<1>4. \A d \in Conns : Faithful(d)' /\ Session(d)' = Session(d)
  BY <1>3, UntouchedFaithful, UntouchedSession DEF RInv
<1>5. RInv'
  BY <1>1, <1>4 DEF RInv, Handed, serverVars, poolVars, connVars
<1>6. (\A d \in Conns \ {c} : Gone(d)' = Gone(d)) /\ Gone(c)'
  BY <1>2 DEF Gone
<1> QED
  BY <1>4, <1>5, <1>6, LeaveSeen

\* CGIWrite and CGIExit: the answer of a program grows as long as it runs.
LEMMA ProgramFaithful ==
  ASSUME IInv, RInv, NEW c \in Conns, CGIWrite(c) \/ CGIExit(c)
  PROVE  RInv' /\ Promised
<1> DEFINE more  == [answers[c] EXCEPT ![Len(answers[c])] = @ + 1]
           wrote == cgi[c].wrote + 1
           p     == [cgi[c] EXCEPT !.wrote = wrote]
           e     == [cgi[c] EXCEPT !.alive = FALSE]
           grows == cgi' = [cgi EXCEPT ![c] = p] /\ answers' = [answers EXCEPT ![c] = more]
           exits == cgi' = [cgi EXCEPT ![c] = e] /\ UNCHANGED answers
<1>1. UNCHANGED <<serverVars, sock, backlog, asked>> /\ cgi[c].alive /\ (grows \/ exits)
  BY DEF CGIWrite, CGIExit, history
<1>2. cgi[c] \in Programs /\ answers[c] \in Seq(Nat) /\ cgi \in [Conns -> Programs]
      /\ answers \in [Conns -> Seq(Nat)] /\ isOpen[c] \in BOOLEAN
  BY DEF IInv, TypeOK
<1> HIDE DEF wrote
<1>3. /\ p.wrote = wrote /\ p.got = cgi[c].got /\ (p.alive = cgi[c].alive)
      /\ e.wrote = cgi[c].wrote /\ e.got = cgi[c].got /\ ~e.alive
  BY <1>2 DEF Programs
<1> HIDE DEF p, e, more
<1>4. /\ \A d \in Conns \ {c} : cgi'[d] = cgi[d] /\ answers'[d] = answers[d]
      /\ grows => cgi'[c] = p /\ answers'[c] = more
      /\ exits => cgi'[c] = e /\ answers'[c] = answers[c]
  BY <1>1, <1>2
<1>5. UNCHANGED <<pc, clients, it, copied, state, isOpen, writeBuffer, req, res, sock,
                  backlog, asked>>
  BY <1>1 DEF serverVars, poolVars, connVars
<1>6. \A d \in Conns : (Gone(d)' = Gone(d)) /\ (Waiting(d)' = Waiting(d)) /\ Done(d)' = Done(d)
  BY <1>5 DEF Gone, Waiting, Done
<1>7. \A d \in Conns \ {c} : Untouched(d)
  BY <1>4, <1>5, <1>6 DEF Untouched
<1>8. Others(c) /\ \A d \in Conns \ {c} : Faithful(d)'
  BY <1>6, <1>7, OthersKept
<1>9. Stream(c)' = Stream(c)
  BY <1>5, <1>6, SameStream
<1>10. Handed'
  BY <1>5 DEF RInv, Handed
<1>11. /\ LooksNew(c) /\ HeaderFirst(c) /\ LengthKept(c) /\ ProgramServed(c) /\ DoneIsAll(c)
       /\ ReadyIsEmpty(c)
  BY DEF RInv, Faithful
<1>12. ~(sock[c].phase = "none" \/ Waiting(c))
  BY <1>1, <1>11 DEF LooksNew
<1>13. CASE isOpen[c] = FALSE
  <2>1. Faithful(c)'
    BY <1>5, <1>6, <1>11, <1>12, <1>13
       DEF Faithful, LooksNew, HeaderFirst, LengthKept, ProgramServed, DoneIsAll, ReadyIsEmpty
  <2>2. RInv'
    BY <1>8, <1>10, <2>1 DEF RInv
  <2> QED
    BY <1>5, <1>8, <1>13, <2>2, StillOver
<1>14. CASE isOpen[c]
  <2>1. state[c] = "Writing_Response" /\ req[c].isCGI /\ res[c] # NULL
    BY <1>1, <1>11, <1>14 DEF ProgramServed, IInv, WriterHasResponse
  <2>2. /\ answers[c] # <<>> /\ LastAnswer(c) = cgi[c].wrote /\ cgi[c].got <= cgi[c].wrote
    BY <1>11, <1>14, <2>1 DEF LengthKept
  <2>3. Position(c) = cgi[c].got /\ Position(c)' = cgi'[c].got
    BY <1>5, <2>1 DEF Position
  <2>4. CASE grows
    <3>1. /\ answers'[c] = more /\ more # <<>> /\ LastAnswer(c)' = wrote
          /\ cgi'[c].got <= wrote /\ cgi'[c].wrote = wrote /\ cgi'[c].alive
      <4>1. answers'[c] = more /\ cgi'[c] = p
        BY <1>4, <2>4
      <4>2. Len(answers[c]) \in Nat \ {0}
        BY <1>2, <2>2
      <4>3. Len(more) = Len(answers[c]) /\ more[Len(more)] = answers[c][Len(answers[c])] + 1
            /\ more # <<>>
        BY <1>2, <4>2 DEF more
      <4>4. LastAnswer(c)' = LastAnswer(c) + 1
        BY <2>2, <4>1, <4>3 DEF LastAnswer
      <4>5. cgi[c].wrote \in Nat /\ cgi[c].got \in Nat
        BY <1>2 DEF Programs
      <4>6. cgi[c].wrote + 1 = wrote /\ cgi[c].got <= wrote
        BY <2>2, <4>5 DEF wrote
      <4>7. LastAnswer(c)' = wrote /\ more # <<>>
        BY <2>2, <4>3, <4>4, <4>6
      <4>8. cgi'[c].got <= wrote /\ cgi'[c].wrote = wrote /\ cgi'[c].alive
        BY <1>1, <1>3, <4>1, <4>6
      <4> QED
        BY <4>1, <4>7, <4>8
    <3>2. Faithful(c)'
      BY <1>5, <1>6, <1>11, <1>12, <2>1, <3>1
         DEF Faithful, LooksNew, HeaderFirst, LengthKept, ProgramServed, DoneIsAll, ReadyIsEmpty
    <3>3. RInv'
      BY <1>8, <1>10, <3>2 DEF RInv
    <3>4. Position(c)' = Position(c)
      BY <1>3, <1>4, <2>3, <2>4
    <3> QED
      BY <1>1, <1>2, <1>5, <1>8, <1>9, <1>14, <2>2, <3>1, <3>3, <3>4, GrowSeen DEF more
  <2>5. CASE exits
    <3>1. LastAnswer(c)' = LastAnswer(c) /\ answers'[c] = answers[c] /\ cgi'[c] = e
      BY <1>4, <2>5 DEF LastAnswer
    <3>2. Faithful(c)'
      BY <1>3, <1>5, <1>6, <1>11, <1>12, <2>1, <2>2, <3>1
         DEF Faithful, LooksNew, HeaderFirst, LengthKept, ProgramServed, DoneIsAll, ReadyIsEmpty
    <3>3. RInv'
      BY <1>8, <1>10, <3>2 DEF RInv
    <3>4. Position(c)' = Position(c) /\ ~cgi'[c].alive
      BY <1>3, <2>3, <3>1
    <3> QED
      BY <1>1, <1>5, <1>8, <1>9, <1>14, <3>1, <3>3, <3>4, EndSeen
  <2> QED
    BY <1>1, <2>4, <2>5
<1> QED
  BY <1>2, <1>13, <1>14

-----------------------------------------------------------------------------
(* The server keeps the promise                                            *)

\* Every step of the server, of a peer and of a program is one of the promise, or
\* changes nothing of it.
LEMMA StepFaithful ==
  ASSUME IInv, RInv, [Next]_vars
  PROVE  RInv' /\ Promised
<1>1. CASE CheckServer
  BY <1>1, CheckServerFaithful
<1>2. ASSUME NEW c \in Conns, Skip(c) \/ WriteMore(c)
      PROVE  RInv' /\ Promised
  BY <1>2, LoopFaithful
<1>3. ASSUME NEW c \in Conns, ReadHandler(c) PROVE RInv' /\ Promised
  <2>1. ReadData(c) \/ ReadCrash(c) \/ ReadEOF(c) \/ ReadError(c)
    BY <1>3 DEF ReadHandler
  <2> QED
    BY <1>3, <2>1, ReadDataFaithful, CrashFaithful, ReadEndFaithful
<1>4. ASSUME NEW c \in Conns, ProcessHandler(c) PROVE RInv' /\ Promised
  BY <1>4, ClosedFaithful, StartCGIFaithful, DumpResponseFaithful, DumpCrashFaithful
     DEF ProcessHandler
<1>5. ASSUME NEW c \in Conns, WriteHandler(c) PROVE RInv' /\ Promised
  <2>1. WriteSome(c) \/ WriteError(c) \/ BrokenPipe(c)
    BY <1>5 DEF WriteHandler
  <2> QED
    BY <1>5, <2>1, WriteSomeFaithful, WriteErrorFaithful, CrashFaithful
<1>6. ASSUME NEW c \in Conns, PipeHandler(c) PROVE RInv' /\ Promised
  BY <1>6, PipeFaithful
<1>7. ASSUME NEW c \in Conns, Peer(c) PROVE RInv' /\ Promised
  BY <1>7, PeerFaithful, LeaveFaithful DEF Peer
<1>8. ASSUME NEW c \in Conns, CGIWrite(c) \/ CGIExit(c) PROVE RInv' /\ Promised
  BY <1>8, ProgramFaithful
<1>9. CASE (Select \/ SelectAborts \/ EndOfPass \/ UNCHANGED vars)
  <2>1. UNCHANGED <<copied, connVars, cgi, sock, backlog, history>>
        /\ (copied = 0 \/ UNCHANGED <<pc, clients, it>>)
    BY <1>9 DEF Select, SelectAborts, EndOfPass, vars, envVars, poolVars, RInv, Handed
  <2>2. \A d \in Conns : (Gone(d)' = Gone(d)) /\ (Waiting(d)' = Waiting(d))
    BY <2>1 DEF Gone, Waiting
  <2> QED
    BY <2>1, <2>2, Quiet
<1> QED
  BY <1>1, <1>2, <1>3, <1>4, <1>5, <1>6, <1>7, <1>8, <1>9 DEF Next, Server


\* The server keeps the promise of Service: requests are answered in order and
\* each completely, through every interleaving of the loop with peers and programs.
THEOREM Implementation == Spec => KeepsPromise
<1>1. Init => IInv /\ RInv /\ S!Init
  BY InitInv, StartFaithful
<1>2. IInv /\ RInv /\ [Next]_vars => IInv' /\ RInv' /\ [S!Next]_(S!vars)
  BY StepInv, StepFaithful DEF Promised
<1> QED
  BY <1>1, <1>2, PTL DEF Spec, KeepsPromise, S!Spec

\* The mapping needs RInv, and it holds in every reachable state.
LEMMA Faithfulness == Spec => []RInv
<1>1. Init => IInv /\ RInv
  BY InitInv, StartFaithful
<1>2. IInv /\ RInv /\ [Next]_vars => IInv' /\ RInv'
  BY StepInv, StepFaithful
<1> QED
  BY <1>1, <1>2, PTL DEF Spec

\* A connection that reads has no response and no request that waits for one, even
\* when the process ends.
CaughtUp ==
  \A c \in Conns : isOpen[c] /\ state[c] = "Ready_ForRead" =>
    res[c] = NULL /\ asked[c] = Len(answers[c])

LEMMA CaughtUpAlive ==
  ASSUME IInv, pc # "killed"
  PROVE  CaughtUp
<1>1. ASSUME NEW c \in Conns, isOpen[c], state[c] = "Ready_ForRead"
      PROVE  res[c] = NULL /\ asked[c] = Len(answers[c])
  <2>1. answers[c] \in Seq(Nat)
    BY DEF IInv, TypeOK
  <2>2. asked[c] = Len(answers[c]) + 0
    BY <1>1 DEF IInv, OneAnswerEach
  <2> QED
    BY <1>1, <2>1, <2>2 DEF IInv, FreshResponse
<1> QED
  BY <1>1 DEF CaughtUp

\* What ends the process changes nothing at a connection that reads.
LEMMA CaughtUpKilled ==
  ASSUME IInv, CaughtUp, [Next]_vars, pc' = "killed"
  PROVE  CaughtUp'
<1>1. CASE UNCHANGED <<isOpen, state, res, asked, answers>>
  BY <1>1 DEF CaughtUp
<1>2. CASE SelectAborts \/ UNCHANGED vars
  BY <1>1, <1>2 DEF SelectAborts, vars, connVars, history
<1>3. ASSUME NEW c \in Conns, ReadHandler(c) PROVE CaughtUp'
  <2>1. ReadCrash(c) \/ ReadData(c)
    BY <1>3 DEF ReadHandler, ReadEOF, ReadError, NextClient
  <2> QED
    BY <1>1, <1>3, <2>1 DEF ReadHandler, ReadCrash, ReadData, NextClient
<1>4. ASSUME NEW c \in Conns, WriteHandler(c) PROVE CaughtUp'
  <2>1. BrokenPipe(c) \/ (WriteSome(c) /\ pc = "killed")
    BY <1>4 DEF WriteHandler, WriteSome, WriteError, NextClient
  <2> QED
    BY <1>1, <1>4, <2>1 DEF WriteHandler, Writing, BrokenPipe, history
<1>5. ASSUME NEW c \in Conns, NEW o \in Outcomes, DumpCrash(c, o) PROVE CaughtUp'
  <2>1. /\ pc = "processHandler" /\ clients[it] = c /\ Parsed(req[c])
        /\ UNCHANGED <<isOpen, state, asked>>
        /\ \A d \in Conns \ {c} : res'[d] = res[d] /\ answers'[d] = answers[d]
    BY <1>5, SMTT(40) DEF DumpCrash, Processing, Answered, IInv, TypeOK
  <2>2. state[c] # "Ready_ForRead"
    BY <2>1 DEF IInv, HandlerHasWork
  <2> QED
    BY <2>1, <2>2 DEF CaughtUp
<1>6. ASSUME NEW c \in Conns, ProcessHandler(c) PROVE CaughtUp'
  <2>1. \E o \in Outcomes : DumpCrash(c, o)
    BY <1>6 DEF ProcessHandler, CloseClient, ProcessClosed, StartCGI, DumpResponse
  <2> QED
    BY <1>5, <2>1
<1>7. ASSUME NEW c \in Conns, Peer(c) \/ CGIWrite(c) \/ CGIExit(c) PROVE CaughtUp'
  BY <1>7 DEF Peer, PeerConnect, PeerSend, PeerClose, PeerReset, PeerRecv, Connected,
     CGIWrite, CGIExit, serverVars
<1>8. ASSUME NEW c \in Conns, Skip(c) \/ WriteMore(c) \/ PipeHandler(c) PROVE CaughtUp'
  BY <1>8 DEF Skip, WriteMore, PipeHandler, NextClient
<1> QED
  BY <1>2, <1>3, <1>4, <1>6, <1>7, <1>8
     DEF Next, Server, Select, EndOfPass, CheckServer

LEMMA AlwaysCaughtUp == Spec => []CaughtUp
<1>1. Init => ~(pc = "killed")
  BY DEF Init
<1>2. IInv /\ ~(pc = "killed") => CaughtUp
  BY CaughtUpAlive
<1>3. IInv /\ CaughtUp /\ [Next]_vars /\ (pc = "killed")' => CaughtUp'
  BY CaughtUpKilled
<1> QED
  BY <1>1, <1>2, <1>3, Invariance, PTL DEF Spec

-----------------------------------------------------------------------------
(* What the promise says of the server                                     *)

P == INSTANCE ServiceProofs WITH
       Lengths <- BuiltLengths,
       session <- [c \in Conns |-> Session(c)],
       gone    <- [c \in Conns |-> sock[c].fin \/ sock[c].rst # "no"]

\* The lengths of the responses are what the promise assumes of them.
LEMMA LengthsAreNatural == P!NaturalLengths
<1>1. HeaderSize \in Nat /\ SIZE_MAX + 1 \in Nat \ {0}
  BY ResponseAssumption
<1>2. ASSUME NEW u \in URIs, NEW o \in Outcomes
      PROVE  HeaderSize + (loadFile(u, o).length % (SIZE_MAX + 1)) \in Nat
  <2>1. loadFile(u, o).length \in Int
    BY LoadType
  <2> DEFINE n == loadFile(u, o).length
             m == SIZE_MAX + 1
  <2> HIDE DEF n, m
  <2>2. n % m \in Nat
    BY <1>1, <2>1 DEF n, m
  <2> QED
    BY <1>1, <2>2 DEF n, m
<1> QED
  BY <1>1, <1>2 DEF P!NaturalLengths, BuiltLengths

\* The steps of the promise, here and in ServiceProofs, are the same.
LEMMA SameSteps ==
  ASSUME [S!Next]_(S!vars) PROVE [P!Next]_(P!vars)
<1> DEFINE all == [c \in Conns |-> Session(c)]
           gone == [c \in Conns |-> sock[c].fin \/ sock[c].rst # "no"]
<1> HIDE DEF all, gone
<1>1. CASE UNCHANGED S!vars
  BY <1>1 DEF S!vars, P!vars
<1>2. ASSUME NEW c \in Conns, S!Ask(c) PROVE P!Ask(c)
  BY <1>2 DEF S!Ask, P!Ask, S!Whole, P!Whole, S!LastLength, P!LastLength, S!Length, P!Length
<1>3. ASSUME NEW c \in Conns, S!Answer(c) PROVE P!Answer(c)
  BY <1>3, Zenon DEF S!Answer, P!Answer, S!Run, P!Run
<1>4. ASSUME NEW c \in Conns, S!Produce(c) PROVE P!Produce(c)
  BY <1>4, Zenon DEF S!Produce, P!Produce, S!Run, P!Run, S!LastLength, P!LastLength,
     S!Length, P!Length
<1>5. ASSUME NEW c \in Conns, S!Grow(c) PROVE P!Grow(c)
  BY <1>5, Zenon DEF S!Grow, P!Grow
<1>6. ASSUME NEW c \in Conns, S!End(c) PROVE P!End(c)
  BY <1>6, Zenon DEF S!End, P!End
<1>7. ASSUME NEW c \in Conns, S!Leave(c) PROVE P!Leave(c)
  BY <1>7, Zenon DEF S!Leave, P!Leave
<1>8. ASSUME NEW c \in Conns, S!GiveUp(c) PROVE P!GiveUp(c)
  BY <1>8, Zenon DEF S!GiveUp, P!GiveUp, S!Over, P!Over
<1> QED
  BY <1>1, <1>2, <1>3, <1>4, <1>5, <1>6, <1>7, <1>8 DEF S!Next, P!Next

\* So is the promise.
LEMMA SamePromise == S!Spec => P!Spec
<1>1. S!Init => P!Init
  BY DEF S!Init, P!Init, S!Start, P!Start
<1>2. [S!Next]_(S!vars) => [P!Next]_(P!vars)
  BY SameSteps
<1> QED
  BY <1>1, <1>2, PTL DEF S!Spec, P!Spec

\* The session of a connection that is good, field by field.
LEMMA GoodFields ==
  ASSUME NEW c \in Conns, isOpen[c]
  PROVE  LET s == [d \in Conns |-> Session(d)][c]
         IN /\ s.good = TRUE /\ s.asked = asked[c] /\ s.lens = answers[c]
            /\ s.ended = (~cgi[c].alive) /\ s.pos = Position(c) /\ s.out = Stream(c)
BY OpenSession

\* What a peer receives of a good connection is the answers in order, without
\* gaps or repetitions: partial writes, the write buffer, the two positions of
\* writeResponse and the reads of a pipe neither lose nor repeat a unit.
THEOREM InOrderDelivered == Spec => []AnswersInOrder
<1>1. ASSUME P!InOrder, NEW c \in Conns, isOpen[c]
      PROVE  Unbroken(Stream(c), answers[c])
  <2>1. P!Unbroken(Stream(c), answers[c])
    BY <1>1, GoodFields DEF P!InOrder
  <2> QED
    BY <2>1 DEF P!Unbroken, Unbroken, P!Follows, Follows, P!Before, Before, P!Length, Length
<1>2. P!InOrder => AnswersInOrder
  BY <1>1 DEF AnswersInOrder
<1> QED
  BY <1>2, Implementation, SamePromise, LengthsAreNatural, P!AnswersUnbroken, PTL
     DEF KeepsPromise

\* Before a connection reads its next request, every response before has been
\* handed to the kernel to its end, a CGI response to the end of what its program
\* wrote, and the write buffer is empty.
THEOREM WholeDelivered == Spec => []AnswersWhole
<1>1. ASSUME IInv, RInv, CaughtUp, P!InFull,
             NEW c \in Conns, isOpen[c], state[c] = "Ready_ForRead"
      PROVE  Finished(sock[c].sent, answers[c]) /\ writeBuffer[c] = <<>>
  <2> DEFINE s == [d \in Conns |-> Session(d)][c]
  <2>1. writeBuffer[c] = <<>> /\ ~cgi[c].alive /\ res[c] = NULL
    BY <1>1 DEF RInv, Faithful, ReadyIsEmpty, ProgramServed, CaughtUp
  <2>2. Len(answers[c]) = asked[c] /\ answers[c] \in Seq(Nat)
    BY <1>1 DEF CaughtUp, IInv, TypeOK
  <2>3. Position(c) = P!Length(answers[c], Len(answers[c]))
    <3>1. answers[c] = <<>> <=> Len(answers[c]) = 0
      BY <2>2
    <3> QED
      BY <2>1, <3>1 DEF Position, LastAnswer, P!Length
  <2>4. /\ s.good = TRUE /\ s.asked = asked[c] /\ s.lens = answers[c]
        /\ s.ended = (~cgi[c].alive) /\ s.pos = Position(c) /\ s.out = Stream(c)
    BY <1>1, GoodFields
  <2>5. P!Finished(s.out, s.lens)
    <3>1. P!Whole(s)
      <4> HIDE DEF s
      <4> QED
        BY <2>1, <2>2, <2>3, <2>4 DEF P!Whole, P!LastLength
    <3> QED
      BY <1>1, <2>4, <3>1 DEF P!InFull
  <2>6. Stream(c) = sock[c].sent
    <3>1. Done(c) = 0
      <4>1. Len(writeBuffer[c]) = 0 /\ copied \in Nat
        BY <1>1, <2>1 DEF IInv, TypeOK
      <4> QED
        BY <1>1, <4>1 DEF Done, RInv, Handed
    <3>2. sock[c].sent \in Seq(Units)
      BY <1>1, SocketUpdates DEF IInv, TypeOK
    <3>3. Stream(c) = sock[c].sent \o writeBuffer[c]
      BY <1>1, <3>1, WholeStream
    <3> QED
      BY <2>1, <3>2, <3>3
  <2>7. P!Finished(sock[c].sent, answers[c])
    <3> HIDE DEF s
    <3> QED
      BY <2>4, <2>5, <2>6
  <2> QED
    BY <2>1, <2>7 DEF P!Finished, Finished, P!Before, Before, P!Length, Length
<1>2. IInv /\ RInv /\ CaughtUp /\ P!InFull => AnswersWhole
  BY <1>1 DEF AnswersWhole
<1> QED
  BY <1>2, Invariance, Faithfulness, AlwaysCaughtUp, Implementation, SamePromise,
     LengthsAreNatural, P!AnswersComplete, PTL DEF KeepsPromise

=============================================================================
