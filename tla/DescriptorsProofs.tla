------------------------- MODULE DescriptorsProofs -------------------------
(***************************************************************************)
(* Theorems about Descriptors: whose number a client holds, which pipes    *)
(* can end and what select sees, for any number of connections, processes  *)
(* and limits.                                                             *)
(***************************************************************************)
EXTENDS Descriptors, SequenceTheorems, FiniteSetTheorems, WellFoundedInduction, TLAPS

-----------------------------------------------------------------------------
(* Numbers                                                                 *)

\* A set of positions that is not empty has a first.
LEMMA MinIsFirst ==
  ASSUME NEW S \in SUBSET Nat, S # {}
  PROVE  Min(S) \in S /\ \A j \in S : Min(S) <= j
<1>1. PICK i \in S : \A j \in S : <<j, i>> \notin OpToRel(<, Nat)
  BY WFMin, NatLessThanWellFounded, Zenon
<1>2. ASSUME NEW j \in S
      PROVE  i <= j
  <2>1. ~(j < i)
    BY <1>1, Zenon DEF OpToRel
  <2> QED
    BY <2>1
<1> QED
  BY <1>2 DEF Min

\* One that is bounded has a last.
LEMMA MaxIsLast ==
  ASSUME NEW S \in SUBSET Int, S # {}, NEW b \in Int, \A j \in S : j <= b
  PROVE  Max(S) \in S /\ \A j \in S : j <= Max(S)
<1> DEFINE T == {b - j : j \in S}
<1>1. T \in SUBSET Nat /\ T # {}
  <2>1. \A j \in S : b - j \in Nat
    OBVIOUS
  <2> QED
    BY <2>1
<1>2. Min(T) \in T /\ \A j \in T : Min(T) <= j
  BY <1>1, MinIsFirst
<1>3. PICK i \in S : Min(T) = b - i
  BY <1>2
<1>4. ASSUME NEW j \in S
      PROVE  j <= i
  <2>1. b - j \in T /\ b - i <= b - j
    BY <1>2, <1>3
  <2> QED
    BY <2>1
<1> QED
  BY <1>3, <1>4 DEF Max

\* The numbers of descriptors: there are more than those a process starts with.
LEMMA FdsType ==
  /\ Max(Limits) \in Limits /\ \A l \in Limits : l \in 6..31 /\ l <= Max(Limits)
  /\ Fds \in SUBSET Nat /\ {0, 1, 2, 3, 4} \subseteq Fds /\ NoFd \notin Fds
  /\ \A d \in Fds : d < Max(Limits)
<1>1. Limits \in SUBSET Int /\ Limits # {} /\ \A l \in Limits : l \in 6..31 /\ l <= 31
  BY DescriptorsAssumption
<1>2. Max(Limits) \in Limits /\ \A l \in Limits : l <= Max(Limits)
  BY <1>1, MaxIsLast
<1> DEFINE m == Max(Limits)
<1>3. Fds = 0..(m - 1)
  BY DEF Fds
<1> HIDE DEF m
<1>4. m \in Limits /\ m \in 6..31
  BY <1>1, <1>2 DEF m
<1>5. /\ Fds \in SUBSET Nat /\ {0, 1, 2, 3, 4} \subseteq Fds /\ NoFd \notin Fds
      /\ \A d \in Fds : d < m
  BY <1>3, <1>4 DEF NoFd
<1> QED
  BY <1>1, <1>2, <1>5 DEF m

\* No two things are the same.
LEMMA Different ==
  /\ NULL \notin Objects /\ Listen \in Objects /\ \A i \in 0..3 : Std(i) \in Objects
  /\ \A c \in Conns : Sock(c) \in Objects /\ Sock(c) # Listen /\ Sock(c) # NULL
  /\ \A k \in Nat \ {0} : ReadEnd(k) \in Objects /\ WriteEnd(k) \in Objects
  /\ \A k, l : ReadEnd(k) # WriteEnd(l) /\ ReadEnd(k) # Listen /\ WriteEnd(k) # Listen
  /\ \A k, c : ReadEnd(k) # Sock(c) /\ WriteEnd(k) # Sock(c)
BY DescriptorsAssumption DEF Objects, Listen, Std, Sock, ReadEnd, WriteEnd

-----------------------------------------------------------------------------
(* The inductive invariant                                                 *)

\* The ends of the pipes from number a to number b.
Ends(a, b) == {"read", "write"} \X (a..b)

\* A table refers to nothing but what exists: no pipe has the number of the next.
IsTable(f, n) ==
  /\ f \in Files
  /\ \A d \in Fds : f[d] \in {"read", "write"} \X (Nat \ {0}) => f[d] \in Ends(1, n)

\* What programs and children write over is their standard input and output.
StdKept(f) ==
  \A d \in {0, 1} : f[d] \in ({"std"} \X (0..3)) \cup ({"read", "write"} \X (Nat \ {0}))

\* Each client has a number of its own for its own connection, and each
\* connection in the table a client.
Owns(f, q) ==
  /\ \A i \in DOMAIN q :
       /\ q[i].fd = NoFd <=> q[i].conn = NULL
       /\ q[i].fd # NoFd => f[q[i].fd] = Sock(q[i].conn)
       /\ \A j \in DOMAIN q : i # j /\ q[i].fd # NoFd => q[j].fd # q[i].fd
  /\ \A d \in Fds, c \in Conns : f[d] = Sock(c) => \E i \in DOMAIN q : q[i].fd = d

\* Each pipe a server waits for is one whose other end it does not hold.
OutOf(f, o, n) ==
  /\ o \in Fds \ {0, 1}
  /\ \E k \in 1..n : f[o] = ReadEnd(k) /\ \A d \in Fds : f[d] # WriteEnd(k)
Waits(f, q, n) ==
  \A i \in DOMAIN q : q[i].state = "Writing_Response" /\ q[i].out # NoFd => OutOf(f, q[i].out, n)

Serves(f, q, n) ==
  /\ \E d \in Fds : f[d] = Listen
  /\ StdKept(f) /\ Owns(f, q) /\ Waits(f, q, n)

\* As long as there is one server, a pipe it waits for has one writer at most.
OneWriter ==
  Alone => \A o \in Outs(proc[Main]) \ {NoFd} : \A k \in 1..pipes :
             proc[Main].fds[o] = ReadEnd(k) =>
               \A p, q \in Holders(WriteEnd(k)) : p = q

DInv ==
  /\ TypeOK
  /\ \A p \in Procs : IsTable(proc[p].fds, pipes)
  /\ \A p \in Procs : proc[p].kind = "starting" =>
       p = Main /\ proc[p].fds = [d \in Fds |-> IF d <= 3 THEN Std(d) ELSE NULL]
  /\ \A p \in Servers : Serves(proc[p].fds, proc[p].clients, pipes)
  /\ OneWriter

-----------------------------------------------------------------------------
(* Tables                                                                  *)

\* What is allocated goes to a number that was free.
LEMMA AllocSlot ==
  ASSUME NEW f \in Files, NEW o, o # NULL, free(f) # {}
  PROVE  LET a == Min(free(f))
         IN /\ a \in Fds /\ a < limit /\ f[a] = NULL
            /\ alloc(f, o) = [f EXCEPT ![a] = o]
            /\ alloc(f, o)[a] = o /\ \A d \in Fds \ {a} : alloc(f, o)[d] = f[d]
            /\ free(alloc(f, o)) = free(f) \ {a}
<1> DEFINE a == Min(free(f))
           g == alloc(f, o)
<1>1. free(f) \in SUBSET Nat /\ free(f) \in SUBSET Fds
  BY FdsType DEF free
<1>2. a \in free(f)
  BY <1>1, MinIsFirst
<1>3. g = [f EXCEPT ![a] = o]
  BY DEF alloc
<1> HIDE DEF a, g
<1>4. a \in Fds /\ a < limit /\ f[a] = NULL
  BY <1>2 DEF free
<1>5. g[a] = o /\ \A d \in Fds \ {a} : g[d] = f[d]
  BY <1>3, <1>4 DEF Files
<1>6. free(g) = free(f) \ {a}
  BY <1>4, <1>5 DEF free
<1> QED
  BY <1>3, <1>4, <1>5, <1>6 DEF a, g

LEMMA FreeIsFinite ==
  ASSUME NEW f \in Files
  PROVE  IsFiniteSet(free(f)) /\ Cardinality(free(f)) \in Nat
<1>1. Max(Limits) \in Nat
  BY FdsType
<1>2. free(f) \in SUBSET Nat /\ \A d \in free(f) : d <= Max(Limits)
  <2>1. \A d \in Fds : d \in Nat /\ d < Max(Limits)
    BY FdsType
  <2>2. free(f) \subseteq Fds
    BY DEF free
  <2> QED
    BY <1>1, <2>1, <2>2
<1> QED
  BY <1>1, <1>2, FS_BoundedSetOfNaturals, FS_CardinalityType

\* The two ends of a pipe go to two numbers that were free.
LEMMA PipeSlots ==
  ASSUME NEW f \in Files, NEW k \in Nat \ {0}, Cardinality(free(f)) >= 2
  PROVE  \E a, b \in Fds :
           /\ a # b /\ f[a] = NULL /\ f[b] = NULL
           /\ makePipe(f, k) \in Files
           /\ makePipe(f, k)[a] = ReadEnd(k) /\ makePipe(f, k)[b] = WriteEnd(k)
           /\ \A d \in Fds \ {a, b} : makePipe(f, k)[d] = f[d]
           /\ Cardinality(free(makePipe(f, k))) = Cardinality(free(f)) - 2
<1> DEFINE g == alloc(f, ReadEnd(k))
           h == makePipe(f, k)
           a == Min(free(f))
           b == Min(free(g))
<1>1. IsFiniteSet(free(f)) /\ Cardinality(free(f)) \in Nat
  BY FreeIsFinite
<1>2. free(f) # {}
  BY <1>1, FS_EmptySet
<1>3. ReadEnd(k) \in Objects /\ WriteEnd(k) \in Objects /\ NULL \notin Objects
  BY Different
<1>4. /\ a \in Fds /\ f[a] = NULL /\ g = [f EXCEPT ![a] = ReadEnd(k)]
      /\ g[a] = ReadEnd(k) /\ \A d \in Fds \ {a} : g[d] = f[d]
      /\ free(g) = free(f) \ {a} /\ a < limit
  BY <1>2, <1>3, AllocSlot
<1>5. h = alloc(g, WriteEnd(k))
  BY DEF makePipe
<1> HIDE DEF g, h, a
<1>6. g \in Files
  BY <1>3, <1>4 DEF Files
<1>7. a \in free(f) /\ IsFiniteSet(free(g)) /\ Cardinality(free(g)) = Cardinality(free(f)) - 1
  <2>1. a \in free(f)
    BY <1>4 DEF free
  <2>2. /\ IsFiniteSet(free(f) \ {a})
        /\ Cardinality(free(f) \ {a})
             = IF a \in free(f) THEN Cardinality(free(f)) - 1 ELSE Cardinality(free(f))
    BY <1>1, FS_RemoveElement
  <2> QED
    BY <1>4, <2>1, <2>2
<1>8. free(g) # {}
  BY <1>1, <1>7, FS_EmptySet
<1>9. /\ b \in Fds /\ g[b] = NULL /\ h = [g EXCEPT ![b] = WriteEnd(k)]
      /\ h[b] = WriteEnd(k) /\ \A d \in Fds \ {b} : h[d] = g[d]
      /\ free(h) = free(g) \ {b} /\ b < limit
  BY <1>3, <1>5, <1>6, <1>8, AllocSlot
<1> HIDE DEF b
<1>10. h \in Files
  BY <1>3, <1>6, <1>9 DEF Files
<1>11. a # b /\ f[b] = NULL
  BY <1>3, <1>4, <1>9
<1>12. Cardinality(free(h)) = Cardinality(free(f)) - 2
  <2>1. b \in free(g)
    BY <1>9 DEF free
  <2>2. Cardinality(free(h)) = Cardinality(free(g)) - 1
    BY <1>7, <1>9, <2>1, FS_RemoveElement, ZenonT(60)
  <2> QED
    BY <1>1, <1>7, <2>2
<1>13. h[a] = ReadEnd(k) /\ \A d \in Fds \ {a, b} : h[d] = f[d]
  BY <1>4, <1>9, <1>11
<1> QED
  BY <1>4, <1>9, <1>10, <1>11, <1>12, <1>13 DEF h

-----------------------------------------------------------------------------
(* What changes of a table leave alone                                     *)

\* Only free numbers and the standard ones are written over, and only with ends
\* of pipes that are new.
Grown(f, g, n, m) ==
  \A d \in Fds : \/ g[d] = f[d]
                 \/ g[d] \in Ends(n + 1, m) /\ (f[d] = NULL \/ d \in {0, 1})

LEMMA GrownIsTable ==
  ASSUME NEW n \in Nat, NEW m \in Nat, n <= m, NEW f, NEW g \in Files,
         IsTable(f, n), Grown(f, g, n, m)
  PROVE  IsTable(g, m)
<1> SUFFICES ASSUME NEW d \in Fds, g[d] \in {"read", "write"} \X (Nat \ {0})
             PROVE  g[d] \in Ends(1, m)
  BY DEF IsTable
<1>1. CASE g[d] = f[d]
  BY <1>1 DEF IsTable, Ends
<1>2. CASE g[d] \in Ends(n + 1, m)
  BY <1>2 DEF Ends
<1> QED
  BY <1>1, <1>2 DEF Grown

\* What is neither free nor standard stays.
LEMMA GrownKeeps ==
  ASSUME NEW n \in Nat, NEW m \in Nat, NEW f \in Files, NEW g \in Files,
         Grown(f, g, n, m), StdKept(f), NEW d \in Fds, f[d] # NULL,
         f[d] = Listen \/ (\E c \in Conns : f[d] = Sock(c)) \/ d \notin {0, 1}
  PROVE  g[d] = f[d] /\ d \notin {0, 1}
<1>1. f[d] = Listen \/ (\E c \in Conns : f[d] = Sock(c)) => d \notin {0, 1}
  BY DEF StdKept, Listen, Sock
<1> QED
  BY <1>1 DEF Grown

\* Whatever is not a new end was there before.
LEMMA GrownAddsEnds ==
  ASSUME NEW n \in Nat, NEW m \in Nat, NEW f \in Files, NEW g \in Files,
         Grown(f, g, n, m), NEW d \in Fds, NEW o,
         (\E c \in Conns : o = Sock(c)) \/ (\E k \in 1..n : o = WriteEnd(k)), g[d] = o
  PROVE  f[d] = o
<1>1. o \notin Ends(n + 1, m)
  BY DEF Ends, Sock, WriteEnd
<1> QED
  BY <1>1 DEF Grown

LEMMA GrownOutOf ==
  ASSUME NEW n \in Nat, NEW m \in Nat, n <= m, NEW f \in Files, NEW g \in Files,
         Grown(f, g, n, m), StdKept(f), NEW o, OutOf(f, o, n)
  PROVE  OutOf(g, o, m) /\ g[o] = f[o]
<1>1. o \in Fds /\ o \notin {0, 1}
  BY DEF OutOf
<1>2. PICK k \in 1..n : f[o] = ReadEnd(k) /\ \A d \in Fds : f[d] # WriteEnd(k)
  BY DEF OutOf
<1>3. f[o] # NULL
  BY <1>2, Different
<1>4. g[o] = f[o]
  BY <1>1, <1>3, GrownKeeps
<1>5. \A d \in Fds : g[d] # WriteEnd(k)
  BY <1>2, GrownAddsEnds
<1>6. k \in 1..m
  OBVIOUS
<1> QED
  BY <1>1, <1>2, <1>4, <1>5, <1>6 DEF OutOf

LEMMA GrownServes ==
  ASSUME NEW n \in Nat, NEW m \in Nat, n <= m, NEW f \in Files, NEW g \in Files,
         NEW q \in Seq(Clients), Grown(f, g, n, m), Serves(f, q, n)
  PROVE  Serves(g, q, m)
<1>1. StdKept(f) /\ Owns(f, q) /\ Waits(f, q, n)
  BY DEF Serves
<1>2. \E d \in Fds : g[d] = Listen
  <2>1. PICK d \in Fds : f[d] = Listen
    BY DEF Serves
  <2>2. f[d] # NULL
    BY <2>1, Different
  <2> QED
    BY <1>1, <2>1, <2>2, GrownKeeps
<1>3. StdKept(g)
  <2> SUFFICES ASSUME NEW d \in {0, 1}
               PROVE  g[d] \in ({"std"} \X (0..3)) \cup ({"read", "write"} \X (Nat \ {0}))
    BY DEF StdKept
  <2>1. d \in Fds
    BY FdsType
  <2>2. Ends(n + 1, m) \subseteq {"read", "write"} \X (Nat \ {0})
    BY DEF Ends
  <2> QED
    BY <1>1, <2>1, <2>2 DEF Grown, StdKept
<1>4. Owns(g, q)
  <2>1. ASSUME NEW i \in DOMAIN q, q[i].fd # NoFd
        PROVE  g[q[i].fd] = Sock(q[i].conn)
    <3>1. q[i] \in Clients
      BY <2>1
    <3>2. q[i].fd \in Fds /\ q[i].conn \in Conns /\ f[q[i].fd] = Sock(q[i].conn)
      BY <1>1, <2>1, <3>1 DEF Owns, Clients
    <3> DEFINE d == q[i].fd
    <3>3. d \in Fds /\ f[d] # NULL /\ \E c \in Conns : f[d] = Sock(c)
      BY <3>2, Different
    <3> HIDE DEF d
    <3>4. g[d] = f[d]
      BY <1>1, <3>3, GrownKeeps
    <3> QED
      BY <3>2, <3>4 DEF d
  <2>2. ASSUME NEW d \in Fds, NEW c \in Conns, g[d] = Sock(c)
        PROVE  \E i \in DOMAIN q : q[i].fd = d
    <3>1. f[d] = Sock(c)
      BY <2>2, GrownAddsEnds
    <3> QED
      BY <1>1, <3>1 DEF Owns
  <2> QED
    BY <1>1, <2>1, <2>2 DEF Owns
<1>5. Waits(g, q, m)
  BY <1>1, GrownOutOf DEF Waits
<1> QED
  BY <1>2, <1>3, <1>4, <1>5 DEF Serves

\* A client that keeps its connection may wait for a pipe it can, or for none.
LEMMA ClientUpdated ==
  ASSUME NEW n \in Nat, NEW f \in Files, NEW q \in Seq(Clients), Serves(f, q, n),
         NEW i \in DOMAIN q, NEW c \in Clients, c.conn = q[i].conn, c.fd = q[i].fd,
         c.state = "Writing_Response" /\ c.out # NoFd => OutOf(f, c.out, n)
  PROVE  /\ [q EXCEPT ![i] = c] \in Seq(Clients)
         /\ Serves(f, [q EXCEPT ![i] = c], n)
<1> DEFINE r == [q EXCEPT ![i] = c]
<1>1. r \in Seq(Clients) /\ DOMAIN r = DOMAIN q
  OBVIOUS
<1>2. r[i] = c /\ \A j \in DOMAIN q : j # i => r[j] = q[j]
  OBVIOUS
<1> HIDE DEF r
<1>3. \A j \in DOMAIN q : r[j].conn = q[j].conn /\ r[j].fd = q[j].fd
  BY <1>2
<1>4. Owns(f, r)
  BY <1>1, <1>3 DEF Serves, Owns
<1>5. Waits(f, r, n)
  BY <1>1, <1>2 DEF Serves, Waits
<1> QED
  BY <1>1, <1>4, <1>5 DEF Serves, r

\* accept: a number that was free, and a client for it.
LEMMA ClientAdded ==
  ASSUME NEW n \in Nat, NEW f \in Files, NEW q \in Seq(Clients), Serves(f, q, n),
         NEW a \in Fds, f[a] = NULL, NEW g \in Files, NEW c \in Conns,
         g[a] = Sock(c), \A d \in Fds \ {a} : g[d] = f[d]
  PROVE  /\ Append(q, NewClient(c, a)) \in Seq(Clients)
         /\ Serves(g, Append(q, NewClient(c, a)), n)
<1> DEFINE e == NewClient(c, a)
           r == Append(q, e)
<1>1. /\ e \in Clients /\ e.conn = c /\ e.fd = a /\ e.state = "Ready_ForRead"
      /\ a # NoFd /\ c # NULL
  BY FdsType, DescriptorsAssumption DEF NewClient, Clients, ClientStates
<1> HIDE DEF e
<1>2. /\ r \in Seq(Clients) /\ Len(q) \in Nat /\ DOMAIN q = 1..Len(q)
      /\ DOMAIN r = 1..(Len(q) + 1) /\ r[Len(q) + 1] = e
      /\ \A i \in DOMAIN q : r[i] = q[i]
  BY <1>1
<1> HIDE DEF r
<1>3. StdKept(f) /\ Owns(f, q) /\ Waits(f, q, n)
  BY DEF Serves
<1>4. a \notin {0, 1}
  BY <1>3, Different DEF StdKept, Objects
<1>5. \E d \in Fds : g[d] = Listen
  <2>1. PICK d \in Fds : f[d] = Listen
    BY DEF Serves
  <2>2. d # a
    BY <2>1, Different
  <2> QED
    BY <2>1, <2>2
<1>6. StdKept(g)
  BY <1>3, <1>4, FdsType DEF StdKept
<1>7. \A i \in DOMAIN q : q[i].fd # NoFd =>
        q[i].fd \in Fds \ {a} /\ g[q[i].fd] = Sock(q[i].conn)
  <2> SUFFICES ASSUME NEW i \in DOMAIN q, q[i].fd # NoFd
               PROVE  q[i].fd \in Fds \ {a} /\ g[q[i].fd] = Sock(q[i].conn)
    OBVIOUS
  <2>1. q[i] \in Clients
    OBVIOUS
  <2>2. q[i].fd \in Fds /\ q[i].conn \in Conns /\ f[q[i].fd] = Sock(q[i].conn)
    BY <1>3, <2>1 DEF Owns, Clients
  <2>3. q[i].fd # a
    BY <2>2, Different
  <2> QED
    BY <2>2, <2>3
<1>8. Owns(g, r)
  <2>1. ASSUME NEW i \in DOMAIN r
        PROVE  /\ r[i].fd = NoFd <=> r[i].conn = NULL
               /\ r[i].fd # NoFd => g[r[i].fd] = Sock(r[i].conn)
               /\ \A j \in DOMAIN r : i # j /\ r[i].fd # NoFd => r[j].fd # r[i].fd
    <3>1. CASE i \in DOMAIN q
      <4>1. /\ r[i] = q[i]
            /\ q[i].fd = NoFd <=> q[i].conn = NULL
            /\ \A j \in DOMAIN q : i # j /\ q[i].fd # NoFd => q[j].fd # q[i].fd
        BY <1>2, <1>3, <3>1 DEF Owns
      <4>2. q[i].fd # NoFd => q[i].fd # a /\ g[q[i].fd] = Sock(q[i].conn)
        BY <1>7, <3>1
      <4>3. ASSUME NEW j \in DOMAIN r, i # j, r[i].fd # NoFd
            PROVE  r[j].fd # r[i].fd
        <5>1. j \in DOMAIN q \/ r[j] = e
          BY <1>2
        <5> QED
          BY <1>1, <1>2, <4>1, <4>2, <4>3, <5>1
      <4> QED
        BY <4>1, <4>2, <4>3
    <3>2. CASE i = Len(q) + 1
      <4>1. r[i] = e
        BY <1>2, <3>2
      <4>2. ASSUME NEW j \in DOMAIN r, i # j
            PROVE  r[j].fd # a
        <5>1. j \in DOMAIN q /\ r[j] = q[j]
          BY <1>2, <3>2, <4>2
        <5> QED
          BY <1>1, <1>7, <5>1
      <4> QED
        BY <1>1, <4>1, <4>2
    <3> QED
      BY <1>2, <3>1, <3>2
  <2>2. ASSUME NEW d \in Fds, NEW x \in Conns, g[d] = Sock(x)
        PROVE  \E i \in DOMAIN r : r[i].fd = d
    <3>1. CASE d = a
      BY <1>1, <1>2, <3>1
    <3>2. CASE d # a
      <4>1. PICK i \in DOMAIN q : q[i].fd = d
        BY <1>3, <2>2, <3>2 DEF Owns
      <4> QED
        BY <1>2, <4>1
    <3> QED
      BY <3>1, <3>2
  <2> QED
    BY <2>1, <2>2 DEF Owns
<1>9. Waits(g, r, n)
  <2> SUFFICES ASSUME NEW i \in DOMAIN r, r[i].state = "Writing_Response", r[i].out # NoFd
               PROVE  OutOf(g, r[i].out, n)
    BY DEF Waits
  <2>1. i \in DOMAIN q /\ r[i] = q[i]
    BY <1>1, <1>2
  <2>2. OutOf(f, r[i].out, n)
    BY <1>3, <2>1 DEF Waits
  <2> DEFINE o == r[i].out
  <2> HIDE DEF o
  <2>3. PICK k \in 1..n : f[o] = ReadEnd(k) /\ \A d \in Fds : f[d] # WriteEnd(k)
    BY <2>2 DEF OutOf, o
  <2>4. o \in Fds \ {0, 1} /\ o # a
    BY <2>2, <2>3, Different DEF OutOf, o
  <2>5. \A d \in Fds : g[d] # WriteEnd(k)
    BY <2>3, Different
  <2> QED
    BY <2>3, <2>4, <2>5 DEF OutOf, o
<1> QED
  BY <1>2, <1>5, <1>6, <1>8, <1>9 DEF Serves, r, e

\* accept on a full table: a client without a number.
LEMMA ClientWithoutFd ==
  ASSUME NEW n \in Nat, NEW f \in Files, NEW q \in Seq(Clients), Serves(f, q, n)
  PROVE  /\ Append(q, NewClient(NULL, NoFd)) \in Seq(Clients)
         /\ Serves(f, Append(q, NewClient(NULL, NoFd)), n)
<1> DEFINE e == NewClient(NULL, NoFd)
           r == Append(q, e)
<1>1. e \in Clients /\ e.conn = NULL /\ e.fd = NoFd /\ e.state = "Ready_ForRead"
  BY DEF NewClient, Clients, ClientStates
<1> HIDE DEF e
<1>2. /\ r \in Seq(Clients) /\ Len(q) \in Nat /\ DOMAIN q = 1..Len(q)
      /\ DOMAIN r = 1..(Len(q) + 1) /\ r[Len(q) + 1] = e
      /\ \A i \in DOMAIN q : r[i] = q[i]
  BY <1>1
<1> HIDE DEF r
<1>3. StdKept(f) /\ Owns(f, q) /\ Waits(f, q, n) /\ \E d \in Fds : f[d] = Listen
  BY DEF Serves
<1>4. Owns(f, r)
  <2>1. ASSUME NEW i \in DOMAIN r
        PROVE  /\ r[i].fd = NoFd <=> r[i].conn = NULL
               /\ r[i].fd # NoFd => f[r[i].fd] = Sock(r[i].conn)
               /\ \A j \in DOMAIN r : i # j /\ r[i].fd # NoFd => r[j].fd # r[i].fd
    <3>1. CASE i \in DOMAIN q
      <4>1. /\ r[i] = q[i]
            /\ q[i].fd = NoFd <=> q[i].conn = NULL
            /\ q[i].fd # NoFd => f[q[i].fd] = Sock(q[i].conn)
            /\ \A j \in DOMAIN q : i # j /\ q[i].fd # NoFd => q[j].fd # q[i].fd
        BY <1>2, <1>3, <3>1 DEF Owns
      <4>2. ASSUME NEW j \in DOMAIN r, i # j, r[i].fd # NoFd
            PROVE  r[j].fd # r[i].fd
        <5>1. j \in DOMAIN q \/ r[j] = e
          BY <1>2
        <5> QED
          BY <1>1, <1>2, <4>1, <4>2, <5>1
      <4> QED
        BY <4>1, <4>2
    <3>2. CASE i = Len(q) + 1
      BY <1>1, <1>2, <3>2
    <3> QED
      BY <1>2, <3>1, <3>2
  <2>2. ASSUME NEW d \in Fds, NEW x \in Conns, f[d] = Sock(x)
        PROVE  \E i \in DOMAIN r : r[i].fd = d
    <3>1. PICK i \in DOMAIN q : q[i].fd = d
      BY <1>3, <2>2 DEF Owns
    <3> QED
      BY <1>2, <3>1
  <2> QED
    BY <2>1, <2>2 DEF Owns
<1>5. Waits(f, r, n)
  <2> SUFFICES ASSUME NEW i \in DOMAIN r, r[i].state = "Writing_Response", r[i].out # NoFd
               PROVE  OutOf(f, r[i].out, n)
    BY DEF Waits
  <2>1. i \in DOMAIN q /\ r[i] = q[i]
    BY <1>1, <1>2
  <2> QED
    BY <1>3, <2>1 DEF Waits
<1> QED
  BY <1>2, <1>3, <1>4, <1>5 DEF Serves, r, e

\* vector::erase
erased(q, i) == SubSeq(q, 1, i - 1) \o SubSeq(q, i + 1, Len(q))

LEMMA ErasedType ==
  ASSUME NEW q \in Seq(Clients), NEW i \in DOMAIN q
  PROVE  /\ erased(q, i) \in Seq(Clients) /\ Len(erased(q, i)) = Len(q) - 1
         /\ \A j \in 1..(Len(q) - 1) : erased(q, i)[j] = IF j < i THEN q[j] ELSE q[j + 1]
<1> DEFINE a == SubSeq(q, 1, i - 1)
           b == SubSeq(q, i + 1, Len(q))
<1>0. Len(q) \in Nat /\ i \in 1..Len(q) /\ \A j \in 1..Len(q) : q[j] \in Clients
  OBVIOUS
<1>1. a \in Seq(Clients) /\ Len(a) = i - 1 /\ \A j \in 1..(i - 1) : a[j] = q[j]
  BY <1>0, SubSeqProperties
<1>2. /\ b \in Seq(Clients) /\ Len(b) = Len(q) - i
      /\ \A j \in 1..(Len(q) - i) : b[j] = q[i + j]
  BY <1>0, SubSeqProperties
<1> HIDE DEF a, b
<1>3. erased(q, i) = a \o b
  BY DEF erased, a, b
<1>4. /\ a \o b \in Seq(Clients) /\ Len(a \o b) = Len(a) + Len(b)
      /\ \A j \in 1..(Len(a) + Len(b)) :
           (a \o b)[j] = IF j <= Len(a) THEN a[j] ELSE b[j - Len(a)]
  BY <1>1, <1>2, ConcatProperties
<1> DEFINE r == a \o b
<1> HIDE DEF r
<1>5. ASSUME NEW j \in 1..(Len(q) - 1)
      PROVE  r[j] = IF j < i THEN q[j] ELSE q[j + 1]
  <2>1. CASE j < i
    <3>1. j \in 1..(Len(a) + Len(b)) /\ j <= Len(a) /\ j \in 1..(i - 1)
      BY <1>0, <1>1, <1>2, <2>1
    <3> QED
      BY <1>1, <1>4, <2>1, <3>1 DEF r
  <2>2. CASE ~(j < i)
    <3>1. j \in 1..(Len(a) + Len(b)) /\ ~(j <= Len(a)) /\ j - Len(a) = j + 1 - i
      BY <1>0, <1>1, <1>2, <2>2
    <3>2. j + 1 - i \in 1..(Len(q) - i) /\ i + (j + 1 - i) = j + 1
      BY <1>0, <2>2
    <3> QED
      BY <1>2, <1>4, <2>2, <3>1, <3>2 DEF r
  <2> QED
    BY <2>1, <2>2
<1>6. Len(r) = Len(q) - 1
  BY <1>0, <1>1, <1>2, <1>4 DEF r
<1> QED
  BY <1>3, <1>4, <1>5, <1>6 DEF r

\* A client that goes takes its number with it.
LEMMA ClientErased ==
  ASSUME NEW n \in Nat, NEW f \in Files, NEW q \in Seq(Clients), Serves(f, q, n),
         NEW i \in DOMAIN q, q[i].fd \in Fds, NEW g \in Files,
         g[q[i].fd] = NULL, \A d \in Fds \ {q[i].fd} : g[d] = f[d]
  PROVE  erased(q, i) \in Seq(Clients) /\ Serves(g, erased(q, i), n)
<1> DEFINE r == erased(q, i)
           a == q[i].fd
           old(j) == IF j < i THEN j ELSE j + 1
<1>1. /\ r \in Seq(Clients) /\ Len(r) = Len(q) - 1 /\ Len(q) \in Nat /\ i \in 1..Len(q)
      /\ DOMAIN q = 1..Len(q) /\ DOMAIN r = 1..(Len(q) - 1)
      /\ \A j \in 1..(Len(q) - 1) : r[j] = IF j < i THEN q[j] ELSE q[j + 1]
  BY ErasedType
<1> HIDE DEF r
<1>2. /\ \A j \in DOMAIN r : old(j) \in DOMAIN q /\ old(j) # i /\ r[j] = q[old(j)]
      /\ \A j, k \in DOMAIN r : j # k => old(j) # old(k)
  BY <1>1
<1>3. \A k \in DOMAIN q : k # i => \E j \in DOMAIN r : old(j) = k
  <2> SUFFICES ASSUME NEW k \in DOMAIN q, k # i PROVE \E j \in DOMAIN r : old(j) = k
    OBVIOUS
  <2>1. CASE k < i
    BY <1>1, <2>1
  <2>2. CASE k > i
    <3>1. k - 1 \in DOMAIN r /\ ~(k - 1 < i) /\ (k - 1) + 1 = k
      BY <1>1, <2>2
    <3> QED
      BY <3>1
  <2> QED
    BY <1>1, <2>1, <2>2
<1> HIDE DEF old
<1>4. StdKept(f) /\ Owns(f, q) /\ Waits(f, q, n)
  BY DEF Serves
<1>5. a # NoFd /\ q[i] \in Clients
  BY FdsType
<1>6. f[a] = Sock(q[i].conn) /\ q[i].conn \in Conns
  BY <1>4, <1>5 DEF Owns, Clients
<1> HIDE DEF a
<1>7. \E d \in Fds : g[d] = Listen
  <2>1. PICK d \in Fds : f[d] = Listen
    BY DEF Serves
  <2>2. d # a
    BY <1>6, <2>1, Different
  <2> QED
    BY <2>1, <2>2 DEF a
<1>8. StdKept(g)
  <2>1. a \notin {0, 1}
    BY <1>4, <1>6 DEF StdKept, Sock
  <2> QED
    BY <1>4, <2>1, FdsType DEF StdKept, a
<1>9. \A k \in DOMAIN q : k # i => q[k].fd # a
  BY <1>4, <1>5 DEF Owns, a
<1>10. Owns(g, r)
  <2>1. ASSUME NEW j \in DOMAIN r
        PROVE  /\ r[j].fd = NoFd <=> r[j].conn = NULL
               /\ r[j].fd # NoFd => g[r[j].fd] = Sock(r[j].conn)
               /\ \A k \in DOMAIN r : j # k /\ r[j].fd # NoFd => r[k].fd # r[j].fd
    <3>1. old(j) \in DOMAIN q /\ old(j) # i /\ r[j] = q[old(j)] /\ r[j].fd # a
      BY <1>2, <1>9
    <3>2. /\ r[j].fd = NoFd <=> r[j].conn = NULL
          /\ r[j].fd # NoFd => f[r[j].fd] = Sock(r[j].conn)
      BY <1>4, <3>1 DEF Owns
    <3>3. r[j].fd # NoFd => r[j].fd \in Fds
      <4>1. r[j] \in Clients
        BY <1>1, <2>1
      <4> QED
        BY <4>1 DEF Clients
    <3>4. r[j].fd # NoFd => g[r[j].fd] = Sock(r[j].conn)
      BY <3>1, <3>2, <3>3 DEF a
    <3>5. ASSUME NEW k \in DOMAIN r, j # k, r[j].fd # NoFd
          PROVE  r[k].fd # r[j].fd
      <4>1. old(k) \in DOMAIN q /\ old(k) # old(j) /\ r[k] = q[old(k)]
        BY <1>2, <3>5
      <4> QED
        BY <1>4, <3>1, <3>5, <4>1 DEF Owns
    <3> QED
      BY <3>2, <3>4, <3>5
  <2>2. ASSUME NEW d \in Fds, NEW x \in Conns, g[d] = Sock(x)
        PROVE  \E j \in DOMAIN r : r[j].fd = d
    <3>1. d # a /\ f[d] = Sock(x)
      BY <2>2, Different DEF a
    <3>2. PICK k \in DOMAIN q : q[k].fd = d
      BY <1>4, <3>1 DEF Owns
    <3>3. k # i
      BY <3>1, <3>2 DEF a
    <3>4. PICK j \in DOMAIN r : old(j) = k
      BY <1>3, <3>3
    <3> QED
      BY <1>2, <3>2, <3>4
  <2> QED
    BY <2>1, <2>2 DEF Owns
<1>11. Waits(g, r, n)
  <2> SUFFICES ASSUME NEW j \in DOMAIN r, r[j].state = "Writing_Response", r[j].out # NoFd
               PROVE  OutOf(g, r[j].out, n)
    BY DEF Waits
  <2> DEFINE o == r[j].out
  <2>1. OutOf(f, o, n)
    BY <1>2, <1>4 DEF Waits
  <2> HIDE DEF o
  <2>2. PICK k \in 1..n : f[o] = ReadEnd(k) /\ \A d \in Fds : f[d] # WriteEnd(k)
    BY <2>1 DEF OutOf
  <2>3. o \in Fds \ {0, 1} /\ o # a
    BY <1>6, <2>1, <2>2, Different DEF OutOf
  <2>4. g[o] = ReadEnd(k)
    BY <2>2, <2>3 DEF a
  <2>5. \A d \in Fds : g[d] # WriteEnd(k)
    <3>1. \A d \in Fds : g[d] = f[d] \/ g[d] = NULL
      OBVIOUS
    <3>2. WriteEnd(k) # NULL
      BY Different
    <3> QED
      BY <2>2, <3>1, <3>2
  <2> QED
    BY <2>3, <2>4, <2>5 DEF OutOf, o
<1> QED
  BY <1>1, <1>7, <1>8, <1>10, <1>11 DEF Serves, r

-----------------------------------------------------------------------------
(* Steps of one process                                                    *)

ConnStates == [phase : {"none", "waiting", "open"}, inq : Nat, sent : Nat, fin : BOOLEAN]

\* The descriptors a client waits for are numbers, or none.
LEMMA OutsType ==
  ASSUME NEW s \in Processes
  PROVE  /\ Outs(s) \subseteq Fds \cup {NoFd}
         /\ \A o : o \in Outs(s) <=> \E i \in DOMAIN s.clients :
                     s.clients[i].state = "Writing_Response" /\ o = s.clients[i].out
<1>1. s.clients \in Seq(Clients)
  BY DEF Processes
<1>2. \A i \in DOMAIN s.clients : s.clients[i].out \in Fds \cup {NoFd}
  <2> SUFFICES ASSUME NEW i \in DOMAIN s.clients PROVE s.clients[i].out \in Fds \cup {NoFd}
    OBVIOUS
  <2>1. s.clients[i] \in Clients
    BY <1>1
  <2> QED
    BY <2>1 DEF Clients
<1> QED
  BY <1>2 DEF Outs, Writing

\* A step of one process, that becomes s.  It takes hold of no writing end of a
\* pipe that is there, and waits for no other pipe.
Local(p, s) ==
  /\ proc' = [proc EXCEPT ![p] = s] /\ limit' = limit
  /\ pipes' \in Nat /\ pipes <= pipes' /\ conns' \in [Conns -> ConnStates]
  /\ proc[p].kind \in {"starting", "server", "program"} /\ s.kind # "starting"
  /\ proc[p].kind = "server" => s.kind \in {"server", "aborted"}
  /\ IsTable(s.fds, pipes')
  /\ s.kind = "server" => Serves(s.fds, s.clients, pipes')
  /\ \A k \in 1..pipes : WriteEnd(k) \in used(s.fds) => WriteEnd(k) \in used(proc[p].fds)
  /\ \A o \in Outs(s) \ {NoFd} : o \in Outs(proc[p]) /\ s.fds[o] = proc[p].fds[o]

\* That is what it has to show for the invariant.
LEMMA LocalStep ==
  ASSUME DInv, NEW p \in Procs, NEW s \in Processes, Local(p, s)
  PROVE  DInv'
<1> USE DEF Local
<1>1. TypeOK /\ proc \in [Procs -> Processes] /\ pipes \in Nat
  BY DEF DInv, TypeOK
<1>2. proc'[p] = s /\ \A r \in Procs \ {p} : proc'[r] = proc[r]
  BY <1>1
<1>3. TypeOK'
  BY <1>1 DEF TypeOK, ConnStates
<1>4. \A r \in Procs : IsTable(proc'[r].fds, pipes')
  <2> SUFFICES ASSUME NEW r \in Procs, r # p PROVE IsTable(proc'[r].fds, pipes')
    BY <1>2
  <2>1. IsTable(proc[r].fds, pipes) /\ proc'[r] = proc[r]
    BY <1>2 DEF DInv
  <2>2. Ends(1, pipes) \subseteq Ends(1, pipes')
    BY <1>1 DEF Ends
  <2> QED
    BY <2>1, <2>2 DEF IsTable
<1>5. \A r \in Procs : proc'[r].kind = "starting" =>
        r = Main /\ proc'[r].fds = [d \in Fds |-> IF d <= 3 THEN Std(d) ELSE NULL]
  BY <1>2 DEF DInv
<1>6. \A r \in Servers' : Serves(proc'[r].fds, proc'[r].clients, pipes')
  <2> SUFFICES ASSUME NEW r \in Procs, proc'[r].kind = "server", r # p
               PROVE  Serves(proc'[r].fds, proc'[r].clients, pipes')
    BY <1>2 DEF Servers
  <2>1. proc'[r] = proc[r] /\ r \in Servers
    BY <1>2 DEF Servers
  <2>2. Serves(proc[r].fds, proc[r].clients, pipes)
    BY <2>1 DEF DInv
  <2>3. Waits(proc[r].fds, proc[r].clients, pipes')
    <3>1. \A k \in 1..pipes : k \in 1..pipes'
      BY <1>1
    <3> QED
      BY <2>2, <3>1 DEF Serves, Waits, OutOf
  <2> QED
    BY <2>1, <2>2, <2>3 DEF Serves
<1>7. OneWriter'
  <2> SUFFICES ASSUME Alone', NEW o \in Outs(proc'[Main]) \ {NoFd}, NEW k \in 1..pipes',
                      proc'[Main].fds[o] = ReadEnd(k),
                      NEW a \in Holders(WriteEnd(k))', NEW b \in Holders(WriteEnd(k))'
               PROVE  a = b
    BY DEF OneWriter
  <2>1. Main \in Procs
    BY DescriptorsAssumption
  <2>2. Alone
    <3> SUFFICES ASSUME NEW r \in Procs
                 PROVE  proc[r].kind \in {"server", "aborted"} <=>
                          r = Main /\ proc[r].kind = "server"
      BY DEF Alone
    <3>1. proc'[r].kind \in {"server", "aborted"} <=> r = Main /\ proc'[r].kind = "server"
      BY DEF Alone
    <3> QED
      BY <1>2, <3>1
  <2>3. o \in Outs(proc[Main]) \ {NoFd} /\ proc[Main].fds[o] = ReadEnd(k)
    BY <1>2, <2>1
  <2>4. o \in Fds /\ proc[Main] \in Processes
    BY <1>1, <2>1, <2>3, OutsType
  <2>5. k \in 1..pipes
    <3>1. IsTable(proc[Main].fds, pipes)
      BY <2>1 DEF DInv
    <3>2. ReadEnd(k) \in {"read", "write"} \X (Nat \ {0})
      BY DEF ReadEnd
    <3>3. ReadEnd(k) \in Ends(1, pipes)
      BY <2>3, <2>4, <3>1, <3>2 DEF IsTable
    <3> QED
      BY <3>3 DEF ReadEnd, Ends
  <2>6. ASSUME NEW r \in Holders(WriteEnd(k))'
        PROVE  r \in Holders(WriteEnd(k))
    <3>1. /\ r \in Procs /\ proc'[r].kind \in {"starting", "server", "program"}
          /\ WriteEnd(k) \in used(proc'[r].fds)
      BY <2>6 DEF Holders, Live, used
    <3>2. WriteEnd(k) \in used(proc[r].fds) /\ proc[r].kind \in {"starting", "server", "program"}
      BY <1>2, <2>5, <3>1
    <3> QED
      BY <3>1, <3>2 DEF Holders, Live
  <2> QED
    BY <2>2, <2>3, <2>5, <2>6 DEF DInv, OneWriter
<1> QED
  BY <1>3, <1>4, <1>5, <1>6, <1>7 DEF DInv

LEMMA ServerFacts ==
  ASSUME DInv, NEW p \in Procs
  PROVE  /\ proc \in [Procs -> Processes] /\ proc[p] \in Processes
         /\ pipes \in Nat /\ limit \in Limits /\ conns \in [Conns -> ConnStates]
         /\ IsTable(proc[p].fds, pipes) /\ proc[p].fds \in Files
         /\ proc[p].clients \in Seq(Clients)
         /\ proc[p].kind = "server" => Serves(proc[p].fds, proc[p].clients, pipes)
<1>1. TypeOK
  BY DEF DInv
<1>2. proc[p] \in Processes
  BY <1>1 DEF TypeOK
<1> QED
  BY <1>1, <1>2 DEF TypeOK, DInv, Processes, Servers, ConnStates

\* Where it is in its loop does not matter to the invariant.
LEMMA SameTables ==
  ASSUME DInv, NEW p \in Procs, NEW s \in Processes, proc' = [proc EXCEPT ![p] = s],
         proc[p].kind = "server", s.kind = "server",
         s.fds = proc[p].fds, s.clients = proc[p].clients,
         limit' = limit, pipes' = pipes, conns' \in [Conns -> ConnStates]
  PROVE  DInv'
<1>1. /\ proc[p] \in Processes /\ pipes \in Nat /\ IsTable(proc[p].fds, pipes)
      /\ Serves(proc[p].fds, proc[p].clients, pipes)
  BY ServerFacts
<1>2. Outs(s) = Outs(proc[p])
  BY DEF Outs, Writing
<1>3. Local(p, s)
  BY <1>1, <1>2 DEF Local
<1> QED
  BY <1>3, LocalStep

\* A process that is over holds nothing.
LEMMA OverProcess ==
  ASSUME NEW k \in Kinds
  PROVE  /\ Process(k, NoFiles) \in Processes /\ Process(k, NoFiles).kind = k
         /\ IsTable(NoFiles, pipes) /\ used(NoFiles) = {} /\ Outs(Process(k, NoFiles)) = {}
<1>1. NoFiles \in Files /\ \A d \in Fds : NoFiles[d] = NULL
  BY DEF NoFiles, Files
<1>2. 0 \in Fds /\ <<>> \in Seq(Clients)
  BY FdsType
<1>3. Process(k, NoFiles) \in Processes
  BY <1>1, <1>2 DEF Process, Processes, Points
<1>4. IsTable(NoFiles, pipes)
  <2>1. \A d \in Fds : NoFiles[d] \notin {"read", "write"} \X (Nat \ {0})
    BY <1>1, Different DEF Objects
  <2> QED
    BY <1>1, <2>1 DEF IsTable
<1>5. used(NoFiles) = {}
  BY <1>1 DEF used
<1>6. Outs(Process(k, NoFiles)) = {}
  BY DEF Outs, Writing, Process
<1> QED
  BY <1>3, <1>4, <1>5, <1>6 DEF Process

LEMMA OverStep ==
  ASSUME DInv, NEW p \in Procs, NEW k \in {"ended", "aborted"}, proc' = Over(p, k),
         proc[p].kind \in {"starting", "server", "program"},
         proc[p].kind = "server" => k = "aborted",
         limit' = limit, pipes' = pipes, conns' = conns
  PROVE  DInv'
<1>1. /\ Process(k, NoFiles) \in Processes /\ Process(k, NoFiles).kind = k
      /\ Process(k, NoFiles).fds = NoFiles
      /\ IsTable(NoFiles, pipes) /\ used(NoFiles) = {} /\ Outs(Process(k, NoFiles)) = {}
  BY OverProcess DEF Kinds, Process
<1>2. proc' = [proc EXCEPT ![p] = Process(k, NoFiles)]
  BY DEF Over
<1>3. pipes \in Nat /\ conns \in [Conns -> ConnStates]
  BY ServerFacts
<1>4. Local(p, Process(k, NoFiles))
  BY <1>1, <1>2, <1>3 DEF Local
<1> QED
  BY <1>1, <1>4, LocalStep

\* The number of what is in a table.
LEMMA FdOfType ==
  ASSUME NEW f \in Files, NEW o, \E d \in Fds : f[d] = o
  PROVE  fdOf(f, o) \in Fds /\ f[fdOf(f, o)] = o
<1> DEFINE S == {d \in Fds : f[d] = o}
<1>1. S \in SUBSET Nat /\ S # {}
  BY FdsType
<1>2. Min(S) \in S
  BY <1>1, MinIsFirst
<1> QED
  BY <1>2 DEF fdOf

LEMMA StartStep ==
  ASSUME DInv, NEW p \in Procs, Start(p)
  PROVE  DInv'
<1>1. /\ proc[p].kind = "starting" /\ limit' = limit /\ conns' = conns /\ pipes' = pipes
      /\ \/ proc' = [proc EXCEPT ![p] =
                      [Process("server", alloc(proc[p].fds, Listen))
                         EXCEPT !.maxfd = fdOf(alloc(proc[p].fds, Listen), Listen)]]
         \/ proc' = Over(p, "ended")
  BY DEF Start
<1>2. CASE proc' = Over(p, "ended")
  BY <1>1, <1>2, OverStep
<1>3. CASE proc' = [proc EXCEPT ![p] =
                     [Process("server", alloc(proc[p].fds, Listen))
                        EXCEPT !.maxfd = fdOf(alloc(proc[p].fds, Listen), Listen)]]
  <2> DEFINE f == proc[p].fds
             g == alloc(f, Listen)
             s == [Process("server", g) EXCEPT !.maxfd = fdOf(g, Listen)]
             a == Min(free(f))
  <2>1. /\ proc \in [Procs -> Processes] /\ pipes \in Nat /\ limit \in Limits
        /\ conns \in [Conns -> ConnStates] /\ IsTable(f, pipes) /\ f \in Files
    BY ServerFacts
  <2>2. f = [d \in Fds |-> IF d <= 3 THEN Std(d) ELSE NULL]
    BY <1>1 DEF DInv
  <2> HIDE DEF f
  <2>3. free(f) # {}
    <3>1. 4 \in Fds /\ f[4] = NULL /\ 4 < limit
      BY <2>1, <2>2, FdsType
    <3> QED
      BY <3>1 DEF free
  <2>4. /\ a \in Fds /\ f[a] = NULL /\ g = [f EXCEPT ![a] = Listen]
        /\ g[a] = Listen /\ \A d \in Fds \ {a} : g[d] = f[d]
    BY <2>1, <2>3, Different, AllocSlot
  <2> HIDE DEF a, g
  <2>5. g \in Files
    BY <2>1, <2>4, Different DEF Files
  <2>6. fdOf(g, Listen) \in Fds
    BY <2>4, <2>5, FdOfType
  <2>7. /\ s \in Processes /\ s.kind = "server" /\ s.fds = g /\ s.clients = <<>>
    <3>1. Process("server", g) \in Processes
      BY <2>5, FdsType DEF Process, Processes, Kinds, Points
    <3> QED
      BY <2>6, <3>1 DEF Process, Processes
  <2> HIDE DEF s
  <2>8. \A d \in Fds : g[d] = Listen \/ g[d] = NULL \/ \E i \in 0..3 : g[d] = Std(i)
    <3>1. \A d \in Fds : d <= 3 => d \in 0..3
      BY FdsType
    <3> QED
      BY <2>2, <2>4, <3>1
  <2>9. \A d \in Fds : /\ g[d] \notin {"read", "write"} \X (Nat \ {0})
                       /\ \A c \in Conns : g[d] # Sock(c)
    BY <2>8, Different DEF Listen, Std, Sock, Objects
  <2>10. IsTable(g, pipes)
    BY <2>5, <2>9 DEF IsTable
  <2>11. Serves(g, <<>>, pipes)
    <3>1. \A d \in {0, 1} : d \in Fds /\ f[d] = Std(d) /\ d \in 0..3
      BY <2>2, FdsType
    <3>2. \A d \in {0, 1} : d # a
      BY <2>4, <3>1, Different
    <3>3. StdKept(g)
      BY <2>4, <3>1, <3>2 DEF StdKept, Std
    <3> QED
      BY <2>4, <2>9, <3>3 DEF Serves, Owns, Waits
  <2>12. \A k : WriteEnd(k) \notin used(g)
    BY <2>8, Different DEF used, WriteEnd, Listen, Std
  <2>13. Outs(s) = {}
    BY <2>7 DEF Outs, Writing
  <2>14. proc' = [proc EXCEPT ![p] = s]
    BY <1>3 DEF s, g, f
  <2>15. Local(p, s)
    BY <1>1, <2>1, <2>7, <2>10, <2>11, <2>12, <2>13, <2>14 DEF Local
  <2> QED
    BY <2>7, <2>15, LocalStep
<1> QED
  BY <1>1, <1>2, <1>3

-----------------------------------------------------------------------------
(* The loop                                                                *)

\* Numbers are integers, and maxfd is one.
LEMMA FdIsInt ==
  ASSUME NEW s \in Processes
  PROVE  /\ s.maxfd \in Nat /\ s.maxfd \in Fds /\ s.clients \in Seq(Clients)
         /\ \A i \in DOMAIN s.clients : s.clients[i].fd \in Int
<1>1. s.maxfd \in Fds /\ s.clients \in Seq(Clients)
  BY DEF Processes
<1>2. ASSUME NEW i \in DOMAIN s.clients
      PROVE  s.clients[i].fd \in Int
  <2>1. s.clients[i] \in Clients
    BY <1>1
  <2>2. \A d \in Fds \cup {NoFd} : d \in Int
    BY FdsType DEF NoFd
  <2> QED
    BY <2>1, <2>2 DEF Clients
<1> QED
  BY <1>1, <1>2, FdsType

\* select raises maxfd to the pipes the clients wait for, and above all the rest.
LEMMA RaisedReaches ==
  ASSUME NEW s \in Processes
  PROVE  /\ raised(s) \in Fds /\ s.maxfd <= raised(s)
         /\ \A o \in Outs(s) : o <= raised(s)
<1> DEFINE S == {s.maxfd} \cup Outs(s)
<1>1. s.maxfd \in Fds /\ s.maxfd \in Nat /\ Outs(s) \subseteq Fds \cup {NoFd}
  BY FdIsInt, OutsType
<1>2. Max(Limits) \in Int /\ \A d \in Fds : d \in Nat /\ d < Max(Limits)
  BY FdsType
<1>3. S \in SUBSET Int /\ S # {} /\ \A j \in S : j <= Max(Limits)
  BY <1>1, <1>2 DEF NoFd
<1> HIDE DEF S
<1>4. Max(S) \in S /\ \A j \in S : j <= Max(S)
  BY <1>2, <1>3, MaxIsLast
<1>5. s.maxfd \in S /\ Outs(s) \subseteq S
  BY DEF S
<1>6. Max(S) # NoFd
  BY <1>1, <1>3, <1>4, <1>5 DEF NoFd
<1>7. Max(S) \in Fds
  BY <1>1, <1>4, <1>6 DEF S
<1> QED
  BY <1>4, <1>5, <1>7 DEF raised, S

LEMMA SelectStep ==
  ASSUME DInv, NEW p \in Procs, Select(p)
  PROVE  DInv'
<1> DEFINE s == proc[p]
           r == {d \in watched(s) \ {NoFd} : d <= raised(s) /\ Readable(s.fds[d])}
           t == [s EXCEPT !.pc = "check_clients", !.it = 1, !.maxfd = raised(s), !.ready = r]
<1>1. /\ s.kind = "server" /\ proc' = [proc EXCEPT ![p] = t]
      /\ limit' = limit /\ conns' = conns /\ pipes' = pipes
  BY DEF Select
<1>2. /\ s \in Processes /\ conns \in [Conns -> ConnStates] /\ s.fds \in Files
      /\ Serves(s.fds, s.clients, pipes) /\ s.clients \in Seq(Clients)
  BY <1>1, ServerFacts
<1>3. Outs(s) \subseteq Fds \cup {NoFd}
  BY <1>2, OutsType
<1>4. raised(s) \in Fds
  BY <1>2, RaisedReaches
<1>5. Reading(s) \subseteq Fds \cup {NoFd}
  <2> SUFFICES ASSUME NEW i \in DOMAIN s.clients PROVE s.clients[i].fd \in Fds \cup {NoFd}
    BY DEF Reading
  <2>1. s.clients[i] \in Clients
    BY <1>2
  <2> QED
    BY <2>1 DEF Clients
<1>6. fdOf(s.fds, Listen) \in Fds
  BY <1>2, FdOfType DEF Serves
<1>7. r \in SUBSET Fds
  BY <1>3, <1>5, <1>6 DEF watched
<1> HIDE DEF r, s
<1>8. t \in Processes /\ t.kind = "server" /\ t.fds = s.fds /\ t.clients = s.clients
  <2> DEFINE m == raised(s)
  <2>1. s \in Processes /\ s.kind = "server" /\ m \in Fds /\ 1 \in Nat \ {0}
    BY <1>1, <1>2, <1>4
  <2> HIDE DEF m
  <2> DEFINE u == [s EXCEPT !.pc = "check_clients", !.it = 1, !.maxfd = m, !.ready = r]
  <2>2. u \in Processes
    BY <1>7, <2>1 DEF Processes, Points
  <2>3. u.kind = "server" /\ u.fds = s.fds /\ u.clients = s.clients
    BY <2>1 DEF Processes
  <2> QED
    BY <2>2, <2>3 DEF m
<1> QED
  BY <1>1, <1>2, <1>8, SameTables DEF s

\* A request that is read is one less to read.
LEMMA TakesRequest ==
  ASSUME DInv, NEW p \in Procs, TakeRequest(p)
  PROVE  /\ conns' \in [Conns -> ConnStates]
         /\ proc[p].kind = "server" /\ proc[p].it \in DOMAIN proc[p].clients
<1> DEFINE c == Client(p).conn
<1>1. conns' = [conns EXCEPT ![c].inq = @ - 1] /\ conns[c].inq > 0
  BY DEF TakeRequest
<1> HIDE DEF c
<1>2. conns \in [Conns -> ConnStates]
  BY ServerFacts
<1>3. ASSUME c \in Conns
      PROVE  conns' \in [Conns -> ConnStates]
  <2>1. conns[c] \in ConnStates
    BY <1>2, <1>3
  <2>2. [conns[c] EXCEPT !.inq = @ - 1] \in ConnStates
    BY <1>1, <2>1 DEF ConnStates
  <2> QED
    BY <1>1, <1>2, <2>2
<1>4. ASSUME c \notin Conns
      PROVE  conns' \in [Conns -> ConnStates]
  BY <1>1, <1>2, <1>4
<1>5. proc[p].kind = "server" /\ proc[p].it \in DOMAIN proc[p].clients
  <2>1. proc[p].kind = "server" /\ proc[p].it <= Len(proc[p].clients)
    BY DEF TakeRequest, Handling
  <2>2. proc[p].clients \in Seq(Clients) /\ proc[p].it \in Nat \ {0}
    BY ServerFacts DEF Processes
  <2> QED
    BY <2>1, <2>2
<1>6. conns' \in [Conns -> ConnStates]
  BY <1>3, <1>4
<1> QED
  BY <1>5, <1>6

\* The steps that only go on in the loop.
LEMMA PassingStep ==
  ASSUME DInv, NEW p \in Procs, EndOfPass(p) \/ Skip(p) \/ ServeFile(p)
  PROVE  DInv'
<1> DEFINE s == proc[p]
<1>1. s \in Processes /\ proc \in [Procs -> Processes] /\ conns \in [Conns -> ConnStates]
  BY ServerFacts
<1>2. limit' = limit /\ pipes' = pipes /\ s.kind = "server"
  BY DEF EndOfPass, Skip, ServeFile, TakeRequest, Handling
<1>3. conns' \in [Conns -> ConnStates]
  <2>1. CASE EndOfPass(p) \/ Skip(p)
    BY <1>1, <2>1 DEF EndOfPass, Skip
  <2>2. CASE ServeFile(p)
    BY <2>2, TakesRequest DEF ServeFile
  <2> QED
    BY <2>1, <2>2
<1>4. PICK t \in Processes : /\ proc' = [proc EXCEPT ![p] = t]
                             /\ t.kind = "server" /\ t.fds = s.fds /\ t.clients = s.clients
  <2>1. CASE EndOfPass(p)
    <3> DEFINE t == [s EXCEPT !.pc = "check_server"]
    <3>1. proc' = [proc EXCEPT ![p] = t]
      BY <1>1, <2>1 DEF EndOfPass
    <3>2. t \in Processes /\ t.kind = "server" /\ t.fds = s.fds /\ t.clients = s.clients
      BY <1>1, <1>2 DEF Processes, Points
    <3> QED
      BY <3>1, <3>2
  <2>2. CASE Skip(p) \/ ServeFile(p)
    <3> DEFINE t == [s EXCEPT !.it = @ + 1]
    <3>1. proc' = [proc EXCEPT ![p] = t]
      BY <1>1, <2>2 DEF Skip, ServeFile
    <3>2. s.it + 1 \in Nat \ {0}
      BY <1>1 DEF Processes
    <3>3. t \in Processes /\ t.kind = "server" /\ t.fds = s.fds /\ t.clients = s.clients
      BY <1>1, <1>2, <3>2 DEF Processes
    <3> QED
      BY <3>1, <3>3
  <2> QED
    BY <2>1, <2>2
<1> QED
  BY <1>2, <1>3, <1>4, SameTables

LEMMA EndStep ==
  ASSUME DInv, NEW p \in Procs, SelectAborts(p) \/ ProgramEnds(p)
  PROVE  DInv'
BY OverStep DEF SelectAborts, ProgramEnds

\* Peers change their connections only.
LEMMA PeerStep ==
  ASSUME DInv, NEW c \in Conns, PeerConnect(c) \/ PeerSend(c) \/ PeerClose(c)
  PROVE  DInv'
<1>1. /\ limit' = limit /\ proc' = proc /\ pipes' = pipes
      /\ conns \in [Conns -> ConnStates] /\ conns[c] \in ConnStates
  BY DEF PeerConnect, PeerSend, PeerClose, DInv, TypeOK, ConnStates
<1>2. conns' \in [Conns -> ConnStates]
  <2>1. CASE PeerConnect(c)
    <3>1. conns' = [conns EXCEPT ![c] = [@ EXCEPT !.phase = "waiting"]]
      BY <2>1 DEF PeerConnect
    <3>2. [conns[c] EXCEPT !.phase = "waiting"] \in ConnStates
      BY <1>1 DEF ConnStates
    <3> QED
      BY <1>1, <3>1, <3>2
  <2>2. CASE PeerSend(c)
    <3> DEFINE x == [conns[c] EXCEPT !.inq = conns[c].inq + 1, !.sent = conns[c].sent + 1]
    <3>1. conns' = [conns EXCEPT ![c] = x]
      BY <1>1, <2>2 DEF PeerSend, ConnStates
    <3>2. x \in ConnStates
      <4>1. conns[c].inq + 1 \in Nat /\ conns[c].sent + 1 \in Nat
        BY <1>1 DEF ConnStates
      <4> QED
        BY <1>1, <4>1 DEF ConnStates
    <3> HIDE DEF x
    <3> QED
      BY <1>1, <3>1, <3>2
  <2>3. CASE PeerClose(c)
    <3>1. conns' = [conns EXCEPT ![c] = [@ EXCEPT !.fin = TRUE]]
      BY <2>3 DEF PeerClose
    <3>2. [conns[c] EXCEPT !.fin = TRUE] \in ConnStates
      BY <1>1 DEF ConnStates
    <3> QED
      BY <1>1, <3>1, <3>2
  <2> QED
    BY <2>1, <2>2, <2>3
<1>3. TypeOK'
  BY <1>1, <1>2 DEF DInv, TypeOK, ConnStates
<1>4. OneWriter'
  BY <1>1 DEF DInv, OneWriter, Alone, Outs, Writing, Holders, Live, used
<1> QED
  BY <1>1, <1>3, <1>4 DEF DInv, Servers

LEMMA EndCGIStep ==
  ASSUME DInv, NEW p \in Procs, EndCGI(p)
  PROVE  DInv'
<1> DEFINE s == proc[p]
           q == s.clients
           i == s.it
           c == [q[i] EXCEPT !.state = "Ready_ForRead", !.out = NoFd]
           r == [q EXCEPT ![i] = c]
           t == [s EXCEPT !.clients = r, !.it = @ + 1]
<1>1. /\ s.kind = "server" /\ i <= Len(q)
      /\ limit' = limit /\ conns' = conns /\ pipes' = pipes
  BY DEF EndCGI, Handling
<1>2. /\ proc \in [Procs -> Processes] /\ s \in Processes /\ pipes \in Nat
      /\ conns \in [Conns -> ConnStates] /\ IsTable(s.fds, pipes) /\ s.fds \in Files
      /\ q \in Seq(Clients) /\ Serves(s.fds, q, pipes)
  BY <1>1, ServerFacts
<1>3. proc' = [proc EXCEPT ![p] = t]
  BY <1>2 DEF EndCGI
<1>4. i \in DOMAIN q /\ i \in Nat \ {0} /\ i + 1 \in Nat \ {0}
  BY <1>1, <1>2 DEF Processes
<1>5. q[i] \in Clients
  BY <1>2, <1>4
<1>6. /\ c \in Clients /\ c.conn = q[i].conn /\ c.fd = q[i].fd
      /\ c.state = "Ready_ForRead"
  BY <1>5 DEF Clients, ClientStates
<1> HIDE DEF c
<1>7. r \in Seq(Clients) /\ Serves(s.fds, r, pipes)
  BY <1>2, <1>4, <1>6, ClientUpdated
<1>8. /\ t \in Processes /\ t.kind = "server" /\ t.fds = s.fds /\ t.clients = r
  BY <1>1, <1>2, <1>4, <1>7 DEF Processes
<1> HIDE DEF t, r
<1>9. \A o \in Outs(t) : o \in Outs(s)
  <2> SUFFICES ASSUME NEW o \in Outs(t) PROVE o \in Outs(s)
    OBVIOUS
  <2>1. PICK j \in DOMAIN r : r[j].state = "Writing_Response" /\ o = r[j].out
    BY <1>8, OutsType, ZenonT(60)
  <2>2. j \in DOMAIN q /\ j # i
    BY <1>2, <1>4, <1>6, <2>1 DEF r
  <2>3. r[j] = q[j]
    BY <1>2, <2>2 DEF r
  <2> QED
    BY <1>2, <2>1, <2>2, <2>3, OutsType
<1>10. Local(p, t)
  BY <1>1, <1>2, <1>3, <1>7, <1>8, <1>9 DEF Local
<1> QED
  BY <1>8, <1>10, LocalStep

LEMMA CloseClientStep ==
  ASSUME DInv, NEW p \in Procs, CloseClient(p)
  PROVE  DInv'
<1> DEFINE s == proc[p]
           f == s.fds
           q == s.clients
           i == s.it
           a == q[i].fd
           g == [f EXCEPT ![a] = NULL]
           r == erased(q, i)
           t == [s EXCEPT !.fds = g, !.ready = @ \ {a}, !.clients = r]
<1>1. /\ s.kind = "server" /\ i <= Len(q) /\ a \in s.ready
      /\ limit' = limit /\ conns' = conns /\ pipes' = pipes
  BY DEF CloseClient, Handling, ReadyToRead, Client
<1>2. /\ proc \in [Procs -> Processes] /\ s \in Processes /\ pipes \in Nat
      /\ conns \in [Conns -> ConnStates] /\ IsTable(f, pipes) /\ f \in Files
      /\ q \in Seq(Clients) /\ Serves(f, q, pipes)
  BY <1>1, ServerFacts
<1>3. i \in DOMAIN q /\ a \in Fds
  BY <1>1, <1>2 DEF Processes
<1>4. g \in Files /\ g[a] = NULL /\ \A d \in Fds \ {a} : g[d] = f[d]
  BY <1>2, <1>3 DEF Files
<1>5. deleteClient(close(f, a), q[i]) = g
  <2>1. close(f, a) = g /\ close(g, a) = g
    BY <1>2, <1>3, <1>4 DEF close, Files
  <2> QED
    BY <2>1 DEF deleteClient, cleanCGI, NoFd
<1>6. proc' = [proc EXCEPT ![p] = t]
  <2>1. proc' = [proc EXCEPT ![p] =
                   [s EXCEPT !.fds = deleteClient(close(f, a), q[i]),
                             !.ready = @ \ {a},
                             !.clients = erased(q, i)]]
    BY <1>2 DEF CloseClient, Client, erased, Processes
  <2> QED
    BY <1>5, <2>1, SMTT(40)
<1> HIDE DEF g
<1>7. r \in Seq(Clients) /\ Serves(g, r, pipes)
  BY <1>2, <1>3, <1>4, ClientErased
<1>8. IsTable(g, pipes)
  <2>1. \A d \in Fds : g[d] = f[d] \/ g[d] \notin Objects
    BY <1>4, Different
  <2>2. {"read", "write"} \X (Nat \ {0}) \subseteq Objects
    BY DEF Objects
  <2> QED
    BY <1>2, <1>4, <2>1, <2>2 DEF IsTable
<1>9. \A k \in 1..pipes : WriteEnd(k) \in used(g) => WriteEnd(k) \in used(f)
  <2>1. \A d \in Fds : g[d] = f[d] \/ g[d] = NULL
    BY <1>4
  <2> QED
    BY <2>1 DEF used
<1>10. t \in Processes /\ t.kind = "server" /\ t.fds = g /\ t.clients = r
  BY <1>1, <1>2, <1>4, <1>7 DEF Processes
<1> HIDE DEF t, r
<1>11. \A o \in Outs(t) \ {NoFd} : o \in Outs(s) /\ g[o] = f[o]
  <2> SUFFICES ASSUME NEW o \in Outs(t) \ {NoFd} PROVE o \in Outs(s) /\ g[o] = f[o]
    OBVIOUS
  <2>1. PICK j \in DOMAIN r : r[j].state = "Writing_Response" /\ o = r[j].out
    <3>1. PICK j \in DOMAIN t.clients :
            t.clients[j].state = "Writing_Response" /\ o = t.clients[j].out
      BY <1>10, OutsType
    <3> QED
      BY <1>10, <3>1
  <2>2. PICK k \in DOMAIN q : r[j] = q[k]
    <3>1. /\ r \in Seq(Clients) /\ Len(r) = Len(q) - 1
          /\ \A l \in 1..(Len(q) - 1) : r[l] = IF l < i THEN q[l] ELSE q[l + 1]
      BY <1>2, <1>3, ErasedType DEF r
    <3>2. Len(q) \in Nat /\ i \in 1..Len(q) /\ DOMAIN q = 1..Len(q)
      BY <1>2, <1>3
    <3>3. j \in 1..(Len(q) - 1)
      BY <2>1, <3>1, <3>2
    <3>4. j \in 1..Len(q) /\ j + 1 \in 1..Len(q)
      BY <3>2, <3>3
    <3> QED
      BY <3>1, <3>2, <3>3, <3>4
  <2>3. o \in Outs(s)
    BY <1>2, <2>1, <2>2, OutsType
  <2>4. OutOf(f, o, pipes)
    BY <1>2, <2>1, <2>2 DEF Serves, Waits
  <2>5. o # a
    <3>1. PICK l \in 1..pipes : f[o] = ReadEnd(l)
      BY <2>4 DEF OutOf
    <3>2. q[i] \in Clients /\ a # NoFd
      BY <1>2, <1>3, FdsType
    <3>3. f[a] = Sock(q[i].conn) /\ q[i].conn \in Conns
      BY <1>2, <1>3, <3>2 DEF Serves, Owns, Clients
    <3> QED
      BY <3>1, <3>3, Different
  <2> QED
    BY <1>4, <2>3, <2>4, <2>5 DEF OutOf
<1>12. Local(p, t)
  BY <1>1, <1>2, <1>6, <1>7, <1>8, <1>9, <1>10, <1>11 DEF Local
<1> QED
  BY <1>10, <1>12, LocalStep

\* What a server waits for is in its table, and no connection.
LEMMA OutsServed ==
  ASSUME NEW s \in Processes, NEW n, Serves(s.fds, s.clients, n), NEW o \in Outs(s) \ {NoFd}
  PROVE  /\ OutOf(s.fds, o, n) /\ o \in Fds /\ s.fds[o] # NULL
         /\ \A c \in Conns : s.fds[o] # Sock(c)
<1>1. PICK i \in DOMAIN s.clients :
        s.clients[i].state = "Writing_Response" /\ o = s.clients[i].out
  BY OutsType, Zenon
<1>2. OutOf(s.fds, o, n)
  BY <1>1 DEF Serves, Waits
<1>3. PICK k \in 1..n : s.fds[o] = ReadEnd(k)
  BY <1>2 DEF OutOf
<1>4. s.fds[o] # NULL /\ \A c \in Conns : s.fds[o] # Sock(c)
  BY <1>3, DescriptorsAssumption DEF ReadEnd, Sock, Objects
<1> QED
  BY <1>2, <1>4 DEF OutOf

LEMMA OutsAppended ==
  ASSUME NEW s \in Processes, NEW t \in Processes, NEW e \in Clients,
         e.state = "Ready_ForRead", t.clients = Append(s.clients, e)
  PROVE  Outs(t) \subseteq Outs(s)
<1> SUFFICES ASSUME NEW o \in Outs(t) PROVE o \in Outs(s)
  OBVIOUS
<1>1. s.clients \in Seq(Clients)
  BY DEF Processes
<1>2. PICK j \in DOMAIN t.clients :
        t.clients[j].state = "Writing_Response" /\ o = t.clients[j].out
  BY OutsType, ZenonT(60)
<1>3. j \in DOMAIN s.clients /\ t.clients[j] = s.clients[j]
  BY <1>1, <1>2
<1> QED
  BY <1>2, <1>3, OutsType

LEMMA AcceptStep ==
  ASSUME DInv, NEW p \in Procs, proc[p].kind = "server", Accept(p),
         limit' = limit, pipes' = pipes
  PROVE  DInv'
<1> DEFINE s == proc[p]
           f == s.fds
           q == s.clients
           a == Min(free(f))
<1>1. PICK c \in Conns :
        /\ conns' = [conns EXCEPT ![c].phase = "open"]
        /\ proc' = [proc EXCEPT ![p] = [s EXCEPT
                      !.pc = "Select", !.fds = alloc(f, Sock(c)),
                      !.maxfd = IF a > s.maxfd THEN a ELSE s.maxfd,
                      !.clients = Append(q, NewClient(c, a))]]
  <2>1. s \in Processes
    BY ServerFacts
  <2> QED
    BY <2>1 DEF Accept, Processes
<1> DEFINE g == alloc(f, Sock(c))
           e == NewClient(c, a)
           r == Append(q, e)
           m == IF a > s.maxfd THEN a ELSE s.maxfd
           t == [s EXCEPT !.pc = "Select", !.fds = g, !.maxfd = m, !.clients = r]
<1>2. /\ proc \in [Procs -> Processes] /\ s \in Processes /\ pipes \in Nat
      /\ conns \in [Conns -> ConnStates] /\ IsTable(f, pipes) /\ f \in Files
      /\ q \in Seq(Clients) /\ Serves(f, q, pipes)
  BY ServerFacts
<1>3. Sock(c) \in Objects /\ Sock(c) # NULL /\ free(f) # {}
  BY Different DEF Accept
<1>4. a \in Fds /\ f[a] = NULL /\ g = [f EXCEPT ![a] = Sock(c)]
      /\ g[a] = Sock(c) /\ \A d \in Fds \ {a} : g[d] = f[d]
  BY <1>2, <1>3, AllocSlot
<1>5. proc' = [proc EXCEPT ![p] = t]
  BY <1>1
<1> HIDE DEF a, g
<1>6. g \in Files
  BY <1>2, <1>3, <1>4 DEF Files
<1>7. r \in Seq(Clients) /\ Serves(g, r, pipes)
  BY <1>2, <1>4, <1>6, ClientAdded, ZenonT(60)
<1>8. e \in Clients /\ e.state = "Ready_ForRead"
  BY <1>4 DEF NewClient, Clients, ClientStates
<1> HIDE DEF e, r
<1>9. m \in Fds
  BY <1>2, <1>4 DEF Processes
<1> HIDE DEF m
<1>10. t \in Processes /\ t.kind = "server" /\ t.fds = g /\ t.clients = r
  BY <1>2, <1>6, <1>7, <1>9 DEF Processes, Points
<1> HIDE DEF t
<1>11. IsTable(g, pipes)
  <2>1. Sock(c) \notin {"read", "write"} \X (Nat \ {0})
    BY DEF Sock
  <2> QED
    BY <1>2, <1>4, <1>6, <2>1 DEF IsTable
<1>12. \A k \in 1..pipes : WriteEnd(k) \in used(g) => WriteEnd(k) \in used(f)
  <2>1. \A k : WriteEnd(k) # Sock(c)
    BY DEF WriteEnd, Sock
  <2> QED
    BY <1>4, <2>1 DEF used
<1>13. \A o \in Outs(t) \ {NoFd} : o \in Outs(s) /\ g[o] = f[o]
  <2> SUFFICES ASSUME NEW o \in Outs(t) \ {NoFd} PROVE o \in Outs(s) /\ g[o] = f[o]
    OBVIOUS
  <2>1. o \in Outs(s) \ {NoFd}
    BY <1>2, <1>8, <1>10, OutsAppended DEF r
  <2>2. o \in Fds /\ f[o] # NULL
    BY <1>2, <2>1, OutsServed
  <2> QED
    BY <1>4, <2>1, <2>2
<1>14. conns' \in [Conns -> ConnStates]
  <2>1. conns' = [conns EXCEPT ![c] = [conns[c] EXCEPT !.phase = "open"]]
    BY <1>1
  <2>2. [conns[c] EXCEPT !.phase = "open"] \in ConnStates
    BY <1>2 DEF ConnStates
  <2> QED
    BY <1>2, <2>1, <2>2
<1>15. Local(p, t)
  BY <1>2, <1>5, <1>7, <1>10, <1>11, <1>12, <1>13, <1>14 DEF Local
<1> QED
  BY <1>10, <1>15, LocalStep

LEMMA FailAcceptStep ==
  ASSUME DInv, NEW p \in Procs, proc[p].kind = "server", FailAccept(p),
         limit' = limit, pipes' = pipes
  PROVE  DInv'
<1> DEFINE s == proc[p]
           q == s.clients
           e == NewClient(NULL, NoFd)
           r == Append(q, e)
<1>1. /\ proc \in [Procs -> Processes] /\ s \in Processes /\ pipes \in Nat
      /\ conns \in [Conns -> ConnStates] /\ IsTable(s.fds, pipes)
      /\ q \in Seq(Clients) /\ Serves(s.fds, q, pipes)
  BY ServerFacts
<1>2. conns' = conns
  BY DEF FailAccept
<1>3. CASE proc' = Over(p, "aborted")
  BY <1>2, <1>3, OverStep
<1>4. CASE proc' = [proc EXCEPT ![p] = [s EXCEPT !.pc = "Select"]]
  <2>1. /\ [s EXCEPT !.pc = "Select"] \in Processes
        /\ [s EXCEPT !.pc = "Select"].kind = "server"
        /\ [s EXCEPT !.pc = "Select"].fds = s.fds
        /\ [s EXCEPT !.pc = "Select"].clients = q
    BY <1>1 DEF Processes, Points
  <2> QED
    BY <1>1, <1>2, <1>4, <2>1, SameTables
<1>5. CASE proc' = [proc EXCEPT ![p] = [s EXCEPT !.pc = "Select", !.clients = r]]
  <2> DEFINE t == [s EXCEPT !.pc = "Select", !.clients = r]
  <2>1. r \in Seq(Clients) /\ Serves(s.fds, r, pipes)
    <3>1. /\ pipes \in Nat /\ s.fds \in Files
          /\ q \in Seq(Clients) /\ Serves(s.fds, q, pipes)
      BY <1>1, ServerFacts
    <3> QED
      BY <3>1, ClientWithoutFd
  <2>2. e \in Clients /\ e.state = "Ready_ForRead"
    BY DEF NewClient, Clients, ClientStates
  <2> HIDE DEF e, r
  <2>3. t \in Processes /\ t.kind = "server" /\ t.fds = s.fds /\ t.clients = r
    BY <1>1, <2>1 DEF Processes, Points
  <2>4. proc' = [proc EXCEPT ![p] = t]
    BY <1>5
  <2> HIDE DEF t
  <2>5. Outs(t) \subseteq Outs(s)
    BY <1>1, <2>2, <2>3, OutsAppended DEF r
  <2>6. Local(p, t)
    BY <1>1, <1>2, <2>1, <2>3, <2>4, <2>5 DEF Local
  <2> QED
    BY <2>3, <2>6, LocalStep
<1>6. \/ proc' = Over(p, "aborted")
      \/ proc' = [proc EXCEPT ![p] = [s EXCEPT !.pc = "Select"]]
      \/ proc' = [proc EXCEPT ![p] = [s EXCEPT !.pc = "Select", !.clients = r]]
  <2>1. CASE \E i \in DOMAIN q : q[i].fd = NoFd
    <3>1. [s EXCEPT !.pc = "Select", !.clients = q] = [s EXCEPT !.pc = "Select"]
      BY <1>1 DEF Processes
    <3> QED
      BY <1>1, <2>1, <3>1 DEF FailAccept, Processes
  <2>2. CASE ~\E i \in DOMAIN q : q[i].fd = NoFd
    BY <1>1, <2>2 DEF FailAccept, Processes
  <2> QED
    BY <2>1, <2>2
<1> QED
  BY <1>3, <1>4, <1>5, <1>6

LEMMA CheckServerStep ==
  ASSUME DInv, NEW p \in Procs, CheckServer(p)
  PROVE  DInv'
<1>1. /\ proc[p].kind = "server" /\ limit' = limit /\ pipes' = pipes
      /\ \/ Accept(p)
         \/ FailAccept(p)
         \/ proc' = [proc EXCEPT ![p].pc = "Select"] /\ conns' = conns
  BY DEF CheckServer
<1>2. CASE proc' = [proc EXCEPT ![p].pc = "Select"] /\ conns' = conns
  <2> DEFINE t == [proc[p] EXCEPT !.pc = "Select"]
  <2>1. /\ proc \in [Procs -> Processes] /\ proc[p] \in Processes
        /\ conns \in [Conns -> ConnStates]
    BY ServerFacts
  <2>2. proc' = [proc EXCEPT ![p] = t]
    BY <1>2, <2>1
  <2>3. /\ t \in Processes /\ t.kind = "server"
        /\ t.fds = proc[p].fds /\ t.clients = proc[p].clients
    BY <1>1, <2>1 DEF Processes, Points
  <2> HIDE DEF t
  <2> QED
    BY <1>1, <1>2, <2>1, <2>2, <2>3, SameTables
<1> QED
  BY <1>1, <1>2, AcceptStep, FailAcceptStep

-----------------------------------------------------------------------------
(* buildCGIResponse                                                        *)

\* A server that builds a CGI response: its table has grown, and the client
\* waits for a pipe it can wait for, or for none.
LEMMA WaitingServer ==
  ASSUME DInv, NEW p \in Procs, proc[p].kind = "server",
         proc[p].it \in DOMAIN proc[p].clients,
         NEW m \in Nat, pipes <= m, NEW g \in Files, Grown(proc[p].fds, g, pipes, m),
         NEW d \in Fds \cup {NoFd}, d # NoFd => OutOf(g, d, m)
  PROVE  /\ waiting(proc[p], g, d) \in Processes
         /\ waiting(proc[p], g, d).kind = "server" /\ waiting(proc[p], g, d).fds = g
         /\ IsTable(g, m) /\ Serves(g, waiting(proc[p], g, d).clients, m)
         /\ \A k \in 1..pipes : WriteEnd(k) \in used(g) => WriteEnd(k) \in used(proc[p].fds)
         /\ \A o \in Outs(waiting(proc[p], g, d)) \ {NoFd} :
              o = d \/ (o \in Outs(proc[p]) /\ g[o] = proc[p].fds[o])
<1> DEFINE s == proc[p]
           f == s.fds
           q == s.clients
           i == s.it
           c == [q[i] EXCEPT !.state = "Writing_Response", !.out = d]
           r == [q EXCEPT ![i] = c]
           t == [s EXCEPT !.fds = g, !.it = @ + 1, !.clients = r]
<1>1. /\ s \in Processes /\ pipes \in Nat /\ IsTable(f, pipes) /\ f \in Files
      /\ q \in Seq(Clients) /\ Serves(f, q, pipes)
  BY ServerFacts
<1>2. waiting(s, g, d) = t
  BY <1>1 DEF waiting, Processes
<1>3. IsTable(g, m)
  BY <1>1, GrownIsTable
<1>4. Serves(g, q, m)
  BY <1>1, GrownServes
<1>5. q[i] \in Clients
  BY <1>1
<1>6. /\ c \in Clients /\ c.conn = q[i].conn /\ c.fd = q[i].fd
      /\ c.state = "Writing_Response" /\ c.out = d
  BY <1>5 DEF Clients, ClientStates
<1> HIDE DEF c
<1>7. r \in Seq(Clients) /\ Serves(g, r, m)
  BY <1>1, <1>4, <1>6, ClientUpdated
<1>8. r[i] = c /\ DOMAIN r = DOMAIN q /\ \A j \in DOMAIN q \ {i} : r[j] = q[j]
  BY <1>1
<1> HIDE DEF r
<1>9. t \in Processes /\ t.kind = "server" /\ t.fds = g /\ t.clients = r
  <2>1. i + 1 \in Nat \ {0}
    BY <1>1 DEF Processes
  <2> QED
    BY <1>1, <1>7, <2>1 DEF Processes
<1> HIDE DEF t
<1>10. \A k \in 1..pipes : WriteEnd(k) \in used(g) => WriteEnd(k) \in used(f)
  <2> SUFFICES ASSUME NEW k \in 1..pipes, NEW e \in Fds, g[e] = WriteEnd(k)
               PROVE  f[e] = WriteEnd(k)
    BY Different DEF used
  <2> QED
    BY <1>1, GrownAddsEnds
<1>11. \A o \in Outs(t) \ {NoFd} : o = d \/ (o \in Outs(s) /\ g[o] = f[o])
  <2> SUFFICES ASSUME NEW o \in Outs(t) \ {NoFd}, o # d
               PROVE  o \in Outs(s) /\ g[o] = f[o]
    OBVIOUS
  <2>1. PICK j \in DOMAIN t.clients :
          t.clients[j].state = "Writing_Response" /\ o = t.clients[j].out
    BY <1>9, OutsType
  <2>2. j \in DOMAIN q /\ j # i /\ t.clients[j] = q[j]
    BY <1>6, <1>8, <1>9, <2>1
  <2>3. o \in Outs(s)
    BY <1>1, <2>1, <2>2, OutsType
  <2>4. OutOf(f, o, pipes)
    BY <1>1, <2>3, OutsServed
  <2>5. StdKept(f)
    BY <1>1 DEF Serves
  <2> QED
    BY <1>1, <2>3, <2>4, <2>5, GrownOutOf
<1> QED
  BY <1>2, <1>3, <1>7, <1>9, <1>10, <1>11

LEMMA OnePipe ==
  ASSUME NEW f \in Files, NEW n \in Nat, Cardinality(free(f)) >= 2
  PROVE  makePipe(f, n + 1) \in Files /\ Grown(f, makePipe(f, n + 1), n, n + 1)
<1>1. n + 1 \in Nat \ {0}
  OBVIOUS
<1> DEFINE g == makePipe(f, n + 1)
<1> HIDE DEF g
<1>2. PICK a, b \in Fds :
        /\ a # b /\ f[a] = NULL /\ f[b] = NULL
        /\ g \in Files
        /\ g[a] = ReadEnd(n + 1) /\ g[b] = WriteEnd(n + 1)
        /\ \A d \in Fds \ {a, b} : g[d] = f[d]
        /\ Cardinality(free(g)) = Cardinality(free(f)) - 2
  BY <1>1, PipeSlots, Zenon DEF g
<1>3. ReadEnd(n + 1) \in Ends(n + 1, n + 1) /\ WriteEnd(n + 1) \in Ends(n + 1, n + 1)
  BY DEF ReadEnd, WriteEnd, Ends
<1> QED
  BY <1>2, <1>3 DEF Grown, g

\* stdin_pipe and stdout_pipe go to four numbers that were free.
LEMMA TwoPipes ==
  ASSUME NEW f \in Files, NEW n \in Nat, Cardinality(free(f)) >= 4
  PROVE  LET g == makePipe(makePipe(f, n + 1), n + 2)
         IN /\ g \in Files
            /\ \E a, b, c, d \in Fds :
                 /\ f[a] = NULL /\ f[b] = NULL /\ f[c] = NULL /\ f[d] = NULL
                 /\ g[a] = ReadEnd(n + 1) /\ g[b] = WriteEnd(n + 1)
                 /\ g[c] = ReadEnd(n + 2) /\ g[d] = WriteEnd(n + 2)
                 /\ \A x \in Fds \ {a, b, c, d} : g[x] = f[x]
<1> DEFINE h == makePipe(f, n + 1)
           g == makePipe(h, n + 2)
<1> HIDE DEF h, g
<1>1. Cardinality(free(f)) \in Nat /\ Cardinality(free(f)) >= 2
  BY FreeIsFinite
<1>2. n + 1 \in Nat \ {0} /\ n + 2 \in Nat \ {0}
  OBVIOUS
<1>3. PICK a, b \in Fds :
        /\ a # b /\ f[a] = NULL /\ f[b] = NULL
        /\ h \in Files
        /\ h[a] = ReadEnd(n + 1) /\ h[b] = WriteEnd(n + 1)
        /\ \A x \in Fds \ {a, b} : h[x] = f[x]
        /\ Cardinality(free(h)) = Cardinality(free(f)) - 2
  BY <1>1, <1>2, PipeSlots, Zenon DEF h
<1>4. Cardinality(free(h)) >= 2
  BY <1>1, <1>3
<1>5. PICK c, d \in Fds :
        /\ c # d /\ h[c] = NULL /\ h[d] = NULL
        /\ g \in Files
        /\ g[c] = ReadEnd(n + 2) /\ g[d] = WriteEnd(n + 2)
        /\ \A x \in Fds \ {c, d} : g[x] = h[x]
        /\ Cardinality(free(g)) = Cardinality(free(h)) - 2
  BY <1>2, <1>3, <1>4, PipeSlots, Zenon DEF g
<1>6. ReadEnd(n + 1) # NULL /\ WriteEnd(n + 1) # NULL
  BY <1>2, Different
<1>7. {a, b} \cap {c, d} = {}
  BY <1>3, <1>5, <1>6
<1>8. /\ f[c] = NULL /\ f[d] = NULL
      /\ g[a] = ReadEnd(n + 1) /\ g[b] = WriteEnd(n + 1)
      /\ \A x \in Fds \ {a, b, c, d} : g[x] = f[x]
  BY <1>3, <1>5, <1>7
<1> QED
  BY <1>3, <1>5, <1>8 DEF g, h

\* What failing leaves behind: a table that has grown, and no pipe to wait for.
LEMMA FailCGIGrows ==
  ASSUME DInv, NEW p \in Procs, FailCGI(p)
  PROVE  \E m \in Nat, g \in Files :
           /\ pipes <= m /\ Grown(proc[p].fds, g, pipes, m)
           /\ proc' = [proc EXCEPT ![p] = waiting(proc[p], g, NoFd)] /\ pipes' = m
<1> DEFINE s == proc[p]
           f == s.fds
           one == makePipe(f, pipes + 1)
           two == makePipe(one, pipes + 2)
<1>0. s \in Processes /\ pipes \in Nat /\ f \in Files /\ Cardinality(free(f)) \in Nat
  BY ServerFacts, FreeIsFinite
<1>1. CASE /\ proc' = [proc EXCEPT ![p] = waiting(s, f, NoFd)]
           /\ pipes' = pipes
  <2>1. Grown(f, f, pipes, pipes) /\ pipes <= pipes
    BY <1>0 DEF Grown
  <2> QED
    BY <1>0, <1>1, <2>1
<1>2. CASE /\ Cardinality(free(f)) \in 2..3
           /\ proc' = [proc EXCEPT ![p] = waiting(s, one, NoFd)]
           /\ pipes' = pipes + 1
  <2>1. one \in Files /\ Grown(f, one, pipes, pipes + 1)
    BY <1>0, <1>2, OnePipe
  <2>2. pipes + 1 \in Nat /\ pipes <= pipes + 1
    BY <1>0
  <2> QED
    BY <1>2, <2>1, <2>2
<1>3. CASE /\ Cardinality(free(f)) >= 4
           /\ proc' = [proc EXCEPT ![p] = waiting(s, two, NoFd)]
           /\ pipes' = pipes + 2
  <2>1. two \in Files /\
        \E a, b, c, d \in Fds :
          /\ f[a] = NULL /\ f[b] = NULL /\ f[c] = NULL /\ f[d] = NULL
          /\ two[a] = ReadEnd(pipes + 1) /\ two[b] = WriteEnd(pipes + 1)
          /\ two[c] = ReadEnd(pipes + 2) /\ two[d] = WriteEnd(pipes + 2)
          /\ \A x \in Fds \ {a, b, c, d} : two[x] = f[x]
    BY <1>0, <1>3, TwoPipes
  <2> HIDE DEF two
  <2>2. \A k \in {pipes + 1, pipes + 2} :
          ReadEnd(k) \in Ends(pipes + 1, pipes + 2) /\ WriteEnd(k) \in Ends(pipes + 1, pipes + 2)
    BY <1>0 DEF ReadEnd, WriteEnd, Ends
  <2>3. Grown(f, two, pipes, pipes + 2)
    BY <2>1, <2>2 DEF Grown
  <2>4. pipes + 2 \in Nat /\ pipes <= pipes + 2
    BY <1>0
  <2> QED
    BY <1>3, <2>1, <2>3, <2>4
<1> QED
  BY <1>1, <1>2, <1>3 DEF FailCGI

LEMMA FailCGIStep ==
  ASSUME DInv, NEW p \in Procs, FailCGI(p)
  PROVE  DInv'
<1> DEFINE s == proc[p]
           f == s.fds
<1>1. /\ conns' \in [Conns -> ConnStates] /\ s.kind = "server" /\ s.it \in DOMAIN s.clients
      /\ limit' = limit
  BY TakesRequest DEF FailCGI
<1>2. s \in Processes /\ pipes \in Nat /\ f \in Files /\ Cardinality(free(f)) \in Nat
  BY ServerFacts, FreeIsFinite
<1>3. PICK m \in Nat, g \in Files :
        /\ pipes <= m /\ Grown(f, g, pipes, m)
        /\ proc' = [proc EXCEPT ![p] = waiting(s, g, NoFd)] /\ pipes' = m
  BY FailCGIGrows
<1> DEFINE t == waiting(s, g, NoFd)
<1>4. /\ t \in Processes /\ t.kind = "server" /\ t.fds = g
      /\ IsTable(g, m) /\ Serves(g, t.clients, m)
      /\ \A k \in 1..pipes : WriteEnd(k) \in used(g) => WriteEnd(k) \in used(f)
      /\ \A o \in Outs(t) \ {NoFd} : o = NoFd \/ (o \in Outs(s) /\ g[o] = f[o])
  <2> DEFINE d == NoFd
  <2>1. d \in Fds \cup {NoFd} /\ (d # NoFd => OutOf(g, d, m))
    OBVIOUS
  <2> HIDE DEF d, s, f
  <2>2. /\ proc[p].kind = "server" /\ proc[p].it \in DOMAIN proc[p].clients
        /\ pipes <= m /\ Grown(proc[p].fds, g, pipes, m)
    BY <1>1, <1>3 DEF s, f
  <2>3. /\ waiting(proc[p], g, d) \in Processes
        /\ waiting(proc[p], g, d).kind = "server" /\ waiting(proc[p], g, d).fds = g
        /\ IsTable(g, m) /\ Serves(g, waiting(proc[p], g, d).clients, m)
        /\ \A k \in 1..pipes : WriteEnd(k) \in used(g) => WriteEnd(k) \in used(proc[p].fds)
        /\ \A o \in Outs(waiting(proc[p], g, d)) \ {NoFd} :
             o = d \/ (o \in Outs(proc[p]) /\ g[o] = proc[p].fds[o])
    BY <2>1, <2>2, WaitingServer, SMTT(40)
  <2> QED
    BY <2>3 DEF d, s, f
<1> HIDE DEF t
<1>5. Local(p, t)
  BY <1>1, <1>3, <1>4 DEF Local, t
<1> QED
  BY <1>4, <1>5, LocalStep

\* What fork leaves of the two pipes: the parent has the reading end of the one,
\* the child the writing end of it as its standard output.
LEMMA ForkTables ==
  ASSUME NEW f \in Files, NEW n \in Nat, IsTable(f, n), StdKept(f),
         Cardinality(free(f)) >= 4
  PROVE  LET two == makePipe(makePipe(f, n + 1), n + 2)
             mine == closeAll(two, fdsOf(two, {WriteEnd(n + 2), ReadEnd(n + 1), WriteEnd(n + 1)}))
             its == closeAll(two, fdsOf(two, {ReadEnd(n + 2), WriteEnd(n + 1)}))
             std == dup2(dup2(its, fdOf(two, WriteEnd(n + 2)), 1), fdOf(two, ReadEnd(n + 1)), 0)
             out == fdOf(two, ReadEnd(n + 2))
         IN /\ mine \in Files /\ Grown(f, mine, n, n + 2) /\ WriteEnd(n + 2) \notin used(mine)
            /\ OutOf(mine, out, n + 2) /\ mine[out] = ReadEnd(n + 2)
            /\ std \in Files /\ Grown(f, std, n, n + 2)
<1> DEFINE two == makePipe(makePipe(f, n + 1), n + 2)
           mine == closeAll(two, fdsOf(two, {WriteEnd(n + 2), ReadEnd(n + 1), WriteEnd(n + 1)}))
           its == closeAll(two, fdsOf(two, {ReadEnd(n + 2), WriteEnd(n + 1)}))
           in == fdOf(two, ReadEnd(n + 1))
           wr == fdOf(two, WriteEnd(n + 2))
           first == dup2(its, wr, 1)
           std == dup2(first, in, 0)
           out == fdOf(two, ReadEnd(n + 2))
<1>1. two \in Files /\
      \E a, b, c, d \in Fds :
        /\ f[a] = NULL /\ f[b] = NULL /\ f[c] = NULL /\ f[d] = NULL
        /\ two[a] = ReadEnd(n + 1) /\ two[b] = WriteEnd(n + 1)
        /\ two[c] = ReadEnd(n + 2) /\ two[d] = WriteEnd(n + 2)
        /\ \A x \in Fds \ {a, b, c, d} : two[x] = f[x]
  BY TwoPipes
<1> HIDE DEF two
<1>2. PICK a, b, c, d \in Fds :
        /\ f[a] = NULL /\ f[b] = NULL /\ f[c] = NULL /\ f[d] = NULL
        /\ two[a] = ReadEnd(n + 1) /\ two[b] = WriteEnd(n + 1)
        /\ two[c] = ReadEnd(n + 2) /\ two[d] = WriteEnd(n + 2)
        /\ \A x \in Fds \ {a, b, c, d} : two[x] = f[x]
  BY <1>1
<1> DEFINE New == Ends(n + 1, n + 2)
<1>3. /\ ReadEnd(n + 1) \in New /\ WriteEnd(n + 1) \in New
      /\ ReadEnd(n + 2) \in New /\ WriteEnd(n + 2) \in New
      /\ NULL \notin New /\ New \subseteq Objects
      /\ ReadEnd(n + 1) # ReadEnd(n + 2) /\ WriteEnd(n + 1) # WriteEnd(n + 2)
      /\ ReadEnd(n + 1) # WriteEnd(n + 2) /\ ReadEnd(n + 2) # WriteEnd(n + 1)
      /\ ReadEnd(n + 1) # WriteEnd(n + 1) /\ ReadEnd(n + 2) # WriteEnd(n + 2)
  <2>1. New \subseteq Objects
    BY DEF Ends, Objects
  <2>2. n + 1 # n + 2 /\ n + 1 \in (n + 1)..(n + 2) /\ n + 2 \in (n + 1)..(n + 2)
    OBVIOUS
  <2> QED
    BY <2>1, <2>2, Different DEF Ends, ReadEnd, WriteEnd
<1> HIDE DEF New
<1>4. \A x \in Fds : f[x] \notin New
  <2> SUFFICES ASSUME NEW x \in Fds, f[x] \in New PROVE FALSE
    OBVIOUS
  <2>1. f[x] \in {"read", "write"} \X (Nat \ {0})
    BY DEF New, Ends
  <2>2. f[x] \in Ends(1, n)
    BY <2>1 DEF IsTable
  <2> QED
    BY <2>2 DEF New, Ends
<1>5. /\ \A x \in Fds : two[x] = ReadEnd(n + 1) <=> x = a
      /\ \A x \in Fds : two[x] = WriteEnd(n + 1) <=> x = b
      /\ \A x \in Fds : two[x] = ReadEnd(n + 2) <=> x = c
      /\ \A x \in Fds : two[x] = WriteEnd(n + 2) <=> x = d
  BY <1>2, <1>3, <1>4
<1>6. in = a /\ out = c /\ wr = d
  BY <1>1, <1>2, <1>5, FdOfType
<1> HIDE DEF in, out, wr
<1>7. \A x \in {a, b, c, d} : x \notin {0, 1}
  <2>1. \A x \in {0, 1} : f[x] \in Objects
    BY DEF StdKept, Objects
  <2> QED
    BY <1>2, <2>1, Different
<1>8. mine = [x \in Fds |-> IF x \in {a, b, d} THEN NULL ELSE two[x]]
  <2>1. fdsOf(two, {WriteEnd(n + 2), ReadEnd(n + 1), WriteEnd(n + 1)}) = {a, b, d}
    BY <1>2, <1>5 DEF fdsOf
  <2> QED
    BY <2>1 DEF closeAll
<1>9. its = [x \in Fds |-> IF x \in {b, c} THEN NULL ELSE two[x]]
  <2>1. fdsOf(two, {ReadEnd(n + 2), WriteEnd(n + 1)}) = {b, c}
    BY <1>2, <1>5 DEF fdsOf
  <2> QED
    BY <2>1 DEF closeAll
<1> HIDE DEF mine, its
<1>10. mine \in Files /\ its \in Files
  BY <1>1, <1>8, <1>9 DEF Files
<1>11. 0 \in Fds /\ 1 \in Fds
  BY FdsType
<1>12. {a, d} \cap {b, c} = {} /\ a # d /\ a # b /\ c # d
  BY <1>2, <1>3
<1>13. /\ first \in Files /\ first[1] = WriteEnd(n + 2)
       /\ \A x \in Fds \ {1} : first[x] = its[x]
  <2>1. first = [its EXCEPT ![1] = its[d]]
    BY <1>6 DEF dup2
  <2>2. its[d] = WriteEnd(n + 2)
    BY <1>2, <1>9, <1>12
  <2> HIDE DEF first
  <2> QED
    BY <1>3, <1>10, <1>11, <2>1, <2>2 DEF Files
<1> HIDE DEF first
<1>14. /\ std \in Files /\ std[0] = ReadEnd(n + 1) /\ std[1] = WriteEnd(n + 2)
       /\ \A x \in Fds \ {0, 1} : std[x] = its[x]
  <2>1. std = [first EXCEPT ![0] = first[a]]
    BY <1>6 DEF dup2
  <2>2. first[a] = its[a] /\ its[a] = ReadEnd(n + 1)
    BY <1>2, <1>7, <1>9, <1>12, <1>13
  <2> HIDE DEF std
  <2> QED
    BY <1>3, <1>11, <1>13, <2>1, <2>2 DEF Files
<1> HIDE DEF std
<1>15. Grown(f, mine, n, n + 2)
  BY <1>2, <1>3, <1>8 DEF Grown, New
<1>16. Grown(f, std, n, n + 2)
  <2>1. \A x \in Fds : its[x] = f[x] \/ (its[x] \in New /\ f[x] = NULL)
    BY <1>2, <1>3, <1>9
  <2> QED
    BY <1>3, <1>14, <2>1 DEF Grown, New
<1>17. mine[c] = ReadEnd(n + 2) /\ \A x \in Fds : mine[x] # WriteEnd(n + 2)
  BY <1>2, <1>3, <1>5, <1>8, <1>12
<1>18. OutOf(mine, c, n + 2)
  <2>1. n + 2 \in 1..(n + 2)
    OBVIOUS
  <2> QED
    BY <1>2, <1>7, <1>17, <2>1 DEF OutOf
<1>19. WriteEnd(n + 2) \notin used(mine)
  BY <1>17 DEF used
<1> QED
  BY <1>6, <1>10, <1>14, <1>15, <1>16, <1>17, <1>18, <1>19
     DEF two, mine, its, in, wr, first, std, out

LEMMA ForkCGIStep ==
  ASSUME DInv, NEW p \in Procs, ForkCGI(p)
  PROVE  DInv'
<1> DEFINE s == proc[p]
           f == s.fds
           m == pipes + 2
           two == makePipe(makePipe(f, pipes + 1), pipes + 2)
           mine == closeAll(two, fdsOf(two, {WriteEnd(pipes + 2), ReadEnd(pipes + 1),
                                             WriteEnd(pipes + 1)}))
           its == closeAll(two, fdsOf(two, {ReadEnd(pipes + 2), WriteEnd(pipes + 1)}))
           std == dup2(dup2(its, fdOf(two, WriteEnd(pipes + 2)), 1),
                       fdOf(two, ReadEnd(pipes + 1)), 0)
           out == fdOf(two, ReadEnd(pipes + 2))
           t == waiting(s, mine, out)
           again == waiting(s, std, NoFd)
<1>1. /\ conns' \in [Conns -> ConnStates] /\ s.kind = "server" /\ s.it \in DOMAIN s.clients
      /\ limit' = limit /\ pipes' = m /\ Cardinality(free(f)) >= 4
  BY TakesRequest DEF ForkCGI
<1>2. /\ proc \in [Procs -> Processes] /\ s \in Processes /\ pipes \in Nat /\ f \in Files
      /\ IsTable(f, pipes) /\ Serves(f, s.clients, pipes) /\ limit \in Limits
  BY <1>1, ServerFacts
<1>3. PICK q \in FreeProcs, child \in {Process("program", std), again} :
        proc' = [proc EXCEPT ![p] = t, ![q] = child]
  <2> DEFINE q == CHOOSE q \in FreeProcs : TRUE
  <2>1. q \in FreeProcs
    BY DEF ForkCGI
  <2>2. \E child \in {Process("program", std), again} :
          proc' = [proc EXCEPT ![p] = t, ![q] = child]
    BY DEF ForkCGI, In, Out, parentCloses, childCloses
  <2> QED
    BY <2>1, <2>2
<1>4. /\ mine \in Files /\ Grown(f, mine, pipes, m) /\ WriteEnd(m) \notin used(mine)
      /\ OutOf(mine, out, m) /\ mine[out] = ReadEnd(m)
      /\ std \in Files /\ Grown(f, std, pipes, m)
  BY <1>1, <1>2, ForkTables DEF Serves
<1> HIDE DEF mine, std, out
<1>5. q \in Procs /\ proc[q].kind = "none" /\ q # p
  BY <1>1 DEF FreeProcs
<1>6. m \in Nat /\ pipes <= m /\ out \in Fds
  BY <1>2, <1>4 DEF OutOf
<1>7. /\ t \in Processes /\ t.kind = "server" /\ t.fds = mine
      /\ IsTable(mine, m) /\ Serves(mine, t.clients, m)
      /\ \A k \in 1..pipes : WriteEnd(k) \in used(mine) => WriteEnd(k) \in used(f)
      /\ \A o \in Outs(t) \ {NoFd} : o = out \/ (o \in Outs(s) /\ mine[o] = f[o])
  <2> HIDE DEF m
  <2>1. /\ waiting(proc[p], mine, out) \in Processes
        /\ waiting(proc[p], mine, out).kind = "server"
        /\ waiting(proc[p], mine, out).fds = mine
        /\ IsTable(mine, m) /\ Serves(mine, waiting(proc[p], mine, out).clients, m)
        /\ \A k \in 1..pipes : WriteEnd(k) \in used(mine) => WriteEnd(k) \in used(proc[p].fds)
        /\ \A o \in Outs(waiting(proc[p], mine, out)) \ {NoFd} :
             o = out \/ (o \in Outs(proc[p]) /\ mine[o] = proc[p].fds[o])
    BY <1>1, <1>4, <1>6, WaitingServer
  <2> QED
    BY <2>1
<1>8. /\ again \in Processes /\ again.kind = "server" /\ again.fds = std
      /\ IsTable(std, m) /\ Serves(std, again.clients, m)
      /\ \A k \in 1..pipes : WriteEnd(k) \in used(std) => WriteEnd(k) \in used(f)
  <2> DEFINE d == NoFd
  <2>1. d \in Fds \cup {NoFd} /\ (d # NoFd => OutOf(std, d, m))
    OBVIOUS
  <2> HIDE DEF d, m
  <2>2. /\ waiting(proc[p], std, d) \in Processes
        /\ waiting(proc[p], std, d).kind = "server" /\ waiting(proc[p], std, d).fds = std
        /\ IsTable(std, m) /\ Serves(std, waiting(proc[p], std, d).clients, m)
        /\ \A k \in 1..pipes : WriteEnd(k) \in used(std) => WriteEnd(k) \in used(proc[p].fds)
        /\ \A o \in Outs(waiting(proc[p], std, d)) \ {NoFd} :
             o = d \/ (o \in Outs(proc[p]) /\ std[o] = proc[p].fds[o])
    <3>1. /\ proc[p].kind = "server" /\ proc[p].it \in DOMAIN proc[p].clients
          /\ m \in Nat /\ pipes <= m /\ std \in Files /\ Grown(proc[p].fds, std, pipes, m)
      BY <1>1, <1>4, <1>6
    <3> QED
      BY <2>1, <3>1, WaitingServer
  <2> QED
    BY <2>2 DEF d
<1>9. /\ Process("program", std) \in Processes /\ Process("program", std).kind = "program"
      /\ Process("program", std).fds = std
  BY <1>4, FdsType DEF Process, Processes, Kinds, Points
<1> HIDE DEF t, again
<1>10. /\ child \in Processes /\ child.kind \in {"program", "server"} /\ child.fds = std
       /\ child.kind = "server" => child = again
  BY <1>8, <1>9
<1>11. proc'[p] = t /\ proc'[q] = child /\ \A r \in Procs \ {p, q} : proc'[r] = proc[r]
  BY <1>2, <1>3, <1>5
<1>12. TypeOK'
  <2>1. proc' \in [Procs -> Processes]
    BY <1>2, <1>3, <1>7, <1>10
  <2> QED
    BY <1>1, <1>2, <1>6, <2>1 DEF TypeOK, ConnStates
<1>13. \A r \in Procs : IsTable(proc'[r].fds, m)
  <2>1. ASSUME NEW r \in Procs \ {p, q}
        PROVE  IsTable(proc'[r].fds, m)
    <3>1. IsTable(proc[r].fds, pipes) /\ proc'[r] = proc[r]
      BY <1>11, <2>1 DEF DInv
    <3>2. Ends(1, pipes) \subseteq Ends(1, m)
      BY <1>2 DEF Ends
    <3> QED
      BY <3>1, <3>2 DEF IsTable
  <2> QED
    BY <1>7, <1>8, <1>10, <1>11, <2>1
<1>14. \A r \in Procs : proc'[r].kind = "starting" =>
         r = Main /\ proc'[r].fds = [d \in Fds |-> IF d <= 3 THEN Std(d) ELSE NULL]
  BY <1>7, <1>10, <1>11 DEF DInv
<1>15. \A r \in Servers' : Serves(proc'[r].fds, proc'[r].clients, m)
  <2>1. ASSUME NEW r \in Procs \ {p, q}, proc'[r].kind = "server"
        PROVE  Serves(proc'[r].fds, proc'[r].clients, m)
    <3>1. proc'[r] = proc[r] /\ Serves(proc[r].fds, proc[r].clients, pipes)
      BY <1>11, <2>1 DEF DInv, Servers
    <3>2. \A k \in 1..pipes : k \in 1..m
      BY <1>2
    <3> QED
      BY <3>1, <3>2 DEF Serves, Waits, OutOf
  <2> QED
    BY <1>7, <1>8, <1>10, <1>11, <2>1 DEF Servers
<1>16. OneWriter'
  <2> SUFFICES ASSUME Alone', NEW o \in Outs(proc'[Main]) \ {NoFd}, NEW k \in 1..m,
                      proc'[Main].fds[o] = ReadEnd(k),
                      NEW x \in Holders(WriteEnd(k))', NEW y \in Holders(WriteEnd(k))'
               PROVE  x = y
    BY <1>1 DEF OneWriter
  <2>1. p = Main /\ child.kind = "program"
    <3>1. \A r \in Procs : proc'[r].kind \in {"server", "aborted"} => r = Main
      BY DEF Alone
    <3> QED
      BY <1>5, <1>7, <1>10, <1>11, <3>1
  <2>2. Alone
    <3> SUFFICES ASSUME NEW r \in Procs
                 PROVE  proc[r].kind \in {"server", "aborted"} <=>
                          r = Main /\ proc[r].kind = "server"
      BY DEF Alone
    <3>1. proc'[r].kind \in {"server", "aborted"} <=> r = Main /\ proc'[r].kind = "server"
      BY DEF Alone
    <3> QED
      BY <1>1, <1>5, <1>11, <2>1, <3>1
  <2>3. \A r \in Holders(WriteEnd(k))' :
          /\ r \in Procs /\ proc'[r].kind \in {"starting", "server", "program"}
          /\ WriteEnd(k) \in used(proc'[r].fds)
    BY DEF Holders, Live, used
  <2>4. o \in Outs(t) \ {NoFd} /\ mine[o] = ReadEnd(k)
    BY <1>7, <1>11, <2>1
  <2>5. CASE o = out
    <3>1. k = m
      BY <1>4, <2>4, <2>5 DEF ReadEnd
    <3>2. \A r \in Procs \ {p, q} : WriteEnd(m) \notin used(proc'[r].fds)
      <4> SUFFICES ASSUME NEW r \in Procs \ {p, q}, NEW e \in Fds, proc[r].fds[e] = WriteEnd(m)
                   PROVE  FALSE
        BY <1>11 DEF used
      <4>1. IsTable(proc[r].fds, pipes)
        BY DEF DInv
      <4>2. WriteEnd(m) \in {"read", "write"} \X (Nat \ {0}) /\ WriteEnd(m) \notin Ends(1, pipes)
        BY <1>2 DEF WriteEnd, Ends
      <4> QED
        BY <4>1, <4>2 DEF IsTable
    <3>3. \A r \in Holders(WriteEnd(k))' : r = q
      BY <1>4, <1>7, <1>11, <2>3, <3>1, <3>2
    <3> QED
      BY <3>3
  <2>6. CASE o # out
    <3>1. o \in Outs(s) \ {NoFd} /\ f[o] = ReadEnd(k)
      BY <1>7, <2>4, <2>6
    <3>2. OutOf(f, o, pipes)
      BY <1>2, <3>1, OutsServed
    <3>3. k \in 1..pipes /\ \A e \in Fds : f[e] # WriteEnd(k)
      BY <3>1, <3>2 DEF OutOf, ReadEnd
    <3>4. WriteEnd(k) \notin used(f)
      BY <3>3 DEF used
    <3>5. \A r \in Holders(WriteEnd(k))' : r \in Holders(WriteEnd(k))
      <4> SUFFICES ASSUME NEW r \in Holders(WriteEnd(k))' PROVE r \in Holders(WriteEnd(k))
        OBVIOUS
      <4>1. r \notin {p, q}
        BY <1>7, <1>8, <1>10, <1>11, <2>3, <3>3, <3>4
      <4> QED
        BY <1>11, <2>3, <4>1 DEF Holders, Live
    <3> QED
      BY <2>1, <2>2, <3>1, <3>3, <3>5 DEF DInv, OneWriter
  <2> QED
    BY <2>5, <2>6
<1> QED
  BY <1>1, <1>12, <1>13, <1>14, <1>15, <1>16 DEF DInv

-----------------------------------------------------------------------------
(* What the processes promise                                              *)

LEMMA DInitially ==
  Init => DInv
<1> SUFFICES ASSUME Init PROVE DInv
  OBVIOUS
<1> DEFINE f == [d \in Fds |-> IF d <= 3 THEN Std(d) ELSE NULL]
           start == Process("starting", f)
           none == Process("none", NoFiles)
<1>1. /\ limit \in Limits /\ pipes = 0
      /\ proc = [p \in Procs |-> IF p = Main THEN start ELSE none]
      /\ conns = [c \in Conns |-> [phase |-> "none", inq |-> 0, sent |-> 0, fin |-> FALSE]]
  BY DEF Init
<1>2. \A d \in Fds : f[d] = NULL \/ f[d] \in {"std"} \X (0..3)
  <2>1. \A d \in Fds : d <= 3 => d \in 0..3
    BY FdsType
  <2> QED
    BY <2>1 DEF Std
<1>3. f \in Files
  BY <1>2 DEF Files, Objects
<1>4. IsTable(f, 0)
  <2>1. \A d \in Fds : f[d] \notin {"read", "write"} \X (Nat \ {0})
    BY <1>2, Different DEF Objects
  <2> QED
    BY <1>3, <2>1 DEF IsTable
<1>5. start \in Processes /\ start.kind = "starting" /\ start.fds = f /\ start.clients = <<>>
  BY <1>3, FdsType DEF Process, Processes, Kinds, Points
<1>6. none \in Processes /\ none.kind = "none" /\ none.fds = NoFiles /\ none.clients = <<>>
  BY OverProcess DEF Kinds, Process
<1>7. IsTable(NoFiles, 0)
  BY <1>1, OverProcess DEF Kinds
<1>8. Main \in Procs
  BY DescriptorsAssumption
<1> HIDE DEF start, none
<1>9. TypeOK
  BY <1>1, <1>5, <1>6 DEF TypeOK
<1>10. Outs(start) = {}
  BY <1>5 DEF Outs, Writing
<1>11. OneWriter
  BY <1>1, <1>8, <1>10 DEF OneWriter
<1> QED
  BY <1>1, <1>4, <1>5, <1>6, <1>7, <1>9, <1>11 DEF DInv, Servers

\* The inductive invariant holds in every reachable state.
THEOREM DescriptorsInvariance == Spec => []DInv
<1>1. Init => DInv
  BY DInitially
<1>2. DInv /\ [Next]_vars => DInv'
  <2> SUFFICES ASSUME DInv, [Next]_vars PROVE DInv'
    OBVIOUS
  <2>1. ASSUME NEW p \in Procs, Server(p)
        PROVE  DInv'
    BY <2>1, StartStep, SelectStep, EndStep, PassingStep, CloseClientStep, EndCGIStep,
       FailCGIStep, ForkCGIStep, CheckServerStep DEF Server
  <2>2. ASSUME NEW p \in Procs, ProgramEnds(p)
        PROVE  DInv'
    BY <2>2, EndStep
  <2>3. ASSUME NEW c \in Conns, PeerConnect(c) \/ PeerSend(c) \/ PeerClose(c)
        PROVE  DInv'
    BY <2>3, PeerStep
  <2>4. CASE UNCHANGED vars
    <3>1. UNCHANGED <<limit, proc, conns, pipes>>
      BY <2>4 DEF vars
    <3> QED
      BY <3>1 DEF DInv, TypeOK, Servers, OneWriter, Alone, Outs, Writing, Holders, Live
  <2> QED
    BY <2>1, <2>2, <2>3, <2>4 DEF Next
<1> QED
  BY <1>1, <1>2, PTL DEF Spec

\* Every variable keeps its type, for any number of connections, processes and
\* descriptors.
THEOREM DescriptorsTyped == Spec => []TypeOK
<1>1. DInv => TypeOK
  BY DEF DInv
<1> QED
  BY <1>1, DescriptorsInvariance, PTL

\* However numbers are used again, and whatever fails, a client of a server has
\* the number of its own connection and shares it with no other client.
THEOREM ClientsOwnSockets == Spec => []OwnSocket
<1>1. DInv => OwnSocket
  BY DEF DInv, Serves, Owns, OwnSocket, Servers
<1> QED
  BY <1>1, DescriptorsInvariance, PTL

\* No server has a connection in its table without a client that will close it.
THEOREM SocketsServed == Spec => []SocketsHaveClients
<1>1. DInv => SocketsHaveClients
  <2> SUFFICES ASSUME DInv, NEW p \in Servers, NEW c \in Conns, NEW d \in Fds,
                      proc[p].fds[d] = Sock(c)
               PROVE  \E i \in DOMAIN proc[p].clients : proc[p].clients[i].conn = c
    BY DEF SocketsHaveClients, used
  <2>1. Owns(proc[p].fds, proc[p].clients)
    BY DEF DInv, Serves
  <2>2. PICK i \in DOMAIN proc[p].clients : proc[p].clients[i].fd = d
    BY <2>1 DEF Owns
  <2>3. proc[p].fds[d] = Sock(proc[p].clients[i].conn)
    BY <2>1, <2>2, FdsType DEF Owns
  <2> QED
    BY <2>2, <2>3 DEF Sock
<1> QED
  BY <1>1, DescriptorsInvariance, PTL

\* A server that waits for the end of a pipe does not itself keep it from ending,
\* nor, while there is one server, does any program but the one it started for it.
THEOREM PipesCanEnd == Spec => []PipesEnd
<1>1. DInv => PipesEnd
  <2> SUFFICES ASSUME DInv, NEW p \in Servers, NEW i \in Writing(proc[p]),
                      proc[p].clients[i].out # NoFd
               PROVE  \E k \in 1..pipes :
                        /\ proc[p].fds[proc[p].clients[i].out] = ReadEnd(k)
                        /\ p \notin Holders(WriteEnd(k))
                        /\ Alone => Cardinality(Holders(WriteEnd(k))) <= 1
    BY DEF PipesEnd
  <2> DEFINE o == proc[p].clients[i].out
  <2>1. p \in Procs /\ proc[p].kind = "server" /\ proc[p] \in Processes
    BY ServerFacts DEF Servers
  <2>2. o \in Outs(proc[p]) \ {NoFd}
    BY DEF Outs
  <2>3. OutOf(proc[p].fds, o, pipes)
    BY <2>1, <2>2, OutsServed DEF DInv, Servers
  <2>4. PICK k \in 1..pipes : /\ proc[p].fds[o] = ReadEnd(k)
                              /\ \A d \in Fds : proc[p].fds[d] # WriteEnd(k)
    BY <2>3 DEF OutOf
  <2>5. p \notin Holders(WriteEnd(k))
    BY <2>4 DEF Holders, used
  <2>6. ASSUME Alone
        PROVE  Cardinality(Holders(WriteEnd(k))) <= 1
    <3> DEFINE H == Holders(WriteEnd(k))
    <3>1. p = Main
      BY <2>1, <2>6 DEF Alone
    <3>2. \A x, y \in H : x = y
      BY <2>2, <2>4, <2>6, <3>1 DEF DInv, OneWriter
    <3> HIDE DEF H
    <3>3. CASE H = {}
      BY <3>3, FS_EmptySet DEF H
    <3>4. CASE H # {}
      <4>1. PICK x : H = {x}
        BY <3>2, <3>4
      <4>2. Cardinality(H) = 1
        BY <4>1, FS_Singleton
      <4> QED
        BY <4>2 DEF H
    <3> QED
      BY <3>3, <3>4
  <2> QED
    BY <2>4, <2>5, <2>6
<1> QED
  BY <1>1, DescriptorsInvariance, PTL

-----------------------------------------------------------------------------
(* What select sees                                                        *)

\* maxfd is as high as the number a server listens at and those of its clients.
Seen(s) ==
  /\ \A d \in Fds : s.fds[d] = Listen => d <= s.maxfd
  /\ \A i \in DOMAIN s.clients : s.clients[i].fd <= s.maxfd

SInv == \A p \in Servers : Seen(proc[p])

\* t is s with no other number to listen at, no client that maxfd does not
\* reach, and no lower maxfd.
Reaches(s, t) ==
  /\ s.maxfd <= t.maxfd
  /\ \A d \in Fds : t.fds[d] = Listen => s.fds[d] = Listen
  /\ \A i \in DOMAIN t.clients : \/ t.clients[i].fd <= t.maxfd
                                 \/ \E j \in DOMAIN s.clients :
                                      t.clients[i].fd = s.clients[j].fd

LEMMA SeenKept ==
  ASSUME NEW s \in Processes, NEW t \in Processes, Seen(s), Reaches(s, t)
  PROVE  Seen(t)
<1>1. /\ s.maxfd \in Nat /\ t.maxfd \in Nat /\ s.maxfd <= t.maxfd
      /\ \A i \in DOMAIN s.clients : s.clients[i].fd \in Int /\ s.clients[i].fd <= s.maxfd
  BY FdIsInt DEF Seen, Reaches
<1>2. ASSUME NEW d \in Fds, t.fds[d] = Listen
      PROVE  d <= t.maxfd
  <2>1. d \in Nat /\ d <= s.maxfd
    BY <1>2, FdsType DEF Seen, Reaches
  <2> QED
    BY <1>1, <2>1
<1>3. ASSUME NEW i \in DOMAIN t.clients
      PROVE  t.clients[i].fd <= t.maxfd
  <2>1. CASE \E j \in DOMAIN s.clients : t.clients[i].fd = s.clients[j].fd
    <3>1. PICK j \in DOMAIN s.clients : t.clients[i].fd = s.clients[j].fd
      BY <2>1
    <3>2. s.clients[j].fd \in Int /\ s.clients[j].fd <= s.maxfd
      BY <1>1
    <3> QED
      BY <1>1, <3>1, <3>2
  <2> QED
    BY <2>1 DEF Reaches
<1> QED
  BY <1>2, <1>3 DEF Seen

\* What a step of one process has to show.
LEMMA OneSees ==
  ASSUME DInv, SInv, NEW p \in Procs, NEW t, proc' = [proc EXCEPT ![p] = t],
         t.kind = "server" => Seen(t)
  PROVE  SInv'
<1>1. proc \in [Procs -> Processes]
  BY ServerFacts
<1>2. proc'[p] = t /\ \A r \in Procs \ {p} : proc'[r] = proc[r]
  BY <1>1
<1> QED
  BY <1>2 DEF SInv, Servers

\* A server that listens at the number it got has it as maxfd.
LEMMA StartSees ==
  ASSUME DInv, SInv, NEW p \in Procs, Start(p)
  PROVE  SInv'
<1>1. /\ proc[p].kind = "starting"
      /\ \/ proc' = [proc EXCEPT ![p] =
                      [Process("server", alloc(proc[p].fds, Listen))
                         EXCEPT !.maxfd = fdOf(alloc(proc[p].fds, Listen), Listen)]]
         \/ proc' = Over(p, "ended")
  BY DEF Start
<1>2. CASE proc' = Over(p, "ended")
  <2>1. Process("ended", NoFiles).kind = "ended"
    BY DEF Process
  <2> QED
    BY <1>2, <2>1, OneSees DEF Over
<1>3. CASE proc' = [proc EXCEPT ![p] =
                     [Process("server", alloc(proc[p].fds, Listen))
                        EXCEPT !.maxfd = fdOf(alloc(proc[p].fds, Listen), Listen)]]
  <2> DEFINE f == proc[p].fds
             g == alloc(f, Listen)
             m == fdOf(g, Listen)
             s == [Process("server", g) EXCEPT !.maxfd = m]
             a == Min(free(f))
  <2>1. f \in Files /\ limit \in Limits
    BY ServerFacts
  <2>2. f = [d \in Fds |-> IF d <= 3 THEN Std(d) ELSE NULL]
    BY <1>1 DEF DInv
  <2> HIDE DEF f
  <2>3. free(f) # {}
    <3>1. 4 \in Fds /\ f[4] = NULL /\ 4 < limit
      BY <2>1, <2>2, FdsType
    <3> QED
      BY <3>1 DEF free
  <2>4. /\ a \in Fds /\ g = [f EXCEPT ![a] = Listen]
        /\ g[a] = Listen /\ \A d \in Fds \ {a} : g[d] = f[d]
    BY <2>1, <2>3, Different, AllocSlot
  <2> HIDE DEF a, g
  <2>5. \A d \in Fds : f[d] # Listen
    BY <2>2, Different DEF Listen, Std
  <2>6. g \in Files /\ \A d \in Fds : g[d] = Listen => d = a
    BY <2>1, <2>4, <2>5, Different DEF Files
  <2>7. m = a
    <3>1. m \in Fds /\ g[m] = Listen
      BY <2>4, <2>6, FdOfType
    <3> QED
      BY <2>6, <3>1
  <2> HIDE DEF m
  <2>8. s.fds = g /\ s.maxfd = m /\ s.clients = <<>>
    BY DEF Process
  <2>9. proc' = [proc EXCEPT ![p] = s]
    BY <1>3 DEF f, g, m
  <2> HIDE DEF s
  <2>10. Seen(s)
    <3>1. \A d \in Fds : g[d] = Listen => d <= m
      BY <2>6, <2>7, FdsType
    <3> QED
      BY <2>8, <3>1 DEF Seen
  <2> QED
    BY <2>9, <2>10, OneSees
<1> QED
  BY <1>1, <1>2, <1>3

LEMMA SelectStepSees ==
  ASSUME DInv, SInv, NEW p \in Procs, Select(p)
  PROVE  SInv'
<1> DEFINE s == proc[p]
           r == {d \in watched(s) \ {NoFd} : d <= raised(s) /\ Readable(s.fds[d])}
           m == raised(s)
           t == [s EXCEPT !.pc = "check_clients", !.it = 1, !.maxfd = m, !.ready = r]
<1>1. s.kind = "server" /\ proc' = [proc EXCEPT ![p] = t] /\ Seen(s)
  BY DEF Select, SInv, Servers
<1>2. s \in Processes /\ s.maxfd \in Nat /\ m \in Nat /\ s.maxfd <= m
  BY ServerFacts, RaisedReaches, FdIsInt, FdsType
<1> HIDE DEF m, r
<1>3. t.fds = s.fds /\ t.clients = s.clients /\ t.maxfd = m
  BY <1>2 DEF Processes
<1> HIDE DEF t
<1>4. \A i \in DOMAIN s.clients : s.clients[i].fd \in Int
  BY <1>2, FdIsInt
<1>5. \A d \in Fds : d \in Nat
  BY FdsType
<1>6. Seen(t)
  BY <1>1, <1>2, <1>3, <1>4, <1>5 DEF Seen
<1> QED
  BY <1>1, <1>6, OneSees

\* The steps that change neither table nor clients, nor maxfd.
LEMMA PassingSees ==
  ASSUME DInv, SInv, NEW p \in Procs,
         EndOfPass(p) \/ Skip(p) \/ ServeFile(p) \/ proc' = [proc EXCEPT ![p].pc = "Select"]
  PROVE  SInv'
<1> DEFINE s == proc[p]
<1>1. s \in Processes /\ proc \in [Procs -> Processes]
  BY ServerFacts
<1>2. PICK t : /\ proc' = [proc EXCEPT ![p] = t]
               /\ t.kind = s.kind /\ t.fds = s.fds /\ t.clients = s.clients
               /\ t.maxfd = s.maxfd
  <2>1. CASE EndOfPass(p)
    <3> DEFINE t == [s EXCEPT !.pc = "check_server"]
    <3>1. proc' = [proc EXCEPT ![p] = t]
      BY <1>1, <2>1 DEF EndOfPass
    <3>2. /\ t.kind = s.kind /\ t.fds = s.fds /\ t.clients = s.clients
          /\ t.maxfd = s.maxfd
      BY <1>1 DEF Processes
    <3> QED
      BY <3>1, <3>2
  <2>2. CASE Skip(p) \/ ServeFile(p)
    <3> DEFINE t == [s EXCEPT !.it = @ + 1]
    <3>1. proc' = [proc EXCEPT ![p] = t]
      BY <1>1, <2>2 DEF Skip, ServeFile
    <3>2. /\ t.kind = s.kind /\ t.fds = s.fds /\ t.clients = s.clients
          /\ t.maxfd = s.maxfd
      BY <1>1 DEF Processes
    <3> QED
      BY <3>1, <3>2
  <2>3. CASE proc' = [proc EXCEPT ![p].pc = "Select"]
    <3> DEFINE t == [s EXCEPT !.pc = "Select"]
    <3>1. proc' = [proc EXCEPT ![p] = t]
      BY <1>1, <2>3
    <3>2. /\ t.kind = s.kind /\ t.fds = s.fds /\ t.clients = s.clients
          /\ t.maxfd = s.maxfd
      BY <1>1 DEF Processes
    <3> QED
      BY <3>1, <3>2
  <2> QED
    BY <2>1, <2>2, <2>3
<1>3. t.kind = "server" => Seen(t)
  BY <1>2 DEF Seen, SInv, Servers
<1> QED
  BY <1>2, <1>3, OneSees

LEMMA EndSees ==
  ASSUME DInv, SInv, NEW p \in Procs, NEW k \in {"ended", "aborted"}, proc' = Over(p, k)
  PROVE  SInv'
<1>1. Process(k, NoFiles).kind # "server"
  BY DEF Process
<1> QED
  BY <1>1, OneSees DEF Over

\* A client keeps its number while its response changes, and a table that has
\* grown by ends of pipes has nothing else to listen at.
LEMMA WaitingSees ==
  ASSUME DInv, SInv, NEW p \in Procs, proc[p].kind = "server",
         proc[p].it \in DOMAIN proc[p].clients,
         NEW m \in Nat, NEW g \in Files, Grown(proc[p].fds, g, pipes, m),
         NEW d
  PROVE  Seen(waiting(proc[p], g, d))
<1> DEFINE s == proc[p]
           f == s.fds
           q == s.clients
           i == s.it
           c == [q[i] EXCEPT !.state = "Writing_Response", !.out = d]
           r == [q EXCEPT ![i] = c]
           t == [s EXCEPT !.fds = g, !.it = @ + 1, !.clients = r]
<1>1. s \in Processes /\ q \in Seq(Clients) /\ Seen(s)
  BY ServerFacts DEF SInv, Servers
<1>2. waiting(s, g, d) = t
  BY <1>1 DEF waiting, Processes
<1>3. q[i] \in Clients
  BY <1>1
<1>4. c.fd = q[i].fd
  BY <1>3 DEF Clients
<1> HIDE DEF c
<1>5. DOMAIN r = DOMAIN q /\ \A j \in DOMAIN q : r[j].fd = q[j].fd
  BY <1>1, <1>4
<1> HIDE DEF r
<1>6. t.fds = g /\ t.clients = r /\ t.maxfd = s.maxfd
  BY <1>1 DEF Processes
<1> HIDE DEF t
<1>7. \A e \in Fds : g[e] = Listen => f[e] = Listen
  BY DEF Grown, Ends, Listen
<1>8. Seen(t)
  BY <1>1, <1>5, <1>6, <1>7 DEF Seen
<1> QED
  BY <1>2, <1>8

LEMMA EndCGISees ==
  ASSUME DInv, SInv, NEW p \in Procs, EndCGI(p)
  PROVE  SInv'
<1> DEFINE s == proc[p]
           q == s.clients
           i == s.it
           c == [q[i] EXCEPT !.state = "Ready_ForRead", !.out = NoFd]
           r == [q EXCEPT ![i] = c]
           t == [s EXCEPT !.clients = r, !.it = @ + 1]
<1>1. s.kind = "server" /\ i <= Len(q)
  BY DEF EndCGI, Handling
<1>2. /\ proc \in [Procs -> Processes] /\ s \in Processes /\ q \in Seq(Clients) /\ Seen(s)
  BY <1>1, ServerFacts DEF SInv, Servers
<1>3. proc' = [proc EXCEPT ![p] = t]
  BY <1>2 DEF EndCGI
<1>4. i \in DOMAIN q
  BY <1>1, <1>2 DEF Processes
<1>5. q[i] \in Clients
  BY <1>2, <1>4
<1>6. c.fd = q[i].fd
  BY <1>5 DEF Clients
<1> HIDE DEF c
<1>7. DOMAIN r = DOMAIN q /\ \A j \in DOMAIN q : r[j].fd = q[j].fd
  BY <1>2, <1>4, <1>6
<1> HIDE DEF r
<1>8. t.fds = s.fds /\ t.clients = r /\ t.maxfd = s.maxfd
  BY <1>2 DEF Processes
<1> HIDE DEF t
<1>9. Seen(t)
  BY <1>2, <1>7, <1>8 DEF Seen
<1> QED
  BY <1>3, <1>9, OneSees

\* The other clients keep their numbers, and what is closed is no longer listened at.
LEMMA CloseClientSees ==
  ASSUME DInv, SInv, NEW p \in Procs, CloseClient(p)
  PROVE  SInv'
<1> DEFINE s == proc[p]
           f == s.fds
           q == s.clients
           i == s.it
           a == q[i].fd
           g == deleteClient(close(f, a), q[i])
           r == erased(q, i)
           b == s.ready \ {a}
           t == [s EXCEPT !.fds = g, !.ready = b, !.clients = r]
<1>1. s.kind = "server" /\ i <= Len(q)
  BY DEF CloseClient, Handling
<1>2. /\ proc \in [Procs -> Processes] /\ s \in Processes /\ f \in Files
      /\ q \in Seq(Clients) /\ Seen(s)
  BY <1>1, ServerFacts, SMTT(40) DEF SInv, Servers
<1>3. proc' = [proc EXCEPT ![p] = t]
  BY <1>2 DEF CloseClient, Client, erased, Processes
<1>4. i \in DOMAIN q
  BY <1>1, <1>2 DEF Processes
<1>5. \A d \in Fds : g[d] = f[d] \/ g[d] = NULL
  <2>1. ASSUME NEW h \in Files, NEW x
        PROVE  /\ close(h, x) \in Files
               /\ \A d \in Fds : close(h, x)[d] = h[d] \/ close(h, x)[d] = NULL
    BY DEF close, Files
  <2>2. g = close(close(f, a), a)
    BY DEF deleteClient, cleanCGI, NoFd
  <2> QED
    BY <1>2, <2>1, <2>2
<1> HIDE DEF g, b
<1>6. \A j \in DOMAIN r : \E k \in DOMAIN q : r[j] = q[k]
  <2> SUFFICES ASSUME NEW j \in DOMAIN r PROVE \E k \in DOMAIN q : r[j] = q[k]
    OBVIOUS
  <2>1. /\ r \in Seq(Clients) /\ Len(r) = Len(q) - 1
        /\ \A l \in 1..(Len(q) - 1) : r[l] = IF l < i THEN q[l] ELSE q[l + 1]
    BY <1>2, <1>4, ErasedType
  <2> HIDE DEF r
  <2>2. Len(q) \in Nat /\ DOMAIN q = 1..Len(q)
    BY <1>2
  <2>3. j \in 1..(Len(q) - 1)
    BY <2>1, <2>2
  <2>4. j \in 1..Len(q) /\ j + 1 \in 1..Len(q)
    BY <2>2, <2>3
  <2> QED
    BY <2>1, <2>2, <2>3, <2>4
<1> HIDE DEF r
<1>7. t.fds = g /\ t.clients = r /\ t.maxfd = s.maxfd
  BY <1>2 DEF Processes
<1> HIDE DEF t
<1>8. Listen # NULL
  BY Different
<1>9. Seen(t)
  BY <1>2, <1>5, <1>6, <1>7, <1>8 DEF Seen
<1> QED
  BY <1>3, <1>9, OneSees

\* accept: maxfd is raised to the number of the new client.
LEMMA AcceptSees ==
  ASSUME DInv, SInv, NEW p \in Procs, proc[p].kind = "server", Accept(p)
  PROVE  SInv'
<1> DEFINE s == proc[p]
           f == s.fds
           q == s.clients
           a == Min(free(f))
<1>1. /\ proc \in [Procs -> Processes] /\ s \in Processes /\ f \in Files
      /\ q \in Seq(Clients) /\ Seen(s)
  BY ServerFacts DEF SInv, Servers
<1>2. PICK c \in Conns :
        proc' = [proc EXCEPT ![p] = [s EXCEPT
                   !.pc = "Select", !.fds = alloc(f, Sock(c)),
                   !.maxfd = IF a > s.maxfd THEN a ELSE s.maxfd,
                   !.clients = Append(q, NewClient(c, a))]]
  BY <1>1 DEF Accept, Processes
<1> DEFINE g == alloc(f, Sock(c))
           e == NewClient(c, a)
           r == Append(q, e)
           m == IF a > s.maxfd THEN a ELSE s.maxfd
           t == [s EXCEPT !.pc = "Select", !.fds = g, !.maxfd = m, !.clients = r]
<1>3. Sock(c) # Listen /\ Sock(c) # NULL /\ free(f) # {}
  BY Different DEF Accept
<1>4. a \in Fds /\ g[a] = Sock(c) /\ \A d \in Fds \ {a} : g[d] = f[d]
  BY <1>1, <1>3, AllocSlot
<1>5. proc' = [proc EXCEPT ![p] = t]
  BY <1>2
<1>6. e.fd = a
  BY DEF NewClient
<1>7. e \in Clients
  BY <1>4 DEF NewClient, Clients, ClientStates
<1> HIDE DEF a, g, e
<1>8. /\ DOMAIN r = 1..(Len(q) + 1) /\ r[Len(q) + 1] = e
      /\ DOMAIN q = 1..Len(q) /\ Len(q) \in Nat /\ \A i \in DOMAIN q : r[i] = q[i]
  BY <1>1, <1>7
<1> HIDE DEF r
<1>9. a \in Nat /\ s.maxfd \in Nat /\ m \in Nat /\ a <= m /\ s.maxfd <= m
  BY <1>1, <1>4, FdIsInt, FdsType
<1> HIDE DEF m
<1>10. t.fds = g /\ t.clients = r /\ t.maxfd = m
  BY <1>1 DEF Processes
<1> HIDE DEF t
<1>11. ASSUME NEW d \in Fds, t.fds[d] = Listen
       PROVE  d <= t.maxfd
  <2>1. d \in Nat /\ d <= s.maxfd
    BY <1>1, <1>3, <1>4, <1>10, <1>11, FdsType DEF Seen
  <2> QED
    BY <1>9, <1>10, <2>1
<1>12. ASSUME NEW i \in DOMAIN t.clients
       PROVE  t.clients[i].fd <= t.maxfd
  <2>1. CASE i \in DOMAIN q
    <3>1. q[i].fd \in Int /\ q[i].fd <= s.maxfd /\ t.clients[i] = q[i]
      BY <1>1, <1>8, <1>10, <2>1, FdIsInt DEF Seen
    <3> QED
      BY <1>9, <1>10, <3>1
  <2>2. CASE i = Len(q) + 1
    BY <1>6, <1>8, <1>9, <1>10, <2>2
  <2> QED
    BY <1>8, <1>10, <1>12, <2>1, <2>2
<1>13. Seen(t)
  BY <1>11, <1>12 DEF Seen
<1> QED
  BY <1>5, <1>13, OneSees

\* A client without a number asks for none.
LEMMA FailAcceptSees ==
  ASSUME DInv, SInv, NEW p \in Procs, proc[p].kind = "server", FailAccept(p)
  PROVE  SInv'
<1> DEFINE s == proc[p]
           q == s.clients
           e == NewClient(NULL, NoFd)
           r == IF \E i \in DOMAIN q : q[i].fd = NoFd THEN q ELSE Append(q, e)
           t == [s EXCEPT !.pc = "Select", !.clients = r]
<1>1. /\ proc \in [Procs -> Processes] /\ s \in Processes
      /\ q \in Seq(Clients) /\ Seen(s)
  BY ServerFacts DEF SInv, Servers
<1>2. CASE proc' = Over(p, "aborted")
  BY <1>2, EndSees
<1>3. CASE proc' = [proc EXCEPT ![p] = t]
  <2>1. e \in Clients /\ e.fd = NoFd
    BY DEF NewClient, Clients, ClientStates
  <2> HIDE DEF e
  <2>2. \A i \in DOMAIN r : r[i].fd = NoFd \/ \E j \in DOMAIN q : r[i] = q[j]
    <3>1. CASE r = q
      BY <3>1
    <3>2. CASE r = Append(q, e)
      BY <1>1, <2>1, <3>2
    <3> QED
      BY <3>1, <3>2
  <2> HIDE DEF r
  <2>3. t.fds = s.fds /\ t.clients = r /\ t.maxfd = s.maxfd
    BY <1>1 DEF Processes
  <2> HIDE DEF t
  <2>4. s.maxfd \in Nat /\ NoFd <= s.maxfd
    BY <1>1, FdIsInt DEF NoFd
  <2>5. Seen(t)
    BY <1>1, <2>2, <2>3, <2>4 DEF Seen
  <2> QED
    BY <1>3, <2>5, OneSees DEF t
<1>4. proc' = Over(p, "aborted") \/ proc' = [proc EXCEPT ![p] = t]
  BY <1>1 DEF FailAccept, Processes
<1> QED
  BY <1>2, <1>3, <1>4

LEMMA CheckServerSees ==
  ASSUME DInv, SInv, NEW p \in Procs, CheckServer(p)
  PROVE  SInv'
BY AcceptSees, FailAcceptSees, PassingSees DEF CheckServer

LEMMA FailCGISees ==
  ASSUME DInv, SInv, NEW p \in Procs, FailCGI(p)
  PROVE  SInv'
<1>1. proc[p].kind = "server" /\ proc[p].it \in DOMAIN proc[p].clients
  BY TakesRequest DEF FailCGI
<1>2. PICK m \in Nat, g \in Files :
        /\ pipes <= m /\ Grown(proc[p].fds, g, pipes, m)
        /\ proc' = [proc EXCEPT ![p] = waiting(proc[p], g, NoFd)] /\ pipes' = m
  BY FailCGIGrows
<1>3. Seen(waiting(proc[p], g, NoFd))
  BY <1>1, <1>2, WaitingSees
<1> QED
  BY <1>2, <1>3, OneSees

\* A child that goes on as a server has its parent's clients, numbers and maxfd.
LEMMA ForkCGISees ==
  ASSUME DInv, SInv, NEW p \in Procs, ForkCGI(p)
  PROVE  SInv'
<1> DEFINE s == proc[p]
           f == s.fds
           m == pipes + 2
           two == makePipe(makePipe(f, pipes + 1), pipes + 2)
           mine == closeAll(two, fdsOf(two, {WriteEnd(pipes + 2), ReadEnd(pipes + 1),
                                             WriteEnd(pipes + 1)}))
           its == closeAll(two, fdsOf(two, {ReadEnd(pipes + 2), WriteEnd(pipes + 1)}))
           std == dup2(dup2(its, fdOf(two, WriteEnd(pipes + 2)), 1),
                       fdOf(two, ReadEnd(pipes + 1)), 0)
           out == fdOf(two, ReadEnd(pipes + 2))
           t == waiting(s, mine, out)
           again == waiting(s, std, NoFd)
<1>1. s.kind = "server" /\ s.it \in DOMAIN s.clients /\ Cardinality(free(f)) >= 4
  BY TakesRequest DEF ForkCGI
<1>2. /\ proc \in [Procs -> Processes] /\ pipes \in Nat /\ f \in Files
      /\ IsTable(f, pipes) /\ StdKept(f)
  BY <1>1, ServerFacts DEF Serves
<1>3. PICK q \in FreeProcs, child \in {Process("program", std), again} :
        proc' = [proc EXCEPT ![p] = t, ![q] = child]
  <2> DEFINE q == CHOOSE q \in FreeProcs : TRUE
  <2>1. q \in FreeProcs
    BY DEF ForkCGI
  <2>2. \E child \in {Process("program", std), again} :
          proc' = [proc EXCEPT ![p] = t, ![q] = child]
    BY DEF ForkCGI, In, Out, parentCloses, childCloses
  <2> QED
    BY <2>1, <2>2
<1>4. mine \in Files /\ Grown(f, mine, pipes, m) /\ std \in Files /\ Grown(f, std, pipes, m)
  BY <1>1, <1>2, ForkTables
<1>5. m \in Nat
  BY <1>2
<1> HIDE DEF mine, std, out, m
<1>6. Seen(t) /\ Seen(again)
  BY <1>1, <1>4, <1>5, WaitingSees
<1>7. Process("program", std).kind = "program"
  BY DEF Process
<1>8. q \in Procs /\ child.kind = "server" => Seen(child)
  BY <1>6, <1>7 DEF FreeProcs
<1> HIDE DEF t, again
<1>9. \A r \in Procs : \/ proc'[r] = t
                       \/ proc'[r] = child
                       \/ proc'[r] = proc[r]
  BY <1>2, <1>3
<1>10. q \in Procs
  BY DEF FreeProcs
<1> QED
  BY <1>6, <1>8, <1>9, <1>10 DEF SInv, Servers

\* The inductive invariant holds in every reachable state.
THEOREM SeenInvariance == Spec => []SInv
<1>1. Init => SInv
  <2>1. /\ Process("starting", [d \in Fds |-> IF d <= 3 THEN Std(d) ELSE NULL]).kind = "starting"
        /\ Process("none", NoFiles).kind = "none"
    BY DEF Process
  <2> QED
    BY <2>1 DEF Init, SInv, Servers
<1>2. DInv /\ SInv /\ [Next]_vars => SInv'
  <2> SUFFICES ASSUME DInv, SInv, [Next]_vars PROVE SInv'
    OBVIOUS
  <2>1. ASSUME NEW p \in Procs, Server(p)
        PROVE  SInv'
    <3>1. CASE SelectAborts(p)
      BY <3>1, EndSees DEF SelectAborts
    <3> QED
      BY <2>1, <3>1, StartSees, SelectStepSees, PassingSees, CloseClientSees, EndCGISees,
         FailCGISees, ForkCGISees, CheckServerSees DEF Server
  <2>2. ASSUME NEW p \in Procs, ProgramEnds(p)
        PROVE  SInv'
    BY <2>2, EndSees DEF ProgramEnds
  <2>3. ASSUME NEW c \in Conns, PeerConnect(c) \/ PeerSend(c) \/ PeerClose(c)
        PROVE  SInv'
    BY <2>3 DEF PeerConnect, PeerSend, PeerClose, SInv, Servers
  <2>4. CASE UNCHANGED vars
    BY <2>4 DEF vars, SInv, Servers
  <2> QED
    BY <2>1, <2>2, <2>3, <2>4 DEF Next
<1> QED
  BY <1>1, <1>2, DescriptorsInvariance, PTL DEF Spec

\* Every number that select is asked about is one it looks at, in a server that
\* came of a fork too, for any number of connections, processes and descriptors.
THEOREM EverythingSeen == Spec => []SelectSees
<1>1. DInv /\ SInv => SelectSees
  <2> SUFFICES ASSUME DInv, SInv, NEW p \in Servers,
                      NEW d \in watched(proc[p]) \cup
                                {proc[p].clients[i].fd : i \in Writing(proc[p])}
               PROVE  d <= raised(proc[p])
    BY DEF SelectSees
  <2> DEFINE s == proc[p]
  <2>1. s \in Processes /\ s.fds \in Files /\ Serves(s.fds, s.clients, pipes) /\ Seen(s)
    BY ServerFacts DEF Servers, SInv
  <2>2. /\ raised(s) \in Fds /\ s.maxfd <= raised(s)
        /\ \A o \in Outs(s) : o <= raised(s)
    BY <2>1, RaisedReaches
  <2>3. raised(s) \in Nat /\ s.maxfd \in Nat
    BY <2>1, <2>2, FdIsInt, FdsType
  <2>4. CASE d \in Outs(s)
    BY <2>2, <2>4
  <2>5. CASE d = fdOf(s.fds, Listen)
    <3>1. d \in Fds /\ s.fds[d] = Listen
      BY <2>1, <2>5, FdOfType DEF Serves
    <3>2. d \in Nat /\ d <= s.maxfd
      BY <2>1, <3>1, FdsType DEF Seen
    <3> QED
      BY <2>2, <2>3, <3>2
  <2>6. CASE \E i \in DOMAIN s.clients : d = s.clients[i].fd
    <3>1. PICK i \in DOMAIN s.clients : d = s.clients[i].fd
      BY <2>6
    <3>2. d \in Int /\ d <= s.maxfd
      BY <2>1, <3>1, FdIsInt DEF Seen
    <3> QED
      BY <2>2, <2>3, <3>2
  <2> QED
    BY <2>4, <2>5, <2>6 DEF watched, Reading, Writing
<1> QED
  BY <1>1, DescriptorsInvariance, SeenInvariance, PTL

=============================================================================
