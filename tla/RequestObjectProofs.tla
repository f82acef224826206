------------------------ MODULE RequestObjectProofs ------------------------
(***************************************************************************)
(* Theorems about RequestObject: what one request object satisfies after   *)
(* any sequence of buffers; that its loop over the lines gives what        *)
(* httpParse gives in one step; and that a request object that has parsed  *)
(* others takes the header block of a good request as a new one does.      *)
(***************************************************************************)
EXTENDS RequestObject, HTTPProofs

-----------------------------------------------------------------------------
(* The inductive invariant and the theorems                                *)

\* Between calls the object is well formed and at rest, with a uri when the
\* last request is to be served from one, and its content is within bounds.
IInv ==
  /\ req \in Requests /\ Resting(req)
  /\ req.state = "ParsedCorrect" => HasTarget(req)
  /\ Within(req)

\* Every call of httpParse preserves it.
THEOREM Invariance == Spec => []IInv
<1>1. Init => IInv
  <2>1. Resting(NewRequest) /\ NewRequest.state # "ParsedCorrect"
    BY DEF Resting, NewRequest
  <2> QED
    BY <2>1, NewType, NewWithin DEF Init, IInv
<1>2. ASSUME IInv, [Next]_req
      PROVE  IInv'
  <2>1. CASE UNCHANGED req
    BY <1>2, <2>1 DEF IInv
  <2>2. ASSUME NEW b \in Buffers, NEW isFull \in BOOLEAN, Parse(b, isFull)
        PROVE  IInv'
    <3>1. b \in Seq(Lines) /\ ~parseEnds(req, b)
      BY <2>2, BuffersAssumption DEF Parse
    <3>2. req' = httpParse(req, b, isFull).req
      BY <2>2 DEF Parse
    <3>3. req' \in Requests
      BY <1>2, <3>1, <3>2, ParseType DEF IInv
    <3>4. Resting(req') /\ (req'.state = "ParsedCorrect" => HasTarget(req'))
      BY <1>2, <3>1, <3>2, ParseURI, Zenon DEF IInv
    <3>5. Within(req')
      BY <1>2, <3>1, <3>2, ParseWithin DEF IInv
    <3> QED
      BY <3>3, <3>4, <3>5 DEF IInv
  <2> QED
    BY <1>2, <2>1, <2>2 DEF Next
<1> QED
  BY <1>1, <1>2, PTL DEF Spec

\* After any sequence of buffers the object is well formed, and the parser
\* rests in one of two states.
THEOREM ObjectTypeCorrect == Spec => []TypeOK
<1>1. IInv => TypeOK
  BY DEF IInv, TypeOK, Resting
<1> QED
  BY <1>1, Invariance, PTL

\* A request that was parsed without an error, or waits for its body, has a uri
\* that was not deleted and is a CGI request exactly if that says so, whatever
\* bad requests came before it.  Nothing is claimed of a malformed request.
THEOREM TargetLives == Spec => []TargetIsLive
<1>1. IInv => TargetIsLive
  BY DEF IInv, TargetIsLive, Resting
<1> QED
  BY <1>1, Invariance, PTL

\* No sequence of bodies and Content-Length headers makes the rest of a body
\* negative.
THEOREM ContentBounded == Spec => []ContentWithinLength
<1>1. IInv => ContentWithinLength
  BY DEF IInv, Within, ContentWithinLength
<1> QED
  BY <1>1, Invariance, PTL
-----------------------------------------------------------------------------
(* The loop over the lines                                                 *)

\* The highest position of a set of them.
LEMMA HighestPosition ==
  ASSUME NEW m \in Nat, NEW s \in SUBSET (1..m), m \in s
  PROVE  Max(s) = m
<1>1. \A y \in s : y \in Int /\ y <= m
  OBVIOUS
<1>2. ASSUME NEW x \in s, \A y \in s : x >= y
      PROVE  x = m
  BY <1>1, <1>2
<1>3. \A y \in s : m >= y
  BY <1>1
<1> QED
  BY <1>2, <1>3, Zenon DEF Max

\* What a fold over the positions in s takes from one with a position less.
foldStep(r, b, h, s) ==
  IF s = {} THEN r ELSE httpParseLine(h[s \ {Max(s)}], b[Max(s)])

\* There is a function that gives the fold for every set of the first m positions.
LEMMA FoldExists ==
  ASSUME NEW r, NEW b
  PROVE  \A m \in Nat : \E h : h = [s \in SUBSET (1..m) |-> foldStep(r, b, h, s)]
<1> DEFINE Exists(m) == \E h : h = [s \in SUBSET (1..m) |-> foldStep(r, b, h, s)]
           fails == {m \in Nat : ~Exists(m)}
<1>1. SUFFICES ASSUME fails # {} PROVE FALSE
  OBVIOUS
<1>2. PICK m \in fails : \A k \in fails : m <= k
  BY <1>1, SmallestIndex
<1>3. CASE m = 0
  <2> DEFINE h == [s \in SUBSET (1..0) |-> r]
  <2>1. h = [s \in SUBSET (1..0) |-> foldStep(r, b, h, s)]
    <3>1. \A s \in SUBSET (1..0) : s = {}
      OBVIOUS
    <3> QED
      BY <3>1 DEF foldStep
  <2> HIDE DEF h
  <2> QED
    BY <1>2, <1>3, <2>1
<1>4. CASE m # 0
  <2>1. m \in Nat /\ m - 1 \in Nat /\ Exists(m - 1)
    <3> HIDE DEF Exists
    <3> QED
      BY <1>2, <1>4
  <2>2. PICK h : h = [s \in SUBSET (1..(m - 1)) |-> foldStep(r, b, h, s)]
    BY <2>1
  <2> DEFINE g == [s \in SUBSET (1..m) |->
                     IF m \in s THEN httpParseLine(h[s \ {m}], b[m]) ELSE h[s]]
  <2>3. ASSUME NEW s \in SUBSET (1..m)
        PROVE  g[s] = foldStep(r, b, g, s)
    <3>1. CASE m \in s
      <4>1. Max(s) = m
        BY <2>1, <3>1, HighestPosition
      <4>2. s \ {m} \in SUBSET (1..m) /\ m \notin s \ {m}
        OBVIOUS
      <4>3. g[s \ {m}] = h[s \ {m}]
        BY <4>2
      <4>4. g[s] = httpParseLine(h[s \ {m}], b[m])
        BY <3>1
      <4> HIDE DEF g
      <4> QED
        BY <3>1, <4>1, <4>3, <4>4 DEF foldStep
    <3>2. CASE m \notin s
      <4>1. s \in SUBSET (1..(m - 1))
        BY <2>1, <3>2
      <4>2. g[s] = foldStep(r, b, h, s)
        BY <2>2, <3>2, <4>1
      <4>3. g[s \ {Max(s)}] = h[s \ {Max(s)}]
        BY <3>2
      <4> HIDE DEF g
      <4> QED
        BY <4>2, <4>3 DEF foldStep
    <3> QED
      BY <3>1, <3>2
  <2>4. g = [s \in SUBSET (1..m) |-> foldStep(r, b, g, s)]
    BY <2>3, Zenon
  <2> HIDE DEF g
  <2> QED
    BY <1>2, <2>4
<1> QED
  BY <1>3, <1>4

\* The objects after each line of the loop: the first is the one it starts with,
\* each of the others that of one httpParseLine, and the last its result.
LEMMA LoopRuns ==
  ASSUME NEW r, NEW b \in Seq(Lines)
  PROVE  \E g : /\ g[0] = r /\ g[Len(b)] = parseLines(r, b)
                /\ \A i \in 1..Len(b) : g[i] = httpParseLine(g[i - 1], b[i])
<1> DEFINE n == Len(b)
           h == CHOOSE f : f = [s \in SUBSET (1..n) |-> foldStep(r, b, f, s)]
           g == [i \in 0..n |-> h[1..i]]
<1>1. n \in Nat /\ DOMAIN b = 1..n
  OBVIOUS
<1>2. parseLines(r, b) = h[1..n]
  BY <1>1, Zenon DEF parseLines, FoldLeft, MapThenFoldSet, foldStep
<1>3. h = [s \in SUBSET (1..n) |-> foldStep(r, b, h, s)]
  BY <1>1, FoldExists, Zenon
<1> HIDE DEF h
<1>4. \A s \in SUBSET (1..n) : h[s] = foldStep(r, b, h, s)
  BY <1>3
<1> HIDE DEF n
<1>5. g[0] = r
  <2>1. 1..0 = {} /\ {} \in SUBSET (1..n) /\ 0 \in 0..n
    BY <1>1
  <2>2. h[{}] = r
    BY <1>4, <2>1 DEF foldStep
  <2> QED
    BY <2>1, <2>2
<1>6. ASSUME NEW i \in 1..n
      PROVE  g[i] = httpParseLine(g[i - 1], b[i])
  <2>1. 1..i \in SUBSET (1..n) /\ 1..i # {} /\ i \in Nat /\ i \in 1..i
    BY <1>1
  <2>2. Max(1..i) = i
    BY <2>1, HighestPosition
  <2>3. (1..i) \ {i} = 1..(i - 1)
    BY <2>1
  <2>4. h[1..i] = httpParseLine(h[1..(i - 1)], b[i])
    BY <1>4, <2>1, <2>2, <2>3 DEF foldStep
  <2>5. i \in 0..n /\ i - 1 \in 0..n
    BY <1>1
  <2> QED
    BY <2>4, <2>5
<1>7. g[n] = h[1..n]
  BY <1>1
<1> HIDE DEF g
<1> QED
  BY <1>2, <1>5, <1>6, <1>7 DEF n

\* What holds at a position, and is kept from one to the next, holds up to the last.
LEMMA AllPositions ==
  ASSUME NEW a \in Nat, NEW n \in Nat, NEW S, a \in S,
         \A i \in a..(n - 1) : i \in S => i + 1 \in S
  PROVE  \A i \in a..n : i \in S
<1> DEFINE fails == {i \in a..n : i \notin S}
<1>1. SUFFICES ASSUME fails # {} PROVE FALSE
  OBVIOUS
<1>2. fails \in SUBSET Nat
  OBVIOUS
<1>3. PICK i \in fails : \A j \in fails : i <= j
  BY <1>1, <1>2, SmallestIndex
<1>4. i \in a..n /\ i # a /\ i \notin S
  BY <1>3
<1>5. i - 1 \in a..(n - 1) /\ i - 1 \notin fails
  BY <1>3, <1>4
<1>6. i - 1 \in S /\ (i - 1) + 1 = i
  BY <1>4, <1>5
<1> QED
  BY <1>4, <1>5, <1>6

\* One line at a time.
LEMMA LineOfRequest ==
  ASSUME NEW r, NEW line, r.parseStatus = "requestLine"
  PROVE  httpParseLine(r, line) = parseRequestLine(r, line)
BY DEF httpParseLine

LEMMA LineOfContent ==
  ASSUME NEW r, NEW line, r.parseStatus = "contentLine"
  PROVE  httpParseLine(r, line) = contentLine(r)
BY DEF httpParseLine

LEMMA LineOfHeader ==
  ASSUME NEW r, NEW line \in Lines, r.parseStatus = "headerLine"
  PROVE  /\ line = Blank => httpParseLine(r, line) = endOfHeaders(r)
         /\ line.kind = "header" => httpParseLine(r, line) = addHeaders(r, <<line>>)
         /\ line # Blank /\ line.kind # "header" =>
              httpParseLine(r, line) = setRequestError(r, 400)
<1>1. Blank.kind = "blank"
  BY DEF Blank
<1> QED
  BY <1>1 DEF httpParseLine

LEMMA LineAfter ==
  ASSUME NEW r, NEW line, r.parseStatus \in {"requestDone", "requestError"}
  PROVE  httpParseLine(r, line) = r
BY DEF httpParseLine

\* Once the request is done, or in error, the rest of the lines change nothing.
LEMMA LoopStops ==
  ASSUME NEW g, NEW n \in Nat, NEW a \in 1..n,
         \A i \in 1..n : \E line : g[i] = httpParseLine(g[i - 1], line),
         g[a].parseStatus \in {"requestDone", "requestError"}
  PROVE  g[n] = g[a]
<1> DEFINE S == {i \in Nat : g[i] = g[a]}
<1>1. a \in S /\ a \in Nat
  OBVIOUS
<1>2. ASSUME NEW i \in a..(n - 1), i \in S
      PROVE  i + 1 \in S
  <2>1. i + 1 \in 1..n /\ (i + 1) - 1 = i /\ i + 1 \in Nat
    OBVIOUS
  <2>2. PICK line : g[i + 1] = httpParseLine(g[i], line)
    BY <2>1
  <2> QED
    BY <1>2, <2>1, <2>2, LineAfter
<1> HIDE DEF S
<1>3. \A i \in a..n : i \in S
  BY <1>1, <1>2, AllPositions
<1> QED
  BY <1>3 DEF S

\* Lines of content are taken one by one or all at once.
LEMMA ContentLoop ==
  ASSUME NEW r \in Requests, NEW b \in Seq(Lines), Len(b) >= 1,
         r.parseStatus = "contentLine", NEW g, g[0] = r,
         \A i \in 1..Len(b) : g[i] = httpParseLine(g[i - 1], b[i])
  PROVE  g[Len(b)] = parseContent(r, b)
<1> DEFINE length == Atoi[r.headers["Content-Length"]]
           had == r.contentLength
           n == Len(b)
           done == [r EXCEPT !.contentLength = length, !.parseStatus = "requestDone"]
           taken(i) == [r EXCEPT !.contentLength = had + i]
           S == {i \in Nat : g[i] = IF length - had <= i THEN done ELSE taken(i)}
<1>1. length \in Int /\ had \in Nat /\ n \in Nat /\ n >= 1
  <2>1. r.headers["Content-Length"] \in HeaderValues \cup {""} /\ r.contentLength \in Nat
    BY Members DEF HeaderLists, HeaderKeys
  <2>2. length \in Int
    BY <2>1, RequestAssumption
  <2>3. Len(b) \in Nat
    OBVIOUS
  <2> HIDE DEF length
  <2> QED
    BY <2>1, <2>2, <2>3
<1>2. ASSUME NEW i \in Nat
      PROVE  /\ taken(i).parseStatus = "contentLine"
             /\ taken(i).headers = r.headers
             /\ taken(i).contentLength = had + i
             /\ [taken(i) EXCEPT !.contentLength = length,
                                 !.parseStatus = "requestDone"] = done
             /\ [taken(i) EXCEPT !.contentLength = had + i + 1] = taken(i + 1)
  <2> HIDE DEF length, had
  <2>1. had + i + 1 = had + (i + 1)
    BY <1>1
  <2> QED
    BY <2>1 DEF Requests
<1>9. done.parseStatus = "requestDone"
  BY DEF Requests
<1>3. contentLine(r) = IF length - had <= 1 THEN done ELSE taken(1)
  BY DEF contentLine
<1>4. ASSUME NEW i \in Nat
      PROVE  contentLine(taken(i)) =
               IF length - (had + i) <= 1 THEN done ELSE taken(i + 1)
  <2> HIDE DEF taken, done
  <2> QED
    BY <1>2, <1>4, Zenon DEF contentLine
<1> HIDE DEF length, had, n, done, taken
<1>5. 1 \in S
  <2>1. 1 \in 1..n /\ 1 - 1 = 0
    BY <1>1
  <2>2. g[1] = httpParseLine(r, b[1])
    BY <2>1 DEF n
  <2> QED
    BY <1>3, <2>2, LineOfContent
<1>6. ASSUME NEW i \in 1..(n - 1), i \in S
      PROVE  i + 1 \in S
  <2>1. i + 1 \in 1..n /\ (i + 1) - 1 = i /\ i \in Nat /\ i + 1 \in Nat
    BY <1>1
  <2>2. g[i + 1] = httpParseLine(g[i], b[i + 1])
    BY <2>1 DEF n
  <2>3. CASE length - had <= i
    <3>1. g[i + 1] = done
      <4>1. g[i] = done
        BY <1>6, <2>3
      <4> QED
        BY <1>9, <2>2, <4>1, LineAfter
    <3>2. length - had <= i + 1
      BY <1>1, <2>1, <2>3
    <3> QED
      BY <2>1, <3>1, <3>2
  <2>4. CASE ~(length - had <= i)
    <3>1. g[i + 1] = contentLine(taken(i))
      <4>1. g[i] = taken(i)
        BY <1>6, <2>4
      <4>2. taken(i).parseStatus = "contentLine"
        BY <1>2, <2>1
      <4> QED
        BY <2>2, <4>1, <4>2, LineOfContent
    <3>2. length - (had + i) <= 1 <=> length - had <= i + 1
      BY <1>1, <2>1
    <3> QED
      BY <1>4, <2>1, <3>1, <3>2
  <2> QED
    BY <2>3, <2>4
<1>7. \A i \in 1..n : i \in S
  <2> HIDE DEF S
  <2> QED
    BY <1>1, <1>5, <1>6, AllPositions
<1>8. g[n] = IF length - had <= n THEN done ELSE taken(n)
  BY <1>1, <1>7
<1> QED
  BY <1>8 DEF parseContent, length, had, n, done, taken

\* An entry is the first of its key, unless there is one before it.
LEMMA ValueOfAppended ==
  ASSUME NEW s \in Seq(HeaderLines), NEW l \in HeaderLines, NEW k
  PROVE  ValueOf(Append(s, l), k) =
           IF ValueOf(s, k) # "" THEN ValueOf(s, k) ELSE IF l.key = k THEN l.value ELSE ""
<1> DEFINE t == Append(s, l)
           n == Len(s)
           has == {i \in 1..n : s[i].key = k}
<1>1. /\ n \in Nat /\ DOMAIN s = 1..n /\ DOMAIN t = 1..(n + 1)
      /\ t[n + 1] = l /\ \A i \in 1..n : t[i] = s[i]
  OBVIOUS
<1> HIDE DEF t, n
<1>2. CASE has # {}
  <2>1. has \in SUBSET Nat
    OBVIOUS
  <2>2. PICK i \in has : \A j \in has : i <= j
    BY <1>2, <2>1, SmallestIndex
  <2>3. i \in 1..n /\ s[i].key = k /\ \A j \in 1..(i - 1) : s[j].key # k
    BY <1>1, <2>2
  <2>4. FirstOf(s, k) = {i}
    <3>1. i \in FirstOf(s, k)
      BY <1>1, <2>3 DEF FirstOf
    <3>2. ASSUME NEW j \in FirstOf(s, k)
          PROVE  j = i
      BY <1>1, <2>3, <3>2 DEF FirstOf
    <3> QED
      BY <3>1, <3>2
  <2>5. FirstOf(t, k) = {i}
    <3>1. i \in FirstOf(t, k)
      BY <1>1, <2>3 DEF FirstOf
    <3>2. ASSUME NEW j \in FirstOf(t, k)
          PROVE  j = i
      BY <1>1, <2>3, <3>2 DEF FirstOf
    <3> QED
      BY <3>1, <3>2
  <2>6. ValueOf(s, k) = s[i].value /\ ValueOf(t, k) = s[i].value
    BY <1>1, <2>3, <2>4, <2>5 DEF ValueOf
  <2>7. s[i].value # ""
    <3>1. s[i] \in HeaderLines
      BY <2>3 DEF n
    <3> QED
      BY <3>1, RequestAssumption DEF HeaderLines
  <2> QED
    BY <2>6, <2>7 DEF t
<1>3. CASE has = {}
  <2>1. \A i \in 1..n : s[i].key # k
    BY <1>3
  <2>2. FirstOf(s, k) = {}
    BY <1>1, <2>1 DEF FirstOf
  <2>3. CASE l.key = k
    <3>1. n + 1 \in FirstOf(t, k)
      BY <1>1, <2>1, <2>3 DEF FirstOf
    <3>2. ASSUME NEW j \in FirstOf(t, k)
          PROVE  j = n + 1
      BY <1>1, <2>1, <3>2 DEF FirstOf
    <3>3. FirstOf(t, k) = {n + 1}
      BY <3>1, <3>2
    <3>4. ValueOf(t, k) = l.value
      BY <1>1, <3>3 DEF ValueOf
    <3> QED
      BY <2>2, <2>3, <3>4 DEF t, ValueOf
  <2>4. CASE l.key # k
    <3>1. FirstOf(t, k) = {}
      BY <1>1, <2>1, <2>4 DEF FirstOf
    <3> QED
      BY <2>2, <2>4, <3>1 DEF t, ValueOf
  <2> QED
    BY <2>3, <2>4
<1> QED
  BY <1>2, <1>3

\* No header lines change nothing, and one more is added after the others.
LEMMA AddNoHeaders ==
  ASSUME NEW r \in Requests
  PROVE  addHeaders(r, <<>>) = r
<1>1. \A k : FirstOf(<<>>, k) = {}
  BY DEF FirstOf
<1>2. r.headers \in [HeaderKeys -> HeaderValues \cup {""}]
  BY Members DEF HeaderLists
<1>3. [k \in HeaderKeys |-> IF r.headers[k] # "" THEN r.headers[k] ELSE ""] = r.headers
  BY <1>2
<1>4. \A k : ValueOf(<<>>, k) = ""
  BY <1>1, Zenon DEF ValueOf
<1>5. addHeaders(r, <<>>) = [r EXCEPT !.headers = r.headers]
  <2>1. addHeaders(r, <<>>) =
           [r EXCEPT !.headers = [k \in HeaderKeys |->
              IF r.headers[k] # "" THEN r.headers[k] ELSE ValueOf(<<>>, k)]]
    BY AddHeadersValues
  <2>2. [k \in HeaderKeys |-> IF r.headers[k] # "" THEN r.headers[k] ELSE ValueOf(<<>>, k)]
          = r.headers
    BY <1>3, <1>4
  <2> QED
    BY <2>1, <2>2
<1> QED
  BY <1>5 DEF Requests

LEMMA AddOneHeader ==
  ASSUME NEW r \in Requests, NEW s \in Seq(HeaderLines), NEW l \in HeaderLines
  PROVE  addHeaders(addHeaders(r, s), <<l>>) = addHeaders(r, Append(s, l))
<1> DEFINE q == addHeaders(r, s)
           own(k) == IF l.key = k THEN l.value ELSE ""
<1>1. q \in Requests
  <2>1. s \in Seq(Lines) /\ \A i \in DOMAIN s : s[i].kind = "header"
    <3>1. HeaderLines \subseteq Lines
      BY DEF Lines
    <3>2. \A h \in HeaderLines : h.kind = "header"
      BY DEF HeaderLines
    <3> QED
      BY <3>1, <3>2
  <2> QED
    BY <2>1, AddHeadersType
<1>2. ASSUME NEW k
      PROVE  ValueOf(<<l>>, k) = own(k)
  <2>1. Append(<<>>, l) = <<l>> /\ <<>> \in Seq(HeaderLines)
    OBVIOUS
  <2>2. ValueOf(<<>>, k) = ""
    <3>1. FirstOf(<<>>, k) = {}
      BY DEF FirstOf
    <3> QED
      BY <3>1, Zenon DEF ValueOf
  <2>3. ValueOf(Append(<<>>, l), k) = IF ValueOf(<<>>, k) # "" THEN ValueOf(<<>>, k) ELSE own(k)
    BY <2>1, ValueOfAppended, Zenon
  <2> QED
    BY <2>1, <2>2, <2>3
<1>3. ASSUME NEW k \in HeaderKeys
      PROVE  (IF q.headers[k] # "" THEN q.headers[k] ELSE ValueOf(<<l>>, k))
               = IF r.headers[k] # "" THEN r.headers[k] ELSE ValueOf(Append(s, l), k)
  <2>1. q.headers[k] = IF r.headers[k] # "" THEN r.headers[k] ELSE ValueOf(s, k)
    <3>1. q = [r EXCEPT !.headers = [j \in HeaderKeys |->
                 IF r.headers[j] # "" THEN r.headers[j] ELSE ValueOf(s, j)]]
      BY AddHeadersValues
    <3> HIDE DEF q
    <3>2. q.headers = [j \in HeaderKeys |->
                 IF r.headers[j] # "" THEN r.headers[j] ELSE ValueOf(s, j)]
      BY <3>1 DEF Requests
    <3> QED
      BY <3>2
  <2>2. ValueOf(Append(s, l), k) = IF ValueOf(s, k) # "" THEN ValueOf(s, k) ELSE own(k)
    BY ValueOfAppended
  <2> HIDE DEF q, own
  <2> QED
    BY <1>2, <2>1, <2>2
<1> DEFINE one == [k \in HeaderKeys |->
                     IF q.headers[k] # "" THEN q.headers[k] ELSE ValueOf(<<l>>, k)]
           two == [k \in HeaderKeys |->
                     IF r.headers[k] # "" THEN r.headers[k] ELSE ValueOf(Append(s, l), k)]
           had == [k \in HeaderKeys |->
                     IF r.headers[k] # "" THEN r.headers[k] ELSE ValueOf(s, k)]
<1>4. one = two
  BY <1>3, Zenon
<1>5. addHeaders(q, <<l>>) = [q EXCEPT !.headers = one]
  BY <1>1, AddHeadersValues
<1>6. addHeaders(r, Append(s, l)) = [r EXCEPT !.headers = two]
  BY AddHeadersValues
<1>7. q = [r EXCEPT !.headers = had]
  BY AddHeadersValues
<1> HIDE DEF one, two, had, q
<1>8. [[r EXCEPT !.headers = had] EXCEPT !.headers = two] = [r EXCEPT !.headers = two]
  BY DEF Requests
<1> QED
  BY <1>4, <1>5, <1>6, <1>7, <1>8 DEF q

\* The lines after the request line, one by one or all at once.
LEMMA HeadersLoop ==
  ASSUME NEW q \in Requests, q.parseStatus = "headerLine",
         NEW b \in Seq(Lines), Len(b) >= 2, b[Len(b)] = Blank,
         \A i \in 2..(Len(b) - 1) : b[i] # Blank,
         NEW g, g[1] = q, \A i \in 1..Len(b) : g[i] = httpParseLine(g[i - 1], b[i])
  PROVE  g[Len(b)] = parseHeaders(q, SubSeq(b, 2, Len(b) - 1))
<1> DEFINE n == Len(b)
           lines == SubSeq(b, 2, n - 1)
           part(i) == SubSeq(lines, 1, i)
           bad == {i \in DOMAIN lines : lines[i].kind # "header"}
<1>1. /\ n \in Nat /\ n >= 2 /\ lines \in Seq(Lines) /\ Len(lines) = n - 2
      /\ DOMAIN lines = 1..(n - 2)
      /\ \A i \in 1..(n - 2) : /\ lines[i] = b[i + 1] /\ lines[i] \in Lines
                               /\ lines[i] # Blank
  <2>1. n \in Nat /\ n >= 2 /\ 2 \in 1..n /\ n - 1 \in 1..n
    OBVIOUS
  <2>2. lines \in Seq(Lines) /\ Len(lines) = n - 2
    <3>1. \A i \in 2..(n - 1) : b[i] \in Lines
      OBVIOUS
    <3>2. (n - 1) - 2 + 1 = n - 2 /\ 2 <= (n - 1) + 1
      BY <2>1
    <3> QED
      BY <2>1, <3>1, <3>2, SubSeqProperties
  <2>3. DOMAIN lines = 1..(n - 2)
    <3> HIDE DEF lines
    <3> QED
      BY <2>2
  <2>4. \A i \in 1..(n - 2) : lines[i] = b[i + 1] /\ i + 1 \in 2..(n - 1) /\ i + 1 \in 1..n
    BY <2>1
  <2>5. \A i \in 1..n : b[i] \in Lines
    OBVIOUS
  <2> HIDE DEF lines, n
  <2>6. \A i \in 2..(n - 1) : b[i] # Blank
    BY DEF n
  <2> QED
    BY <2>1, <2>2, <2>3, <2>4, <2>5, <2>6
<1>2. \A l \in Lines : l.kind = "header" => l \in HeaderLines
  BY DEF Lines, RequestLines, Blank, Junk
<1> HIDE DEF n, lines
\* As long as they are headers.
<1>3. ASSUME NEW m \in 0..(n - 2), \A i \in 1..m : lines[i].kind = "header"
      PROVE  /\ g[m + 1] = addHeaders(q, part(m))
             /\ addHeaders(q, part(m)) \in Requests
             /\ addHeaders(q, part(m)).parseStatus = "headerLine"
  <2> DEFINE S == {i \in Nat : /\ g[i + 1] = addHeaders(q, part(i))
                               /\ addHeaders(q, part(i)) \in Requests
                               /\ addHeaders(q, part(i)).parseStatus = "headerLine"}
  <2>1. 0 \in S
    <3>1. part(0) = <<>>
      BY <1>1
    <3> HIDE DEF part
    <3>2. addHeaders(q, part(0)) = q
      BY <3>1, AddNoHeaders
    <3>3. g[0 + 1] = q
      <4>1. 0 + 1 = 1
        OBVIOUS
      <4> QED
        BY <4>1
    <3> QED
      BY <3>2, <3>3
  <2>2. ASSUME NEW i \in 0..(m - 1), i \in S
        PROVE  i + 1 \in S
    <3>1. i \in Nat /\ i + 1 \in 1..m /\ i + 1 \in 1..(n - 2) /\ i + 2 \in 1..n
          /\ i + 2 - 1 = i + 1
      BY <1>1
    <3>2. part(i) \in Seq(HeaderLines) /\ lines[i + 1] \in HeaderLines
          /\ part(i + 1) = Append(part(i), lines[i + 1])
      <4>1. \A j \in 1..m : j \in 1..(n - 2) /\ lines[j] \in HeaderLines
        BY <1>1, <1>2, <1>3
      <4>2. Len(part(i)) = i /\ \A j \in 1..i : part(i)[j] = lines[j] /\ j \in 1..m
        BY <1>1, <3>1
      <4>3. part(i) \in Seq(HeaderLines)
        BY <1>1, <3>1, <4>1, <4>2
      <4>4. part(i + 1) = Append(part(i), lines[i + 1])
        BY <1>1, <3>1
      <4> QED
        BY <3>1, <4>1, <4>3, <4>4
    <3>3. addHeaders(q, part(i + 1)) = addHeaders(addHeaders(q, part(i)), <<lines[i + 1]>>)
      BY <3>2, AddOneHeader
    <3>4. g[i + 2] = httpParseLine(g[i + 1], b[i + 2])
      BY <3>1 DEF n
    <3>5. lines[i + 1] = b[i + 2] /\ lines[i + 1] \in Lines /\ lines[i + 1].kind = "header"
      BY <1>1, <1>3, <3>1
    <3>6. g[i + 2] = addHeaders(addHeaders(q, part(i)), <<lines[i + 1]>>)
      <4> HIDE DEF part
      <4>1. /\ g[i + 1] = addHeaders(q, part(i))
            /\ addHeaders(q, part(i)).parseStatus = "headerLine"
        BY <2>2
      <4> QED
        BY <3>4, <3>5, <4>1, LineOfHeader
    <3>7. addHeaders(q, part(i + 1)) \in Requests
      <4>1. part(i + 1) \in Seq(HeaderLines)
        BY <3>2
      <4>2. HeaderLines \subseteq Lines /\ \A l \in HeaderLines : l.kind = "header"
        BY DEF HeaderLines, Lines
      <4> HIDE DEF part
      <4>3. /\ part(i + 1) \in Seq(Lines)
            /\ \A j \in DOMAIN part(i + 1) : part(i + 1)[j].kind = "header"
        BY <4>1, <4>2
      <4> QED
        BY <4>3, AddHeadersType
    <3>8. addHeaders(q, part(i + 1)).parseStatus = "headerLine"
      <4> HIDE DEF part
      <4> QED
        BY DEF addHeaders, Requests
    <3> HIDE DEF part
    <3> QED
      BY <3>1, <3>3, <3>6, <3>7, <3>8
  <2> HIDE DEF S
  <2>3. \A i \in 0..m : i \in S
    <3>1. m \in Nat /\ 0 \in Nat
      BY <1>1
    <3> QED
      BY <2>1, <2>2, <3>1, AllPositions
  <2> QED
    BY <2>3 DEF S
<1>4. CASE bad = {}
  <2>1. \A i \in 1..(n - 2) : lines[i].kind = "header"
    BY <1>1, <1>4
  <2>2. part(n - 2) = lines
    BY <1>1
  <2>3. g[n - 1] = addHeaders(q, lines) /\ addHeaders(q, lines).parseStatus = "headerLine"
    <3>1. n - 2 \in 0..(n - 2) /\ (n - 2) + 1 = n - 1
      BY <1>1
    <3> HIDE DEF part
    <3> QED
      BY <1>3, <2>1, <2>2, <3>1
  <2>4. g[n] = httpParseLine(g[n - 1], Blank)
    BY <1>1 DEF n
  <2>5. g[n] = endOfHeaders(addHeaders(q, lines))
    <3> DEFINE p == addHeaders(q, lines)
    <3>1. Blank \in Lines
      BY DEF Lines
    <3> HIDE DEF p
    <3>2. p.parseStatus = "headerLine" => httpParseLine(p, Blank) = endOfHeaders(p)
      BY <3>1, LineOfHeader, ZenonT(60)
    <3> QED
      BY <2>3, <2>4, <3>2 DEF p
  <2> QED
    BY <1>4, <2>5 DEF parseHeaders, n, lines
<1>5. CASE bad # {}
  <2> DEFINE k == CHOOSE i \in bad : \A j \in bad : i <= j
  <2>1. k \in bad /\ \A j \in bad : k <= j
    <3>1. bad \in SUBSET Nat
      BY <1>1
    <3> HIDE DEF bad
    <3> QED
      BY <1>5, <3>1, SmallestIndex, Zenon
  <2> HIDE DEF k
  <2>2. /\ k \in 1..(n - 2) /\ lines[k].kind # "header" /\ k - 1 \in 0..(n - 2)
        /\ \A i \in 1..(k - 1) : lines[i].kind = "header"
    <3>1. k \in 1..(n - 2) /\ lines[k].kind # "header"
      BY <1>1, <2>1
    <3>2. \A i \in 1..(n - 2) : lines[i].kind # "header" => k <= i
      BY <1>1, <2>1
    <3> QED
      BY <1>1, <3>1, <3>2, SMTT(40)
  <2> DEFINE p == addHeaders(q, part(k - 1))
  <2>3. g[k] = p /\ p \in Requests /\ p.parseStatus = "headerLine"
    <3>1. (k - 1) + 1 = k
      BY <2>2
    <3> HIDE DEF part
    <3> QED
      BY <1>3, <2>2, <3>1
  <2>4. k + 1 \in 1..n /\ (k + 1) - 1 = k /\ lines[k] = b[k + 1] /\ lines[k] \in Lines
        /\ lines[k] # Blank
    BY <1>1, <2>2, SMTT(40)
  <2>5. g[k + 1] = httpParseLine(g[k], b[k + 1])
    BY <2>4 DEF n
  <2> HIDE DEF p
  <2>6. g[k + 1] = setRequestError(p, 400)
    <3>1. httpParseLine(p, lines[k]) = setRequestError(p, 400)
      BY <2>2, <2>3, <2>4, LineOfHeader, ZenonT(60)
    <3> QED
      BY <2>3, <2>4, <2>5, <3>1
  <2>7. g[k + 1].parseStatus = "requestError"
    BY <2>3, <2>6, ErrorType
  <2>8. g[n] = g[k + 1]
    <3>1. \A i \in 1..n : \E line : g[i] = httpParseLine(g[i - 1], line)
      BY DEF n
    <3> QED
      BY <1>1, <2>4, <2>7, <3>1, LoopStops
  <2>9. parseHeaders(q, lines) = setRequestError(p, 400)
    BY <1>5 DEF parseHeaders, k, p
  <2> QED
    BY <2>6, <2>8, <2>9 DEF n, lines
<1> QED
  BY <1>4, <1>5

\* The block parsed line by line is the block parsed at once.
LEMMA LoopIsBlock ==
  ASSUME NEW r \in Requests, r.parseStatus \in {"requestLine", "contentLine"},
         NEW b \in Seq(Lines), Len(b) >= 2, b[Len(b)] = Blank,
         \A i \in 2..(Len(b) - 1) : b[i] # Blank
  PROVE  parseLines(r, b) = parseBlock(r, b)
<1>1. PICK g : /\ g[0] = r /\ g[Len(b)] = parseLines(r, b)
               /\ \A i \in 1..Len(b) : g[i] = httpParseLine(g[i - 1], b[i])
  <2>1. \A s \in Seq(Lines) :
          \E g : /\ g[0] = r /\ g[Len(s)] = parseLines(r, s)
                /\ \A i \in 1..Len(s) : g[i] = httpParseLine(g[i - 1], s[i])
    BY LoopRuns
  <2> QED
    BY <2>1
<1>2. Len(b) \in Nat /\ 1 \in 1..Len(b) /\ 1 - 1 = 0 /\ b[1] \in Lines
  OBVIOUS
<1>3. CASE r.parseStatus = "contentLine"
  <2>1. g[Len(b)] = parseContent(r, b)
    BY <1>1, <1>2, <1>3, ContentLoop
  <2> QED
    BY <1>1, <1>3, <2>1 DEF parseBlock
<1>4. CASE r.parseStatus = "requestLine"
  <2> DEFINE q == parseRequestLine(r, b[1])
  <2>1. q \in Requests /\ q.parseStatus \in {"requestError", "headerLine"}
    BY <1>2, RequestLineType
  <2>2. g[1] = q
    <3>1. g[1] = httpParseLine(r, b[1])
      BY <1>1, <1>2
    <3> QED
      BY <1>4, <3>1, LineOfRequest
  <2> HIDE DEF q
  <2>3. CASE q.parseStatus = "requestError"
    <3>1. g[Len(b)] = g[1]
      <4>1. \A i \in 1..Len(b) : \E line : g[i] = httpParseLine(g[i - 1], line)
        BY <1>1
      <4> QED
        BY <1>2, <2>2, <2>3, <4>1, LoopStops
    <3> QED
      BY <1>1, <1>4, <2>2, <2>3, <3>1 DEF parseBlock, q
  <2>4. CASE q.parseStatus = "headerLine"
    <3>1. g[Len(b)] = parseHeaders(q, SubSeq(b, 2, Len(b) - 1))
      BY <1>1, <2>1, <2>2, <2>4, HeadersLoop
    <3> QED
      BY <1>1, <1>4, <2>4, <3>1 DEF parseBlock, q
  <2> QED
    BY <2>1, <2>3, <2>4
<1> QED
  BY <1>3, <1>4

\* Whatever was parsed before, httpParse gives what its loop gives, one
\* httpParseLine after the other, on every request a buffer may hold.
THEOREM LoopAlwaysAgrees == Spec => []LoopAgrees
<1>1. IInv => LoopAgrees
  <2> SUFFICES ASSUME IInv, NEW b \in Buffers, NEW e \in requestEnd(b)
               PROVE  httpParse(req, b, FALSE).req
                        = setRequestState(parseLines(req, SubSeq(b, 1, e)))
    BY DEF LoopAgrees
  <2> DEFINE block == SubSeq(b, 1, e)
  <2>1. b \in Seq(Lines) /\ e \in 2..Len(b) /\ b[e] = Blank
        /\ \A i \in 2..(e - 1) : b[i] # Blank
    BY BuffersAssumption DEF requestEnd
  <2>2. /\ block \in Seq(Lines) /\ Len(block) = e /\ Len(block) >= 2
        /\ \A i \in 1..e : block[i] = b[i]
    BY <2>1
  <2>3. block[Len(block)] = Blank /\ \A i \in 2..(Len(block) - 1) : block[i] # Blank
    BY <2>1, <2>2
  <2>4. (CHOOSE j \in requestEnd(b) : TRUE) = e
    <3>1. \A j \in requestEnd(b) : j = e
      BY <2>1 DEF requestEnd, Blank
    <3> QED
      BY <3>1
  <2>5. httpParse(req, b, FALSE).req = setRequestState(parseBlock(req, block))
    BY <2>4 DEF httpParse
  <2> HIDE DEF block
  <2>6. req \in Requests /\ req.parseStatus \in {"requestLine", "contentLine"}
    BY DEF IInv, Resting
  <2>7. parseLines(req, block) = parseBlock(req, block)
    BY <2>2, <2>3, <2>6, LoopIsBlock
  <2> QED
    BY <2>5, <2>7 DEF block
<1> QED
  BY <1>1, Invariance, PTL

-----------------------------------------------------------------------------
(* A good request on an object that has parsed others                      *)

\* Whatever the object has parsed before, a header block that is good on a new one
\* gives the same method, target, kind of response and parser state on it; and the
\* same measures of a body, if no Content-Length has come before it.
THEOREM ReuseAlwaysAsNew == Spec => []ReusedAsNew
<1>1. ASSUME IInv, NEW b \in Buffers, req.parseStatus = "requestLine",
             httpParse(NewRequest, b, FALSE).req.state # "ParsedError", requestEnd(b) # {}
      PROVE  LET fresh  == httpParse(NewRequest, b, FALSE).req
                 reused == httpParse(req, b, FALSE).req
                 k      == "Content-Length"
             IN /\ \A m \in SharedMembers : reused[m] = fresh[m]
                /\ req.headers[k] = "" =>
                     /\ reused.headers[k] = fresh.headers[k]
                     /\ reused.contentLength = fresh.contentLength
  <2> DEFINE fresh  == httpParse(NewRequest, b, FALSE).req
             reused == httpParse(req, b, FALSE).req
             k      == "Content-Length"
  <2>1. b \in Seq(Lines) /\ req \in Requests /\ Within(req) /\ k \in HeaderKeys
    BY <1>1, BuffersAssumption DEF IInv, HeaderKeys
  <2>2. /\ \A m \in SharedMembers : reused[m] = fresh[m]
        /\ reused.contentLength = req.contentLength /\ fresh.contentLength = 0
        /\ req.headers[k] = "" => reused.headers[k] = fresh.headers[k]
    BY <1>1, <2>1, RequestReused
  <2>3. ASSUME req.headers[k] = "" PROVE req.contentLength = 0
    <3>1. Atoi[req.headers["Content-Length"]] = 0
      BY <2>3, RequestAssumption
    <3>2. req.contentLength \in Nat
      BY <2>1 DEF Requests
    <3> QED
      BY <2>1, <3>1, <3>2 DEF Within
  <2> HIDE DEF fresh, reused, k
  <2>4. req.headers[k] = "" => reused.contentLength = fresh.contentLength
    BY <2>2, <2>3
  <2> QED
    BY <2>2, <2>4 DEF fresh, reused, k
<1>2. IInv => ReusedAsNew
  BY <1>1 DEF ReusedAsNew, SharedMembers
<1> QED
  BY <1>2, Invariance, PTL

=============================================================================
