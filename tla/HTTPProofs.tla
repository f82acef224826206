----------------------------- MODULE HTTPProofs -----------------------------
(***************************************************************************)
(* Lemmas about the operators of HTTPRequest and HTTPResponse: what a call *)
(* of the parser or of the response object returns.                        *)
(***************************************************************************)
EXTENDS HTTPResponse, SequenceTheorems, WellFoundedInduction, TLAPS

\* The members of an object have their types.
LEMMA Members ==
  ASSUME NEW r \in Requests
  PROVE  /\ r.method \in Methods /\ r.uri \in Targets /\ r.headers \in HeaderLists
         /\ r.contentLength \in Nat /\ r.parseStatus \in ParseStates
         /\ r.state \in States /\ r.statusCode \in StatusCodes /\ r.isCGI \in BOOLEAN
BY DEF Requests

\* A set of indices that is not empty has a smallest element.
LEMMA SmallestIndex ==
  ASSUME NEW S \in SUBSET Nat, S # {}
  PROVE  \E i \in S : \A j \in S : i <= j
<1>1. PICK i \in S : \A j \in S : <<j, i>> \notin OpToRel(<, Nat)
  BY WFMin, NatLessThanWellFounded, Zenon
<1>2. ASSUME NEW j \in S
      PROVE  i <= j
  <2>1. ~(j < i)
    BY <1>1, Zenon DEF OpToRel
  <2> QED
    BY <2>1
<1> QED
  BY <1>2

\* setRequestError leaves a well-formed object in the error state.
LEMMA ErrorType ==
  ASSUME NEW r \in Requests, NEW code \in {400, 411, 501, 505}
  PROVE  /\ setRequestError(r, code) \in Requests
         /\ setRequestError(r, code).parseStatus = "requestError"
<1>1. code \in StatusCodes
  BY DEF StatusCodes
<1>2. "requestError" \in ParseStates
  BY DEF ParseStates
<1> QED
  BY <1>1, <1>2, ZenonT(60) DEF setRequestError, Requests

\* So does the clean-up after it.
LEMMA CleanUpType ==
  ASSUME NEW r \in Requests
  PROVE  /\ deleteURI(r) \in Requests
         /\ deleteURI(r).parseStatus = r.parseStatus
<1>1. (IF r.uri = NULL THEN NULL ELSE Freed) \in Targets
  BY DEF Targets
<1> QED
  BY <1>1 DEF deleteURI, Requests

\* parseRequestLine leaves a well-formed object, in one of two parser states.
LEMMA RequestLineType ==
  ASSUME NEW r \in Requests, NEW line \in Lines
  PROVE  /\ parseRequestLine(r, line) \in Requests
         /\ parseRequestLine(r, line).parseStatus \in {"requestError", "headerLine"}
<1> DEFINE known == line.kind = "request" /\ line.method \in KnownMethods
           m == IF known THEN line.method ELSE r.method
           q == [r EXCEPT !.method = m]
           fail(code) == deleteURI(setRequestError(q, code))
<1>1. m \in Methods
  BY Members DEF Methods
<1> HIDE DEF m
<1>2. q \in Requests
  BY <1>1 DEF Requests
<1>3. ASSUME NEW code \in {400, 411, 501, 505}
      PROVE  fail(code) \in Requests /\ fail(code).parseStatus = "requestError"
  BY <1>2, ErrorType, CleanUpType
<1>4. CASE line.kind # "request"
  <2>1. parseRequestLine(r, line) = fail(400)
    BY <1>4 DEF parseRequestLine, m
  <2> QED
    BY <1>3, <2>1
<1>5. CASE line.kind = "request"
  <2>1. line \in RequestLines
    BY <1>5 DEF Lines, HeaderLines, Blank, Junk
  <2>2. newURI(r, line) \in Targets
    BY <2>1 DEF RequestLines, Targets, newURI
  <2>3. isCGI(r, line) \in BOOLEAN
    BY DEF isCGI
  <2> DEFINE p(u, i) == [r EXCEPT !.method = m, !.uri = u, !.isCGI = i,
                                  !.parseStatus = "headerLine"]
  <2>4. ASSUME NEW u \in Targets, NEW i \in BOOLEAN
        PROVE  p(u, i) \in Requests /\ p(u, i).parseStatus = "headerLine"
    <3>1. "headerLine" \in ParseStates
      BY DEF ParseStates
    <3> QED
      BY <1>1, <3>1 DEF Requests
  <2>5. \/ parseRequestLine(r, line) = fail(501)
        \/ parseRequestLine(r, line) = fail(505)
        \/ parseRequestLine(r, line) = p(newURI(r, line), isCGI(r, line))
    BY <1>5 DEF parseRequestLine, m
  <2> HIDE DEF p, fail
  <2> QED
    BY <1>3, <2>2, <2>3, <2>4, <2>5
<1> QED
  BY <1>4, <1>5

\* Header lines are kept: the object stays well formed.
LEMMA AddHeadersType ==
  ASSUME NEW r \in Requests, NEW lines \in Seq(Lines),
         \A i \in DOMAIN lines : lines[i].kind = "header"
  PROVE  addHeaders(r, lines) \in Requests
<1> DEFINE value(k) == IF r.headers[k] # "" \/ FirstOf(lines, k) = {} THEN r.headers[k]
                       ELSE lines[CHOOSE i \in FirstOf(lines, k) : TRUE].value
           h == [k \in HeaderKeys |-> value(k)]
<1>1. ASSUME NEW k \in HeaderKeys
      PROVE  value(k) \in HeaderValues \cup {""}
  <2>1. r.headers[k] \in HeaderValues \cup {""}
    BY Members DEF HeaderLists
  <2>2. CASE FirstOf(lines, k) # {}
    <3> DEFINE i == CHOOSE j \in FirstOf(lines, k) : TRUE
    <3>1. i \in FirstOf(lines, k)
      BY <2>2
    <3>2. i \in DOMAIN lines
      BY <3>1 DEF FirstOf
    <3> HIDE DEF i
    <3>3. lines[i] \in Lines /\ lines[i].kind = "header"
      BY <3>2
    <3>4. lines[i] \in HeaderLines
      BY <3>3 DEF Lines, RequestLines, Blank, Junk
    <3>5. lines[i].value \in HeaderValues
      BY <3>4 DEF HeaderLines
    <3> QED
      BY <2>1, <3>5 DEF i
  <2> QED
    BY <2>1, <2>2
<1> HIDE DEF value
<1>2. h \in HeaderLists
  BY <1>1 DEF HeaderLists
<1>3. addHeaders(r, lines) = [r EXCEPT !.headers = h]
  BY DEF addHeaders, value
<1> HIDE DEF h
<1> QED
  BY <1>2, <1>3 DEF Requests

\* The lines after the request line leave a well-formed object.
LEMMA HeadersType ==
  ASSUME NEW r \in Requests, NEW lines \in Seq(Lines)
  PROVE  parseHeaders(r, lines) \in Requests
<1> DEFINE bad == {i \in DOMAIN lines : lines[i].kind # "header"}
           b == CHOOSE i \in bad : \A j \in bad : i <= j
           q == addHeaders(r, lines)
<1>1. CASE bad = {}
  <2>1. q \in Requests
    BY <1>1, AddHeadersType
  <2>2. setRequestError(q, 411) \in Requests
    BY <2>1, ErrorType
  <2>3. ASSUME NEW s \in {"contentLine", "requestDone"}
        PROVE  [q EXCEPT !.parseStatus = s] \in Requests
    <3>1. s \in ParseStates
      BY DEF ParseStates
    <3> HIDE DEF q
    <3> QED
      BY <2>1, <3>1 DEF Requests
  <2>4. parseHeaders(r, lines) = endOfHeaders(q)
    BY <1>1 DEF parseHeaders
  <2> HIDE DEF q
  <2> QED
    BY <2>2, <2>3, <2>4 DEF endOfHeaders
<1>2. CASE bad # {}
  <2> DEFINE good == SubSeq(lines, 1, b - 1)
  <2>1. b \in bad /\ \A j \in bad : b <= j
    <3>1. bad \subseteq Nat
      OBVIOUS
    <3>2. \E i \in bad : \A j \in bad : i <= j
      BY <1>2, <3>1, SmallestIndex
    <3> QED
      BY <3>2
  <2>2. b \in 1..Len(lines)
    BY <2>1
  <2> HIDE DEF b
  <2>3. good \in Seq(Lines) /\ \A i \in DOMAIN good : i \in 1..(b - 1) /\ good[i] = lines[i]
    BY <2>2
  <2>4. \A i \in DOMAIN good : good[i].kind = "header"
    BY <2>1, <2>2, <2>3
  <2>5. addHeaders(r, good) \in Requests
    BY <2>3, <2>4, AddHeadersType
  <2>6. parseHeaders(r, lines) = setRequestError(addHeaders(r, good), 400)
    BY <1>2 DEF parseHeaders, b
  <2> HIDE DEF good
  <2> QED
    BY <2>5, <2>6, ErrorType
<1> QED
  BY <1>1, <1>2

\* A block of lines leaves a well-formed object, as content and as a head.
LEMMA BlockType ==
  ASSUME NEW r \in Requests, NEW block \in Seq(Lines), Len(block) >= 2, ~negativeBody(r)
  PROVE  parseBlock(r, block) \in Requests
<1>1. ASSUME r.parseStatus = "contentLine"
      PROVE  parseContent(r, block) \in Requests
  <2> DEFINE length == Atoi[r.headers["Content-Length"]]
  <2>1. length \in Nat
    <3>1. r.headers["Content-Length"] \in HeaderValues \cup {""} /\ r.contentLength \in Nat
      BY Members DEF HeaderLists, HeaderKeys
    <3> DEFINE n == r.contentLength
    <3>2. length \in Int /\ n \in Nat /\ ~(length < n)
      BY <1>1, <3>1, RequestAssumption DEF negativeBody
    <3> HIDE DEF length, n
    <3> QED
      BY <3>2
  <2>2. "requestDone" \in ParseStates
    BY DEF ParseStates
  <2>3. r.contentLength + Len(block) \in Nat
    BY Members
  <2> HIDE DEF length
  <2>4. [r EXCEPT !.contentLength = length, !.parseStatus = "requestDone"] \in Requests
    BY <2>1, <2>2 DEF Requests
  <2>5. [r EXCEPT !.contentLength = r.contentLength + Len(block)] \in Requests
    BY <2>3 DEF Requests
  <2> QED
    BY <2>4, <2>5 DEF parseContent, length
<1>2. ASSUME r.parseStatus # "contentLine"
      PROVE  parseBlock(r, block) \in Requests
  <2> DEFINE q == parseRequestLine(r, block[1])
             rest == SubSeq(block, 2, Len(block) - 1)
  <2>1. block[1] \in Lines
    OBVIOUS
  <2>2. q \in Requests
    BY <2>1, RequestLineType
  <2>3. rest \in Seq(Lines)
    BY SubSeqProperties
  <2> HIDE DEF q, rest
  <2>4. parseHeaders(q, rest) \in Requests
    BY <2>2, <2>3, HeadersType
  <2> QED
    BY <1>2, <2>2, <2>4 DEF parseBlock, q, rest
<1> QED
  BY <1>1, <1>2 DEF parseBlock

\* So does the end of httpParse.
LEMMA StateType ==
  ASSUME NEW r \in Requests
  PROVE  setRequestState(r) \in Requests
<1>1. "requestLine" \in ParseStates /\ {"ParsedError", "ParsedCorrect", "Parsing"} \subseteq States
  BY DEF ParseStates, States
<1>2. \A s \in States : /\ [r EXCEPT !.state = s] \in Requests
                        /\ [r EXCEPT !.state = s, !.parseStatus = "requestLine"] \in Requests
  BY <1>1 DEF Requests
<1> QED
  BY <1>1, <1>2 DEF setRequestState

\* httpParse leaves a well-formed object and never claims to have parsed more
\* than the buffer holds, which removeReadSize relies on.
LEMMA ParseType ==
  ASSUME NEW r \in Requests, NEW buf \in Seq(Lines), NEW full \in BOOLEAN,
         ~parseEnds(r, buf)
  PROVE  /\ httpParse(r, buf, full).req \in Requests
         /\ httpParse(r, buf, full).size \in 0..Len(buf)
<1>1. CASE requestEnd(buf) # {}
  <2> DEFINE e == CHOOSE j \in requestEnd(buf) : TRUE
             block == SubSeq(buf, 1, e)
  <2>1. e \in 2..Len(buf)
    BY <1>1 DEF requestEnd
  <2> HIDE DEF e
  <2>2. block \in Seq(Lines) /\ Len(block) = e
    BY <2>1, SubSeqProperties
  <2>3. setRequestState(parseBlock(r, block)) \in Requests
    <3>1. Len(block) >= 2 /\ ~negativeBody(r)
      BY <1>1, <2>1, <2>2 DEF parseEnds
    <3> HIDE DEF block
    <3> QED
      BY <2>2, <3>1, BlockType, StateType
  <2>4. httpParse(r, buf, full) = [req |-> setRequestState(parseBlock(r, block)), size |-> e]
    BY <1>1 DEF httpParse, e
  <2> QED
    BY <2>1, <2>3, <2>4
<1>2. CASE requestEnd(buf) = {}
  <2>1. "requestLine" \in ParseStates
    BY DEF ParseStates
  <2>2. [r EXCEPT !.parseStatus = "requestLine"] \in Requests
    BY <2>1 DEF Requests
  <2> DEFINE q == IF full THEN [r EXCEPT !.parseStatus = "requestLine"] ELSE r
             n == IF full THEN Len(buf) ELSE 0
  <2>3. q \in Requests /\ n \in 0..Len(buf)
    BY <2>2
  <2>4. httpParse(r, buf, full) = [req |-> setRequestState(q), size |-> n]
    BY <1>2 DEF httpParse
  <2> HIDE DEF q, n
  <2> QED
    BY <2>3, <2>4, StateType
<1> QED
  BY <1>1, <1>2

-----------------------------------------------------------------------------
(* The request target                                                      *)

\* Whether an object has a target depends on two of its members.
LEMMA SameTarget ==
  ASSUME NEW q, NEW r, q.uri = r.uri, q.isCGI = r.isCGI
  PROVE  HasTarget(q) <=> HasTarget(r)
BY DEF HasTarget

\* A request line that is accepted leaves a target.
LEMMA RequestLineURI ==
  ASSUME NEW r \in Requests, NEW line \in Lines,
         parseRequestLine(r, line).parseStatus # "requestError"
  PROVE  HasTarget(parseRequestLine(r, line))
<1> DEFINE m == IF line.kind = "request" /\ line.method \in KnownMethods
                THEN line.method ELSE r.method
           q == [r EXCEPT !.method = m]
           fail(code) == deleteURI(setRequestError(q, code))
           p == [r EXCEPT !.method = m, !.uri = newURI(r, line), !.isCGI = isCGI(r, line),
                          !.parseStatus = "headerLine"]
<1>1. m \in Methods
  BY Members DEF Methods
<1> HIDE DEF m
<1>2. q \in Requests
  BY <1>1 DEF Requests
<1>3. ASSUME NEW code \in {400, 411, 501, 505}
      PROVE  fail(code).parseStatus = "requestError"
  BY <1>2, ErrorType, CleanUpType
<1>4. /\ line.kind = "request"
      /\ parseRequestLine(r, line) = p
  <2>1. \/ parseRequestLine(r, line) = fail(400)
        \/ parseRequestLine(r, line) = fail(501)
        \/ parseRequestLine(r, line) = fail(505)
        \/ line.kind = "request" /\ parseRequestLine(r, line) = p
    BY DEF parseRequestLine, m
  <2> HIDE DEF fail, p
  <2> QED
    BY <1>3, <2>1
<1>5. line.uri \in URIs
  BY <1>4 DEF Lines, RequestLines, HeaderLines, Blank, Junk
<1>6. p.uri = line.uri
  BY DEF Requests, newURI
<1>7. p.isCGI = (line.uri \in CGIURIs)
  BY Zenon DEF Requests, isCGI
<1>8. HasTarget(p)
  <2> HIDE DEF p
  <2> QED
    BY <1>5, <1>6, <1>7, Zenon DEF HasTarget
<1> QED
  BY <1>4, <1>8, Zenon

\* The headers keep it.
LEMMA HeadersURI ==
  ASSUME NEW r \in Requests, NEW lines
  PROVE  /\ parseHeaders(r, lines).uri = r.uri
         /\ parseHeaders(r, lines).isCGI = r.isCGI
         /\ parseHeaders(r, lines).parseStatus \in {"requestError", "requestDone", "contentLine"}
<1>1. \A ls : addHeaders(r, ls).uri = r.uri /\ addHeaders(r, ls).isCGI = r.isCGI
  BY DEF addHeaders, Requests
<1>2. \A ls : /\ endOfHeaders(addHeaders(r, ls)).uri = addHeaders(r, ls).uri
              /\ endOfHeaders(addHeaders(r, ls)).isCGI = addHeaders(r, ls).isCGI
  <2>1. \A ls : \A s : /\ [addHeaders(r, ls) EXCEPT !.parseStatus = s].uri
                            = addHeaders(r, ls).uri
                       /\ [addHeaders(r, ls) EXCEPT !.parseStatus = s].isCGI
                            = addHeaders(r, ls).isCGI
    BY DEF addHeaders, Requests
  <2>2. \A ls : /\ setRequestError(addHeaders(r, ls), 411).uri = addHeaders(r, ls).uri
                /\ setRequestError(addHeaders(r, ls), 411).isCGI = addHeaders(r, ls).isCGI
    BY DEF addHeaders, setRequestError, Requests
  <2> QED
    BY <2>1, <2>2 DEF endOfHeaders
<1>3. \A ls : /\ setRequestError(addHeaders(r, ls), 400).uri = addHeaders(r, ls).uri
              /\ setRequestError(addHeaders(r, ls), 400).isCGI = addHeaders(r, ls).isCGI
  BY DEF addHeaders, setRequestError, Requests
<1>4. \A ls : endOfHeaders(addHeaders(r, ls)).parseStatus
               \in {"requestError", "requestDone", "contentLine"}
  BY DEF addHeaders, endOfHeaders, setRequestError, Requests
<1>5. \A ls : setRequestError(addHeaders(r, ls), 400).parseStatus = "requestError"
  BY DEF addHeaders, setRequestError, Requests
<1> QED
  BY <1>1, <1>2, <1>3, <1>4, <1>5 DEF parseHeaders

\* Hence a block that does not end in an error ends with a target.
LEMMA BlockURI ==
  ASSUME NEW r \in Requests, Resting(r), NEW block \in Seq(Lines), Len(block) >= 2
  PROVE  \/ parseBlock(r, block).parseStatus = "requestError"
         \/ /\ parseBlock(r, block).parseStatus \in {"requestDone", "contentLine"}
            /\ HasTarget(parseBlock(r, block))
<1>1. CASE r.parseStatus = "contentLine"
  <2>1. /\ parseContent(r, block).uri = r.uri
        /\ parseContent(r, block).isCGI = r.isCGI
        /\ parseContent(r, block).parseStatus \in {"requestDone", r.parseStatus}
    BY DEF parseContent, Requests
  <2>2. HasTarget(parseContent(r, block))
    BY <1>1, <2>1, SameTarget, Zenon DEF Resting
  <2> QED
    BY <1>1, <2>1, <2>2 DEF parseBlock, Resting
<1>2. CASE r.parseStatus # "contentLine"
  <2> DEFINE q == parseRequestLine(r, block[1])
  <2>1. block[1] \in Lines
    OBVIOUS
  <2>2. q \in Requests
    BY <2>1, RequestLineType
  <2>3. q.parseStatus = "requestError" => parseBlock(r, block).parseStatus = "requestError"
    BY <1>2 DEF parseBlock
  <2>4. q.parseStatus # "requestError" => HasTarget(q)
    BY <2>1, RequestLineURI
  <2>5. q.parseStatus # "requestError" =>
          parseBlock(r, block) = parseHeaders(q, SubSeq(block, 2, Len(block) - 1))
    BY <1>2 DEF parseBlock
  <2> HIDE DEF q
  <2>6. q.parseStatus # "requestError" => HasTarget(parseBlock(r, block))
    <3> DEFINE ls == SubSeq(block, 2, Len(block) - 1)
    <3>1. /\ parseHeaders(q, ls).uri = q.uri
          /\ parseHeaders(q, ls).isCGI = q.isCGI
      BY <2>2, HeadersURI
    <3> HIDE DEF ls
    <3> DEFINE h == parseHeaders(q, ls)
    <3>2. HasTarget(h) <=> HasTarget(q)
      <4> HIDE DEF h
      <4> QED
        BY <3>1, SameTarget DEF h
    <3>3. q.parseStatus # "requestError" => parseBlock(r, block) = h
      BY <2>5 DEF ls
    <3> HIDE DEF h
    <3> QED
      BY <2>4, <3>2, <3>3, Zenon
  <2> QED
    BY <2>2, <2>3, <2>5, <2>6, HeadersURI
<1> QED
  BY <1>1, <1>2

\* A request that is parsed correctly, or waits for its body, has a target, and
\* none that clean-up has deleted.
LEMMA ParseURI ==
  ASSUME NEW r \in Requests, Resting(r), NEW buf \in Seq(Lines), NEW full \in BOOLEAN,
         ~parseEnds(r, buf)
  PROVE  LET q == httpParse(r, buf, full).req
         IN Resting(q) /\ (q.state = "ParsedCorrect" => HasTarget(q))
<1>1. ASSUME NEW q \in Requests
      PROVE  /\ setRequestState(q).uri = q.uri /\ setRequestState(q).isCGI = q.isCGI
             /\ q.parseStatus = "requestError" => setRequestState(q).state = "ParsedError"
             /\ setRequestState(q).parseStatus =
                  IF q.parseStatus \in {"requestError", "requestDone"} THEN "requestLine"
                  ELSE q.parseStatus
             /\ setRequestState(q).state = "ParsedCorrect" => q.parseStatus = "requestDone"
  BY DEF setRequestState, Requests
<1>2. \A q \in Requests : HasTarget(setRequestState(q)) <=> HasTarget(q)
  BY <1>1, SameTarget, Zenon
<1>3. CASE requestEnd(buf) # {}
  <2> DEFINE e == CHOOSE j \in requestEnd(buf) : TRUE
             block == SubSeq(buf, 1, e)
             q == parseBlock(r, block)
  <2>1. e \in 2..Len(buf)
    BY <1>3 DEF requestEnd
  <2> HIDE DEF e
  <2>2. block \in Seq(Lines) /\ Len(block) = e
    BY <2>1, SubSeqProperties
  <2>3. Len(block) >= 2 /\ ~negativeBody(r)
    BY <1>3, <2>1, <2>2 DEF parseEnds
  <2> HIDE DEF block
  <2>4. /\ q \in Requests
        /\ \/ q.parseStatus = "requestError"
           \/ q.parseStatus \in {"requestDone", "contentLine"} /\ HasTarget(q)
    BY <2>2, <2>3, BlockType, BlockURI
  <2>5. httpParse(r, buf, full).req = setRequestState(q)
    BY <1>3 DEF httpParse, e, block
  <2> HIDE DEF q
  <2> QED
    BY <1>1, <1>2, <2>4, <2>5 DEF Resting
<1>4. CASE requestEnd(buf) = {}
  <2> DEFINE q == IF full THEN [r EXCEPT !.parseStatus = "requestLine"] ELSE r
  <2>1. "requestLine" \in ParseStates
    BY DEF ParseStates
  <2>2. q \in Requests /\ Resting(q)
    <3>1. q \in Requests /\ (full => q.parseStatus = "requestLine")
      BY <2>1 DEF Requests
    <3> QED
      BY <3>1 DEF Resting
  <2>3. httpParse(r, buf, full).req = setRequestState(q)
    BY <1>4 DEF httpParse
  <2> HIDE DEF q
  <2> QED
    BY <1>1, <1>2, <2>2, <2>3 DEF Resting
<1> QED
  BY <1>3, <1>4

-----------------------------------------------------------------------------
(* The response object                                                     *)

\* A new object is well formed.
LEMMA NewType == NewRequest \in Requests
<1>1. [k \in HeaderKeys |-> ""] \in HeaderLists
  BY DEF HeaderLists
<1>2. "UNIMPLEMENTED" \in Methods /\ NULL \in Targets /\ 0 \in StatusCodes
      /\ "Init" \in States /\ "requestLine" \in ParseStates
  BY DEF Methods, Targets, StatusCodes, States, ParseStates
<1> QED
  BY <1>1, <1>2 DEF NewRequest, Requests

\* What loadFile leaves is a number an int can say, and -1 of a file that is there
\* and was not mapped.
LEMMA LoadType ==
  ASSUME NEW u \in URIs, NEW o
  PROVE  /\ loadFile(u, o).mapped \in BOOLEAN /\ loadFile(u, o).length \in Int
         /\ loadFile(u, o).length <= INT_MAX
         /\ ~loadFile(u, o).mapped => loadFile(u, o).length \in {0, -1}
<1> DEFINE n == FileSize[u]
           w == 2 * (INT_MAX + 1)
           l == asInt(n)
<1>1. /\ n \in Nat \cup {-1} /\ Absent = -1
      /\ INT_MAX \in Nat /\ INT_MAX > 0 /\ w \in Nat /\ w > 0
  BY ResponseAssumption
<1>2. (n + INT_MAX + 1) % w \in 0..(w - 1)
  BY <1>1
<1>3. l \in Int /\ l <= INT_MAX
  BY <1>1, <1>2 DEF asInt
<1> HIDE DEF n, l
<1>4. loadFile(u, o) =
        (CASE n = Absent -> [mapped |-> FALSE, length |-> 0]
           [] n # Absent /\ (l <= 0 \/ o = "failed") -> [mapped |-> FALSE, length |-> -1]
           [] OTHER -> [mapped |-> TRUE, length |-> l])
  BY DEF loadFile, n, l
<1> HIDE DEF w
<1> QED
  BY <1>1, <1>3, <1>4

\* A response that is built has a pipe for nothing but a CGI request, and starts
\* at the beginning of its header and its file.
LEMMA BuildType ==
  ASSUME NEW o, NEW r \in Requests, r.isCGI \/ r.state = "ParsedError" \/ r.uri \in URIs
  PROVE  /\ buildResponse(r, o) \in Responses
         /\ buildResponse(r, o).CGIout => r.isCGI
         /\ PointersInRange(buildResponse(r, o))
<1> DEFINE b(s, h, n, m, c) ==
             [status |-> s, headerPtr |-> 0, maxHeaderPtr |-> h, filePtr |-> 0,
              maxFilePtr |-> n, fileBuffer |-> m, CGIout |-> c]
<1>1. ASSUME NEW s \in Statuses, NEW h \in Nat, NEW n \in Nat,
             NEW m \in BOOLEAN, NEW c \in BOOLEAN
      PROVE  b(s, h, n, m, c) \in Responses /\ b(s, h, n, m, c).CGIout = c
             /\ PointersInRange(b(s, h, n, m, c))
  BY DEF Responses, PointersInRange
<1>2. CASE r.isCGI
  <2> DEFINE x == b(0, 0, 0, FALSE, o = "done")
  <2>1. buildResponse(r, o) = x
    BY <1>2, Zenon DEF buildResponse, buildCGIResponse, NewResponse
  <2>2. 0 \in Statuses
    BY DEF Statuses, StatusCodes
  <2>3. (o = "done") \in BOOLEAN
    OBVIOUS
  <2>4. x \in Responses /\ PointersInRange(x)
    <3> DEFINE t == b(0, 0, 0, FALSE, TRUE)
               f == b(0, 0, 0, FALSE, FALSE)
    <3>1. /\ t \in Responses /\ PointersInRange(t)
          /\ f \in Responses /\ PointersInRange(f)
      <4> HIDE DEF b
      <4> QED
        BY <1>1, <2>2
    <3>2. o = "done" => x = t
      BY Zenon
    <3>3. o # "done" => x = f
      <4>1. o # "done" => (o = "done") = FALSE
        OBVIOUS
      <4> QED
        BY <4>1, Zenon
    <3> HIDE DEF x, t, f
    <3> QED
      BY <3>1, <3>2, <3>3
  <2> HIDE DEF x
  <2> QED
    BY <1>2, <2>1, <2>4
<1>3. CASE ~r.isCGI /\ r.state = "ParsedError"
  <2>1. buildResponse(r, o) = b(r.statusCode, HeaderSize, 0, FALSE, FALSE)
    BY <1>3 DEF buildResponse, buildHTTPResponse, NewResponse
  <2>2. r.statusCode \in Statuses
    BY Members DEF Statuses
  <2> HIDE DEF b
  <2>3. HeaderSize \in Nat /\ 0 \in Nat /\ FALSE \in BOOLEAN
    BY ResponseAssumption
  <2>4. r.isCGI = FALSE
    BY <1>3, Members, Zenon
  <2> DEFINE x == b(r.statusCode, HeaderSize, 0, FALSE, FALSE)
  <2>5. x \in Responses /\ x.CGIout = FALSE /\ PointersInRange(x)
    BY <1>1, <2>2, <2>3
  <2> HIDE DEF x
  <2>6. buildResponse(r, o) = x
    BY <2>1 DEF x
  <2> QED
    BY <2>4, <2>5, <2>6
<1>4. CASE ~r.isCGI /\ r.state # "ParsedError" /\ r.uri \in URIs
  <2> DEFINE f == loadFile(r.uri, o)
             s == IF f.mapped THEN 200 ELSE 404
             n == f.length % (SIZE_MAX + 1)
  <2>1. f.mapped \in BOOLEAN /\ f.length \in Int
    BY <1>4, ResponseAssumption, LoadType
  <2>2. n \in Nat
    BY <2>1, ResponseAssumption
  <2>3. s \in Statuses
    BY DEF Statuses
  <2>4. buildResponse(r, o) = b(s, HeaderSize, n, f.mapped, FALSE)
    <3> HIDE DEF f
    <3>1. buildResponse(r, o) = buildHTTPResponse(r, o)
      BY <1>4 DEF buildResponse
    <3>2. buildHTTPResponse(r, o) =
            [[NewResponse EXCEPT !.status = 200, !.maxHeaderPtr = HeaderSize]
               EXCEPT !.status = s, !.fileBuffer = f.mapped, !.maxFilePtr = n]
      BY <1>4 DEF buildHTTPResponse, f
    <3> HIDE DEF s, n
    <3> QED
      BY <3>1, <3>2, ZenonT(60) DEF NewResponse
  <2>5. HeaderSize \in Nat /\ FALSE \in BOOLEAN
    BY ResponseAssumption
  <2>6. r.isCGI = FALSE
    BY <1>4, Members, Zenon
  <2> HIDE DEF f, s, n, b
  <2> DEFINE x == b(s, HeaderSize, n, f.mapped, FALSE)
  <2>7. x \in Responses /\ x.CGIout = FALSE /\ PointersInRange(x)
    BY <1>1, <2>1, <2>2, <2>3, <2>5
  <2>8. buildResponse(r, o) = x
    BY <2>4
  <2> HIDE DEF x
  <2> QED
    BY <2>6, <2>7, <2>8
<1> QED
  BY <1>2, <1>3, <1>4

\* writeResponse copies no more than the space it is given, and no more of the
\* header and the file than there is.
LEMMA WriteResponseFits ==
  ASSUME NEW r \in Responses, PointersInRange(r), NEW space \in Nat
  PROVE  /\ hdPart_size(r, space) \in Nat /\ fdPart_size(r, space) \in Nat
         /\ hdPart_size(r, space) + fdPart_size(r, space) <= space
         /\ writeResponse(r, space) \in Responses
         /\ PointersInRange(writeResponse(r, space))
         /\ writeResponse(r, space).CGIout = r.CGIout
<1>1. /\ r.headerPtr \in Nat /\ r.maxHeaderPtr \in Nat
      /\ r.filePtr \in Nat /\ r.maxFilePtr \in Nat
  BY ResponseAssumption DEF Responses
<1> DEFINE hd == hdPart_size(r, space)
           fd == fdPart_size(r, space)
<1>2. hd \in Nat /\ hd <= space /\ r.headerPtr + hd <= r.maxHeaderPtr
  BY <1>1 DEF hdPart_size, PointersInRange
<1>3. fd \in Nat /\ hd + fd <= space /\ r.filePtr + fd <= r.maxFilePtr
  BY <1>1, <1>2 DEF fdPart_size, hdPart_size, PointersInRange
<1> HIDE DEF hd, fd
<1>4. writeResponse(r, space) =
        [r EXCEPT !.headerPtr = r.headerPtr + hd, !.filePtr = r.filePtr + fd]
  BY DEF writeResponse, hd, fd
<1>5. writeResponse(r, space) \in Responses
  <2>1. r.headerPtr + hd \in Nat /\ r.filePtr + fd \in Nat
    BY <1>1, <1>2, <1>3
  <2> QED
    BY <1>4, <2>1 DEF Responses
<1>6. PointersInRange(writeResponse(r, space)) /\ writeResponse(r, space).CGIout = r.CGIout
  BY <1>1, <1>2, <1>3, <1>4 DEF Responses, PointersInRange
<1> QED
  BY <1>2, <1>3, <1>5, <1>6 DEF hd, fd

-----------------------------------------------------------------------------
(* The body                                                                *)

\* The content copied is within the length its buffer was allocated with.
Within(r) ==
  LET length == Atoi[r.headers["Content-Length"]]
  IN length >= 0 => r.contentLength <= length

\* A new object has taken nothing.
LEMMA NewWithin == Within(NewRequest)
<1>1. NewRequest.headers["Content-Length"] = "" /\ NewRequest.contentLength = 0
  BY DEF NewRequest, HeaderKeys
<1>2. Atoi[NewRequest.headers["Content-Length"]] = 0
  BY <1>1, RequestAssumption
<1>3. 0 <= 0
  OBVIOUS
<1> QED
  BY <1>1, <1>2, <1>3, Zenon DEF Within

\* The length a well-formed object announces.
LEMMA LengthType ==
  ASSUME NEW r \in Requests
  PROVE  /\ r.headers["Content-Length"] \in HeaderValues \cup {""}
         /\ Atoi[r.headers["Content-Length"]] \in Int /\ r.contentLength \in Nat
<1>1. r.headers["Content-Length"] \in HeaderValues \cup {""}
  BY Members DEF HeaderLists, HeaderKeys
<1> QED
  BY <1>1, Members, RequestAssumption

\* The request line touches neither number.
LEMMA RequestLineWithin ==
  ASSUME NEW r \in Requests, NEW line \in Lines
  PROVE  /\ parseRequestLine(r, line).headers = r.headers
         /\ parseRequestLine(r, line).contentLength = r.contentLength
<1> DEFINE m == IF line.kind = "request" /\ line.method \in KnownMethods
                THEN line.method ELSE r.method
           q == [r EXCEPT !.method = m]
           fail(code) == deleteURI(setRequestError(q, code))
           p(u, i) == [r EXCEPT !.method = m, !.uri = u, !.isCGI = i,
                                !.parseStatus = "headerLine"]
<1>1. \A code : fail(code).headers = r.headers /\ fail(code).contentLength = r.contentLength
  BY DEF deleteURI, setRequestError, Requests
<1>2. \A u, i : p(u, i).headers = r.headers /\ p(u, i).contentLength = r.contentLength
  BY DEF Requests
<1>3. \/ parseRequestLine(r, line) = fail(400)
      \/ parseRequestLine(r, line) = fail(501)
      \/ parseRequestLine(r, line) = fail(505)
      \/ parseRequestLine(r, line) = p(newURI(r, line), isCGI(r, line))
  BY DEF parseRequestLine
<1> HIDE DEF fail, p
<1> QED
  BY <1>1, <1>2, <1>3

\* A header only counts when there was none of its key, and then no content.
LEMMA AddHeadersWithin ==
  ASSUME NEW r \in Requests, Within(r), NEW lines, addHeaders(r, lines) \in Requests
  PROVE  Within(addHeaders(r, lines))
<1> DEFINE a == addHeaders(r, lines)
<1>1. a.contentLength = r.contentLength
  BY DEF addHeaders, Requests
<1>2. CASE r.headers["Content-Length"] # ""
  <2>1. a.headers["Content-Length"] = r.headers["Content-Length"]
    BY <1>2 DEF addHeaders, Requests, HeaderKeys
  <2> QED
    BY <1>1, <2>1 DEF Within
<1>3. CASE r.headers["Content-Length"] = ""
  <2>1. r.contentLength = 0
    <3>1. Atoi[r.headers["Content-Length"]] = 0
      BY <1>3, RequestAssumption
    <3> DEFINE length == Atoi[r.headers["Content-Length"]]
               n == r.contentLength
    <3>2. /\ length >= 0 => n <= length
          /\ length = 0 /\ n \in Nat
      BY <3>1, LengthType DEF Within
    <3> HIDE DEF length, n
    <3>3. n = 0
      BY <3>2
    <3> QED
      BY <3>3 DEF n
  <2>2. Atoi[a.headers["Content-Length"]] \in Int
    BY LengthType
  <2> HIDE DEF a
  <2>3. Within(a)
    BY <1>1, <2>1, <2>2 DEF Within
  <2> QED
    BY <2>3 DEF a
<1> QED
  BY <1>2, <1>3

\* Neither does the outcome of the headers change them.
LEMMA HeadersWithin ==
  ASSUME NEW r \in Requests, Within(r), NEW lines \in Seq(Lines)
  PROVE  Within(parseHeaders(r, lines))
<1> DEFINE bad == {i \in DOMAIN lines : lines[i].kind # "header"}
           b == CHOOSE i \in bad : \A j \in bad : i <= j
<1>1. ASSUME NEW q \in Requests, Within(q)
      PROVE  /\ \A code : Within(setRequestError(q, code))
             /\ Within(endOfHeaders(q))
  <2>1. \A code : Within(setRequestError(q, code))
    BY <1>1 DEF Within, setRequestError, Requests
  <2>2. \A s : Within([q EXCEPT !.parseStatus = s])
    BY <1>1 DEF Within, Requests
  <2> QED
    BY <2>1, <2>2 DEF endOfHeaders
<1>2. CASE bad = {}
  <2>1. addHeaders(r, lines) \in Requests
    BY <1>2, AddHeadersType
  <2>2. parseHeaders(r, lines) = endOfHeaders(addHeaders(r, lines))
    BY <1>2 DEF parseHeaders
  <2> QED
    BY <1>1, <2>1, <2>2, AddHeadersWithin
<1>3. CASE bad # {}
  <2> DEFINE good == SubSeq(lines, 1, b - 1)
  <2>1. b \in bad /\ \A j \in bad : b <= j
    <3>1. bad \subseteq Nat
      OBVIOUS
    <3>2. \E i \in bad : \A j \in bad : i <= j
      BY <1>3, <3>1, SmallestIndex
    <3> QED
      BY <3>2
  <2>2. b \in 1..Len(lines)
    BY <2>1
  <2> HIDE DEF b
  <2>3. good \in Seq(Lines) /\ \A i \in DOMAIN good : i \in 1..(b - 1) /\ good[i] = lines[i]
    BY <2>2
  <2>4. \A i \in DOMAIN good : good[i].kind = "header"
    BY <2>1, <2>2, <2>3
  <2>5. addHeaders(r, good) \in Requests
    BY <2>3, <2>4, AddHeadersType
  <2>6. parseHeaders(r, lines) = setRequestError(addHeaders(r, good), 400)
    BY <1>3 DEF parseHeaders, b
  <2> HIDE DEF good
  <2> QED
    BY <1>1, <2>5, <2>6, AddHeadersWithin
<1> QED
  BY <1>2, <1>3

\* A body is copied up to its length and no further.
LEMMA ContentWithin ==
  ASSUME NEW r \in Requests, Within(r), NEW block \in Seq(Lines)
  PROVE  Within(parseContent(r, block))
<1> DEFINE length == Atoi[r.headers["Content-Length"]]
<1>1. length \in Int /\ r.contentLength \in Nat
  BY LengthType, Zenon
<1>2. Len(block) \in Nat
  OBVIOUS
<1>3. ASSUME NEW n \in Int, length >= 0 => n <= length
      PROVE  /\ Within([r EXCEPT !.contentLength = n])
             /\ Within([r EXCEPT !.contentLength = n, !.parseStatus = "requestDone"])
  BY <1>3 DEF Within, Requests
<1>4. CASE length - r.contentLength <= Len(block)
  <2>1. parseContent(r, block) =
          [r EXCEPT !.contentLength = length, !.parseStatus = "requestDone"]
    BY <1>4 DEF parseContent
  <2>2. length >= 0 => length <= length
    BY <1>1
  <2> HIDE DEF length
  <2> QED
    BY <1>1, <1>3, <2>1, <2>2
<1>5. CASE ~(length - r.contentLength <= Len(block))
  <2> DEFINE n == r.contentLength + Len(block)
  <2>1. n \in Int /\ n <= length
    BY <1>1, <1>5, <1>2
  <2>2. parseContent(r, block) = [r EXCEPT !.contentLength = n]
    BY <1>5 DEF parseContent
  <2> HIDE DEF n
  <2> QED
    BY <1>3, <2>1, <2>2
<1> QED
  BY <1>4, <1>5

\* Hence httpParse keeps the bound.
LEMMA ParseWithin ==
  ASSUME NEW r \in Requests, Within(r), NEW buf \in Seq(Lines), NEW full \in BOOLEAN,
         ~parseEnds(r, buf)
  PROVE  Within(httpParse(r, buf, full).req)
<1>1. ASSUME NEW q \in Requests, Within(q)
      PROVE  Within(setRequestState(q))
  BY <1>1 DEF Within, setRequestState, Requests
<1>2. CASE requestEnd(buf) # {}
  <2> DEFINE e == CHOOSE j \in requestEnd(buf) : TRUE
             block == SubSeq(buf, 1, e)
             q == parseRequestLine(r, block[1])
             rest == SubSeq(block, 2, Len(block) - 1)
  <2>1. e \in 2..Len(buf)
    BY <1>2 DEF requestEnd
  <2> HIDE DEF e
  <2>2. block \in Seq(Lines) /\ Len(block) = e
    BY <2>1, SubSeqProperties
  <2>3. httpParse(r, buf, full).req = setRequestState(parseBlock(r, block))
    BY <1>2 DEF httpParse, e
  <2> HIDE DEF block
  <2>4. Len(block) >= 2 /\ block[1] \in Lines
    BY <2>1, <2>2
  <2>5. parseBlock(r, block) \in Requests
    BY <1>2, <2>2, <2>4, BlockType DEF parseEnds
  <2>6. Within(parseContent(r, block))
    BY <2>2, ContentWithin
  <2>7. q \in Requests /\ Within(q)
    BY <2>4, RequestLineType, RequestLineWithin DEF Within
  <2>8. rest \in Seq(Lines)
    BY <2>2, <2>4, SubSeqProperties
  <2> HIDE DEF q, rest
  <2>9. Within(parseHeaders(q, rest))
    BY <2>7, <2>8, HeadersWithin
  <2>10. Within(parseBlock(r, block))
    BY <2>6, <2>7, <2>9 DEF parseBlock, q, rest
  <2> QED
    BY <1>1, <2>3, <2>5, <2>10
<1>3. CASE requestEnd(buf) = {}
  <2> DEFINE q == IF full THEN [r EXCEPT !.parseStatus = "requestLine"] ELSE r
  <2>1. q \in Requests /\ Within(q)
    BY DEF Requests, ParseStates, Within
  <2>2. httpParse(r, buf, full).req = setRequestState(q)
    BY <1>3 DEF httpParse
  <2> HIDE DEF q
  <2> QED
    BY <1>1, <2>1, <2>2
<1> QED
  BY <1>2, <1>3

-----------------------------------------------------------------------------
(* A good request on an object that has parsed others                      *)

\* The value that header lines add for a key: that of their first entry of it.
ValueOf(lines, k) ==
  IF FirstOf(lines, k) = {} THEN "" ELSE lines[CHOOSE i \in FirstOf(lines, k) : TRUE].value

\* addHeaders in terms of it.
LEMMA AddHeadersValues ==
  ASSUME NEW r \in Requests, NEW lines
  PROVE  addHeaders(r, lines) =
           [r EXCEPT !.headers = [k \in HeaderKeys |->
              IF r.headers[k] # "" THEN r.headers[k] ELSE ValueOf(lines, k)]]
<1> DEFINE old(k) == IF r.headers[k] # "" \/ FirstOf(lines, k) = {} THEN r.headers[k]
                     ELSE lines[CHOOSE i \in FirstOf(lines, k) : TRUE].value
           new(k) == IF r.headers[k] # "" THEN r.headers[k] ELSE ValueOf(lines, k)
<1>1. ASSUME NEW k
      PROVE  old(k) = new(k)
  <2>1. CASE FirstOf(lines, k) = {}
    BY <2>1, Zenon DEF ValueOf
  <2>2. CASE FirstOf(lines, k) # {}
    <3>1. ValueOf(lines, k) = lines[CHOOSE i \in FirstOf(lines, k) : TRUE].value
      BY <2>2, Zenon DEF ValueOf
    <3> QED
      BY <2>2, <3>1
  <2> QED
    BY <2>1, <2>2
<1>2. addHeaders(r, lines) = [r EXCEPT !.headers = [k \in HeaderKeys |-> old(k)]]
  BY DEF addHeaders
<1> HIDE DEF old, new
<1>3. [k \in HeaderKeys |-> old(k)] = [k \in HeaderKeys |-> new(k)]
  BY <1>1
<1> QED
  BY <1>2, <1>3 DEF new

\* Two objects that go on alike, whatever headers and content they carry.
Alike(x, y) ==
  /\ x.parseStatus = y.parseStatus /\ x.method = y.method
  /\ x.uri = y.uri /\ x.isCGI = y.isCGI

\* What a header block makes of them: they go on alike, with the content they had
\* and the same value of a key that the first, r, had none of.
GoOn(r, f, x, y) ==
  /\ Alike(x, y)
  /\ x.contentLength = r.contentLength /\ y.contentLength = f.contentLength
  /\ \A k \in HeaderKeys : r.headers[k] = "" => x.headers[k] = y.headers[k]

\* A request line that a new object accepts is accepted by every object, for the
\* same method, target and kind of response.
LEMMA LineReused ==
  ASSUME NEW r \in Requests, NEW line \in Lines,
         parseRequestLine(NewRequest, line).parseStatus # "requestError"
  PROVE  /\ parseRequestLine(r, line).parseStatus = "headerLine"
         /\ parseRequestLine(r, line).method = line.method
         /\ parseRequestLine(r, line).uri = line.uri
         /\ parseRequestLine(r, line).isCGI = (line.uri \in CGIURIs)
         /\ parseRequestLine(r, line).headers = r.headers
         /\ parseRequestLine(r, line).contentLength = r.contentLength
<1> DEFINE fail(q, m, code) == deleteURI(setRequestError([q EXCEPT !.method = m], code))
           good == [r EXCEPT !.method = line.method, !.uri = line.uri,
                             !.isCGI = line.uri \in CGIURIs, !.parseStatus = "headerLine"]
<1>1. \A m, code : fail(NewRequest, m, code).parseStatus = "requestError"
  BY DEF deleteURI, setRequestError, NewRequest
<1> HIDE DEF fail
<1>2. line.kind = "request"
  BY <1>1 DEF parseRequestLine, fail
<1>3. line.method \in KnownMethods
  <2>1. NewRequest.method = "UNIMPLEMENTED"
    BY DEF NewRequest
  <2> QED
    BY <1>1, <1>2, <2>1 DEF parseRequestLine, fail
<1>4. line.method # "UNIMPLEMENTED"
  BY <1>3 DEF KnownMethods
<1>5. line.http11
  BY <1>1, <1>2, <1>3, <1>4 DEF parseRequestLine, fail
<1>6. parseRequestLine(r, line) = good
  BY <1>2, <1>3, <1>4, <1>5 DEF parseRequestLine, newURI, isCGI
<1>7. /\ good.parseStatus = "headerLine" /\ good.method = line.method
      /\ good.uri = line.uri /\ good.isCGI = (line.uri \in CGIURIs)
      /\ good.headers = r.headers /\ good.contentLength = r.contentLength
  BY DEF Requests
<1> QED
  BY <1>6, <1>7

\* Header lines that make the request of an object without headers valid make it
\* valid on every object: the headers that are there already only add to them.
LEMMA HeadersReused ==
  ASSUME NEW f \in Requests, NEW r \in Requests, NEW lines,
         f.headers = [k \in HeaderKeys |-> ""],
         Alike(r, f), parseHeaders(f, lines).parseStatus # "requestError"
  PROVE  GoOn(r, f, parseHeaders(r, lines), parseHeaders(f, lines))
<1> DEFINE bad == {i \in DOMAIN lines : lines[i].kind # "header"}
           a(q) == addHeaders(q, lines)
           status(q, s) == [a(q) EXCEPT !.parseStatus = s]
           next == IF f.method = "POST" THEN "contentLine" ELSE "requestDone"
<1>1. ASSUME NEW q \in Requests
      PROVE  /\ \A k \in HeaderKeys :
                  a(q).headers[k] = IF q.headers[k] # "" THEN q.headers[k] ELSE ValueOf(lines, k)
             /\ a(q).method = q.method /\ a(q).uri = q.uri /\ a(q).isCGI = q.isCGI
             /\ \A s : /\ status(q, s).parseStatus = s /\ status(q, s).method = q.method
                       /\ status(q, s).uri = q.uri /\ status(q, s).isCGI = q.isCGI
                       /\ status(q, s).headers = a(q).headers
                       /\ status(q, s).contentLength = q.contentLength
             /\ \A code : setRequestError(a(q), code).parseStatus = "requestError"
  <2> DEFINE h == [k \in HeaderKeys |->
                     IF q.headers[k] # "" THEN q.headers[k] ELSE ValueOf(lines, k)]
  <2>1. a(q) = [q EXCEPT !.headers = h]
    BY AddHeadersValues
  <2>2. \A k \in HeaderKeys :
          h[k] = IF q.headers[k] # "" THEN q.headers[k] ELSE ValueOf(lines, k)
    OBVIOUS
  <2> HIDE DEF h, a
  <2>3. a(q).headers = h
    BY <2>1 DEF Requests
  <2>4. a(q).method = q.method /\ a(q).uri = q.uri /\ a(q).isCGI = q.isCGI
    BY <2>1 DEF Requests
  <2>5. \A s : /\ status(q, s).parseStatus = s /\ status(q, s).method = q.method
               /\ status(q, s).uri = q.uri /\ status(q, s).isCGI = q.isCGI
               /\ status(q, s).headers = a(q).headers
               /\ status(q, s).contentLength = q.contentLength
    BY <2>1 DEF Requests
  <2>6. \A code : setRequestError(a(q), code).parseStatus = "requestError"
    BY <2>1 DEF setRequestError, Requests
  <2> QED
    BY <2>2, <2>3, <2>4, <2>5, <2>6
<1>2. bad = {}
  <2> DEFINE b == CHOOSE i \in bad : \A j \in bad : i <= j
             p == addHeaders(f, SubSeq(lines, 1, b - 1))
  <2>1. ASSUME bad # {}
        PROVE  parseHeaders(f, lines) = setRequestError(p, 400)
    BY <2>1 DEF parseHeaders
  <2>2. setRequestError(p, 400).parseStatus = "requestError"
    BY DEF setRequestError, addHeaders, Requests
  <2> QED
    BY <2>1, <2>2
<1>3. \A q : parseHeaders(q, lines) = endOfHeaders(a(q))
  BY <1>2 DEF parseHeaders
<1>4. endOfHeaders(a(f)) = status(f, next) /\ isValidRequest(a(f))
  <2>1. a(f).method = f.method
    BY <1>1
  <2>2. ~isValidRequest(a(f)) => parseHeaders(f, lines).parseStatus = "requestError"
    <3>1. ~isValidRequest(a(f)) => endOfHeaders(a(f)) = setRequestError(a(f), 411)
      BY DEF endOfHeaders
    <3>2. parseHeaders(f, lines) = endOfHeaders(a(f))
      BY <1>3
    <3>3. setRequestError(a(f), 411).parseStatus = "requestError"
      BY DEF setRequestError, addHeaders, Requests
    <3> HIDE DEF a
    <3> QED
      BY <3>1, <3>2, <3>3, ZenonT(60)
  <2>3. isValidRequest(a(f))
    BY <2>2
  <2> HIDE DEF a
  <2> QED
    BY <2>1, <2>3 DEF endOfHeaders
<1>5. endOfHeaders(a(r)) = status(r, next)
  <2>1. a(r).method = f.method /\ a(f).method = f.method
    BY <1>1 DEF Alike
  <2>2. \A k \in HeaderKeys : a(f).headers[k] # "" => a(r).headers[k] # ""
    <3> HIDE DEF a
    <3>1. \A k \in HeaderKeys : a(f).headers[k] = ValueOf(lines, k)
      BY <1>1
    <3>2. \A k \in HeaderKeys :
            a(r).headers[k] = IF r.headers[k] # "" THEN r.headers[k] ELSE ValueOf(lines, k)
      BY <1>1
    <3> QED
      BY <3>1, <3>2
  <2> HIDE DEF a
  <2>3. isValidRequest(a(r))
    BY <1>4, <2>1, <2>2 DEF isValidRequest, HeaderKeys
  <2> QED
    BY <2>1, <2>3 DEF endOfHeaders
<1>6. parseHeaders(f, lines) = status(f, next) /\ parseHeaders(r, lines) = status(r, next)
  BY <1>3, <1>4, <1>5
<1> HIDE DEF next, status
<1>7. ASSUME NEW q \in Requests
      PROVE  /\ status(q, next).parseStatus = next /\ status(q, next).method = q.method
             /\ status(q, next).uri = q.uri /\ status(q, next).isCGI = q.isCGI
             /\ status(q, next).headers = a(q).headers
             /\ status(q, next).contentLength = q.contentLength
  BY <1>1
<1>8. ASSUME NEW k \in HeaderKeys, r.headers[k] = ""
      PROVE  a(r).headers[k] = a(f).headers[k]
  <2> HIDE DEF a
  <2>1. a(r).headers[k] = IF r.headers[k] # "" THEN r.headers[k] ELSE ValueOf(lines, k)
    BY <1>1
  <2>2. a(f).headers[k] = IF f.headers[k] # "" THEN f.headers[k] ELSE ValueOf(lines, k)
    BY <1>1
  <2>3. f.headers[k] = ""
    OBVIOUS
  <2> QED
    BY <1>8, <2>1, <2>2, <2>3
<1> HIDE DEF a
<1> DEFINE x == parseHeaders(r, lines)
           y == parseHeaders(f, lines)
<1>9. /\ x.parseStatus = next /\ x.method = r.method /\ x.uri = r.uri /\ x.isCGI = r.isCGI
      /\ x.headers = a(r).headers /\ x.contentLength = r.contentLength
  BY <1>6, <1>7
<1>10. /\ y.parseStatus = next /\ y.method = f.method /\ y.uri = f.uri /\ y.isCGI = f.isCGI
       /\ y.headers = a(f).headers /\ y.contentLength = f.contentLength
  BY <1>6, <1>7
<1> HIDE DEF x, y
<1>11. Alike(x, y)
  BY <1>9, <1>10 DEF Alike
<1>12. \A k \in HeaderKeys : r.headers[k] = "" => x.headers[k] = y.headers[k]
  BY <1>8, <1>9, <1>10
<1> QED
  BY <1>9, <1>10, <1>11, <1>12 DEF GoOn, x, y

\* The members of an object that say what its request is.
SharedMembers == {"state", "parseStatus", "method", "uri", "isCGI"}

\* A request that is good on a new object is the same request on one that has
\* parsed any others.
LEMMA RequestReused ==
  ASSUME NEW r \in Requests, r.parseStatus = "requestLine",
         NEW b \in Seq(Lines), requestEnd(b) # {},
         httpParse(NewRequest, b, FALSE).req.state # "ParsedError"
  PROVE  /\ \A m \in SharedMembers :
              httpParse(r, b, FALSE).req[m] = httpParse(NewRequest, b, FALSE).req[m]
         /\ httpParse(r, b, FALSE).req.contentLength = r.contentLength
         /\ httpParse(NewRequest, b, FALSE).req.contentLength = 0
         /\ \A k \in HeaderKeys : r.headers[k] = "" =>
              httpParse(r, b, FALSE).req.headers[k] = httpParse(NewRequest, b, FALSE).req.headers[k]
<1> DEFINE e == CHOOSE j \in requestEnd(b) : TRUE
           block == SubSeq(b, 1, e)
           hs == SubSeq(block, 2, Len(block) - 1)
           line == block[1]
           q(o) == parseRequestLine(o, line)
<1>1. e \in requestEnd(b)
  OBVIOUS
<1>2. block \in Seq(Lines) /\ Len(block) >= 2
  <2>1. e \in 2..Len(b)
    BY <1>1 DEF requestEnd
  <2> HIDE DEF e
  <2> QED
    BY <2>1
<1>3. \A o : httpParse(o, b, FALSE).req = setRequestState(parseBlock(o, block))
  BY DEF httpParse
<1> HIDE DEF e, block
<1>4. line \in Lines
  BY <1>2
<1>5. NewRequest \in Requests /\ NewRequest.parseStatus = "requestLine"
      /\ NewRequest.headers = [k \in HeaderKeys |-> ""] /\ NewRequest.contentLength = 0
  BY NewType DEF NewRequest
<1> HIDE DEF hs, line
<1>6. \A o \in {r, NewRequest} :
        parseBlock(o, block) = IF q(o).parseStatus = "requestError" THEN q(o)
                               ELSE parseHeaders(q(o), hs)
  <2>1. \A o \in {r, NewRequest} : o.parseStatus # "contentLine"
    BY <1>5
  <2> QED
    BY <2>1 DEF parseBlock, hs, line
<1>7. q(r) \in Requests /\ q(NewRequest) \in Requests
  BY <1>4, <1>5, RequestLineType
<1>8. parseBlock(NewRequest, block).parseStatus # "requestError"
  <2>1. \A p : p.parseStatus = "requestError" /\ p \in Requests =>
                 setRequestState(p).state = "ParsedError"
    BY DEF setRequestState, Requests
  <2>2. parseBlock(NewRequest, block) \in Requests
    <3>1. ~negativeBody(NewRequest)
      BY <1>5 DEF negativeBody
    <3> QED
      BY <1>2, <1>5, <3>1, BlockType
  <2> QED
    BY <1>3, <2>1, <2>2
<1>9. q(NewRequest).parseStatus # "requestError"
      /\ parseHeaders(q(NewRequest), hs).parseStatus # "requestError"
  BY <1>6, <1>8
<1>10. ASSUME NEW o \in Requests
       PROVE  /\ q(o).parseStatus = "headerLine" /\ q(o).method = line.method
              /\ q(o).uri = line.uri /\ q(o).isCGI = (line.uri \in CGIURIs)
              /\ q(o).headers = o.headers /\ q(o).contentLength = o.contentLength
  BY <1>4, <1>9, LineReused
<1> HIDE DEF q
<1>11. Alike(q(r), q(NewRequest))
  BY <1>5, <1>10, ZenonT(60) DEF Alike
<1> DEFINE p(o) == parseBlock(o, block)
<1>12. /\ Alike(p(r), p(NewRequest))
       /\ p(r).contentLength = r.contentLength /\ p(NewRequest).contentLength = 0
       /\ \A k \in HeaderKeys : r.headers[k] = "" => p(r).headers[k] = p(NewRequest).headers[k]
  <2>1. q(NewRequest).headers = [k \in HeaderKeys |-> ""]
    BY <1>5, <1>10
  <2>2. /\ Alike(parseHeaders(q(r), hs), parseHeaders(q(NewRequest), hs))
        /\ parseHeaders(q(r), hs).contentLength = q(r).contentLength
        /\ parseHeaders(q(NewRequest), hs).contentLength = q(NewRequest).contentLength
        /\ \A k \in HeaderKeys : q(r).headers[k] = "" =>
             parseHeaders(q(r), hs).headers[k] = parseHeaders(q(NewRequest), hs).headers[k]
    <3> DEFINE x == q(r)
               y == q(NewRequest)
    <3>1. /\ x \in Requests /\ y \in Requests /\ y.headers = [k \in HeaderKeys |-> ""]
          /\ Alike(x, y) /\ parseHeaders(y, hs).parseStatus # "requestError"
      BY <1>7, <1>9, <1>11, <2>1
    <3> HIDE DEF x, y
    <3>2. GoOn(x, y, parseHeaders(x, hs), parseHeaders(y, hs))
      BY <3>1, HeadersReused
    <3> QED
      BY <3>2 DEF GoOn, x, y
  <2>4. /\ q(r).headers = r.headers /\ q(r).contentLength = r.contentLength
        /\ q(NewRequest).contentLength = 0
    BY <1>5, <1>10
  <2>3. \A o \in {r, NewRequest} : p(o) = parseHeaders(q(o), hs)
    BY <1>5, <1>6, <1>10
  <2> HIDE DEF p
  <2> QED
    BY <2>2, <2>3, <2>4
<1>13. p(r) \in Requests /\ p(NewRequest) \in Requests
  <2>1. ~negativeBody(r) /\ ~negativeBody(NewRequest)
    BY <1>5 DEF negativeBody
  <2> QED
    BY <1>2, <1>5, <2>1, BlockType
<1> HIDE DEF p
<1>14. ASSUME NEW x \in Requests, NEW y \in Requests, Alike(x, y)
       PROVE  \A m \in SharedMembers : setRequestState(x)[m] = setRequestState(y)[m]
  BY <1>14 DEF setRequestState, Requests, Alike, SharedMembers
<1>15. \A m \in SharedMembers : setRequestState(p(r))[m] = setRequestState(p(NewRequest))[m]
  BY <1>12, <1>13, <1>14
<1>16. ASSUME NEW x \in Requests
       PROVE  /\ setRequestState(x).contentLength = x.contentLength
              /\ setRequestState(x).headers = x.headers
  BY DEF setRequestState, Requests
<1> DEFINE x == httpParse(r, b, FALSE).req
           y == httpParse(NewRequest, b, FALSE).req
<1>17. x = setRequestState(p(r)) /\ y = setRequestState(p(NewRequest))
  BY <1>3 DEF p
<1> HIDE DEF x, y
<1>18. /\ x.contentLength = r.contentLength /\ y.contentLength = 0
       /\ x.headers = p(r).headers /\ y.headers = p(NewRequest).headers
  BY <1>12, <1>13, <1>16, <1>17
<1>19. \A m \in SharedMembers : x[m] = y[m]
  BY <1>15, <1>17
<1>20. \A k \in HeaderKeys : r.headers[k] = "" => x.headers[k] = y.headers[k]
  BY <1>12, <1>18
<1> QED
  BY <1>18, <1>19, <1>20 DEF x, y

=============================================================================
