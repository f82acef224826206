------------------------- MODULE RequestBytesProofs -------------------------
(***************************************************************************)
(* Theorems about RequestBytes: how any buffer is cut into lines.          *)
(***************************************************************************)
EXTENDS RequestBytes, SequenceTheorems, WellFoundedInduction, TLAPS

-----------------------------------------------------------------------------
(* Line breaks, by their positions                                         *)

Break(s, j) == j \in 1..(Len(s) - 1) /\ s[j] = "cr" /\ s[j + 1] = "lf"

\* The end of a request: a break right after a break.
Blank(s, j) == Break(s, j) /\ Break(s, j + 2)

\* A set of positions that is not empty has a first.
LEMMA MinIsFirst ==
  ASSUME NEW S \in SUBSET Nat, S # {}
  PROVE  Min(S) \in S /\ \A j \in S : Min(S) <= j
<1>1. PICK i \in S : \A j \in S : <<j, i>> \notin OpToRel(<, Nat)
  BY WFMin, NatLessThanWellFounded, Zenon
<1>2. ASSUME NEW j \in S
      PROVE  i <= j
  <2>1. ~(j < i)
    BY <1>1, Zenon DEF OpToRel
  <2> QED
    BY <2>1
<1> QED
  BY <1>2 DEF Min

\* What is left of a sequence from a position on.
LEMMA FromType ==
  ASSUME NEW s \in Seq(Bytes), NEW i \in 1..(Len(s) + 1)
  PROVE  /\ From(s, i) \in Seq(Bytes) /\ Len(From(s, i)) = Len(s) + 1 - i
         /\ \A k \in 1..(Len(s) + 1 - i) : From(s, i)[k] = s[i + k - 1]
<1>1. Len(s) \in Nat /\ i \in Int /\ \A k \in i..Len(s) : s[k] \in Bytes
  OBVIOUS
<1> QED
  BY <1>1, SubSeqProperties DEF From

\* A line break is where CRLF starts.
LEMMA StartsWithBreak ==
  ASSUME NEW s \in Seq(Bytes), NEW i \in 1..(Len(s) + 1)
  PROVE  StartsWith(From(s, i), CRLF) <=> Break(s, i)
<1> DEFINE t == From(s, i)
<1>1. /\ t \in Seq(Bytes) /\ Len(t) = Len(s) + 1 - i /\ Len(s) \in Nat
      /\ \A k \in 1..(Len(s) + 1 - i) : t[k] = s[i + k - 1]
  BY FromType
<1> HIDE DEF t
<1>2. Len(CRLF) = 2 /\ CRLF[1] = "cr" /\ CRLF[2] = "lf" /\ CRLF \in Seq(Bytes)
  BY DEF CRLF, Bytes
<1>3. CASE Len(t) < 2
  BY <1>1, <1>2, <1>3 DEF StartsWith, Break, t
<1>4. CASE Len(t) >= 2
  <2> DEFINE u == SubSeq(t, 1, 2)
  <2>1. u \in Seq(Bytes) /\ Len(u) = 2 /\ u[1] = t[1] /\ u[2] = t[2]
    BY <1>1, <1>4
  <2> HIDE DEF u
  <2>2. u = CRLF <=> t[1] = "cr" /\ t[2] = "lf"
    BY <1>2, <2>1, SeqEqual
  <2>3. t[1] = s[i] /\ t[2] = s[i + 1] /\ i \in 1..(Len(s) - 1)
    BY <1>1, <1>4
  <2> QED
    BY <1>2, <1>4, <2>2, <2>3 DEF StartsWith, Break, t, u
<1> QED
  BY <1>1, <1>3, <1>4

\* And the blank line is where two of them do.
LEMMA StartsWithBlank ==
  ASSUME NEW s \in Seq(Bytes), NEW i \in 1..(Len(s) + 1)
  PROVE  StartsWith(From(s, i), CRLF \o CRLF) <=> Blank(s, i)
<1> DEFINE t == From(s, i)
           m == CRLF \o CRLF
<1>1. /\ t \in Seq(Bytes) /\ Len(t) = Len(s) + 1 - i /\ Len(s) \in Nat
      /\ \A k \in 1..(Len(s) + 1 - i) : t[k] = s[i + k - 1]
  BY FromType
<1> HIDE DEF t
<1>2. /\ m \in Seq(Bytes) /\ Len(m) = 4
      /\ m[1] = "cr" /\ m[2] = "lf" /\ m[3] = "cr" /\ m[4] = "lf"
  BY DEF CRLF, Bytes
<1> HIDE DEF m
<1>3. CASE Len(t) < 4
  BY <1>1, <1>2, <1>3 DEF StartsWith, Blank, Break, t, m
<1>4. CASE Len(t) >= 4
  <2> DEFINE u == SubSeq(t, 1, 4)
  <2>1. /\ u \in Seq(Bytes) /\ Len(u) = 4
        /\ u[1] = t[1] /\ u[2] = t[2] /\ u[3] = t[3] /\ u[4] = t[4]
    BY <1>1, <1>4
  <2> HIDE DEF u
  <2>2. u = m <=> t[1] = "cr" /\ t[2] = "lf" /\ t[3] = "cr" /\ t[4] = "lf"
    BY <1>2, <2>1, SeqEqual, SMTT(40)
  <2>3. /\ t[1] = s[i] /\ t[2] = s[i + 1] /\ t[3] = s[i + 2] /\ t[4] = s[i + 3]
        /\ i \in 1..(Len(s) - 3)
    BY <1>1, <1>4
  <2>4. Blank(s, i) <=> s[i] = "cr" /\ s[i + 1] = "lf" /\ s[i + 2] = "cr" /\ s[i + 3] = "lf"
    BY <1>1, <2>3 DEF Blank, Break
  <2> QED
    BY <1>2, <1>4, <2>2, <2>3, <2>4 DEF StartsWith, t, m, u
<1> QED
  BY <1>1, <1>3, <1>4

-----------------------------------------------------------------------------
(* The searches                                                            *)

\* strnstr for a line break in what is left from i on finds the first one.
LEMMA FindsBreak ==
  ASSUME NEW s \in Seq(Bytes), NEW i \in 1..(Len(s) + 1), NEW b \in i..Len(s), Break(s, b)
  PROVE  LET e == strnstr(From(s, i), CRLF, Len(s) + 1 - i)
         IN /\ e \in 0..(Len(s) - i - 1) /\ Break(s, i + e)
            /\ \A j \in i..(i + e - 1) : ~Break(s, j)
<1> DEFINE n == Len(s) + 1 - i
           found == {k \in 0..(n - Len(CRLF)) : StartsWith(From(From(s, i), k + 1), CRLF)}
<1>1. Len(CRLF) = 2 /\ n \in Nat /\ Len(s) \in Nat
  BY DEF CRLF
<1>2. ASSUME NEW k \in 0..(n - 2)
      PROVE  StartsWith(From(From(s, i), k + 1), CRLF) <=> Break(s, i + k)
  <2> DEFINE t == From(s, i)
  <2>1. /\ t \in Seq(Bytes) /\ Len(t) = n
        /\ \A j \in 1..n : t[j] = s[i + j - 1]
    BY FromType
  <2> HIDE DEF t
  <2>2. StartsWith(From(t, k + 1), CRLF) <=> Break(t, k + 1)
    <3>1. k + 1 \in 1..(Len(t) + 1)
      BY <1>1, <2>1
    <3> QED
      BY <2>1, <3>1, StartsWithBreak
  <2>3. t[k + 1] = s[i + k] /\ t[k + 2] = s[i + k + 1]
    BY <1>1, <2>1
  <2>4. k + 1 \in 1..(Len(t) - 1) /\ i + k \in 1..(Len(s) - 1)
    BY <1>1, <2>1
  <2>5. (k + 1) + 1 = k + 2
    OBVIOUS
  <2>6. Break(t, k + 1) <=> t[k + 1] = "cr" /\ t[k + 2] = "lf"
    BY <2>4, <2>5 DEF Break
  <2>7. Break(s, i + k) <=> s[i + k] = "cr" /\ s[i + k + 1] = "lf"
    BY <2>4 DEF Break
  <2> QED
    BY <2>2, <2>3, <2>6, <2>7 DEF t
<1>3. found = {k \in 0..(n - 2) : Break(s, i + k)}
  BY <1>1, <1>2
<1>4. b - i \in found
  <2>1. b - i \in 0..(n - 2) /\ i + (b - i) = b
    BY <1>1 DEF Break
  <2> QED
    BY <1>3, <2>1
<1>5. strnstr(From(s, i), CRLF, n) = Min(found)
  BY <1>4 DEF strnstr
<1>6. found \in SUBSET Nat
  BY <1>1, <1>3
<1> HIDE DEF found, n
<1>7. Min(found) \in found /\ \A k \in found : Min(found) <= k
  BY <1>4, <1>6, MinIsFirst
<1> DEFINE e == Min(found)
<1>8. e \in 0..(n - 2) /\ Break(s, i + e) /\ \A k \in found : e <= k
  BY <1>3, <1>7
<1> HIDE DEF e
<1>9. ASSUME NEW j \in i..(i + e - 1)
      PROVE  ~Break(s, j)
  <2>1. j - i \in 0..(n - 2) /\ j - i < e /\ i + (j - i) = j
    BY <1>1, <1>8
  <2> QED
    BY <1>3, <1>8, <2>1
<1>10. n - 2 = Len(s) - i - 1
  BY <1>1 DEF n
<1> QED
  BY <1>5, <1>8, <1>9, <1>10 DEF e, n

\* strnstr for a blank line in the whole buffer: none, or the first one.
LEMMA FindsBlank ==
  ASSUME NEW s \in Seq(Bytes), strnstr(s, CRLF \o CRLF, Len(s)) # -1
  PROVE  LET e == strnstr(s, CRLF \o CRLF, Len(s))
         IN e \in 0..(Len(s) - 4) /\ Blank(s, e + 1) /\ \A j \in 1..e : ~Blank(s, j)
<1> DEFINE found == {k \in 0..(Len(s) - Len(CRLF \o CRLF)) :
                       StartsWith(From(s, k + 1), CRLF \o CRLF)}
<1>1. Len(CRLF \o CRLF) = 4 /\ Len(s) \in Nat
  BY DEF CRLF
<1>2. \A k \in 0..(Len(s) - 4) :
        StartsWith(From(s, k + 1), CRLF \o CRLF) <=> Blank(s, k + 1)
  <2> TAKE k \in 0..(Len(s) - 4)
  <2>1. k + 1 \in 1..(Len(s) + 1)
    BY <1>1
  <2> QED
    BY <2>1, StartsWithBlank
<1>3. found = {k \in 0..(Len(s) - 4) : Blank(s, k + 1)}
  BY <1>1, <1>2
<1>4. found # {} /\ strnstr(s, CRLF \o CRLF, Len(s)) = Min(found)
  BY DEF strnstr
<1>5. found \in SUBSET Nat
  BY <1>1, <1>3
<1> HIDE DEF found
<1>6. Min(found) \in found /\ \A k \in found : Min(found) <= k
  BY <1>4, <1>5, MinIsFirst
<1> DEFINE e == Min(found)
<1>7. e \in 0..(Len(s) - 4) /\ Blank(s, e + 1) /\ \A k \in found : e <= k
  BY <1>3, <1>6
<1> HIDE DEF e
<1>8. ASSUME NEW j \in 1..e
      PROVE  ~Blank(s, j)
  <2>1. j - 1 \in 0..(Len(s) - 4) /\ j - 1 < e /\ (j - 1) + 1 = j
    BY <1>1, <1>7
  <2> QED
    BY <1>3, <1>7, <2>1
<1> QED
  BY <1>4, <1>7, <1>8 DEF e

\* A pair of bytes is CRLF where there is a line break.
LEMMA PairIsBreak ==
  ASSUME NEW s \in Seq(Bytes), NEW j \in 1..(Len(s) - 1)
  PROVE  SubSeq(s, j, j + 1) = CRLF <=> Break(s, j)
<1> DEFINE u == SubSeq(s, j, j + 1)
<1>1. u \in Seq(Bytes) /\ Len(u) = 2 /\ u[1] = s[j] /\ u[2] = s[j + 1]
  <2>1. Len(s) \in Nat /\ j \in Int /\ j + 1 \in Int /\ \A k \in j..(j + 1) : s[k] \in Bytes
    OBVIOUS
  <2>2. /\ u \in Seq(Bytes) /\ Len(u) = (j + 1) - j + 1
        /\ \A k \in 1..((j + 1) - j + 1) : u[k] = s[j + k - 1]
    BY <2>1, SubSeqProperties
  <2> QED
    BY <2>2
<1> HIDE DEF u
<1>2. Len(CRLF) = 2 /\ CRLF[1] = "cr" /\ CRLF[2] = "lf" /\ CRLF \in Seq(Bytes)
  BY DEF CRLF, Bytes
<1>3. u = CRLF <=> u[1] = "cr" /\ u[2] = "lf"
  BY <1>1, <1>2, SeqEqual
<1> QED
  BY <1>1, <1>3 DEF u, Break

\* strlen is the length of a sequence exactly if there is no zero byte in it.
LEMMA StrlenEnds ==
  ASSUME NEW s \in Seq(Bytes)
  PROVE  /\ strlen(s) <= Len(s)
         /\ strlen(s) = Len(s) <=> \A i \in DOMAIN s : s[i] # "nul"
<1> DEFINE nuls == {i \in DOMAIN s : s[i] = "nul"}
<1>1. Len(s) \in Nat /\ DOMAIN s = 1..Len(s)
  OBVIOUS
<1>2. CASE nuls = {}
  BY <1>1, <1>2 DEF strlen
<1>3. CASE nuls # {}
  <2>1. nuls \in SUBSET Nat
    BY <1>1
  <2>2. strlen(s) = Min(nuls) - 1
    BY <1>3 DEF strlen
  <2> HIDE DEF nuls
  <2>3. Min(nuls) \in nuls
    BY <1>3, <2>1, MinIsFirst
  <2>4. Min(nuls) \in 1..Len(s) /\ s[Min(nuls)] = "nul"
    BY <1>1, <2>3 DEF nuls
  <2> QED
    BY <1>1, <2>2, <2>4
<1> QED
  BY <1>2, <1>3

-----------------------------------------------------------------------------
(* The inductive invariant                                                 *)

\* Where the call may be, and the types of what it works on.
Typed ==
  /\ pc \in {"find", "cut", "removed", "return"}
  /\ buf \in Seq(Bytes) /\ request \in Seq(Bytes)
  /\ thisLine \in Nat \ {0} /\ req_len \in Nat
  /\ lines \in Seq(Nat \X Nat)

\* Before the search there is no request, and without one there are no lines.
NoRequestYet ==
  /\ pc = "find" => request = <<>> /\ thisLine = 1
  /\ request = <<>> => lines = <<>>

\* A request ends with its first blank line.
EndsBlank(s) ==
  /\ Len(s) >= 4 /\ Blank(s, Len(s) - 3)
  /\ \A j \in 1..(Len(s) - 4) : ~Blank(s, j)

\* A line has one break, at its end.
IsLine(s, l) ==
  /\ l[1] \in 1..Len(s) /\ l[2] \in (l[1] + 1)..Len(s)
  /\ Break(s, l[2] - 1)
  /\ \A j \in l[1]..(l[2] - 2) : ~Break(s, j)

\* The next line begins behind the last one, and what is left begins there.
Cutting ==
  pc = "cut" => /\ request # <<>>
                /\ thisLine + req_len = Len(request) + 1
                /\ thisLine = IF lines = <<>> THEN 1 ELSE lines[Len(lines)][2] + 1

AreLines ==
  \A i \in DOMAIN lines :
    /\ IsLine(request, lines[i])
    /\ lines[i][1] = IF i = 1 THEN 1 ELSE lines[i - 1][2] + 1

BInv ==
  /\ Typed /\ NoRequestYet
  /\ request # <<>> => EndsBlank(request)
  /\ Cutting /\ AreLines
  /\ pc = "return" /\ request # <<>> => size = strlen(request)

\* While something is left of the request, a line break is left: a request that
\* ends with a blank line cannot be cut down to the last byte of it.
LEMMA BreakIsLeft ==
  ASSUME BInv, pc = "cut", req_len > 0
  PROVE  /\ thisLine \in 1..Len(request)
         /\ req_len = Len(request) + 1 - thisLine
         /\ LET e == strnstr(From(request, thisLine), CRLF, req_len)
            IN /\ e \in 0..(Len(request) - thisLine - 1) /\ Break(request, thisLine + e)
               /\ \A j \in thisLine..(thisLine + e - 1) : ~Break(request, j)
<1>1. /\ request \in Seq(Bytes) /\ Len(request) \in Nat
      /\ thisLine \in Nat \ {0} /\ req_len \in Nat /\ lines \in Seq(Nat \X Nat)
  BY DEF BInv, Typed
<1>2. EndsBlank(request) /\ thisLine = IF lines = <<>> THEN 1 ELSE lines[Len(lines)][2] + 1
  BY DEF BInv, Cutting
<1>3. thisLine \in 1..Len(request) /\ req_len = Len(request) + 1 - thisLine
  <2>1. thisLine + req_len = Len(request) + 1
    BY DEF BInv, Cutting
  <2> QED
    BY <1>1, <2>1
<1>4. Len(request) >= 4 /\ Break(request, Len(request) - 1)
  BY <1>1, <1>2 DEF EndsBlank, Blank
<1>5. thisLine # Len(request)
  <2> SUFFICES ASSUME thisLine = Len(request) PROVE FALSE
    OBVIOUS
  <2>1. lines # <<>>
    BY <1>1, <1>2, <1>4
  <2>2. Len(lines) \in DOMAIN lines
    BY <1>1, <2>1
  <2> DEFINE last == lines[Len(lines)]
  <2>3. last \in Nat \X Nat /\ thisLine = last[2] + 1
    BY <1>1, <1>2, <2>1, <2>2
  <2>4. Break(request, last[2] - 1)
    BY <2>2 DEF BInv, AreLines, IsLine
  <2> HIDE DEF last
  <2>5. last[2] = Len(request) - 1 /\ (last[2] - 1) + 1 = Len(request) - 1
    BY <1>1, <2>3
  <2>6. request[Len(request) - 1] = "lf"
    BY <2>4, <2>5 DEF Break
  <2> QED
    BY <1>4, <2>6 DEF Break
<1>6. Len(request) - 1 \in thisLine..Len(request)
  BY <1>1, <1>3, <1>5
<1>7. thisLine \in 1..(Len(request) + 1)
  BY <1>1, <1>3
<1> QED
  BY <1>1, <1>3, <1>4, <1>6, <1>7, FindsBreak

LEMMA BInitially ==
  Init => BInv
<1> SUFFICES ASSUME Init PROVE BInv
  OBVIOUS
<1>1. /\ pc = "find" /\ buf \in Seq(Bytes) /\ request = <<>>
      /\ thisLine = 1 /\ req_len = 0 /\ lines = <<>>
  BY BytesAssumption DEF Init
<1>2. Typed
  BY <1>1 DEF Typed
<1> QED
  BY <1>1, <1>2 DEF BInv, NoRequestYet, Cutting, AreLines

\* The end of the request is found: what is copied ends with its first blank line.
LEMMA FindEndStep ==
  ASSUME BInv, FindEnd
  PROVE  BInv'
<1> DEFINE end == strnstr(buf, CRLF \o CRLF, Len(buf))
<1>1. /\ pc = "find" /\ buf \in Seq(Bytes) /\ request = <<>> /\ thisLine = 1
      /\ lines = <<>> /\ req_len \in Nat
  BY DEF BInv, Typed, NoRequestYet, FindEnd
<1>2. buf' = buf /\ thisLine' = 1 /\ lines' = <<>>
  BY <1>1 DEF FindEnd
<1>3. CASE end = -1
  <2>1. pc' = "return" /\ request' = <<>> /\ req_len' = req_len
    BY <1>1, <1>3 DEF FindEnd
  <2>2. Typed'
    BY <1>1, <1>2, <2>1 DEF Typed
  <2> QED
    BY <1>2, <2>1, <2>2 DEF BInv, NoRequestYet, Cutting, AreLines
<1>4. CASE end # -1
  <2>1. pc' = "cut" /\ request' = SubSeq(buf, 1, end + 4) /\ req_len' = end + 4
    BY <1>4 DEF FindEnd
  <2>2. end \in 0..(Len(buf) - 4) /\ Blank(buf, end + 1) /\ \A j \in 1..end : ~Blank(buf, j)
    BY <1>1, <1>4, FindsBlank
  <2> HIDE DEF end
  <2>3. /\ request' \in Seq(Bytes) /\ Len(request') = end + 4
        /\ \A k \in 1..(end + 4) : request'[k] = buf[k]
    <3>1. /\ 1 \in Int /\ end + 4 \in Int /\ Len(buf) \in Nat
          /\ \A k \in 1..(end + 4) : buf[k] \in Bytes
      BY <1>1, <2>2
    <3>2. /\ request' \in Seq(Bytes) /\ Len(request') = (end + 4) - 1 + 1
          /\ \A k \in 1..((end + 4) - 1 + 1) : request'[k] = buf[1 + k - 1]
      BY <2>1, <2>2, <3>1, SubSeqProperties
    <3> QED
      BY <2>2, <3>2
  <2>4. \A j \in 1..(end + 1) : Blank(request', j) <=> Blank(buf, j)
    BY <1>1, <2>2, <2>3 DEF Blank, Break
  <2>5. EndsBlank(request')
    <3>1. Len(request') >= 4 /\ Len(request') - 3 = end + 1 /\ Len(request') - 4 = end
      BY <2>2, <2>3
    <3>2. end + 1 \in 1..(end + 1) /\ \A j \in 1..end : j \in 1..(end + 1)
      BY <2>2
    <3> QED
      BY <2>2, <2>4, <3>1, <3>2 DEF EndsBlank
  <2>6. Typed'
    BY <1>1, <1>2, <2>1, <2>2, <2>3 DEF Typed
  <2>7. Cutting'
    <3>1. request' # <<>> /\ thisLine' + req_len' = Len(request') + 1
      BY <1>2, <2>1, <2>2, <2>3
    <3> QED
      BY <1>2, <3>1 DEF Cutting
  <2>8. NoRequestYet' /\ AreLines'
    BY <1>2, <2>1 DEF NoRequestYet, AreLines
  <2> QED
    BY <2>1, <2>5, <2>6, <2>7, <2>8 DEF BInv
<1> QED
  BY <1>3, <1>4

\* A line is cut off: it ends with the first break of what is left.
LEMMA CutLineStep ==
  ASSUME BInv, CutLine
  PROVE  BInv'
<1> DEFINE e == strnstr(From(request, thisLine), CRLF, req_len)
           new == <<thisLine, thisLine + e + 1>>
<1>1. pc = "cut" /\ req_len > 0 /\ request' = request /\ buf' = buf
  BY DEF CutLine
<1>2. /\ buf \in Seq(Bytes) /\ request \in Seq(Bytes) /\ Len(request) \in Nat
      /\ thisLine \in Nat \ {0} /\ req_len \in Nat /\ lines \in Seq(Nat \X Nat)
  BY DEF BInv, Typed
<1>3. /\ thisLine \in 1..Len(request) /\ req_len = Len(request) + 1 - thisLine
      /\ e \in 0..(Len(request) - thisLine - 1) /\ Break(request, thisLine + e)
      /\ \A j \in thisLine..(thisLine + e - 1) : ~Break(request, j)
  BY <1>1, BreakIsLeft
<1>4. /\ lines' = Append(lines, <<thisLine, thisLine + (e + 2) - 1>>)
      /\ \/ pc' = "removed" /\ thisLine' = thisLine /\ req_len' = req_len
         \/ /\ thisLine' = thisLine + (e + 2) /\ req_len' = req_len - (e + 2) /\ pc' = "cut"
  BY <1>1 DEF CutLine, lineLength
<1> HIDE DEF e
<1>5. lines' = Append(lines, new)
  <2>1. thisLine + (e + 2) - 1 = thisLine + e + 1
    BY <1>2, <1>3
  <2> QED
    BY <1>4, <2>1
<1>6. IsLine(request, new)
  <2>1. /\ new[1] = thisLine /\ new[2] = thisLine + e + 1
        /\ (thisLine + e + 1) - 1 = thisLine + e /\ (thisLine + e + 1) - 2 = thisLine + e - 1
        /\ thisLine + e + 1 \in (thisLine + 1)..Len(request)
    BY <1>2, <1>3
  <2> QED
    BY <1>3, <2>1 DEF IsLine
<1>7. new \in Nat \X Nat /\ new[1] = thisLine /\ new[2] = thisLine + e + 1
  BY <1>2, <1>3
<1> HIDE DEF new
<1>8. /\ lines' \in Seq(Nat \X Nat) /\ Len(lines') = Len(lines) + 1 /\ Len(lines) \in Nat
      /\ DOMAIN lines = 1..Len(lines) /\ DOMAIN lines' = 1..(Len(lines) + 1)
      /\ \A i \in 1..Len(lines) : lines'[i] = lines[i]
      /\ lines'[Len(lines) + 1] = new
  BY <1>2, <1>5, <1>7
<1>9. /\ request # <<>> /\ EndsBlank(request)
      /\ thisLine = IF lines = <<>> THEN 1 ELSE lines[Len(lines)][2] + 1
  BY <1>1 DEF BInv, Cutting
<1>10. Typed'
  BY <1>1, <1>2, <1>3, <1>4, <1>8, SMTT(40) DEF Typed
<1>11. NoRequestYet'
  BY <1>1, <1>4, <1>9 DEF NoRequestYet
<1>12. Cutting'
  <2> SUFFICES ASSUME pc' = "cut" PROVE Cutting'
    BY DEF Cutting
  <2>1. thisLine' = thisLine + (e + 2) /\ req_len' = req_len - (e + 2)
    BY <1>4
  <2>2. thisLine' + req_len' = Len(request') + 1
    BY <1>1, <1>2, <1>3, <2>1
  <2>3. lines' # <<>> /\ lines'[Len(lines')] = new
    BY <1>8
  <2>4. thisLine' = new[2] + 1
    BY <1>2, <1>3, <1>7, <2>1
  <2> QED
    BY <1>1, <1>9, <2>2, <2>3, <2>4 DEF Cutting
<1>13. AreLines'
  <2> SUFFICES ASSUME NEW i \in DOMAIN lines'
               PROVE  /\ IsLine(request, lines'[i])
                      /\ lines'[i][1] = IF i = 1 THEN 1 ELSE lines'[i - 1][2] + 1
    BY <1>1 DEF AreLines
  <2>1. CASE i \in 1..Len(lines)
    <3>1. i = 1 \/ i - 1 \in 1..Len(lines)
      BY <1>8, <2>1, SMTT(40)
    <3>2. lines'[i] = lines[i] /\ (i # 1 => lines'[i - 1] = lines[i - 1])
      BY <1>8, <2>1, <3>1
    <3>3. /\ IsLine(request, lines[i])
          /\ lines[i][1] = IF i = 1 THEN 1 ELSE lines[i - 1][2] + 1
      BY <1>8, <2>1 DEF BInv, AreLines
    <3> QED
      BY <3>2, <3>3
  <2>2. CASE i = Len(lines) + 1
    <3>1. lines'[i] = new
      BY <1>8, <2>2
    <3>2. CASE lines = <<>>
      BY <1>6, <1>7, <1>9, <2>2, <3>1, <3>2
    <3>3. CASE lines # <<>>
      <4>1. i # 1 /\ i - 1 = Len(lines) /\ Len(lines) \in 1..Len(lines)
        BY <1>2, <1>8, <2>2, <3>3, SMTT(40)
      <4>2. lines'[i - 1] = lines[Len(lines)]
        BY <1>8, <4>1
      <4> QED
        BY <1>6, <1>7, <1>9, <3>1, <3>3, <4>1, <4>2
    <3> QED
      BY <3>2, <3>3
  <2> QED
    BY <1>8, <2>1, <2>2
<1>14. (pc # "return")'
  BY <1>4
<1> QED
  BY <1>1, <1>9, <1>10, <1>11, <1>12, <1>13, <1>14 DEF BInv

LEMMA FinishStep ==
  ASSUME BInv, Finish
  PROVE  BInv'
<1>1. /\ pc' = "return" /\ size' = strlen(request)
      /\ UNCHANGED <<buf, request, thisLine, req_len, lines>>
  BY DEF Finish
<1>2. /\ request # <<>> => EndsBlank(request)
      /\ request = <<>> => lines = <<>>
      /\ Typed /\ AreLines
  BY DEF BInv, NoRequestYet
<1>3. Typed' /\ AreLines'
  BY <1>1, <1>2 DEF Typed, AreLines
<1> QED
  BY <1>1, <1>2, <1>3 DEF BInv, NoRequestYet, Cutting

\* The inductive invariant holds in every call, for every buffer.
THEOREM BytesInvariance == Spec => []BInv
<1>1. Init => BInv
  BY BInitially
<1>2. BInv /\ [Next]_vars => BInv'
  <2> SUFFICES ASSUME BInv, [Next]_vars PROVE BInv'
    OBVIOUS
  <2>1. CASE FindEnd
    BY <2>1, FindEndStep
  <2>2. CASE CutLine
    BY <2>2, CutLineStep
  <2>3. CASE Finish
    BY <2>3, FinishStep
  <2>4. CASE UNCHANGED vars
    BY <2>4 DEF vars, BInv, Typed, NoRequestYet, Cutting, AreLines
  <2> QED
    BY <2>1, <2>2, <2>3, <2>4 DEF Next
<1> QED
  BY <1>1, <1>2, PTL DEF Spec

-----------------------------------------------------------------------------
(* What the calls promise                                                  *)

\* Whatever the buffer holds, httpParse never looks for a line that is not there:
\* nextLine, which it uses without a test, is not NULL.
THEOREM LineAlwaysThere == Spec => []LineIsThere
<1>1. BInv => LineIsThere
  <2> SUFFICES ASSUME BInv, pc = "cut", req_len > 0
               PROVE  /\ strnstr(From(request, thisLine), CRLF, req_len) # -1
                      /\ thisLine + req_len = Len(request) + 1
    BY DEF LineIsThere
  <2>1. thisLine + req_len = Len(request) + 1
    BY DEF BInv, Cutting
  <2>2. strnstr(From(request, thisLine), CRLF, req_len) \in 0..(Len(request) - thisLine - 1)
    BY BreakIsLeft
  <2> QED
    BY <2>1, <2>2
<1> QED
  BY <1>1, BytesInvariance, PTL

\* Whatever the buffer holds, the lines are the request, one after the other, and a
\* line break is the end of a line and nothing else.
THEOREM LinesPartition == Spec => []LinesAreCut
<1>1. BInv => LinesAreCut
  <2> SUFFICES ASSUME BInv PROVE LinesAreCut
    OBVIOUS
  <2>1. request \in Seq(Bytes) /\ Len(request) \in Nat /\ lines \in Seq(Nat \X Nat)
    BY DEF BInv, Typed
  <2>2. ASSUME NEW i \in DOMAIN lines
        PROVE  /\ lines[i][1] = IF i = 1 THEN 1 ELSE lines[i - 1][2] + 1
               /\ {j \in lines[i][1]..(lines[i][2] - 1) : SubSeq(request, j, j + 1) = CRLF}
                    = {lines[i][2] - 1}
    <3>1. /\ IsLine(request, lines[i])
          /\ lines[i][1] = IF i = 1 THEN 1 ELSE lines[i - 1][2] + 1
      BY <2>2 DEF BInv, AreLines
    <3> DEFINE a == lines[i][1]
               b == lines[i][2]
    <3>2. /\ a \in 1..Len(request) /\ b \in (a + 1)..Len(request)
          /\ Break(request, b - 1) /\ \A j \in a..(b - 2) : ~Break(request, j)
      BY <3>1 DEF IsLine
    <3> HIDE DEF a, b
    <3>3. \A j \in a..(b - 1) : j \in 1..(Len(request) - 1)
      BY <2>1, <3>2
    <3>4. \A j \in a..(b - 1) : SubSeq(request, j, j + 1) = CRLF <=> Break(request, j)
      BY <2>1, <3>3, PairIsBreak
    <3>5. \A j \in a..(b - 1) : Break(request, j) <=> j = b - 1
      BY <2>1, <3>2, SMTT(40)
    <3>6. b - 1 \in a..(b - 1)
      BY <2>1, <3>2
    <3>7. {j \in a..(b - 1) : SubSeq(request, j, j + 1) = CRLF} = {b - 1}
      BY <3>4, <3>5, <3>6
    <3> QED
      BY <3>1, <3>7 DEF a, b
  <2>3. ASSUME pc = "cut", req_len = 0
        PROVE  lines[Len(lines)][2] = Len(request)
    <3>1. /\ thisLine + req_len = Len(request) + 1 /\ EndsBlank(request)
          /\ thisLine = IF lines = <<>> THEN 1 ELSE lines[Len(lines)][2] + 1
      BY <2>3 DEF BInv, Cutting
    <3>2. thisLine = Len(request) + 1 /\ Len(request) >= 4 /\ thisLine \in Nat
      BY <2>1, <2>3, <3>1 DEF EndsBlank, BInv, Typed
    <3>3. lines # <<>>
      BY <2>1, <3>1, <3>2
    <3>4. lines[Len(lines)] \in Nat \X Nat
      BY <2>1, <3>3
    <3> QED
      BY <2>1, <3>1, <3>2, <3>3, <3>4
  <2> QED
    BY <2>2, <2>3 DEF LinesAreCut
<1> QED
  BY <1>1, BytesInvariance, PTL

\* Whatever the buffer holds, no line between the first and the last is taken for
\* the blank line that the parser waits for, and the last one is.
THEOREM BlankLineLast == Spec => []BlankEnds
<1>1. BInv => BlankEnds
  <2> SUFFICES ASSUME BInv, NEW i \in DOMAIN lines \ {1}
               PROVE  lines[i][2] = lines[i][1] + 1 <=> lines[i][2] = Len(request)
    BY DEF BlankEnds
  <2> DEFINE n == Len(request)
             p == lines[i - 1][2]
             a == lines[i][1]
             b == lines[i][2]
  <2>1. request \in Seq(Bytes) /\ n \in Nat /\ lines \in Seq(Nat \X Nat)
    BY DEF BInv, Typed
  <2>2. i \in DOMAIN lines /\ i - 1 \in DOMAIN lines /\ i # 1
    BY <2>1
  <2>3. IsLine(request, lines[i]) /\ IsLine(request, lines[i - 1]) /\ a = p + 1
    BY <2>2 DEF BInv, AreLines
  <2>4. EndsBlank(request)
    BY <2>2 DEF BInv, NoRequestYet
  <2>5. /\ a \in 1..n /\ b \in (a + 1)..n /\ p \in 1..n
        /\ Break(request, b - 1) /\ Break(request, p - 1)
        /\ \A j \in a..(b - 2) : ~Break(request, j)
    <3>1. /\ lines[i - 1][1] \in 1..n /\ p \in (lines[i - 1][1] + 1)..n
          /\ Break(request, p - 1)
      BY <2>3 DEF IsLine
    <3>2. p \in 1..n
      BY <2>1, <3>1, SMTT(40)
    <3>3. /\ a \in 1..n /\ b \in (a + 1)..n /\ Break(request, b - 1)
          /\ \A j \in a..(b - 2) : ~Break(request, j)
      BY <2>3 DEF IsLine
    <3> QED
      BY <3>1, <3>2, <3>3
  <2>6. /\ n >= 4 /\ Break(request, n - 3) /\ Break(request, n - 1)
        /\ \A j \in 1..(n - 4) : ~Blank(request, j)
    <3>1. (n - 3) + 2 = n - 1
      BY <2>1
    <3> QED
      BY <2>4, <3>1 DEF EndsBlank, Blank
  <2> HIDE DEF n, p, a, b
  <2>7. ASSUME b = a + 1
        PROVE  b = n
    <3>1. b - 1 = (p - 1) + 2
      BY <2>3, <2>5, <2>7
    <3>2. Blank(request, p - 1)
      BY <2>5, <3>1 DEF Blank
    <3>3. p - 1 \in 1..(n - 1)
      BY <2>5 DEF Break, n
    <3>4. ~(p - 1 <= n - 4)
      BY <2>1, <2>6, <3>2, <3>3
    <3> QED
      BY <2>1, <2>3, <2>5, <2>7, <3>3, <3>4
  <2>8. ASSUME b = n
        PROVE  b = a + 1
    <3>1. ~(n - 3 \in a..(b - 2))
      BY <2>5, <2>6
    <3>2. a > n - 3
      BY <2>1, <2>5, <2>6, <2>8, <3>1
    <3>3. a # n - 2
      <4> SUFFICES ASSUME a = n - 2 PROVE FALSE
        OBVIOUS
      <4>1. p - 1 = n - 4 /\ (n - 4) + 1 = n - 3
        BY <2>1, <2>3, <2>5
      <4>2. request[n - 3] = "lf"
        BY <2>5, <4>1 DEF Break
      <4> QED
        BY <2>6, <4>2 DEF Break
    <3> QED
      BY <2>1, <2>5, <2>8, <3>2, <3>3
  <2> QED
    BY <2>7, <2>8 DEF n, a, b
<1> QED
  BY <1>1, BytesInvariance, PTL

\* Whatever the buffer holds, httpParse removes no more than the request, and all of
\* a request without a zero byte.
THEOREM RemovesRequest == Spec => []RequestIsRemoved
<1>1. BInv => RequestIsRemoved
  <2> SUFFICES ASSUME BInv, pc = "return", request # <<>>
               PROVE  /\ size <= Len(request)
                      /\ (\A i \in DOMAIN request : request[i] # "nul") => size = Len(request)
    BY DEF RequestIsRemoved
  <2>1. size = strlen(request) /\ request \in Seq(Bytes)
    BY DEF BInv, Typed
  <2> QED
    BY <2>1, StrlenEnds
<1> QED
  BY <1>1, BytesInvariance, PTL

-----------------------------------------------------------------------------
(* The scan of a request line                                              *)

\* The first position from i on with a byte in B, or one past the end.
LEMMA NextIsFirst ==
  ASSUME NEW s \in Seq(Bytes), NEW i \in 1..(Len(s) + 1), NEW B
  PROVE  /\ next(s, i, B) \in i..(Len(s) + 1)
         /\ next(s, i, B) <= Len(s) => s[next(s, i, B)] \in B
         /\ \A j \in i..Len(s) : s[j] \in B => next(s, i, B) <= j
<1> DEFINE S == {j \in i..Len(s) : s[j] \in B} \cup {Len(s) + 1}
<1>1. Len(s) \in Nat /\ S # {} /\ S \in SUBSET Nat
  OBVIOUS
<1>2. Min(S) \in S /\ \A j \in S : Min(S) <= j
  BY <1>1, MinIsFirst
<1>3. next(s, i, B) = Min(S)
  BY DEF next
<1> DEFINE m == Min(S)
<1> HIDE DEF m
<1>4. m \in S /\ \A j \in S : m <= j
  BY <1>2 DEF m
<1> QED
  BY <1>1, <1>3, <1>4 DEF m

\* What is found within s is found there in every sequence that begins like s.
LEMMA NextIsLocal ==
  ASSUME NEW s \in Seq(Bytes), NEW u \in Seq(Bytes), Len(s) <= Len(u),
         \A k \in 1..Len(s) : u[k] = s[k],
         NEW i \in 1..(Len(s) + 1), NEW B, next(s, i, B) <= Len(s)
  PROVE  next(u, i, B) = next(s, i, B)
<1> DEFINE n == next(s, i, B)
           m == next(u, i, B)
<1>1. Len(s) \in Nat /\ Len(u) \in Nat /\ i \in 1..(Len(u) + 1)
  OBVIOUS
<1>2. n \in i..Len(s) /\ s[n] \in B /\ \A j \in i..Len(s) : s[j] \in B => n <= j
  BY <1>1, NextIsFirst
<1>3. /\ m \in i..(Len(u) + 1)
      /\ m <= Len(u) => u[m] \in B
      /\ \A j \in i..Len(u) : u[j] \in B => m <= j
  BY <1>1, NextIsFirst
<1> HIDE DEF n, m
<1>4. m <= n
  BY <1>1, <1>2, <1>3
<1>5. m \in i..Len(s) /\ m \in 1..Len(s) /\ m <= Len(u)
  <2>1. m \in Int /\ i \in Int /\ i >= 1 /\ i <= m /\ n <= Len(s)
    BY <1>1, <1>2, <1>3
  <2> QED
    BY <1>1, <1>2, <1>4, <2>1
<1>6. s[m] \in B
  BY <1>3, <1>5
<1>7. n <= m
  BY <1>2, <1>5, <1>6
<1>8. n = m
  BY <1>1, <1>2, <1>4, <1>5, <1>7
<1> QED
  BY <1>8 DEF n, m

\* strlen is a number of bytes, up to the first zero byte.
LEMMA StrlenType ==
  ASSUME NEW s \in Seq(Bytes)
  PROVE  /\ strlen(s) \in 0..Len(s)
         /\ strlen(s) < Len(s) => s[strlen(s) + 1] = "nul"
         /\ \A k \in 1..strlen(s) : s[k] # "nul"
<1> DEFINE nuls == {k \in DOMAIN s : s[k] = "nul"}
<1>1. Len(s) \in Nat /\ DOMAIN s = 1..Len(s)
  OBVIOUS
<1>2. CASE nuls = {}
  BY <1>1, <1>2 DEF strlen
<1>3. CASE nuls # {}
  <2>1. nuls \in SUBSET Nat /\ strlen(s) = Min(nuls) - 1
    BY <1>1, <1>3 DEF strlen
  <2>2. Min(nuls) \in nuls /\ \A j \in nuls : Min(nuls) <= j
    BY <1>3, <2>1, MinIsFirst
  <2> DEFINE m == Min(nuls)
  <2>3. m \in 1..Len(s) /\ s[m] = "nul" /\ \A k \in 1..Len(s) : s[k] = "nul" => m <= k
    BY <1>1, <2>2
  <2>4. strlen(s) = m - 1
    BY <2>1
  <2> HIDE DEF m
  <2> QED
    BY <1>1, <2>3, <2>4
<1> QED
  BY <1>2, <1>3

\* The bytes up to a zero byte are the same whatever follows a line, or they begin
\* with the line.
LEMMA UpToNul ==
  ASSUME NEW s \in Seq(Bytes), NEW h \in Seq(Bytes)
  PROVE  LET t == SubSeq(s, 1, strlen(s))
             u == SubSeq(s \o h, 1, strlen(s \o h))
         IN /\ t \in Seq(Bytes) /\ Len(t) = strlen(s)
            /\ \A k \in 1..Len(t) : t[k] = s[k]
            /\ \/ u = t
               \/ /\ Len(t) = Len(s) /\ u \in Seq(Bytes) /\ Len(t) <= Len(u)
                  /\ \A k \in 1..Len(t) : u[k] = t[k]
<1> DEFINE w == s \o h
           t == SubSeq(s, 1, strlen(s))
           u == SubSeq(w, 1, strlen(w))
<1>1. /\ w \in Seq(Bytes) /\ Len(w) = Len(s) + Len(h)
      /\ Len(s) \in Nat /\ Len(h) \in Nat
      /\ \A k \in 1..Len(s) : w[k] = s[k]
  BY ConcatProperties
<1> HIDE DEF w
<1>2. /\ strlen(s) \in 0..Len(s)
      /\ strlen(s) < Len(s) => s[strlen(s) + 1] = "nul"
      /\ \A k \in 1..strlen(s) : s[k] # "nul"
  BY StrlenType
<1>3. /\ strlen(w) \in 0..Len(w)
      /\ strlen(w) < Len(w) => w[strlen(w) + 1] = "nul"
      /\ \A k \in 1..strlen(w) : w[k] # "nul"
  BY <1>1, StrlenType
<1> DEFINE m == strlen(s)
           n == strlen(w)
<1> HIDE DEF m, n
<1>4. /\ t \in Seq(Bytes) /\ Len(t) = m
      /\ \A k \in 1..m : t[k] = s[k]
  <2>1. m \in Nat /\ 1 \in Int /\ \A k \in 1..m : s[k] \in Bytes
    BY <1>1, <1>2 DEF m
  <2>2. /\ t \in Seq(Bytes) /\ Len(t) = IF 1 <= m + 1 THEN m - 1 + 1 ELSE 0
        /\ \A k \in 1..(m - 1 + 1) : t[k] = s[1 + k - 1]
    BY <2>1, SubSeqProperties DEF m
  <2> QED
    BY <2>1, <2>2
<1>5. /\ u \in Seq(Bytes) /\ Len(u) = n
      /\ \A k \in 1..n : u[k] = w[k]
  <2>1. n \in Nat /\ 1 \in Int /\ \A k \in 1..n : w[k] \in Bytes
    BY <1>1, <1>3 DEF n
  <2>2. /\ u \in Seq(Bytes) /\ Len(u) = IF 1 <= n + 1 THEN n - 1 + 1 ELSE 0
        /\ \A k \in 1..(n - 1 + 1) : u[k] = w[1 + k - 1]
    BY <2>1, SubSeqProperties DEF n
  <2> QED
    BY <2>1, <2>2
<1> HIDE DEF t, u
<1>6. ~(n < m)
  <2> SUFFICES ASSUME n < m PROVE FALSE
    OBVIOUS
  <2>1. n < Len(w) /\ n + 1 \in 1..m /\ n + 1 \in 1..Len(s)
    BY <1>1, <1>2, <1>3 DEF m, n
  <2>2. w[n + 1] = "nul" /\ s[n + 1] # "nul" /\ w[n + 1] = s[n + 1]
    BY <1>1, <1>2, <1>3, <2>1 DEF m, n
  <2> QED
    BY <2>2
<1>7. CASE m < Len(s)
  <2>1. s[m + 1] = "nul" /\ m + 1 \in 1..Len(s) /\ w[m + 1] = "nul"
    BY <1>1, <1>2, <1>7 DEF m
  <2>2. ~(m + 1 <= n)
    BY <1>2, <1>3, <2>1 DEF m, n
  <2>3. n = m
    BY <1>2, <1>3, <1>6, <2>2 DEF m, n
  <2>4. \A k \in 1..m : t[k] = u[k]
    BY <1>1, <1>2, <1>4, <1>5, <2>3 DEF m
  <2>5. u = t
    BY <1>4, <1>5, <2>3, <2>4, SeqEqual
  <2> QED
    BY <1>4, <2>5 DEF t, u, w, m
<1>8. CASE m = Len(s)
  <2>1. m \in Nat /\ n \in Nat /\ m <= n
    BY <1>1, <1>2, <1>3, <1>6 DEF m, n
  <2>2. \A k \in 1..m : u[k] = t[k]
    BY <1>1, <1>4, <1>5, <1>8, <2>1
  <2> QED
    BY <1>4, <1>5, <1>8, <2>1, <2>2 DEF t, u, w, m
<1>9. m < Len(s) \/ m = Len(s)
  BY <1>1, <1>2 DEF m
<1> QED
  BY <1>7, <1>8, <1>9 DEF t, u, w, m

\* A line that is a request line by itself is the same one whatever follows it.
LEMMA ScanStaysInLine ==
  ASSUME NEW s \in Seq(Bytes), NEW h \in Seq(Bytes),
         Len(s) >= 1, s[Len(s)] = "lf", scan(s).matched
  PROVE  scan(s \o h) = scan(s)
<1> DEFINE t == SubSeq(s, 1, strlen(s))
           u == SubSeq(s \o h, 1, strlen(s \o h))
<1>1. CASE u = t
  BY <1>1 DEF scan
<1>2. CASE /\ Len(t) = Len(s) /\ u \in Seq(Bytes) /\ Len(t) <= Len(u)
           /\ \A k \in 1..Len(t) : u[k] = t[k]
  <2> DEFINE a == next(t, 1, Word)
             b == next(t, a, Space)
             c == next(t, b, Word)
             d == next(t, c, Space)
             v == next(t, d, Word)
             x == next(t, v, Space)
             a2 == next(u, 1, Word)
             b2 == next(u, a2, Space)
             c2 == next(u, b2, Word)
             d2 == next(u, c2, Space)
             v2 == next(u, d2, Word)
             x2 == next(u, v2, Space)
             n == Len(t)
  <2>1. scan(s) = [matched |-> v <= n /\ t[v] = "v", method |-> <<a, b - 1>>,
                   uri |-> <<c, d - 1>>, version |-> <<v, x - 1>>]
    BY DEF scan
  <2>2. scan(s \o h) = [matched |-> v2 <= Len(u) /\ u[v2] = "v", method |-> <<a2, b2 - 1>>,
                        uri |-> <<c2, d2 - 1>>, version |-> <<v2, x2 - 1>>]
    BY DEF scan
  <2>3. t \in Seq(Bytes) /\ \A k \in 1..Len(t) : t[k] = s[k]
    BY UpToNul
  <2> HIDE DEF t, u
  <2>4. /\ t \in Seq(Bytes) /\ u \in Seq(Bytes) /\ n \in Nat /\ Len(u) \in Nat
        /\ n >= 1 /\ n <= Len(u) /\ t[n] = "lf"
        /\ \A k \in 1..n : u[k] = t[k]
    BY <1>2, <2>3
  <2> HIDE DEF a, b, c, d, v, x, n, a2, b2, c2, d2, v2, x2
  <2>5. v <= n /\ t[v] = "v"
    <3> DEFINE isThere == v <= n /\ t[v] = "v"
    <3> HIDE DEF isThere
    <3>1. scan(s) = [matched |-> isThere, method |-> <<a, b - 1>>,
                     uri |-> <<c, d - 1>>, version |-> <<v, x - 1>>]
      BY <2>1 DEF isThere
    <3>2. scan(s).matched = isThere
      BY <3>1
    <3>3. isThere = TRUE
      BY <3>2
    <3> QED
      BY <3>3 DEF isThere
  <2>6. a \in 1..(n + 1)
    BY <2>4, NextIsFirst DEF a, n
  <2>7. b \in a..(n + 1) /\ b \in 1..(n + 1)
    <3>1. b \in a..(n + 1)
      BY <2>4, <2>6, NextIsFirst DEF b, n
    <3> QED
      BY <2>4, <2>6, <3>1
  <2>8. c \in b..(n + 1) /\ c \in 1..(n + 1)
    <3>1. c \in b..(n + 1)
      BY <2>4, <2>7, NextIsFirst DEF c, n
    <3> QED
      BY <2>4, <2>7, <3>1
  <2>9. d \in c..(n + 1) /\ d \in 1..(n + 1)
    <3>1. d \in c..(n + 1)
      BY <2>4, <2>8, NextIsFirst DEF d, n
    <3> QED
      BY <2>4, <2>8, <3>1
  <2>10. v \in d..(n + 1) /\ v \in 1..(n + 1)
    <3>1. v \in d..(n + 1)
      BY <2>4, <2>9, NextIsFirst DEF v, n
    <3> QED
      BY <2>4, <2>9, <3>1
  <2>11. x <= n
    <3>1. n \in v..n /\ t[n] \in Space
      BY <2>4, <2>5, <2>10 DEF Space
    <3> QED
      BY <2>4, <2>10, <3>1, NextIsFirst DEF x, n
  <2>12. a <= n /\ b <= n /\ c <= n /\ d <= n
    BY <2>4, <2>5, <2>6, <2>7, <2>8, <2>9, <2>10
  <2>13. 1 \in 1..(n + 1)
    BY <2>4
  <2>14. a2 = a
    BY <2>4, <2>12, <2>13, NextIsLocal, ZenonT(60) DEF a, a2, n
  <2>15. b2 = b
    BY <2>4, <2>6, <2>12, <2>14, NextIsLocal, ZenonT(60) DEF b, b2, n
  <2>16. c2 = c
    BY <2>4, <2>7, <2>12, <2>15, NextIsLocal, ZenonT(60) DEF c, c2, n
  <2>17. d2 = d
    BY <2>4, <2>8, <2>12, <2>16, NextIsLocal, ZenonT(60) DEF d, d2, n
  <2>18. v2 = v
    BY <2>4, <2>5, <2>9, <2>17, NextIsLocal, SMTT(40) DEF v, v2, n
  <2>19. x2 = x
    BY <2>4, <2>10, <2>11, <2>18, NextIsLocal DEF x, x2, n
  <2>20. v2 <= Len(u) /\ u[v2] = "v"
    <3>1. v \in 1..n
      BY <2>4, <2>5, <2>10
    <3> QED
      BY <2>4, <2>5, <2>18, <3>1
  <2> QED
    BY <2>1, <2>2, <2>5, <2>14, <2>15, <2>16, <2>17, <2>18, <2>19, <2>20
<1> QED
  BY <1>1, <1>2, UpToNul

\* Whatever the buffer holds and whatever lies in the heap after the copy of a line,
\* a request line is read as the bytes of that line alone say.
THEOREM RequestLineAlone == Spec => []ScanIsLocal
<1>1. BInv => ScanIsLocal
  <2> SUFFICES ASSUME BInv, lines # <<>>, scan(line(1)).matched, NEW h \in Heap
               PROVE  scan(line(1) \o h) = scan(line(1))
    BY DEF ScanIsLocal
  <2> DEFINE p == lines[1][1]
             q == lines[1][2]
  <2>1. /\ request \in Seq(Bytes) /\ Len(request) \in Nat /\ h \in Seq(Bytes)
        /\ 1 \in DOMAIN lines
    BY BytesAssumption, SMTT(40) DEF BInv, Typed
  <2>2. IsLine(request, lines[1])
    BY <2>1 DEF BInv, AreLines
  <2>3. p \in 1..Len(request) /\ q \in (p + 1)..Len(request) /\ Break(request, q - 1)
    BY <2>2 DEF IsLine
  <2>4. line(1) = SubSeq(request, p, q)
    BY DEF line
  <2> HIDE DEF p, q
  <2>5. request[q] = "lf"
    <3>1. (q - 1) + 1 = q
      BY <2>1, <2>3
    <3> QED
      BY <2>3, <3>1 DEF Break
  <2>6. /\ line(1) \in Seq(Bytes) /\ Len(line(1)) = q - p + 1
        /\ \A k \in 1..(q - p + 1) : line(1)[k] = request[p + k - 1]
    <3>1. /\ p \in Int /\ q \in Int /\ p <= q /\ p <= q + 1
          /\ \A k \in p..q : request[k] \in Bytes
      BY <2>1, <2>3
    <3> DEFINE t == SubSeq(request, p, q)
    <3>2. /\ t \in Seq(Bytes) /\ Len(t) = IF p <= q + 1 THEN q - p + 1 ELSE 0
          /\ \A k \in 1..(q - p + 1) : t[k] = request[p + k - 1]
      BY <3>1, SubSeqProperties
    <3> HIDE DEF t
    <3>3. Len(t) = q - p + 1
      BY <3>1, <3>2
    <3>4. line(1) = t
      BY <2>4 DEF t
    <3> QED
      BY <3>2, <3>3, <3>4, Zenon
  <2>7. Len(line(1)) >= 1 /\ line(1)[Len(line(1))] = "lf"
    <3>1. q - p + 1 \in 1..(q - p + 1) /\ p + (q - p + 1) - 1 = q
      BY <2>1, <2>3
    <3> QED
      BY <2>5, <2>6, <3>1
  <2> QED
    BY <2>1, <2>6, <2>7, ScanStaysInLine
<1> QED
  BY <1>1, BytesInvariance, PTL

=============================================================================
