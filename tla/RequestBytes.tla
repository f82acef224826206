---------------------------- MODULE RequestBytes ----------------------------
(***************************************************************************)
(* httpParse at the level of bytes: how the end of a request is found in   *)
(* the read buffer, how the request is cut into the lines that             *)
(* HTTPRequest works on, and how much of the buffer is removed.            *)
(*                                                                         *)
(* A run is one call for a buffer of at most BufSize bytes; the pointers   *)
(* of the code are positions in the copy of the request.                   *)
(***************************************************************************)
EXTENDS Integers, Sequences, FiniteSetsExt

CONSTANTS
  BufSize,   \* BUF_SIZE
  Inputs,    \* what the read buffer may hold
  Heap       \* what may lie after an array that is not terminated

\* "w" is a byte of a word, "v" stands for HTTP/1.1, the version of a request line.
Bytes == {"cr", "lf", "sp", "nul", "w", "v"}

ASSUME BytesAssumption ==
  /\ BufSize \in Nat
  /\ Inputs \subseteq Seq(Bytes) /\ \A s \in Inputs : Len(s) <= BufSize
  /\ Heap \subseteq Seq(Bytes)

VARIABLES
  pc,        \* where the call is
  buf,       \* the bytes read
  size,      \* *size: on return how many of them are removed
  request,   \* the copy of one request
  thisLine,  \* the position of the next line in it
  req_len,   \* how much of it is left
  lines      \* where the lines handed to httpParseLine lie in it, a history

vars == <<pc, buf, size, request, thisLine, req_len, lines>>

CRLF == <<"cr", "lf">>

-----------------------------------------------------------------------------
(* MyString::strnstr, and strlen                                           *)

From(s, i) == SubSeq(s, i, Len(s))
StartsWith(s, match) == Len(match) <= Len(s) /\ SubSeq(s, 1, Len(match)) = match

\* The offset of the first match in the first n bytes, -1 for NULL.
\* Mutant: the last place is not tried.
strnstr_Short(str, match, n) ==
  LET found == {i \in 0..(n - Len(match) - 1) : StartsWith(From(str, i + 1), match)}
  IN IF found = {} THEN -1 ELSE Min(found)
strnstr(str, match, n) ==
  LET found == {i \in 0..(n - Len(match)) : StartsWith(From(str, i + 1), match)}
  IN IF found = {} THEN -1 ELSE Min(found)

strlen(s) ==
  LET nuls == {i \in DOMAIN s : s[i] = "nul"}
  IN IF nuls = {} THEN Len(s) ELSE Min(nuls) - 1

-----------------------------------------------------------------------------
(* The call                                                                *)

\* A request is copied up to its blank line, if that is there.  A buffer that is
\* full without one is dropped.
\* Mutant: the copy ends before the blank line.
FindEnd_NoBlank ==
  LET end == strnstr(buf, CRLF \o CRLF, Len(buf))
  IN /\ pc = "find"
     /\ IF end = -1
        THEN /\ pc' = "return"
             /\ size' = IF Len(buf) = BufSize THEN size ELSE 0
             /\ UNCHANGED <<request, req_len>>
        ELSE /\ pc' = "cut"
             /\ req_len' = end + 2
             /\ request' = SubSeq(buf, 1, end + 2)
             /\ UNCHANGED size
     /\ UNCHANGED <<buf, thisLine, lines>>
FindEnd ==
  LET end == strnstr(buf, CRLF \o CRLF, Len(buf))
  IN /\ pc = "find"
     /\ IF end = -1
        THEN /\ pc' = "return"
             /\ size' = IF Len(buf) = BufSize THEN size ELSE 0
             /\ UNCHANGED <<request, req_len>>
        ELSE /\ pc' = "cut"
             /\ req_len' = end + 4
             /\ request' = SubSeq(buf, 1, end + 4)
             /\ UNCHANGED size
     /\ UNCHANGED <<buf, thisLine, lines>>

\* One line is cut off and parsed, which may end the loop.  Mutant: the line
\* break is looked for from the second byte on.
lineLength_Skip(str, n) == strnstr(From(str, 2), CRLF, n - 1) + 3
lineLength(str, n) == strnstr(str, CRLF, n) + 2

CutLine ==
  LET length == lineLength(From(request, thisLine), req_len)
  IN /\ pc = "cut" /\ req_len > 0
     /\ lines' = Append(lines, <<thisLine, thisLine + length - 1>>)
     /\ \/ pc' = "removed" /\ UNCHANGED <<thisLine, req_len>>
        \/ /\ thisLine' = thisLine + length
           /\ req_len' = req_len - length
           /\ UNCHANGED pc
     /\ UNCHANGED <<buf, size, request>>

\* The whole request is removed, or what strlen takes for it.
\* Mutant: what has been parsed.
Finish_Parsed ==
  /\ pc = "removed" \/ (pc = "cut" /\ req_len <= 0)
  /\ size' = thisLine - 1 /\ pc' = "return"
  /\ UNCHANGED <<buf, request, thisLine, req_len, lines>>
Finish ==
  /\ pc = "removed" \/ (pc = "cut" /\ req_len <= 0)
  /\ size' = strlen(request) /\ pc' = "return"
  /\ UNCHANGED <<buf, request, thisLine, req_len, lines>>

Init ==
  /\ pc = "find" /\ buf \in Inputs /\ size = Len(buf)
  /\ request = <<>> /\ thisLine = 1 /\ req_len = 0 /\ lines = <<>>

Next == FindEnd \/ CutLine \/ Finish

Spec == Init /\ [][Next]_vars

-----------------------------------------------------------------------------
(* The scan of a request line: sscanf(line, "%s %s HTTP/%d.%d\r\n")        *)

Space == {"sp", "cr", "lf"}

Word  == {"w", "v"}

\* The first position at or after i whose byte is in B, or one past the end.
next(s, i, B) == Min({j \in i..Len(s) : s[j] \in B} \cup {Len(s) + 1})

\* Where the two words and the version it converts lie; a NUL ends the scan.
scan(s) ==
  LET t == SubSeq(s, 1, strlen(s))
      a == next(t, 1, Word)    b == next(t, a, Space)
      c == next(t, b, Word)    d == next(t, c, Space)
      v == next(t, d, Word)
  IN [matched |-> v <= Len(t) /\ t[v] = "v", method |-> <<a, b - 1>>,
      uri |-> <<c, d - 1>>, version |-> <<v, next(t, v, Space) - 1>>]

\* The copy of a line it works on, which has no terminating zero.  Mutant: nor a
\* line break.
line_NoBreak(i) == SubSeq(request, lines[i][1], lines[i][2] - 2)
line(i) == SubSeq(request, lines[i][1], lines[i][2])

-----------------------------------------------------------------------------
(* Properties                                                              *)

\* The loop never looks for a line that is not there: nextLine, which is used
\* without a test, is never computed from NULL, and stays in the copy.
LineIsThere ==
  pc = "cut" /\ req_len > 0 => /\ strnstr(From(request, thisLine), CRLF, req_len) # -1
                               /\ thisLine + req_len = Len(request) + 1

\* The lines are the request: each begins where the one before ended, the last
\* ends with it, and a line break is the end of a line and nothing else.
LinesAreCut ==
  /\ \A i \in DOMAIN lines :
       /\ lines[i][1] = IF i = 1 THEN 1 ELSE lines[i - 1][2] + 1
       /\ {j \in lines[i][1]..(lines[i][2] - 1) : SubSeq(request, j, j + 1) = CRLF}
            = {lines[i][2] - 1}
  /\ pc = "cut" /\ req_len = 0 => lines[Len(lines)][2] = Len(request)

\* The blank line the parser waits for comes, as the last one, and no other line
\* after the first is taken for it.
BlankEnds ==
  \A i \in DOMAIN lines \ {1} :
    lines[i][2] = lines[i][1] + 1 <=> lines[i][2] = Len(request)

\* Nothing behind a request is ever removed with it, however its loop ended, and
\* a request of text, without a zero byte, is removed to its end.
RequestIsRemoved ==
  pc = "return" /\ request # <<>> =>
    /\ size <= Len(request)
    /\ (\A i \in DOMAIN request : request[i] # "nul") => size = Len(request)


\* Whatever lies in the heap after the copy of a line, a line that is a request
\* line by itself is read as that one.
ScanIsLocal ==
  lines # <<>> /\ scan(line(1)).matched =>
    \A h \in Heap : scan(line(1) \o h) = scan(line(1))

=============================================================================
