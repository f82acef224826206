---------------------------- MODULE HTTPResponse ----------------------------
(***************************************************************************)
(* The response object of one request (src/src/HTTPResponse.cpp) and the   *)
(* file behind it (src/src/FileIO.cpp).                                    *)
(*                                                                         *)
(* A response is a header of HeaderSize units followed by a file of        *)
(* maxFilePtr units; headerPtr and filePtr say how much of each has been   *)
(* dumped into a write buffer.  A CGI response has neither: its output     *)
(* comes out of the pipe CGIout.                                           *)
(***************************************************************************)
EXTENDS HTTPRequest

CONSTANTS
  FileSize,    \* st_size of the file behind a URI, Absent if stat or open fails
  Absent,      \* == -1, so that FileSize stays a function into integers
  HeaderSize,  \* the length of a header
  INT_MAX,     \* the largest int
  SIZE_MAX     \* the largest size_t

ASSUME ResponseAssumption ==
  /\ Absent = -1
  /\ FileSize \in [URIs -> Nat \cup {Absent}]
  /\ HeaderSize \in Nat \ {0}
  /\ INT_MAX \in Nat \ {0} /\ SIZE_MAX \in Nat /\ INT_MAX < SIZE_MAX

Statuses == StatusCodes \cup {200, 404}

Responses ==
  [status : Statuses, headerPtr : Nat, maxHeaderPtr : Nat,
   filePtr : Nat, maxFilePtr : Nat,
   fileBuffer : BOOLEAN,   \* not NULL
   CGIout : BOOLEAN]       \* an open pipe, not -1

-----------------------------------------------------------------------------
(* FileIO::loadFile: the mapping, and the length left for getSize.         *)
(* st_size is assigned to an int.  mmap refuses a length of 0, and a       *)
(* negative one as too much; it always fails for a directory, and for any  *)
(* file when the address space is used up: nothing is ever unmapped.       *)

\* What mmap, or pipe and fork, of one call of buildResponse come to.
Outcomes == {"done", "failed"}

asInt(n) == ((n + INT_MAX + 1) % (2 * (INT_MAX + 1))) - (INT_MAX + 1)

loadFile(uri, outcome) ==
  LET length == asInt(FileSize[uri])
  IN CASE FileSize[uri] = Absent -> [mapped |-> FALSE, length |-> 0]
       [] FileSize[uri] # Absent /\ (length <= 0 \/ outcome = "failed") ->
            [mapped |-> FALSE, length |-> -1]
       [] OTHER -> [mapped |-> TRUE, length |-> length]

-----------------------------------------------------------------------------
(* Building                                                                *)

NewResponse ==
  [status |-> 0, headerPtr |-> 0, maxHeaderPtr |-> 0, filePtr |-> 0,
   maxFilePtr |-> 0, fileBuffer |-> FALSE, CGIout |-> FALSE]

\* The parent's side of pipe and fork: CGIout stays -1 when one of them fails.
buildCGIResponse(req, outcome) == [NewResponse EXCEPT !.CGIout = (outcome = "done")]

\* getSize() is assigned to a size_t: the -1 of a failed mmap becomes SIZE_MAX.
\* Mutant: to a signed number.
buildHTTPResponse_Signed(req, outcome) ==
  LET header == [NewResponse EXCEPT !.status = 200, !.maxHeaderPtr = HeaderSize]
      file   == loadFile(req.uri, outcome)
  IN IF req.state = "ParsedError"
     THEN [header EXCEPT !.status = req.statusCode]
     ELSE [header EXCEPT !.status = IF file.mapped THEN 200 ELSE 404,
                         !.fileBuffer = file.mapped, !.maxFilePtr = file.length]
buildHTTPResponse(req, outcome) ==
  LET header == [NewResponse EXCEPT !.status = 200, !.maxHeaderPtr = HeaderSize]
      file   == loadFile(req.uri, outcome)
  IN IF req.state = "ParsedError"
     THEN [header EXCEPT !.status = req.statusCode]
     ELSE [header EXCEPT !.status = IF file.mapped THEN 200 ELSE 404,
                         !.fileBuffer = file.mapped,
                         !.maxFilePtr = file.length % (SIZE_MAX + 1)]

\* isCGI is asked before the outcome of the parse.
buildResponse(req, outcome) ==
  IF req.isCGI THEN buildCGIResponse(req, outcome) ELSE buildHTTPResponse(req, outcome)

\* HEAD reaches file->getSize() without a file.  Mutant: POST does not fall
\* through to GET.
buildFaults_GetOnly(req) ==
  ~req.isCGI /\ req.state = "ParsedCorrect" /\ req.method # "GET"
buildFaults(req) ==
  ~req.isCGI /\ req.state = "ParsedCorrect" /\ req.method = "HEAD"

\* loadFile sets lastMod of a file it finds.  The date of one that was never
\* set: gmtime has no result for most values, and the code uses it all the same.
dateMayFault(req) ==
  /\ ~req.isCGI /\ req.state = "ParsedCorrect" /\ req.method \in {"GET", "POST"}
  /\ FileSize[req.uri] = Absent

-----------------------------------------------------------------------------
(* writeResponse: the sizes of the two memcpys                             *)

hdPart_size(res, maxSize) ==
  IF maxSize <= 0 THEN 0
  ELSE IF res.headerPtr + maxSize <= res.maxHeaderPtr THEN maxSize
  ELSE res.maxHeaderPtr - res.headerPtr

\* Mutants: the space left after the header is not reduced by it; the file
\* starts in a piece of its own.
fdPart_size_WholeSpace(res, maxSize) ==
  IF res.headerPtr + maxSize <= res.maxHeaderPtr \/ maxSize <= 0 THEN 0
  ELSE IF res.filePtr + maxSize > res.maxFilePtr THEN res.maxFilePtr - res.filePtr
  ELSE maxSize
fdPart_size_AfterHeader(res, maxSize) ==
  IF res.headerPtr < res.maxHeaderPtr \/ maxSize <= 0 THEN 0
  ELSE IF res.filePtr + maxSize > res.maxFilePtr THEN res.maxFilePtr - res.filePtr
  ELSE maxSize
fdPart_size(res, maxSize) ==
  LET left == maxSize - hdPart_size(res, maxSize)
  IN IF res.headerPtr + maxSize <= res.maxHeaderPtr \/ maxSize <= 0 THEN 0
     ELSE IF res.filePtr + left > res.maxFilePtr THEN res.maxFilePtr - res.filePtr
     ELSE left

\* The object after the call.  Mutant: filePtr is not advanced.
writeResponse_NoAdvance(res, maxSize) ==
  [res EXCEPT !.headerPtr = @ + hdPart_size(res, maxSize)]
writeResponse(res, maxSize) ==
  [res EXCEPT !.headerPtr = @ + hdPart_size(res, maxSize),
              !.filePtr   = @ + fdPart_size(res, maxSize)]

\* Its result: everything has been dumped.
AllDumped(res) == res.headerPtr = res.maxHeaderPtr /\ res.filePtr = res.maxFilePtr

\* The length of a file that could not be mapped, as a size.
mapFailed(res) == res.maxFilePtr = SIZE_MAX

\* It copies a file that was never mapped.
writeFaults(res, maxSize) == fdPart_size(res, maxSize) > 0 /\ ~res.fileBuffer

\* The two positions of a response are within what it has.
PointersInRange(res) ==
  res.headerPtr <= res.maxHeaderPtr /\ res.filePtr <= res.maxFilePtr

=============================================================================
