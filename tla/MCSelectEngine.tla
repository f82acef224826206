--------------------------- MODULE MCSelectEngine ---------------------------
(***************************************************************************)
(* Instances of SelectEngine for TLC.                                      *)
(***************************************************************************)
EXTENDS SelectEngine, SequencesExt

MCURIs == {"/small", "/mid", "/big", "/none", "/empty", "/huge", "/cgi-bin/x"}
MCCGIURIs == {"/cgi-bin/x"}
MCHeaderValues == {"h", "-1"}
MCAtoi == [v \in MCHeaderValues \cup {""} |-> IF v = "-1" THEN -1 ELSE 0]

\* A response for "/small" fits the write buffer, the next two take more;
\* "/huge" is more than an int can say.
MCFileSize ==
  [u \in MCURIs |-> CASE u = "/small" -> 1 [] u = "/mid" -> 4 [] u = "/big" -> 6
                      [] u = "/empty" -> 0 [] u = "/huge" -> 12 [] OTHER -> -1]
MCAbsent == -1

\* The lines of requests.
Line(m, u) == [kind |-> "request", method |-> m, uri |-> u, http11 |-> TRUE, own |-> TRUE]
Host == [kind |-> "header", key |-> "Host", value |-> "h", own |-> TRUE]
Get(u) == <<Line("GET", u), Host, Blank>>
HeadOf(u) == <<Line("HEAD", u), Host, Blank>>
NoHost(u) == <<Line("GET", u), Blank>>
Post(u) == <<Line("POST", u), Host, Blank, Junk, Blank>>
\* It is remembered for a later body of the connection.
Negative(u) ==
  <<Line("GET", u),
    [kind |-> "header", key |-> "Content-Length", value |-> "-1", own |-> TRUE], Blank>>
\* The Host has no value, and gets one from the heap.
NoValue(u) == <<Line("GET", u), [Host EXCEPT !.own = FALSE], Blank>>
Bad == <<Junk, Blank>>
\* More than a buffer of three lines.
Long(u) == <<Line("GET", u), Host, Host, Blank>>

CONSTANTS c1, c2
MCConns == {c1, c2}

\* Keep-alive connections: two files, a missing one, a body.
Keeping == {Get("/mid") \o Get("/small"), Get("/none") \o Get("/mid"), Post("/small")}
StaticScripts == [c \in MCConns |-> Keeping]

\* One connection with requests of every kind: error answers, repeated clean-ups
\* of one pointer, a CGI program, a request too long, a header without a value, the
\* ends of the process.  The other one only comes and goes.
Faulty ==
  {Get("/cgi-bin/x") \o Bad, NoHost("/big") \o Bad, Get("/big"),
   Long("/small") \o Bad, HeadOf("/small"), Get("/empty"), Get("/huge"), Post("/small"),
   Negative("/big") \o Post("/big"), NoValue("/small")}
FaultScripts == [c \in MCConns |-> IF c = c1 THEN Faulty ELSE {<<>>}]

\* A long file or a program on one connection, an error answer on the other.
LiveScripts ==
  [c \in MCConns |-> IF c = c1 THEN {Get("/mid"), Get("/cgi-bin/x")} ELSE {NoHost("/small")}]

\* The answers put one after the other: the two ways to say it agree, on all
\* short streams.
Expected(lens) ==
  FlattenSeq([n \in DOMAIN lens |-> [p \in 1..lens[n] |-> <<n, p>>]])
ASSUME StreamsAgree ==
  \A lens \in BoundedSeq(0..2, 3) : \A out \in BoundedSeq((1..3) \X (1..2), 4) :
    /\ Unbroken(out, lens) <=> IsPrefix(out, Expected(lens))
    /\ Unbroken(out, lens) /\ Finished(out, lens) <=> out = Expected(lens)

NoConns == {}
FirstConn == {c1}
Symmetry == Permutations(MCConns)
=============================================================================
