--------------------------- MODULE MCRequestObject ---------------------------
(***************************************************************************)
(* An instance of RequestObject for TLC: all buffers made of a first line, *)
(* up to two more and a blank one, which are bodies as well as heads, and  *)
(* one buffer without an end.                                              *)
(***************************************************************************)
EXTENDS RequestObject

MCURIs == {"/a", "/cgi-bin/x"}
MCCGIURIs == {"/cgi-bin/x"}
MCHeaderValues == {"3", "5", "-1"}
MCAtoi ==
  [v \in MCHeaderValues \cup {""} |->
     CASE v = "3" -> 3 [] v = "5" -> 5 [] v = "-1" -> -1 [] OTHER -> 0]
MCFileSize == [u \in MCURIs |-> 1]
MCAbsent == -1

First ==
  [kind : {"request"}, method : {"GET", "POST", "OTHER"}, uri : MCURIs, http11 : {TRUE},
   own : {TRUE}]
  \cup {[kind |-> "request", method |-> "GET", uri |-> "/a", http11 |-> FALSE,
         own |-> TRUE], Junk}
Header(k, v) == [kind |-> "header", key |-> k, value |-> v, own |-> TRUE]
More == {Header("Host", "3"), Header("Content-length", "3"), Header("Content-Length", "3"),
         Header("Content-Length", "5"), Header("Content-Length", "-1"), Junk}

Tails == {<<>>} \cup {<<h>> : h \in More} \cup {<<h, g>> : h \in More, g \in More}

MCBuffers ==
  {<<f>> \o t \o <<Blank>> : f \in First, t \in Tails}
  \cup {<<Blank, Blank>>, <<Junk, Junk, Junk, Junk>>}
=============================================================================
