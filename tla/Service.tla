------------------------------ MODULE Service ------------------------------
(***************************************************************************)
(* What the server promises the peer of each connection, without pools,    *)
(* descriptors, buffers or system calls: every request gets one answer,    *)
(* the answers leave in the order of the requests, each from its first to  *)
(* its last unit, and the next request is taken up only when nothing of    *)
(* the answer before is left.  The server may stop; it may give up on a    *)
(* connection, but only when the peer is gone.                             *)
(***************************************************************************)
EXTENDS Streams

CONSTANTS
  Conns,     \* the connections
  Lengths    \* the lengths an answer may have when it is started

\* They are numbers.
NaturalLengths == Lengths \subseteq Nat

VARIABLES
  session,   \* what has been exchanged on each connection
  gone       \* the peers that have closed or aborted their connection

vars == <<session, gone>>

\* lens: the lengths of the answers.  ended: the last one grows no more.
\* pos: how much of it has been produced.  out: all that has been produced.
Sessions ==
  [good : BOOLEAN, asked : Nat, lens : Seq(Nat), ended : BOOLEAN, pos : Nat, out : Seq(Units)]

Start == [good |-> TRUE, asked |-> 0, lens |-> <<>>, ended |-> TRUE, pos |-> 0, out |-> <<>>]
Over  == [good |-> FALSE, asked |-> 0, lens |-> <<>>, ended |-> TRUE, pos |-> 0, out |-> <<>>]

-----------------------------------------------------------------------------
LastLength(s) == Length(s.lens, Len(s.lens))

\* Every request has its answer, and the last one has left.
Whole(s) == s.ended /\ Len(s.lens) = s.asked /\ s.pos = LastLength(s)

Ask(c) ==
  /\ session[c].good /\ Whole(session[c])
  /\ session' = [session EXCEPT ![c].asked = @ + 1]
  /\ UNCHANGED gone

\* An answer is started: one of known length, or one that grows.
Answer(c) ==
  LET s == session[c]
  IN /\ s.good /\ Len(s.lens) < s.asked
     /\ \E n \in Lengths, e \in BOOLEAN : \E k \in 0..n :
          session' = [session EXCEPT ![c] =
            [s EXCEPT !.lens = Append(@, n), !.ended = e, !.pos = k,
                      !.out = @ \o Run(Len(s.lens) + 1, 0, k)]]
     /\ UNCHANGED gone

\* A piece of the last one is produced.
Produce(c) ==
  LET s == session[c]
  IN /\ s.good
     /\ \E k \in 1..(LastLength(s) - s.pos) :
          session' = [session EXCEPT ![c].pos = @ + k,
                                     ![c].out = @ \o Run(Len(s.lens), s.pos, k)]
     /\ UNCHANGED gone

Grow(c) ==
  LET n == Len(session[c].lens)
  IN /\ session[c].good /\ ~session[c].ended /\ n > 0
     /\ session' = [session EXCEPT ![c].lens[n] = @ + 1]
     /\ UNCHANGED gone

End(c) ==
  /\ session[c].good /\ ~session[c].ended
  /\ session' = [session EXCEPT ![c].ended = TRUE]
  /\ UNCHANGED gone

Leave(c) ==
  /\ ~gone[c] /\ gone' = [gone EXCEPT ![c] = TRUE]
  /\ UNCHANGED session

GiveUp(c) ==
  /\ gone[c] /\ session' = [session EXCEPT ![c] = Over]
  /\ UNCHANGED gone

Init ==
  /\ session = [c \in Conns |-> Start]
  /\ gone = [c \in Conns |-> FALSE]

Next ==
  \E c \in Conns :
    Ask(c) \/ Answer(c) \/ Produce(c) \/ Grow(c) \/ End(c) \/ Leave(c) \/ GiveUp(c)

Spec == Init /\ [][Next]_vars

-----------------------------------------------------------------------------
(* Properties                                                              *)

\* The peer of a connection that is good has been sent, or is about to be, the
\* answers in order.
InOrder == \A c \in Conns : session[c].good => Unbroken(session[c].out, session[c].lens)

\* A request is taken up when nothing is missing of the answers before.
InFull ==
  \A c \in Conns : session[c].good /\ Whole(session[c]) =>
    Finished(session[c].out, session[c].lens)

=============================================================================
