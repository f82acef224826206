---------------------------- MODULE ServiceProofs ----------------------------
(***************************************************************************)
(* Theorems about Service: what the peer of a connection gets is unbroken, *)
(* and nothing of it is missing when the next request is taken up.         *)
(***************************************************************************)
EXTENDS Service, TLAPS

-----------------------------------------------------------------------------
(* Streams                                                                 *)

\* The unit out ends with.
LastOf(out) == Before(out, Len(out) + 1)

\* out is unbroken, and ends with the pos-th unit of the last answer, or, when
\* none of that has been produced, with what came before.
Sound(lens, pos, out) ==
  /\ Unbroken(out, lens)
  /\ pos <= Length(lens, Len(lens))
  /\ pos > 0 => LastOf(out) = <<Len(lens), pos>>
  /\ pos = 0 /\ Len(lens) > 0 =>
       /\ LastOf(out)[1] < Len(lens)
       /\ LastOf(out)[2] = Length(lens, LastOf(out)[1])
       /\ \A m \in (LastOf(out)[1] + 1)..(Len(lens) - 1) : lens[m] = 0

\* The unit before any place of a stream is a pair of naturals.
LEMMA BeforeType ==
  ASSUME NEW out \in Seq(Units), NEW i \in 1..(Len(out) + 1)
  PROVE  Before(out, i) \in Units
BY DEF Before, Units

\* Two units that follow each other still do when an answer is added.
LEMMA FollowsAppend ==
  ASSUME NEW lens \in Seq(Nat), NEW n \in Nat, NEW u \in Units, NEW v \in Units,
         Follows(lens, u, v)
  PROVE  Follows(Append(lens, n), u, v)
<1> DEFINE more == Append(lens, n)
<1>1. Len(more) = Len(lens) + 1 /\ \A m \in 1..Len(lens) : more[m] = lens[m]
  OBVIOUS
<1> HIDE DEF more
<1>2. v[1] \in 1..Len(lens) /\ u[1] \in Nat /\ u[1] <= v[1] /\ Len(lens) \in Nat
  BY DEF Follows, Units
<1>3. Length(more, u[1]) = Length(lens, u[1])
  <2>1. u[1] = 0 \/ u[1] \in 1..Len(lens)
    BY <1>2
  <2> QED
    BY <1>1, <2>1 DEF Length
<1>4. \A m \in (u[1] + 1)..(v[1] - 1) : m \in 1..Len(lens)
  BY <1>2
<1> QED
  BY <1>1, <1>2, <1>3, <1>4 DEF Follows, more

\* Nor does it matter that the last answer grows.
LEMMA FollowsGrow ==
  ASSUME NEW lens \in Seq(Nat), Len(lens) > 0, NEW u \in Units, NEW v \in Units,
         Follows(lens, u, v)
  PROVE  Follows([lens EXCEPT ![Len(lens)] = @ + 1], u, v)
<1> DEFINE more == [lens EXCEPT ![Len(lens)] = @ + 1]
<1>1. /\ Len(more) = Len(lens) /\ \A m \in 1..(Len(lens) - 1) : more[m] = lens[m]
      /\ more[Len(lens)] = lens[Len(lens)] + 1 /\ lens[Len(lens)] \in Nat
  OBVIOUS
<1> HIDE DEF more
<1>2. v[1] \in 1..Len(lens) /\ u[1] \in Nat /\ u[1] <= v[1] /\ Len(lens) \in Nat
      /\ v[2] \in Nat /\ u[2] \in Nat /\ lens[v[1]] \in Nat
  BY DEF Follows, Units
<1>3. v[2] \in 1..more[v[1]]
  <2>1. v[1] \in 1..(Len(lens) - 1) \/ v[1] = Len(lens)
    BY <1>2
  <2>2. more[v[1]] \in {lens[v[1]], lens[v[1]] + 1}
    BY <1>1, <2>1
  <2>3. v[2] \in 1..lens[v[1]]
    BY DEF Follows
  <2> QED
    BY <1>2, <2>2, <2>3, SMTT(40)
<1>4. CASE v[1] = u[1] /\ v[2] = u[2] + 1
  BY <1>1, <1>2, <1>3, <1>4, ZenonT(60) DEF Follows, more
<1>5. CASE /\ u[1] < v[1] /\ v[2] = 1 /\ u[2] = Length(lens, u[1])
           /\ \A m \in (u[1] + 1)..(v[1] - 1) : lens[m] = 0
  <2>1. Length(more, u[1]) = Length(lens, u[1])
    <3>1. u[1] = 0 \/ u[1] \in 1..(Len(lens) - 1)
      BY <1>2, <1>5
    <3> QED
      BY <1>1, <3>1 DEF Length
  <2>2. ASSUME NEW m \in (u[1] + 1)..(v[1] - 1)
        PROVE  more[m] = 0
    <3>1. m \in 1..(Len(lens) - 1)
      BY <1>2, SMTT(40)
    <3> QED
      BY <1>1, <1>5, <3>1
  <2> QED
    BY <1>1, <1>2, <1>3, <1>5, <2>1, <2>2, ZenonT(60) DEF Follows, more
<1> QED
  BY <1>4, <1>5 DEF Follows

\* An answer is added when all of the one before has been produced.
LEMMA SoundAppend ==
  ASSUME NEW lens \in Seq(Nat), NEW out \in Seq(Units), NEW pos \in Nat, NEW n \in Nat,
         Sound(lens, pos, out), pos = Length(lens, Len(lens))
  PROVE  Sound(Append(lens, n), 0, out)
<1> DEFINE more == Append(lens, n)
           u    == LastOf(out)
<1>1. /\ more \in Seq(Nat) /\ Len(more) = Len(lens) + 1 /\ Len(lens) \in Nat
      /\ \A m \in 1..Len(lens) : more[m] = lens[m]
  OBVIOUS
<1>2. Unbroken(out, more)
  <2>1. \A i \in 1..Len(out) : Before(out, i) \in Units /\ out[i] \in Units
    BY BeforeType
  <2> QED
    BY <2>1, FollowsAppend DEF Sound, Unbroken
<1>3. u \in Units
  BY BeforeType DEF LastOf
<1>4. /\ u[1] \in 0..Len(lens) /\ u[2] = Length(lens, u[1])
      /\ \A m \in (u[1] + 1)..Len(lens) : lens[m] = 0
  <2>1. CASE pos > 0
    BY <1>1, <2>1 DEF Sound, Length
  <2>2. CASE pos = 0 /\ Len(lens) > 0
    BY <1>1, <1>3, <2>2 DEF Sound, Length, Units
  <2>3. CASE Len(lens) = 0
    <3>1. out = <<>>
      <4>1. \A i \in 1..Len(out) : FALSE
        BY <2>3 DEF Sound, Unbroken, Follows
      <4> QED
        BY <4>1
    <3>2. u = <<0, 0>>
      BY <3>1 DEF LastOf, Before
    <3> QED
      BY <2>3, <3>2 DEF Length
  <2> QED
    BY <1>1, <2>1, <2>2, <2>3
<1> HIDE DEF more, u
<1>5. Length(more, u[1]) = Length(lens, u[1])
  BY <1>1, <1>4 DEF Length
<1>6. 0 <= Length(more, Len(more))
  BY <1>1 DEF Length
<1> QED
  BY <1>1, <1>2, <1>4, <1>5, <1>6 DEF Sound, more, u

\* A run of the next units of the last answer is produced.
LEMMA SoundRun ==
  ASSUME NEW lens \in Seq(Nat), NEW out \in Seq(Units), NEW pos \in Nat, NEW k \in Nat,
         Sound(lens, pos, out), pos + k <= Length(lens, Len(lens))
  PROVE  /\ out \o Run(Len(lens), pos, k) \in Seq(Units)
         /\ Sound(lens, pos + k, out \o Run(Len(lens), pos, k))
<1> DEFINE n   == Len(lens)
           run == Run(n, pos, k)
           all == out \o run
<1>1. n \in Nat /\ Len(out) \in Nat
  OBVIOUS
<1>2. run \in Seq(Units) /\ Len(run) = k /\ \A i \in 1..k : run[i] = <<n, pos + i>>
  BY <1>1, SMTT(40) DEF Run, Units
<1> HIDE DEF run
<1>3. /\ all \in Seq(Units) /\ Len(all) = Len(out) + k
      /\ \A i \in 1..Len(out) : all[i] = out[i]
      /\ \A i \in 1..k : all[Len(out) + i] = <<n, pos + i>>
  BY <1>1, <1>2
<1> HIDE DEF all
<1>4. \A i \in 1..(Len(out) + 1) : Before(all, i) = Before(out, i)
  BY <1>1, <1>3 DEF Before
<1>5. k > 0 => n > 0 /\ pos + k <= lens[n] /\ lens[n] \in Nat
  BY <1>1 DEF Length
<1>6. k > 0 => Follows(lens, LastOf(out), <<n, pos + 1>>)
  <2> SUFFICES ASSUME k > 0 PROVE Follows(lens, LastOf(out), <<n, pos + 1>>)
    OBVIOUS
  <2>1. n \in 1..n /\ pos + 1 \in 1..lens[n]
    BY <1>1, <1>5
  <2>2. LastOf(out) \in Units
    BY BeforeType DEF LastOf
  <2>3. CASE pos > 0
    BY <2>1, <2>3 DEF Sound, Follows
  <2>4. CASE pos = 0
    BY <1>1, <1>5, <2>1, <2>4 DEF Sound, Follows
  <2> QED
    BY <2>3, <2>4
<1>7. Unbroken(all, lens)
  <2>1. ASSUME NEW i \in 1..Len(all)
        PROVE  Follows(lens, Before(all, i), all[i])
    <3>1. CASE i <= Len(out)
      BY <1>1, <1>3, <1>4, <3>1 DEF Sound, Unbroken
    <3>2. CASE i = Len(out) + 1
      <4>1. k > 0 /\ all[i] = <<n, pos + 1>> /\ Before(all, i) = LastOf(out)
        BY <1>1, <1>3, <1>4, <3>2 DEF LastOf
      <4> QED
        BY <1>6, <4>1
    <3>3. CASE i > Len(out) + 1
      <4> DEFINE j == i - Len(out)
      <4>1. /\ j \in 2..k /\ k > 0 /\ all[i] = <<n, pos + j>>
            /\ Before(all, i) = <<n, pos + (j - 1)>>
        <5>1. j \in 2..k /\ j - 1 \in 1..k /\ i = Len(out) + j /\ i - 1 = Len(out) + (j - 1)
          BY <1>1, <1>3, <3>3
        <5> HIDE DEF j
        <5>2. all[Len(out) + j] = <<n, pos + j>>
              /\ all[Len(out) + (j - 1)] = <<n, pos + (j - 1)>>
          <6>1. j \in 1..k
            BY <5>1
          <6> QED
            BY <1>3, <5>1, <6>1
        <5> QED
          BY <1>1, <5>1, <5>2, <3>3 DEF Before
      <4> HIDE DEF j
      <4>2. n \in 1..n /\ pos + j \in 1..lens[n] /\ pos + j = (pos + (j - 1)) + 1
        BY <1>1, <1>5, <4>1, SMTT(40)
      <4> QED
        BY <4>1, <4>2 DEF Follows
    <3>4. i \in Nat
      OBVIOUS
    <3> QED
      BY <1>1, <3>1, <3>2, <3>3, <3>4
  <2> QED
    BY <2>1 DEF Unbroken
<1>8. k > 0 => LastOf(all) = <<n, pos + k>>
  BY <1>1, <1>3 DEF LastOf, Before
<1>9. k = 0 => LastOf(all) = LastOf(out)
  BY <1>1, <1>3, <1>4 DEF LastOf
<1>10. Sound(lens, pos + k, all)
  <2>1. CASE k > 0
    BY <1>1, <1>7, <1>8, <2>1 DEF Sound
  <2>2. CASE k = 0
    BY <1>1, <1>7, <1>9, <2>2 DEF Sound
  <2> QED
    BY <2>1, <2>2
<1> QED
  BY <1>3, <1>10 DEF all, run

\* The last answer grows.
LEMMA SoundGrow ==
  ASSUME NEW lens \in Seq(Nat), NEW out \in Seq(Units), NEW pos \in Nat,
         Sound(lens, pos, out), Len(lens) > 0
  PROVE  Sound([lens EXCEPT ![Len(lens)] = @ + 1], pos, out)
<1> DEFINE more == [lens EXCEPT ![Len(lens)] = @ + 1]
           u    == LastOf(out)
<1>1. /\ Len(more) = Len(lens) /\ Len(lens) \in Nat
      /\ \A m \in 1..(Len(lens) - 1) : more[m] = lens[m]
      /\ more[Len(lens)] = lens[Len(lens)] + 1 /\ lens[Len(lens)] \in Nat
  OBVIOUS
<1>2. Unbroken(out, more)
  <2>1. \A i \in 1..Len(out) : Before(out, i) \in Units /\ out[i] \in Units
    BY BeforeType
  <2> QED
    BY <2>1, FollowsGrow DEF Sound, Unbroken
<1>3. u \in Units /\ u[1] \in Nat
  BY BeforeType DEF LastOf, Units
<1> HIDE DEF more, u
<1>4. pos <= Length(more, Len(more))
  BY <1>1 DEF Sound, Length
<1>5. pos = 0 => /\ u[1] < Len(more) /\ u[2] = Length(more, u[1])
                 /\ \A m \in (u[1] + 1)..(Len(more) - 1) : more[m] = 0
  <2> SUFFICES ASSUME pos = 0
               PROVE  /\ u[1] < Len(more) /\ u[2] = Length(more, u[1])
                      /\ \A m \in (u[1] + 1)..(Len(more) - 1) : more[m] = 0
    OBVIOUS
  <2>1. /\ u[1] < Len(lens) /\ u[2] = Length(lens, u[1])
        /\ \A m \in (u[1] + 1)..(Len(lens) - 1) : lens[m] = 0
    BY DEF Sound, u
  <2>2. u[1] = 0 \/ u[1] \in 1..(Len(lens) - 1)
    BY <1>1, <1>3, <2>1
  <2>3. Length(more, u[1]) = Length(lens, u[1])
    BY <1>1, <2>2 DEF Length
  <2>4. ASSUME NEW m \in (u[1] + 1)..(Len(more) - 1)
        PROVE  more[m] = 0
    <3>1. m \in 1..(Len(lens) - 1) /\ m \in (u[1] + 1)..(Len(lens) - 1)
      BY <1>1, <1>3
    <3> QED
      BY <1>1, <2>1, <3>1
  <2> QED
    BY <1>1, <2>1, <2>3, <2>4
<1> QED
  BY <1>1, <1>2, <1>4, <1>5, ZenonT(60) DEF Sound, u, more

\* A stream whose last answer has been produced has nothing missing.
LEMMA SoundFinished ==
  ASSUME NEW lens \in Seq(Nat), NEW out \in Seq(Units), NEW pos \in Nat,
         Sound(lens, pos, out), pos = Length(lens, Len(lens))
  PROVE  Finished(out, lens)
<1> DEFINE u == LastOf(out)
<1>1. u \in Units /\ u[1] \in Nat /\ Len(lens) \in Nat
  BY BeforeType DEF LastOf, Units
<1>2. CASE pos > 0
  BY <1>1, <1>2 DEF Sound, Finished, LastOf
<1>3. CASE pos = 0 /\ Len(lens) > 0
  BY <1>1, <1>3 DEF Sound, Finished, LastOf, Length
<1>4. CASE Len(lens) = 0
  <2>1. out = <<>>
    <3>1. \A i \in 1..Len(out) : FALSE
      BY <1>4 DEF Sound, Unbroken, Follows
    <3> QED
      BY <3>1
  <2> QED
    BY <1>4, <2>1 DEF Finished, Before, Length
<1> QED
  BY <1>1, <1>2, <1>3, <1>4

-----------------------------------------------------------------------------
(* The invariant                                                           *)

\* A session is sound, and ahead of its answers by one request at most, and
\* then nothing is left of the answers before.
GoodSession(s) ==
  /\ Sound(s.lens, s.pos, s.out)
  /\ Len(s.lens) = s.asked \/ (s.asked = Len(s.lens) + 1 /\ s.ended /\ s.pos = LastLength(s))

SInv ==
  /\ session \in [Conns -> Sessions] /\ gone \in [Conns -> BOOLEAN]
  /\ \A c \in Conns : session[c].good => GoodSession(session[c])

\* The session of one connection becomes another good one.
LEMMA OneSession ==
  ASSUME SInv, NEW c \in Conns, NEW s \in Sessions, s.good => GoodSession(s),
         session' = [session EXCEPT ![c] = s], UNCHANGED gone
  PROVE  SInv'
BY DEF SInv

\* The fields of a session.
LEMMA SessionFields ==
  ASSUME NEW s \in Sessions
  PROVE  /\ s.good \in BOOLEAN /\ s.asked \in Nat /\ s.lens \in Seq(Nat)
         /\ s.ended \in BOOLEAN /\ s.pos \in Nat /\ s.out \in Seq(Units)
BY DEF Sessions

\* Nothing has been asked at the start.
LEMMA StartInv == Init => SInv
<1> SUFFICES ASSUME Init PROVE SInv
  OBVIOUS
<1>1. Start \in Sessions
  BY DEF Start, Sessions
<1>2. Sound(<<>>, 0, <<>>)
  BY DEF Sound, Unbroken, Length
<1>3. GoodSession(Start)
  BY <1>2 DEF GoodSession, Start
<1> QED
  BY <1>1, <1>3 DEF Init, SInv

\* Ask: the answers before have been produced.
LEMMA AskInv ==
  ASSUME SInv, NEW c \in Conns, Ask(c)
  PROVE  SInv'
<1> DEFINE s == session[c]
           t == [s EXCEPT !.asked = @ + 1]
<1>1. s \in Sessions /\ s.good /\ GoodSession(s) /\ Whole(s)
  BY DEF SInv, Ask
<1> HIDE DEF s
<1>2. t \in Sessions
  <2>1. s.asked + 1 \in Nat
    BY <1>1, SessionFields
  <2> QED
    BY <1>1, <2>1 DEF Sessions
<1>3. t.lens = s.lens /\ t.pos = s.pos /\ t.out = s.out /\ t.ended = s.ended
      /\ t.asked = s.asked + 1 /\ Len(s.lens) \in Nat
  BY <1>1 DEF Sessions
<1> HIDE DEF t
<1>4. GoodSession(t)
  BY <1>1, <1>3 DEF GoodSession, Whole, LastLength
<1>5. session' = [session EXCEPT ![c] = t] /\ UNCHANGED gone
  BY <1>1 DEF Ask, s, t, SInv
<1> QED
  BY <1>2, <1>4, <1>5, OneSession

\* Answer: an answer is added to the stream, and its first units produced.
LEMMA AnswerInv ==
  ASSUME NaturalLengths, SInv, NEW c \in Conns, Answer(c)
  PROVE  SInv'
<1> DEFINE s == session[c]
<1>1. s \in Sessions /\ s.good /\ GoodSession(s) /\ Len(s.lens) < s.asked
  BY DEF SInv, Answer
<1>2. PICK n \in Lengths, e \in BOOLEAN : \E k \in 0..n :
        session' = [session EXCEPT ![c] =
          [s EXCEPT !.lens = Append(@, n), !.ended = e, !.pos = k,
                    !.out = @ \o Run(Len(s.lens) + 1, 0, k)]]
  BY DEF Answer
<1>3. PICK k \in 0..n :
        session' = [session EXCEPT ![c] =
          [s EXCEPT !.lens = Append(@, n), !.ended = e, !.pos = k,
                    !.out = @ \o Run(Len(s.lens) + 1, 0, k)]]
  BY <1>2
<1> DEFINE lens == Append(s.lens, n)
           out  == s.out \o Run(Len(s.lens) + 1, 0, k)
           t    == [s EXCEPT !.lens = lens, !.ended = e, !.pos = k, !.out = out]
<1> HIDE DEF s
<1>4. n \in Nat /\ k \in Nat /\ k <= n
  BY DEF NaturalLengths
<1>5. /\ s.lens \in Seq(Nat) /\ s.out \in Seq(Units) /\ s.pos \in Nat /\ s.asked \in Nat
      /\ Len(s.lens) \in Nat
  BY <1>1, SessionFields
<1>6. lens \in Seq(Nat) /\ Len(lens) = Len(s.lens) + 1 /\ Length(lens, Len(lens)) = n
  BY <1>4, <1>5 DEF Length
<1>7. Sound(s.lens, s.pos, s.out) /\ s.pos = Length(s.lens, Len(s.lens))
      /\ s.asked = Len(s.lens) + 1
  BY <1>1, <1>5 DEF GoodSession, LastLength
<1>8. Sound(lens, 0, s.out)
  BY <1>4, <1>5, <1>7, SoundAppend
<1> HIDE DEF lens
<1>9. 0 + k <= Length(lens, Len(lens)) /\ 0 + k = k /\ 0 \in Nat
  BY <1>4, <1>6
<1>10. out \in Seq(Units) /\ Sound(lens, k, out)
  <2>1. /\ s.out \o Run(Len(lens), 0, k) \in Seq(Units)
        /\ Sound(lens, 0 + k, s.out \o Run(Len(lens), 0, k))
    BY <1>4, <1>5, <1>6, <1>8, <1>9, SoundRun
  <2> QED
    BY <1>6, <1>9, <2>1
<1> HIDE DEF out
<1>11. t \in Sessions
  BY <1>1, <1>4, <1>6, <1>10 DEF Sessions
<1>12. t.lens = lens /\ t.pos = k /\ t.out = out /\ t.asked = s.asked
  BY <1>1 DEF Sessions
<1>13. GoodSession(t)
  BY <1>6, <1>7, <1>10, <1>12 DEF GoodSession
<1>14. session' = [session EXCEPT ![c] = t]
  BY <1>3 DEF lens, out
<1> HIDE DEF t
<1>15. UNCHANGED gone
  BY DEF Answer
<1> QED
  BY <1>11, <1>13, <1>14, <1>15, OneSession

\* Produce: the next units of the last answer.
LEMMA ProduceInv ==
  ASSUME SInv, NEW c \in Conns, Produce(c)
  PROVE  SInv'
<1> DEFINE s == session[c]
<1>1. s \in Sessions /\ s.good /\ GoodSession(s) /\ UNCHANGED gone
  BY DEF SInv, Produce
<1>2. PICK k \in 1..(LastLength(s) - s.pos) :
        session' = [session EXCEPT ![c].pos = @ + k,
                                   ![c].out = @ \o Run(Len(s.lens), s.pos, k)]
  BY DEF Produce
<1> DEFINE out == s.out \o Run(Len(s.lens), s.pos, k)
           t   == [s EXCEPT !.pos = s.pos + k, !.out = out]
<1>3. session' = [session EXCEPT ![c] = t]
  BY <1>1, <1>2 DEF SInv, Sessions
<1> HIDE DEF s
<1>4. /\ s.lens \in Seq(Nat) /\ s.out \in Seq(Units) /\ s.pos \in Nat /\ s.asked \in Nat
      /\ Len(s.lens) \in Nat
  BY <1>1, SessionFields
<1>5. LastLength(s) \in Nat
  BY <1>4 DEF LastLength, Length
<1>6. k \in Nat /\ k > 0 /\ s.pos + k <= LastLength(s)
  BY <1>4, <1>5
<1>7. out \in Seq(Units) /\ Sound(s.lens, s.pos + k, out)
  BY <1>1, <1>4, <1>6, SoundRun DEF GoodSession, LastLength
<1> HIDE DEF out
<1>8. t \in Sessions
  <2>1. s.pos + k \in Nat
    BY <1>4, <1>6
  <2> QED
    BY <1>1, <1>7, <2>1 DEF Sessions
<1>9. t.lens = s.lens /\ t.pos = s.pos + k /\ t.out = out /\ t.asked = s.asked
  BY <1>1 DEF Sessions
<1>10. Len(s.lens) = s.asked
  BY <1>1, <1>4, <1>5, <1>6 DEF GoodSession
<1>11. GoodSession(t)
  BY <1>7, <1>9, <1>10 DEF GoodSession
<1> HIDE DEF t
<1> QED
  BY <1>1, <1>3, <1>8, <1>11, OneSession

\* Grow: the last answer gets longer, which it does only while it has not ended.
LEMMA GrowInv ==
  ASSUME SInv, NEW c \in Conns, Grow(c)
  PROVE  SInv'
<1> DEFINE s    == session[c]
           lens == [s.lens EXCEPT ![Len(s.lens)] = @ + 1]
           t    == [s EXCEPT !.lens = lens]
<1>1. s \in Sessions /\ s.good /\ GoodSession(s) /\ ~s.ended /\ Len(s.lens) > 0
  BY DEF SInv, Grow
<1>2. session' = [session EXCEPT ![c] = t] /\ UNCHANGED gone
  BY <1>1 DEF SInv, Grow, Sessions
<1> HIDE DEF s
<1>3. /\ s.lens \in Seq(Nat) /\ s.out \in Seq(Units) /\ s.pos \in Nat /\ s.asked \in Nat
  BY <1>1, SessionFields
<1>4. lens \in Seq(Nat) /\ Len(lens) = Len(s.lens)
  BY <1>1, <1>3
<1>5. Sound(lens, s.pos, s.out)
  BY <1>1, <1>3, SoundGrow DEF GoodSession
<1> HIDE DEF lens
<1>6. t \in Sessions /\ t.lens = lens /\ t.pos = s.pos /\ t.out = s.out /\ t.asked = s.asked
  BY <1>1, <1>4 DEF Sessions
<1>7. GoodSession(t)
  BY <1>1, <1>4, <1>5, <1>6 DEF GoodSession
<1> HIDE DEF t
<1> QED
  BY <1>2, <1>6, <1>7, OneSession

\* End, GiveUp and Leave change nothing that was produced.
LEMMA OtherInv ==
  ASSUME SInv, NEW c \in Conns, End(c) \/ GiveUp(c) \/ Leave(c)
  PROVE  SInv'
<1>1. CASE End(c)
  <2> DEFINE s == session[c]
             t == [s EXCEPT !.ended = TRUE]
  <2>1. s \in Sessions /\ s.good /\ GoodSession(s) /\ ~s.ended
        /\ session' = [session EXCEPT ![c] = t] /\ UNCHANGED gone
    BY <1>1 DEF SInv, End, Sessions
  <2> HIDE DEF s
  <2>2. t \in Sessions /\ t.lens = s.lens /\ t.pos = s.pos /\ t.out = s.out
        /\ t.asked = s.asked
    BY <2>1 DEF Sessions
  <2>3. GoodSession(t)
    BY <2>1, <2>2 DEF GoodSession
  <2> HIDE DEF t
  <2> QED
    BY <2>1, <2>2, <2>3, OneSession
<1>2. CASE GiveUp(c)
  <2>1. Start \in Sessions
    BY DEF Start, Sessions
  <2>2. Over \in Sessions /\ ~Over.good
    BY <2>1 DEF Over, Sessions
  <2> QED
    BY <1>2, <2>2, OneSession DEF GiveUp
<1>3. CASE Leave(c)
  BY <1>3 DEF Leave, SInv
<1> QED
  BY <1>1, <1>2, <1>3

\* The promise holds the invariant.
LEMMA PromiseInv == NaturalLengths /\ Spec => []SInv
<1>1. ASSUME NaturalLengths, SInv, [Next]_vars PROVE SInv'
  <2>1. CASE UNCHANGED vars
    BY <1>1, <2>1 DEF SInv, vars
  <2>2. ASSUME NEW c \in Conns,
               Ask(c) \/ Answer(c) \/ Produce(c) \/ Grow(c) \/ End(c) \/ Leave(c) \/ GiveUp(c)
        PROVE  SInv'
    BY <1>1, <2>2, AskInv, AnswerInv, ProduceInv, GrowInv, OtherInv
  <2> QED
    BY <1>1, <2>1, <2>2 DEF Next
<1>2. NaturalLengths => NaturalLengths'
  BY DEF NaturalLengths
<1> QED
  BY <1>1, <1>2, StartInv, PTL DEF Spec

-----------------------------------------------------------------------------
(* Theorems                                                                *)

\* What the peer of a connection has been sent, or is about to be, is the answers
\* to its requests, in order: dumping in pieces (writeResponse, pipeHandler) must not
\* break it.
THEOREM AnswersUnbroken == NaturalLengths /\ Spec => []InOrder
<1>1. SInv => InOrder
  BY DEF SInv, GoodSession, Sound, InOrder
<1> QED
  BY <1>1, PromiseInv, PTL

\* When all of the last answer is produced, and a request may be taken up, nothing
\* of any answer is missing.
THEOREM AnswersComplete == NaturalLengths /\ Spec => []InFull
<1>1. ASSUME SInv, NEW c \in Conns, session[c].good, Whole(session[c])
      PROVE  Finished(session[c].out, session[c].lens)
  <2>1. session[c] \in Sessions /\ GoodSession(session[c])
    BY <1>1 DEF SInv
  <2> QED
    BY <1>1, <2>1, SessionFields, SoundFinished DEF GoodSession, Whole, LastLength
<1>2. SInv => InFull
  BY <1>1 DEF InFull
<1> QED
  BY <1>2, PromiseInv, PTL

=============================================================================
