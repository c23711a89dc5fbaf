----------------------------- MODULE ReplayProofs -----------------------------
(***************************************************************************)
(* Replaying the events table gives back the task table, and an event      *)
(* delivered twice changes nothing.                                        *)
(*                                                                         *)
(* replay_task and list_events are recursions over the length of a stream. *)
(* Induction over that length is the principle of the least number: a set  *)
(* of lengths that is closed under successors has all of them (UpTo).      *)
(***************************************************************************)
(* First, the recursive definitions satisfy their own equations.           *)
(***************************************************************************)
EXTENDS ProjectedStore, TaskStoreProofs, NaturalsInduction,
        WellFoundedInduction

\* Every nonempty set of numbers has a least one: induction over the length of
\* a stream is the least length at which a claim fails.
LEMMA LeastExists ==
  ASSUME NEW S, S \subseteq Nat, S # {}
  PROVE  \E m \in S : \A n \in S : m <= n
<1> DEFINE R == OpToRel(<, Nat)
<1>1. IsWellFoundedOn(R, Nat)
  BY NatLessThanWellFounded
<1>2. \A m, n \in Nat : m < n => <<m, n>> \in R
  BY DEF OpToRel
<1> HIDE DEF R
<1>3. PICK m \in S : \A n \in S : <<n, m>> \notin R
  BY <1>1, WFMin
<1>4. ASSUME NEW n \in S PROVE m <= n
  <2>1. m \in Nat /\ n \in Nat
    OBVIOUS
  <2>2. ~(n < m)
    BY <1>2, <1>3, <2>1
  <2> QED
    BY <2>1, <2>2
<1> QED
  BY <1>4

\* A set of numbers that holds 0 and, up to N, the successor of each of its
\* numbers holds every number up to N.
LEMMA UpTo ==
  ASSUME NEW S, NEW N \in Nat, 0 \in S,
         \A n \in 0..N : (n < N /\ n \in S) => n + 1 \in S
  PROVE  \A n \in 0..N : n \in S
<1> DEFINE B == {n \in 0..N : n \notin S}
<1> SUFFICES ASSUME B # {} PROVE FALSE
  OBVIOUS
<1>1. PICK m \in B : \A n \in B : m <= n
  <2>1. B \subseteq Nat
    OBVIOUS
  <2> HIDE DEF B
  <2> QED
    BY <2>1, LeastExists
<1>2. m \in 1..N /\ m - 1 \in 0..N /\ m - 1 < N /\ m - 1 \notin B
  BY <1>1
<1>3. m - 1 \in S
  BY <1>2
<1>4. (m - 1) + 1 \in S
  BY <1>2, <1>3
<1> QED
  BY <1>1, <1>2, <1>4

\* The recursive definition of Consumed up to n.
ConsumedTo(s, n, g) ==
    g = [i \in 0..n |-> IF i = 0 THEN NewProjector ELSE consume(g[i - 1], s[i])]

\* The recursion of Consumed has a solution up to every length.
LEMMA ConsumedExists ==
  ASSUME NEW s, NEW N \in Nat
  PROVE  \E g : ConsumedTo(s, N, g)
<1> DEFINE S == {n \in 0..N : \E g : ConsumedTo(s, n, g)}
<1>1. 0 \in S
  <2> DEFINE g == [i \in 0..0 |-> NewProjector]
  <2>1. ConsumedTo(s, 0, g)
    BY DEF ConsumedTo
  <2> QED
    BY <2>1
<1>2. ASSUME NEW n \in 0..N, n < N, n \in S PROVE n + 1 \in S
  <2>1. PICK g : ConsumedTo(s, n, g)
    BY <1>2
  <2> DEFINE h == [i \in 0..(n + 1) |->
                     IF i = n + 1 THEN consume(g[n], s[n + 1]) ELSE g[i]]
  <2>2. ConsumedTo(s, n + 1, h)
    <3>1. \A i \in 0..n : g[i] = IF i = 0 THEN NewProjector ELSE consume(g[i - 1], s[i])
      BY <2>1 DEF ConsumedTo
    <3>2. ASSUME NEW i \in 0..(n + 1)
          PROVE  h[i] = IF i = 0 THEN NewProjector ELSE consume(h[i - 1], s[i])
      <4>1. CASE i = n + 1
        BY <4>1
      <4>2. CASE i \in 0..n
        BY <4>2, <3>1
      <4> QED
        BY <4>1, <4>2
    <3> QED
      BY <3>2 DEF ConsumedTo
  <2>3. \E f : ConsumedTo(s, n + 1, f)
    BY <2>2
  <2> QED
    BY <1>2, <2>3
<1> HIDE DEF S
<1>3. N \in S
  BY <1>1, <1>2, UpTo
<1> QED
  BY <1>3 DEF S

\* The projector consumes a stream one event at a time.
LEMMA ConsumedDef ==
  ASSUME NEW s \in Seq(Event)
  PROVE  /\ DOMAIN Consumed(s) = 0..Len(s)
         /\ Consumed(s)[0] = NewProjector
         /\ \A n \in 1..Len(s) :
              Consumed(s)[n] = consume(Consumed(s)[n - 1], s[n])
<1> PICK c : c = Consumed(s)
  OBVIOUS
<1>1. c = CHOOSE g : ConsumedTo(s, Len(s), g)
  BY Zenon DEF Consumed, ConsumedTo
<1>2. ConsumedTo(s, Len(s), c)
  <2>1. Len(s) \in Nat
    OBVIOUS
  <2> QED
    BY <1>1, <2>1, ConsumedExists, Zenon
<1> QED
  BY <1>2 DEF ConsumedTo

-----------------------------------------------------------------------------
(* Streams with a duplicate.                                               *)

IsProjector(p) == DOMAIN p = {"projection", "seen", "error"}

\* A projector that failed, or has seen the event, is left as it is.
LEMMA ConsumeSkips ==
  ASSUME NEW p, NEW e, p.error \/ e \in p.seen
  PROVE  consume(p, e) = p
BY DEF consume

\* An event that is not skipped is either applied or fails the projector.
LEMMA ConsumeCases ==
  ASSUME NEW p, NEW e
  PROVE  \/ consume(p, e) = p /\ (p.error \/ e \in p.seen)
         \/ consume(p, e) = Failed(p)
         \/ \E q : consume(p, e) = Reached(p, q, e)
BY DEF consume

\* consume keeps the events seen and adds its own, or fails.
LEMMA ConsumeSees ==
  ASSUME NEW p, IsProjector(p), NEW e
  PROVE  /\ IsProjector(consume(p, e))
         /\ p.seen \subseteq consume(p, e).seen
         /\ consume(p, e).error \/ e \in consume(p, e).seen
<1>1. CASE consume(p, e) = p /\ (p.error \/ e \in p.seen)
  BY <1>1
<1>2. CASE consume(p, e) = Failed(p)
  BY <1>2 DEF Failed, IsProjector
<1>3. CASE \E q : consume(p, e) = Reached(p, q, e)
  BY <1>3 DEF Reached, IsProjector
<1> QED
  BY <1>1, <1>2, <1>3, ConsumeCases

\* A projector that has not failed has seen every event it consumed.
LEMMA SeesAll ==
  ASSUME NEW s \in Seq(Event), NEW n \in 0..Len(s)
  PROVE  /\ IsProjector(Consumed(s)[n])
         /\ \/ Consumed(s)[n].error
            \/ \A k \in 1..n : s[k] \in Consumed(s)[n].seen
<1> PICK c : c = Consumed(s)
  OBVIOUS
<1> DEFINE S == {m \in 0..Len(s) :
                   /\ IsProjector(c[m])
                   /\ c[m].error \/ \A k \in 1..m : s[k] \in c[m].seen}
<1>1. 0 \in S
  BY ConsumedDef DEF NewProjector, IsProjector
<1>2. ASSUME NEW m \in 0..Len(s), m < Len(s), m \in S
      PROVE  m + 1 \in S
  <2>1. c[m + 1] = consume(c[m], s[m + 1])
    <3>1. m + 1 \in 1..Len(s) /\ (m + 1) - 1 = m
      BY <1>2
    <3> QED
      BY <3>1, ConsumedDef
  <2>2. /\ IsProjector(c[m + 1])
        /\ c[m].seen \subseteq c[m + 1].seen
        /\ c[m + 1].error \/ s[m + 1] \in c[m + 1].seen
    BY <1>2, <2>1, ConsumeSees
  <2>3. c[m].error => c[m + 1] = c[m]
    BY <2>1, ConsumeSkips
  <2>4. c[m + 1].error \/ \A k \in 1..(m + 1) : s[k] \in c[m + 1].seen
    BY <1>2, <2>2, <2>3
  <2> QED
    BY <1>2, <2>2, <2>4
<1> HIDE DEF S
<1>3. n \in S
  BY <1>1, <1>2, UpTo
<1> QED
  BY <1>3 DEF S

\* The D events of s after the a-th are those of u after the b-th.
Agree(s, u, a, b, D) == \A d \in 1..D : s[a + d] = u[b + d]

\* Two projectors in the same state that consume the same events stay equal.
LEMMA SameEvents ==
  ASSUME NEW s \in Seq(Event), NEW u \in Seq(Event),
         NEW a \in Nat, NEW b \in Nat, NEW D \in Nat,
         NEW x \in 0..Len(s), NEW y \in 0..Len(u), x = a + D, y = b + D,
         Consumed(s)[a] = Consumed(u)[b],
         Agree(s, u, a, b, D)
  PROVE  Consumed(s)[x] = Consumed(u)[y]
<1> PICK c, g : c = Consumed(s) /\ g = Consumed(u)
  OBVIOUS
<1> DEFINE S == {d \in 0..D : c[a + d] = g[b + d]}
<1>1. 0 \in S
  OBVIOUS
<1>2. ASSUME NEW d \in 0..D, d < D, d \in S PROVE d + 1 \in S
  <2>1. /\ a + (d + 1) \in 1..Len(s) /\ (a + (d + 1)) - 1 = a + d
        /\ b + (d + 1) \in 1..Len(u) /\ (b + (d + 1)) - 1 = b + d
        /\ d + 1 \in 1..D
    BY <1>2
  <2>2. /\ c[a + (d + 1)] = consume(c[a + d], s[a + (d + 1)])
        /\ g[b + (d + 1)] = consume(g[b + d], u[b + (d + 1)])
    BY <2>1, ConsumedDef
  <2>3. c[a + d] = g[b + d] /\ s[a + (d + 1)] = u[b + (d + 1)]
    BY <1>2, <2>1 DEF Agree
  <2>4. c[a + (d + 1)] = g[b + (d + 1)]
    BY <2>2, <2>3
  <2> QED
    BY <2>1, <2>4
<1> HIDE DEF S
<1>3. D \in S
  <2>1. D \in 0..D
    OBVIOUS
  <2> QED
    BY <1>1, <1>2, <2>1, UpTo
<1> QED
  BY <1>3 DEF S

\* The stream s with its i-th event delivered again after the j-th.
WithDuplicate(s, i, j) ==
    SubSeq(s, 1, j) \o <<s[i]>> \o SubSeq(s, j + 1, Len(s))

\* What is where in a concatenation.
Joined(p, q, u) ==
    /\ u \in Seq(Event)
    /\ Len(u) = Len(p) + Len(q)
    /\ \A k \in 1..Len(p) : u[k] = p[k]
    /\ \A k \in 1..Len(q) : u[Len(p) + k] = q[k]

\* What is where in a concatenation.
LEMMA JoinedPositions ==
  ASSUME NEW p \in Seq(Event), NEW q \in Seq(Event)
  PROVE  Joined(p, q, p \o q)
BY DEF Joined

\* What is where in a stream with a duplicate.
LEMMA DuplicatePositions ==
  ASSUME NEW s \in Seq(Event), NEW j \in 1..Len(s), NEW i \in 1..j
  PROVE  /\ WithDuplicate(s, i, j) \in Seq(Event)
         /\ Len(WithDuplicate(s, i, j)) = Len(s) + 1
         /\ \A k \in 1..j : WithDuplicate(s, i, j)[k] = s[k]
         /\ WithDuplicate(s, i, j)[j + 1] = s[i]
         /\ \A k \in (j + 1)..Len(s) : WithDuplicate(s, i, j)[k + 1] = s[k]
<1>a. PICK p : p = SubSeq(s, 1, j)
  OBVIOUS
<1>b. PICK q : q = SubSeq(s, j + 1, Len(s))
  OBVIOUS
<1>c. PICK x : x = s[i]
  OBVIOUS
<1>1. p \in Seq(Event) /\ Len(p) = j /\ \A k \in 1..j : p[k] = s[k]
  BY <1>a
<1>2. /\ q \in Seq(Event) /\ Len(q) = Len(s) - j
      /\ \A k \in 1..(Len(s) - j) : q[k] = s[j + k]
  BY <1>b
<1>3. x \in Event /\ <<x>> \in Seq(Event) /\ Len(<<x>>) = 1 /\ <<x>>[1] = x
  BY <1>c
<1>d. PICK m : m = p \o <<x>>
  OBVIOUS
<1>4. /\ m \in Seq(Event) /\ Len(m) = j + 1 /\ m[j + 1] = x
      /\ \A k \in 1..j : m[k] = s[k]
  BY <1>1, <1>3, <1>d
<1>e. PICK u : u = m \o q
  OBVIOUS
<1>5. /\ Len(u) = Len(s) + 1
      /\ \A k \in 1..(j + 1) : u[k] = m[k]
      /\ \A k \in 1..(Len(s) - j) : u[(j + 1) + k] = q[k]
  <2>1. /\ Len(u) = Len(m) + Len(q)
        /\ \A k \in 1..Len(m) : u[k] = m[k]
        /\ \A k \in 1..Len(q) : u[Len(m) + k] = q[k]
    BY <1>2, <1>4, <1>e, JoinedPositions, ZenonT(40) DEF Joined
  <2> QED
    BY <1>2, <1>4, <2>1
<1>6. ASSUME NEW k \in (j + 1)..Len(s) PROVE u[k + 1] = s[k]
  <2>1. PICK d \in 1..(Len(s) - j) : d = k - j
    OBVIOUS
  <2>2. u[(j + 1) + d] = s[j + d]
    BY <1>2, <1>5
  <2>3. (j + 1) + d = k + 1 /\ j + d = k
    BY <2>1
  <2> QED
    BY <2>2, <2>3
<1> QED
  <2>1. u = WithDuplicate(s, i, j)
    BY <1>a, <1>b, <1>c, <1>d, <1>e, Zenon DEF WithDuplicate
  <2>3. u \in Seq(Event)
    BY <1>2, <1>4, <1>e, JoinedPositions DEF Joined
  <2>2. /\ \A k \in 1..j : u[k] = s[k]
        /\ u[j + 1] = s[i]
    BY <1>4, <1>5, <1>c
  <2> QED
    BY <1>5, <1>6, <2>1, <2>2, <2>3, Zenon

\* Delivering an event of any stream again, stored by the hub or not, leaves the
\* projector of its replay exactly as it was (TaskProjector.consume).
THEOREM ReplayIgnoresDuplicates ==
  ASSUME NEW s \in Seq(Event), NEW j \in 1..Len(s), NEW i \in 1..j
  PROVE  replay_task(WithDuplicate(s, i, j)) = replay_task(s)
<1> PICK u : u = WithDuplicate(s, i, j)
  OBVIOUS
<1>1. /\ u \in Seq(Event) /\ Len(s) \in Nat /\ Len(u) = Len(s) + 1
      /\ \A k \in 1..j : u[k] = s[k]
      /\ u[j + 1] = s[i]
      /\ \A k \in (j + 1)..Len(s) : u[k + 1] = s[k]
  BY DuplicatePositions
<1> PICK c, g : c = Consumed(s) /\ g = Consumed(u)
  OBVIOUS
<1>2. c[j] = g[j]
  <2>1. c[0] = g[0]
    BY <1>1, ConsumedDef
  <2>2. /\ j \in 0..Len(s) /\ j \in 0..Len(u) /\ j \in Nat /\ j = 0 + j
        /\ Agree(s, u, 0, 0, j)
    BY <1>1 DEF Agree
  <2>3. Consumed(s)[0] = Consumed(u)[0] /\ Len(u) \in Nat /\ 0 \in Nat
    BY <1>1, <2>1
  <2>4. Consumed(s)[j] = Consumed(u)[j]
    BY <1>1, <2>2, <2>3, SameEvents
  <2> QED
    BY <2>4
<1>3. g[j + 1] = g[j]
  <2>1. g[j + 1] = consume(g[j], u[j + 1])
    <3>1. j + 1 \in 1..Len(u) /\ (j + 1) - 1 = j /\ Len(u) \in Nat
      BY <1>1
    <3> QED
      BY <1>1, <3>1, ConsumedDef
  <2>2. c[j].error \/ s[i] \in c[j].seen
    BY <1>1, SeesAll
  <2> QED
    BY <1>1, <1>2, <2>1, <2>2, ConsumeSkips
<1>4. Consumed(s)[Len(s)] = Consumed(u)[Len(u)]
  <2>0. Len(s) - j \in Nat /\ j + 1 \in Nat
    BY <1>1
  <2>a. PICK D, b : D = Len(s) - j /\ b = j + 1
    OBVIOUS
  <2>1. /\ j \in Nat /\ D \in Nat /\ b \in Nat
        /\ Len(s) \in 0..Len(s) /\ Len(s) = j + D
        /\ Len(u) \in 0..Len(u) /\ Len(u) = b + D
    BY <1>1, <2>0, <2>a
  <2>2. ASSUME NEW d \in 1..(Len(s) - j) PROVE s[j + d] = u[(j + 1) + d]
    <3>1. j + d \in (j + 1)..Len(s) /\ (j + d) + 1 = (j + 1) + d
      BY <1>1
    <3> QED
      BY <3>1, <1>1
  <2>3. Consumed(s)[j] = Consumed(u)[j + 1]
    BY <1>2, <1>3
  <2>4. Agree(s, u, j, b, D) /\ Consumed(s)[j] = Consumed(u)[b]
    BY <2>a, <2>2, <2>3 DEF Agree
  <2> QED
    <3>1. PICK x, y : x = Len(s) /\ y = Len(u)
      OBVIOUS
    <3>2. x \in 0..Len(s) /\ y \in 0..Len(u) /\ x = j + D /\ y = b + D
      BY <2>1, <3>1
    <3>3. Consumed(s)[x] = Consumed(u)[y]
      <4>1. u \in Seq(Event) /\ j \in Nat /\ D \in Nat /\ b \in Nat
        BY <1>1, <2>1
      <4> QED
        BY <2>4, <3>2, <4>1, SameEvents
    <3> QED
      BY <3>1, <3>3, Zenon
<1> QED
  BY <1>1, <1>4 DEF replay_task

-----------------------------------------------------------------------------
(* The events of a task.                                                   *)

\* The recursive definition of EventsOf up to n.
EventsTo(log, t, n, g) ==
    g = [i \in 0..n |-> IF i = 0 THEN <<>>
                        ELSE IF log[i].task = t THEN Append(g[i - 1], log[i])
                        ELSE g[i - 1]]

\* The recursion of EventsOf has a solution up to every length.
LEMMA EventsExist ==
  ASSUME NEW log, NEW t, NEW N \in Nat
  PROVE  \E g : EventsTo(log, t, N, g)
<1> DEFINE Step(v, i) == IF log[i].task = t THEN Append(v, log[i]) ELSE v
           S == {n \in 0..N : \E g : EventsTo(log, t, n, g)}
<1>a. \A n, g : EventsTo(log, t, n, g) <=>
        g = [i \in 0..n |-> IF i = 0 THEN <<>> ELSE Step(g[i - 1], i)]
  BY Zenon DEF EventsTo
<1> HIDE DEF Step
<1>1. 0 \in S
  <2> DEFINE g == [i \in 0..0 |-> <<>>]
  <2>1. g = [i \in 0..0 |-> IF i = 0 THEN <<>> ELSE Step(g[i - 1], i)]
    OBVIOUS
  <2>2. EventsTo(log, t, 0, g)
    BY <1>a, <2>1, Zenon
  <2>3. 0 \in 0..N
    OBVIOUS
  <2> QED
    BY <2>2, <2>3, Zenon
<1>2. ASSUME NEW n \in 0..N, n < N, n \in S PROVE n + 1 \in S
  <2>1. PICK g : EventsTo(log, t, n, g)
    BY <1>2
  <2> DEFINE h == [i \in 0..(n + 1) |->
                     IF i = n + 1 THEN Step(g[n], n + 1) ELSE g[i]]
  <2>2. EventsTo(log, t, n + 1, h)
    <3>1. \A i \in 0..n : g[i] = IF i = 0 THEN <<>> ELSE Step(g[i - 1], i)
      BY <1>a, <2>1
    <3>2. ASSUME NEW i \in 0..(n + 1)
          PROVE  h[i] = IF i = 0 THEN <<>> ELSE Step(h[i - 1], i)
      <4>1. CASE i = n + 1
        BY <4>1
      <4>2. CASE i \in 0..n
        BY <4>2, <3>1
      <4> QED
        BY <4>1, <4>2
    <3>3. h = [i \in 0..(n + 1) |-> IF i = 0 THEN <<>> ELSE Step(h[i - 1], i)]
      BY <3>2
    <3> QED
      BY <1>a, <3>3, Zenon
  <2>3. \E f : EventsTo(log, t, n + 1, f)
    BY <2>2
  <2> QED
    BY <1>2, <2>3
<1> HIDE DEF S
<1>3. N \in S
  BY <1>1, <1>2, UpTo
<1> QED
  BY <1>3 DEF S

\* list_events collects the events of a task one row at a time.
LEMMA EventsOfDef ==
  ASSUME NEW log \in Seq(Event), NEW t
  PROVE  /\ EventsOf(log, t)[0] = <<>>
         /\ \A n \in 1..Len(log) :
              EventsOf(log, t)[n] =
                IF log[n].task = t
                THEN Append(EventsOf(log, t)[n - 1], log[n])
                ELSE EventsOf(log, t)[n - 1]
<1> PICK c : c = EventsOf(log, t)
  OBVIOUS
<1>0. Len(log) \in Nat
  OBVIOUS
<1>1. c = CHOOSE g : EventsTo(log, t, Len(log), g)
  BY Zenon DEF EventsOf, EventsTo
<1>2. EventsTo(log, t, Len(log), c)
  BY <1>0, <1>1, EventsExist, Zenon
<1>a. PICK z : z = <<>>
  OBVIOUS
<1> DEFINE F(f, i) == IF i = 0 THEN z
                      ELSE IF log[i].task = t THEN Append(f[i - 1], log[i])
                      ELSE f[i - 1]
<1>3. c = [i \in 0..Len(log) |-> F(c, i)]
  BY <1>2, <1>a, Zenon DEF EventsTo
<1>4. \A i \in 0..Len(log) : c[i] = F(c, i)
  <2> HIDE DEF F
  <2> QED
    BY <1>3
<1>5. c[0] = z
  BY <1>0, <1>4
<1>6. ASSUME NEW n \in 1..Len(log)
      PROVE  c[n] = IF log[n].task = t THEN Append(c[n - 1], log[n]) ELSE c[n - 1]
  <2>1. n \in 0..Len(log) /\ n # 0
    BY <1>0
  <2> QED
    BY <1>4, <2>1, Zenon
<1> QED
  BY <1>a, <1>5, <1>6, Zenon

\* The result is a sequence of events.
LEMMA EventsOfType ==
  ASSUME NEW log \in Seq(Event), NEW t, NEW n \in 0..Len(log)
  PROVE  EventsOf(log, t)[n] \in Seq(Event)
<1> PICK c : c = EventsOf(log, t)
  OBVIOUS
<1> DEFINE S == {m \in 0..Len(log) : c[m] \in Seq(Event)}
<1>1. 0 \in S
  <2>1. c[0] = <<>>
    BY EventsOfDef
  <2>2. <<>> \in Seq(Event) /\ 0 \in 0..Len(log)
    OBVIOUS
  <2> QED
    BY <2>1, <2>2
<1>2. ASSUME NEW m \in 0..Len(log), m < Len(log), m \in S PROVE m + 1 \in S
  <2>1. m + 1 \in 1..Len(log) /\ (m + 1) - 1 = m /\ log[m + 1] \in Event
    BY <1>2
  <2>2. c[m + 1] = IF log[m + 1].task = t THEN Append(c[m], log[m + 1]) ELSE c[m]
    BY <2>1, EventsOfDef
  <2>3. c[m] \in Seq(Event) /\ Append(c[m], log[m + 1]) \in Seq(Event)
    BY <1>2, <2>1
  <2>4. c[m + 1] \in Seq(Event) /\ m + 1 \in 0..Len(log)
    BY <1>2, <2>2, <2>3
  <2> QED
    BY <2>4
<1> HIDE DEF S
<1>3. n \in S
  BY <1>1, <1>2, UpTo
<1> QED
  BY <1>3 DEF S

\* Rows of other tasks do not change it.
LEMMA EventsOfOthers ==
  ASSUME NEW log \in Seq(Event), NEW t, NEW b \in 0..Len(log), NEW a \in 0..b,
         \A k \in (a + 1)..b : log[k].task # t
  PROVE  EventsOf(log, t)[b] = EventsOf(log, t)[a]
<1> PICK c : c = EventsOf(log, t)
  OBVIOUS
<1> PICK D : D = b - a
  OBVIOUS
<1>0. D \in Nat /\ D \in 0..D /\ a + D = b
  OBVIOUS
<1> DEFINE S == {d \in 0..D : c[a + d] = c[a]}
<1>1. 0 \in S
  BY <1>0
<1>2. ASSUME NEW d \in 0..D, d < D, d \in S PROVE d + 1 \in S
  <2>1. PICK k : k = a + (d + 1)
    OBVIOUS
  <2>2. k \in 1..Len(log) /\ k - 1 = a + d /\ k \in (a + 1)..b /\ d + 1 \in 0..D
    BY <1>0, <1>2, <2>1
  <2>3. c[k] = c[k - 1]
    BY <2>2, EventsOfDef
  <2> QED
    BY <1>2, <2>1, <2>2, <2>3
<1> HIDE DEF S
<1>3. D \in S
  BY <1>0, <1>1, <1>2, UpTo
<1> QED
  BY <1>0, <1>3 DEF S

\* It depends on the rows it covers only.
LEMMA EventsOfPrefix ==
  ASSUME NEW log \in Seq(Event), NEW new \in Seq(Event), NEW t,
         Len(log) <= Len(new),
         \A k \in 1..Len(log) : new[k] = log[k]
  PROVE  EventsOf(new, t)[Len(log)] = EventsOf(log, t)[Len(log)]
<1> PICK c, g : c = EventsOf(log, t) /\ g = EventsOf(new, t)
  OBVIOUS
<1> PICK N : N = Len(log)
  OBVIOUS
<1>0. N \in Nat /\ N \in 0..N /\ Len(new) \in Nat
  OBVIOUS
<1> DEFINE S == {d \in 0..N : g[d] = c[d]}
<1>1. 0 \in S
  BY <1>0, EventsOfDef
<1>2. ASSUME NEW d \in 0..N, d < N, d \in S PROVE d + 1 \in S
  <2>1. PICK k : k = d + 1
    OBVIOUS
  <2>2. k \in 1..Len(log) /\ k \in 1..Len(new) /\ k - 1 = d /\ k \in 0..N
    BY <1>0, <1>2, <2>1
  <2>3. c[k] = IF log[k].task = t THEN Append(c[k - 1], log[k]) ELSE c[k - 1]
    BY <2>2, EventsOfDef
  <2>4. g[k] = IF new[k].task = t THEN Append(g[k - 1], new[k]) ELSE g[k - 1]
    BY <2>2, EventsOfDef
  <2>5. g[k - 1] = c[k - 1] /\ new[k] = log[k]
    BY <1>2, <2>2
  <2>6. g[k] = c[k]
    BY <2>3, <2>4, <2>5, Zenon
  <2> QED
    BY <2>1, <2>2, <2>6
<1> HIDE DEF S
<1>3. N \in S
  BY <1>0, <1>1, <1>2, UpTo
<1> QED
  BY <1>0, <1>3 DEF S

-----------------------------------------------------------------------------
(* The inductive invariant of the replay.                                  *)

List(log, t) == EventsOf(log, t)[Len(log)]

ProjectionFields ==
    {"task", "status", "agents", "created", "updated", "last", "count"}

\* The projector p has consumed the stream s of task t, all of it from the
\* log, and has reached the row of t.
Mirror(p, log, s, row, t) ==
    /\ IsProjector(p)
    /\ ~p.error
    /\ DOMAIN p.projection = ProjectionFields
    /\ p.projection.task = t
    /\ p.projection.status = row.status
    /\ p.projection.agents = row.agents
    /\ p.projection.updated = s[Len(s)].at
    /\ p.projection.count = Len(s)
    /\ \A e \in p.seen : Recorded(log, e)

\* The first n events of s are in order, and consuming them succeeds; or they
\* are not, and it fails.
InOrderTo(s, n) == \A i, j \in 1..n : i < j => s[i].at <= s[j].at

PrefixFits(s, n) ==
    IF InOrderTo(s, n)
    THEN /\ Replayed(Consumed(s)[n])
         /\ Consumed(s)[n].projection.count = n
    ELSE Consumed(s)[n].error

Prefixes(s) == \A n \in 1..Len(s) : PrefixFits(s, n)

Mirrored(log, row, t) ==
    /\ Prefixes(List(log, t))
    /\ Len(List(log, t)) > 0
    /\ IF InOrder(List(log, t))
       THEN Mirror(replay_task(List(log, t)), log, List(log, t), row, t)
       ELSE replay_task(List(log, t)).error

Mirrors == \A t \in DOMAIN tasks : Mirrored(events, tasks[t], t)

\* The log grows: what it recorded it still records.
Extends(log, new) == \A e : Recorded(log, e) => Recorded(new, e)

\* The event e is what a replay needs to take `row` to `new`.
Explains(e, row, new) ==
    /\ e.type # "task.created"
    /\ PayloadAgrees(e)
    /\ status_for(e) # "none" => can_transition(row.status, status_for(e))
    /\ new.status = IF status_for(e) = "none" THEN row.status ELSE status_for(e)
    /\ new.agents = IF e.type = "agent.assigned" THEN row.agents \cup {e.agent}
                    ELSE row.agents

\* list_events is a sequence of events.
LEMMA ListType ==
  ASSUME NEW log \in Seq(Event), NEW t
  PROVE  List(log, t) \in Seq(Event)
<1>1. Len(log) \in 0..Len(log)
  OBVIOUS
<1> QED
  BY <1>1, EventsOfType DEF List

\* One more row: list_events has it if it is of the task.
LEMMA ListAppend ==
  ASSUME NEW log \in Seq(Event), NEW e \in Event, NEW t
  PROVE  List(Append(log, e), t) =
           IF e.task = t THEN Append(List(log, t), e) ELSE List(log, t)
<1>0. PICK new : new = Append(log, e)
  OBVIOUS
<1>1. /\ new \in Seq(Event) /\ Len(new) = Len(log) + 1 /\ new[Len(new)] = e
      /\ Len(log) \in Nat /\ Len(log) <= Len(new)
      /\ \A k \in 1..Len(log) : new[k] = log[k]
      /\ Len(new) \in 1..Len(new) /\ Len(new) - 1 = Len(log)
  BY <1>0
<1>2. EventsOf(new, t)[Len(log)] = EventsOf(log, t)[Len(log)]
  BY <1>1, EventsOfPrefix
<1>3. EventsOf(new, t)[Len(new)] =
        IF new[Len(new)].task = t
        THEN Append(EventsOf(new, t)[Len(new) - 1], new[Len(new)])
        ELSE EventsOf(new, t)[Len(new) - 1]
  <2>1. PICK n : n = Len(new)
    OBVIOUS
  <2>2. new \in Seq(Event) /\ n \in 1..Len(new)
    BY <1>1, <2>1
  <2>3. EventsOf(new, t)[n] =
          IF new[n].task = t THEN Append(EventsOf(new, t)[n - 1], new[n])
          ELSE EventsOf(new, t)[n - 1]
    BY <2>2, EventsOfDef
  <2> QED
    BY <2>1, <2>3, Zenon
<1> QED
  BY <1>0, <1>1, <1>2, <1>3 DEF List

\* A task without rows has no events to list.
LEMMA ListEmpty ==
  ASSUME NEW log \in Seq(Event), NEW t, \A i \in DOMAIN log : log[i].task # t
  PROVE  List(log, t) = <<>>
<1>1. /\ Len(log) \in 0..Len(log) /\ 0 \in 0..Len(log)
      /\ \A k \in (0 + 1)..Len(log) : log[k].task # t
  OBVIOUS
<1>2. EventsOf(log, t)[Len(log)] = EventsOf(log, t)[0]
  BY <1>1, EventsOfOthers
<1> QED
  BY <1>2, EventsOfDef DEF List

\* Replaying one more event is consuming it after the replay of the others.
LEMMA ReplayAppend ==
  ASSUME NEW s \in Seq(Event), NEW e \in Event
  PROVE  replay_task(Append(s, e)) = consume(replay_task(s), e)
<1>0. PICK u : u = Append(s, e)
  OBVIOUS
<1>a. PICK N : N = Len(s)
  OBVIOUS
<1>1. /\ u \in Seq(Event) /\ Len(u) = N + 1 /\ u[N + 1] = e /\ N \in Nat
      /\ \A k \in 1..N : u[k] = s[k]
  BY <1>0, <1>a
<1>2. /\ N \in 0..Len(s) /\ N \in 0..Len(u) /\ N = 0 + N /\ 0 \in Nat
      /\ Agree(s, u, 0, 0, N)
  BY <1>1, <1>a DEF Agree
<1>3. Consumed(s)[0] = Consumed(u)[0]
  BY <1>1, ConsumedDef
<1>4. Consumed(s)[N] = Consumed(u)[N]
  <2>1. u \in Seq(Event) /\ N \in Nat
    BY <1>1
  <2> QED
    BY <1>2, <1>3, <2>1, SameEvents
<1>5. N + 1 \in 1..Len(u) /\ (N + 1) - 1 = N
  BY <1>1
<1>6. Consumed(u)[N + 1] = consume(Consumed(u)[N], u[N + 1])
  BY <1>1, <1>5, ConsumedDef
<1> QED
  BY <1>0, <1>1, <1>4, <1>6, <1>a DEF replay_task

\* The first event of a stream.
LEMMA ReplayFirst ==
  ASSUME NEW e \in Event
  PROVE  replay_task(Append(<<>>, e)) = consume(NewProjector, e)
<1>1. PICK s : s = <<>>
  OBVIOUS
<1>2. s \in Seq(Event) /\ Len(s) = 0
  BY <1>1
<1>3. replay_task(s) = NewProjector
  BY <1>2, ConsumedDef DEF replay_task
<1>4. replay_task(Append(s, e)) = consume(NewProjector, e)
  BY <1>2, <1>3, ReplayAppend
<1> QED
  BY <1>1, <1>4, Zenon

\* An event with a new id that fits the projection is applied.
LEMMA ConsumeApplies ==
  ASSUME NEW p, NEW e, ~p.error, \A x \in p.seen : x.id # e.id,
         p.projection # NoProjection, CanApply(p.projection, e)
  PROVE  consume(p, e) = Reached(p, Applied(p.projection, e), e)
BY DEF consume

\* One that does not fit fails the projector.
LEMMA ConsumeFails ==
  ASSUME NEW p, IsProjector(p), NEW e, ~p.error, \A x \in p.seen : x.id # e.id,
         p.projection # NoProjection, ~CanApply(p.projection, e)
  PROVE  consume(p, e).error
<1>1. consume(p, e) = Failed(p)
  BY DEF consume
<1> QED
  BY <1>1 DEF Failed, IsProjector

\* The first event of a stream that begins with task.created creates.
LEMMA ConsumeCreates ==
  ASSUME NEW e, CanCreate(e)
  PROVE  consume(NewProjector, e) = Reached(NewProjector, Created(e), e)
<1>1. PICK q : q = NewProjector
  OBVIOUS
<1>2. ~q.error /\ (\A x \in q.seen : x.id # e.id) /\ q.projection = NoProjection
  BY <1>1 DEF NewProjector
<1>3. consume(q, e) = Reached(q, Created(e), e)
  BY <1>2 DEF consume
<1> QED
  BY <1>1, <1>3, Zenon

\* What Applied leaves in the fields of a projection.
LEMMA AppliedFields ==
  ASSUME NEW p, DOMAIN p = ProjectionFields, NEW e
  PROVE  /\ DOMAIN Applied(p, e) = ProjectionFields
         /\ Applied(p, e).task = p.task
         /\ Applied(p, e).status =
              IF status_for(e) = "none" THEN p.status ELSE status_for(e)
         /\ Applied(p, e).agents =
              IF e.type = "agent.assigned" THEN p.agents \cup {e.agent}
              ELSE p.agents
         /\ Applied(p, e).updated = e.at
         /\ Applied(p, e).count = p.count + 1
BY DEF Applied, ProjectionFields

\* What Reached leaves in the fields of a projector.
LEMMA ReachedFields ==
  ASSUME NEW p, IsProjector(p), NEW q, NEW e
  PROVE  /\ IsProjector(Reached(p, q, e))
         /\ Reached(p, q, e).error = p.error
         /\ Reached(p, q, e).projection = q
         /\ Reached(p, q, e).seen = p.seen \cup {e}
BY DEF Reached, IsProjector

\* The order of a stream with one more event.
LEMMA OrderAppend ==
  ASSUME NEW s \in Seq(Event), NEW e \in Event, InOrder(Append(s, e))
  PROVE  /\ InOrder(s)
         /\ Len(s) > 0 => s[Len(s)].at <= e.at
<1>0. PICK u : u = Append(s, e)
  OBVIOUS
<1>1. /\ DOMAIN u = 1..(Len(s) + 1) /\ DOMAIN s = 1..Len(s) /\ Len(s) \in Nat
      /\ u[Len(s) + 1] = e
      /\ \A k \in 1..Len(s) : u[k] = s[k]
  BY <1>0
<1>2. \A i, j \in DOMAIN u : i < j => u[i].at <= u[j].at
  BY <1>0 DEF InOrder
<1>3. InOrder(s)
  BY <1>1, <1>2 DEF InOrder
<1>4. ASSUME Len(s) > 0 PROVE s[Len(s)].at <= e.at
  BY <1>1, <1>2, <1>4
<1> QED
  BY <1>3, <1>4

\* An event that is not older than the last one keeps a stream in order.
LEMMA OrderKept ==
  ASSUME NEW s \in Seq(Event), NEW e \in Event, InOrder(s),
         Len(s) > 0 => s[Len(s)].at <= e.at
  PROVE  InOrder(Append(s, e))
<1>0. PICK u : u = Append(s, e)
  OBVIOUS
<1>1. /\ DOMAIN u = 1..(Len(s) + 1) /\ DOMAIN s = 1..Len(s) /\ Len(s) \in Nat
      /\ u[Len(s) + 1] = e
      /\ \A k \in 1..Len(s) : u[k] = s[k]
  BY <1>0
<1>2. e.at \in Nat /\ \A k \in 1..Len(s) : s[k].at \in Nat
  <2>1. \A x \in Event : x.at \in Nat
    BY TimeAssumption DEF Event
  <2> QED
    BY <2>1
<1>3. ASSUME NEW i \in DOMAIN u, NEW j \in DOMAIN u, i < j
      PROVE  u[i].at <= u[j].at
  <2>1. CASE j \in 1..Len(s)
    BY <1>1, <1>3, <2>1 DEF InOrder
  <2>2. CASE j = Len(s) + 1
    <3>1. i \in 1..Len(s) /\ Len(s) > 0 /\ Len(s) \in 1..Len(s)
      BY <1>1, <1>3, <2>2
    <3>2. i = Len(s) \/ i < Len(s)
      BY <1>1, <3>1
    <3>3. s[i].at <= s[Len(s)].at
      BY <1>1, <1>2, <3>1, <3>2 DEF InOrder
    <3> QED
      BY <1>1, <1>2, <2>2, <3>1, <3>3
  <2> QED
    BY <1>1, <2>1, <2>2
<1> QED
  BY <1>0, <1>3 DEF InOrder

\* A mirror is a successful replay.
LEMMA MirrorReplayed ==
  ASSUME NEW p, NEW log, NEW s, NEW row, NEW t \in TaskId,
         Mirror(p, log, s, row, t)
  PROVE  Replayed(p)
<1>1. ~p.error /\ p.projection.task = t /\ t # -1
  BY TaskIdAssumption DEF Mirror
<1>2. p.projection # NoProjection
  BY <1>1 DEF NoProjection
<1> QED
  BY <1>1, <1>2 DEF Replayed

\* What the projector has reached after n events does not depend on the next.
LEMMA ConsumedPrefix ==
  ASSUME NEW s \in Seq(Event), NEW u \in Seq(Event), NEW n \in 0..Len(s),
         n \in 0..Len(u), \A k \in 1..n : u[k] = s[k]
  PROVE  Consumed(u)[n] = Consumed(s)[n]
<1>1. /\ n \in Nat /\ 0 \in Nat /\ n = 0 + n
      /\ Agree(s, u, 0, 0, n)
  BY DEF Agree
<1>2. Consumed(s)[0] = Consumed(u)[0]
  BY ConsumedDef
<1>3. Consumed(s)[n] = Consumed(u)[n]
  BY <1>1, <1>2, SameEvents
<1> QED
  BY <1>3

\* One more event leaves the shorter prefixes as they are.
LEMMA PrefixesGrow ==
  ASSUME NEW s \in Seq(Event), NEW e \in Event, NEW u, u = Append(s, e),
         Prefixes(s), PrefixFits(u, Len(u))
  PROVE  Prefixes(u)
<1>1. /\ u \in Seq(Event) /\ Len(u) = Len(s) + 1 /\ Len(s) \in Nat
      /\ \A k \in 1..Len(s) : u[k] = s[k]
  OBVIOUS
<1>2. ASSUME NEW n \in 1..Len(u), n # Len(u) PROVE PrefixFits(u, n)
  <2>1. /\ n \in 1..Len(s) /\ n \in 0..Len(s) /\ n \in 0..Len(u)
        /\ \A k \in 1..n : u[k] = s[k]
    BY <1>1, <1>2
  <2>2. Consumed(u)[n] = Consumed(s)[n]
    BY <1>1, <2>1, ConsumedPrefix
  <2>3. InOrderTo(u, n) <=> InOrderTo(s, n)
    BY <2>1 DEF InOrderTo
  <2>4. PrefixFits(s, n)
    BY <2>1 DEF Prefixes
  <2> QED
    BY <2>2, <2>3, <2>4, Zenon DEF PrefixFits
<1> QED
  BY <1>2 DEF Prefixes

\* A row and a log that grow together stay mirrored.
LEMMA MirrorGrows ==
  ASSUME NEW t \in TaskId, NEW log \in Seq(Event), NEW new \in Seq(Event),
         Extends(log, new), NEW e \in Event, e.task = t, Recorded(new, e),
         ~IdUsed(log, e.id), List(new, t) = Append(List(log, t), e),
         NEW row, NEW after, Explains(e, row, after), Mirrored(log, row, t)
  PROVE  Mirrored(new, after, t)
<1> PICK s : s = List(log, t)
  OBVIOUS
<1> PICK u : u = List(new, t)
  OBVIOUS
<1>1. s \in Seq(Event) /\ Len(s) > 0 /\ u = Append(s, e)
  BY ListType DEF Mirrored
<1>2. Len(s) \in Nat /\ Len(u) = Len(s) + 1 /\ u[Len(u)] = e
  BY <1>1
<1>3. ASSUME InOrder(u) PROVE Mirror(replay_task(u), new, u, after, t)
  <2>1. InOrder(s) /\ s[Len(s)].at <= e.at
    BY <1>1, <1>3, OrderAppend
  <2>2. PICK p : p = replay_task(s)
    OBVIOUS
  <2>3. Mirror(p, log, s, row, t)
    BY <2>1, <2>2 DEF Mirrored
  <2>4. \A x \in p.seen : x.id # e.id
    BY <2>3 DEF Mirror, Recorded, IdUsed
  <2>5. p.projection # NoProjection
    <3>1. p.projection.task = t /\ t # -1
      BY <2>3, TaskIdAssumption DEF Mirror
    <3> QED
      BY <3>1 DEF NoProjection
  <2>6. CanApply(p.projection, e)
    <3>1. /\ p.projection.task = t
          /\ p.projection.status = row.status
          /\ p.projection.updated = s[Len(s)].at
      BY <2>3 DEF Mirror
    <3>2. e.at >= s[Len(s)].at
      <4>1. s[Len(s)] \in Event
        BY <1>1
      <4>2. s[Len(s)].at \in Nat /\ e.at \in Nat
        BY <4>1, TimeAssumption DEF Event
      <4> QED
        BY <2>1, <4>2
    <3> QED
      BY <3>1, <3>2 DEF CanApply, Explains
  <2>7. replay_task(u) = Reached(p, Applied(p.projection, e), e)
    <3>1. replay_task(u) = consume(p, e)
      BY <1>1, <2>2, ReplayAppend
    <3>2. ~p.error
      BY <2>3 DEF Mirror
    <3> QED
      BY <2>4, <2>5, <2>6, <3>1, <3>2, ConsumeApplies
  <2>8. /\ IsProjector(replay_task(u))
        /\ replay_task(u).error = p.error
        /\ replay_task(u).projection = Applied(p.projection, e)
        /\ replay_task(u).seen = p.seen \cup {e}
    BY <2>3, <2>7, ReachedFields DEF Mirror
  <2>9. DOMAIN p.projection = ProjectionFields
    BY <2>3 DEF Mirror
  <2>10. \A x \in replay_task(u).seen : Recorded(new, x)
    BY <2>3, <2>8 DEF Mirror, Extends
  <2>14. PICK q : q = p.projection
    OBVIOUS
  <2>15. /\ DOMAIN Applied(q, e) = ProjectionFields
         /\ Applied(q, e).task = q.task
         /\ Applied(q, e).status =
              IF status_for(e) = "none" THEN q.status ELSE status_for(e)
         /\ Applied(q, e).agents =
              IF e.type = "agent.assigned" THEN q.agents \cup {e.agent}
              ELSE q.agents
         /\ Applied(q, e).updated = e.at
         /\ Applied(q, e).count = q.count + 1
    BY <2>9, <2>14, AppliedFields, ZenonT(40)
  <2>16. /\ q.task = t /\ q.status = row.status /\ q.agents = row.agents
         /\ q.count = Len(s)
    BY <2>3, <2>14 DEF Mirror
  <2>11. /\ DOMAIN replay_task(u).projection = ProjectionFields
         /\ replay_task(u).projection.task = t
         /\ replay_task(u).projection.updated = u[Len(u)].at
         /\ replay_task(u).projection.count = Len(u)
    BY <1>2, <2>8, <2>14, <2>15, <2>16
  <2>12. replay_task(u).projection.status = after.status
    BY <2>8, <2>14, <2>15, <2>16 DEF Explains
  <2>13. replay_task(u).projection.agents = after.agents
    BY <2>8, <2>14, <2>15, <2>16 DEF Explains
  <2> QED
    BY <2>3, <2>8, <2>10, <2>11, <2>12, <2>13 DEF Mirror
<1>4. ASSUME ~InOrder(u) PROVE replay_task(u).error
  <2>1. PICK p : p = replay_task(s)
    OBVIOUS
  <2>2. replay_task(u) = consume(p, e)
    BY <1>1, <2>1, ReplayAppend
  <2>3. CASE ~InOrder(s)
    <3>1. p.error
      BY <2>1, <2>3 DEF Mirrored
    <3> QED
      BY <2>2, <3>1, ConsumeSkips
  <2>4. CASE InOrder(s)
    <3>1. Mirror(p, log, s, row, t)
      BY <2>1, <2>4 DEF Mirrored
    <3>2. \A x \in p.seen : x.id # e.id
      BY <3>1 DEF Mirror, Recorded, IdUsed
    <3>3. p.projection # NoProjection
      <4>1. p.projection.task = t /\ t # -1
        BY <3>1, TaskIdAssumption DEF Mirror
      <4> QED
        BY <4>1 DEF NoProjection
    <3>4. ~(s[Len(s)].at <= e.at)
      BY <1>1, <1>4, <2>4, OrderKept
    <3>5. ~CanApply(p.projection, e)
      <4>1. s[Len(s)] \in Event
        BY <1>1
      <4>2. s[Len(s)].at \in Nat /\ e.at \in Nat
        BY <4>1, TimeAssumption DEF Event
      <4>3. p.projection.updated = s[Len(s)].at
        BY <3>1 DEF Mirror
      <4> QED
        BY <3>4, <4>2, <4>3 DEF CanApply
    <3>6. IsProjector(p) /\ ~p.error
      BY <3>1 DEF Mirror
    <3> QED
      BY <2>2, <3>2, <3>3, <3>5, <3>6, ConsumeFails
  <2> QED
    BY <2>3, <2>4
<1>5. Prefixes(u)
  <2>1. PrefixFits(u, Len(u))
    <3>1. replay_task(u) = Consumed(u)[Len(u)]
      BY DEF replay_task
    <3>2. InOrderTo(u, Len(u)) <=> InOrder(u)
      <4>1. DOMAIN u = 1..Len(u)
        BY <1>1
      <4> QED
        BY <4>1 DEF InOrderTo, InOrder
    <3>3. ASSUME InOrder(u)
          PROVE  /\ Replayed(replay_task(u))
                 /\ replay_task(u).projection.count = Len(u)
      BY <1>3, <3>3, MirrorReplayed DEF Mirror
    <3> QED
      BY <1>4, <3>1, <3>2, <3>3, Zenon DEF PrefixFits
  <2>2. Prefixes(s)
    BY DEF Mirrored
  <2> QED
    BY <1>1, <2>1, <2>2, PrefixesGrow
<1> QED
  BY <1>2, <1>3, <1>4, <1>5 DEF Mirrored

\* A row whose events stay the same stays mirrored.
LEMMA MirrorSame ==
  ASSUME NEW t, NEW log, NEW new, Extends(log, new), List(new, t) = List(log, t),
         NEW row, NEW after, after.status = row.status,
         after.agents = row.agents, Mirrored(log, row, t)
  PROVE  Mirrored(new, after, t)
BY DEF Mirrored, Mirror, Extends

\* A task is mirrored as soon as it is created.
LEMMA MirrorCreated ==
  ASSUME NEW t \in TaskId, NEW log \in Seq(Event), NEW e \in Event, e.task = t,
         CanCreate(e), \A i \in DOMAIN log : log[i].task # t,
         NEW row, row.status = "pending", row.agents = {}
  PROVE  Mirrored(Append(log, e), row, t)
<1>1. PICK u : u = List(Append(log, e), t)
  OBVIOUS
<1>2. PICK z : z = <<>>
  OBVIOUS
<1>3. u = Append(z, e)
  <2>1. List(log, t) = z
    BY <1>2, ListEmpty
  <2> QED
    BY <1>1, <2>1, ListAppend
<1>4. z \in Seq(Event) /\ Len(u) = 1 /\ u[Len(u)] = e
  BY <1>2, <1>3
<1>5. replay_task(u) = Reached(NewProjector, Created(e), e)
  BY <1>2, <1>3, ReplayFirst, ConsumeCreates, Zenon
<1>6. /\ IsProjector(NewProjector) /\ ~NewProjector.error
      /\ NewProjector.seen = {}
  BY DEF IsProjector, NewProjector
<1>7. /\ IsProjector(replay_task(u)) /\ ~replay_task(u).error
      /\ replay_task(u).projection = Created(e)
      /\ replay_task(u).seen = {e}
  <2>1. {} \cup {e} = {e}
    OBVIOUS
  <2> QED
    BY <1>5, <1>6, <2>1, ReachedFields
<1>8. /\ DOMAIN Created(e) = ProjectionFields
      /\ Created(e).task = t /\ Created(e).status = "pending"
      /\ Created(e).updated = e.at /\ Created(e).count = 1
  BY DEF Created, ProjectionFields
<1>9. Created(e).agents = {}
  BY DEF Created
<1>10. Recorded(Append(log, e), e)
  <2>1. Append(log, e)[Len(log) + 1] = e /\ Len(log) + 1 \in DOMAIN Append(log, e)
    OBVIOUS
  <2> QED
    BY <2>1 DEF Recorded
<1>11. Mirror(replay_task(u), Append(log, e), u, row, t)
  BY <1>4, <1>7, <1>8, <1>9, <1>10 DEF Mirror
<1>12. InOrder(u)
  <2>1. DOMAIN u = 1..1
    BY <1>2, <1>3
  <2> QED
    BY <2>1 DEF InOrder
<1>13. Prefixes(u)
  <2>1. PrefixFits(u, 1)
    <3>1. Replayed(replay_task(u)) /\ replay_task(u).projection.count = 1
      BY <1>4, <1>11, MirrorReplayed DEF Mirror
    <3>2. replay_task(u) = Consumed(u)[1]
      BY <1>4 DEF replay_task
    <3>3. InOrderTo(u, 1)
      BY DEF InOrderTo
    <3> QED
      BY <3>1, <3>2, <3>3 DEF PrefixFits
  <2>2. \A n \in 1..Len(u) : n = 1
    BY <1>4
  <2> QED
    BY <2>1, <2>2 DEF Prefixes
<1> QED
  BY <1>1, <1>4, <1>11, <1>12, <1>13 DEF Mirrored

\* A log and the log with one more event.
LEMMA ExtendsAppend ==
  ASSUME NEW log \in Seq(Event), NEW e \in Event
  PROVE  Extends(log, Append(log, e)) /\ Recorded(Append(log, e), e)
<1>0. PICK new : new = Append(log, e)
  OBVIOUS
<1>1. /\ DOMAIN new = 1..(Len(log) + 1) /\ DOMAIN log = 1..Len(log)
      /\ new[Len(log) + 1] = e /\ Len(log) \in Nat
      /\ \A k \in 1..Len(log) : new[k] = log[k]
  BY <1>0
<1>2. Recorded(new, e)
  BY <1>1 DEF Recorded
<1>3. ASSUME NEW x, Recorded(log, x) PROVE Recorded(new, x)
  BY <1>1, <1>3 DEF Recorded
<1> QED
  BY <1>0, <1>2, <1>3 DEF Extends

\* An event of another task, or of none, leaves a row mirrored.
LEMMA MirrorOther ==
  ASSUME NEW t, NEW log \in Seq(Event), NEW e \in Event, e.task # t,
         NEW row, Mirrored(log, row, t)
  PROVE  Mirrored(Append(log, e), row, t)
<1>1. List(Append(log, e), t) = List(log, t)
  BY ListAppend
<1> QED
  BY <1>1, ExtendsAppend, MirrorSame

\* One more event of the task.
LEMMA MirrorOwn ==
  ASSUME NEW t \in TaskId, NEW log \in Seq(Event), NEW e \in Event, e.task = t,
         ~IdUsed(log, e.id), NEW row, NEW after, Explains(e, row, after),
         Mirrored(log, row, t)
  PROVE  Mirrored(Append(log, e), after, t)
<1>0. PICK new : new = Append(log, e)
  OBVIOUS
<1>1. List(new, t) = Append(List(log, t), e)
  BY <1>0, ListAppend
<1>2. new \in Seq(Event) /\ Extends(log, new) /\ Recorded(new, e)
  BY <1>0, ExtendsAppend
<1>3. Mirrored(new, after, t)
  BY <1>1, <1>2, MirrorGrows
<1> QED
  BY <1>0, <1>3

\* The event of a legal transition is what a replay needs.
LEMMA StatusExplains ==
  ASSUME NEW id \in EventId, NEW t \in TaskId, NEW target \in TaskStatus,
         NEW at \in Time, NEW row, row.status \in TaskStatus,
         can_transition(row.status, target),
         NEW after, after.status = target, after.agents = row.agents
  PROVE  Explains(StatusEvent(id, t, target, at), row, after)
<1>1. target # "pending"
  BY DEF can_transition, LEGAL_TASK_TRANSITIONS, TaskStatus, Terminal
<1>2. PICK e : e = StatusEvent(id, t, target, at)
  OBVIOUS
<1>3. e.type = EVENT_FOR_STATUS[target] /\ e.status = target
  BY <1>2 DEF StatusEvent
<1>4. /\ e.type # "task.created" /\ e.type # "agent.assigned"
      /\ PayloadAgrees(e) /\ status_for(e) = target
  BY <1>1, <1>3
     DEF EVENT_FOR_STATUS, TaskStatus, PayloadAgrees, status_for, FIXED_STATUS
<1>5. target # "none"
  BY DEF TaskStatus
<1>6. Explains(e, row, after)
  BY <1>4, <1>5 DEF Explains
<1> QED
  BY <1>2, <1>6

\* So is the event of an assignment.
LEMMA AssignExplains ==
  ASSUME NEW e, e.type = "agent.assigned",
         NEW row, NEW after, after.status = row.status,
         after.agents = row.agents \cup {e.agent}
  PROVE  Explains(e, row, after)
BY DEF Explains, PayloadAgrees, status_for, FIXED_STATUS

\* An event that is not about the task row explains that it stays as it is.
LEMMA OtherExplains ==
  ASSUME NEW e, e.type \in OtherTypes, NEW row
  PROVE  Explains(e, row, row)
BY DEF Explains, PayloadAgrees, status_for, FIXED_STATUS, OtherTypes

\* create_task: the new task is mirrored, and the others still are.
LEMMA CreateMirrors ==
  ASSUME TypeOK, LogExplainsTasks, Mirrors, NEW t \in TaskId,
         NEW id \in EventId, NEW at \in Time, NEW created \in Time,
         create_task(t, created, StatusEvent(id, t, "pending", at))
  PROVE  Mirrors'
<1> DEFINE e == StatusEvent(id, t, "pending", at)
           row == [NewTaskRow(created) EXCEPT !.updated = e.at]
<1>1. e \in Event /\ e.task = t /\ CanCreate(e)
  BY StatusEventType
     DEF StatusEvent, TaskStatus, CanCreate, EVENT_FOR_STATUS
<1>2. row.status = "pending" /\ row.agents = {}
  BY DEF NewTaskRow
<1>3. /\ t \notin DOMAIN tasks
      /\ AppendAllowed(events, e)
      /\ tasks' = Put(tasks, t, row)
      /\ events' = AppendLocked(events, e)
  BY DEF create_task
<1> HIDE DEF e, row
<1>4. events \in Seq(Event) /\ \A i \in DOMAIN events : events[i].task # t
  BY <1>3, NoEventsBeforeCreation DEF TypeOK
<1>5. events' = Append(events, e)
  BY <1>1, <1>3, <1>4 DEF AppendAllowed, AppendLocked, Recorded
<1>6. Mirrored(events', row, t)
  BY <1>1, <1>2, <1>4, <1>5, MirrorCreated
<1>7. \A u \in DOMAIN tasks : Mirrored(events', tasks[u], u)
  BY <1>1, <1>3, <1>4, <1>5, MirrorOther DEF Mirrors
<1> QED
  BY <1>3, <1>6, <1>7 DEF Mirrors, Put

\* create_queued_task: two events of a new task.
LEMMA CreateQueuedMirrors ==
  ASSUME TypeOK, LogExplainsTasks, Mirrors, NEW t \in TaskId,
         NEW id \in EventId, NEW at \in Time, NEW created \in Time,
         NEW qid \in EventId, NEW qat \in Time, NEW route \in Route \cup {NoRoute},
         create_queued_task(t, created, StatusEvent(id, t, "pending", at),
                            StatusEvent(qid, t, "queued", qat), route)
  PROVE  Mirrors'
<1> DEFINE ce == StatusEvent(id, t, "pending", at)
           qe == StatusEvent(qid, t, "queued", qat)
           row == [NewTaskRow(created) EXCEPT !.updated = ce.at]
           queued == Stamped(Transitioned(row, "queued", qe.at), qe.at)
           log1 == AppendLocked(events, ce)
           log2 == AppendLocked(log1, qe)
<1>1. /\ ce \in Event /\ ce.task = t /\ CanCreate(ce) /\ ce.at = at
      /\ ce.type # qe.type
      /\ qe \in Event /\ qe.task = t /\ qe.at = qat
  BY StatusEventType
     DEF StatusEvent, TaskStatus, CanCreate, EVENT_FOR_STATUS
<1>2. row \in TaskRow /\ row.status = "pending" /\ row.agents = {}
  BY <1>1 DEF NewTaskRow, TaskRow, TaskStatus, OptTime
<1>3. queued.status = "queued" /\ queued.agents = row.agents
  <2> HIDE DEF row
  <2>1. Transitioned(row, "queued", qe.at) \in TaskRow
    BY <1>1, <1>2, TransitionedType DEF TaskStatus
  <2> QED
    BY <1>2, <2>1 DEF Stamped, Transitioned, TaskRow
<1>4. /\ t \notin DOMAIN tasks
      /\ TransitionAllowed(row, "queued", qe.at)
      /\ AppendAllowed(events, ce)
      /\ AppendAllowed(log1, qe)
      /\ tasks' = Put(tasks, t, queued)
      /\ events' = log2
  BY DEF create_queued_task
<1>5. Explains(qe, row, queued)
  <2> HIDE DEF row, queued
  <2>1. can_transition(row.status, "queued") /\ row.status \in TaskStatus
    BY <1>2, <1>4 DEF TransitionAllowed, TaskRow
  <2> QED
    BY <1>3, <2>1, StatusExplains DEF TaskStatus
<1> HIDE DEF ce, qe, row, queued
<1>6. events \in Seq(Event) /\ \A i \in DOMAIN events : events[i].task # t
  BY <1>4, NoEventsBeforeCreation DEF TypeOK
<1>7. log1 = Append(events, ce) /\ log1 \in Seq(Event)
  BY <1>1, <1>4, <1>6 DEF AppendAllowed, AppendLocked, Recorded
<1> HIDE DEF log1
<1>8. ~IdUsed(log1, qe.id) /\ log2 = Append(log1, qe)
  <2>1. \A i \in DOMAIN log1 : log1[i] # qe
    BY <1>1, <1>6, <1>7
  <2> QED
    BY <1>4, <2>1 DEF AppendAllowed, AppendLocked, Recorded
<1> HIDE DEF log2
<1>9. Mirrored(log1, row, t)
  BY <1>1, <1>2, <1>6, <1>7, MirrorCreated
<1>10. Mirrored(log2, queued, t)
  BY <1>1, <1>5, <1>7, <1>8, <1>9, MirrorOwn
<1>11. \A u \in DOMAIN tasks : Mirrored(log1, tasks[u], u)
  BY <1>1, <1>4, <1>6, <1>7, MirrorOther DEF Mirrors
<1>12. \A u \in DOMAIN tasks : Mirrored(log2, tasks[u], u)
  BY <1>1, <1>4, <1>7, <1>8, <1>11, MirrorOther
<1> QED
  BY <1>4, <1>10, <1>12 DEF Mirrors, Put

\* transition_task and assign_task: one row takes one event.
LEMMA UpdateMirrors ==
  ASSUME TypeOK, Mirrors, NEW t \in DOMAIN tasks, NEW e \in Event, e.task = t,
         ~IdUsed(events, e.id), NEW row, Explains(e, tasks[t], row),
         tasks' = [tasks EXCEPT ![t] = row],
         events' = AppendLocked(events, e)
  PROVE  Mirrors'
<1>1. events' = Append(events, e) /\ events \in Seq(Event) /\ t \in TaskId
  BY DEF AppendLocked, TypeOK
<1>2. Mirrored(events', row, t)
  <2>1. Mirrored(events, tasks[t], t)
    BY DEF Mirrors
  <2>2. Mirrored(Append(events, e), row, t)
    BY <1>1, <2>1, MirrorOwn
  <2> QED
    BY <1>1, <2>2
<1>3. \A u \in DOMAIN tasks \ {t} : Mirrored(events', tasks[u], u)
  BY <1>1, MirrorOther DEF Mirrors
<1>4. /\ DOMAIN tasks' = DOMAIN tasks /\ tasks'[t] = row
      /\ \A u \in DOMAIN tasks \ {t} : tasks'[u] = tasks[u]
  BY DEF TypeOK
<1> QED
  BY <1>2, <1>3, <1>4 DEF Mirrors

\* transition_task, repeated events included.
LEMMA TransitionMirrors ==
  ASSUME TypeOK, Mirrors, NEW t \in TaskId, NEW id \in EventId,
         NEW at \in Time, NEW target \in TaskStatus, NEW s \in TaskStatus,
         transition_task(t, target, StatusEvent(id, t, s, at))
  PROVE  Mirrors'
<1> DEFINE e == StatusEvent(id, t, s, at)
<1>1. CASE IdUsed(events, e.id)
  BY <1>1 DEF transition_task, storeVars, Mirrors
<1>2. CASE ~IdUsed(events, e.id)
  <2> DEFINE moved == Transitioned(tasks[t], target, e.at)
             row == Stamped(moved, e.at)
  <2>1. e \in Event /\ e.task = t /\ e.at = at /\ e.status = s
    BY StatusEventType DEF StatusEvent
  <2>2. /\ t \in DOMAIN tasks /\ tasks[t] \in TaskRow
        /\ e.status = target
        /\ TransitionAllowed(tasks[t], target, e.at)
        /\ tasks' = [tasks EXCEPT ![t] = row]
        /\ events' = AppendLocked(events, e)
    BY <1>2 DEF transition_task, TypeOK, validate_lifecycle_event
  <2>3. moved \in TaskRow
    BY <2>1, <2>2, TransitionedType
  <2>4. row.status = target /\ row.agents = tasks[t].agents
    BY <2>2, <2>3 DEF Stamped, Transitioned, TaskRow
  <2> HIDE DEF row
  <2>5. Explains(e, tasks[t], row)
    <3>1. tasks[t].status \in TaskStatus /\ can_transition(tasks[t].status, s)
      BY <2>1, <2>2 DEF TransitionAllowed, TaskRow
    <3> QED
      BY <2>1, <2>2, <2>4, <3>1, StatusExplains
  <2> HIDE DEF e
  <2> QED
    BY <1>2, <2>1, <2>2, <2>5, UpdateMirrors
<1> QED
  BY <1>1, <1>2

\* assign_task.
LEMMA AssignMirrors ==
  ASSUME TypeOK, Mirrors, NEW t \in TaskId, NEW id \in EventId,
         NEW at \in Time, NEW a \in Agent, NEW s \in TaskStatus,
         assign_task(t, a, AssignEvent(id, t, a, s, at))
  PROVE  Mirrors'
<1> DEFINE e == AssignEvent(id, t, a, s, at)
<1>1. CASE IdUsed(events, e.id)
  BY <1>1 DEF assign_task, storeVars, Mirrors
<1>2. CASE ~IdUsed(events, e.id)
  <2> DEFINE moved == Assigned(tasks[t], a)
             row == Stamped(moved, e.at)
  <2>1. /\ e \in Event /\ e.task = t /\ e.type = "agent.assigned"
        /\ e.agent = a /\ e.at = at
    BY AssignEventType DEF AssignEvent
  <2>2. /\ t \in DOMAIN tasks /\ tasks[t] \in TaskRow
        /\ tasks' = [tasks EXCEPT ![t] = row]
        /\ events' = AppendLocked(events, e)
    BY <1>2 DEF assign_task, TypeOK
  <2> HIDE DEF e
  <2>3. moved \in TaskRow
    BY <2>2, AssignedType
  <2>4. /\ row.status = tasks[t].status
        /\ row.agents = tasks[t].agents \cup {e.agent}
    BY <2>1, <2>2, <2>3 DEF Stamped, Assigned, TaskRow
  <2> HIDE DEF row
  <2>5. Explains(e, tasks[t], row)
    BY <2>1, <2>4, AssignExplains
  <2> QED
    BY <1>2, <2>1, <2>2, <2>5, UpdateMirrors
<1> QED
  BY <1>1, <1>2

\* append_event: the event is counted, the row stays as it is.
LEMMA AppendEventMirrors ==
  ASSUME TypeOK, Mirrors, NEW id \in EventId,
         NEW type \in AtomicTypes \cup OtherTypes,
         NEW t \in TaskId \cup {NoTask}, NEW at \in Time,
         append_event(OtherEvent(id, type, t, at))
  PROVE  Mirrors'
<1> DEFINE e == OtherEvent(id, type, t, at)
<1>1. /\ e \in Event /\ e.task = t /\ e.type = type
  BY OtherEventType DEF OtherEvent
<1>2. /\ type \in OtherTypes /\ tasks' = tasks
      /\ events' = AppendLocked(events, e)
  BY DEF append_event, OtherEvent
<1> HIDE DEF e
<1>3. CASE IdUsed(events, e.id)
  BY <1>2, <1>3 DEF AppendLocked, Mirrors
<1>4. CASE ~IdUsed(events, e.id)
  <2>1. events' = Append(events, e) /\ events \in Seq(Event)
    BY <1>2, <1>4 DEF AppendLocked, TypeOK
  <2>2. ASSUME NEW u \in DOMAIN tasks PROVE Mirrored(events', tasks[u], u)
    <3>1. u \in TaskId /\ Mirrored(events, tasks[u], u)
      BY DEF TypeOK, Mirrors
    <3>2. Explains(e, tasks[u], tasks[u])
      BY <1>1, <1>2, OtherExplains
    <3>3. CASE e.task = u
      <4>1. Mirrored(Append(events, e), tasks[u], u)
        BY <1>1, <1>4, <2>1, <3>1, <3>2, <3>3, MirrorOwn
      <4> QED
        BY <2>1, <4>1
    <3>4. CASE e.task # u
      BY <1>1, <2>1, <3>1, <3>4, MirrorOther
    <3> QED
      BY <3>3, <3>4
  <2> QED
    BY <1>2, <2>2 DEF Mirrors
<1> QED
  BY <1>3, <1>4

\* A log followed by events of which exactly one, the k-th, is of the task.
LEMMA ListJoin ==
  ASSUME NEW log \in Seq(Event), NEW new \in Seq(Event), NEW n \in Nat,
         Len(new) = Len(log) + n, NEW t, NEW k \in 1..n,
         \A i \in 1..Len(log) : new[i] = log[i],
         new[Len(log) + k].task = t,
         \A j \in 1..n : j # k => new[Len(log) + j].task # t
  PROVE  List(new, t) = Append(List(log, t), new[Len(log) + k])
<1>a. PICK L : L = Len(log)
  OBVIOUS
<1>b. PICK m : m = L + k
  OBVIOUS
<1>1. /\ L \in Nat /\ Len(new) = L + n /\ L <= Len(new)
      /\ m \in 1..Len(new) /\ m \in 0..Len(new) /\ m - 1 \in 0..Len(new)
      /\ L \in 0..(m - 1) /\ m \in 0..Len(new) /\ Len(new) \in 0..Len(new)
      /\ m \in 0..Len(new)
  BY <1>a, <1>b
<1>2. EventsOf(new, t)[L] = List(log, t)
  BY <1>a, <1>1, EventsOfPrefix DEF List
<1>3. EventsOf(new, t)[m - 1] = EventsOf(new, t)[L]
  <2>1. ASSUME NEW i \in (L + 1)..(m - 1) PROVE new[i].task # t
    <3>1. PICK j : j = i - L
      OBVIOUS
    <3>2. j \in 1..n /\ j # k /\ i = L + j
      BY <1>1, <1>b, <3>1
    <3> QED
      BY <1>a, <3>2
  <2>2. PICK b : b = m - 1
    OBVIOUS
  <2>3. /\ b \in 0..Len(new) /\ L \in 0..b
        /\ \A i \in (L + 1)..b : new[i].task # t
    BY <1>1, <2>1, <2>2
  <2>4. EventsOf(new, t)[b] = EventsOf(new, t)[L]
    BY <2>3, EventsOfOthers, ZenonT(40)
  <2> QED
    BY <2>2, <2>4
<1>4. EventsOf(new, t)[m] = Append(EventsOf(new, t)[m - 1], new[m])
  <2>1. new[m].task = t
    BY <1>a, <1>b
  <2>2. m \in 1..Len(new)
    BY <1>1
  <2>3. EventsOf(new, t)[m] = IF new[m].task = t
                              THEN Append(EventsOf(new, t)[m - 1], new[m])
                              ELSE EventsOf(new, t)[m - 1]
    BY <2>2, EventsOfDef
  <2> QED
    BY <2>1, <2>3, Zenon
<1>5. EventsOf(new, t)[Len(new)] = EventsOf(new, t)[m]
  <2>1. ASSUME NEW i \in (m + 1)..Len(new) PROVE new[i].task # t
    <3>1. PICK j : j = i - L
      OBVIOUS
    <3>2. j \in 1..n /\ j # k /\ i = L + j
      BY <1>1, <1>b, <3>1, SMTT(30)
    <3> QED
      BY <1>a, <3>2
  <2>2. PICK b : b = Len(new)
    OBVIOUS
  <2>3. /\ b \in 0..Len(new) /\ m \in 0..b
        /\ \A i \in (m + 1)..b : new[i].task # t
    BY <1>1, <2>1, <2>2
  <2>4. EventsOf(new, t)[b] = EventsOf(new, t)[m]
    BY <2>3, EventsOfOthers, ZenonT(40)
  <2> QED
    BY <2>2, <2>4
<1> QED
  BY <1>a, <1>b, <1>2, <1>3, <1>4, <1>5 DEF List

\* A log followed by events of other tasks.
LEMMA ListJoinOthers ==
  ASSUME NEW log \in Seq(Event), NEW new \in Seq(Event), NEW n \in Nat,
         Len(new) = Len(log) + n, NEW t,
         \A i \in 1..Len(log) : new[i] = log[i],
         \A j \in 1..n : new[Len(log) + j].task # t
  PROVE  List(new, t) = List(log, t)
<1>a. PICK L : L = Len(log)
  OBVIOUS
<1>1. L \in Nat /\ Len(new) = L + n /\ L <= Len(new)
  BY <1>a
<1>2. EventsOf(new, t)[L] = List(log, t)
  BY <1>a, <1>1, EventsOfPrefix DEF List
<1>3. ASSUME NEW i \in (L + 1)..Len(new) PROVE new[i].task # t
  <2>1. PICK j : j = i - L
    OBVIOUS
  <2>2. j \in 1..n /\ i = L + j
    BY <1>1, <2>1
  <2> QED
    BY <1>a, <2>2
<1>4. PICK b : b = Len(new)
  OBVIOUS
<1>5. /\ b \in 0..Len(new) /\ L \in 0..b
      /\ \A i \in (L + 1)..b : new[i].task # t
  BY <1>1, <1>3, <1>4
<1>6. EventsOf(new, t)[b] = EventsOf(new, t)[L]
  BY <1>5, EventsOfOthers
<1> QED
  BY <1>2, <1>4, <1>6 DEF List

\* reconcile_interrupted_running gives each interrupted task one more event,
\* with an id that is new to the log.
LEMMA ReconcileMirrors ==
  ASSUME TypeOK, Mirrors, NEW n \in Nat,
         NEW order \in [1..n -> TaskId], NEW ids \in [1..n -> EventId],
         NEW at \in Time, reconcile_interrupted_running(order, ids, at)
  PROVE  Mirrors'
<1> DEFINE new == [i \in DOMAIN order |->
                     StatusEvent(ids[i], order[i], "blocked", at)]
           L == Len(events)
<1>1. /\ new \in [1..n -> Event]
      /\ \A k \in 1..n : /\ new[k] = StatusEvent(ids[k], order[k], "blocked", at)
                         /\ new[k].task = order[k] /\ new[k].id = ids[k]
  BY StatusEventType DEF StatusEvent, TaskStatus
<1>2. /\ events' = events \o new
      /\ \A k \in 1..n : order[k] \in Interrupted /\ ~IdUsed(events, ids[k])
      /\ \A t \in Interrupted : \E k \in 1..n : order[k] = t
      /\ \A j, k \in 1..n : j < k => order[j] < order[k]
      /\ DOMAIN tasks' = DOMAIN tasks
      /\ \A t \in Interrupted :
           /\ TransitionAllowed(tasks[t], "blocked", at)
           /\ tasks'[t] = Stamped(Transitioned(tasks[t], "blocked", at), at)
      /\ \A t \in DOMAIN tasks \ Interrupted : tasks'[t] = tasks[t]
  BY DEF reconcile_interrupted_running, InterruptedOrder, Interrupted, FreshIds
<1> HIDE DEF new
<1>3. /\ events \in Seq(Event) /\ DOMAIN events = 1..L /\ L \in Nat
      /\ DOMAIN events' = 1..(L + n)
      /\ \A i \in 1..L : events'[i] = events[i]
      /\ \A k \in 1..n : events'[L + k] = new[k]
  BY <1>1, <1>2, ConcatFacts DEF TypeOK
<1>4. events' \in Seq(Event) /\ Len(events') = L + n
  <2>1. new \in Seq(Event)
    BY <1>1
  <2>2. events' \in Seq(Event)
    BY <1>2, <1>3, <2>1
  <2> QED
    BY <1>3, <2>2
<1>5. Extends(events, events')
  BY <1>3 DEF Extends, Recorded
<1>6. ASSUME NEW t \in DOMAIN tasks \ Interrupted
      PROVE  Mirrored(events', tasks'[t], t)
  <2>1. \A k \in 1..n : events'[L + k].task # t
    BY <1>1, <1>2, <1>3
  <2>2. List(events', t) = List(events, t)
    BY <1>3, <1>4, <2>1, ListJoinOthers
  <2>3. tasks'[t] = tasks[t] /\ Mirrored(events, tasks[t], t)
    BY <1>2 DEF Mirrors
  <2> QED
    BY <1>5, <2>2, <2>3, MirrorSame
<1>7. ASSUME NEW t \in Interrupted
      PROVE  Mirrored(events', tasks'[t], t)
  <2>1. PICK k \in 1..n : order[k] = t
    BY <1>2
  <2>2. \A j \in 1..n : order[j] = t => j = k
    <3> SUFFICES ASSUME NEW j \in 1..n, order[j] = t, j # k PROVE FALSE
      OBVIOUS
    <3>1. j < k \/ k < j
      OBVIOUS
    <3>2. t \in Nat
      BY <2>1, TaskIdAssumption
    <3> QED
      BY <1>2, <2>1, <3>1, <3>2
  <2>3. /\ t \in TaskId /\ tasks[t] \in TaskRow
        /\ Mirrored(events, tasks[t], t)
    BY DEF TypeOK, Interrupted, Mirrors
  <2>4. List(events', t) = Append(List(events, t), new[k])
    <3>1. /\ events'[L + k].task = t /\ events'[L + k] = new[k]
          /\ \A j \in 1..n : j # k => events'[L + j].task # t
      BY <1>1, <1>3, <2>1, <2>2, ZenonT(40)
    <3>2. List(events', t) = Append(List(events, t), events'[L + k])
      BY <1>3, <1>4, <3>1, ListJoin
    <3> QED
      BY <3>1, <3>2
  <2>5. Explains(new[k], tasks[t], tasks'[t])
    <3> DEFINE moved == Transitioned(tasks[t], "blocked", at)
    <3>1. moved \in TaskRow
      BY <2>3, TransitionedType DEF TaskStatus
    <3>2. moved.status = "blocked" /\ moved.agents = tasks[t].agents
      BY <2>3 DEF Transitioned, TaskRow
    <3>3. tasks'[t] = Stamped(moved, at)
      BY <1>2
    <3> HIDE DEF moved
    <3>4. tasks'[t].status = "blocked" /\ tasks'[t].agents = tasks[t].agents
      BY <3>1, <3>2, <3>3 DEF Stamped, TaskRow
    <3>5. /\ tasks[t].status \in TaskStatus
          /\ can_transition(tasks[t].status, "blocked")
      BY <1>2, <2>3 DEF TransitionAllowed, TaskRow
    <3>6. PICK after : after = tasks'[t]
      OBVIOUS
    <3>7. Explains(StatusEvent(ids[k], t, "blocked", at), tasks[t], after)
      BY <2>3, <3>4, <3>5, <3>6, StatusExplains DEF TaskStatus
    <3> QED
      BY <1>1, <2>1, <3>6, <3>7
  <2>6. /\ new[k] \in Event /\ new[k].task = t /\ ~IdUsed(events, new[k].id)
        /\ Recorded(events', new[k])
    <3>1. new[k] \in Event /\ new[k].task = t /\ ~IdUsed(events, new[k].id)
      BY <1>1, <1>2, <2>1
    <3>2. L + k \in DOMAIN events' /\ events'[L + k] = new[k]
      BY <1>3
    <3> QED
      BY <3>1, <3>2 DEF Recorded
  <2> QED
    BY <1>3, <1>4, <1>5, <2>3, <2>4, <2>5, <2>6, MirrorGrows
<1> QED
  BY <1>2, <1>6, <1>7 DEF Mirrors

\* A step of the other tables does not concern the replay.
LEMMA UnchangedMirrors ==
  ASSUME Mirrors, UNCHANGED <<tasks, events>>
  PROVE  Mirrors'
BY DEF Mirrors

\* Every operation keeps every task mirrored by the replay of its events.
LEMMA StepMirrors ==
  TypeOK /\ LogExplainsTasks /\ Mirrors /\ [Next]_storeVars => Mirrors'
<1> SUFFICES ASSUME TypeOK, LogExplainsTasks, Mirrors, [Next]_storeVars
             PROVE  Mirrors'
  OBVIOUS
<1>1. CASE UNCHANGED storeVars
  BY <1>1, UnchangedMirrors DEF storeVars
<1>2. ASSUME NEW t \in TaskId, NEW id \in EventId, NEW at \in Time,
             \/ \E created \in Time :
                  create_task(t, created, StatusEvent(id, t, "pending", at))
             \/ \E created \in Time, qid \in EventId, qat \in Time,
                   route \in Route \cup {NoRoute} :
                  create_queued_task(t, created,
                                     StatusEvent(id, t, "pending", at),
                                     StatusEvent(qid, t, "queued", qat), route)
             \/ \E target, s \in TaskStatus :
                  transition_task(t, target, StatusEvent(id, t, s, at))
             \/ cancel_task(t, StatusEvent(id, t, "cancelled", at))
             \/ \E a \in Agent, s \in TaskStatus :
                  assign_task(t, a, AssignEvent(id, t, a, s, at))
      PROVE  Mirrors'
  BY <1>2, CreateMirrors, CreateQueuedMirrors, TransitionMirrors, AssignMirrors
     DEF cancel_task, TaskStatus
<1>3. CASE \E id \in EventId, type \in AtomicTypes \cup OtherTypes,
              t \in TaskId \cup {NoTask}, at \in Time :
             append_event(OtherEvent(id, type, t, at))
  BY <1>3, AppendEventMirrors
<1>4. CASE \E t \in TaskId, route \in Route : save_task_route(t, route)
  BY <1>4, UnchangedMirrors DEF save_task_route
<1>5. ASSUME NEW r \in RunId, NEW at \in Time,
             \/ \E t \in TaskId : create_run(r, t, at)
             \/ start_run(r, at)
             \/ \E outcome \in RunTerminal : finish_run(r, outcome, at)
      PROVE  Mirrors'
  BY <1>5, UnchangedMirrors DEF create_run, start_run, finish_run
<1>6. CASE \E a \in ArtifactId, t \in TaskId, r \in RunId \cup {NoRun} :
             create_artifact(a, t, r)
  BY <1>6, UnchangedMirrors DEF create_artifact
<1>7. CASE \E n \in 0..Cardinality(TaskId) :
             \E order \in [1..n -> TaskId], ids \in [1..n -> EventId],
                at \in Time : reconcile_interrupted_running(order, ids, at)
  <2>1. PICK n \in 0..Cardinality(TaskId) :
               \E order \in [1..n -> TaskId], ids \in [1..n -> EventId],
                  at \in Time : reconcile_interrupted_running(order, ids, at)
    BY <1>7
  <2>2. n \in Nat
    OBVIOUS
  <2> QED
    BY <2>1, <2>2, ReconcileMirrors
<1> QED
  BY <1>1, <1>2, <1>3, <1>4, <1>5, <1>6, <1>7 DEF Next

\* A task that is mirrored is reproduced.
LEMMA MirrorsReproduce == TypeOK /\ Mirrors => ReplayReproduces
<1> SUFFICES ASSUME TypeOK, Mirrors, NEW t \in DOMAIN tasks
             PROVE  IF InOrder(list_events(t))
                    THEN Reproduces(t, replay_task(list_events(t)))
                    ELSE replay_task(list_events(t)).error
  BY DEF ReplayReproduces
<1>1. PICK s : s = AllEvents(t)
  OBVIOUS
<1>2. s = List(events, t) /\ s \in Seq(Event) /\ t \in TaskId
  BY <1>1, ListType DEF AllEvents, List, TypeOK
<1>3. CASE Len(s) <= EventLimit
  <2>1. list_events(t) = s
    BY <1>1, <1>3 DEF list_events
  <2>2. PICK p : p = replay_task(s)
    OBVIOUS
  <2>3. ASSUME InOrder(s) PROVE Reproduces(t, p)
    <3>1. Mirror(p, events, s, tasks[t], t)
      BY <1>2, <2>2, <2>3 DEF Mirrors, Mirrored
    <3>2. Replayed(p)
      BY <1>2, <3>1, MirrorReplayed
    <3> QED
      BY <2>1, <3>1, <3>2 DEF Reproduces, Mirror
  <2>4. ASSUME ~InOrder(s) PROVE p.error
    BY <1>2, <2>2, <2>4 DEF Mirrors, Mirrored
  <2> QED
    BY <2>1, <2>2, <2>3, <2>4
<1>4. CASE ~(Len(s) <= EventLimit)
  <2>1. PICK u : u = SubSeq(s, 1, EventLimit)
    OBVIOUS
  <2>2. list_events(t) = u
    BY <1>1, <1>4, <2>1 DEF list_events
  <2>3. /\ EventLimit \in 1..Len(s) /\ EventLimit \in 0..Len(s)
        /\ u \in Seq(Event) /\ Len(u) = EventLimit /\ EventLimit \in 0..Len(u)
        /\ \A k \in 1..EventLimit : u[k] = s[k]
        /\ DOMAIN u = 1..EventLimit
    BY <1>2, <1>4, <2>1, EventLimitAssumption
  <2>4. Consumed(u)[EventLimit] = Consumed(s)[EventLimit]
    BY <1>2, <2>3, ConsumedPrefix
  <2>5. PrefixFits(s, EventLimit)
    BY <1>2, <2>3 DEF Mirrors, Mirrored, Prefixes
  <2>6. replay_task(u) = Consumed(s)[EventLimit]
    BY <2>3, <2>4 DEF replay_task
  <2>7. InOrder(u) <=> InOrderTo(s, EventLimit)
    BY <2>3 DEF InOrder, InOrderTo
  <2>8. InOrder(u) => Reproduces(t, replay_task(u))
    BY <1>1, <1>4, <2>2, <2>3, <2>5, <2>6, <2>7 DEF Reproduces, PrefixFits
  <2>9. ~InOrder(u) => replay_task(u).error
    BY <2>5, <2>6, <2>7 DEF PrefixFits
  <2> QED
    BY <2>2, <2>8, <2>9
<1> QED
  BY <1>3, <1>4

\* Replay reconstructs every stored task (its status, its agents and the number
\* of its events) from the events table alone, for any number of tasks, events
\* and restarts, whenever the timestamps of its events do not decrease and a
\* listing holds them all; where they decrease, it raises, and a listing that is
\* cut is replayed up to its last event.
THEOREM ReplayReproducesAlways == Spec => []ReplayReproduces
<1>1. Init => LogExplainsTasks /\ Mirrors
  BY DEF Init, LogExplainsTasks, Mirrors, EmptyTable
<1> QED
  BY <1>1, InitType, StepType, StepLog, StepMirrors, MirrorsReproduce, PTL
     DEF Spec

\* Delivering an event a second time, at any later point, changes nothing in
\* the outcome of a replay, whether the replay succeeds or raises.
THEOREM DuplicatesIgnoredAlways == Spec => []DuplicatesIgnored
<1>1. TypeOK => DuplicatesIgnored
  <2> SUFFICES ASSUME TypeOK, NEW t \in DOMAIN tasks,
                      NEW i \in DOMAIN list_events(t),
                      NEW j \in DOMAIN list_events(t), i <= j
               PROVE  LET s == list_events(t) IN
                      replay_task(SubSeq(s, 1, j) \o <<s[i]>>
                                    \o SubSeq(s, j + 1, Len(s)))
                        = replay_task(s)
    BY DEF DuplicatesIgnored
  <2>1. PICK s : s = list_events(t)
    OBVIOUS
  <2>2. s \in Seq(Event)
    <3>1. PICK a : a = AllEvents(t)
      OBVIOUS
    <3>2. a \in Seq(Event)
      BY <3>1, ListType DEF AllEvents, List, TypeOK
    <3>3. s = a \/ (s = SubSeq(a, 1, EventLimit) /\ ~(Len(a) <= EventLimit))
      BY <2>1, <3>1 DEF list_events
    <3>4. CASE s = SubSeq(a, 1, EventLimit) /\ ~(Len(a) <= EventLimit)
      BY <3>2, <3>4, EventLimitAssumption
    <3> QED
      BY <3>2, <3>3, <3>4
  <2>3. j \in 1..Len(s) /\ i \in 1..j
    BY <2>1, <2>2
  <2>4. replay_task(WithDuplicate(s, i, j)) = replay_task(s)
    BY <2>2, <2>3, ReplayIgnoresDuplicates
  <2> QED
    BY <2>1, <2>4, Zenon DEF WithDuplicate
<1> QED
  BY <1>1, InitType, StepType, PTL DEF Spec
=============================================================================
