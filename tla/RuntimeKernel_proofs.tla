------------------------ MODULE RuntimeKernel_proofs ------------------------
(***************************************************************************)
(* The safety of RuntimeKernel, proved: the token of a run and of every    *)
(* attempt keeps its ledger and its window, a run that rests waits for     *)
(* input that has not come, a run and its job end together, and snapshots  *)
(* only go forward; and the job of the run keeps the life of a job.        *)
(***************************************************************************)
EXTENDS RuntimeKernel, FiniteSetTheorems, WellFoundedInduction, TLAPS

(***************************************************************************)
(* Sets of numbers, and the sequences that list them in order.             *)
(***************************************************************************)

\* The least-number principle, with a set for the predicate.
LEMMA Least ==
  ASSUME NEW T \in SUBSET Nat, T # {}
  PROVE  \E x \in T : \A y \in T : x <= y
<1>1. PICK R : R = OpToRel(<, Nat)
  OBVIOUS
<1>2. IsWellFoundedOn(R, Nat)
  BY <1>1, NatLessThanWellFounded
<1>3. \A x, y \in Nat : x < y => <<x, y>> \in R
  BY <1>1 DEF OpToRel
<1>4. PICK x \in T : \A y \in T : ~ (<<y, x>> \in R)
  BY <1>2, WFMin
<1>5. ASSUME NEW y \in T
      PROVE  x <= y
  <2>1. x \in Nat /\ y \in Nat
    OBVIOUS
  <2>2. ~ (y < x)
    BY <2>1, <1>3, <1>4
  <2> QED BY <2>1, <2>2
<1> QED BY <1>5

\* A bounded set of numbers has a largest one.
LEMMA LargestFacts ==
  ASSUME NEW m \in Nat, NEW S \in SUBSET (0..m), S # {}
  PROVE  Largest(S) \in S /\ \A y \in S : y <= Largest(S)
<1> DEFINE T == {n \in Nat : m - n \in S}
<1>1. PICK s \in S : TRUE
  OBVIOUS
<1>2. m - s \in T
  BY <1>1
<1>3. PICK n \in T : \A k \in T : n <= k
  <2> HIDE DEF T
  <2>1. T \in SUBSET Nat
    BY DEF T
  <2> QED BY <1>2, <2>1, Least
<1>4. m - n \in S
  BY <1>3
<1>5. ASSUME NEW y \in S
      PROVE  y <= m - n
  <2>1. y \in 0..m
    OBVIOUS
  <2>2. m - y \in Nat /\ m - (m - y) = y
    BY <2>1
  <2>3. m - y \in T
    BY <2>2
  <2> QED BY <1>3, <2>1, <2>3
<1> QED BY <1>4, <1>5 DEF Largest

Increasing(q) == \A i, k \in DOMAIN q : i < k => q[i] < q[k]

\* A bounded set of numbers can be listed in increasing order.
LEMMA Enumeration ==
  ASSUME NEW m \in Nat, NEW S \in SUBSET (1..m)
  PROVE  \E q \in [1..Cardinality(S) -> S] : Increasing(q)
<1> DEFINE Listed(T) == \E q \in [1..Cardinality(T) -> T] : Increasing(q)
           Bad == {n \in Nat : \E T \in SUBSET (1..m) : Cardinality(T) = n /\ ~Listed(T)}
<1>0. \A T \in SUBSET (1..m) : IsFiniteSet(T) /\ Cardinality(T) \in Nat
  BY FS_Interval, FS_Subset, FS_CardinalityType, 1 \in Int, m \in Int
<1>1. SUFFICES ASSUME Bad # {} PROVE FALSE
  BY <1>0
<1>2. PICK n \in Bad : \A k \in Bad : n <= k
  <2> HIDE DEF Bad
  <2>1. Bad \in SUBSET Nat
    BY DEF Bad
  <2> QED BY <1>1, <2>1, Least
<1>3. PICK T \in SUBSET (1..m) : Cardinality(T) = n /\ ~Listed(T)
  BY <1>2
<1>4. T # {}
  <2>1. ASSUME T = {} PROVE FALSE
    <3>1. Cardinality(T) = 0
      BY <2>1, FS_EmptySet
    <3>2. [i \in 1..0 |-> 0] \in [1..0 -> T]
      OBVIOUS
    <3>3. Increasing([i \in 1..0 |-> 0])
      BY DEF Increasing
    <3> QED BY <1>3, <3>1, <3>2, <3>3
  <2> QED BY <2>1
<1>5. PICK x \in T : \A y \in T : y <= x
  <2>1. T \in SUBSET (0..m)
    BY <1>3
  <2> QED BY <1>4, <2>1, LargestFacts
<1> DEFINE U == T \ {x}
<1>6. U \in SUBSET (1..m) /\ Cardinality(U) = n - 1 /\ n \in Nat /\ n - 1 \in Nat
  <2>1. IsFiniteSet(T) /\ n \in Nat /\ U \in SUBSET (1..m)
    BY <1>0, <1>3
  <2>2. Cardinality(U) = n - 1
    BY <2>1, <1>3, <1>5, FS_RemoveElement
  <2>3. Cardinality(U) \in Nat
    BY <1>0, <2>1
  <2> QED BY <2>1, <2>2, <2>3
<1>7. PICK q \in [1..(n - 1) -> U] : Increasing(q)
  <2>1. n - 1 \notin Bad
    <3> HIDE DEF Bad
    <3> QED BY <1>2, <1>6
  <2>2. Listed(U)
    BY <1>6, <2>1
  <2> QED BY <1>6, <2>2
<1> DEFINE p == [i \in 1..n |-> IF i = n THEN x ELSE q[i]]
<1>8. p \in [1..n -> T]
  BY <1>6, <1>7
<1>9. Increasing(p)
  <2> SUFFICES ASSUME NEW i \in 1..n, NEW k \in 1..n, i < k PROVE p[i] < p[k]
    BY DEF Increasing
  <2>1. i \in 1..(n - 1) /\ p[i] = q[i] /\ q[i] \in T /\ q[i] # x
    BY <1>6, <1>7
  <2>2. CASE k = n
    <3>1. p[k] = x /\ x \in 1..m /\ q[i] \in 1..m /\ q[i] <= x
      BY <1>3, <1>5, <2>1, <2>2
    <3> QED BY <2>1, <3>1
  <2>3. CASE k # n
    <3>1. k \in 1..(n - 1) /\ p[k] = q[k]
      BY <1>6, <2>3
    <3> QED BY <1>7, <2>1, <3>1 DEF Increasing
  <2> QED BY <2>2, <2>3
<1>10. Listed(T)
  <2> HIDE DEF p
  <2> QED BY <1>3, <1>8, <1>9
<1> QED BY <1>3, <1>10

\* InOrder lists every element of a bounded set once, in increasing order.
LEMMA InOrderFacts ==
  ASSUME NEW m \in Nat, NEW S \in SUBSET (1..m)
  PROVE  /\ InOrder(S) \in Seq(S) /\ Increasing(InOrder(S))
         /\ S = {InOrder(S)[i] : i \in 1..Len(InOrder(S))}
         /\ InOrder(S) = <<>> <=> S = {}
<1> DEFINE q == InOrder(S)
           n == Cardinality(S)
<1>1. IsFiniteSet(S) /\ n \in Nat
  BY FS_Interval, FS_Subset, FS_CardinalityType, 1 \in Int, m \in Int
<1>2. q \in [1..n -> S] /\ Increasing(q)
  BY Enumeration DEF InOrder, Increasing
<1>3. q \in Seq(S) /\ Len(q) = n
  <2> HIDE DEF q, n
  <2> QED BY <1>1, <1>2
<1>4. \A i, k \in 1..n : i # k => q[i] # q[k]
  <2> SUFFICES ASSUME NEW i \in 1..n, NEW k \in 1..n, i < k PROVE q[i] # q[k]
    BY <1>1
  <2>1. q[i] < q[k] /\ q[i] \in 1..m /\ q[k] \in 1..m
    BY <1>2 DEF Increasing
  <2> QED BY <2>1
<1>5. q \in Injection(1..n, S)
  <2> HIDE DEF q, n
  <2> QED BY <1>2, <1>4 DEF Injection, IsInjective
<1>6. q \in Surjection(1..n, S)
  <2>1. IsFiniteSet(1..n) /\ Cardinality(1..n) = n
    BY <1>1, FS_Interval, 1 \in Int, n \in Int
  <2> HIDE DEF q
  <2> QED BY <1>1, <1>5, <2>1, FS_Injection
<1>7. S = {q[i] : i \in 1..n}
  <2> HIDE DEF q, n
  <2> QED BY <1>2, <1>6 DEF Surjection
<1>8. q = <<>> <=> S = {}
  <2> HIDE DEF q, n
  <2>1. S = {} => n = 0
    BY <1>1, <1>2
  <2>2. n = 0 => S = {}
    BY <1>7
  <2> QED BY <1>1, <1>3, <2>1, <2>2
<1> QED BY <1>2, <1>3, <1>7, <1>8

(***************************************************************************)
(* The token.  ev are the terminal events and ps the inputs that a fork    *)
(* passed over.                                                            *)
(***************************************************************************)

Shape(t, n) ==
  /\ DOMAIN t = {"status", "phase", "cursor", "consumed", "wait"}
  /\ t.status \in {"running", "waiting", "success", "aborted", "cancelled"}
  /\ t.phase \in Nodes \cup {"waiting", "aborted", "cancelled"}
  /\ t.cursor \in 0..n
  /\ t.consumed \in Seq(1..n)
  /\ DOMAIN t.wait = {"status", "accept", "resume", "evidence"}
  /\ t.wait.status \in {"none", "waiting", "received"}
  /\ t.wait.accept \in 0..n
  /\ t.wait.resume \in Nodes \cup {None}
  /\ t.wait.evidence \subseteq 1..n

Given(ev) == {s \in 1..Len(ev) : ev[s] = "input"}

\* What checkpoints used are inputs the cursor has passed, in their order.
Ledger(t, ev) ==
  /\ Increasing(t.consumed)
  /\ \A i \in 1..Len(t.consumed) : t.consumed[i] \in Given(ev) /\ t.consumed[i] <= t.cursor

\* The evidence is the window up to the cursor, and all of it was used.
Window(t, ev, ps) ==
  t.wait.status # "none" =>
    /\ t.wait.resume \in Nodes
    /\ t.wait.evidence = {s \in Given(ev) \ ps : t.wait.accept < s /\ s <= t.cursor}
    /\ t.wait.evidence \subseteq Consumed(t)

\* A token waits at a checkpoint, and one that runs is at a node; without a
\* checkpoint there is no evidence.
Placed(t) ==
  /\ t.status = "waiting" => t.wait.status # "none"
  /\ t.wait.status = "none" => t.wait.evidence = {}
  /\ t.status = "running" => t.phase \in Nodes

Good(t, ev, ps) == Shape(t, Len(ev)) /\ Ledger(t, ev) /\ Window(t, ev, ps) /\ Placed(t)

\* The token of a new run.
LEMMA InitialTokenGood ==
  ASSUME NEW ev \in Seq(Directions), NEW ps
  PROVE  Good(InitialToken, ev, ps)
BY GraphAssumption DEF InitialToken, NoWait, Good, Shape, Ledger, Window, Placed, Increasing, Consumed

\* Delivery of the inputs q makes the ledger longer and the token run.
LEMMA DeliverFacts ==
  ASSUME NEW t, NEW n \in Nat, Shape(t, n), NEW q \in Seq(1..n)
  PROVE  /\ DOMAIN Deliver(t, q) = {"status", "phase", "cursor", "consumed", "wait"}
         /\ Deliver(t, q).status = "running" /\ Deliver(t, q).phase = t.wait.resume
         /\ Deliver(t, q).cursor = t.cursor /\ Deliver(t, q).consumed = t.consumed \o q
         /\ DOMAIN Deliver(t, q).wait = {"status", "accept", "resume", "evidence"}
         /\ Deliver(t, q).wait.status = "received"
         /\ Deliver(t, q).wait.accept = t.wait.accept /\ Deliver(t, q).wait.resume = t.wait.resume
         /\ Deliver(t, q).wait.evidence = t.wait.evidence \cup {q[i] : i \in 1..Len(q)}
BY DEF Deliver, Shape

\* Delivery of inputs that come after all that was used, and that complete the
\* window, leaves a good token.
LEMMA DeliverGood ==
  ASSUME NEW ev \in Seq(Directions), NEW ps, NEW t,
         Shape(t, Len(ev)), Ledger(t, ev), t.wait.resume \in Nodes, t.wait.evidence \subseteq Consumed(t),
         NEW q \in Seq(Given(ev)), Increasing(q),
         \A i \in 1..Len(q) : q[i] <= t.cursor /\ \A k \in 1..Len(t.consumed) : t.consumed[k] < q[i],
         t.wait.evidence \cup {q[i] : i \in 1..Len(q)}
           = {s \in Given(ev) \ ps : t.wait.accept < s /\ s <= t.cursor}
  PROVE  Good(Deliver(t, q), ev, ps)
<1> DEFINE n == Len(ev)
           u == Deliver(t, q)
           c == t.consumed \o q
<1>1. n \in Nat /\ Given(ev) \subseteq 1..n
  BY DEF Given
<1>2. q \in Seq(1..n)
  BY <1>1
<1>3. /\ DOMAIN u = {"status", "phase", "cursor", "consumed", "wait"}
      /\ u.status = "running" /\ u.phase = t.wait.resume
      /\ u.cursor = t.cursor /\ u.consumed = c
      /\ DOMAIN u.wait = {"status", "accept", "resume", "evidence"}
      /\ u.wait.status = "received"
      /\ u.wait.accept = t.wait.accept /\ u.wait.resume = t.wait.resume
      /\ u.wait.evidence = t.wait.evidence \cup {q[i] : i \in 1..Len(q)}
  BY <1>1, <1>2, DeliverFacts
<1>4. /\ t.consumed \in Seq(1..n) /\ Len(t.consumed) \in Nat /\ Len(q) \in Nat
      /\ DOMAIN t.consumed = 1..Len(t.consumed) /\ DOMAIN q = 1..Len(q)
  BY DEF Shape
<1>5. /\ c \in Seq(1..n) /\ DOMAIN c = 1..Len(c) /\ Len(c) = Len(t.consumed) + Len(q)
      /\ \A i \in 1..Len(c) : c[i] = IF i <= Len(t.consumed) THEN t.consumed[i] ELSE q[i - Len(t.consumed)]
  BY <1>2, <1>4
<1>6. \A i \in 1..Len(t.consumed) : t.consumed[i] = c[i] /\ i \in 1..Len(c)
  BY <1>4, <1>2, <1>5
<1>7. \A i \in 1..Len(q) : q[i] = c[i + Len(t.consumed)] /\ i + Len(t.consumed) \in 1..Len(c)
  BY <1>4, <1>2, <1>5
<1> HIDE DEF u, c
<1>8. Shape(u, n)
  BY <1>1, <1>2, <1>3, <1>5 DEF Shape
<1>9. Ledger(u, ev)
  <2>1. \A i \in 1..Len(c) : c[i] \in Given(ev) /\ c[i] <= t.cursor
    <3> SUFFICES ASSUME NEW i \in 1..Len(c) PROVE c[i] \in Given(ev) /\ c[i] <= t.cursor
      OBVIOUS
    <3>1. CASE i <= Len(t.consumed)
      <4>1. i \in 1..Len(t.consumed) /\ c[i] = t.consumed[i]
        BY <1>4, <1>5, <3>1
      <4> QED BY <4>1 DEF Ledger
    <3>2. CASE i > Len(t.consumed)
      <4>1. i - Len(t.consumed) \in 1..Len(q)
        BY <1>2, <1>4, <1>5, <3>2
      <4>2. c[i] = q[i - Len(t.consumed)]
        BY <1>4, <1>5, <3>2
      <4> QED BY <4>1, <4>2
    <3> QED BY <1>4, <1>5, <3>1, <3>2
  <2>2. Increasing(c)
    <3> SUFFICES ASSUME NEW i \in 1..Len(c), NEW k \in 1..Len(c), i < k PROVE c[i] < c[k]
      BY <1>5 DEF Increasing
    <3>1. CASE k <= Len(t.consumed)
      <4>1. i \in 1..Len(t.consumed) /\ k \in 1..Len(t.consumed)
        BY <1>4, <1>5, <3>1
      <4>2. c[i] = t.consumed[i] /\ c[k] = t.consumed[k]
        BY <1>6, <4>1
      <4> QED BY <1>4, <4>1, <4>2 DEF Ledger, Increasing
    <3>2. CASE i <= Len(t.consumed) /\ k > Len(t.consumed)
      <4>1. k - Len(t.consumed) \in 1..Len(q) /\ i \in 1..Len(t.consumed)
        BY <1>2, <1>4, <1>5, <3>2
      <4>2. c[k] = q[k - Len(t.consumed)] /\ c[i] = t.consumed[i]
        BY SMTT(30), <1>4, <1>5, <3>2
      <4> QED BY <4>1, <4>2
    <3>3. CASE i > Len(t.consumed)
      <4> DEFINE a == i - Len(t.consumed)
                 b == k - Len(t.consumed)
      <4>1. a \in 1..Len(q) /\ b \in 1..Len(q) /\ a < b
        BY SMTT(30), <1>2, <1>4, <1>5, <3>3
      <4>2. c[i] = q[a] /\ c[k] = q[b]
        <5>1. ~(i <= Len(t.consumed)) /\ ~(k <= Len(t.consumed))
          BY <1>4, <3>3
        <5> QED BY <1>5, <5>1
      <4> HIDE DEF a, b
      <4> QED BY <1>4, <4>1, <4>2 DEF Increasing
    <3> QED BY <1>4, <1>5, <3>1, <3>2, <3>3
  <2> QED BY <1>3, <2>1, <2>2 DEF Ledger
<1>10. Window(u, ev, ps)
  <2>1. u.wait.evidence \subseteq Consumed(u)
    <3> DEFINE given == {c[i] : i \in 1..Len(c)}
               asked == {q[i] : i \in 1..Len(q)}
    <3>1. t.wait.evidence \subseteq given
      BY <1>6 DEF Consumed
    <3>2. asked \subseteq given
      BY <1>7
    <3>3. u.wait.evidence = t.wait.evidence \cup asked /\ Consumed(u) = given
      BY <1>3 DEF Consumed
    <3> HIDE DEF given, asked
    <3> QED BY <3>1, <3>2, <3>3
  <2> QED BY <1>3, <2>1 DEF Window
<1>11. Placed(u)
  BY <1>3 DEF Placed
<1> QED BY <1>8, <1>9, <1>10, <1>11 DEF Good, u

\* A sequence is one over any set that has its elements.
LEMMA SeqWithin ==
  ASSUME NEW S, NEW T, NEW q \in Seq(S), \A i \in 1..Len(q) : q[i] \in T
  PROVE  q \in Seq(T)
OBVIOUS

\* One sequence extends another when it begins with its elements.
LEMMA ExtendsFacts ==
  ASSUME NEW n, NEW p \in Seq(n), NEW q \in Seq(n)
  PROVE  Extends(q, p) <=> Len(p) <= Len(q) /\ \A i \in 1..Len(p) : q[i] = p[i]
<1>1. Len(p) \in Nat /\ Len(q) \in Nat
  OBVIOUS
<1>2. CASE Len(p) <= Len(q)
  <2> DEFINE s == SubSeq(q, 1, Len(p))
  <2>1. s \in Seq(n) /\ Len(s) = Len(p) /\ \A i \in 1..Len(p) : s[i] = q[i]
    BY <1>1, <1>2
  <2>2. s = p <=> \A i \in 1..Len(p) : s[i] = p[i]
    BY <2>1
  <2> HIDE DEF s
  <2> QED BY <1>2, <2>1, <2>2 DEF Extends, s
<1>3. CASE ~(Len(p) <= Len(q))
  BY <1>3 DEF Extends
<1> QED BY <1>2, <1>3

LEMMA ExtendsSame ==
  ASSUME NEW n, NEW p \in Seq(n)
  PROVE  Extends(p, p)
BY ExtendsFacts

LEMMA ExtendsConcat ==
  ASSUME NEW n, NEW p \in Seq(n), NEW q \in Seq(n)
  PROVE  Extends(p \o q, p)
<1>1. p \o q \in Seq(n) /\ Len(p) <= Len(p \o q) /\ \A i \in 1..Len(p) : (p \o q)[i] = p[i]
  OBVIOUS
<1> QED BY <1>1, ExtendsFacts

LEMMA ExtendsTransitive ==
  ASSUME NEW n, NEW p \in Seq(n), NEW q \in Seq(n), NEW r \in Seq(n), Extends(q, p), Extends(r, q)
  PROVE  Extends(r, p)
<1>1. Len(p) \in Nat /\ Len(q) \in Nat /\ Len(r) \in Nat
  OBVIOUS
<1>2. Len(p) <= Len(q) /\ \A i \in 1..Len(p) : q[i] = p[i]
  BY ExtendsFacts
<1>3. Len(q) <= Len(r) /\ \A i \in 1..Len(q) : r[i] = q[i]
  BY ExtendsFacts
<1>4. Len(p) <= Len(r) /\ \A i \in 1..Len(p) : r[i] = p[i]
  BY <1>1, <1>2, <1>3
<1> QED BY <1>4, ExtendsFacts

\* What a checkpoint may take, and in which order.
LEMMA DeliverableFacts ==
  ASSUME events \in Seq(Directions), NEW t, t.wait.accept \in Nat, NEW lo \in Nat
  PROVE  /\ Deliverable(t, lo) \in Seq(Given(events)) /\ Increasing(Deliverable(t, lo))
         /\ {Deliverable(t, lo)[i] : i \in 1..Len(Deliverable(t, lo))}
              = {s \in Given(events) : lo < s /\ t.wait.accept < s /\ s \notin Consumed(t)}
         /\ Deliverable(t, lo) = <<>> <=>
              {s \in Given(events) : lo < s /\ t.wait.accept < s /\ s \notin Consumed(t)} = {}
<1> DEFINE S == {s \in (lo + 1)..Len(events) : _can_consume_terminal_input_for_wait(t, s)}
           D == {s \in Given(events) : lo < s /\ t.wait.accept < s /\ s \notin Consumed(t)}
           q == InOrder(S)
<1>1. Len(events) \in Nat
  OBVIOUS
<1>2. S = D
  <2>1. \A s : s \in S <=> s \in D
    BY <1>1 DEF _can_consume_terminal_input_for_wait, Given
  <2> QED BY <2>1
<1>3. S \in SUBSET (1..Len(events))
  BY <1>1
<1>4. S \subseteq Given(events)
  BY <1>2
<1> HIDE DEF S, D
<1>5. /\ q \in Seq(S) /\ Increasing(q) /\ S = {q[i] : i \in 1..Len(q)}
      /\ q = <<>> <=> S = {}
  BY <1>1, <1>3, InOrderFacts
<1>6. q \in Seq(Given(events))
  <2> HIDE DEF q
  <2> QED BY <1>4, <1>5
<1> QED BY <1>2, <1>5, <1>6 DEF Deliverable, S, D

\* A ledger entry is an input the cursor has passed.
LEMMA ConsumedFacts ==
  ASSUME NEW ev \in Seq(Directions), NEW ps, NEW t, Good(t, ev, ps)
  PROVE  /\ t.consumed \in Seq(1..Len(ev)) /\ Consumed(t) \subseteq Given(ev)
         /\ \A s \in Consumed(t) : s \in 1..Len(ev) /\ s <= t.cursor
         /\ \A i \in 1..Len(t.consumed) : t.consumed[i] \in Consumed(t)
BY DEF Good, Shape, Ledger, Consumed, Given

\* The cursor of a token that waits goes to the last event, and what its
\* checkpoint accepts is delivered; a token that goes on waiting was not owed any.
LEMMA SyncGood ==
  ASSUME events \in Seq(Directions), NEW t, Good(t, events, passed),
         _token_is_waiting_for_terminal_input(t), \A s \in passed : s <= t.cursor
  PROVE  LET u == _sync_terminal_events(t) IN
         /\ Good(u, events, passed)
         /\ Extends(u.consumed, t.consumed) /\ u.cursor = Len(events)
         /\ u.status = "waiting" =>
              \A s \in Given(events) : t.cursor < s /\ t.wait.accept < s => s \in Consumed(t)
<1> DEFINE n == Len(events)
           q == Deliverable(t, t.cursor)
           u == [t EXCEPT !.cursor = n]
           D == {s \in Given(events) : t.cursor < s /\ t.wait.accept < s /\ s \notin Consumed(t)}
<1>1. n \in Nat /\ t.cursor \in 0..n /\ t.cursor \in Nat /\ t.wait.accept \in Nat /\ Shape(t, n)
  BY DEF Good, Shape
<1>2. /\ q \in Seq(Given(events)) /\ Increasing(q) /\ {q[i] : i \in 1..Len(q)} = D
      /\ q = <<>> <=> D = {}
  BY <1>1, DeliverableFacts
<1>3. /\ DOMAIN u = {"status", "phase", "cursor", "consumed", "wait"}
      /\ u.status = t.status /\ u.phase = t.phase /\ u.consumed = t.consumed /\ u.wait = t.wait
      /\ u.cursor = n
  BY <1>1 DEF Shape
<1> HIDE DEF u, q, D
<1>4. Shape(u, n)
  BY <1>1, <1>3 DEF Shape
<1>5. Ledger(u, events)
  BY <1>3 DEF Good, Ledger, Given
<1>6. /\ t.wait.resume \in Nodes /\ t.wait.evidence \subseteq Consumed(t)
      /\ t.wait.evidence = {s \in Given(events) \ passed : t.wait.accept < s /\ s <= t.cursor}
  BY DEF Good, Window, _token_is_waiting_for_terminal_input
<1>7. \A s \in Given(events) : s \in 1..n
  BY DEF Given
<1>8. \A s \in Consumed(t) : s <= t.cursor
  BY ConsumedFacts
<1>9. t.wait.evidence \cup D = {s \in Given(events) \ passed : t.wait.accept < s /\ s <= n}
  BY <1>1, <1>6, <1>7, <1>8 DEF D
<1>10. CASE q = <<>>
  <2>1. D = {}
    BY <1>2, <1>10
  <2>2. Window(u, events, passed)
    BY <1>3, <1>6, <1>9, <2>1 DEF Window, Consumed
  <2>3. Placed(u)
    BY <1>3 DEF Good, Placed
  <2>4. Extends(u.consumed, t.consumed)
    BY <1>1, <1>3, ExtendsSame DEF Shape
  <2>5. _sync_terminal_events(t) = u
    BY <1>10 DEF _sync_terminal_events, u, q
  <2>6. \A s \in Given(events) : t.cursor < s /\ t.wait.accept < s => s \in Consumed(t)
    BY <2>1 DEF D
  <2> QED BY <1>3, <1>4, <1>5, <2>2, <2>3, <2>4, <2>5, <2>6 DEF Good
<1>11. CASE q # <<>>
  <2>1. q \in Seq(1..n)
    BY <1>2, <1>7
  <2>2. _sync_terminal_events(t) = Deliver(u, q)
    BY <1>11 DEF _sync_terminal_events, u, q
  <2>3. \A i \in 1..Len(q) : q[i] \in D
    BY <1>2
  <2>4. \A i \in 1..Len(q) : q[i] <= n /\ \A k \in 1..Len(u.consumed) : u.consumed[k] < q[i]
    <3> SUFFICES ASSUME NEW i \in 1..Len(q), NEW k \in 1..Len(t.consumed)
                 PROVE  q[i] <= n /\ t.consumed[k] < q[i]
      <4>1. \A i \in 1..Len(q) : q[i] <= n
        BY <2>1
      <4> QED BY <1>3, <4>1
    <3>1. t.consumed[k] \in Nat /\ t.consumed[k] <= t.cursor
      BY ConsumedFacts
    <3>2. q[i] \in 1..n /\ t.cursor < q[i]
      BY <1>7, <2>3 DEF D
    <3> QED BY <1>1, <3>1, <3>2
  <2>5. u.wait.evidence \cup {q[i] : i \in 1..Len(q)}
          = {s \in Given(events) \ passed : u.wait.accept < s /\ s <= u.cursor}
    BY <1>2, <1>3, <1>9
  <2>6. u.wait.evidence \subseteq Consumed(u) /\ u.wait.resume \in Nodes
    BY <1>3, <1>6 DEF Consumed
  <2>7. Good(Deliver(u, q), events, passed)
    BY <1>2, <1>3, <1>4, <1>5, <2>4, <2>5, <2>6, DeliverGood
  <2>8. /\ Deliver(u, q).status = "running" /\ Deliver(u, q).cursor = n
        /\ Deliver(u, q).consumed = t.consumed \o q
    <3>1. /\ Deliver(u, q).status = "running" /\ Deliver(u, q).cursor = u.cursor
          /\ Deliver(u, q).consumed = u.consumed \o q
      BY <1>1, <1>4, <2>1, DeliverFacts
    <3> QED BY <1>3, <3>1
  <2>9. Extends(t.consumed \o q, t.consumed)
    BY <1>1, <2>1, ExtendsConcat DEF Shape
  <2> QED BY <2>2, <2>7, <2>8, <2>9
<1> QED BY <1>10, <1>11

\* A checkpoint opens after all that was used before, and takes what is already
\* in its window.
LEMMA EnterGood ==
  ASSUME events \in Seq(Directions), NEW t, Good(t, events, passed),
         NEW n \in Nodes, Kind[n] = "instruct",
         NEW default \in 0..Len(events), \A s \in passed : s <= default
  PROVE  LET u == _consume_pending_terminal_inputs_for_wait(_enter_wait_checkpoint(t, n, default)) IN
         Good(u, events, passed) /\ Extends(u.consumed, t.consumed) /\ t.cursor <= u.cursor
<1> DEFINE len == Len(events)
           S == {default} \cup Consumed(t)
                \cup IF t.wait.status = "none" THEN {} ELSE {t.cursor, Len(events)}
           a == _wait_checkpoint_accept_after_seq(t, default)
           u == _enter_wait_checkpoint(t, n, default)
           q == Deliverable(u, u.wait.accept)
           D == {s \in Given(events) : a < s}
<1>1. /\ len \in Nat /\ t.cursor \in 0..len /\ t.cursor \in Nat /\ t.consumed \in Seq(1..len)
      /\ DOMAIN t = {"status", "phase", "cursor", "consumed", "wait"}
  BY DEF Good, Shape
<1>2. a \in 0..len /\ a \in Nat /\ default <= a /\ \A s \in Consumed(t) : s <= a
  <2>1. S \in SUBSET (0..len) /\ S # {}
    BY <1>1, ConsumedFacts
  <2>2. Largest(S) \in S /\ \A y \in S : y <= Largest(S)
    <3> HIDE DEF S
    <3> QED BY <1>1, <2>1, LargestFacts
  <2>3. a = Largest(S)
    BY DEF _wait_checkpoint_accept_after_seq
  <2>4. default \in S /\ Consumed(t) \subseteq S
    OBVIOUS
  <2> HIDE DEF S, a
  <2>5. a \in S /\ a \in 0..len
    BY <2>1, <2>2, <2>3
  <2>6. \A y \in S : y <= a
    BY <2>2, <2>3
  <2>7. default \in S /\ \A s \in Consumed(t) : s \in S
    BY <2>4
  <2>8. a \in Nat
    BY <1>1, <2>5
  <2> QED BY <2>5, <2>6, <2>7, <2>8
<1>3. /\ DOMAIN u = {"status", "phase", "cursor", "consumed", "wait"}
      /\ u.status = "waiting" /\ u.phase = "waiting" /\ u.consumed = t.consumed /\ u.cursor = t.cursor
      /\ DOMAIN u.wait = {"status", "accept", "resume", "evidence"}
      /\ u.wait.status = "waiting" /\ u.wait.resume = Resume[n] /\ u.wait.evidence = {} /\ u.wait.accept = a
  <2> HIDE DEF a
  <2>1. u = [t EXCEPT !.wait = [status |-> "waiting", evidence |-> {}, resume |-> Resume[n], accept |-> a],
                      !.status = "waiting", !.phase = "waiting"]
    BY DEF _enter_wait_checkpoint, a
  <2> HIDE DEF u
  <2> QED BY <1>1, <2>1
<1>4. Resume[n] \in Nodes
  BY GraphAssumption
<1> HIDE DEF a, u, q, D, S
<1>5. Shape(u, len)
  BY <1>1, <1>2, <1>3, <1>4 DEF Shape
<1>6. Ledger(u, events)
  BY <1>3 DEF Good, Ledger
<1>7. D = {s \in Given(events) : a < s /\ u.wait.accept < s /\ s \notin Consumed(u)}
  <2>1. Consumed(u) = Consumed(t)
    BY <1>3 DEF Consumed
  <2>2. \A s \in Given(events) : s \in 1..len
    BY DEF Given
  <2>3. \A s \in Given(events) : a < s => s \notin Consumed(t)
    BY <1>2, <2>2
  <2> QED BY <1>3, <2>1, <2>3 DEF D
<1>8. /\ q \in Seq(Given(events)) /\ Increasing(q) /\ {q[i] : i \in 1..Len(q)} = D
      /\ q = <<>> <=> D = {}
  <2>1. q = Deliverable(u, a) /\ u.wait.accept \in Nat
    BY <1>2, <1>3 DEF q
  <2> QED BY <1>2, <1>7, <2>1, DeliverableFacts
<1>9. CASE q = <<>>
  <2>1. D = {}
    BY <1>8, <1>9
  <2>2. Window(u, events, passed)
    BY <1>3, <1>4, <2>1 DEF Window, D
  <2>3. Placed(u)
    BY <1>3 DEF Placed
  <2>4. _consume_pending_terminal_inputs_for_wait(u) = u
    BY <1>9 DEF _consume_pending_terminal_inputs_for_wait, q
  <2>5. Extends(u.consumed, t.consumed)
    BY <1>1, <1>3, ExtendsSame
  <2> QED BY <1>1, <1>3, <1>5, <1>6, <2>2, <2>3, <2>4, <2>5 DEF Good, u
<1>10. CASE q # <<>>
  <2> DEFINE last == q[Len(q)]
             c == Largest({t.cursor, last})
             w == [u EXCEPT !.cursor = c]
  <2>1. /\ Given(events) \subseteq 1..len /\ q \in Seq(1..len) /\ Len(q) \in Nat /\ DOMAIN q = 1..Len(q)
        /\ Len(q) \in 1..Len(q)
    <3>1. Given(events) \subseteq 1..len
      BY DEF Given
    <3>2. q \in Seq(1..len)
      BY <1>8, <3>1
    <3> QED BY <1>10, <3>1, <3>2
  <2>2. last \in 1..len /\ \A i \in 1..Len(q) : q[i] <= last
    <3>1. \A i \in 1..Len(q) : q[i] \in 1..len
      BY <2>1
    <3>2. ASSUME NEW i \in 1..Len(q)
          PROVE  q[i] <= last
      <4>1. CASE i = Len(q)
        BY <2>1, <3>1, <4>1
      <4>2. CASE i # Len(q)
        <5>1. i < Len(q)
          <6>1. Len(q) \in Nat
            BY <2>1
          <6> QED BY <4>2, <6>1
        <5>2. q[i] < q[Len(q)]
          BY <1>8, <2>1, <5>1 DEF Increasing
        <5> QED BY <2>1, <3>1, <5>2
      <4> QED BY <4>1, <4>2
    <3> QED BY <2>1, <3>1, <3>2
  <2>3. c \in 0..len /\ t.cursor <= c /\ last <= c
    <3>1. {t.cursor, last} \in SUBSET (0..len) /\ {t.cursor, last} # {}
      BY <1>1, <2>2
    <3> HIDE DEF last
    <3>2. c \in {t.cursor, last} /\ \A y \in {t.cursor, last} : y <= c
      BY <1>1, <3>1, LargestFacts
    <3> QED BY <3>1, <3>2
  <2>4. _consume_pending_terminal_inputs_for_wait(u) = Deliver(w, q)
    BY <1>3, <1>10 DEF _consume_pending_terminal_inputs_for_wait, q
  <2>5. /\ DOMAIN w = {"status", "phase", "cursor", "consumed", "wait"}
        /\ w.status = u.status /\ w.phase = u.phase /\ w.consumed = u.consumed /\ w.wait = u.wait
        /\ w.cursor = c
    BY <1>3
  <2> HIDE DEF w, c, last
  <2>6. Shape(w, len)
    BY <1>5, <2>3, <2>5 DEF Shape
  <2>7. Ledger(w, events)
    <3>1. \A i \in 1..Len(t.consumed) : t.consumed[i] \in 1..len /\ t.consumed[i] <= t.cursor
      BY ConsumedFacts
    <3>2. \A i \in 1..Len(t.consumed) : t.consumed[i] <= c
      BY <1>1, <2>3, <3>1
    <3> QED BY <1>3, <1>6, <2>5, <3>2 DEF Ledger
  <2>8. \A i \in 1..Len(q) : q[i] <= c /\ \A k \in 1..Len(w.consumed) : w.consumed[k] < q[i]
    <3> SUFFICES ASSUME NEW i \in 1..Len(q), NEW k \in 1..Len(t.consumed)
                 PROVE  t.consumed[k] < q[i]
      <4>1. \A i \in 1..Len(q) : q[i] \in 1..len /\ q[i] <= c
        BY <2>1, <2>2, <2>3
      <4> QED BY <1>3, <2>5, <4>1
    <3>1. t.consumed[k] \in 1..len /\ t.consumed[k] <= a
      BY <1>2, ConsumedFacts
    <3>2. q[i] \in D
      BY <1>8
    <3>3. q[i] \in 1..len /\ a < q[i]
      BY <2>1, <3>2 DEF D
    <3> QED BY <1>2, <3>1, <3>3
  <2>9. w.wait.evidence \cup {q[i] : i \in 1..Len(q)}
          = {s \in Given(events) \ passed : w.wait.accept < s /\ s <= w.cursor}
    <3>1. \A s \in D : s \notin passed
      <4> SUFFICES ASSUME NEW s \in D, s \in passed PROVE FALSE
        OBVIOUS
      <4>1. s \in 1..len /\ a < s /\ s <= default
        BY <2>1 DEF D
      <4> QED BY <1>2, <4>1
    <3>2. \A s \in D : s <= c
      <4> SUFFICES ASSUME NEW i \in 1..Len(q) PROVE q[i] <= c
        BY <1>8
      <4>1. q[i] \in 1..len
        BY <2>1
      <4> QED BY <2>2, <2>3, <4>1
    <3>3. D = {s \in Given(events) \ passed : a < s /\ s <= c}
      BY <3>1, <3>2 DEF D
    <3> QED BY <1>3, <1>8, <2>5, <3>3
  <2>10. w.wait.evidence \subseteq Consumed(w) /\ w.wait.resume \in Nodes
    BY <1>3, <1>4, <2>5
  <2>11. Good(Deliver(w, q), events, passed)
    BY <1>8, <2>5, <2>6, <2>7, <2>8, <2>9, <2>10, DeliverGood
  <2>12. /\ Deliver(w, q).cursor = c /\ Deliver(w, q).consumed = t.consumed \o q
    <3>1. Deliver(w, q).cursor = w.cursor /\ Deliver(w, q).consumed = w.consumed \o q
      BY SMTT(30), <1>1, <2>1, <2>6, DeliverFacts
    <3> QED BY <1>3, <2>5, <3>1
  <2>13. Extends(t.consumed \o q, t.consumed)
    BY <1>1, <2>1, ExtendsConcat
  <2> QED BY <2>3, <2>4, <2>11, <2>12, <2>13 DEF u
<1> QED BY <1>9, <1>10

\* A token that only goes elsewhere keeps its ledger and its window.
LEMMA MovedGood ==
  ASSUME NEW ev \in Seq(Directions), NEW ps, NEW t, Good(t, ev, ps), NEW u,
         Shape(u, Len(ev)), Placed(u), u.cursor = t.cursor, u.consumed = t.consumed,
         u.wait.status # "none" => t.wait.status # "none",
         u.wait.status # "none" =>
           u.wait.accept = t.wait.accept /\ u.wait.resume = t.wait.resume /\ u.wait.evidence = t.wait.evidence
  PROVE  Good(u, ev, ps)
<1>1. Ledger(u, ev)
  BY DEF Good, Ledger
<1>2. Window(u, ev, ps)
  BY DEF Good, Window, Consumed
<1> QED BY <1>1, <1>2 DEF Good

\* The token after a node.
LEMMA NextTokenGood ==
  ASSUME events \in Seq(Directions), NEW t, Good(t, events, passed), t.status = "running",
         NEW n \in Nodes, NEW d \in Decisions, NEW m \in Nodes,
         NEW default \in 0..Len(events), \A s \in passed : s <= default
  PROVE  LET u == NextToken(t, n, d, m, default) IN
         Good(u, events, passed) /\ Extends(u.consumed, t.consumed) /\ t.cursor <= u.cursor
<1> DEFINE u == NextToken(t, n, d, m, default)
           len == Len(events)
           Kept(v) == /\ Shape(v, len) /\ Placed(v) /\ v.cursor = t.cursor /\ v.consumed = t.consumed
                      /\ v.wait.status # "none" => t.wait.status # "none"
                      /\ v.wait.status # "none" =>
                           /\ v.wait.accept = t.wait.accept /\ v.wait.resume = t.wait.resume
                           /\ v.wait.evidence = t.wait.evidence
<1>1. /\ len \in Nat /\ Shape(t, len) /\ Placed(t) /\ t.cursor \in 0..len /\ t.consumed \in Seq(1..len)
      /\ t.cursor <= t.cursor
  BY DEF Good, Shape
<1>2. Kind[n] \in Kinds
  BY GraphAssumption
<1>3. ASSUME Kept(u)
      PROVE  Good(u, events, passed) /\ Extends(u.consumed, t.consumed) /\ t.cursor <= u.cursor
  <2>1. Extends(u.consumed, t.consumed)
    BY <1>1, <1>3, ExtendsSame
  <2> HIDE DEF u
  <2>2. Good(u, events, passed)
    BY <1>3, MovedGood
  <2> QED BY <1>1, <1>3, <2>1, <2>2
<1>4. CASE Kind[n] = "instruct"
  <2>1. u = _consume_pending_terminal_inputs_for_wait(_enter_wait_checkpoint(t, n, default))
    BY <1>4 DEF NextToken
  <2> HIDE DEF u
  <2> QED BY <1>4, <2>1, EnterGood DEF u
<1>5. CASE Kind[n] = "plain" \/ (Kind[n] = "evaluate" /\ d # "retry" /\ ~(d = "abort" /\ Kind[m] # "aborted"))
  <2>1. u = [t EXCEPT !.phase = m]
    BY <1>5 DEF NextToken
  <2> HIDE DEF u
  <2>2. /\ DOMAIN u = {"status", "phase", "cursor", "consumed", "wait"}
        /\ u.status = t.status /\ u.phase = m /\ u.consumed = t.consumed /\ u.cursor = t.cursor
        /\ u.wait = t.wait
    BY <1>1, <2>1 DEF Shape
  <2>3. Kept(u)
    BY <1>1, <2>2 DEF Shape, Placed
  <2> QED BY <1>3, <2>3 DEF u
<1>6. CASE Kind[n] = "evaluate" /\ d = "abort" /\ Kind[m] # "aborted"
  <2>1. u = [t EXCEPT !.status = "aborted", !.phase = "aborted"]
    BY <1>6 DEF NextToken
  <2> HIDE DEF u
  <2>2. /\ DOMAIN u = {"status", "phase", "cursor", "consumed", "wait"}
        /\ u.status = "aborted" /\ u.phase = "aborted" /\ u.consumed = t.consumed /\ u.cursor = t.cursor
        /\ u.wait = t.wait
    BY <1>1, <2>1 DEF Shape
  <2>3. Kept(u)
    BY <1>1, <2>2 DEF Shape, Placed
  <2> QED BY <1>3, <2>3 DEF u
<1>7. CASE Kind[n] = "evaluate" /\ d = "retry"
  <2>1. u = BackToWait(t)
    BY <1>7 DEF NextToken
  <2> HIDE DEF u
  <2>2. CASE t.wait.status = "none"
    <3>1. u = t
      BY <2>1, <2>2 DEF BackToWait
    <3>2. Kept(u)
      BY <1>1, <3>1 DEF Good
    <3> QED BY <1>3, <3>2 DEF u
  <2>3. CASE t.wait.status # "none"
    <3>1. u = [t EXCEPT !.wait.status = "waiting", !.status = "waiting", !.phase = "waiting"]
      BY <2>1, <2>3 DEF BackToWait
    <3>2. /\ DOMAIN u = {"status", "phase", "cursor", "consumed", "wait"}
          /\ u.status = "waiting" /\ u.phase = "waiting" /\ u.consumed = t.consumed /\ u.cursor = t.cursor
          /\ u.wait = [t.wait EXCEPT !.status = "waiting"]
      BY <1>1, <3>1 DEF Shape
    <3>3. /\ DOMAIN u.wait = {"status", "accept", "resume", "evidence"}
          /\ u.wait.status = "waiting" /\ u.wait.accept = t.wait.accept /\ u.wait.resume = t.wait.resume
          /\ u.wait.evidence = t.wait.evidence
      BY <1>1, <3>2 DEF Shape
    <3>4. Kept(u)
      BY <1>1, <2>3, <3>2, <3>3 DEF Shape, Placed
    <3> QED BY <1>3, <3>4 DEF u
  <2> QED BY <2>2, <2>3
<1>8. CASE Kind[n] \in {"success", "aborted"}
  <2>1. u = [t EXCEPT !.status = Kind[n]]
    BY <1>8 DEF NextToken
  <2> HIDE DEF u
  <2>2. /\ DOMAIN u = {"status", "phase", "cursor", "consumed", "wait"}
        /\ u.status = Kind[n] /\ u.phase = t.phase /\ u.consumed = t.consumed /\ u.cursor = t.cursor
        /\ u.wait = t.wait
    BY <1>1, <2>1 DEF Shape
  <2>3. Kept(u)
    BY <1>1, <1>8, <2>2 DEF Shape, Placed
  <2> QED BY <1>3, <2>3 DEF u
<1> HIDE DEF u
<1>9. Kind[n] \in {"plain", "instruct", "evaluate", "success", "aborted"}
  BY <1>2 DEF Kinds
<1> HIDE DEF Kept
<1> QED BY <1>4, <1>5, <1>6, <1>7, <1>8, <1>9

\* More terminal events take nothing from a token.
LEMMA GrowsGood ==
  ASSUME NEW ev \in Seq(Directions), NEW ps, NEW t, Good(t, ev, ps), NEW x \in Directions
  PROVE  Good(t, Append(ev, x), ps)
<1> DEFINE e == Append(ev, x)
<1>1. /\ e \in Seq(Directions) /\ Len(ev) \in Nat /\ Len(e) = Len(ev) + 1
      /\ \A i \in 1..Len(ev) : e[i] = ev[i]
  OBVIOUS
<1> HIDE DEF e
<1>2. Shape(t, Len(ev)) /\ t.consumed \in Seq(1..Len(ev)) /\ t.cursor \in 0..Len(ev)
  BY DEF Good, Shape
<1>3. 1..Len(ev) \subseteq 1..Len(e) /\ 0..Len(ev) \subseteq 0..Len(e)
  BY <1>1
<1>4. t.consumed \in Seq(1..Len(e))
  <2>1. 1..Len(ev) \subseteq 1..Len(e)
    BY <1>3
  <2>2. \A S, T : S \subseteq T => Seq(S) \subseteq Seq(T)
    OBVIOUS
  <2> QED BY <1>2, <2>1, <2>2
<1>5. Shape(t, Len(e))
  BY <1>2, <1>3, <1>4 DEF Shape
<1>6. Ledger(t, e)
  BY <1>1, <1>3 DEF Good, Ledger, Given
<1>7. \A c \in 0..Len(ev) : {s \in Given(e) : s <= c} = {s \in Given(ev) : s <= c}
  BY <1>1 DEF Given
<1>8. Window(t, e, ps)
  <2>1. \A s : s \in Given(e) /\ s <= t.cursor <=> s \in Given(ev) /\ s <= t.cursor
    BY <1>2, <1>7
  <2> QED BY <2>1 DEF Good, Window
<1> QED BY <1>5, <1>6, <1>8 DEF Good, e

\* The token of a recovered turn, over the events that end with its message.
LEMMA RecoverGood ==
  ASSUME events \in Seq(Directions), NEW t, Good(t, events, passed), t.wait.status = "received"
  PROVE  LET e == Append(events, "output")
             u == _recover_terminal_turn_token(t, Len(e)) IN
         /\ Good(u, e, passed) /\ u.status = "waiting" /\ u.wait.status = "waiting"
         /\ u.consumed = t.consumed /\ t.cursor <= u.cursor
<1> DEFINE e == Append(events, "output")
           n == Len(e)
           u == _recover_terminal_turn_token(t, n)
<1>1. /\ e \in Seq(Directions) /\ Len(events) \in Nat /\ n \in Nat /\ n = Len(events) + 1 /\ e[n] = "output"
      /\ "output" \in Directions
  BY DEF Directions
<1>2. Good(t, e, passed)
  <2> HIDE DEF e
  <2> QED BY <1>1, GrowsGood DEF e
<1> HIDE DEF e, n
<1>3. Shape(t, n) /\ t.cursor \in 0..Len(events)
  BY <1>2 DEF Good, Shape, n
<1>4. /\ DOMAIN u = {"status", "phase", "cursor", "consumed", "wait"}
      /\ u.status = "waiting" /\ u.phase = "waiting" /\ u.consumed = t.consumed
      /\ u.cursor = IF n = t.cursor + 1 THEN n ELSE t.cursor
      /\ u.wait = [t.wait EXCEPT !.status = "waiting"]
  BY <1>3 DEF Shape, _recover_terminal_turn_token
<1>5. /\ DOMAIN u.wait = {"status", "accept", "resume", "evidence"}
      /\ u.wait.status = "waiting" /\ u.wait.accept = t.wait.accept /\ u.wait.resume = t.wait.resume
      /\ u.wait.evidence = t.wait.evidence
  BY <1>3, <1>4 DEF Shape
<1> HIDE DEF u
<1>6. u.cursor \in 0..n /\ t.cursor <= u.cursor /\ t.cursor \in Nat
  BY <1>1, <1>3, <1>4
<1>7. Shape(u, n)
  BY <1>3, <1>4, <1>5, <1>6 DEF Shape
<1>8. Ledger(u, e)
  <2>1. \A i \in 1..Len(t.consumed) : t.consumed[i] \in Nat /\ t.consumed[i] <= t.cursor
    BY <1>1, <1>2, ConsumedFacts
  <2>2. \A i \in 1..Len(t.consumed) : t.consumed[i] <= u.cursor
    BY <1>6, <2>1
  <2> QED BY <1>2, <1>4, <2>2 DEF Good, Ledger
<1>9. Window(u, e, passed)
  <2>1. \A s \in Given(e) : s <= u.cursor <=> s <= t.cursor
    BY <1>1, <1>3, <1>4 DEF Given, n
  <2>2. Consumed(u) = Consumed(t)
    BY <1>4 DEF Consumed
  <2> QED BY <1>2, <1>5, <2>1, <2>2 DEF Good, Window
<1>10. Placed(u)
  BY <1>4, <1>5 DEF Placed
<1> QED BY <1>4, <1>5, <1>6, <1>7, <1>8, <1>9, <1>10 DEF Good, n, e, u

(***************************************************************************)
(* The inductive invariant.                                                *)
(***************************************************************************)

\* TypeOK but for the tokens.
RowTypes ==
  /\ runStatus \in RunStatus /\ sessionOpen \in BOOLEAN /\ events \in Seq(Directions)
  /\ snapshotSeq \in Nat
  /\ jobStatus \in JobStatus /\ jobOwner \in Attempts \cup {None}
  /\ attemptNo \in 0..MaxAttempts /\ rerun \in BOOLEAN
  /\ forks \in 0..MaxForks

AttemptTypes ==
  /\ pc \in [Attempts -> {"idle", "claimed", "loop", "raised"}]
  /\ DOMAIN mem = Attempts /\ seen \in [Attempts -> Nat]
  /\ after \in [Attempts -> 0..Len(events)] /\ steps \in [Attempts -> 0..MaxSteps]

\* A fork passes over inputs that the cursor has then passed.
PassedFits == passed \subseteq Given(events) /\ \A s \in passed : s <= token.cursor

TokensGood ==
  Good(token, events, passed) /\ \A a \in Attempts : Good(mem[a], events, passed)

\* An attempt at work that may still write builds on the last snapshot.
LoopFits(a) ==
  pc[a] = "loop" =>
    /\ seen[a] <= snapshotSeq
    /\ \A s \in passed : s <= after[a]
    /\ seen[a] = snapshotSeq =>
         Extends(mem[a].consumed, token.consumed) /\ token.cursor <= mem[a].cursor

\* A run that nothing advances waits for input that has not come.
Rested ==
  (runStatus \notin Ended /\ ~JobActive) =>
    /\ runStatus = "waiting_input" /\ _token_is_waiting_for_terminal_input(token)
    /\ Undelivered = {}

KInv ==
  /\ RowTypes /\ AttemptTypes /\ PassedFits /\ TokensGood /\ EndedTogether /\ Rested
  /\ \A a \in Attempts : LoopFits(a)

(***************************************************************************)
(* Steps that leave the attempts as they are, or end one of them.          *)
(***************************************************************************)

\* No attempt gets a token or a snapshot; a may end.
Quiet(a) ==
  \/ UNCHANGED attempt
  \/ Forget(a)
  \/ \E p \in {"claimed", "raised"} : pc' = [pc EXCEPT ![a] = p] /\ UNCHANGED <<mem, seen, after, steps>>

\* The terminal events stay, or one is added.
Appended == events' = events \/ \E x \in Directions : events' = Append(events, x)

LEMMA AppendedFacts ==
  ASSUME events \in Seq(Directions), Appended
  PROVE  /\ events' \in Seq(Directions) /\ Len(events) \in Nat /\ Len(events') \in Nat
         /\ 0..Len(events) \subseteq 0..Len(events') /\ Given(events) \subseteq Given(events')
         /\ \A t, ps : Good(t, events, ps) => Good(t, events', ps)
<1>1. CASE events' = events
  BY <1>1
<1>2. CASE \E x \in Directions : events' = Append(events, x)
  <2>1. PICK x \in Directions : events' = Append(events, x)
    BY <1>2
  <2>2. /\ events' \in Seq(Directions) /\ Len(events) \in Nat /\ Len(events') = Len(events) + 1
        /\ \A i \in 1..Len(events) : events'[i] = events[i]
    BY <2>1
  <2>3. Given(events) \subseteq Given(events')
    BY <2>2 DEF Given
  <2>4. \A t, ps : Good(t, events, ps) => Good(t, events', ps)
    BY <2>1, GrowsGood
  <2> QED BY <2>2, <2>3, <2>4
<1> QED BY <1>1, <1>2 DEF Appended

LEMMA QuietFacts ==
  ASSUME AttemptTypes, events \in Seq(Directions), NEW a, Quiet(a), Appended
  PROVE  /\ AttemptTypes'
         /\ \A b \in Attempts :
              /\ mem'[b] \in {mem[b], InitialToken}
              /\ pc'[b] = "loop" =>
                   pc[b] = "loop" /\ mem'[b] = mem[b] /\ seen'[b] = seen[b] /\ after'[b] = after[b]
<1>1. 0..Len(events) \subseteq 0..Len(events') /\ 0 \in 0..Len(events') /\ 0 \in 0..MaxSteps
  BY AppendedFacts, BoundsAssumption
<1>2. CASE UNCHANGED attempt
  BY <1>1, <1>2 DEF attempt, AttemptTypes
<1>3. CASE Forget(a)
  <2>1. AttemptTypes'
    BY <1>1, <1>3 DEF Forget, AttemptTypes
  <2>2. a \in Attempts => pc'[a] = "idle" /\ mem'[a] = InitialToken
    BY <1>3 DEF Forget, AttemptTypes
  <2>3. \A b \in Attempts : b # a =>
          pc'[b] = pc[b] /\ mem'[b] = mem[b] /\ seen'[b] = seen[b] /\ after'[b] = after[b]
    BY <1>3 DEF Forget, AttemptTypes
  <2> QED BY <2>1, <2>2, <2>3
<1>4. CASE \E p \in {"claimed", "raised"} : pc' = [pc EXCEPT ![a] = p] /\ UNCHANGED <<mem, seen, after, steps>>
  BY <1>1, <1>4 DEF AttemptTypes
<1> QED BY <1>2, <1>3, <1>4 DEF Quiet

\* Such a step, with or without another snapshot, keeps the tokens good.
LEMMA QuietStep ==
  ASSUME KInv, NEW a, Quiet(a), Appended, UNCHANGED lineage,
         \/ UNCHANGED <<token, snapshotSeq>>
         \/ snapshotSeq' = snapshotSeq + 1 /\ Good(token', events', passed) /\ token.cursor <= token'.cursor
  PROVE  AttemptTypes' /\ PassedFits' /\ TokensGood' /\ \A b \in Attempts : LoopFits(b)'
<1>1. /\ events' \in Seq(Directions) /\ Given(events) \subseteq Given(events')
      /\ \A t, ps : Good(t, events, ps) => Good(t, events', ps)
  BY AppendedFacts DEF KInv, RowTypes
<1>2. /\ AttemptTypes'
      /\ \A b \in Attempts :
           /\ mem'[b] \in {mem[b], InitialToken}
           /\ pc'[b] = "loop" =>
                pc[b] = "loop" /\ mem'[b] = mem[b] /\ seen'[b] = seen[b] /\ after'[b] = after[b]
  BY QuietFacts DEF KInv, RowTypes
<1>3. passed' = passed
  BY DEF lineage
<1>4. Good(token', events', passed)
  BY <1>1 DEF KInv, TokensGood
<1>5. \A b \in Attempts : Good(mem'[b], events', passed)
  BY <1>1, <1>2, InitialTokenGood DEF KInv, TokensGood
<1>6. token.cursor <= token'.cursor /\ token.cursor \in Nat /\ token'.cursor \in Nat /\ passed \subseteq Nat
  <2>1. token.cursor \in Nat
    BY DEF KInv, TokensGood, Good, Shape
  <2>2. token'.cursor \in Nat
    BY <1>4 DEF Good, Shape
  <2> QED BY <2>1, <2>2 DEF KInv, PassedFits, Given
<1>7. PassedFits'
  <2>1. \A s \in passed : s <= token'.cursor
    BY <1>6 DEF KInv, PassedFits
  <2> QED BY <1>1, <1>3, <2>1 DEF KInv, PassedFits
<1>8. \A b \in Attempts : LoopFits(b)'
  <2> SUFFICES ASSUME NEW b \in Attempts, pc'[b] = "loop"
               PROVE  /\ seen'[b] <= snapshotSeq'
                      /\ \A s \in passed' : s <= after'[b]
                      /\ seen'[b] = snapshotSeq' =>
                           Extends(mem'[b].consumed, token'.consumed) /\ token'.cursor <= mem'[b].cursor
    BY DEF LoopFits
  <2>1. pc[b] = "loop" /\ mem'[b] = mem[b] /\ seen'[b] = seen[b] /\ after'[b] = after[b]
    BY <1>2
  <2>2. /\ seen[b] \in Nat /\ snapshotSeq \in Nat /\ seen[b] <= snapshotSeq
        /\ \A s \in passed : s <= after[b]
        /\ seen[b] = snapshotSeq =>
             Extends(mem[b].consumed, token.consumed) /\ token.cursor <= mem[b].cursor
    BY <2>1 DEF KInv, LoopFits, RowTypes, AttemptTypes
  <2>3. CASE UNCHANGED <<token, snapshotSeq>>
    BY <1>3, <2>1, <2>2, <2>3
  <2>4. CASE snapshotSeq' = snapshotSeq + 1
    BY <1>3, <2>1, <2>2, <2>4
  <2> QED BY <2>3, <2>4
<1> QED BY <1>2, <1>3, <1>4, <1>5, <1>7, <1>8 DEF TokensGood

(***************************************************************************)
(* Rest: what a run without an active job is owed.                         *)
(***************************************************************************)

Owed(t, ev, ps) == {s \in Given(ev) \ ps : t.wait.accept < s /\ s \notin Consumed(t)}

LEMMA UndeliveredIsOwed == Undelivered = Owed(token, events, passed)
<1>1. \A s : s \in Undelivered <=> s \in Owed(token, events, passed)
  BY DEF Undelivered, Owed, Given, Seqs, _can_consume_terminal_input_for_wait
<1> QED BY <1>1

\* A checkpoint whose cursor has passed every input is owed nothing.
LEMMA NothingOwed ==
  ASSUME NEW ev, NEW ps, NEW t, Good(t, ev, ps), t.wait.status # "none",
         \A s \in Given(ev) \ ps : t.wait.accept < s => s <= t.cursor \/ s \in Consumed(t)
  PROVE  Owed(t, ev, ps) = {}
<1>1. t.wait.evidence = {s \in Given(ev) \ ps : t.wait.accept < s /\ s <= t.cursor} /\ t.wait.evidence \subseteq Consumed(t)
  BY DEF Good, Window
<1> QED BY <1>1 DEF Owed

\* How a turn gives up its job.
LEMMA FinishTurnFacts ==
  ASSUME NEW s, NEW r, NEW t, NEW e \in Seq(Directions), t.cursor \in Nat, attemptNo \in 0..MaxAttempts,
         _finish_runtime_job_turn(s, r, t, e)
  PROVE  /\ rerun' = FALSE /\ jobOwner' = None /\ attemptNo' \in 0..MaxAttempts
         /\ \/ jobStatus' = "pending" /\ r \notin Ended
            \/ jobStatus' = s /\ (r \in Ended \/ \A i \in Given(e) : i <= t.cursor)
<1>0. attemptNo' \in 0..MaxAttempts
  BY BoundsAssumption DEF _finish_runtime_job_turn, ReleaseJob
<1>1. CASE r \notin Ended /\ (rerun \/ \E i \in t.cursor + 1..Len(e) : e[i] = "input")
  BY <1>0, <1>1 DEF _finish_runtime_job_turn, ReleaseJob
<1>2. CASE ~(r \notin Ended /\ (rerun \/ \E i \in t.cursor + 1..Len(e) : e[i] = "input"))
  <2>1. r \in Ended \/ \A i \in Given(e) : i <= t.cursor
    BY <1>2 DEF Given
  <2> QED BY <1>0, <1>2, <2>1 DEF _finish_runtime_job_turn, ReleaseJob
<1> QED BY <1>1, <1>2

(***************************************************************************)
(* The actions.                                                            *)
(***************************************************************************)

\* Steps of an attempt that write nothing.
LEMMA RowsStay ==
  ASSUME KInv, NEW a, Quiet(a), UNCHANGED <<run, job, lineage>>
  PROVE  KInv'
<1>1. Appended /\ UNCHANGED lineage /\ UNCHANGED <<token, snapshotSeq>>
  BY DEF Appended, run, lineage
<1>2. AttemptTypes' /\ PassedFits' /\ TokensGood' /\ \A b \in Attempts : LoopFits(b)'
  BY <1>1, QuietStep
<1>3. RowTypes' /\ EndedTogether'
  BY DEF KInv, RowTypes, EndedTogether, JobActive, run, job, lineage
<1>4. Rested'
  BY DEF KInv, Rested, JobActive, Undelivered, Seqs, _can_consume_terminal_input_for_wait, Consumed,
         _token_is_waiting_for_terminal_input, run, job, lineage
<1> QED BY <1>2, <1>3, <1>4 DEF KInv

LEMMA AppendStep ==
  ASSUME KInv, NEW d \in Directions, append_terminal_event(d), UNCHANGED lineage
  PROVE  KInv'
<1>1. /\ Appended /\ UNCHANGED <<token, snapshotSeq>> /\ UNCHANGED attempt /\ events' = Append(events, d)
      /\ UNCHANGED <<runStatus, sessionOpen>> /\ runStatus \notin Ended /\ sessionOpen
      /\ IF d = "input" THEN _ensure_runtime_job_pending ELSE UNCHANGED job
  BY DEF append_terminal_event, Appended
<1>2. AttemptTypes' /\ PassedFits' /\ TokensGood' /\ \A b \in Attempts : LoopFits(b)'
  BY <1>1, QuietStep DEF Quiet
<1>3. /\ events' \in Seq(Directions) /\ events \in Seq(Directions) /\ Len(events) \in Nat
      /\ Len(events') = Len(events) + 1 /\ events'[Len(events) + 1] = d
      /\ \A i \in 1..Len(events) : events'[i] = events[i]
  BY <1>1 DEF KInv, RowTypes
<1>4. CASE d = "input"
  <2>0. jobOwner \in Attempts \cup {None} /\ attemptNo \in 0..MaxAttempts /\ 0 \in 0..MaxAttempts
    BY BoundsAssumption DEF KInv, RowTypes
  <2>1. /\ jobStatus' \in {"running", "pending"} /\ jobOwner' \in Attempts \cup {None}
        /\ attemptNo' \in 0..MaxAttempts /\ rerun' \in BOOLEAN
    <3>1. CASE jobStatus = "running"
      BY <1>1, <1>4, <2>0, <3>1 DEF _ensure_runtime_job_pending
    <3>2. CASE jobStatus # "running"
      BY <1>1, <1>4, <2>0, <3>2 DEF _ensure_runtime_job_pending, ReleaseJob
    <3> QED BY <3>1, <3>2
  <2>2. RowTypes'
    BY <1>1, <1>3, <2>1 DEF KInv, RowTypes, lineage, JobStatus, Claimable
  <2>3. EndedTogether' /\ Rested'
    BY <1>1, <2>1 DEF KInv, EndedTogether, Rested, JobActive, Claimable
  <2> QED BY <1>2, <2>2, <2>3 DEF KInv
<1>5. CASE d # "input"
  <2>1. RowTypes' /\ EndedTogether'
    BY <1>1, <1>3, <1>5 DEF KInv, RowTypes, EndedTogether, JobActive, job, lineage
  <2>2. Given(events') = Given(events)
    BY <1>3, <1>5 DEF Given
  <2>3. Undelivered' = Undelivered
    <3>1. Undelivered = Owed(token, events, passed) /\ (Undelivered = Owed(token, events, passed))'
      BY <1>3, UndeliveredIsOwed, PTL
    <3> QED BY <1>1, <2>2, <3>1 DEF Owed, Consumed, lineage
  <2>4. Rested'
    BY <1>1, <1>5, <2>3 DEF KInv, Rested, JobActive, _token_is_waiting_for_terminal_input, job
  <2> QED BY <1>2, <2>1, <2>4 DEF KInv
<1> QED BY <1>4, <1>5

LEMMA CancelStep ==
  ASSUME KInv, cancel_run, UNCHANGED lineage
  PROVE  KInv'
<1>1. /\ Appended /\ UNCHANGED attempt /\ events' = events /\ rerun' = rerun
      /\ runStatus' = "cancelled" /\ sessionOpen' = FALSE
      /\ token' = [token EXCEPT !.status = "cancelled", !.phase = "cancelled", !.wait = NoWait]
      /\ snapshotSeq' = snapshotSeq + 1
  BY DEF cancel_run, EndRun, _append_cancel_snapshot, Appended
<1>2. Good(token, events, passed) /\ events \in Seq(Directions)
  BY DEF KInv, TokensGood, RowTypes
<1>3. /\ DOMAIN token' = {"status", "phase", "cursor", "consumed", "wait"}
      /\ token'.status = "cancelled" /\ token'.phase = "cancelled" /\ token'.wait = NoWait
      /\ token'.cursor = token.cursor /\ token'.consumed = token.consumed
  BY <1>1, <1>2 DEF Good, Shape
<1>4. Shape(token', Len(events)) /\ Placed(token') /\ token'.wait.status = "none"
  BY <1>2, <1>3 DEF Good, Shape, Placed, NoWait
<1>5. Good(token', events', passed) /\ token.cursor <= token'.cursor
  <2>1. token.cursor <= token'.cursor
    BY <1>2, <1>3 DEF Good, Shape
  <2> QED BY <1>1, <1>2, <1>3, <1>4, <2>1, MovedGood
<1>6. AttemptTypes' /\ PassedFits' /\ TokensGood' /\ \A b \in Attempts : LoopFits(b)'
  BY <1>1, <1>5, QuietStep DEF Quiet
<1>7. /\ jobStatus' \in {"absent", "succeeded", "failed", "cancelled"} /\ jobOwner' \in Attempts \cup {None}
      /\ attemptNo' = attemptNo
  BY DEF cancel_run, ReleaseJob, KInv, RowTypes
<1>8. RowTypes'
  <2>1. runStatus' \in RunStatus /\ jobStatus' \in JobStatus /\ forks' = forks
    BY <1>1, <1>7 DEF lineage, RunStatus, Ended, JobStatus
  <2>2. snapshotSeq' \in Nat /\ attemptNo' \in 0..MaxAttempts /\ rerun' \in BOOLEAN /\ events' \in Seq(Directions)
    BY <1>1, <1>7 DEF KInv, RowTypes
  <2>3. sessionOpen' \in BOOLEAN /\ forks' \in 0..MaxForks
    BY <1>1, <2>1 DEF KInv, RowTypes
  <2> QED BY <1>7, <2>1, <2>2, <2>3 DEF RowTypes
<1>9. EndedTogether' /\ Rested'
  BY <1>1, <1>7 DEF EndedTogether, Rested, JobActive, Claimable, Ended
<1> QED BY <1>6, <1>8, <1>9 DEF KInv

\* An attempt without a result.
LEMMA GiveUpStep ==
  ASSUME KInv, jobStatus = "running", GiveUpAttempt, NEW a, Quiet(a), UNCHANGED lineage
  PROVE  KInv'
<1>1. runStatus \notin Ended /\ sessionOpen /\ runStatus \in RunStatus
  BY DEF KInv, EndedTogether, JobActive, RowTypes
<1>2. /\ Appended /\ UNCHANGED <<token, snapshotSeq>> /\ rerun' = rerun /\ jobOwner' = None /\ attemptNo' = attemptNo
      /\ \/ jobStatus' = "retryable_failed" /\ runStatus' = runStatus /\ sessionOpen' = sessionOpen
         \/ jobStatus' = "failed" /\ runStatus' = "failed" /\ sessionOpen' = FALSE
  BY <1>1 DEF GiveUpAttempt, ReleaseJob, finalize_exhausted_job, EndRun, _append_runtime_failure_terminal_event,
              Appended, Directions
<1>3. AttemptTypes' /\ PassedFits' /\ TokensGood' /\ \A b \in Attempts : LoopFits(b)'
  BY <1>2, QuietStep
<1>4. events' \in Seq(Directions)
  BY <1>2, AppendedFacts DEF KInv, RowTypes
<1>5. RowTypes'
  BY <1>1, <1>2, <1>4 DEF KInv, RowTypes, lineage, RunStatus, Ended, JobStatus, Claimable
<1>6. EndedTogether' /\ Rested'
  BY <1>1, <1>2 DEF EndedTogether, Rested, JobActive, Claimable, Ended
<1> QED BY <1>3, <1>5, <1>6 DEF KInv

LEMMA ClaimStep ==
  ASSUME KInv, NEW a \in Attempts, claim_next_job(a), UNCHANGED lineage
  PROVE  KInv'
<1>1. /\ Quiet(a) /\ Appended /\ UNCHANGED run /\ rerun' = rerun /\ jobStatus \in Claimable
      /\ jobStatus' = "running" /\ jobOwner' = a /\ attemptNo' = attemptNo + 1 /\ attemptNo < MaxAttempts
  BY DEF claim_next_job, Quiet, Appended, run
<1>2. runStatus \notin Ended
  BY <1>1 DEF KInv, EndedTogether, JobActive
<1>3. AttemptTypes' /\ PassedFits' /\ TokensGood' /\ \A b \in Attempts : LoopFits(b)'
  BY <1>1, QuietStep DEF run
<1>4. RowTypes'
  BY <1>1, BoundsAssumption DEF KInv, RowTypes, run, lineage, JobStatus
<1>5. EndedTogether' /\ Rested'
  BY <1>1, <1>2 DEF KInv, EndedTogether, Rested, JobActive, run
<1> QED BY <1>3, <1>4, <1>5 DEF KInv

\* A turn that ends the run.
LEMMA EndStep ==
  ASSUME KInv, NEW a \in Attempts, Owns(a), Forget(a), Appended, UNCHANGED <<token, snapshotSeq>>, UNCHANGED lineage,
         NEW s \in {"succeeded", "failed"}, NEW r \in {"succeeded", "aborted", "failed"},
         s = "failed" <=> r = "failed", EndRun(r), NEW t, _finish_runtime_job_turn(s, s, t, events)
  PROVE  KInv'
<1>1. /\ runStatus' = r /\ sessionOpen' = FALSE /\ jobStatus' = s /\ jobOwner' = None
      /\ attemptNo' = attemptNo /\ rerun' = FALSE
  BY DEF EndRun, _finish_runtime_job_turn, ReleaseJob, Ended
<1>2. AttemptTypes' /\ PassedFits' /\ TokensGood' /\ \A b \in Attempts : LoopFits(b)'
  BY QuietStep DEF Quiet
<1>3. events' \in Seq(Directions)
  BY AppendedFacts DEF KInv, RowTypes
<1>4. RowTypes'
  <2>1. runStatus' \in RunStatus /\ jobStatus' \in JobStatus
    BY <1>1 DEF RunStatus, Ended, JobStatus
  <2>2. sessionOpen' \in BOOLEAN /\ rerun' \in BOOLEAN /\ forks' \in 0..MaxForks
    BY <1>1 DEF KInv, RowTypes, lineage
  <2> QED BY <1>1, <1>3, <2>1, <2>2 DEF KInv, RowTypes
<1>5. EndedTogether' /\ Rested'
  BY <1>1 DEF EndedTogether, Rested, JobActive, Claimable, Ended
<1> QED BY <1>2, <1>4, <1>5 DEF KInv

LEMMA FinishRunStep ==
  ASSUME KInv, NEW a \in Attempts, FinishRun(a), UNCHANGED lineage
  PROVE  KInv'
<1> DEFINE r == IF mem[a].status = "success" THEN "succeeded" ELSE "aborted"
<1>1. /\ Owns(a) /\ Forget(a) /\ Appended /\ UNCHANGED <<token, snapshotSeq>>
      /\ r \in {"succeeded", "aborted", "failed"} /\ r # "failed"
      /\ EndRun(r) /\ _finish_runtime_job_turn("succeeded", "succeeded", mem[a], events)
  BY DEF FinishRun, Appended
<1> HIDE DEF r
<1> QED BY <1>1, EndStep

LEMMA FailRunStep ==
  ASSUME KInv, NEW a \in Attempts, FailRun(a), UNCHANGED lineage
  PROVE  KInv'
<1>1. /\ Owns(a) /\ Forget(a) /\ Appended /\ UNCHANGED <<token, snapshotSeq>>
      /\ EndRun("failed") /\ _finish_runtime_job_turn("failed", "failed", mem[a], events)
  BY DEF FailRun, Appended, _append_runtime_failure_terminal_event, Directions
<1> QED BY <1>1, EndStep

\* A turn that ends at a checkpoint.
LEMMA WaitStep ==
  ASSUME KInv, NEW a \in Attempts, Owns(a), Forget(a), Appended, UNCHANGED <<lineage, sessionOpen>>,
         runStatus' = "waiting_input",
         NEW t, _finish_runtime_job_turn("succeeded", "waiting_input", t, events'), t.cursor \in Nat,
         \/ UNCHANGED <<token, snapshotSeq>>
         \/ snapshotSeq' = snapshotSeq + 1 /\ Good(token', events', passed) /\ token.cursor <= token'.cursor,
         token'.status = "waiting",
         \A s \in Given(events') \ passed :
            s <= t.cursor /\ token'.wait.accept < s => s <= token'.cursor \/ s \in Consumed(token')
  PROVE  KInv'
<1>1. AttemptTypes' /\ PassedFits' /\ TokensGood' /\ \A b \in Attempts : LoopFits(b)'
  BY QuietStep DEF Quiet
<1>2. events' \in Seq(Directions)
  BY AppendedFacts DEF KInv, RowTypes
<1>3. /\ rerun' = FALSE /\ jobOwner' = None /\ attemptNo' \in 0..MaxAttempts
      /\ \/ jobStatus' = "pending"
         \/ jobStatus' = "succeeded" /\ \A i \in Given(events') : i <= t.cursor
  <2>1. attemptNo \in 0..MaxAttempts /\ "waiting_input" \notin Ended
    BY DEF KInv, RowTypes, Ended
  <2> QED BY <1>2, <2>1, FinishTurnFacts
<1>4. RowTypes'
  <2>1. runStatus' \in RunStatus /\ jobStatus' \in JobStatus
    BY <1>3 DEF RunStatus, JobStatus, Claimable
  <2>2. sessionOpen' \in BOOLEAN /\ rerun' \in BOOLEAN /\ forks' \in 0..MaxForks
    BY <1>3 DEF KInv, RowTypes, lineage
  <2>3. snapshotSeq' \in Nat
    BY DEF KInv, RowTypes
  <2> QED BY <1>2, <1>3, <2>1, <2>2, <2>3 DEF RowTypes
<1>5. EndedTogether'
  <2>1. runStatus \notin Ended /\ sessionOpen
    BY DEF KInv, EndedTogether, JobActive, Owns
  <2> QED BY <1>3, <2>1 DEF EndedTogether, Ended
<1>6. Rested'
  <2>1. SUFFICES ASSUME ~JobActive'
                 PROVE  _token_is_waiting_for_terminal_input(token') /\ Undelivered' = {}
    BY DEF Rested, _token_is_waiting_for_terminal_input
  <2>2. \A i \in Given(events') : i <= t.cursor
    BY <1>3, <2>1 DEF JobActive, Claimable
  <2>3. Good(token', events', passed')
    BY <1>1 DEF TokensGood
  <2>4. token'.wait.status # "none"
    BY <2>3 DEF Good, Placed
  <2>5. Owed(token', events', passed') = {}
    <3>1. passed' = passed
      BY DEF lineage
    <3>2. \A s \in Given(events') \ passed' :
            token'.wait.accept < s => s <= token'.cursor \/ s \in Consumed(token')
      BY <2>2, <3>1
    <3> QED BY <2>3, <2>4, <3>2, NothingOwed
  <2>6. Undelivered' = Owed(token', events', passed')
    <3>1. (Undelivered = Owed(token, events, passed))'
      BY UndeliveredIsOwed, PTL
    <3> QED BY <3>1
  <2> QED BY <2>4, <2>5, <2>6 DEF _token_is_waiting_for_terminal_input
<1> QED BY <1>1, <1>4, <1>5, <1>6 DEF KInv

\* What an attempt makes of a node, when it may still write.
LEMMA NodeFacts ==
  ASSUME KInv, NEW a \in Attempts, InLoop(a), Writable(a), NEW d \in Decisions, NEW m \in Nodes
  PROVE  LET t == NextToken(mem[a], mem[a].phase, d, m, after[a]) IN
         Good(t, events, passed) /\ Extends(t.consumed, token.consumed) /\ token.cursor <= t.cursor
<1> DEFINE t == NextToken(mem[a], mem[a].phase, d, m, after[a])
<1>1. /\ events \in Seq(Directions) /\ Good(mem[a], events, passed) /\ Good(token, events, passed)
      /\ mem[a].status = "running" /\ mem[a].phase \in Nodes /\ after[a] \in 0..Len(events)
  BY DEF KInv, RowTypes, AttemptTypes, TokensGood, InLoop, Good, Placed
<1>2. /\ \A s \in passed : s <= after[a]
      /\ Extends(mem[a].consumed, token.consumed) /\ token.cursor <= mem[a].cursor
  BY DEF KInv, LoopFits, InLoop, Writable
<1>3. Good(t, events, passed) /\ Extends(t.consumed, mem[a].consumed) /\ mem[a].cursor <= t.cursor
  BY <1>1, <1>2, NextTokenGood
<1> HIDE DEF t
<1>4. /\ token.consumed \in Seq(1..Len(events)) /\ mem[a].consumed \in Seq(1..Len(events))
      /\ t.consumed \in Seq(1..Len(events))
      /\ token.cursor \in Nat /\ mem[a].cursor \in Nat /\ t.cursor \in Nat
  BY <1>1, <1>3 DEF Good, Shape
<1>5. Extends(t.consumed, token.consumed)
  BY <1>2, <1>3, <1>4, ExtendsTransitive
<1>6. token.cursor <= t.cursor
  BY <1>2, <1>3, <1>4
<1> QED BY <1>3, <1>5, <1>6 DEF t

LEMMA RunNodeStep ==
  ASSUME KInv, NEW a \in Attempts, NEW d \in Decisions, NEW m \in Nodes, NEW out \in BOOLEAN,
         RunNode(a, d, m, out), UNCHANGED lineage
  PROVE  KInv'
<1> DEFINE t == NextToken(mem[a], mem[a].phase, d, m, after[a])
<1>1. /\ InLoop(a) /\ Writable(a) /\ token' = t /\ snapshotSeq' = snapshotSeq + 1 /\ UNCHANGED sessionOpen
      /\ events' = IF out THEN Append(events, "output") ELSE events
  BY DEF RunNode
<1>2. Good(t, events, passed) /\ Extends(t.consumed, token.consumed) /\ token.cursor <= t.cursor
  BY <1>1, NodeFacts
<1>3. CASE t.status = "waiting"
  <2>1. Forget(a) /\ runStatus' = "waiting_input" /\ _finish_runtime_job_turn("succeeded", "waiting_input", t, events')
    BY <1>1, <1>3 DEF RunNode
  <2> HIDE DEF t
  <2>2. Appended
    BY <1>1 DEF Appended, Directions
  <2>3. Good(token', events', passed) /\ t.cursor \in Nat
    <3>1. \A u, ps : Good(u, events, ps) => Good(u, events', ps)
      BY <2>2, AppendedFacts DEF KInv, RowTypes
    <3>2. t.cursor \in Nat
      BY <1>2 DEF Good, Shape
    <3> QED BY <1>1, <1>2, <3>1, <3>2
  <2> QED BY <1>1, <1>2, <1>3, <2>1, <2>2, <2>3, WaitStep DEF Writable, lineage
<1>4. CASE t.status # "waiting"
  <2>1. /\ mem' = [mem EXCEPT ![a] = t] /\ seen' = [seen EXCEPT ![a] = snapshotSeq + 1]
        /\ steps' = [steps EXCEPT ![a] = @ + 1] /\ UNCHANGED <<runStatus, job, pc, after>>
    BY <1>1, <1>4 DEF RunNode
  <2> HIDE DEF t
  <2>2. Appended
    BY <1>1 DEF Appended, Directions
  <2>3. /\ events' \in Seq(Directions) /\ 0..Len(events) \subseteq 0..Len(events')
        /\ Given(events) \subseteq Given(events')
        /\ \A u, ps : Good(u, events, ps) => Good(u, events', ps)
    BY <2>2, AppendedFacts DEF KInv, RowTypes
  <2>4. passed' = passed /\ forks' = forks
    BY DEF lineage
  <2>5. RowTypes'
    BY <1>1, <2>1, <2>3, <2>4 DEF KInv, RowTypes, job
  <2>6. AttemptTypes'
    <3>1. steps[a] \in 0..MaxSteps /\ steps[a] < MaxSteps
      BY <1>1 DEF KInv, AttemptTypes, InLoop
    <3>2. steps' \in [Attempts -> 0..MaxSteps]
      BY <2>1, <3>1, BoundsAssumption DEF KInv, AttemptTypes
    <3>3. seen' \in [Attempts -> Nat]
      BY <2>1 DEF KInv, AttemptTypes, RowTypes
    <3> QED BY <2>1, <2>3, <3>2, <3>3 DEF KInv, AttemptTypes
  <2>7. \A b \in Attempts : mem'[b] = IF b = a THEN t ELSE mem[b]
    BY <2>1 DEF KInv, AttemptTypes
  <2>8. TokensGood'
    BY <1>1, <1>2, <2>3, <2>4, <2>7 DEF KInv, TokensGood
  <2>9. PassedFits'
    <3>1. token.cursor \in Nat /\ t.cursor \in Nat /\ passed \subseteq Nat
      BY <1>2 DEF KInv, TokensGood, Good, Shape, PassedFits, Given
    <3>2. \A s \in passed : s <= t.cursor
      BY <1>2, <3>1 DEF KInv, PassedFits
    <3> QED BY <1>1, <2>3, <2>4, <3>2 DEF KInv, PassedFits
  <2>10. \A b \in Attempts : LoopFits(b)'
    <3>0. snapshotSeq \in Nat /\ seen \in [Attempts -> Nat]
      BY DEF KInv, RowTypes, AttemptTypes
    <3>1. LoopFits(a)'
      <4>1. seen'[a] = snapshotSeq + 1 /\ after'[a] = after[a] /\ mem'[a] = t /\ pc[a] = "loop"
        BY <1>1, <2>1, <2>7, <3>0 DEF InLoop
      <4>2. t.consumed \in Seq(1..Len(events)) /\ t.cursor \in Nat
        BY <1>2 DEF Good, Shape
      <4>3. Extends(t.consumed, t.consumed)
        BY <4>2, ExtendsSame
      <4>4. \A s \in passed : s <= after[a]
        BY <4>1 DEF KInv, LoopFits
      <4> QED BY <1>1, <2>4, <3>0, <4>1, <4>2, <4>3, <4>4 DEF LoopFits
    <3>2. ASSUME NEW b \in Attempts, b # a PROVE LoopFits(b)'
      <4>1. seen'[b] = seen[b] /\ after'[b] = after[b] /\ pc'[b] = pc[b] /\ seen[b] \in Nat
        BY <2>1, <3>0, <3>2
      <4>2. pc[b] = "loop" => seen[b] <= snapshotSeq /\ \A s \in passed : s <= after[b]
        BY DEF KInv, LoopFits
      <4>3. pc[b] = "loop" => seen[b] # snapshotSeq' /\ seen[b] <= snapshotSeq'
        BY <1>1, <3>0, <4>1, <4>2
      <4> QED BY <2>4, <4>1, <4>2, <4>3 DEF LoopFits
    <3> QED BY <3>1, <3>2
  <2>11. EndedTogether' /\ Rested'
    <3>1. jobStatus = "running" /\ jobStatus' = "running" /\ runStatus' = runStatus
      BY <1>1, <2>1 DEF Writable, Owns, job
    <3> QED BY <1>1, <3>1 DEF KInv, EndedTogether, Rested, JobActive
  <2> QED BY <2>5, <2>6, <2>8, <2>9, <2>10, <2>11 DEF KInv
<1> QED BY <1>3, <1>4

LEMMA BeginTurnStep ==
  ASSUME KInv, NEW a \in Attempts, BeginTurn(a), UNCHANGED lineage
  PROVE  KInv'
<1> DEFINE t == IF _token_is_waiting_for_terminal_input(token) THEN _sync_terminal_events(token) ELSE token
<1>0. /\ events \in Seq(Directions) /\ Good(token, events, passed) /\ token.cursor \in 0..Len(events)
      /\ token.consumed \in Seq(1..Len(events)) /\ \A s \in passed : s <= token.cursor
      /\ Len(events) \in Nat
  BY DEF KInv, RowTypes, TokensGood, PassedFits, Good, Shape
<1>1. /\ Owns(a) /\ jobStatus = "running" /\ runStatus \notin Ended
      /\ UNCHANGED <<sessionOpen, events, token, snapshotSeq>>
  BY DEF BeginTurn, Owns, KInv, EndedTogether, JobActive
<1>2. /\ Good(t, events, passed) /\ Extends(t.consumed, token.consumed) /\ token.cursor <= t.cursor
      /\ t.status = "waiting" =>
           /\ token.status = "waiting"
           /\ \A s \in Given(events) : token.wait.accept < s => s <= token.cursor \/ s \in Consumed(token)
  <2>1. CASE _token_is_waiting_for_terminal_input(token)
    <3>1. /\ Good(t, events, passed) /\ Extends(t.consumed, token.consumed) /\ t.cursor = Len(events)
          /\ t.status = "waiting" =>
               \A s \in Given(events) : token.cursor < s /\ token.wait.accept < s => s \in Consumed(token)
      BY <1>0, <2>1, SyncGood
    <3>2. \A s \in Given(events) : s <= token.cursor \/ token.cursor < s
      BY <1>0 DEF Given
    <3>3. token.cursor <= t.cursor
      BY <1>0, <3>1
    <3> HIDE DEF t
    <3> QED BY <2>1, <3>1, <3>2, <3>3 DEF _token_is_waiting_for_terminal_input
  <2>2. CASE ~_token_is_waiting_for_terminal_input(token)
    <3>1. t = token /\ t.status # "waiting"
      BY <1>0, <2>2 DEF Good, Placed, _token_is_waiting_for_terminal_input
    <3>2. Extends(token.consumed, token.consumed)
      BY <1>0, ExtendsSame
    <3>3. token.cursor <= token.cursor
      BY <1>0
    <3> HIDE DEF t
    <3> QED BY <1>0, <3>1, <3>2, <3>3
  <2> QED BY <2>1, <2>2
<1>3. Appended
  BY <1>1 DEF Appended
<1>4. CASE t.status = "waiting"
  <2>1. /\ Forget(a) /\ runStatus' = "waiting_input"
        /\ _finish_runtime_job_turn("succeeded", "waiting_input", t, events')
    BY <1>1, <1>4 DEF BeginTurn
  <2> HIDE DEF t
  <2>2. t.cursor \in Nat
    BY <1>2 DEF Good, Shape
  <2>3. \A s \in Given(events') \ passed :
          s <= t.cursor /\ token'.wait.accept < s => s <= token'.cursor \/ s \in Consumed(token')
    BY <1>1, <1>2, <1>4 DEF Consumed
  <2> QED BY <1>1, <1>2, <1>3, <1>4, <2>1, <2>2, <2>3, WaitStep DEF lineage
<1>5. CASE t.status # "waiting"
  <2>1. /\ runStatus' = "running" /\ pc' = [pc EXCEPT ![a] = "loop"] /\ mem' = [mem EXCEPT ![a] = t]
        /\ seen' = [seen EXCEPT ![a] = snapshotSeq] /\ after' = [after EXCEPT ![a] = token.cursor]
        /\ steps' = [steps EXCEPT ![a] = 0] /\ UNCHANGED job
    BY <1>1, <1>5 DEF BeginTurn
  <2> HIDE DEF t
  <2>2. passed' = passed /\ forks' = forks
    BY DEF lineage
  <2>3. RowTypes'
    BY <1>1, <2>1, <2>2 DEF KInv, RowTypes, job, RunStatus
  <2>4. AttemptTypes'
    <3>1. seen' \in [Attempts -> Nat]
      BY <2>1 DEF KInv, RowTypes, AttemptTypes
    <3>2. steps' \in [Attempts -> 0..MaxSteps]
      BY <2>1, BoundsAssumption DEF KInv, AttemptTypes
    <3>3. after' \in [Attempts -> 0..Len(events)]
      BY <1>0, <2>1 DEF KInv, AttemptTypes
    <3> QED BY <1>1, <2>1, <3>1, <3>2, <3>3 DEF KInv, AttemptTypes
  <2>5. \A b \in Attempts : mem'[b] = IF b = a THEN t ELSE mem[b]
    BY <2>1 DEF KInv, AttemptTypes
  <2>6. TokensGood' /\ PassedFits'
    BY <1>1, <1>2, <2>2, <2>5 DEF KInv, TokensGood, PassedFits
  <2>7. \A b \in Attempts : LoopFits(b)'
    <3>1. LoopFits(a)'
      <4>1. seen'[a] = snapshotSeq /\ after'[a] = token.cursor /\ mem'[a] = t /\ snapshotSeq \in Nat
        BY <2>1, <2>5 DEF KInv, RowTypes, AttemptTypes
      <4> QED BY <1>0, <1>1, <1>2, <2>2, <4>1 DEF LoopFits
    <3>2. ASSUME NEW b \in Attempts, b # a PROVE LoopFits(b)'
      <4>1. seen'[b] = seen[b] /\ after'[b] = after[b] /\ pc'[b] = pc[b] /\ mem'[b] = mem[b]
        BY <2>1, <2>5, <3>2 DEF KInv, AttemptTypes
      <4> QED BY <1>1, <2>2, <4>1 DEF KInv, LoopFits
    <3> QED BY <3>1, <3>2
  <2>8. EndedTogether' /\ Rested'
    BY <1>1, <2>1 DEF KInv, EndedTogether, Rested, JobActive, job, Ended
  <2> QED BY <2>3, <2>4, <2>6, <2>7, <2>8 DEF KInv
<1> QED BY <1>4, <1>5

\* What a recovered turn writes.
LEMMA RecoveredFacts ==
  ASSUME KInv, NEW a \in Attempts, InLoop(a), Writable(a), _is_recoverable_terminal_turn_failure(mem[a])
  PROVE  LET e == Append(events, "output")
             t == _recover_terminal_turn_token(mem[a], Len(e)) IN
         /\ Good(t, e, passed) /\ t.status = "waiting"
         /\ Extends(t.consumed, token.consumed) /\ token.cursor <= t.cursor
<1> DEFINE e == Append(events, "output")
           t == _recover_terminal_turn_token(mem[a], Len(e))
<1>1. events \in Seq(Directions) /\ Good(mem[a], events, passed) /\ mem[a].wait.status = "received"
  BY DEF KInv, RowTypes, TokensGood, _is_recoverable_terminal_turn_failure
<1>2. Extends(mem[a].consumed, token.consumed) /\ token.cursor <= mem[a].cursor
  BY DEF KInv, LoopFits, InLoop, Writable
<1>3. /\ Good(t, e, passed) /\ t.status = "waiting"
      /\ t.consumed = mem[a].consumed /\ mem[a].cursor <= t.cursor
  BY <1>1, RecoverGood
<1>4. token.cursor \in Nat /\ mem[a].cursor \in Nat
  BY <1>1 DEF KInv, TokensGood, Good, Shape
<1> HIDE DEF t
<1>5. t.cursor \in Nat
  BY <1>3 DEF Good, Shape
<1>6. token.cursor <= t.cursor
  BY <1>2, <1>3, <1>4, <1>5
<1> QED BY <1>2, <1>3, <1>6 DEF t

LEMMA RecoverStep ==
  ASSUME KInv, NEW a \in Attempts, _recover_terminal_turn_failure(a), UNCHANGED lineage
  PROVE  KInv'
<1> DEFINE e == Append(events, "output")
           t == _recover_terminal_turn_token(mem[a], Len(e))
<1>1. /\ InLoop(a) /\ Writable(a) /\ _is_recoverable_terminal_turn_failure(mem[a]) /\ Owns(a)
      /\ events' = e /\ token' = t /\ snapshotSeq' = snapshotSeq + 1 /\ UNCHANGED sessionOpen
      /\ runStatus' = "waiting_input" /\ Forget(a)
      /\ _finish_runtime_job_turn("succeeded", "waiting_input", t, events')
  BY DEF _recover_terminal_turn_failure, _append_recoverable_failure_snapshot, Writable
<1>2. /\ Good(t, e, passed) /\ t.status = "waiting" /\ token.cursor <= t.cursor
  BY <1>1, RecoveredFacts
<1>3. Appended
  BY <1>1 DEF Appended, Directions
<1> HIDE DEF t, e
<1>4. t.cursor \in Nat
  BY <1>2 DEF Good, Shape
<1>5. \A s \in Given(events') \ passed :
        s <= t.cursor /\ token'.wait.accept < s => s <= token'.cursor \/ s \in Consumed(token')
  BY <1>1
<1> QED BY <1>1, <1>2, <1>3, <1>4, <1>5, WaitStep DEF lineage

\* A fork keeps the events and the token of its moment.
LEMMA ForkStep ==
  ASSUME KInv, fork_debug
  PROVE  /\ KInv' /\ forks' = forks + 1 /\ snapshotSeq' = 0
         /\ token'.consumed = token.consumed /\ token.cursor <= token'.cursor
<1> DEFINE n == Len(events)
<1>0. /\ events \in Seq(Directions) /\ n \in Nat /\ Good(token, events, passed) /\ passed \subseteq Given(events)
      /\ forks \in 0..MaxForks /\ forks < MaxForks /\ MaxForks \in Nat
      /\ \A s \in passed : s <= token.cursor
  BY BoundsAssumption DEF KInv, RowTypes, TokensGood, PassedFits, fork_debug
<1>1. /\ Shape(token, n) /\ token.cursor \in 0..n /\ token.wait.accept \in 0..n /\ token.consumed \in Seq(1..n)
      /\ token.wait.evidence \subseteq 1..n
  BY <1>0 DEF Good, Shape
<1>2. PICK k \in _build_cursor_anchors : fork_invocation_from_snapshot(k)
  BY DEF fork_debug
<1>3. k \in 0..n /\ token.cursor <= k /\ token.wait.accept <= k
  <2>1. {token.cursor, token.wait.accept} \in SUBSET (0..n) /\ {token.cursor, token.wait.accept} # {}
    BY <1>1
  <2>2. /\ Largest({token.cursor, token.wait.accept}) \in {token.cursor, token.wait.accept}
        /\ \A y \in {token.cursor, token.wait.accept} : y <= Largest({token.cursor, token.wait.accept})
    BY <1>0, <2>1, LargestFacts
  <2> QED BY <1>0, <1>1, <2>2 DEF _build_cursor_anchors
<1>4. /\ events' = SubSeq(events, 1, k) /\ token' = [token EXCEPT !.cursor = k] /\ snapshotSeq' = 0
      /\ passed' = passed \cup {s \in Inputs : token.cursor < s /\ s <= k}
      /\ sessionOpen' = TRUE /\ rerun' = FALSE /\ jobOwner' = None /\ attemptNo' = 0
      /\ runStatus' = IF token.status = "waiting" THEN "waiting_input" ELSE "queued"
      /\ jobStatus' = IF token.status = "waiting" THEN "absent" ELSE "pending"
      /\ forks' = forks + 1
  BY <1>2 DEF fork_invocation_from_snapshot, ReleaseJob, fork_debug
<1>5. events' \in Seq(Directions) /\ Len(events') = k /\ \A i \in 1..k : events'[i] = events[i]
  BY <1>0, <1>3, <1>4
<1>6. Given(events') = {s \in Given(events) : s <= k}
  BY <1>0, <1>3, <1>5 DEF Given
<1>7. Inputs = Given(events)
  BY DEF Inputs, Seqs, Given
<1>8. /\ DOMAIN token' = {"status", "phase", "cursor", "consumed", "wait"}
      /\ token'.status = token.status /\ token'.phase = token.phase /\ token'.consumed = token.consumed
      /\ token'.wait = token.wait /\ token'.cursor = k
  BY <1>1, <1>4 DEF Shape
<1>9. \A i \in 1..Len(token.consumed) :
        token.consumed[i] \in Given(events) /\ token.consumed[i] \in 1..k /\ token.consumed[i] <= k
  <2>1. \A i \in 1..Len(token.consumed) :
          token.consumed[i] \in Given(events) /\ token.consumed[i] \in 1..n /\ token.consumed[i] <= token.cursor
    BY <1>0, <1>1 DEF Good, Ledger
  <2> QED BY <1>0, <1>1, <1>3, <2>1
<1>10. Good(token', events', passed')
  <2>1. Placed(token')
    BY <1>0, <1>8 DEF Good, Placed
  <2>2. Ledger(token', events')
    BY <1>0, <1>6, <1>8, <1>9 DEF Good, Ledger
  <2>3. Window(token', events', passed')
    <3>1. {s \in Given(events) \ passed : token.wait.accept < s /\ s <= token.cursor}
            = {s \in Given(events') \ passed' : token.wait.accept < s /\ s <= k}
      <4>1. \A s \in Given(events) : s \in 1..n
        BY DEF Given
      <4> QED BY <1>0, <1>1, <1>3, <1>4, <1>6, <1>7, <4>1
    <3> QED BY <1>0, <1>8, <3>1 DEF Good, Window, Consumed
  <2>4. token.wait.evidence \subseteq 1..k
    <3>1. CASE token.wait.status = "none"
      BY <1>0, <3>1 DEF Good, Placed
    <3>2. CASE token.wait.status # "none"
      <4>1. \A s \in token.wait.evidence : s <= token.cursor /\ s \in 1..n
        BY <1>0, <1>1, <3>2 DEF Good, Window
      <4> QED BY <1>0, <1>1, <1>3, <4>1
    <3> QED BY <3>1, <3>2
  <2>5. token.consumed \in Seq(1..k)
    <3>1. token.consumed \in Seq(1..n) /\ \A i \in 1..Len(token.consumed) : token.consumed[i] \in 1..k
      BY <1>1, <1>9
    <3> QED BY <3>1, SeqWithin
  <2>6. Shape(token', Len(events'))
    BY <1>0, <1>1, <1>3, <1>5, <1>8, <2>4, <2>5 DEF Shape
  <2> QED BY <2>1, <2>2, <2>3, <2>6 DEF Good
<1>11. \A a \in Attempts : mem'[a] = InitialToken /\ pc'[a] = "idle"
  BY DEF fork_debug
<1>12. TokensGood'
  BY <1>5, <1>10, <1>11, InitialTokenGood DEF TokensGood
<1>13. PassedFits'
  <2>1. \A s \in passed : s \in 1..n /\ s <= k
    BY <1>0, <1>1, <1>3 DEF Given
  <2> QED BY <1>0, <1>4, <1>6, <1>7, <1>8, <2>1 DEF PassedFits
<1>14. RowTypes'
  <2>1. runStatus' \in RunStatus /\ jobStatus' \in JobStatus
    BY <1>4 DEF RunStatus, JobStatus, Claimable
  <2>2. forks' \in 0..MaxForks /\ snapshotSeq' \in Nat /\ attemptNo' \in 0..MaxAttempts
    BY <1>0, <1>4, BoundsAssumption
  <2> QED BY <1>4, <1>5, <2>1, <2>2 DEF RowTypes
<1>15. AttemptTypes'
  BY <1>5, BoundsAssumption DEF fork_debug, AttemptTypes
<1>16. EndedTogether'
  BY <1>4 DEF EndedTogether, JobActive, Ended, Claimable
<1>17. Rested'
  <2>1. CASE token.status = "waiting"
    <3>1. token'.wait.status # "none" /\ runStatus' = "waiting_input" /\ token'.status = "waiting"
      BY <1>0, <1>4, <1>8, <2>1 DEF Good, Placed
    <3>2. \A s \in Given(events') : s <= token'.cursor
      BY <1>6, <1>8
    <3>3. Owed(token', events', passed') = {}
      BY <1>10, <3>1, <3>2, NothingOwed
    <3>4. (Undelivered = Owed(token, events, passed))'
      BY UndeliveredIsOwed, PTL
    <3> QED BY <3>1, <3>3, <3>4 DEF Rested, _token_is_waiting_for_terminal_input
  <2>2. CASE token.status # "waiting"
    BY <1>4, <2>2 DEF Rested, JobActive, Claimable
  <2> QED BY <2>1, <2>2
<1>18. \A a \in Attempts : LoopFits(a)'
  BY <1>11 DEF LoopFits
<1> QED BY <1>3, <1>4, <1>8, <1>12, <1>13, <1>14, <1>15, <1>16, <1>17, <1>18 DEF KInv

(***************************************************************************)
(* Invariance.                                                             *)
(***************************************************************************)

LEMMA KernelInit ==
  ASSUME Init
  PROVE  KInv
<1>1. events \in Seq(Directions) /\ Len(events) = 0
  BY DEF Init
<1>2. TokensGood
  BY <1>1, InitialTokenGood DEF Init, TokensGood
<1>3. RowTypes
  <2>1. runStatus \in RunStatus /\ jobStatus \in JobStatus
    BY DEF Init, RunStatus, JobStatus, Claimable
  <2>2. forks \in 0..MaxForks /\ snapshotSeq \in Nat /\ attemptNo \in 0..MaxAttempts
    BY BoundsAssumption DEF Init
  <2>3. sessionOpen \in BOOLEAN /\ rerun \in BOOLEAN /\ jobOwner \in Attempts \cup {None}
    BY DEF Init
  <2> QED BY <1>1, <2>1, <2>2, <2>3 DEF RowTypes
<1>4. AttemptTypes
  BY <1>1, BoundsAssumption DEF Init, AttemptTypes
<1>5. PassedFits /\ EndedTogether /\ Rested
  BY DEF Init, PassedFits, EndedTogether, Rested, JobActive, Claimable, Ended
<1>6. \A a \in Attempts : LoopFits(a)
  BY DEF Init, LoopFits
<1> QED BY <1>2, <1>3, <1>4, <1>5, <1>6 DEF KInv

LEMMA TurnStep ==
  ASSUME KInv, NEW a \in Attempts, Turn(a), UNCHANGED lineage
  PROVE  KInv'
<1>1. CASE LoseLease(a)
  <2>1. Quiet(a) /\ UNCHANGED <<run, job, lineage>>
    BY <1>1 DEF LoseLease, Quiet
  <2> QED BY <2>1, RowsStay
<1>2. CASE _record_unhandled_failure(a)
  <2>1. Quiet(a)
    BY <1>2 DEF _record_unhandled_failure, Quiet
  <2>2. CASE Owns(a)
    BY <1>2, <2>1, <2>2, GiveUpStep DEF _record_unhandled_failure, Owns
  <2>3. CASE ~Owns(a)
    <3>1. UNCHANGED <<run, job, lineage>>
      BY <1>2, <2>3 DEF _record_unhandled_failure
    <3> QED BY <2>1, <3>1, RowsStay
  <2> QED BY <2>2, <2>3
<1>3. CASE BeginTurn(a)
  BY <1>3, BeginTurnStep
<1>4. CASE \E d \in Decisions, m \in Nodes, out \in BOOLEAN : RunNode(a, d, m, out)
  BY <1>4, RunNodeStep
<1>5. CASE FinishRun(a)
  BY <1>5, FinishRunStep
<1>6. CASE _recover_terminal_turn_failure(a)
  BY <1>6, RecoverStep
<1>7. CASE StepsExhausted(a)
  <2>1. Quiet(a) /\ UNCHANGED <<run, job, lineage>>
    BY <1>7 DEF StepsExhausted, Quiet
  <2> QED BY <2>1, RowsStay
<1>8. CASE FailRun(a)
  BY <1>8, FailRunStep
<1>9. CASE StepTimeout(a)
  <2>1. Quiet(a) /\ UNCHANGED <<run, job, lineage>>
    BY <1>9 DEF StepTimeout, Quiet
  <2> QED BY <2>1, RowsStay
<1> QED BY <1>1, <1>2, <1>3, <1>4, <1>5, <1>6, <1>7, <1>8, <1>9 DEF Turn

LEMMA KernelNext ==
  ASSUME KInv, [Next]_vars
  PROVE  KInv'
<1>1. CASE \E d \in Directions : append_terminal_event(d) /\ UNCHANGED lineage
  BY <1>1, AppendStep
<1>2. CASE cancel_run /\ UNCHANGED lineage
  BY <1>2, CancelStep
<1>3. CASE recover_expired_lease /\ UNCHANGED lineage
  <2>1. jobStatus = "running" /\ GiveUpAttempt /\ Quiet(None)
    BY <1>3 DEF recover_expired_lease, Quiet
  <2> QED BY <1>3, <2>1, GiveUpStep
<1>4. CASE \E a \in Attempts : claim_next_job(a) /\ UNCHANGED lineage
  BY <1>4, ClaimStep
<1>5. CASE \E a \in Attempts : Turn(a) /\ UNCHANGED lineage
  BY <1>5, TurnStep
<1>6. CASE \E a \in Attempts : Crash(a) /\ UNCHANGED lineage
  <2>1. PICK a \in Attempts : Crash(a) /\ UNCHANGED lineage
    BY <1>6
  <2>2. Quiet(a) /\ UNCHANGED <<run, job, lineage>>
    BY <2>1 DEF Crash, Quiet
  <2> QED BY <2>2, RowsStay
<1>7. CASE fork_debug
  BY <1>7, ForkStep
<1>8. CASE UNCHANGED vars
  <2>1. Quiet(None) /\ UNCHANGED <<run, job, lineage>>
    BY <1>8 DEF vars, Quiet
  <2> QED BY <2>1, RowsStay
<1> QED BY <1>1, <1>2, <1>3, <1>4, <1>5, <1>6, <1>7, <1>8 DEF Next

\* The inductive invariant holds in every state of every instance.
THEOREM KernelInvariance == Spec => []KInv
<1>1. Init => KInv
  BY KernelInit
<1>2. KInv /\ [Next]_vars => KInv'
  BY KernelNext
<1> QED BY <1>1, <1>2, PTL DEF Spec

(***************************************************************************)
(* The safety properties.                                                  *)
(***************************************************************************)

LEMMA GoodTokenOK ==
  ASSUME NEW t, Good(t, events, passed)
  PROVE  TokenOK(t)
BY DEF Good, Shape, TokenOK, Seqs, NoWait

LEMMA KernelTypes == KInv => TypeOK
<1> SUFFICES ASSUME KInv PROVE TypeOK
  OBVIOUS
<1>1. TokenOK(token) /\ \A a \in Attempts : TokenOK(mem[a])
  BY GoodTokenOK DEF KInv, TokensGood
<1>2. passed \subseteq Seqs
  BY DEF KInv, PassedFits, Given, Seqs
<1> QED BY <1>1, <1>2 DEF KInv, RowTypes, AttemptTypes, TypeOK

\* Whatever crashes, loses its lease, times out or is forked, a run that is not
\* over and has no job to advance it waits at a checkpoint that is owed no input.
THEOREM RestIsEarned == Spec => []NoStrandedRun
<1>1. KInv => NoStrandedRun
  BY KernelTypes DEF KInv, Rested, NoStrandedRun
<1> QED BY <1>1, KernelInvariance, PTL

\* The evidence of a checkpoint is its whole window and nothing else, whichever
\* of the three places that deliver input did it, on any schedule.
THEOREM EvidenceIsRight == Spec => []EvidenceIsWindow
<1>1. KInv => EvidenceIsWindow
  <2>1. Inputs = Given(events)
    BY DEF Inputs, Seqs, Given
  <2> QED BY <2>1 DEF KInv, TokensGood, Good, Window, EvidenceIsWindow
<1> QED BY <1>1, KernelInvariance, PTL

\* The ledger of used inputs has each once, in the order they came.
THEOREM LedgerIsInOrder == Spec => []ConsumedInOrder
<1>1. KInv => ConsumedInOrder
  <2> SUFFICES ASSUME KInv PROVE ConsumedInOrder
    OBVIOUS
  <2>1. Inputs = Given(events)
    BY DEF Inputs, Seqs, Given
  <2>2. Good(token, events, passed) /\ events \in Seq(Directions)
    BY DEF KInv, TokensGood, RowTypes
  <2>3. Consumed(token) \subseteq Inputs
    BY <2>1, <2>2, ConsumedFacts
  <2>4. DOMAIN token.consumed = 1..Len(token.consumed)
    BY <2>2 DEF Good, Shape
  <2>5. \A i, k \in 1..Len(token.consumed) : i < k => token.consumed[i] < token.consumed[k]
    BY <2>2, <2>4 DEF Good, Ledger, Increasing
  <2> QED BY <2>3, <2>5 DEF ConsumedInOrder
<1> QED BY <1>1, KernelInvariance, PTL

\* A run that ended has its job ended and its terminal session closed, in the
\* same transaction, and an open run has neither.
THEOREM RunAndJobEndTogether == Spec => []EndedTogether
<1>1. KInv => EndedTogether
  BY DEF KInv
<1> QED BY <1>1, KernelInvariance, PTL

(***************************************************************************)
(* Snapshots only go forward.                                              *)
(***************************************************************************)

Advance ==
  /\ token' # token => snapshotSeq' = IF forks' = forks THEN snapshotSeq + 1 ELSE 0
  /\ Extends(token'.consumed, token.consumed)
  /\ token'.cursor >= token.cursor

LEMMA SameTokenAdvances ==
  ASSUME KInv, token' = token
  PROVE  Advance
<1>1. token.consumed \in Seq(1..Len(events)) /\ token.cursor \in Nat
  BY DEF KInv, TokensGood, Good, Shape
<1>2. Extends(token.consumed, token.consumed)
  BY <1>1, ExtendsSame
<1> QED BY <1>1, <1>2 DEF Advance

LEMMA KernelAdvances ==
  ASSUME KInv, [Next]_vars
  PROVE  Advance
<1>0. /\ token.consumed \in Seq(1..Len(events)) /\ token.cursor \in 0..Len(events) /\ Len(events) \in Nat
      /\ Shape(token, Len(events)) /\ Good(token, events, passed)
      /\ Extends(token.consumed, token.consumed)
  <2>1. Good(token, events, passed) /\ Len(events) \in Nat
    BY DEF KInv, TokensGood, RowTypes
  <2>2. token.consumed \in Seq(1..Len(events)) /\ token.cursor \in 0..Len(events) /\ Shape(token, Len(events))
    BY <2>1 DEF Good, Shape
  <2> QED BY <2>1, <2>2, ExtendsSame
<1>1. CASE cancel_run /\ UNCHANGED lineage
  <2>1. /\ token' = [token EXCEPT !.status = "cancelled", !.phase = "cancelled", !.wait = NoWait]
        /\ snapshotSeq' = snapshotSeq + 1 /\ forks' = forks
    BY <1>1 DEF cancel_run, _append_cancel_snapshot, lineage
  <2>2. token'.consumed = token.consumed /\ token'.cursor = token.cursor
    BY <1>0, <2>1 DEF Shape
  <2> QED BY <1>0, <2>1, <2>2 DEF Advance
<1>2. CASE fork_debug
  <2>1. PICK k \in _build_cursor_anchors : fork_invocation_from_snapshot(k)
    BY <1>2 DEF fork_debug
  <2>2. token' = [token EXCEPT !.cursor = k] /\ snapshotSeq' = 0 /\ forks' = forks + 1
    BY <1>2, <2>1 DEF fork_debug, fork_invocation_from_snapshot
  <2>3. token'.consumed = token.consumed /\ token'.cursor = k
    BY <1>0, <2>2 DEF Shape
  <2>4. {token.cursor, token.wait.accept} \in SUBSET (0..Len(events)) /\ {token.cursor, token.wait.accept} # {}
    BY <1>0 DEF Shape
  <2>5. /\ Largest({token.cursor, token.wait.accept}) \in {token.cursor, token.wait.accept}
        /\ token.cursor <= Largest({token.cursor, token.wait.accept})
    BY <1>0, <2>4, LargestFacts
  <2>6. token.cursor <= k
    BY <1>0, <2>1, <2>4, <2>5 DEF _build_cursor_anchors
  <2>7. forks' # forks
    BY <2>2 DEF KInv, RowTypes
  <2> QED BY <1>0, <2>1, <2>2, <2>3, <2>6, <2>7 DEF Advance, _build_cursor_anchors
<1>3. CASE \E a \in Attempts : /\ UNCHANGED lineage
                               /\ \E d \in Decisions, m \in Nodes, out \in BOOLEAN : RunNode(a, d, m, out)
  <2>1. PICK a \in Attempts, d \in Decisions, m \in Nodes, out \in BOOLEAN : RunNode(a, d, m, out)
    BY <1>3
  <2>2. token' = NextToken(mem[a], mem[a].phase, d, m, after[a]) /\ snapshotSeq' = snapshotSeq + 1
        /\ InLoop(a) /\ Writable(a) /\ forks' = forks
    BY <1>3, <2>1 DEF RunNode, lineage
  <2>3. Good(token', events, passed) /\ Extends(token'.consumed, token.consumed) /\ token.cursor <= token'.cursor
    BY <2>2, NodeFacts
  <2> QED BY <1>0, <2>2, <2>3 DEF Advance, Good, Shape
<1>4. CASE \E a \in Attempts : _recover_terminal_turn_failure(a) /\ UNCHANGED lineage
  <2>1. PICK a \in Attempts : _recover_terminal_turn_failure(a) /\ UNCHANGED lineage
    BY <1>4
  <2>2. /\ token' = _recover_terminal_turn_token(mem[a], Len(Append(events, "output")))
        /\ snapshotSeq' = snapshotSeq + 1 /\ forks' = forks
        /\ InLoop(a) /\ Writable(a) /\ _is_recoverable_terminal_turn_failure(mem[a])
    BY <2>1 DEF _recover_terminal_turn_failure, _append_recoverable_failure_snapshot, lineage
  <2>3. Extends(token'.consumed, token.consumed) /\ token.cursor <= token'.cursor
        /\ Good(token', Append(events, "output"), passed)
    BY <2>2, RecoveredFacts
  <2> QED BY <1>0, <2>2, <2>3 DEF Advance, Good, Shape
<1>5. CASE \/ \E d \in Directions : append_terminal_event(d)
           \/ recover_expired_lease
           \/ \E a \in Attempts :
                \/ claim_next_job(a) \/ Crash(a) \/ LoseLease(a) \/ _record_unhandled_failure(a) \/ BeginTurn(a)
                \/ FinishRun(a) \/ StepsExhausted(a) \/ FailRun(a) \/ StepTimeout(a)
           \/ UNCHANGED vars
  <2>1. token' = token
    BY <1>5 DEF append_terminal_event, recover_expired_lease, GiveUpAttempt, claim_next_job, Crash, LoseLease,
       _record_unhandled_failure, BeginTurn, FinishRun, StepsExhausted, FailRun, StepTimeout, run, vars
  <2> QED BY <2>1, SameTokenAdvances
<1> QED BY <1>1, <1>2, <1>3, <1>4, <1>5 DEF Next, Turn

\* No step takes a snapshot back or forgets an input that was used, and the
\* cursor never goes back: not a retry, nor a recovered turn, a cancel or a fork.
THEOREM SnapshotsOnlyAdvance == Spec => SnapshotsAdvance
<1>1. KInv /\ [Next]_vars => [Advance]_vars
  BY KernelAdvances
<1>2. Spec => [][Advance]_vars
  BY <1>1, KernelInvariance, PTL DEF Spec
<1> QED BY <1>2 DEF SnapshotsAdvance, Advance

(***************************************************************************)
(* The job of the run keeps the life of a job.                             *)
(***************************************************************************)

\* What a step writes to the row of the job and to the status of its run.
Row(p, a, n, d) ==
  /\ Phase(jobStatus') = p /\ CurrentAttempt(jobStatus', jobOwner') = a /\ attemptNo' = n
  /\ DomainOf(jobStatus', runStatus') = d

Now(p, a, n, d) ==
  /\ Phase(jobStatus) = p /\ CurrentAttempt(jobStatus, jobOwner) = a /\ attemptNo = n
  /\ DomainOf(jobStatus, runStatus) = d

\* A function of one job has one value.
LEMMA OneJob ==
  ASSUME NEW v, NEW w
  PROVE  /\ [[j \in {RunJob} |-> v] EXCEPT ![RunJob] = w] = [j \in {RunJob} |-> w]
         /\ [j \in {RunJob} |-> v][RunJob] = v
OBVIOUS

LEMMA RowMoves ==
  ASSUME NEW p, NEW a, NEW n, NEW d, Row(p, a, n, d)
  PROVE  /\ Lifecycle!Move(RunJob, p, a, n)
         /\ d = "closed" => Lifecycle!Close(RunJob)
         /\ DomainOf(jobStatus, runStatus) = d => UNCHANGED [j \in {RunJob} |-> DomainOf(jobStatus, runStatus)]
BY OneJob DEF Row, Lifecycle!Move, Lifecycle!Close

LEMMA RowIs ==
  ASSUME NEW p, NEW a, NEW n, NEW d, Now(p, a, n, d)
  PROVE  /\ [j \in {RunJob} |-> Phase(jobStatus)][RunJob] = p
         /\ [j \in {RunJob} |-> CurrentAttempt(jobStatus, jobOwner)][RunJob] = a
         /\ [j \in {RunJob} |-> attemptNo][RunJob] = n
         /\ [j \in {RunJob} |-> DomainOf(jobStatus, runStatus)][RunJob] = d
BY OneJob DEF Now

\* A row that looks as before has not moved.
LEMMA RowStays ==
  ASSUME NEW p, NEW a, NEW n, NEW d, Now(p, a, n, d), Row(p, a, n, d)
  PROVE  UNCHANGED Lifecycle!lifecycle
BY DEF Now, Row, Lifecycle!lifecycle

\* A step that leaves the row of the job and the end of the run alone.
LEMMA NothingSeen ==
  ASSUME jobStatus' = jobStatus, jobOwner' = jobOwner, attemptNo' = attemptNo,
         runStatus' \in Ended <=> runStatus \in Ended
  PROVE  UNCHANGED Lifecycle!lifecycle
<1>1. DomainOf(jobStatus', runStatus') = DomainOf(jobStatus, runStatus)
  BY DEF DomainOf
<1> QED BY <1>1 DEF Lifecycle!lifecycle

\* Input for a run that is open.
LEMMA InputWakes ==
  ASSUME KInv, runStatus \notin Ended, runStatus' = runStatus, _ensure_runtime_job_pending
  PROVE  Lifecycle!Next \/ UNCHANGED Lifecycle!lifecycle
<1>1. CASE jobStatus = "running"
  BY <1>1, NothingSeen DEF _ensure_runtime_job_pending
<1>2. CASE jobStatus # "running"
  <2>1. jobStatus' = "pending" /\ attemptNo' = 0
    BY <1>2 DEF _ensure_runtime_job_pending, ReleaseJob
  <2>2. Row("waiting", None, 0, "open")
    BY <2>1 DEF Row, Phase, CurrentAttempt, DomainOf, Claimable
  <2>3. Lifecycle!Move(RunJob, "waiting", None, 0)
    BY <2>2, RowMoves
  <2>4. UNCHANGED [j \in {RunJob} |-> DomainOf(jobStatus, runStatus)]
    BY <2>2, RowMoves DEF DomainOf
  <2>5. Now(Phase(jobStatus), None, attemptNo, "open") /\ Phase(jobStatus) \in {"absent", "waiting", "ended"}
    BY <1>2 DEF Now, Phase, CurrentAttempt, DomainOf
  <2>6. CASE Phase(jobStatus) = "absent"
    <3>1. [j \in {RunJob} |-> Phase(jobStatus)][RunJob] = "absent"
      BY <2>6
    <3>2. Lifecycle!Submit(RunJob)
      BY <2>3, <2>4, <3>1 DEF Lifecycle!Submit
    <3> QED BY <3>2 DEF Lifecycle!Next
  <2>7. CASE Phase(jobStatus) \in {"waiting", "ended"}
    <3>1. /\ [j \in {RunJob} |-> Phase(jobStatus)][RunJob] \in {"waiting", "ended"}
          /\ [j \in {RunJob} |-> DomainOf(jobStatus, runStatus)][RunJob] = "open"
      BY <2>5, <2>7, RowIs
    <3>2. Lifecycle!Again(RunJob)
      BY <2>3, <2>4, <3>1 DEF Lifecycle!Again
    <3> QED BY <3>2 DEF Lifecycle!Next
  <2> QED BY <2>5, <2>6, <2>7
<1> QED BY <1>1, <1>2

\* A run that is cancelled takes its job along, if it has one.
LEMMA CancelEnds ==
  ASSUME KInv, cancel_run
  PROVE  Lifecycle!Next \/ UNCHANGED Lifecycle!lifecycle
<1>0. runStatus \notin Ended /\ runStatus' = "cancelled" /\ "cancelled" \in Ended
  BY DEF cancel_run, EndRun, Ended
<1>1. CASE jobStatus = "absent"
  <2>1. jobStatus' = "absent" /\ jobOwner' = jobOwner /\ attemptNo' = attemptNo
    BY <1>1 DEF cancel_run
  <2>2. Now("absent", None, attemptNo, "open") /\ Row("absent", None, attemptNo, "open")
    BY <1>1, <2>1 DEF Now, Row, Phase, CurrentAttempt, DomainOf, Claimable
  <2> QED BY <2>2, RowStays
<1>2. CASE jobStatus # "absent"
  <2>1. jobStatus' \in {"succeeded", "failed", "cancelled"} /\ attemptNo' = attemptNo
    BY <1>2 DEF cancel_run, ReleaseJob
  <2>2. Row("ended", None, attemptNo, "closed")
    BY <1>0, <2>1 DEF Row, Phase, CurrentAttempt, DomainOf, Claimable
  <2>3. Lifecycle!Move(RunJob, "ended", None, attemptNo) /\ Lifecycle!Close(RunJob)
    BY <2>2, RowMoves
  <2>4. Phase(jobStatus) # "absent" /\ DomainOf(jobStatus, runStatus) = "open"
    BY <1>0, <1>2 DEF Phase, DomainOf
  <2>5. /\ [j \in {RunJob} |-> Phase(jobStatus)][RunJob] # "absent"
        /\ [j \in {RunJob} |-> DomainOf(jobStatus, runStatus)][RunJob] = "open"
    BY <2>4
  <2>6. Lifecycle!Cancel(RunJob)
    BY <2>3, <2>5 DEF Lifecycle!Cancel, Lifecycle!Move
  <2> QED BY <2>6 DEF Lifecycle!Next
<1> QED BY <1>1, <1>2

\* What a running job looks like: its run is open.
LEMMA Running ==
  ASSUME KInv, jobStatus = "running"
  PROVE  /\ runStatus \notin Ended /\ attemptNo \in 0..MaxAttempts /\ MaxAttempts \in Nat \ {0}
         /\ [j \in {RunJob} |-> Phase(jobStatus)][RunJob] = "active"
         /\ DomainOf(jobStatus, runStatus) = "open"
<1>1. runStatus \notin Ended
  BY DEF KInv, EndedTogether, JobActive
<1>2. Phase(jobStatus) = "active"
  BY DEF Phase, Claimable
<1> QED BY <1>1, <1>2, BoundsAssumption DEF KInv, RowTypes, DomainOf

\* The current attempt ends its job, and the run with it or not.
LEMMA ReleaseEnds ==
  ASSUME KInv, jobStatus = "running", NEW s \in {"succeeded", "failed", "cancelled"}, ReleaseJob(s, attemptNo)
  PROVE  Lifecycle!Next
<1>1. PICK d \in {"open", "closed"} : d = DomainOf(jobStatus', runStatus')
  BY DEF DomainOf
<1>2. jobStatus' = s /\ attemptNo' = attemptNo
  BY DEF ReleaseJob
<1>3. Row("ended", None, attemptNo, d)
  BY <1>1, <1>2 DEF Row, Phase, CurrentAttempt, Claimable
<1>4. Lifecycle!Move(RunJob, "ended", None, attemptNo)
  BY <1>3, RowMoves
<1>5. Lifecycle!Close(RunJob) \/ UNCHANGED [j \in {RunJob} |-> DomainOf(jobStatus, runStatus)]
  BY <1>3, RowMoves, Running
<1>6. Lifecycle!End(RunJob)
  BY <1>4, <1>5, Running DEF Lifecycle!End, Lifecycle!Move
<1> QED BY <1>6 DEF Lifecycle!Next

\* It leaves its job to be run again.
LEMMA ReleaseRepeats ==
  ASSUME KInv, jobStatus = "running", NEW s \in Claimable, NEW n \in {0, attemptNo}, n < MaxAttempts,
         ReleaseJob(s, n), runStatus' \notin Ended
  PROVE  Lifecycle!Next
<1>1. jobStatus' = s /\ attemptNo' = n /\ n \in 0..MaxAttempts
  BY Running DEF ReleaseJob
<1>2. Row("waiting", None, n, "open")
  BY <1>1 DEF Row, Phase, CurrentAttempt, DomainOf, Claimable
<1>3. Lifecycle!Move(RunJob, "waiting", None, n) /\ UNCHANGED [j \in {RunJob} |-> DomainOf(jobStatus, runStatus)]
  BY <1>2, RowMoves, Running
<1>4. n \in {0, [j \in {RunJob} |-> attemptNo][RunJob] - 1, [j \in {RunJob} |-> attemptNo][RunJob]}
  OBVIOUS
<1>5. Lifecycle!Repeat(RunJob, n)
  BY <1>3, <1>4, Running DEF Lifecycle!Repeat
<1> QED BY <1>1, <1>5 DEF Lifecycle!Next

\* A turn ends its job, or requeues it with a new budget.
LEMMA TurnEnds ==
  ASSUME KInv, jobStatus = "running", NEW s \in {"succeeded", "failed"}, NEW r, NEW t, NEW e,
         runStatus' \in Ended => r \in Ended, _finish_runtime_job_turn(s, r, t, e)
  PROVE  Lifecycle!Next
<1>1. CASE r \notin Ended /\ (rerun \/ \E i \in t.cursor + 1..Len(e) : e[i] = "input")
  <2>1. ReleaseJob("pending", 0)
    BY <1>1 DEF _finish_runtime_job_turn
  <2>2. "pending" \in Claimable /\ 0 < MaxAttempts /\ runStatus' \notin Ended
    BY <1>1, BoundsAssumption DEF Claimable
  <2> QED BY <2>1, <2>2, ReleaseRepeats
<1>2. CASE ~(r \notin Ended /\ (rerun \/ \E i \in t.cursor + 1..Len(e) : e[i] = "input"))
  <2>1. ReleaseJob(s, attemptNo)
    BY <1>2 DEF _finish_runtime_job_turn
  <2> QED BY <2>1, ReleaseEnds
<1> QED BY <1>1, <1>2

\* An attempt that is given up is repeated, or is the last one: job and run end.
LEMMA GivenUp ==
  ASSUME KInv, jobStatus = "running", GiveUpAttempt
  PROVE  Lifecycle!Next
<1>1. CASE attemptNo < MaxAttempts
  <2>1. ReleaseJob("retryable_failed", attemptNo) /\ runStatus' = runStatus
    BY <1>1 DEF GiveUpAttempt
  <2> QED BY <1>1, <2>1, Running, ReleaseRepeats DEF Claimable
<1>2. CASE ~(attemptNo < MaxAttempts)
  <2>1. /\ jobStatus' = "failed" /\ attemptNo' = attemptNo /\ runStatus' = "failed" /\ "failed" \in Ended
    BY <1>2, Running DEF GiveUpAttempt, finalize_exhausted_job, ReleaseJob, EndRun, Ended
  <2>2. Row("ended", None, attemptNo, "closed")
    BY <2>1 DEF Row, Phase, CurrentAttempt, DomainOf, Claimable
  <2>3. Lifecycle!Move(RunJob, "ended", None, attemptNo) /\ Lifecycle!Close(RunJob)
    BY <2>2, RowMoves
  <2>4. [j \in {RunJob} |-> attemptNo][RunJob] = MaxAttempts
    BY <1>2, Running
  <2>5. Lifecycle!Exhaust(RunJob)
    BY <2>3, <2>4, Running DEF Lifecycle!Exhaust, Lifecycle!Move
  <2> QED BY <2>5 DEF Lifecycle!Next
<1> QED BY <1>1, <1>2

\* A claim starts an attempt.
LEMMA ClaimStarts ==
  ASSUME KInv, NEW a \in Attempts, claim_next_job(a)
  PROVE  Lifecycle!Next
<1>0. /\ jobStatus \in Claimable /\ jobStatus' = "running" /\ jobOwner' = a /\ attemptNo' = attemptNo + 1
      /\ attemptNo < MaxAttempts /\ runStatus' = runStatus
  BY DEF claim_next_job, run
<1>1. PICK n : n = attemptNo + 1
  OBVIOUS
<1>2. DomainOf(jobStatus', runStatus') = DomainOf(jobStatus, runStatus)
  BY <1>0 DEF DomainOf, Claimable
<1>3. Row("active", a, n, DomainOf(jobStatus, runStatus))
  BY <1>0, <1>1, <1>2 DEF Row, Phase, CurrentAttempt, Claimable
<1>4. PICK d : d = DomainOf(jobStatus, runStatus)
  OBVIOUS
<1>5. Lifecycle!Move(RunJob, "active", a, n) /\ UNCHANGED [j \in {RunJob} |-> DomainOf(jobStatus, runStatus)]
  BY <1>3, <1>4, RowMoves
<1>6. /\ [j \in {RunJob} |-> Phase(jobStatus)][RunJob] = "waiting"
      /\ \A i \in {RunJob} : [j \in {RunJob} |-> CurrentAttempt(jobStatus, jobOwner)][i] # a
      /\ [j \in {RunJob} |-> attemptNo][RunJob] < MaxAttempts
      /\ [j \in {RunJob} |-> attemptNo][RunJob] + 1 = n
  <2>1. Phase(jobStatus) = "waiting" /\ CurrentAttempt(jobStatus, jobOwner) = None /\ a # None
    BY <1>0, NamesAssumption DEF Phase, CurrentAttempt, Claimable
  <2> QED BY <1>0, <1>1, <2>1
<1>7. Lifecycle!Start(RunJob, a)
  BY <1>5, <1>6 DEF Lifecycle!Start, Lifecycle!Move
<1> QED BY <1>7 DEF Lifecycle!Next

\* The turns of an attempt.
LEMMA TurnKeepsLife ==
  ASSUME KInv, NEW a \in Attempts, Turn(a)
  PROVE  Lifecycle!Next \/ UNCHANGED Lifecycle!lifecycle
<1>1. CASE LoseLease(a) \/ StepsExhausted(a) \/ StepTimeout(a)
  BY <1>1, NothingSeen DEF LoseLease, StepsExhausted, StepTimeout, run, job
<1>2. CASE _record_unhandled_failure(a)
  BY <1>2, NothingSeen, GivenUp DEF _record_unhandled_failure, Owns, run, job
<1>3. CASE BeginTurn(a)
  <2>1. jobStatus = "running" /\ runStatus \notin Ended
    BY <1>3, Running DEF BeginTurn, Owns
  <2> DEFINE t == IF _token_is_waiting_for_terminal_input(token) THEN _sync_terminal_events(token) ELSE token
  <2>2. CASE t.status = "waiting"
    <3>1. runStatus' = "waiting_input" /\ _finish_runtime_job_turn("succeeded", "waiting_input", t, events)
      BY <1>3, <2>1, <2>2 DEF BeginTurn
    <3> HIDE DEF t
    <3>2. runStatus' \notin Ended
      BY <3>1 DEF Ended
    <3> QED BY <2>1, <3>1, <3>2, TurnEnds
  <2>3. CASE t.status # "waiting"
    <3>1. runStatus' = "running" /\ UNCHANGED job
      BY <1>3, <2>1, <2>3 DEF BeginTurn
    <3> QED BY <2>1, <3>1, NothingSeen DEF job, Ended
  <2> QED BY <2>2, <2>3
<1>4. ASSUME NEW d \in Decisions, NEW m \in Nodes, NEW out \in BOOLEAN, RunNode(a, d, m, out)
      PROVE  Lifecycle!Next \/ UNCHANGED Lifecycle!lifecycle
  <2> DEFINE t == NextToken(mem[a], mem[a].phase, d, m, after[a])
             e == IF out THEN Append(events, "output") ELSE events
  <2>1. jobStatus = "running" /\ runStatus \notin Ended
    BY <1>4, Running DEF RunNode, Writable, Owns
  <2>2. CASE t.status = "waiting"
    <3>1. runStatus' = "waiting_input" /\ _finish_runtime_job_turn("succeeded", "waiting_input", t, e)
      BY <1>4, <2>2 DEF RunNode
    <3> HIDE DEF t, e
    <3>2. runStatus' \notin Ended
      BY <3>1 DEF Ended
    <3> QED BY <2>1, <3>1, <3>2, TurnEnds
  <2>3. CASE t.status # "waiting"
    <3>1. runStatus' = runStatus /\ UNCHANGED job
      BY <1>4, <2>3 DEF RunNode
    <3> QED BY <3>1, NothingSeen DEF job
  <2> QED BY <2>2, <2>3
<1>5. CASE FinishRun(a)
  <2>1. jobStatus = "running" /\ _finish_runtime_job_turn("succeeded", "succeeded", mem[a], events)
    BY <1>5 DEF FinishRun, Owns
  <2> QED BY <2>1, TurnEnds DEF Ended
<1>6. CASE _recover_terminal_turn_failure(a)
  <2>1. PICK t, e : /\ runStatus' = "waiting_input"
                    /\ _finish_runtime_job_turn("succeeded", "waiting_input", t, e)
    BY <1>6 DEF _recover_terminal_turn_failure
  <2>2. jobStatus = "running" /\ runStatus' \notin Ended
    BY <1>6, <2>1 DEF _recover_terminal_turn_failure, Writable, Owns, Ended
  <2> QED BY <2>1, <2>2, TurnEnds
<1>7. CASE FailRun(a)
  <2>1. jobStatus = "running" /\ _finish_runtime_job_turn("failed", "failed", mem[a], events)
    BY <1>7 DEF FailRun, Owns
  <2> QED BY <2>1, TurnEnds DEF Ended
<1> QED BY <1>1, <1>2, <1>3, <1>4, <1>5, <1>6, <1>7 DEF Turn

\* Between two forks, every step is one of the life of a job.
LEMMA KernelKeepsLife ==
  ASSUME KInv, [Next]_vars, forks' = forks
  PROVE  Lifecycle!Next \/ UNCHANGED Lifecycle!lifecycle
<1>1. CASE \E d \in Directions : append_terminal_event(d)
  <2>1. runStatus \notin Ended /\ runStatus' = runStatus /\ (_ensure_runtime_job_pending \/ UNCHANGED job)
    BY <1>1 DEF append_terminal_event
  <2> QED BY <2>1, InputWakes, NothingSeen DEF job
<1>2. CASE cancel_run
  BY <1>2, CancelEnds
<1>3. CASE recover_expired_lease
  BY <1>3, GivenUp DEF recover_expired_lease
<1>4. CASE \E a \in Attempts : claim_next_job(a)
  BY <1>4, ClaimStarts
<1>5. CASE \E a \in Attempts : Turn(a)
  BY <1>5, TurnKeepsLife
<1>6. CASE (\E a \in Attempts : Crash(a)) \/ UNCHANGED vars
  BY <1>6, NothingSeen DEF Crash, run, job, vars
<1>7. ~fork_debug
  BY DEF fork_debug, KInv, RowTypes
<1> QED BY <1>1, <1>2, <1>3, <1>4, <1>5, <1>6, <1>7 DEF Next

\* Between two forks the job of a run moves as JobLifecycle allows, whatever
\* attempts, users, crashes and lost leases do.
THEOREM RunJobIsAJob == Spec => JobKeepsItsLife
<1>1. KInv /\ [Next]_vars => [forks' = forks => Lifecycle!Next \/ UNCHANGED Lifecycle!lifecycle]_vars
  BY KernelKeepsLife
<1>2. Spec => [][forks' = forks => Lifecycle!Next \/ UNCHANGED Lifecycle!lifecycle]_vars
  BY <1>1, KernelInvariance, PTL DEF Spec
<1> QED BY <1>2 DEF JobKeepsItsLife
=============================================================================
