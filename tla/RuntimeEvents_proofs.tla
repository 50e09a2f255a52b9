-------------------------- MODULE RuntimeEvents_proofs --------------------------
(* What a browser is shown, proved for queues, turns, inputs and connections  *)
(* of any number: without a fault each event reaches it once and none is      *)
(* missed, and a task status never goes back.                                 *)
EXTENDS RuntimeEvents, FiniteSetTheorems, TLAPS

Numbered == {"terminal", "trace"} \X Nat
Told == {"terminal", "trace", "status"} \X Nat
Events == Told \union {Stop}
Items == [event : Told, hint : BOOLEAN]

(*****************************************************************************)
(* Sequences without repeats.  Of a task status there may be many.           *)
(*****************************************************************************)
Distinct(q) == \A i, j \in DOMAIN q : q[i] = q[j] /\ q[i] \in Numbered => i = j

(* What has a number in q.                                                   *)
Holds(q) == Elements(q) \intersect Numbered

(* What an event alone holds.                                                *)
Only(e) == {e} \intersect Numbered

LEMMA NumberedAreEvents == Numbered \subseteq Told /\ Told \subseteq Events /\ Stop \in Events /\ Stop \notin Told
BY DEF Numbered, Told, Events, Stop

LEMMA EmptyHolds == Holds(<<>>) = {} /\ Distinct(<<>>)
BY DEF Holds, Elements, Distinct

LEMMA HoldsMember ==
  ASSUME NEW q, NEW i \in DOMAIN q, q[i] \in Numbered
  PROVE  q[i] \in Holds(q)
BY DEF Holds, Elements

LEMMA AppendHolds ==
  ASSUME NEW S, NEW q \in Seq(S), NEW e \in S
  PROVE  /\ Append(q, e) \in Seq(S)
         /\ Holds(Append(q, e)) = Holds(q) \union Only(e)
         /\ Distinct(q) /\ e \notin Holds(q) => Distinct(Append(q, e))
<1> DEFINE p == Append(q, e)
           n == Len(q)
<1>1. /\ p \in Seq(S) /\ n \in Nat /\ DOMAIN q = 1..n /\ DOMAIN p = 1..(n + 1)
      /\ p[n + 1] = e /\ \A i \in 1..n : p[i] = q[i]
  OBVIOUS
<1> HIDE DEF p, n
<1>2. Elements(p) = Elements(q) \union {e}
  <2>1. \A i \in 1..(n + 1) : i = n + 1 \/ i \in 1..n
    BY <1>1
  <2>2. n + 1 \in 1..(n + 1) /\ \A i \in 1..n : i \in 1..(n + 1)
    BY <1>1
  <2> QED BY <1>1, <2>1, <2>2 DEF Elements
<1>3. ASSUME Distinct(q), e \notin Holds(q)
      PROVE  Distinct(p)
  <2> SUFFICES ASSUME NEW i \in 1..(n + 1), NEW j \in 1..(n + 1), p[i] = p[j], p[i] \in Numbered
               PROVE  i = j
    BY <1>1 DEF Distinct
  <2>1. \A k \in 1..n : q[k] \in Numbered => q[k] # e
    BY <1>1, <1>3, HoldsMember
  <2>2. CASE i \in 1..n /\ j \in 1..n
    BY <1>1, <1>3, <2>2 DEF Distinct
  <2>3. CASE i = n + 1 \/ j = n + 1
    BY <1>1, <2>1, <2>3
  <2> QED BY <1>1, <2>2, <2>3
<1> QED BY <1>1, <1>2, <1>3 DEF Holds, p, Only

LEMMA TailHolds ==
  ASSUME NEW S, NEW q \in Seq(S), q # <<>>
  PROVE  /\ Tail(q) \in Seq(S) /\ Head(q) \in S
         /\ Holds(q) = Holds(Tail(q)) \union Only(Head(q))
         /\ Distinct(q) => Distinct(Tail(q)) /\ Head(q) \notin Holds(Tail(q))
<1> DEFINE p == Tail(q)
           n == Len(q)
<1>1. /\ p \in Seq(S) /\ n \in Nat /\ n >= 1 /\ DOMAIN q = 1..n /\ DOMAIN p = 1..(n - 1)
      /\ Head(q) = q[1] /\ q[1] \in S /\ \A i \in 1..(n - 1) : p[i] = q[i + 1]
  OBVIOUS
<1> HIDE DEF p, n
<1>2. Elements(q) = Elements(p) \union {q[1]}
  <2>1. \A i \in 1..n : i = 1 \/ (i - 1 \in 1..(n - 1) /\ p[i - 1] = q[i])
    BY <1>1
  <2>2. 1 \in 1..n /\ \A i \in 1..(n - 1) : i + 1 \in 1..n
    BY <1>1
  <2>3. \A i \in 1..n : q[i] \in Elements(p) \union {q[1]}
    BY <1>1, <2>1 DEF Elements
  <2>4. \A i \in 1..(n - 1) : p[i] \in Elements(q)
    BY <1>1, <2>2 DEF Elements
  <2>5. q[1] \in Elements(q)
    BY <1>1, <2>2 DEF Elements
  <2> QED BY <1>1, <2>3, <2>4, <2>5 DEF Elements
<1>3. ASSUME Distinct(q)
      PROVE  Distinct(p) /\ q[1] \notin Holds(p)
  <2>1. \A i \in 1..(n - 1) : i + 1 \in 1..n /\ 1 \in 1..n /\ i + 1 # 1
    BY <1>1
  <2>2. Distinct(p)
    <3> SUFFICES ASSUME NEW i \in 1..(n - 1), NEW j \in 1..(n - 1), p[i] = p[j], p[i] \in Numbered
                 PROVE  i = j
      BY <1>1 DEF Distinct
    <3>1. i + 1 = j + 1
      BY <1>1, <1>3, <2>1 DEF Distinct
    <3> QED BY <3>1
  <2>3. \A i \in 1..(n - 1) : p[i] = q[1] => q[1] \notin Numbered
    BY <1>1, <1>3, <2>1 DEF Distinct
  <2> QED BY <1>1, <2>2, <2>3 DEF Holds, Elements
<1> QED BY <1>1, <1>2, <1>3 DEF Holds, p, Only

LEMMA TailElements ==
  ASSUME NEW S, NEW q \in Seq(S), q # <<>>
  PROVE  \A i \in DOMAIN Tail(q) : \E j \in DOMAIN q : j = i + 1 /\ Tail(q)[i] = q[j]
OBVIOUS

LEMMA ConcatHolds ==
  ASSUME NEW S, NEW p \in Seq(S), NEW q \in Seq(S)
  PROVE  /\ p \o q \in Seq(S)
         /\ Holds(p \o q) = Holds(p) \union Holds(q)
         /\ Distinct(p) /\ Distinct(q) /\ Holds(p) \intersect Holds(q) = {} => Distinct(p \o q)
<1> DEFINE r == p \o q
           m == Len(p)
           n == Len(q)
<1>1. /\ r \in Seq(S) /\ m \in Nat /\ n \in Nat
      /\ DOMAIN p = 1..m /\ DOMAIN q = 1..n /\ DOMAIN r = 1..(m + n)
      /\ \A i \in 1..m : r[i] = p[i]
      /\ \A i \in 1..(m + n) : i > m => r[i] = q[i - m]
  OBVIOUS
<1> HIDE DEF r, m, n
<1>2. \A i \in 1..(m + n) : i \in 1..m \/ (i > m /\ i - m \in 1..n)
  BY <1>1
<1>3. \A i \in 1..n : i + m \in 1..(m + n) /\ r[i + m] = q[i]
  BY <1>1
<1>4. \A i \in 1..m : i \in 1..(m + n)
  BY <1>1
<1>5. Elements(r) = Elements(p) \union Elements(q)
  <2>1. \A i \in 1..(m + n) : r[i] \in Elements(p) \union Elements(q)
    BY <1>1, <1>2 DEF Elements
  <2>2. \A i \in 1..m : p[i] \in Elements(r)
    BY <1>1, <1>4 DEF Elements
  <2>3. \A i \in 1..n : q[i] \in Elements(r)
    BY <1>1, <1>3 DEF Elements
  <2>4. Elements(r) \subseteq Elements(p) \union Elements(q)
    BY <1>1, <2>1 DEF Elements
  <2>5. Elements(p) \subseteq Elements(r)
    BY <1>1, <2>2 DEF Elements
  <2>6. Elements(q) \subseteq Elements(r)
    BY <1>1, <2>3 DEF Elements
  <2> QED BY <2>4, <2>5, <2>6
<1>6. ASSUME Distinct(p), Distinct(q), Holds(p) \intersect Holds(q) = {}
      PROVE  Distinct(r)
  <2> SUFFICES ASSUME NEW i \in 1..(m + n), NEW j \in 1..(m + n), r[i] = r[j], r[i] \in Numbered
               PROVE  i = j
    BY <1>1 DEF Distinct
  <2>1. CASE i \in 1..m /\ j \in 1..m
    BY <1>1, <1>6, <2>1 DEF Distinct
  <2>2. CASE i > m /\ j > m
    <3>1. i - m \in 1..n /\ j - m \in 1..n /\ r[i] = q[i - m] /\ r[j] = q[j - m]
      BY <1>1, <1>2, <2>2
    <3>2. i - m = j - m
      BY <1>1, <1>6, <3>1 DEF Distinct
    <3> QED BY <1>1, <3>2
  <2>3. CASE (i \in 1..m /\ j > m) \/ (j \in 1..m /\ i > m)
    <3>1. \A k \in 1..m, l \in 1..n : p[k] = q[l] => p[k] \notin Numbered
      BY <1>1, <1>6, HoldsMember
    <3> QED BY <1>1, <1>2, <2>3, <3>1
  <2> QED BY <1>2, <2>1, <2>2, <2>3
<1> QED BY <1>1, <1>5, <1>6 DEF Holds, r

(*****************************************************************************)
(* The way of an event from the commit to the browser, in stages.            *)
(*****************************************************************************)
Stages == 1..6

Clean(W) ==
    /\ \A s \in Stages : Distinct(W[s])
    /\ \A s, t \in Stages : s # t => Holds(W[s]) \intersect Holds(W[t]) = {}

(* Only the stages of S may differ.                                           *)
SameBut(S, W, V) == \A s \in Stages \ S : V[s] = W[s]

Carried(W) == {e \in Numbered : \E s \in Stages : e \in Holds(W[s])}

(* One stage changes: it is clean, and takes nothing that another one has.    *)
LEMMA StageChanges ==
  ASSUME NEW W, NEW V, NEW a \in Stages, SameBut({a}, W, V),
         Clean(W), Distinct(V[a]), \A s \in Stages : s # a => Holds(V[a]) \intersect Holds(W[s]) = {}
  PROVE  Clean(V)
<1>1. \A s \in Stages : Distinct(V[s])
  BY DEF Clean, SameBut
<1>2. ASSUME NEW s \in Stages, NEW t \in Stages, s # t
      PROVE  Holds(V[s]) \intersect Holds(V[t]) = {}
  <2>1. CASE s = a
    BY <1>2, <2>1 DEF SameBut
  <2>2. CASE t = a
    BY <1>2, <2>2 DEF SameBut
  <2>3. CASE s # a /\ t # a
    BY <1>2, <2>3 DEF Clean, SameBut
  <2> QED BY <2>1, <2>2, <2>3
<1> QED BY <1>1, <1>2 DEF Clean

(* The first of stage a leaves the way.                                       *)
LEMMA Dropped ==
  ASSUME NEW W, NEW V, NEW a \in Stages, W[a] \in Seq(Events), W[a] # <<>>,
         V[a] = Tail(W[a]), SameBut({a}, W, V)
  PROVE  /\ Clean(W) => Clean(V) /\ \A s \in Stages : Head(W[a]) \in Numbered => Head(W[a]) \notin Holds(V[s])
         /\ Carried(W) = Carried(V) \union Only(Head(W[a]))
<1>1. /\ Holds(W[a]) = Holds(V[a]) \union Only(Head(W[a]))
      /\ Distinct(W[a]) => Distinct(V[a]) /\ Head(W[a]) \notin Holds(V[a])
  BY TailHolds
<1>2. ASSUME Clean(W)
      PROVE  Clean(V) /\ \A s \in Stages : Head(W[a]) \in Numbered => Head(W[a]) \notin Holds(V[s])
  <2>1. Distinct(V[a]) /\ Head(W[a]) \notin Holds(V[a])
    BY <1>1, <1>2 DEF Clean
  <2>2. \A s \in Stages : s # a => Holds(W[a]) \intersect Holds(W[s]) = {}
    BY <1>2 DEF Clean
  <2>3. \A s \in Stages : s # a => Holds(V[a]) \intersect Holds(W[s]) = {}
    BY <1>1, <2>2
  <2>4. Clean(V)
    BY <1>2, <2>1, <2>3, StageChanges
  <2>5. \A s \in Stages : s # a /\ Head(W[a]) \in Numbered => Head(W[a]) \notin Holds(V[s])
    BY <1>1, <2>2 DEF Only, SameBut
  <2> QED BY <2>1, <2>4, <2>5
<1>3. Carried(W) = Carried(V) \union Only(Head(W[a]))
  <2>1. \A e \in Numbered : e \in Holds(W[a]) <=> e \in Holds(V[a]) \/ e = Head(W[a])
    BY <1>1 DEF Only
  <2>2. \A e \in Numbered : (\E s \in Stages : e \in Holds(W[s])) <=>
                            (\E s \in Stages : e \in Holds(V[s])) \/ e = Head(W[a])
    BY <2>1 DEF SameBut
  <2> QED BY <2>2 DEF Carried, Only
<1> QED BY <1>2, <1>3

(* An event that is nowhere on the way, or has no number, comes to stage a.   *)
LEMMA Joined ==
  ASSUME NEW W, NEW V, NEW a \in Stages, W[a] \in Seq(Events), NEW e \in Events,
         V[a] = Append(W[a], e), SameBut({a}, W, V),
         Clean(W), \A s \in Stages : e \in Numbered => e \notin Holds(W[s])
  PROVE  Clean(V)
<1>1. /\ Holds(V[a]) = Holds(W[a]) \union Only(e)
      /\ Distinct(W[a]) /\ e \notin Holds(W[a]) => Distinct(V[a])
  BY AppendHolds
<1>2. Distinct(W[a]) /\ \A s \in Stages : s # a => Holds(W[a]) \intersect Holds(W[s]) = {}
  BY DEF Clean
<1>3. e \notin Holds(W[a])
  BY DEF Holds
<1>4. \A s \in Stages : s # a => Holds(V[a]) \intersect Holds(W[s]) = {}
  BY <1>1, <1>2 DEF Only
<1> QED BY <1>1, <1>2, <1>3, <1>4, StageChanges

(* What stage a gains the way carries.                                        *)
LEMMA StageGains ==
  ASSUME NEW W, NEW V, NEW a \in Stages, NEW E, Holds(V[a]) = Holds(W[a]) \union E,
         SameBut({a}, W, V)
  PROVE  Carried(V) = Carried(W) \union E
<1>1. E \subseteq Numbered
  BY DEF Holds
<1>2. \A x \in Numbered : (\E s \in Stages : x \in Holds(V[s])) <=>
                          (\E s \in Stages : x \in Holds(W[s])) \/ x \in E
  BY DEF SameBut
<1> QED BY <1>1, <1>2 DEF Carried

(* The first of stage a goes on to stage b; a task status may change with it. *)
LEMMA Moved ==
  ASSUME NEW W, NEW V, NEW a \in Stages, NEW b \in Stages, a # b,
         W[a] \in Seq(Events), W[b] \in Seq(Events), W[a] # <<>>,
         NEW e \in Events, e = Head(W[a]) \/ {e, Head(W[a])} \intersect Numbered = {},
         V[a] = Tail(W[a]), V[b] = Append(W[b], e), SameBut({a, b}, W, V)
  PROVE  (Clean(W) => Clean(V)) /\ Carried(V) = Carried(W)
<1> DEFINE U == [s \in Stages |-> IF s = a THEN Tail(W[a]) ELSE W[s]]
<1>1. /\ U[a] = Tail(W[a]) /\ U[b] = W[b] /\ SameBut({a}, W, U)
      /\ V[b] = Append(U[b], e) /\ SameBut({b}, U, V)
  BY DEF SameBut
<1> HIDE DEF U
<1>2. /\ Clean(W) => Clean(U) /\ \A s \in Stages : Head(W[a]) \in Numbered => Head(W[a]) \notin Holds(U[s])
      /\ Carried(W) = Carried(U) \union Only(Head(W[a]))
  BY <1>1, Dropped
<1>3. U[b] \in Seq(Events) /\ V[b] = Append(U[b], e) /\ SameBut({b}, U, V)
  BY <1>1
<1>4. Carried(V) = Carried(U) \union Only(e)
  <2>1. Holds(V[b]) = Holds(U[b]) \union Only(e)
    BY <1>3, AppendHolds
  <2> QED BY <1>3, <2>1, StageGains
<1>5. (Clean(U) /\ \A s \in Stages : e \in Numbered => e \notin Holds(U[s])) => Clean(V)
  BY <1>3, Joined
<1>6. {e} \intersect Numbered = {Head(W[a])} \intersect Numbered /\ (e \in Numbered => e = Head(W[a]))
  OBVIOUS
<1> QED BY <1>2, <1>4, <1>5, <1>6 DEF Only

(*****************************************************************************)
(* The inductive invariant.                                                  *)
(*****************************************************************************)
OnBus == [i \in DOMAIN bus |-> bus[i].event]

(* What the API queues for NOTIFY ends at its own listener and is not on the  *)
(* way.                                                                       *)
way == <<received, OnBus, channel, queue["worker"], pending["worker"], pending["api"]>>

Typed ==
    /\ TypeOK
    /\ pending \in [Producers -> Seq(Told)] /\ queue \in [Producers -> Seq(Events)]
    /\ channel \in Seq(Told) /\ bus \in Seq(Items) /\ received \in Seq(Told)

(* Whatever has a number was committed.                                       *)
Committed == Carried(way) \union Holds(queue["api"]) \subseteq CommittedEvents

(* Without a fault no event is on the way twice, and none is lost that a      *)
(* browser could not read when it connected.                                  *)
NoneLost ==
    faults = 0 =>
      /\ Clean(way)
      /\ listening /\ (closed => pending["worker"] = <<>>)
      /\ online => CommittedEvents \subseteq since \union Carried(way)

(* A status is shown in order; one that no hint repeats is that of the end.   *)
ShownInOrder ==
    /\ StatusNeverGoesBack
    /\ \A i \in DOMAIN received : received[i][1] = "status" => received[i][2] <= committed.status

LastStatus(event) == event[1] = "status" => committed.ended /\ event[2] = committed.status

ApiTellsTheEnd ==
    /\ \A i \in DOMAIN pending["api"] : LastStatus(pending["api"][i])
    /\ \A i \in DOMAIN bus : ~bus[i].hint => LastStatus(bus[i].event)

EInv == Typed /\ Committed /\ NoneLost /\ ShownInOrder /\ ApiTellsTheEnd

LEMMA ItemsTold == \A x \in Items : x.event \in Told /\ x.hint \in BOOLEAN
BY DEF Items

LEMMA WayStages ==
  /\ way[1] = received /\ way[2] = OnBus /\ way[3] = channel /\ way[4] = queue["worker"]
  /\ way[5] = pending["worker"] /\ way[6] = pending["api"]
  /\ way'[1] = received' /\ way'[2] = OnBus' /\ way'[3] = channel' /\ way'[4] = queue'["worker"]
  /\ way'[5] = pending'["worker"] /\ way'[6] = pending'["api"]
  /\ Stages = {1, 2, 3, 4, 5, 6}
BY DEF way, Stages

LEMMA WayTyped ==
  ASSUME Typed
  PROVE  /\ \A s \in Stages : way[s] \in Seq(Events)
         /\ OnBus \in Seq(Told) /\ DOMAIN OnBus = DOMAIN bus /\ Len(OnBus) = Len(bus)
         /\ OnBus = <<>> <=> bus = <<>>
<1>1. OnBus \in Seq(Told) /\ DOMAIN OnBus = DOMAIN bus /\ Len(OnBus) = Len(bus) /\ (OnBus = <<>> <=> bus = <<>>)
  <2>1. \A i \in 1..Len(bus) : bus[i].event \in Told
    BY ItemsTold DEF Typed
  <2>2. DOMAIN OnBus = 1..Len(bus) /\ Len(bus) \in Nat /\ DOMAIN bus = 1..Len(bus)
    BY DEF Typed, OnBus
  <2>3. OnBus \in [1..Len(bus) -> Told]
    BY <2>1, <2>2 DEF OnBus
  <2>4. OnBus \in Seq(Told) /\ Len(OnBus) = Len(bus)
    BY <2>2, <2>3
  <2> QED BY <2>2, <2>4 DEF Typed
<1>2. Seq(Told) \subseteq Seq(Events)
  BY NumberedAreEvents
<1>3. /\ received \in Seq(Events) /\ channel \in Seq(Events) /\ queue["worker"] \in Seq(Events)
      /\ pending["worker"] \in Seq(Events) /\ pending["api"] \in Seq(Events)
  BY <1>2 DEF Typed, Producers
<1> QED BY <1>1, <1>2, <1>3, WayStages

LEMMA BusAppends ==
  ASSUME Typed, NEW event \in Told, NEW h \in BOOLEAN, bus' = Append(bus, [event |-> event, hint |-> h])
  PROVE  bus' \in Seq(Items) /\ OnBus' = Append(OnBus, event)
<1>1. [event |-> event, hint |-> h] \in Items
  BY DEF Items
<1>2. bus' \in Seq(Items) /\ Len(bus') = Len(bus) + 1 /\ Len(bus) \in Nat
  BY <1>1 DEF Typed
<1>3. OnBus \in Seq(Told) /\ Len(OnBus) = Len(bus) /\ DOMAIN OnBus = DOMAIN bus
  BY WayTyped
<1>4. OnBus' \in Seq(Told) /\ Len(OnBus') = Len(bus) + 1
  <2>1. \A i \in 1..Len(bus') : bus'[i].event \in Told
    BY <1>2, ItemsTold
  <2>2. OnBus' \in [1..Len(bus') -> Told]
    BY <1>2, <2>1 DEF OnBus
  <2> QED BY <1>2, <2>2
<1>5. \A i \in 1..(Len(bus) + 1) : OnBus'[i] = Append(OnBus, event)[i]
  BY <1>2, <1>3 DEF OnBus, Typed
<1> QED BY <1>2, <1>3, <1>4, <1>5

LEMMA BusTail ==
  ASSUME Typed, bus # <<>>, bus' = Tail(bus)
  PROVE  bus' \in Seq(Items) /\ Head(bus) \in Items /\ OnBus' = Tail(OnBus) /\ Head(OnBus) = Head(bus).event
<1>1. bus' \in Seq(Items) /\ Head(bus) \in Items /\ Len(bus') = Len(bus) - 1 /\ Len(bus) \in Nat /\ Len(bus) >= 1
  BY DEF Typed
<1>2. OnBus \in Seq(Told) /\ Len(OnBus) = Len(bus) /\ DOMAIN OnBus = DOMAIN bus
  BY WayTyped
<1>3. OnBus' \in Seq(Told) /\ Len(OnBus') = Len(bus) - 1
  <2>1. \A i \in 1..Len(bus') : bus'[i].event \in Told
    BY <1>1, ItemsTold
  <2>2. OnBus' \in [1..Len(bus') -> Told]
    BY <1>1, <2>1 DEF OnBus
  <2>3. Len(bus') \in Nat
    BY <1>1
  <2>4. OnBus' \in Seq(Told) /\ Len(OnBus') = Len(bus')
    BY <2>2, <2>3
  <2> QED BY <1>1, <2>4
<1>4. \A i \in 1..(Len(bus) - 1) : OnBus'[i] = Tail(OnBus)[i]
  BY <1>1, <1>2 DEF OnBus, Typed
<1>5. Head(OnBus) = Head(bus).event
  BY <1>1, <1>2 DEF OnBus, Typed
<1> QED BY <1>1, <1>2, <1>3, <1>4, <1>5

(* What holds when every event stays committed and none is lost or doubled    *)
(* without a fault.                                                           *)
LEMMA OnTheWay ==
  ASSUME EInv, committed' = committed, Holds(queue'["api"]) \subseteq CommittedEvents,
         \A s \in Stages : Holds(way'[s]) \subseteq CommittedEvents,
         faults' = 0 =>
           /\ faults = 0 /\ Clean(way') /\ listening' /\ (closed' => pending'["worker"] = <<>>)
           /\ online' => online /\ since' = since /\ Carried(way') = Carried(way)
  PROVE  Committed' /\ NoneLost'
<1>1. CommittedEvents' = CommittedEvents
  BY DEF CommittedEvents
<1>2. Carried(way') \subseteq CommittedEvents
  BY DEF Carried
<1>3. Committed'
  BY <1>1, <1>2 DEF Committed
<1>4. NoneLost'
  BY <1>1 DEF EInv, NoneLost
<1> QED BY <1>3, <1>4

LEMMA HeldIsCommitted ==
  ASSUME EInv
  PROVE  /\ \A s \in Stages : Holds(way[s]) \subseteq CommittedEvents
         /\ Holds(queue["api"]) \subseteq CommittedEvents
<1>1. Carried(way) \subseteq CommittedEvents /\ Holds(queue["api"]) \subseteq CommittedEvents
  BY DEF EInv, Committed
<1>2. \A s \in Stages : Holds(way[s]) \subseteq Carried(way)
  BY DEF Carried, Holds
<1> QED BY <1>1, <1>2

(* Where nothing is shown and the API announces nothing, the statuses stay.   *)
LEMMA StatusesStay ==
  ASSUME EInv, UNCHANGED <<committed, received, pending, bus>>
  PROVE  ShownInOrder' /\ ApiTellsTheEnd'
BY DEF EInv, ShownInOrder, ApiTellsTheEnd, StatusNeverGoesBack, LastStatus

LEMMA FaultCounts ==
  ASSUME Typed, Fault
  PROVE  faults' # 0 /\ faults' \in 0..MaxFaults
BY EventsAssumption DEF Typed, TypeOK, Fault

(*****************************************************************************)
(* The browser and its connection.                                           *)
(*****************************************************************************)
LEMMA DisconnectStep ==
  ASSUME EInv, disconnect
  PROVE  EInv'
<1>1. UNCHANGED <<committed, turns, inputs, pending, queue, closed, channel, listening, bus, since,
                  received, connects, faults>> /\ online' = FALSE
  BY DEF disconnect
<1>2. Typed'
  BY <1>1 DEF EInv, Typed, TypeOK
<1>3. way' = way
  BY <1>1 DEF way, OnBus
<1>4. Committed' /\ NoneLost'
  BY <1>1, <1>3, OnTheWay, HeldIsCommitted DEF EInv, NoneLost
<1> QED BY <1>1, <1>2, <1>4, StatusesStay DEF EInv

LEMMA ReconnectStep ==
  ASSUME EInv, ListenerReconnects
  PROVE  EInv'
<1>1. UNCHANGED <<committed, turns, inputs, pending, queue, closed, channel, bus, online, since,
                  received, connects, faults>> /\ listening' = TRUE
  BY DEF ListenerReconnects
<1>2. Typed'
  BY <1>1 DEF EInv, Typed, TypeOK
<1>3. way' = way
  BY <1>1 DEF way, OnBus
<1>4. Committed' /\ NoneLost'
  BY <1>1, <1>3, OnTheWay, HeldIsCommitted DEF EInv, NoneLost
<1> QED BY <1>1, <1>2, <1>4, StatusesStay DEF EInv

LEMMA ListenerFailsStep ==
  ASSUME EInv, ListenerFails
  PROVE  EInv'
<1>1. UNCHANGED <<committed, turns, inputs, pending, queue, closed, bus, online, since, received, connects>>
      /\ listening' = FALSE /\ channel' = <<>> /\ faults' # 0 /\ faults' \in 0..MaxFaults
  BY FaultCounts DEF EInv, ListenerFails
<1>2. Typed'
  <2>1. channel' \in Seq(Told)
    BY <1>1
  <2>2. listening' \in BOOLEAN
    BY <1>1
  <2> QED BY <1>1, <2>1, <2>2 DEF EInv, Typed, TypeOK
<1>3. \A s \in Stages : Holds(way'[s]) \subseteq CommittedEvents
  <2>1. OnBus' = OnBus
    BY <1>1 DEF OnBus
  <2> QED BY <1>1, <2>1, WayStages, HeldIsCommitted, EmptyHolds
<1>4. Committed' /\ NoneLost'
  BY <1>1, <1>3, OnTheWay, HeldIsCommitted
<1> QED BY <1>1, <1>2, <1>4, StatusesStay DEF EInv

(* A browser that connects has received nothing and reads what is committed.  *)
LEMMA ConnectStep ==
  ASSUME EInv, connect
  PROVE  EInv'
<1>1. /\ UNCHANGED <<committed, turns, inputs, pending, queue, closed, channel, listening, bus, faults>>
      /\ online' = TRUE /\ since' = CommittedEvents /\ received' = <<>>
      /\ connects < MaxConnects /\ connects' = connects + 1
  BY DEF connect
<1>2. Typed'
  <2>1. connects' \in 0..MaxConnects
    BY <1>1, EventsAssumption DEF EInv, Typed, TypeOK
  <2> QED BY <1>1, <2>1 DEF EInv, Typed, TypeOK
<1>3. OnBus' = OnBus /\ CommittedEvents' = CommittedEvents
  BY <1>1 DEF OnBus, CommittedEvents
<1>4. \A s \in Stages : Holds(way'[s]) \subseteq CommittedEvents
  BY <1>1, <1>3, WayStages, HeldIsCommitted, EmptyHolds
<1>5. Committed'
  <2>1. Carried(way') \subseteq CommittedEvents
    BY <1>4 DEF Carried
  <2> QED BY <1>1, <1>3, <2>1, HeldIsCommitted DEF Committed
<1>6. NoneLost'
  <2>1. Clean(way) => Clean(way')
    <3>1. SameBut({1}, way, way') /\ 1 \in Stages /\ way'[1] = <<>>
      BY <1>1, <1>3, WayStages DEF SameBut
    <3>2. Distinct(way'[1]) /\ \A s \in Stages : s # 1 => Holds(way'[1]) \intersect Holds(way[s]) = {}
      BY <3>1, EmptyHolds
    <3> QED BY <3>1, <3>2, StageChanges
  <2> QED BY <1>1, <1>3, <2>1 DEF EInv, NoneLost
<1>7. ShownInOrder' /\ ApiTellsTheEnd'
  BY <1>1 DEF EInv, ShownInOrder, ApiTellsTheEnd, StatusNeverGoesBack, LastStatus
<1> QED BY <1>2, <1>5, <1>6, <1>7 DEF EInv

(*****************************************************************************)
(* Between the processes.                                                    *)
(*****************************************************************************)
LEMMA ListenStep ==
  ASSUME EInv, _listener
  PROVE  EInv'
<1>1. /\ UNCHANGED <<committed, turns, inputs, pending, queue, closed, listening, online, since,
                     received, connects, faults>>
      /\ channel # <<>> /\ channel' = Tail(channel)
      /\ bus' = Append(bus, [event |-> Head(channel), hint |-> TRUE])
  BY DEF _listener
<1>2. channel \in Seq(Told) /\ channel' \in Seq(Told) /\ Head(channel) \in Told /\ Head(channel) \in Events
  BY <1>1, TailHolds, NumberedAreEvents DEF EInv, Typed
<1>3. bus' \in Seq(Items) /\ OnBus' = Append(OnBus, Head(channel))
  BY <1>1, <1>2, BusAppends DEF EInv
<1>4. Typed'
  BY <1>1, <1>2, <1>3 DEF EInv, Typed, TypeOK
<1>5. (Clean(way) => Clean(way')) /\ Carried(way') = Carried(way)
  <2>1. /\ 3 \in Stages /\ 2 \in Stages /\ way[3] \in Seq(Events) /\ way[2] \in Seq(Events) /\ way[3] # <<>>
        /\ way'[3] = Tail(way[3]) /\ way'[2] = Append(way[2], Head(channel)) /\ Head(channel) = Head(way[3])
    BY <1>1, <1>3, WayStages, WayTyped DEF EInv
  <2>2. SameBut({3, 2}, way, way')
    BY <1>1, WayStages DEF SameBut
  <2>3. 3 # 2
    OBVIOUS
  <2> QED BY <1>2, <2>1, <2>2, <2>3, Moved, ZenonT(30)
<1>6. \A s \in Stages : Holds(way'[s]) \subseteq CommittedEvents
  <2>1. \A s \in Stages : Holds(way'[s]) \subseteq Carried(way')
    BY DEF Carried, Holds
  <2> QED BY <1>5, <2>1 DEF EInv, Committed
<1>7. Committed' /\ NoneLost'
  BY <1>1, <1>5, <1>6, OnTheWay, HeldIsCommitted DEF EInv, NoneLost
<1>8. ShownInOrder'
  BY <1>1 DEF EInv, ShownInOrder, StatusNeverGoesBack
<1>9. ApiTellsTheEnd'
  <2>1. \A i \in DOMAIN bus' : bus'[i].hint \/ (i \in DOMAIN bus /\ bus'[i] = bus[i])
    BY <1>1 DEF EInv, Typed
  <2> QED BY <1>1, <2>1 DEF EInv, ApiTellsTheEnd, LastStatus
<1> QED BY <1>4, <1>7, <1>8, <1>9 DEF EInv

(* A hint of either process: sent, given up, sent twice, or the sentinel.     *)
LEMMA PublisherStep ==
  ASSUME EInv, NEW p \in Producers, _publisher(p)
  PROVE  EInv'
<1> DEFINE e == Head(queue[p])
<1>1. /\ UNCHANGED <<committed, turns, inputs, pending, closed, listening, bus, online, since,
                     received, connects>>
      /\ queue[p] # <<>> /\ queue' = [queue EXCEPT ![p] = Tail(@)]
  BY DEF _publisher
<1>2. \/ e = Stop /\ UNCHANGED <<channel, faults>>
      \/ e # Stop /\ faults' = faults /\ channel' = Notified(p, e)
      \/ /\ faults' # 0 /\ faults' \in 0..MaxFaults /\ e # Stop
         /\ channel' = channel \/ channel' = channel \o <<e, e>>
  BY FaultCounts DEF _publisher, EInv
<1>3. /\ queue[p] \in Seq(Events) /\ Tail(queue[p]) \in Seq(Events) /\ e \in Events
      /\ Holds(queue[p]) = Holds(Tail(queue[p])) \union Only(e)
  BY <1>1, TailHolds DEF EInv, Typed
<1>4. /\ queue' \in [Producers -> Seq(Events)] /\ queue'[p] = Tail(queue[p])
      /\ \A r \in Producers : r # p => queue'[r] = queue[r]
  BY <1>1, <1>3 DEF EInv, Typed
<1>5. OnBus' = OnBus
  BY <1>1 DEF OnBus
<1>6. e # Stop => e \in Told
  BY <1>3 DEF Events
<1>7. channel' \in Seq(Told) /\ Holds(channel') \subseteq Holds(channel) \union Only(e) /\ faults' \in 0..MaxFaults
  <2>1. channel \in Seq(Told) /\ faults \in 0..MaxFaults
    BY DEF EInv, Typed, TypeOK
  <2>2. CASE e # Stop
    <3>1. Append(channel, e) \in Seq(Told) /\ Holds(Append(channel, e)) = Holds(channel) \union Only(e)
      BY <1>6, <2>1, <2>2, AppendHolds
    <3>2. <<e, e>> \in Seq(Told) /\ Holds(<<e, e>>) = Only(e)
      BY <1>6, <2>2 DEF Holds, Elements, Only
    <3>3. channel \o <<e, e>> \in Seq(Told) /\ Holds(channel \o <<e, e>>) = Holds(channel) \union Only(e)
      <4> DEFINE q == <<e, e>>
      <4> HIDE DEF q
      <4>1. channel \o q \in Seq(Told) /\ Holds(channel \o q) = Holds(channel) \union Holds(q)
        <5>1. q \in Seq(Told)
          BY <3>2 DEF q
        <5> QED BY <2>1, <5>1, ConcatHolds
      <4> QED BY <3>2, <4>1 DEF q
    <3> QED BY <1>2, <2>1, <2>2, <3>1, <3>3 DEF Notified
  <2>3. CASE e = Stop
    BY <1>2, <2>1, <2>3
  <2> QED BY <2>2, <2>3
<1>8. Typed'
  <2>1. \A r \in Producers : Len(queue'[r]) <= QueueSize + 1
    <3>1. Len(Tail(queue[p])) = Len(queue[p]) - 1 /\ Len(queue[p]) \in Nat /\ Len(queue[p]) <= QueueSize + 1
      BY <1>1, <1>3 DEF EInv, Typed, TypeOK
    <3>2. \A r \in Producers : Len(queue[r]) <= QueueSize + 1
      BY DEF EInv, Typed, TypeOK
    <3>3. Len(queue'[p]) <= QueueSize + 1
      BY <1>4, <3>1, EventsAssumption
    <3> QED BY <1>4, <3>2, <3>3
  <2> QED BY <1>1, <1>4, <1>7, <2>1 DEF EInv, Typed, TypeOK
<1>9. \A s \in Stages : Holds(way'[s]) \subseteq CommittedEvents
  <2>1. Holds(queue'["worker"]) \subseteq Holds(queue["worker"])
    BY <1>3, <1>4 DEF Producers
  <2>2. Only(e) \subseteq CommittedEvents
    <3>1. p \in {"worker", "api"} /\ Only(e) \subseteq Holds(queue[p])
      BY <1>3 DEF Producers
    <3> QED BY <3>1, HeldIsCommitted, WayStages
  <2> QED BY <1>1, <1>5, <1>7, <2>1, <2>2, WayStages, HeldIsCommitted
<1>10. Holds(queue'["api"]) \subseteq CommittedEvents
  BY <1>3, <1>4, HeldIsCommitted DEF Producers
<1>11. ASSUME faults' = 0
       PROVE  faults = 0 /\ Clean(way') /\ Carried(way') = Carried(way)
  <2>1. faults = 0 /\ listening /\ Clean(way)
    BY <1>2, <1>11 DEF EInv, NoneLost
  <2>2. CASE p = "api"
    <3>1. channel' = channel
      BY <1>2, <1>11, <2>2 DEF Notified, FromSelf
    <3>2. queue'["worker"] = queue["worker"]
      BY <1>4, <2>2 DEF Producers
    <3>3. way' = way
      BY <1>1, <1>5, <3>1, <3>2 DEF way
    <3> QED BY <2>1, <3>3
  <2>3. CASE p = "worker" /\ e # Stop
    <3>1. channel' = Append(channel, e)
      BY <1>2, <1>11, <2>1, <2>3 DEF Notified, FromSelf
    <3>2. /\ 4 \in Stages /\ 3 \in Stages /\ way[4] \in Seq(Events) /\ way[3] \in Seq(Events) /\ way[4] # <<>>
          /\ way'[4] = Tail(way[4]) /\ way'[3] = Append(way[3], e) /\ e = Head(way[4])
      BY <1>1, <1>4, <2>3, <3>1, WayStages, WayTyped DEF EInv
    <3>3. SameBut({4, 3}, way, way')
      BY <1>1, <1>5, WayStages DEF SameBut
    <3> HIDE DEF e
    <3>4. (Clean(way) => Clean(way')) /\ Carried(way') = Carried(way)
      <4>1. 4 # 3
        OBVIOUS
      <4> QED BY <1>3, <3>2, <3>3, <4>1, Moved, ZenonT(30)
    <3> QED BY <2>1, <3>4
  <2>4. CASE p = "worker" /\ e = Stop
    <3>1. /\ 4 \in Stages /\ way[4] \in Seq(Events) /\ way[4] # <<>> /\ way'[4] = Tail(way[4])
          /\ Head(way[4]) = Stop
      BY <1>1, <1>4, <2>4, WayStages, WayTyped DEF EInv
    <3>2. SameBut({4}, way, way')
      BY <1>1, <1>2, <1>5, <2>4, WayStages DEF SameBut
    <3>3. (Clean(way) => Clean(way')) /\ Carried(way) = Carried(way') \union Only(Stop)
      BY <3>1, <3>2, Dropped
    <3>4. Only(Stop) = {}
      BY NumberedAreEvents DEF Only
    <3> QED BY <2>1, <3>3, <3>4
  <2> QED BY <2>2, <2>3, <2>4 DEF Producers
<1>12. Committed' /\ NoneLost'
  BY <1>1, <1>9, <1>10, <1>11, OnTheWay DEF EInv, NoneLost
<1>13. ShownInOrder' /\ ApiTellsTheEnd'
  BY <1>1, StatusesStay
<1> QED BY <1>8, <1>12, <1>13 DEF EInv

(*****************************************************************************)
(* The publication of a commit, and the sink of the worker.                  *)
(*****************************************************************************)
LEMMA PublishStep ==
  ASSUME EInv, NEW p \in Producers, publish(p)
  PROVE  EInv'
<1> DEFINE e == Head(pending[p])
<1>1. /\ UNCHANGED <<committed, turns, inputs, closed, channel, listening, online, since, received, connects>>
      /\ pending[p] # <<>> /\ queue' = Offered(p, e)
      /\ pending' = [pending EXCEPT ![p] = IF p = "worker" /\ RaisesKeyError(p, e) THEN <<>> ELSE Tail(@)]
      /\ bus' = IF p = "api" THEN Append(bus, [event |-> e, hint |-> FALSE]) ELSE bus
  BY DEF publish
<1>2. \/ Full(p) /\ faults' # 0 /\ faults' \in 0..MaxFaults
      \/ ~Full(p) /\ faults' = faults
  BY FaultCounts DEF publish, EInv
<1>3. /\ pending[p] \in Seq(Told) /\ Tail(pending[p]) \in Seq(Told) /\ e \in Told /\ e \in Events
      /\ Holds(pending[p]) = Holds(Tail(pending[p])) \union Only(e)
  BY <1>1, TailHolds, NumberedAreEvents DEF EInv, Typed
<1>4. /\ pending' \in [Producers -> Seq(Told)] /\ \A r \in Producers : r # p => pending'[r] = pending[r]
      /\ pending'[p] = Tail(pending[p]) \/ (p = "worker" /\ Full(p) /\ pending'[p] = <<>>)
  <2>1. <<>> \in Seq(Told)
    OBVIOUS
  <2> QED BY <1>1, <1>3, <2>1 DEF EInv, Typed, RaisesKeyError
<1>5. bus' \in Seq(Items) /\ (p = "api" => OnBus' = Append(OnBus, e)) /\ (p # "api" => OnBus' = OnBus)
  <2>1. CASE p = "api"
    BY <1>1, <1>3, <2>1, BusAppends DEF EInv
  <2>2. CASE p # "api"
    BY <1>1, <2>2 DEF EInv, Typed, OnBus
  <2> QED BY <2>1, <2>2
<1>6. /\ queue' \in [Producers -> Seq(Events)] /\ \A r \in Producers : Len(queue'[r]) <= QueueSize + 1
      /\ \A r \in Producers : r # p => queue'[r] = queue[r]
      /\ \/ queue' = queue /\ (Full(p) \/ (p = "worker" /\ closed))
         \/ queue'[p] = Append(queue[p], e) /\ ~Full(p)
  <2>1. /\ queue \in [Producers -> Seq(Events)] /\ Append(queue[p], e) \in Seq(Events)
        /\ Len(Append(queue[p], e)) = Len(queue[p]) + 1 /\ Len(queue[p]) \in Nat
    BY <1>3 DEF EInv, Typed
  <2>2. \A r \in Producers : Len(queue[r]) <= QueueSize + 1
    BY DEF EInv, Typed, TypeOK
  <2>3. CASE Full(p) \/ (p = "worker" /\ closed)
    BY <1>1, <2>1, <2>2, <2>3 DEF Offered
  <2>4. CASE ~(Full(p) \/ (p = "worker" /\ closed))
    <3>1. queue' = [queue EXCEPT ![p] = Append(@, e)]
      BY <1>1, <2>4 DEF Offered
    <3>2. /\ queue' \in [Producers -> Seq(Events)] /\ queue'[p] = Append(queue[p], e)
          /\ \A r \in Producers : r # p => queue'[r] = queue[r]
      BY <2>1, <3>1
    <3>3. Len(queue'[p]) <= QueueSize + 1
      BY <2>1, <2>4, <3>2, EventsAssumption DEF Full
    <3> QED BY <2>2, <2>4, <3>2, <3>3
  <2> QED BY <2>3, <2>4
<1>7. Typed'
  BY <1>1, <1>2, <1>4, <1>5, <1>6 DEF EInv, Typed, TypeOK
<1>8. Only(e) \subseteq CommittedEvents
  <2>1. p \in {"worker", "api"} /\ Only(e) \subseteq Holds(pending[p])
    BY <1>3 DEF Producers
  <2> QED BY <2>1, HeldIsCommitted, WayStages
<1>9. /\ \A r \in Producers : Holds(pending'[r]) \subseteq Holds(pending[r])
      /\ \A r \in Producers : Holds(queue'[r]) \subseteq Holds(queue[r]) \union Only(e)
      /\ Holds(OnBus') \subseteq Holds(OnBus) \union Only(e)
  <2>1. \A r \in Producers : Holds(pending'[r]) \subseteq Holds(pending[r])
    BY <1>3, <1>4, EmptyHolds
  <2>2. Holds(Append(queue[p], e)) = Holds(queue[p]) \union Only(e)
    BY <1>3, AppendHolds DEF EInv, Typed
  <2>3. Holds(Append(OnBus, e)) = Holds(OnBus) \union Only(e)
    BY <1>3, WayTyped, AppendHolds DEF EInv
  <2> QED BY <1>5, <1>6, <2>1, <2>2, <2>3
<1>10. \A s \in Stages : Holds(way'[s]) \subseteq CommittedEvents
  BY <1>1, <1>8, <1>9, WayStages, HeldIsCommitted DEF Producers
<1>11. Holds(queue'["api"]) \subseteq CommittedEvents
  BY <1>8, <1>9, HeldIsCommitted DEF Producers
<1>12. ASSUME faults' = 0
       PROVE  /\ faults = 0 /\ Clean(way') /\ Carried(way') = Carried(way)
              /\ (closed' => pending'["worker"] = <<>>) /\ listening
  <2>1. /\ faults = 0 /\ listening /\ Clean(way) /\ ~Full(p) /\ pending'[p] = Tail(pending[p])
        /\ (p = "worker" => ~closed) /\ (closed => pending["worker"] = <<>>)
    BY <1>1, <1>2, <1>4, <1>12 DEF EInv, NoneLost
  <2>2. CASE p = "api"
    <3>1. /\ 6 \in Stages /\ 2 \in Stages /\ way[6] \in Seq(Events) /\ way[2] \in Seq(Events) /\ way[6] # <<>>
          /\ way'[6] = Tail(way[6]) /\ way'[2] = Append(way[2], e) /\ e = Head(way[6])
      BY <1>1, <1>5, <2>1, <2>2, WayStages, WayTyped DEF EInv
    <3>2. SameBut({6, 2}, way, way') /\ pending'["worker"] = pending["worker"]
      BY <1>1, <1>4, <1>6, <2>2, WayStages DEF SameBut, Producers
    <3>3. 6 # 2
      OBVIOUS
    <3> HIDE DEF e
    <3>4. (Clean(way) => Clean(way')) /\ Carried(way') = Carried(way)
      BY <1>3, <3>1, <3>2, <3>3, Moved, ZenonT(30)
    <3> QED BY <1>1, <2>1, <3>2, <3>4
  <2>3. CASE p = "worker"
    <3>1. /\ 5 \in Stages /\ 4 \in Stages /\ way[5] \in Seq(Events) /\ way[4] \in Seq(Events) /\ way[5] # <<>>
          /\ way'[5] = Tail(way[5]) /\ way'[4] = Append(way[4], e) /\ e = Head(way[5])
      BY <1>1, <1>6, <2>1, <2>3, WayStages, WayTyped DEF EInv
    <3>2. SameBut({5, 4}, way, way')
      BY <1>1, <1>4, <1>5, <2>3, WayStages DEF SameBut, Producers
    <3>3. 5 # 4
      OBVIOUS
    <3> HIDE DEF e
    <3>4. (Clean(way) => Clean(way')) /\ Carried(way') = Carried(way)
      BY <1>3, <3>1, <3>2, <3>3, Moved, ZenonT(30)
    <3> QED BY <1>1, <2>1, <2>3, <3>4
  <2> QED BY <2>2, <2>3 DEF Producers
<1>13. Committed' /\ NoneLost'
  BY <1>1, <1>10, <1>11, <1>12, OnTheWay
<1>14. ShownInOrder'
  BY <1>1 DEF EInv, ShownInOrder, StatusNeverGoesBack
<1>15. ApiTellsTheEnd'
  <2>1. \A i \in DOMAIN pending'["api"] : \E j \in DOMAIN pending["api"] : pending'["api"][i] = pending["api"][j]
    <3>1. CASE p = "api"
      BY <1>1, <1>3, <1>4, <3>1, TailElements
    <3>2. CASE p # "api"
      BY <1>4, <3>2 DEF Producers
    <3> QED BY <3>1, <3>2
  <2>2. \A i \in DOMAIN bus' : (i \in DOMAIN bus /\ bus'[i] = bus[i]) \/ (p = "api" /\ bus'[i].event = e)
    BY <1>1 DEF EInv, Typed
  <2>3. p = "api" => LastStatus(e)
    <3>1. 1 \in DOMAIN pending[p] /\ e = pending[p][1]
      BY <1>1, <1>3
    <3> QED BY <3>1 DEF EInv, ApiTellsTheEnd
  <2>4. \A event : LastStatus(event) => LastStatus(event)'
    BY <1>1 DEF LastStatus
  <2> QED BY <2>1, <2>2, <2>3, <2>4 DEF EInv, ApiTellsTheEnd
<1> QED BY <1>7, <1>13, <1>14, <1>15 DEF EInv

LEMMA CloseStep ==
  ASSUME EInv, CloseSink
  PROVE  EInv'
<1> DEFINE q == queue["worker"]
           kept == IF Full("worker") THEN Tail(q) ELSE q
<1>1. /\ UNCHANGED <<committed, turns, inputs, pending, channel, listening, bus, online, since, received, connects>>
      /\ pending["worker"] = <<>> /\ closed' = TRUE
      /\ queue' = [queue EXCEPT !["worker"] = Append(kept, Stop)]
  BY DEF CloseSink
<1>2. \/ Full("worker") /\ faults' # 0 /\ faults' \in 0..MaxFaults
      \/ ~Full("worker") /\ faults' = faults
  BY FaultCounts DEF CloseSink, EInv
<1>3. q \in Seq(Events) /\ Len(q) \in Nat /\ Len(q) <= QueueSize + 1 /\ queue \in [Producers -> Seq(Events)]
  BY DEF EInv, Typed, TypeOK, Producers
<1>4. kept \in Seq(Events) /\ Len(kept) <= QueueSize /\ Holds(kept) \subseteq Holds(q)
  <2>1. CASE Full("worker")
    <3>1. q # <<>> /\ Len(Tail(q)) = Len(q) - 1
      BY <1>3, <2>1, EventsAssumption DEF Full
    <3> QED BY <1>3, <2>1, <3>1, TailHolds, EventsAssumption
  <2>2. CASE ~Full("worker")
    BY <1>3, <2>2, EventsAssumption DEF Full
  <2> QED BY <2>1, <2>2
<1>5. Append(kept, Stop) \in Seq(Events) /\ Holds(Append(kept, Stop)) = Holds(kept)
  <2> HIDE DEF kept
  <2>1. Append(kept, Stop) \in Seq(Events) /\ Holds(Append(kept, Stop)) = Holds(kept) \union Only(Stop)
    BY <1>4, AppendHolds, NumberedAreEvents
  <2> QED BY <2>1, NumberedAreEvents DEF Only
<1>6. /\ queue' \in [Producers -> Seq(Events)] /\ queue'["worker"] = Append(kept, Stop)
      /\ queue'["api"] = queue["api"] /\ \A r \in Producers : Len(queue'[r]) <= QueueSize + 1
  <2> HIDE DEF kept
  <2>1. /\ queue' \in [Producers -> Seq(Events)] /\ queue'["worker"] = Append(kept, Stop)
        /\ queue'["api"] = queue["api"]
    BY <1>1, <1>3, <1>5 DEF Producers
  <2>2. Len(queue'["worker"]) <= QueueSize + 1
    BY <1>4, <2>1, EventsAssumption
  <2>3. Len(queue["api"]) <= QueueSize + 1
    BY DEF EInv, Typed, TypeOK, Producers
  <2> QED BY <2>1, <2>2, <2>3 DEF Producers
<1>7. Typed'
  <2>1. faults' \in 0..MaxFaults
    BY <1>2 DEF EInv, Typed, TypeOK
  <2>2. closed' \in BOOLEAN
    BY <1>1
  <2> QED BY <1>1, <1>6, <2>1, <2>2 DEF EInv, Typed, TypeOK
<1>8. OnBus' = OnBus
  BY <1>1 DEF OnBus
<1>9. \A s \in Stages : Holds(way'[s]) \subseteq CommittedEvents
  BY ZenonT(30), <1>1, <1>4, <1>5, <1>6, <1>8, WayStages, HeldIsCommitted
<1>10. ASSUME faults' = 0
       PROVE  faults = 0 /\ Clean(way') /\ Carried(way') = Carried(way)
  <2>1. faults = 0 /\ Clean(way) /\ kept = q
    BY <1>2, <1>10 DEF EInv, NoneLost
  <2>2. 4 \in Stages /\ way[4] \in Seq(Events) /\ way'[4] = Append(way[4], Stop)
    BY <1>6, <2>1, WayStages, WayTyped DEF EInv
  <2>3. SameBut({4}, way, way')
    BY <1>1, <1>8, WayStages DEF SameBut
  <2>4. Stop \in Events /\ Stop \notin Numbered
    BY NumberedAreEvents
  <2>5. Clean(way')
    BY <2>1, <2>2, <2>3, <2>4, Joined
  <2>6. Holds(way'[4]) = Holds(way[4]) \union {}
    BY <1>5, <1>6, <2>1, WayStages
  <2>7. Carried(way') = Carried(way) \union {}
    BY <2>2, <2>3, <2>6, StageGains
  <2> QED BY <2>1, <2>5, <2>7
<1>11. Committed' /\ NoneLost'
  BY <1>1, <1>6, <1>9, <1>10, OnTheWay, HeldIsCommitted DEF EInv, NoneLost
<1> QED BY <1>1, <1>7, <1>11, StatusesStay DEF EInv

(*****************************************************************************)
(* The broadcast to the browser.                                             *)
(*****************************************************************************)
LEMMA BroadcastStep ==
  ASSUME EInv, _broadcast_runtime_events
  PROVE  EInv'
<1> DEFINE item == Head(bus)
           e == IF item.hint THEN _hydrate_runtime_event(item.event) ELSE item.event
<1>1. /\ UNCHANGED <<committed, turns, inputs, pending, queue, closed, channel, listening, since, connects>>
      /\ bus # <<>> /\ bus' = Tail(bus)
  BY DEF _broadcast_runtime_events
<1>2. \/ received' = Append(received, e) /\ online /\ UNCHANGED <<faults, online>>
      \/ received' = received /\ ~online /\ UNCHANGED <<faults, online>>
      \/ received' = received /\ faults' # 0 /\ faults' \in 0..MaxFaults /\ online' \in {online, FALSE}
  BY FaultCounts DEF _broadcast_runtime_events, EInv
<1>3. item \in Items /\ item.event \in Told /\ bus' \in Seq(Items) /\ OnBus' = Tail(OnBus) /\ Head(OnBus) = item.event
  BY <1>1, BusTail, ItemsTold DEF EInv
<1>4. committed.status \in Nat
  BY DEF EInv, Typed, TypeOK
<1>5. /\ e \in Told /\ e \in Events
      /\ e = item.event \/ {e, item.event} \intersect Numbered = {}
      /\ e[1] = "status" => e[2] = committed.status \/ (~item.hint /\ e = item.event)
  <2>1. CASE item.hint /\ item.event[1] = "status"
    <3>1. e = <<"status", committed.status>>
      BY <2>1 DEF _hydrate_runtime_event
    <3>2. e \in Told /\ e \notin Numbered /\ item.event \notin Numbered
      BY <1>3, <1>4, <2>1, <3>1 DEF Told, Numbered
    <3> QED BY <3>1, <3>2, NumberedAreEvents
  <2>2. CASE ~(item.hint /\ item.event[1] = "status")
    <3>1. e = item.event
      BY <2>2 DEF _hydrate_runtime_event
    <3>2. item.event \in Events
      BY <1>3, NumberedAreEvents
    <3> QED BY <1>3, <2>2, <3>1, <3>2
  <2> QED BY <2>1, <2>2
<1>6. e[1] = "status" => e[2] = committed.status
  <2>1. 1 \in DOMAIN bus /\ bus[1] = item
    BY <1>1 DEF EInv, Typed
  <2>2. ~item.hint => LastStatus(item.event)
    BY <2>1 DEF EInv, ApiTellsTheEnd
  <2> QED BY <1>5, <2>2 DEF LastStatus
<1> HIDE DEF item, e
<1>7. received \in Seq(Told) /\ received' \in Seq(Told) /\ Append(received, e) \in Seq(Told)
      /\ Holds(Append(received, e)) = Holds(received) \union Only(e)
  <2>1. received \in Seq(Told)
    BY DEF EInv, Typed
  <2>2. Append(received, e) \in Seq(Told) /\ Holds(Append(received, e)) = Holds(received) \union Only(e)
    BY <1>5, <2>1, AppendHolds
  <2> QED BY <1>2, <2>1, <2>2
<1>8. Typed'
  <2>1. online' \in BOOLEAN /\ faults' \in 0..MaxFaults
    BY <1>2 DEF EInv, Typed, TypeOK
  <2> QED BY <1>1, <1>3, <1>7, <2>1 DEF EInv, Typed, TypeOK
<1>9. Holds(OnBus') \subseteq Holds(OnBus) /\ Only(e) \subseteq Holds(OnBus)
  <2>1. Holds(OnBus) = Holds(Tail(OnBus)) \union Only(Head(OnBus))
    BY <1>1, WayTyped, TailHolds DEF EInv
  <2> QED BY <1>3, <1>5, <2>1 DEF Only
<1>10. \A s \in Stages : Holds(way'[s]) \subseteq CommittedEvents
  BY <1>1, <1>2, <1>7, <1>9, WayStages, HeldIsCommitted
<1>11. ASSUME faults' = 0
       PROVE  faults = 0 /\ Clean(way') /\ (online' => online /\ Carried(way') = Carried(way))
  <2>1. faults = 0 /\ Clean(way) /\ online' = online
    BY <1>2, <1>11 DEF EInv, NoneLost
  <2>2. /\ 2 \in Stages /\ 1 \in Stages /\ way[2] \in Seq(Events) /\ way[1] \in Seq(Events) /\ way[2] # <<>>
        /\ way'[2] = Tail(way[2]) /\ Head(way[2]) = item.event
    BY <1>1, <1>3, WayStages, WayTyped DEF EInv
  <2>3. CASE online
    <3>1. way'[1] = Append(way[1], e)
      BY <1>2, <1>11, <2>3, WayStages
    <3>2. SameBut({2, 1}, way, way') /\ (e = Head(way[2]) \/ {e, Head(way[2])} \intersect Numbered = {})
      BY <1>1, <1>5, <2>2, WayStages DEF SameBut
    <3>3. 2 # 1
      OBVIOUS
    <3>4. (Clean(way) => Clean(way')) /\ Carried(way') = Carried(way)
      BY <1>5, <2>2, <3>1, <3>2, <3>3, Moved, ZenonT(30)
    <3> QED BY <2>1, <2>3, <3>4
  <2>4. CASE ~online
    <3>1. SameBut({2}, way, way')
      BY <1>1, <1>2, <1>11, <2>4, WayStages DEF SameBut
    <3>2. Clean(way) => Clean(way')
      BY <2>2, <3>1, Dropped
    <3> QED BY <2>1, <2>4, <3>2
  <2> QED BY <2>3, <2>4
<1>12. Committed' /\ NoneLost'
  BY <1>1, <1>10, <1>11, OnTheWay, HeldIsCommitted DEF EInv, NoneLost
<1>13. ShownInOrder'
  <2>1. CASE received' = received
    BY <1>1, <2>1 DEF EInv, ShownInOrder, StatusNeverGoesBack
  <2>2. CASE received' = Append(received, e)
    <3>1. /\ DOMAIN received = 1..Len(received) /\ Len(received) \in Nat
          /\ DOMAIN received' = 1..(Len(received) + 1) /\ received'[Len(received) + 1] = e
          /\ \A i \in 1..Len(received) : received'[i] = received[i]
      BY <1>7, <2>2
    <3>2. \A i \in 1..(Len(received) + 1) : i = Len(received) + 1 \/ i \in 1..Len(received)
      BY <3>1
    <3>3. \A i \in 1..(Len(received) + 1) : received'[i][1] = "status" => received'[i][2] <= committed.status
      BY <1>4, <1>6, <3>1, <3>2 DEF EInv, ShownInOrder
    <3>4. ASSUME NEW i \in 1..(Len(received) + 1), NEW j \in 1..(Len(received) + 1), i < j,
                 received'[i][1] = "status", received'[j][1] = "status"
          PROVE  received'[i][2] <= received'[j][2]
      <4>1. i \in 1..Len(received)
        BY <3>1, <3>4
      <4>2. CASE j \in 1..Len(received)
        BY <3>1, <3>4, <4>1, <4>2 DEF EInv, ShownInOrder, StatusNeverGoesBack
      <4>3. CASE j = Len(received) + 1
        BY <1>6, <3>1, <3>3, <3>4, <4>3
      <4> QED BY <3>2, <4>2, <4>3
    <3> QED BY <1>1, <3>1, <3>3, <3>4 DEF ShownInOrder, StatusNeverGoesBack
  <2> QED BY <1>2, <2>1, <2>2
<1>14. ApiTellsTheEnd'
  <2>1. \A i \in DOMAIN bus' : \E j \in DOMAIN bus : bus'[i] = bus[j]
    BY <1>1, TailElements DEF EInv, Typed
  <2>2. \A event : LastStatus(event) => LastStatus(event)'
    BY <1>1 DEF LastStatus
  <2> QED BY <1>1, <2>1, <2>2 DEF EInv, ApiTellsTheEnd
<1> QED BY <1>8, <1>12, <1>13, <1>14 DEF EInv

(*****************************************************************************)
(* The commits.                                                              *)
(*****************************************************************************)
Commits == [terminal : Nat, trace : Nat, status : Nat, ended : BOOLEAN]
OfCommit(c) == UpTo("terminal", c.terminal) \union UpTo("trace", c.trace)

LEMMA Numbering ==
  ASSUME NEW type \in {"terminal", "trace"}, NEW m \in Nat, NEW n \in Nat, m <= n
  PROVE  LET q == [i \in 1..(n - m) |-> <<type, m + i>>] IN
         /\ q \in Seq(Told) /\ Distinct(q) /\ Holds(q) = UpTo(type, n) \ UpTo(type, m)
         /\ \A i \in DOMAIN q : q[i][1] # "status"
<1> DEFINE q == [i \in 1..(n - m) |-> <<type, m + i>>]
<1>1. n - m \in Nat
  OBVIOUS
<1>2. \A i \in 1..(n - m) : <<type, m + i>> \in Numbered /\ <<type, m + i>> \in Told /\ m + i \in 1..n /\ ~ (m + i <= m)
  BY DEF Numbered, Told
<1>3. q \in Seq(Told)
  <2>1. q \in [1..(n - m) -> Told]
    BY <1>2
  <2> QED BY <1>1, <2>1
<1>4. Distinct(q)
  BY <1>1 DEF Distinct
<1>5. Elements(q) = {<<type, m + i>> : i \in 1..(n - m)}
  BY DEF Elements
<1>6. Elements(q) = UpTo(type, n) \ UpTo(type, m)
  <2>1. ASSUME NEW i \in 1..(n - m)
        PROVE  <<type, m + i>> \in UpTo(type, n) /\ <<type, m + i>> \notin UpTo(type, m)
    BY <1>2 DEF UpTo
  <2>2. ASSUME NEW k \in 1..n, k \notin 1..m
        PROVE  <<type, k>> \in Elements(q)
    <3>1. k - m \in 1..(n - m) /\ m + (k - m) = k
      BY <2>2
    <3> QED BY <1>5, <3>1
  <2>3. ASSUME NEW x \in UpTo(type, n), x \notin UpTo(type, m)
        PROVE  x \in Elements(q)
    <3>1. PICK k \in 1..n : x = <<type, k>>
      BY DEF UpTo
    <3>2. k \notin 1..m
      BY <2>3, <3>1 DEF UpTo
    <3> QED BY <2>2, <3>1, <3>2
  <2> QED BY <1>5, <2>1, <2>3
<1>7. Elements(q) \subseteq Numbered
  BY <1>2, <1>5
<1>8. \A i \in DOMAIN q : q[i][1] # "status"
  OBVIOUS
<1> QED BY <1>3, <1>4, <1>6, <1>7, <1>8 DEF Holds

(* What a commit adds is published: each event once, and the status if it is  *)
(* another one.                                                               *)
LEMMA AddedFacts ==
  ASSUME NEW old \in Commits, NEW new \in Commits,
         old.terminal <= new.terminal, old.trace <= new.trace, old.status <= new.status
  PROVE  /\ Added(old, new) \in Seq(Told) /\ Distinct(Added(old, new))
         /\ Holds(Added(old, new)) = OfCommit(new) \ OfCommit(old)
         /\ OfCommit(old) \subseteq OfCommit(new)
         /\ \A i \in DOMAIN Added(old, new) :
              Added(old, new)[i][1] = "status" => Added(old, new)[i][2] = new.status /\ new.status > old.status
<1> DEFINE a == [i \in 1..(new.terminal - old.terminal) |-> <<"terminal", old.terminal + i>>]
           b == IF new.status > old.status THEN <<<<"status", new.status>>>> ELSE <<>>
           c == [i \in 1..(new.trace - old.trace) |-> <<"trace", old.trace + i>>]
<1>0. /\ old.terminal \in Nat /\ new.terminal \in Nat /\ old.trace \in Nat /\ new.trace \in Nat
      /\ old.status \in Nat /\ new.status \in Nat
  BY DEF Commits
<1>1. /\ a \in Seq(Told) /\ Distinct(a) /\ Holds(a) = UpTo("terminal", new.terminal) \ UpTo("terminal", old.terminal)
      /\ \A i \in DOMAIN a : a[i][1] # "status"
  BY <1>0, Numbering
<1>2. /\ c \in Seq(Told) /\ Distinct(c) /\ Holds(c) = UpTo("trace", new.trace) \ UpTo("trace", old.trace)
      /\ \A i \in DOMAIN c : c[i][1] # "status"
  BY <1>0, Numbering
<1>3. /\ b \in Seq(Told) /\ Distinct(b) /\ Holds(b) = {}
      /\ \A i \in DOMAIN b : b[i][2] = new.status /\ new.status > old.status
  <2>1. <<"status", new.status>> \in Told /\ <<"status", new.status>> \notin Numbered
    BY <1>0 DEF Told, Numbered
  <2>2. CASE new.status > old.status
    BY <2>1, <2>2 DEF Distinct, Holds, Elements
  <2>3. CASE ~(new.status > old.status)
    BY <2>3, EmptyHolds
  <2> QED BY <2>2, <2>3
<1>4. /\ UpTo("terminal", new.terminal) \intersect UpTo("trace", new.trace) = {}
      /\ UpTo("terminal", old.terminal) \intersect UpTo("trace", new.trace) = {}
      /\ UpTo("terminal", new.terminal) \intersect UpTo("trace", old.trace) = {}
      /\ UpTo("terminal", old.terminal) \subseteq UpTo("terminal", new.terminal)
      /\ UpTo("trace", old.trace) \subseteq UpTo("trace", new.trace)
  BY <1>0 DEF UpTo
<1>5. Added(old, new) = (a \o b) \o c
  BY DEF Added
<1> HIDE DEF a, b, c
<1>6. a \o b \in Seq(Told) /\ Holds(a \o b) = Holds(a) /\ Distinct(a \o b)
  BY <1>1, <1>3, ConcatHolds
<1>7. /\ (a \o b) \o c \in Seq(Told) /\ Holds((a \o b) \o c) = Holds(a) \union Holds(c)
      /\ Distinct((a \o b) \o c)
  <2>1. Holds(a \o b) \intersect Holds(c) = {}
    BY <1>1, <1>2, <1>4, <1>6
  <2> DEFINE ab == a \o b
  <2>2. ab \in Seq(Told) /\ Distinct(ab) /\ Holds(ab) = Holds(a) /\ Holds(ab) \intersect Holds(c) = {}
    BY <1>1, <1>6, <2>1
  <2> HIDE DEF ab
  <2>3. ab \o c \in Seq(Told) /\ Holds(ab \o c) = Holds(ab) \union Holds(c)
    BY <1>2, <2>2, ConcatHolds
  <2>4. Distinct(ab \o c)
    BY <1>2, <2>2, ConcatHolds
  <2> QED BY <2>2, <2>3, <2>4 DEF ab
<1>8. Holds(a) \union Holds(c) = OfCommit(new) \ OfCommit(old) /\ OfCommit(old) \subseteq OfCommit(new)
  BY <1>1, <1>2, <1>4 DEF OfCommit
<1>9. \A i \in DOMAIN ((a \o b) \o c) :
        \/ \E j \in DOMAIN a : ((a \o b) \o c)[i] = a[j]
        \/ \E j \in DOMAIN b : ((a \o b) \o c)[i] = b[j]
        \/ \E j \in DOMAIN c : ((a \o b) \o c)[i] = c[j]
  <2>1. a \in Seq(Told) /\ b \in Seq(Told) /\ c \in Seq(Told) /\ a \o b \in Seq(Told)
    BY <1>1, <1>2, <1>3, <1>6
  <2>2. \A p \in Seq(Told), q \in Seq(Told) : \A i \in DOMAIN (p \o q) :
          (\E j \in DOMAIN p : (p \o q)[i] = p[j]) \/ (\E j \in DOMAIN q : (p \o q)[i] = q[j])
    <3> SUFFICES ASSUME NEW p \in Seq(Told), NEW q \in Seq(Told), NEW i \in DOMAIN (p \o q)
                 PROVE  (\E j \in DOMAIN p : (p \o q)[i] = p[j]) \/ (\E j \in DOMAIN q : (p \o q)[i] = q[j])
      OBVIOUS
    <3>1. CASE i \in DOMAIN p
      BY <3>1
    <3>2. CASE i \notin DOMAIN p
      <4>1. i - Len(p) \in DOMAIN q /\ (p \o q)[i] = q[i - Len(p)]
        BY <3>2
      <4> QED BY <4>1
    <3> QED BY <3>1, <3>2
  <2> QED BY SMTT(30), <2>1, <2>2
<1> QED BY <1>1, <1>2, <1>3, <1>5, <1>7, <1>8, <1>9

LEMMA CommitStep ==
  ASSUME EInv, NEW p \in Producers, NEW new \in Commits, _commit_and_publish(p, new),
         ~committed.ended, p = "worker" => ~closed,
         committed.terminal <= new.terminal, committed.trace <= new.trace, committed.status <= new.status,
         new.status > committed.status => p = "worker" \/ new.ended
  PROVE  EInv'
<1> DEFINE add == Added(committed, new)
           a == IF p = "worker" THEN 5 ELSE 6
<1>1. /\ pending[p] = <<>> /\ committed' = new /\ pending' = [pending EXCEPT ![p] = add]
      /\ UNCHANGED <<queue, closed, channel, listening, bus, online, since, received, connects, faults>>
  BY DEF _commit_and_publish
<1>2. committed \in Commits /\ committed.status \in Nat /\ new.status \in Nat
  BY DEF EInv, Typed, TypeOK, Commits
<1>3. /\ add \in Seq(Told) /\ Distinct(add) /\ Holds(add) = OfCommit(new) \ OfCommit(committed)
      /\ OfCommit(committed) \subseteq OfCommit(new)
      /\ \A i \in DOMAIN add : add[i][1] = "status" => add[i][2] = new.status /\ new.status > committed.status
  BY <1>2, AddedFacts
<1>4. CommittedEvents = OfCommit(committed) /\ CommittedEvents' = OfCommit(new)
  BY <1>1 DEF CommittedEvents, OfCommit
<1> HIDE DEF add
<1>5. /\ pending' \in [Producers -> Seq(Told)] /\ pending'[p] = add
      /\ \A r \in Producers : r # p => pending'[r] = pending[r]
  BY <1>1, <1>3 DEF EInv, Typed
<1>6. Typed'
  <2>1. committed' \in [terminal : Nat, trace : Nat, status : Nat, ended : BOOLEAN]
    BY <1>1 DEF Commits
  <2> QED BY <1>1, <1>5, <2>1 DEF EInv, Typed, TypeOK
<1>7. a \in Stages /\ way[a] = <<>> /\ way'[a] = add /\ SameBut({a}, way, way')
  <2>1. OnBus' = OnBus
    BY <1>1 DEF OnBus
  <2>2. CASE p = "worker"
    BY <1>1, <1>5, <2>1, <2>2, WayStages DEF SameBut, Producers
  <2>3. CASE p = "api"
    BY <1>1, <1>5, <2>1, <2>3, WayStages DEF SameBut, Producers
  <2> QED BY <2>2, <2>3 DEF Producers
<1> HIDE DEF a
<1>8. Carried(way') = Carried(way) \union Holds(add)
  <2>1. Holds(way'[a]) = Holds(way[a]) \union Holds(add)
    BY <1>7, EmptyHolds
  <2>2. a \in Stages /\ SameBut({a}, way, way')
    BY <1>7
  <2> QED BY <2>1, <2>2, StageGains, ZenonT(30)
<1>9. Clean(way) => Clean(way')
  <2>1. \A s \in Stages : s # a => Holds(way'[a]) \intersect Holds(way[s]) = {}
    BY <1>3, <1>4, <1>7, HeldIsCommitted
  <2> QED BY <1>3, <1>7, <2>1, StageChanges
<1>10. Committed'
  BY <1>1, <1>3, <1>4, <1>8 DEF EInv, Committed
<1>11. NoneLost'
  <2>1. closed' => pending'["worker"] = <<>> \/ faults # 0
    BY <1>1, <1>5 DEF EInv, NoneLost, Producers
  <2>2. (faults = 0 /\ online) => CommittedEvents' \subseteq since \union Carried(way')
    BY <1>3, <1>4, <1>8 DEF EInv, NoneLost
  <2> QED BY <1>1, <1>9, <2>1, <2>2 DEF EInv, NoneLost
<1>12. ShownInOrder'
  <2>1. \A i \in DOMAIN received : received[i][1] = "status" => received[i][2] <= new.status
    <3>1. \A i \in DOMAIN received : received[i][2] \in Nat
      BY DEF EInv, Typed, Told
    <3> QED BY <1>2, <3>1 DEF EInv, ShownInOrder
  <2> QED BY <1>1, <2>1 DEF EInv, ShownInOrder, StatusNeverGoesBack
<1>13. ApiTellsTheEnd'
  <2>1. \A i \in DOMAIN pending'["api"] :
          pending'["api"][i][1] = "status" => new.ended /\ pending'["api"][i][2] = new.status
    <3>1. CASE p = "api"
      BY <1>3, <1>5, <3>1
    <3>2. CASE p = "worker"
      BY <1>5, <3>2 DEF EInv, ApiTellsTheEnd, LastStatus, Producers
    <3> QED BY <3>1, <3>2 DEF Producers
  <2>2. \A i \in DOMAIN bus : ~bus[i].hint => bus[i].event[1] # "status"
    BY DEF EInv, ApiTellsTheEnd, LastStatus
  <2> QED BY <1>1, <2>1, <2>2 DEF ApiTellsTheEnd, LastStatus
<1> QED BY <1>6, <1>10, <1>11, <1>12, <1>13 DEF EInv

(*****************************************************************************)
(* Invariance.                                                               *)
(*****************************************************************************)
LEMMA EventsInit == Init => EInv
<1> SUFFICES ASSUME Init PROVE EInv
  OBVIOUS
<1>1. /\ pending = [p \in Producers |-> <<>>] /\ queue = [p \in Producers |-> <<>>]
      /\ channel = <<>> /\ bus = <<>> /\ received = <<>> /\ since = {} /\ faults = 0 /\ connects = 0
      /\ closed = FALSE /\ listening = TRUE /\ online = FALSE
      /\ committed = [terminal |-> 0, trace |-> 0, status |-> 0, ended |-> FALSE]
  BY DEF Init
<1>2. Typed
  <2>1. <<>> \in Seq(Told) /\ <<>> \in Seq(Events) /\ <<>> \in Seq(Items) /\ Len(<<>>) = 0
    OBVIOUS
  <2>2. {listening, online, closed} \subseteq BOOLEAN
    BY <1>1
  <2>3. /\ faults \in 0..MaxFaults /\ connects \in 0..MaxConnects
        /\ \A p \in Producers : Len(queue[p]) <= QueueSize + 1
    BY <1>1, <2>1, EventsAssumption
  <2> QED BY <1>1, <2>1, <2>2, <2>3 DEF Typed, TypeOK
<1>3. OnBus = <<>>
  BY <1>1, <1>2, WayTyped
<1>4. \A s \in Stages : way[s] = <<>>
  BY <1>1, <1>3, WayStages DEF Producers
<1>5. Clean(way) /\ Carried(way) = {}
  BY <1>4, EmptyHolds DEF Clean, Carried
<1>6. Committed
  BY <1>1, <1>5, EmptyHolds DEF Committed, Producers
<1>7. NoneLost /\ ShownInOrder /\ ApiTellsTheEnd
  BY <1>1, <1>5 DEF NoneLost, ShownInOrder, StatusNeverGoesBack, ApiTellsTheEnd, Producers
<1> QED BY <1>2, <1>6, <1>7 DEF EInv

LEMMA EventsNext == EInv /\ [Next]_vars => EInv'
<1> SUFFICES ASSUME EInv, [Next]_vars PROVE EInv'
  OBVIOUS
<1>0. /\ committed \in Commits /\ committed.terminal \in Nat /\ committed.trace \in Nat
      /\ committed.status \in Nat /\ committed.ended \in BOOLEAN
  BY DEF EInv, Typed, TypeOK, Commits
<1>1. CASE process_run
  <2> DEFINE new == [committed EXCEPT !.terminal = @ + 1, !.status = @ + 1, !.trace = @ + 1]
  <2>1. /\ new \in Commits /\ new.terminal = committed.terminal + 1 /\ new.trace = committed.trace + 1
        /\ new.status = committed.status + 1
    <3>1. PICK l \in Nat, m \in Nat, n \in Nat :
            l = committed.terminal + 1 /\ m = committed.status + 1 /\ n = committed.trace + 1
      BY <1>0
    <3>2. [committed EXCEPT !.terminal = l, !.status = m, !.trace = n] \in Commits
      BY <1>0 DEF Commits
    <3> QED BY <1>0, <3>1, <3>2 DEF Commits
  <2>2. _commit_and_publish("worker", new) /\ ~committed.ended /\ ~closed /\ "worker" \in Producers
    BY <1>1 DEF process_run, Producers
  <2> HIDE DEF new
  <2> QED BY <1>0, <2>1, <2>2, CommitStep
<1>2. CASE append_terminal_event
  <2> DEFINE new == [committed EXCEPT !.terminal = @ + 1]
  <2>1. /\ new \in Commits /\ new.terminal = committed.terminal + 1 /\ new.trace = committed.trace
        /\ new.status = committed.status
    BY <1>0 DEF Commits
  <2>2. _commit_and_publish("api", new) /\ ~committed.ended /\ "api" \in Producers /\ "api" # "worker"
    BY <1>2 DEF append_terminal_event, Producers
  <2> HIDE DEF new
  <2> QED BY <1>0, <2>1, <2>2, CommitStep
<1>3. CASE cancel_run
  <2> DEFINE new == [committed EXCEPT !.status = @ + 1, !.trace = @ + 1, !.ended = TRUE]
  <2>1. /\ new \in Commits /\ new.terminal = committed.terminal /\ new.trace = committed.trace + 1
        /\ new.status = committed.status + 1 /\ new.ended
    <3>1. PICK m \in Nat, n \in Nat : m = committed.status + 1 /\ n = committed.trace + 1
      BY <1>0
    <3>2. [committed EXCEPT !.status = m, !.trace = n, !.ended = TRUE] \in Commits
      BY <1>0 DEF Commits
    <3> QED BY <1>0, <3>1, <3>2 DEF Commits
  <2>2. _commit_and_publish("api", new) /\ ~committed.ended /\ "api" \in Producers /\ "api" # "worker"
    BY <1>3 DEF cancel_run, Producers
  <2> HIDE DEF new
  <2> QED BY <1>0, <2>1, <2>2, CommitStep
<1>4. CASE \E p \in Producers : publish(p) \/ _publisher(p)
  BY <1>4, PublishStep, PublisherStep
<1>5. CASE UNCHANGED vars
  <2>1. UNCHANGED <<committed, pending, queue, closed, channel, listening, bus, online, since, received, connects, faults>>
    BY <1>5 DEF vars
  <2>2. Typed' /\ way' = way
    BY <2>1 DEF EInv, Typed, TypeOK, way, OnBus
  <2>3. Committed' /\ NoneLost'
    BY <2>1, <2>2, OnTheWay, HeldIsCommitted DEF EInv, NoneLost
  <2> QED BY <2>1, <2>2, <2>3, StatusesStay DEF EInv
<1> QED BY <1>1, <1>2, <1>3, <1>4, <1>5, CloseStep, ListenStep, ListenerFailsStep, ReconnectStep,
           BroadcastStep, ConnectStep, DisconnectStep DEF Next

(* The inductive invariant holds in every state of every instance.            *)
THEOREM EventsInvariance == Spec => []EInv
BY EventsInit, EventsNext, PTL DEF Spec

(* Without a fault no event with a number reaches a browser twice on one      *)
(* connection, and none arrives that was not committed: the bus and NOTIFY    *)
(* never carry the same event (source_id).                                    *)
THEOREM EventsComeOnce == Spec => []ReceivedOnce
<1>1. EInv => ReceivedOnce
  <2> SUFFICES ASSUME EInv PROVE ReceivedOnce
    OBVIOUS
  <2>1. received \in Seq(Told) /\ TypeOK /\ 1 \in Stages /\ way[1] = received
    BY WayStages DEF EInv, Typed
  <2>2. \A e \in Elements(received) : e[1] # "status" => e \in Numbered
    BY <2>1 DEF Elements, Told, Numbered
  <2>3. \A e \in Elements(received) : e[1] # "status" => e \in CommittedEvents
    BY <2>1, <2>2, HeldIsCommitted DEF Holds
  <2>4. ASSUME faults = 0, NEW e \in Elements(received), e[1] # "status"
        PROVE  Times(e) = 1
    <3>1. PICK i \in DOMAIN received : received[i] = e
      BY DEF Elements
    <3>2. Distinct(received)
      BY <2>1, <2>4 DEF EInv, NoneLost, Clean
    <3>3. {j \in DOMAIN received : received[j] = e} = {i}
      BY <2>2, <2>4, <3>1, <3>2 DEF Distinct
    <3> QED BY <3>3, FS_Singleton DEF Times
  <2> QED BY <2>1, <2>3, <2>4 DEF ReceivedOnce
<1> QED BY <1>1, EventsInvariance, PTL

(* Without a fault a browser that stays connected has in the end received     *)
(* every event that it could not read when it connected: neither a full pass  *)
(* through the queues nor the closing of the sink loses one.                  *)
THEOREM EventsAllArrive == Spec => []NothingMissed
<1>1. EInv => NothingMissed
  <2> SUFFICES ASSUME EInv, AtRest, faults = 0, online
               PROVE  CommittedEvents \ since \subseteq Elements(received)
    BY DEF NothingMissed
  <2>1. CommittedEvents \subseteq since \union Carried(way)
    BY DEF EInv, NoneLost
  <2>2. OnBus = <<>>
    BY WayTyped DEF EInv, AtRest
  <2>3. \A s \in Stages : s # 1 => Holds(way[s]) = {}
    BY <2>2, WayStages, EmptyHolds DEF AtRest, Producers
  <2>4. Carried(way) \subseteq Elements(received)
    BY <2>3, WayStages DEF Carried, Holds
  <2> QED BY <2>1, <2>4
<1> QED BY <1>1, EventsInvariance, PTL

(* The task status that a browser is shown never goes back: hints are         *)
(* hydrated when they are broadcast, and the one status that is not a hint is *)
(* that of the cancellation, after which there is no other.                   *)
THEOREM StatusesOnlyAdvance == Spec => []StatusNeverGoesBack
<1>1. EInv => StatusNeverGoesBack
  BY DEF EInv, ShownInOrder
<1> QED BY <1>1, EventsInvariance, PTL
=============================================================================
