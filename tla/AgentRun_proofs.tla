--------------------------- MODULE AgentRun_proofs ---------------------------
(***************************************************************************)
(* Proofs about AgentRun, for every set of agents and proposals and all    *)
(* bounds.                                                                 *)
(***************************************************************************)
EXTENDS AgentRun, SequenceTheorems, FiniteSetTheorems, WellFoundedInduction, TLAPS

(***************************************************************************)
(* The candidates of the builder: what the validation of a candidate says  *)
(* of its targets.                                                         *)
(***************************************************************************)

LEMMA Least ==
  ASSUME NEW S \in SUBSET Nat, S # {}
  PROVE  \E n \in S : \A m \in S : n <= m
<1>1. PICK R : R = OpToRel(<, Nat)
  OBVIOUS
<1>2. IsWellFoundedOn(R, Nat)
  BY <1>1, NatLessThanWellFounded
<1>3. \A x, y \in Nat : x < y => <<x, y>> \in R
  BY <1>1 DEF OpToRel
<1>4. PICK n \in S : \A m \in S : ~ (<<m, n>> \in R)
  BY <1>2, WFMin
<1>5. ASSUME NEW m \in S PROVE n <= m
  <2>1. n \in Nat /\ m \in Nat
    OBVIOUS
  <2>2. ~ (m < n)
    BY <1>3, <1>4, <2>1
  <2> QED BY <2>1, <2>2
<1> QED BY <1>5

LEMMA Greatest ==
  ASSUME NEW n \in Nat, NEW S \in SUBSET (1..n), S # {}
  PROVE  \E k \in S : \A l \in S : l <= k
<1>1. {n - k : k \in S} \in SUBSET Nat /\ {n - k : k \in S} # {}
  <2>1. \A k \in S : k \in 1..n /\ n - k \in Nat
    OBVIOUS
  <2>2. \E k \in S : n - k \in {n - l : l \in S}
    OBVIOUS
  <2> QED BY <2>1, <2>2
<1>2. PICK m \in {n - k : k \in S} : \A l \in {n - k : k \in S} : m <= l
  BY <1>1, Least
<1>3. PICK k \in S : m = n - k
  BY <1>2
<1>4. \A l \in S : l \in 1..n /\ n - k <= n - l
  BY <1>2, <1>3
<1> QED BY <1>4

\* The item that a target stands for has the id of the target.
LEMMA ItemIs ==
  ASSUME NEW c, parse_builder_candidate(c), NEW t \in Targets(c)
  PROVE  /\ t[1] \in TargetTypes
         /\ \E i \in DOMAIN Items(c, t[1]) : Item(c, t) = Items(c, t[1])[i] /\ Item(c, t).id = t[2]
<1>1. PICK type \in TargetTypes : t \in {<<type, id>> : id \in Ids(Items(c, type))}
  BY DEF Targets
<1>2. t[1] = type /\ t[2] \in Ids(Items(c, type))
  BY <1>1
<1> DEFINE items == Items(c, type)
           at == {i \in DOMAIN items : items[i].id = t[2]}
<1>3. at # {}
  BY <1>2 DEF Ids
<1>4. items \in Seq(Range(items))
  BY DEF Items, TargetTypes, parse_builder_candidate
<1>5. Len(items) \in Nat /\ at \in SUBSET (1..Len(items))
  BY <1>4
<1>6. Item(c, t) = items[CHOOSE i \in at : \A k \in at : k <= i]
  BY <1>2 DEF Item
<1> HIDE DEF at, items
<1>7. \E i \in at : \A k \in at : k <= i
  BY <1>3, <1>5, Greatest
<1>8. (CHOOSE i \in at : \A k \in at : k <= i) \in at
  BY <1>7
<1> QED BY <1>2, <1>6, <1>8 DEF at, items

\* A target other than a stage is unchanged if the same object is in both.
LEMMA SameSafety ==
  ASSUME NEW x, NEW y, x = [id |-> x.id, stages |-> x.stages, scope |-> x.scope, what |-> x.what],
         y = [id |-> y.id, stages |-> y.stages, scope |-> y.scope, what |-> y.what],
         [x EXCEPT !.id = ""] = [y EXCEPT !.id = ""], x.id = y.id
  PROVE  x = y
<1> DEFINE f == [x EXCEPT !.id = ""]
           g == [y EXCEPT !.id = ""]
<1>1. f.stages = x.stages /\ f.scope = x.scope /\ f.what = x.what
  OBVIOUS
<1>2. g.stages = y.stages /\ g.scope = y.scope /\ g.what = y.what
  OBVIOUS
<1>3. f = g
  OBVIOUS
<1> HIDE DEF f, g
<1> QED BY <1>1, <1>2, <1>3

LEMMA SameExpected ==
  ASSUME NEW x, NEW y, x = [id |-> x.id, stage |-> x.stage, what |-> x.what],
         y = [id |-> y.id, stage |-> y.stage, what |-> y.what],
         [x EXCEPT !.id = ""] = [y EXCEPT !.id = ""], x.id = y.id
  PROVE  x = y
<1> DEFINE f == [x EXCEPT !.id = ""]
           g == [y EXCEPT !.id = ""]
<1>1. f.stage = x.stage /\ f.what = x.what
  OBVIOUS
<1>2. g.stage = y.stage /\ g.what = y.what
  OBVIOUS
<1>3. f = g
  OBVIOUS
<1> HIDE DEF f, g
<1> QED BY <1>1, <1>2, <1>3

LEMMA SameObject ==
  ASSUME NEW c, NEW b, parse_builder_candidate(c), parse_builder_candidate(b),
         NEW t \in Targets(c) \cap Targets(b), t[1] # "workflow_stage",
         business_value(c, t) = business_value(b, t)
  PROVE  SameIn(c, b, t)
<1>1. t[1] \in {"safety_constraint", "expected_evidence"}
  BY ItemIs DEF TargetTypes
<1>2. PICK i \in DOMAIN Items(c, t[1]) : Item(c, t) = Items(c, t[1])[i] /\ Item(c, t).id = t[2]
  BY ItemIs
<1>3. PICK j \in DOMAIN Items(b, t[1]) : Item(b, t) = Items(b, t[1])[j] /\ Item(b, t).id = t[2]
  BY ItemIs
<1> DEFINE x == Item(c, t)
           y == Item(b, t)
<1>4. x \in Range(Items(c, t[1])) /\ y \in Range(Items(b, t[1])) /\ x.id = t[2] /\ y.id = t[2]
  BY <1>2, <1>3 DEF Range
<1>5. [x EXCEPT !.id = ""] = [y EXCEPT !.id = ""]
  BY <1>1 DEF business_value
<1> HIDE DEF x, y
<1>6. ASSUME t[1] = "safety_constraint" PROVE x = y
  <2>1. /\ x = [id |-> x.id, stages |-> x.stages, scope |-> x.scope, what |-> x.what]
        /\ y = [id |-> y.id, stages |-> y.stages, scope |-> y.scope, what |-> y.what]
    BY <1>4, <1>6 DEF Items, parse_builder_candidate
  <2> QED BY <1>4, <1>5, <2>1, SameSafety
<1>7. ASSUME t[1] = "expected_evidence" PROVE x = y
  <2>1. /\ x = [id |-> x.id, stage |-> x.stage, what |-> x.what]
        /\ y = [id |-> y.id, stage |-> y.stage, what |-> y.what]
    BY <1>4, <1>7 DEF Items, parse_builder_candidate
  <2> QED BY <1>4, <1>5, <2>1, SameExpected
<1>8. x = y
  BY <1>1, <1>4, <1>6, <1>7
<1> QED BY <1>1, <1>4, <1>8 DEF SameIn

(***************************************************************************)
(* Stages.                                                                 *)
(***************************************************************************)

\* The diagnostics of the step i.
OfStep(c, i) ==
  LET titles == {c.headings[k].title : k \in {k \in DOMAIN c.headings : c.headings[k].id = c.steps[i].id}}
      times == {k \in DOMAIN c.headings : c.headings[k].id = c.steps[i].id}
  IN  When(times = {}, <<"workflow_not_in_skill", i>>)
      \cup When(\E k, l \in times : k # l, <<"duplicate_workflow_heading", i>>)
      \cup When(times # {} /\ c.steps[i].title \notin titles, <<"workflow_title_mismatch", i>>)

\* A validated stage has one heading, and its title.
LEMMA StageHeading ==
  ASSUME NEW c, parse_builder_candidate(c), _validate_workflow(c) = {},
         NEW t \in Targets(c), t[1] = "workflow_stage"
  PROVE  \E i \in DOMAIN c.headings : Stands(c, t[2]) = {i} /\ c.headings[i].title = Item(c, t).title
<1>1. PICK n \in DOMAIN c.steps : Item(c, t) = c.steps[n] /\ c.steps[n].id = t[2]
  BY ItemIs DEF Items
<1> DEFINE times == {k \in DOMAIN c.headings : c.headings[k].id = c.steps[n].id}
           titles == {c.headings[k].title : k \in times}
<1>2. /\ When(times = {}, <<"workflow_not_in_skill", n>>) = {}
      /\ When(\E k, l \in times : k # l, <<"duplicate_workflow_heading", n>>) = {}
      /\ When(times # {} /\ c.steps[n].title \notin titles, <<"workflow_title_mismatch", n>>) = {}
  <2>1. _validate_workflow(c) = UNION {OfStep(c, k) : k \in DOMAIN c.steps}
    BY DEF _validate_workflow, OfStep
  <2>2. OfStep(c, n) = {}
    BY <1>1, <2>1
  <2> QED BY <2>2 DEF OfStep
<1>3. times # {} /\ ~(\E k, l \in times : k # l) /\ c.steps[n].title \in titles
  <2> HIDE DEF times, titles
  <2> QED BY <1>2 DEF When
<1>4. times = Stands(c, t[2])
  BY <1>1 DEF Stands
<1>5. PICK i \in times : c.steps[n].title = c.headings[i].title
  BY <1>3
<1>6. times = {i}
  BY <1>3, <1>5
<1> QED BY <1>1, <1>4, <1>5, <1>6

\* The places in _workflow_stage_bodies.
LastOf(at) == CHOOSE i \in at : \A k \in at : k <= i
Stops(h, i) == {k \in DOMAIN h : k > i /\ h[k].level <= h[i].level}
FirstOf(at) == CHOOSE k \in at : \A l \in at : k <= l
End(h, i) == IF Stops(h, i) = {} THEN Len(h) + 1 ELSE FirstOf(Stops(h, i))

Marked(h, id) == {i \in DOMAIN h : h[i].id = id}

LEMMA BodyOf ==
  ASSUME NEW h, NEW id
  PROVE  _workflow_stage_bodies(h, id) =
           IF Marked(h, id) = {} THEN <<>>
           ELSE <<h[LastOf(Marked(h, id))].text>>
                \o SubSeq(h, LastOf(Marked(h, id)) + 1, End(h, LastOf(Marked(h, id))) - 1)
BY DEF _workflow_stage_bodies, LastOf, Stops, FirstOf, End, Marked

\* Its body reaches to the first heading that is not of a lower level.
LEMMA StageBody ==
  ASSUME NEW c, parse_builder_candidate(c), NEW id, NEW i \in DOMAIN c.headings, Stands(c, id) = {i}
  PROVE  \E e \in i + 1..Len(c.headings) + 1 :
           /\ Below(c, i) = i + 1..e - 1
           /\ _workflow_stage_bodies(c.headings, id) = <<c.headings[i].text>> \o SubSeq(c.headings, i + 1, e - 1)
<1> DEFINE h == c.headings
           stops == Stops(h, i)
           end == End(h, i)
<1>1. h \in Seq(Range(h)) /\ \A k \in DOMAIN h : h[k].level \in Nat
  BY DEF parse_builder_candidate, Range
<1>2. DOMAIN h = 1..Len(h) /\ Len(h) \in Nat /\ i \in 1..Len(h)
  BY <1>1
<1>3. _workflow_stage_bodies(h, id) = <<h[i].text>> \o SubSeq(h, i + 1, end - 1)
  <2>1. Marked(h, id) = {i}
    BY DEF Stands, Marked
  <2>2. LastOf({i}) = i
    BY <1>2 DEF LastOf
  <2> HIDE DEF h
  <2> QED BY <2>1, <2>2, BodyOf
<1>4. end \in i + 1..Len(h) + 1 /\ Below(c, i) = i + 1..end - 1
  <2>1. CASE stops = {}
    <3>1. \A l \in i + 1..Len(h) : h[l].level > h[i].level
      BY <1>1, <1>2, <2>1 DEF Stops
    <3>2. Below(c, i) = i + 1..Len(h)
      BY <1>2, <3>1 DEF Below
    <3>3. end = Len(h) + 1 /\ end - 1 = Len(h)
      BY <1>2, <2>1 DEF End
    <3> QED BY <1>2, <3>2, <3>3
  <2>2. CASE stops # {}
    <3>1. stops \in SUBSET Nat
      BY <1>2 DEF Stops
    <3>2. \E k \in stops : \A l \in stops : k <= l
      BY <2>2, <3>1, Least
    <3>3. end = FirstOf(stops) /\ end \in stops /\ \A l \in stops : end <= l
      BY <2>2, <3>2 DEF End, FirstOf
    <3>4. end \in i + 1..Len(h) /\ h[end].level <= h[i].level
      BY <1>2, <3>3 DEF Stops
    <3> HIDE DEF end
    <3>5. ASSUME NEW l \in i + 1..end - 1 PROVE h[l].level > h[i].level
      <4>1. l \in DOMAIN h /\ l > i /\ ~(end <= l) /\ h[l].level \in Nat /\ h[i].level \in Nat
        BY <1>1, <1>2, <3>4
      <4>2. l \notin stops
        BY <3>3, <4>1
      <4>3. ~(h[l].level <= h[i].level)
        BY <4>1, <4>2 DEF Stops
      <4> QED BY <4>1, <4>3
    <3>6. \A k \in DOMAIN h : k >= end => ~(\A l \in i + 1..k : h[l].level > h[i].level)
      <4> SUFFICES ASSUME NEW k \in DOMAIN h, k >= end, \A l \in i + 1..k : h[l].level > h[i].level PROVE FALSE
        OBVIOUS
      <4>1. end \in i + 1..k /\ end \in DOMAIN h
        BY <1>2, <3>4
      <4>2. h[end].level > h[i].level
        BY <4>1
      <4> QED BY <1>1, <1>2, <3>4, <4>1, <4>2
    <3>7. ASSUME NEW k PROVE k \in Below(c, i) <=> k \in i + 1..end - 1
      <4>1. k \in Below(c, i) <=> k \in DOMAIN h /\ i < k /\ \A l \in i + 1..k : h[l].level > h[i].level
        BY DEF Below
      <4> HIDE DEF h
      <4>2. ASSUME k \in Below(c, i) PROVE k \in i + 1..end - 1
        BY <1>2, <3>4, <3>6, <4>1, <4>2
      <4>3. ASSUME k \in i + 1..end - 1 PROVE k \in Below(c, i)
        <5>1. k \in DOMAIN h /\ i < k
          BY <1>2, <3>4, <4>3
        <5>2. \A l \in i + 1..k : l \in i + 1..end - 1
          BY <1>2, <3>4, <4>3
        <5> QED BY <3>5, <4>1, <5>1, <5>2
      <4> QED BY <4>2, <4>3
    <3>8. Below(c, i) = i + 1..end - 1
      BY <3>7, Zenon
    <3> QED BY <1>2, <3>4, <3>8
  <2> QED BY <2>1, <2>2
<1> HIDE DEF end
<1> QED BY <1>3, <1>4

\* Two bodies that are the same, place by place.
Body(h, i, e) == <<h[i].text>> \o SubSeq(h, i + 1, e - 1)
AlikeFrom(h, i, g, j, n) == \A m \in 1..n : h[i + m] = g[j + m]

LEMMA SameBodies ==
  ASSUME NEW h, NEW g, h \in Seq(Range(h)), g \in Seq(Range(g)), NEW i \in 1..Len(h), NEW j \in 1..Len(g),
         NEW e \in i + 1..Len(h) + 1, NEW f \in j + 1..Len(g) + 1, Body(h, i, e) = Body(g, j, f)
  PROVE  h[i].text = g[j].text /\ e - i = f - j /\ AlikeFrom(h, i, g, j, e - 1 - i)
<1> DEFINE x == h[i].text
           y == g[j].text
           S == Range(h) \cup Range(g) \cup {x, y}
<1>0. h \in Seq(S) /\ g \in Seq(S) /\ x \in S /\ y \in S
  OBVIOUS
<1> USE DEF AlikeFrom
<1> DEFINE s == SubSeq(h, i + 1, e - 1)
           r == SubSeq(g, j + 1, f - 1)
<1>1. /\ s \in Seq(S) /\ Len(s) = e - 1 - i /\ \A m \in 1..e - 1 - i : s[m] = h[i + m]
  <2>0. i \in Int /\ j \in Int /\ e \in Int /\ f \in Int /\ \A k \in i + 1..e - 1 : h[k] \in S
    BY <1>0
  <2>1. /\ s \in Seq(S) /\ Len(s) = IF i + 1 <= e - 1 THEN (e - 1) - (i + 1) + 1 ELSE 0
        /\ \A m \in 1..(e - 1) - (i + 1) + 1 : s[m] = h[(i + 1) + m - 1]
    <3> HIDE DEF S
    <3> QED BY <2>0, SubSeqProperties
  <2>2. (e - 1) - (i + 1) + 1 = e - 1 - i /\ (~(i + 1 <= e - 1) => e - 1 - i = 0)
    BY <2>0
  <2>3. \A m \in 1..e - 1 - i : (i + 1) + m - 1 = i + m
    BY <2>0
  <2> HIDE DEF s, S
  <2>4. Len(s) = e - 1 - i
    BY <2>1, <2>2
  <2>5. \A m \in 1..e - 1 - i : s[m] = h[i + m]
    BY <2>1, <2>2, <2>3
  <2> QED BY <2>1, <2>4, <2>5
<1>2. /\ r \in Seq(S) /\ Len(r) = f - 1 - j /\ \A m \in 1..f - 1 - j : r[m] = g[j + m]
  <2>0. i \in Int /\ j \in Int /\ e \in Int /\ f \in Int /\ \A k \in j + 1..f - 1 : g[k] \in S
    BY <1>0
  <2>1. /\ r \in Seq(S) /\ Len(r) = IF j + 1 <= f - 1 THEN (f - 1) - (j + 1) + 1 ELSE 0
        /\ \A m \in 1..(f - 1) - (j + 1) + 1 : r[m] = g[(j + 1) + m - 1]
    <3> HIDE DEF S
    <3> QED BY <2>0, SubSeqProperties
  <2>2. (f - 1) - (j + 1) + 1 = f - 1 - j /\ (~(j + 1 <= f - 1) => f - 1 - j = 0)
    BY <2>0
  <2>3. \A m \in 1..f - 1 - j : (j + 1) + m - 1 = j + m
    BY <2>0
  <2> HIDE DEF r, S
  <2>4. Len(r) = f - 1 - j
    BY <2>1, <2>2
  <2>5. \A m \in 1..f - 1 - j : r[m] = g[j + m]
    BY <2>1, <2>2, <2>3
  <2> QED BY <2>1, <2>4, <2>5
<1>3. <<x>> \o s = <<y>> \o r
  BY DEF Body
<1> HIDE DEF s, r, x, y, S
<1>4. /\ Len(<<x>> \o s) = 1 + Len(s) /\ (<<x>> \o s)[1] = x
      /\ \A m \in 1..Len(s) : (<<x>> \o s)[m + 1] = s[m]
  BY <1>0, <1>1
<1>5. /\ Len(<<y>> \o r) = 1 + Len(r) /\ (<<y>> \o r)[1] = y
      /\ \A m \in 1..Len(r) : (<<y>> \o r)[m + 1] = r[m]
  BY <1>0, <1>2
<1>6. x = y /\ Len(s) = Len(r)
  <2>1. Len(s) \in Nat /\ Len(r) \in Nat
    BY <1>1, <1>2
  <2>2. 1 + Len(s) = 1 + Len(r)
    BY <1>3, <1>4, <1>5
  <2>3. x = y
    BY <1>3, <1>4, <1>5
  <2> QED BY <2>1, <2>2, <2>3
<1>7. ASSUME NEW m \in 1..Len(s) PROVE s[m] = r[m]
  <2>1. s[m] = (<<x>> \o s)[m + 1]
    BY <1>4
  <2>2. r[m] = (<<y>> \o r)[m + 1]
    BY <1>5, <1>6
  <2> QED BY <1>3, <2>1, <2>2
<1>8. e - 1 - i = f - 1 - j /\ e \in Int /\ f \in Int /\ i \in Int /\ j \in Int
  BY <1>1, <1>2, <1>6
<1>9. e - i = f - j
  BY <1>8
<1>10. \A m \in 1..e - 1 - i : h[i + m] = g[j + m]
  BY <1>1, <1>2, <1>6, <1>7
<1> QED BY <1>6, <1>9, <1>10 DEF x, y

Pairs(h, i, e) == {<<k - i, h[k]>> : k \in i + 1..e - 1}

LEMMA SamePairs ==
  ASSUME NEW h, NEW g, NEW i \in Nat, NEW j \in Nat, NEW e \in Nat, NEW f \in Nat, e - i = f - j,
         AlikeFrom(h, i, g, j, e - 1 - i)
  PROVE  Pairs(h, i, e) \subseteq Pairs(g, j, f)
<1> USE DEF Pairs, AlikeFrom
<1> SUFFICES ASSUME NEW k \in i + 1..e - 1 PROVE <<k - i, h[k]>> \in {<<n - j, g[n]>> : n \in j + 1..f - 1}
  OBVIOUS
<1> DEFINE m == k - i
           n == j + m
<1>1. m \in 1..e - 1 - i /\ k = i + m /\ n \in j + 1..f - 1 /\ n - j = m
  OBVIOUS
<1>2. h[k] = g[n]
  BY <1>1
<1> HIDE DEF m, n
<1>3. <<n - j, g[n]>> \in {<<l - j, g[l]>> : l \in j + 1..f - 1}
  BY <1>1
<1> QED BY <1>1, <1>2, <1>3 DEF m

\* A stage is unchanged if the same can be read of it in both.
LEMMA SameStage ==
  ASSUME NEW c, NEW b, parse_builder_candidate(c), parse_builder_candidate(b),
         _validate_workflow(c) = {}, _validate_workflow(b) = {},
         NEW t \in Targets(c) \cap Targets(b), t[1] = "workflow_stage",
         business_value(c, t) = business_value(b, t)
  PROVE  SameIn(c, b, t)
<1>1. PICK i \in DOMAIN c.headings : Stands(c, t[2]) = {i} /\ c.headings[i].title = Item(c, t).title
  BY StageHeading
<1>2. PICK j \in DOMAIN b.headings : Stands(b, t[2]) = {j} /\ b.headings[j].title = Item(b, t).title
  BY StageHeading
<1>3. /\ Item(c, t).title = Item(b, t).title
      /\ _workflow_stage_bodies(c.headings, t[2]) = _workflow_stage_bodies(b.headings, t[2])
  BY DEF business_value
<1> DEFINE h == c.headings
           g == b.headings
           x == h[i].text
           y == g[j].text
<1>4. PICK e \in i + 1..Len(h) + 1 :
           /\ Below(c, i) = i + 1..e - 1
           /\ _workflow_stage_bodies(h, t[2]) = <<x>> \o SubSeq(h, i + 1, e - 1)
  BY <1>1, StageBody
<1>5. PICK f \in j + 1..Len(g) + 1 :
           /\ Below(b, j) = j + 1..f - 1
           /\ _workflow_stage_bodies(g, t[2]) = <<y>> \o SubSeq(g, j + 1, f - 1)
  BY <1>2, StageBody
<1>6. h \in Seq(Range(h)) /\ g \in Seq(Range(g))
  BY DEF parse_builder_candidate
<1>8. i \in 1..Len(h) /\ j \in 1..Len(g) /\ Len(h) \in Nat /\ Len(g) \in Nat
  BY SMTT(40), <1>6
<1>9. Body(h, i, e) = Body(g, j, f)
  BY <1>3, <1>4, <1>5 DEF Body
<1> HIDE DEF h, g
<1>10. x = y /\ e - i = f - j /\ AlikeFrom(h, i, g, j, e - 1 - i)
  <2>1. e \in i + 1..Len(h) + 1 /\ f \in j + 1..Len(g) + 1
    OBVIOUS
  <2> QED BY <1>6, <1>8, <1>9, <2>1, SameBodies
<1> HIDE DEF x, y
<1>11. Pairs(h, i, e) = Pairs(g, j, f)
  <2>1. i \in Nat /\ j \in Nat /\ e \in Nat /\ f \in Nat
    BY <1>8
  <2>2. AlikeFrom(g, j, h, i, f - 1 - j)
    BY SMTT(40), <1>10, <2>1 DEF AlikeFrom
  <2>3. Pairs(h, i, e) \subseteq Pairs(g, j, f)
    BY <1>10, <2>1, SamePairs
  <2>4. Pairs(g, j, f) \subseteq Pairs(h, i, e)
    BY <1>10, <2>1, <2>2, SamePairs
  <2> QED BY <2>3, <2>4
<1>12. h[i].title = g[j].title
  BY <1>1, <1>2, <1>3 DEF h, g
<1>13. Section(c, t[2]) = {<<h[i].title, x, Pairs(h, i, e)>>}
  BY <1>1, <1>4 DEF Section, h, x, Pairs
<1>14. Section(b, t[2]) = {<<g[j].title, y, Pairs(g, j, f)>>}
  BY <1>2, <1>5 DEF Section, g, y, Pairs
<1>15. Section(c, t[2]) = Section(b, t[2])
  BY <1>10, <1>11, <1>12, <1>13, <1>14
<1> QED BY <1>15 DEF SameIn

LEMMA SameTarget ==
  ASSUME NEW c, NEW b, parse_builder_candidate(c), parse_builder_candidate(b),
         _validate_workflow(c) = {}, _validate_workflow(b) = {}, NEW t \in Unchanged(c, b)
  PROVE  SameIn(c, b, t)
<1>1. t \in Targets(c) \cap Targets(b) /\ business_value(c, t) = business_value(b, t)
  BY DEF Unchanged
<1> QED BY <1>1, SameStage, SameObject

(***************************************************************************)
(* Validation.                                                             *)
(***************************************************************************)

LEMMA Valid ==
  ASSUME NEW c, validate_builder_candidate(c) = {}
  PROVE  /\ c.flaw # "malformed" /\ _validate_files(c) = {} /\ _validate_identifiers_and_references(c) = {}
         /\ _validate_workflow(c) = {} /\ _validate_evidence_coverage(c) = {}
<1>1. c.flaw # "malformed"
  BY DEF validate_builder_candidate
<1> QED BY <1>1 DEF validate_builder_candidate

\* The diagnostics of the i-th file, and of the files that are not there.
Kept(c) == {i \in DOMAIN c.files : c.files[i].path # "" /\ ~(\E k \in 1..(i - 1) : c.files[k].path = c.files[i].path)}
Full(c) == {c.files[i].path : i \in {i \in Kept(c) : c.files[i].text # "empty"}}
OfFile(c, i) ==
  When(c.files[i].path = "", <<"invalid_path", i>>)
  \cup When(c.files[i].path # "" /\ (\E k \in 1..(i - 1) : c.files[k].path = c.files[i].path), <<"duplicate_path", i>>)
  \cup When(i \in Kept(c) /\ c.files[i].path \in FORBIDDEN_BUILDER_FILES, <<"forbidden_file", i>>)
  \cup When(i \in Kept(c) /\ c.files[i].text = "empty", <<"empty_file", i>>)
  \cup When(i \in Kept(c) /\ c.files[i].text = "placeholder", <<"placeholder_content", i>>)
Missing(c) == {<<"missing_required_file", path>> : path \in REQUIRED_BUILDER_FILES \ Full(c)}

OfFiles(c) == UNION {OfFile(c, i) : i \in DOMAIN c.files}

LEMMA FilesOf ==
  ASSUME NEW c
  PROVE  _validate_files(c) = IF c.files = <<>> THEN {<<"required", "files">>} ELSE OfFiles(c) \cup Missing(c)
BY DEF _validate_files, OfFiles, OfFile, Missing, Full, Kept

LEMMA ValidFile ==
  ASSUME NEW c, _validate_files(c) = {}
  PROVE  /\ REQUIRED_BUILDER_FILES \subseteq Full(c)
         /\ \A i \in Kept(c) : c.files[i].text # "placeholder"
<1>1. c.files # <<>>
  BY FilesOf
<1>2. Missing(c) = {} /\ \A i \in DOMAIN c.files : OfFile(c, i) = {}
  <2>1. Missing(c) = {} /\ OfFiles(c) = {}
    BY <1>1, FilesOf
  <2> QED BY <2>1 DEF OfFiles
<1>3. REQUIRED_BUILDER_FILES \subseteq Full(c)
  BY <1>2 DEF Missing
<1>4. ASSUME NEW i \in Kept(c) PROVE c.files[i].text # "placeholder"
  <2>1. OfFile(c, i) = {}
    BY <1>2 DEF Kept
  <2>2. When(i \in Kept(c) /\ c.files[i].text = "placeholder", <<"placeholder_content", i>>) = {}
    BY <2>1 DEF OfFile
  <2> QED BY <2>2 DEF When
<1> QED BY <1>3, <1>4

LEMMA ValidFiles ==
  ASSUME NEW c, parse_builder_candidate(c), _validate_files(c) = {}
  PROVE  REQUIRED_BUILDER_FILES \subseteq {f.path : f \in {x \in Range(c.files) : x.text = "full"}}
<1> SUFFICES ASSUME NEW path \in REQUIRED_BUILDER_FILES
             PROVE  \E f \in Range(c.files) : f.text = "full" /\ f.path = path
  OBVIOUS
<1>1. path \in Full(c)
  BY ValidFile
<1>2. PICK i \in Kept(c) : c.files[i].text # "empty" /\ c.files[i].path = path
  BY <1>1 DEF Full
<1>3. c.files[i].text # "placeholder" /\ i \in DOMAIN c.files
  BY ValidFile DEF Kept
<1>4. c.files[i] \in Range(c.files) /\ c.files[i].text \in {"full", "empty", "placeholder"}
  BY <1>3 DEF Range, parse_builder_candidate
<1> QED BY <1>2, <1>3, <1>4

\* The diagnostics of the i-th safety constraint.
OfSafety(c, i) ==
  When(c.safety[i].scope = "all_stages" /\ c.safety[i].stages # {}, <<"invalid_scope_stage_ids", i>>)
  \cup When(c.safety[i].scope = "selected_stages" /\ c.safety[i].stages = {}, <<"missing_stage_ids", i>>)
  \cup _unknown_ids("safety", i, c.safety[i].stages, Ids(c.steps))
OfSafeties(c) == UNION {OfSafety(c, i) : i \in DOMAIN c.safety}
OfExpected(c) == UNION {_unknown_ids("expected", i, {c.expected[i].stage}, Ids(c.steps)) : i \in DOMAIN c.expected}

LEMMA ReferencesOf ==
  ASSUME NEW c
  PROVE  /\ OfSafeties(c) \subseteq _validate_identifiers_and_references(c)
         /\ OfExpected(c) \subseteq _validate_identifiers_and_references(c)
BY DEF _validate_identifiers_and_references, OfSafeties, OfSafety, OfExpected

LEMMA ValidReferences ==
  ASSUME NEW c, _validate_identifiers_and_references(c) = {}
  PROVE  /\ \A x \in Range(c.safety) : x.stages \subseteq Ids(c.steps)
         /\ \A x \in Range(c.expected) : x.stage \in Ids(c.steps)
<1>0. OfSafeties(c) = {} /\ OfExpected(c) = {}
  BY ReferencesOf
<1>1. ASSUME NEW i \in DOMAIN c.safety PROVE _unknown_ids("safety", i, c.safety[i].stages, Ids(c.steps)) = {}
  <2>1. OfSafety(c, i) = {}
    BY <1>0 DEF OfSafeties
  <2> QED BY <2>1 DEF OfSafety
<1>2. ASSUME NEW i \in DOMAIN c.expected PROVE _unknown_ids("expected", i, {c.expected[i].stage}, Ids(c.steps)) = {}
  BY <1>0 DEF OfExpected
<1>3. ASSUME NEW i \in DOMAIN c.safety, NEW id \in c.safety[i].stages \ Ids(c.steps)
      PROVE  FALSE
  <2>1. <<"unknown_stage_id", "safety", i, id>> \in _unknown_ids("safety", i, c.safety[i].stages, Ids(c.steps))
    BY DEF _unknown_ids
  <2> QED BY <1>1, <2>1
<1>4. ASSUME NEW i \in DOMAIN c.expected, c.expected[i].stage \notin Ids(c.steps)
      PROVE  FALSE
  <2>1. <<"unknown_stage_id", "expected", i, c.expected[i].stage>>
          \in _unknown_ids("expected", i, {c.expected[i].stage}, Ids(c.steps))
    BY <1>4 DEF _unknown_ids
  <2> QED BY <1>2, <2>1
<1> QED BY <1>3, <1>4 DEF Range

LEMMA ValidWorkflow ==
  ASSUME NEW c, parse_builder_candidate(c), _validate_workflow(c) = {}
  PROVE  \A id \in Ids(c.steps) : \E h \in Range(c.headings) : h.id = id
<1> SUFFICES ASSUME NEW id \in Ids(c.steps) PROVE \E h \in Range(c.headings) : h.id = id
  OBVIOUS
<1>1. PICK n \in DOMAIN c.steps : c.steps[n].id = id
  BY DEF Ids
<1> DEFINE times == {k \in DOMAIN c.headings : c.headings[k].id = c.steps[n].id}
<1>2. When(times = {}, <<"workflow_not_in_skill", n>>) = {}
  <2>1. _validate_workflow(c) = UNION {OfStep(c, k) : k \in DOMAIN c.steps}
    BY DEF _validate_workflow, OfStep
  <2>2. OfStep(c, n) = {}
    BY <1>1, <2>1
  <2> QED BY <2>2 DEF OfStep
<1>3. times # {}
  <2> HIDE DEF times
  <2> QED BY <1>2 DEF When
<1> QED BY <1>1, <1>3 DEF Range

(***************************************************************************)
(* The submission.                                                         *)
(***************************************************************************)

\* Reconciling changes nothing but the evidence and the standards.
LEMMA ReconciledFields ==
  ASSUME NEW c, NEW b, parse_builder_candidate(c)
  PROVE  LET r == reconcile_builder_candidate(c, b)
         IN  /\ r.flaw = c.flaw /\ r.files = c.files /\ r.headings = c.headings /\ r.steps = c.steps
             /\ r.safety = c.safety /\ r.expected = c.expected
             /\ r.evidence = Inherit(c.evidence, b.evidence, Unchanged(c, b) \ Supported(c))
BY DEF reconcile_builder_candidate, parse_builder_candidate, Fields

\* The rules that look at these fields say the same of both.
LEMMA SameRules ==
  ASSUME NEW c, NEW r, r.files = c.files, r.headings = c.headings, r.steps = c.steps,
         r.safety = c.safety, r.expected = c.expected
  PROVE  /\ Targets(r) = Targets(c)
         /\ _validate_files(r) = _validate_files(c)
         /\ _validate_workflow(r) = _validate_workflow(c)
         /\ OfSafeties(r) = OfSafeties(c) /\ OfExpected(r) = OfExpected(c)
<1>1. Targets(r) = Targets(c)
  BY DEF Targets, Items
<1>2. _validate_files(r) = _validate_files(c)
  BY DEF _validate_files
<1>3. _validate_workflow(r) = _validate_workflow(c)
  BY DEF _validate_workflow
<1>4. OfSafeties(r) = OfSafeties(c) /\ OfExpected(r) = OfExpected(c)
  BY DEF OfSafeties, OfSafety, OfExpected
<1> QED BY <1>1, <1>2, <1>3, <1>4

LEMMA Covered ==
  ASSUME NEW c, _validate_evidence_coverage(c) = {}, NEW t \in Targets(c)
  PROVE  Sourced(c, t)
<1>1. t \in Supported(c)
  BY DEF _validate_evidence_coverage
<1> QED BY <1>1 DEF Supported, Sourced, _evidence_item_has_supported_source

\* What the reconciled candidate has a source for had it in the one or the other.
LEMMA Inherited ==
  ASSUME NEW c, NEW b, parse_builder_candidate(c), parse_builder_candidate(b), NEW t,
         Sourced(reconcile_builder_candidate(c, b), t)
  PROVE  Sourced(c, t) \/ (Sourced(b, t) /\ t \in Unchanged(c, b))
<1> DEFINE r == reconcile_builder_candidate(c, b)
           old == b.evidence
           items == c.evidence
           missing == Unchanged(c, b) \ Supported(c)
           places == {k \in DOMAIN old : old[k].used \cap missing # {}}
<1>1. r.evidence = Inherit(items, old, missing)
  BY ReconciledFields
<1>2. items \in Seq(Range(items)) /\ old \in Seq(Range(old))
  BY DEF parse_builder_candidate
<1>3. \A x \in Range(old) : x = [supported |-> x.supported, used |-> x.used]
  BY DEF parse_builder_candidate
<1> HIDE DEF items, old, missing
<1>4. PICK i \in DOMAIN Inherit(items, old, missing) :
        Inherit(items, old, missing)[i].supported /\ t \in Inherit(items, old, missing)[i].used
  BY <1>1 DEF Sourced
<1>5. CASE i \in DOMAIN items
  <2>1. Inherit(items, old, missing)[i] = items[i]
    BY <1>4, <1>5 DEF Inherit
  <2> QED BY <1>4, <1>5, <2>1 DEF Sourced, items
<1>6. CASE i \notin DOMAIN items
  <2>1. PICK k \in places : i = Len(items) + k
    BY <1>4, <1>6 DEF Inherit
  <2>2. i - Len(items) = k /\ k \in DOMAIN old
    BY <1>2, <2>1
  <2>3. Inherit(items, old, missing)[i] = [old[k] EXCEPT !.used = @ \cap missing]
    BY <1>4, <1>6, <2>2 DEF Inherit
  <2>4. old[k] = [supported |-> old[k].supported, used |-> old[k].used]
    BY <1>3, <2>2 DEF Range
  <2>5. old[k].supported /\ t \in old[k].used /\ t \in missing
    BY <1>4, <2>3, <2>4
  <2> QED BY <2>2, <2>5 DEF Sourced, old, missing
<1> QED BY <1>5, <1>6

\* A proposal that is not refused is sound.
LEMMA NotRefused ==
  ASSUME NEW c, NEW bs, Diagnostics(c, bs) = {},
         c.flaw \in {"malformed", "provenance"} \/ parse_builder_candidate(c),
         \A b \in bs : bs = {b} /\ parse_builder_candidate(b) /\ _validate_workflow(b) = {}
  PROVE  SoundProposal(c, bs)
<1> DEFINE r == Reconciled(c, bs)
<1>1. c.flaw # "provenance" /\ validate_builder_candidate(r) = {}
  BY DEF Diagnostics
<1>2. r.flaw # "malformed"
  BY <1>1, Valid
<1>3. c.flaw # "malformed" /\ parse_builder_candidate(c)
  BY <1>1, <1>2 DEF Reconciled
<1>4. CASE bs = {}
  <2>1. r = c
    BY <1>4 DEF Reconciled
  <2>2. /\ _validate_files(c) = {} /\ _validate_identifiers_and_references(c) = {}
        /\ _validate_workflow(c) = {} /\ _validate_evidence_coverage(c) = {}
    BY <1>1, <2>1, Valid
  <2> QED BY <1>3, <2>2, ValidFiles, ValidReferences, ValidWorkflow, Covered DEF SoundProposal
<1>5. CASE bs # {}
  <2>1. PICK b \in bs : bs = {b} /\ parse_builder_candidate(b) /\ _validate_workflow(b) = {}
    BY <1>5
  <2>2. (CHOOSE x \in bs : TRUE) = b
    BY <2>1
  <2>3. r = reconcile_builder_candidate(c, b)
    BY <1>3, <1>5, <2>2 DEF Reconciled
  <2> HIDE DEF r
  <2>4. /\ _validate_files(r) = {} /\ _validate_identifiers_and_references(r) = {}
        /\ _validate_workflow(r) = {} /\ _validate_evidence_coverage(r) = {}
    BY <1>1, Valid
  <2>5. /\ r.files = c.files /\ r.headings = c.headings /\ r.steps = c.steps
        /\ r.safety = c.safety /\ r.expected = c.expected
    BY <1>3, <2>3, ReconciledFields
  <2>6. /\ _validate_files(c) = {} /\ _validate_workflow(c) = {} /\ Targets(r) = Targets(c)
    BY <2>4, <2>5, SameRules
  <2>7. /\ \A x \in Range(r.safety) : x.stages \subseteq Ids(r.steps)
        /\ \A x \in Range(r.expected) : x.stage \in Ids(r.steps)
    BY <2>4, ValidReferences
  <2>8. ASSUME NEW t \in Targets(c)
        PROVE  Sourced(c, t) \/ \E x \in bs : Sourced(x, t) /\ SameIn(c, x, t)
    <3>1. Sourced(r, t)
      BY <2>4, <2>6, Covered
    <3>2. Sourced(c, t) \/ (Sourced(b, t) /\ t \in Unchanged(c, b))
      BY <1>3, <2>1, <2>3, <3>1, Inherited
    <3>3. t \in Unchanged(c, b) => SameIn(c, b, t)
      BY <1>3, <2>1, <2>6, SameTarget
    <3> QED BY <3>2, <3>3
  <2> QED BY <1>3, <2>5, <2>6, <2>7, <2>8, ValidFiles, ValidWorkflow DEF SoundProposal
<1> QED BY <1>4, <1>5

(***************************************************************************)
(* The invocations.                                                        *)
(***************************************************************************)

Pcs == {"idle", "starting", "model", "tools", "judge", "finish",
        "failing", "persist", "returned", "escaped", "dead"}
Statuses == {"none", "succeeded", "incomplete", "error"}
Counters == SUBSET (Nat \X Numbers)
Row == [pc : Pcs, seq : 0..MaxEvents, calls : Nat, conts : 0..MaxContinuations, errs : Nat,
        refused : Numbers, seen : Counters, completed : SUBSET Tools,
        failed : BOOLEAN, crossed : BOOLEAN, status : Statuses]
CallRow == [at : {"none", "handling", "writing", "written", "raised"}, tool : Tools \cup {"none"}, mine : Candidates]

\* Only an invocation at its tools has calls under way, and knows their tools.
InHand(i) ==
  /\ inv[i].pc # "tools" => \A c \in Calls : call[i][c].at = "none"
  /\ \A c \in Calls : call[i][c].at # "none" => call[i][c].tool \in Tools
  /\ inv[i].pc = "idle" => ~inv[i].crossed

Types == TypeOK /\ \A i \in Invocations : InHand(i)

(***************************************************************************)
(* The rows of the invocations.                                            *)
(***************************************************************************)

LEMMA Size == Len(Proposals) \in Nat \ {0} /\ DOMAIN Proposals = 1..Len(Proposals)
<1>1. Proposals \in Seq(Range(Proposals)) /\ Proposals # <<>>
  BY AgentAssumption
<1> QED BY <1>1

LEMMA AgentTypes ==
  ASSUME NEW a \in Agents
  PROVE  /\ a.live \in BOOLEAN /\ a.keepsId \in BOOLEAN /\ a.drafts \in BOOLEAN /\ a.repairs \in BOOLEAN
         /\ a.offers \subseteq Numbers \ {0} /\ a.required \subseteq Tools
         /\ (~a.drafts => a.offers = {})
<1>1. a.offers \subseteq DOMAIN Proposals
  BY AgentAssumption
<1>2. DOMAIN Proposals \subseteq Numbers \ {0}
  BY Size DEF Numbers
<1> QED BY <1>1, <1>2, AgentAssumption

LEMMA Constants ==
  /\ MaxInvocations \in Nat \ {0} /\ MaxContinuations \in Nat /\ MaxEvents \in Nat \ {0}
  /\ 0 \in Numbers /\ 1 \in Numbers
BY Size, AgentAssumption DEF Numbers

LEMMA Width == MaxWidth \in Nat \ {0} /\ \A a \in Agents : a.width \in 1..MaxWidth
BY AgentAssumption

LEMMA IdType ==
  ASSUME NEW i \in Invocations
  PROVE  Id(i) \in Invocations
BY Constants DEF Id, Invocations

LEMMA NothingType == Nothing \in Candidates /\ Nothing.by = 0 /\ Nothing.n = 0 /\ ~Nothing.checked
BY Constants DEF Nothing, Candidates

LEMMA RowTypes ==
  ASSUME TypeOK
  PROVE  /\ inv \in [Invocations -> Row] /\ agent \in Agents
         /\ result \in [Invocations -> Candidates] /\ draft \in [Invocations -> Candidates]
         /\ arts \in [Invocations -> Candidates]
         /\ log \in [Invocations -> SUBSET ((1..MaxEvents) \X Invocations)]
         /\ call \in [Invocations -> [Calls -> CallRow]]
BY DEF TypeOK, Row, Counters, Pcs, Statuses, CallRow

\* What an assignment to the row of i does.
LEMMA Becomes ==
  ASSUME TypeOK, NEW i \in Invocations, NEW r \in Row, Become(i, r)
  PROVE  /\ inv' \in [Invocations -> Row] /\ inv'[i] = r
         /\ \A j \in Invocations \ {i} : inv'[j] = inv[j]
BY RowTypes DEF Become

\* The invocation goes on with what r says of it, apart from its events.
Alike(r, s) == r.pc = s.pc /\ r.completed = s.completed /\ r.crossed = s.crossed /\ r.status = s.status

LEMMA RaisedRow ==
  ASSUME NEW r \in Row
  PROVE  /\ Raised(r) \in Row /\ Raised(r).pc = "failing" /\ Raised(r).seq = r.seq
         /\ Raised(r).completed = r.completed /\ Raised(r).status = r.status /\ Raised(r).crossed = r.crossed
BY DEF Raised, Row, Pcs

LEMMA PcRow ==
  ASSUME NEW r \in Row, NEW p \in Pcs
  PROVE  /\ [r EXCEPT !.pc = p] \in Row /\ [r EXCEPT !.pc = p].pc = p /\ [r EXCEPT !.pc = p].seq = r.seq
         /\ [r EXCEPT !.pc = p].completed = r.completed /\ [r EXCEPT !.pc = p].status = r.status
         /\ [r EXCEPT !.pc = p].crossed = r.crossed
BY DEF Row

LEMMA NewIs ==
  New \in Row /\ New.pc = "idle" /\ New.seq = 0 /\ New.status = "none" /\ ~New.crossed
<1>1. {} \in Counters
  BY DEF Counters
<1> QED BY <1>1, Constants DEF New, Row, Pcs, Statuses

LEMMA NewRow ==
  ASSUME NEW p \in Pcs
  PROVE  /\ [New EXCEPT !.pc = p] \in Row /\ [New EXCEPT !.pc = p].pc = p /\ [New EXCEPT !.pc = p].seq = 0
         /\ [New EXCEPT !.pc = p].status = "none" /\ ~[New EXCEPT !.pc = p].crossed
BY NewIs, PcRow

Done(r, c, e, f) == [r EXCEPT !.completed = c, !.errs = e, !.refused = f, !.seen = @ \cup {<<e, f>>}]
Over(r, p, status) == [r EXCEPT !.pc = p, !.status = status]

LEMMA DoneRow ==
  ASSUME NEW r \in Row, NEW c \in SUBSET Tools, NEW e \in Nat, NEW f \in Numbers
  PROVE  /\ Done(r, c, e, f) \in Row /\ Done(r, c, e, f).pc = r.pc /\ Done(r, c, e, f).completed = c
         /\ Done(r, c, e, f).status = r.status /\ Done(r, c, e, f).crossed = r.crossed
         /\ Done(r, c, e, f).seq = r.seq
<1>1. r.seen \cup {<<e, f>>} \in Counters
  BY DEF Row, Counters
<1> QED BY <1>1 DEF Row, Done

LEMMA EndedRow ==
  ASSUME NEW i \in Invocations, NEW c \in Calls, NEW r \in Row, NEW raises \in BOOLEAN
  PROVE  LET d == Ended(i, c, r, raises)
         IN  /\ d \in Row /\ d.completed = r.completed /\ d.status = r.status /\ d.crossed = r.crossed
             /\ d.seq = r.seq
             /\ IF Others(i, c) # {} THEN d.pc = r.pc ELSE d.pc \in {"model", "failing"}
<1>1. r.failed \in BOOLEAN
  BY DEF Row
<1>2. CASE Others(i, c) # {}
  <2>1. Ended(i, c, r, raises) = [r EXCEPT !.failed = r.failed \/ raises]
    BY <1>2 DEF Ended
  <2>2. (r.failed \/ raises) \in BOOLEAN
    BY <1>1
  <2> QED BY <1>2, <2>1, <2>2 DEF Row
<1>3. CASE Others(i, c) = {}
  <2> DEFINE p == IF r.failed \/ raises THEN "failing" ELSE "model"
  <2>1. Ended(i, c, r, raises) = [r EXCEPT !.failed = FALSE, !.seen = {}, !.pc = p]
    BY <1>3 DEF Ended
  <2>2. p \in {"model", "failing"} /\ p \in Pcs
    BY DEF Pcs
  <2> HIDE DEF p
  <2>3. {} \in Counters
    BY DEF Counters
  <2> QED BY <1>3, <2>1, <2>2, <2>3 DEF Row
<1> QED BY <1>2, <1>3

LEMMA OverRow ==
  ASSUME NEW r \in Row, NEW status \in Statuses, NEW p \in Pcs
  PROVE  /\ Over(r, p, status) \in Row /\ Over(r, p, status).pc = p /\ Over(r, p, status).seq = r.seq
         /\ Over(r, p, status).completed = r.completed /\ Over(r, p, status).status = status
         /\ Over(r, p, status).crossed = r.crossed
BY DEF Row, Over

LEMMA AgainRow ==
  ASSUME NEW r \in Row, r.conts < MaxContinuations, NEW d, d = [r EXCEPT !.pc = "model", !.conts = @ + 1]
  PROVE  d \in Row /\ d.pc = "model" /\ d.completed = r.completed /\ d.status = r.status /\ d.crossed = r.crossed
<1>1. r.conts + 1 \in 0..MaxContinuations
  BY Constants DEF Row
<1>2. d = [r EXCEPT !.pc = "model", !.conts = r.conts + 1]
  OBVIOUS
<1> QED BY <1>1, <1>2 DEF Row, Pcs

LEMMA ReturnedRow ==
  ASSUME NEW r \in Row, NEW d,
         d = [New EXCEPT !.pc = "returned", !.seq = r.seq, !.status = r.status, !.completed = r.completed,
                         !.crossed = r.crossed]
  PROVE  /\ d \in Row /\ d.pc = "returned" /\ d.seq = r.seq /\ d.status = r.status
         /\ d.completed = r.completed /\ d.crossed = r.crossed
<1>1. r.seq \in 0..MaxEvents /\ r.status \in Statuses /\ r.completed \in SUBSET Tools /\ r.crossed \in BOOLEAN
  BY DEF Row
<1> QED BY <1>1, NewIs DEF Row, Pcs

LEMMA NextSeqType ==
  ASSUME TypeOK, NEW i \in Invocations
  PROVE  NextSeq(i) \in 1..MaxEvents
<1>1. inv[i].seq \in 0..MaxEvents
  BY RowTypes DEF Row
<1> QED BY <1>1, Constants DEF NextSeq

\* The events of i after it recorded one, or wrote none.
Recorded(i) ==
  /\ inv'[i].seq = NextSeq(i)
  /\ log' = IF agent.live /\ ~Clash(i) THEN [log EXCEPT ![Id(i)] = @ \cup {<<NextSeq(i), i>>}] ELSE log
Silent(i) == inv'[i].seq = inv[i].seq /\ log' = log

LEMMA RecordStep ==
  ASSUME TypeOK, NEW i \in Invocations, NEW ok \in Row, NEW clashed \in Row, Record(i, ok, clashed)
  PROVE  /\ inv' \in [Invocations -> Row] /\ \A j \in Invocations \ {i} : inv'[j] = inv[j]
         /\ Alike(inv'[i], ok) \/ Alike(inv'[i], clashed)
         /\ Recorded(i)
<1> DEFINE a == [ok EXCEPT !.seq = NextSeq(i)]
           b == [clashed EXCEPT !.seq = NextSeq(i)]
<1>1. a \in Row /\ b \in Row /\ Alike(a, ok) /\ Alike(b, clashed) /\ a.seq = NextSeq(i) /\ b.seq = NextSeq(i)
  BY NextSeqType, Constants DEF Row, Alike
<1>2. CASE Clash(i)
  <2>1. Become(i, b) /\ log' = log
    BY <1>2 DEF Record
  <2> HIDE DEF b
  <2> QED BY <1>1, <1>2, <2>1, Becomes DEF Recorded
<1>3. CASE ~Clash(i)
  <2>1. /\ Become(i, a)
        /\ log' = IF agent.live THEN [log EXCEPT ![Id(i)] = @ \cup {<<NextSeq(i), i>>}] ELSE log
    BY <1>3 DEF Record
  <2> HIDE DEF a
  <2> QED BY <1>1, <1>3, <2>1, Becomes DEF Recorded
<1> QED BY <1>2, <1>3

LEMMA RaiseStep ==
  ASSUME TypeOK, NEW i \in Invocations, Raise(i)
  PROVE  /\ inv' \in [Invocations -> Row] /\ \A j \in Invocations \ {i} : inv'[j] = inv[j]
         /\ inv'[i].pc = "failing" /\ inv'[i].completed = inv[i].completed /\ inv'[i].status = inv[i].status
         /\ inv'[i].crossed = inv[i].crossed /\ Silent(i)
<1>1. inv[i] \in Row
  BY RowTypes
<1>2. Become(i, Raised(inv[i])) /\ log' = log
  BY DEF Raise
<1> QED BY <1>1, <1>2, RaisedRow, Becomes DEF Silent

(***************************************************************************)
(* The steps of an invocation.                                             *)
(***************************************************************************)

\* Of the rows and the calls only those of i change.
Moved(i) ==
  /\ inv' \in [Invocations -> Row] /\ call' \in [Invocations -> [Calls -> CallRow]]
  /\ \A j \in Invocations \ {i} : inv'[j] = inv[j] /\ call'[j] = call[j]

\* The invocation i goes on, and it forgets nothing that it completed.
Moves(i) ==
  /\ Moved(i) /\ InHand(i)'
  /\ AtWork(i) /\ inv'[i].pc \notin {"idle", "dead"}
  /\ inv[i].completed \subseteq inv'[i].completed

\* Its status stays or says that it failed, unless all was found to be there.
Earns(i) ==
  \/ inv'[i].status \in {inv[i].status, "incomplete", "error"}
  \/ result[Id(i)] # Nothing /\ agent.required \subseteq inv'[i].completed

\* No submission begins or ends to write.
Quiet(i) ==
  /\ inv'[i].crossed = inv[i].crossed
  /\ \A c \in Calls : call'[i][c] = call[i][c] \/ "writing" \notin {call[i][c].at, call'[i][c].at}

\* A step that submits nothing and is not the last one.
Goes(i) ==
  /\ Moves(i) /\ Earns(i) /\ (Recorded(i) \/ Silent(i)) /\ Quiet(i)
  /\ inv'[i].pc # "returned"
  /\ UNCHANGED <<sandbox, record, arts>>

\* What the submit tool accepts.
Acceptable(i, s) ==
  \/ \E k \in agent.offers : Verdict(k) = {} /\ s = [by |-> i, n |-> k, checked |-> TRUE, formal |-> TRUE]
  \/ /\ ~agent.drafts
     /\ \E formal \in BOOLEAN :
          /\ formal \/ agent.repairs
          /\ s = [by |-> i, n |-> Other(result[Id(i)], i), checked |-> TRUE, formal |-> formal]

\* A candidate is accepted.
Submits(i) ==
  /\ Moves(i) /\ Earns(i) /\ Silent(i) /\ inv'[i].pc = "tools"
  /\ inv'[i].crossed = (Writing(i) # {})
  /\ \E c \in Calls : \E s \in Candidates :
       /\ Acceptable(i, s) /\ result' = [result EXCEPT ![Id(i)] = s]
       /\ call' = [call EXCEPT ![i][c].at = "writing", ![i][c].mine = s]
  /\ UNCHANGED <<draft, record, arts>>

\* Its files follow.
Writes(i) ==
  /\ Moves(i) /\ Earns(i) /\ (Recorded(i) \/ Silent(i)) /\ inv'[i].pc = "tools"
  /\ inv'[i].crossed = inv[i].crossed
  /\ \E c \in Calls : \E at \in {"written", "raised"} :
       /\ call[i][c].at = "writing"
       /\ call' = [call EXCEPT ![i][c].at = at, ![i][c].mine = Nothing]
       /\ draft' = IF agent.drafts THEN [draft EXCEPT ![Id(i)] = call[i][c].mine] ELSE draft
  /\ UNCHANGED <<result, record, arts>>

\* It is over, and its rows are written.
Returns(i) ==
  /\ Moves(i) /\ Quiet(i)
  /\ inv[i].pc = "persist" /\ inv'[i].pc = "returned"
  /\ inv'[i].seq = inv[i].seq /\ inv'[i].status = inv[i].status /\ inv'[i].completed = inv[i].completed
  /\ record' = [record EXCEPT ![Id(i)] = IF inv[i].status = "succeeded" THEN "succeeded" ELSE "failed"]
  /\ arts' = [arts EXCEPT ![Id(i)] = IF inv[i].status = "error" THEN Nothing ELSE result[Id(i)]]
  /\ log' = IF agent.live THEN log ELSE [log EXCEPT ![Id(i)] = {<<n, i>> : n \in 1..inv[i].seq}]
  /\ UNCHANGED sandbox

Alternatives(i) == Goes(i) \/ Submits(i) \/ Writes(i) \/ Returns(i)

\* The candidates of the agents that draft nothing have two names.
Named(i) == ~agent.drafts => result[Id(i)].n \in {0, 1}

\* A step without a tool call leaves the calls as they are: there are none.
LEMMA Rests ==
  ASSUME Types, NEW i \in Invocations, inv[i].pc # "tools", call' = call, inv'[i].pc # "idle"
  PROVE  /\ InHand(i)' /\ call' \in [Invocations -> [Calls -> CallRow]]
         /\ \A j \in Invocations \ {i} : call'[j] = call[j]
         /\ \A c \in Calls : call'[i][c] = call[i][c]
BY RowTypes DEF Types, InHand

\* A row that i may go on with.
Fits(i, r) ==
  /\ r \in Row /\ r.pc \notin {"idle", "dead", "returned"}
  /\ r.completed = inv[i].completed /\ r.crossed = inv[i].crossed
  /\ r.status \in {inv[i].status, "incomplete", "error"}

LEMMA RecordGoes ==
  ASSUME Types, NEW i \in Invocations, AtWork(i), inv[i].pc # "tools", call' = call,
         NEW ok, Fits(i, ok), NEW clashed, Fits(i, clashed), Record(i, ok, clashed),
         UNCHANGED <<sandbox, record, arts>>
  PROVE  Goes(i)
<1>1. ok \in Row /\ clashed \in Row /\ TypeOK
  BY DEF Fits, Types
<1>2. /\ inv' \in [Invocations -> Row] /\ \A j \in Invocations \ {i} : inv'[j] = inv[j]
      /\ Alike(inv'[i], ok) \/ Alike(inv'[i], clashed)
      /\ Recorded(i)
  BY <1>1, RecordStep
<1>3. /\ inv'[i].pc \notin {"idle", "dead", "returned"} /\ inv'[i].crossed = inv[i].crossed
      /\ inv'[i].completed = inv[i].completed /\ inv'[i].status \in {inv[i].status, "incomplete", "error"}
  BY <1>2 DEF Fits, Alike
<1> QED BY <1>2, <1>3, Rests DEF Goes, Moves, Moved, Earns, Quiet

LEMMA RaiseGoes ==
  ASSUME Types, NEW i \in Invocations, AtWork(i), inv[i].pc # "tools", call' = call, Raise(i),
         UNCHANGED <<sandbox, record, arts>>
  PROVE  Goes(i)
<1>1. /\ inv' \in [Invocations -> Row] /\ \A j \in Invocations \ {i} : inv'[j] = inv[j]
      /\ inv'[i].pc = "failing" /\ inv'[i].completed = inv[i].completed /\ inv'[i].status = inv[i].status
      /\ inv'[i].crossed = inv[i].crossed /\ Silent(i)
  BY RaiseStep DEF Types
<1> QED BY <1>1, Rests DEF Goes, Moves, Moved, Earns, Quiet

LEMMA RaisedFits ==
  ASSUME NEW i, NEW r \in Row, r.completed = inv[i].completed, r.crossed = inv[i].crossed, r.status = inv[i].status
  PROVE  Fits(i, Raised(r))
BY RaisedRow DEF Fits

LEMMA PcFits ==
  ASSUME NEW i, NEW r \in Row, r.completed = inv[i].completed, r.crossed = inv[i].crossed, r.status = inv[i].status,
         NEW p \in Pcs \ {"idle", "dead", "returned"}
  PROVE  Fits(i, [r EXCEPT !.pc = p])
<1>1. /\ [r EXCEPT !.pc = p] \in Row /\ [r EXCEPT !.pc = p].pc = p
      /\ [r EXCEPT !.pc = p].completed = r.completed /\ [r EXCEPT !.pc = p].status = r.status
      /\ [r EXCEPT !.pc = p].crossed = r.crossed
  BY PcRow
<1> QED BY Zenon, <1>1 DEF Fits

LEMMA started_Goes ==
  ASSUME Types, NEW i \in Invocations, started(i), UNCHANGED <<call, record, arts>>
  PROVE  Goes(i)
<1> DEFINE ok == [inv[i] EXCEPT !.pc = "model"]
           clashed == [inv[i] EXCEPT !.pc = "escaped"]
<1>1. inv[i] \in Row /\ inv[i].pc = "starting" /\ Record(i, ok, clashed) /\ UNCHANGED sandbox
  BY RowTypes DEF started, Types
<1>2. Fits(i, ok) /\ Fits(i, clashed)
  BY <1>1, PcFits DEF Pcs
<1>3. AtWork(i)
  BY <1>1 DEF AtWork
<1> HIDE DEF ok, clashed
<1> QED BY <1>1, <1>2, <1>3, RecordGoes

LEMMA MessageType ==
  ASSUME NEW s \in Nat, NEW n \in Nat
  PROVE  /\ Message(s, n) \in [Calls -> CallRow]
         /\ \A c \in Calls : /\ Message(s, n)[c].at \in {"none", "handling"}
                             /\ Message(s, n)[c].at # "none" => Message(s, n)[c].tool \in Tools
<1> DEFINE row(c) == IF c > n THEN NoCall
                     ELSE [NoCall EXCEPT !.at = "handling", !.tool = IF c <= s THEN "submit" ELSE "read"]
<1>1. ASSUME NEW c \in Calls
      PROVE  /\ row(c) \in CallRow /\ row(c).at \in {"none", "handling"}
             /\ row(c).at # "none" => row(c).tool \in Tools
  BY NothingType DEF NoCall, CallRow, Tools
<1>2. Message(s, n) = [c \in Calls |-> row(c)]
  BY DEF Message
<1> HIDE DEF row
<1> QED BY <1>1, <1>2

LEMMA model_call_Goes ==
  ASSUME Types, NEW i \in Invocations, model_call(i), UNCHANGED <<record, arts>>
  PROVE  Goes(i)
<1> DEFINE counted == CountCall(inv[i])
           judged == [counted EXCEPT !.pc = "judge"]
           ok == [counted EXCEPT !.pc = "tools", !.seen = {<<counted.errs, counted.refused>>}]
<1>1. inv[i] \in Row /\ inv[i].pc = "model" /\ AtWork(i) /\ UNCHANGED sandbox
  BY RowTypes DEF model_call, Types, AtWork
<1>2. /\ counted \in Row /\ counted.completed = inv[i].completed /\ counted.status = inv[i].status
      /\ counted.crossed = inv[i].crossed
  BY <1>1 DEF CountCall, Row
<1> HIDE DEF counted
<1>3. Fits(i, Raised(counted)) /\ Fits(i, judged)
  BY <1>2, RaisedFits, PcFits DEF Pcs
<1>4. CASE Raise(i) /\ call' = call
  BY <1>1, <1>4, RaiseGoes
<1>5. CASE Record(i, Raised(counted), Raised(counted)) /\ call' = call
  BY <1>1, <1>3, <1>5, RecordGoes
<1>6. CASE Record(i, judged, Raised(counted)) /\ call' = call
  <2> HIDE DEF judged
  <2> QED BY <1>1, <1>3, <1>6, RecordGoes
<1>7. ASSUME NEW n \in 1..agent.width, NEW s \in 0..n, Record(i, ok, Raised(counted)),
             call' = IF Clash(i) THEN call ELSE [call EXCEPT ![i] = Message(s, n)]
      PROVE  Goes(i)
  <2>1. /\ ok \in Row /\ ok.pc = "tools" /\ ok.completed = inv[i].completed /\ ok.status = inv[i].status
        /\ ok.crossed = inv[i].crossed
    <3>1. {<<counted.errs, counted.refused>>} \in Counters
      BY <1>2 DEF Row, Counters
    <3> QED BY <1>2, <3>1 DEF Row, Pcs
  <2>2. Fits(i, ok)
    <3> HIDE DEF ok
    <3> QED BY <2>1 DEF Fits
  <2>3. CASE Clash(i)
    <3>1. Record(i, Raised(counted), Raised(counted)) /\ call' = call
      BY <1>7, <2>3 DEF Record
    <3> QED BY <1>5, <3>1
  <2>4. CASE ~Clash(i)
    <3>1. call' = [call EXCEPT ![i] = Message(s, n)]
      BY <1>7, <2>4
    <3>2. n \in Nat /\ s \in Nat
      BY Width, RowTypes DEF Types
    <3>3. /\ Message(s, n) \in [Calls -> CallRow]
          /\ \A c \in Calls : /\ Message(s, n)[c].at \in {"none", "handling"}
                              /\ Message(s, n)[c].at # "none" => Message(s, n)[c].tool \in Tools
      BY <3>2, MessageType
    <3>4. call \in [Invocations -> [Calls -> CallRow]] /\ TypeOK /\ \A c \in Calls : call[i][c].at = "none"
      BY <1>1, RowTypes DEF Types, InHand
    <3>5. /\ call' \in [Invocations -> [Calls -> CallRow]] /\ call'[i] = Message(s, n)
          /\ \A j \in Invocations \ {i} : call'[j] = call[j]
      BY <3>1, <3>3, <3>4
    <3>6. /\ inv' \in [Invocations -> Row] /\ \A j \in Invocations \ {i} : inv'[j] = inv[j]
          /\ inv'[i] = [ok EXCEPT !.seq = NextSeq(i)] /\ Recorded(i)
      <4> HIDE DEF ok, counted
      <4>1. Become(i, [ok EXCEPT !.seq = NextSeq(i)])
        BY <1>7, <2>4 DEF Record
      <4> QED BY <1>2, <1>7, <2>1, <3>4, <4>1, RaisedRow, RecordStep DEF Become
    <3>7. /\ inv'[i].pc = "tools" /\ inv'[i].completed = inv[i].completed /\ inv'[i].status = inv[i].status
          /\ inv'[i].crossed = inv[i].crossed
      <4> HIDE DEF ok, counted
      <4> QED BY <2>1, <3>6 DEF Row
    <3>8. InHand(i)'
      BY <3>3, <3>5, <3>7 DEF InHand
    <3>9. Quiet(i)
      BY <3>3, <3>4, <3>5, <3>7 DEF Quiet
    <3> QED BY <1>1, <3>5, <3>6, <3>7, <3>8, <3>9 DEF Goes, Moves, Moved, Earns
  <2> QED BY <2>3, <2>4
<1>8. \/ Raise(i) /\ call' = call
      \/ Record(i, Raised(counted), Raised(counted)) /\ call' = call
      \/ Record(i, judged, Raised(counted)) /\ call' = call
      \/ \E n \in 1..agent.width : \E s \in 0..n :
            Record(i, ok, Raised(counted)) /\ call' = IF Clash(i) THEN call ELSE [call EXCEPT ![i] = Message(s, n)]
  BY DEF model_call, counted, _check_deadline
<1> HIDE DEF judged, ok
<1> QED BY <1>4, <1>5, <1>6, <1>7, <1>8

\* The call c of i is over, and the row of i says so.
LEMMA EndsStep ==
  ASSUME Types, NEW i \in Invocations, NEW c \in Calls, call[i][c].at \notin {"none", "writing"}, Ends(i, c),
         inv' \in [Invocations -> Row], \A j \in Invocations \ {i} : inv'[j] = inv[j],
         NEW r \in Row, r.pc = "tools", inv[i].completed \subseteq r.completed,
         r.status = inv[i].status, r.crossed = inv[i].crossed, NEW raises \in BOOLEAN,
         Alike(inv'[i], Ended(i, c, r, raises)), Recorded(i) \/ Silent(i), UNCHANGED <<sandbox, record, arts>>
  PROVE  Goes(i)
<1> DEFINE d == Ended(i, c, r, raises)
<1>1. /\ d \in Row /\ d.completed = r.completed /\ d.status = r.status /\ d.crossed = r.crossed
      /\ IF Others(i, c) # {} THEN d.pc = r.pc ELSE d.pc \in {"model", "failing"}
  BY EndedRow
<1> HIDE DEF d
<1>2. Alike(inv'[i], d)
  BY DEF d
<1>3. /\ call \in [Invocations -> [Calls -> CallRow]] /\ InHand(i) /\ NoCall \in CallRow
  BY RowTypes, NothingType DEF Types, NoCall, CallRow
<1>4. inv[i].pc = "tools"
  BY <1>3 DEF InHand
<1>5. /\ call' \in [Invocations -> [Calls -> CallRow]] /\ \A j \in Invocations \ {i} : call'[j] = call[j]
      /\ call'[i][c] = NoCall /\ \A e \in Calls \ {c} : call'[i][e] = call[i][e]
  BY <1>3 DEF Ends
<1>6. inv'[i].pc \in {"tools", "model", "failing"} /\ (inv'[i].pc # "tools" => Others(i, c) = {})
  BY <1>1, <1>2 DEF Alike
<1>7. InHand(i)'
  <2>1. inv'[i].pc # "tools" => \A e \in Calls : call'[i][e].at = "none"
    BY <1>5, <1>6 DEF Others, NoCall
  <2> QED BY <1>3, <1>5, <1>6, <2>1 DEF InHand, NoCall
<1>8. Quiet(i)
  BY <1>1, <1>2, <1>5 DEF Quiet, Alike, NoCall
<1>9. inv[i].completed \subseteq inv'[i].completed /\ inv'[i].status = inv[i].status
  BY <1>1, <1>2 DEF Alike
<1> QED BY <1>4, <1>5, <1>6, <1>7, <1>8, <1>9 DEF Goes, Moves, Moved, Earns, AtWork

\* An invocation that handles a call.
LEMMA HandlingRow ==
  ASSUME Types, NEW i \in Invocations, NEW c \in Calls, call[i][c].at # "none"
  PROVE  /\ TypeOK /\ inv[i] \in Row /\ inv[i].pc = "tools" /\ call[i][c].tool \in Tools
         /\ call \in [Invocations -> [Calls -> CallRow]]
BY RowTypes DEF Types, InHand

\* The row may end the call without an event, or with one.
LEMMA SilentEnd ==
  ASSUME Types, NEW i \in Invocations, NEW c \in Calls, call[i][c].at \notin {"none", "writing"}, Ends(i, c),
         NEW raises \in BOOLEAN, Become(i, Ended(i, c, inv[i], raises)), log' = log,
         UNCHANGED <<sandbox, record, arts>>
  PROVE  Goes(i)
<1>1. TypeOK /\ inv[i] \in Row /\ inv[i].pc = "tools"
  BY HandlingRow
<1> DEFINE d == Ended(i, c, inv[i], raises)
<1>2. d \in Row /\ d.seq = inv[i].seq
  BY <1>1, EndedRow
<1> HIDE DEF d
<1>3. /\ inv' \in [Invocations -> Row] /\ inv'[i] = d /\ \A j \in Invocations \ {i} : inv'[j] = inv[j]
  BY <1>1, <1>2, Becomes DEF d
<1>4. Alike(inv'[i], Ended(i, c, inv[i], raises)) /\ Silent(i)
  BY <1>2, <1>3 DEF Alike, Silent, d
<1> QED BY <1>1, <1>3, <1>4, EndsStep

LEMMA RecordedEnd ==
  ASSUME Types, NEW i \in Invocations, NEW c \in Calls, call[i][c].at \notin {"none", "writing"}, Ends(i, c),
         NEW r \in Row, r.pc = "tools", inv[i].completed \subseteq r.completed,
         r.status = inv[i].status, r.crossed = inv[i].crossed, NEW raises \in BOOLEAN,
         Record(i, Ended(i, c, r, raises), Ended(i, c, r, TRUE)), UNCHANGED <<sandbox, record, arts>>
  PROVE  Goes(i)
<1>1. TypeOK
  BY DEF Types
<1>2. Ended(i, c, r, raises) \in Row /\ Ended(i, c, r, TRUE) \in Row
  BY EndedRow
<1>3. /\ inv' \in [Invocations -> Row] /\ \A j \in Invocations \ {i} : inv'[j] = inv[j]
      /\ Alike(inv'[i], Ended(i, c, r, raises)) \/ Alike(inv'[i], Ended(i, c, r, TRUE))
      /\ Recorded(i)
  BY <1>1, <1>2, RecordStep
<1>4. TRUE \in BOOLEAN
  OBVIOUS
<1> QED BY <1>3, <1>4, EndsStep

\* What a tool that returned leaves.
LEMMA ReturnStep ==
  ASSUME Types, NEW i \in Invocations, NEW c \in Calls, call[i][c].at \notin {"none", "writing"},
         NEW res \in {"ok", "error", "raised"}, NEW k \in Numbers, Return(i, c, res, k),
         UNCHANGED <<sandbox, record, arts>>
  PROVE  Goes(i)
<1>1. TypeOK /\ inv[i] \in Row /\ inv[i].pc = "tools" /\ call[i][c].tool \in Tools
  BY HandlingRow
<1>2. CASE Ends(i, c) /\ Become(i, Ended(i, c, inv[i], TRUE)) /\ log' = log
  <2>1. TRUE \in BOOLEAN
    OBVIOUS
  <2> QED BY <1>2, <2>1, SilentEnd
<1>3. ASSUME NEW s \in inv[i].seen, NEW t \in inv[i].seen, Ends(i, c), Returned(i, c, res, k, s[1], t[2])
      PROVE  Goes(i)
  <2> DEFINE submit == call[i][c].tool = "submit"
             e == IF ~submit THEN inv[i].errs ELSE IF res = "ok" THEN 0 ELSE s[1] + 1
             f == IF k = 0 THEN inv[i].refused ELSE k
             over == (submit /\ res # "ok" /\ e >= agent.errors) \/ _check_repeated_builder_validation(k, t[2])
             d == IF res = "raised" THEN inv[i].completed ELSE inv[i].completed \cup {call[i][c].tool}
             done == [inv[i] EXCEPT !.completed = IF res = "raised" THEN @ ELSE @ \cup {call[i][c].tool},
                                    !.errs = e, !.refused = f, !.seen = @ \cup {<<e, f>>}]
  <2>1. s[1] \in Nat
    BY <1>1 DEF Row, Counters
  <2>2. e \in Nat /\ f \in Numbers /\ d \in SUBSET Tools /\ inv[i].completed \subseteq d
    BY <1>1, <2>1 DEF Row
  <2>3. done = Done(inv[i], d, e, f)
    BY DEF Done
  <2>4. Record(i, Ended(i, c, done, over), Ended(i, c, done, TRUE))
    BY <1>3 DEF Returned
  <2>5. over \in BOOLEAN
    BY DEF _check_repeated_builder_validation
  <2> HIDE DEF d, e, f, done, over
  <2>6. /\ done \in Row /\ done.pc = "tools" /\ inv[i].completed \subseteq done.completed
        /\ done.status = inv[i].status /\ done.crossed = inv[i].crossed
    BY <1>1, <2>2, <2>3, DoneRow
  <2> QED BY <1>3, <2>4, <2>5, <2>6, RecordedEnd
<1> QED BY <1>2, <1>3 DEF Return

LEMMA read_Goes ==
  ASSUME Types, NEW i \in Invocations, NEW c \in Calls, read(i, c), UNCHANGED <<record, arts>>
  PROVE  Goes(i)
<1>1. call[i][c].at = "handling" /\ UNCHANGED sandbox /\ \E res \in {"ok", "error", "raised"} : Return(i, c, res, 0)
  BY DEF read
<1> QED BY <1>1, ReturnStep, Constants

LEMMA cancelled_Goes ==
  ASSUME Types, NEW i \in Invocations, NEW c \in Calls, cancelled(i, c), UNCHANGED <<record, arts>>
  PROVE  Goes(i)
<1>1. /\ call[i][c].at = "handling" /\ Ends(i, c) /\ Become(i, Ended(i, c, inv[i], FALSE))
      /\ log' = log /\ UNCHANGED sandbox /\ FALSE \in BOOLEAN
  BY DEF cancelled
<1> QED BY <1>1, SilentEnd

LEMMA accept_Submits ==
  ASSUME Types, NEW i \in Invocations, NEW c \in Calls, call[i][c].at = "handling",
         NEW n \in Numbers, NEW formal \in BOOLEAN, accept(i, c, n, formal),
         Acceptable(i, [by |-> i, n |-> n, checked |-> TRUE, formal |-> formal]), UNCHANGED <<record, arts>>
  PROVE  Submits(i)
<1> DEFINE s == [by |-> i, n |-> n, checked |-> TRUE, formal |-> formal]
           r == [inv[i] EXCEPT !.crossed = Writing(i) # {}]
<1>1. /\ TypeOK /\ inv[i] \in Row /\ inv[i].pc = "tools" /\ call[i][c].tool \in Tools
      /\ call \in [Invocations -> [Calls -> CallRow]] /\ InHand(i)
  BY HandlingRow DEF Types
<1>2. /\ result' = [result EXCEPT ![Id(i)] = s] /\ Become(i, r) /\ draft' = draft /\ log' = log
      /\ call' = [call EXCEPT ![i][c].at = "writing", ![i][c].mine = s]
  BY DEF accept
<1>3. s \in Candidates
  BY Constants DEF Candidates, Invocations
<1>4. /\ r \in Row /\ r.pc = "tools" /\ r.seq = inv[i].seq /\ r.crossed = (Writing(i) # {})
      /\ r.completed = inv[i].completed /\ r.status = inv[i].status
  BY <1>1 DEF Row
<1> HIDE DEF r, s
<1>5. /\ inv' \in [Invocations -> Row] /\ inv'[i] = r /\ \A j \in Invocations \ {i} : inv'[j] = inv[j]
  BY <1>1, <1>2, <1>4, Becomes
<1>6. /\ call' \in [Invocations -> [Calls -> CallRow]] /\ \A j \in Invocations \ {i} : call'[j] = call[j]
      /\ call'[i][c].at = "writing" /\ call'[i][c].tool = call[i][c].tool
      /\ \A e \in Calls \ {c} : call'[i][e] = call[i][e]
  BY <1>1, <1>2, <1>3 DEF CallRow
<1>7. InHand(i)'
  BY <1>1, <1>4, <1>5, <1>6 DEF InHand
<1>8. Moves(i) /\ Earns(i) /\ Silent(i)
  BY <1>1, <1>2, <1>4, <1>5, <1>6, <1>7 DEF Moves, Moved, Earns, Silent, AtWork
<1>9. Acceptable(i, s)
  BY DEF s
<1> QED BY <1>2, <1>3, <1>4, <1>5, <1>8, <1>9 DEF Submits

LEMMA submit_Alternatives ==
  ASSUME Types, NEW i \in Invocations, Named(i), NEW c \in Calls, _submit_candidate(i, c), UNCHANGED <<record, arts>>
  PROVE  Goes(i) \/ Submits(i)
<1>1. call[i][c].at = "handling" /\ TypeOK
  BY DEF _submit_candidate, Types
<1>2. ASSUME NEW k \in Numbers, refuse(i, c, k) PROVE Goes(i)
  BY <1>1, <1>2, ReturnStep DEF refuse
<1>3. agent.offers \subseteq Numbers /\ 0 \in Numbers /\ 1 \in Numbers
  BY <1>1, RowTypes, AgentTypes, Constants
<1>4. ASSUME NEW k \in agent.offers, IF Verdict(k) # {} THEN refuse(i, c, k) ELSE accept(i, c, k, TRUE)
      PROVE  Goes(i) \/ Submits(i)
  <2>1. CASE Verdict(k) # {}
    BY <1>2, <1>3, <1>4, <2>1
  <2>2. CASE Verdict(k) = {}
    <3>1. Acceptable(i, [by |-> i, n |-> k, checked |-> TRUE, formal |-> TRUE]) /\ TRUE \in BOOLEAN /\ k \in Numbers
      BY <1>3, <2>2 DEF Acceptable
    <3> QED BY <1>1, <1>4, <2>2, <3>1, accept_Submits
  <2> QED BY <2>1, <2>2
<1>5. CASE refuse(i, c, 0)
  BY <1>2, <1>3, <1>5
<1>6. ASSUME ~agent.drafts, NEW formal \in IF agent.repairs THEN BOOLEAN ELSE {TRUE},
             accept(i, c, Other(result[Id(i)], i), formal)
      PROVE  Submits(i)
  <2> DEFINE o == Other(result[Id(i)], i)
  <2>1. formal \in BOOLEAN /\ (formal \/ agent.repairs)
    OBVIOUS
  <2>2. Acceptable(i, [by |-> i, n |-> o, checked |-> TRUE, formal |-> formal])
    BY <1>6, <2>1 DEF Acceptable
  <2>3. o \in Numbers
    BY <1>3, <1>6 DEF Other, Named
  <2> HIDE DEF o
  <2>4. accept(i, c, o, formal)
    BY <1>6 DEF o
  <2> QED BY <1>1, <2>1, <2>2, <2>3, <2>4, accept_Submits
<1> QED BY <1>4, <1>5, <1>6 DEF _submit_candidate

LEMMA write_Writes ==
  ASSUME Types, NEW i \in Invocations, NEW c \in Calls, _write_candidate_files(i, c), UNCHANGED <<record, arts>>
  PROVE  Writes(i)
<1> DEFINE at == IF Clash(i) THEN "raised" ELSE "written"
<1>1. /\ call[i][c].at = "writing" /\ Record(i, inv[i], inv[i])
      /\ call' = [call EXCEPT ![i][c].at = at, ![i][c].mine = Nothing]
      /\ draft' = IF agent.drafts THEN [draft EXCEPT ![Id(i)] = call[i][c].mine] ELSE draft
      /\ UNCHANGED result
  BY DEF _write_candidate_files
<1>2. /\ TypeOK /\ inv[i] \in Row /\ inv[i].pc = "tools" /\ call[i][c].tool \in Tools
      /\ call \in [Invocations -> [Calls -> CallRow]] /\ InHand(i)
  BY <1>1, HandlingRow DEF Types
<1>3. at \in {"written", "raised"}
  OBVIOUS
<1> HIDE DEF at
<1>4. /\ call' \in [Invocations -> [Calls -> CallRow]] /\ \A j \in Invocations \ {i} : call'[j] = call[j]
      /\ call'[i][c].at = at /\ call'[i][c].tool = call[i][c].tool
      /\ \A e \in Calls \ {c} : call'[i][e] = call[i][e]
  BY <1>1, <1>2, <1>3, NothingType DEF CallRow
<1>5. /\ inv' \in [Invocations -> Row] /\ \A j \in Invocations \ {i} : inv'[j] = inv[j]
      /\ Alike(inv'[i], inv[i]) /\ Recorded(i)
  BY <1>1, <1>2, RecordStep
<1>6. InHand(i)'
  BY <1>2, <1>4, <1>5 DEF InHand, Alike
<1> QED BY <1>1, <1>2, <1>3, <1>4, <1>5, <1>6 DEF Writes, Moves, Moved, Earns, AtWork, Alike

LEMMA submitted_Goes ==
  ASSUME Types, NEW i \in Invocations, NEW c \in Calls, submitted(i, c), UNCHANGED <<record, arts>>
  PROVE  Goes(i)
<1>1. /\ call[i][c].at \in {"written", "raised"} /\ UNCHANGED sandbox
      /\ \E res \in {"ok", "raised"} : Return(i, c, res, 0)
  BY DEF submitted
<1> QED BY <1>1, ReturnStep, Constants

LEMMA judge_Goes ==
  ASSUME Types, NEW i \in Invocations, judge(i), UNCHANGED <<call, record, arts>>
  PROVE  Goes(i)
<1> DEFINE complete == result[Id(i)] # Nothing /\ _missing_required_interactions(i) = {}
           ending(status) == [inv[i] EXCEPT !.pc = "finish", !.status = status]
           again == [inv[i] EXCEPT !.pc = "model", !.conts = @ + 1]
<1>1. inv[i] \in Row /\ inv[i].pc = "judge" /\ AtWork(i) /\ TypeOK /\ UNCHANGED sandbox
  BY RowTypes DEF judge, Types, AtWork
<1>2. CASE Raise(i)
  BY <1>1, <1>2, RaiseGoes
<1>3. ASSUME NEW status \in {"succeeded", "incomplete"}, Become(i, ending(status)), log' = log,
             status = "succeeded" => complete
      PROVE  Goes(i)
  <2>1. /\ ending(status) \in Row /\ ending(status).pc = "finish" /\ ending(status).seq = inv[i].seq
        /\ ending(status).completed = inv[i].completed /\ ending(status).status = status
        /\ ending(status).crossed = inv[i].crossed
    BY <1>1 DEF Row, Pcs, Statuses
  <2>2. status = "succeeded" => result[Id(i)] # Nothing /\ agent.required \subseteq inv[i].completed
    BY <1>3 DEF _missing_required_interactions
  <2> HIDE DEF ending, complete
  <2>3. /\ inv' \in [Invocations -> Row] /\ inv'[i] = ending(status)
        /\ \A j \in Invocations \ {i} : inv'[j] = inv[j]
    BY <1>1, <1>3, <2>1, Becomes
  <2> QED BY <1>1, <1>3, <2>1, <2>2, <2>3, Rests DEF Goes, Moves, Moved, Earns, Quiet, Silent
<1>4. CASE inv[i].conts < MaxContinuations /\ Record(i, again, Raised(inv[i]))
  <2>1. /\ again \in Row /\ again.pc = "model" /\ again.crossed = inv[i].crossed
        /\ again.completed = inv[i].completed /\ again.status = inv[i].status
    BY <1>1, <1>4, AgainRow
  <2> HIDE DEF again
  <2>2. Fits(i, again) /\ Fits(i, Raised(inv[i]))
    BY <1>1, <2>1, RaisedFits DEF Fits
  <2> QED BY <1>1, <1>4, <2>2, RecordGoes
<1>5. \/ Raise(i)
      \/ complete /\ Become(i, ending("succeeded")) /\ log' = log
      \/ Become(i, ending("incomplete")) /\ log' = log
      \/ inv[i].conts < MaxContinuations /\ Record(i, again, Raised(inv[i]))
  BY DEF judge, _check_deadline
<1> HIDE DEF complete, ending, again
<1> QED BY <1>2, <1>3, <1>4, <1>5

LEMMA run_completed_Goes ==
  ASSUME Types, NEW i \in Invocations, run_completed(i), UNCHANGED <<call, record, arts>>
  PROVE  Goes(i)
<1> DEFINE ok == [inv[i] EXCEPT !.pc = "persist"]
<1>1. inv[i] \in Row /\ inv[i].pc = "finish" /\ Record(i, ok, Raised(inv[i])) /\ UNCHANGED sandbox
  BY RowTypes DEF run_completed, Types
<1>2. Fits(i, ok) /\ Fits(i, Raised(inv[i]))
  BY <1>1, PcFits, RaisedFits DEF Pcs
<1>3. AtWork(i)
  BY <1>1 DEF AtWork
<1> HIDE DEF ok
<1> QED BY <1>1, <1>2, <1>3, RecordGoes

LEMMA run_failed_Goes ==
  ASSUME Types, NEW i \in Invocations, run_failed(i), UNCHANGED <<call, record, arts>>
  PROVE  Goes(i)
<1> DEFINE ok == [inv[i] EXCEPT !.pc = "persist", !.status = "error"]
           clashed == [inv[i] EXCEPT !.pc = "escaped"]
<1>1. inv[i] \in Row /\ inv[i].pc = "failing" /\ Record(i, ok, clashed) /\ UNCHANGED sandbox
  BY RowTypes DEF run_failed, Types
<1>2. Fits(i, clashed)
  BY <1>1, PcFits DEF Pcs
<1>3. Fits(i, ok)
  <2>1. ok = Over(inv[i], "persist", "error")
    BY DEF Over
  <2> HIDE DEF ok
  <2> QED BY <1>1, <2>1, OverRow DEF Fits, Pcs, Statuses
<1>4. AtWork(i)
  BY <1>1 DEF AtWork
<1> HIDE DEF ok, clashed
<1> QED BY <1>1, <1>2, <1>3, <1>4, RecordGoes

LEMMA persist_Returns ==
  ASSUME Types, NEW i \in Invocations, _persist_result(i), call' = call
  PROVE  Returns(i)
<1> DEFINE r == [New EXCEPT !.pc = "returned", !.seq = inv[i].seq, !.status = inv[i].status,
                            !.completed = inv[i].completed, !.crossed = inv[i].crossed]
<1>1. inv[i] \in Row /\ inv[i].pc = "persist" /\ TypeOK /\ Become(i, r) /\ UNCHANGED sandbox
  BY RowTypes DEF _persist_result, Types
<1>2. /\ r \in Row /\ r.pc = "returned" /\ r.seq = inv[i].seq /\ r.status = inv[i].status
      /\ r.completed = inv[i].completed /\ r.crossed = inv[i].crossed
  <2> HIDE DEF r
  <2>1. r = [New EXCEPT !.pc = "returned", !.seq = inv[i].seq, !.status = inv[i].status,
                            !.completed = inv[i].completed, !.crossed = inv[i].crossed]
    BY DEF r
  <2> QED BY <1>1, <2>1, ReturnedRow
<1> HIDE DEF r
<1>3. /\ inv' \in [Invocations -> Row] /\ inv'[i] = r /\ \A j \in Invocations \ {i} : inv'[j] = inv[j]
  BY <1>1, <1>2, Becomes
<1> QED BY <1>1, <1>2, <1>3, Rests DEF Returns, Moves, Moved, Quiet, AtWork, _persist_result

LEMMA PersistFails_Goes ==
  ASSUME Types, NEW i \in Invocations, PersistFails(i), call' = call
  PROVE  Goes(i)
<1> DEFINE r == IF inv[i].status = "error" THEN [inv[i] EXCEPT !.pc = "escaped"] ELSE Raised(inv[i])
<1>1. inv[i] \in Row /\ inv[i].pc = "persist" /\ TypeOK /\ Become(i, r)
      /\ UNCHANGED <<log, record, arts, sandbox>>
  BY RowTypes DEF PersistFails, Types
<1>2. /\ r \in Row /\ r.pc \in {"escaped", "failing"} /\ r.seq = inv[i].seq /\ r.status = inv[i].status
      /\ r.completed = inv[i].completed /\ r.crossed = inv[i].crossed
  <2>1. "escaped" \in Pcs
    BY DEF Pcs
  <2> QED BY Zenon, <1>1, RaisedRow, PcRow, <2>1
<1> HIDE DEF r
<1>3. /\ inv' \in [Invocations -> Row] /\ inv'[i] = r /\ \A j \in Invocations \ {i} : inv'[j] = inv[j]
  BY <1>1, <1>2, Becomes
<1> QED BY <1>1, <1>2, <1>3, Rests DEF Goes, Moves, Moved, Earns, Quiet, Silent, AtWork

LEMMA WorkStep ==
  ASSUME Types, NEW i \in Invocations, Named(i), Work(i)
  PROVE  Alternatives(i)
<1> USE DEF Alternatives
<1>1. CASE UNCHANGED <<record, arts>> /\ model_call(i)
  BY <1>1, model_call_Goes
<1>2. ASSUME NEW c \in Calls, UNCHANGED <<record, arts>>,
             \/ read(i, c) \/ cancelled(i, c)
             \/ _submit_candidate(i, c) \/ _write_candidate_files(i, c) \/ submitted(i, c)
      PROVE  Alternatives(i)
  <2>1. CASE read(i, c) BY <1>2, <2>1, read_Goes
  <2>2. CASE cancelled(i, c) BY <1>2, <2>2, cancelled_Goes
  <2>3. CASE _submit_candidate(i, c) BY <1>2, <2>3, submit_Alternatives
  <2>4. CASE _write_candidate_files(i, c) BY <1>2, <2>4, write_Writes
  <2>5. CASE submitted(i, c) BY <1>2, <2>5, submitted_Goes
  <2> QED BY <1>2, <2>1, <2>2, <2>3, <2>4, <2>5
<1>3. CASE (started(i) \/ judge(i) \/ run_completed(i) \/ run_failed(i)) /\ UNCHANGED <<call, record, arts>>
  <2>1. CASE started(i) BY <1>3, <2>1, started_Goes
  <2>2. CASE judge(i) BY <1>3, <2>2, judge_Goes
  <2>3. CASE run_completed(i) BY <1>3, <2>3, run_completed_Goes
  <2>4. CASE run_failed(i) BY <1>3, <2>4, run_failed_Goes
  <2> QED BY <1>3, <2>1, <2>2, <2>3, <2>4
<1>4. CASE _persist_result(i) /\ call' = call
  BY <1>4, persist_Returns
<1>5. CASE PersistFails(i) /\ call' = call
  BY <1>5, PersistFails_Goes
<1> QED BY <1>1, <1>2, <1>3, <1>4, <1>5 DEF Work

(***************************************************************************)
(* The inductive invariant.                                                *)
(***************************************************************************)

\* The candidate s is one that the submit tool of the agent a accepted.
VerdictOf(a, k) == (CHOOSE v \in Verdicts : v.of = <<k, a.baseline>>).is
Accepted(a, s) ==
  /\ s.checked /\ (s.formal \/ (a.repairs /\ ~a.drafts))
  /\ a.drafts => s.n \in a.offers /\ VerdictOf(a, s.n) = {}

\* What lies in a sandbox was accepted there, for an invocation that began.
Submitted(id) ==
  /\ ~agent.drafts => result[id].n \in {0, 1}
  /\ result[id] # Nothing =>
       /\ Accepted(agent, result[id])
       /\ result[id].by \in Invocations /\ Id(result[id].by) = id /\ inv[result[id].by].pc # "idle"

\* Whoever says that it succeeded completed everything, over a candidate.
Earned(i) ==
  inv[i].status = "succeeded" => result[Id(i)] # Nothing /\ agent.required \subseteq inv[i].completed

RecordIsEarned(id) ==
  /\ record[id] = "succeeded" =>
       \E i \in Invocations : Id(i) = id /\ inv[i].pc = "returned" /\ inv[i].status = "succeeded"
  /\ record[id] = "running" =>
       \E i \in Invocations : Id(i) = id /\ (AtWork(i) \/ inv[i].pc \in {"escaped", "dead"})

\* The files of a draft that no one else wrote are those of the candidate, or
\* the one submission that is writing will make them so.
DraftFollows(i) ==
  Alone(i) /\ agent.drafts /\ ~inv[i].crossed /\ inv[i].pc # "dead" =>
    /\ Writing(i) = {} => draft[Id(i)] = result[Id(i)]
    /\ \A c \in Writing(i) : Writing(i) = {c} /\ call[i][c].mine = result[Id(i)]

\* What the caller of i has read.
CallerHas(i) ==
  /\ caller[i] # "waits" => inv[i].pc = "returned"
  /\ caller[i] \in {"reading", "taken"} =>
       /\ Accepted(agent, taken[i].result) /\ taken[i].result.formal
       /\ Alone(i) => taken[i].result.by = i
  /\ caller[i] = "reading" => agent.drafts /\ (Alone(i) => taken[i].result = result[Id(i)])
  /\ caller[i] = "taken" /\ agent.drafts /\ Alone(i) /\ ~inv[i].crossed => taken[i].files = taken[i].result

\* Invocations begin in their order, and the last of those that use a sandbox
\* is the only one at work there, unless the overlap is known.
Later(i) == {j \in Invocations : Id(j) = Id(i) /\ j > i}
IsLast(i) == \A j \in Later(i) : inv[j].pc = "idle"
Ordered(i) == inv[i].pc # "idle" => \A j \in Invocations : j < i => inv[j].pc # "idle"
Sole(i) == AtWork(i) /\ Id(i) \notin overlap => IsLast(i)

Own(i) == IF agent.live \/ inv[i].pc = "returned" THEN {<<n, i>> : n \in 1..inv[i].seq} ELSE {}
Timeline(i) == inv[i].pc \notin {"idle", "dead"} /\ Id(i) \notin overlap /\ IsLast(i) => log[Id(i)] = Own(i)

IInv ==
  /\ Types
  /\ \A id \in Invocations : Submitted(id) /\ RecordIsEarned(id)
  /\ \A i \in Invocations :
       Earned(i) /\ DraftFollows(i) /\ CallerHas(i) /\ Ordered(i) /\ Sole(i) /\ Timeline(i)

(***************************************************************************)
(* The steps.                                                              *)
(***************************************************************************)

Begins(i) ==
  /\ Moved(i) /\ inv[i].pc = "idle"
  /\ inv'[i].pc = "starting" /\ inv'[i].seq = 0 /\ inv'[i].status = "none" /\ call' = call
  /\ i # 1 => agent.keepsId /\ inv[i - 1].pc # "idle"
  /\ start_run(Id(i))
  /\ overlap' \in SUBSET Invocations /\ overlap \subseteq overlap'
  /\ \A j \in Invocations \ {i} : AtWork(j) /\ Id(j) = Id(i) => Id(i) \in overlap'
  /\ UNCHANGED <<agent, sandbox, caller, taken>>

Works(i) == Alternatives(i) /\ UNCHANGED <<agent, callers>>

Dies(i) ==
  /\ Moved(i) /\ AtWork(i) /\ inv'[i].pc = "dead" /\ inv'[i].status = "none"
  /\ \A c \in Calls : call'[i][c] = NoCall
  /\ UNCHANGED <<agent, sandbox, log, record, arts, callers>>

Takes(i) ==
  /\ inv[i].pc = "returned"
  /\ UNCHANGED <<agent, inv, call, sandbox, log, record, arts, overlap>>
  /\ \/ \E c \in {"failed", "died"} : caller' = [caller EXCEPT ![i] = c] /\ UNCHANGED taken
     \/ ReadCandidate(i) \/ _read_builder_materialized_draft_files(i)

LEMMA invoke_Begins ==
  ASSUME IInv, NEW i \in Invocations, invoke(i)
  PROVE  Begins(i)
<1> DEFINE r == [New EXCEPT !.pc = "starting"]
<1>1. TypeOK /\ r \in Row /\ r.pc = "starting" /\ r.seq = 0 /\ r.status = "none"
  BY NewRow DEF IInv, Types, Pcs
<1>2. /\ Become(i, r) /\ inv[i].pc = "idle" /\ start_run(Id(i))
      /\ UNCHANGED <<call, agent, sandbox, caller, taken>>
  BY DEF invoke
<1> HIDE DEF r
<1>3. Moved(i) /\ inv'[i] = r
  BY <1>1, <1>2, Becomes, RowTypes DEF Moved
<1>4. i # 1 => agent.keepsId /\ inv[i - 1].pc # "idle"
  <2> SUFFICES ASSUME i # 1 PROVE agent.keepsId /\ inv[i - 1].pc # "idle"
    OBVIOUS
  <2>1. i - 1 \in Invocations
    BY Constants DEF Invocations
  <2>2. MayFollow(i - 1)
    BY DEF invoke
  <2>3. CallerHas(i - 1)
    BY <2>1 DEF IInv
  <2> QED BY <2>2, <2>3 DEF MayFollow, CallerHas, AtWork
<1>5. /\ overlap' \in SUBSET Invocations /\ overlap \subseteq overlap'
      /\ \A j \in Invocations \ {i} : AtWork(j) /\ Id(j) = Id(i) => Id(i) \in overlap'
  BY <1>1, IdType DEF invoke, TypeOK
<1> QED BY <1>1, <1>2, <1>3, <1>4, <1>5 DEF Begins

LEMMA NextCases ==
  ASSUME IInv, Next
  PROVE  \E i \in Invocations : Begins(i) \/ Works(i) \/ Dies(i) \/ Takes(i)
<1>1. PICK i \in Invocations :
        \/ invoke(i) \/ Step(i)
        \/ InvocationFailed(i) \/ ReadCandidate(i) \/ _read_builder_materialized_draft_files(i)
        \/ Crash(i)
  BY DEF Next
<1>2. Types /\ TypeOK /\ CallerHas(i) /\ Named(i)
  BY IdType DEF IInv, Types, Submitted, Named
<1>3. CASE invoke(i)
  BY <1>3, invoke_Begins
<1>4. CASE Step(i)
  BY <1>2, <1>4, WorkStep DEF Step, Works
<1>5. CASE InvocationFailed(i)
  BY <1>5 DEF InvocationFailed, Takes
<1>6. CASE ReadCandidate(i)
  BY <1>6 DEF ReadCandidate, Takes
<1>7. CASE _read_builder_materialized_draft_files(i)
  BY <1>2, <1>7 DEF _read_builder_materialized_draft_files, Takes, CallerHas
<1>8. CASE /\ AtWork(i) /\ Become(i, [New EXCEPT !.pc = "dead"]) /\ call' = [call EXCEPT ![i] = [c \in Calls |-> NoCall]]
           /\ UNCHANGED <<agent, sandbox, log, record, arts, callers>>
  <2> DEFINE r == [New EXCEPT !.pc = "dead"]
  <2>1. r \in Row /\ r.pc = "dead" /\ r.status = "none"
    BY NewRow DEF Pcs
  <2>2. Become(i, r)
    BY <1>8
  <2> HIDE DEF r
  <2>3. call \in [Invocations -> [Calls -> CallRow]] /\ [c \in Calls |-> NoCall] \in [Calls -> CallRow]
    BY <1>2, RowTypes, NothingType DEF NoCall, CallRow
  <2>4. /\ call' \in [Invocations -> [Calls -> CallRow]] /\ \A j \in Invocations \ {i} : call'[j] = call[j]
        /\ \A c \in Calls : call'[i][c] = NoCall
    BY <1>8, <2>3
  <2> QED BY <1>2, <1>8, <2>1, <2>2, <2>4, Becomes DEF Dies, Moved
<1>9. CASE /\ inv[i].pc = "returned" /\ caller[i] \in {"waits", "reading"}
           /\ caller' = [caller EXCEPT ![i] = "died"]
           /\ UNCHANGED <<agent, inv, call, sandbox, log, record, arts, overlap, taken>>
  BY <1>9 DEF Takes
<1> QED BY <1>1, <1>3, <1>4, <1>5, <1>6, <1>7, <1>8, <1>9 DEF Crash

\* What every step keeps.
Keeps ==
  /\ agent' = agent /\ overlap \subseteq overlap' /\ inv' \in [Invocations -> Row]
  /\ \A j \in Invocations : /\ inv[j].pc # "idle" => inv'[j].pc # "idle"
                            /\ inv[j].pc = "returned" => inv'[j] = inv[j]

LEMMA MovesKeeps ==
  ASSUME IInv, NEW i \in Invocations, Begins(i) \/ Works(i) \/ Dies(i) \/ Takes(i)
  PROVE  Keeps
<1>1. inv \in [Invocations -> Row]
  BY RowTypes DEF IInv, Types
<1>2. CASE Begins(i)
  BY <1>1, <1>2 DEF Begins, Keeps, Moved
<1>3. CASE Works(i)
  <2>1. Moves(i) /\ UNCHANGED <<agent, overlap>>
    BY <1>3 DEF Works, Alternatives, Goes, Submits, Writes, Returns, callers
  <2> QED BY <1>1, <2>1 DEF Moves, Moved, Keeps, AtWork
<1>4. CASE Dies(i)
  BY <1>1, <1>4 DEF Dies, Keeps, Moved, AtWork, callers
<1>5. CASE Takes(i)
  BY <1>1, <1>5 DEF Takes, Keeps
<1> QED BY <1>2, <1>3, <1>4, <1>5

LEMMA KeepsMore ==
  ASSUME Keeps, NEW i \in Invocations
  PROVE  /\ Id(i)' = Id(i) /\ Later(i)' = Later(i)
         /\ (Alone(i)' => Alone(i)) /\ (IsLast(i)' => IsLast(i))
<1>1. \A j : Id(j)' = Id(j)
  BY DEF Keeps, Id
<1>2. Later(i)' = Later(i) /\ Later(i) \subseteq Invocations
  BY <1>1 DEF Later
<1>3. (IsLast(i)' => IsLast(i)) /\ (Alone(i)' => Alone(i))
  BY <1>1, <1>2 DEF IsLast, Alone, Keeps
<1> QED BY <1>1, <1>2, <1>3

(***************************************************************************)
(* Each part of the invariant, step by step.                               *)
(***************************************************************************)

LEMMA InvTypes ==
  ASSUME IInv
  PROVE  /\ TypeOK /\ Types /\ inv \in [Invocations -> Row] /\ agent \in Agents
         /\ result \in [Invocations -> Candidates] /\ draft \in [Invocations -> Candidates]
         /\ arts \in [Invocations -> Candidates]
         /\ log \in [Invocations -> SUBSET ((1..MaxEvents) \X Invocations)]
         /\ record \in [Invocations -> {"none", "running", "succeeded", "failed"}]
         /\ overlap \in SUBSET Invocations
         /\ caller \in [Invocations -> {"waits", "reading", "taken", "rejected", "failed", "died"}]
         /\ taken \in [Invocations -> [result : Candidates, files : Candidates]]
         /\ call \in [Invocations -> [Calls -> CallRow]]
BY RowTypes DEF IInv, Types, TypeOK

\* What is acceptable to the agent has been accepted by it.
LEMMA SubmitsCandidate ==
  ASSUME IInv, NEW i \in Invocations, NEW s, Acceptable(i, s)
  PROVE  s.by = i /\ Accepted(agent, s) /\ (~agent.drafts => s.n \in {0, 1}) /\ s # Nothing
<1>1. agent \in Agents /\ Submitted(Id(i)) /\ i # 0
  BY InvTypes, IdType, Constants DEF IInv, Invocations
<1>2. ASSUME NEW k \in agent.offers, Verdict(k) = {}, s = [by |-> i, n |-> k, checked |-> TRUE, formal |-> TRUE]
      PROVE  s.by = i /\ Accepted(agent, s) /\ (~agent.drafts => s.n \in {0, 1}) /\ s # Nothing
  <2>1. agent.drafts /\ VerdictOf(agent, k) = {}
    BY <1>1, <1>2, AgentTypes DEF Verdict, VerdictOf
  <2> QED BY <1>1, <1>2, <2>1 DEF Accepted, Nothing
<1>3. ASSUME ~agent.drafts, NEW formal \in BOOLEAN, formal \/ agent.repairs,
             s = [by |-> i, n |-> Other(result[Id(i)], i), checked |-> TRUE, formal |-> formal]
      PROVE  s.by = i /\ Accepted(agent, s) /\ (~agent.drafts => s.n \in {0, 1}) /\ s # Nothing
  <2>1. Other(result[Id(i)], i) \in {0, 1}
    BY <1>1, <1>3 DEF Other, Submitted
  <2> QED BY <1>1, <1>3, <2>1 DEF Accepted, Nothing
<1> QED BY <1>2, <1>3 DEF Acceptable

\* How the candidates change: one is accepted, or none.
Accepts(i) ==
  /\ i \in Invocations /\ AtWork(i) /\ inv'[i].pc = "tools" /\ draft' = draft
  /\ \E s \in Candidates :
       /\ result' = [result EXCEPT ![Id(i)] = s]
       /\ s.by = i /\ Accepted(agent, s) /\ (~agent.drafts => s.n \in {0, 1}) /\ s # Nothing

LEMMA ResultStep ==
  ASSUME IInv, NEW i \in Invocations, Begins(i) \/ Works(i) \/ Dies(i) \/ Takes(i)
  PROVE  result' = result \/ Accepts(i)
<1>1. CASE Submits(i)
  BY <1>1, SubmitsCandidate DEF Accepts, Submits, Moves
<1>2. CASE ~Submits(i)
  BY <1>2 DEF Begins, Works, Dies, Takes, Alternatives, Goes, Writes, Returns, sandbox
<1> QED BY <1>1, <1>2

LEMMA SubmittedNext ==
  ASSUME IInv, NEW i \in Invocations, Begins(i) \/ Works(i) \/ Dies(i) \/ Takes(i), NEW id \in Invocations
  PROVE  Submitted(id)'
<1>1. Keeps /\ (result' = result \/ Accepts(i)) /\ result \in [Invocations -> Candidates] /\ Submitted(id)
      /\ Id(i) \in Invocations
  BY MovesKeeps, ResultStep, InvTypes, IdType DEF IInv
<1>2. agent' = agent /\ \A j \in Invocations : Id(j)' = Id(j)
  BY <1>1, KeepsMore DEF Keeps
<1>3. CASE result'[id] = result[id]
  BY <1>1, <1>2, <1>3 DEF Submitted, Keeps
<1>4. CASE result'[id] # result[id]
  <2>1. /\ Accepts(i) /\ id = Id(i) /\ result'[id].by = i /\ Accepted(agent, result'[id])
        /\ ~agent.drafts => result'[id].n \in {0, 1}
    BY <1>1, <1>4 DEF Accepts
  <2> QED BY <1>2, <2>1 DEF Submitted, Accepts
<1> QED BY <1>3, <1>4

\* What is there is never taken away.
LEMMA ResultStays ==
  ASSUME IInv, NEW i \in Invocations, Begins(i) \/ Works(i) \/ Dies(i) \/ Takes(i), NEW id \in Invocations
  PROVE  result[id] # Nothing => result'[id] # Nothing
BY ResultStep, InvTypes, IdType DEF Accepts

LEMMA EarnedNext ==
  ASSUME IInv, NEW i \in Invocations, Begins(i) \/ Works(i) \/ Dies(i) \/ Takes(i), NEW j \in Invocations
  PROVE  Earned(j)'
<1>1. agent' = agent /\ Id(j)' = Id(j) /\ Id(j) \in Invocations /\ Earned(j)
  BY MovesKeeps, KeepsMore, IdType DEF Keeps, IInv
<1>2. result[Id(j)] # Nothing => result'[Id(j)] # Nothing
  BY <1>1, ResultStays
<1>3. CASE inv'[j] = inv[j]
  BY <1>1, <1>2, <1>3 DEF Earned
<1>4. CASE inv'[j].status = "none"
  BY <1>4 DEF Earned
<1>5. CASE j = i /\ Works(i)
  <2>1. Moves(i) /\ (Earns(i) \/ (inv'[i].status = inv[i].status))
    BY <1>5 DEF Works, Alternatives, Goes, Submits, Writes, Returns
  <2> QED BY <1>1, <1>2, <1>5, <2>1 DEF Earned, Moves, Earns
<1>6. inv'[j] = inv[j] \/ inv'[j].status = "none" \/ (j = i /\ Works(i))
  BY DEF Begins, Works, Dies, Takes, Moved, Alternatives, Goes, Submits, Writes, Returns, Moves
<1> QED BY <1>3, <1>4, <1>5, <1>6

\* The row of a run changes with the invocation that begins, and the one that
\* returns.
RecordMoves(i) ==
  \/ record' = record
  \/ record' = [record EXCEPT ![Id(i)] = "running"] /\ inv'[i].pc = "starting" /\ inv[i].pc = "idle"
  \/ /\ record' = [record EXCEPT ![Id(i)] = IF inv[i].status = "succeeded" THEN "succeeded" ELSE "failed"]
     /\ inv'[i].pc = "returned" /\ inv'[i].status = inv[i].status /\ inv[i].pc = "persist"

LEMMA RecordStays ==
  ASSUME IInv, NEW i \in Invocations, Begins(i) \/ Works(i) \/ Dies(i) \/ Takes(i)
  PROVE  /\ RecordMoves(i)
         /\ \A j \in Invocations :
              AtWork(j) \/ inv[j].pc \in {"escaped", "dead"} =>
                AtWork(j)' \/ inv'[j].pc \in {"escaped", "dead"}
                \/ (inv'[j].pc = "returned" /\ inv[j].pc = "persist" /\ j = i)
<1>1. CASE Begins(i)
  BY <1>1 DEF Begins, RecordMoves, start_run, Moved, AtWork
<1>2. CASE Works(i)
  <2>1. Alternatives(i)
    BY <1>2 DEF Works
  <2>2. CASE Goes(i)
    BY <2>2 DEF Goes, Moves, Moved, RecordMoves, AtWork
  <2>3. CASE Submits(i)
    BY <2>3 DEF Submits, Moves, Moved, RecordMoves, AtWork
  <2>4. CASE Writes(i)
    BY <2>4 DEF Writes, Moves, Moved, RecordMoves, AtWork
  <2>5. CASE Returns(i)
    BY <2>5 DEF Returns, Moves, Moved, RecordMoves, AtWork
  <2> QED BY <2>1, <2>2, <2>3, <2>4, <2>5 DEF Alternatives
<1>3. CASE Dies(i)
  BY <1>3 DEF Dies, Moved, RecordMoves, AtWork
<1>4. CASE Takes(i)
  BY <1>4 DEF Takes, RecordMoves, AtWork
<1> QED BY <1>1, <1>2, <1>3, <1>4

LEMMA RecordNext ==
  ASSUME IInv, NEW i \in Invocations, Begins(i) \/ Works(i) \/ Dies(i) \/ Takes(i), NEW id \in Invocations
  PROVE  RecordIsEarned(id)'
<1>1. /\ Keeps /\ RecordIsEarned(id) /\ Id(i) \in Invocations
      /\ record \in [Invocations -> {"none", "running", "succeeded", "failed"}]
      /\ \A j \in Invocations : Id(j)' = Id(j)
      /\ RecordMoves(i)
      /\ \A j \in Invocations :
              AtWork(j) \/ inv[j].pc \in {"escaped", "dead"} =>
                AtWork(j)' \/ inv'[j].pc \in {"escaped", "dead"}
                \/ (inv'[j].pc = "returned" /\ inv[j].pc = "persist" /\ j = i)
  BY MovesKeeps, KeepsMore, RecordStays, InvTypes, IdType DEF IInv
<1>2. ASSUME record'[id] = "succeeded"
      PROVE  \E j \in Invocations : Id(j)' = id /\ inv'[j].pc = "returned" /\ inv'[j].status = "succeeded"
  <2>1. CASE record[id] = "succeeded"
    BY <1>1, <2>1 DEF RecordIsEarned, Keeps
  <2>2. CASE record[id] # "succeeded"
    <3>1. id = Id(i) /\ inv'[i].pc = "returned" /\ inv'[i].status = "succeeded"
      BY <1>1, <1>2, <2>2 DEF RecordMoves
    <3> QED BY <1>1, <3>1
  <2> QED BY <2>1, <2>2
<1>3. ASSUME record'[id] = "running"
      PROVE  \E j \in Invocations : Id(j)' = id /\ (AtWork(j)' \/ inv'[j].pc \in {"escaped", "dead"})
  <2>1. CASE record' # record /\ id = Id(i)
    <3>1. inv'[i].pc = "starting"
      BY <1>1, <1>3, <2>1 DEF RecordMoves
    <3> QED BY <1>1, <2>1, <3>1 DEF AtWork
  <2>2. CASE record' # record /\ id # Id(i)
    <3>1. record[id] = "running"
      BY <1>1, <1>3, <2>2 DEF RecordMoves
    <3>2. PICK j \in Invocations : Id(j) = id /\ (AtWork(j) \/ inv[j].pc \in {"escaped", "dead"})
      BY <1>1, <3>1 DEF RecordIsEarned
    <3> QED BY <1>1, <2>2, <3>2
  <2>3. CASE record' = record
    <3>1. record[id] = "running"
      BY <1>3, <2>3
    <3>2. PICK j \in Invocations : Id(j) = id /\ (AtWork(j) \/ inv[j].pc \in {"escaped", "dead"})
      BY <1>1, <3>1 DEF RecordIsEarned
    <3>3. CASE j = i /\ inv'[i].pc = "returned" /\ inv[i].pc = "persist"
      <4>1. Returns(i)
        BY <3>3 DEF Begins, Works, Dies, Takes, Moved, AtWork, Alternatives, Goes, Submits, Writes
      <4>2. record'[id] # "running"
        BY <1>1, <3>2, <3>3, <4>1 DEF Returns
      <4> QED BY <1>3, <4>2
    <3> QED BY <1>1, <3>2, <3>3
  <2> QED BY <2>1, <2>2, <2>3
<1> QED BY <1>2, <1>3 DEF RecordIsEarned

\* No step of another invocation touches the sandbox of one that is alone.
LEMMA AloneStep ==
  ASSUME IInv, NEW i \in Invocations, Begins(i) \/ Works(i) \/ Dies(i) \/ Takes(i),
         NEW j \in Invocations, j # i, Alone(j)'
  PROVE  /\ Alone(j) /\ result'[Id(j)] = result[Id(j)] /\ draft'[Id(j)] = draft[Id(j)]
         /\ inv'[j] = inv[j] /\ call'[j] = call[j]
<1>1. /\ Keeps /\ Id(i) \in Invocations /\ Id(j) \in Invocations /\ Id(j)' = Id(j) /\ Id(i)' = Id(i) /\ Alone(j)
      /\ result \in [Invocations -> Candidates] /\ draft \in [Invocations -> Candidates]
      /\ inv \in [Invocations -> Row]
  BY MovesKeeps, KeepsMore, InvTypes, IdType
<1>2. inv'[j] = inv[j] /\ call'[j] = call[j]
  BY DEF Begins, Works, Dies, Takes, Moved, Alternatives, Goes, Submits, Writes, Returns, Moves
<1>3. CASE Id(i) = Id(j)
  <2>1. inv'[i].pc = "idle"
    BY <1>1, <1>3 DEF Alone
  <2> QED BY <2>1, <1>1, <1>2 DEF Begins, Works, Dies, Takes, Alternatives, Goes, Submits, Writes, Returns, Moves, sandbox
<1>4. CASE Id(i) # Id(j)
  <2>1. result'[Id(j)] = result[Id(j)]
    BY <1>1, <1>4, ResultStep DEF Accepts
  <2>2. draft'[Id(j)] = draft[Id(j)]
    BY <1>1, <1>4 DEF Begins, Works, Dies, Takes, Alternatives, Goes, Submits, Writes, Returns, sandbox
  <2> QED BY <1>1, <1>2, <2>1, <2>2
<1> QED BY <1>3, <1>4

LEMMA DraftNext ==
  ASSUME IInv, NEW i \in Invocations, Begins(i) \/ Works(i) \/ Dies(i) \/ Takes(i), NEW j \in Invocations
  PROVE  DraftFollows(j)'
<1>1. /\ Keeps /\ agent' = agent /\ DraftFollows(j) /\ Id(j) \in Invocations /\ Id(j)' = Id(j) /\ InHand(j)
      /\ (Alone(j)' => Alone(j)) /\ draft \in [Invocations -> Candidates] /\ result \in [Invocations -> Candidates]
      /\ call \in [Invocations -> [Calls -> CallRow]]
  BY MovesKeeps, KeepsMore, InvTypes, IdType DEF IInv, Keeps, Types
<1>2. CASE j # i
  <2> SUFFICES ASSUME Alone(j)' PROVE DraftFollows(j)'
    BY DEF DraftFollows
  <2>1. /\ Alone(j) /\ result'[Id(j)] = result[Id(j)] /\ draft'[Id(j)] = draft[Id(j)]
        /\ inv'[j] = inv[j] /\ call'[j] = call[j]
    BY <1>2, AloneStep
  <2>2. Writing(j)' = Writing(j)
    BY <2>1 DEF Writing
  <2> QED BY <1>1, <2>1, <2>2 DEF DraftFollows
<1>3. CASE j = i
  <2>1. CASE Dies(i)
    BY <1>3, <2>1 DEF Dies, DraftFollows
  <2>2. CASE Begins(i) \/ Takes(i) \/ Goes(i) \/ Returns(i)
    <3>1. /\ result' = result /\ draft' = draft /\ inv[i].pc # "dead"
          /\ ~inv'[i].crossed => ~inv[i].crossed
          /\ \A c \in Calls : call'[i][c] = call[i][c] \/ "writing" \notin {call[i][c].at, call'[i][c].at}
      BY <1>1, <1>3, <2>2 DEF Begins, Takes, Goes, Returns, Quiet, Moves, AtWork, sandbox, InHand
    <3>2. Writing(i)' = Writing(i) /\ \A c \in Writing(i) : call'[i][c] = call[i][c]
      BY <3>1 DEF Writing
    <3> QED BY <1>1, <1>3, <3>1, <3>2 DEF DraftFollows
  <2>3. CASE Submits(i)
    <3> SUFFICES ASSUME ~inv'[i].crossed PROVE DraftFollows(i)'
      BY <1>3 DEF DraftFollows
    <3>1. PICK c \in Calls, s \in Candidates :
            /\ result' = [result EXCEPT ![Id(i)] = s]
            /\ call' = [call EXCEPT ![i][c].at = "writing", ![i][c].mine = s]
      BY <2>3 DEF Submits
    <3>2. Writing(i) = {}
      BY <2>3 DEF Submits
    <3>3. /\ result'[Id(i)] = s /\ call'[i][c].at = "writing" /\ call'[i][c].mine = s
          /\ \A e \in Calls \ {c} : call'[i][e] = call[i][e]
      BY <1>1, <1>3, <3>1 DEF CallRow
    <3>4. Writing(i)' = {c}
      BY <3>2, <3>3 DEF Writing
    <3> QED BY <1>1, <1>3, <3>3, <3>4 DEF DraftFollows
  <2>4. CASE Writes(i)
    <3> SUFFICES ASSUME Alone(i)', agent.drafts, ~inv'[i].crossed PROVE DraftFollows(i)'
      BY <1>1, <1>3 DEF DraftFollows
    <3>1. PICK c \in Calls, at \in {"written", "raised"} :
            /\ call[i][c].at = "writing"
            /\ call' = [call EXCEPT ![i][c].at = at, ![i][c].mine = Nothing]
            /\ draft' = IF agent.drafts THEN [draft EXCEPT ![Id(i)] = call[i][c].mine] ELSE draft
      BY <2>4 DEF Writes
    <3>2. ~inv[i].crossed /\ inv[i].pc # "dead" /\ result' = result
      BY <2>4 DEF Writes, Moves, AtWork
    <3>3. c \in Writing(i)
      BY <3>1 DEF Writing
    <3>4. Writing(i) = {c} /\ call[i][c].mine = result[Id(i)]
      BY <1>1, <1>3, <3>2, <3>3 DEF DraftFollows
    <3>5. call'[i][c].at = at /\ \A e \in Calls \ {c} : call'[i][e] = call[i][e]
      BY <1>1, <1>3, <3>1 DEF CallRow
    <3>6. Writing(i)' = {}
      BY <3>1, <3>4, <3>5 DEF Writing
    <3>7. draft'[Id(i)] = result'[Id(i)]
      BY <1>1, <1>3, <3>1, <3>2, <3>4
    <3> QED BY <1>1, <1>3, <3>6, <3>7 DEF DraftFollows
  <2> QED BY <1>3, <2>1, <2>2, <2>3, <2>4 DEF Works, Alternatives
<1> QED BY <1>2, <1>3

LEMMA CallerNext ==
  ASSUME IInv, NEW i \in Invocations, Begins(i) \/ Works(i) \/ Dies(i) \/ Takes(i), NEW j \in Invocations
  PROVE  CallerHas(j)'
<1>1. /\ Keeps /\ agent' = agent /\ CallerHas(j) /\ Id(j) \in Invocations /\ Id(j)' = Id(j)
      /\ (Alone(j)' => Alone(j)) /\ Submitted(Id(j)) /\ Earned(j) /\ DraftFollows(j) /\ InHand(j)
      /\ caller \in [Invocations -> {"waits", "reading", "taken", "rejected", "failed", "died"}]
      /\ taken \in [Invocations -> [result : Candidates, files : Candidates]]
      /\ result \in [Invocations -> Candidates] /\ draft \in [Invocations -> Candidates]
  BY MovesKeeps, KeepsMore, InvTypes, IdType DEF IInv, Keeps, Types
<1>2. (inv[j].pc = "returned" => inv'[j] = inv[j])
  BY <1>1 DEF Keeps
\* The candidate of an invocation that is alone is its own.
<1>3. Alone(j) /\ result[Id(j)] # Nothing => result[Id(j)].by = j
  BY <1>1 DEF Alone, Submitted
<1>4. CASE caller'[j] = caller[j] /\ taken'[j] = taken[j]
  <2>1. caller[j] = "reading" /\ Alone(j)' => result'[Id(j)] = result[Id(j)]
    <3> SUFFICES ASSUME caller[j] = "reading", Alone(j)' PROVE result'[Id(j)] = result[Id(j)]
      OBVIOUS
    <3>1. CASE j # i
      BY <3>1, AloneStep
    <3>2. CASE j = i
      <4>1. inv[j].pc = "returned"
        BY <1>1 DEF CallerHas
      <4>2. ~Accepts(i)
        BY <3>2, <4>1 DEF Accepts, AtWork
      <4> QED BY <4>2, ResultStep
    <3> QED BY <3>1, <3>2
  <2> QED BY <1>1, <1>2, <1>4, <2>1 DEF CallerHas
<1>5. CASE caller'[j] # caller[j] \/ taken'[j] # taken[j]
  <2>1. Takes(i) /\ i = j
    BY <1>1, <1>5 DEF Begins, Works, Dies, Takes, callers, ReadCandidate, _read_builder_materialized_draft_files
  <2>2. inv[j].pc = "returned" /\ inv' = inv /\ result' = result /\ draft' = draft
    BY <2>1 DEF Takes, sandbox
  <2>3. CASE \E c \in {"failed", "died"} : caller' = [caller EXCEPT ![i] = c] /\ UNCHANGED taken
    BY <1>1, <2>1, <2>2, <2>3 DEF CallerHas
  <2>4. CASE ReadCandidate(i)
    <3>1. /\ taken'[j].result = result[Id(j)]
          /\ caller'[j] = CASE agent.drafts -> "reading"
                            [] agent.repairs /\ ~result[Id(j)].formal -> "rejected"
                            [] OTHER -> "taken"
          /\ inv[j].status = "succeeded"
      BY <1>1, <2>1, <2>4 DEF ReadCandidate
    <3>2. result[Id(j)] # Nothing /\ Accepted(agent, result[Id(j)])
      BY <1>1, <3>1 DEF Earned, Submitted
    <3>3. agent.drafts \in BOOLEAN /\ agent.repairs \in BOOLEAN /\ result[Id(j)].formal \in BOOLEAN
      BY <1>1, InvTypes, AgentTypes DEF Candidates
    <3>4. CASE agent.drafts
      BY <1>1, <1>3, <2>2, <3>1, <3>2, <3>4 DEF CallerHas, Accepted
    <3>5. CASE ~agent.drafts /\ agent.repairs /\ ~result[Id(j)].formal
      BY <1>1, <2>2, <3>1, <3>5 DEF CallerHas
    <3>6. CASE ~agent.drafts /\ ~(agent.repairs /\ ~result[Id(j)].formal)
      <4>1. caller'[j] = "taken" /\ result[Id(j)].formal
        BY <3>1, <3>2, <3>3, <3>6 DEF Accepted
      <4> QED BY <1>1, <1>3, <2>2, <3>1, <3>2, <3>6, <4>1 DEF CallerHas
    <3> QED BY <3>4, <3>5, <3>6
  <2>5. CASE _read_builder_materialized_draft_files(i)
    <3>1. caller[j] = "reading" /\ agent.drafts
      BY <1>1, <2>1, <2>5 DEF _read_builder_materialized_draft_files, CallerHas
    <3>2. CASE caller'[j] = "failed"
      BY <1>1, <2>2, <3>2 DEF CallerHas
    <3>3. CASE /\ taken' = [taken EXCEPT ![i].files = IF draft[Id(i)] = Nothing THEN taken[i].result ELSE draft[Id(i)]]
               /\ caller' = [caller EXCEPT ![i] = "taken"]
      <4>1. /\ taken'[j].result = taken[j].result /\ caller'[j] = "taken"
            /\ taken'[j].files = IF draft[Id(j)] = Nothing THEN taken[j].result ELSE draft[Id(j)]
        BY <1>1, <2>1, <3>3
      <4>2. Writing(j) = {} /\ inv[j].pc # "dead"
        BY <1>1, <2>2 DEF Writing, InHand
      <4>3. Alone(j) /\ ~inv[j].crossed => draft[Id(j)] = taken[j].result
        BY <1>1, <3>1, <4>2 DEF CallerHas, DraftFollows
      <4> QED BY <1>1, <2>2, <3>1, <4>1, <4>3 DEF CallerHas
    <3> QED BY <1>1, <2>1, <2>5, <3>2, <3>3 DEF _read_builder_materialized_draft_files
  <2> QED BY <2>1, <2>3, <2>4, <2>5 DEF Takes
<1> QED BY <1>4, <1>5

(***************************************************************************)
(* The order of the invocations, and their timeline.                       *)
(***************************************************************************)

\* An invocation that is idle after a step was so before; only a beginning
\* makes one busy.
LEMMA Idle ==
  ASSUME IInv, NEW i \in Invocations, Begins(i) \/ Works(i) \/ Dies(i) \/ Takes(i), NEW j \in Invocations
  PROVE  /\ j # i \/ Takes(i) => inv'[j] = inv[j]
         /\ inv[j].pc = "idle" /\ inv'[j].pc # "idle" => Begins(i) /\ j = i
         /\ AtWork(j)' /\ ~AtWork(j) => Begins(i) /\ j = i
<1>1. inv'[j] = inv[j] \/ (j = i /\ ~Takes(i))
  BY DEF Begins, Works, Dies, Takes, Moved, Alternatives, Goes, Submits, Writes, Returns, Moves
<1>2. CASE inv'[j] = inv[j]
  BY <1>2, <1>1 DEF AtWork, Begins, Works, Dies, Takes, Moved, Alternatives, Goes, Submits, Writes, Returns, Moves
<1>3. CASE j = i /\ ~Takes(i)
  <2>1. Begins(i) \/ AtWork(i)
    BY <1>3 DEF Works, Dies, Alternatives, Goes, Submits, Writes, Returns, Moves
  <2> QED BY <1>3, <2>1 DEF AtWork
<1> QED BY <1>1, <1>2, <1>3

LEMMA BeginsAlone ==
  ASSUME IInv, NEW i \in Invocations, Begins(i)
  PROVE  /\ \A j \in Invocations : j < i => inv[j].pc # "idle"
         /\ \A j \in Invocations : j >= i => inv[j].pc = "idle"
<1>1. \A j \in Invocations : j < i => inv[j].pc # "idle"
  <2> SUFFICES ASSUME NEW j \in Invocations, j < i PROVE inv[j].pc # "idle"
    OBVIOUS
  <2>1. i - 1 \in Invocations /\ i # 1 /\ (j = i - 1 \/ j < i - 1)
    BY Constants DEF Invocations
  <2>2. inv[i - 1].pc # "idle" /\ Ordered(i - 1)
    BY <2>1 DEF Begins, IInv
  <2> QED BY <2>1, <2>2 DEF Ordered
<1>2. \A j \in Invocations : j >= i => inv[j].pc = "idle"
  <2> SUFFICES ASSUME NEW j \in Invocations, j >= i, inv[j].pc # "idle" PROVE FALSE
    OBVIOUS
  <2>1. inv[i].pc = "idle" /\ Ordered(j)
    BY DEF Begins, IInv
  <2>2. j > i
    BY <2>1, Constants DEF Invocations
  <2> QED BY <2>1, <2>2, Constants DEF Ordered, Invocations
<1> QED BY <1>1, <1>2

LEMMA OrderedNext ==
  ASSUME IInv, NEW i \in Invocations, Begins(i) \/ Works(i) \/ Dies(i) \/ Takes(i), NEW j \in Invocations
  PROVE  Ordered(j)'
<1>1. Keeps /\ Ordered(j)
  BY MovesKeeps DEF IInv
<1>2. CASE inv[j].pc # "idle"
  BY <1>1, <1>2 DEF Ordered, Keeps
<1>3. CASE inv[j].pc = "idle" /\ inv'[j].pc # "idle"
  <2>1. Begins(i) /\ j = i
    BY <1>3, Idle
  <2> QED BY <1>1, <2>1, BeginsAlone DEF Ordered, Keeps
<1> QED BY <1>2, <1>3 DEF Ordered

LEMMA SoleNext ==
  ASSUME IInv, NEW i \in Invocations, Begins(i) \/ Works(i) \/ Dies(i) \/ Takes(i), NEW j \in Invocations
  PROVE  Sole(j)'
<1>1. /\ Keeps /\ Sole(j) /\ Id(j)' = Id(j) /\ Id(i)' = Id(i) /\ Later(j)' = Later(j) /\ overlap \subseteq overlap'
  BY MovesKeeps, KeepsMore DEF IInv, Keeps
<1> SUFFICES ASSUME AtWork(j)', Id(j) \notin overlap' PROVE IsLast(j)'
  BY <1>1 DEF Sole
<1>2. CASE Begins(i) /\ j = i
  <2>1. \A k \in Later(j) : inv'[k].pc = "idle"
    BY <1>2, BeginsAlone, Idle, Constants DEF Later, Invocations
  <2> QED BY <1>1, <2>1 DEF IsLast
<1>3. CASE ~(Begins(i) /\ j = i)
  <2>1. AtWork(j) /\ IsLast(j)
    BY <1>1, <1>3, Idle DEF Sole
  <2>2. ASSUME NEW k \in Later(j) PROVE inv'[k].pc = "idle"
    <3>1. k \in Invocations /\ inv[k].pc = "idle" /\ Id(k) = Id(j) /\ k > j
      BY <2>1 DEF IsLast, Later
    <3>2. CASE inv'[k].pc # "idle"
      <4>1. Begins(i) /\ k = i
        BY <3>1, <3>2, Idle
      <4>2. Id(i) \in overlap' /\ Id(i) = Id(j)
        BY <2>1, <3>1, <4>1, <1>3 DEF Begins
      <4> QED BY <4>2
    <3> QED BY <3>2
  <2> QED BY <1>1, <2>2 DEF IsLast
<1> QED BY <1>2, <1>3

\* The rows of a timeline as an event is recorded.
LEMMA OneMore ==
  ASSUME NEW n \in 0..MaxEvents, NEW i, NEW m, m = IF n < MaxEvents THEN n + 1 ELSE MaxEvents
  PROVE  {<<k, i>> : k \in 1..m} = {<<k, i>> : k \in 1..n} \cup {<<m, i>>}
<1>1. 1..m = 1..n \cup {m}
  BY Constants
<1> QED BY <1>1

LEMMA RecordedTimeline ==
  ASSUME IInv, NEW i \in Invocations, AtWork(i), Id(i) \notin overlap, IsLast(i),
         Recorded(i) \/ Silent(i), inv'[i].pc # "returned", agent' = agent
  PROVE  log'[Id(i)] = (IF agent.live THEN {<<n, i>> : n \in 1..inv'[i].seq} ELSE {})
<1>1. /\ log[Id(i)] = (IF agent.live THEN {<<n, i>> : n \in 1..inv[i].seq} ELSE {})
      /\ Id(i) \in Invocations /\ log \in [Invocations -> SUBSET ((1..MaxEvents) \X Invocations)]
      /\ inv[i].seq \in 0..MaxEvents
  BY InvTypes, IdType DEF IInv, Timeline, Own, AtWork, Row
<1>2. CASE Silent(i)
  BY <1>1, <1>2 DEF Silent
<1>3. CASE Recorded(i)
  <2>1. CASE agent.live
    <3>1. ~Clash(i)
      BY <1>1, <2>1 DEF Clash
    <3>2. log'[Id(i)] = log[Id(i)] \cup {<<NextSeq(i), i>>}
      BY <1>1, <1>3, <2>1, <3>1 DEF Recorded
    <3>3. {<<k, i>> : k \in 1..NextSeq(i)} = {<<k, i>> : k \in 1..inv[i].seq} \cup {<<NextSeq(i), i>>}
      BY <1>1, OneMore DEF NextSeq
    <3>4. inv'[i].seq = NextSeq(i)
      BY <1>3 DEF Recorded
    <3> QED BY <1>1, <2>1, <3>2, <3>3, <3>4
  <2>2. CASE ~agent.live
    BY <1>1, <1>3, <2>2 DEF Recorded
  <2> QED BY <2>1, <2>2
<1> QED BY <1>2, <1>3

\* The log of a sandbox changes with a step of one that uses it.
LEMMA LogStep ==
  ASSUME IInv, NEW i \in Invocations, Begins(i) \/ Works(i) \/ Dies(i) \/ Takes(i),
         NEW id \in Invocations, id # Id(i)
  PROVE  log'[id] = log[id]
<1>1. log \in [Invocations -> SUBSET ((1..MaxEvents) \X Invocations)] /\ Id(i) \in Invocations
  BY InvTypes, IdType
<1>2. CASE Begins(i)
  BY <1>1, <1>2 DEF Begins, start_run
<1>3. CASE Dies(i) \/ Takes(i)
  BY <1>3 DEF Dies, Takes
<1>4. CASE Recorded(i) \/ Silent(i)
  BY <1>1, <1>4 DEF Recorded, Silent
<1>5. CASE Returns(i)
  BY <1>1, <1>5 DEF Returns
<1> QED BY <1>2, <1>3, <1>4, <1>5 DEF Works, Alternatives, Goes, Submits, Writes

LEMMA TimelineNext ==
  ASSUME IInv, NEW i \in Invocations, Begins(i) \/ Works(i) \/ Dies(i) \/ Takes(i), NEW j \in Invocations
  PROVE  Timeline(j)'
<1>1. /\ Keeps /\ Timeline(j) /\ Sole(i) /\ Id(j)' = Id(j) /\ Id(i)' = Id(i) /\ overlap \subseteq overlap'
      /\ (IsLast(j)' => IsLast(j)) /\ agent' = agent /\ Id(i) \in Invocations /\ Id(j) \in Invocations
      /\ log \in [Invocations -> SUBSET ((1..MaxEvents) \X Invocations)]
      /\ Later(j)' = Later(j)
  BY MovesKeeps, KeepsMore, InvTypes, IdType DEF IInv, Keeps
<1> SUFFICES ASSUME inv'[j].pc \notin {"idle", "dead"}, Id(j) \notin overlap', IsLast(j)'
             PROVE  log'[Id(j)] = (IF agent.live \/ inv'[j].pc = "returned" THEN {<<n, j>> : n \in 1..inv'[j].seq} ELSE {})
  BY <1>1 DEF Timeline, Own
<1>2. CASE i = j
  <2>1. CASE Begins(i)
    <3>1. log'[Id(j)] = {} /\ inv'[j].seq = 0 /\ inv'[j].pc = "starting"
      BY <1>1, <1>2, <2>1 DEF Begins, start_run
    <3>2. {<<n, j>> : n \in 1..0} = {}
      OBVIOUS
    <3> QED BY <3>1, <3>2
  <2>2. CASE Goes(i) \/ Submits(i) \/ Writes(i)
    <3>1. /\ AtWork(i) /\ (Recorded(i) \/ Silent(i)) /\ inv'[i].pc # "returned"
      BY <2>2 DEF Goes, Submits, Writes, Moves
    <3>2. log'[Id(i)] = (IF agent.live THEN {<<n, i>> : n \in 1..inv'[i].seq} ELSE {})
      BY <1>1, <1>2, <3>1, RecordedTimeline
    <3> QED BY <1>2, <3>1, <3>2
  <2>3. CASE Returns(i)
    <3>1. AtWork(i) /\ inv[i].pc = "persist" /\ inv'[i].pc = "returned" /\ inv'[i].seq = inv[i].seq
      BY <2>3 DEF Returns, Moves
    <3>2. agent.live => log[Id(j)] = {<<n, j>> : n \in 1..inv[j].seq}
      BY <1>1, <1>2, <3>1 DEF Timeline, Own
    <3> QED BY <1>1, <1>2, <2>3, <3>1, <3>2 DEF Returns
  <2>4. CASE Dies(i)
    BY <1>2, <2>4 DEF Dies
  <2>5. CASE Takes(i)
    BY <1>1, <1>2, <2>5 DEF Takes, Timeline, Own
  <2> QED BY <2>1, <2>2, <2>3, <2>4, <2>5 DEF Works, Alternatives
<1>3. CASE i # j
  <2>1. inv'[j] = inv[j]
    BY <1>3, Idle
  <2>2. log[Id(j)] = Own(j)
    BY <1>1, <2>1 DEF Timeline
  <2>3. log'[Id(j)] = log[Id(j)]
    <3>1. CASE Id(i) # Id(j)
      BY <1>1, <3>1, LogStep
    <3>2. CASE Id(i) = Id(j) /\ Takes(i)
      BY <3>2 DEF Takes
    <3>3. CASE Id(i) = Id(j) /\ Begins(i)
      <4>1. j < i
        BY <2>1, <3>3, BeginsAlone, Constants DEF Invocations
      <4>2. i \in Later(j) /\ inv'[i].pc = "starting"
        BY <3>3, <4>1 DEF Later, Begins
      <4> QED BY <1>1, <4>2 DEF IsLast
    <3>4. CASE Id(i) = Id(j) /\ (Works(i) \/ Dies(i))
      <4>1. AtWork(i) /\ inv'[i].pc # "idle"
        BY <3>4 DEF Works, Dies, Alternatives, Goes, Submits, Writes, Returns, Moves
      <4>2. CASE j < i
        <5>1. i \in Later(j)
          BY <3>4, <4>2 DEF Later
        <5> QED BY <1>1, <4>1, <5>1 DEF IsLast
      <4>3. CASE i < j
        <5>1. j \in Later(i) /\ IsLast(i)
          BY <1>1, <3>4, <4>1, <4>3 DEF Later, Sole
        <5> QED BY <2>1, <5>1 DEF IsLast
      <4> QED BY <1>3, <4>2, <4>3, Constants DEF Invocations
    <3> QED BY <3>1, <3>2, <3>3, <3>4
  <2> QED BY <2>1, <2>2, <2>3 DEF Own
<1> QED BY <1>2, <1>3

(***************************************************************************)
(* Types.                                                                  *)
(***************************************************************************)

LEMMA LogTypes ==
  ASSUME IInv, NEW i \in Invocations, Begins(i) \/ Works(i) \/ Dies(i) \/ Takes(i)
  PROVE  log' \in [Invocations -> SUBSET ((1..MaxEvents) \X Invocations)]
<1>1. /\ log \in [Invocations -> SUBSET ((1..MaxEvents) \X Invocations)] /\ Id(i) \in Invocations
      /\ inv[i].seq \in 0..MaxEvents /\ NextSeq(i) \in 1..MaxEvents
  BY InvTypes, IdType, NextSeqType DEF Row
<1>2. CASE Begins(i)
  BY <1>1, <1>2 DEF Begins, start_run
<1>3. CASE Dies(i) \/ Takes(i)
  BY <1>1, <1>3 DEF Dies, Takes
<1>4. CASE Recorded(i) \/ Silent(i)
  BY <1>1, <1>4 DEF Recorded, Silent
<1>5. CASE Returns(i)
  <2>1. {<<n, i>> : n \in 1..inv[i].seq} \subseteq (1..MaxEvents) \X Invocations
    BY <1>1, Constants
  <2> QED BY <1>1, <1>5, <2>1 DEF Returns
<1> QED BY <1>2, <1>3, <1>4, <1>5 DEF Works, Alternatives, Goes, Submits, Writes

LEMMA TypesNext ==
  ASSUME IInv, NEW i \in Invocations, Begins(i) \/ Works(i) \/ Dies(i) \/ Takes(i)
  PROVE  Types'
<1>1. /\ inv \in [Invocations -> Row] /\ agent \in Agents
      /\ result \in [Invocations -> Candidates] /\ draft \in [Invocations -> Candidates]
      /\ arts \in [Invocations -> Candidates]
      /\ record \in [Invocations -> {"none", "running", "succeeded", "failed"}]
      /\ overlap \in SUBSET Invocations
      /\ caller \in [Invocations -> {"waits", "reading", "taken", "rejected", "failed", "died"}]
      /\ taken \in [Invocations -> [result : Candidates, files : Candidates]]
      /\ call \in [Invocations -> [Calls -> CallRow]]
      /\ Id(i) \in Invocations /\ Nothing \in Candidates /\ Types
      /\ Keeps /\ RecordMoves(i) /\ (result' = result \/ Accepts(i))
      /\ log' \in [Invocations -> SUBSET ((1..MaxEvents) \X Invocations)]
  BY InvTypes, IdType, NothingType, MovesKeeps, RecordStays, ResultStep, LogTypes
<1>2. inv' \in [Invocations -> Row] /\ agent' \in Agents
  BY <1>1 DEF Keeps
<1>3. result' \in [Invocations -> Candidates]
  BY <1>1 DEF Accepts
<1>4. draft' \in [Invocations -> Candidates]
  <2>1. CASE Writes(i)
    <3>1. PICK c \in Calls : draft' = IF agent.drafts THEN [draft EXCEPT ![Id(i)] = call[i][c].mine] ELSE draft
      BY <2>1 DEF Writes
    <3>2. call[i][c].mine \in Candidates
      BY <1>1 DEF CallRow
    <3> QED BY <1>1, <3>1, <3>2
  <2>2. CASE draft' = draft
    BY <1>1, <2>2
  <2> QED BY <2>1, <2>2 DEF Begins, Works, Dies, Takes, Alternatives, Goes, Submits, Returns, sandbox
<1>5. arts' \in [Invocations -> Candidates]
  BY <1>1 DEF Begins, Works, Dies, Takes, Alternatives, Goes, Submits, Writes, Returns, start_run
<1>6. record' \in [Invocations -> {"none", "running", "succeeded", "failed"}]
  BY <1>1 DEF RecordMoves
<1>7. overlap' \in SUBSET Invocations
  BY <1>1 DEF Begins, Works, Dies, Takes, callers
<1>8. caller' \in [Invocations -> {"waits", "reading", "taken", "rejected", "failed", "died"}]
  BY <1>1 DEF Begins, Works, Dies, Takes, callers, ReadCandidate, _read_builder_materialized_draft_files
<1>9. taken' \in [Invocations -> [result : Candidates, files : Candidates]]
  <2>1. CASE ReadCandidate(i)
    BY <1>1, <2>1 DEF ReadCandidate
  <2>2. CASE _read_builder_materialized_draft_files(i)
    <3> DEFINE found == IF draft[Id(i)] = Nothing THEN taken[i].result ELSE draft[Id(i)]
    <3>1. found \in Candidates
      BY <1>1
    <3>2. taken' = taken \/ taken' = [taken EXCEPT ![i].files = found]
      BY <2>2 DEF _read_builder_materialized_draft_files
    <3> HIDE DEF found
    <3>3. taken \in [Invocations -> [result : Candidates, files : Candidates]]
      BY <1>1
    <3>4. [taken[i] EXCEPT !.files = found] \in [result : Candidates, files : Candidates]
      BY <3>1, <3>3
    <3> QED BY <3>2, <3>3, <3>4
  <2>3. CASE taken' = taken
    BY <1>1, <2>3
  <2> QED BY <2>1, <2>2, <2>3 DEF Begins, Works, Dies, Takes, callers
<1>10. \A j \in Invocations : InHand(j)'
  <2> SUFFICES ASSUME NEW j \in Invocations PROVE InHand(j)'
    OBVIOUS
  <2>1. InHand(j)
    BY <1>1 DEF Types
  <2>2. CASE j # i \/ Takes(i)
    <3>1. inv'[j] = inv[j] /\ call'[j] = call[j]
      BY <2>2 DEF Begins, Works, Dies, Takes, Moved, Alternatives, Goes, Submits, Writes, Returns, Moves
    <3> QED BY <2>1, <3>1 DEF InHand
  <2>3. CASE j = i /\ (Begins(i) \/ Dies(i))
    BY <2>1, <2>3 DEF InHand, Begins, Dies, NoCall
  <2>4. CASE j = i /\ Works(i)
    BY <2>4 DEF Works, Alternatives, Goes, Submits, Writes, Returns, Moves
  <2> QED BY <2>2, <2>3, <2>4
<1>11. call' \in [Invocations -> [Calls -> CallRow]]
  BY <1>1 DEF Begins, Works, Dies, Takes, Moved, Alternatives, Goes, Submits, Writes, Returns, Moves
<1>12. TypeOK'
  BY <1>1, <1>2, <1>3, <1>4, <1>5, <1>6, <1>7, <1>8, <1>9, <1>11 DEF TypeOK, Row, Counters, CallRow, Pcs, Statuses
<1> QED BY <1>10, <1>12 DEF Types

LEMMA IInvInit == Init => IInv
<1> SUFFICES ASSUME Init PROVE IInv
  OBVIOUS
<1>1. /\ agent \in Agents /\ inv = [i \in Invocations |-> New] /\ result = [i \in Invocations |-> Nothing]
      /\ draft = result /\ log = [i \in Invocations |-> {}] /\ record = [i \in Invocations |-> "none"]
      /\ arts = result /\ overlap = {} /\ caller = [i \in Invocations |-> "waits"]
      /\ taken = [i \in Invocations |-> [result |-> Nothing, files |-> Nothing]]
      /\ call = [i \in Invocations |-> [c \in Calls |-> NoCall]]
  BY DEF Init
<1>2. New \in Row /\ New.pc = "idle" /\ New.status = "none" /\ ~New.crossed
  BY NewIs
<1>3. Nothing \in Candidates /\ Nothing.n = 0
  BY NothingType
<1>4. Types
  <2>1. NoCall \in CallRow /\ NoCall.at = "none"
    BY <1>3 DEF NoCall, CallRow
  <2>2. inv \in [Invocations -> Row] /\ call \in [Invocations -> [Calls -> CallRow]]
    BY <1>1, <1>2, <2>1
  <2>3. TypeOK
    BY <1>1, <1>3, <2>2 DEF TypeOK, Row, Counters, CallRow, Pcs, Statuses
  <2>4. \A i \in Invocations : InHand(i)
    BY <1>1, <1>2, <2>1 DEF InHand
  <2> QED BY <2>3, <2>4 DEF Types
<1>5. \A id \in Invocations : Submitted(id) /\ RecordIsEarned(id)
  BY <1>1, <1>3 DEF Submitted, RecordIsEarned
<1>6. \A i \in Invocations :
        Earned(i) /\ DraftFollows(i) /\ CallerHas(i) /\ Ordered(i) /\ Sole(i) /\ Timeline(i)
  <2>1. \A i \in Invocations : Writing(i) = {}
    BY <1>1 DEF Writing, NoCall
  <2> QED BY <1>1, <1>2, <2>1, IdType DEF Earned, DraftFollows, CallerHas, Ordered, Sole, AtWork, Timeline
<1> QED BY <1>4, <1>5, <1>6 DEF IInv

LEMMA IInvNext == IInv /\ [Next]_vars => IInv'
<1> SUFFICES ASSUME IInv, [Next]_vars PROVE IInv'
  OBVIOUS
<1>1. CASE Next
  <2>1. PICK i \in Invocations : Begins(i) \/ Works(i) \/ Dies(i) \/ Takes(i)
    BY <1>1, NextCases
  <2>2. Types'
    BY <2>1, TypesNext
  <2>3. \A id \in Invocations : Submitted(id)' /\ RecordIsEarned(id)'
    BY <2>1, SubmittedNext, RecordNext
  <2>4. \A j \in Invocations : Earned(j)' /\ DraftFollows(j)' /\ CallerHas(j)'
    BY <2>1, EarnedNext, DraftNext, CallerNext
  <2>5. \A j \in Invocations : Ordered(j)' /\ Sole(j)' /\ Timeline(j)'
    BY <2>1, OrderedNext, SoleNext, TimelineNext
  <2> QED BY <2>2, <2>3, <2>4, <2>5 DEF IInv
<1>2. CASE UNCHANGED vars
  <2>1. /\ agent' = agent /\ inv' = inv /\ result' = result /\ draft' = draft /\ log' = log /\ record' = record
        /\ arts' = arts /\ overlap' = overlap /\ caller' = caller /\ taken' = taken
        /\ call' = call
    BY <1>2 DEF vars
  <2>2. Types'
    BY <2>1 DEF IInv, Types, TypeOK, InHand
  <2>3. \A i \in Invocations : Id(i)' = Id(i) /\ AtWork(i)' = AtWork(i)
    BY <2>1 DEF Id, AtWork
  <2>4. \A i \in Invocations : Alone(i)' = Alone(i) /\ Later(i)' = Later(i)
    BY <2>1, <2>3 DEF Alone, Later
  <2>5. \A i \in Invocations : IsLast(i)' = IsLast(i)
    BY <2>1, <2>4 DEF IsLast
  <2>6. \A id \in Invocations : Submitted(id)' /\ RecordIsEarned(id)'
    BY <2>1, <2>3 DEF IInv, Submitted, RecordIsEarned
  <2>7. \A i \in Invocations : Earned(i)' /\ DraftFollows(i)' /\ CallerHas(i)'
    BY <2>1, <2>3, <2>4 DEF IInv, Earned, DraftFollows, CallerHas, Writing
  <2>8. \A i \in Invocations : Ordered(i)' /\ Sole(i)' /\ Timeline(i)'
    BY <2>1, <2>3, <2>5 DEF IInv, Ordered, Sole, Timeline, Own
  <2> QED BY <2>2, <2>6, <2>7, <2>8 DEF IInv
<1> QED BY <1>1, <1>2

\* The invariant of AgentRun: what lies in a sandbox was accepted there, no
\* status is given for nothing, and the timeline is that of the last invocation
\* (agent_harness/service.py invoke).
THEOREM AgentInvariance == Spec => []IInv
BY IInvInit, IInvNext, PTL DEF Spec

\* The row of an agent run says succeeded only for an invocation that did all
\* it had to do over an accepted candidate, and running only while one is at
\* work or never got to the end (service.py invoke, persist_result).
THEOREM StatusAlwaysEarned == Spec => []StatusIsEarned
<1>1. IInv => StatusIsEarned
  <2> SUFFICES ASSUME IInv PROVE StatusIsEarned
    OBVIOUS
  <2>1. ASSUME NEW id \in Invocations, record[id] = "succeeded"
        PROVE  result[id].checked /\ \E i \in Invocations : Id(i) = id /\ inv[i].status = "succeeded" /\ agent.required \subseteq inv[i].completed
    <3>1. PICK i \in Invocations : Id(i) = id /\ inv[i].pc = "returned" /\ inv[i].status = "succeeded"
      BY <2>1 DEF IInv, RecordIsEarned
    <3>2. result[id] # Nothing /\ agent.required \subseteq inv[i].completed
      BY <3>1 DEF IInv, Earned
    <3>3. result[id].checked
      BY <3>2 DEF IInv, Submitted, Accepted
    <3> QED BY <3>1, <3>2, <3>3
  <2>2. ASSUME NEW id \in Invocations, record[id] = "running"
        PROVE  \E i \in Invocations : Id(i) = id /\ (AtWork(i) \/ inv[i].pc \in {"escaped", "dead"})
    BY <2>2 DEF IInv, RecordIsEarned
  <2> QED BY <2>1, <2>2, InvTypes DEF StatusIsEarned
<1> QED BY <1>1, AgentInvariance, PTL

\* The timeline of a run is at any time what the last of its invocations has
\* recorded, where they follow one another (persistence/service.py start_run).
THEOREM TimelineAlwaysOfTheLast == Spec => []TimelineIsOfTheLast
<1>1. IInv => TimelineIsOfTheLast
  BY DEF IInv, Timeline, IsLast, Later, Own, TimelineIsOfTheLast
<1> QED BY <1>1, AgentInvariance, PTL

(***************************************************************************)
(* What a caller takes.                                                    *)
(***************************************************************************)

LEMMA VerdictIs ==
  ASSUME NEW a \in Agents, NEW k \in a.offers
  PROVE  VerdictOf(a, k) = Diagnostics(Proposals[k], {Proposals[b] : b \in a.baseline})
<1> DEFINE s == <<k, a.baseline>>
           v == [of |-> s, is |-> Diagnostics(Proposals[s[1]], {Proposals[b] : b \in s[2]})]
<1>1. s \in UNION {x.offers \X {x.baseline} : x \in Agents}
  OBVIOUS
<1>2. v \in Verdicts /\ v.of = s
  BY <1>1 DEF Verdicts
<1> HIDE DEF v
<1> DEFINE w == CHOOSE w \in Verdicts : w.of = s
<1>3. w \in Verdicts /\ w.of = s
  BY <1>2
<1>4. VerdictOf(a, k) = w.is
  BY DEF VerdictOf
<1> HIDE DEF w
<1>5. PICK u \in UNION {x.offers \X {x.baseline} : x \in Agents} :
        w = [of |-> u, is |-> Diagnostics(Proposals[u[1]], {Proposals[b] : b \in u[2]})]
  BY <1>3 DEF Verdicts
<1>6. u = s
  BY <1>3, <1>5
<1> QED BY <1>4, <1>5, <1>6

LEMMA Baseline ==
  ASSUME NEW a \in Agents
  PROVE  \A x \in {Proposals[b] : b \in a.baseline} :
           /\ {Proposals[b] : b \in a.baseline} = {x}
           /\ parse_builder_candidate(x) /\ _validate_workflow(x) = {}
<1> SUFFICES ASSUME NEW b \in a.baseline
             PROVE  /\ {Proposals[d] : d \in a.baseline} = {Proposals[b]}
                    /\ parse_builder_candidate(Proposals[b]) /\ _validate_workflow(Proposals[b]) = {}
  OBVIOUS
<1>1. parse_builder_candidate(Proposals[b]) /\ _validate_workflow(Proposals[b]) = {}
  BY AgentAssumption
<1>2. a.baseline \subseteq 1..Len(Proposals) /\ Cardinality(a.baseline) <= 1
  BY AgentAssumption, Size
<1>3. IsFiniteSet(a.baseline)
  <2>1. IsFiniteSet(1..Len(Proposals))
    BY Size, FS_Interval
  <2> QED BY <1>2, <2>1, FS_Subset
<1>4. Cardinality(a.baseline) \in Nat /\ Cardinality(a.baseline) # 0
  BY <1>3, FS_CardinalityType, FS_EmptySet
<1>5. Cardinality(a.baseline) = 1
  BY <1>2, <1>4
<1>6. PICK d : a.baseline = {d}
  BY <1>3, <1>5, FS_Singleton
<1> QED BY <1>1, <1>6

LEMMA AcceptedIsSound ==
  ASSUME NEW a \in Agents, NEW s, Accepted(a, s), a.drafts
  PROVE  SoundProposal(Proposals[s.n], {Proposals[b] : b \in a.baseline})
<1> DEFINE k == s.n
           c == Proposals[k]
           bs == {Proposals[b] : b \in a.baseline}
<1>1. k \in a.offers /\ VerdictOf(a, k) = {}
  BY DEF Accepted
<1>2. Diagnostics(c, bs) = {}
  BY <1>1, VerdictIs
<1>3. k \in DOMAIN Proposals
  BY <1>1, AgentAssumption
<1>4. c.flaw \in {"malformed", "provenance"} \/ parse_builder_candidate(c)
  BY <1>3, AgentAssumption DEF Range
<1>5. \A b \in bs : bs = {b} /\ parse_builder_candidate(b) /\ _validate_workflow(b) = {}
  BY Baseline
<1> HIDE DEF c, bs, k
<1>6. SoundProposal(c, bs)
  BY <1>2, <1>4, <1>5, NotRefused
<1> QED BY <1>6 DEF c, bs, k

\* What a caller takes was accepted, and is its own where no other invocation
\* used the sandbox; a draft has no target that changed without a source
\* (tools/builtin/builder.py _submit_candidate, builder/schemas.py
\* reconcile_builder_candidate and validate_builder_candidate).
THEOREM TakenAlwaysChecked == Spec => []TakenIsChecked
<1>1. IInv => TakenIsChecked
  <2> SUFFICES ASSUME IInv, NEW i \in Invocations, caller[i] = "taken"
               PROVE  /\ taken[i].result.checked /\ taken[i].result.formal
                      /\ agent.drafts => SoundProposal(Proposals[taken[i].result.n], {Proposals[b] : b \in agent.baseline})
                      /\ Alone(i) => /\ taken[i].result.by = i
                                     /\ agent.drafts /\ ~inv[i].crossed => taken[i].files = taken[i].result
    BY DEF TakenIsChecked
  <2>1. CallerHas(i) /\ agent \in Agents
    BY InvTypes DEF IInv
  <2>2. Accepted(agent, taken[i].result) /\ taken[i].result.formal
    BY <2>1 DEF CallerHas
  <2>3. agent.drafts => SoundProposal(Proposals[taken[i].result.n], {Proposals[b] : b \in agent.baseline})
    BY <2>1, <2>2, AcceptedIsSound
  <2> QED BY <2>1, <2>2, <2>3 DEF CallerHas, Accepted
<1> QED BY <1>1, AgentInvariance, PTL
=============================================================================
