------------------------ MODULE SkillTestRun_proofs ------------------------
(***************************************************************************)
(* Theorems about a scenario run: the inputs reach the run once each and   *)
(* in order, and "passed" is only written for a run that earned it.  The   *)
(* row has no lock, so the inductive invariant is about what the sessions  *)
(* hold: an attempt that owns the driver job knows the cursor on record,   *)
(* and no session writes a cursor, a completion or a pass that it did not  *)
(* itself bring about.                                                     *)
(***************************************************************************)
EXTENDS SkillTestRun, TLAPS, WellFoundedInduction

(***************************************************************************)
(* The inductive invariant.                                                *)
(***************************************************************************)

\* The run has got every input of the timeline.
AllSent == Len(inputs) = Len(InputAt)

\* What "passed" is earned by.
Earned == runStatus = "succeeded" /\ AllSent /\ \A e \in Expectations : evals[e] = "passed"

InDriver(s) == slot[s].pc \in {"driving", "closing"}

\* A session with old row v makes no pass of its row w, and neither of them
\* says "completed" before all is sent.
Honest(v, w) ==
  /\ w.status = "passed" => v.status = "passed"
  /\ v.driver = "completed" \/ w.driver = "completed" => AllSent

\* A slot is in an attempt of the right kind and honest; the attempt that owns
\* the driver job knows the cursor on record and counts only inputs that are in
\* the run.
SlotFits(s) ==
  /\ InDriver(s) => slot[s].job = "driver"
  /\ slot[s].pc = "judging" => slot[s].job = "finalizer" /\ slot[s].expectation \in Expectations
  /\ Honest(slot[s].base, slot[s].now)
  /\ InDriver(s) /\ Owns(s) =>
       /\ slot[s].base.cursor = row.cursor /\ row.cursor <= slot[s].now.cursor
       /\ slot[s].now.cursor <= Len(inputs)

\* A request is honest and never moves the cursor.
RequestFits(q) ==
  Honest(request[q].base, request[q].now) /\ request[q].base.cursor = request[q].now.cursor

\* The driver is through before there is anything to finalize.
CompletedIsSent ==
  /\ row.driver = "completed" => AllSent
  /\ jobs["finalizer"].status # "absent" => AllSent

VInv ==
  /\ TypeOK /\ InputsInOrder /\ (row.status = "passed" => Earned)
  /\ \A s \in Slots : SlotFits(s)
  /\ \A q \in Requests : RequestFits(q)
  /\ CompletedIsSent

(***************************************************************************)
(* The end of scenario time.                                               *)
(***************************************************************************)

\* The least-number principle, with a set for the predicate.
LEMMA Least ==
  ASSUME NEW T \in SUBSET Nat, T # {}
  PROVE  \E x \in T : \A y \in T : x <= y
<1>1. PICK R : R = OpToRel(<, Nat)
  OBVIOUS
<1>2. IsWellFoundedOn(R, Nat)
  BY <1>1, NatLessThanWellFounded
<1>3. \A x, y \in Nat : x < y => <<x, y>> \in R
  BY <1>1 DEF OpToRel
<1>4. PICK x \in T : \A y \in T : ~ (<<y, x>> \in R)
  BY <1>2, WFMin
<1>5. ASSUME NEW y \in T
      PROVE  x <= y
  <2>1. x \in Nat /\ y \in Nat
    OBVIOUS
  <2>2. ~ (y < x)
    BY <2>1, <1>3, <1>4
  <2> QED BY <2>1, <2>2
<1> QED BY <1>5

\* The numbers of a sequence have an upper bound.
LEMMA Bounded ==
  ASSUME NEW q \in Seq(Nat)
  PROVE  \E b \in Nat : \A i \in 1..Len(q) : q[i] <= b
<1> DEFINE Open == {k \in Nat : k <= Len(q) /\ \A b \in Nat : \E i \in 1..k : ~ (q[i] <= b)}
<1>1. SUFFICES ASSUME Len(q) \in Open PROVE FALSE
  <2>1. Len(q) \in Nat /\ Len(q) <= Len(q)
    OBVIOUS
  <2> QED BY <2>1
<1>2. PICK k \in Open : \A n \in Open : k <= n
  <2> HIDE DEF Open
  <2>1. Open \in SUBSET Nat
    BY DEF Open
  <2> QED BY <1>1, <2>1, Least
<1>3. k \in Nat /\ k <= Len(q) /\ k # 0
  <2>1. k \in Nat /\ k <= Len(q) /\ \E i \in 1..k : ~ (q[i] <= 0)
    OBVIOUS
  <2> QED BY <2>1
<1>4. k - 1 \in Nat /\ k - 1 <= Len(q) /\ ~ (k <= k - 1)
  BY <1>3
<1>5. k - 1 \notin Open
  BY <1>2, <1>4
<1>6. PICK b \in Nat : \A i \in 1..(k - 1) : q[i] <= b
  BY <1>4, <1>5
<1> HIDE DEF Open
<1>7. \A i \in 1..k : q[i] \in Nat
  <2>1. \A i \in 1..Len(q) : q[i] \in Nat
    OBVIOUS
  <2>2. Len(q) \in Nat
    OBVIOUS
  <2> QED BY <2>1, <2>2, <1>3
<1>8. \A i \in 1..k : q[i] <= b + q[k]
  <2> SUFFICES ASSUME NEW i \in 1..k PROVE q[i] <= b + q[k]
    OBVIOUS
  <2>1. q[i] \in Nat /\ q[k] \in Nat
    BY <1>3, <1>7
  <2>2. CASE i = k
    BY <2>1, <2>2
  <2>3. CASE i # k
    <3>1. i \in 1..(k - 1)
      BY <2>3, <1>3
    <3> QED BY <3>1, <1>6, <2>1
  <2> QED BY <2>2, <2>3
<1>9. b + q[k] \in Nat
  <2>1. q[k] \in Nat
    BY <1>3, <1>7
  <2> QED BY <2>1
<1>10. k \in Open
  BY <1>2
<1> QED BY <1>8, <1>9, <1>10 DEF Open

\* Scenario time has an end.
LEMMA HorizonFacts == Horizon \in Nat
<1>1. PICK a \in Nat : \A i \in Events : InputAt[i] <= a
  BY Bounded, TimelineAssumption DEF Events
<1>2. PICK b \in Nat : \A e \in Expectations : ExpectAt[e] <= b
  BY Bounded, TimelineAssumption DEF Expectations
<1>3. (\A i \in Events : InputAt[i] \in Nat) /\ \A e \in Expectations : ExpectAt[e] \in Nat
  BY TimelineAssumption DEF Events, Expectations
<1>4. Times \subseteq Nat /\ 0 \in Times
  BY <1>3 DEF Times
<1>5. \A t \in Times : t <= a + b
  BY <1>1, <1>2, <1>3 DEF Times
<1> DEFINE Above == {n \in Nat : \A t \in Times : t <= n}
<1>6. a + b \in Above
  BY <1>5
<1>7. PICK n \in Above : \A m \in Above : n <= m
  <2> HIDE DEF Above
  <2>1. Above \in SUBSET Nat
    BY DEF Above
  <2> QED BY <1>6, <2>1, Least
<1>8. n \in Times
  <2>1. SUFFICES ASSUME n \notin Times PROVE FALSE
    OBVIOUS
  <2>2. n # 0 /\ n \in Nat
    BY <2>1, <1>4
  <2>3. n - 1 \in Nat /\ ~ (n <= n - 1)
    BY <2>2
  <2>4. \A t \in Times : t <= n - 1
    BY <1>4, <2>1, <2>2
  <2> QED BY <1>7, <2>3, <2>4
<1>9. \A t \in Times : t <= n
  OBVIOUS
<1>10. Horizon \in Times
  BY <1>8, <1>9 DEF Horizon
<1> QED BY <1>10, <1>4

(***************************************************************************)
(* The row.                                                                *)
(***************************************************************************)

RunStatuses == {"running", "waiting_input"} \cup TERMINAL_RUNTIME_STATUSES

LEMMA RowFields ==
  /\ NewRow \in Rows /\ NewRow.status # "passed" /\ NewRow.driver # "completed" /\ NewRow.cursor = 0
  /\ \A v \in Rows : v.cursor \in 0..Len(InputAt)
<1>1. Len(InputAt) \in Nat
  BY TimelineAssumption
<1> QED BY <1>1 DEF NewRow, Rows, TERMINAL_SCENARIO_RUN_STATUSES, DriverDone

\* The row follows the run, but not to a verdict.
LEMMA SyncFacts ==
  ASSUME NEW v \in Rows, NEW r \in RunStatuses
  PROVE  LET w == _sync_scenario_run_from_runtime(v, r) IN
         /\ w \in Rows /\ w.cursor = v.cursor
         /\ w.status = "passed" => v.status = "passed"
         /\ w.driver = "completed" => v.driver = "completed"
<1> DEFINE st == IF r = "waiting_input" THEN r ELSE "running"
<1>1. st \in {"running", "waiting_input"}
  OBVIOUS
<1> HIDE DEF st
<1>2. [v EXCEPT !.status = st] \in Rows /\ Cancelled(v) \in Rows
  BY <1>1 DEF Rows, Cancelled, DriverDone, TERMINAL_SCENARIO_RUN_STATUSES
<1>3. /\ [v EXCEPT !.status = st].cursor = v.cursor /\ [v EXCEPT !.status = st].driver = v.driver
      /\ [v EXCEPT !.status = st].status # "passed"
  BY <1>1 DEF Rows
<1>4. Cancelled(v).cursor = v.cursor /\ Cancelled(v).driver # "completed" /\ Cancelled(v).status # "passed"
  BY DEF Rows, Cancelled
<1> QED BY <1>2, <1>3, <1>4 DEF _sync_scenario_run_from_runtime, st

\* A commit writes the attributes that differ.
LEMMA FlushFacts ==
  ASSUME row \in Rows, NEW v \in Rows, NEW w \in Rows
  PROVE  /\ Flush(v, w) \in Rows
         /\ Flush(v, w).status = IF w.status # v.status THEN w.status ELSE row.status
         /\ Flush(v, w).driver = IF w.driver # v.driver THEN w.driver ELSE row.driver
         /\ Flush(v, w).cursor = IF w.cursor # v.cursor THEN w.cursor ELSE row.cursor
<1> DEFINE a == IF w.status # v.status THEN w.status ELSE row.status
           b == IF w.driver # v.driver THEN w.driver ELSE row.driver
           c == IF w.cursor # v.cursor THEN w.cursor ELSE row.cursor
<1>1. /\ a \in {"running", "waiting_input"} \cup TERMINAL_SCENARIO_RUN_STATUSES
      /\ b \in {"pending", "waiting_time"} \cup DriverDone
      /\ c \in 0..Len(InputAt)
  BY DEF Rows
<1>2. Flush(v, w) = [status |-> a, driver |-> b, cursor |-> c]
  BY DEF Rows, Flush
<1> HIDE DEF a, b, c
<1>3. Flush(v, w) \in Rows /\ Flush(v, w).status = a /\ Flush(v, w).driver = b /\ Flush(v, w).cursor = c
  BY <1>1, <1>2 DEF Rows
<1> QED BY <1>3 DEF a, b, c

(***************************************************************************)
(* Types.                                                                  *)
(***************************************************************************)

SlotPcs == {"absent", "idle", "claimed", "driving", "closing", "judging"}
Attempts == [pc : SlotPcs, job : JobKinds, base : Rows, now : Rows, run : RunStatuses,
             sentAny : BOOLEAN, expectation : Expectations \cup {None}]
Calls == [pc : {"absent", "idle", "reading", "cancelling", "cancelled", "answered"}, base : Rows, now : Rows]
JobRows == [status : JobStatus, owner : Slots \cup {None}, attempt : 0..MaxAttempts]

LEMMA AttemptTypes ==
  /\ NoAttempt \in Attempts /\ NoRequest \in Calls /\ Answered \in Calls
  /\ \A c \in Attempts, p \in SlotPcs : [c EXCEPT !.pc = p] \in Attempts
  /\ \A c \in Attempts, v \in Rows : [c EXCEPT !.base = v] \in Attempts
  /\ \A c \in Attempts, v \in Rows : [c EXCEPT !.now = v] \in Attempts
  /\ \A c \in Attempts, r \in RunStatuses : [c EXCEPT !.run = r] \in Attempts
  /\ \A c \in Attempts, b \in BOOLEAN : [c EXCEPT !.sentAny = b] \in Attempts
  /\ \A c \in Attempts, j \in JobKinds : [c EXCEPT !.job = j] \in Attempts
  /\ \A c \in Attempts, e \in Expectations : [c EXCEPT !.expectation = e] \in Attempts
<1>1. NewRow \in Rows
  BY RowFields
<1>2. NoAttempt \in Attempts
  BY <1>1 DEF NoAttempt, Attempts, SlotPcs, JobKinds, RunStatuses
<1>3. NoRequest \in Calls /\ Answered \in Calls
  BY <1>1 DEF NoRequest, Answered, Calls
<1> QED BY <1>2, <1>3 DEF Attempts

\* A row with another cursor.
LEMMA CursorTypes ==
  \A v \in Rows, i \in 0..Len(InputAt) :
    /\ [v EXCEPT !.cursor = i] \in Rows /\ [v EXCEPT !.cursor = i].cursor = i
    /\ [v EXCEPT !.cursor = i].status = v.status /\ [v EXCEPT !.cursor = i].driver = v.driver
  BY DEF Rows

\* A row with other statuses.
LEMMA StatusTypes ==
  /\ \A v \in Rows, st \in {"running", "waiting_input"} \cup TERMINAL_SCENARIO_RUN_STATUSES :
       /\ [v EXCEPT !.status = st] \in Rows /\ [v EXCEPT !.status = st].status = st
       /\ [v EXCEPT !.status = st].driver = v.driver /\ [v EXCEPT !.status = st].cursor = v.cursor
  /\ \A v \in Rows, d \in {"pending", "waiting_time"} \cup DriverDone :
       /\ [v EXCEPT !.driver = d] \in Rows /\ [v EXCEPT !.driver = d].driver = d
       /\ [v EXCEPT !.driver = d].status = v.status /\ [v EXCEPT !.driver = d].cursor = v.cursor
  BY DEF Rows

\* A row that failed, and one that was cancelled.
LEMMA EndedTypes ==
  \A v \in Rows :
    /\ [v EXCEPT !.status = "failed", !.driver = "failed"] \in Rows
    /\ [v EXCEPT !.status = "failed", !.driver = "failed"].status = "failed"
    /\ [v EXCEPT !.status = "failed", !.driver = "failed"].driver = "failed"
    /\ [v EXCEPT !.status = "failed", !.driver = "failed"].cursor = v.cursor
    /\ Cancelled(v) \in Rows /\ Cancelled(v).status = "cancelled" /\ Cancelled(v).driver = "cancelled"
    /\ Cancelled(v).cursor = v.cursor
  BY DEF Rows, Cancelled, TERMINAL_SCENARIO_RUN_STATUSES, DriverDone

LEMMA JobTypes ==
  /\ \A st \in JobStatus, n \in 0..MaxAttempts :
       /\ Released(st, n) \in JobRows /\ Released(st, n).status = st
       /\ Released(st, n).owner = None /\ Released(st, n).attempt = n
  /\ \A j \in JobRows : CancelJob(j) \in JobRows
  /\ 0 \in 0..MaxAttempts /\ NoJob \in JobRows
  /\ \A s \in Slots, n \in 0..MaxAttempts :
       n < MaxAttempts => [status |-> "running", owner |-> s, attempt |-> n + 1] \in JobRows
  BY AttemptsAssumption DEF Released, JobRows, CancelJob, NoJob, JobStatus, Claimable

LEMMA TypeParts ==
  TypeOK <=> /\ start \in {"new", "created", "linked", "died"}
             /\ row \in Rows /\ runStatus \in RunStatuses /\ inputs \in Seq(Events)
             /\ evals \in [Expectations -> Verdicts \cup {"none"}]
             /\ jobs \in [JobKinds -> JobRows] /\ clock \in 0..Horizon
             /\ slot \in [Slots -> Attempts] /\ request \in [Requests -> Calls]
  BY DEF TypeOK, RunStatuses, JobRows, Attempts, Calls, SlotPcs

\* The same of the next state.
LEMMA TypeNext ==
  ASSUME start' \in {"new", "created", "linked", "died"}, row' \in Rows, runStatus' \in RunStatuses,
         inputs' \in Seq(Events), evals' \in [Expectations -> Verdicts \cup {"none"}],
         jobs' \in [JobKinds -> JobRows], clock' \in 0..Horizon,
         slot' \in [Slots -> Attempts], request' \in [Requests -> Calls]
  PROVE  TypeOK'
  BY DEF TypeOK, RunStatuses, JobRows, Attempts, Calls, SlotPcs

\* An attempt that ended without a result leaves a job that does not run, and
\* makes no pass.
LEMMA GiveUpFacts ==
  ASSUME TypeOK, NEW j \in JobKinds, GiveUpAttempt(j)
  PROVE  /\ jobs' \in [JobKinds -> JobRows] /\ row' \in Rows
         /\ jobs'[j].status \in {"retryable_failed", "failed"}
         /\ \A k \in JobKinds \ {j} : jobs'[k] = jobs[k]
         /\ row'.cursor = row.cursor
         /\ row'.status = "passed" => row.status = "passed"
         /\ row'.driver = "completed" => row.driver = "completed"
<1>0. /\ row \in Rows /\ jobs \in [JobKinds -> JobRows]
      /\ jobs[j].attempt \in 0..MaxAttempts
  BY TypeParts DEF JobRows
<1> DEFINE n == jobs[j].attempt
           a == Released("retryable_failed", n)
           b == Released("failed", n)
<1>1. a \in JobRows /\ a.status = "retryable_failed" /\ b \in JobRows /\ b.status = "failed"
  BY <1>0, JobTypes DEF JobStatus, Claimable
<1>2. \/ jobs' = [jobs EXCEPT ![j] = a] /\ row' = row
      \/ /\ jobs' = [jobs EXCEPT ![j] = b]
         /\ \/ row' = finalize_exhausted_timeline_driver_job(row)
            \/ row' = finalize_exhausted_scenario_finalizer_job(row)
  BY DEF GiveUpAttempt
<1> HIDE DEF a, b
<1>3. jobs' \in [JobKinds -> JobRows] /\ jobs'[j].status \in {"retryable_failed", "failed"}
      /\ \A k \in JobKinds \ {j} : jobs'[k] = jobs[k]
  BY <1>0, <1>1, <1>2
<1>4. \/ row' = row
      \/ row' = [row EXCEPT !.status = "failed", !.driver = "failed"]
      \/ row' = [row EXCEPT !.status = "failed"]
  BY <1>2 DEF finalize_exhausted_timeline_driver_job, finalize_exhausted_scenario_finalizer_job
<1>5. "failed" \in TERMINAL_SCENARIO_RUN_STATUSES
  BY DEF TERMINAL_SCENARIO_RUN_STATUSES
<1>6. /\ [row EXCEPT !.status = "failed"] \in Rows /\ [row EXCEPT !.status = "failed"].status = "failed"
      /\ [row EXCEPT !.status = "failed"].driver = row.driver
      /\ [row EXCEPT !.status = "failed"].cursor = row.cursor
  BY <1>0, <1>5, StatusTypes
<1>7. CASE row' = row
  BY <1>0, <1>3, <1>7
<1>8. CASE row' = [row EXCEPT !.status = "failed", !.driver = "failed"]
  BY <1>0, <1>3, <1>8, EndedTypes
<1>9. CASE row' = [row EXCEPT !.status = "failed"]
  BY <1>3, <1>6, <1>9
<1> QED BY <1>4, <1>7, <1>8, <1>9

(***************************************************************************)
(* Steps that give the run no input.                                       *)
(***************************************************************************)

\* The slot goes on with its attempt, and does not get hold of a job by it.
Stays(s) == slot'[s] = slot[s] /\ (InDriver(s) /\ Owns(s)' => Owns(s))

\* The slot is idle or in an attempt that is not driving.
Fresh(s) ==
  /\ slot'[s].pc \notin {"driving", "closing"}
  /\ slot'[s].pc = "judging" => slot'[s].job = "finalizer" /\ slot'[s].expectation \in Expectations
  /\ Honest(slot'[s].base, slot'[s].now)

LEMMA QuietStep ==
  ASSUME VInv, TypeOK', inputs' = inputs, row'.cursor = row.cursor,
         row'.driver = "completed" => AllSent,
         row'.status = "passed" => Earned',
         jobs'["finalizer"].status # "absent" => AllSent,
         \A s \in Slots : Stays(s) \/ Fresh(s),
         \A q \in Requests : RequestFits(q)'
  PROVE  VInv'
<1>1. InputsInOrder'
  BY DEF VInv, InputsInOrder
<1>2. ASSUME NEW s \in Slots
      PROVE  SlotFits(s)'
  <2>1. SlotFits(s)
    BY DEF VInv
  <2>2. CASE Stays(s)
    BY <2>1, <2>2 DEF Stays, SlotFits, InDriver, Honest, AllSent
  <2>3. CASE Fresh(s)
    BY <2>3 DEF Fresh, SlotFits, InDriver, Honest, AllSent
  <2> QED BY <2>2, <2>3
<1>3. CompletedIsSent'
  BY DEF CompletedIsSent, AllSent
<1> QED BY <1>1, <1>2, <1>3 DEF VInv

\* An idle attempt has nothing to answer for.
LEMMA IdleFresh ==
  ASSUME NEW s \in Slots, NEW p \in {"idle", "claimed"}, NEW j \in JobKinds,
         slot'[s] = [NoAttempt EXCEPT !.pc = p, !.job = j]
  PROVE  Fresh(s)
<1>1. slot'[s].pc = p /\ slot'[s].base = NewRow /\ slot'[s].now = NewRow
  BY DEF NoAttempt
<1> QED BY <1>1, RowFields DEF Fresh, Honest

LEMMA LeftFresh ==
  ASSUME NEW s \in Slots, slot'[s] = NoAttempt
  PROVE  Fresh(s)
<1>1. slot'[s].pc = "idle" /\ slot'[s].base = NewRow /\ slot'[s].now = NewRow
  BY DEF NoAttempt
<1> QED BY <1>1, RowFields DEF Fresh, Honest

\* What is so while nobody touches a request, the run and its judgements.
LEMMA CallStays ==
  ASSUME VInv, NEW q \in Requests, request'[q] = request[q], inputs' = inputs
  PROVE  RequestFits(q)'
<1>1. RequestFits(q)
  BY DEF VInv
<1> QED BY <1>1 DEF RequestFits, Honest, AllSent

LEMMA EarnedStays ==
  ASSUME VInv, row.status = "passed", inputs' = inputs, evals' = evals,
         runStatus' = runStatus \/ runStatus \notin TERMINAL_RUNTIME_STATUSES
  PROVE  Earned'
<1>1. Earned
  BY DEF VInv
<1> QED BY <1>1 DEF Earned, AllSent, TERMINAL_RUNTIME_STATUSES

\* A commit of a session that is honest makes no pass and no completion of its
\* own.
LEMMA HonestFlush ==
  ASSUME VInv, NEW v \in Rows, NEW w \in Rows, Honest(v, w)
  PROVE  /\ Flush(v, w) \in Rows
         /\ Flush(v, w).status = "passed" => row.status = "passed"
         /\ Flush(v, w).driver = "completed" => AllSent
         /\ v.cursor = w.cursor => Flush(v, w).cursor = row.cursor
<1>1. row \in Rows /\ (row.driver = "completed" => AllSent)
  BY TypeParts DEF VInv, CompletedIsSent
<1> QED BY <1>1, FlushFacts DEF Honest

\* The environment and start_run.
LEMMA OutsideStep ==
  ASSUME VInv,
         \/ StartCreates \/ StartLinks \/ StartDies \/ Tick
         \/ \E r \in RunStatuses : RunAdvances(r)
         \/ UNCHANGED vars
  PROVE  VInv'
<1>0. TypeOK /\ row \in Rows /\ jobs \in [JobKinds -> JobRows] /\ runStatus \in RunStatuses
  BY TypeParts DEF VInv
<1>1. inputs' = inputs /\ evals' = evals /\ slot' = slot /\ request' = request
  BY DEF StartCreates, StartLinks, StartDies, Tick, RunAdvances, vars
<1>2. CASE StartLinks
  <2> DEFINE w == _sync_scenario_run_from_runtime(NewRow, runStatus)
             j == Released("pending", 0)
  <2>1. w \in Rows /\ w.cursor = NewRow.cursor /\ w.status # "passed" /\ w.driver # "completed"
        /\ NewRow \in Rows /\ NewRow.driver # "completed"
    BY <1>0, SyncFacts, RowFields
  <2>2. j \in JobRows /\ j.status = "pending"
    BY JobTypes DEF JobStatus, Claimable
  <2>3. /\ row' = Flush(NewRow, w) /\ jobs' = [jobs EXCEPT !["driver"] = j] /\ start' = "linked"
        /\ runStatus' = runStatus /\ clock' = clock
    BY <1>2 DEF StartLinks, _ensure_driver_job_pending
  <2> HIDE DEF w, j
  <2>4. Honest(NewRow, w)
    BY <2>1 DEF Honest
  <2>5. row' \in Rows /\ row'.cursor = row.cursor /\ (row'.status = "passed" => row.status = "passed")
        /\ (row'.driver = "completed" => AllSent)
    BY <2>1, <2>3, <2>4, HonestFlush
  <2>6. jobs' \in [JobKinds -> JobRows] /\ jobs'["driver"].status # "running"
        /\ jobs'["finalizer"] = jobs["finalizer"]
    BY <1>0, <2>2, <2>3 DEF JobKinds
  <2>7. TypeOK'
    BY <1>0, <1>1, <2>3, <2>5, <2>6, TypeParts, TypeNext
  <2>8. row'.status = "passed" => Earned'
    BY <1>1, <2>3, <2>5, EarnedStays
  <2>9. jobs'["finalizer"].status # "absent" => AllSent
    BY <2>6 DEF VInv, CompletedIsSent
  <2>10. \A s \in Slots : Stays(s)
    BY <1>0, <1>1, <2>6 DEF Stays, Owns, JobKinds, VInv, SlotFits
  <2>11. \A q \in Requests : RequestFits(q)'
    BY <1>1, CallStays
  <2> QED BY <1>1, <2>5, <2>7, <2>8, <2>9, <2>10, <2>11, QuietStep
<1>3. CASE StartCreates \/ StartDies \/ Tick \/ (\E r \in RunStatuses : RunAdvances(r)) \/ UNCHANGED vars
  <2>1. row' = row /\ jobs' = jobs /\ start' \in {"new", "created", "linked", "died"}
    BY <1>0, <1>3, TypeParts DEF StartCreates, StartDies, Tick, RunAdvances, vars
  <2>2. runStatus' \in RunStatuses /\ (runStatus' = runStatus \/ runStatus \notin TERMINAL_RUNTIME_STATUSES)
    BY <1>0, <1>3, TypeParts DEF StartCreates, StartDies, Tick, RunAdvances, vars
  <2>3. clock' \in 0..Horizon
    BY <1>0, <1>3, TypeParts, HorizonFacts DEF StartCreates, StartDies, Tick, RunAdvances, vars
  <2>4. TypeOK'
    BY <1>0, <1>1, <2>1, <2>2, <2>3, TypeParts, TypeNext
  <2>5. row'.status = "passed" => Earned'
    BY <1>1, <2>1, <2>2, EarnedStays
  <2>6. (jobs'["finalizer"].status # "absent" => AllSent) /\ (row'.driver = "completed" => AllSent)
    BY <2>1 DEF VInv, CompletedIsSent
  <2>7. \A s \in Slots : Stays(s)
    BY <1>1, <2>1 DEF Stays, Owns
  <2>8. \A q \in Requests : RequestFits(q)'
    BY <1>1, CallStays
  <2>9. row'.cursor = row.cursor
    BY <2>1
  <2> QED BY <1>1, <2>4, <2>5, <2>6, <2>7, <2>8, <2>9, QuietStep
<1> QED BY <1>2, <1>3

\* The queue: a claim, a lease that ran out, a failure on record, a death.
LEMMA QueueStep ==
  ASSUME VInv,
         \/ \E j \in JobKinds : recover_expired_lease(j)
         \/ \E s \in Slots : _record_unhandled_failure(s) \/ Crash(s) \/ \E j \in JobKinds : claim_next_job(s, j)
  PROVE  VInv'
<1>0. /\ TypeOK /\ row \in Rows /\ jobs \in [JobKinds -> JobRows] /\ slot \in [Slots -> Attempts]
      /\ \A s \in Slots : slot[s].job \in JobKinds
  BY TypeParts DEF VInv, Attempts
<1>1. inputs' = inputs /\ evals' = evals /\ runStatus' = runStatus /\ request' = request
      /\ start' = start /\ clock' = clock
  BY DEF recover_expired_lease, _record_unhandled_failure, Crash, claim_next_job
<1>2. \A q \in Requests : RequestFits(q)'
  BY <1>1, CallStays
<1>3. row.status = "passed" => Earned'
  BY <1>1, EarnedStays
<1>4. (row.driver = "completed" => AllSent) /\ (jobs["finalizer"].status # "absent" => AllSent)
  BY DEF VInv, CompletedIsSent
<1>5. \A s \in Slots : InDriver(s) => slot[s].job = "driver"
  BY DEF VInv, SlotFits
<1>6. ASSUME NEW j \in JobKinds, jobs[j].status = "running", GiveUpAttempt(j), slot' \in [Slots -> Attempts],
             \A s \in Slots : slot'[s] = slot[s] \/ slot'[s] = NoAttempt
      PROVE  VInv'
  <2>1. /\ jobs' \in [JobKinds -> JobRows] /\ row' \in Rows
        /\ jobs'[j].status \in {"retryable_failed", "failed"}
        /\ \A k \in JobKinds \ {j} : jobs'[k] = jobs[k]
        /\ row'.cursor = row.cursor
        /\ row'.status = "passed" => row.status = "passed"
        /\ row'.driver = "completed" => row.driver = "completed"
    BY <1>0, <1>6, GiveUpFacts
  <2>2. TypeOK'
    BY <1>0, <1>1, <1>6, <2>1, TypeParts, TypeNext
  <2>3. jobs'["finalizer"].status # "absent" => AllSent
    <3>1. "finalizer" \in JobKinds
      BY DEF JobKinds
    <3>2. CASE j = "finalizer"
      BY <1>4, <1>6, <3>2
    <3> QED BY <1>4, <2>1, <3>1, <3>2
  <2>4. ASSUME NEW s \in Slots
        PROVE  Stays(s) \/ Fresh(s)
    <3>1. CASE slot'[s] = NoAttempt
      BY <3>1, LeftFresh
    <3>2. CASE slot'[s] = slot[s]
      <4>1. Owns(s)' => jobs'[slot[s].job].status = "running" /\ jobs'[slot[s].job].owner = s
        BY <3>2 DEF Owns
      <4>2. Owns(s)' => slot[s].job # j
        BY <2>1, <4>1
      <4>3. Owns(s)' => jobs'[slot[s].job] = jobs[slot[s].job]
        BY <1>0, <2>1, <4>2
      <4> QED BY <3>2, <4>1, <4>3 DEF Stays, Owns
    <3> QED BY <1>6, <3>1, <3>2
  <2> QED BY <1>1, <1>2, <1>3, <1>4, <2>1, <2>2, <2>3, <2>4, QuietStep
<1>7. ASSUME row' = row, jobs' = jobs, slot' \in [Slots -> Attempts],
             \A s \in Slots : slot'[s] = slot[s] \/ slot'[s] = NoAttempt
      PROVE  VInv'
  <2>1. TypeOK'
    BY <1>0, <1>1, <1>7, TypeParts, TypeNext
  <2>2. ASSUME NEW s \in Slots
        PROVE  Stays(s) \/ Fresh(s)
    <3>1. CASE slot'[s] = NoAttempt
      BY <3>1, LeftFresh
    <3>2. CASE slot'[s] = slot[s]
      BY <1>7, <3>2 DEF Stays, Owns
    <3> QED BY <1>7, <3>1, <3>2
  <2>3. row'.cursor = row.cursor
    BY <1>7
  <2> QED BY <1>1, <1>2, <1>3, <1>4, <1>7, <2>1, <2>2, <2>3, QuietStep
<1>8. ASSUME NEW s \in Slots, slot' = [slot EXCEPT ![s] = NoAttempt]
      PROVE  slot' \in [Slots -> Attempts] /\ \A t \in Slots : slot'[t] = slot[t] \/ slot'[t] = NoAttempt
  BY <1>0, <1>8, AttemptTypes
<1>9. CASE \E j \in JobKinds : recover_expired_lease(j)
  <2>1. PICK j \in JobKinds : recover_expired_lease(j)
    BY <1>9
  <2>2. jobs[j].status = "running" /\ GiveUpAttempt(j) /\ slot' = slot
    BY <2>1 DEF recover_expired_lease
  <2> QED BY <1>0, <1>6, <2>2
<1>10. CASE \E s \in Slots : _record_unhandled_failure(s) \/ Crash(s)
  <2>1. PICK s \in Slots : _record_unhandled_failure(s) \/ Crash(s)
    BY <1>10
  <2>2. /\ slot' = [slot EXCEPT ![s] = NoAttempt]
        /\ (Owns(s) /\ GiveUpAttempt(slot[s].job)) \/ (jobs' = jobs /\ row' = row)
    BY <2>1 DEF _record_unhandled_failure, Crash
  <2>3. slot' \in [Slots -> Attempts] /\ \A t \in Slots : slot'[t] = slot[t] \/ slot'[t] = NoAttempt
    BY <1>8, <2>2
  <2>4. CASE Owns(s) /\ GiveUpAttempt(slot[s].job)
    BY <1>0, <1>6, <2>3, <2>4 DEF Owns
  <2>5. CASE jobs' = jobs /\ row' = row
    BY <1>7, <2>3, <2>5
  <2> QED BY <2>2, <2>4, <2>5
<1>11. CASE \E s \in Slots, j \in JobKinds : claim_next_job(s, j)
  <2>1. PICK s \in Slots, j \in JobKinds : claim_next_job(s, j)
    BY <1>11
  <2> DEFINE c == [NoAttempt EXCEPT !.pc = "claimed", !.job = j]
             n == jobs[j].attempt
             r == [status |-> "running", owner |-> s, attempt |-> n + 1]
  <2>2. c \in Attempts
    <3>1. [NoAttempt EXCEPT !.pc = "claimed"] \in Attempts
      BY AttemptTypes DEF SlotPcs
    <3> QED BY <3>1, AttemptTypes
  <2>3. n \in 0..MaxAttempts /\ jobs[j].status \in Claimable /\ n < MaxAttempts
    BY <1>0, <2>1 DEF claim_next_job, JobRows
  <2>4. r \in JobRows /\ r.status = "running" /\ r.owner = s
    BY <2>3, JobTypes
  <2>5. jobs' = [jobs EXCEPT ![j] = r] /\ slot' = [slot EXCEPT ![s] = c] /\ row' = row
    BY <2>1 DEF claim_next_job
  <2>6. slot'[s] = c
    BY <1>0, <2>5
  <2>7. Fresh(s)
    BY <2>6, IdleFresh
  <2> HIDE DEF c, r
  <2>8. TypeOK'
    BY <1>0, <1>1, <2>2, <2>4, <2>5, TypeParts, TypeNext
  <2>9. jobs'["finalizer"].status # "absent" => AllSent
    BY <1>0, <1>4, <2>3, <2>5 DEF Claimable
  <2>10. ASSUME NEW t \in Slots, t # s
         PROVE  Stays(t)
    <3>1. slot'[t] = slot[t] /\ slot[t].job \in JobKinds
      BY <1>0, <2>5, <2>10
    <3>2. slot[t].job # j => jobs'[slot[t].job] = jobs[slot[t].job]
      BY <1>0, <2>5, <3>1
    <3>3. jobs'[j].owner = s
      BY <1>0, <2>4, <2>5
    <3> QED BY <2>10, <3>1, <3>2, <3>3 DEF Stays, Owns
  <2>11. row'.cursor = row.cursor
    BY <2>5
  <2> QED BY <1>1, <1>2, <1>3, <1>4, <2>5, <2>7, <2>8, <2>9, <2>10, <2>11, QuietStep
<1> QED BY <1>9, <1>10, <1>11

(***************************************************************************)
(* The finalizer.                                                          *)
(***************************************************************************)

LEMMA ReleasedFinalizer ==
  ASSUME TypeOK
  PROVE  /\ \A v \in Rows : /\ _finish_finalizer_job(v) \in JobRows
                            /\ _finish_finalizer_job(v).status # "running"
         /\ _reschedule_finalizer_job \in JobRows /\ _reschedule_finalizer_job.status # "running"
<1>1. jobs["finalizer"].attempt \in 0..MaxAttempts
  BY TypeParts DEF JobKinds, JobRows
<1> QED BY <1>1, JobTypes DEF _finish_finalizer_job, _reschedule_finalizer_job, JobStatus, Claimable

\* A verdict "passed" is earned: every expectation is judged as passed, the run
\* succeeded, and a finalizer exists only when all inputs are sent.
LEMMA VerdictFacts ==
  ASSUME NEW v \in Rows, NEW ev
  PROVE  LET w == _finalize_scenario_run(v, ev) IN
         /\ w \in Rows /\ w.cursor = v.cursor /\ w.driver = v.driver
         /\ w.status = "passed" => runStatus = "succeeded" /\ \A e \in Expectations : ev[e] = "passed"
<1> DEFINE ok == runStatus = "succeeded" /\ \A e \in Expectations : ev[e] = "passed"
           st == IF ok THEN "passed" ELSE "failed"
<1>1. st \in TERMINAL_SCENARIO_RUN_STATUSES /\ (st = "passed" => ok)
  BY DEF TERMINAL_SCENARIO_RUN_STATUSES
<1>2. _finalize_scenario_run(v, ev) = [v EXCEPT !.status = st]
  BY DEF _finalize_scenario_run
<1> HIDE DEF st, ok
<1>3. [v EXCEPT !.status = st] \in Rows /\ [v EXCEPT !.status = st].status = st
      /\ [v EXCEPT !.status = st].driver = v.driver /\ [v EXCEPT !.status = st].cursor = v.cursor
  BY <1>1, StatusTypes
<1> QED BY <1>1, <1>2, <1>3 DEF ok

\* A step of a finalizer that lets go of the job or keeps it as it is.
LEMMA FinalizerRest ==
  ASSUME VInv, AllSent, NEW s \in Slots, NEW c \in Attempts, Fresh(s), slot' = [slot EXCEPT ![s] = c],
         start' = start, clock' = clock, inputs' = inputs, runStatus' = runStatus, request' = request,
         evals' \in [Expectations -> Verdicts \cup {"none"}], row' \in Rows, row'.cursor = row.cursor,
         row'.status = "passed" => Earned',
         jobs' \in [JobKinds -> JobRows], jobs'["driver"] = jobs["driver"],
         jobs' = jobs \/ jobs'["finalizer"].status # "running"
  PROVE  VInv'
<1>0. /\ TypeOK /\ jobs \in [JobKinds -> JobRows] /\ slot \in [Slots -> Attempts]
      /\ \A t \in Slots : slot[t].job \in JobKinds
  BY TypeParts DEF VInv, Attempts
<1>1. slot' \in [Slots -> Attempts]
  BY <1>0
<1>2. TypeOK'
  BY <1>0, <1>1, TypeParts, TypeNext
<1>3. ASSUME NEW t \in Slots, t # s
      PROVE  Stays(t)
  BY <1>0, <1>3 DEF Stays, Owns, JobKinds
<1>4. \A q \in Requests : RequestFits(q)'
  BY CallStays
<1> QED BY <1>2, <1>3, <1>4, QuietStep

\* What a conclusion makes of row and job.
LEMMA ConcludesFacts ==
  ASSUME VInv, AllSent, NEW ev, FinalizerConcludes(ev), evals' = ev, runStatus' = runStatus, inputs' = inputs,
         row.status \notin TERMINAL_SCENARIO_RUN_STATUSES
  PROVE  /\ row' \in Rows /\ row'.cursor = row.cursor
         /\ row'.status = "passed" => Earned'
         /\ jobs' \in [JobKinds -> JobRows] /\ jobs'["driver"] = jobs["driver"]
         /\ jobs'["finalizer"].status # "running"
<1>0. TypeOK /\ row \in Rows /\ jobs \in [JobKinds -> JobRows] /\ row.status # "passed"
  BY TypeParts DEF VInv, TERMINAL_SCENARIO_RUN_STATUSES
<1> DEFINE w == _finalize_scenario_run(row, ev)
           f == _finish_finalizer_job(w)
           g == _reschedule_finalizer_job
<1>1. /\ w \in Rows /\ w.cursor = row.cursor /\ w.driver = row.driver
      /\ w.status = "passed" => runStatus = "succeeded" /\ \A e \in Expectations : ev[e] = "passed"
  BY <1>0, VerdictFacts
<1>2. f \in JobRows /\ f.status # "running" /\ g \in JobRows /\ g.status # "running"
  <2> HIDE DEF w
  <2> QED BY <1>0, <1>1, ReleasedFinalizer
<1>3. \/ row' = w /\ jobs' = [jobs EXCEPT !["finalizer"] = f]
      \/ row' = row /\ jobs' = [jobs EXCEPT !["finalizer"] = g]
  BY DEF FinalizerConcludes
<1> HIDE DEF w, f, g
<1>4. /\ jobs' \in [JobKinds -> JobRows] /\ jobs'["driver"] = jobs["driver"]
      /\ jobs'["finalizer"].status # "running"
  BY <1>0, <1>2, <1>3 DEF JobKinds
<1>5. row' \in Rows /\ row'.cursor = row.cursor /\ (row'.status = "passed" => Earned')
  BY <1>0, <1>1, <1>3 DEF Earned, AllSent
<1> QED BY <1>4, <1>5

LEMMA FinalizerStep ==
  ASSUME VInv, NEW s \in Slots, Finalize(s)
  PROVE  VInv'
<1>0. /\ TypeOK /\ row \in Rows /\ jobs \in [JobKinds -> JobRows] /\ slot \in [Slots -> Attempts]
      /\ evals \in [Expectations -> Verdicts \cup {"none"}] /\ SlotFits(s)
  BY TypeParts DEF VInv
<1>1. /\ inputs' = inputs /\ runStatus' = runStatus /\ request' = request
      /\ start' = start /\ clock' = clock
  BY DEF Finalize, FinalizerLoads, JudgeAnswers, JudgementDropped
<1>2. NoAttempt \in Attempts
  BY AttemptTypes
<1>3. slot[s].job = "finalizer" /\ Owns(s) => AllSent
  BY DEF VInv, CompletedIsSent, Owns
<1>4. slot' = [slot EXCEPT ![s] = NoAttempt] => Fresh(s)
  <2>1. slot' = [slot EXCEPT ![s] = NoAttempt] => slot'[s] = NoAttempt
    BY <1>0
  <2> QED BY <2>1, LeftFresh
<1>5. row.status = "passed" /\ evals' = evals => Earned'
  BY <1>1, EarnedStays
<1>6. ASSUME NEW v \in Rows, jobs' = [jobs EXCEPT !["finalizer"] = _finish_finalizer_job(v)]
      PROVE  /\ jobs' \in [JobKinds -> JobRows] /\ jobs'["driver"] = jobs["driver"]
             /\ jobs'["finalizer"].status # "running"
  <2> DEFINE f == _finish_finalizer_job(v)
  <2>1. f \in JobRows /\ f.status # "running"
    BY <1>0, ReleasedFinalizer
  <2>2. jobs' = [jobs EXCEPT !["finalizer"] = f]
    BY <1>6
  <2> HIDE DEF f
  <2> QED BY <1>0, <2>1, <2>2 DEF JobKinds
<1>7. CASE FinalizerLoads(s)
  <2>0. AllSent /\ evals' = evals
    BY <1>3, <1>7 DEF FinalizerLoads
  <2>1. CASE /\ row.status \in TERMINAL_SCENARIO_RUN_STATUSES
             /\ jobs' = [jobs EXCEPT !["finalizer"] = _finish_finalizer_job(row)]
             /\ slot' = [slot EXCEPT ![s] = NoAttempt]
             /\ row' = row
    <3>1. jobs' \in [JobKinds -> JobRows] /\ jobs'["driver"] = jobs["driver"]
          /\ jobs'["finalizer"].status # "running"
      BY <1>0, <1>6, <2>1
    <3>2. row' \in Rows /\ row'.cursor = row.cursor
      BY <1>0, <2>1
    <3> QED BY <1>0, <1>1, <1>2, <1>4, <1>5, <2>0, <2>1, <3>1, <3>2, FinalizerRest
  <2>2. CASE /\ row' = [row EXCEPT !.status = "cancelled"]
             /\ jobs' = [jobs EXCEPT !["finalizer"] = _finish_finalizer_job(row')]
             /\ slot' = [slot EXCEPT ![s] = NoAttempt]
    <3>1. row' \in Rows /\ row'.cursor = row.cursor /\ row'.status # "passed"
      BY <1>0, <2>2 DEF Rows, TERMINAL_SCENARIO_RUN_STATUSES
    <3>2. jobs' \in [JobKinds -> JobRows] /\ jobs'["driver"] = jobs["driver"]
          /\ jobs'["finalizer"].status # "running"
      BY <1>6, <2>2, <3>1
    <3> QED BY <1>0, <1>1, <1>2, <1>4, <2>0, <2>2, <3>1, <3>2, FinalizerRest
  <2>3. CASE /\ row.status \notin TERMINAL_SCENARIO_RUN_STATUSES
             /\ FinalizerConcludes(evals)
             /\ slot' = [slot EXCEPT ![s] = NoAttempt]
    <3>1. /\ row' \in Rows /\ row'.cursor = row.cursor
          /\ row'.status = "passed" => Earned'
          /\ jobs' \in [JobKinds -> JobRows] /\ jobs'["driver"] = jobs["driver"]
          /\ jobs'["finalizer"].status # "running"
      BY <1>1, <2>0, <2>3, ConcludesFacts
    <3> QED BY <1>0, <1>1, <1>2, <1>4, <2>0, <2>3, <3>1, FinalizerRest
  <2>4. CASE /\ \E e \in Eligible : slot' = [slot EXCEPT ![s].pc = "judging", ![s].expectation = e]
             /\ row' = row /\ jobs' = jobs
    <3>1. PICK e \in Eligible : slot' = [slot EXCEPT ![s].pc = "judging", ![s].expectation = e]
      BY <2>4
    <3>2. e \in Expectations
      BY DEF Eligible, Missing
    <3> DEFINE p == [slot[s] EXCEPT !.pc = "judging"]
               c == [p EXCEPT !.expectation = e]
    <3>3. p \in Attempts /\ c \in Attempts
      <4>1. slot[s] \in Attempts /\ "judging" \in SlotPcs
        BY <1>0 DEF SlotPcs
      <4>2. p \in Attempts
        BY <4>1, AttemptTypes
      <4> HIDE DEF p
      <4>3. c \in Attempts
        BY <3>2, <4>2, AttemptTypes
      <4> QED BY <4>2, <4>3
    <3>4. slot' = [slot EXCEPT ![s] = c] /\ slot'[s] = c
      BY <1>0, <3>1
    <3>5. /\ c.pc = "judging" /\ c.job = slot[s].job /\ c.expectation = e
          /\ c.base = slot[s].base /\ c.now = slot[s].now
      BY <1>0 DEF Attempts
    <3>6. slot[s].job = "finalizer" /\ Honest(slot[s].base, slot[s].now)
      BY <1>0, <1>7 DEF FinalizerLoads, SlotFits
    <3> HIDE DEF c, p
    <3>7. Fresh(s)
      BY <3>2, <3>4, <3>5, <3>6 DEF Fresh
    <3>8. row' \in Rows /\ row'.cursor = row.cursor /\ jobs' \in [JobKinds -> JobRows]
          /\ jobs'["driver"] = jobs["driver"]
      BY <1>0, <2>4
    <3> QED BY <1>0, <1>1, <1>5, <2>0, <2>4, <3>3, <3>4, <3>7, <3>8, FinalizerRest
  <2> QED BY <1>7, <2>1, <2>2, <2>3, <2>4 DEF FinalizerLoads
<1>8. CASE \E v \in Verdicts : JudgeAnswers(s, v)
  <2>1. PICK v \in Verdicts : JudgeAnswers(s, v)
    BY <1>8
  <2> DEFINE e == slot[s].expectation
             ev == [evals EXCEPT ![e] = IF @ = "none" THEN v ELSE @]
  <2>2. slot' = [slot EXCEPT ![s] = NoAttempt] /\ AllSent
    BY <1>0, <1>3, <2>1 DEF JudgeAnswers, SlotFits
  <2>3. ev \in [Expectations -> Verdicts \cup {"none"}]
    BY <1>0
  <2>4. CASE /\ jobs' = [jobs EXCEPT !["finalizer"] = _finish_finalizer_job(row)]
             /\ row' = row /\ evals' = evals
    <3>1. jobs' \in [JobKinds -> JobRows] /\ jobs'["driver"] = jobs["driver"]
          /\ jobs'["finalizer"].status # "running"
      BY <1>0, <1>6, <2>4
    <3>2. row' \in Rows /\ row'.cursor = row.cursor
      BY <1>0, <2>4
    <3> QED BY <1>0, <1>1, <1>2, <1>4, <1>5, <2>2, <2>4, <3>1, <3>2, FinalizerRest
  <2>5. CASE row.status \notin TERMINAL_SCENARIO_RUN_STATUSES /\ evals' = ev /\ FinalizerConcludes(ev)
    <3>1. /\ row' \in Rows /\ row'.cursor = row.cursor
          /\ row'.status = "passed" => Earned'
          /\ jobs' \in [JobKinds -> JobRows] /\ jobs'["driver"] = jobs["driver"]
          /\ jobs'["finalizer"].status # "running"
      <4> HIDE DEF ev
      <4> QED BY <1>1, <2>2, <2>5, ConcludesFacts
    <3> QED BY <1>0, <1>1, <1>2, <1>4, <2>2, <2>3, <2>5, <3>1, FinalizerRest
  <2> QED BY <2>1, <2>4, <2>5 DEF JudgeAnswers
<1>9. CASE JudgementDropped(s)
  <2>1. slot' = [slot EXCEPT ![s] = NoAttempt] /\ UNCHANGED <<start, row, runStatus, inputs, evals, jobs, clock, request>>
    BY <1>9 DEF JudgementDropped
  <2>2. slot' \in [Slots -> Attempts] /\ \A t \in Slots \ {s} : slot'[t] = slot[t]
    BY <1>0, <1>2, <2>1
  <2>3. TypeOK'
    BY <1>0, <2>1, <2>2, TypeParts, TypeNext
  <2>4. \A t \in Slots : Stays(t) \/ Fresh(t)
    BY <1>4, <2>1, <2>2 DEF Stays, Owns
  <2>5. \A q \in Requests : RequestFits(q)'
    BY <1>1, CallStays
  <2>6. row'.cursor = row.cursor
    BY <2>1
  <2> QED BY <1>1, <1>5, <2>1, <2>3, <2>4, <2>5, <2>6, QuietStep DEF VInv, CompletedIsSent
<1> QED BY <1>7, <1>8, <1>9 DEF Finalize

(***************************************************************************)
(* API requests.                                                           *)
(***************************************************************************)

\* Sessions that follow the run or cancel are honest.
LEMMA HonestSync ==
  ASSUME VInv
  PROVE  Synced(row) \in Rows /\ Synced(row).cursor = row.cursor /\ Honest(row, Synced(row))
<1>1. row \in Rows /\ runStatus \in RunStatuses /\ (row.driver = "completed" => AllSent)
  BY TypeParts DEF VInv, CompletedIsSent
<1> DEFINE w == _sync_scenario_run_from_runtime(row, runStatus)
<1>2. /\ w \in Rows /\ w.cursor = row.cursor
      /\ w.status = "passed" => row.status = "passed"
      /\ w.driver = "completed" => row.driver = "completed"
  BY <1>1, SyncFacts
<1>3. Synced(row) = w \/ Synced(row) = row
  BY DEF Synced
<1> HIDE DEF w
<1> QED BY <1>1, <1>2, <1>3 DEF Honest

LEMMA HonestCancelled ==
  ASSUME NEW v \in Rows, NEW w \in Rows, Honest(v, w), v.cursor = w.cursor
  PROVE  /\ Cancelled(w) \in Rows /\ Cancelled(w).cursor = w.cursor
         /\ Honest(v, Cancelled(w)) /\ Honest(w, Cancelled(w))
  BY EndedTypes DEF Honest

LEMMA CallTypes ==
  ASSUME NEW p \in {"absent", "idle", "reading", "cancelling", "cancelled", "answered"},
         NEW v \in Rows, NEW w \in Rows
  PROVE  /\ [pc |-> p, base |-> v, now |-> w] \in Calls
         /\ [pc |-> p, base |-> v, now |-> w].base = v /\ [pc |-> p, base |-> v, now |-> w].now = w
  BY DEF Calls

LEMMA CallEnds ==
  \A c \in Calls : \A n :
    [c EXCEPT !.pc = "cancelled", !.now = n] = [pc |-> "cancelled", base |-> c.base, now |-> n]
<1> TAKE c \in Calls
<1> TAKE n
<1>1. PICK p, v, w : c = [pc |-> p, base |-> v, now |-> w]
  BY DEF Calls
<1>2. c.base = v
  BY <1>1
<1>3. [c EXCEPT !.pc = "cancelled"] = [pc |-> "cancelled", base |-> v, now |-> w]
  BY <1>1
<1>4. [[pc |-> "cancelled", base |-> v, now |-> w] EXCEPT !.now = n] = [pc |-> "cancelled", base |-> v, now |-> n]
  OBVIOUS
<1> QED BY <1>2, <1>3, <1>4

LEMMA EnsuredFinalizer ==
  ASSUME TypeOK, jobs' = [jobs EXCEPT !["finalizer"] = _ensure_finalizer_job_pending]
  PROVE  /\ jobs' \in [JobKinds -> JobRows] /\ jobs'["driver"] = jobs["driver"]
         /\ jobs'["finalizer"] = jobs["finalizer"] \/ jobs'["finalizer"].status # "running"
<1> DEFINE r == Released("pending", 0)
<1>1. r \in JobRows /\ r.status = "pending"
  BY JobTypes DEF JobStatus, Claimable
<1>2. jobs' = jobs \/ jobs' = [jobs EXCEPT !["finalizer"] = r]
  BY TypeParts DEF _ensure_finalizer_job_pending
<1> HIDE DEF r
<1> QED BY <1>1, <1>2, TypeParts DEF JobKinds

LEMMA RequestRest ==
  ASSUME VInv, NEW q \in Requests, NEW c \in Calls, request' = [request EXCEPT ![q] = c],
         Honest(c.base, c.now), c.base.cursor = c.now.cursor,
         start' = start, slot' = slot, clock' = clock, inputs' = inputs, evals' = evals,
         runStatus' \in RunStatuses, runStatus' = runStatus \/ runStatus \notin TERMINAL_RUNTIME_STATUSES,
         row' \in Rows, row'.cursor = row.cursor, row'.driver = "completed" => AllSent,
         row'.status = "passed" => row.status = "passed",
         jobs' \in [JobKinds -> JobRows],
         \A j \in JobKinds : jobs'[j] = jobs[j] \/ jobs'[j].status # "running",
         jobs'["finalizer"].status # "absent" => AllSent
  PROVE  VInv'
<1>0. TypeOK /\ request \in [Requests -> Calls] /\ \A s \in Slots : slot[s].job \in JobKinds
  BY TypeParts DEF VInv, Attempts
<1>1. request' \in [Requests -> Calls]
  BY <1>0
<1>2. TypeOK'
  BY <1>0, <1>1, TypeParts, TypeNext
<1>3. \A s \in Slots : Stays(s)
  BY <1>0 DEF Stays, Owns
<1>4. ASSUME NEW r \in Requests
      PROVE  RequestFits(r)'
  <2>1. CASE r = q
    <3>1. request'[q] = c
      BY <1>0
    <3> QED BY <2>1, <3>1 DEF RequestFits, Honest, AllSent
  <2>2. CASE r # q
    BY <1>0, <2>2, CallStays
  <2> QED BY <2>1, <2>2
<1>5. row'.status = "passed" => Earned'
  BY EarnedStays
<1> QED BY <1>2, <1>3, <1>4, <1>5, QuietStep

\* A request that ends leaves nothing behind.
LEMMA AnsweredFits == Answered \in Calls /\ Honest(Answered.base, Answered.now) /\ Answered.base.cursor = Answered.now.cursor
<1>1. Answered.base = NewRow /\ Answered.now = NewRow
  BY DEF Answered, NoRequest
<1> QED BY <1>1, AttemptTypes, RowFields DEF Honest

LEMMA RequestStep ==
  ASSUME VInv, NEW q \in Requests,
         get_run(q) \/ cancel_run(q) \/ request_evaluation(q) \/ Serve(q) \/ RequestDies(q)
  PROVE  VInv'
<1>0. /\ TypeOK /\ row \in Rows /\ jobs \in [JobKinds -> JobRows] /\ request \in [Requests -> Calls]
      /\ runStatus \in RunStatuses
      /\ (row.driver = "completed" => AllSent) /\ (jobs["finalizer"].status # "absent" => AllSent)
  BY TypeParts DEF VInv, CompletedIsSent
<1> DEFINE c == request[q]
           v == c.base
           w == c.now
<1>1. v \in Rows /\ w \in Rows /\ Honest(v, w) /\ v.cursor = w.cursor
  <2>1. RequestFits(q)
    BY DEF VInv
  <2> QED BY <1>0, <2>1 DEF Calls, RequestFits
<1>2. start' = start /\ slot' = slot /\ clock' = clock /\ inputs' = inputs /\ evals' = evals
  BY DEF get_run, cancel_run, request_evaluation, Serve, ReadCommits, CancelRuntime, CancelCommits, RequestDies
<1>3. Answered \in Calls /\ Honest(Answered.base, Answered.now) /\ Answered.base.cursor = Answered.now.cursor
  BY AnsweredFits
<1>4. ASSUME NEW d \in Calls, request' = [request EXCEPT ![q] = d],
             Honest(d.base, d.now), d.base.cursor = d.now.cursor, row' = row, jobs' = jobs, runStatus' = runStatus
      PROVE  VInv'
  <2>1. row' \in Rows /\ row'.cursor = row.cursor /\ jobs' \in [JobKinds -> JobRows] /\ runStatus' \in RunStatuses
    BY <1>0, <1>4
  <2> QED BY <1>0, <1>2, <1>4, <2>1, RequestRest
<1>5. CASE get_run(q)
  <2> DEFINE d == [pc |-> "reading", base |-> row, now |-> Synced(row)]
  <2>1. d \in Calls /\ d.base = row /\ d.now = Synced(row)
    BY <1>0, HonestSync, CallTypes
  <2>2. request' = [request EXCEPT ![q] = d] /\ row' = row /\ jobs' = jobs /\ runStatus' = runStatus
    BY <1>5 DEF get_run
  <2> HIDE DEF d
  <2> QED BY <1>4, <2>1, <2>2, HonestSync
<1>6. CASE ReadCommits(q)
  <2>1. row' = Flush(v, w) /\ request' = [request EXCEPT ![q] = Answered] /\ jobs' = jobs /\ runStatus' = runStatus
    BY <1>6 DEF ReadCommits
  <2>2. row' \in Rows /\ row'.cursor = row.cursor /\ (row'.status = "passed" => row.status = "passed")
        /\ (row'.driver = "completed" => AllSent)
    <3> HIDE DEF v, w
    <3> QED BY <1>1, <2>1, HonestFlush
  <2> QED BY <1>0, <1>2, <1>3, <2>1, <2>2, RequestRest
<1>7. CASE cancel_run(q)
  <2> DEFINE x == Synced(row)
             p == IF start = "linked" /\ x.status # "cancelled" THEN "cancelling" ELSE "cancelled"
             n == IF start = "linked" \/ x.status = "cancelled" THEN x ELSE Cancelled(x)
             d == [pc |-> p, base |-> row, now |-> n]
  <2>1. x \in Rows /\ x.cursor = row.cursor /\ Honest(row, x)
    BY HonestSync
  <2>2. Cancelled(x) \in Rows /\ Cancelled(x).cursor = x.cursor /\ Honest(row, Cancelled(x))
    <3> HIDE DEF x
    <3> QED BY <1>0, <2>1, HonestCancelled
  <2>3. n \in Rows /\ n.cursor = row.cursor /\ Honest(row, n)
    BY <2>1, <2>2
  <2>4. p \in {"cancelling", "cancelled"}
    OBVIOUS
  <2>5. request' = [request EXCEPT ![q] = d] /\ row' = row /\ jobs' = jobs /\ runStatus' = runStatus
    BY <1>7 DEF cancel_run
  <2> HIDE DEF x, p, n
  <2>6. d \in Calls /\ d.base = row /\ d.now = n
    BY <1>0, <2>3, <2>4, CallTypes
  <2> HIDE DEF d
  <2> QED BY <1>4, <2>3, <2>5, <2>6
<1>8. CASE CancelRuntime(q)
  <2>1. CASE /\ runStatus \notin TERMINAL_RUNTIME_STATUSES /\ runStatus' = "cancelled"
             /\ row' = Flush(v, w) /\ jobs' = jobs
             /\ request' = [request EXCEPT ![q] = [pc |-> "cancelled", base |-> w, now |-> Cancelled(w)]]
    <3> DEFINE d == [pc |-> "cancelled", base |-> w, now |-> Cancelled(w)]
    <3>0. request' = [request EXCEPT ![q] = d]
      BY <2>1
    <3>1. row' \in Rows /\ row'.cursor = row.cursor /\ (row'.status = "passed" => row.status = "passed")
          /\ (row'.driver = "completed" => AllSent)
      <4> HIDE DEF v, w
      <4> QED BY <1>1, <2>1, HonestFlush
    <3>2. Cancelled(w) \in Rows /\ Cancelled(w).cursor = w.cursor /\ Honest(w, Cancelled(w))
      <4> HIDE DEF v, w
      <4> QED BY <1>1, HonestCancelled
    <3>3. d \in Calls /\ d.base = w /\ d.now = Cancelled(w)
      <4> HIDE DEF w
      <4> QED BY <1>1, <3>2, CallTypes
    <3>4. runStatus' \in RunStatuses
      BY <2>1 DEF RunStatuses, TERMINAL_RUNTIME_STATUSES
    <3> HIDE DEF d
    <3> QED BY ZenonT(30), <1>0, <1>2, <2>1, <3>0, <3>1, <3>2, <3>3, <3>4, RequestRest
  <2>2. CASE /\ request' = [request EXCEPT ![q].pc = "cancelled", ![q].now = Cancelled(w)]
             /\ row' = row /\ jobs' = jobs /\ runStatus' = runStatus
    <3> DEFINE d == [pc |-> "cancelled", base |-> v, now |-> Cancelled(w)]
    <3>0. [c EXCEPT !.pc = "cancelled", !.now = Cancelled(w)] = d
      <4> DEFINE n == Cancelled(w)
      <4>1. c \in Calls
        BY <1>0
      <4> HIDE DEF n, c
      <4> QED BY <4>1, CallEnds
    <3>1. request' = [request EXCEPT ![q] = d]
      <4>1. request' = [request EXCEPT ![q] = [c EXCEPT !.pc = "cancelled", !.now = Cancelled(w)]]
        BY <1>0, <2>2
      <4> QED BY <3>0, <4>1
    <3>2. Cancelled(w) \in Rows /\ Cancelled(w).cursor = w.cursor /\ Honest(v, Cancelled(w))
      <4> HIDE DEF v, w
      <4> QED BY <1>1, HonestCancelled
    <3>3. d \in Calls /\ d.base = v /\ d.now = Cancelled(w)
      <4> HIDE DEF v, w
      <4> QED BY <1>1, <3>2, CallTypes
    <3> HIDE DEF d
    <3> QED BY <1>1, <1>4, <2>2, <3>1, <3>2, <3>3
  <2>3. CASE request' = [request EXCEPT ![q] = Answered] /\ row' = row /\ jobs' = jobs /\ runStatus' = runStatus
    BY <1>3, <1>4, <2>3
  <2> QED BY <1>8, <2>1, <2>2, <2>3 DEF CancelRuntime
<1>9. CASE CancelCommits(q)
  <2>1. row' = Flush(v, w) /\ request' = [request EXCEPT ![q] = Answered] /\ runStatus' = runStatus
        /\ jobs' = [j \in JobKinds |-> CancelJob(jobs[j])]
    BY <1>9 DEF CancelCommits
  <2>2. row' \in Rows /\ row'.cursor = row.cursor /\ (row'.status = "passed" => row.status = "passed")
        /\ (row'.driver = "completed" => AllSent)
    <3> HIDE DEF v, w
    <3> QED BY <1>1, <2>1, HonestFlush
  <2>3. jobs' \in [JobKinds -> JobRows]
    BY <1>0, <2>1, JobTypes
  <2>4. \A j \in JobKinds : jobs'[j] = jobs[j] \/ (jobs'[j].status = "cancelled" /\ jobs[j].status # "absent")
    <3> SUFFICES ASSUME NEW j \in JobKinds
                 PROVE  jobs'[j] = jobs[j] \/ (jobs'[j].status = "cancelled" /\ jobs[j].status # "absent")
      OBVIOUS
    <3>1. jobs'[j] = CancelJob(jobs[j]) /\ jobs[j] \in JobRows
      BY <1>0, <2>1
    <3> DEFINE d == [jobs[j] EXCEPT !.status = "cancelled"]
    <3>2. d.status = "cancelled"
      BY <3>1 DEF JobRows
    <3>3. CancelJob(jobs[j]) = jobs[j] \/ (CancelJob(jobs[j]) = d /\ jobs[j].status # "absent")
      BY DEF CancelJob
    <3> HIDE DEF d
    <3> QED BY <3>1, <3>2, <3>3
  <2>5. jobs'["finalizer"].status # "absent" => AllSent
    BY <1>0, <2>4 DEF JobKinds
  <2> QED BY <1>0, <1>2, <1>3, <2>1, <2>2, <2>3, <2>4, <2>5, RequestRest
<1>10. CASE request_evaluation(q)
  <2>1. /\ request' = [request EXCEPT ![q] = Answered] /\ row' = row /\ runStatus' = runStatus
        /\ jobs' = [jobs EXCEPT !["finalizer"] = _ensure_finalizer_job_pending] /\ AllSent
    BY <1>0, <1>10 DEF request_evaluation
  <2>2. /\ jobs' \in [JobKinds -> JobRows]
        /\ \A j \in JobKinds : jobs'[j] = jobs[j] \/ jobs'[j].status # "running"
    BY <1>0, <2>1, EnsuredFinalizer DEF JobKinds
  <2>3. row' \in Rows /\ row'.cursor = row.cursor
    BY <1>0, <2>1
  <2> QED BY <1>0, <1>2, <1>3, <2>1, <2>2, <2>3, RequestRest
<1>11. CASE RequestDies(q)
  <2>1. request' = [request EXCEPT ![q] = Answered] /\ row' = row /\ jobs' = jobs /\ runStatus' = runStatus
    BY <1>11 DEF RequestDies
  <2> QED BY <1>3, <1>4, <2>1
<1> QED BY <1>5, <1>6, <1>7, <1>8, <1>9, <1>10, <1>11 DEF Serve

(***************************************************************************)
(* The driver.                                                             *)
(***************************************************************************)

\* The run never gets more inputs than the timeline has.
LEMMA InputsBound ==
  ASSUME inputs \in Seq(Events), InputsInOrder
  PROVE  /\ Len(inputs) \in Nat /\ Len(InputAt) \in Nat /\ Len(inputs) <= Len(InputAt)
         /\ \A k \in 1..Len(inputs) : inputs[k] = k
<1>1. Len(inputs) \in Nat /\ Len(InputAt) \in Nat
  BY TimelineAssumption
<1>2. \A k \in 1..Len(inputs) : inputs[k] = k
  BY DEF InputsInOrder
<1>3. \A k \in 1..Len(inputs) : inputs[k] \in 1..Len(InputAt)
  BY DEF Events
<1> QED BY <1>1, <1>2, <1>3

\* A step of an attempt on the driver job: one that owns it, or one that
\* changes nothing but itself.
LEMMA DriverRest ==
  ASSUME VInv, NEW s \in Slots, NEW c \in Attempts, slot' = [slot EXCEPT ![s] = c], SlotFits(s)',
         (Owns(s) /\ slot[s].job = "driver") \/ (row' = row /\ jobs' = jobs /\ inputs' = inputs),
         start' = start, clock' = clock, evals' = evals, runStatus' = runStatus, request' = request,
         inputs' \in Seq(Events), InputsInOrder', Len(inputs) <= Len(inputs'),
         row' \in Rows, row'.driver = "completed" => AllSent', row'.status = "passed" => row.status = "passed",
         jobs' \in [JobKinds -> JobRows],
         \A j \in JobKinds : jobs'[j] = jobs[j] \/ jobs'[j].status # "running",
         jobs'["finalizer"].status # "absent" => AllSent'
  PROVE  VInv'
<1>0. TypeOK /\ slot \in [Slots -> Attempts] /\ inputs \in Seq(Events) /\ InputsInOrder
  BY TypeParts DEF VInv
<1>1. AllSent => AllSent'
  <2>1. Len(inputs) \in Nat /\ Len(inputs') \in Nat /\ Len(InputAt) \in Nat
    BY <1>0, TimelineAssumption
  <2>2. Len(inputs') <= Len(InputAt)
    <3>1. \A k \in 1..Len(inputs') : inputs'[k] = k
      BY DEF InputsInOrder
    <3>2. \A k \in 1..Len(inputs') : inputs'[k] \in 1..Len(InputAt)
      BY DEF Events
    <3> QED BY <2>1, <3>1, <3>2
  <2> QED BY <2>1, <2>2 DEF AllSent
<1>2. TypeOK'
  <2>1. slot' \in [Slots -> Attempts]
    BY <1>0
  <2> QED BY <1>0, <2>1, TypeParts, TypeNext
<1>3. row'.status = "passed" => Earned'
  <2>1. row.status = "passed" => Earned
    BY DEF VInv
  <2> QED BY <1>1, <2>1 DEF Earned
<1>4. ASSUME NEW t \in Slots, t # s
      PROVE  SlotFits(t)'
  <2>1. slot'[t] = slot[t] /\ SlotFits(t) /\ "driver" \in JobKinds
    BY <1>0, <1>4 DEF VInv, JobKinds
  <2>2. InDriver(t) /\ Owns(t)' => row' = row /\ jobs' = jobs /\ inputs' = inputs
    BY <1>4, <2>1 DEF Owns, SlotFits
  <2> QED BY <1>1, <2>1, <2>2 DEF SlotFits, Honest, InDriver, Owns
<1>5. \A q \in Requests : RequestFits(q)'
  BY <1>1 DEF VInv, RequestFits, Honest
<1>6. CompletedIsSent'
  BY DEF CompletedIsSent
<1>7. \A t \in Slots : SlotFits(t)'
  BY <1>4
<1> QED BY <1>2, <1>3, <1>5, <1>6, <1>7 DEF VInv

\* What the driver steps start from.
LEMMA DriverHas ==
  ASSUME VInv, NEW s \in Slots
  PROVE  /\ slot[s] \in Attempts /\ slot[s].base \in Rows /\ slot[s].now \in Rows /\ slot[s].run \in RunStatuses
         /\ slot[s].base.cursor \in Nat /\ slot[s].now.cursor \in Nat /\ row.cursor \in Nat
         /\ slot[s].now.cursor <= Len(InputAt)
         /\ row \in Rows /\ runStatus \in RunStatuses /\ jobs \in [JobKinds -> JobRows]
         /\ slot \in [Slots -> Attempts] /\ inputs \in Seq(Events)
         /\ Len(inputs) \in Nat /\ Len(InputAt) \in Nat /\ Len(inputs) <= Len(InputAt)
         /\ (row.driver = "completed" => AllSent) /\ (jobs["finalizer"].status # "absent" => AllSent)
         /\ SlotFits(s) /\ InputsInOrder
<1>1. /\ slot \in [Slots -> Attempts] /\ row \in Rows /\ runStatus \in RunStatuses
      /\ jobs \in [JobKinds -> JobRows] /\ inputs \in Seq(Events)
  BY TypeParts DEF VInv
<1>2. slot[s] \in Attempts
  BY <1>1
<1>3. slot[s].base \in Rows /\ slot[s].now \in Rows /\ slot[s].run \in RunStatuses
  BY <1>2 DEF Attempts
<1>4. SlotFits(s) /\ InputsInOrder
      /\ (row.driver = "completed" => AllSent) /\ (jobs["finalizer"].status # "absent" => AllSent)
  BY DEF VInv, CompletedIsSent
<1>5. Len(inputs) \in Nat /\ Len(InputAt) \in Nat /\ Len(inputs) <= Len(InputAt)
  BY <1>1, <1>4, InputsBound
<1>6. slot[s].base.cursor \in 0..Len(InputAt) /\ slot[s].now.cursor \in 0..Len(InputAt)
      /\ row.cursor \in 0..Len(InputAt)
  BY <1>1, <1>3, RowFields
<1> QED BY <1>1, <1>2, <1>3, <1>4, <1>5, <1>6

\* A step of the driver that changes its slot alone.
LEMMA DriverAlone ==
  ASSUME VInv, NEW s \in Slots, NEW c \in Attempts, slot' = [slot EXCEPT ![s] = c], SlotFits(s)',
         UNCHANGED <<start, row, runStatus, inputs, evals, jobs, clock, request>>
  PROVE  VInv'
<1>1. /\ row \in Rows /\ jobs \in [JobKinds -> JobRows] /\ inputs \in Seq(Events) /\ InputsInOrder
      /\ (row.driver = "completed" => AllSent) /\ (jobs["finalizer"].status # "absent" => AllSent)
      /\ Len(inputs) \in Nat
  BY DriverHas
<1>2. InputsInOrder' /\ (AllSent => AllSent') /\ Len(inputs) <= Len(inputs')
  BY <1>1 DEF InputsInOrder, AllSent
<1> QED BY <1>1, <1>2, DriverRest

LEMMA DriverLoadsStep ==
  ASSUME VInv, NEW s \in Slots, DriverLoads(s)
  PROVE  VInv'
<1>0. /\ slot[s] \in Attempts /\ row \in Rows /\ runStatus \in RunStatuses /\ row.cursor \in Nat
      /\ slot \in [Slots -> Attempts] /\ InputsInOrder /\ (row.driver = "completed" => AllSent)
      /\ Len(inputs) \in Nat
  BY DriverHas
<1> DEFINE v == _sync_scenario_run_from_runtime(row, runStatus)
<1>1. /\ v \in Rows /\ v.cursor = row.cursor
      /\ v.status = "passed" => row.status = "passed"
      /\ v.driver = "completed" => row.driver = "completed"
  BY <1>0, SyncFacts
<1>2. PICK p \in {"closing", "driving"}, w \in {v, [v EXCEPT !.status = "failed", !.driver = "failed"]} :
        slot' = [slot EXCEPT ![s].base = row, ![s].run = runStatus, ![s].pc = p, ![s].now = w]
  BY DEF DriverLoads
<1>3. w \in Rows /\ w.cursor = row.cursor /\ Honest(row, w)
  <2> DEFINE f == [v EXCEPT !.status = "failed", !.driver = "failed"]
  <2> HIDE DEF v
  <2>1. f \in Rows /\ f.status = "failed" /\ f.driver = "failed" /\ f.cursor = v.cursor
    BY <1>1, EndedTypes
  <2>2. w = v \/ w = f
    BY <1>2
  <2> HIDE DEF f
  <2> QED BY <1>0, <1>1, <2>1, <2>2 DEF Honest
<1> HIDE DEF v
<1> DEFINE a == [slot[s] EXCEPT !.base = row]
           b == [a EXCEPT !.run = runStatus]
           d == [b EXCEPT !.pc = p]
           c == [d EXCEPT !.now = w]
<1>4. slot' = [slot EXCEPT ![s] = c] /\ slot'[s] = c
  BY <1>0, <1>2
<1>5. c \in Attempts
  <2>1. a \in Attempts
    BY <1>0, AttemptTypes
  <2> HIDE DEF a
  <2>2. b \in Attempts
    BY <1>0, <2>1, AttemptTypes
  <2> HIDE DEF b
  <2>3. d \in Attempts
    BY <2>2, AttemptTypes DEF SlotPcs
  <2> HIDE DEF d
  <2> QED BY <1>3, <2>3, AttemptTypes
<1>6. c.base = row /\ c.now = w /\ c.pc = p /\ c.job = slot[s].job
  BY <1>0 DEF Attempts
<1> HIDE DEF a, b, c, d
<1>7. slot[s].job = "driver" /\ UNCHANGED <<start, row, runStatus, inputs, evals, jobs, clock, request>>
  BY DEF DriverLoads
<1>8. SlotFits(s)'
  <2>1. Honest(row, w)'
    BY <1>3, <1>4, <1>7 DEF Honest, AllSent
  <2>2. row.cursor <= Len(inputs)
    BY <1>0 DEF InputsInOrder
  <2> QED BY <1>0, <1>3, <1>4, <1>6, <1>7, <2>1, <2>2 DEF SlotFits, InDriver, Honest, AllSent
<1> QED BY <1>4, <1>5, <1>7, <1>8, DriverAlone

\* The attempt after input i is there: the cursor is past it.
Sent(b, i, r) == [b EXCEPT !.now.cursor = i, !.run = r, !.sentAny = TRUE]

LEMMA SentFacts ==
  ASSUME NEW b \in Attempts, NEW i \in 0..Len(InputAt), NEW r \in RunStatuses
  PROVE  /\ Sent(b, i, r) \in Attempts /\ Sent(b, i, r).base = b.base
         /\ Sent(b, i, r).pc = b.pc /\ Sent(b, i, r).job = b.job /\ Sent(b, i, r).now.cursor = i
         /\ Sent(b, i, r).now.status = b.now.status /\ Sent(b, i, r).now.driver = b.now.driver
<1> DEFINE w == [b.now EXCEPT !.cursor = i]
           d == [b EXCEPT !.now = w]
           e == [d EXCEPT !.run = r]
           c == [e EXCEPT !.sentAny = TRUE]
<1>1. b.now \in Rows
  BY DEF Attempts
<1>2. w \in Rows /\ w.cursor = i /\ w.status = b.now.status /\ w.driver = b.now.driver
  BY <1>1, CursorTypes
<1>3. Sent(b, i, r) = c
  BY DEF Sent
<1> HIDE DEF w
<1>4. c \in Attempts
  <2>1. d \in Attempts
    BY <1>2, AttemptTypes
  <2> HIDE DEF d
  <2>2. e \in Attempts
    BY <2>1, AttemptTypes
  <2> HIDE DEF e
  <2>3. TRUE \in BOOLEAN
    OBVIOUS
  <2> QED BY <2>2, <2>3, AttemptTypes
<1>5. c.base = b.base /\ c.pc = b.pc /\ c.job = b.job /\ c.now = w
  BY DEF Attempts
<1> HIDE DEF c, d, e
<1> QED BY <1>2, <1>3, <1>4, <1>5

LEMMA DriverSendsStep ==
  ASSUME VInv, NEW s \in Slots, DriverSends(s)
  PROVE  VInv'
<1> DEFINE b == slot[s]
           i == b.now.cursor + 1
<1>0. /\ b \in Attempts /\ b.base \in Rows /\ b.now \in Rows /\ row \in Rows /\ row.cursor \in Nat
      /\ runStatus \in RunStatuses /\ slot \in [Slots -> Attempts] /\ jobs \in [JobKinds -> JobRows]
      /\ b.now.cursor \in Nat /\ b.base.cursor \in Nat /\ SlotFits(s)
      /\ inputs \in Seq(Events) /\ InputsInOrder /\ Len(inputs) \in Nat /\ Len(InputAt) \in Nat
      /\ (row.driver = "completed" => AllSent) /\ (jobs["finalizer"].status # "absent" => AllSent)
  BY DriverHas
<1>1. b.pc = "driving" /\ Due(s) /\ UNCHANGED <<start, runStatus, evals, jobs, clock, request>>
  BY DEF DriverSends
<1>2. i \in Nat /\ i \in 1..Len(InputAt) /\ i \in 0..Len(InputAt)
  BY <1>0, <1>1 DEF Due
<1>3. b.job = "driver" /\ Honest(b.base, b.now)
  BY <1>0, <1>1 DEF SlotFits, InDriver
<1>4. \A k \in 1..Len(inputs) : inputs[k] = k
  BY <1>0, InputsBound
<1>5. CASE /\ \E k \in 1..Len(inputs) : inputs[k] = i
           /\ slot' = [slot EXCEPT ![s].now.cursor = i, ![s].run = runStatus, ![s].sentAny = TRUE]
           /\ UNCHANGED <<row, inputs>>
  <2> DEFINE c == Sent(b, i, runStatus)
  <2>1. /\ c \in Attempts /\ c.base = b.base /\ c.pc = b.pc /\ c.job = b.job
        /\ c.now.cursor = i /\ c.now.status = b.now.status /\ c.now.driver = b.now.driver
    <3> HIDE DEF b, i
    <3> QED BY <1>0, <1>2, SentFacts
  <2>2. slot' = [slot EXCEPT ![s] = c] /\ slot'[s] = c
    BY <1>0, <1>5 DEF Sent
  <2> HIDE DEF c
  <2>3. i <= Len(inputs)
    BY <1>0, <1>4, <1>5
  <2>4. Owns(s)' => row.cursor <= i /\ b.base.cursor = row.cursor
    BY <1>0, <1>1, <1>5, <2>1, <2>2 DEF SlotFits, InDriver, Owns
  <2>5. SlotFits(s)'
    BY <1>1, <1>3, <1>5, <2>1, <2>2, <2>3, <2>4 DEF SlotFits, InDriver, Honest, AllSent
  <2> QED BY <1>1, <1>5, <2>1, <2>2, <2>5, DriverAlone
<1>6. CASE /\ \A k \in 1..Len(inputs) : inputs[k] # i
           /\ Owns(s) /\ inputs' = Append(inputs, i)
           /\ row' = Flush(b.base, b.now)
           /\ slot' = [slot EXCEPT ![s].base = b.now, ![s].now.cursor = i,
                                   ![s].run = runStatus, ![s].sentAny = TRUE]
  <2> DEFINE a == [b EXCEPT !.base = b.now]
             c == Sent(a, i, runStatus)
  <2>1. a \in Attempts /\ a.base = b.now /\ a.pc = b.pc /\ a.job = b.job /\ a.now = b.now
    <3>1. a \in Attempts
      BY <1>0, AttemptTypes
    <3>2. a.base = b.now /\ a.pc = b.pc /\ a.job = b.job /\ a.now = b.now
      BY <1>0 DEF Attempts
    <3> QED BY <3>1, <3>2
  <2>2. slot' = [slot EXCEPT ![s] = c] /\ slot'[s] = c
    BY <1>0, <1>6 DEF Sent
  <2>3. /\ c \in Attempts /\ c.base = a.base /\ c.pc = a.pc /\ c.job = a.job
        /\ c.now.cursor = i /\ c.now.status = a.now.status /\ c.now.driver = a.now.driver
    <3> HIDE DEF a, i
    <3> QED BY <1>0, <1>2, <2>1, SentFacts
  <2> HIDE DEF a, c
  <2>4. b.base.cursor = row.cursor /\ row.cursor <= b.now.cursor /\ b.now.cursor <= Len(inputs)
    BY <1>0, <1>1, <1>6 DEF SlotFits, InDriver
  <2>5. b.now.cursor = Len(inputs) /\ i = Len(inputs) + 1
    <3>1. ~ (i \in 1..Len(inputs))
      BY <1>4, <1>6
    <3> QED BY <1>0, <1>2, <2>4, <3>1
  <2>6. /\ row' \in Rows /\ (row'.status = "passed" => row.status = "passed")
        /\ (row'.driver = "completed" => AllSent)
    <3> HIDE DEF b
    <3> QED BY <1>0, <1>3, <1>6, HonestFlush
  <2>7. row'.cursor = b.now.cursor
    <3> HIDE DEF b
    <3> QED BY <1>0, <1>6, <2>4, FlushFacts
  <2>8. ~ AllSent
    BY <1>0, <1>2, <2>5 DEF AllSent
  <2>9. inputs' \in Seq(Events) /\ Len(inputs') = Len(inputs) + 1
        /\ \A k \in 1..Len(inputs') : inputs'[k] = k
    <3>1. i \in Events
      BY <1>2 DEF Events
    <3> HIDE DEF i
    <3>2. inputs' = Append(inputs, i)
      BY <1>6
    <3>3. inputs' \in Seq(Events) /\ Len(inputs') = Len(inputs) + 1
      BY <1>0, <3>1, <3>2
    <3>4. \A k \in 1..Len(inputs) : inputs'[k] = k
      BY <1>0, <1>4, <3>2
    <3>5. inputs'[Len(inputs) + 1] = i
      BY <1>0, <3>2
    <3>6. inputs'[Len(inputs) + 1] = Len(inputs) + 1
      BY <2>5, <3>5
    <3> QED BY <1>0, <3>3, <3>4, <3>6
  <2>10. InputsInOrder'
    <3>1. inputs' = [k \in 1..Len(inputs') |-> k]
      BY <2>9
    <3>2. row'.cursor <= Len(inputs') /\ Len(inputs') <= row'.cursor + 1
      BY <1>0, <2>5, <2>7, <2>9
    <3> QED BY <3>1, <3>2 DEF InputsInOrder
  <2>11. SlotFits(s)'
    <3>1. c.base.cursor = row'.cursor /\ row'.cursor <= c.now.cursor /\ c.now.cursor <= Len(inputs')
      BY <1>0, <2>1, <2>3, <2>5, <2>7, <2>9
    <3>2. /\ c.now.status = "passed" => c.base.status = "passed"
          /\ c.base.driver # "completed" /\ c.now.driver # "completed"
      BY <1>3, <2>1, <2>3, <2>8 DEF Honest
    <3> QED BY <1>1, <1>3, <2>1, <2>2, <2>3, <3>1, <3>2 DEF SlotFits, InDriver, Honest, AllSent
  <2>12. row'.driver # "completed" /\ jobs'["finalizer"].status = "absent" /\ jobs' \in [JobKinds -> JobRows]
    BY <1>0, <1>1, <2>6, <2>8
  <2>13. Len(inputs) <= Len(inputs')
    BY <1>0, <2>9
  <2> QED BY <1>1, <1>3, <1>6, <2>2, <2>3, <2>6, <2>9, <2>10, <2>11, <2>12, <2>13, DriverRest
<1> QED BY <1>5, <1>6 DEF DriverSends

\* A driver that owns its job commits v and the cursor with it: what follows
\* for the row.
LEMMA DriverCommits ==
  ASSUME VInv, NEW s \in Slots, InDriver(s), Owns(s), NEW v \in Rows,
         v.cursor = slot[s].now.cursor, Honest(slot[s].base, v),
         row' = Flush(slot[s].base, v), inputs' = inputs
  PROVE  /\ row' \in Rows /\ row'.cursor = v.cursor
         /\ row'.status = "passed" => row.status = "passed"
         /\ row'.driver = "completed" => AllSent'
         /\ InputsInOrder' /\ v.cursor <= Len(inputs')
<1> DEFINE b == slot[s].base
<1>0. /\ b \in Rows /\ row \in Rows /\ SlotFits(s) /\ InputsInOrder /\ Len(inputs) \in Nat
      /\ row.cursor \in Nat /\ v.cursor \in Nat
  BY DriverHas
<1>1. b.cursor = row.cursor /\ row.cursor <= v.cursor /\ v.cursor <= Len(inputs)
  BY <1>0 DEF SlotFits
<1> HIDE DEF b
<1>2. /\ row' \in Rows /\ (row'.status = "passed" => row.status = "passed")
      /\ (row'.driver = "completed" => AllSent)
  BY <1>0, HonestFlush DEF b
<1>3. row'.cursor = v.cursor
  BY <1>0, <1>1, FlushFacts DEF b
<1>4. InputsInOrder'
  BY <1>0, <1>1, <1>3 DEF InputsInOrder
<1> QED BY <1>1, <1>2, <1>3, <1>4 DEF AllSent

LEMMA DriverWaitsStep ==
  ASSUME VInv, NEW s \in Slots, DriverWaits(s)
  PROVE  VInv'
<1> DEFINE b == slot[s]
           v == IF b.sentAny THEN _sync_scenario_run_from_runtime(b.now, b.run) ELSE b.now
<1>0. /\ b \in Attempts /\ b.base \in Rows /\ b.now \in Rows /\ b.run \in RunStatuses /\ SlotFits(s)
      /\ slot \in [Slots -> Attempts] /\ jobs \in [JobKinds -> JobRows] /\ inputs \in Seq(Events)
      /\ Len(inputs) \in Nat /\ (jobs["finalizer"].status # "absent" => AllSent)
  BY DriverHas
<1>1. /\ b.pc = "driving" /\ b.job = "driver" /\ Honest(b.base, b.now) /\ InDriver(s)
      /\ UNCHANGED <<start, runStatus, inputs, evals, clock, request>>
  BY <1>0 DEF DriverWaits, SlotFits, InDriver
<1>2. v \in Rows /\ v.cursor = b.now.cursor /\ Honest(b.base, v)
  <2> DEFINE w == _sync_scenario_run_from_runtime(b.now, b.run)
  <2>1. /\ w \in Rows /\ w.cursor = b.now.cursor
        /\ w.status = "passed" => b.now.status = "passed"
        /\ w.driver = "completed" => b.now.driver = "completed"
    <3> HIDE DEF b
    <3> QED BY <1>0, SyncFacts
  <2>2. v = w \/ v = b.now
    OBVIOUS
  <2> HIDE DEF w, v, b
  <2> QED BY <1>0, <1>1, <2>1, <2>2 DEF Honest
<1>3. \/ /\ slot' = [slot EXCEPT ![s].pc = "closing",
                                  ![s].now = [v EXCEPT !.status = "failed", !.driver = "failed"]]
         /\ UNCHANGED <<row, jobs>>
      \/ /\ Owns(s) /\ row' = Flush(b.base, [v EXCEPT !.driver = "waiting_time"])
         /\ jobs' = [jobs EXCEPT !["driver"] = Released("pending", 0)]
         /\ slot' = [slot EXCEPT ![s] = NoAttempt]
  BY DEF DriverWaits, _ensure_driver_job_pending
<1> HIDE DEF v
<1>4. CASE /\ slot' = [slot EXCEPT ![s].pc = "closing",
                                   ![s].now = [v EXCEPT !.status = "failed", !.driver = "failed"]]
           /\ UNCHANGED <<row, jobs>>
  <2> DEFINE f == [v EXCEPT !.status = "failed", !.driver = "failed"]
             a == [b EXCEPT !.pc = "closing"]
             c == [a EXCEPT !.now = f]
  <2>1. f \in Rows /\ f.status = "failed" /\ f.driver = "failed" /\ f.cursor = v.cursor
    BY <1>2, EndedTypes
  <2>2. slot' = [slot EXCEPT ![s] = c] /\ slot'[s] = c
    BY <1>0, <1>4
  <2>3. c \in Attempts
    <3>1. a \in Attempts
      BY <1>0, AttemptTypes DEF SlotPcs
    <3> HIDE DEF a, f
    <3> QED BY <2>1, <3>1, AttemptTypes
  <2>4. c.base = b.base /\ c.now = f /\ c.pc = "closing" /\ c.job = b.job
    BY <1>0 DEF Attempts
  <2> HIDE DEF a, c, f
  <2>5. Owns(s)' => b.base.cursor = row.cursor /\ row.cursor <= f.cursor /\ f.cursor <= Len(inputs)
    BY <1>0, <1>1, <1>2, <1>4, <2>1, <2>2, <2>4 DEF SlotFits, Owns
  <2>6. SlotFits(s)'
    BY <1>1, <1>4, <2>1, <2>2, <2>4, <2>5 DEF SlotFits, InDriver, Honest, AllSent
  <2> QED BY <1>1, <1>4, <2>2, <2>3, <2>6, DriverAlone
<1>5. CASE /\ Owns(s) /\ row' = Flush(b.base, [v EXCEPT !.driver = "waiting_time"])
           /\ jobs' = [jobs EXCEPT !["driver"] = Released("pending", 0)]
           /\ slot' = [slot EXCEPT ![s] = NoAttempt]
  <2> DEFINE w == [v EXCEPT !.driver = "waiting_time"]
             r == Released("pending", 0)
  <2>1. w \in Rows /\ w.driver = "waiting_time" /\ w.status = v.status /\ w.cursor = v.cursor
    BY <1>2, StatusTypes
  <2>2. r \in JobRows /\ r.status = "pending"
    BY JobTypes DEF JobStatus, Claimable
  <2>3. row' = Flush(slot[s].base, w) /\ jobs' = [jobs EXCEPT !["driver"] = r]
    BY <1>5
  <2> HIDE DEF w, r
  <2>4. w.cursor = slot[s].now.cursor /\ Honest(slot[s].base, w)
    BY <1>2, <2>1 DEF Honest
  <2>5. /\ row' \in Rows /\ (row'.status = "passed" => row.status = "passed")
        /\ (row'.driver = "completed" => AllSent')
        /\ InputsInOrder'
    BY <1>1, <1>5, <2>1, <2>3, <2>4, DriverCommits
  <2>6. /\ jobs' \in [JobKinds -> JobRows] /\ jobs'["driver"].status # "running"
        /\ \A j \in JobKinds : jobs'[j] = jobs[j] \/ jobs'[j].status # "running"
        /\ jobs'["finalizer"] = jobs["finalizer"]
    BY <1>0, <2>2, <2>3 DEF JobKinds
  <2>7. slot'[s] = NoAttempt /\ NoAttempt \in Attempts /\ slot'[s].pc = "idle"
        /\ slot'[s].base = NewRow /\ slot'[s].now = NewRow
    BY <1>0, <1>5, AttemptTypes DEF NoAttempt
  <2>8. SlotFits(s)'
    BY <2>7, RowFields DEF SlotFits, InDriver, Honest
  <2>9. inputs' \in Seq(Events) /\ Len(inputs) <= Len(inputs') /\ (AllSent => AllSent')
    BY <1>0, <1>1 DEF AllSent
  <2> QED BY <1>0, <1>1, <1>5, <2>5, <2>6, <2>7, <2>8, <2>9, DriverRest
<1> QED BY <1>3, <1>4, <1>5

LEMMA DriverCompletesStep ==
  ASSUME VInv, NEW s \in Slots, DriverCompletes(s)
  PROVE  VInv'
<1> DEFINE b == slot[s]
           v == [b.now EXCEPT !.driver = "completed"]
           u == IF b.sentAny THEN _sync_scenario_run_from_runtime(v, b.run) ELSE v
<1>0. /\ b \in Attempts /\ b.base \in Rows /\ b.now \in Rows /\ b.run \in RunStatuses /\ SlotFits(s)
      /\ slot \in [Slots -> Attempts] /\ inputs \in Seq(Events) /\ TypeOK
      /\ Len(inputs) \in Nat /\ Len(InputAt) \in Nat /\ Len(inputs) <= Len(InputAt)
  BY DriverHas DEF VInv
<1>1. /\ b.pc = "driving" /\ b.job = "driver" /\ Honest(b.base, b.now) /\ InDriver(s) /\ Owns(s)
      /\ b.now.cursor = Len(InputAt)
      /\ UNCHANGED <<start, runStatus, inputs, evals, clock, request>>
      /\ jobs' = [jobs EXCEPT !["finalizer"] = _ensure_finalizer_job_pending]
      /\ row' = Flush(b.base, u)
      /\ slot' = [slot EXCEPT ![s].pc = "closing", ![s].base = u, ![s].now = u,
                              ![s].run = "running", ![s].sentAny = FALSE]
  BY <1>0 DEF DriverCompletes, SlotFits, InDriver
<1>2. AllSent /\ AllSent'
  <2>1. b.now.cursor <= Len(inputs)
    BY <1>0, <1>1 DEF SlotFits
  <2> QED BY <1>0, <1>1, <2>1 DEF AllSent
<1>3. u \in Rows /\ u.cursor = b.now.cursor /\ Honest(b.base, u)
  <2> DEFINE w == _sync_scenario_run_from_runtime(v, b.run)
  <2>1. v \in Rows /\ v.cursor = b.now.cursor /\ v.status = b.now.status
    <3> HIDE DEF b
    <3> QED BY <1>0, StatusTypes DEF DriverDone
  <2> HIDE DEF v
  <2>2. /\ w \in Rows /\ w.cursor = v.cursor
        /\ w.status = "passed" => v.status = "passed"
    BY <1>0, <2>1, SyncFacts
  <2>3. u = w \/ u = v
    OBVIOUS
  <2> HIDE DEF w, u
  <2> QED BY <1>1, <1>2, <2>1, <2>2, <2>3 DEF Honest
<1> HIDE DEF u
<1>4. /\ row' \in Rows /\ row'.cursor = u.cursor /\ (row'.status = "passed" => row.status = "passed")
      /\ (row'.driver = "completed" => AllSent')
      /\ InputsInOrder' /\ u.cursor <= Len(inputs')
  BY <1>1, <1>3, DriverCommits
<1> DEFINE a == [b EXCEPT !.pc = "closing"]
           d == [a EXCEPT !.base = u]
           e == [d EXCEPT !.now = u]
           f == [e EXCEPT !.run = "running"]
           c == [f EXCEPT !.sentAny = FALSE]
<1>5. slot' = [slot EXCEPT ![s] = c] /\ slot'[s] = c
  BY <1>0, <1>1
<1>6. c \in Attempts
  <2>1. a \in Attempts
    BY <1>0, AttemptTypes DEF SlotPcs
  <2> HIDE DEF a
  <2>2. d \in Attempts
    BY <1>3, <2>1, AttemptTypes
  <2> HIDE DEF d
  <2>3. e \in Attempts
    BY <1>3, <2>2, AttemptTypes
  <2> HIDE DEF e
  <2>4. f \in Attempts
    BY <2>3, AttemptTypes DEF RunStatuses
  <2> HIDE DEF f
  <2>5. FALSE \in BOOLEAN
    OBVIOUS
  <2> QED BY <2>4, <2>5, AttemptTypes
<1>7. c.base = u /\ c.now = u /\ c.pc = "closing" /\ c.job = b.job
  BY <1>0 DEF Attempts
<1> HIDE DEF a, d, e, f, c
<1>8. SlotFits(s)'
  <2>1. u.cursor <= u.cursor
    BY <1>0, <1>1, <1>3
  <2> QED BY <1>1, <1>2, <1>4, <1>5, <1>7, <2>1 DEF SlotFits, InDriver, Honest
<1>9. /\ jobs' \in [JobKinds -> JobRows]
      /\ \A j \in JobKinds : jobs'[j] = jobs[j] \/ jobs'[j].status # "running"
  BY <1>0, <1>1, EnsuredFinalizer DEF JobKinds
<1>10. inputs' \in Seq(Events) /\ Len(inputs) <= Len(inputs')
  BY <1>0, <1>1
<1> QED BY <1>1, <1>2, <1>4, <1>5, <1>6, <1>8, <1>9, <1>10, DriverRest

LEMMA DriverClosesStep ==
  ASSUME VInv, NEW s \in Slots, DriverClosesRow(s) \/ DriverClosesJob(s)
  PROVE  VInv'
<1> DEFINE b == slot[s]
<1>0. /\ b \in Attempts /\ b.base \in Rows /\ b.now \in Rows /\ SlotFits(s)
      /\ slot \in [Slots -> Attempts] /\ jobs \in [JobKinds -> JobRows] /\ inputs \in Seq(Events)
      /\ row \in Rows /\ InputsInOrder /\ Len(inputs) \in Nat /\ b.now.cursor \in Nat
      /\ (row.driver = "completed" => AllSent) /\ (jobs["finalizer"].status # "absent" => AllSent)
  BY DriverHas
<1>1. /\ b.pc = "closing" /\ b.job = "driver" /\ Honest(b.base, b.now) /\ InDriver(s) /\ Owns(s)
      /\ UNCHANGED <<start, runStatus, inputs, evals, clock, request>>
  BY <1>0 DEF DriverClosesRow, DriverClosesJob, SlotFits, InDriver
<1>2. inputs' \in Seq(Events) /\ Len(inputs) <= Len(inputs') /\ (AllSent => AllSent')
  BY <1>0, <1>1 DEF AllSent
<1>3. CASE DriverClosesRow(s)
  <2> DEFINE c == [b EXCEPT !.base = b.now]
  <2>1. row' = Flush(b.base, b.now) /\ slot' = [slot EXCEPT ![s] = c] /\ jobs' = jobs /\ slot'[s] = c
    BY <1>0, <1>3 DEF DriverClosesRow
  <2>2. c \in Attempts
    BY <1>0, AttemptTypes
  <2>3. c.base = b.now /\ c.now = b.now /\ c.pc = "closing" /\ c.job = b.job
    BY <1>0, <1>1 DEF Attempts
  <2> HIDE DEF c
  <2>4. /\ row' \in Rows /\ row'.cursor = b.now.cursor /\ (row'.status = "passed" => row.status = "passed")
        /\ (row'.driver = "completed" => AllSent')
        /\ InputsInOrder' /\ b.now.cursor <= Len(inputs')
    BY <1>0, <1>1, <2>1, DriverCommits
  <2>5. SlotFits(s)'
    BY <1>0, <1>1, <1>2, <2>1, <2>3, <2>4 DEF SlotFits, InDriver, Honest
  <2>6. jobs' \in [JobKinds -> JobRows] /\ \A j \in JobKinds : jobs'[j] = jobs[j]
    BY <1>0, <2>1
  <2> QED BY <1>0, <1>1, <1>2, <2>1, <2>2, <2>4, <2>5, <2>6, DriverRest
<1>4. CASE DriverClosesJob(s)
  <2> DEFINE n == jobs["driver"].attempt
             st == b.now.driver
             r == IF st \notin DriverDone THEN Released("pending", 0)
                  ELSE Released(IF st = "completed" THEN "succeeded" ELSE st, n)
  <2>1. jobs' = [jobs EXCEPT !["driver"] = r] /\ slot' = [slot EXCEPT ![s] = NoAttempt] /\ row' = row
    BY <1>0, <1>4 DEF DriverClosesJob, _ensure_driver_job_pending, JobKinds
  <2>2. r \in JobRows /\ r.status # "running"
    <3>1. n \in 0..MaxAttempts
      BY <1>0 DEF JobKinds, JobRows
    <3> HIDE DEF n, st
    <3> QED BY <3>1, JobTypes DEF JobStatus, Claimable, DriverDone
  <2> HIDE DEF r
  <2>3. /\ jobs' \in [JobKinds -> JobRows]
        /\ \A j \in JobKinds : jobs'[j] = jobs[j] \/ jobs'[j].status # "running"
        /\ jobs'["finalizer"] = jobs["finalizer"]
    BY <1>0, <2>1, <2>2 DEF JobKinds
  <2>4. slot'[s] = NoAttempt /\ NoAttempt \in Attempts /\ slot'[s].pc = "idle"
        /\ slot'[s].base = NewRow /\ slot'[s].now = NewRow
    BY <1>0, <2>1, AttemptTypes DEF NoAttempt
  <2>5. SlotFits(s)'
    BY <2>4, RowFields DEF SlotFits, InDriver, Honest
  <2>6. InputsInOrder'
    BY <1>0, <1>1, <2>1 DEF InputsInOrder
  <2> QED BY <1>0, <1>1, <1>2, <2>1, <2>3, <2>4, <2>5, <2>6, DriverRest
<1> QED BY <1>3, <1>4

(***************************************************************************)
(* The theorems.                                                           *)
(***************************************************************************)

LEMMA VerdictInit == Init => VInv
<1> SUFFICES ASSUME Init PROVE VInv
  OBVIOUS
<1>1. PICK cast \in Casts :
        /\ slot = [s \in Slots |-> [NoAttempt EXCEPT !.pc = IF s \in cast.slots THEN "idle" ELSE "absent"]]
        /\ request = [q \in Requests |-> [NoRequest EXCEPT !.pc = IF q \in cast.requests THEN "idle" ELSE "absent"]]
  BY DEF Init
<1>2. ASSUME NEW s \in Slots
      PROVE  /\ slot[s] \in Attempts /\ slot[s].pc \in {"idle", "absent"}
             /\ slot[s].base = NewRow /\ slot[s].now = NewRow
  <2> DEFINE p == IF s \in cast.slots THEN "idle" ELSE "absent"
  <2>1. p \in {"idle", "absent"} /\ slot[s] = [NoAttempt EXCEPT !.pc = p]
    BY <1>1
  <2> HIDE DEF p
  <2>2. [NoAttempt EXCEPT !.pc = p] \in Attempts
    BY <2>1, AttemptTypes DEF SlotPcs
  <2>3. /\ [NoAttempt EXCEPT !.pc = p].base = NewRow /\ [NoAttempt EXCEPT !.pc = p].now = NewRow
        /\ [NoAttempt EXCEPT !.pc = p].pc = p
    BY DEF NoAttempt
  <2> QED BY <2>1, <2>2, <2>3
<1>3. ASSUME NEW q \in Requests
      PROVE  request[q] \in Calls /\ request[q].base = NewRow /\ request[q].now = NewRow
  <2> DEFINE p == IF q \in cast.requests THEN "idle" ELSE "absent"
  <2>1. p \in {"idle", "absent"} /\ request[q] = [NoRequest EXCEPT !.pc = p]
    BY <1>1
  <2> HIDE DEF p
  <2>2. [NoRequest EXCEPT !.pc = p] = [pc |-> p, base |-> NewRow, now |-> NewRow]
    BY DEF NoRequest
  <2> QED BY <2>1, <2>2, RowFields, CallTypes
<1>4. slot \in [Slots -> Attempts] /\ request \in [Requests -> Calls]
  BY <1>1, <1>2, <1>3
<1>5. TypeOK
  <2>1. jobs \in [JobKinds -> JobRows]
    BY JobTypes DEF Init
  <2>2. clock \in 0..Horizon
    BY HorizonFacts DEF Init
  <2>3. start \in {"new", "created", "linked", "died"} /\ row \in Rows /\ runStatus \in RunStatuses
        /\ inputs \in Seq(Events) /\ evals \in [Expectations -> Verdicts \cup {"none"}]
    BY RowFields DEF Init, RunStatuses
  <2> QED BY <1>4, <2>1, <2>2, <2>3, TypeParts
<1>6. InputsInOrder
  BY RowFields DEF Init, InputsInOrder
<1>7. \A s \in Slots : SlotFits(s)
  BY <1>2, RowFields DEF SlotFits, InDriver, Honest
<1>8. \A q \in Requests : RequestFits(q)
  BY <1>3, RowFields DEF RequestFits, Honest
<1>9. CompletedIsSent /\ row.status # "passed"
  BY RowFields DEF Init, CompletedIsSent, NoJob, JobKinds
<1> QED BY <1>5, <1>6, <1>7, <1>8, <1>9 DEF VInv

LEMMA VerdictNext == VInv /\ [Next]_vars => VInv'
<1> SUFFICES ASSUME VInv, [Next]_vars PROVE VInv'
  OBVIOUS
<1>1. CASE \/ StartCreates \/ StartLinks \/ StartDies \/ Tick
           \/ (\E r \in RunStatuses : RunAdvances(r)) \/ UNCHANGED vars
  BY <1>1, OutsideStep
<1>2. CASE \/ \E j \in JobKinds : recover_expired_lease(j)
           \/ \E s \in Slots : _record_unhandled_failure(s) \/ Crash(s) \/ \E j \in JobKinds : claim_next_job(s, j)
  BY <1>2, QueueStep
<1>3. CASE \E s \in Slots : Drive(s)
  BY <1>3, DriverLoadsStep, DriverSendsStep, DriverWaitsStep, DriverCompletesStep, DriverClosesStep DEF Drive
<1>4. CASE \E s \in Slots : Finalize(s)
  BY <1>4, FinalizerStep
<1>5. CASE \E q \in Requests : get_run(q) \/ cancel_run(q) \/ request_evaluation(q) \/ Serve(q) \/ RequestDies(q)
  BY <1>5, RequestStep
<1> QED BY <1>1, <1>2, <1>3, <1>4, <1>5 DEF Next, Work, RunStatuses

\* The row, the sessions that hold it and the inputs of the run fit together in
\* every state.
THEOREM VerdictInvariance == Spec => []VInv
  BY VerdictInit, VerdictNext, PTL DEF Spec

\* "passed" is only on record for a run that succeeded, that got every input of
\* the timeline, and whose expectations were all judged as passed: whatever rows
\* stale sessions write back (_finalize_scenario_run, Flush).
THEOREM PassedMeansEarned == Spec => []PassedIsEarned
<1>1. VInv => PassedIsEarned
  BY DEF VInv, PassedIsEarned, Earned, AllSent
<1> QED BY <1>1, VerdictInvariance, PTL

\* The timeline inputs reach the run once each and in order, and the cursor on
\* record is at most one behind (process_timeline_driver_for_run).
THEOREM InputsComeInOrder == Spec => []InputsInOrder
<1>1. VInv => InputsInOrder
  BY DEF VInv
<1> QED BY <1>1, VerdictInvariance, PTL

\* A judgement on record is never changed (process_finalizer_job).
THEOREM JudgementsStand == Spec => JudgementStands
<1> DEFINE Kept == \A e \in Expectations : evals[e] # "none" => evals'[e] = evals[e]
<1>1. ASSUME VInv, Next
      PROVE  Kept
  <2>1. evals \in [Expectations -> Verdicts \cup {"none"}]
    BY <1>1, TypeParts DEF VInv
  <2>2. CASE evals' = evals
    BY <2>2
  <2>3. CASE \E s \in Slots, v \in Verdicts : JudgeAnswers(s, v)
    BY <2>1, <2>3 DEF JudgeAnswers
  <2>4. evals' = evals \/ \E s \in Slots, v \in Verdicts : JudgeAnswers(s, v)
    <3>1. ASSUME NEW s \in Slots, Drive(s) \/ _record_unhandled_failure(s) \/ Crash(s)
                                  \/ \E j \in JobKinds : claim_next_job(s, j)
          PROVE  evals' = evals
      BY <3>1 DEF Drive, DriverLoads, DriverSends, DriverWaits, DriverCompletes, DriverClosesRow, DriverClosesJob,
         _record_unhandled_failure, Crash, claim_next_job
    <3>2. ASSUME NEW s \in Slots, FinalizerLoads(s) \/ JudgementDropped(s)
          PROVE  evals' = evals
      BY <3>2 DEF FinalizerLoads, JudgementDropped
    <3>3. ASSUME NEW q \in Requests,
                 get_run(q) \/ cancel_run(q) \/ request_evaluation(q) \/ Serve(q) \/ RequestDies(q)
          PROVE  evals' = evals
      BY <3>3 DEF get_run, cancel_run, request_evaluation, Serve, ReadCommits, CancelRuntime, CancelCommits, RequestDies
    <3>4. ASSUME \/ StartCreates \/ StartLinks \/ StartDies \/ Tick
                 \/ (\E r \in {"running", "waiting_input"} \cup TERMINAL_RUNTIME_STATUSES : RunAdvances(r))
                 \/ \E j \in JobKinds : recover_expired_lease(j)
          PROVE  evals' = evals
      BY <3>4 DEF StartCreates, StartLinks, StartDies, Tick, RunAdvances, recover_expired_lease
    <3> QED BY <1>1, <3>1, <3>2, <3>3, <3>4 DEF Next, Work, Finalize
  <2> QED BY <2>2, <2>3, <2>4
<1>2. VInv /\ [Next]_vars => [Kept]_vars
  BY <1>1
<1> HIDE DEF Kept
<1>3. Spec => [][Kept]_vars
  BY <1>2, VerdictInvariance, PTL DEF Spec
<1> QED BY <1>3 DEF JudgementStands, Kept
=============================================================================
