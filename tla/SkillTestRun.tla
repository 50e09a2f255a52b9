---------------------------- MODULE SkillTestRun ----------------------------
(***************************************************************************)
(* One scenario run of a skill test (backend/app/domain/skill_tests): its  *)
(* row, the runtime run it drives, the timeline-driver job that appends    *)
(* the inputs, the finalizer job that has each expectation judged and      *)
(* writes the verdict, and the API requests that read or cancel it.        *)
(*                                                                         *)
(* The row of a scenario run is read and written without a lock.  A        *)
(* session keeps the row as it loaded it (base) and as it wants it (now);  *)
(* a commit writes the attributes that differ, whatever the row has become *)
(* in between.  The finalizer and the finalizers of exhausted jobs load    *)
(* and commit under the lock of a job row, and are one step.  The runtime  *)
(* run is the one of RuntimeKernel, reduced to its status.                 *)
(***************************************************************************)
EXTENDS Integers, Sequences

CONSTANTS
  Slots,        \* worker slots that serve the two jobs, and their owner tokens
  Requests,     \* API requests, one call each
  InputAt,      \* InputAt[i]: the time of the i-th timeline input
  ExpectAt,     \* ExpectAt[e]: the cutoff of the e-th expectation
  MaxAttempts,  \* runtime_job_max_attempts
  Serves,       \* Serves[s]: the jobs whose type belongs to the pool of s
  Casts,        \* bound: the slots and the requests that take part in a behaviour
  None          \* no owner, no expectation

ASSUME TimelineAssumption == InputAt \in Seq(Nat) /\ ExpectAt \in Seq(Nat)
ASSUME AttemptsAssumption == MaxAttempts \in Nat \ {0}
ASSUME CastsAssumption == Casts \subseteq [slots : SUBSET Slots, requests : SUBSET Requests]
ASSUME NoneAssumption == None \notin Slots /\ None \notin Nat

VARIABLES
  start,      \* the start_run request: where its two commits are
  row,        \* skill_test_scenario_run: status, driver_status, driver_cursor
  runStatus,  \* status of the runtime run
  inputs,     \* the timeline inputs in the run's terminal event stream
  evals,      \* skill_test_expectation_evaluation, by expectation
  jobs,       \* the driver job and the finalizer job
  clock,      \* scenario time
  slot,       \* an attempt in a worker slot
  request     \* an API request

vars == <<start, row, runStatus, inputs, evals, jobs, clock, slot, request>>

Events == 1..Len(InputAt)
Expectations == 1..Len(ExpectAt)
JobKinds == {"driver", "finalizer"}
Claimable == {"pending", "retryable_failed"}
JobStatus == Claimable \cup {"absent", "running", "succeeded", "failed", "cancelled"}
TERMINAL_SCENARIO_RUN_STATUSES == {"passed", "failed", "cancelled"}
TERMINAL_RUNTIME_STATUSES == {"succeeded", "failed", "cancelled"}
DriverDone == {"completed", "failed", "cancelled"}
Verdicts == {"passed", "failed", "inconclusive"}
\* The end of scenario time: the last input or the last cutoff.
Times == {0} \cup {InputAt[i] : i \in Events} \cup {ExpectAt[e] : e \in Expectations}
Horizon == CHOOSE t \in Times : \A x \in Times : x <= t

Rows == [status : {"running", "waiting_input"} \cup TERMINAL_SCENARIO_RUN_STATUSES,
         driver : {"pending", "waiting_time"} \cup DriverDone,
         cursor : 0..Len(InputAt)]
NewRow == [status |-> "running", driver |-> "pending", cursor |-> 0]
NoJob == [status |-> "absent", owner |-> None, attempt |-> 0]

\* An idle slot, and an idle request.
NoAttempt == [pc |-> "idle", job |-> "driver", base |-> NewRow, now |-> NewRow,
              run |-> "running", sentAny |-> FALSE, expectation |-> None]
NoRequest == [pc |-> "idle", base |-> NewRow, now |-> NewRow]
Answered == [NoRequest EXCEPT !.pc = "answered"]

TypeOK ==
  /\ start \in {"new", "created", "linked", "died"}
  /\ row \in Rows
  /\ runStatus \in {"running", "waiting_input"} \cup TERMINAL_RUNTIME_STATUSES
  /\ inputs \in Seq(Events)
  /\ evals \in [Expectations -> Verdicts \cup {"none"}]
  /\ jobs \in [JobKinds -> [status : JobStatus, owner : Slots \cup {None}, attempt : 0..MaxAttempts]]
  /\ clock \in 0..Horizon
  /\ slot \in [Slots -> [pc : {"absent", "idle", "claimed", "driving", "closing", "judging"},
                         job : JobKinds, base : Rows, now : Rows,
                         run : {"running", "waiting_input"} \cup TERMINAL_RUNTIME_STATUSES,
                         sentAny : BOOLEAN, expectation : Expectations \cup {None}]]
  /\ request \in [Requests -> [pc : {"absent", "idle", "reading", "cancelling", "cancelled", "answered"},
                               base : Rows, now : Rows]]

Init ==
  /\ start = "new" /\ row = NewRow /\ runStatus = "running" /\ inputs = <<>>
  /\ evals = [e \in Expectations |-> "none"]
  /\ jobs = [j \in JobKinds |-> NoJob]
  /\ clock = 0
  /\ \E cast \in Casts :
       /\ slot = [s \in Slots |-> [NoAttempt EXCEPT !.pc = IF s \in cast.slots THEN "idle" ELSE "absent"]]
       /\ request = [q \in Requests |-> [NoRequest EXCEPT !.pc = IF q \in cast.requests THEN "idle" ELSE "absent"]]

(***************************************************************************)
(* The row.                                                                *)
(***************************************************************************)

\* Mutant of Flush: the whole row is written back.
FlushAll(base, now) == IF base = now THEN row ELSE now

\* What a commit makes of the row: the attributes this session changed.
Flush(base, now) ==
  [f \in DOMAIN row |-> IF now[f] # base[f] THEN now[f] ELSE row[f]]

Cancelled(v) == [v EXCEPT !.status = "cancelled", !.driver = "cancelled"]

\* The status of an open scenario run follows the run with status r.
_sync_scenario_run_from_runtime(v, r) ==
  IF v.status \in TERMINAL_SCENARIO_RUN_STATUSES THEN v
  ELSE IF r = "cancelled" THEN Cancelled(v)
  ELSE [v EXCEPT !.status = IF r = "waiting_input" THEN r ELSE "running"]

\* Mutant of _finalize_scenario_run: an inconclusive judgement does not count.
PassUnlessFailed(v, ev) ==
  [v EXCEPT !.status = IF runStatus = "succeeded" /\ \A e \in Expectations : ev[e] # "failed"
                       THEN "passed" ELSE "failed"]

\* The verdict, once every expectation is judged and the run is over.
_finalize_scenario_run(v, ev) ==
  [v EXCEPT !.status = IF runStatus = "succeeded" /\ \A e \in Expectations : ev[e] = "passed"
                       THEN "passed" ELSE "failed"]

(***************************************************************************)
(* The jobs.                                                               *)
(***************************************************************************)

\* The session fence: the commits of an attempt need its lease.
Owns(s) == jobs[slot[s].job].status = "running" /\ jobs[slot[s].job].owner = s

Released(st, n) == [status |-> st, owner |-> None, attempt |-> n]

_ensure_driver_job_pending == Released("pending", 0)

\* A finalizer that runs or waits stays as it is, another one starts again.
_ensure_finalizer_job_pending ==
  IF jobs["finalizer"].status = "running"
     \/ (jobs["finalizer"].status \in Claimable /\ jobs["finalizer"].attempt < MaxAttempts)
  THEN jobs["finalizer"] ELSE Released("pending", 0)

_reschedule_finalizer_job == Released("pending", 0)

_finish_finalizer_job(v) ==
  Released(IF v.status = "cancelled" THEN "cancelled" ELSE "succeeded", jobs["finalizer"].attempt)

\* _cancel_driver_job and _cancel_finalizer_job: only the status is written.
CancelJob(j) ==
  IF j.status \in {"absent", "succeeded", "failed", "cancelled"} THEN j
  ELSE [j EXCEPT !.status = "cancelled"]

finalize_exhausted_timeline_driver_job(v) ==
  IF v.driver \in DriverDone THEN v ELSE [v EXCEPT !.status = "failed", !.driver = "failed"]

\* Mutant of finalize_exhausted_scenario_finalizer_job: the row stays open.
LeaveScenarioOpen(v) == v

finalize_exhausted_scenario_finalizer_job(v) ==
  IF v.status \in TERMINAL_SCENARIO_RUN_STATUSES THEN v ELSE [v EXCEPT !.status = "failed"]

\* An attempt on job j ended without a result (GiveUpAttempt of JobQueue).
GiveUpAttempt(j) ==
  IF jobs[j].attempt < MaxAttempts
  THEN /\ jobs' = [jobs EXCEPT ![j] = Released("retryable_failed", jobs[j].attempt)]
       /\ UNCHANGED row
  ELSE /\ jobs' = [jobs EXCEPT ![j] = Released("failed", jobs[j].attempt)]
       /\ row' = IF j = "driver" THEN finalize_exhausted_timeline_driver_job(row)
                 ELSE finalize_exhausted_scenario_finalizer_job(row)

claim_next_job(s, j) ==
  /\ slot[s].pc = "idle" /\ j \in Serves[s]
  /\ jobs[j].status \in Claimable /\ jobs[j].attempt < MaxAttempts
  /\ jobs' = [jobs EXCEPT ![j] = [status |-> "running", owner |-> s, attempt |-> @.attempt + 1]]
  /\ slot' = [slot EXCEPT ![s] = [NoAttempt EXCEPT !.pc = "claimed", !.job = j]]
  /\ UNCHANGED <<start, row, runStatus, inputs, evals, clock, request>>

\* The lease of the attempt on j ran out, be the attempt dead or only cut off.
recover_expired_lease(j) ==
  /\ jobs[j].status = "running"
  /\ GiveUpAttempt(j)
  /\ UNCHANGED <<start, runStatus, inputs, evals, clock, slot, request>>

\* The handler raised: a commit that finds the lease lost, an input for a run
\* that has ended, a judge that failed.  The worker records the failure if the
\* job is still the attempt's.
_record_unhandled_failure(s) ==
  /\ slot[s].pc \notin {"absent", "idle"}
  /\ IF Owns(s) THEN GiveUpAttempt(slot[s].job) ELSE UNCHANGED <<jobs, row>>
  /\ slot' = [slot EXCEPT ![s] = NoAttempt]
  /\ UNCHANGED <<start, runStatus, inputs, evals, clock, request>>

Crash(s) ==
  /\ slot[s].pc \notin {"absent", "idle"}
  /\ slot' = [slot EXCEPT ![s] = NoAttempt]
  /\ UNCHANGED <<start, row, runStatus, inputs, evals, jobs, clock, request>>

(***************************************************************************)
(* start_run.  create_invocation commits the session: the scenario run is  *)
(* in the database before it is linked to its run and has a driver job.    *)
(***************************************************************************)

StartCreates ==
  /\ start = "new"
  /\ start' = "created"
  /\ UNCHANGED <<row, runStatus, inputs, evals, jobs, clock, slot, request>>

StartLinks ==
  /\ start = "created"
  /\ start' = "linked"
  /\ row' = Flush(NewRow, _sync_scenario_run_from_runtime(NewRow, runStatus))
  /\ jobs' = [jobs EXCEPT !["driver"] = _ensure_driver_job_pending]
  /\ UNCHANGED <<runStatus, inputs, evals, clock, slot, request>>

StartDies ==
  /\ start = "created"
  /\ start' = "died"
  /\ UNCHANGED <<row, runStatus, inputs, evals, jobs, clock, slot, request>>

(***************************************************************************)
(* The environment: the run advances, and time passes.                     *)
(***************************************************************************)

RunAdvances(r) ==
  /\ start # "new" /\ runStatus \notin TERMINAL_RUNTIME_STATUSES /\ r # runStatus
  /\ runStatus' = r
  /\ UNCHANGED <<start, row, inputs, evals, jobs, clock, slot, request>>

Tick ==
  /\ start # "new" /\ clock < Horizon
  /\ clock' = clock + 1
  /\ UNCHANGED <<start, row, runStatus, inputs, evals, jobs, slot, request>>

(***************************************************************************)
(* process_driver_job.                                                     *)
(***************************************************************************)

\* Load row and run.  A cancelled run, or one that ended before its inputs
\* were sent, is over: what remains are the commits.
DriverLoads(s) ==
  LET v == _sync_scenario_run_from_runtime(row, runStatus)
      over == v.status = "cancelled" \/ v.driver = "cancelled"
      early == runStatus \in TERMINAL_RUNTIME_STATUSES /\ v.cursor < Len(InputAt)
  IN
  /\ slot[s].pc = "claimed" /\ slot[s].job = "driver" /\ Owns(s)
  /\ slot' = [slot EXCEPT ![s].base = row, ![s].run = runStatus,
                          ![s].pc = IF over \/ early THEN "closing" ELSE "driving",
                          ![s].now = IF ~over /\ early
                                     THEN [v EXCEPT !.status = "failed", !.driver = "failed"] ELSE v]
  /\ UNCHANGED <<start, row, runStatus, inputs, evals, jobs, clock, request>>

Due(s) == slot[s].now.cursor < Len(InputAt) /\ InputAt[slot[s].now.cursor + 1] <= clock

\* append_terminal_event for the next due input: it commits the session with
\* it, so that the row has the cursor as it was before this input.  An input
\* that is already there (external_event_id) commits nothing.
DriverSends(s) ==
  LET i == slot[s].now.cursor + 1 IN
  /\ slot[s].pc = "driving" /\ Due(s)
  /\ \/ /\ \E k \in 1..Len(inputs) : inputs[k] = i
        /\ slot' = [slot EXCEPT ![s].now.cursor = i, ![s].run = runStatus, ![s].sentAny = TRUE]
        /\ UNCHANGED <<row, inputs>>
     \/ /\ \A k \in 1..Len(inputs) : inputs[k] # i
        /\ Owns(s) /\ runStatus \notin TERMINAL_RUNTIME_STATUSES
        /\ inputs' = Append(inputs, i)
        /\ row' = Flush(slot[s].base, slot[s].now)
        /\ slot' = [slot EXCEPT ![s].base = slot[s].now, ![s].now.cursor = i,
                                ![s].run = runStatus, ![s].sentAny = TRUE]
  /\ UNCHANGED <<start, runStatus, evals, jobs, clock, request>>

\* The next input is not due.  After a batch the row follows the run once
\* more; a run that ended meanwhile ends the driver.  Otherwise the job goes
\* back to the queue in the same commit.
DriverWaits(s) ==
  LET v == IF slot[s].sentAny THEN _sync_scenario_run_from_runtime(slot[s].now, slot[s].run)
           ELSE slot[s].now
      early == slot[s].sentAny /\ slot[s].run \in TERMINAL_RUNTIME_STATUSES
  IN
  /\ slot[s].pc = "driving" /\ slot[s].now.cursor < Len(InputAt) /\ ~Due(s)
  /\ IF early
     THEN /\ slot' = [slot EXCEPT ![s].pc = "closing",
                                  ![s].now = [v EXCEPT !.status = "failed", !.driver = "failed"]]
          /\ UNCHANGED <<row, jobs>>
     ELSE /\ Owns(s)
          /\ row' = Flush(slot[s].base, [v EXCEPT !.driver = "waiting_time"])
          /\ jobs' = [jobs EXCEPT !["driver"] = _ensure_driver_job_pending]
          /\ slot' = [slot EXCEPT ![s] = NoAttempt]
  /\ UNCHANGED <<start, runStatus, inputs, evals, clock, request>>

\* Every input is sent: the row and the finalizer job in one commit.
DriverCompletes(s) ==
  LET v == [slot[s].now EXCEPT !.driver = "completed"]
      u == IF slot[s].sentAny THEN _sync_scenario_run_from_runtime(v, slot[s].run) ELSE v
  IN
  /\ slot[s].pc = "driving" /\ slot[s].now.cursor = Len(InputAt) /\ Owns(s)
  /\ row' = Flush(slot[s].base, u)
  /\ jobs' = [jobs EXCEPT !["finalizer"] = _ensure_finalizer_job_pending]
  /\ slot' = [slot EXCEPT ![s].pc = "closing", ![s].base = u, ![s].now = u,
                          ![s].run = "running", ![s].sentAny = FALSE]
  /\ UNCHANGED <<start, runStatus, inputs, evals, clock, request>>

\* The early exits commit the row first and the job in a second transaction.
DriverClosesRow(s) ==
  /\ slot[s].pc = "closing" /\ Owns(s) /\ slot[s].base # slot[s].now
  /\ row' = Flush(slot[s].base, slot[s].now)
  /\ slot' = [slot EXCEPT ![s].base = slot[s].now]
  /\ UNCHANGED <<start, runStatus, inputs, evals, jobs, clock, request>>

DriverClosesJob(s) ==
  LET d == slot[s].now.driver IN
  /\ slot[s].pc = "closing" /\ Owns(s) /\ slot[s].base = slot[s].now
  /\ jobs' = [jobs EXCEPT !["driver"] =
                IF d \notin DriverDone THEN _ensure_driver_job_pending
                ELSE Released(IF d = "completed" THEN "succeeded" ELSE d, @.attempt)]
  /\ slot' = [slot EXCEPT ![s] = NoAttempt]
  /\ UNCHANGED <<start, row, runStatus, inputs, evals, clock, request>>

(***************************************************************************)
(* process_finalizer_job.                                                  *)
(***************************************************************************)

Missing(ev) == {e \in Expectations : ev[e] = "none"}

Eligible ==
  {e \in Missing(evals) : runStatus \in TERMINAL_RUNTIME_STATUSES \/ ExpectAt[e] <= clock}

\* Nothing to judge now: the verdict, or another round later.
FinalizerConcludes(ev) ==
  IF Missing(ev) = {} /\ runStatus \in TERMINAL_RUNTIME_STATUSES
  THEN LET v == _finalize_scenario_run(row, ev) IN
       row' = v /\ jobs' = [jobs EXCEPT !["finalizer"] = _finish_finalizer_job(v)]
  ELSE UNCHANGED row /\ jobs' = [jobs EXCEPT !["finalizer"] = _reschedule_finalizer_job]

\* The first transaction: finish, conclude, or choose an expectation to judge.
FinalizerLoads(s) ==
  /\ slot[s].pc = "claimed" /\ slot[s].job = "finalizer" /\ Owns(s)
  /\ \/ /\ row.status \in TERMINAL_SCENARIO_RUN_STATUSES
        /\ jobs' = [jobs EXCEPT !["finalizer"] = _finish_finalizer_job(row)]
        /\ slot' = [slot EXCEPT ![s] = NoAttempt]
        /\ UNCHANGED row
     \/ /\ row.status \notin TERMINAL_SCENARIO_RUN_STATUSES /\ runStatus = "cancelled"
        /\ row' = [row EXCEPT !.status = "cancelled"]
        /\ jobs' = [jobs EXCEPT !["finalizer"] = _finish_finalizer_job(row')]
        /\ slot' = [slot EXCEPT ![s] = NoAttempt]
     \/ /\ row.status \notin TERMINAL_SCENARIO_RUN_STATUSES /\ runStatus # "cancelled"
        /\ Eligible = {}
        /\ FinalizerConcludes(evals)
        /\ slot' = [slot EXCEPT ![s] = NoAttempt]
     \/ /\ row.status \notin TERMINAL_SCENARIO_RUN_STATUSES /\ runStatus # "cancelled"
        /\ \E e \in Eligible :
             /\ \A f \in Eligible : e <= f
             /\ slot' = [slot EXCEPT ![s].pc = "judging", ![s].expectation = e]
        /\ UNCHANGED <<row, jobs>>
  /\ UNCHANGED <<start, runStatus, inputs, evals, clock, request>>

\* Mutant of JudgeAnswers: an evaluation that exists is replaced.
JudgeReplaces(s, v) ==
  /\ slot[s].pc = "judging"
  /\ evals' = [evals EXCEPT ![slot[s].expectation] = v]
  /\ FinalizerConcludes(evals')
  /\ slot' = [slot EXCEPT ![s] = NoAttempt]
  /\ UNCHANGED <<start, runStatus, inputs, clock, request>>

\* The judge answered v (or inconclusive in place of the last exception): the
\* second transaction, if the attempt still owns the job.
JudgeAnswers(s, v) ==
  LET e == slot[s].expectation
      ev == [evals EXCEPT ![e] = IF @ = "none" THEN v ELSE @]
  IN
  /\ slot[s].pc = "judging" /\ Owns(s)
  /\ IF row.status \in TERMINAL_SCENARIO_RUN_STATUSES
     THEN /\ jobs' = [jobs EXCEPT !["finalizer"] = _finish_finalizer_job(row)]
          /\ UNCHANGED <<row, evals>>
     ELSE evals' = ev /\ FinalizerConcludes(ev)
  /\ slot' = [slot EXCEPT ![s] = NoAttempt]
  /\ UNCHANGED <<start, runStatus, inputs, clock, request>>

\* The job is no longer the attempt's: the answer is dropped.
JudgementDropped(s) ==
  /\ slot[s].pc = "judging" /\ ~Owns(s)
  /\ slot' = [slot EXCEPT ![s] = NoAttempt]
  /\ UNCHANGED <<start, row, runStatus, inputs, evals, jobs, clock, request>>

(***************************************************************************)
(* API requests.                                                           *)
(***************************************************************************)

\* The run as a request finds it: none before the scenario run is linked.
Synced(v) == IF start = "linked" THEN _sync_scenario_run_from_runtime(v, runStatus) ELSE v

\* get_run and list_runs: what they read they also write back.
get_run(q) ==
  /\ request[q].pc = "idle" /\ start # "new"
  /\ request' = [request EXCEPT ![q] = [pc |-> "reading", base |-> row, now |-> Synced(row)]]
  /\ UNCHANGED <<start, row, runStatus, inputs, evals, jobs, clock, slot>>

ReadCommits(q) ==
  /\ request[q].pc = "reading"
  /\ row' = Flush(request[q].base, request[q].now)
  /\ request' = [request EXCEPT ![q] = Answered]
  /\ UNCHANGED <<start, runStatus, inputs, evals, jobs, clock, slot>>

\* cancel_run: refused for a verdict.  The run is cancelled by a commit of its
\* own, then the row and the jobs; of a cancelled scenario run, only the jobs.
cancel_run(q) ==
  LET v == Synced(row)
      linked == start = "linked"
  IN
  /\ request[q].pc = "idle" /\ start # "new"
  /\ v.status \notin {"passed", "failed"}
  /\ request' = [request EXCEPT ![q] =
       [pc |-> IF linked /\ v.status # "cancelled" THEN "cancelling" ELSE "cancelled",
        base |-> row,
        now |-> IF linked \/ v.status = "cancelled" THEN v ELSE Cancelled(v)]]
  /\ UNCHANGED <<start, row, runStatus, inputs, evals, jobs, clock, slot>>

CancelRuntime(q) ==
  LET v == request[q].now IN
  /\ request[q].pc = "cancelling"
  /\ \/ /\ runStatus \notin TERMINAL_RUNTIME_STATUSES
        /\ runStatus' = "cancelled"
        /\ row' = Flush(request[q].base, v)
        /\ request' = [request EXCEPT ![q] = [pc |-> "cancelled", base |-> v, now |-> Cancelled(v)]]
     \/ /\ runStatus = "cancelled"
        /\ request' = [request EXCEPT ![q].pc = "cancelled", ![q].now = Cancelled(v)]
        /\ UNCHANGED <<runStatus, row>>
     \/ /\ runStatus \in {"succeeded", "failed"}
        /\ request' = [request EXCEPT ![q] = Answered]
        /\ UNCHANGED <<runStatus, row>>
  /\ UNCHANGED <<start, inputs, evals, jobs, clock, slot>>

CancelCommits(q) ==
  /\ request[q].pc = "cancelled"
  /\ row' = Flush(request[q].base, request[q].now)
  /\ jobs' = [j \in JobKinds |-> CancelJob(jobs[j])]
  /\ request' = [request EXCEPT ![q] = Answered]
  /\ UNCHANGED <<start, runStatus, inputs, evals, clock, slot>>

\* request_evaluation wakes the finalizer of an open scenario run.
request_evaluation(q) ==
  /\ request[q].pc = "idle" /\ start = "linked"
  /\ row.status \notin TERMINAL_SCENARIO_RUN_STATUSES /\ row.driver = "completed"
  /\ jobs' = [jobs EXCEPT !["finalizer"] = _ensure_finalizer_job_pending]
  /\ request' = [request EXCEPT ![q] = Answered]
  /\ UNCHANGED <<start, row, runStatus, inputs, evals, clock, slot>>

RequestDies(q) ==
  /\ request[q].pc \notin {"absent", "idle", "answered"}
  /\ request' = [request EXCEPT ![q] = Answered]
  /\ UNCHANGED <<start, row, runStatus, inputs, evals, jobs, clock, slot>>

(***************************************************************************)
(* The specification.                                                      *)
(***************************************************************************)

Drive(s) ==
  \/ DriverLoads(s) \/ DriverSends(s) \/ DriverWaits(s) \/ DriverCompletes(s)
  \/ DriverClosesRow(s) \/ DriverClosesJob(s)

Finalize(s) ==
  \/ FinalizerLoads(s) \/ JudgementDropped(s)
  \/ \E v \in Verdicts : JudgeAnswers(s, v)

Work(s) == Drive(s) \/ Finalize(s) \/ _record_unhandled_failure(s)

Serve(q) == ReadCommits(q) \/ CancelRuntime(q) \/ CancelCommits(q)

Next ==
  \/ StartCreates \/ StartLinks \/ StartDies \/ Tick
  \/ \E r \in {"running", "waiting_input"} \cup TERMINAL_RUNTIME_STATUSES : RunAdvances(r)
  \/ \E j \in JobKinds : recover_expired_lease(j)
  \/ \E s \in Slots : Work(s) \/ Crash(s) \/ \E j \in JobKinds : claim_next_job(s, j)
  \/ \E q \in Requests : get_run(q) \/ cancel_run(q) \/ request_evaluation(q) \/ Serve(q) \/ RequestDies(q)

Spec == Init /\ [][Next]_vars

Dead(j) == jobs[j].status = "running" /\ slot[jobs[j].owner].pc = "idle"

(***************************************************************************)
(* Fairness.  Not everything stops while there is something to do: a slot  *)
(* goes on with its attempt or claims a job, a lease that nobody renews is *)
(* recovered, time passes, a request is answered.  Attempts, requests and  *)
(* time are bounded, so none of them needs a turn of its own.  Neither the *)
(* run nor the users owe a step.                                           *)
(***************************************************************************)
FairSpec ==
  Spec /\ WF_vars(\/ Tick
                  \/ \E s \in Slots : Work(s)
                  \/ \E j \in JobKinds : \/ Dead(j) /\ recover_expired_lease(j)
                                         \/ \E s \in Slots : claim_next_job(s, j)
                  \/ \E q \in Requests : Serve(q))

(***************************************************************************)
(* Properties.                                                             *)
(***************************************************************************)

RunEnded == runStatus \in TERMINAL_RUNTIME_STATUSES
Concluded == row.status \in TERMINAL_SCENARIO_RUN_STATUSES

\* "passed" is only ever written for a run that succeeded, got every input of
\* the timeline, and whose every expectation was judged as passed; requests
\* that write back an old row never make it true (_finalize_scenario_run).
PassedIsEarned ==
  /\ TypeOK
  /\ row.status = "passed" =>
       /\ runStatus = "succeeded" /\ Len(inputs) = Len(InputAt)
       /\ \A e \in Expectations : evals[e] = "passed"

\* The run gets the timeline inputs once each and in order, through crashes
\* between an append and the commit of the cursor; the cursor on record is at most
\* one input behind, and no session takes it back with a row it read earlier
\* (process_timeline_driver_for_run, Flush).
InputsInOrder ==
  /\ inputs = [i \in 1..Len(inputs) |-> i]
  /\ row.cursor <= Len(inputs) /\ Len(inputs) <= row.cursor + 1

\* A judgement on record is never changed: not by a retry, not by an attempt
\* that was cut off while the judge was thinking (process_finalizer_job).
JudgementStands ==
  [][\A e \in Expectations : evals[e] # "none" => evals'[e] = evals[e]]_vars

\* When the run is over, the scenario run gets a verdict, whatever the workers
\* go through: the driver fails it, or the finalizer concludes.  An API request
\* that reads the row as well may cost it its verdict (VerdictIsWritten).
VerdictFollowsRun ==
  (start = "linked" /\ RunEnded) ~> (Concluded \/ \E q \in Requests : request[q].pc \notin {"absent", "idle"})

\* "When all expectations are persisted and the run is over, the finalizer
\* writes passed or failed."
VerdictIsWritten ==
  (row.driver = "completed" /\ RunEnded /\ Missing(evals) = {}) ~> Concluded
=============================================================================
