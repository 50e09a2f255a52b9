---------------------------- MODULE RuntimeKernel ----------------------------
(***************************************************************************)
(* The Runtime Kernel of PSOP (backend/app/domain/runtime/service.py): one *)
(* run, its single runtime job, its terminal event stream, its session     *)
(* token with the snapshot history, and the attempts of process_run that   *)
(* advance it.  Users append terminal events and cancel while an attempt   *)
(* is inside a model call; attempts lose their lease, crash and are        *)
(* retried.  A test may fork the run from a moment of its past; the module *)
(* then follows the fork.                                                  *)
(*                                                                         *)
(* A transaction is one step: every write takes the lock of the job row    *)
(* first.  The calls of a node to models, tools and the object store lie   *)
(* between two steps.  The queue around the job is the one of JobQueue,    *)
(* reduced to what an attempt of process_run can see of it.                *)
(***************************************************************************)
EXTENDS Integers, Sequences, FiniteSets

CONSTANTS
  Attempts,     \* attempts of process_run, and the owner tokens of their leases
  Nodes,        \* the node ids of the execution graph
  Entry,        \* init.entry_node
  Kind,         \* Kind[n]: plain, instruct (wait_after_output), evaluate, success or aborted (terminal)
  Resume,       \* Resume[n]: resume_phase of the checkpoint that instruct node n opens
  Moves,        \* <<n, d, m>>: the decision d of node n resolves to the phase m
  MaxSteps,     \* policies.max_steps
  MaxAttempts,  \* runtime_job_max_attempts
  MaxEvents,    \* bound: users append only below this many terminal events
  MaxForks,     \* bound: forks, each of the run that the last one began
  None          \* no owner, no resume phase

Decisions == {"next", "retry", "proceed", "complete", "abort"}
Kinds == {"plain", "instruct", "evaluate", "success", "aborted"}

ASSUME GraphAssumption ==
  /\ Entry \in Nodes
  /\ Kind \in [Nodes -> Kinds]
  /\ Resume \in [Nodes -> Nodes \cup {None}]
  /\ \A n \in Nodes : Kind[n] = "instruct" => Resume[n] \in Nodes
  /\ Moves \subseteq Nodes \X Decisions \X Nodes
ASSUME BoundsAssumption ==
  MaxSteps \in Nat \ {0} /\ MaxAttempts \in Nat \ {0} /\ MaxEvents \in Nat /\ MaxForks \in Nat
ASSUME NamesAssumption ==
  None \notin Attempts /\ None \notin Nodes /\ Nodes \cap {"waiting", "aborted", "cancelled"} = {}

VARIABLES
  \* the run row, its terminal session and its terminal events
  runStatus, sessionOpen, events,
  token,        \* the token of the latest snapshot
  snapshotSeq,  \* run.latest_snapshot_seq
  \* the job row job:runtime:{run_id}
  jobStatus, jobOwner, attemptNo,
  rerun,        \* payload.rerun_requested
  \* an attempt of process_run
  pc,
  mem,          \* its session token
  seen,         \* its latest_snapshot_seq
  after,        \* turn_input_accept_after_seq
  steps,        \* iterations of the runtime loop
  \* the forks
  forks,        \* how many there were
  passed        \* the inputs that a fork copied and its cursor passed over

run == <<runStatus, sessionOpen, events, token, snapshotSeq>>
job == <<jobStatus, jobOwner, attemptNo, rerun>>
attempt == <<pc, mem, seen, after, steps>>
lineage == <<forks, passed>>
vars == <<run, job, attempt, lineage>>

Ended == {"succeeded", "aborted", "failed", "cancelled"}
RunStatus == {"waiting_runtime", "queued", "running", "waiting_input"} \cup Ended
Claimable == {"pending", "retryable_failed"}
JobStatus == Claimable \cup {"absent", "running", "succeeded", "failed", "cancelled"}
Directions == {"input", "output"}

\* What the token keeps of control.wait: the input window, where to resume, and
\* the evidence delivered to the checkpoint.  "none" before the first one.
NoWait == [status |-> "none", accept |-> 0, resume |-> None, evidence |-> {}]

\* The token: status and phase of the graph, the cursor over the terminal events
\* (metadata.terminal_cursor) and the ledger of the inputs a checkpoint used
\* (control.terminal_consumption).
InitialToken ==
  [status |-> "running", phase |-> Entry, cursor |-> 0,
   consumed |-> <<>>, wait |-> NoWait]

Seqs == 1..Len(events)
Inputs == {s \in Seqs : events[s] = "input"}
Consumed(t) == {t.consumed[i] : i \in 1..Len(t.consumed)}

TokenOK(t) ==
  /\ DOMAIN t = {"status", "phase", "cursor", "consumed", "wait"}
  /\ t.status \in {"running", "waiting", "success", "aborted", "cancelled"}
  /\ t.phase \in Nodes \cup {"waiting", "aborted", "cancelled"}
  /\ t.cursor \in 0..Len(events)
  /\ t.consumed \in Seq(Seqs)
  /\ DOMAIN t.wait = DOMAIN NoWait
  /\ t.wait.status \in {"none", "waiting", "received"}
  /\ t.wait.accept \in 0..Len(events)
  /\ t.wait.resume \in Nodes \cup {None}
  /\ t.wait.evidence \subseteq Seqs

TypeOK ==
  /\ runStatus \in RunStatus
  /\ sessionOpen \in BOOLEAN
  /\ events \in Seq(Directions)
  /\ TokenOK(token)
  /\ snapshotSeq \in Nat
  /\ jobStatus \in JobStatus
  /\ jobOwner \in Attempts \cup {None}
  /\ attemptNo \in 0..MaxAttempts
  /\ rerun \in BOOLEAN
  /\ pc \in [Attempts -> {"idle", "claimed", "loop", "raised"}]
  /\ \A a \in Attempts : TokenOK(mem[a])
  /\ seen \in [Attempts -> Nat]
  /\ after \in [Attempts -> 0..Len(events)]
  /\ steps \in [Attempts -> 0..MaxSteps]
  /\ forks \in 0..MaxForks
  /\ passed \subseteq Seqs

\* create_invocation: run, open terminal session, snapshot 0 and pending job.
Init ==
  /\ runStatus = "waiting_runtime" /\ sessionOpen = TRUE /\ events = <<>>
  /\ token = InitialToken /\ snapshotSeq = 0
  /\ jobStatus = "pending" /\ jobOwner = None /\ attemptNo = 0 /\ rerun = FALSE
  /\ pc = [a \in Attempts |-> "idle"]
  /\ mem = [a \in Attempts |-> InitialToken]
  /\ seen = [a \in Attempts |-> 0]
  /\ after = [a \in Attempts |-> 0]
  /\ steps = [a \in Attempts |-> 0]
  /\ forks = 0 /\ passed = {}

(***************************************************************************)
(* The token and the terminal events.                                      *)
(***************************************************************************)

Largest(S) == CHOOSE x \in S : \A y \in S : y <= x

_token_is_waiting_for_terminal_input(t) == t.status = "waiting" /\ t.wait.status # "none"

_can_consume_terminal_input_for_wait(t, s) ==
  events[s] = "input" /\ s > t.wait.accept /\ s \notin Consumed(t)

\* The terminal events of S by their seq_no.
InOrder(S) ==
  CHOOSE q \in [1..Cardinality(S) -> S] : \A i, k \in DOMAIN q : i < k => q[i] < q[k]

\* The inputs of (lo, Len(events)] that the checkpoint of t may use, in order.
Deliverable(t, lo) ==
  InOrder({s \in (lo + 1)..Len(events) : _can_consume_terminal_input_for_wait(t, s)})

\* The inputs in q become evidence, and the token resumes.
Deliver(t, q) ==
  [t EXCEPT !.consumed = @ \o q,
            !.wait.evidence = @ \cup {q[i] : i \in 1..Len(q)},
            !.wait.status = "received",
            !.status = "running",
            !.phase = t.wait.resume]

\* The cursor passes every event there is; the inputs the open checkpoint
\* accepts are delivered to it.
_sync_terminal_events(t) ==
  LET q == Deliverable(t, t.cursor)
      u == [t EXCEPT !.cursor = Len(events)]
  IN  IF q = <<>> THEN u ELSE Deliver(u, q)

\* A checkpoint that opens takes the inputs that are already in its window.
\* The cursor moves to the last of them.
_consume_pending_terminal_inputs_for_wait(t) ==
  LET q == Deliverable(t, t.wait.accept)
  IN  IF q = <<>> THEN t
      ELSE Deliver([t EXCEPT !.cursor = Largest({@, q[Len(q)]})], q)

\* The first checkpoint accepts what came after the cursor of this turn, a
\* later one only what comes after it opens.
_wait_checkpoint_accept_after_seq(t, default) ==
  Largest({default} \cup Consumed(t)
          \cup IF t.wait.status = "none" THEN {} ELSE {t.cursor, Len(events)})

\* Mutant of _enter_wait_checkpoint: the evidence of the last checkpoint stays.
EnterWithOldEvidence(t, n, default) ==
  [t EXCEPT !.wait.status = "waiting", !.wait.resume = Resume[n],
            !.wait.accept = _wait_checkpoint_accept_after_seq(t, default),
            !.status = "waiting",
            !.phase = "waiting"]

_enter_wait_checkpoint(t, n, default) ==
  [t EXCEPT !.wait = [status |-> "waiting", evidence |-> {}, resume |-> Resume[n],
                      accept |-> _wait_checkpoint_accept_after_seq(t, default)],
            !.status = "waiting",
            !.phase = "waiting"]

\* Back to the open checkpoint: the node asks for more evidence.
BackToWait(t) ==
  IF t.wait.status = "none" THEN t
  ELSE [t EXCEPT !.wait.status = "waiting", !.status = "waiting", !.phase = "waiting"]

\* _merge_observation and _apply_node_interaction for node n with decision d
\* resolved to m: the next token.
NextToken(t, n, d, m, default) ==
  CASE Kind[n] = "plain" -> [t EXCEPT !.phase = m]
    [] Kind[n] = "instruct" ->
         _consume_pending_terminal_inputs_for_wait(_enter_wait_checkpoint(t, n, default))
    [] Kind[n] = "evaluate" ->
         IF d = "retry" THEN BackToWait(t)
         ELSE IF d = "abort" /\ Kind[m] # "aborted"
              THEN [t EXCEPT !.status = "aborted", !.phase = "aborted"]
              ELSE [t EXCEPT !.phase = m]
    [] OTHER -> [t EXCEPT !.status = Kind[n]]

\* The transitions that exist: a decision that resolves to no phase raises.
Resolves(n, d, m) ==
  CASE Kind[n] = "plain" -> d = "next" /\ <<n, d, m>> \in Moves
    [] Kind[n] = "evaluate" -> (d = "retry" /\ m = n) \/ (d # "next" /\ <<n, d, m>> \in Moves)
    [] OTHER -> d = "next" /\ m = n

\* Whether the node writes a terminal message: a terminal node always does, an
\* instruct node not when it resumed at once, and an evaluation leaves the
\* last word to the terminal node it goes to.
Outputs(t, n, d, m) ==
  CASE Kind[n] \in {"success", "aborted"} -> {TRUE}
    [] Kind[n] = "instruct" /\ t.status = "running" -> {FALSE}
    [] Kind[n] = "evaluate" /\ d \in {"complete", "abort"} /\ Kind[m] \in {"success", "aborted"} -> {FALSE}
    [] OTHER -> BOOLEAN

_is_recoverable_terminal_turn_failure(t) == t.wait.status = "received" /\ t.consumed # <<>>

\* Mutant of _recover_terminal_turn_token: the failed turn's ledger is dropped.
RecoverWithoutLedger(t, s) ==
  [t EXCEPT !.wait.status = "waiting", !.status = "waiting", !.phase = "waiting",
            !.consumed = <<>>, !.cursor = IF s = @ + 1 THEN s ELSE @]

\* The token goes back to its checkpoint.  The cursor takes the error message
\* with it only when no other event came in between.
_recover_terminal_turn_token(t, s) ==
  LET u == [t EXCEPT !.wait.status = "waiting", !.status = "waiting", !.phase = "waiting"]
  IN  IF s = t.cursor + 1 THEN [u EXCEPT !.cursor = s] ELSE u

(***************************************************************************)
(* The run and its job.                                                    *)
(***************************************************************************)

\* Mutant of Owns: an attempt that is still at work may write.
AtWork(a) == pc[a] # "idle"

\* _validate_active_job_lease: the attempt owns the job.  A lease that ran out
\* or a lock that died is the step LoseLease.
Owns(a) == jobStatus = "running" /\ jobOwner = a

\* _lock_runtime_write: the owner, and the snapshot it started from is the last.
Writable(a) == Owns(a) /\ snapshotSeq = seen[a]

ReleaseJob(s, n) ==
  jobStatus' = s /\ jobOwner' = None /\ attemptNo' = n

\* Mutant of _finish_runtime_job_turn: input that came in meanwhile is ignored.
FinishRegardless(s, r, t, e) ==
  rerun' = FALSE /\ r \in RunStatus /\ t.cursor <= Len(e) /\ ReleaseJob(s, attemptNo)

\* The turn gives the job up with status s, or requeues it when input came in
\* that this turn has not seen.  r, t and e are the run status, the token and
\* the events that the same transaction writes.
_finish_runtime_job_turn(s, r, t, e) ==
  /\ rerun' = FALSE
  /\ IF r \notin Ended /\ (rerun \/ \E i \in t.cursor + 1..Len(e) : e[i] = "input")
     THEN ReleaseJob("pending", 0)
     ELSE ReleaseJob(s, attemptNo)

\* Mutant of _ensure_runtime_job_pending: a finished job is only told.
OnlyAskForRerun ==
  rerun' = TRUE /\ UNCHANGED <<jobStatus, jobOwner, attemptNo>>

\* Input for the run: wake its job, or tell the running attempt.
_ensure_runtime_job_pending ==
  IF jobStatus = "running"
  THEN rerun' = TRUE /\ UNCHANGED <<jobStatus, jobOwner, attemptNo>>
  ELSE rerun' = FALSE /\ ReleaseJob("pending", 0)

\* The run ends with status s: its terminal session is closed with it.
EndRun(s) == runStatus' = s /\ sessionOpen' = FALSE

\* _append_runtime_failure_terminal_event: the last message of a run that fails.
_append_runtime_failure_terminal_event == events' = Append(events, "output")

\* finalize_exhausted_job: a run that is still open fails with a message.
finalize_exhausted_job ==
  IF runStatus \in Ended
  THEN UNCHANGED <<runStatus, sessionOpen, events>>
  ELSE EndRun("failed") /\ _append_runtime_failure_terminal_event

\* Mutant of GiveUpAttempt: no attempt is ever the last.
RetryForEver ==
  /\ ReleaseJob("retryable_failed", attemptNo)
  /\ UNCHANGED <<run, rerun>>

\* An attempt ended without a result (GiveUpAttempt of JobQueue).
GiveUpAttempt ==
  /\ IF attemptNo < MaxAttempts
     THEN /\ ReleaseJob("retryable_failed", attemptNo)
          /\ UNCHANGED <<runStatus, sessionOpen, events>>
     ELSE /\ ReleaseJob("failed", attemptNo)
          /\ finalize_exhausted_job
  /\ UNCHANGED <<token, snapshotSeq, rerun>>

(***************************************************************************)
(* Users.                                                                  *)
(***************************************************************************)

\* A terminal event of direction d.  A repeated external_event_id returns the
\* event that exists and changes nothing.
append_terminal_event(d) ==
  /\ runStatus \notin Ended /\ sessionOpen
  /\ Len(events) < MaxEvents
  /\ events' = Append(events, d)
  /\ IF d = "input" THEN _ensure_runtime_job_pending ELSE UNCHANGED job
  /\ UNCHANGED <<runStatus, sessionOpen, token, snapshotSeq, attempt>>

\* The token of the last snapshot without its checkpoint, in one more snapshot.
_append_cancel_snapshot ==
  /\ token' = [token EXCEPT !.status = "cancelled", !.phase = "cancelled", !.wait = NoWait]
  /\ snapshotSeq' = snapshotSeq + 1

cancel_run ==
  /\ runStatus \notin Ended
  /\ EndRun("cancelled")
  /\ _append_cancel_snapshot
  /\ IF jobStatus \in {"absent", "succeeded", "failed", "cancelled"}
     THEN UNCHANGED <<jobStatus, jobOwner, attemptNo>>
     ELSE ReleaseJob("cancelled", attemptNo)
  /\ UNCHANGED <<events, rerun, attempt>>

(***************************************************************************)
(* Forks.  The source goes on elsewhere: its attempts are gone from here.  *)
(***************************************************************************)

\* The moments one can fork from: a snapshot with the terminal events there
\* were when it was the last one, up to now.  They hold what the snapshot knew.
_build_cursor_anchors == Largest({token.cursor, token.wait.accept})..Len(events)

\* A new run with the first k terminal events of its source and the token of
\* the snapshot, whose cursor passes all of them.  A token that waits has no
\* job until the next input.
fork_invocation_from_snapshot(k) ==
  /\ events' = SubSeq(events, 1, k)
  /\ token' = [token EXCEPT !.cursor = k] /\ snapshotSeq' = 0
  /\ passed' = passed \cup {s \in Inputs : token.cursor < s /\ s <= k}
  /\ sessionOpen' = TRUE /\ rerun' = FALSE
  /\ runStatus' = IF token.status = "waiting" THEN "waiting_input" ELSE "queued"
  /\ ReleaseJob(IF token.status = "waiting" THEN "absent" ELSE "pending", 0)

fork_debug ==
  /\ forks < MaxForks
  /\ forks' = forks + 1
  /\ \E k \in _build_cursor_anchors : fork_invocation_from_snapshot(k)
  /\ pc' = [a \in Attempts |-> "idle"]
  /\ mem' = [a \in Attempts |-> InitialToken]
  /\ seen' = [a \in Attempts |-> 0]
  /\ after' = [a \in Attempts |-> 0]
  /\ steps' = [a \in Attempts |-> 0]

(***************************************************************************)
(* The queue.                                                              *)
(***************************************************************************)

claim_next_job(a) ==
  /\ pc[a] = "idle" /\ jobStatus \in Claimable /\ attemptNo < MaxAttempts
  /\ jobStatus' = "running" /\ jobOwner' = a /\ attemptNo' = attemptNo + 1
  /\ pc' = [pc EXCEPT ![a] = "claimed"]
  /\ UNCHANGED <<run, rerun, mem, seen, after, steps>>

\* The recovery loop takes the job from an attempt whose lease ran out, be it
\* dead or only cut off.
recover_expired_lease ==
  /\ jobStatus = "running"
  /\ GiveUpAttempt
  /\ UNCHANGED attempt

(***************************************************************************)
(* An attempt of process_run.                                              *)
(***************************************************************************)

\* The attempt is over; its session and its locals go.
Forget(a) ==
  /\ pc' = [pc EXCEPT ![a] = "idle"]
  /\ mem' = [mem EXCEPT ![a] = InitialToken]
  /\ seen' = [seen EXCEPT ![a] = 0]
  /\ after' = [after EXCEPT ![a] = 0]
  /\ steps' = [steps EXCEPT ![a] = 0]

\* Load the latest snapshot and synchronise it.  Either the token still waits,
\* and the turn is over without a snapshot, or the loop starts.
BeginTurn(a) ==
  LET t == IF _token_is_waiting_for_terminal_input(token) THEN _sync_terminal_events(token) ELSE token
  IN
  /\ pc[a] = "claimed" /\ Owns(a)
  /\ IF runStatus \in Ended
     THEN /\ ReleaseJob(IF runStatus \in {"succeeded", "aborted"} THEN "succeeded" ELSE runStatus, attemptNo)
          /\ Forget(a)
          /\ UNCHANGED <<runStatus, rerun>>
     ELSE IF t.status = "waiting"
     THEN /\ runStatus' = "waiting_input"
          /\ _finish_runtime_job_turn("succeeded", "waiting_input", t, events)
          /\ Forget(a)
     ELSE /\ runStatus' = "running"
          /\ pc' = [pc EXCEPT ![a] = "loop"]
          /\ mem' = [mem EXCEPT ![a] = t]
          /\ seen' = [seen EXCEPT ![a] = snapshotSeq]
          /\ after' = [after EXCEPT ![a] = token.cursor]
          /\ steps' = [steps EXCEPT ![a] = 0]
          /\ UNCHANGED job
  /\ UNCHANGED <<sessionOpen, events, token, snapshotSeq>>

InLoop(a) == pc[a] = "loop" /\ steps[a] < MaxSteps /\ mem[a].status = "running"

\* One node: its observation is merged and written under the locks of job and
\* run, with snapshot and output.  A token that waits ends the turn.
RunNode(a, d, m, out) ==
  LET n == mem[a].phase
      t == NextToken(mem[a], n, d, m, after[a])
      e == IF out THEN Append(events, "output") ELSE events
  IN
  /\ InLoop(a) /\ Writable(a) /\ Resolves(n, d, m)
  /\ out \in Outputs(t, n, d, m)
  /\ token' = t /\ events' = e
  /\ snapshotSeq' = snapshotSeq + 1
  /\ IF t.status = "waiting"
     THEN /\ runStatus' = "waiting_input"
          /\ _finish_runtime_job_turn("succeeded", "waiting_input", t, e)
          /\ Forget(a)
     ELSE /\ mem' = [mem EXCEPT ![a] = t]
          /\ seen' = [seen EXCEPT ![a] = snapshotSeq + 1]
          /\ steps' = [steps EXCEPT ![a] = @ + 1]
          /\ UNCHANGED <<runStatus, job, pc, after>>
  /\ UNCHANGED sessionOpen

\* The loop met a halt condition: the run ends.
FinishRun(a) ==
  /\ pc[a] = "loop" /\ steps[a] < MaxSteps /\ Owns(a)
  /\ mem[a].status \in {"success", "aborted"}
  /\ EndRun(IF mem[a].status = "success" THEN "succeeded" ELSE "aborted")
  /\ _finish_runtime_job_turn("succeeded", "succeeded", mem[a], events)
  /\ Forget(a)
  /\ UNCHANGED <<events, token, snapshotSeq>>

\* The recovered token, in one more snapshot.
_append_recoverable_failure_snapshot(t) == token' = t /\ snapshotSeq' = snapshotSeq + 1

\* A node raised or its decision resolved to no phase while the token is
\* processing input: back to the checkpoint with a message for the user.
_recover_terminal_turn_failure(a) ==
  LET e == Append(events, "output")
      t == _recover_terminal_turn_token(mem[a], Len(e))
  IN
  /\ InLoop(a) /\ Writable(a)
  /\ _is_recoverable_terminal_turn_failure(mem[a])
  /\ events' = e /\ _append_recoverable_failure_snapshot(t)
  /\ runStatus' = "waiting_input"
  /\ _finish_runtime_job_turn("succeeded", "waiting_input", t, e)
  /\ Forget(a)
  /\ UNCHANGED sessionOpen

\* The loop ran out of steps while the token is processing input.  The recovery
\* compares the snapshot with the one before the last node (expected_snapshot_seq
\* is set when an iteration starts), finds it changed, and the attempt ends like
\* one that lost its lease.
StepsExhausted(a) ==
  /\ pc[a] = "loop" /\ steps[a] = MaxSteps
  /\ _is_recoverable_terminal_turn_failure(mem[a])
  /\ pc' = [pc EXCEPT ![a] = "raised"]
  /\ UNCHANGED <<run, job, mem, seen, after, steps>>

\* A node raised or the loop ran out of steps without input to go back to, or
\* the run is the fork of a cancelled one and has no node to enable: it fails.
FailRun(a) ==
  /\ pc[a] = "loop" /\ Owns(a)
  /\ ~_is_recoverable_terminal_turn_failure(mem[a])
  /\ InLoop(a) \/ steps[a] = MaxSteps \/ mem[a].status = "cancelled"
  /\ EndRun("failed")
  /\ _append_runtime_failure_terminal_event
  /\ _finish_runtime_job_turn("failed", "failed", mem[a], events)
  /\ Forget(a)
  /\ UNCHANGED <<token, snapshotSeq>>

\* A node without input to go back to ran out of its deadline: rolled back and
\* left to the retry of the queue.
StepTimeout(a) ==
  /\ InLoop(a) /\ ~_is_recoverable_terminal_turn_failure(mem[a])
  /\ pc' = [pc EXCEPT ![a] = "raised"]
  /\ UNCHANGED <<run, job, mem, seen, after, steps>>

\* The lease or the snapshot is no longer the attempt's: the observation is
\* dropped and the exception goes up to the worker.
LoseLease(a) ==
  /\ pc[a] \in {"claimed", "loop"}
  /\ pc' = [pc EXCEPT ![a] = "raised"]
  /\ UNCHANGED <<run, job, mem, seen, after, steps>>

\* The worker records the failure if the attempt still owns the job.
_record_unhandled_failure(a) ==
  /\ pc[a] = "raised"
  /\ IF Owns(a) THEN GiveUpAttempt ELSE UNCHANGED <<run, job>>
  /\ Forget(a)

\* The attempt dies, or its failure cannot be recorded.
Crash(a) ==
  /\ pc[a] # "idle"
  /\ Forget(a)
  /\ UNCHANGED <<run, job>>

(***************************************************************************)
(* The specification.                                                      *)
(***************************************************************************)

Turn(a) ==
  \/ LoseLease(a)
  \/ _record_unhandled_failure(a)
  \/ BeginTurn(a)
  \/ \E d \in Decisions, m \in Nodes, out \in BOOLEAN : RunNode(a, d, m, out)
  \/ FinishRun(a)
  \/ _recover_terminal_turn_failure(a)
  \/ StepsExhausted(a)
  \/ FailRun(a)
  \/ StepTimeout(a)

Next ==
  \/ /\ \/ \E d \in Directions : append_terminal_event(d)
        \/ cancel_run
        \/ recover_expired_lease
        \/ \E a \in Attempts : claim_next_job(a) \/ Turn(a) \/ Crash(a)
     /\ UNCHANGED lineage
  \/ fork_debug

Spec == Init /\ [][Next]_vars

(***************************************************************************)
(* Fairness.  A slot claims a waiting job, and an attempt that runs ends   *)
(* its turn or raises: every call of a node has a deadline.  A lease that  *)
(* no living attempt renews is recovered (EventuallyTerminal of JobQueue   *)
(* is where that is shown).  Users owe nothing.                            *)
(***************************************************************************)

Dead == \A a \in Attempts : Owns(a) => pc[a] = "idle"

FairSpec ==
  /\ Spec
  /\ WF_vars((\E a \in Attempts : claim_next_job(a)) /\ UNCHANGED lineage)
  /\ WF_vars(Dead /\ recover_expired_lease /\ UNCHANGED lineage)
  /\ \A a \in Attempts : WF_vars(Turn(a) /\ UNCHANGED lineage)

(***************************************************************************)
(* The job of the run as JobLifecycle sees it.  It drives the run; one     *)
(* that was never made drives nothing.                                     *)
(***************************************************************************)

RunJob == "run"

Phase(status) ==
  CASE status = "absent" -> "absent"
    [] status \in Claimable -> "waiting"
    [] status = "running" -> "active"
    [] OTHER -> "ended"

CurrentAttempt(status, owner) == IF status = "running" THEN owner ELSE None
DomainOf(status, r) == IF status # "absent" /\ r \in Ended THEN "closed" ELSE "open"

Lifecycle == INSTANCE JobLifecycle WITH
  Jobs <- {RunJob},
  phase <- [j \in {RunJob} |-> Phase(jobStatus)],
  attempt <- [j \in {RunJob} |-> CurrentAttempt(jobStatus, jobOwner)],
  tries <- [j \in {RunJob} |-> attemptNo],
  domain <- [j \in {RunJob} |-> DomainOf(jobStatus, runStatus)]

(***************************************************************************)
(* Properties.                                                             *)
(***************************************************************************)

JobActive == jobStatus \in Claimable \cup {"running"}

\* The inputs that the open checkpoint has yet to take, save what a fork copied
\* beyond its snapshot (fork_invocation_from_snapshot passes that over).
Undelivered == {s \in Seqs \ passed : _can_consume_terminal_input_for_wait(token, s)}

\* A run that is not over and has no job to advance it waits at a checkpoint
\* for input that has not come: no crash, lost lease, timeout, end of a turn or
\* fork leaves it forgotten, and input it would accept has a job that delivers
\* it, whether it came before the turn, inside it or in the moment it ended
\* (_finish_runtime_job_turn, "rerun_requested").
NoStrandedRun ==
  /\ TypeOK
  /\ (runStatus \notin Ended /\ ~JobActive) =>
       /\ runStatus = "waiting_input" /\ _token_is_waiting_for_terminal_input(token)
       /\ Undelivered = {}

\* A checkpoint's evidence is exactly the inputs of its window up to the
\* cursor: none is skipped but by a fork (passed), none of an earlier checkpoint
\* is used again.
EvidenceIsWindow ==
  token.wait.status # "none" =>
    token.wait.evidence = {s \in Inputs \ passed : token.wait.accept < s /\ s <= token.cursor}

\* The ledger of consumed inputs is in the order of arrival, without repeats,
\* over every checkpoint, retry and recovered turn.
ConsumedInOrder ==
  /\ \A i, k \in 1..Len(token.consumed) : i < k => token.consumed[i] < token.consumed[k]
  /\ Consumed(token) \subseteq Inputs

Extends(q, p) == Len(p) <= Len(q) /\ SubSeq(q, 1, Len(p)) = p

\* A run that ended has a job that ended, and a terminal session that is
\* closed; an open run has it open (EndRun, cancel_run, finalize_exhausted_job).
EndedTogether ==
  /\ runStatus \in Ended => ~JobActive
  /\ sessionOpen <=> runStatus \notin Ended
  /\ jobStatus \in {"failed", "cancelled"} => runStatus \in Ended

\* A snapshot is never taken back: each write adds one, and input that a
\* checkpoint used stays used, whatever attempt crashed or was cut off; a fork
\* starts its own count but keeps what its checkpoints used.
SnapshotsAdvance ==
  [][/\ token' # token => snapshotSeq' = IF forks' = forks THEN snapshotSeq + 1 ELSE 0
     /\ Extends(token'.consumed, token.consumed)
     /\ token'.cursor >= token.cursor]_vars

\* Between two forks, whatever turns, users, crashes and lost leases do, the job
\* of a run moves as JobLifecycle allows: a turn that ends, is requeued with
\* new input or given up is the current attempt's, the budget is charged and
\* renewed as promised, and nothing wakes the job of a run that is over
\* (_finish_runtime_job_turn, _ensure_runtime_job_pending, finalize_exhausted_job).
JobKeepsItsLife ==
  [][forks' = forks => Lifecycle!Next \/ UNCHANGED Lifecycle!lifecycle]_vars

\* Input that the checkpoint accepts is delivered once its user falls silent,
\* unless the run ends: the job is requeued, retried and recovered until a turn
\* sees it, whichever attempts die or are cut off.
InputIsDelivered ==
  (runStatus = "waiting_input" /\ Undelivered # {}) ~> (Undelivered = {} \/ runStatus \in Ended)

\* A run that advances comes to rest, a fork too: it ends, or waits for its user.
TurnComesToRest ==
  (runStatus \in {"waiting_runtime", "queued", "running"})
    ~> (runStatus \in {"waiting_input"} \cup Ended)
=============================================================================
