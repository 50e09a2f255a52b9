------------------------------ MODULE JobQueue ------------------------------
(***************************************************************************)
(* The database-backed job queue of PSOP: the runtime_job rows, the worker *)
(* slots that claim and process them, the heartbeat thread of an attempt,  *)
(* the advisory lock that attempt holds on a connection of its own, the    *)
(* fence on the commits of its session, and the expired-lease recovery     *)
(* loop of the supervisor (backend/app/domain/jobs).                       *)
(*                                                                         *)
(* A transaction on a row is one step.  Wall-clock time is abstracted to   *)
(* what the code compares it with: a lease is live or expired, a waiting   *)
(* row is due or not, and either may change at any moment.                 *)
(***************************************************************************)
EXTENDS Integers

CONSTANTS
  Jobs,         \* the rows of runtime_job
  Workers,      \* worker slots of all pools and processes
  Reapers,      \* recovery loops, one per supervisor process
  Owners,       \* attempt owner tokens (host:pid:pool:slot:uuid)
  Serves,       \* Serves[w]: the jobs whose type belongs to the pool of w
  MaxAttempts,  \* runtime_job.max_attempts
  MaxRounds,    \* bound on the reschedules and requeues of one job
  None          \* the NULL of worker_name, of a lock holder, of a lease

ASSUME ServesAssumption == Serves \in [Workers -> SUBSET Jobs]
ASSUME AttemptsAssumption == MaxAttempts \in Nat \ {0}
ASSUME RoundsAssumption == MaxRounds \in Nat
ASSUME NoneAssumption ==
  None \notin Jobs /\ None \notin Workers /\ None \notin Reapers /\ None \notin Owners
ASSUME ProcessAssumption == Workers \cap Reapers = {}

VARIABLES
  \* the runtime_job rows
  status, worker_name, lease, due, attempt_no,
  domain,      \* what the job drives (a compile request, a run, ...): open or closed
  rounds,      \* reschedules and requeues so far (a bound, not state of the code)
  holder,      \* server side: who holds the advisory lock of a job
  \* a worker slot
  pc, job, owner,
  lockLost,    \* the dedicated connection of its advisory lock is dead
  hbLost,      \* JobLeaseHeartbeat._lost
  \* a recovery loop
  rpc, rjob, rowner

row == <<status, worker_name, lease, due, attempt_no, domain, rounds>>
slot == <<pc, job, owner, lockLost, hbLost>>
reaper == <<rpc, rjob, rowner>>
vars == <<row, holder, slot, reaper>>

Waiting == {"pending", "retryable_failed"}
TERMINAL_JOB_STATUSES == {"succeeded", "failed", "cancelled"}
Status == {"absent", "running"} \cup Waiting \cup TERMINAL_JOB_STATUSES
Lease == {"none", "live", "expired"}
WorkerPc == {"idle", "claimed", "abandoning", "locked", "handling",
             "returned", "raised", "releasing"}
ReaperPc == {"idle", "listed", "locked", "unlocking"}

TypeOK ==
  /\ status \in [Jobs -> Status]
  /\ worker_name \in [Jobs -> Owners \cup {None}]
  /\ lease \in [Jobs -> Lease]
  /\ due \in [Jobs -> BOOLEAN]
  /\ attempt_no \in [Jobs -> 0..MaxAttempts]
  /\ domain \in [Jobs -> {"open", "closed"}]
  /\ rounds \in [Jobs -> 0..MaxRounds]
  /\ holder \in [Jobs -> Workers \cup Reapers \cup {None}]
  /\ pc \in [Workers -> WorkerPc]
  /\ job \in [Workers -> Jobs \cup {None}]
  /\ owner \in [Workers -> Owners \cup {None}]
  /\ lockLost \in [Workers -> BOOLEAN]
  /\ hbLost \in [Workers -> BOOLEAN]
  /\ rpc \in [Reapers -> ReaperPc]
  /\ rjob \in [Reapers -> Jobs \cup {None}]
  /\ rowner \in [Reapers -> Owners \cup {None}]

Init ==
  /\ status = [j \in Jobs |-> "absent"]
  /\ worker_name = [j \in Jobs |-> None]
  /\ lease = [j \in Jobs |-> "none"]
  /\ due = [j \in Jobs |-> FALSE]
  /\ attempt_no = [j \in Jobs |-> 0]
  /\ domain = [j \in Jobs |-> "open"]
  /\ rounds = [j \in Jobs |-> 0]
  /\ holder = [j \in Jobs |-> None]
  /\ pc = [w \in Workers |-> "idle"]
  /\ job = [w \in Workers |-> None]
  /\ owner = [w \in Workers |-> None]
  /\ lockLost = [w \in Workers |-> FALSE]
  /\ hbLost = [w \in Workers |-> FALSE]
  /\ rpc = [r \in Reapers |-> "idle"]
  /\ rjob = [r \in Reapers |-> None]
  /\ rowner = [r \in Reapers |-> None]

(***************************************************************************)
(* Reading and writing a row.                                              *)
(***************************************************************************)

\* The owner test that every conditional update of the code repeats.
Owns(j, o) == status[j] = "running" /\ worker_name[j] = o

\* The test of the session fence: owned, and the lease has not run out.
OwnsLive(j, o) == Owns(j, o) /\ lease[j] = "live"

\* lease_is_healthy of run_once: no lost heartbeat, and the lock connection answers.
Healthy(w) == ~hbLost[w] /\ ~lockLost[w]

\* A row leaves its attempt: status s, retry counter n, owner and lease cleared.
ReleaseRow(j, s, n) ==
  /\ status' = [status EXCEPT ![j] = s]
  /\ worker_name' = [worker_name EXCEPT ![j] = None]
  /\ lease' = [lease EXCEPT ![j] = "none"]
  /\ attempt_no' = [attempt_no EXCEPT ![j] = n]

\* available_at in the future: the row waits for its back-off.
BackOff(j) == due' = [due EXCEPT ![j] = FALSE]

\* The domain service closes its record in the transaction of the row.
CloseDomain(j) == domain' = [domain EXCEPT ![j] = "closed"]

\* An attempt ended without a result.  It is retried after a back-off while
\* attempts remain, otherwise the row fails and the domain finalizer of its
\* job type runs in the same transaction.
GiveUpAttempt(j) ==
  IF attempt_no[j] < MaxAttempts
  THEN /\ ReleaseRow(j, "retryable_failed", attempt_no[j])
       /\ BackOff(j)
       /\ UNCHANGED <<domain, rounds>>
  ELSE /\ ReleaseRow(j, "failed", attempt_no[j])
       /\ CloseDomain(j)
       /\ UNCHANGED <<due, rounds>>

Goto(w, l) == pc' = [pc EXCEPT ![w] = l]

(***************************************************************************)
(* Producers and the clock.                                                *)
(***************************************************************************)

\* A service inserts the row with its unique dedupe key.
Submit(j) ==
  /\ status[j] = "absent"
  /\ status' = [status EXCEPT ![j] = "pending"]
  /\ due' = [due EXCEPT ![j] = TRUE]
  /\ UNCHANGED <<worker_name, lease, attempt_no, domain, rounds, holder, slot, reaper>>

\* Mutant of Requeue: what the job drives may be closed already.
RequeueClosed(j) ==
  /\ status[j] \in Waiting \cup TERMINAL_JOB_STATUSES
  /\ rounds[j] < MaxRounds
  /\ ReleaseRow(j, "pending", 0)
  /\ due' = [due EXCEPT ![j] = TRUE]
  /\ rounds' = [rounds EXCEPT ![j] = @ + 1]
  /\ UNCHANGED <<domain, holder, slot, reaper>>

\* New work for a job that is not running, while what it drives is still open:
\* the same row is used again with a full retry budget.
Requeue(j) ==
  /\ status[j] \in Waiting \cup TERMINAL_JOB_STATUSES
  /\ domain[j] = "open" /\ rounds[j] < MaxRounds
  /\ ReleaseRow(j, "pending", 0)
  /\ due' = [due EXCEPT ![j] = TRUE]
  /\ rounds' = [rounds EXCEPT ![j] = @ + 1]
  /\ UNCHANGED <<domain, holder, slot, reaper>>

\* A user cancels a run: under the lock of the row, run and job end together.
CancelRun(j) ==
  /\ status[j] # "absent" /\ domain[j] = "open"
  /\ CloseDomain(j)
  /\ IF status[j] \in TERMINAL_JOB_STATUSES
     THEN UNCHANGED <<status, worker_name, lease, attempt_no>>
     ELSE ReleaseRow(j, "cancelled", attempt_no[j])
  /\ UNCHANGED <<due, rounds, holder, slot, reaper>>

\* A user cancels a scenario run: the row is read without its lock, so the
\* write may meet any later status, and owner and lease are left as they are.
CancelScenarioJob(j) ==
  /\ status[j] # "absent" /\ domain[j] = "open"
  /\ CloseDomain(j)
  /\ status' = [status EXCEPT ![j] = "cancelled"]
  /\ UNCHANGED <<worker_name, lease, due, attempt_no, rounds, holder, slot, reaper>>

\* available_at passes.
BecomeDue(j) ==
  /\ status[j] \in Waiting /\ ~due[j]
  /\ due' = [due EXCEPT ![j] = TRUE]
  /\ UNCHANGED <<status, worker_name, lease, attempt_no, domain, rounds, holder, slot, reaper>>

\* lease_until passes before a heartbeat renewed it.
LeaseExpires(j) ==
  /\ lease[j] = "live"
  /\ lease' = [lease EXCEPT ![j] = "expired"]
  /\ UNCHANGED <<status, worker_name, due, attempt_no, domain, rounds, holder, slot, reaper>>

(***************************************************************************)
(* A worker slot: run_once.                                                *)
(***************************************************************************)

\* build_attempt_owner draws a uuid: no row, attempt or listed lease carries it.
Fresh(o) ==
  /\ \A j \in Jobs : worker_name[j] # o
  /\ \A w \in Workers : owner[w] # o
  /\ \A r \in Reapers : rowner[r] # o

\* SKIP LOCKED lets a claim pass over rows another transaction has locked, so
\* any eligible row may be the one that is claimed.
claim_next_job(w, j, o) ==
  /\ pc[w] = "idle"
  /\ j \in Serves[w]
  /\ status[j] \in Waiting /\ due[j] /\ attempt_no[j] < MaxAttempts
  /\ Fresh(o)
  /\ status' = [status EXCEPT ![j] = "running"]
  /\ worker_name' = [worker_name EXCEPT ![j] = o]
  /\ lease' = [lease EXCEPT ![j] = "live"]
  /\ attempt_no' = [attempt_no EXCEPT ![j] = @ + 1]
  /\ Goto(w, "claimed")
  /\ job' = [job EXCEPT ![w] = j]
  /\ owner' = [owner EXCEPT ![w] = o]
  /\ UNCHANGED <<due, domain, rounds, holder, lockLost, hbLost, reaper>>

\* Mutant of AcquireLock: the answer of pg_try_advisory_lock is ignored.
AssumeLocked(w) ==
  /\ pc[w] = "claimed"
  /\ holder' = [holder EXCEPT ![job[w]] = w]
  /\ Goto(w, "locked")
  /\ UNCHANGED <<row, job, owner, lockLost, hbLost, reaper>>

\* pg_try_advisory_lock succeeds; the heartbeat thread starts.
AcquireLock(w) ==
  /\ pc[w] = "claimed" /\ holder[job[w]] = None
  /\ holder' = [holder EXCEPT ![job[w]] = w]
  /\ Goto(w, "locked")
  /\ UNCHANGED <<row, job, owner, lockLost, hbLost, reaper>>

\* The lock is held by another attempt, or asking for it raised.
LockRefused(w) ==
  /\ pc[w] = "claimed"
  /\ Goto(w, "abandoning")
  /\ UNCHANGED <<row, holder, job, owner, lockLost, hbLost, reaper>>

\* run_once returns, and its locals go.
Forget(w) ==
  /\ Goto(w, "idle")
  /\ job' = [job EXCEPT ![w] = None]
  /\ owner' = [owner EXCEPT ![w] = None]
  /\ lockLost' = [lockLost EXCEPT ![w] = FALSE]
  /\ hbLost' = [hbLost EXCEPT ![w] = FALSE]

\* The claim goes back with its attempt, if this owner still has the row.
abandon_claim(w) ==
  LET j == job[w] IN
  /\ pc[w] = "abandoning"
  /\ IF Owns(j, owner[w])
     THEN /\ ReleaseRow(j, "retryable_failed", IF attempt_no[j] > 0 THEN attempt_no[j] - 1 ELSE 0)
          /\ BackOff(j)
          /\ UNCHANGED <<domain, rounds>>
     ELSE UNCHANGED row
  /\ Forget(w)
  /\ UNCHANGED <<holder, reaper>>

\* The update of abandon_claim raises: the row is left to the recovery loop.
AbandonFails(w) ==
  /\ pc[w] = "abandoning"
  /\ Forget(w)
  /\ UNCHANGED <<row, holder, reaper>>

\* One tick of the heartbeat thread.  A database error skips the tick.
Heartbeat(w) ==
  LET j == job[w] IN
  /\ pc[w] \in {"locked", "handling", "returned", "raised"} /\ ~hbLost[w]
  /\ IF ~lockLost[w] /\ Owns(j, owner[w])
     THEN /\ lease' = [lease EXCEPT ![j] = "live"]
          /\ UNCHANGED hbLost
     ELSE /\ hbLost' = [hbLost EXCEPT ![w] = TRUE]
          /\ UNCHANGED lease
  /\ UNCHANGED <<status, worker_name, due, attempt_no, domain, rounds, holder,
                 pc, job, owner, lockLost, reaper>>

\* _process_job opens its session: the fence and the owner check pass or raise.
StartHandler(w) ==
  /\ pc[w] = "locked"
  /\ Goto(w, IF Healthy(w) /\ OwnsLive(job[w], owner[w]) THEN "handling" ELSE "raised")
  /\ UNCHANGED <<row, holder, job, owner, lockLost, hbLost, reaper>>

\* The last commit of a handler, which gives the row up.  The fence reads the
\* row for update inside that transaction, so the test and the commit are one
\* step; the health test came before it and may be out of date by now.
\* The handler closes what the job drives, with its own success or failure; or
\* ends a turn and leaves it open (a run that waits for input); or reschedules
\* the job as normal progress with a full retry budget.
CommitResult(w, s) ==
  LET j == job[w] IN
  /\ pc[w] = "handling"
  /\ OwnsLive(j, owner[w])
  /\ \/ /\ s \in TERMINAL_JOB_STATUSES
        /\ ReleaseRow(j, s, attempt_no[j])
        /\ CloseDomain(j) \/ (s = "succeeded" /\ UNCHANGED domain)
        /\ UNCHANGED <<due, rounds>>
     \/ /\ s = "pending" /\ rounds[j] < MaxRounds
        /\ ReleaseRow(j, s, 0)
        /\ rounds' = [rounds EXCEPT ![j] = @ + 1]
        /\ BackOff(j)
        /\ UNCHANGED domain
  /\ Goto(w, "returned")
  /\ UNCHANGED <<holder, job, owner, lockLost, hbLost, reaper>>

\* The handler raises: a failure of its own, or its fence.
HandlerRaises(w) ==
  /\ pc[w] = "handling"
  /\ Goto(w, "raised")
  /\ UNCHANGED <<row, holder, job, owner, lockLost, hbLost, reaper>>

\* Back in run_once: stop the heartbeat; the outcome is only reported.
ReportOutcome(w) ==
  /\ pc[w] = "returned"
  /\ Goto(w, "releasing")
  /\ UNCHANGED <<row, holder, job, owner, lockLost, hbLost, reaper>>

\* The except branch: record the failure unless the heartbeat saw the lease
\* go.  The row must still be owned; an expired lease does not prevent it.
_record_unhandled_failure(w) ==
  /\ pc[w] = "raised"
  /\ IF ~hbLost[w] /\ Owns(job[w], owner[w]) THEN GiveUpAttempt(job[w]) ELSE UNCHANGED row
  /\ Goto(w, "releasing")
  /\ UNCHANGED <<holder, job, owner, lockLost, hbLost, reaper>>

\* Recording the failure raises: the row is left to the recovery loop.
RecordFails(w) ==
  /\ pc[w] = "raised"
  /\ Goto(w, "releasing")
  /\ UNCHANGED <<row, holder, job, owner, lockLost, hbLost, reaper>>

\* Close the lock's connection, if it still holds the lock.
Unlock(p, j) == holder' = [holder EXCEPT ![j] = IF @ = p THEN None ELSE @]

Release(w) ==
  /\ pc[w] = "releasing"
  /\ Unlock(w, job[w])
  /\ Forget(w)
  /\ UNCHANGED <<row, reaper>>

\* The worker process dies: its connections close, its rows stay as they are.
Crash(w) ==
  /\ pc[w] # "idle"
  /\ Unlock(w, job[w])
  /\ Forget(w)
  /\ UNCHANGED <<row, reaper>>

\* The server drops the connection that holds the lock of j.
LoseLock(j) ==
  /\ holder[j] # None
  /\ holder' = [holder EXCEPT ![j] = None]
  /\ lockLost' = [w \in Workers |-> lockLost[w] \/ holder[j] = w]
  /\ UNCHANGED <<row, pc, job, owner, hbLost, reaper>>

(***************************************************************************)
(* The recovery loop: recover_expired_jobs_once, one listed lease at a     *)
(* time.  Any number of steps may separate the list from the recovery.     *)
(***************************************************************************)

list_expired_leases(r, j) ==
  /\ rpc[r] = "idle"
  /\ status[j] = "running" /\ lease[j] = "expired"
  /\ rpc' = [rpc EXCEPT ![r] = "listed"]
  /\ rjob' = [rjob EXCEPT ![r] = j]
  /\ rowner' = [rowner EXCEPT ![r] = worker_name[j]]
  /\ UNCHANGED <<row, holder, slot>>

ReaperForget(r) ==
  /\ rpc' = [rpc EXCEPT ![r] = "idle"]
  /\ rjob' = [rjob EXCEPT ![r] = None]
  /\ rowner' = [rowner EXCEPT ![r] = None]

\* Mutant of ReaperLock: recovery goes on when the lock is refused.
RecoverUnlocked(r) ==
  /\ rpc[r] = "listed"
  /\ holder' = [holder EXCEPT ![rjob[r]] = r]
  /\ rpc' = [rpc EXCEPT ![r] = "locked"]
  /\ UNCHANGED <<row, slot, rjob, rowner>>

\* Take the advisory lock, or leave the lease to its living attempt.
ReaperLock(r) ==
  /\ rpc[r] = "listed"
  /\ IF holder[rjob[r]] = None
     THEN /\ holder' = [holder EXCEPT ![rjob[r]] = r]
          /\ rpc' = [rpc EXCEPT ![r] = "locked"]
          /\ UNCHANGED <<rjob, rowner>>
     ELSE ReaperForget(r) /\ UNCHANGED holder
  /\ UNCHANGED <<row, slot>>

\* Mutant of recover_expired_lease: a lease on its last attempt is skipped.
RecoverOnlyRetryable(r) ==
  LET j == rjob[r] IN
  /\ rpc[r] = "locked"
  /\ IF Owns(j, rowner[r]) /\ lease[j] = "expired" /\ attempt_no[j] < MaxAttempts
     THEN GiveUpAttempt(j) ELSE UNCHANGED row
  /\ rpc' = [rpc EXCEPT ![r] = "unlocking"]
  /\ UNCHANGED <<holder, slot, rjob, rowner>>

\* The row must still be running, of the listed owner and expired.
recover_expired_lease(r) ==
  LET j == rjob[r] IN
  /\ rpc[r] = "locked"
  /\ IF Owns(j, rowner[r]) /\ lease[j] = "expired" THEN GiveUpAttempt(j) ELSE UNCHANGED row
  /\ rpc' = [rpc EXCEPT ![r] = "unlocking"]
  /\ UNCHANGED <<holder, slot, rjob, rowner>>

\* Locking, updating or finalizing raises: rolled back, left to the next scan.
RecoveryFails(r) ==
  /\ rpc[r] \in {"listed", "locked"}
  /\ rpc' = [rpc EXCEPT ![r] = "unlocking"]
  /\ UNCHANGED <<row, holder, slot, rjob, rowner>>

ReaperRelease(r) ==
  /\ rpc[r] = "unlocking"
  /\ Unlock(r, rjob[r])
  /\ ReaperForget(r)
  /\ UNCHANGED <<row, slot>>

\* The process of the recovery loop dies.
ReaperCrash(r) ==
  /\ rpc[r] # "idle"
  /\ Unlock(r, rjob[r])
  /\ ReaperForget(r)
  /\ UNCHANGED <<row, slot>>

(***************************************************************************)
(* The specification.                                                      *)
(***************************************************************************)

WorkerStep(w) ==
  \/ \E j \in Jobs, o \in Owners : claim_next_job(w, j, o)
  \/ AcquireLock(w) \/ LockRefused(w) \/ abandon_claim(w) \/ AbandonFails(w)
  \/ Heartbeat(w)
  \/ StartHandler(w)
  \/ \E s \in TERMINAL_JOB_STATUSES \cup {"pending"} : CommitResult(w, s)
  \/ HandlerRaises(w)
  \/ ReportOutcome(w) \/ _record_unhandled_failure(w) \/ RecordFails(w) \/ Release(w)
  \/ Crash(w)

ReaperStep(r) ==
  \/ \E j \in Jobs : list_expired_leases(r, j)
  \/ ReaperLock(r) \/ recover_expired_lease(r) \/ RecoveryFails(r)
  \/ ReaperRelease(r) \/ ReaperCrash(r)

JobStep(j) ==
  \/ Submit(j) \/ Requeue(j) \/ CancelRun(j) \/ CancelScenarioJob(j)
  \/ BecomeDue(j) \/ LeaseExpires(j) \/ LoseLock(j)

Next ==
  \/ \E j \in Jobs : JobStep(j)
  \/ \E w \in Workers : WorkerStep(w)
  \/ \E r \in Reapers : ReaperStep(r)

Spec == Init /\ [][Next]_vars

(***************************************************************************)
(* Fairness.  A slot and a recovery loop keep polling and run their        *)
(* straight-line code to its end; a handler returns or raises (every call  *)
(* it makes has a deadline); a back-off ends; a lease nobody renews runs   *)
(* out; the lock call and the recovery do not fail at the same step for    *)
(* ever; and a lease, which lasts minutes, does not for ever run out in    *)
(* the moment between a claim and the lock call or the abandon after it.   *)
(* Nothing is assumed of users, crashes, errors or dropped connections.    *)
(***************************************************************************)

\* No heartbeat thread is left that could renew the lease of j.
Unattended(j) ==
  \A w \in Workers :
    ~(job[w] = j /\ owner[w] = worker_name[j] /\ Healthy(w)
      /\ pc[w] \in {"locked", "handling", "returned", "raised"})

\* The owner of j has claimed it and not yet locked it or given it back.
InClaim(j) ==
  \E w \in Workers : owner[w] = worker_name[j] /\ pc[w] \in {"claimed", "abandoning"}

\* The step a slot takes next when nothing fails; one is enabled at a time.
Proceed(w) ==
  \/ \E j \in Jobs, o \in Owners : claim_next_job(w, j, o)
  \/ AcquireLock(w) \/ LockRefused(w) \/ abandon_claim(w)
  \/ StartHandler(w)
  \/ HandlerRaises(w) \/ \E s \in TERMINAL_JOB_STATUSES \cup {"pending"} : CommitResult(w, s)
  \/ ReportOutcome(w) \/ _record_unhandled_failure(w) \/ Release(w)

SlotFairness(w) == WF_vars(Proceed(w)) /\ SF_vars(AcquireLock(w))

ReaperFairness(r) ==
  /\ WF_vars(\E j \in Jobs : list_expired_leases(r, j))
  /\ SF_vars(ReaperLock(r))
  /\ SF_vars(recover_expired_lease(r))
  /\ WF_vars(ReaperRelease(r))

ClockFairness(j) ==
  /\ WF_vars(BecomeDue(j))
  /\ WF_vars(Unattended(j) /\ LeaseExpires(j))
  /\ <>[][~(LeaseExpires(j) /\ InClaim(j))]_vars

FairSpec ==
  /\ Spec
  /\ \A w \in Workers : SlotFairness(w)
  /\ \A r \in Reapers : ReaperFairness(r)
  /\ \A j \in Jobs : ClockFairness(j)

(***************************************************************************)
(* What the rows implement: the life cycle of JobLifecycle.                *)
(***************************************************************************)

Phase(j) ==
  CASE status[j] = "absent" -> "absent"
    [] status[j] \in Waiting -> "waiting"
    [] status[j] = "running" -> "active"
    [] OTHER -> "ended"

Lifecycle == INSTANCE JobLifecycle WITH
  Attempts <- Owners,
  phase <- [j \in Jobs |-> Phase(j)],
  attempt <- [j \in Jobs |-> IF status[j] = "running" THEN worker_name[j] ELSE None],
  tries <- attempt_no

\* Whatever slots, heartbeats, recovery loops, crashes and users do to the rows,
\* a service sees the life cycle of JobLifecycle: one current attempt at a
\* time, a bounded budget, and exhaustion that closes the domain record.
ImplementsLifecycle == Lifecycle!Spec

(***************************************************************************)
(* Properties.                                                             *)
(***************************************************************************)

\* A row names an owner and a lease exactly while an attempt runs it; only a
\* cancelled scenario job may keep the names of its last attempt
\* (claim_next_job, the release in every terminal write, _cancel_driver_job).
LeaseCoherent ==
  \A j \in Jobs :
    /\ (worker_name[j] = None) <=> (lease[j] = "none")
    /\ status[j] = "running" => worker_name[j] # None
    /\ worker_name[j] # None => status[j] \in {"running", "cancelled"}

\* A waiting row always has an attempt left: with none, claim_next_job would
\* skip it for ever and nothing would ever close its domain record.  A new row
\* starts with the whole budget.
NotStranded ==
  \A j \in Jobs :
    /\ status[j] \in Waiting => attempt_no[j] < MaxAttempts
    /\ status[j] = "absent" => attempt_no[j] = 0

\* A failed job never leaves its domain record open: exhausted attempts run the
\* domain finalizer in the transaction that fails the row, whoever notices.
FailureClosesDomain ==
  \A j \in Jobs : status[j] = "failed" => domain[j] = "closed"

\* At most one slot passes the owner test of the fence for a row, whatever
\* became of the leases, locks and processes of the earlier attempts.
OneOwner ==
  \A v, w \in Workers :
    (v # w /\ job[v] = job[w] /\ job[v] # None)
      => ~(Owns(job[v], owner[v]) /\ Owns(job[w], owner[w]))

\* Two handlers run the same job side by side only if the connection of one of
\* their advisory locks has died (JobAdvisoryLock).
HandlersExclusive ==
  \A v, w \in Workers :
    (v # w /\ pc[v] = "handling" /\ pc[w] = "handling" /\ job[v] = job[w])
      => lockLost[v] \/ lockLost[w]

\* A slot has a job and an owner exactly while it runs an attempt, a recovery
\* loop a job while it handles one, and no two attempts share an owner
\* (build_attempt_owner).
SlotCoherent ==
  /\ \A w \in Workers :
       /\ (pc[w] = "idle") <=> (job[w] = None)
       /\ (pc[w] = "idle") <=> (owner[w] = None)
  /\ \A v, w \in Workers : (owner[v] = owner[w] /\ v # w) => owner[v] = None
  /\ \A r \in Reapers : (rpc[r] = "idle") <=> (rjob[r] = None)

\* An attempt past the lock call holds the lock, unless its connection died.
LockHeld ==
  \A w \in Workers :
    (pc[w] \in {"locked", "handling", "returned", "raised", "releasing"} /\ ~lockLost[w])
      => holder[job[w]] = w

\* The invariant that the steps preserve, from which the others follow: the
\* fence compares owners, so it needs them to be unique, and mutual exclusion
\* needs that no step but the holder's own, or the server's, takes a lock away.
IInv ==
  /\ TypeOK
  /\ LeaseCoherent
  /\ NotStranded
  /\ FailureClosesDomain
  /\ SlotCoherent
  /\ LockHeld

\* "The advisory lock prevents recovery while this connection is alive"
\* (JobLeaseHeartbeat._run): an attempt that holds its lock and owns its row
\* keeps it, expired or not, until it gives the row up or a user cancels; unless
\* a recovery loop lost the connection of the lock it took earlier.
LockedAttemptKeepsRow ==
  [][\A w \in Workers :
       (/\ pc[w] \in {"locked", "handling"} /\ pc'[w] = pc[w] /\ ~lockLost[w]
        /\ Owns(job[w], owner[w])
        /\ \A r \in Reapers : rpc[r] = "locked" => holder[rjob[r]] = r)
       => Owns(job[w], owner[w])' \/ domain'[job[w]] = "closed"]_vars

\* Once what a job drives is closed and its row terminal, no late commit,
\* heartbeat, failure record, recovery or requeue brings the row back.
ClosedStaysTerminal ==
  [][\A j \in Jobs :
       (domain[j] = "closed" /\ status[j] \in TERMINAL_JOB_STATUSES)
         => domain'[j] = "closed" /\ status'[j] \in TERMINAL_JOB_STATUSES]_vars

\* A submitted job ends: crashed attempts are recovered, failing ones retried
\* until they are exhausted, and no claim, lock or lease is left hanging.
EventuallyTerminal ==
  \A j \in Jobs : (status[j] # "absent") ~> (status[j] \in TERMINAL_JOB_STATUSES)
=============================================================================
