--------------------------- MODULE JobQueue_proofs ---------------------------
(***************************************************************************)
(* Proofs about JobQueue, for every number of jobs, slots, recovery loops  *)
(* and owners and every retry budget.                                      *)
(***************************************************************************)
EXTENDS JobQueue, TLAPS

USE DEF TERMINAL_JOB_STATUSES, Waiting

\* The initial rows, slots and loops satisfy the inductive invariant.
LEMMA InitInv == Init => IInv
  <1> USE AttemptsAssumption, RoundsAssumption, NoneAssumption
  <1> SUFFICES ASSUME Init PROVE IInv
    OBVIOUS
  <1>1. TypeOK
    BY DEF Init, TypeOK, Status, Lease, WorkerPc, ReaperPc
  <1>2. LeaseCoherent /\ NotStranded /\ FailureClosesDomain
    BY DEF Init, LeaseCoherent, NotStranded, FailureClosesDomain
  <1>3. SlotCoherent /\ LockHeld
    BY DEF Init, SlotCoherent, LockHeld
  <1> QED
    BY <1>1, <1>2, <1>3 DEF IInv

\* The row variables are well typed.
RowType ==
  /\ status \in [Jobs -> Status]
  /\ worker_name \in [Jobs -> Owners \cup {None}]
  /\ lease \in [Jobs -> Lease]
  /\ due \in [Jobs -> BOOLEAN]
  /\ attempt_no \in [Jobs -> 0..MaxAttempts]
  /\ domain \in [Jobs -> {"open", "closed"}]
  /\ rounds \in [Jobs -> 0..MaxRounds]

RowInv == RowType /\ LeaseCoherent /\ NotStranded /\ FailureClosesDomain

\* A row released to a waiting status with budget left, or to a terminal one,
\* satisfies the part of the invariant that is about rows.
LEMMA ReleaseKeepsRow ==
  ASSUME RowInv, NEW j \in Jobs, NEW s \in Waiting \cup TERMINAL_JOB_STATUSES,
         NEW n \in 0..MaxAttempts, ReleaseRow(j, s, n),
         due' \in [Jobs -> BOOLEAN], rounds' \in [Jobs -> 0..MaxRounds],
         \/ domain' = domain /\ s # "failed"
         \/ domain' = [domain EXCEPT ![j] = "closed"],
         s \in Waiting => n < MaxAttempts
  PROVE  RowInv'
  <1> USE AttemptsAssumption, RoundsAssumption, NoneAssumption
  <1>1. RowType'
    BY DEF RowInv, RowType, ReleaseRow, Status, Lease
  <1>2. LeaseCoherent'
    BY DEF RowInv, RowType, ReleaseRow, LeaseCoherent
  <1>3. NotStranded'
    BY DEF RowInv, RowType, ReleaseRow, NotStranded
  <1>4. FailureClosesDomain'
    BY DEF RowInv, RowType, ReleaseRow, FailureClosesDomain
  <1> QED
    BY <1>1, <1>2, <1>3, <1>4 DEF RowInv

\* Giving up the attempt of a running row keeps the part about rows.
LEMMA GiveUpKeepsRow ==
  ASSUME RowInv, NEW j \in Jobs, status[j] = "running", GiveUpAttempt(j)
  PROVE  RowInv'
  <1>1. attempt_no[j] \in 0..MaxAttempts
    BY DEF RowInv, RowType
  <1>2. CASE attempt_no[j] < MaxAttempts
    BY <1>1, <1>2, ReleaseKeepsRow DEF GiveUpAttempt, BackOff, RowInv, RowType
  <1>3. CASE ~(attempt_no[j] < MaxAttempts)
    BY <1>1, <1>3, ReleaseKeepsRow DEF GiveUpAttempt, CloseDomain, RowInv, RowType
  <1> QED
    BY <1>2, <1>3

\* The variables of slots, locks and recovery loops are well typed.
SlotType ==
  /\ holder \in [Jobs -> Workers \cup Reapers \cup {None}]
  /\ pc \in [Workers -> WorkerPc]
  /\ job \in [Workers -> Jobs \cup {None}]
  /\ owner \in [Workers -> Owners \cup {None}]
  /\ lockLost \in [Workers -> BOOLEAN]
  /\ hbLost \in [Workers -> BOOLEAN]
  /\ rpc \in [Reapers -> ReaperPc]
  /\ rjob \in [Reapers -> Jobs \cup {None}]
  /\ rowner \in [Reapers -> Owners \cup {None}]

SlotInv == SlotType /\ SlotCoherent /\ LockHeld

\* The inductive invariant splits into rows and slots.
LEMMA SplitInv == IInv <=> RowInv /\ SlotInv
  BY DEF IInv, RowInv, SlotInv, TypeOK, RowType, SlotType

\* A slot that is not idle has a job and an owner.
LEMMA SlotHasJob ==
  ASSUME SlotInv, NEW w \in Workers, pc[w] # "idle"
  PROVE  job[w] \in Jobs /\ owner[w] \in Owners
  BY DEF SlotInv, SlotType, SlotCoherent

\* A step that leaves the rows alone.
LEMMA UnchangedRow ==
  ASSUME RowInv, UNCHANGED row
  PROVE  RowInv'
  BY DEF row, RowInv, RowType, LeaseCoherent, NotStranded, FailureClosesDomain

\* Producers, users and the clock keep the part about rows.
LEMMA JobStepRow ==
  ASSUME RowInv, NEW j \in Jobs, JobStep(j)
  PROVE  RowInv'
  <1> USE AttemptsAssumption, RoundsAssumption, NoneAssumption
  <1>1. CASE Submit(j)
    <2>1. RowType'
      BY <1>1 DEF Submit, RowInv, RowType, Status
    <2>2. attempt_no[j] = 0
      BY <1>1 DEF Submit, RowInv, NotStranded
    <2>3. LeaseCoherent' /\ NotStranded' /\ FailureClosesDomain'
      BY <1>1, <2>2 DEF Submit, RowInv, RowType, LeaseCoherent, NotStranded, FailureClosesDomain
    <2> QED
      BY <2>1, <2>3 DEF RowInv
  <1>2. CASE Requeue(j)
    <2>1. due' \in [Jobs -> BOOLEAN] /\ rounds' \in [Jobs -> 0..MaxRounds]
      BY <1>2 DEF Requeue, RowInv, RowType
    <2> QED
      BY <1>2, <2>1, ReleaseKeepsRow DEF Requeue
  <1>3. CASE CancelRun(j)
    <2>1. CASE status[j] \in TERMINAL_JOB_STATUSES
      BY <1>3, <2>1 DEF CancelRun, CloseDomain, RowInv, RowType, LeaseCoherent, NotStranded, FailureClosesDomain
    <2>2. CASE status[j] \notin TERMINAL_JOB_STATUSES
      <3>1. attempt_no[j] \in 0..MaxAttempts
        BY DEF RowInv, RowType
      <3> QED
        BY <1>3, <2>2, <3>1, ReleaseKeepsRow DEF CancelRun, CloseDomain, RowInv, RowType
    <2> QED
      BY <2>1, <2>2
  <1>4. CASE CancelScenarioJob(j)
    BY <1>4 DEF CancelScenarioJob, CloseDomain, RowInv, RowType, Status, LeaseCoherent, NotStranded,
       FailureClosesDomain
  <1>5. CASE BecomeDue(j)
    BY <1>5 DEF BecomeDue, RowInv, RowType, LeaseCoherent, NotStranded, FailureClosesDomain
  <1>6. CASE LeaseExpires(j)
    BY <1>6 DEF LeaseExpires, RowInv, RowType, Lease, LeaseCoherent, NotStranded, FailureClosesDomain
  <1>7. CASE LoseLock(j)
    BY <1>7, UnchangedRow DEF LoseLock
  <1> QED
    BY <1>1, <1>2, <1>3, <1>4, <1>5, <1>6, <1>7 DEF JobStep

\* Slots keep the part about rows.
LEMMA WorkerStepRow ==
  ASSUME RowInv, SlotInv, NEW w \in Workers, WorkerStep(w)
  PROVE  RowInv'
  <1> USE AttemptsAssumption, RoundsAssumption, NoneAssumption
  <1>1. ASSUME NEW j \in Jobs, NEW o \in Owners, claim_next_job(w, j, o)
        PROVE  RowInv'
    <2>1. RowType'
      BY <1>1 DEF claim_next_job, RowInv, RowType, Status, Lease
    <2>2. LeaseCoherent' /\ NotStranded' /\ FailureClosesDomain'
      BY <1>1 DEF claim_next_job, RowInv, RowType, LeaseCoherent, NotStranded, FailureClosesDomain
    <2> QED
      BY <2>1, <2>2 DEF RowInv
  <1>2. CASE abandon_claim(w)
    <2> DEFINE n == IF attempt_no[job[w]] > 0 THEN attempt_no[job[w]] - 1 ELSE 0
    <2>1. job[w] \in Jobs
      BY <1>2, SlotHasJob DEF abandon_claim
    <2>2. n \in 0..MaxAttempts /\ n < MaxAttempts
      BY <2>1 DEF RowInv, RowType
    <2>3. CASE Owns(job[w], owner[w])
      BY <1>2, <2>1, <2>2, <2>3, ReleaseKeepsRow DEF abandon_claim, BackOff, RowInv, RowType
    <2>4. CASE ~Owns(job[w], owner[w])
      BY <1>2, <2>4, UnchangedRow DEF abandon_claim
    <2> QED
      BY <2>3, <2>4
  <1>3. CASE Heartbeat(w)
    <2>1. job[w] \in Jobs
      BY <1>3, SlotHasJob DEF Heartbeat
    <2> QED
      BY <1>3, <2>1 DEF Heartbeat, Owns, RowInv, RowType, Lease, LeaseCoherent, NotStranded, FailureClosesDomain
  <1>4. ASSUME NEW s \in TERMINAL_JOB_STATUSES \cup {"pending"}, CommitResult(w, s)
        PROVE  RowInv'
    <2>1. job[w] \in Jobs
      BY <1>4, SlotHasJob DEF CommitResult
    <2>2. attempt_no[job[w]] \in 0..MaxAttempts
      BY <2>1 DEF RowInv, RowType
    <2>3. CASE s = "pending"
      <3>1. /\ ReleaseRow(job[w], "pending", 0) /\ domain' = domain
            /\ rounds[job[w]] < MaxRounds
            /\ rounds' = [rounds EXCEPT ![job[w]] = @ + 1]
            /\ due' = [due EXCEPT ![job[w]] = FALSE]
        BY <1>4, <2>3 DEF CommitResult, BackOff
      <3>2. due' \in [Jobs -> BOOLEAN] /\ rounds' \in [Jobs -> 0..MaxRounds]
        BY <2>1, <3>1 DEF RowInv, RowType
      <3> QED
        BY <2>1, <3>1, <3>2, ReleaseKeepsRow
    <2>4. CASE s # "pending"
      BY <1>4, <2>1, <2>2, <2>4, ReleaseKeepsRow DEF CommitResult, CloseDomain, RowInv, RowType
    <2> QED
      BY <2>3, <2>4
  <1>5. CASE _record_unhandled_failure(w)
    <2>1. job[w] \in Jobs
      BY <1>5, SlotHasJob DEF _record_unhandled_failure
    <2> QED
      BY <1>5, <2>1, GiveUpKeepsRow, UnchangedRow DEF _record_unhandled_failure, Owns
  <1>6. CASE \/ AcquireLock(w) \/ LockRefused(w) \/ AbandonFails(w) \/ StartHandler(w)
             \/ HandlerRaises(w) \/ ReportOutcome(w) \/ RecordFails(w) \/ Release(w) \/ Crash(w)
    BY <1>6, UnchangedRow DEF AcquireLock, LockRefused, AbandonFails, StartHandler, HandlerRaises,
       ReportOutcome, RecordFails, Release, Crash
  <1> QED
    BY <1>1, <1>2, <1>3, <1>4, <1>5, <1>6 DEF WorkerStep

\* Recovery loops keep the part about rows.
LEMMA ReaperStepRow ==
  ASSUME RowInv, SlotInv, NEW r \in Reapers, ReaperStep(r)
  PROVE  RowInv'
  <1>1. CASE recover_expired_lease(r)
    <2>1. rjob[r] \in Jobs
      BY <1>1 DEF recover_expired_lease, SlotInv, SlotType, SlotCoherent
    <2> QED
      BY <1>1, <2>1, GiveUpKeepsRow, UnchangedRow DEF recover_expired_lease, Owns
  <1>2. ASSUME NEW j \in Jobs, list_expired_leases(r, j)
        PROVE  RowInv'
    BY <1>2, UnchangedRow DEF list_expired_leases
  <1>3. CASE ReaperLock(r) \/ RecoveryFails(r) \/ ReaperRelease(r) \/ ReaperCrash(r)
    BY <1>3, UnchangedRow DEF ReaperLock, RecoveryFails, ReaperRelease, ReaperCrash
  <1> QED
    BY <1>1, <1>2, <1>3 DEF ReaperStep

\* A step that leaves slots, locks and loops alone.
LEMMA UnchangedSlots ==
  ASSUME SlotInv, UNCHANGED <<holder, slot, reaper>>
  PROVE  SlotInv'
  BY DEF slot, reaper, SlotInv, SlotType, SlotCoherent, LockHeld

\* A slot that moves on between the lock call and the release keeps the part
\* about slots: it holds the same lock and has the same job and owner.
LEMMA SlotMoves ==
  ASSUME SlotInv, NEW w \in Workers, pc[w] # "idle",
         NEW l \in WorkerPc \ {"idle"}, Goto(w, l),
         pc[w] \in {"claimed"} => l = "abandoning",
         pc[w] = "abandoning" => l = "abandoning",
         hbLost' \in [Workers -> BOOLEAN],
         UNCHANGED <<holder, job, owner, lockLost, reaper>>
  PROVE  SlotInv'
  BY DEF Goto, WorkerPc, reaper, SlotInv, SlotType, SlotCoherent, LockHeld

\* A slot that returns keeps it: only its own lock is given back.
LEMMA SlotForgets ==
  ASSUME SlotInv, NEW w \in Workers, pc[w] # "idle", Forget(w), UNCHANGED reaper,
         UNCHANGED holder \/ Unlock(w, job[w])
  PROVE  SlotInv'
  <1> USE NoneAssumption, ProcessAssumption
  <1>1. SlotType'
    BY DEF Forget, Goto, Unlock, WorkerPc, reaper, SlotInv, SlotType
  <1>2. SlotCoherent'
    BY DEF Forget, Goto, reaper, SlotInv, SlotType, SlotCoherent
  <1>3. LockHeld'
    <2> SUFFICES ASSUME NEW v \in Workers, ~lockLost'[v],
                        pc'[v] \in {"locked", "handling", "returned", "raised", "releasing"}
                 PROVE  holder'[job'[v]] = v
      BY DEF LockHeld
    <2>1. v # w /\ pc'[v] = pc[v] /\ lockLost'[v] = lockLost[v] /\ job'[v] = job[v]
      BY DEF Forget, Goto, SlotInv, SlotType
    <2>2. holder[job[v]] = v /\ job[v] \in Jobs
      BY <2>1, SlotHasJob DEF SlotInv, LockHeld
    <2> QED
      BY <2>1, <2>2 DEF Unlock, SlotInv, SlotType
  <1> QED
    BY <1>1, <1>2, <1>3 DEF SlotInv

\* Slots keep the part about slots.
LEMMA WorkerStepSlots ==
  ASSUME SlotInv, NEW w \in Workers, WorkerStep(w)
  PROVE  SlotInv'
  <1> USE NoneAssumption, ProcessAssumption
  <1>1. ASSUME NEW j \in Jobs, NEW o \in Owners, claim_next_job(w, j, o)
        PROVE  SlotInv'
    <2>1. SlotType'
      BY <1>1 DEF claim_next_job, Goto, WorkerPc, reaper, SlotInv, SlotType
    <2>2. SlotCoherent'
      BY <1>1 DEF claim_next_job, Goto, Fresh, reaper, SlotInv, SlotType, SlotCoherent
    <2>3. LockHeld'
      BY <1>1 DEF claim_next_job, Goto, SlotInv, SlotType, LockHeld
    <2> QED
      BY <2>1, <2>2, <2>3 DEF SlotInv
  <1>2. CASE AcquireLock(w)
    <2>0. job[w] \in Jobs
      BY <1>2, SlotHasJob DEF AcquireLock
    <2>1. SlotType' /\ SlotCoherent'
      BY <1>2, <2>0 DEF AcquireLock, Goto, WorkerPc, reaper, SlotInv, SlotType, SlotCoherent
    <2>2. LockHeld'
      BY <1>2, <2>0 DEF AcquireLock, Goto, SlotInv, SlotType, SlotCoherent, LockHeld
    <2> QED
      BY <2>1, <2>2 DEF SlotInv
  <1>3. CASE LockRefused(w)
    BY <1>3, SlotMoves DEF LockRefused, WorkerPc, SlotInv, SlotType
  <1>4. CASE abandon_claim(w) \/ AbandonFails(w)
    BY <1>4, SlotForgets DEF abandon_claim, AbandonFails
  <1>5. CASE Heartbeat(w)
    BY <1>5 DEF Heartbeat, reaper, SlotInv, SlotType, SlotCoherent, LockHeld
  <1>6. CASE StartHandler(w)
    BY <1>6, SlotMoves DEF StartHandler, WorkerPc, SlotInv, SlotType
  <1>7. ASSUME NEW s \in TERMINAL_JOB_STATUSES \cup {"pending"}, CommitResult(w, s)
        PROVE  SlotInv'
    BY <1>7, SlotMoves DEF CommitResult, WorkerPc, SlotInv, SlotType
  <1>8. CASE HandlerRaises(w)
    BY <1>8, SlotMoves DEF HandlerRaises, WorkerPc, SlotInv, SlotType
  <1>9. CASE ReportOutcome(w) \/ _record_unhandled_failure(w) \/ RecordFails(w)
    BY <1>9, SlotMoves
    DEF ReportOutcome, _record_unhandled_failure, RecordFails, WorkerPc, SlotInv, SlotType
  <1>10. CASE Release(w) \/ Crash(w)
    BY <1>10, SlotForgets DEF Release, Crash
  <1> QED
    BY <1>1, <1>2, <1>3, <1>4, <1>5, <1>6, <1>7, <1>8, <1>9, <1>10 DEF WorkerStep

\* A recovery loop that gives back its own lock, or none, keeps it.
LEMMA UnlockKeepsSlots ==
  ASSUME SlotInv, NEW r \in Reapers, NEW j, Unlock(r, j), ReaperForget(r), UNCHANGED slot
  PROVE  SlotInv'
  <1> USE NoneAssumption, ProcessAssumption
  <1>1. SlotType' /\ SlotCoherent'
    BY DEF Unlock, ReaperForget, slot, ReaperPc, SlotInv, SlotType, SlotCoherent
  <1>2. LockHeld'
    <2> SUFFICES ASSUME NEW v \in Workers, ~lockLost[v],
                        pc[v] \in {"locked", "handling", "returned", "raised", "releasing"}
                 PROVE  holder'[job[v]] = v
      BY DEF LockHeld, slot
    <2>1. holder[job[v]] = v /\ job[v] \in Jobs
      BY SlotHasJob DEF SlotInv, LockHeld
    <2> QED
      BY <2>1 DEF Unlock, SlotInv, SlotType
  <1> QED
    BY <1>1, <1>2 DEF SlotInv

\* Recovery loops keep the part about slots: they lock only what nobody holds.
LEMMA ReaperStepSlots ==
  ASSUME RowInv, SlotInv, NEW r \in Reapers, ReaperStep(r)
  PROVE  SlotInv'
  <1> USE NoneAssumption, ProcessAssumption
  <1>1. ASSUME NEW j \in Jobs, list_expired_leases(r, j)
        PROVE  SlotInv'
    <2>1. worker_name[j] \in Owners \cup {None}
      BY DEF RowInv, RowType
    <2> QED
      BY <1>1, <2>1 DEF list_expired_leases, slot, ReaperPc, SlotInv, SlotType, SlotCoherent, LockHeld
  <1>2. CASE ReaperLock(r)
    <2>0. rjob[r] \in Jobs
      BY <1>2 DEF ReaperLock, SlotInv, SlotType, SlotCoherent
    <2>1. SlotType' /\ SlotCoherent'
      BY <1>2, <2>0 DEF ReaperLock, ReaperForget, slot, ReaperPc, SlotInv, SlotType, SlotCoherent
    <2>2. LockHeld'
      <3> SUFFICES ASSUME NEW v \in Workers, ~lockLost[v],
                          pc[v] \in {"locked", "handling", "returned", "raised", "releasing"}
                   PROVE  holder'[job[v]] = v
        BY <1>2 DEF ReaperLock, LockHeld, slot
      <3>1. holder[job[v]] = v /\ job[v] \in Jobs
        BY SlotHasJob DEF SlotInv, LockHeld
      <3> QED
        BY <1>2, <2>0, <3>1 DEF ReaperLock, SlotInv, SlotType
    <2> QED
      BY <2>1, <2>2 DEF SlotInv
  <1>3. CASE recover_expired_lease(r) \/ RecoveryFails(r)
    BY <1>3 DEF recover_expired_lease, RecoveryFails, slot, ReaperPc, SlotInv, SlotType, SlotCoherent,
       LockHeld
  <1>4. CASE ReaperRelease(r) \/ ReaperCrash(r)
    BY <1>4, UnlockKeepsSlots DEF ReaperRelease, ReaperCrash
  <1> QED
    BY <1>1, <1>2, <1>3, <1>4 DEF ReaperStep

\* Producers and the clock do not touch slots; a dropped connection is seen.
LEMMA JobStepSlots ==
  ASSUME SlotInv, NEW j \in Jobs, JobStep(j)
  PROVE  SlotInv'
  <1> USE NoneAssumption, ProcessAssumption
  <1>1. CASE LoseLock(j)
    <2>1. lockLost' \in [Workers -> BOOLEAN]
      BY <1>1, Zenon DEF LoseLock
    <2>2. holder' \in [Jobs -> Workers \cup Reapers \cup {None}]
      BY <1>1 DEF LoseLock, SlotInv, SlotType
    <2>3. SlotType' /\ SlotCoherent'
      <3>1. UNCHANGED <<pc, job, owner, hbLost, reaper>>
        BY <1>1 DEF LoseLock
      <3> QED
        BY <2>1, <2>2, <3>1 DEF reaper, SlotInv, SlotType, SlotCoherent
    <2>4. LockHeld'
      <3> SUFFICES ASSUME NEW v \in Workers, ~lockLost'[v],
                          pc'[v] \in {"locked", "handling", "returned", "raised", "releasing"}
                   PROVE  holder'[job'[v]] = v
        BY DEF LockHeld
      <3>1. ~lockLost[v] /\ holder[j] # v
        BY <1>1, Zenon DEF LoseLock
      <3>2. pc'[v] = pc[v] /\ job'[v] = job[v] /\ holder' = [holder EXCEPT ![j] = None]
        BY <1>1 DEF LoseLock
      <3>3. holder[job[v]] = v /\ job[v] \in Jobs
        BY <3>1, <3>2, SlotHasJob DEF SlotInv, LockHeld
      <3> QED
        BY <3>1, <3>2, <3>3 DEF SlotInv, SlotType
    <2> QED
      BY <2>3, <2>4 DEF SlotInv
  <1>2. CASE \/ Submit(j) \/ Requeue(j) \/ CancelRun(j) \/ CancelScenarioJob(j)
             \/ BecomeDue(j) \/ LeaseExpires(j)
    BY <1>2, UnchangedSlots DEF Submit, Requeue, CancelRun, CancelScenarioJob, BecomeDue, LeaseExpires
  <1> QED
    BY <1>1, <1>2 DEF JobStep

\* The inductive step.
LEMMA NextInv == IInv /\ [Next]_vars => IInv'
  <1> SUFFICES ASSUME RowInv, SlotInv, [Next]_vars PROVE RowInv' /\ SlotInv'
    BY SplitInv DEF IInv, RowInv, SlotInv, TypeOK, RowType, SlotType
  <1>1. CASE \E j \in Jobs : JobStep(j)
    BY <1>1, JobStepRow, JobStepSlots
  <1>2. CASE \E w \in Workers : WorkerStep(w)
    BY <1>2, WorkerStepRow, WorkerStepSlots
  <1>3. CASE \E r \in Reapers : ReaperStep(r)
    BY <1>3, ReaperStepRow, ReaperStepSlots
  <1>4. CASE UNCHANGED vars
    BY <1>4, UnchangedRow, UnchangedSlots DEF vars
  <1> QED
    BY <1>1, <1>2, <1>3, <1>4 DEF Next

\* Every reachable state of the queue satisfies the inductive invariant.
THEOREM Invariance == Spec => []IInv
  BY InitInv, NextInv, PTL DEF Spec

\* All variables keep their types.
THEOREM TypeCorrect == Spec => []TypeOK
  <1>1. IInv => TypeOK
    BY DEF IInv
  <1> QED
    BY <1>1, Invariance, PTL

\* At most one slot passes the owner test of the fence for a row.
THEOREM FenceAdmitsOneOwner == Spec => []OneOwner
  <1>1. IInv => OneOwner
    BY NoneAssumption DEF IInv, OneOwner, SlotCoherent, Owns, LeaseCoherent, TypeOK
  <1> QED
    BY <1>1, Invariance, PTL

\* Two handlers of one job overlap only after a lock connection died.
THEOREM MutualExclusion == Spec => []HandlersExclusive
  <1>1. IInv => HandlersExclusive
    BY DEF IInv, HandlersExclusive, LockHeld
  <1> QED
    BY <1>1, Invariance, PTL

\* A row that waits can be claimed, a row that failed has closed its record.
THEOREM NothingStranded == Spec => [](NotStranded /\ FailureClosesDomain /\ LeaseCoherent)
  <1>1. IInv => NotStranded /\ FailureClosesDomain /\ LeaseCoherent
    BY DEF IInv
  <1> QED
    BY <1>1, Invariance, PTL

(***************************************************************************)
(* The rows implement JobLifecycle.                                        *)
(***************************************************************************)

\* Job j goes to phase p, run by a, with n attempts charged, seen from the rows.
Moved(j, p, a, n) ==
  /\ [i \in Jobs |-> Phase(i)]' = [[i \in Jobs |-> Phase(i)] EXCEPT ![j] = p]
  /\ [i \in Jobs |-> IF status[i] = "running" THEN worker_name[i] ELSE None]'
       = [[i \in Jobs |-> IF status[i] = "running" THEN worker_name[i] ELSE None] EXCEPT ![j] = a]
  /\ attempt_no' = [attempt_no EXCEPT ![j] = n]

\* Releasing a row to a waiting status moves its job to the waiting phase.
LEMMA ReleaseWaits ==
  ASSUME RowInv, NEW j \in Jobs, NEW s \in Waiting,
         NEW n \in 0..MaxAttempts, ReleaseRow(j, s, n)
  PROVE  Moved(j, "waiting", None, n)
  <1>1. status' = [status EXCEPT ![j] = s] /\ status'[j] = s
    BY DEF ReleaseRow, RowInv, RowType
  <1>2. \A i \in Jobs : i # j => status'[i] = status[i] /\ worker_name'[i] = worker_name[i]
    BY DEF ReleaseRow, RowInv, RowType
  <1>3. [i \in Jobs |-> Phase(i)]' = [[i \in Jobs |-> Phase(i)] EXCEPT ![j] = "waiting"]
    BY <1>1, <1>2 DEF Phase
  <1>4. [i \in Jobs |-> IF status[i] = "running" THEN worker_name[i] ELSE None]'
          = [[i \in Jobs |-> IF status[i] = "running" THEN worker_name[i] ELSE None] EXCEPT ![j] = None]
    BY <1>1, <1>2
  <1> QED
    BY <1>3, <1>4 DEF Moved, ReleaseRow

\* Releasing a row to a terminal status moves its job to the ended phase.
LEMMA ReleaseEnds ==
  ASSUME RowInv, NEW j \in Jobs, NEW s \in TERMINAL_JOB_STATUSES,
         NEW n \in 0..MaxAttempts, ReleaseRow(j, s, n)
  PROVE  Moved(j, "ended", None, n)
  <1>1. status' = [status EXCEPT ![j] = s] /\ status'[j] = s
    BY DEF ReleaseRow, RowInv, RowType
  <1>2. \A i \in Jobs : i # j => status'[i] = status[i] /\ worker_name'[i] = worker_name[i]
    BY DEF ReleaseRow, RowInv, RowType
  <1>3. [i \in Jobs |-> Phase(i)]' = [[i \in Jobs |-> Phase(i)] EXCEPT ![j] = "ended"]
    BY <1>1, <1>2 DEF Phase
  <1>4. [i \in Jobs |-> IF status[i] = "running" THEN worker_name[i] ELSE None]'
          = [[i \in Jobs |-> IF status[i] = "running" THEN worker_name[i] ELSE None] EXCEPT ![j] = None]
    BY <1>1, <1>2
  <1> QED
    BY <1>3, <1>4 DEF Moved, ReleaseRow

\* A step that changes no status, owner, counter or domain record is a stutter.
LEMMA LifecycleStutter ==
  ASSUME UNCHANGED <<status, worker_name, attempt_no, domain>>
  PROVE  UNCHANGED Lifecycle!lifecycle
  BY DEF Lifecycle!lifecycle, Phase

\* Giving up an attempt is a charged repeat, or the exhaustion of the budget.
LEMMA GiveUpStep ==
  ASSUME RowInv, NEW j \in Jobs, status[j] = "running", GiveUpAttempt(j)
  PROVE  Lifecycle!Next
  <1> USE AttemptsAssumption, RoundsAssumption, NoneAssumption
  <1>1. attempt_no[j] \in 0..MaxAttempts
    BY DEF RowInv, RowType
  <1>2. [i \in Jobs |-> Phase(i)][j] = "active"
    BY DEF Phase
  <1>3. CASE attempt_no[j] < MaxAttempts
    <2>1. ReleaseRow(j, "retryable_failed", attempt_no[j]) /\ domain' = domain
      BY <1>3 DEF GiveUpAttempt
    <2>2. Moved(j, "waiting", None, attempt_no[j])
      BY <1>1, <2>1, ReleaseWaits DEF Moved
    <2>3. Lifecycle!Repeat(j, attempt_no[j])
      BY <1>1, <1>2, <1>3, <2>1, <2>2 DEF Moved, Lifecycle!Move, Lifecycle!Repeat
    <2> QED
      BY <1>1, <2>3 DEF Lifecycle!Next
  <1>4. CASE ~(attempt_no[j] < MaxAttempts)
    <2>1. ReleaseRow(j, "failed", attempt_no[j]) /\ CloseDomain(j)
      BY <1>4 DEF GiveUpAttempt
    <2>2. Moved(j, "ended", None, attempt_no[j])
      BY <1>1, <2>1, ReleaseEnds DEF Moved
    <2>3. Lifecycle!Exhaust(j)
      BY <1>1, <1>2, <1>4, <2>1, <2>2 DEF Moved, Lifecycle!Move, Lifecycle!Exhaust,
         Lifecycle!Close, CloseDomain
    <2> QED
      BY <2>3 DEF Lifecycle!Next
  <1> QED
    BY <1>3, <1>4

\* Producers, users and the clock take steps of the life cycle.
LEMMA JobStepSimulates ==
  ASSUME RowInv, NEW j \in Jobs, JobStep(j)
  PROVE  Lifecycle!Next \/ UNCHANGED Lifecycle!lifecycle
  <1> USE AttemptsAssumption, RoundsAssumption, NoneAssumption
  <1>1. CASE Submit(j)
    <2>1. attempt_no[j] = 0 /\ attempt_no' = attempt_no /\ domain' = domain /\ status[j] = "absent"
          /\ worker_name' = worker_name /\ status' = [status EXCEPT ![j] = "pending"]
      BY <1>1 DEF Submit, RowInv, NotStranded
    <2>2. Moved(j, "waiting", None, 0)
      BY <2>1 DEF Moved, Phase, RowInv, RowType
    <2>3. Lifecycle!Submit(j)
      BY <2>1, <2>2 DEF Moved, Lifecycle!Move, Lifecycle!Submit, Phase
    <2> QED
      BY <2>3 DEF Lifecycle!Next
  <1>2. CASE Requeue(j)
    <2>1. /\ ReleaseRow(j, "pending", 0) /\ domain' = domain /\ domain[j] = "open"
          /\ status[j] \in Waiting \cup TERMINAL_JOB_STATUSES
      BY <1>2 DEF Requeue
    <2>2. Moved(j, "waiting", None, 0)
      BY <2>1, ReleaseWaits
    <2>3. Lifecycle!Again(j)
      BY <2>1, <2>2 DEF Moved, Lifecycle!Move, Lifecycle!Again, Phase
    <2> QED
      BY <2>3 DEF Lifecycle!Next
  <1>3. CASE CancelRun(j) \/ CancelScenarioJob(j)
    <2>1. status[j] # "absent" /\ domain[j] = "open" /\ domain' = [domain EXCEPT ![j] = "closed"]
      BY <1>3 DEF CancelRun, CancelScenarioJob, CloseDomain
    <2>2. attempt_no[j] \in 0..MaxAttempts
      BY DEF RowInv, RowType
    <2>3. Moved(j, "ended", None, attempt_no[j])
      <3>1. CASE CancelRun(j) /\ status[j] \in TERMINAL_JOB_STATUSES
        BY <3>1 DEF CancelRun, Moved, Phase, RowInv, RowType
      <3>2. CASE CancelRun(j) /\ status[j] \notin TERMINAL_JOB_STATUSES
        BY <2>2, <3>2, ReleaseEnds DEF CancelRun, Moved
      <3>3. CASE CancelScenarioJob(j)
        BY <3>3 DEF CancelScenarioJob, Moved, Phase, RowInv, RowType
      <3> QED
        BY <1>3, <3>1, <3>2, <3>3
    <2>4. Lifecycle!Cancel(j)
      BY <2>1, <2>3 DEF Moved, Lifecycle!Move, Lifecycle!Cancel, Lifecycle!Close, Phase
    <2> QED
      BY <2>4 DEF Lifecycle!Next
  <1>4. CASE BecomeDue(j) \/ LeaseExpires(j) \/ LoseLock(j)
    BY <1>4, LifecycleStutter DEF BecomeDue, LeaseExpires, LoseLock, row
  <1> QED
    BY <1>1, <1>2, <1>3, <1>4 DEF JobStep

\* Slots take steps of the life cycle: what they do off the rows is invisible.
LEMMA WorkerStepSimulates ==
  ASSUME RowInv, SlotInv, NEW w \in Workers, WorkerStep(w)
  PROVE  Lifecycle!Next \/ UNCHANGED Lifecycle!lifecycle
  <1> USE AttemptsAssumption, RoundsAssumption, NoneAssumption
  <1>1. ASSUME NEW j \in Jobs, NEW o \in Owners, claim_next_job(w, j, o)
        PROVE  Lifecycle!Next
    <2>1. /\ status[j] \in Waiting /\ attempt_no[j] < MaxAttempts /\ domain' = domain
          /\ \A i \in Jobs : worker_name[i] # o
          /\ status' = [status EXCEPT ![j] = "running"]
          /\ worker_name' = [worker_name EXCEPT ![j] = o]
          /\ attempt_no' = [attempt_no EXCEPT ![j] = @ + 1]
      BY <1>1 DEF claim_next_job, Fresh
    <2>2. Moved(j, "active", o, attempt_no[j] + 1)
      BY <2>1 DEF Moved, Phase, RowInv, RowType
    <2>3. Lifecycle!Start(j, o)
      BY <2>1, <2>2 DEF Moved, Lifecycle!Move, Lifecycle!Start, Phase
    <2> QED
      BY <2>3 DEF Lifecycle!Next
  <1>2. CASE abandon_claim(w)
    <2>1. PICK j \in Jobs : j = job[w]
      BY <1>2, SlotHasJob DEF abandon_claim
    <2>2. CASE Owns(job[w], owner[w])
      <3>1. PICK n \in 0..MaxAttempts :
              /\ n = (IF attempt_no[j] > 0 THEN attempt_no[j] - 1 ELSE 0)
              /\ n < MaxAttempts
        BY <2>1 DEF RowInv, RowType
      <3>2. ReleaseRow(j, "retryable_failed", n) /\ domain' = domain
        BY <1>2, <2>1, <2>2, <3>1 DEF abandon_claim
      <3>3. Moved(j, "waiting", None, n)
        BY <3>2, ReleaseWaits
      <3>4. Lifecycle!Repeat(j, n)
        BY <2>1, <2>2, <3>1, <3>2, <3>3 DEF Moved, Lifecycle!Move, Lifecycle!Repeat, Owns, Phase, RowInv, RowType
      <3> QED
        BY <2>1, <3>4 DEF Lifecycle!Next
    <2>3. CASE ~Owns(job[w], owner[w])
      BY <1>2, <2>3, LifecycleStutter DEF abandon_claim, row
    <2> QED
      BY <2>2, <2>3
  <1>3. ASSUME NEW s \in TERMINAL_JOB_STATUSES \cup {"pending"}, CommitResult(w, s)
        PROVE  Lifecycle!Next
    <2>1. PICK j \in Jobs : j = job[w] /\ status[j] = "running"
      BY <1>3, SlotHasJob DEF CommitResult, OwnsLive, Owns
    <2>2. PICK n \in 0..MaxAttempts : n = attempt_no[j]
      BY <2>1 DEF RowInv, RowType
    <2>3. CASE s = "pending"
      <3>1. ReleaseRow(j, "pending", 0) /\ domain' = domain
        BY <1>3, <2>1, <2>3 DEF CommitResult, ReleaseRow
      <3>2. Moved(j, "waiting", None, 0)
        BY <3>1, ReleaseWaits
      <3>3. Lifecycle!Repeat(j, 0)
        BY <2>1, <3>1, <3>2 DEF Moved, Lifecycle!Move, Lifecycle!Repeat, Phase
      <3> QED
        BY <2>1, <3>3 DEF Lifecycle!Next
    <2>4. CASE s # "pending"
      <3>1. /\ s \in TERMINAL_JOB_STATUSES /\ ReleaseRow(j, s, n)
            /\ domain' = [domain EXCEPT ![j] = "closed"] \/ domain' = domain
        BY <1>3, <2>1, <2>2, <2>4 DEF CommitResult, ReleaseRow, CloseDomain
      <3>2. Moved(j, "ended", None, n)
        BY <3>1, ReleaseEnds
      <3>3. Lifecycle!End(j)
        BY <2>1, <2>2, <3>1, <3>2 DEF Moved, Lifecycle!Move, Lifecycle!End, Lifecycle!Close, Phase
      <3> QED
        BY <2>1, <3>3 DEF Lifecycle!Next
    <2> QED
      BY <2>3, <2>4
  <1>4. CASE _record_unhandled_failure(w)
    <2>1. job[w] \in Jobs
      BY <1>4, SlotHasJob DEF _record_unhandled_failure
    <2>2. CASE ~hbLost[w] /\ Owns(job[w], owner[w])
      BY <1>4, <2>1, <2>2, GiveUpStep DEF _record_unhandled_failure, Owns
    <2>3. CASE ~(~hbLost[w] /\ Owns(job[w], owner[w]))
      BY <1>4, <2>3, LifecycleStutter DEF _record_unhandled_failure, row
    <2> QED
      BY <2>2, <2>3
  <1>5. CASE \/ AcquireLock(w) \/ LockRefused(w) \/ AbandonFails(w) \/ Heartbeat(w) \/ StartHandler(w)
             \/ HandlerRaises(w) \/ ReportOutcome(w) \/ RecordFails(w) \/ Release(w) \/ Crash(w)
    BY <1>5, LifecycleStutter DEF AcquireLock, LockRefused, AbandonFails, Heartbeat, StartHandler,
       HandlerRaises, ReportOutcome, RecordFails, Release, Crash, row
  <1> QED
    BY <1>1, <1>2, <1>3, <1>4, <1>5 DEF WorkerStep

\* Recovery loops take steps of the life cycle.
LEMMA ReaperStepSimulates ==
  ASSUME RowInv, SlotInv, NEW r \in Reapers, ReaperStep(r)
  PROVE  Lifecycle!Next \/ UNCHANGED Lifecycle!lifecycle
  <1>1. CASE recover_expired_lease(r)
    <2>1. rjob[r] \in Jobs
      BY <1>1 DEF recover_expired_lease, SlotInv, SlotType, SlotCoherent
    <2>2. CASE Owns(rjob[r], rowner[r]) /\ lease[rjob[r]] = "expired"
      BY <1>1, <2>1, <2>2, GiveUpStep DEF recover_expired_lease, Owns
    <2>3. CASE ~(Owns(rjob[r], rowner[r]) /\ lease[rjob[r]] = "expired")
      BY <1>1, <2>3, LifecycleStutter DEF recover_expired_lease, row
    <2> QED
      BY <2>2, <2>3
  <1>2. ASSUME NEW j \in Jobs, list_expired_leases(r, j)
        PROVE  UNCHANGED Lifecycle!lifecycle
    BY <1>2, LifecycleStutter DEF list_expired_leases, row
  <1>3. CASE ReaperLock(r) \/ RecoveryFails(r) \/ ReaperRelease(r) \/ ReaperCrash(r)
    BY <1>3, LifecycleStutter DEF ReaperLock, RecoveryFails, ReaperRelease, ReaperCrash, row
  <1> QED
    BY <1>1, <1>2, <1>3 DEF ReaperStep

\* Every step of the queue is a step or a stutter of the life cycle.
LEMMA StepSimulates ==
  IInv /\ [Next]_vars => [Lifecycle!Next]_(Lifecycle!lifecycle)
  <1> SUFFICES ASSUME RowInv, SlotInv, [Next]_vars
               PROVE  Lifecycle!Next \/ UNCHANGED Lifecycle!lifecycle
    BY SplitInv
  <1>1. CASE UNCHANGED vars
    BY <1>1, LifecycleStutter DEF vars, row
  <1> QED
    BY <1>1, JobStepSimulates, WorkerStepSimulates, ReaperStepSimulates DEF Next

\* The queue, with its slots, leases, locks and recovery, implements JobLifecycle.
THEOREM Refinement == Spec => ImplementsLifecycle
  <1>1. Init => Lifecycle!Init
    BY DEF Init, Lifecycle!Init, Phase
  <1> QED
    BY <1>1, StepSimulates, Invariance, PTL DEF Spec, ImplementsLifecycle, Lifecycle!Spec

\* In the life cycle an ended job whose record is closed has no step left.
LEMMA EndedIsFinal ==
  ASSUME RowInv, RowInv', NEW j \in Jobs, Lifecycle!Next \/ UNCHANGED Lifecycle!lifecycle,
         domain[j] = "closed", status[j] \in TERMINAL_JOB_STATUSES
  PROVE  domain'[j] = "closed" /\ status'[j] \in TERMINAL_JOB_STATUSES
  <1> DEFINE phase == [i \in Jobs |-> Phase(i)]
  <1>1. phase[j] = "ended"
    BY DEF Phase
  <1>2. domain'[j] = "closed" /\ phase'[j] = "ended"
    <2>1. CASE UNCHANGED Lifecycle!lifecycle
      BY <1>1, <2>1 DEF Lifecycle!lifecycle
    <2>2. ASSUME NEW i \in Jobs,
                 \/ Lifecycle!Submit(i) \/ Lifecycle!End(i) \/ Lifecycle!Exhaust(i)
                 \/ Lifecycle!Again(i) \/ Lifecycle!Cancel(i)
                 \/ \E a \in Owners : Lifecycle!Start(i, a)
                 \/ \E n \in 0..MaxAttempts : Lifecycle!Repeat(i, n)
          PROVE  domain'[j] = "closed" /\ phase'[j] = "ended"
      <3> USE DEF Lifecycle!Move, Lifecycle!Close, RowInv, RowType
      <3>1. i # j
        BY <1>1, <2>2 DEF Lifecycle!Submit, Lifecycle!End, Lifecycle!Exhaust, Lifecycle!Again,
           Lifecycle!Cancel, Lifecycle!Start, Lifecycle!Repeat
      <3>2. phase'[j] = phase[j]
        BY <2>2, <3>1 DEF Lifecycle!Submit, Lifecycle!End, Lifecycle!Exhaust, Lifecycle!Again,
           Lifecycle!Cancel, Lifecycle!Start, Lifecycle!Repeat
      <3>3. domain'[j] = domain[j]
        BY <2>2, <3>1 DEF Lifecycle!Submit, Lifecycle!End, Lifecycle!Exhaust, Lifecycle!Again,
           Lifecycle!Cancel, Lifecycle!Start, Lifecycle!Repeat
      <3> QED
        BY <1>1, <3>2, <3>3
    <2> QED
      BY <2>1, <2>2 DEF Lifecycle!Next
  <1>3. status'[j] \in Status
    BY DEF RowInv, RowType
  <1> QED
    BY <1>2, <1>3 DEF Phase, Status

\* No late commit, heartbeat, failure record, recovery or requeue revives a job
\* whose record is closed.
THEOREM ClosedIsFinal == Spec => ClosedStaysTerminal
  <1>1. IInv /\ IInv' /\ [Next]_vars =>
          [\A j \in Jobs :
             (domain[j] = "closed" /\ status[j] \in TERMINAL_JOB_STATUSES)
               => domain'[j] = "closed" /\ status'[j] \in TERMINAL_JOB_STATUSES]_vars
    <2> SUFFICES ASSUME IInv, IInv', [Next]_vars, NEW j \in Jobs,
                        domain[j] = "closed", status[j] \in TERMINAL_JOB_STATUSES
                 PROVE  domain'[j] = "closed" /\ status'[j] \in TERMINAL_JOB_STATUSES
      OBVIOUS
    <2>1. RowInv /\ RowInv'
      BY DEF IInv, RowInv, RowType, TypeOK
    <2>2. Lifecycle!Next \/ UNCHANGED Lifecycle!lifecycle
      BY StepSimulates
    <2> QED
      BY <2>1, <2>2, EndedIsFinal
  <1> QED
    BY <1>1, Invariance, PTL DEF Spec, ClosedStaysTerminal

\* Only the step of its own slot, or a cancel, takes a row from an attempt that
\* owns it and holds its lock.
LEMMA LockKeepsRow ==
  ASSUME RowInv, SlotInv, Next, NEW w \in Workers,
         pc[w] \in {"locked", "handling"}, pc'[w] = pc[w], ~lockLost[w],
         Owns(job[w], owner[w]),
         \A r \in Reapers : rpc[r] = "locked" => holder[rjob[r]] = r
  PROVE  Owns(job[w], owner[w])' \/ domain'[job[w]] = "closed"
  <1> USE NoneAssumption, ProcessAssumption
  <1>0. /\ job[w] \in Jobs /\ owner[w] \in Owners /\ holder[job[w]] = w
        /\ status[job[w]] = "running" /\ worker_name[job[w]] = owner[w]
    BY SlotHasJob DEF SlotInv, LockHeld, Owns
  <1>1. ASSUME NEW j \in Jobs, JobStep(j)
        PROVE  Owns(job[w], owner[w])' \/ domain'[job[w]] = "closed"
    <2>1. UNCHANGED <<job, owner>>
      BY <1>1 DEF JobStep, Submit, Requeue, CancelRun, CancelScenarioJob, BecomeDue, LeaseExpires, LoseLock,
         slot
    <2>2. CASE j = job[w]
      BY <1>0, <1>1, <2>1, <2>2 DEF JobStep, Submit, Requeue, CancelRun, CancelScenarioJob, BecomeDue,
         LeaseExpires, LoseLock, CloseDomain, Owns, row, RowInv, RowType
    <2>3. CASE j # job[w]
      BY <1>0, <1>1, <2>1, <2>3 DEF JobStep, Submit, Requeue, CancelRun, CancelScenarioJob, BecomeDue,
         LeaseExpires, LoseLock, ReleaseRow, Owns, row, RowInv, RowType
    <2> QED
      BY <2>2, <2>3
  <1>2. ASSUME NEW r \in Reapers, ReaperStep(r)
        PROVE  Owns(job[w], owner[w])'
    <2>1. UNCHANGED <<job, owner>>
      BY <1>2 DEF ReaperStep, list_expired_leases, ReaperLock, recover_expired_lease, RecoveryFails,
         ReaperRelease, ReaperCrash, slot
    <2>2. CASE recover_expired_lease(r)
      <3>1. rjob[r] # job[w]
        BY <1>0, <2>2 DEF recover_expired_lease
      <3> QED
        BY <1>0, <2>1, <2>2, <3>1 DEF recover_expired_lease, GiveUpAttempt, ReleaseRow, Owns, row, RowInv, RowType
    <2>3. CASE ~recover_expired_lease(r)
      BY <1>0, <1>2, <2>1, <2>3 DEF ReaperStep, list_expired_leases, ReaperLock, RecoveryFails, ReaperRelease,
         ReaperCrash, Owns, row
    <2> QED
      BY <2>2, <2>3
  <1>3. ASSUME NEW v \in Workers, WorkerStep(v)
        PROVE  Owns(job[w], owner[w])'
    <2>1. UNCHANGED row \/ Heartbeat(v) => Owns(job[w], owner[w])' \/ job'[w] # job[w] \/ owner'[w] # owner[w]
      BY <1>0 DEF row, Heartbeat, Owns
    <2>2. v # w => job'[w] = job[w] /\ owner'[w] = owner[w]
      BY <1>3 DEF WorkerStep, claim_next_job, AcquireLock, LockRefused, abandon_claim, AbandonFails,
         Heartbeat, StartHandler, CommitResult, HandlerRaises, ReportOutcome, _record_unhandled_failure,
         RecordFails, Release, Crash, Forget, SlotInv, SlotType
    <2>3. CASE v = w
      <3>1. Heartbeat(w)
        BY <1>3, <2>3 DEF WorkerStep, claim_next_job, AcquireLock, LockRefused, abandon_claim,
           AbandonFails, StartHandler, CommitResult, HandlerRaises, ReportOutcome,
           _record_unhandled_failure, RecordFails, Release, Crash, Forget, Goto, SlotInv, SlotType
      <3> QED
        BY <2>1, <2>3, <3>1 DEF Heartbeat
    <2>4. CASE v # w /\ UNCHANGED row
      BY <2>1, <2>2, <2>4
    <2>5. CASE v # w /\ ~UNCHANGED row
      <3>1. ASSUME NEW j \in Jobs, NEW o \in Owners, claim_next_job(v, j, o)
            PROVE  Owns(job[w], owner[w])'
        <4>1. j # job[w]
          BY <1>0, <3>1 DEF claim_next_job
        <4> QED
          BY <1>0, <2>2, <2>5, <3>1, <4>1 DEF claim_next_job, Owns, RowInv, RowType
      <3>2. ASSUME pc[v] # "idle" PROVE owner[v] # owner[w] /\ job[v] \in Jobs
        BY <1>0, <2>5, <3>2, SlotHasJob DEF SlotInv, SlotCoherent
      <3>3. CASE abandon_claim(v)
        <4>1. job[v] # job[w] /\ job[v] \in Jobs
          BY <1>0, <2>5, <3>2, <3>3 DEF abandon_claim, Owns
        <4> QED
          BY <1>0, <2>2, <2>5, <3>3, <4>1 DEF abandon_claim, ReleaseRow, Owns, RowInv, RowType
      <3>4. CASE Heartbeat(v)
        BY <2>1, <2>2, <2>5, <3>4
      <3>5. ASSUME NEW s \in TERMINAL_JOB_STATUSES \cup {"pending"}, CommitResult(v, s)
            PROVE  Owns(job[w], owner[w])'
        <4>1. job[v] # job[w] /\ job[v] \in Jobs
          BY <1>0, <2>5, <3>2, <3>5 DEF CommitResult, OwnsLive, Owns
        <4> QED
          BY <1>0, <2>2, <2>5, <3>5, <4>1 DEF CommitResult, ReleaseRow, Owns, RowInv, RowType
      <3>6. CASE _record_unhandled_failure(v)
        <4>1. job[v] # job[w] /\ job[v] \in Jobs
          BY <1>0, <2>5, <3>2, <3>6 DEF _record_unhandled_failure, Owns
        <4> QED
          BY <1>0, <2>2, <2>5, <3>6, <4>1
          DEF _record_unhandled_failure, GiveUpAttempt, ReleaseRow, Owns, RowInv, RowType
      <3> QED
        BY <1>3, <2>5, <3>1, <3>3, <3>4, <3>5, <3>6 DEF WorkerStep, AcquireLock, LockRefused, AbandonFails,
           StartHandler, HandlerRaises, ReportOutcome, RecordFails, Release, Crash
    <2> QED
      BY <2>3, <2>4, <2>5
  <1> QED
    BY <1>1, <1>2, <1>3 DEF Next

\* "The advisory lock prevents recovery while this connection is alive."
THEOREM LockPreventsRecovery == Spec => LockedAttemptKeepsRow
  <1>1. IInv /\ [Next]_vars =>
          [\A w \in Workers :
             (/\ pc[w] \in {"locked", "handling"} /\ pc'[w] = pc[w] /\ ~lockLost[w]
              /\ Owns(job[w], owner[w])
              /\ \A r \in Reapers : rpc[r] = "locked" => holder[rjob[r]] = r)
             => Owns(job[w], owner[w])' \/ domain'[job[w]] = "closed"]_vars
    BY SplitInv, LockKeepsRow
  <1> QED
    BY <1>1, Invariance, PTL DEF Spec, LockedAttemptKeepsRow
=============================================================================
