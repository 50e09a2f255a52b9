--------------------------- MODULE CompilePublish ---------------------------
(***************************************************************************)
(* Publishing a skill (backend/app/domain/skills/service.py, publish_skill)*)
(* and compiling it (backend/app/domain/compiler): publish records, compile*)
(* requests and their jobs, artifacts, and the latest published version    *)
(* that runs are created from.                                             *)
(*                                                                         *)
(* A compile request is processed by a worker slot under the lease of its  *)
(* job, or by a caller of POST /requests/{id}/retry, which does the same   *)
(* work inside the API process, without lease or lock.  A handler commits  *)
(* after every stage; what it knows of the request (mem) and of the skill  *)
(* (seen) is what its session loaded or wrote last.                        *)
(***************************************************************************)
EXTENDS Integers

CONSTANTS
  Publishes,    \* publishes of the skill: record, version, request and job
  Manuals,      \* manual compile requests: a request and a job, no record
  Slots,        \* worker slots, and their owner tokens
  Callers,      \* callers of the retry endpoint, one call each
  Serves,       \* bound: the requests that each slot claims and each caller retries
  MaxAttempts,  \* runtime_job_max_attempts
  None          \* no owner, no version, no request

Requests == Publishes \cup Manuals
Handlers == Slots \cup Callers

ASSUME AttemptsAssumption == MaxAttempts \in Nat \ {0}
ASSUME ServesAssumption == Serves \in [Handlers -> SUBSET Requests]
ASSUME NamesAssumption ==
  /\ Publishes \cap Manuals = {} /\ Slots \cap Callers = {}
  /\ None \notin Requests /\ None \notin Handlers

VARIABLES
  publish,   \* the publish_skill calls
  record,    \* skill_publish_record.publish_status
  request,   \* skill_compile_request.status
  artifact,  \* whether the request has its eg_compile_artifact, which is unique
  job,       \* the compile jobs
  latest,    \* skill_definition.latest_published_version_id
  handler    \* an attempt in a slot, a call of the retry endpoint

vars == <<publish, record, request, artifact, job, latest, handler>>

Claimable == {"pending", "retryable_failed"}
TERMINAL_JOB_STATUSES == {"succeeded", "failed", "cancelled"}
RecordStatus == {"absent", "compiling", "published", "failed"}
RequestStatus == {"absent", "pending", "running", "succeeded", "failed"}
NoJob == [status |-> "absent", owner |-> None, attempt |-> 0]
Queued == [status |-> "pending", owner |-> None, attempt |-> 0]
\* range(2): a candidate and its repair.
Tries == {1, 2}
Idle == [pc |-> "idle", req |-> None, mem |-> "absent", seen |-> None, try |-> 1]

TypeOK ==
  /\ publish \in [Publishes -> {"new", "accepted", "queued", "refused", "died"}]
  /\ record \in [Publishes -> RecordStatus]
  /\ request \in [Requests -> RequestStatus]
  /\ artifact \in [Requests -> BOOLEAN]
  /\ job \in [Requests -> [status : Claimable \cup TERMINAL_JOB_STATUSES \cup {"absent", "running"},
                           owner : Slots \cup {None}, attempt : Nat]]
  /\ latest \in Publishes \cup {None}
  /\ handler \in [Handlers -> [pc : {"idle", "claimed", "compiling", "emitted", "finalizing", "done"},
                               req : Requests \cup {None}, mem : RequestStatus,
                               seen : Publishes \cup {None}, try : Tries]]

Init ==
  /\ publish = [p \in Publishes |-> "new"] /\ record = [p \in Publishes |-> "absent"]
  /\ request = [r \in Requests |-> "absent"] /\ artifact = [r \in Requests |-> FALSE]
  /\ job = [r \in Requests |-> NoJob]
  /\ latest = None
  /\ handler = [h \in Handlers |-> Idle]

(***************************************************************************)
(* publish_skill and the manual request.                                   *)
(***************************************************************************)

\* The publish record is committed before the source is frozen.
PublishAccepted(p) ==
  /\ publish[p] = "new"
  /\ publish' = [publish EXCEPT ![p] = "accepted"]
  /\ record' = [record EXCEPT ![p] = "compiling"]
  /\ UNCHANGED <<request, artifact, job, latest, handler>>

\* The version, the request and the job (create_compile_request_for_publish).
PublishQueued(p) ==
  /\ publish[p] = "accepted"
  /\ publish' = [publish EXCEPT ![p] = "queued"]
  /\ request' = [request EXCEPT ![p] = "pending"]
  /\ job' = [job EXCEPT ![p] = Queued]
  /\ UNCHANGED <<record, artifact, latest, handler>>

\* The source is not there, or its manifest is not the skill's.
PublishRefused(p) ==
  /\ publish[p] = "accepted"
  /\ publish' = [publish EXCEPT ![p] = "refused"]
  /\ record' = [record EXCEPT ![p] = "failed"]
  /\ UNCHANGED <<request, artifact, job, latest, handler>>

PublishDies(p) ==
  /\ publish[p] = "accepted"
  /\ publish' = [publish EXCEPT ![p] = "died"]
  /\ UNCHANGED <<record, request, artifact, job, latest, handler>>

create_manual_compile_request_for_skill(r) ==
  /\ request[r] = "absent"
  /\ request' = [request EXCEPT ![r] = "pending"]
  /\ job' = [job EXCEPT ![r] = Queued]
  /\ UNCHANGED <<publish, record, artifact, latest, handler>>

(***************************************************************************)
(* The job.                                                                *)
(***************************************************************************)

Owns(h) == job[handler[h].req].status = "running" /\ job[handler[h].req].owner = h

\* The sessions of worker slots are fenced, those of API calls are not.
MayCommit(h) == h \in Callers \/ Owns(h)

Released(j, st) == [status |-> st, owner |-> None, attempt |-> j.attempt]

\* Mutant of finalize_exhausted_compile_job: the request is left to the queue.
FailRecordOnly(r) ==
  /\ record' = [p \in Publishes |-> IF p = r THEN "failed" ELSE record[p]]
  /\ UNCHANGED request

\* A request that has a result keeps it, and then the record is not touched.
finalize_exhausted_compile_job(r) ==
  IF request[r] \in {"succeeded", "failed"} THEN UNCHANGED <<request, record>>
  ELSE /\ request' = [request EXCEPT ![r] = "failed"]
       /\ record' = [p \in Publishes |->
                       IF p = r /\ record[p] # "published" THEN "failed" ELSE record[p]]

\* The attempt on r ended without a result (GiveUpAttempt of JobQueue).
GiveUpAttempt(r) ==
  IF job[r].attempt < MaxAttempts
  THEN /\ job' = [job EXCEPT ![r] = Released(@, "retryable_failed")]
       /\ UNCHANGED <<request, record>>
  ELSE /\ job' = [job EXCEPT ![r] = Released(@, "failed")]
       /\ finalize_exhausted_compile_job(r)

claim_next_job(s, r) ==
  /\ handler[s].pc = "idle" /\ r \in Serves[s]
  /\ job[r].status \in Claimable /\ job[r].attempt < MaxAttempts
  /\ job' = [job EXCEPT ![r] = [status |-> "running", owner |-> s, attempt |-> @.attempt + 1]]
  /\ handler' = [handler EXCEPT ![s] = [Idle EXCEPT !.pc = "claimed", !.req = r]]
  /\ UNCHANGED <<publish, record, request, artifact, latest>>

recover_expired_lease(r) ==
  /\ job[r].status = "running"
  /\ GiveUpAttempt(r)
  /\ UNCHANGED <<publish, artifact, latest, handler>>

\* What the handler raised outside of its own error handling.
_record_unhandled_failure(s) ==
  /\ handler[s].pc # "idle"
  /\ IF Owns(s) THEN GiveUpAttempt(handler[s].req) ELSE UNCHANGED <<job, request, record>>
  /\ handler' = [handler EXCEPT ![s] = Idle]
  /\ UNCHANGED <<publish, artifact, latest>>

\* The retry endpoint takes a job that does not run, in any status, with a
\* lease that is over at once, and joins one that does.
process_compile_job_for_request(c, r) ==
  /\ handler[c].pc = "idle" /\ r \in Serves[c] /\ request[r] # "absent"
  /\ job' = IF job[r].status = "running" THEN job
            ELSE [job EXCEPT ![r].status = "running", ![r].attempt = @ + 1]
  /\ handler' = [handler EXCEPT ![c] = [Idle EXCEPT !.pc = "claimed", !.req = r]]
  /\ UNCHANGED <<publish, record, request, artifact, latest>>

\* A process dies, or an API call ends in an error.
Crash(h) ==
  /\ handler[h].pc \notin {"idle", "done"}
  /\ handler' = [handler EXCEPT ![h] = IF h \in Slots THEN Idle ELSE [Idle EXCEPT !.pc = "done"]]
  /\ UNCHANGED <<publish, record, request, artifact, job, latest>>

(***************************************************************************)
(* process_compile_job.                                                    *)
(***************************************************************************)

\* A request that succeeded only needs its publish finalized; any other one is
\* compiled, a failed one too.
CompileStarts(h) ==
  LET r == handler[h].req IN
  /\ handler[h].pc = "claimed"
  /\ \/ /\ request[r] = "succeeded"
        /\ handler' = [handler EXCEPT ![h] = [@ EXCEPT !.pc = "finalizing", !.mem = "succeeded", !.seen = latest]]
        /\ UNCHANGED request
     \/ /\ request[r] # "succeeded" /\ MayCommit(h)
        /\ request' = [request EXCEPT ![r] = "running"]
        /\ handler' = [handler EXCEPT ![h] = [@ EXCEPT !.pc = "compiling", !.mem = "running", !.seen = latest]]
  /\ UNCHANGED <<publish, record, artifact, job, latest>>

\* The agent's first candidate is not a valid graph: it may repair it.
CandidateRejected(h) ==
  /\ handler[h].pc = "compiling" /\ handler[h].try = 1 /\ MayCommit(h)
  /\ handler' = [handler EXCEPT ![h].try = 2]
  /\ UNCHANGED <<publish, record, request, artifact, job, latest>>

\* Blocking diagnostics, a second invalid candidate, or an exception.
CompileFails(h) ==
  /\ handler[h].pc \in {"compiling", "emitted"} /\ MayCommit(h)
  /\ request' = [request EXCEPT ![handler[h].req] = "failed"]
  /\ handler' = [handler EXCEPT ![h] = [@ EXCEPT !.pc = "finalizing", !.mem = "failed", !.try = 1]]
  /\ UNCHANGED <<publish, record, artifact, job, latest>>

\* The artifact is committed with the progress stage.  A second artifact of the
\* request would break the unique constraint: CompileFails.
ArtifactEmitted(h) ==
  LET r == handler[h].req IN
  /\ handler[h].pc = "compiling" /\ MayCommit(h)
  /\ ~artifact[r]
  /\ artifact' = [artifact EXCEPT ![r] = TRUE]
  /\ handler' = [handler EXCEPT ![h] = [@ EXCEPT !.pc = "emitted", !.try = 1]]
  /\ UNCHANGED <<publish, record, request, job, latest>>

\* Mutant of CompileSucceeds: success before the artifact is written.
SucceedWithoutArtifact(h) ==
  /\ handler[h].pc \in {"compiling", "emitted"} /\ MayCommit(h)
  /\ request' = [request EXCEPT ![handler[h].req] = "succeeded"]
  /\ handler' = [handler EXCEPT ![h] = [@ EXCEPT !.pc = "finalizing", !.mem = "succeeded", !.try = 1]]
  /\ UNCHANGED <<publish, record, artifact, job, latest>>

CompileSucceeds(h) ==
  /\ handler[h].pc = "emitted" /\ MayCommit(h)
  /\ request' = [request EXCEPT ![handler[h].req] = "succeeded"]
  /\ handler' = [handler EXCEPT ![h] = [@ EXCEPT !.pc = "finalizing", !.mem = "succeeded"]]
  /\ UNCHANGED <<publish, record, artifact, job, latest>>

\* Mutant of _finalize_publish_job: the version is made the latest one anyway.
FinalizeRegardless(h) ==
  LET r == handler[h].req IN
  /\ handler[h].pc = "finalizing" /\ MayCommit(h)
  /\ record' = [p \in Publishes |-> IF p # r THEN record[p]
                                    ELSE IF handler[h].mem = "succeeded" THEN "published" ELSE "failed"]
  /\ latest' = IF r \in Publishes /\ handler[h].seen # r THEN r ELSE latest
  /\ job' = [job EXCEPT ![r] = IF h \in Slots THEN Released(@, handler[h].mem) ELSE [@ EXCEPT !.status = handler[h].mem]]
  /\ handler' = [handler EXCEPT ![h] = IF h \in Slots THEN Idle ELSE [Idle EXCEPT !.pc = "done"]]
  /\ UNCHANGED <<publish, request, artifact>>

\* Record, latest version and job in one commit.  The session writes the latest
\* version if it differs from the one it loaded; the fence of a slot releases
\* the job's owner, an API call leaves it.
_finalize_publish_job(h) ==
  LET r == handler[h].req
      ok == handler[h].mem = "succeeded"
  IN
  /\ handler[h].pc = "finalizing" /\ MayCommit(h)
  /\ record' = [p \in Publishes |-> IF p # r THEN record[p] ELSE IF ok THEN "published" ELSE "failed"]
  /\ latest' = IF ok /\ r \in Publishes /\ handler[h].seen # r THEN r ELSE latest
  /\ job' = [job EXCEPT ![r] = IF h \in Slots THEN Released(@, handler[h].mem)
                               ELSE [@ EXCEPT !.status = handler[h].mem]]
  /\ handler' = [handler EXCEPT ![h] = IF h \in Slots THEN Idle ELSE [Idle EXCEPT !.pc = "done"]]
  /\ UNCHANGED <<publish, request, artifact>>

(***************************************************************************)
(* The specification.                                                      *)
(***************************************************************************)

Compile(h) ==
  \/ CompileStarts(h) \/ CandidateRejected(h) \/ CompileFails(h)
  \/ ArtifactEmitted(h) \/ CompileSucceeds(h) \/ _finalize_publish_job(h)

Next ==
  \/ \E p \in Publishes : PublishAccepted(p) \/ PublishQueued(p) \/ PublishRefused(p) \/ PublishDies(p)
  \/ \E r \in Manuals : create_manual_compile_request_for_skill(r)
  \/ \E r \in Requests : recover_expired_lease(r)
  \/ \E s \in Slots : _record_unhandled_failure(s) \/ \E r \in Requests : claim_next_job(s, r)
  \/ \E c \in Callers, r \in Requests : process_compile_job_for_request(c, r)
  \/ \E h \in Handlers : Compile(h) \/ Crash(h)

Spec == Init /\ [][Next]_vars

\* Nobody renews the lease of the attempt on r.
Dead(r) == job[r].status = "running" /\ \A s \in Slots : ~(job[r].owner = s /\ handler[s].req = r)

\* Fairness.  The workers do not all stop while one of them has something to do:
\* go on with an attempt, claim what waits, recover a dead lease.  Attempts are
\* bounded, so no slot and no request needs a turn of its own.  API calls and
\* processes owe nothing.
FairSpec ==
  Spec /\ WF_vars(\/ \E s \in Slots : Compile(s) \/ _record_unhandled_failure(s)
                  \/ \E r \in Requests : \/ Dead(r) /\ recover_expired_lease(r)
                                         \/ \E s \in Slots : claim_next_job(s, r))

(***************************************************************************)
(* The jobs as JobLifecycle sees them.  An attempt is told by its job and  *)
(* its number.  The result of a request is committed before its job ends:  *)
(* what a job drives is closed when both have happened.                    *)
(***************************************************************************)

Phase(j) ==
  CASE j.status = "absent" -> "absent"
    [] j.status \in Claimable -> "waiting"
    [] j.status = "running" -> "active"
    [] OTHER -> "ended"

NoAttempt == <<None, 0>>
AttemptAt(r, j) == IF j.status = "running" THEN <<r, j.attempt>> ELSE NoAttempt
DomainOf(j, status) ==
  IF j.status \in TERMINAL_JOB_STATUSES /\ status \in {"succeeded", "failed"} THEN "closed" ELSE "open"

Lifecycle == INSTANCE JobLifecycle WITH
  Jobs <- Requests,
  Attempts <- Requests \X (1..MaxAttempts),
  None <- NoAttempt,
  phase <- [r \in Requests |-> Phase(job[r])],
  attempt <- [r \in Requests |-> AttemptAt(r, job[r])],
  tries <- [r \in Requests |-> job[r].attempt],
  domain <- [r \in Requests |-> DomainOf(job[r], request[r])]

(***************************************************************************)
(* Properties.                                                             *)
(***************************************************************************)

\* A run is created from the latest published version and needs its artifact
\* (create_invocation): the latest version always has one, whoever compiled it,
\* lost a lease, crashed or retried.
LatestIsRunnable ==
  /\ latest # None => artifact[latest]
  /\ \A p \in Publishes : record[p] = "published" => artifact[p]

\* Nobody has retried through the API yet.
Unretried == \A c \in Callers : handler[c].pc = "idle"

\* Until somebody retries through the API, a publish that failed is not the
\* version that runs use, and one that is published has a request that succeeded
\* (_finalize_publish_job under the fence of the job's lease).
RecordAgrees ==
  Unretried =>
    \A p \in Publishes :
      /\ record[p] = "failed" => latest # p
      /\ record[p] = "published" => request[p] = "succeeded" /\ latest # None

\* Until somebody retries through the API, which takes a job out of turn and
\* beyond its budget, the compile jobs move as JobLifecycle allows: a job that
\* ended, and the result of its request, are not taken back by a late attempt,
\* and the last attempt to be given up leaves a result
\* (process_compile_job, finalize_exhausted_compile_job).
CompilesAreJobs ==
  [][Unretried' => Lifecycle!Next \/ UNCHANGED Lifecycle!lifecycle]_vars

\* Every compile request that nobody retries is settled, whatever the workers go
\* through: its job ends, and the request has a result.
RequestSettles ==
  \A r \in Requests :
    (request[r] = "pending")
      ~> (~Unretried \/ (job[r].status \in TERMINAL_JOB_STATUSES /\ request[r] \in {"succeeded", "failed"}))

\* "Idempotently fail compile-owned state": when the job of a publish has
\* ended, its record is not left compiling.
RecordCloses ==
  \A p \in Publishes : job[p].status \in TERMINAL_JOB_STATUSES => record[p] # "compiling"
=============================================================================
