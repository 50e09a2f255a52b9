------------------------ MODULE CompilePublish_proofs ------------------------
(***************************************************************************)
(* Proofs about CompilePublish, for every set of publishes, manual         *)
(* requests, slots and callers and every attempt budget.                   *)
(***************************************************************************)
EXTENDS CompilePublish, TLAPS

PublishStatus == {"new", "accepted", "queued", "refused", "died"}
JobRow == [status : Claimable \cup TERMINAL_JOB_STATUSES \cup {"absent", "running"},
           owner : Slots \cup {None}, attempt : Nat]
Attempt == [pc : {"idle", "claimed", "compiling", "emitted", "finalizing", "done"},
            req : Requests \cup {None}, mem : RequestStatus,
            seen : Publishes \cup {None}, try : Tries]

\* A handler that works has a request, and only API calls are ever done; one
\* that reports success, or has committed the artifact, works on a request with
\* an artifact, and so does every request that succeeded.
Grounded ==
  /\ \A h \in Handlers : handler[h].pc \notin {"idle", "done"} => handler[h].req \in Requests
  /\ \A s \in Slots : handler[s].pc # "done"
  /\ \A h \in Handlers :
       (handler[h].pc = "emitted" \/ (handler[h].pc = "finalizing" /\ handler[h].mem = "succeeded"))
          => artifact[handler[h].req]
  /\ \A r \in Requests : request[r] = "succeeded" => artifact[r]

\* What a handler that ends its work reports is a result, which is the status
\* its job gets.
Reports ==
  \A h \in Handlers : handler[h].pc = "finalizing" => handler[h].mem \in {"succeeded", "failed"}

CInv == TypeOK /\ Reports /\ Grounded /\ LatestIsRunnable

\* Before the first publish every table has its type.
LEMMA TypeInit == Init => TypeOK
BY NamesAssumption
   DEF Init, TypeOK, NoJob, Idle, Tries, RecordStatus, RequestStatus, Requests, Handlers, Claimable, TERMINAL_JOB_STATUSES

\* Giving up an attempt keeps the types of what it writes.
LEMMA GiveUpType ==
  ASSUME TypeOK, NEW r \in Requests, GiveUpAttempt(r)
  PROVE  /\ job' \in [Requests -> JobRow]
         /\ request' \in [Requests -> RequestStatus]
         /\ record' \in [Publishes -> RecordStatus]
<1>1. CASE job[r].attempt < MaxAttempts
  BY <1>1 DEF GiveUpAttempt, TypeOK, JobRow, RecordStatus, Released, Claimable
<1>2. CASE ~(job[r].attempt < MaxAttempts)
  <2>1. job' \in [Requests -> JobRow]
    BY <1>2 DEF GiveUpAttempt, TypeOK, JobRow, Released, TERMINAL_JOB_STATUSES
  <2>2. request' \in [Requests -> RequestStatus]
    BY <1>2 DEF GiveUpAttempt, finalize_exhausted_compile_job, TypeOK, RecordStatus, RequestStatus
  <2>3. record' \in [Publishes -> RecordStatus]
    BY <1>2 DEF GiveUpAttempt, finalize_exhausted_compile_job, TypeOK, RecordStatus
  <2> QED BY <2>1, <2>2, <2>3
<1> QED BY <1>1, <1>2

\* Giving up an attempt makes no request succeed and publishes nothing.
LEMMA GiveUpGrounds ==
  ASSUME TypeOK, NEW r \in Requests, GiveUpAttempt(r)
  PROVE  /\ \A q \in Requests : request'[q] = "succeeded" => request[q] = "succeeded"
         /\ \A p \in Publishes : record'[p] = "published" => record[p] = "published"
<1>1. \A q \in Requests : request'[q] = "succeeded" => request[q] = "succeeded"
  BY DEF GiveUpAttempt, finalize_exhausted_compile_job, TypeOK
<1>2. \A p \in Publishes : record'[p] = "published" => record[p] = "published"
  BY DEF GiveUpAttempt, finalize_exhausted_compile_job, TypeOK
<1> QED BY <1>1, <1>2

\* The record updates of the compile steps stay in the type of an attempt.
LEMMA AttemptUpdates ==
  ASSUME NEW a \in Attempt, NEW p \in {"compiling", "emitted", "finalizing"}, NEW m \in RequestStatus,
         NEW v \in Publishes \cup {None}, NEW t \in Tries
  PROVE  /\ [a EXCEPT !.pc = p, !.mem = m, !.seen = v] \in Attempt
         /\ [a EXCEPT !.pc = p, !.mem = m, !.try = t] \in Attempt
         /\ [a EXCEPT !.pc = p, !.mem = m] \in Attempt
         /\ [a EXCEPT !.pc = p, !.try = t] \in Attempt
<1>1. [a EXCEPT !.pc = p] \in Attempt
  BY DEF Attempt
<1>2. [[a EXCEPT !.pc = p] EXCEPT !.mem = m] \in Attempt
  BY <1>1 DEF Attempt
<1>3. [[[a EXCEPT !.pc = p] EXCEPT !.mem = m] EXCEPT !.seen = v] \in Attempt
  BY <1>2 DEF Attempt
<1>4. [[[a EXCEPT !.pc = p] EXCEPT !.mem = m] EXCEPT !.try = t] \in Attempt
  BY <1>2 DEF Attempt
<1>5. [[a EXCEPT !.pc = p] EXCEPT !.try = t] \in Attempt
  BY <1>1 DEF Attempt
<1> QED BY <1>2, <1>3, <1>4, <1>5

\* Every step keeps the types; that a job gets a proper status when its publish
\* is finalized needs Reports.
LEMMA TypeNext ==
  ASSUME TypeOK, Reports, Grounded, [Next]_vars
  PROVE  TypeOK'
<1> USE DEF RecordStatus, RequestStatus, Tries
<1>1. ASSUME NEW p \in Publishes, PublishAccepted(p)
      PROVE  TypeOK'
  BY <1>1 DEF PublishAccepted, TypeOK
<1>2. ASSUME NEW p \in Publishes, PublishQueued(p)
      PROVE  TypeOK'
  BY <1>2 DEF PublishQueued, TypeOK, Requests, Queued, Claimable
<1>3. ASSUME NEW p \in Publishes, PublishRefused(p) \/ PublishDies(p)
      PROVE  TypeOK'
  BY <1>3 DEF PublishRefused, PublishDies, TypeOK
<1>4. ASSUME NEW r \in Manuals, create_manual_compile_request_for_skill(r)
      PROVE  TypeOK'
  BY <1>4 DEF create_manual_compile_request_for_skill, TypeOK, Requests, Queued, Claimable
<1>5. ASSUME NEW r \in Requests, recover_expired_lease(r)
      PROVE  TypeOK'
  <2>1. GiveUpAttempt(r) /\ UNCHANGED <<publish, artifact, latest, handler>>
    BY <1>5 DEF recover_expired_lease
  <2> QED BY <2>1, GiveUpType DEF TypeOK, JobRow, RecordStatus
<1>6. ASSUME NEW s \in Slots, _record_unhandled_failure(s)
      PROVE  TypeOK'
  <2>0. s \in Handlers BY DEF Handlers
  <2>1. handler' \in [Handlers -> Attempt]
    BY <1>6 DEF _record_unhandled_failure, TypeOK, Attempt, Idle
  <2>2. /\ job' \in [Requests -> JobRow]
        /\ request' \in [Requests -> RequestStatus]
        /\ record' \in [Publishes -> RecordStatus]
    <3>1. CASE Owns(s)
      <4>1. PICK r \in Requests : r = handler[s].req /\ GiveUpAttempt(r)
        BY <1>6, <2>0, <3>1, NamesAssumption
           DEF _record_unhandled_failure, Grounded, TypeOK, Requests, Handlers
      <4> QED BY <4>1, GiveUpType
    <3>2. CASE ~Owns(s)
      BY <1>6, <3>2 DEF _record_unhandled_failure, TypeOK, JobRow, RecordStatus
    <3> QED BY <3>1, <3>2
  <2> QED BY <1>6, <2>1, <2>2 DEF _record_unhandled_failure, TypeOK, Attempt, JobRow, RecordStatus
<1>7. ASSUME NEW s \in Slots, NEW r \in Requests, claim_next_job(s, r)
      PROVE  TypeOK'
  <2>1. job' \in [Requests -> JobRow]
    BY <1>7 DEF claim_next_job, TypeOK, JobRow
  <2>2. handler' \in [Handlers -> Attempt]
    BY <1>7 DEF claim_next_job, TypeOK, Attempt, Handlers, Idle
  <2> QED BY <1>7, <2>1, <2>2 DEF claim_next_job, TypeOK, Attempt, JobRow
<1>8. ASSUME NEW c \in Callers, NEW r \in Requests, process_compile_job_for_request(c, r)
      PROVE  TypeOK'
  <2>1. job' \in [Requests -> JobRow]
    BY <1>8 DEF process_compile_job_for_request, TypeOK, JobRow
  <2>2. handler' \in [Handlers -> Attempt]
    BY <1>8 DEF process_compile_job_for_request, TypeOK, Attempt, Handlers, Idle
  <2> QED BY <1>8, <2>1, <2>2 DEF process_compile_job_for_request, TypeOK, Attempt, JobRow
<1>9. ASSUME NEW h \in Handlers, Crash(h)
      PROVE  TypeOK'
  <2>1. handler' \in [Handlers -> Attempt]
    BY <1>9 DEF Crash, TypeOK, Attempt, Idle
  <2> QED BY <1>9, <2>1 DEF Crash, TypeOK, Attempt
<1>10. ASSUME NEW h \in Handlers, Compile(h)
       PROVE  TypeOK'
  <2>0. handler[h].req \in Requests
    BY <1>10 DEF Compile, CompileStarts, CandidateRejected, CompileFails, ArtifactEmitted,
                 CompileSucceeds, _finalize_publish_job, Grounded
  <2>1. CASE CompileStarts(h)
    <3>1. handler' \in [Handlers -> Attempt]
      <4>1. handler \in [Handlers -> Attempt] /\ latest \in Publishes \cup {None}
        BY DEF TypeOK, Attempt
      <4>2. handler[h] \in Attempt
        BY <4>1
      <4>3. PICK p \in {"compiling", "finalizing"}, m \in RequestStatus :
              handler' = [handler EXCEPT ![h] = [handler[h] EXCEPT !.pc = p, !.mem = m, !.seen = latest]]
        BY <2>1 DEF CompileStarts
      <4>4. [handler[h] EXCEPT !.pc = p, !.mem = m, !.seen = latest] \in Attempt
        BY <4>1, <4>2, AttemptUpdates
      <4> QED BY <4>1, <4>3, <4>4
    <3>2. request' \in [Requests -> RequestStatus]
      BY <2>0, <2>1 DEF CompileStarts, TypeOK
    <3> QED BY <2>1, <3>1, <3>2 DEF CompileStarts, TypeOK, Attempt
  <2>2. CASE CandidateRejected(h)
    <3>1. handler' \in [Handlers -> Attempt]
      <4>1. handler \in [Handlers -> Attempt]
        BY DEF TypeOK, Attempt
      <4>2. [handler[h] EXCEPT !.try = 2] \in Attempt
        BY <4>1 DEF Attempt, Tries
      <4>3. handler' = [handler EXCEPT ![h] = [handler[h] EXCEPT !.try = 2]]
        BY <2>2 DEF CandidateRejected
      <4> QED BY <4>1, <4>2, <4>3
    <3> QED BY <2>2, <3>1 DEF CandidateRejected, TypeOK, Attempt
  <2>3. CASE CompileFails(h)
    <3>1. handler' \in [Handlers -> Attempt]
      <4>1. handler \in [Handlers -> Attempt] /\ latest \in Publishes \cup {None}
        BY DEF TypeOK, Attempt
      <4>2. handler[h] \in Attempt
        BY <4>1
      <4>3. [handler[h] EXCEPT !.pc = "finalizing", !.mem = "failed", !.try = 1] \in Attempt
        BY <4>2, AttemptUpdates
      <4>4. handler' = [handler EXCEPT ![h] = [handler[h] EXCEPT !.pc = "finalizing", !.mem = "failed", !.try = 1]]
        BY <2>3 DEF CompileFails
      <4> QED BY <4>1, <4>3, <4>4
    <3>2. request' \in [Requests -> RequestStatus]
      BY <2>0, <2>3 DEF CompileFails, TypeOK
    <3> QED BY <2>3, <3>1, <3>2 DEF CompileFails, TypeOK, Attempt
  <2>4. CASE ArtifactEmitted(h)
    <3>1. handler' \in [Handlers -> Attempt]
      <4>1. handler \in [Handlers -> Attempt] /\ latest \in Publishes \cup {None}
        BY DEF TypeOK, Attempt
      <4>2. handler[h] \in Attempt
        BY <4>1
      <4>3. [handler[h] EXCEPT !.pc = "emitted", !.try = 1] \in Attempt
        BY <4>2, AttemptUpdates
      <4>4. handler' = [handler EXCEPT ![h] = [handler[h] EXCEPT !.pc = "emitted", !.try = 1]]
        BY <2>4 DEF ArtifactEmitted
      <4> QED BY <4>1, <4>3, <4>4
    <3>2. artifact' \in [Requests -> BOOLEAN]
      BY <2>0, <2>4 DEF ArtifactEmitted, TypeOK
    <3> QED BY <2>4, <3>1, <3>2 DEF ArtifactEmitted, TypeOK, Attempt
  <2>5. CASE CompileSucceeds(h)
    <3>1. handler' \in [Handlers -> Attempt]
      <4>1. handler \in [Handlers -> Attempt] /\ latest \in Publishes \cup {None}
        BY DEF TypeOK, Attempt
      <4>2. handler[h] \in Attempt
        BY <4>1
      <4>3. [handler[h] EXCEPT !.pc = "finalizing", !.mem = "succeeded"] \in Attempt
        BY <4>2, AttemptUpdates
      <4>4. handler' = [handler EXCEPT ![h] = [handler[h] EXCEPT !.pc = "finalizing", !.mem = "succeeded"]]
        BY <2>5 DEF CompileSucceeds
      <4> QED BY <4>1, <4>3, <4>4
    <3>2. request' \in [Requests -> RequestStatus]
      BY <2>0, <2>5 DEF CompileSucceeds, TypeOK
    <3> QED BY <2>5, <3>1, <3>2 DEF CompileSucceeds, TypeOK, Attempt
  <2>6. CASE _finalize_publish_job(h)
    <3>1. record' \in [Publishes -> RecordStatus]
      BY <2>6 DEF _finalize_publish_job, TypeOK, RecordStatus
    <3>2. latest' \in Publishes \cup {None}
      BY <2>6 DEF _finalize_publish_job, TypeOK
    <3>3. job' \in [Requests -> JobRow]
      <4>1. handler[h].mem \in {"succeeded", "failed"}
        BY <2>6 DEF _finalize_publish_job, Reports
      <4> QED BY <2>0, <2>6, <4>1
              DEF _finalize_publish_job, TypeOK, JobRow, Released, TERMINAL_JOB_STATUSES
    <3>4. handler' \in [Handlers -> Attempt]
      BY <2>6 DEF _finalize_publish_job, TypeOK, Attempt, Idle
    <3> QED BY <2>6, <3>1, <3>2, <3>3, <3>4
            DEF _finalize_publish_job, TypeOK, Attempt, JobRow, RecordStatus
  <2> QED BY <1>10, <2>1, <2>2, <2>3, <2>4, <2>5, <2>6 DEF Compile
<1>11. CASE UNCHANGED vars
  BY <1>11 DEF vars, TypeOK
<1> QED BY <1>1, <1>2, <1>3, <1>4, <1>5, <1>6, <1>7, <1>8, <1>9, <1>10, <1>11 DEF Next

\* A handler is taken up or let go; nothing is compiled.
Rests(h) ==
  \/ handler'[h] = handler[h]
  \/ handler'[h].pc = "idle"
  \/ handler'[h].pc = "done" /\ h \notin Slots
  \/ handler'[h].pc = "claimed" /\ handler'[h].req \in Requests

\* A step that compiles nothing and publishes nothing keeps the invariant.
LEMMA QuietStep ==
  ASSUME Reports, Grounded, LatestIsRunnable,
         \A h \in Handlers : Rests(h),
         artifact' = artifact, latest' = latest,
         \A r \in Requests : request'[r] = "succeeded" => request[r] = "succeeded",
         \A p \in Publishes : record'[p] = "published" => record[p] = "published"
  PROVE  Reports' /\ Grounded' /\ LatestIsRunnable'
<1>1. Reports'
  BY DEF Rests, Reports
<1>2. Grounded'
  <2>1. ASSUME NEW h \in Handlers, handler'[h].pc \notin {"idle", "done"}
        PROVE  handler'[h].req \in Requests
    BY <2>1 DEF Rests, Grounded
  <2>2. ASSUME NEW s \in Slots
        PROVE  handler'[s].pc # "done"
    BY <2>2 DEF Rests, Grounded, Handlers
  <2>3. ASSUME NEW h \in Handlers,
               handler'[h].pc = "emitted" \/ (handler'[h].pc = "finalizing" /\ handler'[h].mem = "succeeded")
        PROVE  artifact'[handler'[h].req]
    BY <2>3 DEF Rests, Grounded
  <2>4. ASSUME NEW r \in Requests, request'[r] = "succeeded"
        PROVE  artifact'[r]
    BY <2>4 DEF Grounded
  <2> QED BY <2>1, <2>2, <2>3, <2>4 DEF Grounded
<1>3. LatestIsRunnable'
  BY DEF LatestIsRunnable
<1> QED BY <1>1, <1>2, <1>3

\* A compile step of h keeps the invariant.
LEMMA CompileStep ==
  ASSUME TypeOK, Reports, Grounded, LatestIsRunnable, NEW h \in Handlers, Compile(h)
  PROVE  Reports' /\ Grounded' /\ LatestIsRunnable'
<1>0. handler[h].req \in Requests /\ handler[h].pc \notin {"idle", "done"}
  BY DEF Compile, CompileStarts, CandidateRejected, CompileFails, ArtifactEmitted,
         CompileSucceeds, _finalize_publish_job, Grounded
<1>1. CASE CompileStarts(h) \/ CandidateRejected(h) \/ CompileFails(h) \/ ArtifactEmitted(h) \/ CompileSucceeds(h)
  <2>0. UNCHANGED <<record, latest>>
    BY <1>1 DEF CompileStarts, CandidateRejected, CompileFails, ArtifactEmitted, CompileSucceeds
  <2>1. \A g \in Handlers : g # h => handler'[g] = handler[g]
    BY <1>1 DEF CompileStarts, CandidateRejected, CompileFails, ArtifactEmitted, CompileSucceeds, TypeOK
  <2>2. /\ handler'[h].req = handler[h].req
        /\ \/ /\ handler'[h].pc = "finalizing" /\ handler'[h].mem = "succeeded"
              /\ request[handler[h].req] = "succeeded" \/ handler[h].pc = "emitted"
           \/ handler'[h].pc = "finalizing" /\ handler'[h].mem = "failed"
           \/ handler'[h].pc = "compiling"
           \/ handler'[h].pc = "emitted" /\ ArtifactEmitted(h)
    <3>1. CASE CompileStarts(h)
      <4>1. CASE request[handler[h].req] = "succeeded"
        <5>1. handler' = [handler EXCEPT ![h] = [@ EXCEPT !.pc = "finalizing", !.mem = "succeeded", !.seen = latest]]
          BY <3>1, <4>1 DEF CompileStarts
        <5> QED BY <4>1, <5>1 DEF TypeOK
      <4>2. CASE request[handler[h].req] # "succeeded"
        <5>1. handler' = [handler EXCEPT ![h] = [@ EXCEPT !.pc = "compiling", !.mem = "running", !.seen = latest]]
          BY <3>1, <4>2 DEF CompileStarts
        <5> QED BY <5>1 DEF TypeOK
      <4> QED BY <4>1, <4>2
    <3>2. CASE CandidateRejected(h)
      BY <3>2 DEF CandidateRejected, TypeOK
    <3>3. CASE CompileFails(h)
      BY <3>3 DEF CompileFails, TypeOK
    <3>4. CASE ArtifactEmitted(h)
      BY <3>4 DEF ArtifactEmitted, TypeOK
    <3>5. CASE CompileSucceeds(h)
      BY <3>5 DEF CompileSucceeds, TypeOK
    <3> QED BY <1>1, <3>1, <3>2, <3>3, <3>4, <3>5
  <2>4. \A r \in Requests : artifact[r] => artifact'[r]
    <3>1. CASE UNCHANGED artifact
      BY <3>1
    <3>2. CASE ArtifactEmitted(h)
      <4>1. artifact \in [Requests -> BOOLEAN] /\ artifact' = [artifact EXCEPT ![handler[h].req] = TRUE]
        BY <3>2 DEF ArtifactEmitted, TypeOK
      <4> QED BY <4>1, Zenon
    <3> QED BY <1>1, <3>1, <3>2 DEF CompileStarts, CandidateRejected, CompileFails, CompileSucceeds
  <2>a. handler'[h].pc = "emitted" => artifact'[handler[h].req]
    <3>1. CASE ArtifactEmitted(h)
      <4>1. artifact \in [Requests -> BOOLEAN] /\ artifact' = [artifact EXCEPT ![handler[h].req] = TRUE]
        BY <3>1 DEF ArtifactEmitted, TypeOK
      <4> QED BY <1>0, <4>1, Zenon
    <3> QED BY <2>2, <3>1
  <2>b. handler'[h].pc = "finalizing" /\ handler'[h].mem = "succeeded" => artifact[handler[h].req]
    BY <1>0, <2>2 DEF Grounded
  <2>5. (handler'[h].pc = "emitted" \/ (handler'[h].pc = "finalizing" /\ handler'[h].mem = "succeeded"))
          => artifact'[handler[h].req]
    BY <1>0, <2>4, <2>a, <2>b
  <2>6. \A r \in Requests : request'[r] = "succeeded" => artifact'[r]
    <3>1. \A r \in Requests : request'[r] = "succeeded" =>
            request[r] = "succeeded" \/ (r = handler[h].req /\ handler[h].pc = "emitted")
      BY <1>0, <1>1 DEF CompileStarts, CandidateRejected, CompileFails, ArtifactEmitted, CompileSucceeds, TypeOK
    <3> QED BY <2>4, <3>1 DEF Grounded
  <2>7. Reports'
    BY <2>1, <2>2 DEF Reports
  <2>8. Grounded'
    <3>1. \A g \in Handlers : handler'[g].pc \notin {"idle", "done"} => handler'[g].req \in Requests
      BY <1>0, <2>1, <2>2 DEF Grounded
    <3>2. \A s \in Slots : handler'[s].pc # "done"
      BY <2>1, <2>2 DEF Grounded, Handlers
    <3>3. ASSUME NEW g \in Handlers,
                 handler'[g].pc = "emitted" \/ (handler'[g].pc = "finalizing" /\ handler'[g].mem = "succeeded")
          PROVE  artifact'[handler'[g].req]
      <4>1. CASE g = h
        BY <2>2, <2>5, <3>3, <4>1
      <4>2. CASE g # h
        BY <2>1, <2>4, <3>3, <4>2 DEF Grounded
      <4> QED BY <4>1, <4>2
    <3> QED BY <2>6, <3>1, <3>2, <3>3 DEF Grounded
  <2>9. LatestIsRunnable'
    BY <2>0, <2>4 DEF LatestIsRunnable, TypeOK, Requests
  <2> QED BY <2>7, <2>8, <2>9
<1>2. CASE _finalize_publish_job(h)
  <2>0. UNCHANGED <<request, artifact>>
    BY <1>2 DEF _finalize_publish_job
  <2>1. \A g \in Handlers : handler'[g] = handler[g] \/ handler'[g].pc = "idle"
                            \/ (handler'[g].pc = "done" /\ g \notin Slots)
    BY <1>2 DEF _finalize_publish_job, TypeOK, Idle
  <2>2. Reports'
    BY <2>1 DEF Reports
  <2>3. Grounded'
    BY <2>0, <2>1 DEF Grounded, Handlers
  <2>4. handler[h].mem = "succeeded" => artifact[handler[h].req]
    BY <1>2 DEF _finalize_publish_job, Grounded
  <2>5. \A p \in Publishes : record'[p] = "published" =>
           record[p] = "published" \/ (p = handler[h].req /\ handler[h].mem = "succeeded")
    BY <1>2 DEF _finalize_publish_job
  <2>6. latest' = latest \/ (latest' = handler[h].req /\ handler[h].mem = "succeeded")
    BY <1>2 DEF _finalize_publish_job
  <2>7. LatestIsRunnable'
    BY <2>0, <2>4, <2>5, <2>6 DEF LatestIsRunnable
  <2> QED BY <2>2, <2>3, <2>7
<1> QED BY <1>1, <1>2 DEF Compile

\* Every step of requests, slots, retry calls and recovery keeps the invariant.
LEMMA InvariantNext ==
  ASSUME CInv, [Next]_vars
  PROVE  CInv'
<1>0. TypeOK' BY TypeNext DEF CInv
<1> USE DEF CInv
<1>1. ASSUME NEW p \in Publishes, PublishAccepted(p) \/ PublishQueued(p) \/ PublishRefused(p) \/ PublishDies(p)
      PROVE  CInv'
  <2>1. UNCHANGED <<handler, artifact, latest>>
    BY <1>1 DEF PublishAccepted, PublishQueued, PublishRefused, PublishDies
  <2>2. \A r \in Requests : request'[r] = "succeeded" => request[r] = "succeeded"
    BY <1>1 DEF PublishAccepted, PublishQueued, PublishRefused, PublishDies, TypeOK
  <2>3. \A q \in Publishes : record'[q] = "published" => record[q] = "published"
    BY <1>1 DEF PublishAccepted, PublishQueued, PublishRefused, PublishDies, TypeOK
  <2> QED BY <1>0, <2>1, <2>2, <2>3, QuietStep DEF Rests
<1>2. ASSUME NEW r \in Manuals, create_manual_compile_request_for_skill(r)
      PROVE  CInv'
  <2>1. UNCHANGED <<handler, artifact, latest, record>>
    BY <1>2 DEF create_manual_compile_request_for_skill
  <2>2. \A q \in Requests : request'[q] = "succeeded" => request[q] = "succeeded"
    BY <1>2 DEF create_manual_compile_request_for_skill, TypeOK
  <2> QED BY <1>0, <2>1, <2>2, QuietStep DEF Rests
<1>3. ASSUME NEW r \in Requests, recover_expired_lease(r)
      PROVE  CInv'
  <2>1. GiveUpAttempt(r) /\ UNCHANGED <<publish, artifact, latest, handler>>
    BY <1>3 DEF recover_expired_lease
  <2> QED BY <1>0, <2>1, GiveUpGrounds, QuietStep DEF Rests
<1>4. ASSUME NEW s \in Slots, _record_unhandled_failure(s)
      PROVE  CInv'
  <2>1. \A h \in Handlers : Rests(h)
    BY <1>4 DEF _record_unhandled_failure, Rests, Idle, TypeOK
  <2>2. /\ \A q \in Requests : request'[q] = "succeeded" => request[q] = "succeeded"
        /\ \A p \in Publishes : record'[p] = "published" => record[p] = "published"
    <3>1. CASE Owns(s)
      <4>1. PICK r \in Requests : r = handler[s].req /\ GiveUpAttempt(r)
        BY <1>4, <3>1 DEF _record_unhandled_failure, Grounded, Handlers
      <4> QED BY <4>1, GiveUpGrounds
    <3>2. CASE ~Owns(s)
      BY <1>4, <3>2 DEF _record_unhandled_failure
    <3> QED BY <3>1, <3>2
  <2>3. UNCHANGED <<artifact, latest>>
    BY <1>4 DEF _record_unhandled_failure
  <2> QED BY <1>0, <2>1, <2>2, <2>3, QuietStep
<1>5. ASSUME NEW s \in Slots, NEW r \in Requests, claim_next_job(s, r)
      PROVE  CInv'
  <2>1. \A h \in Handlers : Rests(h)
    BY <1>5 DEF claim_next_job, Rests, Idle, TypeOK
  <2> QED BY <1>0, <1>5, <2>1, QuietStep DEF claim_next_job
<1>6. ASSUME NEW c \in Callers, NEW r \in Requests, process_compile_job_for_request(c, r)
      PROVE  CInv'
  <2>1. \A h \in Handlers : Rests(h)
    BY <1>6 DEF process_compile_job_for_request, Rests, Idle, TypeOK
  <2> QED BY <1>0, <1>6, <2>1, QuietStep DEF process_compile_job_for_request
<1>7. ASSUME NEW h \in Handlers, Crash(h)
      PROVE  CInv'
  <2>1. \A g \in Handlers : Rests(g)
    BY <1>7 DEF Crash, Rests, Idle, TypeOK
  <2> QED BY <1>0, <1>7, <2>1, QuietStep DEF Crash
<1>8. ASSUME NEW h \in Handlers, Compile(h)
      PROVE  CInv'
  BY <1>0, <1>8, CompileStep
<1>9. CASE UNCHANGED vars
  BY <1>9 DEF vars, TypeOK, Reports, Grounded, LatestIsRunnable
<1> QED BY <1>1, <1>2, <1>3, <1>4, <1>5, <1>6, <1>7, <1>8, <1>9 DEF Next

\* The invariant holds before the first publish.
LEMMA InvariantInit == Init => CInv
<1> SUFFICES ASSUME Init PROVE CInv
  OBVIOUS
<1>1. TypeOK BY TypeInit
<1>2. Reports BY DEF Init, Reports, Idle
<1>3. Grounded BY DEF Init, Grounded, Idle, Handlers
<1>4. LatestIsRunnable BY DEF Init, LatestIsRunnable
<1> QED BY <1>1, <1>2, <1>3, <1>4 DEF CInv

\* What a handler knows is grounded in an artifact, always: the inductive
\* invariant, for any number of publishes, slots, API calls and attempts.
THEOREM CompileInvariance == Spec => []CInv
<1>1. Init => CInv BY InvariantInit
<1>2. CInv /\ [Next]_vars => CInv' BY InvariantNext
<1> QED BY <1>1, <1>2, PTL DEF Spec

\* Requests, records, jobs and attempts keep their types; a job that an API
\* call finishes gets a terminal status of a job.
THEOREM CompileTypes == Spec => []TypeOK
<1>1. CInv => TypeOK BY DEF CInv
<1> QED BY <1>1, CompileInvariance, PTL

\* The version that runs are created from always has its artifact, although
\* the retry endpoint works beside the queue (create_invocation needs it).
THEOREM LatestAlwaysRunnable == Spec => []LatestIsRunnable
<1>1. CInv => LatestIsRunnable BY DEF CInv
<1> QED BY <1>1, CompileInvariance, PTL

(***************************************************************************)
(* RecordAgrees: what a publish shows until somebody retries.              *)
(***************************************************************************)

\* Only a publish that queued its request has a job, a request, a handler or
\* a published version.
Begun ==
  \A p \in Publishes :
    (\/ job[p].status # "absent" \/ request[p] # "absent" \/ record[p] = "published"
     \/ \E h \in Handlers : handler[h].req = p)
      => publish[p] = "queued"

\* Once there is a latest version there always is one.
LatestStays ==
  /\ \A h \in Handlers : handler[h].seen # None => latest # None
  /\ \A p \in Publishes : record[p] = "published" => latest # None

\* The slot that may still commit the end of its work knows how its request
\* stands: no other one was able to change that.
OwnerKnows ==
  Unretried => \A h \in Handlers :
    handler[h].pc = "finalizing" /\ Owns(h) => request[handler[h].req] = handler[h].mem

\* A version that became the latest, or a publish that succeeded, is settled: no
\* worker claims its job again.
PublishedIsFinal ==
  Unretried => \A p \in Publishes :
    latest = p \/ record[p] = "published" =>
      record[p] = "published" /\ request[p] = "succeeded" /\ job[p].status = "succeeded"

AInv == CInv /\ Begun /\ LatestStays /\ OwnerKnows /\ PublishedIsFinal

\* A call of the retry endpoint leaves its trace: what is said of a system that
\* nobody has retried in need not be said of it after such a call.
LEMMA RetriedStays ==
  ASSUME CInv, [Next]_vars, Unretried'
  PROVE  Unretried
<1>1. SUFFICES ASSUME NEW c \in Callers, handler'[c].pc = "idle" PROVE handler[c].pc = "idle"
  BY DEF Unretried
<1>2. c \in Handlers /\ c \notin Slots /\ handler \in [Handlers -> Attempt]
  BY NamesAssumption DEF Handlers, CInv, TypeOK, Attempt
<1>3. CASE \/ \E p \in Publishes : PublishAccepted(p) \/ PublishQueued(p) \/ PublishRefused(p) \/ PublishDies(p)
           \/ \E r \in Manuals : create_manual_compile_request_for_skill(r)
           \/ \E r \in Requests : recover_expired_lease(r)
           \/ UNCHANGED vars
  BY <1>1, <1>3 DEF PublishAccepted, PublishQueued, PublishRefused, PublishDies,
                    create_manual_compile_request_for_skill, recover_expired_lease, vars
<1>4. CASE \E s \in Slots : _record_unhandled_failure(s) \/ \E r \in Requests : claim_next_job(s, r)
  BY <1>1, <1>2, <1>4 DEF _record_unhandled_failure, claim_next_job
<1>5. CASE \E d \in Callers, r \in Requests : process_compile_job_for_request(d, r)
  BY <1>1, <1>2, <1>5 DEF process_compile_job_for_request, Idle
<1>6. ASSUME NEW h \in Handlers, Compile(h) \/ Crash(h)
      PROVE  handler[c].pc = "idle"
  <2>1. CASE h # c
    BY <1>1, <1>2, <1>6, <2>1 DEF Compile, Crash, CompileStarts, CandidateRejected, CompileFails, ArtifactEmitted,
                             CompileSucceeds, _finalize_publish_job
  <2>2. CASE h = c /\ Crash(c)
    BY <1>1, <1>2, <2>2 DEF Crash, Idle
  <2>3. CASE h = c /\ _finalize_publish_job(c)
    BY <1>1, <1>2, <2>3 DEF _finalize_publish_job, Idle
  <2>4. CASE h = c /\ CompileStarts(c)
    <3>1. PICK p \in {"compiling", "finalizing"}, m \in {"running", "succeeded"} :
            handler' = [handler EXCEPT ![c] = [handler[c] EXCEPT !.pc = p, !.mem = m, !.seen = latest]]
      BY <2>4 DEF CompileStarts
    <3> QED BY <1>1, <1>2, <3>1 DEF Attempt
  <2>5. CASE h = c /\ (CandidateRejected(c) \/ CompileFails(c) \/ ArtifactEmitted(c) \/ CompileSucceeds(c))
    BY ZenonT(30), <1>1, <1>2, <2>5 DEF CandidateRejected, CompileFails, ArtifactEmitted, CompileSucceeds, Attempt
  <2> QED BY <1>6, <2>1, <2>2, <2>3, <2>4, <2>5 DEF Compile
<1> QED BY <1>3, <1>4, <1>5, <1>6 DEF Next

\* A step that takes a handler up or lets one go, gives jobs back or takes them,
\* and changes no version.
LEMMA AgreesQuiet ==
  ASSUME AInv, [Next]_vars, publish' = publish, latest' = latest,
         \A h \in Handlers :
           \/ handler'[h] = handler[h]
           \/ /\ handler'[h].pc \in {"idle", "done", "claimed"} /\ handler'[h].seen = None
              /\ handler'[h].req \in Publishes => publish[handler'[h].req] = "queued",
         \A p \in Publishes : record'[p] = "published" => record[p] = "published",
         \A r \in Requests :
           \/ request'[r] = request[r] /\ job'[r] = job[r] /\ (r \in Publishes => record'[r] = record[r])
           \/ /\ job[r].status \in Claimable \cup {"running"}
              /\ job'[r].status = "running" =>
                   /\ job'[r].owner \in Slots /\ handler'[job'[r].owner].pc = "claimed"
                   /\ request'[r] = request[r]
  PROVE  Begun' /\ LatestStays' /\ OwnerKnows' /\ PublishedIsFinal'
<1>1. Begun'
  <2>1. SUFFICES ASSUME NEW p \in Publishes,
                        \/ job'[p].status # "absent" \/ request'[p] # "absent" \/ record'[p] = "published"
                        \/ \E h \in Handlers : handler'[h].req = p
                 PROVE  publish[p] = "queued"
    BY DEF Begun
  <2>2. p \in Requests BY DEF Requests
  <2>3. CASE job'[p].status # "absent" \/ request'[p] # "absent"
    <3>1. job[p].status # "absent" \/ request[p] # "absent"
      BY <2>2, <2>3 DEF Claimable
    <3> QED BY <3>1 DEF AInv, Begun
  <2>4. CASE record'[p] = "published" \/ \E h \in Handlers : handler'[h].req = p
    BY <2>4 DEF AInv, Begun
  <2> QED BY <2>1, <2>3, <2>4
<1>2. LatestStays'
  BY DEF AInv, LatestStays
<1>3. OwnerKnows'
  <2>1. SUFFICES ASSUME Unretried', NEW h \in Handlers, handler'[h].pc = "finalizing", Owns(h)'
                 PROVE  request'[handler'[h].req] = handler'[h].mem
    BY DEF OwnerKnows
  <2>2. handler'[h] = handler[h] /\ handler[h].req \in Requests
    BY <2>1 DEF AInv, CInv, Grounded
  <2>3. Unretried
    BY <2>1, RetriedStays DEF AInv
  <2>4. ~(job'[handler[h].req].owner = h /\ handler'[h].pc = "claimed")
    BY <2>1
  <2>5. request'[handler[h].req] = request[handler[h].req] /\ job'[handler[h].req] = job[handler[h].req]
    BY <2>1, <2>2 DEF Owns
  <2> QED BY <2>1, <2>2, <2>3, <2>5 DEF Owns, OwnerKnows, AInv
<1>4. PublishedIsFinal'
  <2>1. SUFFICES ASSUME Unretried', NEW p \in Publishes, latest = p \/ record'[p] = "published"
                 PROVE  record'[p] = "published" /\ request'[p] = "succeeded" /\ job'[p].status = "succeeded"
    BY DEF PublishedIsFinal
  <2>2. Unretried /\ p \in Requests
    BY <2>1, RetriedStays DEF AInv, Requests
  <2>3. record[p] = "published" /\ request[p] = "succeeded" /\ job[p].status = "succeeded"
    BY <2>1, <2>2 DEF AInv, PublishedIsFinal
  <2> QED BY <2>2, <2>3 DEF Claimable
<1> QED BY <1>1, <1>2, <1>3, <1>4

\* What is new is queued, and nobody works on it.
LEMMA AgreesQueue ==
  ASSUME AInv, [Next]_vars,
         \/ \E p \in Publishes : PublishAccepted(p) \/ PublishQueued(p) \/ PublishRefused(p) \/ PublishDies(p)
         \/ \E r \in Manuals : create_manual_compile_request_for_skill(r)
  PROVE  Begun' /\ LatestStays' /\ OwnerKnows' /\ PublishedIsFinal'
<1>1. PICK r \in Requests :
        /\ UNCHANGED <<handler, latest, artifact>>
        /\ r \in Publishes => publish[r] # "queued"
        /\ \A q \in Requests : q # r => request'[q] = request[q] /\ job'[q] = job[q]
        /\ \A p \in Publishes : p # r => record'[p] = record[p] /\ publish'[p] = publish[p]
        /\ r \in Publishes => record'[r] # "published"
        /\ job'[r].status # "running"
        /\ r \in Publishes => publish'[r] = "queued" \/ (request'[r] = request[r] /\ job'[r] = job[r])
  <2>1. ASSUME NEW p \in Publishes, PublishAccepted(p) \/ PublishQueued(p) \/ PublishRefused(p) \/ PublishDies(p)
        PROVE  /\ UNCHANGED <<handler, latest, artifact>> /\ publish[p] # "queued" /\ p \in Requests
               /\ \A q \in Requests : q # p => request'[q] = request[q] /\ job'[q] = job[q]
               /\ \A q \in Publishes : q # p => record'[q] = record[q] /\ publish'[q] = publish[q]
               /\ record'[p] # "published" /\ job'[p].status # "running"
               /\ publish'[p] = "queued" \/ (request'[p] = request[p] /\ job'[p] = job[p])
    <3>1. publish[p] # "queued" /\ p \in Requests
      BY <2>1 DEF PublishAccepted, PublishQueued, PublishRefused, PublishDies, Requests
    <3>2. job[p].status = "absent" /\ request[p] = "absent"
      BY <3>1 DEF AInv, Begun
    <3>3. /\ record \in [Publishes -> RecordStatus] /\ publish \in [Publishes -> PublishStatus]
          /\ request \in [Requests -> RequestStatus] /\ job \in [Requests -> JobRow] /\ record[p] # "published"
      BY <3>1 DEF AInv, CInv, TypeOK, PublishStatus, JobRow, Begun
    <3>4. CASE PublishQueued(p)
      BY <3>1, <3>3, <3>4 DEF PublishQueued, Queued
    <3>5. CASE PublishAccepted(p) \/ PublishRefused(p) \/ PublishDies(p)
      BY <3>1, <3>2, <3>3, <3>5 DEF PublishAccepted, PublishRefused, PublishDies
    <3> QED BY <2>1, <3>4, <3>5
  <2>2. ASSUME NEW r \in Manuals, create_manual_compile_request_for_skill(r)
        PROVE  /\ UNCHANGED <<handler, latest, artifact, record, publish>> /\ r \in Requests /\ r \notin Publishes
               /\ \A q \in Requests : q # r => request'[q] = request[q] /\ job'[q] = job[q]
               /\ job'[r].status # "running"
    BY <2>2, NamesAssumption DEF create_manual_compile_request_for_skill, Requests, AInv, CInv, TypeOK, Queued
  <2> QED BY <2>1, <2>2
<1>2. r \in Publishes =>
        job[r].status = "absent" /\ request[r] = "absent" /\ record[r] # "published" /\ \A h \in Handlers : handler[h].req # r
  BY <1>1 DEF AInv, Begun
<1>3. Begun'
  BY <1>1, <1>2 DEF AInv, Begun, Requests
<1>4. LatestStays'
  BY <1>1 DEF AInv, LatestStays, Requests
<1>5. OwnerKnows'
  <2>1. SUFFICES ASSUME Unretried', NEW h \in Handlers, handler[h].pc = "finalizing", Owns(h)'
                 PROVE  request'[handler[h].req] = handler[h].mem
    BY <1>1 DEF OwnerKnows
  <2>2. handler[h].req \in Requests /\ handler[h].req # r
    BY <1>1, <2>1 DEF AInv, CInv, Grounded, Owns
  <2> QED BY <1>1, <2>1, <2>2, RetriedStays DEF AInv, OwnerKnows, Owns
<1>6. PublishedIsFinal'
  <2>1. SUFFICES ASSUME Unretried', NEW p \in Publishes, latest = p \/ record'[p] = "published"
                 PROVE  record'[p] = "published" /\ request'[p] = "succeeded" /\ job'[p].status = "succeeded"
    BY <1>1 DEF PublishedIsFinal
  <2>2. Unretried /\ p \in Requests
    BY <2>1, RetriedStays DEF AInv, Requests
  <2>3. latest = p \/ record[p] = "published"
    BY <1>1, <2>1
  <2>4. record[p] = "published" /\ request[p] = "succeeded" /\ job[p].status = "succeeded"
    BY <2>2, <2>3 DEF AInv, PublishedIsFinal
  <2>5. p # r
    BY <1>2, <2>4
  <2> QED BY <1>1, <2>2, <2>4, <2>5
<1> QED BY <1>3, <1>4, <1>5, <1>6

\* Giving up an attempt, in the terms of AgreesQuiet.
LEMMA GiveUpQuiet ==
  ASSUME TypeOK, NEW r \in Requests, job[r].status = "running", GiveUpAttempt(r)
  PROVE  /\ \A p \in Publishes : record'[p] = "published" => record[p] = "published"
         /\ \A q \in Requests :
              \/ request'[q] = request[q] /\ job'[q] = job[q] /\ (q \in Publishes => record'[q] = record[q])
              \/ job[q].status = "running" /\ job'[q].status # "running"
<1>1. \A p \in Publishes : record'[p] = "published" => record[p] = "published"
  BY GiveUpGrounds
<1>2. job'[r].status # "running" /\ \A q \in Requests : q # r => job'[q] = job[q]
  BY DEF GiveUpAttempt, TypeOK, Released
<1>3. \A q \in Requests : q # r => request'[q] = request[q]
  BY DEF GiveUpAttempt, finalize_exhausted_compile_job, TypeOK
<1>4. \A p \in Publishes : p # r => record'[p] = record[p]
  BY DEF GiveUpAttempt, finalize_exhausted_compile_job, TypeOK
<1> QED BY <1>1, <1>2, <1>3, <1>4

\* The queue and the retry endpoint: a job is claimed, given up, taken over or
\* lost with its process.
LEMMA AgreesJob ==
  ASSUME AInv, [Next]_vars,
         \/ \E r \in Requests : recover_expired_lease(r)
         \/ \E s \in Slots : _record_unhandled_failure(s) \/ \E r \in Requests : claim_next_job(s, r)
         \/ \E h \in Handlers : Crash(h)
  PROVE  Begun' /\ LatestStays' /\ OwnerKnows' /\ PublishedIsFinal'
<1>0. TypeOK /\ Grounded
  BY DEF AInv, CInv
<1>1. /\ handler \in [Handlers -> Attempt] /\ job \in [Requests -> JobRow]
      /\ Idle.pc = "idle" /\ Idle.seen = None /\ Idle.req \notin Publishes
  BY <1>0, NamesAssumption DEF TypeOK, Attempt, JobRow, Idle, Requests
<1>2. ASSUME NEW r \in Requests, recover_expired_lease(r)
      PROVE  Begun' /\ LatestStays' /\ OwnerKnows' /\ PublishedIsFinal'
  <2>1. job[r].status = "running" /\ GiveUpAttempt(r) /\ UNCHANGED <<publish, artifact, latest, handler>>
    BY <1>2 DEF recover_expired_lease
  <2> QED BY <1>0, <2>1, GiveUpQuiet, AgreesQuiet
<1>3. ASSUME NEW s \in Slots, _record_unhandled_failure(s)
      PROVE  Begun' /\ LatestStays' /\ OwnerKnows' /\ PublishedIsFinal'
  <2>1. /\ s \in Handlers /\ handler[s].pc # "idle" /\ UNCHANGED <<publish, artifact, latest>>
        /\ \A h \in Handlers : handler'[h] = handler[h] \/ handler'[h] = Idle
    BY <1>1, <1>3 DEF _record_unhandled_failure, Handlers
  <2>2. CASE Owns(s)
    <3>1. handler[s].req \in Requests /\ job[handler[s].req].status = "running" /\ GiveUpAttempt(handler[s].req)
      BY <1>0, <1>3, <2>1, <2>2 DEF _record_unhandled_failure, Grounded, Owns
    <3>2. PICK r \in Requests : job[r].status = "running" /\ GiveUpAttempt(r)
      BY <3>1
    <3> QED BY <1>0, <1>1, <2>1, <3>2, GiveUpQuiet, AgreesQuiet
  <2>3. CASE ~Owns(s)
    <3>1. UNCHANGED <<job, request, record>>
      BY <1>3, <2>3 DEF _record_unhandled_failure
    <3> QED BY <1>1, <2>1, <3>1, AgreesQuiet
  <2> QED BY <2>2, <2>3
<1>4. ASSUME NEW s \in Slots, NEW r \in Requests, claim_next_job(s, r)
      PROVE  Begun' /\ LatestStays' /\ OwnerKnows' /\ PublishedIsFinal'
  <2>1. /\ s \in Handlers /\ job[r].status \in Claimable /\ UNCHANGED <<publish, record, request, artifact, latest>>
        /\ handler' = [handler EXCEPT ![s] = [Idle EXCEPT !.pc = "claimed", !.req = r]]
        /\ job' = [job EXCEPT ![r] = [status |-> "running", owner |-> s, attempt |-> job[r].attempt + 1]]
    BY <1>4 DEF claim_next_job, Handlers
  <2>2. /\ handler'[s].pc = "claimed" /\ handler'[s].req = r /\ handler'[s].seen = None
        /\ \A h \in Handlers : h # s => handler'[h] = handler[h]
    BY <1>1, <2>1 DEF Idle
  <2>3. /\ job'[r].status = "running" /\ job'[r].owner = s
        /\ \A q \in Requests : q # r => job'[q] = job[q]
    BY <1>1, <2>1
  <2>4. r \in Publishes => publish[r] = "queued"
    BY <2>1 DEF AInv, Begun, Claimable
  <2> QED BY <2>1, <2>2, <2>3, <2>4, AgreesQuiet
<1>5. ASSUME NEW h \in Handlers, Crash(h)
      PROVE  Begun' /\ LatestStays' /\ OwnerKnows' /\ PublishedIsFinal'
  <2>1. /\ UNCHANGED <<publish, record, request, artifact, job, latest>>
        /\ handler' = [handler EXCEPT ![h] = IF h \in Slots THEN Idle ELSE [Idle EXCEPT !.pc = "done"]]
    BY <1>5 DEF Crash
  <2>2. /\ handler'[h].pc \in {"idle", "done"} /\ handler'[h].seen = None /\ handler'[h].req \notin Publishes
        /\ \A g \in Handlers : g # h => handler'[g] = handler[g]
    <3>1. LET d == [Idle EXCEPT !.pc = "done"] IN d.pc = "done" /\ d.seen = None /\ d.req = Idle.req
      BY DEF Idle
    <3> QED BY <1>1, <2>1, <3>1
  <2> QED BY <2>1, <2>2, AgreesQuiet
<1> QED BY <1>2, <1>3, <1>4, <1>5

\* After a call of the retry endpoint, what is left to show.
LEMMA AgreesRetry ==
  ASSUME AInv, [Next]_vars, NEW c \in Callers, NEW r \in Requests, process_compile_job_for_request(c, r)
  PROVE  Begun' /\ LatestStays' /\ OwnerKnows' /\ PublishedIsFinal'
<1>1. /\ c \in Handlers /\ handler \in [Handlers -> Attempt] /\ job \in [Requests -> JobRow]
      /\ UNCHANGED <<publish, record, request, artifact, latest>> /\ request[r] # "absent"
  BY DEF AInv, CInv, TypeOK, Attempt, JobRow, Handlers, process_compile_job_for_request
<1>2. /\ handler'[c].pc = "claimed" /\ handler'[c].req = r /\ handler'[c].seen = None
      /\ \A h \in Handlers : h # c => handler'[h] = handler[h]
  BY <1>1 DEF process_compile_job_for_request, Idle
<1>3. ~Unretried'
  BY <1>2 DEF Unretried
<1>4. \A q \in Requests : q # r => job'[q] = job[q]
  BY <1>1 DEF process_compile_job_for_request
<1>5. Begun'
  BY <1>1, <1>2, <1>4 DEF AInv, Begun, Requests
<1>6. LatestStays'
  BY <1>1, <1>2 DEF AInv, LatestStays
<1> QED BY <1>3, <1>5, <1>6 DEF OwnerKnows, PublishedIsFinal

\* What a compile step before the end does: it touches the request only under
\* the fence, and knows its status when it is about to finalize.
LEMMA CompileMoves ==
  ASSUME CInv, NEW h \in Handlers,
         CompileStarts(h) \/ CandidateRejected(h) \/ CompileFails(h) \/ ArtifactEmitted(h) \/ CompileSucceeds(h)
  PROVE  /\ UNCHANGED <<publish, record, job, latest>>
         /\ \A g \in Handlers : g # h => handler'[g] = handler[g]
         /\ handler'[h].req = handler[h].req /\ handler'[h].seen \in {handler[h].seen, latest}
         /\ handler'[h].pc \notin {"idle", "done"} /\ handler[h].pc \notin {"idle", "done"}
         /\ handler'[h].pc = "finalizing" => request'[handler[h].req] = handler'[h].mem
         /\ \A q \in Requests : request'[q] = request[q] \/ (q = handler[h].req /\ MayCommit(h))
<1>1. handler \in [Handlers -> Attempt] /\ request \in [Requests -> RequestStatus]
  BY DEF CInv, TypeOK, Attempt
<1>2. handler[h].req \in Requests /\ handler[h].pc \notin {"idle", "done"}
  BY DEF CInv, Grounded, CompileStarts, CandidateRejected, CompileFails, ArtifactEmitted, CompileSucceeds
<1>3. CASE CompileStarts(h)
  <2>1. CASE /\ request[handler[h].req] = "succeeded" /\ UNCHANGED request
             /\ handler' = [handler EXCEPT ![h] =
                              [handler[h] EXCEPT !.pc = "finalizing", !.mem = "succeeded", !.seen = latest]]
    <3>1. UNCHANGED <<publish, record, job, latest>>
      BY <1>3 DEF CompileStarts
    <3>2. handler'[h] = [handler[h] EXCEPT !.pc = "finalizing", !.mem = "succeeded", !.seen = latest]
      BY <1>1, <2>1
    <3>3. /\ handler'[h].pc = "finalizing" /\ handler'[h].mem = "succeeded" /\ handler'[h].seen = latest
          /\ handler'[h].req = handler[h].req
      BY <1>1, <3>2 DEF Attempt
    <3> QED BY <1>1, <1>2, <2>1, <3>1, <3>3
  <2>2. CASE /\ MayCommit(h) /\ request' = [request EXCEPT ![handler[h].req] = "running"]
             /\ handler' = [handler EXCEPT ![h] =
                              [handler[h] EXCEPT !.pc = "compiling", !.mem = "running", !.seen = latest]]
    <3>1. UNCHANGED <<publish, record, job, latest>>
      BY <1>3 DEF CompileStarts
    <3>2. handler'[h] = [handler[h] EXCEPT !.pc = "compiling", !.mem = "running", !.seen = latest]
      BY <1>1, <2>2
    <3>3. handler'[h].pc = "compiling" /\ handler'[h].seen = latest /\ handler'[h].req = handler[h].req
      BY <1>1, <3>2 DEF Attempt
    <3> QED BY <1>1, <1>2, <2>2, <3>1, <3>3
  <2> QED BY <1>3, <2>1, <2>2 DEF CompileStarts
<1>4. CASE CandidateRejected(h)
  BY <1>1, <1>2, <1>4 DEF CandidateRejected, Attempt
<1>7. CASE ArtifactEmitted(h)
  <2>1. UNCHANGED <<publish, record, job, latest, request>>
    BY <1>7 DEF ArtifactEmitted
  <2>2. handler' = [handler EXCEPT ![h] = [handler[h] EXCEPT !.pc = "emitted", !.try = 1]]
    BY <1>7 DEF ArtifactEmitted
  <2>3. handler'[h] = [handler[h] EXCEPT !.pc = "emitted", !.try = 1]
    BY <1>1, <2>2
  <2>4. handler'[h].pc = "emitted" /\ handler'[h].seen = handler[h].seen /\ handler'[h].req = handler[h].req
    BY <1>1, <2>3 DEF Attempt
  <2> QED BY <1>1, <1>2, <2>1, <2>2, <2>4
<1>5. CASE CompileFails(h)
  BY <1>1, <1>2, <1>5 DEF CompileFails, Attempt
<1>6. CASE CompileSucceeds(h)
  BY <1>1, <1>2, <1>6 DEF CompileSucceeds, Attempt
<1> QED BY <1>3, <1>4, <1>5, <1>6, <1>7

LEMMA AgreesCompile ==
  ASSUME AInv, [Next]_vars, NEW h \in Handlers, Compile(h)
  PROVE  Begun' /\ LatestStays' /\ OwnerKnows' /\ PublishedIsFinal'
<1> DEFINE r == handler[h].req
<1>0. r \in Requests /\ handler[h].pc \notin {"idle", "done"} /\ (r \in Publishes => publish[r] = "queued")
  BY DEF AInv, CInv, Compile, CompileStarts, CandidateRejected, CompileFails, ArtifactEmitted, CompileSucceeds,
         _finalize_publish_job, Grounded, Begun
<1>1. Unretried' => Unretried
  BY RetriedStays DEF AInv
<1>2. Unretried' /\ MayCommit(h) => Owns(h)
  BY <1>0, <1>1 DEF Unretried, MayCommit
<1>3. CASE CompileStarts(h) \/ CandidateRejected(h) \/ CompileFails(h) \/ ArtifactEmitted(h) \/ CompileSucceeds(h)
  <2>1. /\ UNCHANGED <<publish, record, job, latest>>
        /\ \A g \in Handlers : g # h => handler'[g] = handler[g]
        /\ handler'[h].req = handler[h].req /\ handler'[h].seen \in {handler[h].seen, latest}
        /\ handler'[h].pc = "finalizing" => request'[handler[h].req] = handler'[h].mem
        /\ \A q \in Requests : request'[q] = request[q] \/ (q = handler[h].req /\ MayCommit(h))
    BY <1>3, CompileMoves DEF AInv
  <2>2. Begun'
    BY <1>0, <2>1 DEF AInv, Begun, Requests
  <2>3. LatestStays'
    BY <2>1 DEF AInv, LatestStays
  <2>4. OwnerKnows'
    <3>1. SUFFICES ASSUME Unretried', NEW g \in Handlers, handler'[g].pc = "finalizing", Owns(g)', g # h
                   PROVE  request'[handler'[g].req] = handler'[g].mem
      BY <2>1 DEF OwnerKnows
    <3>2. handler'[g] = handler[g] /\ Owns(g) /\ handler[g].req \in Requests
      BY <2>1, <3>1 DEF AInv, CInv, Grounded, Owns
    <3>3. ~(handler[g].req = handler[h].req /\ Owns(h))
      BY <3>1, <3>2 DEF Owns
    <3> QED BY <1>1, <1>2, <2>1, <3>1, <3>2, <3>3 DEF AInv, OwnerKnows
  <2>5. PublishedIsFinal'
    <3>1. SUFFICES ASSUME Unretried', NEW p \in Publishes, latest = p \/ record[p] = "published"
                   PROVE  record[p] = "published" /\ request'[p] = "succeeded" /\ job[p].status = "succeeded"
      BY <2>1 DEF PublishedIsFinal
    <3>2. record[p] = "published" /\ request[p] = "succeeded" /\ job[p].status = "succeeded"
      BY <1>1, <3>1 DEF AInv, PublishedIsFinal
    <3>3. ~(handler[h].req = p /\ Owns(h))
      BY <3>2 DEF Owns
    <3> QED BY <1>2, <2>1, <3>1, <3>2, <3>3 DEF Requests
  <2> QED BY <2>2, <2>3, <2>4, <2>5
<1>4. CASE _finalize_publish_job(h)
  <2> DEFINE ok == handler[h].mem = "succeeded"
  <2>1. /\ handler[h].pc = "finalizing" /\ MayCommit(h) /\ UNCHANGED <<publish, request, artifact>>
        /\ \A p \in Publishes : record'[p] = IF p # r THEN record[p] ELSE IF ok THEN "published" ELSE "failed"
        /\ latest' = IF ok /\ r \in Publishes /\ handler[h].seen # r THEN r ELSE latest
        /\ handler[h].mem \in {"succeeded", "failed"}
    BY <1>4 DEF _finalize_publish_job, AInv, CInv, Reports
  <2>2. /\ job'[r].status = handler[h].mem
        /\ \A q \in Requests : q # r => job'[q] = job[q]
    BY <1>0, <1>4 DEF _finalize_publish_job, Released, AInv, CInv, TypeOK
  <2>3. /\ \A g \in Handlers : g # h => handler'[g] = handler[g]
        /\ handler'[h].pc \in {"idle", "done"} /\ handler'[h].seen = None /\ handler'[h].req \notin Publishes
    <3>1. Idle.pc = "idle" /\ Idle.seen = None /\ Idle.req \notin Publishes
      BY NamesAssumption DEF Idle, Requests
    <3>2. LET d == [Idle EXCEPT !.pc = "done"] IN d.pc = "done" /\ d.seen = None /\ d.req = Idle.req
      BY DEF Idle
    <3>3. handler' = [handler EXCEPT ![h] = IF h \in Slots THEN Idle ELSE [Idle EXCEPT !.pc = "done"]]
      BY <1>4 DEF _finalize_publish_job
    <3>4. handler \in [Handlers -> Attempt]
      BY DEF AInv, CInv, TypeOK, Attempt
    <3> QED BY <3>1, <3>2, <3>3, <3>4
  <2>4. Begun'
    BY <1>0, <2>1, <2>2, <2>3 DEF AInv, Begun, Requests
  <2>5. LatestStays'
    <3>1. handler[h].seen # None => latest # None
      BY DEF AInv, LatestStays
    <3>2. None \notin Publishes
      BY NamesAssumption DEF Requests
    <3>3. latest # None => latest' # None
      BY <2>1, <3>2
    <3>4. \A p \in Publishes : record'[p] = "published" => latest' # None
      BY <2>1, <3>1, <3>2, <3>3 DEF AInv, LatestStays
    <3> QED BY <2>3, <3>3, <3>4 DEF AInv, LatestStays
  <2>6. OwnerKnows'
    <3>1. SUFFICES ASSUME Unretried', NEW g \in Handlers, handler'[g].pc = "finalizing", Owns(g)'
                   PROVE  request'[handler'[g].req] = handler'[g].mem
      BY DEF OwnerKnows
    <3>2. g # h /\ handler'[g] = handler[g] /\ handler[g].req \in Requests
      BY <2>3, <3>1 DEF AInv, CInv, Grounded
    <3>3. handler[g].req # r
      BY <2>1, <2>2, <3>1, <3>2 DEF Owns
    <3> QED BY <1>1, <2>1, <2>2, <3>1, <3>2, <3>3 DEF AInv, OwnerKnows, Owns
  <2>7. PublishedIsFinal'
    <3>1. SUFFICES ASSUME Unretried', NEW p \in Publishes, latest' = p \/ record'[p] = "published"
                   PROVE  record'[p] = "published" /\ request[p] = "succeeded" /\ job'[p].status = "succeeded"
      BY <2>1 DEF PublishedIsFinal
    <3>2. Owns(h) /\ request[r] = handler[h].mem
      BY <1>1, <1>2, <2>1, <3>1 DEF AInv, OwnerKnows
    <3>3. CASE p # r
      <4>1. latest = p \/ record[p] = "published"
        BY <2>1, <3>1, <3>3
      <4>2. record[p] = "published" /\ request[p] = "succeeded" /\ job[p].status = "succeeded"
        BY <1>1, <3>1, <4>1 DEF AInv, PublishedIsFinal
      <4> QED BY <2>1, <2>2, <3>3, <4>2 DEF Requests
    <3>4. CASE p = r
      <4>1. latest # p
        BY <1>1, <3>1, <3>2, <3>4 DEF AInv, PublishedIsFinal, Owns
      <4>2. ok
        BY <2>1, <3>1, <3>4, <4>1
      <4> QED BY <2>1, <2>2, <3>2, <3>4, <4>2
    <3> QED BY <3>3, <3>4
  <2> QED BY <2>4, <2>5, <2>6, <2>7
<1> QED BY <1>3, <1>4 DEF Compile

LEMMA AgreesInit == Init => AInv
<1> SUFFICES ASSUME Init PROVE AInv
  OBVIOUS
<1>1. CInv BY InvariantInit
<1>2. Begun /\ LatestStays /\ OwnerKnows /\ PublishedIsFinal
  BY NamesAssumption DEF Init, Idle, NoJob, Requests, Begun, LatestStays, OwnerKnows, PublishedIsFinal
<1> QED BY <1>1, <1>2 DEF AInv

LEMMA AgreesNext ==
  ASSUME AInv, [Next]_vars
  PROVE  AInv'
<1>1. CInv'
  BY InvariantNext DEF AInv
<1>2. CASE UNCHANGED vars
  BY <1>1, <1>2 DEF vars, AInv, Begun, LatestStays, OwnerKnows, PublishedIsFinal, Unretried, Owns
<1>3. CASE Next
  <2>1. Begun' /\ LatestStays' /\ OwnerKnows' /\ PublishedIsFinal'
    BY <1>3, AgreesQueue, AgreesJob, AgreesRetry, AgreesCompile DEF Next
  <2> QED BY <1>1, <2>1 DEF AInv
<1> QED BY <1>2, <1>3

\* The slot under the fence knows its request, and what is published is settled:
\* the inductive invariant behind RecordAgrees.
THEOREM AgreementInvariance == Spec => []AInv
<1>1. AInv /\ [Next]_vars => AInv' BY AgreesNext
<1> QED BY <1>1, AgreesInit, PTL DEF Spec

\* Until somebody retries through the API, a publish that failed is not the
\* version that runs use, and a published one has a request that succeeded.
THEOREM RecordsAgree == Spec => []RecordAgrees
<1>1. AInv => RecordAgrees
  BY DEF AInv, LatestStays, PublishedIsFinal, RecordAgrees
<1> QED BY <1>1, AgreementInvariance, PTL

(***************************************************************************)
(* The compile jobs keep the life of a job, until somebody retries.        *)
(***************************************************************************)

\* No job exceeds its budget, and one that exists has a request.
Budgeted ==
  Unretried => \A r \in Requests :
    job[r].attempt <= MaxAttempts /\ (request[r] = "absent" => job[r].status = "absent")

\* What a step does to the jobs, as far as their life cycle is concerned.
Quiet ==
  /\ job' = job
  /\ \A r \in Requests :
       /\ job[r].status # "running" => request'[r] = request[r]
       /\ request'[r] = "absent" => request[r] = "absent"
Queues ==
  \E r \in Requests :
    /\ job[r].status = "absent" /\ job' = [job EXCEPT ![r] = Queued]
    /\ request' = [request EXCEPT ![r] = "pending"]
Given == \E r \in Requests : job[r].status = "running" /\ GiveUpAttempt(r)
Ends ==
  \E r \in Requests, st \in {"succeeded", "failed"} :
    /\ job[r].status = "running" /\ request[r] = st /\ request' = request
    /\ job' = [job EXCEPT ![r] = Released(job[r], st)]

\* Requests, slots and the recovery do nothing else to the jobs.
LEMMA JobsStep ==
  ASSUME AInv, Budgeted, [Next]_vars, Unretried'
  PROVE  Quiet \/ Queues \/ Given \/ Ends \/ \E s \in Slots, r \in Requests : claim_next_job(s, r)
<1>0. Unretried /\ TypeOK /\ CInv
  BY RetriedStays DEF AInv, CInv
<1>1. CASE \E p \in Publishes : PublishAccepted(p) \/ PublishRefused(p) \/ PublishDies(p)
  BY <1>1 DEF PublishAccepted, PublishRefused, PublishDies, Quiet
<1>2. ASSUME NEW p \in Publishes, PublishQueued(p)
      PROVE  Queues
  <2>1. p \in Requests /\ job[p].status = "absent"
    BY <1>2 DEF PublishQueued, AInv, Begun, Requests
  <2> QED BY <1>2, <2>1 DEF PublishQueued, Queues
<1>3. ASSUME NEW r \in Manuals, create_manual_compile_request_for_skill(r)
      PROVE  Queues
  <2>1. r \in Requests /\ job[r].status = "absent"
    BY <1>0, <1>3 DEF create_manual_compile_request_for_skill, Budgeted, Requests
  <2> QED BY <1>3, <2>1 DEF create_manual_compile_request_for_skill, Queues
<1>4. CASE \E r \in Requests : recover_expired_lease(r)
  BY <1>4 DEF recover_expired_lease, Given
<1>5. ASSUME NEW s \in Slots, _record_unhandled_failure(s)
      PROVE  Quiet \/ Given
  <2>1. handler[s].req \in Requests
    BY <1>0, <1>5 DEF _record_unhandled_failure, CInv, Grounded, Handlers
  <2> QED BY <1>5, <2>1 DEF _record_unhandled_failure, Owns, Quiet, Given
<1>6. CASE \E h \in Handlers : Crash(h)
  BY <1>6 DEF Crash, Quiet
<1>7. ASSUME NEW c \in Callers, NEW r \in Requests, process_compile_job_for_request(c, r)
      PROVE  FALSE
  <2>1. handler'[c].pc = "claimed"
    BY <1>0, <1>7 DEF process_compile_job_for_request, TypeOK, Idle, Handlers
  <2> QED BY <2>1 DEF Unretried
<1>8. ASSUME NEW h \in Handlers, Compile(h)
      PROVE  Quiet \/ Ends
  <2>0. handler[h].pc \notin {"idle", "done"} /\ handler[h].req \in Requests
    BY <1>0, <1>8 DEF CInv, Grounded, Compile, CompileStarts, CandidateRejected, CompileFails, ArtifactEmitted,
       CompileSucceeds, _finalize_publish_job
  <2>1. h \in Slots /\ (MayCommit(h) => Owns(h))
    BY <1>0, <2>0 DEF Unretried, Handlers, MayCommit
  <2>2. CASE CompileStarts(h) \/ CandidateRejected(h) \/ CompileFails(h) \/ ArtifactEmitted(h) \/ CompileSucceeds(h)
    <3>1. job' = job /\ \A q \in Requests : request'[q] = request[q] \/ (q = handler[h].req /\ MayCommit(h))
      BY <1>0, <2>2, CompileMoves
    <3>2. \/ request' = request
          \/ \E st \in {"running", "succeeded", "failed"} : request' = [request EXCEPT ![handler[h].req] = st]
      BY <2>2 DEF CompileStarts, CandidateRejected, CompileFails, ArtifactEmitted, CompileSucceeds
    <3>3. \A q \in Requests : request'[q] = "absent" => request[q] = "absent"
      BY <1>0, <3>2 DEF TypeOK
    <3> QED BY <2>1, <3>1, <3>3 DEF Quiet, Owns
  <2>3. CASE _finalize_publish_job(h)
    <3>1. /\ handler[h].pc = "finalizing" /\ Owns(h) /\ request' = request
          /\ job' = [job EXCEPT ![handler[h].req] = Released(job[handler[h].req], handler[h].mem)]
      BY <2>1, <2>3 DEF _finalize_publish_job
    <3>2. handler[h].mem \in {"succeeded", "failed"} /\ request[handler[h].req] = handler[h].mem
      BY <1>0, <3>1 DEF AInv, CInv, Reports, OwnerKnows
    <3> QED BY <2>0, <3>1, <3>2 DEF Ends, Owns
  <2> QED BY <1>8, <2>2, <2>3 DEF Compile
<1>9. CASE UNCHANGED vars
  BY <1>9 DEF vars, Quiet
<1> QED BY <1>1, <1>2, <1>3, <1>4, <1>5, <1>6, <1>7, <1>8, <1>9 DEF Next

\* A function that differs from another in one place.
LEMMA Updated ==
  ASSUME NEW S, NEW f, NEW g, NEW a, NEW v,
         f = [b \in S |-> f[b]], g = [b \in S |-> g[b]], \A b \in S : g[b] = IF b = a THEN v ELSE f[b]
  PROVE  g = [f EXCEPT ![a] = v]
OBVIOUS

\* A change of one row is a move of one job.
LEMMA RowMoves ==
  ASSUME TypeOK, NEW r \in Requests, NEW row, NEW p, NEW t, NEW n,
         job' = [job EXCEPT ![r] = row], Phase(row) = p, AttemptAt(r, row) = t, row.attempt = n
  PROVE  Lifecycle!Move(r, p, t, n)
<1>1. \A b \in Requests : job'[b] = IF b = r THEN row ELSE job[b]
  BY DEF TypeOK
<1>2. [b \in Requests |-> Phase(job'[b])] = [[b \in Requests |-> Phase(job[b])] EXCEPT ![r] = p]
  <2> DEFINE f == [b \in Requests |-> Phase(job[b])]
             g == [b \in Requests |-> Phase(job'[b])]
  <2>1. f = [b \in Requests |-> f[b]] /\ g = [b \in Requests |-> g[b]]
    OBVIOUS
  <2>2. \A b \in Requests : g[b] = IF b = r THEN p ELSE f[b]
    BY <1>1
  <2> HIDE DEF f, g
  <2>3. g = [f EXCEPT ![r] = p]
    BY <2>1, <2>2, Updated
  <2> QED BY <2>3 DEF f, g
<1>3. [b \in Requests |-> AttemptAt(b, job'[b])]
        = [[b \in Requests |-> AttemptAt(b, job[b])] EXCEPT ![r] = t]
  <2> DEFINE f == [b \in Requests |-> AttemptAt(b, job[b])]
             g == [b \in Requests |-> AttemptAt(b, job'[b])]
  <2>1. f = [b \in Requests |-> f[b]] /\ g = [b \in Requests |-> g[b]]
    OBVIOUS
  <2>2. \A b \in Requests : g[b] = IF b = r THEN t ELSE f[b]
    BY <1>1
  <2> HIDE DEF f, g
  <2>3. g = [f EXCEPT ![r] = t]
    BY <2>1, <2>2, Updated
  <2> QED BY <2>3 DEF f, g
<1>4. [b \in Requests |-> job'[b].attempt] = [[b \in Requests |-> job[b].attempt] EXCEPT ![r] = n]
  <2> DEFINE f == [b \in Requests |-> job[b].attempt]
             g == [b \in Requests |-> job'[b].attempt]
  <2>1. f = [b \in Requests |-> f[b]] /\ g = [b \in Requests |-> g[b]]
    OBVIOUS
  <2>2. \A b \in Requests : g[b] = IF b = r THEN n ELSE f[b]
    BY <1>1
  <2> HIDE DEF f, g
  <2>3. g = [f EXCEPT ![r] = n]
    BY <2>1, <2>2, Updated
  <2> QED BY <2>3 DEF f, g
<1> QED BY <1>2, <1>3, <1>4 DEF Lifecycle!Move

\* What one job drives is closed, or nothing is.
LEMMA DomainMoves ==
  ASSUME NEW r \in Requests, NEW d, DomainOf(job'[r], request'[r]) = d,
         \A q \in Requests : q # r => job'[q] = job[q] /\ request'[q] = request[q]
  PROVE  /\ d = "closed" => Lifecycle!Close(r)
         /\ DomainOf(job[r], request[r]) = d => UNCHANGED [q \in Requests |-> DomainOf(job[q], request[q])]
<1> DEFINE f == [b \in Requests |-> DomainOf(job[b], request[b])]
           g == [b \in Requests |-> DomainOf(job'[b], request'[b])]
<1>1. f = [b \in Requests |-> f[b]] /\ g = [b \in Requests |-> g[b]]
  OBVIOUS
<1>2. \A b \in Requests : g[b] = IF b = r THEN d ELSE f[b]
  OBVIOUS
<1>3. DomainOf(job[r], request[r]) = d => \A b \in Requests : f[b] = g[b]
  BY <1>2
<1> HIDE DEF f, g
<1>4. g = [f EXCEPT ![r] = d]
  BY <1>1, <1>2, Updated
<1>5. d = "closed" => Lifecycle!Close(r)
  BY <1>4 DEF f, g, Lifecycle!Close
<1>6. DomainOf(job[r], request[r]) = d => f = g
  BY <1>1, <1>3
<1> QED BY <1>5, <1>6 DEF f, g

\* A step that is quiet about its jobs is not seen.
LEMMA NothingSeen ==
  ASSUME Quiet
  PROVE  UNCHANGED Lifecycle!lifecycle
<1>1. \A q \in Requests : DomainOf(job'[q], request'[q]) = DomainOf(job[q], request[q])
  BY DEF Quiet, DomainOf, TERMINAL_JOB_STATUSES
<1>2. [q \in Requests |-> DomainOf(job'[q], request'[q])] = [q \in Requests |-> DomainOf(job[q], request[q])]
  BY <1>1
<1> QED BY <1>2 DEF Quiet, Lifecycle!lifecycle

\* A request queues its job.
LEMMA QueueSubmits ==
  ASSUME TypeOK, Queues
  PROVE  Lifecycle!Next
<1>1. PICK r \in Requests :
        /\ job[r].status = "absent" /\ job' = [job EXCEPT ![r] = Queued]
        /\ request' = [request EXCEPT ![r] = "pending"]
  BY DEF Queues
<1>2. Phase(Queued) = "waiting" /\ AttemptAt(r, Queued) = NoAttempt /\ Queued.attempt = 0
  BY DEF Queued, Phase, Claimable, AttemptAt
<1>3. PICK row : row = Queued
  OBVIOUS
<1>4. Lifecycle!Move(r, "waiting", NoAttempt, 0)
  BY <1>1, <1>2, <1>3, RowMoves
<1>5. job'[r] = Queued /\ \A q \in Requests : q # r => job'[q] = job[q] /\ request'[q] = request[q]
  BY <1>1 DEF TypeOK
<1>6. DomainOf(job'[r], request'[r]) = "open" /\ DomainOf(job[r], request[r]) = "open"
  BY <1>1, <1>5 DEF DomainOf, Queued, TERMINAL_JOB_STATUSES
<1>7. UNCHANGED [q \in Requests |-> DomainOf(job[q], request[q])]
  BY <1>5, <1>6, DomainMoves
<1>8. [q \in Requests |-> Phase(job[q])][r] = "absent"
  <2>1. Phase(job[r]) = "absent"
    BY <1>1 DEF Phase, Claimable
  <2> QED BY <2>1
<1>9. Lifecycle!Submit(r)
  BY <1>4, <1>7, <1>8 DEF Lifecycle!Submit
<1> QED BY <1>9 DEF Lifecycle!Next

\* A claim starts the next attempt.
LEMMA ClaimStarts ==
  ASSUME TypeOK, NEW s \in Slots, NEW r \in Requests, claim_next_job(s, r)
  PROVE  Lifecycle!Next
<1>a. PICK n \in 1..MaxAttempts : n = job[r].attempt + 1 /\ job[r].attempt < MaxAttempts
  <2>1. job[r].attempt \in Nat /\ MaxAttempts \in Nat
    BY AttemptsAssumption DEF TypeOK
  <2>2. job[r].attempt < MaxAttempts
    BY DEF claim_next_job
  <2> QED BY <2>1, <2>2
<1>b. PICK row : row = [status |-> "running", owner |-> s, attempt |-> n]
  OBVIOUS
<1>1. /\ n = job[r].attempt + 1 /\ job[r].attempt < MaxAttempts
      /\ row = [status |-> "running", owner |-> s, attempt |-> n]
      /\ job' = [job EXCEPT ![r] = row] /\ request' = request
  BY <1>a, <1>b DEF claim_next_job
<1>2. job[r].status \in Claimable
  BY DEF claim_next_job
<1>3. Phase(row) = "active" /\ AttemptAt(r, row) = <<r, n>> /\ row.attempt = n /\ row.status = "running"
  BY <1>1 DEF Phase, Claimable, AttemptAt
<1>4. Lifecycle!Move(r, "active", <<r, n>>, n)
  BY <1>1, <1>3, RowMoves
<1>5. [q \in Requests |-> Phase(job[q])][r] = "waiting"
  <2>1. Phase(job[r]) = "waiting"
    BY <1>2 DEF Phase, Claimable
  <2> QED BY <2>1
<1>6. \A i \in Requests : [q \in Requests |-> AttemptAt(q, job[q])][i] # <<r, n>>
  <2>1. \A i \in Requests : AttemptAt(i, job[i]) # <<r, n>>
    BY <1>2, NamesAssumption DEF AttemptAt, NoAttempt, Claimable
  <2> QED BY <2>1
<1>7. UNCHANGED [q \in Requests |-> DomainOf(job[q], request[q])]
  <2>1. job'[r] = row /\ \A q \in Requests : q # r => job'[q] = job[q] /\ request'[q] = request[q]
    BY <1>1 DEF TypeOK
  <2>2. DomainOf(job'[r], request'[r]) = "open" /\ DomainOf(job[r], request[r]) = "open"
    BY <1>2, <1>3, <2>1 DEF DomainOf, Claimable, TERMINAL_JOB_STATUSES
  <2> QED BY <2>1, <2>2, DomainMoves
<1>8. [q \in Requests |-> job[q].attempt][r] < MaxAttempts /\ [q \in Requests |-> job[q].attempt][r] + 1 = n
  BY <1>1
<1>9. Lifecycle!Start(r, <<r, n>>)
  BY <1>4, <1>5, <1>6, <1>7, <1>8 DEF Lifecycle!Start, Lifecycle!Move
<1> QED BY <1>9 DEF Lifecycle!Next

\* The row of a running job is released.
LEMMA Releases ==
  ASSUME TypeOK, NEW r \in Requests, job[r].status = "running",
         NEW st \in {"retryable_failed", "succeeded", "failed"},
         NEW p, p = IF st = "retryable_failed" THEN "waiting" ELSE "ended",
         job' = [job EXCEPT ![r] = Released(job[r], st)],
         NEW n, n = job[r].attempt
  PROVE  /\ Lifecycle!Move(r, p, NoAttempt, n)
         /\ [q \in Requests |-> Phase(job[q])][r] = "active"
         /\ [q \in Requests |-> job[q].attempt][r] = n
         /\ job'[r].status = st /\ job'[r].attempt = n
         /\ \A q \in Requests : q # r => job'[q] = job[q]
         /\ DomainOf(job[r], request[r]) = "open"
<1>1. PICK row : row = Released(job[r], st) /\ job' = [job EXCEPT ![r] = row]
  OBVIOUS
<1>2. row.status = st /\ row.attempt = n
  BY <1>1 DEF Released
<1>3. Phase(row) = p /\ AttemptAt(r, row) = NoAttempt
  BY <1>2 DEF Phase, Claimable, AttemptAt
<1>4. Lifecycle!Move(r, p, NoAttempt, n)
  BY <1>1, <1>2, <1>3, RowMoves
<1>5. [q \in Requests |-> Phase(job[q])][r] = "active"
  <2>1. Phase(job[r]) = "active"
    BY DEF Phase, Claimable
  <2> QED BY <2>1
<1>6. job'[r] = row /\ \A q \in Requests : q # r => job'[q] = job[q]
  BY <1>1 DEF TypeOK
<1>7. DomainOf(job[r], request[r]) = "open"
  BY DEF DomainOf, TERMINAL_JOB_STATUSES
<1> QED BY <1>2, <1>4, <1>5, <1>6, <1>7

\* An attempt that is given up is repeated or exhausts the job.
LEMMA GiveUpRepeatsOrExhausts ==
  ASSUME TypeOK, NEW r \in Requests, job[r].status = "running", GiveUpAttempt(r),
         job[r].attempt <= MaxAttempts
  PROVE  Lifecycle!Next
<1>1. PICK n \in 0..MaxAttempts : n = job[r].attempt
  BY AttemptsAssumption DEF TypeOK
<1>2. CASE n < MaxAttempts
  <2>1. job' = [job EXCEPT ![r] = Released(job[r], "retryable_failed")] /\ request' = request
    BY <1>1, <1>2 DEF GiveUpAttempt
  <2>2. /\ Lifecycle!Move(r, "waiting", NoAttempt, n)
        /\ [q \in Requests |-> Phase(job[q])][r] = "active"
        /\ [q \in Requests |-> job[q].attempt][r] = n
        /\ job'[r].status = "retryable_failed" /\ DomainOf(job[r], request[r]) = "open"
        /\ \A q \in Requests : q # r => job'[q] = job[q]
    BY <1>1, <2>1, Releases
  <2>3. DomainOf(job'[r], request'[r]) = "open"
    BY <2>2 DEF DomainOf, TERMINAL_JOB_STATUSES
  <2>4. UNCHANGED [q \in Requests |-> DomainOf(job[q], request[q])]
    BY <2>1, <2>2, <2>3, DomainMoves
  <2>5. Lifecycle!Repeat(r, n)
    BY <1>2, <2>2, <2>4 DEF Lifecycle!Repeat
  <2> QED BY <2>5 DEF Lifecycle!Next
<1>3. CASE ~(n < MaxAttempts)
  <2>1. /\ job' = [job EXCEPT ![r] = Released(job[r], "failed")]
        /\ request'[r] \in {"succeeded", "failed"} /\ \A q \in Requests : q # r => request'[q] = request[q]
    BY <1>1, <1>3 DEF GiveUpAttempt, finalize_exhausted_compile_job, TypeOK
  <2>2. /\ Lifecycle!Move(r, "ended", NoAttempt, n)
        /\ [q \in Requests |-> Phase(job[q])][r] = "active"
        /\ [q \in Requests |-> job[q].attempt][r] = n
        /\ job'[r].status = "failed"
        /\ \A q \in Requests : q # r => job'[q] = job[q]
    BY <1>1, <2>1, Releases
  <2>3. DomainOf(job'[r], request'[r]) = "closed"
    BY <2>1, <2>2 DEF DomainOf, TERMINAL_JOB_STATUSES
  <2>4. Lifecycle!Close(r)
    BY <2>1, <2>2, <2>3, DomainMoves
  <2>5. n = MaxAttempts
    BY <1>1, <1>3, AttemptsAssumption
  <2>6. Lifecycle!Exhaust(r)
    BY <2>2, <2>4, <2>5 DEF Lifecycle!Exhaust, Lifecycle!Move
  <2> QED BY <2>6 DEF Lifecycle!Next
<1> QED BY <1>2, <1>3

\* An attempt that finalizes ends its job, whose request has its result.
LEMMA FinalizeEnds ==
  ASSUME TypeOK, Ends
  PROVE  Lifecycle!Next
<1>1. PICK r \in Requests, st \in {"succeeded", "failed"} :
        /\ job[r].status = "running" /\ request[r] = st /\ request' = request
        /\ job' = [job EXCEPT ![r] = Released(job[r], st)]
  BY DEF Ends
<1>2. PICK n : n = job[r].attempt
  OBVIOUS
<1>3. /\ Lifecycle!Move(r, "ended", NoAttempt, n)
      /\ [q \in Requests |-> Phase(job[q])][r] = "active"
      /\ [q \in Requests |-> job[q].attempt][r] = n
      /\ job'[r].status = st /\ \A q \in Requests : q # r => job'[q] = job[q]
  BY <1>1, <1>2, Releases
<1>4. DomainOf(job'[r], request'[r]) = "closed"
  BY <1>1, <1>3 DEF DomainOf, TERMINAL_JOB_STATUSES
<1>5. Lifecycle!Close(r)
  BY <1>1, <1>3, <1>4, DomainMoves
<1>6. Lifecycle!End(r)
  BY <1>3, <1>5 DEF Lifecycle!End, Lifecycle!Move
<1> QED BY <1>6 DEF Lifecycle!Next

\* The budget holds, and a job that exists keeps its request.
LEMMA BudgetHolds ==
  ASSUME AInv, Budgeted, [Next]_vars
  PROVE  Budgeted'
<1>1. SUFFICES ASSUME Unretried', NEW r \in Requests
               PROVE  job'[r].attempt <= MaxAttempts /\ (request'[r] = "absent" => job'[r].status = "absent")
  BY DEF Budgeted
<1>2. TypeOK /\ job[r].attempt \in Nat /\ MaxAttempts \in Nat
  BY AttemptsAssumption DEF AInv, CInv, TypeOK
<1>3. \A q \in Requests : job[q].attempt <= MaxAttempts /\ (request[q] = "absent" => job[q].status = "absent")
  BY <1>1, RetriedStays DEF AInv, Budgeted
<1>4. CASE Quiet
  BY <1>3, <1>4 DEF Quiet
<1>5. CASE Queues
  BY <1>2, <1>3, <1>5 DEF Queues, Queued, TypeOK
<1>6. CASE Given
  <2>1. PICK q \in Requests : job[q].status = "running" /\ GiveUpAttempt(q)
    BY <1>6 DEF Given
  <2>2. PICK st \in {"retryable_failed", "failed"} : job' = [job EXCEPT ![q] = Released(job[q], st)]
    BY <2>1 DEF GiveUpAttempt
  <2>3. job'[q].attempt = job[q].attempt /\ \A b \in Requests : b # q => job'[b] = job[b]
    BY <1>2, <2>2 DEF TypeOK, Released
  <2>4. \A b \in Requests : request'[b] \in {request[b], "failed"} /\ (b # q => request'[b] = request[b])
    BY <1>2, <2>1 DEF GiveUpAttempt, finalize_exhausted_compile_job, TypeOK
  <2>5. request'[q] # "absent"
    BY <1>3, <2>1, <2>4
  <2> QED BY <1>3, <2>3, <2>4, <2>5
<1>7. CASE Ends
  <2>1. PICK q \in Requests, st \in {"succeeded", "failed"} :
          request[q] = st /\ request' = request /\ job' = [job EXCEPT ![q] = Released(job[q], st)]
    BY <1>7 DEF Ends
  <2>2. job'[q].attempt = job[q].attempt /\ \A b \in Requests : b # q => job'[b] = job[b]
    BY <1>2, <2>1 DEF TypeOK, Released
  <2> QED BY <1>3, <2>1, <2>2
<1>8. CASE \E s \in Slots, q \in Requests : claim_next_job(s, q)
  <2>1. PICK s \in Slots, q \in Requests : claim_next_job(s, q)
    BY <1>8
  <2>2. /\ job[q].status \in Claimable /\ job[q].attempt < MaxAttempts /\ request' = request
        /\ job' = [job EXCEPT ![q] = [status |-> "running", owner |-> s, attempt |-> job[q].attempt + 1]]
    BY <2>1 DEF claim_next_job
  <2>3. job'[q].attempt = job[q].attempt + 1 /\ job[q].attempt \in Nat /\ \A b \in Requests : b # q => job'[b] = job[b]
    BY <1>2, <2>2 DEF TypeOK
  <2>4. request[q] # "absent"
    BY <1>3, <2>2 DEF Claimable
  <2> QED BY <1>2, <1>3, <2>2, <2>3, <2>4
<1> QED BY <1>1, <1>4, <1>5, <1>6, <1>7, <1>8, JobsStep

\* Each kind of step is one of the life cycle.
LEMMA CompilesSimulate ==
  ASSUME AInv, Budgeted, [Next]_vars, Unretried'
  PROVE  Lifecycle!Next \/ UNCHANGED Lifecycle!lifecycle
<1>0. TypeOK /\ \A r \in Requests : job[r].attempt <= MaxAttempts
  BY RetriedStays DEF AInv, CInv, Budgeted
<1>1. CASE Quiet
  BY <1>1, NothingSeen
<1>2. CASE Queues
  BY <1>0, <1>2, QueueSubmits
<1>3. CASE Given
  BY <1>0, <1>3, GiveUpRepeatsOrExhausts DEF Given
<1>4. CASE Ends
  BY <1>0, <1>4, FinalizeEnds
<1>5. CASE \E s \in Slots, r \in Requests : claim_next_job(s, r)
  BY <1>0, <1>5, ClaimStarts
<1> QED BY <1>1, <1>2, <1>3, <1>4, <1>5, JobsStep

\* Until somebody retries through the API, the compile jobs go through the life
\* of a job: no late attempt takes back the end of a job or the result of its
\* request, and the last attempt that is given up leaves a result.
THEOREM CompilesKeepLife == Spec => CompilesAreJobs
<1>1. Init => Budgeted
  BY AttemptsAssumption DEF Init, Budgeted, NoJob
<1>2. AInv /\ Budgeted /\ [Next]_vars => Budgeted'
  BY BudgetHolds
<1>3. AInv /\ Budgeted /\ [Next]_vars => [Unretried' => Lifecycle!Next \/ UNCHANGED Lifecycle!lifecycle]_vars
  BY CompilesSimulate
<1>4. Spec => [][Unretried' => Lifecycle!Next \/ UNCHANGED Lifecycle!lifecycle]_vars
  BY <1>1, <1>2, <1>3, AgreementInvariance, PTL DEF Spec
<1> QED BY <1>4 DEF CompilesAreJobs
=============================================================================
