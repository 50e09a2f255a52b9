---------------------------- MODULE RawMaterial ----------------------------
(***************************************************************************)
(* A raw material of a skill and its analyses                              *)
(* (backend/app/domain/skills/service.py): the upload, the requests that   *)
(* analyse it again and delete it, and the raw_material_analysis jobs.     *)
(*                                                                         *)
(* Requests read the material and its latest analysis without a lock and   *)
(* commit later; a session writes a column only when it assigns a value    *)
(* that differs from the one it loaded or wrote last.                      *)
(***************************************************************************)
EXTENDS Integers

CONSTANTS
  MaxAnalyses,  \* bound: analyses that are ever created
  MaxAttempts,  \* runtime_job_max_attempts
  Slots,        \* worker slots, and their owner tokens
  Callers,      \* clients that ask for another analysis
  None          \* no owner

ASSUME BoundsAssumption == MaxAnalyses \in Nat \ {0} /\ MaxAttempts \in Nat \ {0}
ASSUME OwnersAssumption == None \notin Slots

VARIABLES
  upload,    \* the upload_raw_material call
  material,  \* skill_raw_material.status
  created,   \* how many analyses there are; the last one is the latest
  analysis,  \* skill_raw_material_analysis.status
  job,       \* the analysis jobs
  attempt,   \* the slots: idle, or the analysis they work on and how far
  asking     \* callers that have found the material ready to be analysed

materialVars == <<upload, material, created, analysis, job, attempt, asking>>

Analyses == 1..MaxAnalyses
MaterialStatus == {"absent", "processing", "ready", "failed", "archived"}
Live == {"pending", "running"}
Results == {"ready", "failed"}
Claimable == {"pending", "retryable_failed"}
TERMINAL_JOB_STATUSES == {"succeeded", "failed", "cancelled"}
NoJob == [status |-> "absent", owner |-> None, charged |-> 0]
Unassigned == [pc |-> "idle", of |-> 0]

MaterialTypeOK ==
  /\ upload \in {"new", "committed", "answered", "died"}
  /\ material \in MaterialStatus
  /\ created \in 0..MaxAnalyses
  /\ analysis \in [Analyses -> {"absent"} \cup Live \cup Results]
  /\ job \in [Analyses -> [status : {"absent", "running"} \cup Claimable \cup TERMINAL_JOB_STATUSES,
                           owner : Slots \cup {None}, charged : 0..MaxAttempts]]
  /\ attempt \in [Slots -> [pc : {"idle", "claimed", "analysing"}, of : 0..MaxAnalyses]]
  /\ asking \in [Callers -> BOOLEAN]

MaterialInit ==
  /\ upload = "new" /\ material = "absent" /\ created = 0
  /\ analysis = [a \in Analyses |-> "absent"] /\ job = [a \in Analyses |-> NoJob]
  /\ attempt = [s \in Slots |-> Unassigned] /\ asking = [c \in Callers |-> FALSE]

(***************************************************************************)
(* Requests.                                                               *)
(***************************************************************************)

\* The analysis and its job, in one commit.
_queue_raw_material_analysis ==
  /\ created < MaxAnalyses
  /\ created' = created + 1
  /\ analysis' = [analysis EXCEPT ![created + 1] = "pending"]
  /\ job' = [job EXCEPT ![created + 1] = [NoJob EXCEPT !.status = "pending"]]

\* The content is in the object store; the material is committed before its
\* first analysis is.
upload_raw_material ==
  /\ upload = "new"
  /\ upload' = "committed" /\ material' = "processing"
  /\ UNCHANGED <<created, analysis, job, attempt, asking>>

\* The session still holds "processing": the column is not written.
UploadQueues ==
  /\ upload = "committed" /\ _queue_raw_material_analysis
  /\ upload' = "answered"
  /\ UNCHANGED <<material, attempt, asking>>

UploadDies ==
  /\ upload = "committed"
  /\ upload' = "died"
  /\ UNCHANGED <<material, created, analysis, job, attempt, asking>>

delete_raw_material ==
  /\ material \notin {"absent", "archived"}
  /\ material' = "archived"
  /\ UNCHANGED <<upload, created, analysis, job, attempt, asking>>

\* What analyze_raw_material checks.
MayAnalyse ==
  /\ material \in Results
  /\ created > 0 => analysis[created] \notin Live

analyze_raw_material(c) ==
  /\ ~asking[c] /\ MayAnalyse /\ created < MaxAnalyses
  /\ asking' = [asking EXCEPT ![c] = TRUE]
  /\ UNCHANGED <<upload, material, created, analysis, job, attempt>>

\* The insertion checks nothing that was not read before.
AnalyzeQueues(c) ==
  /\ asking[c] /\ _queue_raw_material_analysis
  /\ material' = "processing"
  /\ asking' = [asking EXCEPT ![c] = FALSE]
  /\ UNCHANGED <<upload, attempt>>

AnalyzeDies(c) ==
  /\ asking[c]
  /\ asking' = [asking EXCEPT ![c] = FALSE]
  /\ UNCHANGED <<upload, material, created, analysis, job, attempt>>

(***************************************************************************)
(* The job.                                                                *)
(***************************************************************************)

\* Mutant of Owns: any attempt that believes in its lease may commit.
AnyAttempt(s) == attempt[s].pc # "idle"

\* The fence of the session: the job is running, for this slot.
Owns(s) == LET j == job[attempt[s].of] IN j.status = "running" /\ j.owner = s

Released(j, st) == [j EXCEPT !.status = st, !.owner = None]

\* Mutant of finalize_exhausted_raw_material_analysis_job: the material is
\* left to whoever analyses it next.
FailAnalysisOnly(a) ==
  /\ analysis' = [analysis EXCEPT ![a] = IF @ \in Results THEN @ ELSE "failed"]
  /\ UNCHANGED material

\* An analysis with a result keeps it; a deleted material stays deleted.
finalize_exhausted_raw_material_analysis_job(a) ==
  IF analysis[a] \in Results THEN UNCHANGED <<analysis, material>>
  ELSE /\ analysis' = [analysis EXCEPT ![a] = "failed"]
       /\ material' = IF material = "archived" THEN material ELSE "failed"

\* Mutant of GiveUpAttempt: nothing closes the analysis of a failed job.
FailJobOnly(a) ==
  /\ job' = [job EXCEPT ![a] = Released(@, IF @.charged < MaxAttempts THEN "retryable_failed" ELSE "failed")]
  /\ UNCHANGED <<analysis, material>>

\* The attempt on a ended without a result (GiveUpAttempt of JobQueue).
GiveUpAttempt(a) ==
  IF job[a].charged < MaxAttempts
  THEN /\ job' = [job EXCEPT ![a] = Released(@, "retryable_failed")]
       /\ UNCHANGED <<analysis, material>>
  ELSE /\ job' = [job EXCEPT ![a] = Released(@, "failed")]
       /\ finalize_exhausted_raw_material_analysis_job(a)

claim_next_job(s, a) ==
  /\ attempt[s].pc = "idle"
  /\ job[a].status \in Claimable /\ job[a].charged < MaxAttempts
  /\ job' = [job EXCEPT ![a] = [status |-> "running", owner |-> s, charged |-> @.charged + 1]]
  /\ attempt' = [attempt EXCEPT ![s] = [pc |-> "claimed", of |-> a]]
  /\ UNCHANGED <<upload, material, created, analysis, asking>>

recover_expired_lease(a) ==
  /\ job[a].status = "running"
  /\ GiveUpAttempt(a)
  /\ UNCHANGED <<upload, created, attempt, asking>>

\* What the handler raised outside of its own error handling: a deleted
\* material, a lost lease, a failed commit.
_record_unhandled_failure(s) ==
  /\ attempt[s].pc # "idle"
  /\ IF Owns(s) THEN GiveUpAttempt(attempt[s].of) ELSE UNCHANGED <<job, analysis, material>>
  /\ attempt' = [attempt EXCEPT ![s] = Unassigned]
  /\ UNCHANGED <<upload, created, asking>>

Crash(s) ==
  /\ attempt[s].pc # "idle"
  /\ attempt' = [attempt EXCEPT ![s] = Unassigned]
  /\ UNCHANGED <<upload, material, created, analysis, job, asking>>

(***************************************************************************)
(* process_raw_material_analysis_job.                                      *)
(***************************************************************************)

AnalysisStarts(s) ==
  /\ attempt[s].pc = "claimed" /\ Owns(s) /\ material # "archived"
  /\ analysis' = [analysis EXCEPT ![attempt[s].of] = "running"]
  /\ material' = "processing"
  /\ attempt' = [attempt EXCEPT ![s].pc = "analysing"]
  /\ UNCHANGED <<upload, created, job, asking>>

\* Analysis, material and job in one commit.  The session holds "processing"
\* and writes the material's result whatever its status has become.
AnalysisEnds(s, result) ==
  /\ attempt[s].pc = "analysing" /\ Owns(s)
  /\ analysis' = [analysis EXCEPT ![attempt[s].of] = result]
  /\ material' = result
  /\ job' = [job EXCEPT ![attempt[s].of] =
               Released(@, IF result = "ready" THEN "succeeded" ELSE "failed")]
  /\ attempt' = [attempt EXCEPT ![s] = Unassigned]
  /\ UNCHANGED <<upload, created, asking>>

(***************************************************************************)
(* The specification.                                                      *)
(***************************************************************************)

Work(s) == AnalysisStarts(s) \/ (\E result \in Results : AnalysisEnds(s, result)) \/ _record_unhandled_failure(s)

MaterialNext ==
  \/ upload_raw_material \/ UploadQueues \/ UploadDies \/ delete_raw_material
  \/ \E c \in Callers : analyze_raw_material(c) \/ AnalyzeQueues(c) \/ AnalyzeDies(c)
  \/ \E s \in Slots : Work(s) \/ Crash(s) \/ \E a \in Analyses : claim_next_job(s, a)
  \/ \E a \in Analyses : recover_expired_lease(a)

MaterialSpec == MaterialInit /\ [][MaterialNext]_materialVars

\* Nobody renews the lease of the attempt on a.
Dead(a) == job[a].status = "running" /\ \A s \in Slots : ~(job[a].owner = s /\ attempt[s].of = a)

\* Fairness.  Slots claim what waited longest and go on, dead leases are
\* recovered; requests and processes owe nothing.
FairMaterialSpec ==
  /\ MaterialSpec
  /\ \A s \in Slots : WF_materialVars(Work(s))
  /\ \A a \in Analyses :
       /\ SF_materialVars(\E s \in Slots : claim_next_job(s, a))
       /\ WF_materialVars(Dead(a) /\ recover_expired_lease(a))

(***************************************************************************)
(* The jobs as JobLifecycle sees them: an analysis is what a job drives,   *)
(* and an attempt is told by its job and its number.                       *)
(***************************************************************************)

Phase(j) ==
  CASE j.status = "absent" -> "absent"
    [] j.status \in Claimable -> "waiting"
    [] j.status = "running" -> "active"
    [] OTHER -> "ended"

NoAttempt == <<0, 0>>
AttemptAt(a, j) == IF j.status = "running" THEN <<a, j.charged>> ELSE NoAttempt
DomainOf(status) == IF status \in Results THEN "closed" ELSE "open"

Lifecycle == INSTANCE JobLifecycle WITH
  Jobs <- Analyses,
  Attempts <- Analyses \X (1..MaxAttempts),
  None <- NoAttempt,
  phase <- [a \in Analyses |-> Phase(job[a])],
  attempt <- [a \in Analyses |-> AttemptAt(a, job[a])],
  tries <- [a \in Analyses |-> job[a].charged],
  domain <- [a \in Analyses |-> DomainOf(analysis[a])]

(***************************************************************************)
(* Properties.                                                             *)
(***************************************************************************)

\* Whatever overlapping attempts, crashes and requests do, each analysis goes
\* through the life of a job: one attempt at a time out of a bounded budget,
\* a result that no late attempt takes back, and none without the job's end
\* (process_raw_material_analysis_job, finalize_exhausted_raw_material_analysis_job).
AnalysesAreJobs == Lifecycle!Spec

\* The result of an analysis and the end of its job are one commit, on every
\* path: the handler's, the queue's and the recovery's.
SettledTogether ==
  \A a \in Analyses : analysis[a] \in Results <=> job[a].status \in TERMINAL_JOB_STATUSES

\* A material that is being processed, and therefore cannot be analysed again,
\* has an analysis that will end it, unless its upload died before it had one.
ProcessingIsAttended ==
  material = "processing" => upload \in {"committed", "died"} \/ \E a \in Analyses : analysis[a] \in Live

\* Every analysis gets a result, whatever the workers go through and although
\* the material may be deleted.
AnalysisSettles ==
  \A a \in Analyses : analysis[a] = "pending" ~> analysis[a] \in Results
=============================================================================
