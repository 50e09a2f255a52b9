---------------------------- MODULE SkillSource ----------------------------
(***************************************************************************)
(* The source of a skill, a branch in GitLab, and those who write to it    *)
(* (backend/app/domain/skills/service.py, gateway/gitlab.py): clients that *)
(* save what they edited, clients that create files, and the jobs that     *)
(* generate a draft from raw materials.                                    *)
(*                                                                         *)
(* GitLab appends a commit to whatever the head of the branch is; the      *)
(* services compare the head with the commit they started from in a call   *)
(* of its own, and record the new commit in the database after it.  The    *)
(* head and the files of a branch are read in separate calls too, and the  *)
(* files by the name of the branch: they may be those of a later commit.   *)
(* The files of a source are three calls; here they are one step.          *)
(***************************************************************************)
EXTENDS Integers, Sequences, FiniteSets

CONSTANTS
  Clients,      \* clients that save, rename the skill or create a file, once
  Generations,  \* generations of a draft, and their jobs
  Slots,        \* worker slots, and their owner tokens
  MaxAttempts,  \* runtime_job_max_attempts
  None          \* the author of the first commit, no owner, no generation

ASSUME SourceAssumption ==
  /\ MaxAttempts \in Nat \ {0}
  /\ None \notin Clients \cup Generations \cup Slots /\ Clients \cap Generations = {}

VARIABLES
  branch,      \* the commits: their author, the base the head was compared with (0: none),
               \* the commit whose files their content was made from (0: none were read)
  draft,       \* skill_version.source_commit_sha of the draft
  client,      \* their requests: how far, whether they edit one file, the commit they name,
               \* the commit whose files they edit, their commit
  generation,  \* skill_raw_material_generation: status, base_commit_sha, committed_commit_sha
  job,         \* the generation jobs
  attempt      \* the slots: how far, on which generation, the head it resolved, the
               \* commit whose files it read, its commit

vars == <<branch, draft, client, generation, job, attempt>>

Authors == Clients \cup Generations \cup {None}
Claimable == {"pending", "retryable_failed"}
TERMINAL_JOB_STATUSES == {"succeeded", "failed", "cancelled"}
GenerationStatus == {"absent", "pending", "running", "succeeded", "failed"}
Unread == [pc |-> "new", file |-> FALSE, base |-> 0, content |-> 0, sha |-> 0]
NoJob == [status |-> "absent", owner |-> None, charged |-> 0]
Idle == [pc |-> "idle", of |-> None, read |-> 0, content |-> 0, sha |-> 0]
Tip == Len(branch)

TypeOK ==
  /\ branch \in Seq([by : Authors, base : Nat, content : Nat])
  /\ draft \in 1..Tip
  /\ client \in [Clients -> [pc : {"new", "reading", "loading", "loaded", "checked", "committed",
                                   "saved", "refused", "failed"},
                             file : BOOLEAN, base : 0..Tip, content : 0..Tip, sha : 0..Tip]]
  /\ generation \in [Generations -> [status : GenerationStatus,
                                     base : 0..Tip, sha : 0..Tip]]
  /\ job \in [Generations -> [status : {"absent", "running"} \cup Claimable \cup TERMINAL_JOB_STATUSES,
                              owner : Slots \cup {None}, charged : 0..MaxAttempts]]
  /\ attempt \in [Slots -> [pc : {"idle", "claimed", "loading", "reading", "generating", "submitted",
                                  "checked", "unanswered", "matched", "committed"},
                            of : Generations \cup {None}, read : 0..Tip, content : 0..Tip, sha : 0..Tip]]

\* create_skill: the project has its first commit and the skill its draft.
Init ==
  /\ branch = <<[by |-> None, base |-> 0, content |-> 0]>> /\ draft = 1
  /\ client = [c \in Clients |-> Unread]
  /\ generation = [g \in Generations |-> [status |-> "absent", base |-> 0, sha |-> 0]]
  /\ job = [g \in Generations |-> NoJob]
  /\ attempt = [s \in Slots |-> Idle]

\* POST /repository/commits: GitLab does not ask what the commit is based on.
Push(author, base, content) ==
  branch' = Append(branch, [by |-> author, base |-> base, content |-> content])

(***************************************************************************)
(* Requests.                                                               *)
(***************************************************************************)

\* The head is resolved, then the files are read.
get_skill_source(c) ==
  /\ client[c].pc = "new"
  /\ client' = [client EXCEPT ![c].pc = "reading", ![c].base = Tip]
  /\ UNCHANGED <<branch, draft, generation, job, attempt>>

\* A single file is read first, and the head is resolved after it.
get_repository_file(c) ==
  /\ client[c].pc = "new"
  /\ client' = [client EXCEPT ![c].pc = "reading", ![c].file = TRUE, ![c].content = Tip]
  /\ UNCHANGED <<branch, draft, generation, job, attempt>>

\* The second of the two calls.
SourceRead(c) ==
  /\ client[c].pc = "reading"
  /\ client' = [client EXCEPT ![c].pc = "loading",
                              ![c].base = IF client[c].file THEN Tip ELSE @,
                              ![c].content = IF client[c].file THEN @ ELSE Tip]
  /\ UNCHANGED <<branch, draft, generation, job, attempt>>

\* The draft is set to that head, which may be the head no longer, and the
\* client gets files and head.
DraftFollows(c) ==
  /\ client[c].pc = "loading"
  /\ client' = [client EXCEPT ![c].pc = "loaded"]
  /\ draft' = client[c].base
  /\ UNCHANGED <<branch, generation, job, attempt>>

\* save_skill_source and save_repository_file: the head is the client's base.
save_skill_source(c) ==
  /\ client[c].pc = "loaded"
  /\ client' = [client EXCEPT ![c].pc = IF Tip = client[c].base THEN "checked" ELSE "refused"]
  /\ UNCHANGED <<branch, draft, generation, job, attempt>>

\* The service reads the files itself and commits them back with the new name
\* and description; it compares nothing and ignores the head.
update_skill_metadata(c) ==
  /\ client[c].pc = "new"
  /\ client' = [client EXCEPT ![c].pc = "checked", ![c].content = Tip]
  /\ UNCHANGED <<branch, draft, generation, job, attempt>>

SaveCommits(c) ==
  /\ client[c].pc = "checked"
  /\ Push(c, client[c].base, client[c].content)
  /\ client' = [client EXCEPT ![c].pc = "committed", ![c].sha = Tip + 1]
  /\ UNCHANGED <<draft, generation, job, attempt>>

\* Creating a file compares nothing.
create_repository_file(c) ==
  /\ client[c].pc = "new"
  /\ Push(c, 0, 0)
  /\ client' = [client EXCEPT ![c].pc = "committed", ![c].sha = Tip + 1]
  /\ UNCHANGED <<draft, generation, job, attempt>>

_sync_draft_after_repository_commit(c) ==
  /\ client[c].pc = "committed"
  /\ draft' = client[c].sha
  /\ client' = [client EXCEPT ![c].pc = "saved"]
  /\ UNCHANGED <<branch, generation, job, attempt>>

\* GitLab refuses the call, its answer is lost, or the process dies.
RequestFails(c) ==
  /\ client[c].pc \in {"reading", "loading", "checked", "committed"}
  /\ client' = [client EXCEPT ![c].pc = "failed"]
  /\ UNCHANGED <<branch, draft, generation, job, attempt>>

\* The client names the commit it has seen, which must be the head, or none.
generate_skill_draft_from_raw_materials(g, pinned) ==
  /\ generation[g].status = "absent"
  /\ generation' = [generation EXCEPT ![g].status = "pending", ![g].base = IF pinned THEN Tip ELSE 0]
  /\ job' = [job EXCEPT ![g].status = "pending"]
  /\ UNCHANGED <<branch, draft, client, attempt>>

(***************************************************************************)
(* The job.                                                                *)
(***************************************************************************)

\* Mutant of Owns: any attempt that believes in its lease may commit.
AnyAttempt(s) == attempt[s].pc # "idle"

\* The fence of the session: the job is running, for this slot.
Owns(s) == attempt[s].pc # "idle" /\ job[attempt[s].of].status = "running" /\ job[attempt[s].of].owner = s

Released(j, st) == [j EXCEPT !.status = st, !.owner = None]

finalize_exhausted_raw_material_generation_job(g) ==
  generation' = [generation EXCEPT ![g].status = IF @ \in {"succeeded", "failed"} THEN @ ELSE "failed"]

\* The attempt on g ended without a result (GiveUpAttempt of JobQueue).
GiveUpAttempt(g) ==
  IF job[g].charged < MaxAttempts
  THEN job' = [job EXCEPT ![g] = Released(@, "retryable_failed")] /\ UNCHANGED generation
  ELSE /\ job' = [job EXCEPT ![g] = Released(@, "failed")]
       /\ finalize_exhausted_raw_material_generation_job(g)

claim_next_job(s, g) ==
  /\ attempt[s].pc = "idle"
  /\ job[g].status \in Claimable /\ job[g].charged < MaxAttempts
  /\ job' = [job EXCEPT ![g] = [status |-> "running", owner |-> s, charged |-> @.charged + 1]]
  /\ attempt' = [attempt EXCEPT ![s] = [Idle EXCEPT !.pc = "claimed", !.of = g]]
  /\ UNCHANGED <<branch, draft, client, generation>>

recover_expired_lease(g) ==
  /\ job[g].status = "running"
  /\ GiveUpAttempt(g)
  /\ UNCHANGED <<branch, draft, client, attempt>>

_record_unhandled_failure(s) ==
  /\ attempt[s].pc # "idle"
  /\ IF Owns(s) THEN GiveUpAttempt(attempt[s].of) ELSE UNCHANGED <<job, generation>>
  /\ attempt' = [attempt EXCEPT ![s] = Idle]
  /\ UNCHANGED <<branch, draft, client>>

Crash(s) ==
  /\ attempt[s].pc # "idle"
  /\ attempt' = [attempt EXCEPT ![s] = Idle]
  /\ UNCHANGED <<branch, draft, client, generation, job>>

(***************************************************************************)
(* process_skill_raw_material_generation_job.                              *)
(***************************************************************************)

\* The early return for a generation that succeeded is never taken: its job
\* succeeded in the same commit.
GenerationStarts(s) ==
  /\ attempt[s].pc = "claimed" /\ Owns(s)
  /\ generation' = [generation EXCEPT ![attempt[s].of].status = "running"]
  /\ attempt' = [attempt EXCEPT ![s].pc = "loading"]
  /\ UNCHANGED <<branch, draft, client, job>>

HeadResolved(s) ==
  /\ attempt[s].pc = "loading" /\ Owns(s)
  /\ attempt' = [attempt EXCEPT ![s].pc = "reading", ![s].read = Tip]
  /\ UNCHANGED <<branch, draft, client, generation, job>>

\* The files are read, and the head resolved before them is the commit the
\* client named, if it named one.
SourceLoaded(s) ==
  /\ attempt[s].pc = "reading" /\ Owns(s)
  /\ generation[attempt[s].of].base \in {0, attempt[s].read}
  /\ attempt' = [attempt EXCEPT ![s].pc = "generating", ![s].content = Tip]
  /\ UNCHANGED <<branch, draft, client, generation, job>>

\* The builder agent submitted a candidate; its files are resolved.
CandidateSubmitted(s) ==
  /\ attempt[s].pc = "generating" /\ Owns(s)
  /\ attempt' = [attempt EXCEPT ![s].pc = "submitted"]
  /\ UNCHANGED <<branch, draft, client, generation, job>>

\* Mutant of HeadUnchanged: only what a client named is compared.
PinnedUnchanged(s) == generation[attempt[s].of].base \in {0, Tip}

\* The head is the one resolved before the files were read.
HeadUnchanged(s) == Tip = attempt[s].read

\* The head is compared; from here on nothing asks for the lease.
HeadChecked(s) ==
  /\ attempt[s].pc = "submitted" /\ HeadUnchanged(s)
  /\ attempt' = [attempt EXCEPT ![s].pc = "checked"]
  /\ UNCHANGED <<branch, draft, client, generation, job>>

\* The files of g may be what is in the branch: commits of clients since then
\* may have been to other files.
FilesMatch(g) ==
  \E i \in 1..Tip : branch[i].by = g /\ \A k \in i + 1..Tip : branch[k].by \in Clients

\* The files are committed and the answer arrives or is lost, or they are all
\* in the branch already and nothing is committed.
commit_repository_files(s) ==
  LET g == attempt[s].of IN
  /\ attempt[s].pc = "checked"
  /\ \/ /\ Push(g, attempt[s].read, attempt[s].content)
        /\ \/ attempt' = [attempt EXCEPT ![s].pc = "committed", ![s].sha = Tip + 1]
           \/ attempt' = [attempt EXCEPT ![s].pc = "unanswered"]
     \/ /\ FilesMatch(g)
        /\ attempt' = [attempt EXCEPT ![s].pc = "matched"]
        /\ UNCHANGED branch
  /\ UNCHANGED <<draft, client, generation, job>>

\* Mutant of AnswerLost: the call is taken to have worked.
AssumeCommitted(s) ==
  /\ attempt[s].pc \in {"checked", "unanswered"}
  /\ attempt' = [attempt EXCEPT ![s].pc = "matched"]
  /\ UNCHANGED <<branch, draft, client, generation, job>>

\* After an error, files that are in the branch count as committed.
AnswerLost(s) ==
  /\ attempt[s].pc = "unanswered" /\ FilesMatch(attempt[s].of)
  /\ attempt' = [attempt EXCEPT ![s].pc = "matched"]
  /\ UNCHANGED <<branch, draft, client, generation, job>>

\* The commit of files that were in the branch is whatever its head is now.
get_branch_head(s) ==
  /\ attempt[s].pc = "matched"
  /\ attempt' = [attempt EXCEPT ![s].pc = "committed", ![s].sha = Tip]
  /\ UNCHANGED <<branch, draft, client, generation, job>>

\* Generation, draft and job in one commit.
GenerationSucceeds(s) ==
  LET g == attempt[s].of IN
  /\ attempt[s].pc = "committed" /\ Owns(s)
  /\ generation' = [generation EXCEPT ![g].status = "succeeded", ![g].sha = attempt[s].sha]
  /\ draft' = attempt[s].sha
  /\ job' = [job EXCEPT ![g] = Released(@, "succeeded")]
  /\ attempt' = [attempt EXCEPT ![s] = Idle]
  /\ UNCHANGED <<branch, client>>

\* Mutant of GenerationFails: an exception leaves the generation running.
FailTheJob(s) ==
  /\ attempt[s].pc \notin {"idle", "claimed"} /\ Owns(s)
  /\ job' = [job EXCEPT ![attempt[s].of] = Released(@, "failed")]
  /\ attempt' = [attempt EXCEPT ![s] = Idle]
  /\ UNCHANGED <<branch, draft, client, generation>>

\* A source conflict, a candidate that is not valid, an error of GitLab: the
\* generation and its job fail, there is no retry.
GenerationFails(s) ==
  /\ attempt[s].pc \notin {"idle", "claimed"} /\ Owns(s)
  /\ generation' = [generation EXCEPT ![attempt[s].of].status = "failed"]
  /\ job' = [job EXCEPT ![attempt[s].of] = Released(@, "failed")]
  /\ attempt' = [attempt EXCEPT ![s] = Idle]
  /\ UNCHANGED <<branch, draft, client>>

(***************************************************************************)
(* The specification.                                                      *)
(***************************************************************************)

Generate(s) ==
  \/ GenerationStarts(s) \/ HeadResolved(s) \/ SourceLoaded(s) \/ CandidateSubmitted(s) \/ HeadChecked(s)
  \/ commit_repository_files(s) \/ AnswerLost(s) \/ get_branch_head(s) \/ GenerationSucceeds(s)
  \/ GenerationFails(s) \/ _record_unhandled_failure(s)

Request(c) ==
  \/ get_skill_source(c) \/ get_repository_file(c) \/ SourceRead(c) \/ DraftFollows(c)
  \/ save_skill_source(c) \/ update_skill_metadata(c)
  \/ SaveCommits(c) \/ create_repository_file(c) \/ _sync_draft_after_repository_commit(c)
  \/ RequestFails(c)

Next ==
  \/ \E c \in Clients : Request(c)
  \/ \E g \in Generations :
       \/ \E pinned \in BOOLEAN : generate_skill_draft_from_raw_materials(g, pinned)
       \/ recover_expired_lease(g)
       \/ \E s \in Slots : claim_next_job(s, g)
  \/ \E s \in Slots : Generate(s) \/ Crash(s)

Spec == Init /\ [][Next]_vars

\* Nobody renews the lease of the attempt on g.
Dead(g) == job[g].status = "running" /\ \A s \in Slots : ~(job[g].owner = s /\ attempt[s].of = g)

\* Fairness.  Slots claim what waited longest and go on, dead leases are
\* recovered; clients and processes owe nothing.
FairSpec ==
  /\ Spec
  /\ \A s \in Slots : WF_vars(Generate(s))
  /\ \A g \in Generations :
       /\ SF_vars(\E s \in Slots : claim_next_job(s, g))
       /\ WF_vars(Dead(g) /\ recover_expired_lease(g))

(***************************************************************************)
(* The jobs as JobLifecycle sees them: a generation is what a job drives,  *)
(* and an attempt is told by its job and its number.                       *)
(***************************************************************************)

Phase(j) ==
  CASE j.status = "absent" -> "absent"
    [] j.status \in Claimable -> "waiting"
    [] j.status = "running" -> "active"
    [] OTHER -> "ended"

NoAttempt == <<None, 0>>
AttemptAt(g, j) == IF j.status = "running" THEN <<g, j.charged>> ELSE NoAttempt
DomainOf(status) == IF status \in {"succeeded", "failed"} THEN "closed" ELSE "open"

Lifecycle == INSTANCE JobLifecycle WITH
  Jobs <- Generations,
  Attempts <- Generations \X (1..MaxAttempts),
  None <- NoAttempt,
  phase <- [g \in Generations |-> Phase(job[g])],
  attempt <- [g \in Generations |-> AttemptAt(g, job[g])],
  tries <- [g \in Generations |-> job[g].charged],
  domain <- [g \in Generations |-> DomainOf(generation[g].status)]

(***************************************************************************)
(* Properties.                                                             *)
(***************************************************************************)

CommitsOf(author) == {i \in 1..Tip : branch[i].by = author}

\* A generation that succeeded has its files in the branch, at or before the
\* commit it recorded, although its answer was lost or its attempt repeated.
SucceededIsInSource ==
  /\ TypeOK
  /\ \A g \in Generations : generation[g].status = "succeeded" => \E i \in CommitsOf(g) : i <= generation[g].sha

\* What is committed under a base was made from the files of that base, although
\* head and files are read in separate calls between which others commit:
\* generations on every attempt, of the commit the client named if it named one,
\* and saves of a whole source.  It says nothing of the commits between that
\* base and the new one.  A single file that is saved may be older than the base
\* it is saved under, never newer.
MadeFromItsBase ==
  \A i \in 1..Tip :
    LET commit == branch[i] IN
    /\ commit.by \in Generations =>
         /\ commit.content = commit.base
         /\ generation[commit.by].base \in {0, commit.base}
    /\ commit.by \in Clients /\ commit.base # 0 =>
         IF client[commit.by].file THEN commit.content <= commit.base ELSE commit.content = commit.base

\* Whatever overlapping attempts, crashes and the answers of GitLab do, each
\* generation goes through the life of a job: one attempt at a time out of a
\* bounded budget, a result that no late attempt takes back, and none without
\* the job's end (process_skill_raw_material_generation_job).
GenerationsAreJobs == Lifecycle!Spec

\* Every generation is settled together with its job, whatever the workers, the
\* agent and GitLab do.
GenerationSettles ==
  \A g \in Generations :
    (generation[g].status = "pending")
      ~> (generation[g].status \in {"succeeded", "failed"} /\ job[g].status \in TERMINAL_JOB_STATUSES)
=============================================================================
