# PSOP: TLA+ models and proofs

PSOP turns standard operating procedures ("skills") into executable graphs and
runs them with a user at a terminal and language-model agents in between.  Its
backend is a FastAPI application, a worker process and a PostgreSQL database;
everything that survives a crash is a row of that database, a commit in GitLab
or an object in the object store.  This directory models the parts of the
backend whose correctness depends on the order in which API handlers, worker
slots, heartbeat threads and recovery loops touch that state, checks the models
with TLC and proves the central results with TLAPS.

Paths below are relative to `backend/app`.  `PROJECT.json` maps every
definition to its source lines and lists runs, findings and hazards.

## 1. Inventory

| component | state | operations | how it interacts | correct when |
|---|---|---|---|---|
| **Job queue** (`domain/jobs`) | `runtime_job` rows: status, owner, lease, availability, attempt counter; one advisory lock per running attempt | claim, heartbeat, abandon, fail, recover an expired lease, exhaust | runs the handlers of every other component in worker slots of three pools; calls their finalizers when attempts are used up | one attempt at a time can write; every job ends; a job that failed has closed what it drives |
| **Runtime Kernel** (`domain/runtime/service.py`) | run, terminal session, terminal events, snapshots of the session token, trace events, the run's job | create, fork, append a terminal event, cancel, advance a turn, recover a failed turn, finalize | driven by its job; appends requeue the job or flag the running turn | no input is lost, skipped or used twice; a run that is over stays over; run, session and job end together |
| **Skill tests** (`domain/skill_tests`) | scenarios, scenario runs, expectation evaluations; driver and finalizer jobs | start, cancel, drive the timeline, judge, finalize, fork | creates and cancels runs, appends inputs to them, reads their status | inputs arrive once and in order; a verdict is earned, comes, and stands |
| **Compiler and publishing** (`domain/compiler`, `domain/skills`) | publish records, compile requests, artifacts, latest version, compile jobs | publish, compile manually, compile, retry through the API, exhaust | compile job; the latest version is what runs are created from | the latest version has an artifact; record, request and job agree; every request is settled |
| **Raw materials** (`domain/skills`) | materials, analyses, their jobs | upload, analyse again, delete, analyse, exhaust | analysis job; ready materials feed generations | analysis and job end together; no material waits for nobody; deleted is deleted |
| **Skill source and generations** (`domain/skills`, `gateway/gitlab.py`) | a branch in GitLab, the draft's commit, generations and their jobs | read, save, rename, create, generate a draft | commits to GitLab outside any transaction of the database | a generation that succeeded is in the source, one that failed is not; nobody's commit is overwritten unseen |
| **Formal v5** (`domain/compiler/formal_v5.py`, `agent_harness/tools/builtin/compiler.py`) | none | build the scaffold of a workflow, normalise and validate an execution graph | gate of the compiler; its graphs are what the kernel runs | what it accepts the kernel can run, stage by stage |
| **Workflow of a run** (`domain/runtime/service.py`, `agent_harness/agents/psop/runner`) | the token's phase, wait checkpoint, evidence ledger and decisions | execute a node, validate and merge an observation, resolve its transition, speak, wait, report the status | the kernel's turns, with the runner agent in between | progress rests on evidence that was delivered and shown; the user is never left without an answer |
| **Runtime events** (`domain/runtime/events.py`) | notification queue, listener, event bus | publish, notify, listen, forward | hints after a commit; REST is authoritative | a browser gets an event once, gets all it could not read, and never an older status |
| **Terminal ingest and media** (`domain/runtime/ingest.py`, `media.py`, `api/routes/runtime.py`) | a semaphore, objects in the store, artifact rows, events | idempotent append with files; streaming of the content, conditional and by range | short transaction after the uploads; the loser of a race deletes its objects | no event without its objects, no object without an event; every place of the semaphore comes back |
| **Agent prompts** (`domain/agent_prompts`) | prompt definitions, versions, bindings | edit, publish, activate | read by the agent harness | a published version is not edited |
| **Agent harness** (`agent_harness`) | agent runs, events and artifacts, sandboxes, budgets | invoke an agent with middlewares, tools and deadline; submit a candidate; read it | called by kernel, compiler and skills inside a job | budgets and deadlines end every loop; what a caller takes was accepted by the checks, for this invocation |
| **Gateways, infrastructure, core** (`gateway`, `infra`, `core`) | none that lasts | model, speech, GitLab, object store calls; sessions; settings | timeouts and retries | their failures are outcomes of the callers' steps |
| **API, worker process, frontend, scripts** | none / browser state | routes, pages, start-up | call the services | |

What is hard in this system:

* an attempt of a job may outlive its lease: it is still inside a model call
  when the recovery loop gives the job to the next attempt;
* three independent things mark an attempt as alive (row lease, advisory lock,
  heartbeat thread), and each of them can fail on its own;
* handlers commit several times, and calls to GitLab are no part of any
  transaction: a crash can separate any two of these;
* API requests read rows without a lock and write them back: whatever the
  worker commits in between is overwritten;
* users append input, cancel, delete and retry while a job works;
* every wait of a run depends on somebody putting its job back into the queue.

## 2. Modules

| module | models | extended or used by |
|---|---|---|
| `JobLifecycle` | abstract: what the queue promises to the services | `JobQueue`, `RawMaterial`, `SkillSource` (refinement); `RuntimeKernel`, `CompilePublish` (in part, below) |
| `JobQueue` | rows, slots, locks, heartbeats, recovery loops | `MCJobQueue`, `JobQueue_proofs` |
| `RuntimeKernel` | one run, and its fork, with its job | `MCRuntimeKernel`, `RuntimeKernel_proofs` |
| `FormalV5` | the scaffold, normalisation and validation of execution graphs (operators only) | `WorkflowRun` |
| `RunnerObservation` | the checks on what the runner agent says (operators only) | `WorkflowRun` |
| `WorkflowRun` | from a list of workflow steps to the end of a run | `MCWorkflowRun` |
| `BuilderCandidate` | what the builder's candidate inherits, and its validation (operators only) | `AgentRun` |
| `AgentRun` | invocations of an agent, their rows, sandbox and caller | `MCAgentRun`, `AgentRun_proofs` |
| `SkillTestRun` | one scenario run with its two jobs and its run's status | `MCSkillTestRun`, `SkillTestRun_proofs` |
| `CompilePublish` | publishes and compile requests of a skill | `MCCompilePublish`, `CompilePublish_proofs` |
| `RawMaterial` | one material with its analyses | `Uploads_proofs`; run directly |
| `SkillSource` | the branch of a skill and those who write to it | `SkillSource_proofs`; run directly |
| `TerminalContent` | one response with the content of a part | `TerminalIngest` |
| `TerminalIngest` | requests that append a terminal event with files | `MCTerminalIngest`, `Uploads_proofs` |
| `RuntimeEvents` | envelopes between the commit and a browser | `RuntimeEvents_proofs`; run directly |

The three modules of operators are compositions' lower halves: `WorkflowRun` lets
the kernel's interpreter run whatever `FormalV5` builds and accepts, against
whatever `RunnerObservation` lets a runner say; `AgentRun` submits the candidates
that `BuilderCandidate` judges; `TerminalIngest` serves with `TerminalContent`
what it stored.

`JobQueue` models the queue at the grain of its transactions and lock calls.
The other modules use the queue through what `JobQueue` establishes: a claim
charges an attempt and gives an owner, a commit of an attempt that is no longer
the owner fails (`Owns`, the session fence), and an attempt that ends without a
result is repeated or, when attempts are used up, failed together with the
finalizer of its job type (`GiveUpAttempt`).  There, recovery of a lease is
enabled at any time, which allows more than the code does (the real recovery
waits for the lease to expire and for the lock).

### JobQueue and JobLifecycle

State: the columns of `runtime_job` (`status`, `worker_name`, `lease`, `due`,
`attempt_no`), the advisory locks (`holder`), each slot's program counter, job,
owner token and heartbeat, each recovery loop's position and what it listed.
`domain` is the part of the driven record that the job closes.  Actions are the
methods of `JobRepository`, `JobAdvisoryLock`, `JobLeaseHeartbeat`,
`RuntimeJobWorker` and `RuntimeJobWorkerSupervisor` between two commits, and the
failures: a process dies, the lock's connection dies, a lease expires.
A slot's handler is abstract: it ends the job, reschedules it, fails, or raises.
A heartbeat tick that is still in flight when `stop()` gives up joining is left
out (its update names the owner, so it can only touch its own row).
`JobLifecycle` has per job a phase, the attempt, the charged tries and whether
the record is closed; `JobQueue` instantiates it with `Phase`, and the property
`ImplementsLifecycle` is its specification.

Four of the modules that only use the queue map their jobs to `JobLifecycle` as
well, each saying what the job drives:

| module | the domain of a job is closed when | `JobLifecycle` holds of |
|---|---|---|
| `RawMaterial` | its analysis has a result | every behaviour (`AnalysesAreJobs`) |
| `SkillSource` | its generation has a result | every behaviour (`GenerationsAreJobs`) |
| `RuntimeKernel` | there is a job, and its run has ended | every step but a fork, which follows another run (`JobKeepsItsLife`) |
| `CompilePublish` | the job has ended and its request has a result | every step until a call of the retry endpoint, which takes a job that ended, beyond its budget (`CompilesAreJobs`) |

In `RawMaterial`, `SkillSource` and `CompilePublish` an attempt is told by its
job and its number: a slot that died may start another job while the row of the
first still names it, which a slot of `JobQueue` does under two owner tokens.  The jobs
of `SkillTestRun` are not mapped: `CancelCommits` ends the driver and the
finalizer job in one transaction, which is two steps of `JobLifecycle`.

### RuntimeKernel

State: run status, terminal session, terminal events, the token of the latest
snapshot (phase, wait checkpoint with its input window, evidence, cursor), the
job with `rerun_requested`, and per attempt of `process_run` its own copy of the
token.  The execution graph is a constant: nodes of five kinds and the moves
that decisions resolve to.  Actions: `append_terminal_event`, `cancel_run`,
claim, recovery, crash, and the steps of a turn between two commits (begin,
node outcomes, wait checkpoint, evaluation, finish, failure recovery); and
`fork_debug`, after which the module follows the fork, a new run that starts
with a prefix of the events and the token of a snapshot, whose cursor is moved
past all of them.  What was copied but not yet seen is `passed`: the fork never
delivers it.  Left out: the content of observations (in `WorkflowRun`), trace
events, capability bindings, notifications (in `RuntimeEvents`), `process_run`
without a lease; `invocation.status`, which follows the run; a repeated
`external_event_id`, which changes nothing (in `TerminalIngest`).  The terminal's
`latest_seq` and the token's cursor move together and are one field.  A run that
is cancelled before anything created its job has none afterwards.

### FormalV5, RunnerObservation and WorkflowRun

`FormalV5` follows the compiler's tool from raw workflow steps to ids, evidence
contract, nodes and edges, then the normalisation and each rule of the
validator.  Ids are sequences of words, so that the collisions of
`instruct_<step>` with other ids exist; texts are left out, since the scaffold
has a default for each.  `RunnerObservation` has the allowed decisions and the
checks on event references, results of requirements and freshness.

`WorkflowRun` submits a candidate (the scaffold, or one of the edits an agent
might make: another notation of guards and merges, a graph without edges or
without transitions, an abort terminal, a wrong resume phase, a missing
evaluation, a dead guard, a small budget), and then interprets the accepted
graph as `process_run` does, one node per step: enabled nodes and priorities,
wait checkpoints, deliveries, the runner's context with its pictures, every
observation the validator lets through, merges, the evidence ledger, transitions,
what is said to the user, recoverable failures and the step budget; the task
status is derived from the token.  One worker runs the turns: locks, leases and
retries are in `RuntimeKernel`.  References to parts of an event are references
to the event; a failed call of the runner is one of the two kinds the code tells
apart (an error, a timeout).

### BuilderCandidate and AgentRun

A candidate has its files, the headings of its `SKILL.md`, workflow steps, safety
constraints, expected evidence, evidence map, standards and reference assets.
`reconcile_builder_candidate` lets it inherit the sources of what it left
unchanged since the baseline (a section is unchanged when its title and text are,
whatever its level), and each rule of `validate_builder_candidate` is a
set of diagnostics.  `AgentRun` has the loop of an invocation: model calls under
the budget, tool calls with the error budget and the check for repeated
diagnostics, continuations while required artifacts or interactions are missing,
the events (live ones are rows of their own, unique by run and number), the two
transactions that persist the result, and the exceptions in each of them.  The
sandbox of a generation or a request is used again by the next invocation, and
nothing clears its outputs; the caller reads candidate and files in two steps.
Invocations follow a crash, an escaped exception, a repair round of the compiler,
or overlap when a worker loses its lease and does not know it (`overlaps`, a
bound: one of the builders).  Start and end of a call are one event.  The tool
calls of one message (`call`) run at once, as LangChain makes each of them in a
thread: their steps interleave, an exception of one waits for those under way
(`failed`), and those that have not begun may then be cancelled.  The error
counter and the last diagnostics are kept in the middleware's object and are read
and written without a lock, so a call may have read any value they had since the
message came (`seen`).  A submission writes the result and then the files, in two
steps; what overlapping writes of single files leave behind is taken as the files
of the candidate that was written last.  Invocations of the runner share
nothing, so one of them is modelled.  Left out: failures of an insert other than
a clash of numbers, memory, token usage, skills on
disk, the contents of reading tools, reference images and their refusal, headings
that are indented.

### SkillTestRun

State: the scenario run's row, its judgements, the driver and finalizer jobs,
the inputs that reached the run, the run's status (advanced by the environment,
as in `RuntimeKernel`), scenario time, the slots, and the requests that read,
cancel and re-evaluate.  A request's read and its commit are two steps, and
`Flush` writes the columns the session changed, as SQLAlchemy does; the
finalizer's transactions hold the job row's lock and are one step each.
`available_at` is left out: jobs may be claimed early, which allows more.
`Serves` are the pools of the slots, as in `JobQueue`; `Casts` says which slots
and requests take part in a behaviour.

### CompilePublish

State: publish calls, records, requests, artifacts, jobs, the latest version,
and handlers: attempts in slots, and calls of the retry endpoint, which run the
same code without lease or fence.  `process_compile_request` is cut at the
commits of its progress reports that matter: start, artifact, result; then
`_finalize_publish_job`.  Left out: version numbers, stages, diagnostics,
reference assets, `update_artifact`.  `Serves` is a bound: the requests that a
slot claims and a caller retries.

### RawMaterial

State: the upload call, the material's status, the analyses in the order of
their creation, their jobs, slots, and clients that ask for another analysis.
`UploadQueues` does not write the material's status: the session already holds
"processing".  Left out: what an analysis computes and stores, and the mode
without workers, in which requests run the job inline.  Its definitions carry
the material's name, because `Uploads_proofs` extends it beside `TerminalIngest`.

### SkillSource

State: the branch as the sequence of its commits (author, the base the head was
compared with, the commit whose files the content was made from), the draft's
commit, clients, generations, their jobs and attempts.  A call to GitLab is a step
of its own: resolving or comparing the head, reading files, committing, looking
whether the files are in the branch; only the three files of a source are read in
one step.  A source is read after its head is resolved (`get_skill_source`), a
single file before (`get_repository_file`), in both cases by the name of the
branch.  A lost answer leaves the commit in the branch and the attempt without it.
A candidate is taken to differ from what is in the branch unless an earlier
attempt of the same generation put it there; whether commits of clients touched
its files is left open, so both outcomes of the comparison are possible.

### TerminalContent and TerminalIngest

State: the run's session and events, the rows and objects of its files, the free
places of the semaphore, and per request its body, position, uploaded keys and
answer.  A request is cut at every `await`: admission, parsing, preflight,
inspection, one step per uploaded object, the transaction, the reload that
decides what to clean up, the deletions, the closing of the files.  A request may
be cancelled at any of these, the store and the database may fail, with or
without having done what they were asked, and the process may die.  Cancelling is
`task.cancel()`: an operation of the store is waited for
(`run_object_store_io`), a worker thread is not, so that a transaction goes on
without its request (`abandoned`, `AbandonedPersist`), which is then in its
cleanup; a cleanup that is cancelled ends (`CutOff`), or begins again if it was
that of a duplicate, inside the `try` of `_append`; a file that the web framework
keeps on disk (one above `SpoolSize`) is closed by a thread that is awaited
(`CloseFiles`).  `cut` remembers who was cancelled in a transaction or in a last
cleanup, for the properties.  The deletions are one step, which may stop after
any of them.  Left out: a second cancellation of a request while it waits for
the store operation that the first one interrupted, which would not be waited for
any more.  `TerminalContent` has one
response: conditional headers, the range and its limits, and the chunks until
the body is exhausted, closed by the client or cut short by the store.

### RuntimeEvents

State: what is committed (terminal events, trace events, snapshots of the task
status), the envelopes on their way through the producer's bounded queue, the
notification channel, the listener and the API's bus, and what the browser has
received on its connection.  The worker closes its sink when it stops, the
listener reconnects, a read after a notification may fail.  Payloads are left
out: an envelope is its type and number.

## 3. Runs

The properties are explained above their definitions; the distinct states are
those of the runs as configured.  A run checks safety and liveness of its
instance together.

| run | instance | shows |
|---|---|---|
| `queue` | 1 job, 2 slots, 1 recovery loop, 2 owner tokens, 2 attempts, 1 requeue (169 370) | exclusion of handlers, fencing of leases, refinement of `JobLifecycle`, every submitted job ends |
| `runtime` | graph with a checkpoint that may be opened again, 2 attempts, 2 events of users, 1 fork (275 524) | input windows, rests, snapshots; its job keeps the life of a job; input is delivered, turns come to rest |
| `skilltest` | 2 inputs, 1 expectation; 2 slots, or 1 slot and 1 request (543 867) | inputs, judgements and verdicts under crashes, late attempts and unlocked requests; a verdict follows the end of the run |
| `compile` | 1 publish, 1 manual request, 2 slots, 1 caller of the retry endpoint (224 650) | the latest version has its artifact, record, request and version agree, requests are settled |
| `material` | 3 analyses, 2 slots, 2 clients (33 011) | a material that waits has an attempt or a job that ends its wait; refinement of `JobLifecycle`; analyses are settled |
| `source` | 1 generation, 2 overlapping slots, 1 client (149 480) | success means the files are in the source; what is committed under a base was made from that base's files; refinement of `JobLifecycle`; generations are settled |
| `terminal` | 3 requests, 1 place, 1 fault, 1 cancellation (157 154) | events and objects agree and nothing is left behind, but for requests cancelled in the transaction or in the last cleanup; one event per external id; what is served is what was asked for; every request leaves, with its place unless it was stopped while closing its files |
| `events` | queue of 1, 1 turn, 1 input, 1 fault, 1 connection (1 232 996) | a browser gets an event once, gets all it could not read, and never an older status |
| `workflow` | 4 workflows, 11 edits, 2 inputs, 1 failed call of the runner (204 607) | accepted graphs run in the order of their stages, no rest is silent, progress rests on evidence |
| `agent` | builder, builder with overlap, compiler, each invoked twice, runner, builder and runner with two calls per message, and 153 revised candidates (346 085) | what a caller takes was checked, statuses are earned, timelines belong to the last invocation, every invocation ends |
| `skilltest_verdict`, `compile_record` | | section 4 |

Bounds, and why they are enough to show the interesting cases:

* two attempts per job: one that is cut off and one that repeats or exhausts it;
  the cut-off one may still be alive beside the second, hence two slots;
* one job in the queue's run: rows interact only through slots and owner tokens,
  which `claim_next_job` may use again; `MaxRounds`: one requeue after a job has
  finished reaches every status again;
* `MaxEvents` of `RuntimeKernel`: an input before and one inside a window.  Users
  stop there, the kernel's own outputs do not; `MaxSteps` lets a turn pass the
  checkpoint and come back to it, or run out of its budget; a fork of a fork adds
  nothing that a fork lacks, as the module follows one lineage;
* `Casts` of `SkillTestRun`: a slot that serves both jobs next to one that serves
  the driver, or the finalizer (their attempts overlap), or next to a request,
  which may be any of its kinds and makes one call; all at once only multiply
  what each of them shows.  Two inputs at different times are a first and a last
  one, with waiting in between; the expectation is judged before or after the end
  of the run;
* `Serves` of `CompilePublish`: both slots and the caller deal with the publish,
  the first slot also with the manual request.  Overlapping attempts and a retry
  that meets them are those of one request; requests share only slots;
* three analyses: a latest one, its predecessor and one to come.  One client
  asks for them (section 4 on two);
* one client of the source, which acts once: it commits before, between or after
  the calls of a generation;
* three requests with files: two that race for one external id, of which one may
  be a retry of the other, and a third that is well-formed, refused by the parser
  or refused by the inspection.  One place in the semaphore makes admission wait;
* a notification queue of size one is full as soon as one envelope waits;
* workflows of one and two steps, with step names that collide with each other or
  with ids of the scaffold, and evidence in both notations; every edit is
  one thing that the validator looks at;
* budgets of at most three model calls and tool calls: one that is refused, one
  that is repeated, one that is accepted.  The 153 revisions differ from an
  accepted baseline in one respect each, or in the sources they keep;
* two tool calls of one message (`MaxWidth`), of a runner and of a builder that
  has two acceptable and two refused proposals; these are not invoked again, and
  the others make one call at a time;
* `MaxEvents` of `AgentRun`: no invocation within its budgets records more.

`CHECK_DEADLOCK FALSE` is set because the modelled work is finite: when every
job, request or invocation has ended and the bounds are used up, nothing is left
to do.

Fairness.  Slots poll for ever, and a handler runs straight on: weak fairness
of the steps of an attempt (every external call of a handler has a timeout, and
failure is one of its outcomes).  Claims are ordered by availability, so a
waiting job is not passed over for ever: strong fairness of a job's claim in
`RawMaterial` and `SkillSource`, weak fairness of the one job's claim in
`RuntimeKernel`.  A supervisor's recovery loop runs for ever: weak fairness of
recovering a lease that nobody renews.  `SkillTestRun` and `CompilePublish` have
one weak fairness condition over all steps of workers: slots do not idle while
any of them has something to do, and as attempts are bounded no step is passed
over for ever.  In `JobQueue`, where lock and lease are separate, the loop's lock
attempts have strong fairness, since the lock may be taken and released in
between; leases that nobody renews expire and due times come; and it is assumed
that a healthy process does not lose its lease again and again between the claim
and its first heartbeat.  In `TerminalIngest` a request goes on (weak), and its
admission is strongly fair, since asyncio's semaphore serves its waiters in
order.  In `AgentRun` an invocation goes on (weak), since calls of a provider
have a timeout.  Clients, crashes, users, judges, cancellations and faults owe
nothing.  `RuntimeEvents` and `WorkflowRun` state safety only.

## 4. Findings

Two are runs with `"expect": "violation"`; `PROJECT.json` quotes the line that
says otherwise.

| run | the code |
|---|---|
| `skilltest_verdict` | a read of a scenario run writes its old status over the verdict; no job is left to repair it |
| `compile_record` | the last attempt dies between the request's result and the publish: the record stays `compiling` |

The actions also contain behaviour that a maintainer should know of and about
which no run states a property:

* `RuntimeKernel`: a checkpoint that opens with pending input moves the cursor
  over outputs that were not copied into the token
  (`_consume_pending_terminal_inputs_for_wait`); a fork copies input that its
  token has not seen, and never delivers it (`passed`), whereas the driver of a
  forked scenario counts it as sent (`_fork_timeline`);
* `WorkflowRun`: an abort through a plain terminal never writes its
  message (docs/engineering/agent-rules.md:51, system-architecture.md:421 say it
  does); when one delivery carries text and a photo, the photo is neither
  attached nor warned about (`domain/runtime/service.py:3788`, against
  psop-runner-agent-implementation-plan.md:561); a stage that waits can be shown
  completed, and `progress.completed` may go back; the step budget is per attempt;
  a guard `{"always": false}` is true (`domain/runtime/service.py:3184`);
* `FormalV5`: step ids `final_verify` and `instruct_<other step>` make the
  scaffold fail its own validation; a decision `complete` of a stage's evaluation
  leads straight to the terminal (psop-compiler-agent-design.md:929 sends it to
  the final check); the validator looks neither at the reachability of a guard
  nor for edges or transitions at all, nor at `max_steps`, nor whether an option's
  event kind fits its kind;
* `AgentRun`: a generation that is retried uses the sandbox again, so it may
  succeed without submitting anything, with the candidate of the attempt before
  (psop-builder-agent-design.md:394, agent-harness-mvp.md:269); the caller reads
  candidate and files in two steps, so with overlapping attempts the files may
  belong to another accepted candidate; two calls of `submit_candidate` in one
  message run at once (`agents/factory.py:20` does not forbid it), and when both
  write their result (`tools/builtin/builder.py:429`) before the first writes its
  files (430) the result of one candidate may stay next to the files of the other
  (`accept`, `_write_candidate_files`).  The caller reads the files by their names
  (`domain/skills/service.py:2253`) and does not notice, whereas `skill-draft/`
  should be made from the `files` of the result (psop-builder-agent-design.md:251).
  `TakenIsChecked` excepts these (`crossed`) and claims agreement for every other
  invocation that is alone in its sandbox; an exception while `agent.run.started` or
  `agent.run.failed` is recorded escapes to the caller;
* `BuilderCandidate`: indented stage headings pass the validation but are not
  found when the stages' texts are read (`schemas.py:389`);
* `RuntimeEvents`: the handler for a full queue reads `seq_no`, which a status
  event does not have, and raises (`domain/runtime/events.py:78`);
* `CompilePublish`: an attempt that dies after its artifact is committed is
  retried against the unique constraint and fails (`ArtifactEmitted`); a call of
  the retry endpoint can turn a worker's success into a failure
  (`process_compile_job_for_request`), and one that dies after it joined leaves
  the request running; a publish that dies before it creates its job leaves a
  record that nobody settles;
* `RawMaterial`: an analysis under way brings a deleted material back
  (`AnalysisEnds`); two clients can both start an analysis (`AnalyzeQueues`), and
  then a ready material may have an analysis that is still running;
* `TerminalIngest`: a request cancelled while its transaction runs goes to its
  cleanup at once (`domain/runtime/ingest.py:245`, 261); that finds no row and
  deletes the objects, and the thread then commits the event that refers to them
  (`AbandonedPersist`).  A request cancelled in its last cleanup leaves the
  objects it has not deleted yet, as the cleanup catches exceptions only
  (`domain/runtime/ingest.py:545`, 601; `CutOff`).  A cancellation or an error
  while the files are closed skips the release of the place
  (`api/routes/runtime.py:341`, 344; `CloseFiles`), and when no place is left
  uploads wait for ever.  The properties except these and nothing else;
* `SkillSource`: a save between the comparison of the head
  (`domain/skills/service.py:1630`) and the commit of a generation
  (`gateway/gitlab.py:545`, which names no parent) is replaced unseen
  (`HeadChecked`, `commit_repository_files`; against "GitLab head 与 base commit
  不一致，视为 source conflict，不提交", psop-builder-agent-design.md:410, and
  psop-builder-agent-design.md:263): `MadeFromItsBase` says what a commit was made
  from, not what it replaces; a saved file may be older than the base it was saved
  under (`get_repository_file`); a retry takes its own commit for a conflict,
  so that the generation fails and its files stay (`SourceLoaded`); after a lost
  answer the generation records the head, which may be somebody else's commit
  (`get_branch_head`);
* `JobQueue`: a heartbeat tick between a handler's last commit and
  `heartbeat.stop()` sets `hbLost`, and the completed attempt is logged as
  `lease_lost`.

## 5. Proofs

The theorems hold for every value of the constants that satisfies the named
assumptions of the modules: bounds are numbers and at least one attempt is
allowed; `None` is outside the other sets and the kinds of actors are disjoint
(in `SkillSource` a commit's author is a client or a generation, never both);
timelines and cutoffs are sequences of numbers; the graph of a run has its entry
among its nodes and a resume node for each instruction; a request body has files
only if it is multipart, as only a form carries any; an agent calls the model at
least once, only a builder proposes candidates, and what it revises was accepted
before.  None of them limits how many jobs, slots, requests, generations,
clients, events, turns, forks or invocations there are.

Each proof has the same shape: an inductive invariant, that `Init` implies it,
one lemma per action (or per group of actions that touch the same state) that a
step keeps it, and the properties as consequences.  Lemmas that need induction
over numbers (that a bounded set has a largest member and can be listed in
order, that scenario time has an end) take it from the least-number principle
for sets (`Least`), which follows from the library's well-foundedness of `<`.

* `JobQueue_proofs`.  `Invariance`: the inductive invariant `IInv` is `TypeOK`,
  `LeaseCoherent` (a lease exactly on a running row), `NotStranded`, `FailureClosesDomain`, `SlotCoherent` (whose token
  is on which row, which tokens are fresh) and `LockHeld` (a slot past the lock
  step, with a living connection, is its holder).  The first four are not
  inductive alone: that a late commit cannot touch a row needs to know that its
  owner token is on no other row, and that two handlers exclude each other needs
  the locks.  From it: `TypeCorrect`, `FenceAdmitsOneOwner`, `MutualExclusion`,
  `NothingStranded`, `ClosedIsFinal` and `LockPreventsRecovery` (action
  properties), and `Refinement`: every step of the queue is a step of
  `JobLifecycle` or a stutter.
* `RuntimeKernel_proofs`.  `KernelInvariance`: `KInv` has the types, `TokensGood`
  (the token of the run, and the copy each attempt works on, is well formed, its
  ledger increases and stays behind the cursor, and its wait checkpoint holds
  exactly the inputs of its window), `PassedFits` (a fork's copied inputs are
  behind its cursor), `LoopFits` (an attempt in the loop that may still write
  builds on the last snapshot: its ledger extends the recorded one), `Rested` and
  `EndedTogether`.  `EvidenceIsWindow` is not inductive alone: a token that an
  attempt carries for many steps is written back later, so every copy must be
  good, and the inputs that come while it is carried must not fall into a window
  that is already closed.  From it: `EvidenceIsRight`, `LedgerIsInOrder`,
  `RestIsEarned` (`NoStrandedRun`), `RunAndJobEndTogether` and, as an action
  property, `SnapshotsOnlyAdvance`.  `RunJobIsAJob`: between two forks a
  step of the run is a step of its job in `JobLifecycle` or none; from `KInv`,
  as an attempt that commits owns the job, and a run that ended has no job to
  start or to requeue.  They hold for every graph, so for every graph
  that `FormalV5` would accept.
* `SkillTestRun_proofs`.  `VerdictInvariance`: the row has no lock, so `VInv` says
  what every session holds.  `SlotFits`: the attempt that owns the driver job
  knows the cursor on record and counts only inputs that are in the run.
  `Honest`: no session's new row says "passed" where its old one did not, or
  "completed" before all inputs are sent; a stale commit can then lose a verdict
  (section 4) but never make one.  `CompletedIsSent`: a finalizer job exists only
  when the run has all inputs.  From it: `PassedMeansEarned`, `InputsComeInOrder`
  and the action property `JudgementsStand`, for every timeline.
* `CompilePublish_proofs`.  `CompileInvariance`: `TypeOK`, `Reports` (what a
  handler believes of its request), `Grounded` (a handler that is about to
  report success has its artifact) and `LatestIsRunnable`.  The last is not
  inductive alone, as `_finalize_publish_job` publishes on the strength of what
  the handler remembers.  From it: `CompileTypes`, `LatestAlwaysRunnable`.
  `AgreementInvariance` adds what `RecordAgrees` needs: `Begun` (only a publish
  that queued its request has anything else), `LatestStays`, `OwnerKnows` (until
  somebody retries, what the owner of a job remembers of its request is still so)
  and `PublishedIsFinal`.  From it: `RecordsAgree` and, with `Budgeted` (until
  somebody retries, jobs are within their budget, and one that exists has a
  request), `CompilesKeepLife`: the mapping to `JobLifecycle`, for any number of requests.
* `SkillSource_proofs`.  `SourceInvariance`: `ClientFits` (a source is not older
  than the head it came with, a file not newer, and what passed the comparison
  fits), `SavesFit` (so do the commits of clients), `AttemptFits` (an attempt
  resolved the commit its generation names and read files that are not older; once
  the head was compared again they are that commit's; what it takes to be committed
  is in the branch) and `GenerationFits` (the commits of a generation are made from
  the files of their base, and one of them is at or before the commit it recorded).
  That the branch only grows is why a head that compares equal means that nothing
  was committed between the two reads.  That a repeated attempt may finish on the
  strength of another one's commit is why the invariant speaks of the branch and
  not of the attempt.  From it: `SucceededHasItsFiles`, `MadeFromItsBaseHolds`.
  `GenerationsImplementLifecycle`
  needs one more invariant, `Together`: a generation is settled exactly
  when its job has ended, and a job that was not submitted was not attempted.
* `Uploads_proofs`, of the two ways a file comes in.  For a request with files,
  `IngestInvariance`: `UploadsFit` (what a request
  uploaded are its own keys, in order), `RowsFit` (rows have objects, appear with
  the transaction only, and are what the cleanup keeps, unless the request was
  cancelled in its transaction), `LeftoversKnown` (without faults an object without
  a row is known to a request under way, or was left by a cleanup that was cut off),
  `AnswerFits` and `LogFits` (one event per external id), `PlacesAddUp` (the free
  places, the uploads under way and the places kept by those stopped while they
  closed their files) and `ServedAsAsked`.  `NothingLeftBehind` speaks of the
  end only; `LeftoversKnown` says why it comes to that at every step between.
  From it: `FilesAreKept`, `IdempotentIngest`, `CleanupIsComplete`,
  `RangesAreRight`, `PlacesAlwaysAddUp`.
  For a material, `RawMaterialInvariance`: the types, `HasAnalysis` (an attempt
  works on an analysis that exists), `SettledTogether` and
  `ProcessingIsAttended`.  From it: `AnalysesSettleWithJobs`,
  `ProcessingAlwaysAttended` and, with `Fresh` (what has not been asked for has
  no job),
  `AnalysesImplementLifecycle`.
* `AgentRun_proofs`.  `AgentInvariance`: what an invocation returns depends on a
  sandbox that others have written to, so `IInv` follows the evidence.
  `Earned` and `RecordIsEarned`: an invocation that has what its agent requires
  has recorded it, and its status on record says no more than its events.
  `InHand`: only an invocation at its tools has calls under way.
  `Submitted` and `DraftFollows`: the candidate in a sandbox is one that was
  accepted, and its files are those in the sandbox, or those of the one submission
  that is still writing, unless submissions crossed.  `CallerHas`: a caller holds only what a sandbox held.
  `Ordered`, `Sole` and `Timeline`: invocations begin in their order; without
  overlap the one at work on a sandbox is the last of those that use it, and the
  events of the timeline are all its own.  From it: `StatusAlwaysEarned`, `TakenAlwaysChecked`,
  `TimelineAlwaysOfTheLast`, for any number of invocations, any budgets and any
  set of candidates.
* `RuntimeEvents_proofs`.  `EventsInvariance`: an event on its way is at one of six
  stages (the pending list and the queue of the worker, the channel, the pending
  list of the API, its bus, the browser).  `NoneLost`: without a fault no event is
  on the way twice (`Clean`), and each one committed since the connection is on it
  (`Carried`); `Committed`: nothing else is.  `ShownInOrder`: the statuses shown go
  forward and are not ahead of the committed one; `ApiTellsTheEnd`: the API itself
  announces only the status of a run that is over, so that it may overtake the
  worker's hints, which are read anew when they arrive.  Lemmas on sequences
  (`AppendHolds`, `TailHolds`, `ConcatHolds`) and on stages (`Joined`, `Dropped`)
  say what moving an event does.  From it: `EventsComeOnce`, `EventsAllArrive`,
  `StatusesOnlyAdvance`.

`IInv` of `JobQueue`, `ConsumedInOrder` and `EndedTogether` of `RuntimeKernel`,
`CompilesAreJobs`, `SettledTogether`, `PlacesAddUp` and the types of
`CompilePublish` and `RawMaterial` are proved and have no run of their own.

Only model-checked:

* all liveness (`EventuallyTerminal`, `InputIsDelivered`, `TurnComesToRest`,
  `VerdictFollowsRun`, `RequestSettles`, `AnalysisSettles`, `GenerationSettles`,
  `EveryRequestLeaves`, `EveryInvocationEnds`): fairness and ENABLED are out of the
  prover's reach;
* the properties of `WorkflowRun` (`ScaffoldRuns`, `StagesInOrder`,
  `EveryRestIsAnswered`, `ProgressIsBacked`): it interprets graphs that `FormalV5` builds with
  RECURSIVE operators, which the prover cannot use.  What they share with the
  kernel (evidence, ledger, rest) is proved there for every graph;
* that the operators of `FormalV5`, `RunnerObservation` and `BuilderCandidate`
  compute what they should on every input: induction over data.

## 6. Not modelled

`PROJECT.json` has each part and its reason.  In short:

* what models, judges and media tools compute, their prompts, and the agent's
  reading tools, memory and skills on disk: the modules take every answer they
  can give;
* text, layout, listing and progress views, configuration and telemetry;
* creating and deleting skills, reference images, editing scenarios and the
  copies a forked scenario makes, stages and diagnostics of a compilation;
* capability bindings and trace events of a run;
* the mode without workers, in which a request runs its job inline;
* agent prompts, which are planned below.

## 7. Plan

Done: `JobQueue` and `JobLifecycle` with the jobs of four services, `RuntimeKernel`
with forks, `SkillTestRun`, `CompilePublish`, `RawMaterial`, `SkillSource`,
`TerminalContent` and `TerminalIngest`, `RuntimeEvents`, `BuilderCandidate` and
`AgentRun`, all with proofs; `FormalV5`, `RunnerObservation` and `WorkflowRun`,
checked.

Next, in this order:

1. `AgentPrompts`: editing against publishing and activating.
2. One open scenario run per scenario; one version number per publish; the
   copies a forked scenario makes.
3. Capability bindings of a run.
4. The guards of `FormalV5` without RECURSIVE operators, so that the properties of
   `WorkflowRun` can be proved.
