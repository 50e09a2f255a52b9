------------------------------ MODULE AgentRun ------------------------------
(***************************************************************************)
(* One agent of PSOP at work: AgentHarnessService.invoke with its sandbox, *)
(* the loop of model and tool calls under the middlewares, the submit      *)
(* tools, the rows of the agent run, and the caller that takes the         *)
(* candidate (backend/app/agent_harness).                                  *)
(*                                                                         *)
(* An agent is given by what its agent.yaml, its RequiredArtifactContract  *)
(* and its caller say of it.  The invocations 1, 2, ... are of one         *)
(* generation, one compile request, or one run.  Builder and compiler      *)
(* name the sandbox after the generation or the request: the invocations   *)
(* after a crash, a lost lease or a failed compilation find it as it was   *)
(* left.  The runner gets a new one each time.  LangChain makes the calls  *)
(* of one message at once, each in a thread.                               *)
(***************************************************************************)
EXTENDS BuilderCandidate, FiniteSets

CONSTANTS
  Proposals,        \* the candidates a builder may come upon
  Agents,           \* the agents: [live, keepsId, overlaps, repairs, deadline, drafts,
                    \* required, calls, width, errors, offers, baseline]; overlaps and
                    \* width (the tool calls of a message) are bounds, offers is a set of
                    \* proposals, baseline has at most one
  MaxInvocations,   \* bound: invocations of one agent
  MaxContinuations, \* RequiredArtifactContract.max_continuations
  MaxWidth,         \* bound: tool calls of one message
  MaxEvents         \* bound: no invocation within its budgets records more

Tools == {"submit", "read"}

\* Only a builder proposes anything, and what it revises was accepted before.
ASSUME AgentAssumption ==
  /\ Proposals \in Seq(Range(Proposals)) \ {<<>>}
  /\ \A c \in Range(Proposals) : c.flaw \in {"malformed", "provenance"} \/ parse_builder_candidate(c)
  /\ \A a \in Agents :
       /\ ~a.drafts => a.offers = {}
       /\ \A b \in a.baseline : parse_builder_candidate(Proposals[b]) /\ _validate_workflow(Proposals[b]) = {}
       /\ {a.live, a.keepsId, a.overlaps, a.repairs, a.deadline, a.drafts} \subseteq BOOLEAN
       /\ a.offers \cup a.baseline \subseteq DOMAIN Proposals /\ Cardinality(a.baseline) \leq 1
       /\ a.required \subseteq Tools /\ a.calls \in Nat \ {0} /\ a.width \in 1..MaxWidth /\ a.errors \in Nat \ {0}
  /\ {MaxInvocations, MaxWidth, MaxEvents} \subseteq Nat \ {0} /\ MaxContinuations \in Nat

VARIABLES
  agent,     \* the agent of this behaviour
  inv,       \* the invocations
  call,      \* invocation -> the tool calls of the message it is at
  result,    \* id -> the candidate in outputs/ of the sandbox
  draft,     \* id -> the candidate whose files are in outputs/skill-draft
  log,       \* id -> the agent_event rows: <<seq_no, invocation>>
  record,    \* id -> agent_run.status
  arts,      \* id -> the candidate named by its agent_artifact rows
  overlap,   \* ids on which two invocations were at work at once
  caller,    \* invocation -> what its caller made of it
  taken      \* invocation -> the candidate it took, and the files
vars == <<agent, inv, call, result, draft, log, record, arts, overlap, caller, taken>>
sandbox == <<result, draft>>
callers == <<overlap, caller, taken>>

Invocations == 1..MaxInvocations
Calls == 1..MaxWidth
Nothing == [by |-> 0, n |-> 0, checked |-> FALSE, formal |-> FALSE]

\* acquire(agent_run_id or workspace_id), or a new uuid.
Id(i) == IF agent.keepsId THEN 1 ELSE i

\* seen has the values of errs and refused since the message came; failed says
\* that a call of the message raised; crossed is explained at accept.
New == [pc |-> "idle", seq |-> 0, calls |-> 0, conts |-> 0, errs |-> 0, refused |-> 0, seen |-> {},
        completed |-> {}, failed |-> FALSE, crossed |-> FALSE, status |-> "none"]

NoCall == [at |-> "none", tool |-> "none", mine |-> Nothing]

Init ==
  /\ agent \in Agents
  /\ inv = [i \in Invocations |-> New]
  /\ call = [i \in Invocations |-> [c \in Calls |-> NoCall]]
  /\ result = [i \in Invocations |-> Nothing] /\ draft = result
  /\ log = [i \in Invocations |-> {}] /\ record = [i \in Invocations |-> "none"]
  /\ arts = result
  /\ overlap = {}
  /\ caller = [i \in Invocations |-> "waits"]
  /\ taken = [i \in Invocations |-> [result |-> Nothing, files |-> Nothing]]

Numbers == 0..Len(Proposals)
Candidates == [by : 0..MaxInvocations, n : Numbers, checked : BOOLEAN, formal : BOOLEAN]
TypeOK ==
  /\ agent \in Agents
  /\ inv \in [Invocations ->
       [pc : {"idle", "starting", "model", "tools", "judge", "finish",
              "failing", "persist", "returned", "escaped", "dead"},
        seq : 0..MaxEvents, calls : Nat, conts : 0..MaxContinuations, errs : Nat,
        refused : Numbers, seen : SUBSET (Nat \X Numbers), completed : SUBSET Tools,
        failed : BOOLEAN, crossed : BOOLEAN, status : {"none", "succeeded", "incomplete", "error"}]]
  /\ call \in [Invocations -> [Calls ->
       [at : {"none", "handling", "writing", "written", "raised"}, tool : Tools \cup {"none"}, mine : Candidates]]]
  /\ {result, draft, arts} \subseteq [Invocations -> Candidates]
  /\ log \in [Invocations -> SUBSET ((1..MaxEvents) \X Invocations)]
  /\ record \in [Invocations -> {"none", "running", "succeeded", "failed"}]
  /\ overlap \subseteq Invocations
  /\ caller \in [Invocations -> {"waits", "reading", "taken", "rejected", "failed", "died"}]
  /\ taken \in [Invocations -> [result : Candidates, files : Candidates]]

AtWork(i) == inv[i].pc \notin {"idle", "returned", "escaped", "dead"}

(***************************************************************************)
(* Events.  A live event is inserted when it is recorded, in a transaction *)
(* of its own; (agent_run_id, seq_no) is unique, and every invocation      *)
(* counts from 1.  What is recorded at the beginning and at the end of a   *)
(* call is one event here.                                                 *)
(***************************************************************************)

Become(i, r) == inv' = [inv EXCEPT ![i] = r]

NextSeq(i) == IF inv[i].seq < MaxEvents THEN inv[i].seq + 1 ELSE MaxEvents

Clash(i) == agent.live /\ \E r \in log[Id(i)] : r[1] = inv[i].seq + 1 /\ r[2] # i

\* AgentEventWriter.record, after which the invocation is as in ok; when the
\* insert is refused it raises, and the invocation is as in clashed.
Record(i, ok, clashed) ==
  IF Clash(i)
  THEN Become(i, [clashed EXCEPT !.seq = NextSeq(i)]) /\ UNCHANGED log
  ELSE /\ Become(i, [ok EXCEPT !.seq = NextSeq(i)])
       /\ log' = IF agent.live THEN [log EXCEPT ![Id(i)] = @ \cup {<<NextSeq(i), i>>}] ELSE log

\* An exception in the try block of invoke.
Raised(r) == [r EXCEPT !.pc = "failing"]

\* The runner works against the deadline of its step, which may have passed
\* whenever it is looked at.
Raise(i) == Become(i, Raised(inv[i])) /\ UNCHANGED log
_check_deadline(i) == agent.deadline /\ Raise(i)

(***************************************************************************)
(* The start of an invocation.                                             *)
(***************************************************************************)

\* An earlier invocation gave way to another one: its worker died, or lost the
\* lease and does not know it; the harness itself raised, or the compiler asks
\* for a repair.  (The invocations of the runner have nothing in common: one is
\* enough.)
MayFollow(j) ==
  /\ agent.keepsId
  /\ \/ inv[j].pc \in {"dead", "escaped"} \/ caller[j] = "died"
     \/ agent.overlaps /\ AtWork(j)
     \/ agent.repairs /\ caller[j] \in {"failed", "rejected"}

\* Mutant of start_run: the rows of a former invocation stay.
KeepEvents(id) ==
  /\ record' = [record EXCEPT ![id] = "running"]
  /\ arts' = [arts EXCEPT ![id] = Nothing]
  /\ UNCHANGED log

\* The row of the run is new, or begins again without its events and artifacts.
start_run(id) ==
  /\ record' = [record EXCEPT ![id] = "running"]
  /\ arts' = [arts EXCEPT ![id] = Nothing]
  /\ log' = [log EXCEPT ![id] = {}]

\* acquire makes the directories, and leaves alone what is in them.
invoke(i) ==
  /\ inv[i].pc = "idle"
  /\ i # 1 => MayFollow(i - 1)
  /\ Become(i, [New EXCEPT !.pc = "starting"]) /\ UNCHANGED call
  /\ start_run(Id(i))
  /\ overlap' = IF \E j \in Invocations \ {i} : AtWork(j) /\ Id(j) = Id(i)
                THEN overlap \cup {Id(i)} ELSE overlap
  /\ UNCHANGED <<agent, sandbox, caller, taken>>

\* agent.run.started is recorded before the try block.
started(i) ==
  /\ inv[i].pc = "starting"
  /\ Record(i, [inv[i] EXCEPT !.pc = "model"], [inv[i] EXCEPT !.pc = "escaped"])
  /\ UNCHANGED sandbox

(***************************************************************************)
(* Model calls.                                                            *)
(***************************************************************************)

CountCall(r) == [r EXCEPT !.calls = @ + 1]

\* The calls of a message: s of the submit tool, and n - s of others.
Message(s, n) ==
  [c \in Calls |-> IF c > n THEN NoCall
                   ELSE [NoCall EXCEPT !.at = "handling", !.tool = IF c <= s THEN "submit" ELSE "read"]]

\* wrap_model_call.  The budget refuses it, it fails, or the model answers: with
\* calls of tools, or with words only.
model_call(i) ==
  LET counted == CountCall(inv[i])
  IN  /\ inv[i].pc = "model"
      /\ \/ _check_deadline(i) /\ UNCHANGED call
         \/ Record(i, Raised(counted), Raised(counted)) /\ UNCHANGED call
         \/ /\ counted.calls <= agent.calls
            /\ \/ Record(i, [counted EXCEPT !.pc = "judge"], Raised(counted)) /\ UNCHANGED call
               \/ \E n \in 1..agent.width : \E s \in 0..n :
                    /\ Record(i, [counted EXCEPT !.pc = "tools", !.seen = {<<counted.errs, counted.refused>>}],
                              Raised(counted))
                    /\ call' = IF Clash(i) THEN call ELSE [call EXCEPT ![i] = Message(s, n)]
      /\ UNCHANGED sandbox

(***************************************************************************)
(* Tool calls.                                                             *)
(***************************************************************************)

\* What is wrong with the proposal k, for each baseline it may meet.
Verdicts ==
  {[of |-> s, is |-> Diagnostics(Proposals[s[1]], {Proposals[b] : b \in s[2]})] :
     s \in UNION {a.offers \X {a.baseline} : a \in Agents}}
Verdict(k) == (CHOOSE v \in Verdicts : v.of = <<k, agent.baseline>>).is

\* The proposal k is refused as the one before it was, which is f.
_check_repeated_builder_validation(k, f) == k # 0 /\ f # 0 /\ Verdict(k) = Verdict(f)

Others(i, c) == {d \in Calls \ {c} : call[i][d].at # "none"}

\* The row r after the call c: the model is asked again after the last call of
\* the message; an exception waits for the calls that are under way.
Ended(i, c, r, raises) ==
  IF Others(i, c) # {} THEN [r EXCEPT !.failed = @ \/ raises]
  ELSE [r EXCEPT !.failed = FALSE, !.seen = {}, !.pc = IF r.failed \/ raises THEN "failing" ELSE "model"]

Ends(i, c) == call' = [call EXCEPT ![i][c] = NoCall]

\* The row after a tool gave res, if the counters were e and f when they were read.
Returned(i, c, res, k, e, f) ==
  LET submit == call[i][c].tool = "submit"
      errs == IF ~submit THEN inv[i].errs ELSE IF res = "ok" THEN 0 ELSE e + 1
      refused == IF k = 0 THEN inv[i].refused ELSE k
      done == [inv[i] EXCEPT !.completed = IF res = "raised" THEN @ ELSE @ \cup {call[i][c].tool},
                             !.errs = errs, !.refused = refused, !.seen = @ \cup {<<errs, refused>>}]
      over == submit /\ res # "ok" /\ errs >= agent.errors
  IN  Record(i, Ended(i, c, done, over \/ _check_repeated_builder_validation(k, f)), Ended(i, c, done, TRUE))

\* wrap_tool_call after the handler.  A tool that returns an error has been
\* completed all the same; one that raised has not.  Too many errors in a row
\* of the submit tool end the invocation, and for the builder the same
\* diagnostics twice; k is the proposal that was refused, or 0.  The calls of a
\* message read and write the counters without a lock: what one of them reads
\* may be any value since the message came.
Return(i, c, res, k) ==
  /\ Ends(i, c)
  /\ \/ res # "raised" /\ agent.deadline /\ Become(i, Ended(i, c, inv[i], TRUE)) /\ UNCHANGED log
     \/ \E s, t \in inv[i].seen : Returned(i, c, res, k, s[1], t[2])

\* Reading tools and the skills: they leave no files that count.
read(i, c) ==
  /\ call[i][c].at = "handling" /\ call[i][c].tool = "read"
  /\ \E res \in {"ok", "error", "raised"} : Return(i, c, res, 0)
  /\ UNCHANGED sandbox

\* After an exception the calls of the message that have not begun are cancelled.
cancelled(i, c) ==
  /\ call[i][c].at = "handling" /\ inv[i].failed
  /\ Ends(i, c) /\ Become(i, Ended(i, c, inv[i], FALSE))
  /\ UNCHANGED <<log, sandbox>>

\* The candidates of the other agents are only told apart from the one before.
Other(candidate, i) == IF candidate.by = i THEN 1 - candidate.n ELSE 1

\* A candidate with diagnostics is refused, and nothing is written.
refuse(i, c, k) == Return(i, c, "error", k) /\ UNCHANGED sandbox

Writing(i) == {c \in Calls : call[i][c].at = "writing"}

\* Any other one is written.  The submission crosses another one whose files are
\* still to be written (crossed, which the properties look at).
accept(i, c, n, formal) ==
  LET s == [by |-> i, n |-> n, checked |-> TRUE, formal |-> formal]
  IN  /\ result' = [result EXCEPT ![Id(i)] = s]
      /\ call' = [call EXCEPT ![i][c].at = "writing", ![i][c].mine = s]
      /\ Become(i, [inv[i] EXCEPT !.crossed = Writing(i) # {}])
      /\ UNCHANGED <<draft, log>>

\* The compiler also takes an artifact with errors: its validator is asked again
\* by the caller.
_submit_candidate(i, c) ==
  /\ call[i][c].at = "handling" /\ call[i][c].tool = "submit"
  /\ \/ \E k \in agent.offers : IF Verdict(k) # {} THEN refuse(i, c, k) ELSE accept(i, c, k, TRUE)
     \/ ~agent.drafts /\ refuse(i, c, 0)
     \/ /\ ~agent.drafts
        /\ \E formal \in IF agent.repairs THEN BOOLEAN ELSE {TRUE} :
             accept(i, c, Other(result[Id(i)], i), formal)

\* The files of the candidate follow it into the sandbox, and the events of
\* its artifacts; these may raise within the handler.
_write_candidate_files(i, c) ==
  /\ call[i][c].at = "writing"
  /\ draft' = IF agent.drafts THEN [draft EXCEPT ![Id(i)] = call[i][c].mine] ELSE draft
  /\ call' = [call EXCEPT ![i][c].at = IF Clash(i) THEN "raised" ELSE "written", ![i][c].mine = Nothing]
  /\ Record(i, inv[i], inv[i])
  /\ UNCHANGED result

submitted(i, c) ==
  /\ \/ call[i][c].at = "written" /\ Return(i, c, "ok", 0)
     \/ call[i][c].at = "raised" /\ Return(i, c, "raised", 0)
  /\ UNCHANGED sandbox

(***************************************************************************)
(* The end of an invocation.                                               *)
(***************************************************************************)

\* Mutant of _missing_required_interactions: those of a former invocation count.
MissedByAll(i) ==
  agent.required \ UNION {inv[j].completed : j \in {k \in Invocations : Id(k) = Id(i)}}

_missing_required_interactions(i) == agent.required \ inv[i].completed

\* The model is done: all that is required is there, or it is asked to go on.
judge(i) ==
  LET complete == result[Id(i)] # Nothing /\ _missing_required_interactions(i) = {}
      finish(status) == Become(i, [inv[i] EXCEPT !.pc = "finish", !.status = status]) /\ UNCHANGED log
  IN  /\ inv[i].pc = "judge"
      /\ \/ _check_deadline(i)
         \/ complete /\ finish("succeeded")
         \/ ~complete /\ inv[i].conts = MaxContinuations /\ finish("incomplete")
         \/ /\ ~complete /\ inv[i].conts < MaxContinuations
            /\ Record(i, [inv[i] EXCEPT !.pc = "model", !.conts = @ + 1], Raised(inv[i]))
      /\ UNCHANGED sandbox

run_completed(i) ==
  /\ inv[i].pc = "finish"
  /\ Record(i, [inv[i] EXCEPT !.pc = "persist"], Raised(inv[i]))
  /\ UNCHANGED sandbox

\* The handler of exceptions; one in it goes through to the caller.
run_failed(i) ==
  /\ inv[i].pc = "failing"
  /\ Record(i, [inv[i] EXCEPT !.pc = "persist", !.status = "error"], [inv[i] EXCEPT !.pc = "escaped"])
  /\ UNCHANGED sandbox

\* write_output and persist_result.  Events that were not live are written now.
_persist_result(i) ==
  /\ inv[i].pc = "persist"
  /\ record' = [record EXCEPT ![Id(i)] = IF inv[i].status = "succeeded" THEN "succeeded" ELSE "failed"]
  /\ arts' = [arts EXCEPT ![Id(i)] = IF inv[i].status = "error" THEN Nothing ELSE result[Id(i)]]
  /\ log' = IF agent.live THEN log ELSE [log EXCEPT ![Id(i)] = {<<n, i>> : n \in 1..inv[i].seq}]
  /\ Become(i, [New EXCEPT !.pc = "returned", !.seq = inv[i].seq, !.status = inv[i].status,
                           !.completed = inv[i].completed, !.crossed = inv[i].crossed])
  /\ UNCHANGED sandbox

\* Mutant of PersistFails: the handler also catches what it raises itself, and
\* begins its events again.
HandleAgain(i) ==
  /\ inv[i].pc = "persist" /\ Become(i, [Raised(inv[i]) EXCEPT !.seq = 0])
  /\ UNCHANGED <<log, record, arts, sandbox>>

\* The transaction fails, in the try block or in its handler.
PersistFails(i) ==
  /\ inv[i].pc = "persist"
  /\ Become(i, IF inv[i].status = "error" THEN [inv[i] EXCEPT !.pc = "escaped"] ELSE Raised(inv[i]))
  /\ UNCHANGED <<log, record, arts, sandbox>>

Work(i) ==
  \/ /\ \/ model_call(i)
        \/ \E c \in Calls :
             \/ read(i, c) \/ cancelled(i, c)
             \/ _submit_candidate(i, c) \/ _write_candidate_files(i, c) \/ submitted(i, c)
     /\ UNCHANGED <<record, arts>>
  \/ /\ started(i) \/ judge(i) \/ run_completed(i) \/ run_failed(i)
     /\ UNCHANGED <<call, record, arts>>
  \/ (_persist_result(i) \/ PersistFails(i)) /\ UNCHANGED call

Step(i) == Work(i) /\ UNCHANGED <<agent, callers>>

(***************************************************************************)
(* The caller, and what may happen to its worker.                          *)
(***************************************************************************)

\* A failed invocation fails the generation or the step, or is to be repaired.
InvocationFailed(i) ==
  /\ inv[i].pc = "returned" /\ inv[i].status # "succeeded" /\ caller[i] = "waits"
  /\ caller' = [caller EXCEPT ![i] = "failed"]
  /\ UNCHANGED <<agent, inv, call, sandbox, log, record, arts, overlap, taken>>

\* _read_builder_candidate_artifact, _read_harness_compiler_candidate,
\* _read_runner_observation_artifact: the file in the sandbox, as it is now.
ReadCandidate(i) ==
  /\ inv[i].pc = "returned" /\ inv[i].status = "succeeded" /\ caller[i] = "waits"
  /\ taken' = [taken EXCEPT ![i].result = result[Id(i)]]
  /\ caller' = [caller EXCEPT ![i] = CASE agent.drafts -> "reading"
                                       [] agent.repairs /\ ~result[Id(i)].formal -> "rejected"
                                       [] OTHER -> "taken"]
  /\ UNCHANGED <<agent, inv, call, sandbox, log, record, arts, overlap>>

\* The builder's files are read in a later transaction.  There may be none, and
\* those of another candidate may lack some that this one names.
_read_builder_materialized_draft_files(i) ==
  /\ caller[i] = "reading"
  /\ \/ /\ taken' = [taken EXCEPT ![i].files = IF draft[Id(i)] = Nothing THEN taken[i].result ELSE draft[Id(i)]]
        /\ caller' = [caller EXCEPT ![i] = "taken"]
     \/ /\ draft[Id(i)] \notin {Nothing, taken[i].result}
        /\ caller' = [caller EXCEPT ![i] = "failed"] /\ UNCHANGED taken
  /\ UNCHANGED <<agent, inv, call, sandbox, log, record, arts, overlap>>

\* The worker dies, in the harness or after it.
Crash(i) ==
  \/ /\ AtWork(i)
     /\ Become(i, [New EXCEPT !.pc = "dead"]) /\ call' = [call EXCEPT ![i] = [c \in Calls |-> NoCall]]
     /\ UNCHANGED <<agent, sandbox, log, record, arts, callers>>
  \/ /\ inv[i].pc = "returned" /\ caller[i] \in {"waits", "reading"}
     /\ caller' = [caller EXCEPT ![i] = "died"]
     /\ UNCHANGED <<agent, inv, call, sandbox, log, record, arts, overlap, taken>>

Next ==
  \E i \in Invocations :
    \/ invoke(i) \/ Step(i)
    \/ InvocationFailed(i) \/ ReadCandidate(i) \/ _read_builder_materialized_draft_files(i)
    \/ Crash(i)

Spec == Init /\ [][Next]_vars

\* The thread of an invocation goes on as long as its process lives: calls of
\* the provider have a timeout.
FairSpec == Spec /\ \A i \in Invocations : WF_vars(Step(i))

(***************************************************************************)
(* Properties.                                                             *)
(***************************************************************************)

\* i is the only invocation that ever used its sandbox.
Alone(i) == \A j \in Invocations \ {i} : Id(j) = Id(i) => inv[j].pc = "idle"

\* A stage as it is read: the title and text of its heading, and what is below
\* it, up to the next heading that is not of a lower level.
Stands(c, id) == {i \in DOMAIN c.headings : c.headings[i].id = id}
Below(c, i) ==
  {k \in DOMAIN c.headings : i < k /\ \A l \in i + 1..k : c.headings[l].level > c.headings[i].level}
Section(c, id) ==
  {<<c.headings[i].title, c.headings[i].text, {<<k - i, c.headings[k]>> : k \in Below(c, i)}>> : i \in Stands(c, id)}

Sourced(c, t) == \E i \in DOMAIN c.evidence : c.evidence[i].supported /\ t \in c.evidence[i].used

\* t is in c as it is in b.
SameIn(c, b, t) ==
  /\ t \in Targets(b)
  /\ IF t[1] = "workflow_stage"
     THEN Section(c, t[2]) = Section(b, t[2])
     ELSE \E x \in Range(Items(c, t[1])) \cap Range(Items(b, t[1])) : x.id = t[2]

\* The files are there, the references lead somewhere, and each target has a
\* source, or had one in the baseline and is what it was then.
SoundProposal(c, bs) ==
  /\ REQUIRED_BUILDER_FILES \subseteq {f.path : f \in {x \in Range(c.files) : x.text = "full"}}
  /\ \A x \in Range(c.safety) : x.stages \subseteq Ids(c.steps)
  /\ \A x \in Range(c.expected) : x.stage \in Ids(c.steps)
  /\ \A id \in Ids(c.steps) : \E h \in Range(c.headings) : h.id = id
  /\ \A t \in Targets(c) : Sourced(c, t) \/ \E b \in bs : Sourced(b, t) /\ SameIn(c, b, t)

\* What a caller takes was accepted by the submit tool (and by the validator,
\* for the compiler).  If no other invocation used the sandbox it was submitted
\* by this one, and the files are those of the same candidate, unless this one
\* wrote it between the result and the files of another submission of the same
\* message.  A draft is
\* sound: no target that changed since the baseline is without a source
\* (tools/builtin/builder.py _submit_candidate, builder/schemas.py
\* reconcile_builder_candidate, skills/service.py 1596-1612).
TakenIsChecked ==
  \A i \in Invocations : caller[i] = "taken" =>
    /\ taken[i].result.checked /\ taken[i].result.formal
    /\ agent.drafts => SoundProposal(Proposals[taken[i].result.n], {Proposals[b] : b \in agent.baseline})
    /\ Alone(i) => /\ taken[i].result.by = i
                   /\ agent.drafts /\ ~inv[i].crossed => taken[i].files = taken[i].result

\* The row of a run says succeeded only for an invocation that did itself all
\* it had to do, over a candidate that was accepted; and running only while one
\* is at work, or because one never got to the end (service.py invoke,
\* langchain_agent_executor.py invoke).
StatusIsEarned ==
  /\ TypeOK
  /\ \A id \in Invocations :
       LET of == {i \in Invocations : Id(i) = id}
       IN  /\ record[id] = "succeeded" =>
                /\ result[id].checked
                /\ \E i \in of : inv[i].status = "succeeded" /\ agent.required \subseteq inv[i].completed
           /\ record[id] = "running" => \E i \in of : AtWork(i) \/ inv[i].pc \in {"escaped", "dead"}

\* Where invocations follow one another, the timeline of the run is at any time
\* exactly what the last of them has recorded, and none of its inserts is
\* refused; without live events it is so at the end
\* (persistence/service.py start_run, service.py _live_event_sink).
TimelineIsOfTheLast ==
  \A i \in Invocations :
    (/\ inv[i].pc \notin {"idle", "dead"} /\ Id(i) \notin overlap
     /\ \A j \in Invocations : (Id(j) = Id(i) /\ j > i) => inv[j].pc = "idle")
    => log[Id(i)] = IF agent.live \/ inv[i].pc = "returned" THEN {<<n, i>> : n \in 1..inv[i].seq} ELSE {}

\* However the model answers, and whatever its tools return, an invocation
\* comes to an end (middlewares/model_events.py, tool_calls.py).
EveryInvocationEnds == \A i \in Invocations : AtWork(i) ~> ~AtWork(i)
=============================================================================
