---------------------------- MODULE WorkflowRun ----------------------------
(***************************************************************************)
(* A skill from the steps its author named to the end of a run: the        *)
(* candidate a compiler agent submits, the judgement of the validator, and *)
(* the turns in which process_run walks the accepted graph, opens the      *)
(* checkpoint of each step, keeps the ledger of its evidence and speaks to *)
(* the user (backend/app/domain/runtime/service.py).                       *)
(*                                                                         *)
(* The graph is data here: FormalV5 builds and judges it, and the actions  *)
(* below interpret whatever was accepted.  RunnerObservation says what the *)
(* runner may observe.  RuntimeKernel has the locks, leases and retries    *)
(* around the same turns; here one worker runs them.                       *)
(***************************************************************************)
EXTENDS FormalV5, RunnerObservation
LOCAL INSTANCE SequencesExt

CONSTANTS
  Workflows,    \* lists of raw steps that a compiler agent may extract
  Edits,        \* what it may do to the scaffold before it submits it
  InputEvents,  \* the terminal events a user may send: [kind, parts]
  Statuses,     \* the statuses of requirements the runner uses
  MaxInputs,    \* bound: inputs of the user
  MaxFailures   \* bound: calls of the runner that fail

ASSUME WorkflowAssumption ==
  /\ Statuses \subseteq REQUIREMENT_RESULT_STATUSES
  /\ MaxInputs \in Nat /\ MaxFailures \in Nat

VARIABLES
  candidate,   \* how the candidate was made: "none", or an edit
  art,         \* the artifact of the run
  runStatus,   \* run.status; "refused" when the validator refused the artifact
  cause,       \* why a run failed
  token,       \* the session token of the last snapshot
  log,         \* the terminal events of the run
  turn,        \* "idle", or "running" while process_run works
  steps,       \* nodes executed in this turn
  after,       \* turn_input_accept_after_seq
  due,         \* the runtime job is pending, or asked to run again
  shown,       \* the pictures an evaluation of the runner was shown
  warned,      \* and those it should have been shown, had they been readable
  failures     \* failed calls so far
vars == <<candidate, art, runStatus, cause, token, log, turn, steps, after, due,
          shown, warned, failures>>
pictures == <<shown, warned>>

Ended == {"succeeded", "failed", "aborted"}
NoArtifact == [nodes |-> <<>>, steps |-> <<>>]
NoWait == [step |-> NoId, accept |-> 0, resume |-> NoId, evidence |-> {}, status |-> "none"]
NoLedger == [step |-> NoId, requirements |-> <<>>]
NoNode == <<>>

\* The parts of the token that decide anything.  control.wait and
\* control.wait_checkpoints, control.evidence_progress (the ledger),
\* control.terminal_consumption, control.latest_evidence, and the decision of
\* each observation.
InitialToken ==
  [phase |-> start, status |-> "running", wait |-> NoWait, ledger |-> NoLedger,
   consumed |-> {}, cursor |-> 0, latest |-> 0, seen |-> {}, decisions |-> <<>>]

Init ==
  /\ candidate = "none" /\ art = NoArtifact /\ runStatus = "none" /\ cause = "none"
  /\ token = InitialToken /\ log = <<>> /\ turn = "idle" /\ steps = 0 /\ after = 0
  /\ due = FALSE /\ failures = 0 /\ shown = {} /\ warned = {}

(***************************************************************************)
(* The compiler agent.                                                     *)
(***************************************************************************)

EditNode(a, id, Change(_)) ==
  [a EXCEPT !.nodes = [i \in DOMAIN a.nodes |->
                         IF a.nodes[i].id = id THEN Change(a.nodes[i]) ELSE a.nodes[i]]]

\* The guards and merges of the scaffold in other notations.
OtherGuard(n) ==
  CASE n.turn = "first_step_instruction" ->
         [op |-> "eq", path |-> <<"token", "phase">>, value |-> n.id]
    [] n.turn = "step_instruction" ->
         [all |-> <<[phase_is |-> n.id], [op |-> "field_exists", path |-> <<"control", "wait">>]>>]
    [] n.turn = "evidence_evaluation" ->
         [op |-> "and", conditions |->
            <<[op |-> "phase_is", value |-> n.id],
              [op |-> "not", condition |-> [field_equals |-> [path |-> <<"token", "status">>, value |-> <<"waiting">>]]]>>]
    [] n.turn = "final_verification" ->
         [op |-> "any", conditions |-> <<[phase_is |-> n.id], [phase_is |-> <<"verify">>]>>]
    [] OTHER -> [phase_is |-> n.id, not |-> [op |-> "field_exists", path |-> <<"token", "facts">>]]

OtherMerge(merge) ==
  [i \in DOMAIN merge |-> [merge[i] EXCEPT !.op = IF i = 1 THEN "write" ELSE "assign",
                                           !.path = <<"token">> \o @]]

\* What an agent may hand in instead of the scaffold itself: other notations,
\* an operator that there is not, a field that the token does not have,
\* transitions left to the graph, or to a graph without edges, a terminal node
\* for abortions, a checkpoint that resumes at the wrong node, a step without
\* its evaluation, a guard that no phase meets, a budget of nodes that is too
\* small.
Edited(a, edit) ==
  LET first == a.steps[1]
  IN  CASE edit = "scaffold" -> a
        [] edit = "other_notation" ->
             [a EXCEPT !.nodes = [i \in DOMAIN @ |-> [@[i] EXCEPT !.guard = OtherGuard(a.nodes[i]),
                                                                 !.merge = OtherMerge(@)]]]
        [] edit = "unknown_operator" ->
             EditNode(a, terminal, LAMBDA n : [n EXCEPT !.guard = [op |-> "phase_in", value |-> n.id]])
        [] edit = "unknown_field" ->
             EditNode(a, terminal, LAMBDA n : [n EXCEPT !.merge = Append(@, Write(<<"token", "outcome">>, <<"success">>))])
        [] edit = "no_edges" ->
             EditNode([a EXCEPT !.graph = {}], evaluate_(first), LAMBDA n : [n EXCEPT !.transitions = <<>>])
        [] edit = "no_transitions" ->
             EditNode(a, evaluate_(first), LAMBDA n : [n EXCEPT !.transitions = <<>>])
        [] edit = "abort_terminal" ->
             EditNode([a EXCEPT !.nodes = Append(@, [Node(terminal_abort, "terminal", 50) EXCEPT
                                                       !.merge = <<Write(<<"status">>, <<"aborted">>),
                                                                   Write(<<"phase">>, <<"aborted">>)>>])],
                      evaluate_(first), LAMBDA n : [n EXCEPT !.transitions.abort = terminal_abort])
        [] edit = "wrong_resume" ->
             EditNode(a, instruct_(first), LAMBDA n : [n EXCEPT !.resume = <<"evaluation">>])
        [] edit = "no_evaluation" ->
             [a EXCEPT !.nodes = SelectSeq(@, LAMBDA n : n.id # evaluate_(first))]
        [] edit = "dead_guard" ->
             EditNode(a, final_verify, LAMBDA n : [n EXCEPT !.guard = [phase_is |-> <<"verify">>]])
        [] edit = "few_steps" -> [a EXCEPT !.max_steps = 2]

\* psop.compiler.submit_candidate and the compile that takes the candidate: an
\* artifact without errors gets a run, with its first turn due.
_submit_candidate(raws, edit) ==
  /\ candidate = "none" /\ Buildable(raws)
  /\ candidate' = edit
  /\ LET a == _normalize_candidate(Edited(_scaffold_artifact(_normalize_scaffold_steps(raws)), edit))
     IN  IF Diagnostics(a) = {}
         THEN art' = a /\ runStatus' = "waiting_runtime" /\ due' = TRUE
         ELSE runStatus' = "refused" /\ UNCHANGED <<art, due>>
  /\ UNCHANGED <<cause, token, log, turn, steps, after, pictures, failures>>

(***************************************************************************)
(* The graph, as the Runtime reads it.                                     *)
(***************************************************************************)

_transition_enters_aborted_terminal(a, m) ==
  /\ HasNode(a, m) /\ NodeOf(a, m).kind = "terminal"
  /\ \/ m = terminal_abort
     \/ Write(<<"status">>, <<"aborted">>) \in ToSet(NodeOf(a, m).merge)

_transition_enters_terminal(a, m) == HasNode(a, m) /\ NodeOf(a, m).kind = "terminal"

OnlyOne(S) == IF Cardinality(S) = 1 THEN CHOOSE m \in S : TRUE ELSE NoNode

\* Old graphs have no transitions: the edges of the view must do.
_transition_from_dependency_graph(a, n, d) ==
  LET targets == {m \in NodeIds(a) : <<n.id, m>> \in a.graph}
      aborted == {m \in targets : _transition_enters_aborted_terminal(a, m)}
      onward == targets \ aborted
      single(S) == IF OnlyOne(S) # NoNode THEN OnlyOne(S) ELSE OnlyOne(targets)
  IN  CASE d = "abort" /\ OnlyOne(aborted) # NoNode -> OnlyOne(aborted)
        [] d = "abort" /\ OnlyOne(aborted) = NoNode ->
             IF terminal \in targets THEN terminal ELSE OnlyOne(targets)
        [] d = "complete" -> IF terminal \in targets THEN terminal ELSE OnlyOne(onward)
        [] d = "proceed" -> single(onward \ {terminal})

_resolve_evaluation_transition(a, n, d) ==
  IF d \in DOMAIN n.transitions
  THEN IF HasNode(a, n.transitions[d]) THEN n.transitions[d] ELSE NoNode
  ELSE _transition_from_dependency_graph(a, n, d)

\* What a guard can ask of the token.
Held(t) ==
  (<<"phase">> :> t.phase) @@ (<<"status">> :> <<t.status>>) @@ (<<"control", "wait">> :> t.wait.step)

_enabled_nodes(a, t) == {n \in ToSet(a.nodes) : _evaluate_guard(n.guard, Held(t))}

\* Among the nodes whose guard holds, the one with the lowest priority number.
_select_node(enabled) == CHOOSE n \in enabled : \A m \in enabled : n.priority <= m.priority

_node_is_evaluation(n) == n.evaluation \/ (n.id # NoId /\ n.id[1] = "evaluate")

(***************************************************************************)
(* Terminal events and checkpoints.                                        *)
(***************************************************************************)

Output(n) == [dir |-> "output", kind |-> "output", parts |-> {"text"}, by |-> n]
runtime == <<"runtime">>
waiting == <<"waiting">>

ConsumedSeqs(t) == {p[1] : p \in t.consumed}

_can_consume_terminal_input_for_wait(t, s) ==
  log[s].dir = "input" /\ s > t.wait.accept /\ s \notin ConsumedSeqs(t)

\* The inputs from seq lo on that the open checkpoint takes.
Deliverable(t, lo) == {s \in lo..Len(log) : _can_consume_terminal_input_for_wait(t, s)}

\* They become its evidence, and the run resumes.
Deliver(t, q) ==
  IF q = {} THEN t
  ELSE [t EXCEPT !.consumed = @ \cup {<<s, t.wait.step>> : s \in q}, !.seen = @ \cup q,
                 !.wait.evidence = @ \cup q, !.wait.status = "received",
                 !.latest = Largest0(q), !.status = "running", !.phase = t.wait.resume]

_sync_terminal_events(t) ==
  IF t.status = "waiting"
  THEN Deliver([t EXCEPT !.cursor = Len(log), !.seen = @ \cup (t.cursor + 1..Len(log))],
               Deliverable(t, t.cursor + 1))
  ELSE t

_consume_pending_terminal_inputs_for_wait(t) ==
  LET q == Deliverable(t, t.wait.accept + 1)
  IN  Deliver([t EXCEPT !.cursor = Largest0({@} \cup q)], q)

_evidence_requirements_for_workflow_step(s) ==
  IF \E i \in DOMAIN art.steps : art.steps[i] = s
  THEN art.evidence[CHOOSE i \in DOMAIN art.steps : art.steps[i] = s] ELSE <<>>

_build_evidence_progress(s) ==
  [step |-> s,
   requirements |-> [i \in DOMAIN _evidence_requirements_for_workflow_step(s) |->
                       [status |-> "missing", by |-> NoOption, accepted |-> {}]]]

_evidence_progress_matches_wait(t) == t.ledger.step = t.wait.step

\* The first checkpoint of a run takes what came since the turn began, a later
\* one only what comes after it opens.
_wait_checkpoint_accept_after_seq(t) ==
  Largest0({after} \cup ConsumedSeqs(t)
           \cup IF t.wait.status = "none" THEN {} ELSE {t.cursor, Len(log)})

_enter_wait_checkpoint(t, n) ==
  [t EXCEPT !.wait = [step |-> n.step, accept |-> _wait_checkpoint_accept_after_seq(t),
                      resume |-> n.resume, evidence |-> {}, status |-> "waiting"],
            !.ledger = _build_evidence_progress(n.step),
            !.status = "waiting", !.phase = waiting]

(***************************************************************************)
(* One node: what the runner says, and what becomes of the token.          *)
(***************************************************************************)

_build_runner_context(t) ==
  [requirements |-> IF t.wait.status = "none" THEN <<>>
                    ELSE _evidence_requirements_for_workflow_step(t.wait.step),
   evidence |-> t.wait.evidence, latest |-> t.latest, cursor |-> t.cursor,
   events |-> [s \in t.seen |-> log[s]]]

\* The picture the author drew for the step, which stands beside the events.
ReferencePicture == 0

\* The pictures an evaluation is shown: those of the latest evidence and, beside
\* them, the one of the step.  An earlier picture is not shown again.
_build_runner_input_attachments(t, n) ==
  IF _node_is_evaluation(n) /\ t.latest # 0 /\ "image" \in log[t.latest].parts
  THEN {t.latest} \cup (IF n.turn = "evidence_evaluation" THEN {ReferencePicture} ELSE {})
  ELSE {}

\* The store may fail to give some of them: each one is a warning, and the
\* runner does without it.
Attach(attached, lost) ==
  /\ failures + Cardinality(lost) <= MaxFailures
  /\ failures' = failures + Cardinality(lost)
  /\ shown' = shown \cup (attached \ lost) /\ warned' = warned \cup lost

\* The results the runner can give for one requirement.  It speaks of one
\* input at a time, of the picture of the step, or of none.
Results(c, req) ==
  {r \in [status : Statuses,
          refs : {{}, {ReferencePicture}}
                 \cup {{s} : s \in {x \in DOMAIN c.events : c.events[x].dir = "input"}},
          by : {NoOption} \cup KeysOf(req.options)] :
     _validate_requirement_result(c, req, r)}

NothingObserved == [decision |-> "continue", evaluated |-> {}, results |-> <<>>]

\* What _execute_runner_agent_node may return: any observation of an
\* evaluation that is accepted.  Of other nodes only the message is used.
Observations(t, n) ==
  IF n.kind # "llm" \/ ~_node_is_evaluation(n) THEN {NothingObserved}
  ELSE LET c == _build_runner_context(t)
           choices == FoldLeft(LAMBDA fs, req : {Append(f, r) : f \in fs, r \in Results(c, req)},
                               {<<>>}, c.requirements)
       IN  {o \in [decision : RUNNER_DECISIONS, evaluated : {{}, {c.latest} \ {0}}, results : choices] :
              validate_runner_observation(c, o)}

\* One operation of a merge.  Of the observation, the token keeps the decision
\* of a node here, and its messages nowhere.
_set_path(t, op, n, d) ==
  CASE op.path = <<"phase">> -> [t EXCEPT !.phase = op.value]
    [] op.path = <<"status">> -> [t EXCEPT !.status = op.value[1]]
    [] op = KeepObservation(n.id) -> [t EXCEPT !.decisions = (n.id :> d) @@ @]
    [] OTHER -> t

Observed(t, n, d) ==
  IF n.id \in DOMAIN t.decisions THEN t ELSE [t EXCEPT !.decisions = (n.id :> d) @@ @]

\* Mutant of _merge_observation: the first observation of a node stays.
KeepFirstObservation(t, n, d) ==
  FoldLeft(LAMBDA u, op : _set_path(u, op, n, d), Observed(t, n, d),
           SelectSeq(n.merge, LAMBDA op : "value" \in DOMAIN op))

\* The merge of the node, in its order; an observation that none of its
\* operations kept is kept once.
_merge_observation(t, n, d) ==
  Observed(FoldLeft(LAMBDA u, op : _set_path(u, op, n, d), t, n.merge), n, d)

_merge_evidence_progress_from_observation(t, results) ==
  LET ledger == IF _evidence_progress_matches_wait(t) THEN t.ledger
                ELSE _build_evidence_progress(t.wait.step)
  IN  [t EXCEPT !.ledger =
         [ledger EXCEPT !.requirements =
            [i \in DOMAIN @ |-> IF i \in DOMAIN results THEN MergedRequirement(@[i], results[i]) ELSE @[i]]]]

\* A decision that leaves the checkpoint, and the node it leads to.
Moves(d) == d \in {"proceed", "complete", "abort"}

_should_suppress_evaluation_terminal_output(n, d, m) ==
  /\ _node_is_evaluation(n) /\ d \in {"complete", "abort"} /\ m # NoNode
  /\ _transition_enters_terminal(art, m)

\* Mutant of Speaks: an evaluation that asks for more says nothing.
SilentEvaluation(n, d, m, resumed) ==
  \/ n.kind = "terminal"
  \/ n.output /\ ~resumed /\ ~_should_suppress_evaluation_terminal_output(n, d, m)

\* Whether the node writes to the terminal.  There always is a message: at
\* worst the summary of the observation.
Speaks(n, d, m, resumed) ==
  \/ n.kind = "terminal"
  \/ /\ n.output \/ _node_is_evaluation(n)
     /\ ~resumed /\ ~_should_suppress_evaluation_terminal_output(n, d, m)

\* What the decision of an evaluation does to the token.
AfterEvaluation(t, d, m) ==
  IF ~Moves(d)
  THEN IF t.wait.status = "none" THEN t
       ELSE [t EXCEPT !.wait.status = "waiting", !.status = "waiting", !.phase = waiting]
  ELSE IF d = "abort" /\ ~_transition_enters_aborted_terminal(art, m)
       THEN [t EXCEPT !.status = "aborted", !.phase = <<"aborted">>]
       ELSE [t EXCEPT !.phase = m]

\* _apply_node_interaction after the merge: the next token.
_apply_node_interaction(t, n, o, d, m) ==
  LET told == IF _node_is_evaluation(n)
              THEN _merge_evidence_progress_from_observation(t, o.results) ELSE t
      waited == IF n.wait THEN _consume_pending_terminal_inputs_for_wait(_enter_wait_checkpoint(told, n))
                ELSE told
  IN  IF _node_is_evaluation(n) THEN AfterEvaluation(waited, d, m) ELSE waited

(***************************************************************************)
(* Turns.                                                                  *)
(***************************************************************************)

Unseen(t, l) == \E s \in t.cursor + 1..Len(l) : l[s].dir = "input"

\* _finish_runtime_job_turn with the run at rest or at its end.
Rest(status, t, l) ==
  /\ turn' = "idle" /\ runStatus' = status /\ token' = t /\ log' = l
  /\ due' = (status \notin Ended /\ (due \/ Unseen(t, l)))

_is_recoverable_terminal_turn_failure(t) == t.wait.status = "received" /\ t.latest # 0

\* The token goes back to its checkpoint; the cursor takes the message along
\* only when nothing came in between.
_recover_terminal_turn_token(t, s) ==
  LET u == [t EXCEPT !.wait.status = "waiting", !.status = "waiting", !.phase = waiting]
  IN  IF s = t.cursor + 1 THEN [u EXCEPT !.cursor = s, !.seen = @ \cup {s}] ELSE u

\* An exception in the loop, with token t: back to the checkpoint if an input
\* was being worked on, else the end of the run.  Both are told.
Raise(t, reason) ==
  LET l == Append(log, Output(runtime))
  IN  /\ cause' = reason
      /\ IF _is_recoverable_terminal_turn_failure(t)
         THEN Rest("waiting_input", _recover_terminal_turn_token(t, Len(l)), l)
         ELSE Rest("failed", t, l)
      /\ UNCHANGED <<candidate, art, steps, after>>

\* The attempt fails with nothing written: the job is tried again or, when it
\* has no attempt left (RuntimeKernel counts them), fails the run and says so.
AttemptFails(reason) ==
  /\ cause' = reason
  /\ \/ /\ failures < MaxFailures /\ failures' = failures + 1
        /\ turn' = "idle" /\ due' = TRUE /\ UNCHANGED <<runStatus, token, log>>
     \/ Rest("failed", token, Append(log, Output(runtime))) /\ UNCHANGED failures
  /\ UNCHANGED <<candidate, art, steps, after, pictures>>

\* It is raised between two nodes.  The recovery compares the last snapshot
\* with the one before the last node: after a node it gives the attempt up.
RaiseOwn(reason) ==
  IF _is_recoverable_terminal_turn_failure(token) /\ steps > 0
  THEN AttemptFails(reason)
  ELSE Raise(token, reason) /\ UNCHANGED <<pictures, failures>>

Open == runStatus \notin Ended \cup {"none", "refused"}

\* The user sends an input; the job is woken, or told to run again.
append_terminal_event(e) ==
  /\ Open /\ Cardinality({s \in DOMAIN log : log[s].dir = "input"}) < MaxInputs
  /\ log' = Append(log, [dir |-> "input", kind |-> e.kind, parts |-> e.parts, by |-> NoNode])
  /\ due' = TRUE
  /\ UNCHANGED <<candidate, art, runStatus, cause, token, turn, steps, after, pictures, failures>>

\* process_run begins: what came in goes to the open checkpoint.  A run that
\* still waits goes back to rest, without a new snapshot.
BeginTurn ==
  /\ Open /\ turn = "idle" /\ due
  /\ due' = FALSE /\ steps' = 0 /\ after' = token.cursor
  /\ LET t == _sync_terminal_events(token)
     IN  IF t.status = "waiting"
         THEN runStatus' = "waiting_input" /\ UNCHANGED <<token, turn>>
         ELSE runStatus' = "running" /\ token' = t /\ turn' = "running"
  /\ UNCHANGED <<candidate, art, cause, log, pictures, failures>>

\* The loop is at its top and goes on to the next node.
AtNode(n) ==
  /\ turn = "running" /\ steps < art.max_steps
  /\ token.status \notin {"success", "aborted"}
  /\ _enabled_nodes(art, token) # {}
  /\ n = _select_node(_enabled_nodes(art, token))

\* One node of the loop, from _execute_node to the commit of its snapshot.
ExecuteNode(n, o) ==
  LET d == runner_decision_to_runtime_decision(o.decision)
      m == IF _node_is_evaluation(n) /\ Moves(d) THEN _resolve_evaluation_transition(art, n, d) ELSE NoNode
      merged == _merge_observation(token, n, d)
      t == _apply_node_interaction(merged, n, o, d, m)
      resumed == n.wait /\ t.status = "running"
      l == IF Speaks(n, d, m, resumed) THEN Append(log, Output(n.id)) ELSE log
  IN  IF _node_is_evaluation(n) /\ Moves(d) /\ m = NoNode
      THEN Raise(merged, "transition")
      ELSE /\ steps' = steps + 1
           /\ IF t.status = "waiting"
              THEN Rest("waiting_input", t, l)
              ELSE token' = t /\ log' = l /\ UNCHANGED <<runStatus, turn, due>>
           /\ UNCHANGED <<candidate, art, cause, after>>

process_run_node ==
  \E n \in ToSet(art.nodes) :
    /\ AtNode(n)
    /\ LET attached == _build_runner_input_attachments(token, n)
       IN  \E lost \in SUBSET attached : Attach(attached, lost)
    /\ \E o \in Observations(token, n) : ExecuteNode(n, o)

\* The call of the runner fails, or its observation is never accepted.
RunnerFails ==
  /\ \E n \in ToSet(art.nodes) : AtNode(n) /\ n.kind = "llm"
  /\ failures < MaxFailures /\ failures' = failures + 1
  /\ Raise(token, "runner") /\ UNCHANGED pictures

\* The deadline passes where there is no checkpoint to go back to.
RunnerTimesOut ==
  /\ \E n \in ToSet(art.nodes) : AtNode(n) /\ n.kind = "llm"
  /\ ~_is_recoverable_terminal_turn_failure(token)
  /\ failures < MaxFailures /\ AttemptFails("runner")

\* The loop ends by a halt condition, or cannot go on.
Halt ==
  /\ turn = "running" /\ steps < art.max_steps /\ token.status \in {"success", "aborted"}
  /\ Rest(IF token.status = "success" THEN "succeeded" ELSE "aborted", token, log)
  /\ UNCHANGED <<candidate, art, cause, steps, after, pictures, failures>>

\* Runtime deadlock: no node is enabled.
NoNodeEnabled ==
  /\ turn = "running" /\ steps < art.max_steps /\ token.status \notin {"success", "aborted"}
  /\ _enabled_nodes(art, token) = {}
  /\ RaiseOwn("deadlock")

\* The loop counts nodes, not decisions: the last one may even have ended it.
TooManySteps ==
  /\ turn = "running" /\ steps = art.max_steps
  /\ RaiseOwn("max_steps")

Next ==
  \/ \E raws \in Workflows, edit \in Edits : _submit_candidate(raws, edit)
  \/ \E e \in InputEvents : append_terminal_event(e)
  \/ BeginTurn \/ process_run_node \/ RunnerFails \/ RunnerTimesOut
  \/ Halt \/ NoNodeEnabled \/ TooManySteps

Spec == Init /\ [][Next]_vars

(***************************************************************************)
(* What a user is told, and what holds.                                    *)
(***************************************************************************)

StepSet == ToSet(art.steps)
DecisionOf(id) == IF id \in DOMAIN token.decisions THEN token.decisions[id] ELSE "none"

\* _build_run_task_status_response: the stages that are shown as completed,
\* and the one the run waits in.
completed_ids == {s \in StepSet : DecisionOf(evaluate_(s)) \in {"proceed", "complete"}}
current_stage_id == IF token.status = "waiting" \/ runStatus = "waiting_input" THEN token.wait.step ELSE NoId

TypeOK ==
  /\ runStatus \in {"none", "refused", "waiting_runtime", "running", "waiting_input"} \cup Ended
  /\ turn \in {"idle", "running"} /\ due \in BOOLEAN /\ steps \in Nat /\ after \in 0..Len(log)
  /\ token.cursor \in 0..Len(log) /\ token.latest \in 0..Len(log)
  /\ token.seen \subseteq DOMAIN log /\ token.wait.evidence \subseteq token.seen
  /\ token.wait.status \in {"none", "waiting", "received"}
  /\ \A s \in DOMAIN log : log[s].dir \in {"input", "output"}

\* A graph that the validator accepted, with the edges, the budget and, in
\* whatever notation, the guards of the scaffold, never strands a run: every
\* decision finds a node to go to, every phase has one that answers to it, and
\* the loop ends in time (formal_v5.py validator, service.py process_run
\* 484-595).
ScaffoldRuns ==
  /\ TypeOK
  /\ candidate \notin {"no_edges", "dead_guard", "few_steps"} =>
       cause \notin {"transition", "deadlock", "max_steps"}

\* The stages advance in the order of the author: a step is instructed or
\* waited for only while every earlier step is shown as completed
\* (_scaffold_artifact, _build_run_task_status_response).
StagesInOrder ==
  \A i, j \in DOMAIN art.steps : i < j =>
    \/ art.steps[i] \in completed_ids
    \/ /\ art.steps[j] \notin completed_ids /\ art.steps[j] # current_stage_id
       /\ instruct_(art.steps[j]) \notin DOMAIN token.decisions

\* The runner has seen the picture of event q, or was told that it could not.
\* When another input came before it looked, only that one is shown.
Seen(t, s, q, looked) ==
  q \in looked \/ \E r \in DOMAIN log : r > q /\ <<r, s>> \in t.consumed

\* Requirement i of step s was accepted for an event that was delivered to the
\* checkpoint of s, of the kind of the option it names, and not unseen.
Backed(t, s, i, looked) ==
  LET req == _evidence_requirements_for_workflow_step(s)[i]
      c == [events |-> log]
  IN  /\ t.ledger.requirements[i].status = "accepted"
      /\ \E q \in t.ledger.requirements[i].accepted : \E j \in DOMAIN req.options :
           /\ <<q, s>> \in t.consumed
           /\ req.options[j].key = t.ledger.requirements[i].by
           /\ _event_ref_matches_option(c, q, req.options[j])
           /\ req.options[j].proof = "visual" => Seen(t, s, q, looked)

\* A run leaves the checkpoint of a step by proceed only with evidence: the
\* ledger then is the one of this step, and each of its required requirements
\* is backed (schemas.py _validate_requirement_results, service.py
\* _merge_evidence_progress_from_observation, _build_runner_input_attachments).
LeftWithEvidence ==
  \A s \in StepSet :
    (/\ token.phase = evaluate_(s) /\ turn' = "running" /\ token'.phase # evaluate_(s)
     /\ token'.decisions[evaluate_(s)] = "proceed")
    => /\ token'.ledger.step = s
       /\ \A i \in DOMAIN _evidence_requirements_for_workflow_step(s) :
            _evidence_requirements_for_workflow_step(s)[i].required =>
              Backed(token', s, i, shown' \cup warned')
ProgressIsBacked == [][LeftWithEvidence]_vars

\* At rest, the user has been answered: after the last input that a checkpoint
\* took there is an output.  A run that aborts through the plain terminal node
\* is left out: it ends without a word (_apply_node_interaction,
\* _append_runtime_step).
AnsweredAfter(q) == \E s \in DOMAIN log : s > q /\ log[s].dir = "output"
EveryRestIsAnswered ==
  turn = "idle" /\ ~due /\ runStatus # "aborted" =>
    \A q \in ConsumedSeqs(token) : AnsweredAfter(q)
=============================================================================
