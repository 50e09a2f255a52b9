------------------------- MODULE RunnerObservation -------------------------
(***************************************************************************)
(* What the runner agent may say about a node, and what of it the Runtime  *)
(* believes (backend/app/agent_harness/agents/psop/runner/schemas.py).     *)
(* The same checks judge the tool call of the agent and, after it, the     *)
(* observation that process_run reads from the sandbox.                    *)
(*                                                                         *)
(* A context c is what the invocation gives the agent:                     *)
(*   c.requirements   the requirements of the open checkpoint              *)
(*   c.evidence       the inputs delivered to the checkpoint               *)
(*   c.latest         control.latest_evidence, 0 when there is none        *)
(*   c.events         seq -> the terminal event, for those it can see      *)
(*   c.cursor         metadata.terminal_cursor                             *)
(* An observation o has a decision and, for an evaluation, the events it   *)
(* evaluated and one result for each requirement.                          *)
(***************************************************************************)
EXTENDS Integers, Sequences, FiniteSets

RUNNER_DECISIONS == {"continue", "need_more_evidence", "retry", "abort", "complete"}
REQUIREMENT_RESULT_STATUSES == {"accepted", "rejected", "missing", "ambiguous", "not_applicable"}

runner_decision_to_runtime_decision(d) == IF d = "continue" THEN "proceed" ELSE d

NoOption == <<>>
NoResult == [status |-> "missing", refs |-> {}, by |-> NoOption]

Largest0(S) == IF S = {} THEN 0 ELSE CHOOSE x \in S : \A y \in S : y <= x
_terminal_cursor(c) == IF c.cursor > 0 THEN c.cursor ELSE Largest0(DOMAIN c.events)

\* The agent may only speak of events it was shown.
_validate_terminal_event_ref(c, s) == s \in DOMAIN c.events /\ s <= _terminal_cursor(c)

\* Whether event s is evidence of the kind that option o asks for.  A part of
\* a multimodal event stands for an event of its kind.
_event_ref_matches_option(c, s, o) ==
  LET event == c.events[s]
  IN  /\ s \in DOMAIN c.events
      /\ o.proof = "visual" => o.kind \in {"image", "video"}
      /\ o.proof = "attestation" => o.kind \in {"text", "audio"}
      /\ \/ event.kind = o.event
         \/ event.kind = "multimodal" /\ o.event = o.kind
      /\ o.kind \in event.parts

\* Mutant of _checkpoint_event_refs: everything the agent was shown.
AnyEventRefs(c) == DOMAIN c.events

_checkpoint_event_refs(c) == c.evidence \cup ({c.latest} \ {0})

_validate_checkpoint_event_refs(c, refs) ==
  _checkpoint_event_refs(c) # {} => refs \subseteq _checkpoint_event_refs(c)

\* An accepted requirement names the option that it is satisfied by, and one
\* of its events is of that kind.
_validate_satisfied_by(c, req, r) ==
  IF r.status = "accepted"
  THEN \E i \in DOMAIN req.options :
         /\ req.options[i].key = r.by
         /\ \E s \in r.refs : _event_ref_matches_option(c, s, req.options[i])
  ELSE r.by = NoOption

\* The checks of one result of _validate_requirement_results.
_validate_requirement_result(c, req, r) ==
  /\ \A s \in r.refs : _validate_terminal_event_ref(c, s)
  /\ r.status = "accepted" => r.refs # {}
  /\ r.status = "not_applicable" => ~req.required /\ r.refs = {} /\ r.by = NoOption
  /\ _validate_satisfied_by(c, req, r)
  /\ _validate_checkpoint_event_refs(c, r.refs)

\* The required requirements that the results leave open.
Unresolved(c, results) ==
  {i \in DOMAIN c.requirements : c.requirements[i].required /\ results[i].status # "accepted"}

\* Every requirement of the checkpoint has one result; to continue, each of
\* the required ones is accepted.
_validate_requirement_results(c, d, results) ==
  /\ DOMAIN results = DOMAIN c.requirements
  /\ \A i \in DOMAIN results : _validate_requirement_result(c, c.requirements[i], results[i])
  /\ d = "continue" => Unresolved(c, results) = {}

\* The latest evidence was evaluated, and shows in the results when it is
\* evidence for any of the requirements.
_validate_latest_evidence_freshness(c, evaluated, results) ==
  c.latest # 0 =>
    /\ c.latest \in evaluated
    /\ LET refs == UNION {results[i].refs : i \in DOMAIN results}
           relevant == \E i \in DOMAIN c.requirements : \E j \in DOMAIN c.requirements[i].options :
                         _event_ref_matches_option(c, c.latest, c.requirements[i].options[j])
       IN  relevant /\ refs # {} => c.latest \in refs

\* An observation of an evaluation that the Runtime accepts.
validate_runner_observation(c, o) ==
  /\ o.decision \in RUNNER_DECISIONS
  /\ \A s \in o.evaluated : _validate_terminal_event_ref(c, s)
  /\ _validate_latest_evidence_freshness(c, o.evaluated, o.results)
  /\ _validate_requirement_results(c, o.decision, o.results)

\* _merge_evidence_progress_from_observation, for one requirement: what was
\* accepted stays accepted when it is not spoken of again.
MergedRequirement(old, r) ==
  IF old.status = "accepted" /\ r.status \in {"missing", "ambiguous"} THEN old
  ELSE [status |-> r.status, by |-> r.by,
        accepted |-> IF r.status = "accepted" THEN old.accepted \cup r.refs ELSE old.accepted]
=============================================================================
