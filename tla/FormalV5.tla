------------------------------ MODULE FormalV5 ------------------------------
(***************************************************************************)
(* The execution graphs of PSOP: the scaffold that turns the workflow      *)
(* steps of a skill into a formal-v5 artifact                              *)
(* (backend/app/agent_harness/tools/builtin/compiler.py) and the validator *)
(* that judges every artifact a compiler agent submits                     *)
(* (backend/app/domain/compiler/formal_v5.py).                             *)
(*                                                                         *)
(* An id is the sequence of its words, so that instruct_<step> of one step *)
(* may be the id of another one.  Texts (titles, goals, prompts) are left  *)
(* out: the scaffold has a default for each, and nothing depends on them.  *)
(***************************************************************************)
EXTENDS Integers, Sequences, FiniteSets, TLC
LOCAL INSTANCE SequencesExt

\* The words the scaffold keeps for nodes of its own.
SCAFFOLD_NODE_IDS ==
  {<<w>> : w \in {"start", "input", "llm", "tool", "terminal", "final",
                  "finalize", "finish", "end"}}

start == <<"start">>
final_verify == <<"final_verify">>
terminal == <<"terminal">>
terminal_abort == <<"terminal_abort">>
instruct_(step) == <<"instruct">> \o step
evaluate_(step) == <<"evaluate">> \o step
NoId == <<>>

Kinds == {"image", "text", "audio", "video"}

(***************************************************************************)
(* From raw workflow steps to the steps of the contract.                   *)
(***************************************************************************)

\* base, with the least number from 2 on that makes it new.
Fresh(base, used) ==
  IF base \notin used THEN base
  ELSE LET n == CHOOSE n \in 2..Cardinality(used) + 2 :
                  /\ Append(base, ToString(n)) \notin used
                  /\ \A m \in 2..n - 1 : Append(base, ToString(m)) \in used
       IN  Append(base, ToString(n))

_safe_step_id(raw, index, used) ==
  LET named == IF raw = NoId THEN <<"workflow", ToString(index)>> ELSE raw
      free == IF named \in SCAFFOLD_NODE_IDS THEN Append(named, "stage") ELSE named
  IN  Fresh(free, used)

_safe_evidence_key(raw, fallback, used) == Fresh(IF raw = NoId THEN fallback ELSE raw, used)

_event_kind_for_evidence(kind) == IF kind \in {"image", "audio", "video"} THEN "multimodal" ELSE "text"
_proof_mode_for_evidence(kind) == IF kind \in {"image", "video"} THEN "visual" ELSE "attestation"

\* An option of a requirement; what the author left blank has a default.
Option(raw, index, used) ==
  LET kind == IF raw.kind = "" THEN "text" ELSE raw.kind
  IN  [key |-> _safe_evidence_key(raw.key, <<kind, ToString(index)>>, used),
       kind |-> kind,
       event |-> IF raw.event = "" THEN _event_kind_for_evidence(kind) ELSE raw.event,
       proof |-> IF raw.proof = "" THEN _proof_mode_for_evidence(kind) ELSE raw.proof]

KeysOf(items) == {items[i].key : i \in DOMAIN items}

Options(raws) ==
  FoldLeft(LAMBDA done, raw : Append(done, Option(raw, Len(done) + 1, KeysOf(done))), <<>>, raws)

DefaultRequirement ==
  [key |-> <<"site_state">>, required |-> TRUE,
   options |-> <<[key |-> <<"image_1">>, kind |-> "image", event |-> "image", proof |-> "visual"],
                 [key |-> <<"text_2">>, kind |-> "text", event |-> "text", proof |-> "attestation"]>>]

\* A list of several items in the old form does not say whether they are
\* alternatives: the tool refuses it.
AmbiguousLegacyList(evidence) == evidence.legacy /\ Len(evidence.items) > 1

\* The requirements of a step.  One without options is dropped, and a step
\* left with none asks for a picture or a word about the site.
_normalize_expected_evidence(evidence) ==
  LET keyed == FoldLeft(LAMBDA done, raw :
                 Append(done, [key |-> _safe_evidence_key(raw.key, <<"evidence", ToString(Len(done) + 1)>>, KeysOf(done)),
                               required |-> raw.required,
                               options |-> Options(raw.options)]),
                 <<>>, evidence.items)
      kept == SelectSeq(keyed, LAMBDA r : r.options # <<>>)
  IN  IF kept = <<>> THEN <<DefaultRequirement>> ELSE kept

_expected_inputs_for_evidence_contract(requirements) ==
  UNION {{[kind |-> o.kind, event |-> o.event] : o \in ToSet(requirements[i].options)}
           : i \in DOMAIN requirements}

_normalize_scaffold_steps(raws) ==
  FoldLeft(LAMBDA done, raw :
             Append(done, [key |-> _safe_step_id(raw.name, Len(done) + 1, KeysOf(done)),
                           requirements |-> _normalize_expected_evidence(raw.evidence)]),
           <<>>, raws)

(***************************************************************************)
(* The scaffold.                                                           *)
(***************************************************************************)

\* The operations of a merge: a value written to a path of the token, and the
\* observation of a node, or a part of it, kept there.
Write(path, words) == [op |-> "set", path |-> path, value |-> words]
Keep(path, source) == [op |-> "set", path |-> path, from |-> source]
KeepObservation(id) == Keep(<<"observations">> \o id, <<"observation">>)

\* A node that does nothing yet.
Node(id, kind, priority) ==
  [id |-> id, kind |-> kind, guard |-> [phase_is |-> id], merge |-> <<>>, priority |-> priority,
   turn |-> "", evaluation |-> FALSE, output |-> FALSE, wait |-> FALSE, step |-> NoId,
   inputs |-> {}, resume |-> NoId, transitions |-> <<>>]

_start_node(first) ==
  [Node(start, "start", 10) EXCEPT
     !.merge = <<KeepObservation(start), Write(<<"phase">>, instruct_(first))>>]

_instruct_node(step, first) ==
  [Node(instruct_(step.key), "llm", 20) EXCEPT
     !.turn = IF first THEN "first_step_instruction" ELSE "step_instruction",
     !.output = TRUE, !.wait = TRUE, !.step = step.key,
     !.merge = <<KeepObservation(instruct_(step.key))>>,
     !.inputs = _expected_inputs_for_evidence_contract(step.requirements),
     !.resume = evaluate_(step.key)]

_evaluate_node(step, next_phase) ==
  [Node(evaluate_(step.key), "llm", 30) EXCEPT
     !.turn = "evidence_evaluation", !.evaluation = TRUE,
     !.merge = <<KeepObservation(evaluate_(step.key))>>,
     !.transitions = [proceed |-> next_phase, complete |-> terminal, abort |-> terminal]]

_final_verify_node ==
  [Node(final_verify, "llm", 40) EXCEPT
     !.turn = "final_verification", !.evaluation = TRUE,
     !.merge = <<KeepObservation(final_verify),
                 Keep(<<"outputs", "final_response">>, <<"observation", "terminal_message">>)>>,
     !.transitions = [proceed |-> terminal, complete |-> terminal, abort |-> terminal]]

_terminal_node ==
  [Node(terminal, "terminal", 50) EXCEPT
     !.merge = <<Keep(<<"outputs", "final_response">>, <<"observation", "final_response">>),
                 Write(<<"status">>, <<"success">>), Write(<<"phase">>, <<"completed">>)>>]

\* Where a step goes when its evidence is accepted.
NextPhase(steps, i) ==
  IF i < Len(steps) THEN instruct_(steps[i + 1].key) ELSE final_verify

_scaffold_artifact(steps) ==
  [entry |-> start,
   nodes |-> <<_start_node(steps[1].key)>>
             \o FlattenSeq([i \in DOMAIN steps |-> <<_instruct_node(steps[i], i = 1),
                                                     _evaluate_node(steps[i], NextPhase(steps, i))>>])
             \o <<_final_verify_node, _terminal_node>>,
   graph |-> {<<start, instruct_(steps[1].key)>>, <<final_verify, terminal>>}
             \cup {<<instruct_(steps[i].key), evaluate_(steps[i].key)>> : i \in DOMAIN steps}
             \cup {<<evaluate_(steps[i].key), NextPhase(steps, i)>> : i \in DOMAIN steps},
   max_steps |-> IF 2 * Len(steps) + 6 > 10 THEN 2 * Len(steps) + 6 ELSE 10,
   steps |-> [i \in DOMAIN steps |-> steps[i].key],
   evidence |-> [i \in DOMAIN steps |-> steps[i].requirements],
   checkpoints |-> {steps[i].key : i \in DOMAIN steps}]

\* psop.compiler.build_formal_v5_scaffold: refused without steps, or with an
\* ambiguous list of evidence.
Buildable(raws) == raws # <<>> /\ \A i \in DOMAIN raws : ~AmbiguousLegacyList(raws[i].evidence)

(***************************************************************************)
(* Guards and merges.  An author may write them in several notations; the  *)
(* validator brings them to one, and the Runtime evaluates that one.  A    *)
(* guard is a record of conditions that all hold; a path is the sequence   *)
(* of its fields.                                                          *)
(***************************************************************************)

DEFAULT_TOKEN_FIELDS ==
  {"phase", "input_envelope", "observations", "budgets", "outputs", "control", "metadata",
   "facts", "registers", "memory", "trace", "status"}

WithoutToken(path) == IF path[1] = "token" THEN Tail(path) ELSE path

\* The short names of an input, an answer and a result, as a merge writes them
\* or as a guard reads them.
_normalize_token_path(path, target) ==
  LET p == WithoutToken(path)
  IN  CASE Len(p) = 1 /\ p[1] \in {"user_input", "input", "input_text"} ->
             IF target THEN <<"observations", "input", "user_input">>
             ELSE <<"input_envelope", "user_input">>
        [] Len(p) = 1 /\ p[1] \in {"llm_response", "response", "answer"} ->
             <<"observations", "llm", "content">>
        [] Len(p) = 1 /\ p[1] \in {"final_response", "final"} -> <<"outputs", "final_response">>
        [] Len(p) = 1 /\ p[1] \in {"tool_result", "tool"} /\ target -> <<"observations", "tool">>
        [] OTHER -> p

\* A guard in the notation with an operator, or in the plain one with paths
\* that begin at the token.
RECURSIVE _normalize_guard_shape(_)
_normalize_guard_shape(g) ==
  LET Each(gs) == [i \in DOMAIN gs |-> _normalize_guard_shape(gs[i])]
      Equals(path, value) == [path |-> _normalize_token_path(path, FALSE), value |-> value]
  IN  IF "op" \in DOMAIN g
      THEN CASE g.op \in {"always", "true"} -> [always |-> TRUE]
             [] g.op = "phase_is" -> [phase_is |-> g.value]
             [] g.op = "field_exists" -> [field_exists |-> _normalize_token_path(g.path, FALSE)]
             [] g.op \in {"field_equals", "equals", "eq"} -> [field_equals |-> Equals(g.path, g.value)]
             [] g.op \in {"and", "all"} -> [all |-> Each(g.conditions)]
             [] g.op \in {"or", "any"} -> [any |-> Each(g.conditions)]
             [] g.op = "not" -> [not |-> _normalize_guard_shape(g.condition)]
             [] OTHER -> g
      ELSE [k \in DOMAIN g |->
              CASE k = "field_exists" -> _normalize_token_path(g[k], FALSE)
                [] k = "field_equals" -> Equals(g[k].path, g[k].value)
                [] k \in {"all", "any"} -> Each(g[k])
                [] k = "not" -> _normalize_guard_shape(g[k])
                [] OTHER -> g[k]]

_normalize_merge_shape(merge) ==
  [i \in DOMAIN merge |->
     [merge[i] EXCEPT !.op = IF @ \in {"assign", "write"} THEN "set" ELSE @,
                      !.path = _normalize_token_path(@, TRUE)]]

\* The artifact that is judged, and stored when nothing is wrong with it.
_normalize_candidate(art) ==
  [art EXCEPT !.nodes = [i \in DOMAIN @ |->
     [@[i] EXCEPT !.guard = _normalize_guard_shape(@), !.merge = _normalize_merge_shape(@)]]]

_validate_token_path(path) == path[1] \in DEFAULT_TOKEN_FIELDS

RECURSIVE _validate_guard(_)
_validate_guard(g) ==
  /\ DOMAIN g \subseteq {"always", "phase_is", "field_exists", "field_equals", "all", "any", "not"}
  /\ "field_exists" \in DOMAIN g => _validate_token_path(g.field_exists)
  /\ "field_equals" \in DOMAIN g => _validate_token_path(g.field_equals.path)
  /\ \A k \in DOMAIN g \cap {"all", "any"} : \A i \in DOMAIN g[k] : _validate_guard(g[k][i])
  /\ "not" \in DOMAIN g => _validate_guard(g.not)

\* Each operation sets a path of the token to a value or to a source.
_validate_merge(merge) ==
  \A i \in DOMAIN merge :
    /\ merge[i].op = "set" /\ _validate_token_path(merge[i].path)
    /\ "value" \in DOMAIN merge[i] <=> "from" \notin DOMAIN merge[i]

\* held gives what the token has at each of its paths that guards may ask for.
_get_path(held, path) == IF path \in DOMAIN held THEN held[path] ELSE <<>>

RECURSIVE _evaluate_guard(_, _)
_evaluate_guard(g, held) ==
  \/ "always" \in DOMAIN g /\ g.always
  \/ /\ "phase_is" \in DOMAIN g => _get_path(held, <<"phase">>) = g.phase_is
     /\ "field_exists" \in DOMAIN g => _get_path(held, g.field_exists) # <<>>
     /\ "field_equals" \in DOMAIN g => _get_path(held, g.field_equals.path) = g.field_equals.value
     /\ "all" \in DOMAIN g => \A i \in DOMAIN g.all : _evaluate_guard(g.all[i], held)
     /\ "any" \in DOMAIN g => \E i \in DOMAIN g.any : _evaluate_guard(g.any[i], held)
     /\ "not" \in DOMAIN g => ~_evaluate_guard(g.not, held)

(***************************************************************************)
(* The validator.  Each rule is a set of complaints.                       *)
(***************************************************************************)

SUPPORTED_NODE_KINDS == {"start", "input", "llm", "tool", "terminal"}

NodeIds(art) == {art.nodes[i].id : i \in DOMAIN art.nodes}
HasNode(art, id) == id \in NodeIds(art)
NodeOf(art, id) == art.nodes[CHOOSE i \in DOMAIN art.nodes : art.nodes[i].id = id]

Complain(text, broken) == IF broken THEN {text} ELSE {}

_validate_nodes(art) ==
  Complain("node ids", NoId \in NodeIds(art) \/ Cardinality(NodeIds(art)) < Len(art.nodes))
  \cup Complain("node kinds", \E n \in ToSet(art.nodes) : n.kind \notin SUPPORTED_NODE_KINDS)
  \cup Complain("guards", \E n \in ToSet(art.nodes) : ~_validate_guard(n.guard))
  \cup Complain("merges", \E n \in ToSet(art.nodes) : ~_validate_merge(n.merge))
  \cup Complain("no start", \A n \in ToSet(art.nodes) : n.kind # "start")
  \cup Complain("no terminal", \A n \in ToSet(art.nodes) : n.kind # "terminal")
  \cup Complain("entry node", ~HasNode(art, art.entry))

_validate_node_transitions(art) ==
  Complain("transition target",
           \E n \in ToSet(art.nodes) : \E d \in DOMAIN n.transitions : ~HasNode(art, n.transitions[d]))

_validate_workflow_contract(art) ==
  Complain("no workflow", art.steps = <<>>)
  \cup Complain("step ids", \/ NoId \in ToSet(art.steps)
                            \/ Cardinality(ToSet(art.steps)) < Len(art.steps)
                            \/ ToSet(art.steps) \cap SCAFFOLD_NODE_IDS # {})
  \cup Complain("nodes of a step", \E s \in ToSet(art.steps) :
                                     ~HasNode(art, instruct_(s)) \/ ~HasNode(art, evaluate_(s)))
  \cup Complain("wait checkpoints", ~(ToSet(art.steps) \subseteq art.checkpoints))

\* An option the runner could never match to a terminal event of its kind.
OptionRefused(o) ==
  \/ o.kind \notin Kinds
  \/ o.proof \notin {"visual", "attestation", "measurement"}
  \/ o.proof = "visual" /\ o.kind \notin {"image", "video"}
  \/ o.proof = "attestation" /\ o.kind \notin {"text", "audio"}

_validate_evidence_contract(art) ==
  Complain("requirements", \E i \in DOMAIN art.steps :
             \/ i \notin DOMAIN art.evidence \/ art.evidence[i] = <<>>
             \/ Cardinality(KeysOf(art.evidence[i])) < Len(art.evidence[i]))
  \cup Complain("options", \E i \in DOMAIN art.steps \cap DOMAIN art.evidence :
                  \E r \in ToSet(art.evidence[i]) :
                     \/ r.options = <<>> \/ Cardinality(KeysOf(r.options)) < Len(r.options)
                     \/ \E o \in ToSet(r.options) : OptionRefused(o))

\* What is wrong with the two nodes of the i-th step s.
StepNodesRefused(art, i) ==
  LET s == art.steps[i]
      instruct == NodeOf(art, instruct_(s))
      evaluate == NodeOf(art, evaluate_(s))
  IN  /\ HasNode(art, instruct_(s)) /\ HasNode(art, evaluate_(s))
      /\ \/ instruct.kind # "llm" \/ evaluate.kind # "llm"
         \/ instruct.turn # IF i = 1 THEN "first_step_instruction" ELSE "step_instruction"
         \/ ~instruct.output \/ ~instruct.wait \/ instruct.inputs = {}
         \/ instruct.resume # evaluate_(s)
         \/ ~evaluate.evaluation \/ evaluate.turn # "evidence_evaluation"
         \/ \E n \in {instruct, evaluate} : KeepObservation(n.id) \notin ToSet(n.merge)

\* Mutant of _validate_workflow_nodes: the two nodes of a step are not looked at.
WorkflowNodesUnchecked(art) ==
  Complain("final_verify", \/ ~HasNode(art, final_verify)
                           \/ NodeOf(art, final_verify).turn # "final_verification")

_validate_workflow_nodes(art) ==
  Complain("linear step", ToSet(art.steps) \cap NodeIds(art) # {})
  \cup Complain("final_verify", \/ ~HasNode(art, final_verify)
                                \/ NodeOf(art, final_verify).turn # "final_verification")
  \cup Complain("nodes of a step", \E i \in DOMAIN art.steps : StepNodesRefused(art, i))

\* What is wrong with an artifact that has been normalized.
Diagnostics(art) ==
  _validate_nodes(art) \cup _validate_node_transitions(art)
  \cup _validate_workflow_contract(art) \cup _validate_evidence_contract(art)
  \cup _validate_workflow_nodes(art)
=============================================================================
