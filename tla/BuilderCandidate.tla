--------------------------- MODULE BuilderCandidate ---------------------------
(***************************************************************************)
(* The candidate of the builder agent and what submit_candidate makes of   *)
(* it (backend/app/agent_harness/agents/psop/builder/schemas.py): it       *)
(* inherits the provenance of what it left unchanged since the baseline,   *)
(* the candidate that was committed as the current source, and is then     *)
(* validated.  A diagnostic is told by its code and its place.             *)
(*                                                                         *)
(* A candidate has                                                         *)
(*   files      the entries of files: path ("" if illegal) and text: full, *)
(*              empty or placeholder                                       *)
(*   headings   the headings of SKILL.md: level, stage_id ("" if none),    *)
(*              title and the text up to the next one.  They begin at the  *)
(*              beginning of their lines                                   *)
(*   steps      workflow_step_candidates: id, title                        *)
(*   safety     safety_constraints: id, stages ({} for all_stages), scope  *)
(*              and the rest of the object, what                           *)
(*   expected   expected_evidence_requirements: id, stage, what            *)
(*   evidence   evidence_map: supported (a source that can be verified)    *)
(*              and used, the targets of used_in                           *)
(*   standards  industry_standard_usage: used                              *)
(*   assets     selected_reference_assets: known (a candidate asset),      *)
(*              stages, inSkill and inDocs (its path is named there)       *)
(* and whether material_usage and review_notes have items, and whether a   *)
(* missing question is blocking.  A target is a pair of its type and id.   *)
(* The flaw of a candidate is malformed if it does not have these fields,  *)
(* and provenance if it brings a provenance of its own.                    *)
(***************************************************************************)
EXTENDS Integers, Sequences, SequencesExt

CONSTANT MAX_BUILDER_REFERENCE_ASSETS

REQUIRED_BUILDER_FILES ==
  {"README.md", "SKILL.md", "prompts/system.md", "references/README.md",
   "examples/input.md", "examples/expected-output.md", "tests/checklist.md"}
FORBIDDEN_BUILDER_FILES == {"skill.yaml"}

Fields == {"flaw", "files", "headings", "steps", "safety", "expected", "evidence", "standards", "assets",
           "materials", "notes", "blocking"}

\* What parse_builder_candidate makes sure of.
parse_builder_candidate(c) ==
  /\ Fields \subseteq DOMAIN c
  /\ \A s \in {c.headings, c.steps, c.safety, c.expected, c.evidence, c.standards} : s \in Seq(Range(s))
  /\ \A x \in Range(c.files) : x.text \in {"full", "empty", "placeholder"}
  /\ \A x \in Range(c.headings) : x.level \in Nat
  /\ \A x \in Range(c.safety) : x = [id |-> x.id, stages |-> x.stages, scope |-> x.scope, what |-> x.what]
  /\ \A x \in Range(c.expected) : x = [id |-> x.id, stage |-> x.stage, what |-> x.what]
  /\ \A x \in Range(c.evidence) : x = [supported |-> x.supported, used |-> x.used]

(***************************************************************************)
(* Targets and their values.                                               *)
(***************************************************************************)

Items(c, type) ==
  CASE type = "workflow_stage" -> c.steps
    [] type = "safety_constraint" -> c.safety
    [] type = "expected_evidence" -> c.expected

TargetTypes == {"workflow_stage", "safety_constraint", "expected_evidence"}
Ids(items) == {items[i].id : i \in DOMAIN items}
Targets(c) == UNION {{<<type, id>> : id \in Ids(Items(c, type))} : type \in TargetTypes}

\* A dict by id keeps the last item of an id.
Item(c, t) ==
  LET items == Items(c, t[1])
      at == {i \in DOMAIN items : items[i].id = t[2]}
  IN  items[CHOOSE i \in at : \A k \in at : k <= i]

\* The text below the heading of a stage, with the sections below its level;
\* the last heading of a stage counts.
_workflow_stage_bodies(headings, id) ==
  LET at == {i \in DOMAIN headings : headings[i].id = id}
  IN  IF at = {} THEN <<>>
      ELSE LET i == CHOOSE i \in at : \A k \in at : k <= i
               stops == {k \in DOMAIN headings : k > i /\ headings[k].level <= headings[i].level}
               end == IF stops = {} THEN Len(headings) + 1 ELSE CHOOSE k \in stops : \A l \in stops : k <= l
           IN  <<headings[i].text>> \o SubSeq(headings, i + 1, end - 1)

\* Mutant of business_value: the text of a stage does not count.
TitlesOnly(c, t) == [Item(c, t) EXCEPT !.id = ""]

\* What must be the same for a target to be unchanged.
business_value(c, t) ==
  IF t[1] = "workflow_stage"
  THEN <<Item(c, t).title, _workflow_stage_bodies(c.headings, t[2])>>
  ELSE [Item(c, t) EXCEPT !.id = ""]

(***************************************************************************)
(* reconcile_builder_candidate.                                            *)
(***************************************************************************)

Unchanged(c, b) ==
  {t \in Targets(c) \cap Targets(b) : business_value(c, t) = business_value(b, t)}

\* New names for what has not changed.
rename_diagnostics(c, b) ==
  {<<"stable_id_changed", t>> :
     t \in {t \in Targets(c) \ Targets(b) :
              \E u \in Targets(b) \ Targets(c) :
                u[1] = t[1] /\ business_value(c, t) = business_value(b, u)}}

UsedIn(items) == UNION {items[i].used : i \in DOMAIN items}

_evidence_item_has_supported_source(item) == item.supported
Supported(c) ==
  UNION {c.evidence[i].used : i \in {i \in DOMAIN c.evidence : _evidence_item_has_supported_source(c.evidence[i])}}

\* The items of the baseline, as far as they are about the targets of missing,
\* come after those of the candidate.  A gap between their places is of no
\* account: no diagnostic is about them.
Inherit(items, old, missing) ==
  [i \in DOMAIN items \cup {Len(items) + k : k \in {k \in DOMAIN old : old[k].used \cap missing # {}}} |->
     IF i \in DOMAIN items THEN items[i] ELSE [old[i - Len(items)] EXCEPT !.used = @ \cap missing]]

reconcile_builder_candidate(c, b) ==
  [c EXCEPT !.evidence = Inherit(@, b.evidence, Unchanged(c, b) \ Supported(c)),
            !.standards = Inherit(@, b.standards, Unchanged(c, b) \ UsedIn(c.standards))]

(***************************************************************************)
(* validate_builder_candidate: a set of diagnostics for each rule.         *)
(***************************************************************************)

When(condition, diagnostic) == IF condition THEN {diagnostic} ELSE {}

_validate_files(c) ==
  LET files == c.files
      repeats(i) == \E k \in 1..(i - 1) : files[k].path = files[i].path
      kept == {i \in DOMAIN files : files[i].path # "" /\ ~repeats(i)}
      full == {files[i].path : i \in {i \in kept : files[i].text # "empty"}}
  IN  IF files = <<>> THEN {<<"required", "files">>} ELSE
      (UNION {When(files[i].path = "", <<"invalid_path", i>>)
             \cup When(files[i].path # "" /\ repeats(i), <<"duplicate_path", i>>)
             \cup When(i \in kept /\ files[i].path \in FORBIDDEN_BUILDER_FILES, <<"forbidden_file", i>>)
             \cup When(i \in kept /\ files[i].text = "empty", <<"empty_file", i>>)
             \cup When(i \in kept /\ files[i].text = "placeholder", <<"placeholder_content", i>>)
             : i \in DOMAIN files})
      \cup {<<"missing_required_file", path>> : path \in REQUIRED_BUILDER_FILES \ full}

_validate_selected_reference_assets(c) ==
  When(c.assets = <<>>, <<"required", "selected_reference_assets">>)
  \cup When(Len(c.assets) > MAX_BUILDER_REFERENCE_ASSETS, <<"max_items", "selected_reference_assets">>)
  \cup {<<"unknown_reference_asset", i>> : i \in {i \in DOMAIN c.assets : ~c.assets[i].known}}

_validate_required_collections(c) ==
  When(~c.materials, <<"required", "material_usage">>)
  \cup When(DOMAIN c.evidence = {}, <<"required", "evidence_map">>)
  \cup {<<"required", type>> : type \in {type \in TargetTypes : Items(c, type) = <<>>}}

_validate_missing_questions(c) ==
  When(c.blocking /\ ~c.notes, <<"missing_blocking_review_note", "review_notes">>)

_duplicate_id_diagnostics(type, items) ==
  {<<"duplicate_id", type, i>> :
     i \in {i \in DOMAIN items : \E k \in 1..(i - 1) : items[k].id = items[i].id}}

_unknown_ids(field, i, ids, known) == {<<"unknown_stage_id", field, i, id>> : id \in ids \ known}

_validate_identifiers_and_references(c) ==
  LET stages == Ids(c.steps)
      known == Targets(c) \cup {<<"review_notes", "review_notes">>}
      unknown(field, items) ==
        {<<"unknown_evidence_target", field, i>> : i \in {i \in DOMAIN items : ~(items[i].used \subseteq known)}}
  IN  (UNION {_duplicate_id_diagnostics(type, Items(c, type)) : type \in TargetTypes})
      \cup (UNION {When(c.safety[i].scope = "all_stages" /\ c.safety[i].stages # {}, <<"invalid_scope_stage_ids", i>>)
                  \cup When(c.safety[i].scope = "selected_stages" /\ c.safety[i].stages = {}, <<"missing_stage_ids", i>>)
                  \cup _unknown_ids("safety", i, c.safety[i].stages, stages) : i \in DOMAIN c.safety})
      \cup (UNION {_unknown_ids("expected", i, {c.expected[i].stage}, stages) : i \in DOMAIN c.expected})
      \cup (UNION {_unknown_ids("assets", i, c.assets[i].stages, stages) : i \in DOMAIN c.assets})
      \cup unknown("evidence_map", c.evidence) \cup unknown("industry_standard_usage", c.standards)

_validate_workflow(c) ==
  UNION {LET titles == {c.headings[k].title : k \in {k \in DOMAIN c.headings : c.headings[k].id = c.steps[i].id}}
             times == {k \in DOMAIN c.headings : c.headings[k].id = c.steps[i].id}
         IN  When(times = {}, <<"workflow_not_in_skill", i>>)
             \cup When(\E k, l \in times : k # l, <<"duplicate_workflow_heading", i>>)
             \cup When(times # {} /\ c.steps[i].title \notin titles, <<"workflow_title_mismatch", i>>)
         : i \in DOMAIN c.steps}

_validate_evidence_coverage(c) ==
  {<<IF t \in UsedIn(c.evidence) THEN "unsupported_evidence_source_for_required_target"
                                 ELSE "missing_evidence_coverage", t>> : t \in Targets(c) \ Supported(c)}

_validate_reference_paths_used(c) ==
  UNION {When(~c.assets[i].inSkill, <<"reference_not_in_skill", i>>)
         \cup When(~c.assets[i].inSkill /\ ~c.assets[i].inDocs, <<"reference_not_in_docs", i>>)
         : i \in DOMAIN c.assets}

validate_builder_candidate(c) ==
  IF c.flaw = "malformed" THEN {<<"malformed">>} ELSE
  _validate_files(c) \cup _validate_selected_reference_assets(c) \cup _validate_required_collections(c)
  \cup _validate_missing_questions(c) \cup _validate_identifiers_and_references(c)
  \cup _validate_workflow(c) \cup _validate_evidence_coverage(c) \cup _validate_reference_paths_used(c)

(***************************************************************************)
(* The submission, against the baseline in bs (none, or one).              *)
(***************************************************************************)

Renamed(c, bs) == IF c.flaw = "malformed" THEN {} ELSE UNION {rename_diagnostics(c, b) : b \in bs}

Reconciled(c, bs) ==
  IF bs = {} \/ c.flaw = "malformed" THEN c ELSE reconcile_builder_candidate(c, CHOOSE b \in bs : TRUE)

Diagnostics(c, bs) ==
  CASE c.flaw = "provenance" -> {<<"platform_field_forbidden">>}
    [] c.flaw # "provenance" /\ Renamed(c, bs) # {} -> Renamed(c, bs)
    [] OTHER -> validate_builder_candidate(Reconciled(c, bs))
=============================================================================
