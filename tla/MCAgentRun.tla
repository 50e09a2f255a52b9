---------------------------- MODULE MCAgentRun ----------------------------
(* The three agents, with small budgets; the builder also with a still smaller *)
(* one, and a worker that loses its lease and goes on; and builders that have  *)
(* one thing to propose after the baseline, the first proposal.                *)
EXTENDS AgentRun

Full(path) == [path |-> path, text |-> "full"]
Heading(level, id, title, text) == [level |-> level, id |-> id, title |-> title, text |-> text]
Stage(id) == <<"workflow_stage", id>>
MCTargets == {Stage("a"), Stage("b"), <<"safety_constraint", "s">>, <<"expected_evidence", "e">>}

First ==
  [flaw |-> "none", files |-> <<Full("README.md"), Full("SKILL.md"), Full("prompts/system.md"), Full("references/README.md"),
             Full("examples/input.md"), Full("examples/expected-output.md"), Full("tests/checklist.md")>>,
   headings |-> <<Heading(1, "", "skill", 0), Heading(2, "a", "A", 1), Heading(3, "", "how", 1),
                  Heading(2, "b", "B", 1), Heading(2, "", "end", 1)>>,
   steps |-> <<[id |-> "a", title |-> "A"], [id |-> "b", title |-> "B"]>>,
   safety |-> <<[id |-> "s", stages |-> {"a"}, scope |-> "selected_stages", what |-> 1]>>,
   expected |-> <<[id |-> "e", stage |-> "b", what |-> 1]>>,
   evidence |-> <<[supported |-> TRUE, used |-> MCTargets]>>,
   standards |-> <<[used |-> {Stage("a")}]>>,
   assets |-> <<[known |-> TRUE, stages |-> {"a"}, inSkill |-> TRUE, inDocs |-> TRUE]>>,
   materials |-> TRUE, notes |-> TRUE, blocking |-> TRUE]

\* Changed texts, a new name, and sources for some of the targets.
Bit(n, k) == (n \div 2^k) % 2
Revised(n) ==
  LET id == IF Bit(n, 0) = 0 THEN "s" ELSE "t"
      safety == <<"safety_constraint", id>>
  IN  [First EXCEPT !.headings[2].text = 1 + Bit(n, 1), !.headings[3].text = 1 + Bit(n, 2),
                    !.headings[5].text = 2, !.safety[1].what = 1 + Bit(n, 3), !.safety[1].id = id,
                    !.evidence[1] = [supported |-> Bit(n, 4) = 0,
                                     used |-> (IF Bit(n, 5) = 0 THEN {} ELSE {Stage("a")})
                                              \cup (IF Bit(n, 6) = 0 THEN {} ELSE {safety})],
                    !.standards = <<>>]

Faulty ==
  <<[First EXCEPT !.flaw = "malformed"], [First EXCEPT !.flaw = "provenance"],
    [First EXCEPT !.files = <<>>], [First EXCEPT !.files[1].text = "empty"],
    [First EXCEPT !.files = Append(@, @[1])], [First EXCEPT !.files = Append(@, Full(""))],
    [First EXCEPT !.files = Append(@, Full("skill.yaml"))], [First EXCEPT !.files[1].text = "placeholder"],
    [First EXCEPT !.assets = <<>>], [First EXCEPT !.assets = @ \o @ \o @],
    [First EXCEPT !.assets[1].known = FALSE], [First EXCEPT !.assets[1].stages = {"c"}],
    [First EXCEPT !.assets[1].inSkill = FALSE],
    [First EXCEPT !.materials = FALSE], [First EXCEPT !.notes = FALSE],
    [First EXCEPT !.safety = @ \o @], [First EXCEPT !.safety[1].stages = {}],
    [First EXCEPT !.safety[1].stages = {"c"}], [First EXCEPT !.safety[1].scope = "all_stages"],
    [First EXCEPT !.expected[1].stage = "c"], [First EXCEPT !.standards[1].used = {Stage("c")}],
    [First EXCEPT !.steps[1].title = "B"], [First EXCEPT !.headings = SubSeq(@, 2, 3)],
    [First EXCEPT !.headings[4].id = "a"]>>

MCProposals == <<First>> \o Faulty \o [n \in 1..128 |-> Revised(n - 1)]

Builder == [live |-> TRUE, keepsId |-> TRUE, overlaps |-> FALSE, repairs |-> FALSE, deadline |-> FALSE,
            drafts |-> TRUE, required |-> {}, calls |-> 3, width |-> 1, errors |-> 3,
            offers |-> {1, 2, 3}, baseline |-> {}]
Compiler == [Builder EXCEPT !.repairs = TRUE, !.drafts = FALSE, !.required = Tools, !.errors = 2, !.offers = {}]
Runner == [Compiler EXCEPT !.live = FALSE, !.keepsId = FALSE, !.repairs = FALSE, !.deadline = TRUE,
                           !.required = {"submit"}]
LateBuilder == [Builder EXCEPT !.overlaps = TRUE, !.calls = 2, !.errors = 2, !.offers = {1}]
Revisers == {[Builder EXCEPT !.calls = 1, !.offers = {k}, !.baseline = {1}] : k \in DOMAIN MCProposals}
\* Calls at once: of a builder that has two things to propose which are accepted
\* after the first proposal, and two that are not, and is not invoked again; and
\* of the runner.
ParallelBuilder ==
  [Builder EXCEPT !.width = 2, !.calls = 2, !.offers = {1, 2, 3, 1 + Len(Faulty) + 35}, !.baseline = {1}, !.keepsId = FALSE]
ParallelRunner == [Runner EXCEPT !.width = 2, !.calls = 2]
MCAgents == {Builder, LateBuilder, ParallelBuilder, Compiler, Runner, ParallelRunner} \cup Revisers
=============================================================================
