--------------------------- MODULE MCWorkflowRun ---------------------------
(* Workflows of one and two steps for WorkflowRun. *)
EXTENDS WorkflowRun

RawOption(kind) == [key |-> <<>>, kind |-> kind, event |-> "", proof |-> ""]
RawRequirement(key, required, kinds) ==
  [key |-> key, required |-> required, options |-> [i \in DOMAIN kinds |-> RawOption(kinds[i])]]
Blank == [legacy |-> FALSE, items |-> <<>>]

\* Two steps with one name: a photo and, if the user likes, a word on it; then
\* another photo.
Twice ==
  <<[name |-> <<"wash">>,
     evidence |-> [legacy |-> FALSE,
                   items |-> <<RawRequirement(<<"photo">>, TRUE, <<"image">>),
                               RawRequirement(<<>>, FALSE, <<"text">>)>>]],
    [name |-> <<"wash">>, evidence |-> [legacy |-> FALSE, items |-> <<RawRequirement(<<>>, TRUE, <<"image">>)>>]]>>

\* A step with the name of a node of the scaffold, one with a reserved word,
\* and two alternatives written as a list.
Collides == <<[name |-> <<"final_verify">>, evidence |-> Blank]>>
Reserved == <<[name |-> <<"finish">>, evidence |-> Blank]>>
Ambiguous == <<[name |-> <<"wash">>, evidence |->
                  [legacy |-> TRUE, items |-> <<RawRequirement(<<"a">>, TRUE, <<"text">>),
                                                RawRequirement(<<"b">>, TRUE, <<"image">>)>>]]>>

MCWorkflows == {Twice, Collides, Reserved, Ambiguous}
MCEdits == {"scaffold", "other_notation", "unknown_operator", "unknown_field", "no_transitions", "no_edges", "abort_terminal", "wrong_resume",
            "no_evaluation", "dead_guard", "few_steps"}
MCInputEvents == {[kind |-> "text", parts |-> {"text"}], [kind |-> "multimodal", parts |-> {"image"}]}
MCStatuses == {"accepted", "rejected", "missing"}
=============================================================================
