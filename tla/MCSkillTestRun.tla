--------------------------- MODULE MCSkillTestRun ---------------------------
(***************************************************************************)
(* Timelines and casts for SkillTestRun: two inputs, the second one later  *)
(* than the first, and an expectation at the time of the second.  A slot   *)
(* that serves both jobs works next to one that serves the driver, next to *)
(* one that serves the finalizer, or next to an API request.               *)
(***************************************************************************)
EXTENDS SkillTestRun

CONSTANTS s1, s2, s3

MCInputAt == <<0, 1>>
MCExpectAt == <<1>>
MCServes == [s \in Slots |-> IF s = s2 THEN {"driver"} ELSE IF s = s3 THEN {"finalizer"} ELSE JobKinds]
SlotAndRequest == [slots |-> {s1}, requests |-> Requests]
MCCasts == {[slots |-> {s1, s}, requests |-> {}] : s \in {s2, s3}} \cup {SlotAndRequest}
JustOne == {SlotAndRequest}
=============================================================================
