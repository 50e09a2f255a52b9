------------------------- MODULE SkillSource_proofs -------------------------
(***************************************************************************)
(* Proofs about SkillSource, for every number of clients, generations,     *)
(* slots and attempts.                                                     *)
(***************************************************************************)
EXTENDS SkillSource, TLAPS

ClientRow(n) ==
  [pc : {"new", "reading", "loading", "loaded", "checked", "committed", "saved", "refused", "failed"},
   file : BOOLEAN, base : 0..n, content : 0..n, sha : 0..n]
GenerationRow(n) == [status : GenerationStatus, base : 0..n, sha : 0..n]
JobRow == [status : {"absent", "running"} \cup Claimable \cup TERMINAL_JOB_STATUSES,
           owner : Slots \cup {None}, charged : 0..MaxAttempts]
AttemptRow(n) ==
  [pc : {"idle", "claimed", "loading", "reading", "generating", "submitted", "checked", "unanswered",
         "matched", "committed"},
   of : Generations \cup {None}, read : 0..n, content : 0..n, sha : 0..n]

Commit == [by : Authors, base : Nat, content : Nat]

\* What is saved under a base: the whole source of it, or a file that is not newer.
FilesFit(file, base, content) == base # 0 => IF file THEN content <= base ELSE content = base

\* A client that has read knows a head: a whole source is not older than it, a
\* file not newer; what passed the comparison fits; who committed has a commit.
ClientFits(c) ==
  /\ client[c].pc = "new" => client[c].base = 0
  /\ client[c].pc = "reading" /\ ~client[c].file => client[c].base # 0
  /\ client[c].pc \in {"loading", "loaded"} =>
       /\ client[c].base # 0
       /\ IF client[c].file THEN client[c].content <= client[c].base ELSE client[c].base <= client[c].content
  /\ client[c].pc = "checked" => FilesFit(client[c].file, client[c].base, client[c].content)
  /\ client[c].pc = "committed" => client[c].sha # 0

\* The commits of a client fit what it opened.
SavesFit(c) ==
  \A i \in 1..Tip : branch[i].by = c =>
    client[c].pc # "new" /\ FilesFit(client[c].file, branch[i].base, branch[i].content)

\* A slot that works has a generation that was requested; while it has not
\* committed, the head it resolved is the commit a pinned generation names, and
\* the files it read are not older, and that head's once it was compared; and
\* what it takes to be committed is in the branch.
AttemptFits(s) ==
  /\ attempt[s].pc # "idle" =>
       attempt[s].of \in Generations /\ generation[attempt[s].of].status # "absent"
  /\ attempt[s].pc \in {"generating", "submitted", "checked"} =>
       generation[attempt[s].of].base \in {0, attempt[s].read} /\ attempt[s].read <= attempt[s].content
  /\ attempt[s].pc = "checked" => attempt[s].content = attempt[s].read
  /\ attempt[s].pc = "matched" => \E i \in 1..Tip : branch[i].by = attempt[s].of
  /\ attempt[s].pc = "committed" => \E i \in 1..Tip : branch[i].by = attempt[s].of /\ i <= attempt[s].sha

\* A generation has a job and commits only once it was requested, its commits
\* are made from the files of their base, which is what it is pinned to, and one
\* of them is at or before the commit it recorded.
GenerationFits(g) ==
  /\ generation[g].status = "absent" => job[g].status = "absent"
  /\ \A i \in 1..Tip : branch[i].by = g =>
       /\ generation[g].status # "absent"
       /\ branch[i].content = branch[i].base
       /\ generation[g].base \in {0, branch[i].base}
  /\ generation[g].status = "succeeded" => \E i \in 1..Tip : branch[i].by = g /\ i <= generation[g].sha

SInv ==
  /\ TypeOK
  /\ \A c \in Clients : ClientFits(c) /\ SavesFit(c)
  /\ \A s \in Slots : AttemptFits(s)
  /\ \A g \in Generations : GenerationFits(g)

\* What a row may refer to as the branch grows: a longer branch allows more.
LEMMA RowsGrow ==
  ASSUME NEW m \in Nat, NEW n \in Nat, m <= n
  PROVE  /\ ClientRow(m) \subseteq ClientRow(n)
         /\ GenerationRow(m) \subseteq GenerationRow(n)
         /\ AttemptRow(m) \subseteq AttemptRow(n)
BY DEF ClientRow, GenerationRow, AttemptRow

\* The type invariant in terms of the rows.
LEMMA RowTypes ==
  ASSUME TypeOK
  PROVE  /\ Tip \in Nat /\ Tip >= 1
         /\ branch \in Seq(Commit) /\ draft \in 1..Tip
         /\ client \in [Clients -> ClientRow(Tip)] /\ generation \in [Generations -> GenerationRow(Tip)]
         /\ job \in [Generations -> JobRow] /\ attempt \in [Slots -> AttemptRow(Tip)]
BY DEF TypeOK, Tip, Commit, ClientRow, GenerationRow, JobRow, AttemptRow

\* A push adds one commit and leaves the others where they are.
LEMMA PushAppends ==
  ASSUME TypeOK, NEW a \in Authors, NEW b \in Nat, NEW n \in Nat, Push(a, b, n)
  PROVE  /\ branch' \in Seq(Commit)
         /\ Tip \in Nat /\ Tip' = Tip + 1
         /\ branch'[Tip + 1] = [by |-> a, base |-> b, content |-> n]
         /\ \A i \in 1..Tip : branch'[i] = branch[i]
BY DEF TypeOK, Push, Tip, Commit

\* The commits of a branch, pushed to or not, are still where they were.
Kept ==
  /\ branch' \in Seq(Commit)
  /\ Tip \in Nat /\ Tip' \in Nat /\ Tip <= Tip'
  /\ \A i \in 1..Tip : branch'[i] = branch[i]

\* A client whose commits and reading stayed as they were.
LEMMA SavesStay ==
  ASSUME TypeOK, Kept, NEW c \in Clients, SavesFit(c), client'[c].file = client[c].file,
         client'[c].pc # "new", \A i \in 1..Tip' : i > Tip => branch'[i].by # c
  PROVE  SavesFit(c)'
BY DEF SavesFit, Kept

LEMMA OthersSave ==
  ASSUME TypeOK, Kept, NEW c \in Clients, SavesFit(c), client'[c] = client[c],
         \A i \in 1..Tip' : i > Tip => branch'[i].by # c
  PROVE  SavesFit(c)'
BY DEF SavesFit, Kept

\* A request touches only the branch, the draft and its own row.
Requested(c) ==
  /\ UNCHANGED <<generation, job, attempt>>
  /\ Kept
  /\ \A i \in 1..Tip' : i > Tip => branch'[i].by = c
  /\ draft' \in 1..Tip' /\ client' \in [Clients -> ClientRow(Tip')]
  /\ \A d \in Clients : ClientFits(d)' /\ SavesFit(d)'

\* A step of c that pushes nothing.
LEMMA QuietRequest ==
  ASSUME SInv, NEW c \in Clients, UNCHANGED <<branch, generation, job, attempt>>, draft' \in 1..Tip,
         NEW row \in ClientRow(Tip), client' = [client EXCEPT ![c] = row], ClientFits(c)',
         row.pc # "new", client[c].pc = "new" \/ row.file = client[c].file
  PROVE  Requested(c)
<1>1. Tip \in Nat /\ Tip >= 1 /\ client \in [Clients -> ClientRow(Tip)]
  BY RowTypes DEF SInv
<1>2. Tip' = Tip
  BY DEF Tip
<1>3. Kept /\ \A i \in 1..Tip' : ~ i > Tip
  BY <1>1, <1>2, RowTypes DEF SInv, Kept
<1>4. client' \in [Clients -> ClientRow(Tip)] /\ client'[c] = row /\ \A d \in Clients : d # c => client'[d] = client[d]
  BY <1>1
<1>5. ASSUME NEW d \in Clients PROVE ClientFits(d)' /\ SavesFit(d)'
  <2>1. CASE d # c
    BY <1>3, <1>4, <2>1, OthersSave DEF SInv, ClientFits
  <2>2. CASE d = c
    <3>1. CASE client[c].pc = "new"
      <4>1. \A i \in 1..Tip : branch[i].by # c
        BY <3>1 DEF SInv, SavesFit
      <4> QED BY <1>2, <2>2, <4>1 DEF SavesFit
    <3>2. CASE row.file = client[c].file
      BY <1>3, <1>4, <2>2, <3>2, SavesStay DEF SInv
    <3> QED BY <2>2, <3>1, <3>2
  <2> QED BY <2>1, <2>2
<1> QED BY <1>2, <1>3, <1>4, <1>5 DEF Requested

\* A push of c of files that fit.
LEMMA PushRequest ==
  ASSUME SInv, NEW c \in Clients, UNCHANGED <<draft, generation, job, attempt>>,
         NEW b \in Nat, NEW n \in Nat, Push(c, b, n), FilesFit(client[c].file, b, n),
         client' = [client EXCEPT ![c].pc = "committed", ![c].sha = Tip + 1]
  PROVE  Requested(c)
<1>1. Tip \in Nat /\ Tip >= 1 /\ client \in [Clients -> ClientRow(Tip)] /\ draft \in 1..Tip
  BY RowTypes DEF SInv
<1>2. /\ branch' \in Seq(Commit)
      /\ Tip' = Tip + 1 /\ branch'[Tip + 1] = [by |-> c, base |-> b, content |-> n]
      /\ \A i \in 1..Tip : branch'[i] = branch[i]
  BY PushAppends DEF Authors, SInv
<1>3. Kept /\ \A i \in 1..Tip' : i > Tip => i = Tip + 1 /\ branch'[i].by = c
  BY <1>1, <1>2 DEF Kept
<1>4. /\ client \in [Clients -> ClientRow(Tip + 1)]
      /\ \A d \in Clients : d # c => client'[d] = client[d]
      /\ client'[c] = [client[c] EXCEPT !.pc = "committed", !.sha = Tip + 1]
  BY <1>1, RowsGrow
<1>5. client'[c] \in ClientRow(Tip + 1) /\ client'[c].pc = "committed" /\ client'[c].sha = Tip + 1 /\ client'[c].file = client[c].file
  BY <1>1, <1>4 DEF ClientRow
<1>6. client' \in [Clients -> ClientRow(Tip + 1)]
  BY <1>4, <1>5
<1>7. ASSUME NEW d \in Clients PROVE ClientFits(d)' /\ SavesFit(d)'
  <2>1. CASE d # c
    BY <1>3, <1>4, <2>1, OthersSave DEF SInv, ClientFits
  <2>2. CASE d = c
    <3>1. ClientFits(c)'
      BY <1>1, <1>5 DEF ClientFits
    <3>2. SavesFit(c) BY DEF SInv
    <3>3. \A i \in 1..Tip' : i = Tip + 1 \/ (i \in 1..Tip /\ branch'[i] = branch[i])
      BY <1>1, <1>2
    <3>4. SavesFit(c)'
      BY <1>2, <1>5, <3>2, <3>3 DEF SavesFit
    <3> QED BY <2>2, <3>1, <3>4
  <2> QED BY <2>1, <2>2
<1> QED BY <1>1, <1>2, <1>3, <1>6, <1>7 DEF Requested

\* Requests of clients touch only the branch, the draft and themselves.
LEMMA RequestStep ==
  ASSUME SInv, NEW c \in Clients, Request(c)
  PROVE  Requested(c)
<1>1. /\ Tip \in Nat /\ Tip >= 1 /\ client \in [Clients -> ClientRow(Tip)] /\ draft \in 1..Tip
      /\ client[c] \in ClientRow(Tip) /\ ClientFits(c)
  BY RowTypes DEF SInv
<1>a. client[c] \in ClientRow(Tip) /\ Tip \in 0..Tip /\ client[c].file \in BOOLEAN
  BY <1>1 DEF ClientRow
<1>2. CASE get_skill_source(c)
  <2> DEFINE row == [client[c] EXCEPT !.pc = "reading", !.base = Tip]
  <2>1. row \in ClientRow(Tip) /\ row.pc = "reading" /\ row.base = Tip
    BY <1>a DEF ClientRow
  <2>2. client' = [client EXCEPT ![c] = row]
    BY <1>2 DEF get_skill_source
  <2>3. ClientFits(c)'
    BY <1>1, <2>1, <2>2 DEF ClientFits
  <2> QED BY <1>1, <1>2, <2>1, <2>2, <2>3, QuietRequest DEF get_skill_source
<1>3. CASE get_repository_file(c)
  <2> DEFINE row == [client[c] EXCEPT !.pc = "reading", !.file = TRUE, !.content = Tip]
  <2>1. row \in ClientRow(Tip) /\ row.pc = "reading" /\ row.file
    BY <1>a DEF ClientRow
  <2>2. client' = [client EXCEPT ![c] = row]
    BY <1>3 DEF get_repository_file
  <2>3. ClientFits(c)'
    BY <1>1, <2>1, <2>2 DEF ClientFits
  <2> QED BY <1>1, <1>3, <2>1, <2>2, <2>3, QuietRequest DEF get_repository_file
<1>4. CASE SourceRead(c)
  <2> DEFINE row == [client[c] EXCEPT !.pc = "loading",
                                     !.base = IF client[c].file THEN Tip ELSE @,
                                     !.content = IF client[c].file THEN @ ELSE Tip]
  <2>1. /\ row \in ClientRow(Tip) /\ row.pc = "loading" /\ row.file = client[c].file
        /\ client[c].file => row.base = Tip /\ row.content = client[c].content
        /\ ~client[c].file => row.content = Tip /\ row.base = client[c].base
    BY <1>a DEF ClientRow
  <2>2. client' = [client EXCEPT ![c] = row]
    BY <1>4 DEF SourceRead
  <2>3. ClientFits(c)'
    <3>1. client[c].content \in 0..Tip /\ client[c].base \in 0..Tip /\ client[c].pc = "reading" /\ client[c].file \in BOOLEAN
      BY <1>1, <1>4 DEF SourceRead, ClientRow
    <3>2. client'[c] = row
      BY <1>1, <2>2
    <3> HIDE DEF row
    <3> QED BY <1>1, <2>1, <3>1, <3>2 DEF ClientFits
  <2> QED BY <1>1, <1>4, <2>1, <2>2, <2>3, QuietRequest DEF SourceRead
<1>5. CASE DraftFollows(c)
  <2> DEFINE row == [client[c] EXCEPT !.pc = "loaded"]
  <2>1. /\ row \in ClientRow(Tip) /\ row.pc = "loaded" /\ row.file = client[c].file
        /\ row.base = client[c].base /\ row.content = client[c].content
    BY <1>a DEF ClientRow
  <2>2. client' = [client EXCEPT ![c] = row] /\ client[c].pc = "loading" /\ draft' = client[c].base
    BY <1>5 DEF DraftFollows
  <2>3. ClientFits(c)'
    BY <1>1, <2>1, <2>2 DEF ClientFits
  <2>4. draft' \in 1..Tip
    BY <1>1, <2>2 DEF ClientFits, ClientRow
  <2> QED BY <1>1, <1>5, <2>1, <2>2, <2>3, <2>4, QuietRequest DEF DraftFollows
<1>6. CASE save_skill_source(c)
  <2> DEFINE row == [client[c] EXCEPT !.pc = IF Tip = client[c].base THEN "checked" ELSE "refused"]
  <2>1. /\ row \in ClientRow(Tip) /\ row.file = client[c].file
        /\ row.pc = IF Tip = client[c].base THEN "checked" ELSE "refused"
        /\ row.base = client[c].base /\ row.content = client[c].content
    BY <1>a DEF ClientRow
  <2>2. client' = [client EXCEPT ![c] = row] /\ client[c].pc = "loaded"
    BY <1>6 DEF save_skill_source
  <2>3. ClientFits(c)'
    <3>1. client[c].content \in 0..Tip /\ client[c].base \in 0..Tip
      BY <1>1 DEF ClientRow
    <3>2. client'[c] = row
      BY <1>1, <2>2
    <3> HIDE DEF row
    <3> QED BY <1>1, <2>1, <2>2, <3>1, <3>2 DEF ClientFits, FilesFit
  <2>4. UNCHANGED <<branch, draft, generation, job, attempt>> /\ draft' \in 1..Tip /\ row.pc # "new"
    BY <1>1, <1>6, <2>1 DEF save_skill_source
  <2> HIDE DEF row
  <2> QED BY <2>1, <2>2, <2>3, <2>4, QuietRequest
<1>7. CASE update_skill_metadata(c)
  <2> DEFINE row == [client[c] EXCEPT !.pc = "checked", !.content = Tip]
  <2>1. row \in ClientRow(Tip) /\ row.pc = "checked" /\ row.base = client[c].base
    BY <1>a DEF ClientRow
  <2>2. client' = [client EXCEPT ![c] = row] /\ client[c].pc = "new"
    BY <1>7 DEF update_skill_metadata
  <2>3. ClientFits(c)'
    BY <1>1, <2>1, <2>2 DEF ClientFits, FilesFit
  <2> QED BY <1>1, <1>7, <2>1, <2>2, <2>3, QuietRequest DEF update_skill_metadata
<1>8. CASE SaveCommits(c)
  <2>1. /\ client[c].pc = "checked" /\ Push(c, client[c].base, client[c].content)
        /\ client' = [client EXCEPT ![c].pc = "committed", ![c].sha = Tip + 1]
        /\ UNCHANGED <<draft, generation, job, attempt>>
    BY <1>8 DEF SaveCommits
  <2>2. client[c].base \in Nat /\ client[c].content \in Nat /\ FilesFit(client[c].file, client[c].base, client[c].content)
    BY <1>1, <2>1 DEF ClientRow, ClientFits
  <2> QED BY <2>1, <2>2, PushRequest
<1>9. CASE create_repository_file(c)
  BY <1>9, PushRequest DEF create_repository_file, FilesFit
<1>10. CASE _sync_draft_after_repository_commit(c)
  <2> DEFINE row == [client[c] EXCEPT !.pc = "saved"]
  <2>1. row \in ClientRow(Tip) /\ row.pc = "saved" /\ row.file = client[c].file
    BY <1>a DEF ClientRow
  <2>2. client' = [client EXCEPT ![c] = row] /\ client[c].pc = "committed" /\ draft' = client[c].sha
    BY <1>10 DEF _sync_draft_after_repository_commit
  <2>3. ClientFits(c)'
    BY <1>1, <2>1, <2>2 DEF ClientFits
  <2>4. draft' \in 1..Tip
    BY <1>1, <2>2 DEF ClientFits, ClientRow
  <2> QED BY <1>1, <1>10, <2>1, <2>2, <2>3, <2>4, QuietRequest DEF _sync_draft_after_repository_commit
<1>11. CASE RequestFails(c)
  <2> DEFINE row == [client[c] EXCEPT !.pc = "failed"]
  <2>1. row \in ClientRow(Tip) /\ row.pc = "failed" /\ row.file = client[c].file
    BY <1>a DEF ClientRow
  <2>2. client' = [client EXCEPT ![c] = row]
    BY <1>11 DEF RequestFails
  <2>3. ClientFits(c)'
    BY <1>1, <2>1, <2>2 DEF ClientFits
  <2> QED BY <1>1, <1>11, <2>1, <2>2, <2>3, QuietRequest DEF RequestFails
<1> QED BY <1>2, <1>3, <1>4, <1>5, <1>6, <1>7, <1>8, <1>9, <1>10, <1>11 DEF Request

\* A slot nothing happens to still fits: the branch only grows, and what a
\* requested generation is pinned to does not change.
LEMMA AttemptStays ==
  ASSUME TypeOK, Kept, NEW s \in Slots, AttemptFits(s), attempt'[s] = attempt[s],
         \A g \in Generations : generation[g].status # "absent" =>
           generation'[g].status # "absent" /\ generation'[g].base = generation[g].base
  PROVE  AttemptFits(s)'
BY DEF AttemptFits, Kept

\* The same for a generation that got no commit.
LEMMA GenerationStays ==
  ASSUME TypeOK, Kept, NEW g \in Generations, GenerationFits(g), generation'[g] = generation[g],
         job'[g] = job[g], \A i \in 1..Tip' : i > Tip => branch'[i].by # g
  PROVE  GenerationFits(g)'
<1>1. \A i \in 1..Tip' : branch'[i].by = g => i \in 1..Tip /\ branch'[i] = branch[i]
  BY DEF Kept
<1>2. \A i \in 1..Tip : i \in 1..Tip' /\ branch'[i] = branch[i]
  BY DEF Kept
<1> QED BY <1>1, <1>2 DEF GenerationFits

\* A step of slot s that changes neither a row of the database nor the branch.
LEMMA SlotStep ==
  ASSUME SInv, NEW s \in Slots, UNCHANGED <<branch, draft, client, generation, job>>,
         attempt' \in [Slots -> AttemptRow(Tip)],
         \A t \in Slots : t # s => attempt'[t] = attempt[t],
         AttemptFits(s)'
  PROVE  SInv'
<1>1. Kept /\ Tip' = Tip /\ \A i \in 1..Tip' : ~ i > Tip
  BY RowTypes DEF SInv, Kept, Tip
<1>2. TypeOK'
  BY RowTypes, <1>1 DEF SInv, TypeOK, AttemptRow
<1>3. \A t \in Slots : AttemptFits(t)'
  BY <1>1, AttemptStays DEF SInv
<1>4. \A g \in Generations : GenerationFits(g)'
  BY <1>1, GenerationStays DEF SInv
<1>5. \A c \in Clients : ClientFits(c)' /\ SavesFit(c)'
  BY <1>1, OthersSave DEF SInv, ClientFits
<1> QED BY <1>2, <1>3, <1>4, <1>5 DEF SInv

\* Reading, submitting, comparing the head, finding the files, dying.
LEMMA QuietSlotStep ==
  ASSUME SInv, NEW s \in Slots,
         \/ Crash(s) \/ HeadResolved(s) \/ SourceLoaded(s) \/ CandidateSubmitted(s) \/ HeadChecked(s)
         \/ AnswerLost(s) \/ get_branch_head(s)
  PROVE  SInv'
<1>1. /\ Tip \in Nat /\ Tip >= 1 /\ attempt \in [Slots -> AttemptRow(Tip)] /\ AttemptFits(s)
      /\ generation \in [Generations -> GenerationRow(Tip)]
  BY RowTypes DEF SInv
<1>2. UNCHANGED <<branch, draft, client, generation, job>> /\ Tip' = Tip
  BY DEF Crash, HeadResolved, SourceLoaded, CandidateSubmitted, HeadChecked, AnswerLost, get_branch_head, Tip
<1>3. attempt' \in [Slots -> AttemptRow(Tip)] /\ \A t \in Slots : t # s => attempt'[t] = attempt[t]
  BY <1>1 DEF Crash, HeadResolved, SourceLoaded, CandidateSubmitted, HeadChecked, AnswerLost, get_branch_head, AttemptRow, Idle
<1>4. AttemptFits(s)'
  <2>1. CASE Crash(s)
    BY <1>1, <2>1 DEF Crash, Idle, AttemptFits
  <2>2. CASE HeadResolved(s) \/ SourceLoaded(s)
    BY <1>1, <1>2, <2>2 DEF HeadResolved, SourceLoaded, AttemptFits, AttemptRow
  <2>3. CASE CandidateSubmitted(s)
    BY <1>1, <1>2, <2>3 DEF CandidateSubmitted, AttemptFits, AttemptRow
  <2>6. CASE HeadChecked(s)
    <3>1. attempt[s].content <= Tip /\ attempt[s].read <= attempt[s].content /\ attempt[s].read = Tip
      BY <1>1, <2>6 DEF HeadChecked, HeadUnchanged, AttemptFits, AttemptRow
    <3>2. attempt[s].content = attempt[s].read
      BY <1>1, <3>1 DEF AttemptRow
    <3> QED BY <1>1, <1>2, <2>6, <3>2 DEF HeadChecked, AttemptFits, AttemptRow
  <2>4. CASE AnswerLost(s)
    BY <1>1, <1>2, <2>4 DEF AnswerLost, FilesMatch, AttemptFits, AttemptRow
  <2>5. CASE get_branch_head(s)
    BY <1>1, <1>2, <2>5 DEF get_branch_head, AttemptFits, AttemptRow
  <2> QED BY <2>1, <2>2, <2>3, <2>4, <2>5, <2>6
<1> QED BY <1>2, <1>3, <1>4, SlotStep

\* The files are pushed on top of what the attempt read, or were there.
LEMMA CommitStep ==
  ASSUME SInv, NEW s \in Slots, commit_repository_files(s)
  PROVE  SInv'
<1> DEFINE g == attempt[s].of
<1>1. /\ Tip \in Nat /\ Tip >= 1 /\ attempt \in [Slots -> AttemptRow(Tip)] /\ AttemptFits(s)
      /\ generation \in [Generations -> GenerationRow(Tip)] /\ client \in [Clients -> ClientRow(Tip)]
      /\ draft \in 1..Tip /\ job \in [Generations -> JobRow]
  BY RowTypes DEF SInv
<1>2. /\ attempt[s].pc = "checked" /\ UNCHANGED <<draft, client, generation, job>>
      /\ g \in Generations /\ generation[g].status # "absent"
      /\ generation[g].base \in {0, attempt[s].read} /\ attempt[s].content = attempt[s].read
  BY <1>1 DEF commit_repository_files, AttemptFits
<1>3. CASE FilesMatch(g) /\ attempt' = [attempt EXCEPT ![s].pc = "matched"] /\ UNCHANGED branch
  <2>1. attempt' \in [Slots -> AttemptRow(Tip)] /\ \A t \in Slots : t # s => attempt'[t] = attempt[t]
    BY <1>1, <1>3 DEF AttemptRow
  <2>2. AttemptFits(s)'
    BY <1>1, <1>2, <1>3 DEF FilesMatch, AttemptFits, AttemptRow, Tip
  <2> QED BY <1>2, <1>3, <2>1, <2>2, SlotStep
<1>4. CASE /\ Push(g, attempt[s].read, attempt[s].content)
           /\ \/ attempt' = [attempt EXCEPT ![s].pc = "committed", ![s].sha = Tip + 1]
              \/ attempt' = [attempt EXCEPT ![s].pc = "unanswered"]
  <2>1. attempt[s].read \in Nat /\ attempt[s].content \in Nat
    BY <1>1 DEF AttemptRow
  <2>2. /\ branch' \in Seq(Commit)
        /\ Tip' = Tip + 1 /\ branch'[Tip + 1] = [by |-> g, base |-> attempt[s].read, content |-> attempt[s].read]
        /\ \A i \in 1..Tip : branch'[i] = branch[i]
    BY <1>2, <1>4, <2>1, PushAppends DEF SInv, Authors
  <2>3. Kept
    BY <1>1, <2>2 DEF Kept
  <2>4. attempt \in [Slots -> AttemptRow(Tip + 1)]
    BY <1>1, RowsGrow
  <2>5. attempt' \in [Slots -> AttemptRow(Tip + 1)] /\ \A t \in Slots : t # s => attempt'[t] = attempt[t]
    BY <1>1, <1>4, <2>4 DEF AttemptRow
  <2>6. TypeOK'
    <3>1. /\ client' \in [Clients -> ClientRow(Tip + 1)] /\ generation' \in [Generations -> GenerationRow(Tip + 1)]
          /\ draft' \in 1..Tip + 1 /\ job' \in [Generations -> JobRow]
      BY <1>1, <1>2, RowsGrow
    <3> QED BY <2>2, <2>5, <3>1 DEF TypeOK, Commit, ClientRow, GenerationRow, AttemptRow, JobRow
  <2>7. AttemptFits(s)'
    <3>1. CASE attempt' = [attempt EXCEPT ![s].pc = "committed", ![s].sha = Tip + 1]
      <4>1. attempt'[s].pc = "committed" /\ attempt'[s].of = g /\ attempt'[s].sha = Tip + 1
        BY <1>1, <3>1 DEF AttemptRow
      <4>2. Tip + 1 \in 1..Tip' /\ branch'[Tip + 1].by = g /\ Tip + 1 <= attempt'[s].sha
        BY <1>1, <2>2, <4>1
      <4> QED BY <1>2, <4>1, <4>2 DEF AttemptFits
    <3>2. CASE attempt' = [attempt EXCEPT ![s].pc = "unanswered"]
      <4>1. attempt'[s].pc = "unanswered" /\ attempt'[s].of = g
        BY <1>1, <3>2 DEF AttemptRow
      <4> QED BY <1>2, <4>1 DEF AttemptFits
    <3> QED BY <1>4, <3>1, <3>2
  <2>8. \A t \in Slots : AttemptFits(t)'
    BY <1>2, <2>3, <2>5, <2>7, AttemptStays DEF SInv
  <2>9. ASSUME NEW h \in Generations PROVE GenerationFits(h)'
    <3>1. CASE h # g
      BY <1>1, <1>2, <2>2, <2>3, <3>1, GenerationStays DEF SInv
    <3>2. CASE h = g
      <4>1. GenerationFits(h) BY DEF SInv
      <4>2. \A i \in 1..Tip' : i = Tip + 1 \/ (i \in 1..Tip /\ branch'[i] = branch[i])
        BY <1>1, <2>2
      <4>3. \A i \in 1..Tip : i \in 1..Tip' /\ branch'[i] = branch[i]
        BY <1>1, <2>2
      <4>4. \A i \in 1..Tip' : branch'[i].by = g =>
              branch'[i].content = branch'[i].base /\ generation[g].base \in {0, branch'[i].base}
        <5> SUFFICES ASSUME NEW i \in 1..Tip', branch'[i].by = g
                     PROVE  branch'[i].content = branch'[i].base /\ generation[g].base \in {0, branch'[i].base}
          OBVIOUS
        <5>1. CASE i = Tip + 1
          BY <1>2, <2>2, <5>1
        <5>2. CASE i \in 1..Tip /\ branch'[i] = branch[i]
          BY <3>2, <4>1, <5>2 DEF GenerationFits
        <5> QED BY <4>2, <5>1, <5>2
      <4>5. generation[g].status = "succeeded" => \E i \in 1..Tip' : branch'[i].by = g /\ i <= generation[g].sha
        BY <3>2, <4>1, <4>3 DEF GenerationFits
      <4>6. generation' = generation /\ generation[g].status # "absent"
        BY <1>2
      <4> HIDE DEF g
      <4> QED BY <3>2, <4>4, <4>5, <4>6 DEF GenerationFits
    <3> QED BY <3>1, <3>2
  <2>10. ASSUME NEW c \in Clients PROVE ClientFits(c)' /\ SavesFit(c)'
    <3>1. \A i \in 1..Tip' : i > Tip => branch'[i].by # c
      BY <1>1, <1>2, <2>2, SourceAssumption
    <3> QED BY <1>2, <2>3, <3>1, OthersSave DEF SInv, ClientFits
  <2> QED BY <2>6, <2>8, <2>9, <2>10 DEF SInv
<1> QED BY <1>3, <1>4 DEF commit_repository_files

\* A step that moves generation g and its job, and the slots that are on g, to
\* another requested state without a commit.
LEMMA JobStep ==
  ASSUME SInv, NEW g \in Generations, UNCHANGED <<branch, client>>, draft' \in 1..Tip,
         generation' \in [Generations -> GenerationRow(Tip)],
         \A h \in Generations : h # g => generation'[h] = generation[h] /\ job'[h] = job[h],
         job' \in [Generations -> JobRow],
         generation'[g].status # "absent",
         generation[g].status # "absent" => generation'[g].base = generation[g].base,
         generation'[g].status = "succeeded" => \E i \in 1..Tip : branch[i].by = g /\ i <= generation'[g].sha,
         attempt' \in [Slots -> AttemptRow(Tip)],
         \A s \in Slots :
           \/ attempt'[s] = attempt[s]
           \/ attempt'[s].pc = "idle"
           \/ attempt'[s].pc \in {"claimed", "loading"} /\ attempt'[s].of = g
  PROVE  SInv'
<1>1. Kept /\ Tip' = Tip /\ \A i \in 1..Tip' : ~ i > Tip
  BY RowTypes DEF SInv, Kept, Tip
<1>2. TypeOK'
  BY RowTypes, <1>1 DEF SInv, TypeOK, AttemptRow, GenerationRow, JobRow
<1>3. ASSUME NEW s \in Slots PROVE AttemptFits(s)'
  <2>1. CASE attempt'[s] = attempt[s]
    BY <1>1, <2>1, AttemptStays DEF SInv
  <2>2. CASE attempt'[s] # attempt[s]
    BY <2>2 DEF AttemptFits
  <2> QED BY <2>1, <2>2
<1>4. ASSUME NEW h \in Generations PROVE GenerationFits(h)'
  <2>1. CASE h # g
    BY <1>1, <2>1, GenerationStays DEF SInv
  <2>2. CASE h = g
    BY <1>1, <2>2 DEF SInv, GenerationFits
  <2> QED BY <2>1, <2>2
<1>5. \A c \in Clients : ClientFits(c)' /\ SavesFit(c)'
  BY <1>1, OthersSave DEF SInv, ClientFits
<1> QED BY <1>2, <1>3, <1>4, <1>5 DEF SInv

\* Giving up an attempt keeps what the generation is pinned to.
LEMMA GiveUpStep ==
  ASSUME SInv, NEW g \in Generations, generation[g].status # "absent", GiveUpAttempt(g)
  PROVE  /\ generation' \in [Generations -> GenerationRow(Tip)] /\ job' \in [Generations -> JobRow]
         /\ \A h \in Generations : h # g => generation'[h] = generation[h] /\ job'[h] = job[h]
         /\ generation'[g].status # "absent" /\ generation'[g].base = generation[g].base
         /\ generation'[g].sha = generation[g].sha
         /\ generation'[g].status = "succeeded" => generation[g].status = "succeeded"
<1>1. generation \in [Generations -> GenerationRow(Tip)] /\ job \in [Generations -> JobRow]
  BY RowTypes DEF SInv
<1>2. \A st \in {"retryable_failed", "failed"} : Released(job[g], st) \in JobRow
  BY <1>1 DEF Released, JobRow, Claimable, TERMINAL_JOB_STATUSES
<1>3. CASE UNCHANGED generation /\ job' = [job EXCEPT ![g] = Released(@, "retryable_failed")]
  BY <1>1, <1>2, <1>3
<1>4. CASE /\ job' = [job EXCEPT ![g] = Released(@, "failed")]
           /\ finalize_exhausted_raw_material_generation_job(g)
  <2>1. job' \in [Generations -> JobRow] /\ \A h \in Generations : h # g => job'[h] = job[h]
    BY <1>1, <1>2, <1>4
  <2>2. PICK st \in GenerationStatus :
          /\ generation' = [generation EXCEPT ![g].status = st]
          /\ st # "absent" /\ (st = "succeeded" => generation[g].status = "succeeded")
    BY <1>1, <1>4 DEF finalize_exhausted_raw_material_generation_job, GenerationRow, GenerationStatus
  <2> QED BY <1>1, <2>1, <2>2 DEF GenerationRow
<1> QED BY <1>3, <1>4 DEF GiveUpAttempt

\* Claims, recoveries, failures and results.
LEMMA JobSteps ==
  ASSUME SInv,
         \/ \E g \in Generations :
              \/ \E pinned \in BOOLEAN : generate_skill_draft_from_raw_materials(g, pinned)
              \/ recover_expired_lease(g)
              \/ \E s \in Slots : claim_next_job(s, g)
         \/ \E s \in Slots :
              GenerationStarts(s) \/ GenerationSucceeds(s) \/ GenerationFails(s) \/ _record_unhandled_failure(s)
  PROVE  SInv'
<1>1. /\ Tip \in Nat /\ Tip >= 1 /\ attempt \in [Slots -> AttemptRow(Tip)]
      /\ generation \in [Generations -> GenerationRow(Tip)] /\ job \in [Generations -> JobRow] /\ draft \in 1..Tip
  BY RowTypes DEF SInv
<1>2. Idle \in AttemptRow(Tip) /\ Idle.pc = "idle"
  BY <1>1 DEF Idle, AttemptRow
<1>3. ASSUME NEW g \in Generations, NEW pinned \in BOOLEAN, generate_skill_draft_from_raw_materials(g, pinned)
      PROVE  SInv'
  <2> DEFINE b == IF pinned THEN Tip ELSE 0
  <2>1. b \in 0..Tip /\ generation' = [generation EXCEPT ![g].status = "pending", ![g].base = b]
    BY <1>1, <1>3 DEF generate_skill_draft_from_raw_materials
  <2> HIDE DEF b
  <2>2. generation' \in [Generations -> GenerationRow(Tip)] /\ generation'[g].status = "pending"
    BY <1>1, <2>1 DEF GenerationRow, GenerationStatus
  <2>3. job' \in [Generations -> JobRow]
    <3>1. [job[g] EXCEPT !.status = "pending"] \in JobRow
      BY <1>1 DEF JobRow, Claimable
    <3> QED BY <1>1, <1>3, <3>1 DEF generate_skill_draft_from_raw_materials
  <2>4. \A h \in Generations : h # g => generation'[h] = generation[h] /\ job'[h] = job[h]
    BY <1>1, <1>3, <2>1 DEF generate_skill_draft_from_raw_materials
  <2> QED BY <1>1, <1>3, <2>2, <2>3, <2>4, JobStep DEF generate_skill_draft_from_raw_materials
<1>4. ASSUME NEW g \in Generations, recover_expired_lease(g)
      PROVE  SInv'
  <2>1. generation[g].status # "absent" /\ GenerationFits(g)
    BY <1>4 DEF recover_expired_lease, SInv, GenerationFits
  <2> QED BY <1>1, <1>4, <2>1, GiveUpStep, JobStep DEF recover_expired_lease, GenerationFits
<1>5. ASSUME NEW g \in Generations, NEW s \in Slots, claim_next_job(s, g)
      PROVE  SInv'
  <2>1. generation[g].status # "absent" /\ GenerationFits(g)
    BY <1>5 DEF claim_next_job, SInv, GenerationFits, Claimable
  <2>2. job' \in [Generations -> JobRow] /\ \A h \in Generations : h # g => job'[h] = job[h]
    <3>1. job' = [job EXCEPT ![g] = [status |-> "running", owner |-> s, charged |-> job[g].charged + 1]]
      BY <1>5 DEF claim_next_job
    <3>2. job[g] \in JobRow /\ job[g].charged < MaxAttempts
      BY <1>1, <1>5 DEF claim_next_job
    <3>3. [status |-> "running", owner |-> s, charged |-> job[g].charged + 1] \in JobRow
      BY <3>2, SourceAssumption DEF JobRow
    <3> QED BY <1>1, <3>1, <3>3
  <2> DEFINE row == [Idle EXCEPT !.pc = "claimed", !.of = g]
  <2>3. row \in AttemptRow(Tip) /\ row.pc = "claimed" /\ row.of = g
    BY <1>2 DEF AttemptRow
  <2>4. attempt' = [attempt EXCEPT ![s] = row]
    BY <1>5 DEF claim_next_job
  <2> HIDE DEF row
  <2>5. attempt' \in [Slots -> AttemptRow(Tip)]
    BY <1>1, <2>3, <2>4
  <2>6. \A t \in Slots : attempt'[t] = attempt[t] \/ (attempt'[t].pc = "claimed" /\ attempt'[t].of = g)
    BY <1>1, <2>3, <2>4
  <2>7. UNCHANGED <<branch, draft, client, generation>>
    BY <1>5 DEF claim_next_job
  <2> QED BY <1>1, <2>1, <2>2, <2>5, <2>6, <2>7, JobStep DEF GenerationFits
<1>6. ASSUME NEW s \in Slots, GenerationStarts(s) \/ GenerationSucceeds(s) \/ GenerationFails(s)
      PROVE  SInv'
  <2> DEFINE g == attempt[s].of
  <2>1. g \in Generations /\ generation[g].status # "absent" /\ GenerationFits(g) /\ AttemptFits(s)
    BY <1>6 DEF SInv, AttemptFits, Owns, GenerationStarts, GenerationSucceeds, GenerationFails
  <2>9. Released(job[g], "succeeded") \in JobRow /\ Released(job[g], "failed") \in JobRow
    BY <1>1, <2>1 DEF Released, JobRow, TERMINAL_JOB_STATUSES
  <2>2. CASE GenerationStarts(s)
    BY SMTT(30), <1>1, <2>1, <2>2, JobStep DEF GenerationStarts, GenerationRow, GenerationStatus, AttemptRow
  <2>3. CASE GenerationSucceeds(s)
    <3>1. /\ attempt[s].sha \in 1..Tip
          /\ \E i \in 1..Tip : branch[i].by = g /\ i <= attempt[s].sha
      <4>1. attempt[s].pc = "committed" /\ attempt[s].sha \in 0..Tip
        BY <1>1, <2>3 DEF GenerationSucceeds, AttemptRow
      <4>2. PICK i \in 1..Tip : branch[i].by = g /\ i <= attempt[s].sha
        BY <2>1, <4>1 DEF AttemptFits
      <4>3. attempt[s].sha \in 1..Tip
        BY <1>1, <4>1, <4>2
      <4> QED BY <4>2, <4>3
    <3>2. /\ UNCHANGED <<branch, client>> /\ draft' \in 1..Tip
          /\ generation' = [generation EXCEPT ![g].status = "succeeded", ![g].sha = attempt[s].sha]
          /\ job' = [job EXCEPT ![g] = Released(job[g], "succeeded")] /\ attempt' = [attempt EXCEPT ![s] = Idle]
      BY <2>3, <3>1 DEF GenerationSucceeds
    <3>3. generation' \in [Generations -> GenerationRow(Tip)] /\ Released(job[g], "succeeded") \in JobRow
      BY <1>1, <2>1, <2>9, <3>1, <3>2 DEF GenerationRow, GenerationStatus
    <3>4. job' \in [Generations -> JobRow] /\ attempt' \in [Slots -> AttemptRow(Tip)]
      BY <1>1, <1>2, <3>2, <3>3
    <3>5. /\ generation'[g].status = "succeeded" /\ generation'[g].sha = attempt[s].sha
          /\ generation'[g].base = generation[g].base
      BY <1>1, <2>1, <3>2 DEF GenerationRow
    <3>6. \A h \in Generations : h # g => generation'[h] = generation[h] /\ job'[h] = job[h]
      BY <1>1, <3>2
    <3>7. \A t \in Slots : attempt'[t] = attempt[t] \/ attempt'[t].pc = "idle"
      BY <1>1, <1>2, <3>2
    <3> QED BY <2>1, <3>1, <3>2, <3>3, <3>4, <3>5, <3>6, <3>7, JobStep
  <2>4. CASE GenerationFails(s)
    <3>1. /\ UNCHANGED <<branch, draft, client>>
          /\ generation' = [generation EXCEPT ![g].status = "failed"]
          /\ job' = [job EXCEPT ![g] = Released(job[g], "failed")] /\ attempt' = [attempt EXCEPT ![s] = Idle]
      BY <2>4 DEF GenerationFails
    <3>2. generation' \in [Generations -> GenerationRow(Tip)] /\ Released(job[g], "failed") \in JobRow
      BY <1>1, <2>1, <2>9, <3>1 DEF GenerationRow, GenerationStatus
    <3>3. job' \in [Generations -> JobRow] /\ attempt' \in [Slots -> AttemptRow(Tip)]
      BY <1>1, <1>2, <3>1, <3>2
    <3>4. generation'[g].status = "failed" /\ generation'[g].base = generation[g].base
      BY <1>1, <2>1, <3>1 DEF GenerationRow
    <3>5. \A h \in Generations : h # g => generation'[h] = generation[h] /\ job'[h] = job[h]
      BY <1>1, <3>1
    <3>6. \A t \in Slots : attempt'[t] = attempt[t] \/ attempt'[t].pc = "idle"
      BY <1>1, <1>2, <3>1
    <3> QED BY <1>1, <2>1, <3>1, <3>2, <3>3, <3>4, <3>5, <3>6, JobStep
  <2> QED BY <1>6, <2>2, <2>3, <2>4
<1>7. ASSUME NEW s \in Slots, _record_unhandled_failure(s)
      PROVE  SInv'
  <2> DEFINE g == attempt[s].of
  <2>1. g \in Generations /\ generation[g].status # "absent" /\ GenerationFits(g)
    BY <1>7 DEF SInv, AttemptFits, _record_unhandled_failure
  <2>2. attempt' \in [Slots -> AttemptRow(Tip)]
    BY <1>1, <1>2, <1>7 DEF _record_unhandled_failure
  <2>3. \A t \in Slots : attempt'[t] = attempt[t] \/ attempt'[t].pc = "idle"
    BY <1>1, <1>2, <1>7 DEF _record_unhandled_failure
  <2>4. CASE GiveUpAttempt(g)
    BY <1>1, <1>7, <2>1, <2>2, <2>3, <2>4, GiveUpStep, JobStep DEF _record_unhandled_failure, GenerationFits
  <2>5. CASE UNCHANGED <<job, generation>>
    BY <1>1, <1>7, <2>1, <2>2, <2>3, <2>5, JobStep DEF _record_unhandled_failure, GenerationFits
  <2> QED BY <1>7, <2>4, <2>5 DEF _record_unhandled_failure
<1> QED BY <1>3, <1>4, <1>5, <1>6, <1>7

\* The invariant holds when the skill was created.
LEMMA SInit == Init => SInv
<1> SUFFICES ASSUME Init PROVE SInv
  OBVIOUS
<1>1. Tip = 1 /\ branch[1].by = None /\ branch \in Seq(Commit)
  BY DEF Init, Tip, Authors, Commit
<1>2. TypeOK
  BY <1>1, SourceAssumption DEF Init, TypeOK, Commit, Unread, NoJob, Idle, GenerationStatus
<1>3. \A g \in Generations : GenerationFits(g)
  BY <1>1, SourceAssumption DEF Init, GenerationFits, NoJob
<1>4. (\A s \in Slots : AttemptFits(s)) /\ \A c \in Clients : ClientFits(c) /\ SavesFit(c)
  BY <1>1, SourceAssumption DEF Init, AttemptFits, ClientFits, SavesFit, Idle, Unread
<1> QED BY <1>2, <1>3, <1>4 DEF SInv

\* Every step of the clients, the slots and the recovery keeps it.
LEMMA SNext ==
  ASSUME SInv, [Next]_vars
  PROVE  SInv'
<1>1. ASSUME NEW c \in Clients, Request(c)
      PROVE  SInv'
  <2>1. /\ UNCHANGED <<generation, job, attempt>> /\ Kept
        /\ \A i \in 1..Tip' : i > Tip => branch'[i].by = c
        /\ draft' \in 1..Tip' /\ client' \in [Clients -> ClientRow(Tip')]
        /\ \A d \in Clients : ClientFits(d)' /\ SavesFit(d)'
    BY <1>1, RequestStep DEF Requested
  <2>2. TypeOK'
    <3>1. generation \in [Generations -> GenerationRow(Tip')] /\ attempt \in [Slots -> AttemptRow(Tip')]
      BY <2>1, RowTypes, RowsGrow DEF SInv, Kept
    <3> QED BY <2>1, <3>1, RowTypes DEF SInv, TypeOK, Kept, Commit, ClientRow, GenerationRow, AttemptRow, JobRow
  <2>3. \A s \in Slots : AttemptFits(s)'
    BY <2>1, AttemptStays DEF SInv
  <2>4. \A g \in Generations : GenerationFits(g)'
    BY <2>1, GenerationStays, SourceAssumption DEF SInv
  <2> QED BY <2>1, <2>2, <2>3, <2>4 DEF SInv
<1>2. CASE UNCHANGED vars
  BY <1>2 DEF vars, SInv, TypeOK, Tip, ClientFits, SavesFit, AttemptFits, GenerationFits
<1> QED BY <1>1, <1>2, QuietSlotStep, CommitStep, JobSteps DEF Next, Generate

(***************************************************************************)
(* The theorems.                                                           *)
(***************************************************************************)

\* The strengthened invariant of the source: the service's three stores, the
\* branch, the rows and the slots, agree on who committed what.
THEOREM SourceInvariance == Spec => []SInv
<1>1. SInv /\ [Next]_vars => SInv'
  BY SNext
<1> QED BY <1>1, SInit, PTL DEF Spec

\* A generation that process_skill_raw_material_generation_job reports succeeded
\* has its files in the branch no later than the commit it recorded, whatever
\* answers GitLab lost and whichever attempts were repeated; variables keep
\* their types.
THEOREM SucceededHasItsFiles == Spec => []SucceededIsInSource
<1>1. SInv => SucceededIsInSource
  BY DEF SInv, SucceededIsInSource, GenerationFits, CommitsOf
<1> QED BY <1>1, SourceInvariance, PTL

\* Whatever others commit between the calls that resolve the head, read the
\* files and compare the head again, what a generation commits was made from the
\* files of the base it compared, the one the client named if it named one, and
\* so is a saved source (get_skill_source, _run_skill_raw_material_generation,
\* save_skill_source).
THEOREM MadeFromItsBaseHolds == Spec => []MadeFromItsBase
<1>1. SInv => MadeFromItsBase
  BY DEF SInv, MadeFromItsBase, GenerationFits, SavesFit, FilesFit
<1> QED BY <1>1, SourceInvariance, PTL

(***************************************************************************)
(* The generations implement JobLifecycle.                                 *)
(***************************************************************************)

Settled == {"succeeded", "failed"}

\* A generation is settled exactly when its job has ended, and a job that was
\* not submitted was not attempted.
Together ==
  \A g \in Generations :
    /\ generation[g].status \in Settled <=> job[g].status \in TERMINAL_JOB_STATUSES
    /\ job[g].status = "absent" => job[g].charged = 0

\* The status of generation g, and no other, becomes st.
Becomes(g, st) ==
  \A h \in Generations : generation'[h].status = IF h = g THEN st ELSE generation[h].status

\* A step of the jobs, as far as their life cycle is concerned.
Quiet == job' = job /\ \A h \in Generations : generation'[h].status \in Settled <=> generation[h].status \in Settled
Asked ==
  \E g \in Generations :
    /\ generation[g].status = "absent" /\ Becomes(g, "pending")
    /\ job' = [job EXCEPT ![g].status = "pending"]
Given == \E g \in Generations : job[g].status = "running" /\ GiveUpAttempt(g)
Ends ==
  \E g \in Generations, st \in Settled :
    job[g].status = "running" /\ Becomes(g, st) /\ job' = [job EXCEPT ![g] = Released(job[g], st)]

\* What an update of one generation does to the statuses.
LEMMA StatusBecomes ==
  ASSUME TypeOK, NEW g \in Generations, NEW st, NEW n,
         \/ generation' = [generation EXCEPT ![g].status = st]
         \/ generation' = [generation EXCEPT ![g].status = st, ![g].sha = n]
         \/ generation' = [generation EXCEPT ![g].status = st, ![g].base = n]
  PROVE  Becomes(g, st)
<1>1. generation \in [Generations -> GenerationRow(Tip)]
  BY RowTypes
<1>2. CASE generation' = [generation EXCEPT ![g].status = st]
  BY <1>1, <1>2 DEF GenerationRow, Becomes
<1>3. CASE generation' = [generation EXCEPT ![g].status = st, ![g].sha = n]
  BY <1>1, <1>3 DEF GenerationRow, Becomes
<1>4. CASE generation' = [generation EXCEPT ![g].status = st, ![g].base = n]
  BY <1>1, <1>4 DEF GenerationRow, Becomes
<1> QED BY <1>2, <1>3, <1>4

\* Requests, slots and the recovery do nothing else to the jobs.
LEMMA JobsDo ==
  ASSUME SInv, Together, [Next]_vars
  PROVE  \/ Quiet \/ Asked \/ Given \/ Ends
         \/ \E s \in Slots, g \in Generations : claim_next_job(s, g)
<1>0. TypeOK /\ \A s \in Slots : attempt[s].pc # "idle" => attempt[s].of \in Generations
  BY DEF SInv, AttemptFits
<1>1. CASE \E c \in Clients : Request(c)
  BY <1>1 DEF Request, get_skill_source, get_repository_file, SourceRead, DraftFollows, save_skill_source, update_skill_metadata, SaveCommits,
              create_repository_file, _sync_draft_after_repository_commit, RequestFails, Quiet
<1>2. ASSUME NEW g \in Generations, NEW pinned \in BOOLEAN, generate_skill_draft_from_raw_materials(g, pinned)
      PROVE  Asked
  <2>1. PICK n : generation' = [generation EXCEPT ![g].status = "pending", ![g].base = n]
    BY <1>2 DEF generate_skill_draft_from_raw_materials
  <2>2. Becomes(g, "pending")
    BY <1>0, <2>1, StatusBecomes
  <2> QED BY <1>2, <2>2 DEF generate_skill_draft_from_raw_materials, Asked
<1>3. CASE \E g \in Generations : recover_expired_lease(g)
  BY <1>3 DEF recover_expired_lease, Given
<1>4. CASE \E s \in Slots : Crash(s)
  BY <1>4 DEF Crash, Quiet
<1>5. ASSUME NEW s \in Slots, Generate(s)
      PROVE  Quiet \/ Given \/ Ends
  <2>1. CASE HeadResolved(s) \/ SourceLoaded(s) \/ CandidateSubmitted(s) \/ HeadChecked(s) \/ commit_repository_files(s)
             \/ AnswerLost(s) \/ get_branch_head(s)
    BY <2>1 DEF HeadResolved, SourceLoaded, CandidateSubmitted, HeadChecked, commit_repository_files, AnswerLost,
                get_branch_head, Quiet
  <2>2. CASE _record_unhandled_failure(s)
    BY <1>0, <2>2 DEF _record_unhandled_failure, Owns, Quiet, Given
  <2>3. CASE GenerationStarts(s)
    <3>1. PICK g \in Generations : g = attempt[s].of
      BY <1>0, <2>3 DEF GenerationStarts
    <3>2. job[g].status = "running" /\ generation' = [generation EXCEPT ![g].status = "running"] /\ job' = job
      BY <2>3, <3>1 DEF GenerationStarts, Owns
    <3>3. Becomes(g, "running")
      BY <1>0, <3>2, StatusBecomes
    <3>4. generation[g].status \notin Settled
      BY <3>2 DEF Together, TERMINAL_JOB_STATUSES
    <3> QED BY <3>2, <3>3, <3>4 DEF Becomes, Quiet, Settled
  <2>4. CASE GenerationSucceeds(s)
    <3>1. PICK g \in Generations, n \in {attempt[s].sha} : g = attempt[s].of
      BY <1>0, <2>4 DEF GenerationSucceeds
    <3>2. /\ job[g].status = "running" /\ job' = [job EXCEPT ![g] = Released(job[g], "succeeded")]
          /\ generation' = [generation EXCEPT ![g].status = "succeeded", ![g].sha = n]
      BY <2>4, <3>1 DEF GenerationSucceeds, Owns
    <3>3. Becomes(g, "succeeded")
      BY <1>0, <3>2, StatusBecomes
    <3> QED BY <3>2, <3>3 DEF Ends, Settled
  <2>5. CASE GenerationFails(s)
    <3>1. PICK g \in Generations : g = attempt[s].of
      BY <1>0, <2>5 DEF GenerationFails
    <3>2. /\ job[g].status = "running" /\ job' = [job EXCEPT ![g] = Released(job[g], "failed")]
          /\ generation' = [generation EXCEPT ![g].status = "failed"]
      BY <2>5, <3>1 DEF GenerationFails, Owns
    <3>3. Becomes(g, "failed")
      BY <1>0, <3>2, StatusBecomes
    <3> QED BY <3>2, <3>3 DEF Ends, Settled
  <2> QED BY <1>5, <2>1, <2>2, <2>3, <2>4, <2>5 DEF Generate
<1>6. CASE UNCHANGED vars
  BY <1>6 DEF vars, Quiet
<1> QED BY <1>1, <1>2, <1>3, <1>4, <1>5, <1>6 DEF Next

\* A function that differs from another in one place.
LEMMA Updated ==
  ASSUME NEW S, NEW f, NEW g, NEW a, NEW v,
         f = [b \in S |-> f[b]], g = [b \in S |-> g[b]], \A b \in S : g[b] = IF b = a THEN v ELSE f[b]
  PROVE  g = [f EXCEPT ![a] = v]
OBVIOUS

\* A change of one row is a move of one job.
LEMMA RowMoves ==
  ASSUME TypeOK, NEW a \in Generations, NEW r, NEW p, NEW t, NEW n,
         job' = [job EXCEPT ![a] = r], Phase(r) = p, AttemptAt(a, r) = t, r.charged = n
  PROVE  /\ Lifecycle!Move(a, p, t, n)
         /\ \A b \in Generations : job'[b] = IF b = a THEN r ELSE job[b]
<1>1. \A b \in Generations : job'[b] = IF b = a THEN r ELSE job[b]
  BY DEF TypeOK
<1>2. [b \in Generations |-> Phase(job'[b])] = [[b \in Generations |-> Phase(job[b])] EXCEPT ![a] = p]
  <2> DEFINE f == [b \in Generations |-> Phase(job[b])]
             g == [b \in Generations |-> Phase(job'[b])]
  <2>1. f = [b \in Generations |-> f[b]] /\ g = [b \in Generations |-> g[b]]
    OBVIOUS
  <2>2. \A b \in Generations : g[b] = IF b = a THEN p ELSE f[b]
    BY <1>1
  <2> HIDE DEF f, g
  <2>3. g = [f EXCEPT ![a] = p]
    BY <2>1, <2>2, Updated
  <2> QED BY <2>3 DEF f, g
<1>3. [b \in Generations |-> AttemptAt(b, job'[b])]
        = [[b \in Generations |-> AttemptAt(b, job[b])] EXCEPT ![a] = t]
  <2> DEFINE f == [b \in Generations |-> AttemptAt(b, job[b])]
             g == [b \in Generations |-> AttemptAt(b, job'[b])]
  <2>1. f = [b \in Generations |-> f[b]] /\ g = [b \in Generations |-> g[b]]
    OBVIOUS
  <2>2. \A b \in Generations : g[b] = IF b = a THEN t ELSE f[b]
    BY <1>1
  <2> HIDE DEF f, g
  <2>3. g = [f EXCEPT ![a] = t]
    BY <2>1, <2>2, Updated
  <2> QED BY <2>3 DEF f, g
<1>4. [b \in Generations |-> job'[b].charged] = [[b \in Generations |-> job[b].charged] EXCEPT ![a] = n]
  <2> DEFINE f == [b \in Generations |-> job[b].charged]
             g == [b \in Generations |-> job'[b].charged]
  <2>1. f = [b \in Generations |-> f[b]] /\ g = [b \in Generations |-> g[b]]
    OBVIOUS
  <2>2. \A b \in Generations : g[b] = IF b = a THEN n ELSE f[b]
    BY <1>1
  <2> HIDE DEF f, g
  <2>3. g = [f EXCEPT ![a] = n]
    BY <2>1, <2>2, Updated
  <2> QED BY <2>3 DEF f, g
<1> QED BY <1>1, <1>2, <1>3, <1>4 DEF Lifecycle!Move

\* A result closes what the job drives.
LEMMA ResultCloses ==
  ASSUME NEW a \in Generations, NEW result \in Settled, Becomes(a, result)
  PROVE  Lifecycle!Close(a)
<1> DEFINE f == [b \in Generations |-> DomainOf(generation[b].status)]
           g == [b \in Generations |-> DomainOf(generation'[b].status)]
<1>1. DomainOf(result) = "closed"
  BY DEF DomainOf, Settled
<1>2. f = [b \in Generations |-> f[b]] /\ g = [b \in Generations |-> g[b]]
  OBVIOUS
<1>3. \A b \in Generations : g[b] = IF b = a THEN "closed" ELSE f[b]
  BY <1>1 DEF Becomes
<1> HIDE DEF f, g
<1>4. g = [f EXCEPT ![a] = "closed"]
  BY <1>2, <1>3, Updated
<1> QED BY <1>4 DEF f, g, Lifecycle!Close

\* What settles no generation is not seen.
LEMMA NothingSeen ==
  ASSUME \A h \in Generations : generation'[h].status \in Settled <=> generation[h].status \in Settled
  PROVE  /\ UNCHANGED [b \in Generations |-> DomainOf(generation[b].status)]
         /\ job' = job => UNCHANGED Lifecycle!lifecycle
<1>1. \A b \in Generations : DomainOf(generation'[b].status) = DomainOf(generation[b].status)
  BY DEF DomainOf, Settled
<1>2. [b \in Generations |-> DomainOf(generation'[b].status)] = [b \in Generations |-> DomainOf(generation[b].status)]
  BY <1>1
<1> QED BY <1>2 DEF Lifecycle!lifecycle

\* A request for a generation submits its job.
LEMMA RequestSubmits ==
  ASSUME SInv, Together, Asked
  PROVE  Lifecycle!Next /\ Together'
<1>0. TypeOK /\ job \in [Generations -> JobRow]
  BY RowTypes DEF SInv
<1>1. PICK a \in Generations : /\ generation[a].status = "absent" /\ Becomes(a, "pending")
                               /\ job' = [job EXCEPT ![a].status = "pending"]
  BY DEF Asked
<1>2. job[a].status = "absent" /\ job[a].charged = 0
  BY <1>1 DEF SInv, GenerationFits, Together
<1>3. PICK r : r = [job[a] EXCEPT !.status = "pending"]
  OBVIOUS
<1>4. r.status = "pending" /\ r.charged = 0 /\ job' = [job EXCEPT ![a] = r]
  BY <1>0, <1>1, <1>2, <1>3 DEF JobRow
<1>5. Phase(r) = "waiting" /\ AttemptAt(a, r) = NoAttempt
  BY <1>4 DEF Phase, Claimable, AttemptAt
<1>6. /\ Lifecycle!Move(a, "waiting", NoAttempt, 0)
      /\ \A b \in Generations : job'[b] = IF b = a THEN r ELSE job[b]
  BY <1>0, <1>4, <1>5, RowMoves
<1>7. \A h \in Generations : generation'[h].status \in Settled <=> generation[h].status \in Settled
  BY <1>1 DEF Becomes, Settled
<1>8. [b \in Generations |-> Phase(job[b])][a] = "absent"
  <2>1. Phase(job[a]) = "absent"
    BY <1>2 DEF Phase, Claimable
  <2> QED BY <2>1
<1>9. Lifecycle!Submit(a)
  <2>1. UNCHANGED [b \in Generations |-> DomainOf(generation[b].status)]
    BY <1>7, NothingSeen
  <2> QED BY <1>6, <1>8, <2>1 DEF Lifecycle!Submit
<1>10. Together'
  BY <1>2, <1>4, <1>6, <1>7 DEF Together, TERMINAL_JOB_STATUSES
<1> QED BY <1>9, <1>10 DEF Lifecycle!Next

\* A claim starts the next attempt.
LEMMA ClaimStarts ==
  ASSUME SInv, Together, NEW s \in Slots, NEW a \in Generations, claim_next_job(s, a)
  PROVE  Lifecycle!Next /\ Together'
<1>0. TypeOK /\ job \in [Generations -> JobRow] /\ MaxAttempts \in Nat
  BY RowTypes, SourceAssumption DEF SInv
<1>a. PICK n \in 1..MaxAttempts : n = job[a].charged + 1 /\ job[a].charged < MaxAttempts
  <2>1. job[a].charged \in 0..MaxAttempts
    BY <1>0 DEF JobRow
  <2>2. job[a].charged < MaxAttempts
    BY DEF claim_next_job
  <2> QED BY <1>0, <2>1, <2>2
<1>b. PICK r : r = [status |-> "running", owner |-> s, charged |-> n]
  OBVIOUS
<1>1. job' = [job EXCEPT ![a] = r] /\ generation' = generation /\ job[a].status \in Claimable
  BY <1>a, <1>b DEF claim_next_job
<1>2. Phase(r) = "active" /\ AttemptAt(a, r) = <<a, n>> /\ r.charged = n /\ r.status = "running"
  BY <1>b DEF Phase, Claimable, AttemptAt
<1>3. /\ Lifecycle!Move(a, "active", <<a, n>>, n)
      /\ \A b \in Generations : job'[b] = IF b = a THEN r ELSE job[b]
  BY <1>0, <1>1, <1>2, RowMoves
<1>4. [b \in Generations |-> Phase(job[b])][a] = "waiting"
  <2>1. Phase(job[a]) = "waiting"
    BY <1>1 DEF Phase, Claimable
  <2> QED BY <2>1
<1>5. \A i \in Generations : [b \in Generations |-> AttemptAt(b, job[b])][i] # <<a, n>>
  <2>1. \A i \in Generations : AttemptAt(i, job[i]) # <<a, n>>
    BY <1>1, SourceAssumption DEF AttemptAt, NoAttempt, Claimable
  <2> QED BY <2>1
<1>6. UNCHANGED [b \in Generations |-> DomainOf(generation[b].status)]
  BY <1>1, NothingSeen
<1>7. [b \in Generations |-> job[b].charged][a] < MaxAttempts /\ [b \in Generations |-> job[b].charged][a] + 1 = n
  BY <1>a
<1>8. Lifecycle!Start(a, <<a, n>>)
  BY <1>3, <1>4, <1>5, <1>6, <1>7 DEF Lifecycle!Start, Lifecycle!Move
<1>9. Together'
  BY <1>1, <1>2, <1>3 DEF Together, Claimable, TERMINAL_JOB_STATUSES
<1> QED BY <1>8, <1>9 DEF Lifecycle!Next

\* The row of a running job is released, as far as its life cycle is concerned.
LEMMA Releases ==
  ASSUME SInv, NEW a \in Generations, job[a].status = "running",
         NEW st \in {"retryable_failed", "succeeded", "failed"}, NEW p, p = IF st = "retryable_failed" THEN "waiting" ELSE "ended",
         job' = [job EXCEPT ![a] = Released(job[a], st)], NEW n, n = job[a].charged
  PROVE  /\ Lifecycle!Move(a, p, NoAttempt, n)
         /\ [b \in Generations |-> Phase(job[b])][a] = "active"
         /\ [b \in Generations |-> job[b].charged][a] = n
         /\ n \in 0..MaxAttempts
         /\ job'[a].status = st /\ \A b \in Generations : b # a => job'[b] = job[b]
<1>0. TypeOK /\ job \in [Generations -> JobRow]
  BY RowTypes DEF SInv
<1>1. PICK r : r = Released(job[a], st) /\ job' = [job EXCEPT ![a] = r]
  OBVIOUS
<1>2. r.status = st /\ r.charged = n /\ n \in 0..MaxAttempts
  BY <1>0, <1>1 DEF Released, JobRow
<1>3. Phase(r) = p /\ AttemptAt(a, r) = NoAttempt
  BY <1>2 DEF Phase, Claimable, AttemptAt
<1>4. /\ Lifecycle!Move(a, p, NoAttempt, n)
      /\ \A b \in Generations : job'[b] = IF b = a THEN r ELSE job[b]
  BY <1>0, <1>1, <1>2, <1>3, RowMoves
<1>5. [b \in Generations |-> Phase(job[b])][a] = "active"
  <2>1. Phase(job[a]) = "active"
    BY DEF Phase, Claimable
  <2> QED BY <2>1
<1> QED BY <1>2, <1>4, <1>5

\* An attempt that is given up is repeated or exhausts the job.
LEMMA GiveUpRepeatsOrExhausts ==
  ASSUME SInv, Together, NEW a \in Generations, job[a].status = "running", GiveUpAttempt(a)
  PROVE  Lifecycle!Next /\ Together'
<1>0. TypeOK /\ job \in [Generations -> JobRow] /\ MaxAttempts \in Nat
  BY RowTypes, SourceAssumption DEF SInv
<1>1. PICK n : n = job[a].charged
  OBVIOUS
<1>2. n \in 0..MaxAttempts /\ generation[a].status \notin Settled
  BY <1>0, <1>1 DEF JobRow, Together, TERMINAL_JOB_STATUSES
<1>3. CASE n < MaxAttempts
  <2>1. job' = [job EXCEPT ![a] = Released(job[a], "retryable_failed")] /\ generation' = generation
    BY <1>1, <1>3 DEF GiveUpAttempt
  <2>2. /\ Lifecycle!Move(a, "waiting", NoAttempt, n)
        /\ [b \in Generations |-> Phase(job[b])][a] = "active"
        /\ [b \in Generations |-> job[b].charged][a] = n
        /\ job'[a].status = "retryable_failed" /\ \A b \in Generations : b # a => job'[b] = job[b]
    BY <1>1, <2>1, Releases
  <2>3. UNCHANGED [b \in Generations |-> DomainOf(generation[b].status)]
    BY <2>1, NothingSeen
  <2>4. Lifecycle!Repeat(a, n)
    BY <1>3, <2>2, <2>3 DEF Lifecycle!Repeat
  <2>5. Together'
    BY <1>2, <2>1, <2>2 DEF Together, TERMINAL_JOB_STATUSES
  <2> QED BY <1>2, <2>4, <2>5 DEF Lifecycle!Next
<1>4. CASE ~(n < MaxAttempts)
  <2>1. job' = [job EXCEPT ![a] = Released(job[a], "failed")] /\ generation' = [generation EXCEPT ![a].status = "failed"]
    BY <1>1, <1>2, <1>4 DEF GiveUpAttempt, finalize_exhausted_raw_material_generation_job, Settled
  <2>2. /\ Lifecycle!Move(a, "ended", NoAttempt, n)
        /\ [b \in Generations |-> Phase(job[b])][a] = "active"
        /\ [b \in Generations |-> job[b].charged][a] = n
        /\ job'[a].status = "failed" /\ \A b \in Generations : b # a => job'[b] = job[b]
    BY <1>1, <2>1, Releases
  <2>3. Becomes(a, "failed")
    BY <1>0, <2>1, StatusBecomes
  <2>4. Lifecycle!Close(a)
    BY <2>3, ResultCloses DEF Settled
  <2>5. n = MaxAttempts
    BY <1>0, <1>2, <1>4
  <2>6. Lifecycle!Exhaust(a)
    BY <2>2, <2>4, <2>5 DEF Lifecycle!Exhaust, Lifecycle!Move
  <2>7. Together'
    BY <2>2, <2>3 DEF Together, Becomes, Settled, TERMINAL_JOB_STATUSES
  <2> QED BY <2>6, <2>7 DEF Lifecycle!Next
<1> QED BY <1>3, <1>4

\* A result ends the job and closes what it drives.
LEMMA ResultEnds ==
  ASSUME SInv, Together, Ends
  PROVE  Lifecycle!Next /\ Together'
<1>1. PICK a \in Generations, st \in Settled :
        job[a].status = "running" /\ Becomes(a, st) /\ job' = [job EXCEPT ![a] = Released(job[a], st)]
  BY DEF Ends
<1>2. PICK n : n = job[a].charged
  OBVIOUS
<1>3. /\ Lifecycle!Move(a, "ended", NoAttempt, n)
      /\ [b \in Generations |-> Phase(job[b])][a] = "active"
      /\ [b \in Generations |-> job[b].charged][a] = n
      /\ job'[a].status = st /\ \A b \in Generations : b # a => job'[b] = job[b]
  BY <1>1, <1>2, Releases DEF Settled
<1>4. Lifecycle!Close(a)
  BY <1>1, ResultCloses
<1>5. Lifecycle!End(a)
  BY <1>3, <1>4 DEF Lifecycle!End, Lifecycle!Move
<1>6. Together'
  BY <1>1, <1>3 DEF Together, Becomes, Settled, TERMINAL_JOB_STATUSES
<1> QED BY <1>5, <1>6 DEF Lifecycle!Next

\* Each kind of step is one of the life cycle and keeps job and generation
\* together.
LEMMA GenerationsSimulate ==
  ASSUME SInv, Together, [Next]_vars
  PROVE  ([Lifecycle!Next]_(Lifecycle!lifecycle)) /\ Together'
<1>1. CASE Quiet
  <2>1. UNCHANGED Lifecycle!lifecycle
    BY <1>1, NothingSeen DEF Quiet
  <2>2. Together'
    BY <1>1 DEF Quiet, Together
  <2> QED BY <2>1, <2>2
<1>2. CASE Asked
  BY <1>2, RequestSubmits
<1>3. CASE Given
  BY <1>3, GiveUpRepeatsOrExhausts DEF Given
<1>4. CASE Ends
  BY <1>4, ResultEnds
<1>5. CASE \E s \in Slots, g \in Generations : claim_next_job(s, g)
  BY <1>5, ClaimStarts
<1> QED BY <1>1, <1>2, <1>3, <1>4, <1>5, JobsDo

\* Each generation goes through the life of a job: one attempt at a time out of
\* a bounded budget, and a result, with the job's end, that no late attempt and
\* no lost answer takes back (process_skill_raw_material_generation_job and its
\* exhausted finalizer).
THEOREM GenerationsImplementLifecycle == Spec => GenerationsAreJobs
<1>1. Init => Lifecycle!Init /\ Together
  <2> SUFFICES ASSUME Init PROVE Lifecycle!Init /\ Together
    OBVIOUS
  <2>1. Phase(NoJob) = "absent" /\ NoJob.status = "absent" /\ NoJob.charged = 0
    BY DEF Phase, NoJob, Claimable
  <2>2. \A g \in Generations : Phase(job[g]) = "absent" /\ AttemptAt(g, job[g]) = NoAttempt /\ job[g].charged = 0
    BY <2>1 DEF Init, AttemptAt
  <2>3. \A g \in Generations : generation[g].status = "absent" /\ DomainOf(generation[g].status) = "open"
    BY DEF Init, DomainOf
  <2>4. Together
    BY <2>1, <2>3 DEF Init, Together, Settled, TERMINAL_JOB_STATUSES
  <2> QED BY <2>2, <2>3, <2>4 DEF Lifecycle!Init
<1>2. SInv /\ Together /\ [Next]_vars => ([Lifecycle!Next]_(Lifecycle!lifecycle)) /\ Together'
  BY GenerationsSimulate
<1> QED BY <1>1, <1>2, SourceInvariance, PTL DEF Spec, GenerationsAreJobs, Lifecycle!Spec
=============================================================================
