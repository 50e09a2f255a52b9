--------------------------- MODULE Uploads_proofs ---------------------------
(* Proofs about what is uploaded: TerminalIngest, the media of a terminal     *)
(* event, for every number of requests, files, places, faults and             *)
(* cancellations; and RawMaterial, a raw material of a skill and what is made *)
(* of it, for every number of analyses, attempts, slots and callers.          *)
EXTENDS TerminalIngest, RawMaterial, FiniteSetTheorems, TLAPS


Keys == Requests \X (1..MaxFiles)

(* Before the first upload; while files are uploaded or recorded.             *)
Early == {"arrived", "admitted", "preflight", "inspect"}
Storing == {"upload", "drop", "persist"}
Clearing == {"reload", "cleanup", "delete"}
Stages == Early \union Storing \union Clearing \union {"closing"} \union Finished

(* What a request has uploaded, in order, and what is left of it.             *)
UploadsFit(r) ==
    /\ \A i \in DOMAIN sent[r] : sent[r][i] = Key(r, i)
    /\ Len(sent[r]) <= Len(body[r].files)
    /\ pc[r] \in Storing \union Clearing \union {"preflight", "inspect"} => Len(body[r].files) <= MaxFiles
    /\ pc[r] \in Early => sent[r] = <<>>
    /\ pc[r] = "drop" => Len(sent[r]) < Len(body[r].files)
    /\ pc[r] = "closing" => body[r].multipart

(* Its rows have their objects, and appear with the commit of _persist only;  *)
(* what _referenced_uploaded_objects kept are its rows.  A request cancelled  *)
(* in its transaction is excepted from both.                                  *)
RowsFit(r) ==
    /\ <<r, "transaction">> \notin cut => \A i \in 1..MaxFiles : Key(r, i) \in rows => Key(r, i) \in objects
    /\ pc[r] \in Storing => \A i \in DOMAIN sent[r] : Key(r, i) \in objects
    /\ pc[r] \in Early \union Storing \union {"reload"} => \A i \in 1..MaxFiles : Key(r, i) \notin rows
    /\ r \in abandoned => <<r, "transaction">> \in cut /\ pc[r] \notin Early \union Storing \union {"reload"}
    /\ pc[r] = "delete" =>
         /\ kept[r] \subseteq rows
         /\ <<r, "transaction">> \notin cut => Elements(sent[r]) \intersect rows \subseteq kept[r]

(* Without faults, an object without a row is one that a request under way    *)
(* knows to be its own, or that of a request cancelled in its cleanup.        *)
LeftoversKnown(r) ==
    faults = 0 /\ <<r, "cleanup">> \notin cut =>
        \A i \in 1..MaxFiles : Key(r, i) \in objects \ rows =>
            /\ pc[r] \in Storing \union Clearing
            /\ i \in DOMAIN sent[r] \/ (pc[r] = "drop" /\ i = Len(sent[r]) + 1)

(* An answer is an event of the log with the request's own external id.       *)
AnswerFits(r) ==
    /\ answer[r] \in 0..Len(log)
    /\ answer[r] # 0 /\ body[r].ext # NoId => log[answer[r]].ext = body[r].ext

LogFits ==
    /\ log \in Seq(Elements(log))
    /\ \A i, j \in DOMAIN log : log[i].ext = log[j].ext /\ log[i].ext # NoId => i = j

(* The semaphore's places are free, taken by the uploads under way, or kept   *)
(* by those that were stopped while they closed their files.                  *)
Busy == {r \in Requests : body[r].multipart /\ pc[r] \notin {"arrived", "done", "lost"}}
PlacesAddUp == IsFiniteSet(Busy) /\ free \in Nat /\ free + Cardinality(Busy) = Workers

AskType == [kind : {"none", "bad", "stale", "etag", "from", "tail", "span"}, a : Nat, b : Nat]
ServedType == [status : {0, 200, 206, 304, 416, 502}, first : Int, last : Int, left : Int,
               asked : AskType, size : Nat, body : {"open", "closed", "broken"}]

TInv ==
    /\ TypeOK
    /\ \A r \in Requests : body[r] \in Carries[r]
    /\ sent \in [Requests -> Seq(Keys)] /\ kept \in [Requests -> SUBSET Keys]
    /\ \A r \in Requests : UploadsFit(r) /\ RowsFit(r) /\ LeftoversKnown(r) /\ AnswerFits(r)
    /\ LogFits /\ PlacesAddUp /\ served \in ServedType /\ ServedAsAsked

LEMMA Bounds ==
  /\ MaxFiles \in Nat \ {0} /\ Workers \in Nat \ {0} /\ MaxFaults \in Nat /\ MaxCancels \in Nat
  /\ \A r \in Requests : \A b \in Carries[r] :
       b.multipart \in BOOLEAN /\ b.files \in Seq([kind : STRING, size : Nat]) /\ (b.files # <<>> => b.multipart)
BY IngestAssumption DEF IngestAssumption

(* A request that goes on keeps its place.                                    *)
LEMMA PlaceStays ==
  ASSUME NEW r \in Requests, PlacesAddUp, UNCHANGED <<body, free>>,
         \A q \in Requests : q # r => pc'[q] = pc[q],
         pc[r] \notin {"done", "lost"}, pc'[r] \notin {"done", "lost"},
         body[r].multipart => pc[r] # "arrived" /\ pc'[r] # "arrived"
  PROVE  PlacesAddUp'
<1>1. Busy' = Busy
  BY DEF Busy
<1> QED BY <1>1 DEF PlacesAddUp

(* One that is done has given its place back, if it had one.                  *)
LEMMA PlaceGivenBack ==
  ASSUME NEW r \in Requests, PlacesAddUp, pc \in [Requests -> Stages], pc[r] \notin Finished,
         UNCHANGED body, pc' = [pc EXCEPT ![r] = "done"],
         free' = IF body[r].multipart /\ pc[r] # "arrived" THEN free + 1 ELSE free
  PROVE  PlacesAddUp'
<1>2. CASE body[r].multipart /\ pc[r] # "arrived"
  <2>1. r \in Busy /\ Busy' = Busy \ {r}
    BY <1>2 DEF Busy, Finished
  <2>2. free' = free + 1
    BY <1>2
  <2>3. IsFiniteSet(Busy') /\ Cardinality(Busy') = Cardinality(Busy) - 1
    BY <2>1, FS_RemoveElement DEF PlacesAddUp
  <2>4. Cardinality(Busy) \in Nat
    BY FS_CardinalityType DEF PlacesAddUp
  <2> QED BY <2>2, <2>3, <2>4 DEF PlacesAddUp
<1>3. CASE ~(body[r].multipart /\ pc[r] # "arrived")
  <2>1. Busy' = Busy /\ free' = free
    BY <1>3 DEF Busy, Finished
  <2> QED BY <2>1 DEF PlacesAddUp
<1> QED BY <1>2, <1>3

(* acquire takes a place.                                                     *)
LEMMA PlaceTaken ==
  ASSUME NEW r \in Requests, PlacesAddUp, pc \in [Requests -> Stages], UNCHANGED body, acquire(r)
  PROVE  PlacesAddUp'
<1>1. r \notin Busy /\ Busy' = Busy \union {r}
  BY DEF acquire, Move, Busy, Finished
<1>2. IsFiniteSet(Busy') /\ Cardinality(Busy') = Cardinality(Busy) + 1
  BY <1>1, FS_AddElement DEF PlacesAddUp
<1>3. Cardinality(Busy) \in Nat
  BY FS_CardinalityType DEF PlacesAddUp
<1> QED BY <1>2, <1>3 DEF PlacesAddUp, acquire

\* Request r moves on: only one with files has some to close.
Goes(r, to) == pc' = [pc EXCEPT ![r] = to] /\ pc'[r] = to /\ (to = "closing" => body[r].multipart)

(* A request that leaves has files to close, or is done.                      *)
LEMMA Leaves ==
  ASSUME TInv, NEW r \in Requests, NEW a, pc[r] \notin Finished \union {"closing"}, UNCHANGED body, Leave(r, a)
  PROVE  /\ answer' = [answer EXCEPT ![r] = a] /\ PlacesAddUp'
         /\ \E to \in {"closing", "done"} : Goes(r, to)
<1>1. TypeOK /\ PlacesAddUp /\ pc \in [Requests -> Stages] /\ pc[r] \notin Finished
  BY DEF TInv, TypeOK, Stages, Early, Storing, Clearing, Finished
<1> USE DEF Goes
<1>2. CASE Move(r, "done") /\ free' = IF HasPlace(r) THEN free + 1 ELSE free
  <2>1. pc' = [pc EXCEPT ![r] = "done"] /\ pc'[r] = "done"
    BY <1>1, <1>2 DEF Move
  <2> QED BY <1>1, <1>2, <2>1, PlaceGivenBack DEF HasPlace, Leave
<1>3. CASE /\ pc[r] \notin {"arrived", "admitted"}
           /\ \E f \in Elements(body[r].files) : f.size > SpoolSize
           /\ Move(r, "closing") /\ UNCHANGED free
  <2>1. pc' = [pc EXCEPT ![r] = "closing"] /\ pc'[r] = "closing"
    BY <1>1, <1>3 DEF Move
  <2>2. body[r].files # <<>>
    BY <1>3 DEF Elements
  <2>3. body[r].multipart
    BY <2>2, Bounds DEF TInv
  <2>4. PlacesAddUp'
    BY <1>1, <1>3, <2>1, PlaceStays DEF Finished
  <2> QED BY <2>1, <2>3, <2>4 DEF Leave
<1> QED BY <1>2, <1>3 DEF Leave

(* The event found for an external id has that id; none is found only if no   *)
(* event has it.                                                              *)
LEMMA LookUp ==
  ASSUME LogFits, NEW ext
  PROVE  LET e == get_terminal_event_by_external_id(ext) IN
         /\ e \in 0..Len(log)
         /\ e # 0 => log[e].ext = ext
         /\ e = 0 /\ ext # NoId => \A i \in DOMAIN log : log[i].ext # ext
<1>1. Len(log) \in Nat /\ DOMAIN log = 1..Len(log)
  BY DEF LogFits
<1>2. CASE ext = NoId \/ ~\E i \in DOMAIN log : log[i].ext = ext
  BY <1>1, <1>2 DEF get_terminal_event_by_external_id
<1>3. CASE ext # NoId /\ \E i \in DOMAIN log : log[i].ext = ext
  <2> DEFINE e == CHOOSE i \in DOMAIN log : log[i].ext = ext
  <2>1. e \in DOMAIN log /\ log[e].ext = ext
    BY <1>3
  <2> QED BY <1>1, <1>3, <2>1 DEF get_terminal_event_by_external_id
<1> QED BY <1>2, <1>3

(* What a step of request r leaves alone, and how the log and the counters    *)
(* move.                                                                      *)
StepOf(r) ==
    /\ UNCHANGED <<body, session, served>>
    /\ pc' \in [Requests -> Stages]
    /\ sent' \in [Requests -> Seq(Keys)] /\ kept' \in [Requests -> SUBSET Keys]
    /\ rows \subseteq rows' /\ rows' \subseteq Keys /\ objects' \subseteq Keys
    /\ abandoned' \subseteq Requests /\ cut' \subseteq Requests \X {"transaction", "cleanup"}
    /\ faults' \in faults..MaxFaults /\ cancels' \in 0..MaxCancels
    /\ answer' \in [Requests -> Nat]
    /\ \A q \in Requests : q # r =>
          /\ pc'[q] = pc[q] /\ sent'[q] = sent[q] /\ kept'[q] = kept[q] /\ answer'[q] = answer[q]
          /\ q \in abandoned' <=> q \in abandoned
          /\ \A what \in {"transaction", "cleanup"} : <<q, what>> \in cut' <=> <<q, what>> \in cut
          /\ \A i \in 1..MaxFiles : /\ Key(q, i) \in objects' <=> Key(q, i) \in objects
                                    /\ Key(q, i) \in rows' <=> Key(q, i) \in rows
    /\ Len(log') >= Len(log) /\ \A i \in DOMAIN log : log'[i] = log[i]

(* The keys a request has sent are its own.                                   *)
LEMMA SentFacts ==
  ASSUME TInv, NEW r \in Requests
  PROVE  /\ sent[r] \in Seq(Keys) /\ Len(sent[r]) \in Nat /\ DOMAIN sent[r] = 1..Len(sent[r])
         /\ \A i \in DOMAIN sent[r] : i \in 1..MaxFiles /\ sent[r][i] = Key(r, i)
         /\ Elements(sent[r]) \subseteq Keys
         /\ \A k \in Elements(sent[r]) : \E i \in DOMAIN sent[r] : k = Key(r, i)
<1>1. sent[r] \in Seq(Keys) /\ \A i \in DOMAIN sent[r] : sent[r][i] = Key(r, i)
  BY DEF TInv, UploadsFit
<1>2. Len(sent[r]) \in Nat /\ DOMAIN sent[r] = 1..Len(sent[r]) /\ \A i \in DOMAIN sent[r] : sent[r][i] \in Keys
  BY <1>1
<1>3. \A i \in DOMAIN sent[r] : i \in 1..MaxFiles
  BY <1>1, <1>2 DEF Keys, Key
<1> QED BY <1>1, <1>2, <1>3 DEF Elements

(* Another request's step does not disturb a request.                         *)
LEMMA OthersStay ==
  ASSUME TInv, NEW r \in Requests, StepOf(r), LogFits', NEW q \in Requests, q # r
  PROVE  UploadsFit(q)' /\ RowsFit(q)' /\ LeftoversKnown(q)' /\ AnswerFits(q)'
<1>0. /\ UploadsFit(q) /\ RowsFit(q) /\ LeftoversKnown(q) /\ AnswerFits(q)
      /\ body' = body /\ pc'[q] = pc[q] /\ sent'[q] = sent[q] /\ kept'[q] = kept[q] /\ answer'[q] = answer[q]
  BY DEF TInv, StepOf
<1>1. UploadsFit(q)'
  BY <1>0 DEF UploadsFit
<1>2. \A i \in DOMAIN sent[q] : sent[q][i] = Key(q, i) /\ Key(q, i) \in Keys /\ i \in 1..MaxFiles
  BY SentFacts DEF Keys, Key
<1>3. Elements(sent[q]) \intersect rows' = Elements(sent[q]) \intersect rows
  <2>1. \A i \in DOMAIN sent[q] : sent[q][i] \in rows' <=> sent[q][i] \in rows
    BY <1>2 DEF StepOf
  <2> QED BY <2>1 DEF Elements
<1>4. RowsFit(q)'
  <2>1. /\ <<q, "transaction">> \in cut' <=> <<q, "transaction">> \in cut
        /\ q \in abandoned' <=> q \in abandoned
        /\ \A i \in 1..MaxFiles : /\ Key(q, i) \in objects' <=> Key(q, i) \in objects
                                  /\ Key(q, i) \in rows' <=> Key(q, i) \in rows
    BY DEF StepOf
  <2>2. pc[q] = "delete" => kept[q] \subseteq rows'
    BY <1>0 DEF RowsFit, StepOf
  <2> QED BY <1>0, <1>2, <1>3, <2>1, <2>2 DEF RowsFit
<1>5. faults' = 0 => faults = 0
  BY DEF StepOf, TInv, TypeOK
<1>6. LeftoversKnown(q)'
  BY <1>0, <1>5 DEF LeftoversKnown, StepOf
<1>7. AnswerFits(q)'
  <2>1. Len(log) \in Nat /\ Len(log') \in Nat /\ DOMAIN log = 1..Len(log) /\ Len(log') >= Len(log)
    BY DEF TInv, LogFits, StepOf
  <2>2. answer[q] \in 0..Len(log) /\ (answer[q] # 0 => log'[answer[q]] = log[answer[q]])
    BY <1>0, <2>1 DEF AnswerFits, StepOf
  <2> QED BY <1>0, <2>1, <2>2 DEF AnswerFits
<1> QED BY <1>1, <1>4, <1>6, <1>7

(* So a step of r keeps the invariant if it keeps r's part of it.             *)
LEMMA StepKeeps ==
  ASSUME TInv, NEW r \in Requests, StepOf(r),
         UploadsFit(r)', RowsFit(r)', LeftoversKnown(r)', AnswerFits(r)', LogFits', PlacesAddUp'
  PROVE  TInv'
<1>1. ASSUME NEW q \in Requests
      PROVE  UploadsFit(q)' /\ RowsFit(q)' /\ LeftoversKnown(q)' /\ AnswerFits(q)'
  BY OthersStay
<1>2. free' \in 0..Workers
  <2>1. Cardinality(Busy') \in Nat
    BY FS_CardinalityType DEF PlacesAddUp
  <2> QED BY <2>1, Bounds DEF PlacesAddUp
<1>3. TypeOK'
  <2>1. answer' \in [Requests -> 0..Len(log')]
    BY <1>1 DEF AnswerFits, StepOf, TInv, TypeOK
  <2>2. pc' \in [Requests -> {"arrived", "admitted", "preflight", "inspect", "upload", "drop",
                              "persist", "reload", "cleanup", "delete", "closing"} \union Finished]
    BY DEF StepOf, Stages, Early, Storing, Clearing
  <2>3. faults' \in 0..MaxFaults /\ cancels' \in 0..MaxCancels
    BY Bounds DEF StepOf, TInv, TypeOK
  <2>4. session' \in {"open", "closed"} /\ rows' \subseteq Keys /\ objects' \subseteq Keys
    BY DEF StepOf, TInv, TypeOK
  <2>5. abandoned' \subseteq Requests /\ cut' \subseteq Requests \X {"transaction", "cleanup"}
    BY DEF StepOf
  <2> QED BY <1>2, <2>1, <2>2, <2>3, <2>4, <2>5 DEF TypeOK, Keys
<1>4. ServedAsAsked'
  BY DEF TInv, StepOf, ServedAsAsked, Selected
<1> QED BY <1>1, <1>3, <1>4 DEF TInv, StepOf

(* Admission, parsing, preflight, inspection: nothing is stored yet.          *)
LEMMA EarlyStep ==
  ASSUME TInv, NEW r \in Requests, UNCHANGED <<body, served>>,
         \/ acquire(r) \/ CancelWaiting(r) \/ _parse_terminal_event_request(r)
         \/ _preflight(r) \/ _inspect_uploads(r)
  PROVE  TInv'
<1> USE DEF Goes
<1>1. /\ UploadsFit(r) /\ RowsFit(r) /\ LeftoversKnown(r) /\ AnswerFits(r) /\ LogFits /\ PlacesAddUp
      /\ TypeOK /\ body[r] \in Carries[r] /\ faults \in 0..MaxFaults /\ cancels \in 0..MaxCancels
  BY DEF TInv, TypeOK
<1>2. pc[r] \in Early /\ sent[r] = <<>>
  BY <1>1 DEF acquire, CancelWaiting, _parse_terminal_event_request, _preflight, _inspect_uploads, Early, UploadsFit
<1>3. UNCHANGED <<session, log, rows, objects, sent, kept, abandoned, cut>>
  BY DEF acquire, CancelWaiting, _parse_terminal_event_request, _preflight, _inspect_uploads
<1>4. Undisturbed \/ Interrupted
  BY DEF acquire, CancelWaiting, _parse_terminal_event_request, _preflight, _inspect_uploads, Undisturbed, Interrupted
<1>5. faults' \in faults..MaxFaults /\ cancels' \in 0..MaxCancels
  BY <1>1, <1>4, Bounds DEF Undisturbed, Interrupted, Fault, Cancel
<1>6. Len(log) \in Nat /\ get_terminal_event_by_external_id(body[r].ext) \in 0..Len(log)
  BY <1>1, LookUp DEF LogFits
<1>7. pc[r] \notin Finished \union {"closing"}
  BY <1>2 DEF Early, Finished
<1>8. PICK to \in {"admitted", "preflight", "inspect", "upload", "closing", "done"} :
        /\ Goes(r, to)
        /\ PlacesAddUp'
        /\ \/ UNCHANGED answer
           \/ \E a \in {0, get_terminal_event_by_external_id(body[r].ext)} : answer' = [answer EXCEPT ![r] = a]
        /\ to \in {"preflight", "inspect", "upload"} => Len(body[r].files) <= MaxFiles
  <2> DEFINE goal == \E to \in {"admitted", "preflight", "inspect", "upload", "closing", "done"} :
        /\ Goes(r, to)
        /\ PlacesAddUp'
        /\ \/ UNCHANGED answer
           \/ \E a \in {0, get_terminal_event_by_external_id(body[r].ext)} : answer' = [answer EXCEPT ![r] = a]
        /\ to \in {"preflight", "inspect", "upload"} => Len(body[r].files) <= MaxFiles
  <2>1. ASSUME NEW a \in {0, get_terminal_event_by_external_id(body[r].ext)}, Leave(r, a)
        PROVE  goal
    <3>1. /\ answer' = [answer EXCEPT ![r] = a] /\ PlacesAddUp'
          /\ \E to \in {"closing", "done"} : Goes(r, to)
      BY <1>7, <2>1, Leaves
    <3>2. PICK to \in {"closing", "done"} : Goes(r, to)
      BY <3>1
    <3>3. /\ to \in {"admitted", "preflight", "inspect", "upload", "closing", "done"}
          /\ to \notin {"preflight", "inspect", "upload"}
      BY <3>2
    <3> QED BY <2>1, <3>1, <3>2, <3>3
  <2>2. ASSUME NEW to \in {"preflight", "inspect", "upload"}, Move(r, to), UNCHANGED <<free, answer>>,
               body[r].multipart => pc[r] # "arrived", Len(body[r].files) <= MaxFiles
        PROVE  goal
    <3>1. /\ pc' = [pc EXCEPT ![r] = to] /\ pc'[r] = to /\ pc \in [Requests -> Stages]
          /\ \A q \in Requests : q # r => pc'[q] = pc[q]
      BY <1>1, <2>2 DEF Move, TypeOK, Stages, Early, Storing, Clearing, Finished
    <3>2. pc[r] \notin {"done", "lost"}
      BY <1>2 DEF Early
    <3>3. PlacesAddUp'
      BY <1>1, <2>2, <3>1, <3>2, PlaceStays
    <3> QED BY <2>2, <3>1, <3>3
  <2>3. CASE acquire(r)
    <3>1. pc \in [Requests -> Stages]
      BY <1>1 DEF TypeOK, Stages, Early, Storing, Clearing, Finished
    <3>2. PlacesAddUp'
      BY <1>1, <2>3, <3>1, PlaceTaken
    <3>3. pc' = [pc EXCEPT ![r] = "admitted"] /\ pc'[r] = "admitted" /\ UNCHANGED answer
      BY <2>3, <3>1 DEF acquire, Move
    <3> QED BY <3>2, <3>3
  <2>4. CASE CancelWaiting(r)
    BY <2>1, <2>4 DEF CancelWaiting
  <2>5. CASE _parse_terminal_event_request(r)
    <3>1. CASE \E a \in {0} : Leave(r, a)
      BY <2>1, <3>1
    <3>2. CASE ~ParseRefuses(body[r]) /\ Move(r, "preflight") /\ UNCHANGED <<free, answer>>
      <4>1. Len(body[r].files) <= MaxFiles
        <5>1. Len(<<>>) = 0 /\ MaxFiles \in Nat /\ body[r].files \in Seq([kind : STRING, size : Nat])
          BY <1>1, Bounds
        <5> QED BY <1>1, <3>2, <5>1, Bounds DEF ParseRefuses, _parse_multipart_refuses
      <4>2. body[r].multipart => pc[r] # "arrived"
        BY <2>5 DEF _parse_terminal_event_request
      <4> QED BY <2>2, <3>2, <4>1, <4>2
    <3> QED BY <2>5, <3>1, <3>2 DEF _parse_terminal_event_request
  <2>6. CASE _preflight(r)
    <3>1. pc[r] = "preflight" /\ Len(body[r].files) <= MaxFiles
      BY <1>1, <2>6 DEF _preflight, UploadsFit
    <3>2. CASE \E a \in {0, get_terminal_event_by_external_id(body[r].ext)} : Leave(r, a)
      BY <2>1, <3>2
    <3>3. CASE Move(r, "inspect") /\ UNCHANGED <<free, answer>>
      BY <2>2, <3>1, <3>3
    <3> QED BY <2>6, <3>2, <3>3 DEF _preflight
  <2>7. CASE _inspect_uploads(r)
    <3>1. pc[r] = "inspect" /\ Len(body[r].files) <= MaxFiles
      BY <1>1, <2>7 DEF _inspect_uploads, UploadsFit
    <3>2. CASE \E a \in {0} : Leave(r, a)
      BY <2>1, <3>2
    <3>3. CASE Move(r, "upload") /\ UNCHANGED <<free, answer>>
      BY <2>2, <3>1, <3>3
    <3> QED BY <2>7, <3>2, <3>3 DEF _inspect_uploads
  <2> QED BY <2>3, <2>4, <2>5, <2>6, <2>7
<1>9. StepOf(r)
  <2>1. pc' \in [Requests -> Stages] /\ \A q \in Requests : q # r => pc'[q] = pc[q]
    BY <1>1, <1>8 DEF TypeOK, Stages, Early, Storing, Clearing, Finished
  <2>2. answer' \in [Requests -> Nat] /\ \A q \in Requests : q # r => answer'[q] = answer[q]
    BY <1>1, <1>6, <1>8 DEF TypeOK
  <2>3. Len(log') >= Len(log) /\ \A i \in DOMAIN log : log'[i] = log[i]
    BY <1>3, <1>6
  <2> QED BY <1>3, <1>5, <2>1, <2>2, <2>3 DEF StepOf, TInv, TypeOK, Keys
<1>10. UploadsFit(r)'
  <2>1. Len(sent[r]) = 0 /\ Len(body[r].files) \in Nat /\ DOMAIN sent[r] = {}
    BY <1>1, <1>2, Bounds DEF Early
  <2> QED BY <1>2, <1>3, <1>8, <2>1 DEF UploadsFit, Storing, Clearing
<1>11. RowsFit(r)'
  BY <1>1, <1>2, <1>3, <1>8 DEF RowsFit, Storing, Early
<1>12. LeftoversKnown(r)'
  <2>1. faults' = 0 => faults = 0
    BY <1>1, <1>5
  <2> QED BY <1>1, <1>2, <1>3, <1>8, <2>1 DEF LeftoversKnown, Storing, Early, Clearing
<1>13. AnswerFits(r)'
  <2>1. answer'[r] \in {answer[r], 0, get_terminal_event_by_external_id(body[r].ext)}
    BY <1>1, <1>8 DEF TypeOK
  <2> QED BY <1>1, <1>3, <1>6, <2>1, LookUp DEF AnswerFits
<1>14. LogFits'
  BY <1>1, <1>3 DEF LogFits, Elements
<1> QED BY <1>8, <1>9, <1>10, <1>11, <1>12, <1>13, <1>14, StepKeeps

(* The keys of different requests, or of different files, are different.      *)
LEMMA KeysDiffer ==
  ASSUME NEW q, NEW r, NEW i, NEW j, Key(q, i) = Key(r, j)
  PROVE  q = r /\ i = j
BY DEF Key

(* What is known of a request that has begun to upload.                       *)
LEMMA UploadFacts ==
  ASSUME TInv, NEW r \in Requests, pc[r] \in Storing \union Clearing
  PROVE  /\ sent[r] \in Seq(Keys) /\ Len(sent[r]) \in Nat /\ DOMAIN sent[r] = 1..Len(sent[r])
         /\ Len(sent[r]) <= Len(body[r].files) /\ Len(body[r].files) <= MaxFiles /\ Len(body[r].files) \in Nat
         /\ \A i \in DOMAIN sent[r] : i \in 1..MaxFiles /\ sent[r][i] = Key(r, i)
         /\ pc[r] \notin Finished \union {"closing"} /\ pc[r] # "arrived" /\ Len(log) \in Nat
BY Bounds DEF TInv, UploadsFit, Storing, Clearing, Finished, LogFits

(* A step that moves r on and changes only what is stored under its own keys. *)
LEMMA StoreStep ==
  ASSUME TInv, NEW r \in Requests, pc[r] \in Storing \union Clearing,
         NEW to \in Storing \union Clearing, pc' = [pc EXCEPT ![r] = to],
         UNCHANGED <<body, served, session, log, rows, free, answer, abandoned, cut>>,
         faults' \in faults..MaxFaults, cancels' \in 0..MaxCancels,
         sent' \in [Requests -> Seq(Keys)], kept' \in [Requests -> SUBSET Keys],
         \A q \in Requests : q # r => sent'[q] = sent[q] /\ kept'[q] = kept[q],
         NEW i \in 1..MaxFiles, objects' \in {objects, objects \union {Key(r, i)}, objects \ {Key(r, i)}},
         UploadsFit(r)', RowsFit(r)', LeftoversKnown(r)'
  PROVE  TInv'
<1>1. pc'[r] = to /\ \A q \in Requests : q # r => pc'[q] = pc[q]
  BY DEF TInv, TypeOK
<1>2. pc' \in [Requests -> Stages]
  BY DEF TInv, TypeOK, Stages, Early, Storing, Clearing, Finished
<1>3. StepOf(r)
  <2>1. \A q \in Requests : q # r => \A j \in 1..MaxFiles : Key(q, j) # Key(r, i)
    BY KeysDiffer
  <2>2. objects' \subseteq Keys /\ rows' \subseteq Keys /\ answer' \in [Requests -> Nat]
    BY SMTT(30) DEF TInv, TypeOK, Keys, Key, LogFits
  <2>3. Len(log') >= Len(log)
    BY DEF TInv, LogFits
  <2>4. abandoned' \subseteq Requests /\ cut' \subseteq Requests \X {"transaction", "cleanup"}
    BY DEF TInv, TypeOK
  <2> QED BY <1>1, <1>2, <2>1, <2>2, <2>3, <2>4 DEF StepOf
<1>4. AnswerFits(r)' /\ LogFits'
  BY DEF TInv, AnswerFits, LogFits, Elements
<1>5. PlacesAddUp'
  BY <1>1, UploadFacts, PlaceStays DEF TInv, Storing, Clearing, Finished
<1> QED BY <1>3, <1>4, <1>5, StepKeeps

(* One upload, successful, failed or cancelled.                               *)
LEMMA UploadStep ==
  ASSUME TInv, NEW r \in Requests, UNCHANGED <<body, served>>, _upload(r)
  PROVE  TInv'
<1> DEFINE n == Len(sent[r]) + 1
<1> DEFINE key == Key(r, n)
<1>1. pc[r] = "upload" /\ Len(sent[r]) < Len(body[r].files)
  BY DEF _upload
<1>2. /\ UploadsFit(r) /\ RowsFit(r) /\ LeftoversKnown(r)
      /\ faults \in 0..MaxFaults /\ cancels \in 0..MaxCancels
      /\ sent \in [Requests -> Seq(Keys)] /\ kept \in [Requests -> SUBSET Keys]
  BY DEF TInv, TypeOK
<1>3. n \in 1..MaxFiles /\ key \in Keys /\ n <= Len(body[r].files)
  BY SMTT(30), <1>1, UploadFacts, Bounds DEF Storing, Keys, Key
<1>4. UNCHANGED <<session, log, rows, free, kept, answer, abandoned, cut>>
  BY DEF _upload
<1>5. CASE /\ objects' = objects \union {key}
           /\ sent' = [sent EXCEPT ![r] = Append(@, key)]
           /\ UNCHANGED pc /\ Undisturbed
  <2>1. sent'[r] = Append(sent[r], key)
    BY <1>2, <1>5
  <2>2. /\ sent'[r] \in Seq(Keys) /\ Len(sent'[r]) = n /\ DOMAIN sent'[r] = 1..n
        /\ \A i \in 1..n : sent'[r][i] = IF i = n THEN key ELSE sent[r][i]
    BY <1>1, <1>3, <2>1, UploadFacts DEF Storing
  <2>3. \A i \in DOMAIN sent'[r] : i \in DOMAIN sent[r] \/ i = n
    BY <1>1, <2>2, UploadFacts DEF Storing
  <2>4. UploadsFit(r)'
    BY <1>1, <1>2, <1>3, <1>5, <2>2, <2>3 DEF UploadsFit, Storing, Clearing, Early
  <2>5. RowsFit(r)'
    BY <1>1, <1>2, <1>3, <1>4, <1>5, <2>3 DEF RowsFit, Storing, Early
  <2>6. LeftoversKnown(r)'
    <3>1. \A i \in DOMAIN sent[r] : i \in DOMAIN sent'[r]
      BY <1>1, <2>2, UploadFacts DEF Storing
    <3>2. n \in DOMAIN sent'[r]
      BY <1>3, <2>2
    <3>3. \A i \in 1..MaxFiles : Key(r, i) = key => i = n
      BY KeysDiffer
    <3> QED BY <1>1, <1>2, <1>4, <1>5, <3>1, <3>2, <3>3 DEF LeftoversKnown, Storing, Clearing, Undisturbed
  <2>7. pc' = [pc EXCEPT ![r] = "upload"]
    BY <1>1, <1>5 DEF TInv, TypeOK
  <2>8. faults' \in faults..MaxFaults /\ cancels' \in 0..MaxCancels
    BY <1>2, <1>5, Bounds DEF Undisturbed
  <2>9. sent' \in [Requests -> Seq(Keys)] /\ \A q \in Requests : q # r => sent'[q] = sent[q]
    BY <1>2, <1>5, <2>1, <2>2
  <2> QED BY <1>1, <1>2, <1>3, <1>4, <1>5, <2>4, <2>5, <2>6, <2>7, <2>8, <2>9, StoreStep DEF Storing
<1>6. CASE /\ Interrupted
           /\ objects' \in {objects, objects \union {key}}
           /\ Move(r, "drop") /\ sent' = sent
  <2>1. faults' \in faults..MaxFaults /\ cancels' \in 0..MaxCancels
    BY <1>2, <1>6, Bounds DEF Interrupted, Fault, Cancel
  <2>2. pc' = [pc EXCEPT ![r] = "drop"] /\ pc'[r] = "drop"
    BY <1>6 DEF Move, TInv, TypeOK
  <2>3. UploadsFit(r)'
    BY <1>1, <1>2, <1>6, <2>2 DEF UploadsFit, Storing, Early
  <2>4. RowsFit(r)'
    BY <1>1, <1>2, <1>4, <1>6, <2>2 DEF RowsFit, Storing
  <2>5. \A i \in 1..MaxFiles : Key(r, i) = key => i = n
    BY KeysDiffer
  <2>6. faults' = 0 => faults = 0
    BY <1>2, <2>1
  <2>7. LeftoversKnown(r)'
    BY <1>1, <1>2, <1>4, <1>6, <2>2, <2>5, <2>6 DEF LeftoversKnown, Storing
  <2> QED BY <1>1, <1>2, <1>3, <1>4, <1>6, <2>1, <2>2, <2>3, <2>4, <2>7, StoreStep DEF Storing
<1> QED BY <1>5, <1>6 DEF _upload

(* The object of the interrupted upload is deleted, or that fails too.        *)
LEMMA DropStep ==
  ASSUME TInv, NEW r \in Requests, UNCHANGED <<body, served>>, _cleanup_object_key(r)
  PROVE  TInv'
<1> DEFINE n == Len(sent[r]) + 1
<1>1. pc[r] = "drop" /\ UNCHANGED <<session, log, rows, free, sent, kept, answer, abandoned, cut>>
  BY DEF _cleanup_object_key
<1>2. /\ UploadsFit(r) /\ RowsFit(r) /\ LeftoversKnown(r)
      /\ faults \in 0..MaxFaults /\ cancels \in 0..MaxCancels
      /\ sent \in [Requests -> Seq(Keys)] /\ kept \in [Requests -> SUBSET Keys]
  BY DEF TInv, TypeOK
<1>3. n \in 1..MaxFiles
  BY <1>1, <1>2, UploadFacts, Bounds DEF Storing, UploadsFit
<1>4. pc' = [pc EXCEPT ![r] = "cleanup"] /\ pc'[r] = "cleanup"
  BY DEF _cleanup_object_key, Move, TInv, TypeOK
<1>5. /\ faults' \in faults..MaxFaults /\ cancels' \in 0..MaxCancels
      /\ objects' = objects \ {Key(r, n)} \/ (objects' = objects /\ faults' # 0)
  BY <1>1, <1>2, Bounds DEF _cleanup_object_key, Fault, Cancel
<1>6. UploadsFit(r)'
  BY <1>1, <1>2, <1>4 DEF UploadsFit, Storing, Clearing, Early
<1>7. RowsFit(r)'
  BY <1>1, <1>2, <1>4 DEF RowsFit, Storing, Early
<1>8. LeftoversKnown(r)'
  BY <1>1, <1>2, <1>4, <1>5 DEF LeftoversKnown, Storing, Clearing
<1> QED BY <1>1, <1>2, <1>3, <1>4, <1>5, <1>6, <1>7, <1>8, StoreStep DEF Storing, Clearing

(* All files are there; the references of the request are read.               *)
LEMMA QuietStep ==
  ASSUME TInv, NEW r \in Requests, UNCHANGED <<body, served>>,
         \/ UploadsDone(r)
         \/ /\ pc[r] = "cleanup" /\ Move(r, "delete")
            /\ kept' = [kept EXCEPT ![r] = Elements(sent[r]) \intersect rows]
            /\ UNCHANGED <<session, log, rows, objects, free, sent, answer, abandoned, cut, faults, cancels>>
  PROVE  TInv'
<1>1. /\ UploadsFit(r) /\ RowsFit(r) /\ LeftoversKnown(r) /\ rows \subseteq Keys
      /\ faults \in 0..MaxFaults /\ cancels \in 0..MaxCancels
      /\ sent \in [Requests -> Seq(Keys)] /\ kept \in [Requests -> SUBSET Keys]
  BY DEF TInv, TypeOK, Keys
<1>2. /\ UNCHANGED <<session, log, rows, objects, free, sent, answer, abandoned, cut, faults, cancels>>
      /\ pc[r] \in {"upload", "cleanup"}
  BY DEF UploadsDone
<1>3. 1 \in 1..MaxFiles /\ faults' \in faults..MaxFaults /\ cancels' \in 0..MaxCancels
  BY <1>1, <1>2, Bounds
<1>4. CASE UploadsDone(r)
  <2>1. pc[r] = "upload" /\ pc' = [pc EXCEPT ![r] = "persist"] /\ pc'[r] = "persist" /\ kept' = kept
    BY <1>4 DEF UploadsDone, Move, TInv, TypeOK
  <2>2. UploadsFit(r)'
    BY <1>1, <1>2, <2>1 DEF UploadsFit, Storing, Clearing, Early
  <2>3. RowsFit(r)'
    BY <1>1, <1>2, <2>1 DEF RowsFit, Storing, Early
  <2>4. LeftoversKnown(r)'
    BY <1>1, <1>2, <2>1 DEF LeftoversKnown, Storing, Clearing
  <2> QED BY <1>1, <1>2, <1>3, <2>1, <2>2, <2>3, <2>4, StoreStep DEF Storing
<1>5. CASE /\ pc[r] = "cleanup" /\ Move(r, "delete")
           /\ kept' = [kept EXCEPT ![r] = Elements(sent[r]) \intersect rows]
  <2>1. pc' = [pc EXCEPT ![r] = "delete"] /\ pc'[r] = "delete"
    BY <1>5 DEF Move, TInv, TypeOK
  <2>2. /\ kept' \in [Requests -> SUBSET Keys] /\ kept'[r] = Elements(sent[r]) \intersect rows
        /\ \A q \in Requests : q # r => kept'[q] = kept[q]
    BY <1>1, <1>5
  <2>3. UploadsFit(r)'
    BY <1>1, <1>2, <1>5, <2>1 DEF UploadsFit, Storing, Clearing, Early
  <2>4. RowsFit(r)'
    BY <1>1, <1>2, <1>5, <2>1, <2>2 DEF RowsFit, Storing, Early, Elements
  <2>5. LeftoversKnown(r)'
    BY <1>1, <1>2, <1>5, <2>1 DEF LeftoversKnown, Storing, Clearing
  <2> QED BY <1>1, <1>2, <1>3, <1>5, <2>1, <2>2, <2>3, <2>4, <2>5, StoreStep DEF Clearing
<1> QED BY <1>4, <1>5

(* A cleanup that ends, or begins again, when it has deleted some of what the *)
(* request uploaded: nothing that it kept, and everything else if nothing cut *)
(* it short.                                                                  *)
LEMMA DeleteStep ==
  ASSUME TInv, NEW r \in Requests, pc[r] \in {"cleanup", "delete"},
         NEW to \in {"cleanup", "closing", "done"}, Goes(r, to), PlacesAddUp',
         NEW a \in {0, answer[r]}, answer' = [answer EXCEPT ![r] = a],
         UNCHANGED <<body, served, session, log, rows, sent, kept, abandoned>>,
         faults' \in faults..MaxFaults, cancels' \in 0..MaxCancels,
         cut' \in {cut, cut \union {<<r, "cleanup">>}},
         NEW gone \in SUBSET Elements(sent[r]), objects' = objects \ gone,
         <<r, "transaction">> \notin cut => gone \intersect rows = {},
         \/ to = "cleanup" \/ <<r, "cleanup">> \in cut' \/ faults' # 0
         \/ (Elements(sent[r]) \intersect objects) \ rows \subseteq gone
  PROVE  TInv'
<1> USE DEF Goes
<1>1. /\ UploadsFit(r) /\ RowsFit(r) /\ LeftoversKnown(r) /\ AnswerFits(r) /\ LogFits /\ TypeOK
      /\ faults \in 0..MaxFaults
  BY DEF TInv, TypeOK
<1>2. pc'[r] = to /\ answer'[r] \in {0, answer[r]}
  BY <1>1 DEF TypeOK
<1>3. \A i \in DOMAIN sent[r] : i \in 1..MaxFiles /\ sent[r][i] = Key(r, i)
  BY UploadFacts DEF Clearing
<1>4. \A k \in gone : \E i \in 1..MaxFiles : k = Key(r, i)
  BY <1>3 DEF Elements
<1>5. StepOf(r)
  <2>1. pc' \in [Requests -> Stages] /\ \A q \in Requests : q # r => pc'[q] = pc[q]
    BY <1>1 DEF TypeOK, Stages, Early, Storing, Clearing, Finished
  <2>2. \A q \in Requests : q # r => \A i \in 1..MaxFiles : Key(q, i) \notin gone
    BY <1>4, KeysDiffer
  <2>3. /\ Len(log') >= Len(log) /\ answer' \in [Requests -> Nat]
        /\ \A q \in Requests : q # r => answer'[q] = answer[q]
    BY <1>1 DEF LogFits, TypeOK
  <2>4. cut' \subseteq Requests \X {"transaction", "cleanup"} /\ abandoned' \subseteq Requests
    BY <1>1 DEF TypeOK
  <2>5. \A q \in Requests : q # r => \A what : <<q, what>> \in cut' <=> <<q, what>> \in cut
    OBVIOUS
  <2> QED BY <2>1, <2>2, <2>3, <2>4, <2>5 DEF StepOf, TInv, TypeOK, Keys
<1>6. UploadsFit(r)'
  BY <1>1, <1>2 DEF UploadsFit, Storing, Clearing, Early
<1>7. RowsFit(r)'
  <2>1. <<r, "transaction">> \in cut' <=> <<r, "transaction">> \in cut
    OBVIOUS
  <2> QED BY <1>1, <1>2, <1>4, <2>1 DEF RowsFit, Storing, Early
<1>8. LeftoversKnown(r)'
  <2>1. faults' = 0 => faults = 0
    BY <1>1
  <2>2. <<r, "cleanup">> \notin cut' => <<r, "cleanup">> \notin cut
    OBVIOUS
  <2>3. ASSUME faults' = 0, <<r, "cleanup">> \notin cut', NEW i \in 1..MaxFiles, Key(r, i) \in objects' \ rows
        PROVE  i \in DOMAIN sent[r] /\ to = "cleanup"
    <3>1. i \in DOMAIN sent[r]
      BY <1>1, <2>1, <2>2, <2>3 DEF LeftoversKnown
    <3> QED BY <1>3, <2>3, <3>1 DEF Elements
  <2> QED BY <1>2, <2>3 DEF LeftoversKnown, Clearing
<1>9. AnswerFits(r)' /\ LogFits'
  <2>1. Len(log) \in Nat
    BY <1>1 DEF LogFits
  <2> QED BY <1>1, <1>2, <2>1 DEF AnswerFits, LogFits, Elements
<1> QED BY <1>5, <1>6, <1>7, <1>8, <1>9, StepKeeps

(* The two ways out of a cleanup: the request leaves, or is cut off.          *)
LEMMA CleanupEnds ==
  ASSUME TInv, NEW r \in Requests, UNCHANGED <<body, served, session, log, rows, sent, kept, abandoned>>,
         pc[r] \in {"cleanup", "delete"},
         faults' \in faults..MaxFaults,
         NEW gone \in SUBSET Elements(sent[r]), objects' = objects \ gone,
         <<r, "transaction">> \notin cut => gone \intersect rows = {},
         \/ CutOff(r)
         \/ /\ Leave(r, answer[r]) /\ UNCHANGED <<cut, cancels>>
            /\ faults' # 0 \/ (Elements(sent[r]) \intersect objects) \ rows \subseteq gone
  PROVE  TInv'
<1> USE DEF Goes
<1>1. /\ pc[r] \notin Finished \union {"closing"} /\ pc[r] \notin {"done", "lost", "arrived"}
      /\ TypeOK /\ PlacesAddUp /\ cancels \in 0..MaxCancels
  BY DEF Finished, TInv, TypeOK
<1>2. CutOff(r) \/ UNCHANGED cancels => cancels' \in 0..MaxCancels
  BY <1>1, Bounds DEF CutOff, Cancel
<1>3. CASE Leave(r, answer[r]) /\ UNCHANGED <<cut, cancels>>
           /\ (faults' # 0 \/ (Elements(sent[r]) \intersect objects) \ rows \subseteq gone)
  <2>1. /\ answer' = [answer EXCEPT ![r] = answer[r]] /\ PlacesAddUp'
        /\ \E to \in {"closing", "done"} : Goes(r, to)
    BY <1>1, <1>3, Leaves
  <2>2. PICK to \in {"closing", "done"} : Goes(r, to)
    BY <2>1
  <2>3. to \in {"cleanup", "closing", "done"}
    BY <2>2
  <2>4. answer[r] \in {0, answer[r]} /\ cut' \in {cut, cut \union {<<r, "cleanup">>}}
    BY <1>3
  <2> QED BY <1>2, <1>3, <2>1, <2>2, <2>3, <2>4, DeleteStep
<1>4. CASE CutOff(r) /\ answer[r] = 0
  <2>1. Leave(r, 0) /\ cut' = cut \union {<<r, "cleanup">>}
    BY <1>4 DEF CutOff
  <2>2. /\ answer' = [answer EXCEPT ![r] = 0] /\ PlacesAddUp'
        /\ \E to \in {"closing", "done"} : Goes(r, to)
    BY <1>1, <2>1, Leaves
  <2>3. <<r, "cleanup">> \in cut' /\ cut' \in {cut, cut \union {<<r, "cleanup">>}} /\ 0 \in {0, answer[r]}
    BY <2>1
  <2>4. PICK to \in {"closing", "done"} : Goes(r, to)
    BY <2>2
  <2>5. to \in {"cleanup", "closing", "done"}
    BY <2>4
  <2> QED BY <1>2, <1>4, <2>2, <2>3, <2>4, <2>5, DeleteStep
<1>5. CASE CutOff(r) /\ answer[r] # 0
  <2>1. Move(r, "cleanup") /\ answer' = [answer EXCEPT ![r] = 0] /\ UNCHANGED <<free, cut>>
    BY <1>5 DEF CutOff
  <2>2. pc' = [pc EXCEPT ![r] = "cleanup"] /\ pc'[r] = "cleanup" /\ \A q \in Requests : q # r => pc'[q] = pc[q]
    BY <1>1, <2>1 DEF Move, TypeOK
  <2>3. PlacesAddUp'
    BY <1>1, <2>1, <2>2, PlaceStays
  <2> QED BY <1>2, <1>5, <2>1, <2>2, <2>3, DeleteStep
<1> QED BY <1>3, <1>4, <1>5

(* _referenced_uploaded_objects and _cleanup.                                 *)
LEMMA CleanupStep ==
  ASSUME TInv, NEW r \in Requests, UNCHANGED <<body, served>>, _referenced_uploaded_objects(r) \/ _cleanup(r)
  PROVE  TInv'
<1>1. faults \in 0..MaxFaults /\ RowsFit(r)
  BY DEF TInv, TypeOK
<1>2. CASE _referenced_uploaded_objects(r)
  <2>1. pc[r] = "cleanup" /\ UNCHANGED <<session, log, rows, objects, sent, abandoned>>
    BY <1>2 DEF _referenced_uploaded_objects
  <2>2. CASE kept' = [kept EXCEPT ![r] = Elements(sent[r]) \intersect rows] /\ Move(r, "delete")
             /\ UNCHANGED <<free, answer, cut>> /\ Undisturbed
    BY <2>1, <2>2, QuietStep DEF Undisturbed
  <2>3. {} \in SUBSET Elements(sent[r]) /\ objects' = objects \ {} /\ {} \intersect rows = {}
    BY <2>1
  <2>4. CASE Fault /\ Leave(r, answer[r]) /\ UNCHANGED <<kept, cut, cancels>>
    <3>1. faults' \in faults..MaxFaults /\ faults' # 0
      BY <1>1, <2>4, Bounds DEF Fault
    <3> QED BY <2>1, <2>3, <2>4, <3>1, CleanupEnds
  <2>5. CASE CutOff(r) /\ UNCHANGED <<kept, faults>>
    <3>1. faults' \in faults..MaxFaults
      BY <1>1, <2>5, Bounds
    <3> QED BY <2>1, <2>3, <2>5, <3>1, CleanupEnds
  <2> QED BY <1>2, <2>2, <2>4, <2>5 DEF _referenced_uploaded_objects
<1>3. CASE _cleanup(r)
  <2>1. pc[r] = "delete" /\ UNCHANGED <<session, log, rows, sent, kept, abandoned>>
    BY <1>3 DEF _cleanup
  <2>2. PICK i \in 0..Len(sent[r]) :
          /\ \/ objects' = objects \ Deleted(r, i) /\ UNCHANGED faults
             \/ /\ Fault
                /\ \E left \in Deleted(r, i) : objects' = objects \ (Deleted(r, i) \ {left})
          /\ \/ i = Len(sent[r]) /\ Leave(r, answer[r]) /\ UNCHANGED <<cut, cancels>>
             \/ i > 0 /\ sent[r][i] \notin kept[r] /\ CutOff(r)
    BY <1>3 DEF _cleanup
  <2>3. DOMAIN sent[r] = 1..Len(sent[r]) /\ Len(sent[r]) \in Nat
    BY SentFacts
  <2>4. Deleted(r, i) \subseteq Elements(sent[r]) \ kept[r]
    BY <2>2, <2>3 DEF Deleted, Elements
  <2>5. i = Len(sent[r]) => Deleted(r, i) = Elements(sent[r]) \ kept[r]
    BY <2>3 DEF Deleted, Elements
  <2>6. /\ kept[r] \subseteq rows
        /\ <<r, "transaction">> \notin cut => Elements(sent[r]) \intersect rows \subseteq kept[r]
    BY <1>1, <2>1 DEF RowsFit
  <2>7. CASE objects' = objects \ Deleted(r, i) /\ UNCHANGED faults
    <3>1. faults' \in faults..MaxFaults
      BY <1>1, <2>7, Bounds
    <3>2. <<r, "transaction">> \notin cut => Deleted(r, i) \intersect rows = {}
      BY <2>4, <2>6
    <3>3. i = Len(sent[r]) => (Elements(sent[r]) \intersect objects) \ rows \subseteq Deleted(r, i)
      BY <2>5, <2>6
    <3>4. Deleted(r, i) \in SUBSET Elements(sent[r])
      BY <2>4
    <3> QED BY <2>1, <2>2, <2>7, <3>1, <3>2, <3>3, <3>4, CleanupEnds
  <2>8. CASE Fault /\ \E left \in Deleted(r, i) : objects' = objects \ (Deleted(r, i) \ {left})
    <3>1. PICK left \in Deleted(r, i) : objects' = objects \ (Deleted(r, i) \ {left})
      BY <2>8
    <3>2. faults' \in faults..MaxFaults /\ faults' # 0
      BY <1>1, <2>8, Bounds DEF Fault
    <3>3. /\ Deleted(r, i) \ {left} \in SUBSET Elements(sent[r])
          /\ <<r, "transaction">> \notin cut => (Deleted(r, i) \ {left}) \intersect rows = {}
      BY <2>4, <2>6
    <3> QED BY <2>1, <2>2, <3>1, <3>2, <3>3, CleanupEnds
  <2> QED BY <2>2, <2>7, <2>8
<1> QED BY <1>2, <1>3

(* The transaction that records nothing, or goes on without its request, and  *)
(* the answer after a violated constraint.                                    *)
LEMMA AnswerStep ==
  ASSUME TInv, NEW r \in Requests, pc[r] \in {"persist", "reload"},
         NEW to \in {"reload", "cleanup"}, pc[r] = "reload" => to = "cleanup", Move(r, to),
         UNCHANGED <<body, served, session, log, rows, objects, free, sent, kept>>,
         \/ UNCHANGED <<abandoned, cut>>
         \/ to = "cleanup" /\ abandoned' = abandoned \union {r} /\ cut' = cut \union {<<r, "transaction">>},
         \/ UNCHANGED answer
         \/ answer' = [answer EXCEPT ![r] = get_terminal_event_by_external_id(body[r].ext)],
         faults' \in faults..MaxFaults, cancels' \in 0..MaxCancels
  PROVE  TInv'
<1>1. /\ UploadsFit(r) /\ RowsFit(r) /\ LeftoversKnown(r) /\ AnswerFits(r) /\ LogFits /\ PlacesAddUp /\ TypeOK
      /\ faults \in 0..MaxFaults
  BY DEF TInv, TypeOK
<1>2. pc' = [pc EXCEPT ![r] = to] /\ pc'[r] = to
  BY <1>1 DEF Move, TypeOK
<1>3. Len(log) \in Nat /\ get_terminal_event_by_external_id(body[r].ext) \in 0..Len(log)
  BY <1>1, LookUp DEF LogFits
<1>4. StepOf(r)
  <2>1. pc' \in [Requests -> Stages] /\ \A q \in Requests : q # r => pc'[q] = pc[q]
    BY <1>1, <1>2 DEF TypeOK, Stages, Early, Storing, Clearing, Finished
  <2>2. answer' \in [Requests -> Nat] /\ \A q \in Requests : q # r => answer'[q] = answer[q]
    BY <1>1, <1>3 DEF TypeOK
  <2>3. Len(log') >= Len(log)
    BY <1>3
  <2>4. /\ abandoned' \subseteq Requests /\ cut' \subseteq Requests \X {"transaction", "cleanup"}
        /\ \A q \in Requests : q # r => /\ q \in abandoned' <=> q \in abandoned
                                        /\ \A what : <<q, what>> \in cut' <=> <<q, what>> \in cut
    BY <1>1 DEF TypeOK
  <2> QED BY <2>1, <2>2, <2>3, <2>4 DEF StepOf, TInv, TypeOK, Keys
<1>5. UploadsFit(r)'
  BY <1>1, <1>2 DEF UploadsFit, Storing, Clearing, Early
<1>6. RowsFit(r)'
  <2>1. r \notin abandoned
    BY <1>1 DEF RowsFit, Storing
  <2>2. <<r, "transaction">> \in cut => <<r, "transaction">> \in cut'
    OBVIOUS
  <2>3. r \in abandoned' => <<r, "transaction">> \in cut' /\ to = "cleanup"
    BY <2>1
  <2> QED BY <1>1, <1>2, <2>1, <2>2, <2>3 DEF RowsFit, Storing, Early
<1>7. LeftoversKnown(r)'
  <2>1. faults' = 0 => faults = 0
    BY <1>1
  <2>2. <<r, "cleanup">> \in cut' <=> <<r, "cleanup">> \in cut
    OBVIOUS
  <2> QED BY <1>1, <1>2, <2>1, <2>2 DEF LeftoversKnown, Storing, Clearing
<1>8. AnswerFits(r)'
  <2>1. answer'[r] \in {answer[r], get_terminal_event_by_external_id(body[r].ext)}
    BY <1>1 DEF TypeOK
  <2> QED BY <1>1, <1>3, <2>1, LookUp DEF AnswerFits
<1>9. LogFits'
  BY <1>1 DEF LogFits, Elements
<1>10. PlacesAddUp'
  BY <1>1, <1>2, <1>4, UploadFacts, PlaceStays DEF StepOf, Storing, Clearing, Finished
<1> QED BY <1>4, <1>5, <1>6, <1>7, <1>8, <1>9, <1>10, StepKeeps

(* A recorded event keeps the log in order.                                   *)
LEMMA LogGrows ==
  ASSUME TInv, NEW r \in Requests, Insert(r), get_terminal_event_by_external_id(body[r].ext) = 0
  PROVE  /\ LogFits' /\ Len(log) \in Nat /\ Len(log') = Len(log) + 1
         /\ \A i \in DOMAIN log : log'[i] = log[i]
         /\ log'[Len(log) + 1].ext = body[r].ext /\ DOMAIN log = 1..Len(log)
<1> DEFINE event == [ext |-> body[r].ext, parts |-> EventParts(r)]
<1>1. LogFits
  BY DEF TInv
<1>2. log' = Append(log, event) /\ event.ext = body[r].ext
  BY DEF Insert
<1> HIDE DEF event
<1>4. /\ Len(log) \in Nat /\ DOMAIN log = 1..Len(log) /\ log \in Seq(Elements(log) \union {event})
  BY <1>1, Bounds DEF LogFits
<1>5. /\ Len(log') = Len(log) + 1 /\ DOMAIN log' = 1..Len(log) + 1 /\ log'[Len(log) + 1] = event
      /\ \A i \in 1..Len(log) : log'[i] = log[i]
      /\ log' \in Seq(Elements(log) \union {event})
  BY <1>2, <1>4
<1>6. Elements(log') = Elements(log) \union {event}
  BY <1>4, <1>5 DEF Elements
<1>7. body[r].ext # NoId => \A i \in DOMAIN log : log[i].ext # body[r].ext
  BY <1>1, LookUp
<1>8. ASSUME NEW i \in DOMAIN log', NEW j \in DOMAIN log', log'[i].ext = log'[j].ext, log'[i].ext # NoId
      PROVE  i = j
  <2>1. CASE i = Len(log) + 1
    BY <1>2, <1>4, <1>5, <1>7, <1>8, <2>1
  <2>2. CASE j = Len(log) + 1
    BY <1>2, <1>4, <1>5, <1>7, <1>8, <2>2
  <2>3. CASE i \in DOMAIN log /\ j \in DOMAIN log
    BY <1>1, <1>4, <1>5, <1>8, <2>3 DEF LogFits
  <2> QED BY <1>4, <1>5, <1>8, <2>1, <2>2, <2>3
<1> QED BY <1>2, <1>4, <1>5, <1>6, <1>8 DEF LogFits

(* The transaction that records the event: its request is answered, or goes   *)
(* to its cleanup, or did so before.                                          *)
LEMMA InsertStep ==
  ASSUME TInv, NEW r \in Requests, Insert(r),
         get_terminal_event_by_external_id(body[r].ext) = 0,
         UNCHANGED <<body, served, session, objects, sent, kept, cut>>,
         faults' \in faults..MaxFaults, cancels' \in 0..MaxCancels, PlacesAddUp',
         \/ /\ pc[r] = "persist" /\ UNCHANGED abandoned
            /\ \E to \in {"cleanup", "closing", "done"} : Goes(r, to)
            /\ UNCHANGED answer \/ answer' = [answer EXCEPT ![r] = Len(log) + 1]
         \/ r \in abandoned /\ abandoned' = abandoned \ {r} /\ UNCHANGED <<pc, answer>>
  PROVE  TInv'
<1> USE DEF Goes
<1>1. /\ UploadsFit(r) /\ RowsFit(r) /\ LeftoversKnown(r) /\ AnswerFits(r) /\ LogFits /\ TypeOK
      /\ faults \in 0..MaxFaults
  BY DEF TInv, TypeOK
<1>2. /\ LogFits' /\ Len(log) \in Nat /\ Len(log') = Len(log) + 1
      /\ \A i \in DOMAIN log : log'[i] = log[i]
      /\ log'[Len(log) + 1].ext = body[r].ext /\ DOMAIN log = 1..Len(log)
  BY LogGrows
<1>3. /\ \A i \in DOMAIN sent[r] : i \in 1..MaxFiles /\ sent[r][i] = Key(r, i)
      /\ Elements(sent[r]) \subseteq Keys
      /\ \A k \in Elements(sent[r]) : \E i \in DOMAIN sent[r] : k = Key(r, i)
  BY SentFacts
<1>4. rows' = rows \union Elements(sent[r])
  BY DEF Insert
<1>5. pc' \in [Requests -> Stages] /\ \A q \in Requests : q # r => pc'[q] = pc[q]
  <2>1. pc \in [Requests -> Stages] /\ {"cleanup", "closing", "done"} \subseteq Stages
    BY <1>1 DEF TypeOK, Stages, Early, Storing, Clearing, Finished
  <2>2. UNCHANGED pc \/ \E to \in {"cleanup", "closing", "done"} : pc' = [pc EXCEPT ![r] = to]
    OBVIOUS
  <2> QED BY <2>1, <2>2
<1>6. /\ abandoned' \subseteq Requests /\ \A q \in Requests : q # r => (q \in abandoned' <=> q \in abandoned)
  BY <1>1 DEF TypeOK
<1>7. StepOf(r)
  <2>1. answer' \in [Requests -> Nat] /\ \A q \in Requests : q # r => answer'[q] = answer[q]
    BY <1>1, <1>2 DEF TypeOK
  <2>2. rows' \subseteq Keys /\ rows \subseteq rows'
    BY <1>1, <1>3, <1>4 DEF TypeOK, Keys
  <2>3. \A q \in Requests : q # r => \A i \in 1..MaxFiles : Key(q, i) \notin Elements(sent[r])
    BY <1>3, KeysDiffer
  <2>4. Len(log') >= Len(log)
    BY <1>2
  <2> QED BY <1>1, <1>2, <1>4, <1>5, <1>6, <2>1, <2>2, <2>3, <2>4 DEF StepOf, TInv, TypeOK, Keys
<1>8. CASE /\ pc[r] = "persist" /\ UNCHANGED abandoned
           /\ pc'[r] \in {"cleanup", "closing", "done"} /\ (pc'[r] = "closing" => body[r].multipart)
           /\ answer'[r] \in {answer[r], Len(log) + 1}
  <2>1. UploadsFit(r)'
    BY <1>1, <1>8 DEF UploadsFit, Storing, Clearing, Early
  <2>2. RowsFit(r)'
    <3>1. \A i \in 1..MaxFiles : Key(r, i) \in rows' => Key(r, i) \in objects
      BY <1>1, <1>3, <1>4, <1>8 DEF RowsFit, Storing
    <3>2. r \notin abandoned
      BY <1>1, <1>8 DEF RowsFit, Storing
    <3> QED BY <1>8, <3>1, <3>2 DEF RowsFit, Storing, Early
  <2>3. LeftoversKnown(r)'
    <3>1. faults' = 0 => faults = 0
      BY <1>1
    <3>2. ASSUME faults' = 0, <<r, "cleanup">> \notin cut, NEW i \in 1..MaxFiles, Key(r, i) \in objects
          PROVE  Key(r, i) \in rows'
      <4>1. i \in DOMAIN sent[r]
        BY <1>1, <1>8, <3>1, <3>2 DEF LeftoversKnown, RowsFit, Storing
      <4> QED BY <1>3, <1>4, <4>1 DEF Elements
    <3> QED BY <3>2 DEF LeftoversKnown
  <2>4. AnswerFits(r)'
    <3>1. 0..Len(log) \subseteq 0..Len(log') /\ Len(log) + 1 \in 0..Len(log')
      BY <1>2
    <3>2. answer[r] \in 0..Len(log) /\ (answer[r] # 0 => answer[r] \in DOMAIN log)
      BY <1>1, <1>2 DEF AnswerFits
    <3> QED BY <1>1, <1>2, <1>8, <3>1, <3>2 DEF AnswerFits
  <2> QED BY <1>2, <1>7, <2>1, <2>2, <2>3, <2>4, StepKeeps
<1>9. CASE r \in abandoned /\ abandoned' = abandoned \ {r} /\ UNCHANGED <<pc, answer>>
  <2>1. UploadsFit(r)'
    BY <1>1, <1>9 DEF UploadsFit
  <2>2. RowsFit(r)'
    BY <1>1, <1>4, <1>9 DEF RowsFit, Storing, Early
  <2>3. LeftoversKnown(r)'
    BY <1>1, <1>4, <1>9 DEF LeftoversKnown
  <2>4. AnswerFits(r)'
    BY <1>1, <1>2, <1>9 DEF AnswerFits
  <2> QED BY <1>2, <1>7, <2>1, <2>2, <2>3, <2>4, StepKeeps
<1>10. UNCHANGED answer \/ answer' = [answer EXCEPT ![r] = Len(log) + 1] => answer'[r] \in {answer[r], Len(log) + 1}
  BY <1>1 DEF TypeOK
<1> QED BY <1>8, <1>9, <1>10

LEMMA PersistStep ==
  ASSUME TInv, NEW r \in Requests, UNCHANGED <<body, served>>, _persist(r) \/ _load_duplicate(r)
  PROVE  TInv'
<1> USE DEF Goes
<1> DEFINE existing == get_terminal_event_by_external_id(body[r].ext)
<1>1. /\ TypeOK /\ PlacesAddUp /\ pc \in [Requests -> Stages]
      /\ faults \in 0..MaxFaults /\ cancels \in 0..MaxCancels
  BY DEF TInv, TypeOK, Stages, Early, Storing, Clearing, Finished
<1>2. Undisturbed \/ Interrupted \/ (Cancel /\ UNCHANGED faults)
      => faults' \in faults..MaxFaults /\ cancels' \in 0..MaxCancels
  BY <1>1, Bounds DEF Undisturbed, Interrupted, Fault, Cancel
<1>3. CASE _load_duplicate(r)
  BY <1>2, <1>3, AnswerStep DEF _load_duplicate
<1>4. CASE _persist(r)
  <2>1. pc[r] = "persist" /\ UNCHANGED <<session, objects, sent, kept>>
    BY <1>4 DEF _persist
  <2>2. CASE /\ \E to \in {"reload", "cleanup"} : Move(r, to)
             /\ UNCHANGED answer \/ answer' = [answer EXCEPT ![r] = existing]
             /\ UNCHANGED <<log, rows, free, abandoned, cut>>
             /\ Undisturbed \/ Interrupted
    BY <1>2, <2>1, <2>2, AnswerStep
  <2>3. CASE /\ Cancel /\ Move(r, "cleanup")
             /\ abandoned' = abandoned \union {r} /\ cut' = cut \union {<<r, "transaction">>}
             /\ UNCHANGED <<log, rows, free, answer, faults>>
    BY <1>2, <2>1, <2>3, AnswerStep
  <2>4. CASE Records(r) /\ Insert(r) /\ Leave(r, Len(log) + 1) /\ UNCHANGED <<abandoned, cut>> /\ Undisturbed
    <3>1. pc[r] \notin Finished \union {"closing"}
      BY <2>1 DEF Finished
    <3>2. /\ answer' = [answer EXCEPT ![r] = Len(log) + 1] /\ PlacesAddUp'
          /\ \E to \in {"closing", "done"} : Goes(r, to)
      BY <2>4, <3>1, Leaves
    <3>3. existing = 0
      BY <2>4 DEF Records, Rechecked
    <3> QED BY <1>2, <2>1, <2>4, <3>2, <3>3, InsertStep
  <2>5. CASE /\ Records(r) /\ Insert(r) /\ Move(r, "cleanup") /\ Interrupted
             /\ UNCHANGED <<free, answer, abandoned, cut>>
    <3>1. pc' = [pc EXCEPT ![r] = "cleanup"] /\ pc'[r] = "cleanup" /\ \A q \in Requests : q # r => pc'[q] = pc[q]
      BY <1>1, <2>5 DEF Move
    <3>2. PlacesAddUp'
      BY <1>1, <2>1, <2>5, <3>1, PlaceStays
    <3>3. existing = 0
      BY <2>5 DEF Records, Rechecked
    <3> QED BY <1>2, <2>1, <2>5, <3>1, <3>2, <3>3, InsertStep
  <2> QED BY <1>4, <2>1, <2>2, <2>3, <2>4, <2>5 DEF _persist, Rechecked
<1> QED BY <1>3, <1>4

(* A transaction that goes on alone records the event after all, or nothing.  *)
LEMMA AbandonedStep ==
  ASSUME TInv, NEW r \in Requests, UNCHANGED <<body, served>>, AbandonedPersist(r)
  PROVE  TInv'
<1>1. /\ UploadsFit(r) /\ RowsFit(r) /\ LeftoversKnown(r) /\ AnswerFits(r) /\ LogFits /\ PlacesAddUp /\ TypeOK
      /\ faults \in 0..MaxFaults /\ cancels \in 0..MaxCancels
  BY DEF TInv, TypeOK
<1>2. /\ r \in abandoned /\ abandoned' = abandoned \ {r} /\ faults' \in faults..MaxFaults /\ cancels' \in 0..MaxCancels
      /\ UNCHANGED <<session, objects, free, pc, sent, kept, answer, cut, cancels>>
  BY <1>1, Bounds DEF AbandonedPersist, Fault
<1>3. PlacesAddUp'
  BY <1>1, <1>2 DEF PlacesAddUp, Busy
<1>4. CASE Records(r) /\ Insert(r) /\ UNCHANGED faults
  BY <1>2, <1>3, <1>4, InsertStep DEF Records, Rechecked
<1>5. CASE UNCHANGED <<log, rows>>
  <2>1. Len(log) \in Nat /\ answer' \in [Requests -> Nat] /\ LogFits'
    BY <1>1, <1>2, <1>5 DEF LogFits, TypeOK, Elements
  <2>2. StepOf(r)
    <3>1. pc' \in [Requests -> Stages] /\ abandoned' \subseteq Requests
      BY <1>1, <1>2 DEF TypeOK, Stages, Early, Storing, Clearing, Finished
    <3>2. \A q \in Requests : q # r => (q \in abandoned' <=> q \in abandoned)
      BY <1>2
    <3>3. /\ UNCHANGED <<body, session, served, rows, objects, cut, sent, kept, pc, answer, log>>
          /\ rows \subseteq Keys /\ objects \subseteq Keys /\ cut \subseteq Requests \X {"transaction", "cleanup"}
          /\ sent \in [Requests -> Seq(Keys)] /\ kept \in [Requests -> SUBSET Keys]
      BY <1>1, <1>2, <1>5 DEF TypeOK, TInv, Keys
    <3> QED BY <1>2, <2>1, <3>1, <3>2, <3>3 DEF StepOf
  <2>3. UploadsFit(r)' /\ RowsFit(r)' /\ LeftoversKnown(r)' /\ AnswerFits(r)'
    BY <1>1, <1>2, <1>5 DEF UploadsFit, RowsFit, LeftoversKnown, AnswerFits
  <2> QED BY <1>3, <2>1, <2>2, <2>3, StepKeeps
<1> QED BY <1>4, <1>5 DEF AbandonedPersist

(* The files are closed and the place is given back, or it is kept.           *)
LEMMA CloseStep ==
  ASSUME TInv, NEW r \in Requests, UNCHANGED <<body, served>>, CloseFiles(r)
  PROVE  TInv'
<1>1. /\ UploadsFit(r) /\ RowsFit(r) /\ LeftoversKnown(r) /\ AnswerFits(r) /\ LogFits /\ PlacesAddUp /\ TypeOK
      /\ faults \in 0..MaxFaults /\ cancels \in 0..MaxCancels /\ pc \in [Requests -> Stages]
  BY DEF TInv, TypeOK, Stages, Early, Storing, Clearing, Finished
<1>2. /\ pc[r] = "closing" /\ UNCHANGED <<session, log, rows, objects, sent, kept, abandoned, cut>>
      /\ faults' \in faults..MaxFaults /\ cancels' \in 0..MaxCancels
  BY <1>1, Bounds DEF CloseFiles, Undisturbed, Interrupted, Fault, Cancel
<1>3. PICK to \in {"done", "leaked"} : /\ Move(r, to)
                                       /\ to = "leaked" => UNCHANGED free
                                       /\ to = "done" => free' = free + 1
  BY DEF CloseFiles
<1>4. pc' = [pc EXCEPT ![r] = to] /\ pc'[r] = to /\ \A q \in Requests : q # r => pc'[q] = pc[q]
  BY <1>1, <1>3 DEF Move
<1>5. answer' \in [Requests -> Nat] /\ answer'[r] \in {0, answer[r]} /\ \A q \in Requests : q # r => answer'[q] = answer[q]
  BY <1>1 DEF CloseFiles, TypeOK, LogFits
<1>6. Len(log) \in Nat /\ LogFits'
  BY <1>1, <1>2 DEF LogFits, Elements
<1>7. PlacesAddUp'
  <2>1. CASE to = "done"
    <3>1. body[r].multipart /\ pc[r] \notin Finished /\ pc[r] # "arrived"
      BY <1>1, <1>2 DEF UploadsFit, Finished
    <3> QED BY <1>1, <1>3, <1>4, <2>1, <3>1, PlaceGivenBack
  <2>2. CASE to = "leaked"
    BY <1>1, <1>2, <1>3, <1>4, <2>2, PlaceStays
  <2> QED BY <2>1, <2>2
<1>8. StepOf(r)
  <2>1. pc' \in [Requests -> Stages]
    BY <1>1, <1>4 DEF Stages, Finished
  <2> QED BY <1>1, <1>2, <1>4, <1>5, <1>6, <2>1 DEF StepOf, TInv, TypeOK, Keys
<1>9. UploadsFit(r)' /\ RowsFit(r)'
  BY <1>1, <1>2, <1>4 DEF UploadsFit, RowsFit, Early, Storing, Clearing
<1>10. LeftoversKnown(r)'
  BY <1>1, <1>2, <1>4 DEF LeftoversKnown, Storing, Clearing
<1>11. AnswerFits(r)'
  BY <1>1, <1>2, <1>5, <1>6 DEF AnswerFits
<1> QED BY <1>6, <1>7, <1>8, <1>9, <1>10, <1>11, StepKeeps

(* The run ends, or the process restarts: what was under way is lost.         *)
LEMMA SystemStep ==
  ASSUME TInv, UNCHANGED body, (EndRun /\ UNCHANGED served) \/ (Restart /\ served' = Idle)
  PROVE  TInv'
<1>1. CASE EndRun /\ UNCHANGED served
  <2>1. /\ UNCHANGED <<log, rows, objects, free, pc, sent, kept, answer, abandoned, cut, faults, cancels, served>>
        /\ session' \in {"open", "closed"}
    BY <1>1 DEF EndRun
  <2>2. TypeOK'
    BY <2>1 DEF TInv, TypeOK
  <2>3. ASSUME NEW r \in Requests
        PROVE  UploadsFit(r)' /\ RowsFit(r)' /\ LeftoversKnown(r)' /\ AnswerFits(r)'
    <3>1. UploadsFit(r) /\ RowsFit(r) /\ LeftoversKnown(r) /\ AnswerFits(r)
      BY DEF TInv
    <3>2. UploadsFit(r)' /\ RowsFit(r)'
      BY <2>1, <3>1 DEF UploadsFit, RowsFit
    <3>3. LeftoversKnown(r)' /\ AnswerFits(r)'
      BY <2>1, <3>1 DEF LeftoversKnown, AnswerFits
    <3> QED BY <3>2, <3>3
  <2>4. LogFits' /\ PlacesAddUp' /\ ServedAsAsked'
    BY <2>1 DEF TInv, LogFits, Elements, PlacesAddUp, Busy, ServedAsAsked, Selected
  <2> QED BY <2>1, <2>2, <2>3, <2>4 DEF TInv
<1>2. CASE Restart /\ served' = Idle
  <2>1. /\ UNCHANGED <<session, log, rows, objects, sent, kept, answer, cut, cancels>> /\ free' = Workers
        /\ faults' \in 1..MaxFaults /\ abandoned' = {}
    BY <1>2, Bounds DEF Restart, Fault, TInv, TypeOK
  <2>2. pc' = [r \in Requests |-> IF pc[r] \in {"arrived", "done"} THEN pc[r] ELSE "lost"]
    BY <1>2 DEF Restart
  <2>3. TypeOK'
    BY <2>1, <2>2, Bounds DEF TInv, TypeOK, Finished
  <2>4. ASSUME NEW r \in Requests
        PROVE  UploadsFit(r)' /\ RowsFit(r)' /\ LeftoversKnown(r)' /\ AnswerFits(r)'
    <3>1. UploadsFit(r) /\ RowsFit(r) /\ AnswerFits(r)
      BY DEF TInv
    <3>2. pc'[r] = "lost" \/ (pc'[r] = pc[r] /\ pc[r] \in {"arrived", "done"})
      BY <2>2
    <3>3. UploadsFit(r)'
      BY <2>1, <3>1, <3>2 DEF UploadsFit, Storing, Clearing, Early, Finished
    <3>4. RowsFit(r)'
      BY <2>1, <3>1, <3>2 DEF RowsFit, Storing, Early, Finished
    <3>5. LeftoversKnown(r)'
      BY <2>1 DEF LeftoversKnown
    <3>6. AnswerFits(r)'
      BY <2>1, <3>1 DEF AnswerFits
    <3> QED BY <3>3, <3>4, <3>5, <3>6
  <2>5. LogFits'
    BY <2>1 DEF TInv, LogFits, Elements
  <2>6. PlacesAddUp'
    <3>1. Busy' = {}
      BY <2>2 DEF Busy
    <3>2. IsFiniteSet(Busy') /\ Cardinality(Busy') = 0
      BY <3>1, FS_EmptySet
    <3> QED BY <2>1, <3>2, Bounds DEF PlacesAddUp
  <2>7. served' \in ServedType /\ ServedAsAsked'
    BY <1>2 DEF Idle, ServedType, AskType, ServedAsAsked
  <2> QED BY <2>1, <2>3, <2>4, <2>5, <2>6, <2>7 DEF TInv
<1> QED BY <1>1, <1>2

(* parse_single_byte_range gives the bytes the header selects.                *)
LEMMA RangeIsSelected ==
  ASSUME NEW size \in Nat, NEW ask \in AskType, Ranged(ask)
  PROVE  LET range == parse_single_byte_range(ask, size) IN
         /\ range \in Int \X Int
         /\ range[1]..range[2] = Selected(ask, size)
         /\ range = NoRange => Selected(ask, size) = {}
<1> DEFINE range == parse_single_byte_range(ask, size)
<1>1. SUFFICES range \in Int \X Int /\ range[1]..range[2] = Selected(ask, size)
  BY DEF NoRange
<1>2. CASE size <= 0 \/ ~is_single_byte_range_syntax(ask)
  <2>1. range = <<0, -1>>
    BY <1>2 DEF parse_single_byte_range, NoRange
  <2>2. Selected(ask, size) = {}
    BY <1>2 DEF Selected, is_single_byte_range_syntax, AskType, Ranged
  <2> QED BY <2>1, <2>2
<1>3. CASE size > 0 /\ ask.kind = "tail" /\ ask.a > 0
  <2>1. range = <<IF ask.a > size THEN 0 ELSE size - ask.a, size - 1>>
    BY <1>3 DEF parse_single_byte_range, is_single_byte_range_syntax
  <2>2. Selected(ask, size) = {x \in 0..(size - 1) : x >= size - ask.a}
    BY <1>3 DEF Selected
  <2> QED BY <2>1, <2>2 DEF AskType
<1>4. CASE size > 0 /\ ask.kind \in {"from", "span"}
  <2> DEFINE end == IF ask.kind = "from" THEN size - 1 ELSE ask.b
  <2>1. range = IF ask.a >= size \/ end < ask.a THEN <<0, -1>>
                ELSE <<ask.a, IF end < size - 1 THEN end ELSE size - 1>>
    BY <1>4 DEF parse_single_byte_range, is_single_byte_range_syntax, NoRange
  <2>2. Selected(ask, size) = {x \in 0..(size - 1) : ask.a <= x /\ x <= end}
    BY <1>4 DEF Selected, AskType
  <2>3. end \in Int /\ ask.a \in Nat
    BY DEF AskType
  <2> HIDE DEF end, range
  <2>4. CASE ask.a >= size \/ end < ask.a
    BY <2>1, <2>2, <2>3, <2>4
  <2>5. CASE ~(ask.a >= size \/ end < ask.a)
    BY <2>1, <2>2, <2>3, <2>5
  <2> QED BY <2>4, <2>5 DEF range
<1> QED BY <1>2, <1>3, <1>4 DEF is_single_byte_range_syntax

(* A response that is only a status.                                          *)
LEMMA RefusalRow ==
  ASSUME NEW code \in {304, 416, 502}, NEW ask \in AskType, NEW size \in Nat
  PROVE  /\ Refusal(ask, size, code) \in ServedType
         /\ Refusal(ask, size, code).status = code
         /\ Refusal(ask, size, code).asked = ask /\ Refusal(ask, size, code).size = size
<1>1. Idle \in ServedType
  BY DEF Idle, ServedType, AskType
<1> DEFINE coded == [Idle EXCEPT !.status = code]
<1> DEFINE asked == [coded EXCEPT !.asked = ask]
<1> DEFINE sized == [asked EXCEPT !.size = size]
<1>2. Refusal(ask, size, code) = sized
  BY DEF Refusal
<1>3. coded \in ServedType
  BY <1>1 DEF ServedType
<1> HIDE DEF coded
<1>4. asked \in ServedType
  BY <1>3 DEF ServedType
<1> HIDE DEF asked
<1>5. sized \in ServedType
  BY <1>4 DEF ServedType
<1> HIDE DEF sized
<1>6. Refusal(ask, size, code) \in ServedType
  BY <1>2, <1>5
<1>7. /\ Refusal(ask, size, code).status = code
      /\ Refusal(ask, size, code).asked = ask /\ Refusal(ask, size, code).size = size
  BY DEF Refusal, Idle
<1> QED BY <1>6, <1>7

(* A response promises what was asked for, and streaming it changes nothing   *)
(* of that.                                                                   *)
LEMMA ContentStep ==
  ASSUME served \in ServedType, ServedAsAsked, Content
  PROVE  served' \in ServedType /\ ServedAsAsked'
<1>1. Idle \in ServedType /\ Idle.status = 0
  BY DEF Idle, ServedType, AskType
<1>2. CASE Close
  BY <1>1, <1>2 DEF Close, ServedAsAsked
<1>3. CASE Stream
  BY SMTT(30), <1>3 DEF Stream, ServedType, ServedAsAsked
<1>4. ASSUME NEW size \in Sizes, Serve(size)
      PROVE  served' \in ServedType /\ ServedAsAsked'
  <2>1. size \in Nat
    BY ContentAssumption
  <2>2. PICK ask \in Asks(size + 1), agrees \in BOOLEAN : served' = Respond(ask, size, agrees)
    BY <1>4 DEF Serve
  <2>3. ask \in AskType
    BY <2>1 DEF Asks, AskType
  <2> DEFINE range == IF Ranged(ask) THEN parse_single_byte_range(ask, size) ELSE <<0, size - 1>>
  <2>4. range \in Int \X Int
    BY <2>1, <2>3, RangeIsSelected
  <2>5. ~etag_matches(ask) => range[1]..range[2] = Selected(ask, size)
    <3>1. CASE Ranged(ask)
      BY <2>1, <2>3, <3>1, RangeIsSelected
    <3>2. CASE ~Ranged(ask)
      BY <2>1, <2>3, <3>2 DEF Ranged, Selected, AskType
    <3> QED BY <3>1, <3>2
  <2>6. Ranged(ask) /\ range = NoRange => Selected(ask, size) = {}
    BY <2>1, <2>3, RangeIsSelected
  <2>7. CASE \E code \in {304, 416, 502} :
               served' = Refusal(ask, size, code) /\ (code = 416 => Selected(ask, size) = {})
    <3>1. PICK code \in {304, 416, 502} :
            served' = Refusal(ask, size, code) /\ (code = 416 => Selected(ask, size) = {})
      BY <2>7
    <3>2. /\ served' \in ServedType
          /\ served'.status = code /\ served'.asked = ask /\ served'.size = size
      BY <2>1, <2>3, <3>1, RefusalRow
    <3> QED BY <3>1, <3>2 DEF ServedAsAsked
  <2>8. CASE /\ ~etag_matches(ask)
             /\ \E code \in {200, 206} :
                  served' = [status |-> code, first |-> range[1], last |-> range[2],
                             left |-> range[2] - range[1] + 1, asked |-> ask, size |-> size, body |-> "open"]
    BY SMTT(30), <2>1, <2>3, <2>4, <2>5, <2>8 DEF ServedType, ServedAsAsked
  <2> QED BY <2>2, <2>6, <2>7, <2>8 DEF Respond
<1> QED BY <1>2, <1>3, <1>4 DEF Content

(* The invariant holds before the first request, whatever bodies they have.   *)
LEMMA TInit == Init => TInv
<1> SUFFICES ASSUME Init PROVE TInv
  OBVIOUS
<1>1. TypeOK
  BY Bounds DEF Init, TypeOK
<1>2. \A r \in Requests : body[r] \in Carries[r]
  BY DEF Init
<1>3. sent \in [Requests -> Seq(Keys)] /\ kept \in [Requests -> SUBSET Keys]
  BY DEF Init
<1>4. ASSUME NEW r \in Requests
      PROVE  UploadsFit(r) /\ RowsFit(r) /\ LeftoversKnown(r) /\ AnswerFits(r)
  <2>1. /\ pc[r] = "arrived" /\ sent[r] = <<>> /\ answer[r] = 0 /\ log = <<>> /\ rows = {} /\ objects = {}
        /\ abandoned = {}
    BY DEF Init
  <2>2. Len(body[r].files) \in Nat
    BY <1>2, Bounds
  <2> QED BY <2>1, <2>2 DEF UploadsFit, RowsFit, LeftoversKnown, AnswerFits, Early, Storing, Clearing
<1>5. LogFits
  BY DEF Init, LogFits
<1>6. PlacesAddUp
  <2>1. Busy = {}
    BY DEF Init, Busy
  <2>2. IsFiniteSet(Busy) /\ Cardinality(Busy) = 0
    BY <2>1, FS_EmptySet
  <2> QED BY <2>2, Bounds DEF Init, PlacesAddUp
<1>7. served \in ServedType /\ ServedAsAsked
  BY DEF Init, Idle, ServedType, AskType, ServedAsAsked
<1> QED BY <1>1, <1>2, <1>3, <1>4, <1>5, <1>6, <1>7 DEF TInv

LEMMA TNext ==
  ASSUME TInv, [Next]_vars
  PROVE  TInv'
<1>1. ASSUME NEW r \in Requests, Step(r) \/ CancelWaiting(r) \/ AbandonedPersist(r), UNCHANGED <<body, served>>
      PROVE  TInv'
  BY <1>1, EarlyStep, UploadStep, DropStep, QuietStep, PersistStep, CleanupStep, AbandonedStep, CloseStep DEF Step
<1>2. CASE Content /\ UNCHANGED ingestVars
  <2>1. served' \in ServedType /\ ServedAsAsked'
    BY <1>2, ContentStep DEF TInv
  <2> QED BY SMTT(30), <1>2, <2>1 DEF ingestVars, TInv, TypeOK, UploadsFit, RowsFit, LeftoversKnown, AnswerFits,
                            LogFits, Elements, PlacesAddUp, Busy
<1>3. CASE UNCHANGED vars
  BY SMTT(30), <1>3 DEF vars, ingestVars, TInv, TypeOK, UploadsFit, RowsFit, LeftoversKnown, AnswerFits,
              LogFits, Elements, PlacesAddUp, Busy, ServedAsAsked, Selected
<1> QED BY <1>1, <1>2, <1>3, SystemStep DEF Next

(*****************************************************************************)
(* The theorems.                                                             *)
(*****************************************************************************)

(* What the requests, the store, the rows, the log, the places of the         *)
(* semaphore and the response agree on in every state.                        *)
THEOREM IngestInvariance == Spec => []TInv
<1>1. TInv /\ [Next]_vars => TInv'
  BY TNext
<1> QED BY <1>1, TInit, PTL DEF Spec

(* No cleanup deletes a file of a recorded event, whatever becomes of answers *)
(* and of the process, unless the request was cancelled while its transaction *)
(* was under way, which is not waited for; variables keep their types.        *)
THEOREM FilesAreKept == Spec => []FilesOfEventsExist
<1>1. ASSUME TInv, NEW key \in rows \ objects
      PROVE  <<key[1], "transaction">> \in cut
  <2>1. PICK r \in Requests, i \in 1..MaxFiles : key = Key(r, i)
    BY <1>1 DEF TInv, TypeOK, Key
  <2> QED BY <1>1, <2>1 DEF TInv, RowsFit, Key
<1>2. TInv => FilesOfEventsExist
  BY <1>1 DEF TInv, FilesOfEventsExist
<1> QED BY <1>2, IngestInvariance, PTL

(* One event per external id, and every answer is that event.                 *)
THEOREM IdempotentIngest == Spec => []OneEventPerId
<1>1. TInv => OneEventPerId
  BY DEF TInv, OneEventPerId, LogFits, AnswerFits
<1> QED BY <1>1, IngestInvariance, PTL

(* Without faults, finished requests leave no file that is of no event,       *)
(* unless they were cancelled in their last cleanup, which that ends.         *)
THEOREM CleanupIsComplete == Spec => []NothingLeftBehind
<1>1. ASSUME TInv, faults = 0, \A r \in Requests : pc[r] \in Finished, NEW key \in objects \ rows
      PROVE  <<key[1], "cleanup">> \in cut
  <2>1. PICK r \in Requests, i \in 1..MaxFiles : key = Key(r, i)
    BY <1>1 DEF TInv, TypeOK, Key
  <2>2. pc[r] \notin Storing \union Clearing
    BY <1>1 DEF Storing, Clearing, Finished
  <2> QED BY <1>1, <2>1, <2>2 DEF TInv, LeftoversKnown, Key
<1>2. TInv => NothingLeftBehind
  BY <1>1 DEF NothingLeftBehind
<1> QED BY <1>2, IngestInvariance, PTL

(* A response has the bytes its headers promise and the client asked for.     *)
THEOREM RangesAreRight == Spec => []ServedAsAsked
<1>1. TInv => ServedAsAsked
  BY DEF TInv
<1> QED BY <1>1, IngestInvariance, PTL

(* A place of the admission semaphore is free, or that of an upload under     *)
(* way, or kept by one that was stopped while it closed its files: no other   *)
(* path through a request loses a place, and none invents one.                *)
THEOREM PlacesAlwaysAddUp == Spec => []PlacesAddUp
<1>1. TInv => PlacesAddUp
  BY DEF TInv
<1> QED BY <1>1, IngestInvariance, PTL

(***************************************************************************)
(* A raw material and its analyses.                                        *)
(***************************************************************************)


AnalysisStatus == {"absent"} \cup Live \cup Results
JobRow == [status : {"absent", "running"} \cup Claimable \cup TERMINAL_JOB_STATUSES,
           owner : Slots \cup {None}, charged : 0..MaxAttempts]
Attempt == [pc : {"idle", "claimed", "analysing"}, of : 0..MaxAnalyses]

\* A slot that works has an analysis.
HasAnalysis == \A s \in Slots : attempt[s].pc # "idle" => attempt[s].of \in Analyses

MaterialInv == MaterialTypeOK /\ HasAnalysis /\ SettledTogether /\ ProcessingIsAttended

\* What giving up an attempt does to the job, its analysis and the material.
LEMMA GiveUp ==
  ASSUME MaterialTypeOK, SettledTogether, NEW a \in Analyses, job[a].status = "running", GiveUpAttempt(a)
  PROVE  /\ job' \in [Analyses -> JobRow]
         /\ analysis' \in [Analyses -> AnalysisStatus]
         /\ material' \in MaterialStatus
         /\ \A b \in Analyses : analysis'[b] \in Results <=> job'[b].status \in TERMINAL_JOB_STATUSES
         /\ material' = "processing" => material = "processing" /\ analysis' = analysis
<1>0. analysis[a] \notin Results
  BY DEF SettledTogether, TERMINAL_JOB_STATUSES
<1>1. CASE job[a].charged < MaxAttempts
  <2>1. job' = [job EXCEPT ![a] = Released(job[a], "retryable_failed")] /\ UNCHANGED <<analysis, material>>
    BY <1>1 DEF GiveUpAttempt
  <2>2. job' \in [Analyses -> JobRow]
    <3>1. Released(job[a], "retryable_failed") \in JobRow
      BY <1>1 DEF MaterialTypeOK, JobRow, Released, Claimable
    <3> QED BY <2>1, <3>1 DEF MaterialTypeOK, JobRow
  <2>3. \A b \in Analyses : b # a => job'[b] = job[b]
    BY <2>1 DEF MaterialTypeOK
  <2>4. job'[a].status = "retryable_failed"
    BY <2>1 DEF MaterialTypeOK, Released
  <2>5. \A b \in Analyses : analysis'[b] \in Results <=> job'[b].status \in TERMINAL_JOB_STATUSES
    BY <1>0, <2>1, <2>3, <2>4 DEF SettledTogether, TERMINAL_JOB_STATUSES
  <2> QED BY <2>1, <2>2, <2>5 DEF MaterialTypeOK, AnalysisStatus
<1>2. CASE ~(job[a].charged < MaxAttempts)
  <2>1. /\ job' = [job EXCEPT ![a] = Released(job[a], "failed")]
        /\ analysis' = [analysis EXCEPT ![a] = "failed"]
        /\ material' = IF material = "archived" THEN material ELSE "failed"
    BY <1>0, <1>2 DEF GiveUpAttempt, finalize_exhausted_raw_material_analysis_job
  <2>2. job' \in [Analyses -> JobRow]
    <3>1. Released(job[a], "failed") \in JobRow
      BY <1>2 DEF MaterialTypeOK, JobRow, Released, TERMINAL_JOB_STATUSES
    <3> QED BY <2>1, <3>1 DEF MaterialTypeOK, JobRow
  <2>3. \A b \in Analyses : b # a => job'[b] = job[b] /\ analysis'[b] = analysis[b]
    BY <2>1 DEF MaterialTypeOK
  <2>4. job'[a].status = "failed" /\ analysis'[a] = "failed"
    BY <2>1 DEF MaterialTypeOK, Released
  <2>5. \A b \in Analyses : analysis'[b] \in Results <=> job'[b].status \in TERMINAL_JOB_STATUSES
    BY <2>3, <2>4 DEF SettledTogether, TERMINAL_JOB_STATUSES, Results
  <2>6. analysis' \in [Analyses -> AnalysisStatus] /\ material' \in MaterialStatus
    BY <2>1 DEF MaterialTypeOK, AnalysisStatus, Results, MaterialStatus
  <2> QED BY <2>1, <2>2, <2>5, <2>6
<1> QED BY <1>1, <1>2

\* A new analysis and its job.
LEMMA Queue ==
  ASSUME MaterialTypeOK, SettledTogether, _queue_raw_material_analysis
  PROVE  /\ created' \in 0..MaxAnalyses
         /\ job' \in [Analyses -> JobRow]
         /\ analysis' \in [Analyses -> AnalysisStatus]
         /\ \A b \in Analyses : analysis'[b] \in Results <=> job'[b].status \in TERMINAL_JOB_STATUSES
         /\ \E b \in Analyses : analysis'[b] \in Live
<1>0. /\ created + 1 \in Analyses
      /\ created' = created + 1
      /\ analysis' = [analysis EXCEPT ![created + 1] = "pending"]
      /\ job' = [job EXCEPT ![created + 1] = [status |-> "pending", owner |-> None, charged |-> 0]]
  <2>1. [NoJob EXCEPT !.status = "pending"] = [status |-> "pending", owner |-> None, charged |-> 0]
    BY DEF NoJob
  <2>2. created + 1 \in Analyses
    BY BoundsAssumption DEF _queue_raw_material_analysis, MaterialTypeOK, Analyses
  <2> QED BY <2>1, <2>2 DEF _queue_raw_material_analysis
<1>1. created' \in 0..MaxAnalyses
  BY <1>0, BoundsAssumption DEF Analyses
<1>2. job' \in [Analyses -> JobRow]
  BY <1>0, BoundsAssumption DEF MaterialTypeOK, JobRow, Claimable
<1>3. analysis' \in [Analyses -> AnalysisStatus]
  BY <1>0 DEF MaterialTypeOK, AnalysisStatus, Live
<1>4. \A b \in Analyses : b # created + 1 => job'[b] = job[b] /\ analysis'[b] = analysis[b]
  BY <1>0 DEF MaterialTypeOK
<1>5. job'[created + 1].status = "pending" /\ analysis'[created + 1] = "pending"
  BY <1>0 DEF MaterialTypeOK
<1>6. \A b \in Analyses : analysis'[b] \in Results <=> job'[b].status \in TERMINAL_JOB_STATUSES
  BY <1>4, <1>5 DEF SettledTogether, TERMINAL_JOB_STATUSES, Results
<1> QED BY <1>0, <1>1, <1>2, <1>3, <1>5, <1>6 DEF Live

\* The invariant holds before the upload.
LEMMA MaterialStarts == MaterialInit => MaterialInv
<1> SUFFICES ASSUME MaterialInit PROVE MaterialInv
  OBVIOUS
<1>1. MaterialTypeOK
  BY BoundsAssumption DEF MaterialInit, MaterialTypeOK, MaterialStatus, NoJob, Unassigned
<1>2. HasAnalysis BY DEF MaterialInit, HasAnalysis, Unassigned
<1>3. SettledTogether BY DEF MaterialInit, SettledTogether, NoJob, Results, TERMINAL_JOB_STATUSES
<1>4. ProcessingIsAttended BY DEF MaterialInit, ProcessingIsAttended
<1> QED BY <1>1, <1>2, <1>3, <1>4 DEF MaterialInv

\* Every step of the requests, the slots and the recovery keeps the invariant.
LEMMA MaterialStep ==
  ASSUME MaterialInv, [MaterialNext]_materialVars
  PROVE  MaterialInv'
<1> USE DEF MaterialInv
<1>1. CASE upload_raw_material \/ UploadDies \/ delete_raw_material
  BY <1>1 DEF upload_raw_material, UploadDies, delete_raw_material, MaterialTypeOK, MaterialStatus,
              HasAnalysis, SettledTogether, ProcessingIsAttended
<1>2. CASE UploadQueues
  <2>1. _queue_raw_material_analysis /\ upload' = "answered" /\ UNCHANGED <<material, attempt, asking>>
    BY <1>2 DEF UploadQueues
  <2>2. MaterialTypeOK'
    BY <2>1, Queue DEF MaterialTypeOK, JobRow, AnalysisStatus
  <2>3. SettledTogether'
    BY <2>1, Queue DEF SettledTogether
  <2>4. ProcessingIsAttended'
    BY <2>1, Queue DEF ProcessingIsAttended
  <2> QED BY <2>1, <2>2, <2>3, <2>4 DEF HasAnalysis
<1>3. ASSUME NEW c \in Callers, analyze_raw_material(c) \/ AnalyzeDies(c)
      PROVE  MaterialInv'
  <2>1. asking' \in [Callers -> BOOLEAN]
    BY <1>3, Zenon DEF analyze_raw_material, AnalyzeDies, MaterialTypeOK
  <2>2. UNCHANGED <<upload, material, created, analysis, job, attempt>>
    BY <1>3 DEF analyze_raw_material, AnalyzeDies
  <2> QED BY <2>1, <2>2 DEF MaterialTypeOK, HasAnalysis, SettledTogether, ProcessingIsAttended
<1>4. ASSUME NEW c \in Callers, AnalyzeQueues(c)
      PROVE  MaterialInv'
  <2>1. _queue_raw_material_analysis /\ material' = "processing" /\ UNCHANGED <<upload, attempt>>
    BY <1>4 DEF AnalyzeQueues
  <2>2. asking' \in [Callers -> BOOLEAN]
    BY <1>4, Zenon DEF AnalyzeQueues, MaterialTypeOK
  <2>3. MaterialTypeOK'
    BY <2>1, <2>2, Queue DEF MaterialTypeOK, JobRow, AnalysisStatus, MaterialStatus
  <2>4. SettledTogether'
    BY <2>1, Queue DEF SettledTogether
  <2>5. ProcessingIsAttended'
    BY <2>1, Queue DEF ProcessingIsAttended
  <2> QED BY <2>1, <2>3, <2>4, <2>5 DEF HasAnalysis
<1>5. ASSUME NEW a \in Analyses, recover_expired_lease(a)
      PROVE  MaterialInv'
  <2>1. job[a].status = "running" /\ GiveUpAttempt(a) /\ UNCHANGED <<upload, created, attempt, asking>>
    BY <1>5 DEF recover_expired_lease
  <2>2. MaterialTypeOK'
    BY <2>1, GiveUp DEF MaterialTypeOK, JobRow, AnalysisStatus
  <2>3. SettledTogether'
    BY <2>1, GiveUp DEF SettledTogether
  <2>4. ProcessingIsAttended'
    BY <2>1, GiveUp DEF ProcessingIsAttended
  <2> QED BY <2>1, <2>2, <2>3, <2>4 DEF HasAnalysis
<1>6. ASSUME NEW s \in Slots, _record_unhandled_failure(s) \/ Crash(s)
      PROVE  MaterialInv'
  <2>1. attempt' \in [Slots -> Attempt]
    BY <1>6, BoundsAssumption DEF _record_unhandled_failure, Crash, MaterialTypeOK, Attempt, Unassigned
  <2>2. HasAnalysis'
    <3>1. attempt' = [attempt EXCEPT ![s] = Unassigned]
      BY <1>6 DEF _record_unhandled_failure, Crash
    <3> QED BY <3>1 DEF MaterialTypeOK, HasAnalysis, Unassigned
  <2>3. CASE UNCHANGED <<job, analysis, material>>
    BY <1>6, <2>1, <2>2, <2>3 DEF _record_unhandled_failure, Crash, MaterialTypeOK, Attempt, SettledTogether, ProcessingIsAttended
  <2>4. CASE ~UNCHANGED <<job, analysis, material>>
    <3>1. PICK a \in Analyses : job[a].status = "running" /\ GiveUpAttempt(a)
      BY <1>6, <2>4 DEF _record_unhandled_failure, Crash, Owns, HasAnalysis
    <3>2. UNCHANGED <<upload, created, asking>>
      BY <1>6 DEF _record_unhandled_failure, Crash
    <3>3. MaterialTypeOK'
      BY <2>1, <3>1, <3>2, GiveUp DEF MaterialTypeOK, JobRow, AnalysisStatus, Attempt
    <3>4. SettledTogether'
      BY <3>1, GiveUp DEF SettledTogether
    <3>5. ProcessingIsAttended'
      BY <3>1, <3>2, GiveUp DEF ProcessingIsAttended
    <3> QED BY <2>2, <3>3, <3>4, <3>5
  <2> QED BY <2>3, <2>4
<1>7. ASSUME NEW s \in Slots, NEW a \in Analyses, claim_next_job(s, a)
      PROVE  MaterialInv'
  <2>1. job' \in [Analyses -> JobRow]
    BY <1>7, BoundsAssumption DEF claim_next_job, MaterialTypeOK, JobRow
  <2>2. attempt' \in [Slots -> Attempt]
    BY <1>7 DEF claim_next_job, MaterialTypeOK, Attempt, Analyses
  <2>3. HasAnalysis'
    BY <1>7 DEF claim_next_job, MaterialTypeOK, HasAnalysis
  <2>4. SettledTogether'
    BY <1>7 DEF claim_next_job, MaterialTypeOK, SettledTogether, Claimable, TERMINAL_JOB_STATUSES
  <2> QED BY <1>7, <2>1, <2>2, <2>3, <2>4 DEF claim_next_job, MaterialTypeOK, JobRow, Attempt, ProcessingIsAttended
<1>8. ASSUME NEW s \in Slots, AnalysisStarts(s)
      PROVE  MaterialInv'
  <2>0. PICK a \in Analyses : a = attempt[s].of
    BY <1>8 DEF AnalysisStarts, HasAnalysis
  <2>1. /\ job[a].status = "running" /\ analysis' = [analysis EXCEPT ![a] = "running"]
        /\ material' = "processing"
        /\ attempt' = [attempt EXCEPT ![s].pc = "analysing"]
        /\ UNCHANGED <<upload, created, job, asking>>
    BY <1>8, <2>0 DEF AnalysisStarts, Owns
  <2>2. analysis' \in [Analyses -> AnalysisStatus] /\ attempt' \in [Slots -> Attempt] /\ material' \in MaterialStatus
    BY <2>1 DEF MaterialTypeOK, AnalysisStatus, Live, Attempt, MaterialStatus
  <2>3. HasAnalysis'
    BY <2>0, <2>1 DEF HasAnalysis, MaterialTypeOK
  <2>4. SettledTogether'
    BY <2>1 DEF SettledTogether, MaterialTypeOK, TERMINAL_JOB_STATUSES, Results
  <2>5. ProcessingIsAttended'
    BY <2>1 DEF ProcessingIsAttended, MaterialTypeOK, Live
  <2> QED BY <2>1, <2>2, <2>3, <2>4, <2>5 DEF MaterialTypeOK, AnalysisStatus, Attempt
<1>9. ASSUME NEW s \in Slots, NEW result \in Results, AnalysisEnds(s, result)
      PROVE  MaterialInv'
  <2>0. PICK a \in Analyses : a = attempt[s].of
    BY <1>9 DEF AnalysisEnds, HasAnalysis
  <2>1. PICK st \in {"succeeded", "failed"} :
          /\ analysis' = [analysis EXCEPT ![a] = result]
          /\ material' = result
          /\ job' = [job EXCEPT ![a] = [job[a] EXCEPT !.status = st, !.owner = None]]
          /\ attempt' = [attempt EXCEPT ![s] = Unassigned]
          /\ UNCHANGED <<upload, created, asking>>
    BY <1>9, <2>0 DEF AnalysisEnds, Released
  <2>2. job' \in [Analyses -> JobRow] /\ job'[a].status = st /\ \A b \in Analyses : b # a => job'[b] = job[b]
    BY <2>1 DEF MaterialTypeOK, JobRow, TERMINAL_JOB_STATUSES
  <2>3. analysis' \in [Analyses -> AnalysisStatus] /\ material' \in MaterialStatus
    BY <2>1 DEF MaterialTypeOK, AnalysisStatus, MaterialStatus, Results
  <2>4. attempt' \in [Slots -> Attempt]
    BY <2>1, BoundsAssumption DEF MaterialTypeOK, Attempt, Unassigned
  <2>5. HasAnalysis'
    BY <2>1 DEF HasAnalysis, MaterialTypeOK, Unassigned
  <2>6. SettledTogether'
    <3>1. analysis'[a] = result /\ \A b \in Analyses : b # a => analysis'[b] = analysis[b]
      BY <2>1 DEF MaterialTypeOK
    <3> QED BY <2>2, <3>1 DEF SettledTogether, TERMINAL_JOB_STATUSES
  <2>7. ProcessingIsAttended'
    BY <2>1 DEF ProcessingIsAttended, Results
  <2> QED BY <2>1, <2>2, <2>3, <2>4, <2>5, <2>6, <2>7 DEF MaterialTypeOK, JobRow, AnalysisStatus, Attempt
<1>10. CASE UNCHANGED materialVars
  BY <1>10 DEF materialVars, MaterialTypeOK, HasAnalysis, SettledTogether, ProcessingIsAttended
<1> QED BY <1>1, <1>2, <1>3, <1>4, <1>5, <1>6, <1>7, <1>8, <1>9, <1>10 DEF MaterialNext, Work

\* The inductive invariant: jobs and analyses end together, and whoever is
\* being processed is attended to.
THEOREM RawMaterialInvariance == MaterialSpec => []MaterialInv
<1>1. MaterialInit => MaterialInv BY MaterialStarts
<1>2. MaterialInv /\ [MaterialNext]_materialVars => MaterialInv' BY MaterialStep
<1> QED BY <1>1, <1>2, PTL DEF MaterialSpec

\* An analysis has its result exactly when its job has ended, through crashes,
\* lost leases and used-up attempts (process_raw_material_analysis_job and
\* finalize_exhausted_raw_material_analysis_job commit both).
THEOREM AnalysesSettleWithJobs == MaterialSpec => []SettledTogether
<1>1. MaterialInv => SettledTogether BY DEF MaterialInv
<1> QED BY <1>1, RawMaterialInvariance, PTL

\* A material that refuses another analysis because it is being processed has
\* an analysis that will end it, except after a dead upload.
THEOREM ProcessingAlwaysAttended == MaterialSpec => []ProcessingIsAttended
<1>1. MaterialInv => ProcessingIsAttended BY DEF MaterialInv
<1> QED BY <1>1, RawMaterialInvariance, PTL

(***************************************************************************)
(* The analyses implement JobLifecycle.                                    *)
(***************************************************************************)

\* What has not been asked for has no job.
Fresh == \A a \in Analyses : a > created => job[a].status = "absent"

\* A step of the jobs, as far as their life cycle is concerned.
Quiet ==
  /\ job' = job /\ created' = created
  /\ \A b \in Analyses : analysis'[b] \in Results <=> analysis[b] \in Results
Given == \E a \in Analyses : job[a].status = "running" /\ GiveUpAttempt(a) /\ created' = created
Ends ==
  \E a \in Analyses, result \in Results, st \in {"succeeded", "failed"} :
    /\ job[a].status = "running" /\ created' = created
    /\ analysis' = [analysis EXCEPT ![a] = result]
    /\ job' = [job EXCEPT ![a] = Released(job[a], st)]

\* Requests, slots and the recovery do nothing else to the jobs.
LEMMA JobsStep ==
  ASSUME MaterialInv, [MaterialNext]_materialVars
  PROVE  \/ Quiet \/ _queue_raw_material_analysis \/ Given \/ Ends
         \/ \E s \in Slots, a \in Analyses : claim_next_job(s, a)
<1>1. CASE upload_raw_material \/ UploadDies \/ delete_raw_material
  BY <1>1 DEF upload_raw_material, UploadDies, delete_raw_material, Quiet
<1>2. CASE UploadQueues \/ \E c \in Callers : AnalyzeQueues(c)
  BY <1>2 DEF UploadQueues, AnalyzeQueues
<1>3. CASE \E c \in Callers : analyze_raw_material(c) \/ AnalyzeDies(c)
  BY <1>3 DEF analyze_raw_material, AnalyzeDies, Quiet
<1>4. CASE \E a \in Analyses : recover_expired_lease(a)
  BY <1>4 DEF recover_expired_lease, Given
<1>5. ASSUME NEW s \in Slots, _record_unhandled_failure(s)
      PROVE  Quiet \/ Given
  <2>1. attempt[s].of \in Analyses /\ created' = created
    BY <1>5 DEF _record_unhandled_failure, MaterialInv, HasAnalysis
  <2> QED BY <1>5, <2>1 DEF _record_unhandled_failure, Owns, Quiet, Given
<1>6. CASE \E s \in Slots : Crash(s)
  BY <1>6 DEF Crash, Quiet
<1>7. ASSUME NEW s \in Slots, AnalysisStarts(s)
      PROVE  Quiet
  <2>1. PICK a \in Analyses : a = attempt[s].of
    BY <1>7 DEF AnalysisStarts, MaterialInv, HasAnalysis
  <2>2. job[a].status = "running" /\ analysis' = [analysis EXCEPT ![a] = "running"]
    BY <1>7, <2>1 DEF AnalysisStarts, Owns
  <2>3. analysis[a] \notin Results
    BY <2>2 DEF MaterialInv, SettledTogether, TERMINAL_JOB_STATUSES
  <2>4. \A b \in Analyses : analysis'[b] = IF b = a THEN "running" ELSE analysis[b]
    BY <2>2 DEF MaterialInv, MaterialTypeOK
  <2> QED BY <1>7, <2>3, <2>4 DEF AnalysisStarts, Quiet, Results
<1>8. ASSUME NEW s \in Slots, NEW result \in Results, AnalysisEnds(s, result)
      PROVE  Ends
  <2>1. PICK a \in Analyses : a = attempt[s].of
    BY <1>8 DEF AnalysisEnds, MaterialInv, HasAnalysis
  <2>2. job[a].status = "running" /\ created' = created /\ analysis' = [analysis EXCEPT ![a] = result]
    BY <1>8, <2>1 DEF AnalysisEnds, Owns
  <2>3. PICK st \in {"succeeded", "failed"} : job' = [job EXCEPT ![a] = Released(job[a], st)]
    BY <1>8, <2>1 DEF AnalysisEnds
  <2> QED BY <2>2, <2>3 DEF Ends
<1>9. CASE UNCHANGED materialVars
  BY <1>9 DEF materialVars, Quiet
<1> QED BY <1>1, <1>2, <1>3, <1>4, <1>5, <1>6, <1>7, <1>8, <1>9 DEF MaterialNext, Work

\* A function that differs from another in one place.
LEMMA Updated ==
  ASSUME NEW S, NEW f, NEW g, NEW a, NEW v,
         f = [b \in S |-> f[b]], g = [b \in S |-> g[b]], \A b \in S : g[b] = IF b = a THEN v ELSE f[b]
  PROVE  g = [f EXCEPT ![a] = v]
OBVIOUS

\* A change of one row is a move of one job.
LEMMA RowMoves ==
  ASSUME MaterialTypeOK, NEW a \in Analyses, NEW r, NEW p, NEW t, NEW n,
         job' = [job EXCEPT ![a] = r], Phase(r) = p, AttemptAt(a, r) = t, r.charged = n
  PROVE  Lifecycle!Move(a, p, t, n)
<1>1. \A b \in Analyses : job'[b] = IF b = a THEN r ELSE job[b]
  BY DEF MaterialTypeOK
<1>2. [b \in Analyses |-> Phase(job'[b])] = [[b \in Analyses |-> Phase(job[b])] EXCEPT ![a] = p]
  <2> DEFINE f == [b \in Analyses |-> Phase(job[b])]
             g == [b \in Analyses |-> Phase(job'[b])]
  <2>1. f = [b \in Analyses |-> f[b]] /\ g = [b \in Analyses |-> g[b]]
    OBVIOUS
  <2>2. \A b \in Analyses : g[b] = IF b = a THEN p ELSE f[b]
    BY <1>1
  <2> HIDE DEF f, g
  <2>3. g = [f EXCEPT ![a] = p]
    BY <2>1, <2>2, Updated
  <2> QED BY <2>3 DEF f, g
<1>3. [b \in Analyses |-> AttemptAt(b, job'[b])]
        = [[b \in Analyses |-> AttemptAt(b, job[b])] EXCEPT ![a] = t]
  <2> DEFINE f == [b \in Analyses |-> AttemptAt(b, job[b])]
             g == [b \in Analyses |-> AttemptAt(b, job'[b])]
  <2>1. f = [b \in Analyses |-> f[b]] /\ g = [b \in Analyses |-> g[b]]
    OBVIOUS
  <2>2. \A b \in Analyses : g[b] = IF b = a THEN t ELSE f[b]
    BY <1>1
  <2> HIDE DEF f, g
  <2>3. g = [f EXCEPT ![a] = t]
    BY <2>1, <2>2, Updated
  <2> QED BY <2>3 DEF f, g
<1>4. [b \in Analyses |-> job'[b].charged] = [[b \in Analyses |-> job[b].charged] EXCEPT ![a] = n]
  <2> DEFINE f == [b \in Analyses |-> job[b].charged]
             g == [b \in Analyses |-> job'[b].charged]
  <2>1. f = [b \in Analyses |-> f[b]] /\ g = [b \in Analyses |-> g[b]]
    OBVIOUS
  <2>2. \A b \in Analyses : g[b] = IF b = a THEN n ELSE f[b]
    BY <1>1
  <2> HIDE DEF f, g
  <2>3. g = [f EXCEPT ![a] = n]
    BY <2>1, <2>2, Updated
  <2> QED BY <2>3 DEF f, g
<1> QED BY <1>2, <1>3, <1>4 DEF Lifecycle!Move

\* A result closes what the job drives.
LEMMA ResultCloses ==
  ASSUME MaterialTypeOK, NEW a \in Analyses, NEW result \in Results, analysis' = [analysis EXCEPT ![a] = result]
  PROVE  Lifecycle!Close(a)
<1> DEFINE f == [b \in Analyses |-> DomainOf(analysis[b])]
           g == [b \in Analyses |-> DomainOf(analysis'[b])]
<1>1. \A b \in Analyses : analysis'[b] = IF b = a THEN result ELSE analysis[b]
  BY DEF MaterialTypeOK
<1>2. DomainOf(result) = "closed"
  BY DEF DomainOf
<1>3. f = [b \in Analyses |-> f[b]] /\ g = [b \in Analyses |-> g[b]]
  OBVIOUS
<1>4. \A b \in Analyses : g[b] = IF b = a THEN "closed" ELSE f[b]
  BY <1>1, <1>2
<1> HIDE DEF f, g
<1>5. g = [f EXCEPT ![a] = "closed"]
  BY <1>3, <1>4, Updated
<1> QED BY <1>5 DEF f, g, Lifecycle!Close

\* What changes no result is not seen.
LEMMA NothingSeen ==
  ASSUME \A b \in Analyses : analysis'[b] \in Results <=> analysis[b] \in Results
  PROVE  /\ UNCHANGED [b \in Analyses |-> DomainOf(analysis[b])]
         /\ job' = job => UNCHANGED Lifecycle!lifecycle
<1>1. \A b \in Analyses : DomainOf(analysis'[b]) = DomainOf(analysis[b])
  BY DEF DomainOf
<1>2. [b \in Analyses |-> DomainOf(analysis'[b])] = [b \in Analyses |-> DomainOf(analysis[b])]
  BY <1>1
<1> QED BY <1>2 DEF Lifecycle!lifecycle

\* A new analysis is submitted.
LEMMA QueueSubmits ==
  ASSUME MaterialInv, Fresh, _queue_raw_material_analysis
  PROVE  Lifecycle!Next /\ Fresh'
<1>0. MaterialTypeOK /\ SettledTogether /\ MaxAnalyses \in Nat
  BY BoundsAssumption DEF MaterialInv
<1>a. PICK a \in Analyses : a = created + 1 /\ created < a
  BY <1>0 DEF _queue_raw_material_analysis, MaterialTypeOK, Analyses
<1>b. PICK r : r = [NoJob EXCEPT !.status = "pending"]
  OBVIOUS
<1>1. /\ a = created + 1 /\ r = [NoJob EXCEPT !.status = "pending"] /\ created < a
      /\ created' = a /\ analysis' = [analysis EXCEPT ![a] = "pending"] /\ job' = [job EXCEPT ![a] = r]
  BY <1>a, <1>b DEF _queue_raw_material_analysis
<1>2. job[a].status = "absent" /\ created \in Nat
  BY <1>0, <1>1 DEF Fresh, MaterialTypeOK
<1>3. Phase(r) = "waiting" /\ AttemptAt(a, r) = NoAttempt /\ r.charged = 0
  BY <1>1 DEF NoJob, Phase, Claimable, AttemptAt
<1>4. Lifecycle!Move(a, "waiting", NoAttempt, 0)
  BY <1>0, <1>1, <1>3, RowMoves
<1>5. UNCHANGED [b \in Analyses |-> DomainOf(analysis[b])]
  <2>1. analysis[a] \notin Results
    BY <1>0, <1>2 DEF SettledTogether, TERMINAL_JOB_STATUSES
  <2>2. \A b \in Analyses : analysis'[b] = IF b = a THEN "pending" ELSE analysis[b]
    BY <1>0, <1>1 DEF MaterialTypeOK
  <2>3. \A b \in Analyses : analysis'[b] \in Results <=> analysis[b] \in Results
    BY <2>1, <2>2 DEF Results
  <2> QED BY <2>3, NothingSeen
<1>6. [b \in Analyses |-> Phase(job[b])][a] = "absent"
  <2>1. Phase(job[a]) = "absent"
    BY <1>2 DEF Phase, Claimable
  <2> QED BY <2>1
<1>7. Lifecycle!Submit(a)
  BY <1>4, <1>5, <1>6 DEF Lifecycle!Submit
<1>8. Fresh'
  <2>1. \A b \in Analyses : b # a => job'[b] = job[b]
    BY <1>0, <1>1 DEF MaterialTypeOK
  <2> QED BY <1>1, <1>2, <2>1 DEF Fresh, Analyses
<1> QED BY <1>7, <1>8 DEF Lifecycle!Next

\* A claim starts the next attempt.
LEMMA ClaimStarts ==
  ASSUME MaterialInv, Fresh, NEW s \in Slots, NEW a \in Analyses, claim_next_job(s, a)
  PROVE  Lifecycle!Next /\ Fresh'
<1>0. MaterialTypeOK /\ MaxAttempts \in Nat
  BY BoundsAssumption DEF MaterialInv
<1>a. PICK n \in 1..MaxAttempts : n = job[a].charged + 1 /\ job[a].charged < MaxAttempts
  BY <1>0 DEF claim_next_job, MaterialTypeOK
<1>b. PICK r : r = [status |-> "running", owner |-> s, charged |-> n]
  OBVIOUS
<1>1. /\ n = job[a].charged + 1 /\ job[a].charged < MaxAttempts
      /\ r = [status |-> "running", owner |-> s, charged |-> n]
      /\ job' = [job EXCEPT ![a] = r] /\ created' = created /\ analysis' = analysis
  BY <1>a, <1>b DEF claim_next_job
<1>2. job[a].status \in Claimable
  BY DEF claim_next_job
<1>3. Phase(r) = "active" /\ AttemptAt(a, r) = <<a, n>> /\ r.charged = n /\ r.status = "running"
  BY <1>1 DEF Phase, Claimable, AttemptAt
<1>4. Lifecycle!Move(a, "active", <<a, n>>, n)
  BY <1>0, <1>1, <1>3, RowMoves
<1>5. [b \in Analyses |-> Phase(job[b])][a] = "waiting"
  <2>1. Phase(job[a]) = "waiting"
    BY <1>2 DEF Phase, Claimable
  <2> QED BY <2>1
<1>6. \A i \in Analyses : [b \in Analyses |-> AttemptAt(b, job[b])][i] # <<a, n>>
  <2>1. \A i \in Analyses : AttemptAt(i, job[i]) # <<a, n>>
    BY <1>2 DEF AttemptAt, NoAttempt, Analyses, Claimable
  <2> QED BY <2>1
<1>7. UNCHANGED [b \in Analyses |-> DomainOf(analysis[b])]
  BY <1>1, NothingSeen
<1>8. [b \in Analyses |-> job[b].charged][a] < MaxAttempts /\ [b \in Analyses |-> job[b].charged][a] + 1 = n
  BY <1>1
<1>9. Lifecycle!Start(a, <<a, n>>)
  BY <1>4, <1>5, <1>6, <1>7, <1>8 DEF Lifecycle!Start, Lifecycle!Move
<1>10. Fresh'
  <2>1. job'[a].status = "running" /\ \A b \in Analyses : b # a => job'[b] = job[b]
    BY <1>0, <1>1, <1>3 DEF MaterialTypeOK
  <2> QED BY <1>1, <1>2, <2>1 DEF Fresh, Claimable
<1> QED BY <1>9, <1>10 DEF Lifecycle!Next

\* The row of a running job is released, as far as its life cycle is concerned.
LEMMA Releases ==
  ASSUME MaterialInv, Fresh, NEW a \in Analyses, job[a].status = "running",
         NEW st \in {"retryable_failed", "succeeded", "failed"}, NEW p, p = IF st = "retryable_failed" THEN "waiting" ELSE "ended",
         job' = [job EXCEPT ![a] = Released(job[a], st)], created' = created,
         NEW n, n = job[a].charged
  PROVE  /\ Lifecycle!Move(a, p, NoAttempt, n)
         /\ [b \in Analyses |-> Phase(job[b])][a] = "active"
         /\ [b \in Analyses |-> job[b].charged][a] = n
         /\ n \in 0..MaxAttempts
         /\ Fresh'
<1>0. MaterialTypeOK
  BY DEF MaterialInv
<1>1. PICK r : r = Released(job[a], st) /\ job' = [job EXCEPT ![a] = r]
  OBVIOUS
<1>2. r.status = st /\ r.charged = n /\ n \in 0..MaxAttempts
  BY <1>0, <1>1 DEF Released, MaterialTypeOK
<1>3. Phase(r) = p /\ AttemptAt(a, r) = NoAttempt
  BY <1>2 DEF Phase, Claimable, AttemptAt
<1>4. Lifecycle!Move(a, p, NoAttempt, n)
  BY <1>0, <1>1, <1>2, <1>3, RowMoves
<1>5. [b \in Analyses |-> Phase(job[b])][a] = "active"
  <2>1. Phase(job[a]) = "active"
    BY DEF Phase, Claimable
  <2> QED BY <2>1
<1>6. Fresh'
  <2>1. \A b \in Analyses : b # a => job'[b] = job[b]
    BY <1>0, <1>1 DEF MaterialTypeOK
  <2> QED BY <2>1 DEF Fresh
<1> QED BY <1>2, <1>4, <1>5, <1>6

\* An attempt that is given up is repeated or exhausts the job.
LEMMA GiveUpRepeatsOrExhausts ==
  ASSUME MaterialInv, Fresh, NEW a \in Analyses, job[a].status = "running", GiveUpAttempt(a), created' = created
  PROVE  Lifecycle!Next /\ Fresh'
<1>0. MaterialTypeOK /\ SettledTogether /\ MaxAttempts \in Nat
  BY BoundsAssumption DEF MaterialInv
<1>1. PICK n : n = job[a].charged
  OBVIOUS
<1>2. n \in 0..MaxAttempts /\ analysis[a] \notin Results
  BY <1>0, <1>1 DEF MaterialTypeOK, SettledTogether, TERMINAL_JOB_STATUSES
<1>3. CASE n < MaxAttempts
  <2>1. job' = [job EXCEPT ![a] = Released(job[a], "retryable_failed")] /\ analysis' = analysis
    BY <1>1, <1>3 DEF GiveUpAttempt
  <2>2. /\ Lifecycle!Move(a, "waiting", NoAttempt, n) /\ Fresh'
        /\ [b \in Analyses |-> Phase(job[b])][a] = "active"
        /\ [b \in Analyses |-> job[b].charged][a] = n
    BY <1>1, <2>1, Releases
  <2>3. UNCHANGED [b \in Analyses |-> DomainOf(analysis[b])]
    BY <2>1, NothingSeen
  <2>4. Lifecycle!Repeat(a, n)
    BY <1>3, <2>2, <2>3 DEF Lifecycle!Repeat
  <2> QED BY <1>2, <2>2, <2>4 DEF Lifecycle!Next
<1>4. CASE ~(n < MaxAttempts)
  <2>1. job' = [job EXCEPT ![a] = Released(job[a], "failed")] /\ analysis' = [analysis EXCEPT ![a] = "failed"]
    BY <1>1, <1>2, <1>4 DEF GiveUpAttempt, finalize_exhausted_raw_material_analysis_job
  <2>2. /\ Lifecycle!Move(a, "ended", NoAttempt, n) /\ Fresh'
        /\ [b \in Analyses |-> Phase(job[b])][a] = "active"
        /\ [b \in Analyses |-> job[b].charged][a] = n
    BY <1>1, <2>1, Releases
  <2>3. Lifecycle!Close(a)
    BY <1>0, <2>1, ResultCloses DEF Results
  <2>4. n = MaxAttempts
    BY <1>0, <1>2, <1>4
  <2>5. Lifecycle!Exhaust(a)
    BY <2>2, <2>3, <2>4 DEF Lifecycle!Exhaust, Lifecycle!Move
  <2> QED BY <2>2, <2>5 DEF Lifecycle!Next
<1> QED BY <1>3, <1>4

\* A result ends the job and closes what it drives.
LEMMA ResultEnds ==
  ASSUME MaterialInv, Fresh, Ends
  PROVE  Lifecycle!Next /\ Fresh'
<1>0. MaterialTypeOK
  BY DEF MaterialInv
<1>1. PICK a \in Analyses, result \in Results, st \in {"succeeded", "failed"} :
        /\ job[a].status = "running" /\ created' = created
        /\ analysis' = [analysis EXCEPT ![a] = result]
        /\ job' = [job EXCEPT ![a] = Released(job[a], st)]
  BY DEF Ends
<1>2. PICK n : n = job[a].charged
  OBVIOUS
<1>3. /\ Lifecycle!Move(a, "ended", NoAttempt, n) /\ Fresh'
      /\ [b \in Analyses |-> Phase(job[b])][a] = "active"
      /\ [b \in Analyses |-> job[b].charged][a] = n
  BY <1>1, <1>2, Releases
<1>4. Lifecycle!Close(a)
  BY <1>0, <1>1, ResultCloses
<1>5. Lifecycle!End(a)
  BY <1>3, <1>4 DEF Lifecycle!End, Lifecycle!Move
<1> QED BY <1>3, <1>5 DEF Lifecycle!Next

\* Each kind of step is one of the life cycle, and leaves what is not asked for
\* without a job.
LEMMA JobsSimulate ==
  ASSUME MaterialInv, Fresh, [MaterialNext]_materialVars
  PROVE  ([Lifecycle!Next]_(Lifecycle!lifecycle)) /\ Fresh'
<1>1. CASE Quiet
  <2>1. UNCHANGED Lifecycle!lifecycle
    BY <1>1, NothingSeen DEF Quiet
  <2>2. Fresh'
    BY <1>1 DEF Quiet, Fresh
  <2> QED BY <2>1, <2>2
<1>2. CASE _queue_raw_material_analysis
  BY <1>2, QueueSubmits
<1>3. CASE Given
  BY <1>3, GiveUpRepeatsOrExhausts DEF Given
<1>4. CASE Ends
  BY <1>4, ResultEnds
<1>5. CASE \E s \in Slots, a \in Analyses : claim_next_job(s, a)
  BY <1>5, ClaimStarts
<1> QED BY <1>1, <1>2, <1>3, <1>4, <1>5, JobsStep

\* Each analysis goes through the life of a job: one attempt at a time out of a
\* bounded budget, and a result, with the job's end, that no late attempt takes
\* back (process_raw_material_analysis_job and its exhausted finalizer).
THEOREM AnalysesImplementLifecycle == MaterialSpec => AnalysesAreJobs
<1>1. MaterialInit => Lifecycle!Init /\ Fresh
  <2> SUFFICES ASSUME MaterialInit PROVE Lifecycle!Init /\ Fresh
    OBVIOUS
  <2>1. \A a \in Analyses : Phase(job[a]) = "absent" /\ AttemptAt(a, job[a]) = NoAttempt /\ job[a].charged = 0
    <3>1. Phase(NoJob) = "absent" /\ NoJob.status # "running" /\ NoJob.charged = 0
      BY DEF Phase, NoJob, Claimable
    <3> QED BY <3>1 DEF MaterialInit, AttemptAt
  <2>3. \A a \in Analyses : DomainOf(analysis[a]) = "open"
    BY DEF MaterialInit, DomainOf, Results
  <2>2. Fresh
    BY DEF MaterialInit, Fresh, NoJob
  <2> QED BY <2>1, <2>2, <2>3 DEF Lifecycle!Init
<1>2. MaterialInv /\ Fresh /\ [MaterialNext]_materialVars => ([Lifecycle!Next]_(Lifecycle!lifecycle)) /\ Fresh'
  BY JobsSimulate
<1> QED BY <1>1, <1>2, RawMaterialInvariance, PTL DEF MaterialSpec, AnalysesAreJobs, Lifecycle!Spec
=============================================================================
