---------------------------- MODULE TerminalIngest ----------------------------
(* The ingestion of a terminal event with its files                          *)
(* (api/routes/runtime.py, domain/runtime/ingest.py, infra/object_store.py,   *)
(* RuntimeService.append_terminal_event): admission, parsing, preflight,      *)
(* inspection, one upload after another outside any transaction, then one     *)
(* transaction under the locks of the job and the run, and the deletion of    *)
(* the objects that ended up belonging to no event.                           *)
(*                                                                            *)
(* All requests are for one run.  A request is an asyncio task that may be    *)
(* cancelled at any await (task.cancel()).  An operation of the object store  *)
(* is then waited for (run_object_store_io); a worker thread is not: the      *)
(* request goes on at once, and a transaction already begun in its thread     *)
(* ends by itself.                                                            *)
EXTENDS TerminalContent, Sequences, FiniteSets

CONSTANTS
    Requests,       \* the requests of clients, retries included
    Carries,        \* the bodies each request may have
    MaxFiles,       \* terminal_event_max_upload_files
    MaxImage,       \* terminal_event_max_image_bytes
    MaxFile,        \* terminal_event_max_file_bytes
    MaxTotal,       \* terminal_event_max_total_file_bytes
    MaxRequest,     \* terminal_event_max_request_bytes
    Workers,        \* terminal_object_store_io_workers
    MaxFaults,      \* bound on the faults of the store, the database, the process
    MaxCancels,     \* bound on the cancellations of requests
    SpoolSize,      \* the size above which the web framework keeps a file on disk
    NoId            \* the external id of a request that carries none

(* The relations that Settings.validate_terminal_media_limits enforces; a     *)
(* JSON body has no files.                                                    *)
ASSUME IngestAssumption ==
    /\ MaxFiles \in Nat \ {0} /\ Workers \in Nat \ {0}
    /\ MaxImage <= MaxTotal /\ MaxFile <= MaxTotal /\ MaxTotal < MaxRequest
    /\ MaxFaults \in Nat /\ MaxCancels \in Nat /\ SpoolSize \in Nat
    /\ \A r \in Requests : \A b \in Carries[r] :
          /\ b.multipart \in BOOLEAN
          /\ b.files \in Seq([kind : STRING, size : Nat])
          /\ b.files # <<>> => b.multipart

VARIABLES
    body,       \* what each request carries
    session,    \* "open" until the run ends, then "closed"
    log,        \* the terminal events of the run, in seq_no order
    rows,       \* keys of the artifact_object rows
    objects,    \* keys in the object store
    free,       \* free places of the admission semaphore
    pc,         \* where each request stands; "leaked" kept its place for good
    sent,       \* the keys each request has uploaded
    kept,       \* the references its cleanup has read
    answer,     \* the event each request was answered with, 0 if none
    abandoned,  \* requests whose transaction goes on in its thread without them
    cut,        \* which requests were cancelled in what: "transaction", "cleanup"
    faults, cancels

ingestVars == <<body, session, log, rows, objects, free, pc, sent, kept, answer,
                abandoned, cut, faults, cancels>>
vars == <<ingestVars, served>>

Finished == {"done", "leaked", "lost"}
Key(r, i) == <<r, i>>
Elements(s) == {s[i] : i \in DOMAIN s}

TypeOK ==
    /\ session \in {"open", "closed"}
    /\ rows \subseteq Requests \X (1..MaxFiles)
    /\ objects \subseteq Requests \X (1..MaxFiles)
    /\ free \in 0..Workers
    /\ pc \in [Requests -> {"arrived", "admitted", "preflight", "inspect", "upload", "drop",
                            "persist", "reload", "cleanup", "delete", "closing"} \union Finished]
    /\ abandoned \subseteq Requests /\ cut \subseteq Requests \X {"transaction", "cleanup"}
    /\ answer \in [Requests -> 0..Len(log)]
    /\ faults \in 0..MaxFaults /\ cancels \in 0..MaxCancels

Init ==
    /\ body \in {b \in [Requests -> UNION {Carries[r] : r \in Requests}] :
                    \A r \in Requests : b[r] \in Carries[r]}
    /\ session = "open" /\ log = <<>> /\ rows = {} /\ objects = {}
    /\ free = Workers
    /\ pc = [r \in Requests |-> "arrived"]
    /\ sent = [r \in Requests |-> <<>>]
    /\ kept = [r \in Requests |-> {}]
    /\ answer = [r \in Requests |-> 0]
    /\ abandoned = {} /\ cut = {}
    /\ faults = 0 /\ cancels = 0
    /\ served = Idle

(*****************************************************************************)
(* What a request is turned into.                                            *)
(*****************************************************************************)
TextPart(id) == [id |-> id, kind |-> "text", key |-> <<>>]

(* A JSON body with text and no parts gets one text part without an id; a     *)
(* multipart body gets the part "text_1" for its text.                        *)
ParsedParts(b) ==
    IF b.multipart THEN IF b.text THEN <<TextPart(<<"text", 1>>)>> ELSE <<>>
    ELSE IF b.parts = <<>> /\ b.text THEN <<TextPart(<<>>)>>
    ELSE b.parts

_parse_multipart_refuses(b) ==
    \/ b.bytes > MaxRequest
    \/ Len(b.files) > MaxFiles
    \/ b.parts # <<>>
    \/ ~b.text /\ b.files = <<>>

_parse_json_refuses(b) == \E p \in Elements(b.parts) : p.kind # "text"

ParseRefuses(b) ==
    IF b.multipart THEN _parse_multipart_refuses(b) ELSE _parse_json_refuses(b)

SizeSum(files, i) ==
    LET sum[j \in 0..i] == IF j = 0 THEN 0 ELSE sum[j - 1] + files[j].size
    IN  sum[i]

(* _inspect_uploads and _inspect_stream: each file has a supported kind, is   *)
(* not empty, is within the limit of its kind, and the running total within   *)
(* the request's.                                                             *)
InspectRefuses(b) ==
    \E i \in DOMAIN b.files :
        LET f == b.files[i] IN
        \/ f.kind \notin {"image", "audio", "video"}
        \/ f.size = 0
        \/ f.size > (IF f.kind = "image" THEN MaxImage ELSE MaxFile)
        \/ SizeSum(b.files, i) > MaxTotal

(* The file of one kind gets the next number of that kind, as its part id.    *)
FilePart(b, r, i) ==
    [id |-> <<b.files[i].kind, Cardinality({j \in 1..i : b.files[j].kind = b.files[i].kind})>>,
     kind |-> b.files[i].kind, key |-> Key(r, i)]

(* _normalize_terminal_event_parts: a part without an id is numbered within   *)
(* its kind, whatever ids the other parts carry.                              *)
_normalize_terminal_event_parts(parts) ==
    [i \in DOMAIN parts |->
        IF parts[i].id # <<>> THEN parts[i]
        ELSE [parts[i] EXCEPT !.id =
                <<parts[i].kind, Cardinality({j \in 1..i : parts[j].kind = parts[i].kind})>>]]

EventParts(r) ==
    LET b == body[r] IN
    _normalize_terminal_event_parts(
        ParsedParts(b) \o [i \in DOMAIN sent[r] |-> FilePart(b, r, i)])

(* uk_terminal_event_part_event_part: the insert of the event fails.          *)
DuplicatePart(parts) == \E i, j \in DOMAIN parts : i # j /\ parts[i].id = parts[j].id

(* The event recorded for this external id, 0 if there is none.               *)
get_terminal_event_by_external_id(ext) ==
    IF ext = NoId \/ ~\E i \in DOMAIN log : log[i].ext = ext THEN 0
    ELSE CHOOSE i \in DOMAIN log : log[i].ext = ext

_validate_run_accepts_input == session = "open"

(*****************************************************************************)
(* The request.                                                              *)
(*****************************************************************************)
Move(r, to) == pc' = [pc EXCEPT ![r] = to]

HasPlace(r) == body[r].multipart /\ pc[r] # "arrived"

\* Mutant of Leave: only an answered request gives its place back.
LeaveAnswered(r, a) ==
    /\ Move(r, "done")
    /\ answer' = [answer EXCEPT ![r] = a]
    /\ free' = IF HasPlace(r) /\ a # 0 THEN free + 1 ELSE free

(* The finally of the endpoint: files closed, then the place given back.  A   *)
(* file on disk is closed by a thread the request awaits; until the body is   *)
(* parsed there are no files.                                                 *)
Leave(r, a) ==
    /\ answer' = [answer EXCEPT ![r] = a]
    /\ IF /\ pc[r] \notin {"arrived", "admitted"}
          /\ \E f \in Elements(body[r].files) : f.size > SpoolSize
       THEN Move(r, "closing") /\ UNCHANGED free
       ELSE Move(r, "done") /\ free' = IF HasPlace(r) THEN free + 1 ELSE free

Fault == faults < MaxFaults /\ faults' = faults + 1

Cancel == cancels < MaxCancels /\ cancels' = cancels + 1

(* What a request awaits raises, or the request is cancelled there.           *)
Interrupted == (Fault /\ UNCHANGED cancels) \/ (Cancel /\ UNCHANGED faults)
Undisturbed == UNCHANGED <<faults, cancels>>

acquire(r) ==
    /\ pc[r] = "arrived" /\ body[r].multipart /\ free > 0
    /\ Move(r, "admitted") /\ free' = free - 1
    /\ UNCHANGED <<session, log, rows, objects, sent, kept, answer, abandoned, cut, faults, cancels>>

\* Cancelled while it waits for a place.
CancelWaiting(r) ==
    /\ pc[r] = "arrived" /\ body[r].multipart /\ free = 0
    /\ Cancel /\ Leave(r, 0)
    /\ UNCHANGED <<session, log, rows, objects, sent, kept, abandoned, cut, faults>>

_parse_terminal_event_request(r) ==
    /\ pc[r] = IF body[r].multipart THEN "admitted" ELSE "arrived"
    /\ \/ ParseRefuses(body[r]) /\ Leave(r, 0) /\ Undisturbed
       \/ ~ParseRefuses(body[r]) /\ Move(r, "preflight") /\ UNCHANGED <<free, answer>> /\ Undisturbed
       \/ Interrupted /\ Leave(r, 0)
    /\ UNCHANGED <<session, log, rows, objects, sent, kept, abandoned, cut>>

_preflight(r) ==
    /\ pc[r] = "preflight"
    /\ LET existing == get_terminal_event_by_external_id(body[r].ext) IN
       \/ existing # 0 /\ Leave(r, existing) /\ Undisturbed
       \/ existing = 0 /\ ~_validate_run_accepts_input /\ Leave(r, 0) /\ Undisturbed
       \/ existing = 0 /\ _validate_run_accepts_input /\ Move(r, "inspect")
            /\ UNCHANGED <<free, answer>> /\ Undisturbed
       \/ Interrupted /\ Leave(r, 0)
    /\ UNCHANGED <<session, log, rows, objects, sent, kept, abandoned, cut>>

_inspect_uploads(r) ==
    /\ pc[r] = "inspect"
    /\ \/ InspectRefuses(body[r]) /\ Leave(r, 0) /\ Undisturbed
       \/ ~InspectRefuses(body[r]) /\ Move(r, "upload") /\ UNCHANGED <<free, answer>> /\ Undisturbed
       \/ body[r].files # <<>> /\ Interrupted /\ Leave(r, 0)
    /\ UNCHANGED <<session, log, rows, objects, sent, kept, abandoned, cut>>

(* A failed or cancelled upload may have stored the object: its key is        *)
(* dropped, and then everything uploaded before it.                           *)
_upload(r) ==
    /\ pc[r] = "upload" /\ Len(sent[r]) < Len(body[r].files)
    /\ LET key == Key(r, Len(sent[r]) + 1) IN
       \/ /\ objects' = objects \union {key}
          /\ sent' = [sent EXCEPT ![r] = Append(@, key)]
          /\ UNCHANGED pc /\ Undisturbed
       \/ /\ Interrupted
          /\ objects' \in {objects, objects \union {key}}
          /\ Move(r, "drop")
          /\ sent' = sent
    /\ UNCHANGED <<session, log, rows, free, kept, answer, abandoned, cut>>

\* Mutant of _cleanup_object_key: an interrupted upload is taken to have stored nothing.
KeepInterrupted(r) ==
    /\ pc[r] = "drop"
    /\ Move(r, "cleanup")
    /\ UNCHANGED <<session, log, rows, objects, free, sent, kept, answer, abandoned, cut, faults, cancels>>

(* The request is on its way to its cleanup already: cancelled once more, it  *)
(* waits for this deletion and goes there all the same.                       *)
_cleanup_object_key(r) ==
    /\ pc[r] = "drop"
    /\ \/ objects' = objects \ {Key(r, Len(sent[r]) + 1)} /\ faults' = faults
       \/ Fault /\ objects' = objects
    /\ UNCHANGED cancels \/ Cancel
    /\ Move(r, "cleanup")
    /\ UNCHANGED <<session, log, rows, free, sent, kept, answer, abandoned, cut>>

UploadsDone(r) ==
    /\ pc[r] = "upload" /\ Len(sent[r]) = Len(body[r].files)
    /\ Move(r, "persist")
    /\ UNCHANGED <<session, log, rows, objects, free, sent, kept, answer, abandoned, cut, faults, cancels>>

\* Mutant of Rechecked: the preflight is trusted.
TrustPreflight(r) == 0

(* Read again under the locks of the job and the run.                         *)
Rechecked(r) == get_terminal_event_by_external_id(body[r].ext)

(* What the transaction adds when it commits: an object row for each file and *)
(* the event with its parts.                                                  *)
Insert(r) ==
    /\ log' = Append(log, [ext |-> body[r].ext, parts |-> EventParts(r)])
    /\ rows' = rows \union Elements(sent[r])

(* The transaction records the event.                                         *)
Records(r) ==
    /\ Rechecked(r) = 0 /\ _validate_run_accepts_input
    /\ ~DuplicatePart(EventParts(r))

(* _persist holds the locks of the job and the run from its first read to its *)
(* commit.  It may fail before the commit; the answer may be lost after it.   *)
(* A request cancelled before the commit goes to its cleanup at once: its     *)
(* thread has not begun, or goes on alone.                                    *)
_persist(r) ==
    /\ pc[r] = "persist"
    /\ LET existing == Rechecked(r)
           fits     == existing = 0 /\ _validate_run_accepts_input
       IN
       \/ /\ existing # 0
          /\ Move(r, "cleanup") /\ answer' = [answer EXCEPT ![r] = existing]
          /\ UNCHANGED <<log, rows, free, abandoned, cut>> /\ Undisturbed
       \/ /\ existing = 0 /\ ~_validate_run_accepts_input
          /\ Move(r, "cleanup")
          /\ UNCHANGED <<log, rows, free, answer, abandoned, cut>> /\ Undisturbed
       \/ /\ fits /\ ~Records(r)
          /\ Move(r, "reload")
          /\ UNCHANGED <<log, rows, free, answer, abandoned, cut>> /\ Undisturbed
       \/ /\ Records(r) /\ Insert(r)
          /\ Leave(r, Len(log) + 1)
          /\ UNCHANGED <<abandoned, cut>> /\ Undisturbed
       \/ /\ Records(r) /\ Insert(r) /\ Move(r, "cleanup") /\ Interrupted
          /\ UNCHANGED <<free, answer, abandoned, cut>>
       \/ /\ Interrupted /\ Move(r, "cleanup")
          /\ UNCHANGED <<log, rows, free, answer, abandoned, cut>>
       \/ /\ Cancel /\ Move(r, "cleanup")
          /\ abandoned' = abandoned \union {r} /\ cut' = cut \union {<<r, "transaction">>}
          /\ UNCHANGED <<log, rows, free, answer, faults>>
    /\ UNCHANGED <<session, objects, sent, kept>>

(* The transaction of a request that was cancelled meanwhile: nobody is told  *)
(* how it ends.                                                               *)
AbandonedPersist(r) ==
    /\ r \in abandoned /\ abandoned' = abandoned \ {r}
    /\ \/ Records(r) /\ Insert(r) /\ UNCHANGED faults
       \/ ~Records(r) /\ UNCHANGED <<log, rows, faults>>
       \/ Fault /\ UNCHANGED <<log, rows>>
    /\ UNCHANGED <<session, objects, free, pc, sent, kept, answer, cut, cancels>>

(* After a violated constraint: answer with the event another request has     *)
(* meanwhile recorded under the same id, or fail.                             *)
_load_duplicate(r) ==
    /\ pc[r] = "reload"
    /\ \/ answer' = [answer EXCEPT ![r] = get_terminal_event_by_external_id(body[r].ext)]
          /\ Undisturbed
       \/ Interrupted /\ UNCHANGED answer
    /\ Move(r, "cleanup")
    /\ UNCHANGED <<session, log, rows, objects, free, sent, kept, abandoned, cut>>

(* A cancellation ends the cleanup, which catches exceptions only.  The       *)
(* cleanup of a duplicate is inside the try of _append, so that a second one  *)
(* follows; any other was the last thing to be done.                          *)
CutOff(r) ==
    /\ Cancel
    /\ IF answer[r] # 0
       THEN /\ Move(r, "cleanup") /\ answer' = [answer EXCEPT ![r] = 0]
            /\ UNCHANGED <<free, cut>>
       ELSE Leave(r, 0) /\ cut' = cut \union {<<r, "cleanup">>}

\* Mutant of _referenced_uploaded_objects: what was uploaded is taken to be unused.
ForgetReferences(r) ==
    /\ pc[r] = "cleanup"
    /\ Move(r, "delete")
    /\ UNCHANGED <<session, log, rows, objects, free, sent, kept, answer, abandoned, cut, faults, cancels>>

(* _cleanup reads which of the objects a row refers to; when that read fails  *)
(* or is cut off, nothing is deleted.                                         *)
_referenced_uploaded_objects(r) ==
    /\ pc[r] = "cleanup"
    /\ \/ /\ kept' = [kept EXCEPT ![r] = Elements(sent[r]) \intersect rows]
          /\ Move(r, "delete") /\ UNCHANGED <<free, answer, cut>> /\ Undisturbed
       \/ Fault /\ Leave(r, answer[r]) /\ UNCHANGED <<kept, cut, cancels>>
       \/ CutOff(r) /\ UNCHANGED <<kept, faults>>
    /\ UNCHANGED <<session, log, rows, objects, sent, abandoned>>

(* What is deleted by the time the i-th file has been seen to.                *)
Deleted(r, i) == {sent[r][j] : j \in 1..i} \ kept[r]

(* The deletions; each may fail on its own, which is only logged.  A request  *)
(* cancelled in one of them waits for that one and leaves the others undone.  *)
_cleanup(r) ==
    /\ pc[r] = "delete"
    /\ \E i \in 0..Len(sent[r]) :
          /\ \/ objects' = objects \ Deleted(r, i) /\ UNCHANGED faults
             \/ /\ Fault
                /\ \E left \in Deleted(r, i) : objects' = objects \ (Deleted(r, i) \ {left})
          /\ \/ i = Len(sent[r]) /\ Leave(r, answer[r]) /\ UNCHANGED <<cut, cancels>>
             \/ i > 0 /\ sent[r][i] \notin kept[r] /\ CutOff(r)
    /\ UNCHANGED <<session, log, rows, sent, kept, abandoned>>

(* The files are closed one after another; an error or a cancellation there   *)
(* skips the release.                                                         *)
CloseFiles(r) ==
    /\ pc[r] = "closing"
    /\ \/ Move(r, "done") /\ free' = free + 1 /\ UNCHANGED answer /\ Undisturbed
       \/ Move(r, "leaked") /\ UNCHANGED free /\ answer' = [answer EXCEPT ![r] = 0] /\ Interrupted
    /\ UNCHANGED <<session, log, rows, objects, sent, kept, abandoned, cut>>

(*****************************************************************************)
(* The rest of the system.                                                   *)
(*****************************************************************************)
(* The kernel ends the run and closes the session in one transaction.         *)
EndRun ==
    /\ session = "open" /\ session' = "closed"
    /\ UNCHANGED <<log, rows, objects, free, pc, sent, kept, answer, abandoned, cut, faults, cancels>>

(* The API process dies and starts again: requests and threads under way are  *)
(* gone, the semaphore is new, the database and the store keep what they have.*)
Restart ==
    /\ Fault
    /\ abandoned # {} \/ \E r \in Requests : pc[r] \notin {"arrived", "done", "lost"}
    /\ pc' = [r \in Requests |-> IF pc[r] \in {"arrived", "done"} THEN pc[r] ELSE "lost"]
    /\ free' = Workers /\ abandoned' = {}
    /\ UNCHANGED <<session, log, rows, objects, sent, kept, answer, cut, cancels>>

Step(r) ==
    \/ acquire(r) \/ _parse_terminal_event_request(r) \/ _preflight(r)
    \/ _inspect_uploads(r) \/ _upload(r) \/ _cleanup_object_key(r) \/ UploadsDone(r)
    \/ _persist(r) \/ _load_duplicate(r)
    \/ _referenced_uploaded_objects(r) \/ _cleanup(r) \/ CloseFiles(r)

(* What the part of an event that a client names is stored under: the part    *)
(* must be one of the event and have a row, and a text part has none.         *)
ContentDescriptors ==
    {p.key : p \in {q \in UNION {Elements(log[i].parts) : i \in DOMAIN log} : q.key \in rows}}

(* The bytes of a file of an event.  Serving reads the rows and the store and *)
(* writes neither, so that it is explored where no request is under way: that *)
(* hides no behaviour of either part.                                         *)
Content ==
    \/ /\ \A r \in Requests : pc[r] \in Finished
       /\ ContentDescriptors \intersect objects # {}
       /\ \E size \in Sizes : Serve(size)
    \/ Stream
    \/ Close

Next ==
    \/ \E r \in Requests :
          (Step(r) \/ CancelWaiting(r) \/ AbandonedPersist(r)) /\ UNCHANGED <<body, served>>
    \/ EndRun /\ UNCHANGED <<body, served>>
    \/ Restart /\ served' = Idle /\ UNCHANGED body
    \/ Content /\ UNCHANGED ingestVars

Spec == Init /\ [][Next]_vars

(* Every store or database call returns or raises (the clients of both have   *)
(* timeouts), and the semaphore serves its waiters in order.                  *)
FairSpec == Spec /\ \A r \in Requests : WF_vars(Step(r) /\ UNCHANGED <<body, served>>)
                                    /\ SF_vars(acquire(r) /\ UNCHANGED <<body, served>>)

(*****************************************************************************)
(* Properties.                                                               *)
(*****************************************************************************)
(* No cleanup ever deletes a file that a recorded event refers to             *)
(* (_referenced_uploaded_objects before any delete), whatever becomes of the  *)
(* answer of the request that recorded it: it fails, the process dies, the    *)
(* request is cancelled.  The one exception is a request cancelled while its  *)
(* transaction is under way, which nobody waits for: that one may commit      *)
(* after its files are gone.                                                  *)
FilesOfEventsExist ==
    TypeOK /\ \A key \in rows \ objects : <<key[1], "transaction">> \in cut

(* Requests that carry the same external id are answered with one and the     *)
(* same event: at most one is recorded, and every retry that gets an answer   *)
(* gets that one (the check of _preflight and its repetition in _persist).    *)
OneEventPerId ==
    /\ \A i, j \in DOMAIN log : log[i].ext = log[j].ext /\ log[i].ext # NoId => i = j
    /\ \A r \in Requests : answer[r] # 0 /\ body[r].ext # NoId
                             => log[answer[r]].ext = body[r].ext

(* When every request has finished and neither the store, the database nor    *)
(* the process failed, the store holds no file without an event: refused,     *)
(* duplicate and cancelled requests leave no object, except for those of a    *)
(* request cancelled in its last cleanup.                                     *)
NothingLeftBehind ==
    faults = 0 /\ (\A r \in Requests : pc[r] \in Finished) =>
        \A key \in objects \ rows : <<key[1], "cleanup">> \in cut

(* The bytes selected by a request, stated on sets: those of the object that  *)
(* the header names.                                                          *)
Selected(ask, size) ==
    {x \in 0..(size - 1) :
        CASE ask.kind = "from" -> x >= ask.a
          [] ask.kind = "span" -> ask.a <= x /\ x <= ask.b
          [] ask.kind = "tail" -> x >= size - ask.a
          [] ask.kind = "bad"  -> FALSE
          [] OTHER             -> TRUE}

(* A partial answer carries exactly the selected bytes, a full one the whole  *)
(* object, and 416 is given exactly when nothing is selected: never a body    *)
(* whose length differs from what its headers promise.                        *)
ServedAsAsked ==
    /\ served.status \in {200, 206} =>
         served.first..served.last = Selected(served.asked, served.size)
    /\ served.status = 416 => Selected(served.asked, served.size) = {}

(* Every request is answered, fails or dies with the process, and the places  *)
(* of the semaphore are all free once nothing is under way, wherever requests *)
(* were refused, failed or were cancelled: only one that was stopped while it *)
(* closed its files keeps its place, and only when all places are kept in     *)
(* that way do uploads wait for ever.                                         *)
EveryRequestLeaves ==
    LET leaked == Cardinality({r \in Requests : pc[r] = "leaked"}) IN
    <>[](/\ free = Workers - leaked
         /\ \A r \in Requests :
               pc[r] \in Finished \/ (pc[r] = "arrived" /\ body[r].multipart /\ leaked = Workers))

=============================================================================
