----------------------------- MODULE Extraction ------------------------------
(***************************************************************************)
(* One extraction from upload to completion: the upload handler, the       *)
(* durable workflow (workflows/extraction-workflow.ts), the statements of  *)
(* repositories/extractions.ts it runs, and the handlers that may change   *)
(* the same row and the same objects meanwhile: field edits, linking the   *)
(* guest's session, deleting the extraction or the account.                *)
(*                                                                         *)
(* A step of the workflow (step.do) is a retry boundary.  Its result is    *)
(* remembered once the engine recorded it; until then the step is run      *)
(* again from its first statement, whatever the lost attempt had already   *)
(* written.  Every statement below is therefore followed by Then(...): the *)
(* handler goes on, or the attempt is lost although the statement took     *)
(* effect.  AttemptFails loses it before.                                  *)
(***************************************************************************)
EXTENDS Naturals

CONSTANTS
  Guest, User,   \* the anonymous session and the user account; both name a key prefix
  Retries,       \* how often the platform repeats a step that threw (external)
  MaxFaults,     \* bound: transient errors, lost answers and crashes
  MaxEdits       \* bound: field edits

ASSUME ExtractionAssumption ==
  /\ Guest # User
  /\ Retries \in Nat /\ MaxFaults \in Nat /\ MaxEdits \in Nat

Owners == {Guest, User}
Kinds  == {"extraction-complete", "cam-flags", "anonymous-notify"}
Statuses == {"none", "uploading", "extracting", "scoring", "complete", "failed"}

VARIABLES
  status,        \* extractions.status, "none" before the INSERT
  owner,         \* extractions.user_id, or anonymous_session_id
  deleted,       \* extractions.deleted_at is set
  paid,          \* extractions.payment_status
  data,          \* extracted_data: the inference it came from and the edits in it
  confidence,    \* confidence_scores: the inference they were computed from
  flags,         \* red_flags: the data they were detected in
  rawKeys,       \* raw_extraction_object_keys, as the prefixes they are under
  home,          \* document_object_key, as its prefix: the uploader's
  bucket,        \* R2: the objects of this extraction
  mails,         \* EMAIL_QUEUE: how often each message was sent
  up,            \* the next statement of the upload handler
  wf,            \* the next statement of the workflow instance
  attempt,       \* repetitions of its current step so far
  prefix,        \* local to the first step: the owner it read
  runs,          \* full-document inferences made so far
  memo,          \* what the first step returned: the inference, and where its raw objects are
  del,           \* DELETE /extractions/{id}: its next statement, its owner, the keys it read
  account,       \* the user's account: "open", "deleted", then "queued", then "cleaned"
  edits, faults  \* what the bounds count

row     == <<status, owner, deleted, paid, data, confidence, flags, rawKeys>>
results == <<data, confidence, flags, rawKeys>>
flow    == <<wf, attempt, prefix, runs, memo>>
clients == <<del, account, edits>>
vars    == <<row, home, bucket, mails, up, flow, clients, faults>>

NoData == [run |-> 0, edits |-> 0]
NoMemo == [run |-> 0, keys |-> {}]
NoDelete == [pc |-> "idle", by |-> Guest, keys |-> {}]

Object(o, k) == [prefix |-> o, kind |-> k]
Objects == [prefix : Owners, kind : {"document", "raw"}]

UpPCs == {"put", "insert", "undo", "create", "give_up", "done"}
WfPCs == {"none", "load", "extracting_read", "extracting_write", "pass1", "passes", "raw",
          "persist", "scoring_read", "scoring_write", "confidence", "flags",
          "complete_read", "complete_write", "send", "mark_failed", "done", "errored"}

Init ==
  /\ status = "none" /\ owner \in Owners /\ home = owner
  /\ deleted = FALSE /\ paid = FALSE
  /\ data = NoData /\ confidence = 0 /\ flags = NoData /\ rawKeys = {}
  /\ bucket = {} /\ mails = [k \in Kinds |-> 0]
  /\ up = "put"
  /\ wf = "none" /\ attempt = 0 /\ prefix = Guest /\ runs = 0 /\ memo = NoMemo
  /\ del = NoDelete /\ account = "open"
  /\ edits = 0 /\ faults = 0

Fault == faults < MaxFaults /\ faults' = faults + 1

------------------------------------------------------------------------------
(* POST /extractions/upload                                                *)

\* The next statement of the handler, or its answer is lost with the connection.
UpThen(next, lost) ==
  \/ up' = next /\ UNCHANGED faults
  \/ up' = lost /\ Fault

UploadPut ==
  /\ up = "put"
  /\ bucket' = bucket \cup {Object(home, "document")}
  /\ UpThen("insert", "done")
  /\ UNCHANGED <<row, home, mails, flow, clients>>

\* A lost answer to the INSERT looks like a failed one.
UploadInsert ==
  /\ up = "insert"
  /\ status' = "uploading"
  /\ UpThen("create", "undo")
  /\ UNCHANGED <<owner, deleted, paid, results, home, bucket, mails, flow, clients>>

UploadInsertFails ==
  /\ up = "insert"
  /\ Fault /\ up' = "undo"
  /\ UNCHANGED <<row, home, bucket, mails, flow, clients>>

UploadUndo ==
  /\ up = "undo"
  /\ bucket' = bucket \ {Object(home, "document")}
  /\ UpThen("done", "done")
  /\ UNCHANGED <<row, home, mails, flow, clients>>

\* EXTRACTION_WORKFLOW.create; it may report an error although the instance exists.
UploadCreate ==
  /\ up = "create"
  /\ wf' = "load"
  /\ UpThen("done", "give_up")
  /\ UNCHANGED <<row, home, bucket, mails, attempt, prefix, runs, memo, clients>>

UploadCreateFails ==
  /\ up = "create"
  /\ Fault /\ up' = "give_up"
  /\ UNCHANGED <<row, home, bucket, mails, flow, clients>>

\* markUploadFailed: no condition on the status, nor on deleted_at.
UploadGiveUp ==
  /\ up = "give_up"
  /\ status' = "failed"
  /\ UpThen("done", "done")
  /\ UNCHANGED <<owner, deleted, paid, results, home, bucket, mails, flow, clients>>

UploadCrash ==
  /\ up \in {"insert", "undo", "create", "give_up"}
  /\ Fault /\ up' = "done"
  /\ UNCHANGED <<row, home, bucket, mails, flow, clients>>

Upload ==
  \/ UploadPut \/ UploadInsert \/ UploadInsertFails \/ UploadUndo
  \/ UploadCreate \/ UploadCreateFails \/ UploadGiveUp \/ UploadCrash

------------------------------------------------------------------------------
(* The workflow                                                            *)

FirstOf(step) ==
  IF step \in {"load", "extracting_read", "extracting_write", "pass1", "passes", "raw"} THEN "load"
  ELSE IF step \in {"scoring_read", "scoring_write"} THEN "scoring_read"
  ELSE IF step \in {"complete_read", "complete_write", "send"} THEN "complete_read"
  ELSE step

\* Variant: one repetition too many.
Throw_OnceMore ==
  IF attempt <= Retries
    THEN wf' = FirstOf(wf) /\ attempt' = attempt + 1
    ELSE wf' = (IF wf = "mark_failed" THEN "errored" ELSE "mark_failed") /\ attempt' = 0

\* The attempt is over: run the step again, or give the extraction up; when even that
\* fails the error is swallowed and the instance ends.
Throw ==
  IF attempt < Retries
    THEN wf' = FirstOf(wf) /\ attempt' = attempt + 1
    ELSE wf' = (IF wf = "mark_failed" THEN "errored" ELSE "mark_failed") /\ attempt' = 0

\* On to the next statement; entering another step resets the attempts.
Goto(next) ==
  /\ wf' = next
  /\ attempt' = IF FirstOf(next) = FirstOf(wf) THEN attempt ELSE 0

Then(next) ==
  \/ Goto(next) /\ UNCHANGED faults
  \/ Throw /\ Fault

\* The statement matches no row, or reads one it cannot use.
Refused == Throw /\ UNCHANGED <<row, faults>>

Running(step) == wf = step /\ UNCHANGED <<home, up, clients>>

Load ==
  /\ Running("load")
  /\ IF deleted THEN Refused /\ UNCHANGED prefix
                ELSE prefix' = owner /\ Then("extracting_read") /\ UNCHANGED row
  /\ UNCHANGED <<bucket, mails, runs, memo>>

Before(target) ==
  CASE target = "extracting" -> "uploading"
    [] target = "scoring"    -> "extracting"
    [] target = "complete"   -> "scoring"

\* Variant: a status already reached is reported as if the call had changed it.
TransitionRead_Reports(step, target, write, next) ==
  /\ Running(step)
  /\ IF deleted \/ status \notin {Before(target), target} THEN Refused
     ELSE /\ Then(IF status # target THEN write
                  ELSE IF target = "complete" THEN "send" ELSE next)
          /\ UNCHANGED row
  /\ UNCHANGED <<bucket, mails, prefix, runs, memo>>

\* transitionExtractionStatus: a status already reached is success without a change...
TransitionRead(step, target, write, next) ==
  /\ Running(step)
  /\ IF deleted \/ status \notin {Before(target), target} THEN Refused
     ELSE /\ Then(IF status = target THEN next ELSE write)
          /\ UNCHANGED row
  /\ UNCHANGED <<bucket, mails, prefix, runs, memo>>

\* ... and any other is changed only if it still is what was read.
TransitionWrite(step, target, next) ==
  /\ Running(step)
  /\ IF deleted \/ status # Before(target) THEN Refused
     ELSE /\ status' = target
          /\ Then(next)
          /\ UNCHANGED <<owner, deleted, paid, results>>
  /\ UNCHANGED <<bucket, mails, prefix, runs, memo>>

\* Variant: the step waits for a document that is not there.
FirstPass_Waits ==
  /\ Running("pass1")
  /\ Object(home, "document") \in bucket
  /\ runs' = runs + 1 /\ Then("passes")
  /\ UNCHANGED <<row, bucket, mails, prefix, memo>>

\* The document is fetched and the first pass sends it to the model.
FirstPass ==
  /\ Running("pass1")
  /\ IF Object(home, "document") \notin bucket THEN Refused /\ UNCHANGED runs
     ELSE runs' = runs + 1 /\ Then("passes") /\ UNCHANGED row
  /\ UNCHANGED <<bucket, mails, prefix, memo>>

\* Passes 2 and 3; an error of every model of a pass is an error of the step.
LaterPasses ==
  /\ Running("passes")
  /\ Then("raw")
  /\ UNCHANGED <<row, bucket, mails, prefix, runs, memo>>

\* The raw responses go under the owner read at the start; then the engine records
\* what the step returned.
StoreRaw ==
  /\ Running("raw")
  /\ bucket' = bucket \cup {Object(prefix, "raw")}
  /\ \/ Goto("persist") /\ memo' = [run |-> runs, keys |-> {prefix}] /\ UNCHANGED faults
     \/ Throw /\ Fault /\ UNCHANGED memo
  /\ UNCHANGED <<row, mails, prefix, runs>>

\* Variant: the output is stored whatever has become of the row.
PersistOutput_AnyRow ==
  /\ Running("persist")
  /\ data' = [run |-> memo.run, edits |-> 0] /\ rawKeys' = memo.keys
  /\ Then("scoring_read")
  /\ UNCHANGED <<status, owner, deleted, paid, confidence, flags>>
  /\ UNCHANGED <<bucket, mails, prefix, runs, memo>>

PersistOutput ==
  /\ Running("persist")
  /\ IF deleted \/ status # "extracting" THEN Refused
     ELSE /\ data' = [run |-> memo.run, edits |-> 0] /\ rawKeys' = memo.keys
          /\ Then("scoring_read")
          /\ UNCHANGED <<status, owner, deleted, paid, confidence, flags>>
  /\ UNCHANGED <<bucket, mails, prefix, runs, memo>>

PersistConfidence ==
  /\ Running("confidence")
  /\ IF deleted \/ status # "scoring" THEN Refused
     ELSE /\ confidence' = memo.run
          /\ Then("flags")
          /\ UNCHANGED <<status, owner, deleted, paid, data, flags, rawKeys>>
  /\ UNCHANGED <<bucket, mails, prefix, runs, memo>>

\* The flags are those of the inference, even if a field was edited since.
PersistRedFlags ==
  /\ Running("flags")
  /\ IF deleted \/ status # "scoring" THEN Refused
     ELSE /\ flags' = [run |-> memo.run, edits |-> 0]
          /\ Then("complete_read")
          /\ UNCHANGED <<status, owner, deleted, paid, data, confidence, rawKeys>>
  /\ UNCHANGED <<bucket, mails, prefix, runs, memo>>

\* Promise.allSettled: a message that cannot be sent is logged and given up.
EnqueueEmails ==
  /\ Running("send")
  /\ \E S \in SUBSET Kinds :
       /\ mails' = [k \in Kinds |-> IF k \in S THEN mails[k] + 1 ELSE mails[k]]
       /\ IF S = Kinds THEN Then("done") ELSE Fault /\ (Goto("done") \/ Throw)
  /\ UNCHANGED <<row, bucket, prefix, runs, memo>>

MarkFailed ==
  /\ Running("mark_failed")
  /\ IF deleted \/ status \notin {"uploading", "extracting", "scoring"} THEN Refused
     ELSE /\ status' = "failed"
          /\ Then("errored")
          /\ UNCHANGED <<owner, deleted, paid, results>>
  /\ UNCHANGED <<bucket, mails, prefix, runs, memo>>

\* A statement fails, or the instance is evicted, before it took effect.
AttemptFails ==
  /\ wf \notin {"none", "done", "errored"}
  /\ Fault /\ Throw
  /\ UNCHANGED <<row, home, bucket, mails, up, prefix, runs, memo, clients>>

Workflow ==
  \/ Load
  \/ TransitionRead("extracting_read", "extracting", "extracting_write", "pass1")
  \/ TransitionWrite("extracting_write", "extracting", "pass1")
  \/ FirstPass \/ LaterPasses \/ StoreRaw \/ PersistOutput
  \/ TransitionRead("scoring_read", "scoring", "scoring_write", "confidence")
  \/ TransitionWrite("scoring_write", "scoring", "confidence")
  \/ PersistConfidence \/ PersistRedFlags
  \/ TransitionRead("complete_read", "complete", "complete_write", "done")
  \/ TransitionWrite("complete_write", "complete", "send")
  \/ EnqueueEmails \/ MarkFailed

------------------------------------------------------------------------------
(* What others do to the row and the objects                               *)

Stays == UNCHANGED <<home, mails, up, flow>>

\* A credit or a purchase unlocks the extraction (Payments.tla), whatever its status.
Pay ==
  /\ status # "none" /\ ~paid
  /\ paid' = TRUE
  /\ UNCHANGED <<status, owner, deleted, results, bucket, clients, faults>> /\ Stays

\* PATCH /extractions/{id}/fields: the edit, and the red flags of the edited data.
EditField ==
  /\ status # "none" /\ paid /\ owner = User /\ ~deleted
  /\ edits < MaxEdits /\ edits' = edits + 1
  /\ data' = [data EXCEPT !.edits = @ + 1]
  /\ flags' = data'
  /\ UNCHANGED <<status, owner, deleted, paid, confidence, rawKeys, bucket, del, account, faults>>
  /\ Stays

\* The guest's session is linked (Payments.tla); the objects stay where they are.
Link ==
  /\ status # "none" /\ owner = Guest
  /\ owner' = User
  /\ UNCHANGED <<status, deleted, paid, results, bucket, clients, faults>> /\ Stays

\* DELETE /extractions/{id}: read the row, delete the objects, mark the row.
DeleteRead(o) ==
  /\ del.pc = "idle"
  /\ status # "none" /\ owner = o /\ ~deleted
  /\ del' = [pc |-> "objects", by |-> o,
             keys |-> {Object(home, "document")} \cup {Object(p, "raw") : p \in rawKeys}]
  /\ UNCHANGED <<row, bucket, account, edits, faults>> /\ Stays

DeleteObjects ==
  /\ del.pc = "objects"
  /\ bucket' = {k \in bucket : k \notin del.keys /\ k.prefix # del.by}
  /\ del' = [del EXCEPT !.pc = "row"]
  /\ UNCHANGED <<row, account, edits, faults>> /\ Stays

DeleteRow ==
  /\ del.pc = "row"
  /\ deleted' = (deleted \/ owner = del.by)
  /\ del' = NoDelete
  /\ UNCHANGED <<status, owner, paid, results, bucket, account, edits, faults>> /\ Stays

DeleteCrash ==
  /\ del.pc # "idle"
  /\ Fault /\ del' = NoDelete
  /\ UNCHANGED <<row, bucket, account, edits>> /\ Stays

\* DELETE /user, its queue message, and the consumer, which deletes the keys it knows.
DeleteAccount ==
  /\ account = "open"
  /\ account' = "deleted"
  /\ deleted' = (deleted \/ (owner = User /\ status # "none"))
  /\ UNCHANGED <<status, owner, paid, results, bucket, del, edits, faults>> /\ Stays

SendCleanup ==
  /\ account = "deleted"
  /\ account' = "queued"
  /\ UNCHANGED <<row, bucket, del, edits, faults>> /\ Stays

CleanupUserObjects ==
  /\ account = "queued"
  /\ account' = "cleaned"
  /\ bucket' = IF deleted /\ owner = User
                 THEN bucket \ ({Object(home, "document")} \cup {Object(p, "raw") : p \in rawKeys})
                 ELSE bucket
  /\ UNCHANGED <<row, del, edits, faults>> /\ Stays

Delete == DeleteObjects \/ DeleteRow
Cleanup == SendCleanup \/ CleanupUserObjects

Next ==
  \/ Upload \/ Workflow \/ AttemptFails
  \/ Pay \/ EditField \/ Link
  \/ (\E o \in Owners : DeleteRead(o)) \/ Delete \/ DeleteCrash
  \/ DeleteAccount \/ Cleanup

SafetySpec == Init /\ [][Next]_vars

\* Handlers and durable workflows run on; what clients do, and faults, may never happen.
Spec == SafetySpec /\ WF_vars(Upload) /\ WF_vars(Workflow) /\ WF_vars(Delete) /\ WF_vars(Cleanup)

------------------------------------------------------------------------------
(* Properties                                                              *)

Data == [run : Nat, edits : Nat]

\* Every variable has its type; the raw objects of an extraction are only ever under
\* the prefix of its uploader or of the user the session was linked to.
TypeOK ==
  /\ status \in Statuses /\ owner \in Owners /\ home \in Owners
  /\ deleted \in BOOLEAN /\ paid \in BOOLEAN
  /\ data \in Data /\ flags \in Data /\ confidence \in Nat /\ rawKeys \subseteq Owners
  /\ bucket \subseteq Objects /\ mails \in [Kinds -> Nat]
  /\ up \in UpPCs /\ wf \in WfPCs
  /\ attempt \in 0..Retries /\ prefix \in Owners /\ runs \in Nat
  /\ memo \in [run : Nat, keys : SUBSET Owners]
  /\ del \in [pc : {"idle", "objects", "row"}, by : Owners, keys : SUBSET Objects]
  /\ account \in {"open", "deleted", "queued", "cleaned"}
  /\ edits \in 0..MaxEdits /\ faults \in 0..MaxFaults

\* A row that is deleted, failed or complete gets no results any more: a workflow that
\* lost the race against a deletion or against the upload handler's giving up writes
\* nothing, and after completion only edits change the data.
ResultsFrozen ==
  [][deleted \/ status \in {"failed", "complete"} =>
       data'.run = data.run /\ UNCHANGED <<confidence, rawKeys>>]_vars

\* Once an instance exists its extraction is completed, failed or deleted in the end:
\* no lost attempt, missing document, edit or conflict leaves the customer waiting.
WorkflowSettles ==
  wf = "load" ~> (status \in {"complete", "failed"} \/ deleted)

\* The customer's view: the inference whose data, scores and flags are shown together.
Shown ==
  IF status = "complete" /\ data.run = confidence /\ data.run = flags.run THEN data.run ELSE 0

Life == INSTANCE Lifecycle WITH
  shown <- Shown,
  owed  <- IF wf = "send" THEN Kinds ELSE {}

\* Whatever is retried, lost, edited, deleted or given up, each step is one of
\* Lifecycle's, or changes nothing the customer sees: in particular the results of one
\* inference are published together and no notification is queued twice.
ImplementsLifecycle == Life!Spec

------------------------------------------------------------------------------
(* A claim of the repository that this code does not keep (see README.md). *)

\* "cleanupUserObjects consumes it and deletes every remaining R2 object for that user"
\* (portfolio/SECURITY.md:84): when everything has come to rest, none is left.
NothingLeft ==
  (account = "cleaned" /\ deleted /\ owner = User /\ up = "done"
     /\ wf \in {"none", "done", "errored"} /\ del.pc = "idle")
  => bucket = {}
==============================================================================
