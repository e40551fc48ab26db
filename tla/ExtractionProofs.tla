-------------------------- MODULE ExtractionProofs ---------------------------
(***************************************************************************)
(* Proofs about Extraction, for any number of retries, faults and edits:   *)
(* type correctness, that results are frozen, that the durable steps       *)
(* implement Lifecycle and so notify once, and bounds on their repetition. *)
(***************************************************************************)
EXTENDS Extraction, TLAPS

(* The upload handler has the row to itself until it created an instance. *)
UploadOK ==
  /\ up \in {"put", "insert"} => status = "none"
  /\ up \in {"put", "insert", "create"} => wf = "none"
  /\ up \in {"create", "give_up"} => status # "none"

AfterFlags   == {"complete_read", "complete_write", "send"}
AfterScores  == AfterFlags \cup {"flags"}
AfterPersist == AfterScores \cup {"scoring_read", "scoring_write", "confidence"}
AfterFirst   == AfterPersist \cup {"persist"}

(* What the workflow's finished steps have left in the row, wherever it is. *)
StepsDone ==
  /\ wf \in {"passes", "raw"} => runs > 0
  /\ wf \in AfterFirst => memo.run > 0
  /\ wf \in AfterPersist => data.run = memo.run
  /\ wf \in AfterScores => confidence = memo.run
  /\ wf \in AfterFlags => flags.run = memo.run

(* A complete extraction shows the results of one inference. *)
OneRun ==
  status = "complete" => data.run > 0 /\ confidence = data.run /\ flags.run = data.run

IInv == TypeOK /\ UploadOK /\ StepsDone /\ OneRun

------------------------------------------------------------------------------
(* Where a statement of the workflow may lead.                             *)

LEMMA ThrowGoes ==
  ASSUME TypeOK, Throw
  PROVE  /\ wf' \in {FirstOf(wf), "mark_failed", "errored"} /\ wf' \in WfPCs
         /\ attempt' \in 0..Retries
  <1>1. FirstOf(wf) \in WfPCs
    BY DEF TypeOK, WfPCs, FirstOf
  <1>2. attempt' \in 0..Retries
    BY ExtractionAssumption DEF TypeOK, Throw
  <1> QED BY <1>1, <1>2 DEF Throw, WfPCs

LEMMA FaultCounted ==
  ASSUME TypeOK, Fault
  PROVE  faults' \in 0..MaxFaults
  BY ExtractionAssumption DEF TypeOK, Fault

LEMMA GotoGoes ==
  ASSUME TypeOK, NEW next \in WfPCs, Goto(next)
  PROVE  wf' = next /\ attempt' \in 0..Retries
  BY ExtractionAssumption DEF TypeOK, Goto

LEMMA ThenGoes ==
  ASSUME TypeOK, NEW next \in WfPCs, Then(next)
  PROVE  /\ wf' \in {next, FirstOf(wf), "mark_failed", "errored"} /\ wf' \in WfPCs
         /\ attempt' \in 0..Retries /\ faults' \in 0..MaxFaults
  <1>1. CASE Goto(next) /\ UNCHANGED faults
    BY <1>1, GotoGoes DEF TypeOK
  <1>2. CASE Throw /\ Fault
    BY <1>2, ThrowGoes, FaultCounted
  <1> QED BY <1>1, <1>2 DEF Then

LEMMA UpGoes ==
  ASSUME TypeOK, NEW next \in UpPCs, NEW lost \in UpPCs, UpThen(next, lost)
  PROVE  up' \in {next, lost} /\ up' \in UpPCs /\ faults' \in 0..MaxFaults
  BY FaultCounted DEF UpThen, TypeOK


------------------------------------------------------------------------------
(* Type correctness                                                        *)

LEMMA InitIInv == Init => IInv
  <1> SUFFICES ASSUME Init PROVE IInv
    OBVIOUS
  <1> USE ExtractionAssumption DEF Init
  <1>1. TypeOK
    <2>1. /\ data \in Data /\ flags \in Data
          /\ memo \in [run : Nat, keys : SUBSET Owners]
          /\ del \in [pc : {"idle", "objects", "row"}, by : Owners, keys : SUBSET Objects]
      BY DEF NoData, Data, NoMemo, NoDelete, Owners
    <2>2. status \in Statuses /\ up \in UpPCs /\ wf \in WfPCs
      BY DEF Statuses, UpPCs, WfPCs
    <2>3. prefix \in Owners /\ mails \in [Kinds -> Nat]
      BY DEF Owners
    <2>4. /\ attempt \in 0..Retries /\ edits \in 0..MaxEdits /\ faults \in 0..MaxFaults
          /\ runs \in Nat /\ confidence \in Nat
      OBVIOUS
    <2>5. deleted \in BOOLEAN /\ paid \in BOOLEAN
      OBVIOUS
    <2>6. /\ rawKeys \subseteq Owners /\ bucket \subseteq Objects
          /\ owner \in Owners /\ home \in Owners
          /\ account \in {"open", "deleted", "queued", "cleaned"}
      OBVIOUS
    <2> QED BY <2>1, <2>2, <2>3, <2>4, <2>5, <2>6, Zenon DEF TypeOK
  <1>2. UploadOK /\ StepsDone /\ OneRun
    BY DEF UploadOK, StepsDone, OneRun, AfterFlags, AfterScores, AfterPersist, AfterFirst
  <1> QED BY <1>1, <1>2 DEF IInv

LEMMA UploadType == TypeOK /\ Upload => TypeOK'
  <1> SUFFICES ASSUME TypeOK, Upload PROVE TypeOK'
    OBVIOUS
  <1> USE DEF row, results, flow, clients
  <1>1. Object(home, "document") \in Objects
    BY DEF TypeOK, Object, Objects
  <1>2. CASE UploadPut
    <2>1. up' \in UpPCs /\ faults' \in 0..MaxFaults
      BY <1>2, UpGoes DEF UploadPut, UpPCs
    <2> QED BY <1>1, <1>2, <2>1 DEF TypeOK, UploadPut
  <1>3. CASE UploadInsert
    <2>1. up' \in UpPCs /\ faults' \in 0..MaxFaults
      BY <1>3, UpGoes DEF UploadInsert, UpPCs
    <2> QED BY <1>3, <2>1 DEF TypeOK, UploadInsert, Statuses
  <1>4. CASE UploadInsertFails \/ UploadCreateFails \/ UploadCrash
    <2>1. faults' \in 0..MaxFaults
      BY <1>4, FaultCounted DEF UploadInsertFails, UploadCreateFails, UploadCrash
    <2> QED BY <1>4, <2>1 DEF TypeOK, UploadInsertFails, UploadCreateFails, UploadCrash, UpPCs
  <1>5. CASE UploadUndo
    <2>1. up' \in UpPCs /\ faults' \in 0..MaxFaults
      BY <1>5, UpGoes DEF UploadUndo, UpPCs
    <2> QED BY <1>5, <2>1 DEF TypeOK, UploadUndo
  <1>6. CASE UploadCreate
    <2>1. up' \in UpPCs /\ faults' \in 0..MaxFaults
      BY <1>6, UpGoes DEF UploadCreate, UpPCs
    <2> QED BY <1>6, <2>1 DEF TypeOK, UploadCreate, WfPCs
  <1>7. CASE UploadGiveUp
    <2>1. up' \in UpPCs /\ faults' \in 0..MaxFaults
      BY <1>7, UpGoes DEF UploadGiveUp, UpPCs
    <2> QED BY <1>7, <2>1 DEF TypeOK, UploadGiveUp, Statuses
  <1> QED BY <1>2, <1>3, <1>4, <1>5, <1>6, <1>7 DEF Upload

(* A refused statement only starts the step again, or gives up. *)
LEMMA RefusedGoes ==
  ASSUME TypeOK, Refused
  PROVE  /\ wf' \in {FirstOf(wf), "mark_failed", "errored"} /\ wf' \in WfPCs
         /\ attempt' \in 0..Retries /\ faults' \in 0..MaxFaults /\ UNCHANGED row
  BY ThrowGoes DEF Refused, TypeOK

LEMMA TransitionReadType ==
  ASSUME TypeOK, NEW step, NEW target, NEW write \in WfPCs, NEW next \in WfPCs,
         TransitionRead(step, target, write, next)
  PROVE  TypeOK'
  <1>1. wf' \in WfPCs /\ attempt' \in 0..Retries /\ faults' \in 0..MaxFaults /\ UNCHANGED row
    BY RefusedGoes, ThenGoes DEF TransitionRead
  <1> QED BY <1>1 DEF TransitionRead, Running, TypeOK, row, results, clients

LEMMA TransitionWriteType ==
  ASSUME TypeOK, NEW step, NEW target \in Statuses, NEW next \in WfPCs,
         TransitionWrite(step, target, next)
  PROVE  TypeOK'
  <1>1. /\ wf' \in WfPCs /\ attempt' \in 0..Retries /\ faults' \in 0..MaxFaults
        /\ status' \in Statuses /\ UNCHANGED <<owner, deleted, paid, results>>
    BY RefusedGoes, ThenGoes DEF TransitionWrite, TypeOK, row, results
  <1> QED BY <1>1 DEF TransitionWrite, Running, TypeOK, results, clients

LEMMA WorkflowType == TypeOK /\ Workflow => TypeOK'
  <1> SUFFICES ASSUME TypeOK, Workflow PROVE TypeOK'
    OBVIOUS
  <1> USE DEF row, results, clients, Running
  <1>1. CASE Load
    <2>1. /\ wf' \in WfPCs /\ attempt' \in 0..Retries /\ faults' \in 0..MaxFaults
          /\ prefix' \in Owners /\ UNCHANGED row
      BY <1>1, RefusedGoes, ThenGoes DEF Load, WfPCs, TypeOK
    <2> QED BY <1>1, <2>1 DEF TypeOK, Load
  <1>2. CASE \/ TransitionRead("extracting_read", "extracting", "extracting_write", "pass1")
             \/ TransitionRead("scoring_read", "scoring", "scoring_write", "confidence")
             \/ TransitionRead("complete_read", "complete", "complete_write", "done")
    BY <1>2, TransitionReadType DEF WfPCs
  <1>3. CASE \/ TransitionWrite("extracting_write", "extracting", "pass1")
             \/ TransitionWrite("scoring_write", "scoring", "confidence")
             \/ TransitionWrite("complete_write", "complete", "send")
    BY <1>3, TransitionWriteType DEF WfPCs, Statuses
  <1>4. CASE FirstPass
    <2>1. /\ wf' \in WfPCs /\ attempt' \in 0..Retries /\ faults' \in 0..MaxFaults
          /\ runs' \in Nat /\ UNCHANGED row
      BY <1>4, RefusedGoes, ThenGoes DEF FirstPass, WfPCs, TypeOK
    <2> QED BY <1>4, <2>1 DEF TypeOK, FirstPass
  <1>5. CASE LaterPasses
    <2>1. wf' \in WfPCs /\ attempt' \in 0..Retries /\ faults' \in 0..MaxFaults
      BY <1>5, ThenGoes DEF LaterPasses, WfPCs
    <2> QED BY <1>5, <2>1 DEF TypeOK, LaterPasses
  <1>6. CASE StoreRaw
    <2>1. wf' \in WfPCs /\ attempt' \in 0..Retries /\ faults' \in 0..MaxFaults
      BY <1>6, ThrowGoes, GotoGoes, FaultCounted DEF StoreRaw, WfPCs, TypeOK
    <2>2. memo' \in [run : Nat, keys : SUBSET Owners]
      BY <1>6 DEF StoreRaw, TypeOK
    <2>3. Object(prefix, "raw") \in Objects
      BY DEF TypeOK, Object, Objects
    <2> QED BY <1>6, <2>1, <2>2, <2>3 DEF TypeOK, StoreRaw
  <1>7. CASE PersistOutput
    <2>1. /\ wf' \in WfPCs /\ attempt' \in 0..Retries /\ faults' \in 0..MaxFaults
          /\ UNCHANGED <<status, owner, deleted, paid, confidence, flags>>
      BY <1>7, RefusedGoes, ThenGoes DEF PersistOutput, WfPCs
    <2>2. data' \in Data /\ rawKeys' \subseteq Owners
      BY <1>7 DEF PersistOutput, Refused, TypeOK, Data
    <2> QED BY <1>7, <2>1, <2>2 DEF TypeOK, PersistOutput
  <1>8. CASE PersistConfidence
    <2>1. /\ wf' \in WfPCs /\ attempt' \in 0..Retries /\ faults' \in 0..MaxFaults
          /\ UNCHANGED <<status, owner, deleted, paid, data, flags, rawKeys>>
      BY <1>8, RefusedGoes, ThenGoes DEF PersistConfidence, WfPCs
    <2>2. confidence' \in Nat
      BY <1>8 DEF PersistConfidence, Refused, TypeOK
    <2> QED BY <1>8, <2>1, <2>2 DEF TypeOK, PersistConfidence
  <1>9. CASE PersistRedFlags
    <2>1. /\ wf' \in WfPCs /\ attempt' \in 0..Retries /\ faults' \in 0..MaxFaults
          /\ UNCHANGED <<status, owner, deleted, paid, data, confidence, rawKeys>>
      BY <1>9, RefusedGoes, ThenGoes DEF PersistRedFlags, WfPCs
    <2>2. flags' \in Data
      BY <1>9 DEF PersistRedFlags, Refused, TypeOK, Data
    <2> QED BY <1>9, <2>1, <2>2 DEF TypeOK, PersistRedFlags
  <1>10. CASE EnqueueEmails
    <2>1. wf' \in WfPCs /\ attempt' \in 0..Retries /\ faults' \in 0..MaxFaults
      BY <1>10, ThenGoes, GotoGoes, ThrowGoes, FaultCounted DEF EnqueueEmails, WfPCs
    <2>2. mails' \in [Kinds -> Nat]
      BY <1>10 DEF EnqueueEmails, TypeOK
    <2> QED BY <1>10, <2>1, <2>2 DEF TypeOK, EnqueueEmails
  <1>11. CASE MarkFailed
    <2>1. /\ wf' \in WfPCs /\ attempt' \in 0..Retries /\ faults' \in 0..MaxFaults
          /\ status' \in Statuses /\ UNCHANGED <<owner, deleted, paid, results>>
      BY <1>11, RefusedGoes, ThenGoes DEF MarkFailed, WfPCs, TypeOK, Statuses
    <2> QED BY <1>11, <2>1 DEF TypeOK, MarkFailed
  <1> QED BY <1>1, <1>2, <1>3, <1>4, <1>5, <1>6, <1>7, <1>8, <1>9, <1>10, <1>11 DEF Workflow

LEMMA OthersType ==
  TypeOK /\ [Next]_vars /\ ~Upload /\ ~Workflow => TypeOK'
  <1> SUFFICES ASSUME TypeOK, [Next]_vars, ~Upload, ~Workflow PROVE TypeOK'
    OBVIOUS
  <1> USE DEF row, results, clients, flow, Stays
  <1>1. CASE AttemptFails
    <2>1. wf' \in WfPCs /\ attempt' \in 0..Retries /\ faults' \in 0..MaxFaults
      BY <1>1, ThrowGoes, FaultCounted DEF AttemptFails
    <2> QED BY <1>1, <2>1 DEF TypeOK, AttemptFails
  <1>2. CASE Pay
    BY <1>2 DEF TypeOK, Pay
  <1>3. CASE EditField
    <2>1. data' \in Data /\ flags' \in Data
      BY <1>3 DEF TypeOK, EditField, Data
    <2>2. edits' \in 0..MaxEdits
      BY <1>3, ExtractionAssumption DEF TypeOK, EditField
    <2> QED BY <1>3, <2>1, <2>2 DEF TypeOK, EditField
  <1>4. CASE Link
    BY <1>4 DEF TypeOK, Link, Owners
  <1>5. ASSUME NEW o \in Owners, DeleteRead(o) PROVE TypeOK'
    <2>1. del'.keys \subseteq Objects
      BY <1>5 DEF TypeOK, DeleteRead, Object, Objects
    <2>2. del' \in [pc : {"idle", "objects", "row"}, by : Owners, keys : SUBSET Objects]
      BY <1>5, <2>1 DEF TypeOK, DeleteRead
    <2> QED BY <1>5, <2>2 DEF TypeOK, DeleteRead
  <1>6. CASE DeleteObjects
    <2>1. del' \in [pc : {"idle", "objects", "row"}, by : Owners, keys : SUBSET Objects]
      BY <1>6 DEF TypeOK, DeleteObjects
    <2> QED BY <1>6, <2>1 DEF TypeOK, DeleteObjects
  <1>7. NoDelete \in [pc : {"idle", "objects", "row"}, by : Owners, keys : SUBSET Objects]
    BY DEF NoDelete, Owners
  <1>8. CASE DeleteRow
    BY <1>7, <1>8 DEF TypeOK, DeleteRow
  <1>9. CASE DeleteCrash
    BY <1>7, <1>9, FaultCounted DEF TypeOK, DeleteCrash
  <1>10. CASE DeleteAccount
    BY <1>10 DEF TypeOK, DeleteAccount
  <1>11. CASE Cleanup
    BY <1>11 DEF TypeOK, Cleanup, SendCleanup, CleanupUserObjects
  <1>12. CASE UNCHANGED vars
    BY <1>12 DEF TypeOK, vars
  <1> QED BY <1>1, <1>2, <1>3, <1>4, <1>5, <1>6, <1>8, <1>9, <1>10, <1>11, <1>12 DEF Next, Delete

LEMMA StepTypeOK == TypeOK /\ [Next]_vars => TypeOK'
  BY UploadType, WorkflowType, OthersType

(* Every variable keeps its type: in particular the engine never repeats a step more
   often than it may, and raw objects lie under the prefix of one of the two owners. *)
THEOREM ExtractionTypeCorrect == SafetySpec => []TypeOK
  <1>1. Init => TypeOK
    BY InitIInv DEF IInv
  <1> QED BY <1>1, StepTypeOK, PTL DEF SafetySpec

(* Whatever the workflow, the upload handler or a client does, a row that is deleted,
   failed or complete gets no results any more. *)
THEOREM ResultsAreFrozen == SafetySpec => ResultsFrozen
  <1> DEFINE Frozen == deleted \/ status \in {"failed", "complete"} =>
                         data'.run = data.run /\ UNCHANGED <<confidence, rawKeys>>
  <1>1. TypeOK /\ [Next]_vars => [Frozen]_vars
    <2> SUFFICES ASSUME TypeOK, Next, deleted \/ status \in {"failed", "complete"}
                 PROVE  data'.run = data.run /\ UNCHANGED <<confidence, rawKeys>>
      OBVIOUS
    <2> USE DEF row, results, clients, flow, Stays
    <2>1. CASE Upload
      BY <2>1 DEF Upload, UploadPut, UploadInsert, UploadInsertFails, UploadUndo,
         UploadCreate, UploadCreateFails, UploadGiveUp, UploadCrash
    <2>2. CASE Workflow
      BY <2>2 DEF Workflow, Load, TransitionRead, TransitionWrite, FirstPass, LaterPasses,
         StoreRaw, PersistOutput, PersistConfidence, PersistRedFlags, EnqueueEmails,
         MarkFailed, Refused
    <2>3. CASE AttemptFails \/ Pay \/ Link \/ Delete \/ DeleteCrash \/ DeleteAccount \/ Cleanup
                 \/ \E o \in Owners : DeleteRead(o)
      BY <2>3 DEF AttemptFails, Pay, Link, Delete, DeleteRead, DeleteObjects, DeleteRow,
         DeleteCrash, DeleteAccount, Cleanup, SendCleanup, CleanupUserObjects
    <2>4. CASE EditField
      BY <2>4 DEF EditField, TypeOK, Data
    <2> QED BY <2>1, <2>2, <2>3, <2>4 DEF Next
  <1>2. TypeOK /\ [Next]_vars => [deleted \/ status \in {"failed", "complete"} =>
                         data'.run = data.run /\ UNCHANGED <<confidence, rawKeys>>]_vars
    BY <1>1
  <1> QED BY <1>2, ExtractionTypeCorrect, PTL DEF SafetySpec, ResultsFrozen


------------------------------------------------------------------------------
(* What the finished steps have left                                       *)

LEMMA UploadKeeps == IInv /\ Upload => UploadOK' /\ StepsDone' /\ OneRun'
  <1> SUFFICES ASSUME IInv, Upload PROVE UploadOK' /\ StepsDone' /\ OneRun'
    OBVIOUS
  <1> USE DEF row, results, flow, clients, IInv
  <1>1. UNCHANGED <<data, confidence, flags, memo, runs>> /\ (wf' = wf \/ wf' = "load")
    BY DEF Upload, UploadPut, UploadInsert, UploadInsertFails, UploadUndo,
       UploadCreate, UploadCreateFails, UploadGiveUp, UploadCrash
  <1>2. status' = "complete" => status = "complete"
    BY DEF Upload, UploadPut, UploadInsert, UploadInsertFails, UploadUndo,
       UploadCreate, UploadCreateFails, UploadGiveUp, UploadCrash
  <1>3. UploadOK'
    BY DEF UploadOK, UpThen, Upload, UploadPut, UploadInsert, UploadInsertFails, UploadUndo,
       UploadCreate, UploadCreateFails, UploadGiveUp, UploadCrash
  <1>4. StepsDone'
    BY <1>1 DEF StepsDone, AfterFirst, AfterPersist, AfterScores, AfterFlags
  <1>5. OneRun'
    BY <1>1, <1>2 DEF OneRun
  <1> QED BY <1>3, <1>4, <1>5

(* A step that starts over, or is given up, has no claim of its own to keep. *)
LEMMA ThrowKeeps ==
  ASSUME IInv, wf' \in {FirstOf(wf), "mark_failed", "errored"}, UNCHANGED <<row, runs, memo>>
  PROVE  StepsDone' /\ OneRun'
  <1> USE DEF row, IInv
  <1>1. StepsDone'
    BY DEF StepsDone, AfterFirst, AfterPersist, AfterScores, AfterFlags, FirstOf
  <1> QED BY <1>1 DEF OneRun

LEMMA WorkflowUpload == IInv /\ (Workflow \/ AttemptFails) => UploadOK'
  <1> SUFFICES ASSUME IInv, Workflow \/ AttemptFails PROVE UploadOK'
    OBVIOUS
  <1>1. wf # "none" /\ up' = up
    BY DEF Workflow, Load, TransitionRead, TransitionWrite, FirstPass, LaterPasses,
       StoreRaw, PersistOutput, PersistConfidence, PersistRedFlags, EnqueueEmails,
       MarkFailed, AttemptFails, Running
  <1>2. up \notin {"put", "insert", "create"}
    BY <1>1 DEF IInv, UploadOK
  <1>3. status # "none" => status' # "none"
    BY DEF Workflow, Load, TransitionRead, TransitionWrite, FirstPass, LaterPasses,
       StoreRaw, PersistOutput, PersistConfidence, PersistRedFlags, EnqueueEmails,
       MarkFailed, AttemptFails, Refused, row
  <1> QED BY <1>1, <1>2, <1>3 DEF IInv, UploadOK

LEMMA TransitionReadKeeps ==
  ASSUME IInv, NEW step, NEW target, NEW write \in WfPCs, NEW next \in WfPCs,
         TransitionRead(step, target, write, next),
         \A S \in {{"passes", "raw"}, AfterFirst, AfterPersist, AfterScores, AfterFlags} :
           write \in S \/ next \in S => step \in S
  PROVE  StepsDone' /\ OneRun'
  <1> USE DEF IInv
  <1>1. wf = step /\ wf' \in {write, next, FirstOf(wf), "mark_failed", "errored"}
        /\ UNCHANGED <<row, runs, memo>>
    BY RefusedGoes, ThenGoes DEF TransitionRead, Running
  <1>2. CASE wf' \in {FirstOf(wf), "mark_failed", "errored"}
    BY <1>1, <1>2, ThrowKeeps
  <1>3. CASE wf' \in {write, next}
    <2>1. UNCHANGED <<data, confidence, flags, status>>
      BY <1>1 DEF row
    <2>2. StepsDone'
      BY <1>1, <1>3, <2>1 DEF StepsDone
    <2> QED BY <2>1, <2>2 DEF OneRun
  <1> QED BY <1>1, <1>2, <1>3

LEMMA TransitionWriteKeeps ==
  ASSUME IInv, NEW step, NEW target, NEW next \in WfPCs,
         TransitionWrite(step, target, next),
         target = "complete" => step \in AfterFlags,
         \A S \in {{"passes", "raw"}, AfterFirst, AfterPersist, AfterScores, AfterFlags} :
           next \in S => step \in S
  PROVE  StepsDone' /\ OneRun'
  <1> USE DEF IInv
  <1>1. CASE Refused
    BY <1>1, RefusedGoes, ThrowKeeps DEF TransitionWrite
  <1>2. CASE Then(next) /\ status' = target /\ UNCHANGED results
    <2>1. wf = step /\ wf' \in {next, FirstOf(wf), "mark_failed", "errored"}
          /\ UNCHANGED <<data, confidence, flags, runs, memo>>
      BY <1>2, ThenGoes DEF TransitionWrite, Running, results
    <2>2. StepsDone'
      <3>1. CASE wf' = next
        BY <2>1, <3>1 DEF StepsDone
      <3>2. CASE wf' \in {FirstOf(wf), "mark_failed", "errored"}
        BY <2>1, <3>2 DEF StepsDone, AfterFirst, AfterPersist, AfterScores, AfterFlags, FirstOf
      <3> QED BY <2>1, <3>1, <3>2
    <2>3. OneRun'
      BY <1>2, <2>1 DEF OneRun, StepsDone, AfterFirst, AfterPersist, AfterScores
    <2> QED BY <2>2, <2>3
  <1> QED BY <1>1, <1>2 DEF TransitionWrite

LEMMA WorkflowKeeps == IInv /\ (Workflow \/ AttemptFails) => StepsDone' /\ OneRun'
  <1> SUFFICES ASSUME IInv, Workflow \/ AttemptFails PROVE StepsDone' /\ OneRun'
    OBVIOUS
  <1> USE DEF IInv
  <1>1. CASE AttemptFails
    BY <1>1, ThrowGoes, ThrowKeeps DEF AttemptFails
  <1>2. CASE Refused /\ UNCHANGED <<runs, memo>>
    BY <1>2, RefusedGoes, ThrowKeeps
  <1>3. CASE Load
    <2>1. /\ wf' \in {"extracting_read", FirstOf(wf), "mark_failed", "errored"}
          /\ UNCHANGED <<row, runs, memo>>
      BY <1>3, RefusedGoes, ThenGoes DEF Load, WfPCs
    <2>2. CASE wf' = "extracting_read"
      BY <2>1, <2>2 DEF StepsDone, OneRun, row, AfterFirst, AfterPersist, AfterScores, AfterFlags
    <2> QED BY <2>1, <2>2, ThrowKeeps
  <1>4. CASE TransitionRead("extracting_read", "extracting", "extracting_write", "pass1")
    BY <1>4, TransitionReadKeeps DEF WfPCs, AfterFirst, AfterPersist, AfterScores, AfterFlags
  <1>5. CASE TransitionRead("scoring_read", "scoring", "scoring_write", "confidence")
    BY <1>5, TransitionReadKeeps DEF WfPCs, AfterFirst, AfterPersist, AfterScores, AfterFlags
  <1>6. CASE TransitionRead("complete_read", "complete", "complete_write", "done")
    BY <1>6, TransitionReadKeeps DEF WfPCs, AfterFirst, AfterPersist, AfterScores, AfterFlags
  <1>7. CASE TransitionWrite("extracting_write", "extracting", "pass1")
    BY <1>7, TransitionWriteKeeps DEF WfPCs, AfterFirst, AfterPersist, AfterScores, AfterFlags
  <1>8. CASE TransitionWrite("scoring_write", "scoring", "confidence")
    BY <1>8, TransitionWriteKeeps DEF WfPCs, AfterFirst, AfterPersist, AfterScores, AfterFlags
  <1>9. CASE TransitionWrite("complete_write", "complete", "send")
    BY <1>9, TransitionWriteKeeps DEF WfPCs, AfterFirst, AfterPersist, AfterScores, AfterFlags
  <1>10. CASE FirstPass /\ Object(home, "document") \in bucket
    <2>1. /\ wf = "pass1" /\ wf' \in {"passes", FirstOf(wf), "mark_failed", "errored"}
          /\ runs' = runs + 1 /\ UNCHANGED <<row, memo>>
      BY <1>10, ThenGoes DEF FirstPass, Running, WfPCs
    <2>2. runs' > 0
      BY <2>1 DEF TypeOK
    <2> QED BY <2>1, <2>2 DEF StepsDone, OneRun, row, AfterFirst, AfterPersist, AfterScores,
               AfterFlags, FirstOf
  <1>11. CASE LaterPasses
    <2>1. /\ wf = "passes" /\ wf' \in {"raw", FirstOf(wf), "mark_failed", "errored"}
          /\ UNCHANGED <<row, memo, runs>>
      BY <1>11, ThenGoes DEF LaterPasses, Running, WfPCs
    <2> QED BY <2>1 DEF StepsDone, OneRun, row, AfterFirst, AfterPersist, AfterScores,
               AfterFlags, FirstOf
  <1>12. CASE StoreRaw
    <2>1. /\ wf = "raw" /\ UNCHANGED <<row, runs>>
          /\ \/ wf' = "persist" /\ memo'.run = runs
             \/ wf' \in {FirstOf(wf), "mark_failed", "errored"} /\ UNCHANGED memo
      BY <1>12, ThrowGoes, GotoGoes DEF StoreRaw, Running, WfPCs
    <2>2. CASE wf' = "persist" /\ memo'.run = runs
      BY <2>1, <2>2 DEF StepsDone, OneRun, row, AfterFirst, AfterPersist, AfterScores, AfterFlags
    <2> QED BY <2>1, <2>2, ThrowKeeps
  <1>13. CASE PersistOutput /\ ~Refused
    <2>1. /\ wf = "persist" /\ wf' \in {"scoring_read", FirstOf(wf), "mark_failed", "errored"}
          /\ status = "extracting" /\ data'.run = memo.run
          /\ UNCHANGED <<status, memo>>
      BY <1>13, ThenGoes DEF PersistOutput, Running, WfPCs
    <2> QED BY <2>1 DEF StepsDone, OneRun, AfterFirst, AfterPersist, AfterScores,
               AfterFlags, FirstOf
  <1>14. CASE PersistConfidence /\ ~Refused
    <2>1. /\ wf = "confidence" /\ wf' \in {"flags", FirstOf(wf), "mark_failed", "errored"}
          /\ status = "scoring" /\ confidence' = memo.run
          /\ UNCHANGED <<status, data, memo>>
      BY <1>14, ThenGoes DEF PersistConfidence, Running, WfPCs
    <2> QED BY <2>1 DEF StepsDone, OneRun, AfterFirst, AfterPersist, AfterScores,
               AfterFlags, FirstOf
  <1>15. CASE PersistRedFlags /\ ~Refused
    <2>1. /\ wf = "flags" /\ wf' \in {"complete_read", FirstOf(wf), "mark_failed", "errored"}
          /\ status = "scoring" /\ flags'.run = memo.run
          /\ UNCHANGED <<status, data, confidence, memo>>
      BY <1>15, ThenGoes DEF PersistRedFlags, Running, WfPCs
    <2> QED BY <2>1 DEF StepsDone, OneRun, AfterFirst, AfterPersist, AfterScores,
               AfterFlags, FirstOf
  <1>16. CASE EnqueueEmails
    <2>1. /\ wf' \in {"done", FirstOf(wf), "mark_failed", "errored"}
          /\ UNCHANGED <<row, memo, runs>>
      BY <1>16, ThenGoes, ThrowGoes, GotoGoes DEF EnqueueEmails, WfPCs
    <2>2. CASE wf' = "done"
      BY <2>1, <2>2 DEF StepsDone, OneRun, row, AfterFirst, AfterPersist, AfterScores, AfterFlags
    <2> QED BY <2>1, <2>2, ThrowKeeps
  <1>17. CASE MarkFailed /\ ~Refused
    <2>1. /\ wf = "mark_failed" /\ wf' \in {"errored", FirstOf(wf), "mark_failed"}
          /\ status' = "failed"
      BY <1>17, ThenGoes DEF MarkFailed, Running, WfPCs
    <2> QED BY <2>1 DEF StepsDone, OneRun, AfterFirst, AfterPersist, AfterScores,
               AfterFlags, FirstOf
  <1>18. CASE FirstPass /\ Object(home, "document") \notin bucket
    BY <1>2, <1>18 DEF FirstPass
  <1>19. CASE (PersistOutput \/ PersistConfidence \/ PersistRedFlags \/ MarkFailed) /\ Refused
    BY <1>2, <1>19 DEF PersistOutput, PersistConfidence, PersistRedFlags, MarkFailed
  <1> QED BY <1>1, <1>2, <1>3, <1>4, <1>5, <1>6, <1>7, <1>8, <1>9, <1>10, <1>11, <1>12, <1>13,
             <1>14, <1>15, <1>16, <1>17, <1>18, <1>19 DEF Workflow

LEMMA OthersKeep ==
  IInv /\ [Next]_vars /\ ~Upload /\ ~Workflow /\ ~AttemptFails
    => UploadOK' /\ StepsDone' /\ OneRun'
  <1> SUFFICES ASSUME IInv, [Next]_vars, ~Upload, ~Workflow, ~AttemptFails
               PROVE  UploadOK' /\ StepsDone' /\ OneRun'
    OBVIOUS
  <1> USE DEF row, results, flow, Stays, IInv
  <1>1. UNCHANGED <<status, up, wf, runs, memo, confidence>>
    BY DEF Next, Pay, EditField, Link, DeleteRead, Delete, DeleteObjects, DeleteRow, DeleteCrash,
       DeleteAccount, Cleanup, SendCleanup, CleanupUserObjects, vars
  <1>2. CASE EditField
    <2>1. data'.run = data.run /\ flags'.run = data.run
      BY <1>2 DEF EditField, TypeOK, Data
    <2> QED BY <1>1, <2>1 DEF UploadOK, StepsDone, OneRun, AfterScores, AfterPersist
  <1>3. CASE ~EditField
    <2>1. UNCHANGED <<data, flags>>
      BY <1>3 DEF Next, Pay, Link, DeleteRead, Delete, DeleteObjects, DeleteRow, DeleteCrash,
         DeleteAccount, Cleanup, SendCleanup, CleanupUserObjects, vars
    <2> QED BY <1>1, <2>1 DEF UploadOK, StepsDone, OneRun
  <1> QED BY <1>2, <1>3

LEMMA StepIInv == IInv /\ [Next]_vars => IInv'
  BY StepTypeOK, UploadKeeps, WorkflowUpload, WorkflowKeeps, OthersKeep DEF IInv


------------------------------------------------------------------------------
(* The durable steps implement the customer's view                         *)

LEMMA InitLife == Init => Life!Init
  BY DEF Init, Life!Init, Shown

LEMMA LifeStutter ==
  ASSUME IInv, UNCHANGED <<status, mails, confidence>>, wf # "send", wf' # "send",
         data'.run = data.run, flags'.run = flags.run
  PROVE  UNCHANGED Life!vars
  BY DEF Life!vars, Shown

(* What is not complete shows nothing, whatever is written to it. *)
LEMMA LifeHidden ==
  ASSUME status # "complete", status' # "complete"
  PROVE  Shown = 0 /\ Shown' = 0
  BY DEF Shown

LEMMA UploadLife == IInv /\ Upload => [Life!Next]_(Life!vars)
  <1> SUFFICES ASSUME IInv, Upload PROVE [Life!Next]_(Life!vars)
    OBVIOUS
  <1> USE DEF row, results, flow, clients, IInv
  <1>1. CASE UploadInsert
    <2>1. status = "none" /\ status' = "uploading" /\ UNCHANGED <<wf, mails>>
      BY <1>1 DEF UploadInsert, UploadOK
    <2>2. Life!Advance("none", "uploading")
      BY <2>1, LifeHidden DEF Life!Advance
    <2> QED BY <2>2 DEF Life!Next
  <1>2. CASE UploadGiveUp
    <2>1. status # "none" /\ status' = "failed" /\ UNCHANGED <<wf, mails>>
      BY <1>2 DEF UploadGiveUp, UploadOK
    <2>2. Life!GiveUp
      BY <2>1 DEF Life!GiveUp, Shown
    <2> QED BY <2>2 DEF Life!Next
  <1>3. CASE UploadPut \/ UploadInsertFails \/ UploadUndo \/ UploadCreateFails \/ UploadCrash
    BY <1>3 DEF UploadPut, UploadInsertFails, UploadUndo, UploadCreateFails, UploadCrash,
       Life!vars, Shown
  <1>4. CASE UploadCreate
    <2>1. wf = "none" /\ wf' = "load" /\ UNCHANGED <<status, mails, data, confidence, flags>>
      BY <1>4 DEF UploadCreate, UploadOK
    <2> QED BY <2>1, LifeStutter
  <1> QED BY <1>1, <1>2, <1>3, <1>4 DEF Upload

(* The statement is lost, or refused: at worst the notifications are given up. *)
LEMMA ThrowLife ==
  ASSUME IInv, wf' # "send", UNCHANGED <<row, mails>>
  PROVE  [Life!Next]_(Life!vars)
  <1> USE DEF row, IInv
  <1>1. UNCHANGED Shown
    BY DEF Shown
  <1>2. CASE wf # "send"
    BY <1>2, LifeStutter
  <1>3. CASE wf = "send"
    <2>1. mails' = [k \in Kinds |-> IF k \in {} THEN mails[k] + 1 ELSE mails[k]]
      BY DEF TypeOK
    <2>2. Kinds # {}
      BY DEF Kinds
    <2>3. Life!Notify({})
      BY <1>1, <1>3, <2>1, <2>2 DEF Life!Notify
    <2> QED BY <2>3 DEF Life!Next
  <1> QED BY <1>2, <1>3

LEMMA NotSent ==
  ASSUME TypeOK, wf' \in {FirstOf(wf), "mark_failed", "errored"}, wf # "none"
  PROVE  wf' # "send"
  BY DEF FirstOf

LEMMA TransitionReadLife ==
  ASSUME IInv, NEW step, NEW target, NEW write \in WfPCs \ {"send"}, NEW next \in WfPCs \ {"send"},
         TransitionRead(step, target, write, next), step # "none"
  PROVE  [Life!Next]_(Life!vars)
  <1>1. /\ wf = step /\ wf' \in {write, next, FirstOf(wf), "mark_failed", "errored"}
        /\ UNCHANGED <<row, mails>>
    BY RefusedGoes, ThenGoes DEF TransitionRead, Running, IInv
  <1> QED BY <1>1, NotSent, ThrowLife DEF IInv

LEMMA AdvanceLife ==
  ASSUME IInv, NEW step \in {"extracting_write", "scoring_write"},
         NEW target \in {"extracting", "scoring"}, NEW next \in WfPCs \ {"send"},
         TransitionWrite(step, target, next)
  PROVE  [Life!Next]_(Life!vars)
  <1> USE DEF IInv
  <1>1. CASE Refused
    BY <1>1, RefusedGoes, NotSent, ThrowLife DEF TransitionWrite, Running
  <1>2. CASE Then(next) /\ status = Before(target) /\ status' = target
    <2>1. /\ wf # "send" /\ wf' # "send" /\ UNCHANGED mails
      BY <1>2, ThenGoes, NotSent DEF TransitionWrite, Running
    <2>2. Life!Advance(Before(target), target)
      BY <1>2, <2>1, LifeHidden DEF Life!Advance, Before
    <2> QED BY <2>2 DEF Life!Next, Before
  <1> QED BY <1>1, <1>2 DEF TransitionWrite

LEMMA PublishLife ==
  ASSUME IInv, IInv', TransitionWrite("complete_write", "complete", "send")
  PROVE  [Life!Next]_(Life!vars)
  <1> USE DEF IInv
  <1>1. CASE Refused
    BY <1>1, RefusedGoes, NotSent, ThrowLife DEF TransitionWrite, Running
  <1>2. CASE status = "scoring" /\ status' = "complete"
    <2>1. wf = "complete_write" /\ UNCHANGED mails
      BY DEF TransitionWrite, Running
    <2>2. Shown' = data'.run /\ data'.run > 0
      BY <1>2 DEF Shown, OneRun
    <2>3. data'.run \in Nat
      BY DEF TypeOK, Data
    <2>4. Shown' \in Nat \ {0}
      BY <2>2, <2>3
    <2>5. Life!Publish
      BY <1>2, <2>1, <2>4 DEF Life!Publish
    <2> QED BY <2>5 DEF Life!Next
  <1> QED BY <1>1, <1>2 DEF TransitionWrite, Before

LEMMA WorkflowLife == IInv /\ IInv' /\ (Workflow \/ AttemptFails) => [Life!Next]_(Life!vars)
  <1> SUFFICES ASSUME IInv, IInv', Workflow \/ AttemptFails PROVE [Life!Next]_(Life!vars)
    OBVIOUS
  <1> USE DEF IInv
  <1>1. CASE AttemptFails
    BY <1>1, ThrowGoes, NotSent, ThrowLife DEF AttemptFails
  <1>2. CASE Load
    <2>1. /\ wf' \in {"extracting_read", FirstOf(wf), "mark_failed", "errored"}
          /\ wf = "load" /\ UNCHANGED <<row, mails>>
      BY <1>2, RefusedGoes, ThenGoes DEF Load, Running, WfPCs
    <2> QED BY <2>1, NotSent, ThrowLife
  <1>3. CASE \/ TransitionRead("extracting_read", "extracting", "extracting_write", "pass1")
             \/ TransitionRead("scoring_read", "scoring", "scoring_write", "confidence")
             \/ TransitionRead("complete_read", "complete", "complete_write", "done")
    BY <1>3, TransitionReadLife DEF WfPCs
  <1>4. CASE \/ TransitionWrite("extracting_write", "extracting", "pass1")
             \/ TransitionWrite("scoring_write", "scoring", "confidence")
    BY <1>4, AdvanceLife DEF WfPCs
  <1>5. CASE TransitionWrite("complete_write", "complete", "send")
    BY <1>5, PublishLife
  <1>6. CASE FirstPass \/ LaterPasses \/ StoreRaw
    <2>1. /\ wf' \in {"passes", "raw", "persist", FirstOf(wf), "mark_failed", "errored"}
          /\ wf # "none" /\ UNCHANGED <<row, mails>>
      BY <1>6, RefusedGoes, ThenGoes, GotoGoes, ThrowGoes
         DEF FirstPass, LaterPasses, StoreRaw, Running, WfPCs
    <2> QED BY <2>1, NotSent, ThrowLife
  <1>7. CASE PersistOutput \/ PersistConfidence \/ PersistRedFlags
    <2>1. /\ wf' \in {"scoring_read", "flags", "complete_read", FirstOf(wf), "mark_failed", "errored"}
          /\ wf \in {"persist", "confidence", "flags"} /\ UNCHANGED <<status, mails>>
      BY <1>7, RefusedGoes, ThenGoes
         DEF PersistOutput, PersistConfidence, PersistRedFlags, Running, WfPCs, row
    <2>2. wf # "send" /\ wf' # "send"
      BY <2>1, NotSent
    <2>3. UNCHANGED row \/ status # "complete"
      BY <1>7, RefusedGoes DEF PersistOutput, PersistConfidence, PersistRedFlags
    <2>4. UNCHANGED Shown
      BY <2>1, <2>3, LifeHidden DEF Shown, row
    <2> QED BY <2>1, <2>2, <2>4 DEF Life!vars
  <1>8. CASE EnqueueEmails
    <2>1. PICK S \in SUBSET Kinds :
            mails' = [k \in Kinds |-> IF k \in S THEN mails[k] + 1 ELSE mails[k]]
      BY <1>8 DEF EnqueueEmails
    <2>2. /\ wf = "send" /\ wf' \in {"done", FirstOf(wf), "mark_failed", "errored"}
          /\ UNCHANGED row
      BY <1>8, ThenGoes, ThrowGoes, GotoGoes DEF EnqueueEmails, Running, WfPCs
    <2>3. wf' # "send" /\ UNCHANGED <<status, Shown>> /\ Kinds # {}
      BY <2>2, NotSent DEF row, Shown, Kinds
    <2>4. Life!Notify(S)
      BY <2>1, <2>2, <2>3 DEF Life!Notify
    <2> QED BY <2>4 DEF Life!Next
  <1>9. CASE MarkFailed
    <2>1. CASE Refused
      BY <1>9, <2>1, RefusedGoes, NotSent, ThrowLife DEF MarkFailed, Running
    <2>2. CASE Then("errored") /\ status' = "failed" /\ status \in {"uploading", "extracting", "scoring"}
      <3>1. /\ wf # "send" /\ wf' # "send" /\ UNCHANGED mails
        BY <1>9, <2>2, ThenGoes, NotSent DEF MarkFailed, Running, WfPCs
      <3>2. Life!Fail
        BY <2>2, <3>1, LifeHidden DEF Life!Fail, Life!Unfinished
      <3> QED BY <3>2 DEF Life!Next
    <2> QED BY <1>9, <2>1, <2>2 DEF MarkFailed
  <1> QED BY <1>1, <1>2, <1>3, <1>4, <1>5, <1>6, <1>7, <1>8, <1>9 DEF Workflow

LEMMA OthersLife ==
  IInv /\ [Next]_vars /\ ~Upload /\ ~Workflow /\ ~AttemptFails => [Life!Next]_(Life!vars)
  <1> SUFFICES ASSUME IInv, [Next]_vars, ~Upload, ~Workflow, ~AttemptFails
               PROVE  UNCHANGED Life!vars
    OBVIOUS
  <1> USE DEF row, results, flow, Stays, IInv
  <1>1. UNCHANGED <<status, wf, mails, confidence>>
    BY DEF Next, Pay, EditField, Link, DeleteRead, Delete, DeleteObjects, DeleteRow, DeleteCrash,
       DeleteAccount, Cleanup, SendCleanup, CleanupUserObjects, vars
  <1>2. CASE EditField
    <2>1. data'.run = data.run /\ flags'.run = data.run
      BY <1>2 DEF EditField, TypeOK, Data
    <2>2. UNCHANGED Shown
      BY <1>1, <2>1, LifeHidden DEF Shown, OneRun
    <2> QED BY <1>1, <2>2 DEF Life!vars
  <1>3. CASE ~EditField
    <2>1. UNCHANGED <<data, flags>>
      BY <1>3 DEF Next, Pay, Link, DeleteRead, Delete, DeleteObjects, DeleteRow, DeleteCrash,
         DeleteAccount, Cleanup, SendCleanup, CleanupUserObjects, vars
    <2> QED BY <1>1, <2>1 DEF Life!vars, Shown
  <1> QED BY <1>2, <1>3

(* The workflow with its retries, lost answers and competitors is a correct implementation
   of the life of an extraction as its customer sees it. *)
THEOREM ExtractionImplementsLifecycle == SafetySpec => ImplementsLifecycle
  <1>1. Init => IInv /\ Life!Init
    BY InitIInv, InitLife
  <1>2. IInv /\ [Next]_vars => IInv'
    BY StepIInv
  <1>3. IInv /\ [Next]_vars => [Life!Next]_(Life!vars)
    BY StepIInv, UploadLife, WorkflowLife, OthersLife
  <1> QED BY <1>1, <1>2, <1>3, PTL DEF SafetySpec, ImplementsLifecycle, Life!Spec

------------------------------------------------------------------------------
(* What the abstract specification promises, and Extraction with it        *)

Owed == IF wf = "send" THEN Kinds ELSE {}

(* Nothing is handed over before the results are published, nor while something is owed. *)
LifeInv ==
  /\ mails \in [Kinds -> Nat]
  /\ status \in Life!Unfinished \cup {"none"} => Owed = {} /\ \A k \in Kinds : mails[k] = 0
  /\ Owed # {} => \A k \in Kinds : mails[k] = 0
  /\ Life!NotifiedOnce

LEMMA LifeKeeps == LifeInv /\ [Life!Next]_(Life!vars) => LifeInv'
  <1> SUFFICES ASSUME LifeInv, [Life!Next]_(Life!vars) PROVE LifeInv'
    OBVIOUS
  <1> USE DEF LifeInv, Owed, Life!NotifiedOnce, Life!Unfinished
  <1>1. CASE \/ Life!Advance("none", "uploading") \/ Life!Advance("uploading", "extracting")
             \/ Life!Advance("extracting", "scoring")
    BY <1>1 DEF Life!Advance
  <1>2. CASE Life!Publish
    BY <1>2 DEF Life!Publish
  <1>3. ASSUME NEW S \in SUBSET Kinds, Life!Notify(S) PROVE LifeInv'
    <2>1. Owed # {} /\ Owed' = {} /\ status' = status
      BY <1>3 DEF Life!Notify
    <2>2. mails' \in [Kinds -> Nat] /\ \A k \in Kinds : mails[k] = 0 /\ mails'[k] <= 1
      BY <1>3, <2>1 DEF Life!Notify
    <2>3. status' \notin Life!Unfinished \cup {"none"}
      BY <2>1
    <2> QED BY <2>1, <2>2, <2>3
  <1>4. CASE Life!Fail \/ Life!GiveUp
    BY <1>4 DEF Life!Fail, Life!GiveUp
  <1>5. CASE UNCHANGED Life!vars
    BY <1>5 DEF Life!vars
  <1> QED BY <1>1, <1>2, <1>3, <1>4, <1>5 DEF Life!Next

(* The abstract specification alone: no notification is handed over twice. *)
THEOREM LifecycleNotifiesOnce == Life!Spec => []Life!NotifiedOnce
  <1>1. Life!Init => LifeInv
    BY DEF Life!Init, LifeInv, Owed, Life!NotifiedOnce
  <1>2. LifeInv => Life!NotifiedOnce
    BY DEF LifeInv
  <1> QED BY <1>1, <1>2, LifeKeeps, PTL DEF Life!Spec

(* So the workflow never queues a notification twice, however often its last step is
   repeated and whoever else writes to the row. *)
THEOREM NotificationsSentOnce == SafetySpec => []Life!NotifiedOnce
  BY ExtractionImplementsLifecycle, LifecycleNotifiesOnce, PTL DEF ImplementsLifecycle

------------------------------------------------------------------------------
(* The workflow's control flow                                             *)

(* Where a statement leads when it takes effect *)
Edges == {
  <<"load", "extracting_read">>, <<"extracting_read", "extracting_write">>,
  <<"extracting_read", "pass1">>, <<"extracting_write", "pass1">>, <<"pass1", "passes">>,
  <<"passes", "raw">>, <<"raw", "persist">>, <<"persist", "scoring_read">>,
  <<"scoring_read", "scoring_write">>, <<"scoring_read", "confidence">>,
  <<"scoring_write", "confidence">>, <<"confidence", "flags">>, <<"flags", "complete_read">>,
  <<"complete_read", "complete_write">>, <<"complete_read", "done">>,
  <<"complete_write", "send">>, <<"send", "done">>, <<"mark_failed", "errored">>}

Works == Workflow \/ AttemptFails

(* A statement goes on along an edge, or its attempt is over. *)
LEMMA WorksAlongEdges ==
  ASSUME TypeOK, Works
  PROVE  /\ wf \in WfPCs \ {"none", "done", "errored"}
         /\ (\E next : <<wf, next>> \in Edges /\ Goto(next)) \/ Throw
  <1>1. ASSUME NEW next, Then(next), <<wf, next>> \in Edges
        PROVE  (\E n : <<wf, n>> \in Edges /\ Goto(n)) \/ Throw
    BY <1>1 DEF Then
  <1>2. CASE Load
    <2>1. wf = "load" /\ (Throw \/ Then("extracting_read"))
      BY <1>2 DEF Load, Running, Refused
    <2> QED BY <1>1, <2>1 DEF Edges, WfPCs
  <1>3. ASSUME NEW step, NEW target, NEW write, NEW next,
               TransitionRead(step, target, write, next)
        PROVE  wf = step /\ (Throw \/ Then(write) \/ Then(next))
    BY <1>3 DEF TransitionRead, Running, Refused
  <1>4. ASSUME NEW step, NEW target, NEW next, TransitionWrite(step, target, next)
        PROVE  wf = step /\ (Throw \/ Then(next))
    BY <1>4 DEF TransitionWrite, Running, Refused
  <1>5. CASE TransitionRead("extracting_read", "extracting", "extracting_write", "pass1")
    <2>1. wf = "extracting_read" /\ (Throw \/ Then("extracting_write") \/ Then("pass1"))
      BY <1>3, <1>5
    <2> QED BY <1>1, <2>1 DEF Edges, WfPCs
  <1>6. CASE TransitionWrite("extracting_write", "extracting", "pass1")
    <2>1. wf = "extracting_write" /\ (Throw \/ Then("pass1"))
      BY <1>4, <1>6
    <2> QED BY <1>1, <2>1 DEF Edges, WfPCs
  <1>7. CASE FirstPass
    <2>1. wf = "pass1" /\ (Throw \/ Then("passes"))
      BY <1>7 DEF FirstPass, Running, Refused
    <2> QED BY <1>1, <2>1 DEF Edges, WfPCs
  <1>8. CASE LaterPasses
    <2>1. wf = "passes" /\ Then("raw")
      BY <1>8 DEF LaterPasses, Running
    <2> QED BY <1>1, <2>1 DEF Edges, WfPCs
  <1>9. CASE StoreRaw
    <2>1. wf = "raw" /\ (Throw \/ Goto("persist"))
      BY <1>9 DEF StoreRaw, Running
    <2> QED BY <2>1 DEF Edges, WfPCs
  <1>10. CASE PersistOutput
    <2>1. wf = "persist" /\ (Throw \/ Then("scoring_read"))
      BY <1>10 DEF PersistOutput, Running, Refused
    <2> QED BY <1>1, <2>1 DEF Edges, WfPCs
  <1>11. CASE TransitionRead("scoring_read", "scoring", "scoring_write", "confidence")
    <2>1. wf = "scoring_read" /\ (Throw \/ Then("scoring_write") \/ Then("confidence"))
      BY <1>3, <1>11
    <2> QED BY <1>1, <2>1 DEF Edges, WfPCs
  <1>12. CASE TransitionWrite("scoring_write", "scoring", "confidence")
    <2>1. wf = "scoring_write" /\ (Throw \/ Then("confidence"))
      BY <1>4, <1>12
    <2> QED BY <1>1, <2>1 DEF Edges, WfPCs
  <1>13. CASE PersistConfidence
    <2>1. wf = "confidence" /\ (Throw \/ Then("flags"))
      BY <1>13 DEF PersistConfidence, Running, Refused
    <2> QED BY <1>1, <2>1 DEF Edges, WfPCs
  <1>14. CASE PersistRedFlags
    <2>1. wf = "flags" /\ (Throw \/ Then("complete_read"))
      BY <1>14 DEF PersistRedFlags, Running, Refused
    <2> QED BY <1>1, <2>1 DEF Edges, WfPCs
  <1>15. CASE TransitionRead("complete_read", "complete", "complete_write", "done")
    <2>1. wf = "complete_read" /\ (Throw \/ Then("complete_write") \/ Then("done"))
      BY <1>3, <1>15
    <2> QED BY <1>1, <2>1 DEF Edges, WfPCs
  <1>16. CASE TransitionWrite("complete_write", "complete", "send")
    <2>1. wf = "complete_write" /\ (Throw \/ Then("send"))
      BY <1>4, <1>16
    <2> QED BY <1>1, <2>1 DEF Edges, WfPCs
  <1>17. CASE EnqueueEmails
    <2>1. wf = "send" /\ (Throw \/ Then("done") \/ Goto("done"))
      BY <1>17 DEF EnqueueEmails, Running
    <2>2. <<wf, "done">> \in Edges
      BY <2>1 DEF Edges
    <2> QED BY <1>1, <2>1, <2>2 DEF WfPCs
  <1>18. CASE MarkFailed
    <2>1. wf = "mark_failed" /\ (Throw \/ Then("errored"))
      BY <1>18 DEF MarkFailed, Running, Refused
    <2> QED BY <1>1, <2>1 DEF Edges, WfPCs
  <1>19. CASE AttemptFails
    BY <1>19 DEF AttemptFails, TypeOK
  <1> QED BY <1>2, <1>5, <1>6, <1>7, <1>8, <1>9, <1>10, <1>11, <1>12, <1>13, <1>14, <1>15,
             <1>16, <1>17, <1>18, <1>19 DEF Works, Workflow

------------------------------------------------------------------------------
(* The workflow ends                                                       *)

(* The statements of a step, as how many are left of it *)
StatementsLeft(step) ==
  CASE step = "load" -> 6
    [] step = "extracting_read" -> 5
    [] step = "extracting_write" -> 4
    [] step \in {"pass1", "complete_read"} -> 3
    [] step \in {"passes", "scoring_read", "complete_write"} -> 2
    [] step \in {"done", "errored"} -> 0
    [] OTHER -> 1

(* The steps, as how many are left of the workflow *)
StepsLeft(step) ==
  CASE step = "none" -> 8
    [] FirstOf(step) = "load" -> 7
    [] step = "persist" -> 6
    [] FirstOf(step) = "scoring_read" -> 5
    [] step = "confidence" -> 4
    [] step = "flags" -> 3
    [] FirstOf(step) = "complete_read" -> 2
    [] step = "mark_failed" -> 1
    [] OTHER -> 0

Longest == 6

(* How many statements the instance may still run, at most, repetitions included *)
Remaining ==
  StepsLeft(wf) * ((Retries + 1) * Longest) + ((Retries - attempt) * Longest + StatementsLeft(wf))

(* No step of the program adds to what is left, and those of the workflow take from it. *)
Descends ==
  /\ Remaining \in Nat /\ Remaining' \in Nat /\ Remaining' <= Remaining
  /\ Works => Remaining' < Remaining

LEMMA LeftTypes ==
  ASSUME NEW step \in WfPCs
  PROVE  /\ StatementsLeft(step) \in 0..Longest /\ StepsLeft(step) \in Nat
         /\ step \notin {"done", "errored"} => StatementsLeft(step) >= 1
  BY DEF WfPCs, StatementsLeft, StepsLeft, FirstOf, Longest

LEMMA EdgesDescend ==
  ASSUME NEW from, NEW to, <<from, to>> \in Edges
  PROVE  IF FirstOf(to) = FirstOf(from)
           THEN StepsLeft(to) = StepsLeft(from) /\ StatementsLeft(to) < StatementsLeft(from)
           ELSE StepsLeft(to) < StepsLeft(from)
  BY DEF Edges, StatementsLeft, StepsLeft, FirstOf

LEMMA RepeatingStays ==
  ASSUME NEW step \in WfPCs
  PROVE  FirstOf(step) \in WfPCs /\ StepsLeft(FirstOf(step)) = StepsLeft(step)
  BY DEF WfPCs, StepsLeft, FirstOf

LEMMA GivingUpDescends ==
  ASSUME NEW step \in WfPCs \ {"none", "done", "errored"}
  PROVE  StepsLeft(IF step = "mark_failed" THEN "errored" ELSE "mark_failed") < StepsLeft(step)
  BY DEF WfPCs, StepsLeft, FirstOf

(* A step less is worth more than all repetitions of the next one. *)
LEMMA StepsWeigh ==
  ASSUME NEW r \in Nat, NEW s \in Nat, NEW t \in Nat, NEW a \in 0..r, NEW b \in 0..r,
         NEW x \in 0..Longest, NEW y \in 0..Longest,
         \/ t < s /\ x >= 1 
         \/ t = s /\ b = a /\ y < x
         \/ t = s /\ b = a + 1 /\ x >= 1
  PROVE  /\ s * ((r + 1) * Longest) + ((r - a) * Longest + x) \in Nat
         /\ t * ((r + 1) * Longest) + ((r - b) * Longest + y) \in Nat
         /\ t * ((r + 1) * Longest) + ((r - b) * Longest + y)
              < s * ((r + 1) * Longest) + ((r - a) * Longest + x)
  <1> DEFINE K == (r + 1) * Longest
             m == (r - a) * Longest + x
             n == (r - b) * Longest + y
  <1>1. K \in Nat /\ m \in Nat /\ n \in Nat /\ n <= K
    BY DEF Longest
  <1>2. (t = s /\ n < m) \/ (t < s /\ m >= 1)
    BY DEF Longest
  <1>3. \A i, j \in Nat : i * j \in Nat
    OBVIOUS
  <1> HIDE DEF K, m, n
  <1>4. s * K \in Nat /\ t * K \in Nat /\ (s - t) * K = s * K - t * K
    BY <1>1, <1>3
  <1>5. t < s => (s - t) * K >= K
    <2> SUFFICES ASSUME t < s PROVE (s - t) * K >= K
      OBVIOUS
    <2> DEFINE d == s - t - 1
    <2>1. d \in Nat /\ s - t = d + 1
      OBVIOUS
    <2> HIDE DEF d
    <2>2. d * K \in Nat
      BY <1>1, <1>3, <2>1
    <2>3. (d + 1) * K = d * K + K
      BY <1>1, <2>1
    <2> QED BY <1>1, <2>1, <2>2, <2>3
  <1>6. s * K + m \in Nat /\ t * K + n \in Nat /\ t * K + n < s * K + m
    BY <1>1, <1>2, <1>4, <1>5
  <1> QED BY <1>6 DEF K, m, n

LEMMA WorksDescend == TypeOK /\ TypeOK' /\ Works => Descends
  <1> SUFFICES ASSUME TypeOK, TypeOK', Works
               PROVE  Remaining \in Nat /\ Remaining' \in Nat /\ Remaining' < Remaining
    BY DEF Descends
  <1> USE ExtractionAssumption
  <1>1. wf \in WfPCs /\ wf' \in WfPCs /\ attempt \in 0..Retries /\ attempt' \in 0..Retries
    BY DEF TypeOK
  <1>2. wf \notin {"none", "done", "errored"}
    BY WorksAlongEdges
  <1> DEFINE s == StepsLeft(wf)
             t == StepsLeft(wf')
             x == StatementsLeft(wf)
             y == StatementsLeft(wf')
  <1>3. s \in Nat /\ t \in Nat /\ x \in 0..Longest /\ y \in 0..Longest /\ x >= 1
    BY <1>1, <1>2, LeftTypes
  <1>4. \/ t < s
        \/ t = s /\ attempt' = attempt /\ y < x
        \/ t = s /\ attempt' = attempt + 1
    <2>1. ASSUME NEW next, <<wf, next>> \in Edges, Goto(next)
          PROVE  t < s \/ (t = s /\ attempt' = attempt /\ y < x)
      BY <2>1, EdgesDescend DEF Goto
    <2>2. CASE Throw /\ attempt < Retries
      BY <1>1, <2>2, RepeatingStays DEF Throw
    <2>3. CASE Throw /\ ~(attempt < Retries)
      <3>1. wf' = IF wf = "mark_failed" THEN "errored" ELSE "mark_failed"
        BY <2>3 DEF Throw
      <3> QED BY <1>1, <1>2, <3>1, GivingUpDescends
    <2> QED BY <2>1, <2>2, <2>3, WorksAlongEdges
  <1> HIDE DEF s, t, x, y
  <1>5. /\ s * ((Retries + 1) * Longest) + ((Retries - attempt) * Longest + x) \in Nat
        /\ t * ((Retries + 1) * Longest) + ((Retries - attempt') * Longest + y) \in Nat
        /\ t * ((Retries + 1) * Longest) + ((Retries - attempt') * Longest + y)
             < s * ((Retries + 1) * Longest) + ((Retries - attempt) * Longest + x)
    BY <1>1, <1>3, <1>4, StepsWeigh
  <1> QED BY <1>5 DEF Remaining, s, t, x, y

LEMMA RemainingType ==
  ASSUME NEW step \in WfPCs, NEW a \in 0..Retries
  PROVE  StepsLeft(step) * ((Retries + 1) * Longest)
           + ((Retries - a) * Longest + StatementsLeft(step)) \in Nat
  <1>1. /\ StepsLeft(step) \in Nat /\ StatementsLeft(step) \in Nat
        /\ (Retries + 1) * Longest \in Nat /\ (Retries - a) * Longest \in Nat
    BY LeftTypes, ExtractionAssumption DEF Longest
  <1>2. \A i, j \in Nat : i * j \in Nat /\ i + j \in Nat
    OBVIOUS
  <1> QED BY <1>1, <1>2

LEMMA UploadDescends ==
  ASSUME IInv, IInv', Upload, ~Works
  PROVE  Descends
  <1> USE DEF IInv
  <1>1. Remaining \in Nat /\ Remaining' \in Nat
    BY RemainingType DEF TypeOK, Remaining
  <1>2. CASE UNCHANGED <<wf, attempt>>
    BY <1>1, <1>2 DEF Remaining, Descends
  <1>3. CASE wf = "none" /\ wf' = "load" /\ attempt' = attempt
    <2>1. /\ StepsLeft("load") = 7 /\ StepsLeft("none") = 8
          /\ StatementsLeft("load") = 6 /\ StatementsLeft("none") = 1
      BY DEF StepsLeft, StatementsLeft, FirstOf
    <2>2. attempt \in 0..Retries /\ Retries \in Nat
      BY ExtractionAssumption DEF TypeOK
    <2>3. 7 * ((Retries + 1) * Longest) + ((Retries - attempt) * Longest + 6)
            < 8 * ((Retries + 1) * Longest) + ((Retries - attempt) * Longest + 1)
      BY <2>2 DEF Longest
    <2> QED BY <1>1, <1>3, <2>1, <2>3 DEF Remaining, Descends
  <1>4. UNCHANGED <<wf, attempt>> \/ UploadCreate
    BY DEF Upload, UploadPut, UploadInsert, UploadInsertFails, UploadUndo, UploadCreateFails,
       UploadGiveUp, UploadCrash, flow
  <1>5. UploadCreate => wf = "none" /\ wf' = "load" /\ attempt' = attempt
    BY DEF UploadCreate, UploadOK
  <1> QED BY <1>2, <1>3, <1>4, <1>5

(* An instance runs at most 8 * (Retries + 1) * 6 statements, whatever fails, is refused or
   lost: no retry and no repeated step goes on for ever, and nothing a client or the upload
   handler does gives it more to do.  This is the safety half of WorkflowSettles. *)
THEOREM WorkflowStepsBounded == SafetySpec => [][Descends]_vars
  <1>1. IInv /\ IInv' /\ [Next]_vars => [Descends]_vars
    <2> SUFFICES ASSUME IInv, IInv', Next PROVE Descends
      OBVIOUS
    <2>1. CASE Works
      BY <2>1, WorksDescend DEF IInv
    <2>2. CASE Upload /\ ~Works
      BY <2>2, UploadDescends
    <2>3. CASE ~Upload /\ ~Works
      <3>1. UNCHANGED <<wf, attempt>>
        BY <2>3 DEF Works, Next, Pay, EditField, Link, DeleteRead, Delete, DeleteObjects, DeleteRow,
           DeleteCrash, DeleteAccount, Cleanup, SendCleanup, CleanupUserObjects, Stays, flow
      <3>2. Remaining \in Nat
        BY RemainingType DEF IInv, TypeOK, Remaining
      <3> QED BY <2>3, <3>1, <3>2 DEF Remaining, Descends
    <2> QED BY <2>1, <2>2, <2>3
  <1> QED BY <1>1, InitIInv, StepIInv, PTL DEF SafetySpec

------------------------------------------------------------------------------
(* What an extraction costs                                                *)

(* Each attempt of the first step makes one inference, after its first statements. *)
RunsOK ==
  /\ wf = "none" => runs = 0
  /\ wf \in {"load", "extracting_read", "extracting_write", "pass1"} => runs <= attempt
  /\ wf \in {"passes", "raw"} => runs <= attempt + 1
  /\ runs <= Retries + 1

(* An attempt that is over has made one inference at most, if it was one of the first step. *)
LEMMA ThrowRuns ==
  ASSUME Throw, RunsOK, runs \in Nat, runs' \in Nat, attempt \in 0..Retries, wf \in WfPCs,
         runs' = runs \/ (wf = "pass1" /\ runs' = runs + 1)
  PROVE  RunsOK'
  <1>1. runs' <= Retries + 1
    BY ExtractionAssumption DEF RunsOK
  <1>2. CASE attempt < Retries
    <2>1. wf' = FirstOf(wf) /\ attempt' = attempt + 1
      BY <1>2 DEF Throw
    <2>2. CASE wf \in {"load", "extracting_read", "extracting_write", "pass1", "passes", "raw"}
      <3>1. wf' = "load" /\ runs' <= attempt + 1
        BY <2>1, <2>2 DEF FirstOf, RunsOK
      <3> QED BY <1>1, <2>1, <3>1 DEF RunsOK
    <2>3. CASE wf \notin {"load", "extracting_read", "extracting_write", "pass1", "passes", "raw"}
      <3>1. runs' = runs /\ (wf' = "none" => wf = "none")
            /\ wf' \notin {"load", "extracting_read", "extracting_write", "pass1", "passes", "raw"}
        BY <2>1, <2>3 DEF FirstOf
      <3> QED BY <1>1, <3>1 DEF RunsOK
    <2> QED BY <2>2, <2>3
  <1>3. CASE ~(attempt < Retries)
    BY <1>1, <1>3 DEF Throw, RunsOK
  <1> QED BY <1>2, <1>3

LEMMA RunsKept == IInv /\ IInv' /\ RunsOK /\ [Next]_vars => RunsOK'
  <1> SUFFICES ASSUME IInv, IInv', RunsOK, [Next]_vars PROVE RunsOK'
    OBVIOUS
  <1> USE ExtractionAssumption
  <1>1. /\ runs \in Nat /\ runs' \in Nat /\ attempt \in 0..Retries /\ attempt' \in 0..Retries
        /\ wf \in WfPCs
    BY DEF IInv, TypeOK
  <1>2. CASE Works /\ ~FirstPass
    <2>1. UNCHANGED runs
      BY <1>2 DEF Works, Workflow, AttemptFails, Load, TransitionRead, TransitionWrite, LaterPasses,
         StoreRaw, PersistOutput, PersistConfidence, PersistRedFlags, EnqueueEmails, MarkFailed
    <2>2. CASE Throw
      BY <1>1, <2>1, <2>2, ThrowRuns
    <2>3. ASSUME NEW next, <<wf, next>> \in Edges, Goto(next), wf # "pass1" PROVE RunsOK'
      BY <1>1, <2>1, <2>3 DEF Goto, RunsOK, FirstOf, Edges
    <2>4. wf = "pass1" => Throw
      BY <1>2 DEF Works, Workflow, AttemptFails, Load, TransitionRead, TransitionWrite, LaterPasses,
         StoreRaw, PersistOutput, PersistConfidence, PersistRedFlags, EnqueueEmails, MarkFailed, Running
    <2> QED BY <1>2, <2>2, <2>3, <2>4, WorksAlongEdges DEF IInv
  <1>3. CASE FirstPass
    <2>1. wf = "pass1" /\ runs <= attempt
      BY <1>3 DEF FirstPass, Running, RunsOK
    <2>2. CASE Throw /\ runs' \in {runs, runs + 1}
      BY <1>1, <2>1, <2>2, ThrowRuns
    <2>3. CASE Goto("passes") /\ runs' = runs + 1
      BY <1>1, <2>1, <2>3 DEF Goto, RunsOK, FirstOf
    <2> QED BY <1>3, <2>2, <2>3 DEF FirstPass, Then, Refused
  <1>4. CASE UNCHANGED <<wf, attempt, runs>>
    BY <1>4 DEF RunsOK
  <1>5. CASE UploadCreate
    <2>1. wf = "none" /\ wf' = "load" /\ UNCHANGED <<attempt, runs>>
      BY <1>5 DEF UploadCreate, IInv, UploadOK
    <2> QED BY <1>1, <2>1 DEF RunsOK
  <1>6. ~Works /\ ~UploadCreate => UNCHANGED <<wf, attempt, runs>>
    BY DEF Works, Next, Upload, UploadPut, UploadInsert, UploadInsertFails, UploadUndo,
       UploadCreateFails, UploadGiveUp, UploadCrash, Pay, EditField, Link, DeleteRead, Delete,
       DeleteObjects, DeleteRow, DeleteCrash, DeleteAccount, Cleanup, SendCleanup,
       CleanupUserObjects, Stays, flow, vars
  <1> QED BY <1>2, <1>3, <1>4, <1>5, <1>6

(* A late error repeats the inference, but an upload never costs more than Retries + 1
   inferences of the whole document, however its steps fail. *)
THEOREM InferencesBounded == SafetySpec => [](runs <= Retries + 1)
  <1>1. Init => RunsOK
    BY ExtractionAssumption DEF Init, RunsOK
  <1>2. RunsOK => runs <= Retries + 1
    BY DEF RunsOK
  <1> QED BY <1>1, <1>2, InitIInv, StepIInv, RunsKept, PTL DEF SafetySpec
==============================================================================
