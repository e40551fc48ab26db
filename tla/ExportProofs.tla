---------------------------- MODULE ExportProofs ------------------------------
(***************************************************************************)
(* Proofs about Export, for any number of exports, edits, retries and      *)
(* faults: type correctness, that an export is never older than the        *)
(* version it is stored under, and a bound on the statements of a workflow.*)
(***************************************************************************)
EXTENDS Export, TLAPS

(* History b has version v with no more than n edits in it. *)
AsOf(b, v, n) == \E d \in 0..n : <<v, d>> \in b

(* The row has borne the stamp it bears, with the data it has. *)
RowBorne == <<updatedAt, data>> \in borne

(* A request asks for a version the row has borne, and what its workflow    *)
(* has read is at least as new as that version.                             *)
AskedBorne ==
  \A i \in Exports :
    /\ AsOf(borne, version[i], data)
    /\ pc[i] = "put" => held[i] <= data /\ AsOf(borne, version[i], held[i])

IInv == TypeOK /\ RowBorne /\ AskedBorne /\ NotOlderThanVersion

------------------------------------------------------------------------------
(* The history of stamps only grows, so what was borne stays borne.        *)

LEMMA HistoryGrows ==
  ASSUME NEW b, NEW c, b \subseteq c, NEW v, NEW n \in Nat, NEW m \in Nat, n <= m,
         AsOf(b, v, n)
  PROVE  AsOf(c, v, m)
  BY DEF AsOf

(* A step that leaves the exports alone and lets the row only grow keeps    *)
(* what is known of the exports.                                            *)
LEMMA RowGrows ==
  ASSUME TypeOK, AskedBorne, NotOlderThanVersion,
         data' \in Nat, data <= data', borne \subseteq borne', UNCHANGED <<task, objects>>
  PROVE  AskedBorne' /\ NotOlderThanVersion'
  <1>1. UNCHANGED <<pc, version, held, objects>>
    BY DEF task
  <1>2. ASSUME NEW i \in Exports
        PROVE  /\ AsOf(borne', version[i], data')
               /\ pc[i] = "put" => held[i] <= data' /\ AsOf(borne', version[i], held[i])
    <2>1. version[i] \in Stamps /\ held[i] \in Nat /\ data \in Nat
      BY DEF TypeOK
    <2>2. AsOf(borne, version[i], data)
      BY DEF AskedBorne
    <2>3. AsOf(borne', version[i], data')
      BY <2>1, <2>2, HistoryGrows
    <2>4. ASSUME pc[i] = "put"
          PROVE  held[i] <= data' /\ AsOf(borne', version[i], held[i])
      <3>1. held[i] <= data /\ AsOf(borne, version[i], held[i])
        BY <2>4 DEF AskedBorne
      <3>2. AsOf(borne', version[i], held[i])
        BY <2>1, <3>1, HistoryGrows
      <3> QED BY <2>1, <3>1, <3>2
    <2> QED BY <2>3, <2>4
  <1>3. ASSUME NEW k \in Owners \X Stamps, objects[k] # NONE
        PROVE  objects[k] <= data' /\ \E d \in 0..objects[k] : <<k[2], d>> \in borne'
    <2>1. objects[k] \in Nat /\ data \in Nat
      BY <1>3 DEF TypeOK
    <2>2. objects[k] <= data /\ \E d \in 0..objects[k] : <<k[2], d>> \in borne
      BY <1>3 DEF NotOlderThanVersion
    <2> QED BY <2>1, <2>2
  <1>4. AskedBorne'
    BY <1>1, <1>2 DEF AskedBorne
  <1>5. NotOlderThanVersion'
    BY <1>1, <1>3 DEF NotOlderThanVersion
  <1> QED BY <1>4, <1>5

------------------------------------------------------------------------------
(* Type correctness                                                        *)

LEMMA FaultCounted ==
  ASSUME TypeOK, Fault
  PROVE  faults' \in 0..MaxFaults
  BY ExportAssumption DEF TypeOK, Fault

LEMMA ThrowGoes ==
  ASSUME TypeOK, NEW i \in Exports, Throw(i)
  PROVE  /\ \/ Goto(i, "load")
            \/ Goto(i, "errored")
         /\ attempt' \in [Exports -> 0..Retries]
  <1>1. attempt \in [Exports -> 0..Retries] /\ Retries \in Nat
    BY ExportAssumption DEF TypeOK
  <1>2. CASE attempt[i] < Retries
    <2>1. Goto(i, "load") /\ attempt' = [attempt EXCEPT ![i] = @ + 1]
      BY <1>2 DEF Throw
    <2>2. attempt[i] + 1 \in 0..Retries
      BY <1>1, <1>2
    <2> QED BY <1>1, <2>1, <2>2
  <1>3. CASE ~(attempt[i] < Retries)
    <2>1. Goto(i, "errored") /\ attempt' = attempt
      BY <1>3 DEF Throw
    <2> QED BY <1>1, <2>1
  <1> QED BY <1>2, <1>3

LEMMA InitTyped == Init => TypeOK
  <1> SUFFICES ASSUME Init PROVE TypeOK
    OBVIOUS
  <1> USE ExportAssumption DEF Init
  <1>1. data \in Nat /\ updatedAt \in Stamps
    BY DEF Stamps
  <1>9. owner \in Owners /\ deleted \in BOOLEAN
    BY Zenon
  <1>2. borne \subseteq Stamps \X Nat /\ clock \in Stamps
    <2>1. 0 \in Stamps
      BY DEF Stamps
    <2> QED BY <2>1
  <1>3. txn \in [Writers -> [kind : {"none", "edit", "link", "done"}, at : Stamps]]
    BY DEF NoTxn, Stamps
  <1>4. pc \in [Exports -> {"idle", "check", "load", "put", "done", "errored"}]
    OBVIOUS
  <1>5. asker \in [Exports -> Owners] /\ version \in [Exports -> Stamps]
    BY DEF Owners, Stamps
  <1>6. held \in [Exports -> Nat] /\ attempt \in [Exports -> 0..Retries]
    OBVIOUS
  <1>7. objects \in [Owners \X Stamps -> Nat \cup {NONE}]
    OBVIOUS
  <1>8. del \in [pc : {"idle", "objects", "row"}, by : Owners] /\ faults \in 0..MaxFaults
    BY DEF NoDelete, Owners
  <1> QED BY <1>1, <1>2, <1>3, <1>4, <1>5, <1>6, <1>7, <1>8, <1>9, Zenon DEF TypeOK

LEMMA NextTyped ==
  ASSUME TypeOK, [Next]_vars
  PROVE  TypeOK'
  <1> USE ExportAssumption DEF row, task
  <1>1. CASE Tick
    <2>1. clock' \in Stamps
      BY <1>1 DEF Tick, TypeOK, Stamps
    <2> QED BY <1>1, <2>1 DEF Tick, TypeOK
  <1>2. ASSUME NEW t \in Writers, Begin(t) \/ EditField(t) \/ Link(t)
        PROVE  TypeOK'
    <2>1. CASE Begin(t)
      <3>1. txn' \in [Writers -> [kind : {"none", "edit", "link", "done"}, at : Stamps]]
        BY <2>1 DEF Begin, Began, TypeOK
      <3> QED BY <2>1, <3>1 DEF Begin, TypeOK
    <2>2. txn[t].at \in Stamps
      BY DEF TypeOK
    <2>3. [txn EXCEPT ![t] = [kind |-> "done", at |-> 0]]
            \in [Writers -> [kind : {"none", "edit", "link", "done"}, at : Stamps]]
      BY DEF TypeOK, Stamps
    <2>4. CASE EditField(t)
      BY <2>2, <2>3, <2>4 DEF EditField, Stamp, TypeOK
    <2>5. CASE Link(t)
      BY <2>2, <2>3, <2>5 DEF Link, Stamp, TypeOK, Owners
    <2> QED BY <1>2, <2>1, <2>4, <2>5
  <1>3. ASSUME NEW i \in Exports, NEW o \in Owners, ExportRequest(i, o)
        PROVE  TypeOK'
    BY <1>3 DEF ExportRequest, Goto, TypeOK
  <1>4. ASSUME NEW i \in Exports, ExportCheck(i)
        PROVE  TypeOK'
    <2>1. pc' \in [Exports -> {"idle", "check", "load", "put", "done", "errored"}]
      BY <1>4 DEF ExportCheck, Goto, TypeOK
    <2>2. faults' \in 0..MaxFaults
      BY <1>4, FaultCounted DEF ExportCheck, TypeOK
    <2> QED BY <1>4, <2>1, <2>2 DEF ExportCheck, TypeOK
  <1>5. ASSUME NEW i \in Exports, ExportLoad(i)
        PROVE  TypeOK'
    <2>1. /\ Goto(i, "put") \/ Goto(i, "load") \/ Goto(i, "errored")
          /\ attempt' \in [Exports -> 0..Retries]
      BY <1>5, ThrowGoes DEF ExportLoad, TypeOK
    <2>2. pc' \in [Exports -> {"idle", "check", "load", "put", "done", "errored"}]
      BY <2>1 DEF Goto, TypeOK
    <2>3. held' \in [Exports -> Nat]
      BY <1>5 DEF ExportLoad, TypeOK
    <2> QED BY <1>5, <2>1, <2>2, <2>3 DEF ExportLoad, TypeOK
  <1>6. ASSUME NEW i \in Exports, ExportPut(i)
        PROVE  TypeOK'
    <2>1. /\ pc' \in [Exports -> {"idle", "check", "load", "put", "done", "errored"}]
          /\ attempt' \in [Exports -> 0..Retries]
      BY <1>6, ThrowGoes DEF ExportPut, Goto, TypeOK
    <2>2. faults' \in 0..MaxFaults
      BY <1>6, FaultCounted DEF ExportPut, TypeOK
    <2>3. objects' \in [Owners \X Stamps -> Nat \cup {NONE}]
      BY <1>6 DEF ExportPut, TypeOK
    <2> QED BY <1>6, <2>1, <2>2, <2>3 DEF ExportPut, TypeOK
  <1>7. ASSUME NEW i \in Exports, ExportAttemptFails(i)
        PROVE  TypeOK'
    <2>1. /\ pc' \in [Exports -> {"idle", "check", "load", "put", "done", "errored"}]
          /\ attempt' \in [Exports -> 0..Retries]
      BY <1>7, ThrowGoes DEF ExportAttemptFails, Goto, TypeOK
    <2>2. faults' \in 0..MaxFaults
      BY <1>7, FaultCounted DEF ExportAttemptFails
    <2> QED BY <1>7, <2>1, <2>2 DEF ExportAttemptFails, TypeOK
  <1>8. ASSUME NEW o \in Owners, DeleteRead(o)
        PROVE  TypeOK'
    BY <1>8 DEF DeleteRead, TypeOK
  <1>9. CASE DeleteObjects
    <2>1. objects' \in [Owners \X Stamps -> Nat \cup {NONE}]
      BY <1>9 DEF DeleteObjects, Without, TypeOK
    <2> QED BY <1>9, <2>1 DEF DeleteObjects, TypeOK
  <1>10. CASE DeleteRow
    BY <1>10 DEF DeleteRow, NoDelete, Owners, TypeOK
  <1>11. CASE DeleteCrash
    BY <1>11, FaultCounted DEF DeleteCrash, NoDelete, Owners, TypeOK
  <1>12. CASE UNCHANGED vars
    BY <1>12 DEF vars, TypeOK
  <1> QED BY <1>1, <1>2, <1>3, <1>4, <1>5, <1>6, <1>7, <1>8, <1>9, <1>10, <1>11, <1>12
          DEF Next, Run

(* Every variable has its type in every reachable state: routes/extractions.ts *)
(* and workflows/export-workflow.ts with any number of retries and faults.     *)
THEOREM ExportTypeCorrect == SafetySpec => []TypeOK
  <1>1. TypeOK /\ [Next]_vars => TypeOK'
    BY NextTyped
  <1> QED BY InitTyped, <1>1, PTL DEF SafetySpec

------------------------------------------------------------------------------
(* An export is never older than its version                               *)

LEMMA InitIInv == Init => IInv
  <1> SUFFICES ASSUME Init PROVE IInv
    OBVIOUS
  <1>1. RowBorne
    BY DEF Init, RowBorne
  <1>2. AskedBorne
    BY DEF Init, AskedBorne, AsOf
  <1>3. NotOlderThanVersion
    BY DEF Init, NotOlderThanVersion
  <1> QED BY InitTyped, <1>1, <1>2, <1>3 DEF IInv

(* The transactions: what the row bears is added to the history. *)
LEMMA WriterKeeps ==
  ASSUME IInv, NEW t \in Writers, Begin(t) \/ EditField(t) \/ Link(t)
  PROVE  RowBorne' /\ AskedBorne' /\ NotOlderThanVersion'
  <1> USE DEF row
  <1>1. data \in Nat
    BY DEF IInv, TypeOK
  <1>2. data' \in Nat /\ data <= data' /\ borne \subseteq borne'
    BY <1>1 DEF Begin, EditField, Link, Stamp
  <1>3. UNCHANGED <<task, objects>>
    BY DEF Begin, EditField, Link
  <1>4. RowBorne'
    BY DEF Begin, EditField, Link, Stamp, RowBorne, IInv
  <1> QED BY <1>2, <1>3, <1>4, RowGrows DEF IInv

(* A step of an export that leaves the history, the data and the objects    *)
(* alone need only keep what is known of that export.                       *)
LEMMA OtherExports ==
  ASSUME IInv, UNCHANGED <<row, objects>>, NEW i \in Exports,
         NEW step \in {"idle", "check", "load", "errored", "done"}, Goto(i, step),
         UNCHANGED <<version, held>>
  PROVE  RowBorne' /\ AskedBorne' /\ NotOlderThanVersion'
  <1> USE DEF row
  <1>1. RowBorne' /\ NotOlderThanVersion'
    BY DEF IInv, RowBorne, NotOlderThanVersion
  <1>2. \A j \in Exports : pc'[j] = "put" => pc[j] = "put"
    BY DEF Goto, IInv, TypeOK
  <1>3. AskedBorne'
    BY <1>2 DEF IInv, AskedBorne
  <1> QED BY <1>1, <1>3

LEMMA RequestKeeps ==
  ASSUME IInv, NEW i \in Exports, NEW o \in Owners, ExportRequest(i, o)
  PROVE  RowBorne' /\ AskedBorne' /\ NotOlderThanVersion'
  <1> USE DEF row
  <1>1. RowBorne' /\ NotOlderThanVersion'
    BY DEF ExportRequest, IInv, RowBorne, NotOlderThanVersion
  <1>2. AsOf(borne, updatedAt, data)
    <2>1. data \in Nat /\ <<updatedAt, data>> \in borne
      BY DEF IInv, TypeOK, RowBorne
    <2>2. data \in 0..data
      BY <2>1
    <2> QED BY <2>1, <2>2, Zenon DEF AsOf
  <1>3. \A j \in Exports : version'[j] = IF j = i THEN updatedAt ELSE version[j]
    BY DEF ExportRequest, IInv, TypeOK
  <1>4. \A j \in Exports : pc'[j] = "put" => pc[j] = "put" /\ j # i
    BY DEF ExportRequest, Goto, IInv, TypeOK
  <1>5. UNCHANGED <<borne, data, held>>
    BY DEF ExportRequest
  <1>6. AskedBorne'
    BY <1>2, <1>3, <1>4, <1>5 DEF IInv, AskedBorne
  <1> QED BY <1>1, <1>6

(* What is read is the row's data, hence as new as any version it has borne. *)
LEMMA LoadKeeps ==
  ASSUME IInv, NEW i \in Exports, ExportLoad(i)
  PROVE  RowBorne' /\ AskedBorne' /\ NotOlderThanVersion'
  <1> USE DEF row
  <1>1. CASE Goto(i, "put") /\ held' = [held EXCEPT ![i] = data]
    <2>1. RowBorne' /\ NotOlderThanVersion'
      BY DEF ExportLoad, IInv, RowBorne, NotOlderThanVersion
    <2>2. \A j \in Exports : held'[j] = IF j = i THEN data ELSE held[j]
      BY <1>1 DEF IInv, TypeOK
    <2>3. \A j \in Exports : pc'[j] = "put" => j = i \/ pc[j] = "put"
      BY <1>1 DEF Goto, IInv, TypeOK
    <2>4. UNCHANGED <<borne, data, version>>
      BY DEF ExportLoad
    <2>5. data \in Nat
      BY DEF IInv, TypeOK
    <2>6. AskedBorne'
      BY <2>2, <2>3, <2>4, <2>5 DEF IInv, AskedBorne
    <2> QED BY <2>1, <2>6
  <1>2. CASE Throw(i) /\ UNCHANGED held
    BY <1>2, ThrowGoes, OtherExports DEF ExportLoad, IInv
  <1> QED BY <1>1, <1>2 DEF ExportLoad

(* What is stored is what was read. *)
LEMMA PutKeeps ==
  ASSUME IInv, NEW i \in Exports, ExportPut(i)
  PROVE  RowBorne' /\ AskedBorne' /\ NotOlderThanVersion'
  <1> USE DEF row
  <1>1. held[i] \in Nat /\ held[i] <= data /\ AsOf(borne, version[i], held[i])
    BY DEF ExportPut, IInv, TypeOK, AskedBorne
  <1>2. UNCHANGED <<updatedAt, data, borne, version, held>>
    BY DEF ExportPut
  <1>3. \A k \in Owners \X Stamps :
          objects'[k] = IF k = Key(i) THEN held[i] ELSE objects[k]
    BY DEF ExportPut, IInv, TypeOK
  <1>4. Key(i)[2] = version[i]
    BY DEF Key
  <1>5. NotOlderThanVersion'
    BY <1>1, <1>2, <1>3, <1>4 DEF IInv, NotOlderThanVersion, AsOf
  <1>6. Goto(i, "done") \/ Goto(i, "load") \/ Goto(i, "errored")
    BY ThrowGoes DEF ExportPut, IInv
  <1>7. \A j \in Exports : pc'[j] = "put" => pc[j] = "put"
    BY <1>6 DEF Goto, IInv, TypeOK
  <1>8. AskedBorne'
    BY <1>2, <1>7 DEF IInv, AskedBorne
  <1>9. RowBorne'
    BY <1>2 DEF IInv, RowBorne
  <1> QED BY <1>5, <1>8, <1>9

LEMMA DeleteObjectsKeeps ==
  ASSUME IInv, DeleteObjects
  PROVE  RowBorne' /\ AskedBorne' /\ NotOlderThanVersion'
  <1>1. UNCHANGED <<updatedAt, data, borne, pc, version, held>>
    BY DEF DeleteObjects, row, task
  <1>2. RowBorne' /\ AskedBorne'
    BY <1>1 DEF IInv, RowBorne, AskedBorne
  <1>3. \A k \in Owners \X Stamps : objects'[k] # NONE => objects'[k] = objects[k]
    BY DEF DeleteObjects, Without
  <1>4. NotOlderThanVersion'
    BY <1>1, <1>3 DEF IInv, NotOlderThanVersion
  <1> QED BY <1>2, <1>4

LEMMA NextKeeps ==
  ASSUME IInv, [Next]_vars
  PROVE  IInv'
  <1>1. TypeOK'
    BY NextTyped DEF IInv
  <1>2. ASSUME UNCHANGED <<data, updatedAt, borne, task, objects>>
        PROVE  RowBorne' /\ AskedBorne' /\ NotOlderThanVersion'
    <2>1. RowBorne'
      BY <1>2 DEF IInv, RowBorne
    <2>2. data' \in Nat /\ data <= data' /\ borne \subseteq borne'
      BY <1>2 DEF IInv, TypeOK
    <2> QED BY <1>2, <2>1, <2>2, RowGrows DEF IInv
  <1>3. CASE Tick \/ DeleteRow \/ DeleteCrash \/ \E o \in Owners : DeleteRead(o)
    BY <1>1, <1>2, <1>3 DEF Tick, DeleteRow, DeleteCrash, DeleteRead, row, IInv
  <1>4. ASSUME NEW i \in Exports, ExportCheck(i) \/ ExportAttemptFails(i)
        PROVE  IInv'
    <2>1. UNCHANGED <<row, objects>> /\ UNCHANGED <<version, held>>
      BY <1>4 DEF ExportCheck, ExportAttemptFails
    <2>2. Goto(i, "idle") \/ Goto(i, "load") \/ Goto(i, "errored")
      BY <1>4, ThrowGoes DEF ExportCheck, ExportAttemptFails, IInv
    <2> QED BY <1>1, <2>1, <2>2, OtherExports DEF IInv
  <1>5. CASE DeleteObjects
    BY <1>1, <1>5, DeleteObjectsKeeps DEF IInv
  <1>6. CASE UNCHANGED vars
    BY <1>1, <1>2, <1>6 DEF vars, row, IInv
  <1> QED BY <1>1, <1>3, <1>4, <1>5, <1>6, WriterKeeps, RequestKeeps, LoadKeeps, PutKeeps
          DEF Next, Run, IInv

(* An export holds every edit the row held when it first bore the stamp the *)
(* export is stored under, whatever was edited, linked, repeated or lost    *)
(* between the request and the rendering (workflows/export-workflow.ts).    *)
THEOREM ExportsNotOlder == SafetySpec => []NotOlderThanVersion
  <1>1. IInv /\ [Next]_vars => IInv'
    BY NextKeeps
  <1>2. IInv => NotOlderThanVersion
    BY DEF IInv
  <1> QED BY InitIInv, <1>1, <1>2, PTL DEF SafetySpec

------------------------------------------------------------------------------
(* An accepted export comes to an end                                      *)

(* How many statements the workflow of an export may still run, at most *)
Remaining(i) ==
  CASE pc[i] \in {"idle", "check"}   -> 2 * Retries + 3
    [] pc[i] = "load"                -> 2 * (Retries - attempt[i]) + 2
    [] pc[i] = "put"                 -> 2 * (Retries - attempt[i]) + 1
    [] pc[i] \in {"done", "errored"} -> 0

Works(i) == Run(i) \/ ExportAttemptFails(i)

Descends(i) ==
  /\ Remaining(i) \in Nat /\ Remaining(i)' \in Nat /\ Remaining(i)' <= Remaining(i)
  /\ Works(i) => Remaining(i)' < Remaining(i)

LEMMA WorksGoes ==
  ASSUME TypeOK, NEW i \in Exports, Works(i)
  PROVE  /\ pc[i] \in {"load", "put"}
         /\ \/ /\ pc[i] = "load" /\ Goto(i, "put") /\ UNCHANGED attempt
            \/ Goto(i, "done") /\ UNCHANGED attempt
            \/ attempt[i] < Retries /\ Goto(i, "load") /\ attempt' = [attempt EXCEPT ![i] = @ + 1]
            \/ Goto(i, "errored") /\ UNCHANGED attempt
  BY DEF Works, Run, ExportLoad, ExportPut, ExportAttemptFails, Throw

LEMMA RemainingStays ==
  ASSUME TypeOK, NEW i \in Exports, pc'[i] = pc[i], attempt'[i] = attempt[i], ~Works(i)
  PROVE  Descends(i)
  <1>1. attempt[i] \in 0..Retries /\ Retries \in Nat
        /\ pc[i] \in {"idle", "check", "load", "put", "done", "errored"}
    BY ExportAssumption DEF TypeOK
  <1>2. Remaining(i) \in Nat /\ Remaining(i)' = Remaining(i)
    BY <1>1 DEF Remaining
  <1> QED BY <1>2 DEF Descends

LEMMA WorksDescends ==
  ASSUME TypeOK, NEW i \in Exports, Works(i)
  PROVE  Descends(i)
  <1>1. attempt[i] \in 0..Retries /\ Retries \in Nat /\ pc[i] \in {"load", "put"}
    BY ExportAssumption, WorksGoes DEF TypeOK
  <1>2. \/ pc[i] = "load" /\ pc'[i] = "put" /\ attempt'[i] = attempt[i]
        \/ pc'[i] \in {"done", "errored"}
        \/ attempt[i] < Retries /\ pc'[i] = "load" /\ attempt'[i] = attempt[i] + 1
    BY WorksGoes DEF Goto, TypeOK
  <1>3. Remaining(i) \in Nat /\ Remaining(i)' \in Nat /\ Remaining(i)' < Remaining(i)
    <2>1. CASE pc[i] = "load" /\ pc'[i] = "put" /\ attempt'[i] = attempt[i]
      BY <1>1, <2>1 DEF Remaining
    <2>2. CASE pc'[i] \in {"done", "errored"}
      BY <1>1, <2>2 DEF Remaining
    <2>3. CASE attempt[i] < Retries /\ pc'[i] = "load" /\ attempt'[i] = attempt[i] + 1
      BY <1>1, <2>3 DEF Remaining
    <2> QED BY <1>2, <2>1, <2>2, <2>3
  <1> QED BY <1>3 DEF Descends

LEMMA RequestDescends ==
  ASSUME TypeOK, NEW i \in Exports, ExportCheck(i) \/ \E o \in Owners : ExportRequest(i, o)
  PROVE  Descends(i)
  <1>1. attempt[i] \in 0..Retries /\ Retries \in Nat /\ pc[i] \in {"idle", "check"}
        /\ pc'[i] \in {"idle", "check", "load"} /\ attempt'[i] = attempt[i]
    BY ExportAssumption DEF TypeOK, ExportCheck, ExportRequest, Goto
  <1>2. ~Works(i)
    BY <1>1, WorksGoes
  <1>3. Remaining(i) \in Nat /\ Remaining(i)' \in Nat /\ Remaining(i)' <= Remaining(i)
    BY <1>1 DEF Remaining
  <1> QED BY <1>2, <1>3 DEF Descends

(* The workflow of an export runs at most 2 * (Retries + 1) statements, whatever fails and
   however the row changes owner, is edited or deleted: the safety half of ExportFinishes. *)
THEOREM ExportStepsBounded == SafetySpec => [][\A i \in Exports : Descends(i)]_vars
  <1>1. TypeOK /\ [Next]_vars => [\A i \in Exports : Descends(i)]_vars
    <2> SUFFICES ASSUME TypeOK, Next, NEW i \in Exports PROVE Descends(i)
      OBVIOUS
    <2>1. CASE Works(i) \/ ExportCheck(i) \/ \E o \in Owners : ExportRequest(i, o)
      BY <2>1, WorksDescends, RequestDescends
    <2>2. CASE ~(Works(i) \/ ExportCheck(i) \/ \E o \in Owners : ExportRequest(i, o))
      <3>1. ASSUME NEW j \in Exports \ {i},
                   Works(j) \/ ExportCheck(j) \/ \E o \in Owners : ExportRequest(j, o)
            PROVE  pc'[i] = pc[i] /\ attempt'[i] = attempt[i]
        <4>1. CASE Works(j)
          BY <3>1, <4>1, WorksGoes DEF Goto, TypeOK
        <4>2. CASE ExportCheck(j) \/ \E o \in Owners : ExportRequest(j, o)
          BY <3>1, <4>2 DEF ExportCheck, ExportRequest, Goto, TypeOK
        <4> QED BY <3>1, <4>1, <4>2
      <3>2. pc'[i] = pc[i] /\ attempt'[i] = attempt[i]
        BY <2>2, <3>1 DEF Next, Works, Tick, Begin, EditField, Link, DeleteRead, DeleteObjects,
           DeleteRow, DeleteCrash, task
      <3> QED BY <2>2, <3>2, RemainingStays
    <2> QED BY <2>1, <2>2
  <1> QED BY <1>1, ExportTypeCorrect, PTL DEF SafetySpec
==============================================================================
