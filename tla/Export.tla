------------------------------- MODULE Export --------------------------------
(***************************************************************************)
(* Exports of one paid extraction: the request handler                     *)
(* (routes/extractions.ts), the workflow that renders an export            *)
(* (workflows/export-workflow.ts), the task status (repositories/tasks.ts) *)
(* and the transactions that change the row meanwhile.                     *)
(*                                                                         *)
(* An export is stored under a key made of its owner's prefix and a        *)
(* version, the row's updated_at in milliseconds.  NOW() is the start of a *)
(* transaction, so updated_at is what a transaction read off the clock     *)
(* when it began, not when it got the row lock.                            *)
(***************************************************************************)
EXTENDS Naturals

CONSTANTS
  Guest, User,   \* the anonymous session and the account
  Exports,       \* export requests
  Writers,       \* transactions that change the row
  NONE,          \* no object
  Retries,       \* how often the platform repeats a step that threw (external)
  MaxTime,       \* bound: milliseconds
  MaxFaults      \* bound: transient errors, lost answers and crashes

ASSUME ExportAssumption ==
  /\ Guest # User /\ NONE \notin Nat
  /\ Retries \in Nat /\ MaxTime \in Nat /\ MaxFaults \in Nat

Owners == {Guest, User}
Stamps == 0..MaxTime

VARIABLES
  data,          \* extracted_data, as the number of edits in it
  updatedAt,     \* updated_at, to the millisecond
  owner,         \* user_id, or anonymous_session_id
  deleted,       \* deleted_at is set
  borne,         \* history: the stamps the row has borne, each with its data then
  clock,
  txn,           \* [Writers -> what it is about to write, and when it began]
  pc,            \* the next statement of an export's handler, then of its workflow
  asker,         \* who asked for it
  version,       \* the version it was asked for
  held,          \* the data its workflow has read
  attempt,       \* repetitions of its step
  objects,       \* R2: [Owners \X Stamps -> the data of the export, or NONE]
  del,           \* DELETE /extractions/{id}: its next statement and its owner
  faults

row  == <<data, updatedAt, owner, deleted, borne>>
task == <<pc, asker, version, held, attempt>>
vars == <<row, clock, txn, task, objects, del, faults>>

Began(kind) == [kind |-> kind, at |-> clock]
NoTxn == [kind |-> "none", at |-> 0]
NoDelete == [pc |-> "idle", by |-> Guest]

Init ==
  /\ data = 0 /\ updatedAt = 0 /\ owner \in Owners /\ deleted = FALSE
  /\ borne = {<<0, 0>>}
  /\ clock = 0
  /\ txn = [t \in Writers |-> NoTxn]
  /\ pc = [i \in Exports |-> "idle"]
  /\ asker = [i \in Exports |-> Guest]
  /\ version = [i \in Exports |-> 0]
  /\ held = [i \in Exports |-> 0]
  /\ attempt = [i \in Exports |-> 0]
  /\ objects = [k \in Owners \X Stamps |-> NONE]
  /\ del = NoDelete
  /\ faults = 0

Fault == faults < MaxFaults /\ faults' = faults + 1
Goto(i, step) == pc' = [pc EXCEPT ![i] = step]

Tick ==
  /\ clock < MaxTime
  /\ clock' = clock + 1
  /\ UNCHANGED <<row, txn, task, objects, del, faults>>

------------------------------------------------------------------------------
(* Transactions on the row.  Their writes, made under the row lock, show   *)
(* at COMMIT, and the trigger stamps the row with NOW().                   *)

Begin(t) ==
  /\ txn[t] = NoTxn
  /\ \E kind \in {"edit", "link"} : txn' = [txn EXCEPT ![t] = Began(kind)]
  /\ UNCHANGED <<row, clock, task, objects, del, faults>>

Stamp(t, d) ==
  /\ data' = d
  /\ updatedAt' = txn[t].at
  /\ borne' = borne \cup {<<txn[t].at, d>>}

\* editExtractionField: throws when the row is not the user's any more.
EditField(t) ==
  /\ txn[t].kind = "edit"
  /\ IF owner = User /\ ~deleted
       THEN Stamp(t, data + 1) /\ UNCHANGED <<owner, deleted>>
       ELSE UNCHANGED row
  /\ txn' = [txn EXCEPT ![t] = [kind |-> "done", at |-> 0]]
  /\ UNCHANGED <<clock, task, objects, del, faults>>

\* linkAnonymousSession: the row gets a new owner and a new stamp, and its exports stay
\* under the prefix of the session.
Link(t) ==
  /\ txn[t].kind = "link"
  /\ IF owner = Guest
       THEN owner' = User /\ Stamp(t, data) /\ UNCHANGED deleted
       ELSE UNCHANGED row
  /\ txn' = [txn EXCEPT ![t] = [kind |-> "done", at |-> 0]]
  /\ UNCHANGED <<clock, task, objects, del, faults>>

------------------------------------------------------------------------------
(* GET or POST /extractions/{id}/export/{format}                           *)

\* The version of the request is that of the row it has just read.
ExportRequest(i, o) ==
  /\ pc[i] = "idle" /\ owner = o /\ ~deleted
  /\ Goto(i, "check")
  /\ asker' = [asker EXCEPT ![i] = o]
  /\ version' = [version EXCEPT ![i] = updatedAt]
  /\ UNCHANGED <<row, clock, txn, held, attempt, objects, del, faults>>

Key(i) == <<asker[i], version[i]>>

\* An export that exists is answered at once; otherwise a workflow is created, even if
\* another one is already rendering the same key.
ExportCheck(i) ==
  /\ pc[i] = "check"
  /\ \/ objects[Key(i)] # NONE /\ Goto(i, "idle") /\ UNCHANGED faults
     \/ objects[Key(i)] = NONE /\ Goto(i, "load") /\ UNCHANGED faults
     \/ Goto(i, "idle") /\ Fault
  /\ UNCHANGED <<row, clock, txn, asker, version, held, attempt, objects, del>>

\* Variant: a failed attempt is final.
Throw_GivesUp(i) ==
  /\ Goto(i, "errored")
  /\ UNCHANGED attempt

\* Variant: one repetition more than the limit.
Throw_OnceMore(i) ==
  IF attempt[i] <= Retries
    THEN Goto(i, "load") /\ attempt' = [attempt EXCEPT ![i] = @ + 1]
    ELSE Goto(i, "errored") /\ UNCHANGED attempt

Throw(i) ==
  IF attempt[i] < Retries
    THEN Goto(i, "load") /\ attempt' = [attempt EXCEPT ![i] = @ + 1]
    ELSE Goto(i, "errored") /\ UNCHANGED attempt

\* The workflow reads the row as it is now, for the owner who asked.
ExportLoad(i) ==
  /\ pc[i] = "load"
  /\ IF owner = asker[i] /\ ~deleted
       THEN Goto(i, "put") /\ held' = [held EXCEPT ![i] = data] /\ UNCHANGED attempt
       ELSE Throw(i) /\ UNCHANGED held
  /\ UNCHANGED <<row, clock, txn, asker, version, objects, del, faults>>

\* Variant: the key is made of the version the row has when the export is stored.
ExportPut_CurrentVersion(i) ==
  /\ pc[i] = "put"
  /\ objects' = [objects EXCEPT ![<<asker[i], updatedAt>>] = held[i]]
  /\ \/ Goto(i, "done") /\ UNCHANGED <<attempt, faults>>
     \/ Throw(i) /\ Fault
  /\ UNCHANGED <<row, clock, txn, asker, version, held, del>>

ExportPut(i) ==
  /\ pc[i] = "put"
  /\ objects' = [objects EXCEPT ![Key(i)] = held[i]]
  /\ \/ Goto(i, "done") /\ UNCHANGED <<attempt, faults>>
     \/ Throw(i) /\ Fault
  /\ UNCHANGED <<row, clock, txn, asker, version, held, del>>

ExportAttemptFails(i) ==
  /\ pc[i] \in {"load", "put"}
  /\ Throw(i) /\ Fault
  /\ UNCHANGED <<row, clock, txn, asker, version, held, objects, del>>

\* getExportTaskStatus: all it looks at is whether the object exists.
TaskStatus(i) == IF objects[Key(i)] = NONE THEN "generating" ELSE "complete"

------------------------------------------------------------------------------
(* DELETE /extractions/{id}                                                *)

Without(o) == [k \in Owners \X Stamps |-> IF k[1] = o THEN NONE ELSE objects[k]]

DeleteRead(o) ==
  /\ del.pc = "idle" /\ owner = o /\ ~deleted
  /\ del' = [pc |-> "objects", by |-> o]
  /\ UNCHANGED <<row, clock, txn, task, objects, faults>>

DeleteObjects ==
  /\ del.pc = "objects"
  /\ objects' = Without(del.by)
  /\ del' = [del EXCEPT !.pc = "row"]
  /\ UNCHANGED <<row, clock, txn, task, faults>>

\* (The stamp of a deleted row is never read again.)
DeleteRow ==
  /\ del.pc = "row"
  /\ deleted' = (deleted \/ owner = del.by)
  /\ del' = NoDelete
  /\ UNCHANGED <<data, updatedAt, owner, borne, clock, txn, task, objects, faults>>

DeleteCrash ==
  /\ del.pc # "idle" /\ Fault
  /\ del' = NoDelete
  /\ UNCHANGED <<row, clock, txn, task, objects>>

Run(i) == ExportLoad(i) \/ ExportPut(i)

Next ==
  \/ Tick
  \/ \E t \in Writers : Begin(t) \/ EditField(t) \/ Link(t)
  \/ \E i \in Exports :
       \/ \E o \in Owners : ExportRequest(i, o)
       \/ ExportCheck(i) \/ Run(i) \/ ExportAttemptFails(i)
  \/ (\E o \in Owners : DeleteRead(o)) \/ DeleteObjects \/ DeleteRow \/ DeleteCrash

SafetySpec == Init /\ [][Next]_vars

\* A durable workflow runs on; requests, edits, deletions and faults may never happen.
Spec == SafetySpec /\ \A i \in Exports : WF_vars(Run(i))

------------------------------------------------------------------------------
(* Properties                                                              *)

\* Every variable has its type; in particular a version is always a time of the clock.
TypeOK ==
  /\ data \in Nat /\ updatedAt \in Stamps /\ owner \in Owners /\ deleted \in BOOLEAN
  /\ borne \subseteq Stamps \X Nat
  /\ clock \in Stamps
  /\ txn \in [Writers -> [kind : {"none", "edit", "link", "done"}, at : Stamps]]
  /\ pc \in [Exports -> {"idle", "check", "load", "put", "done", "errored"}]
  /\ asker \in [Exports -> Owners] /\ version \in [Exports -> Stamps]
  /\ held \in [Exports -> Nat] /\ attempt \in [Exports -> 0..Retries]
  /\ objects \in [Owners \X Stamps -> Nat \cup {NONE}]
  /\ del \in [pc : {"idle", "objects", "row"}, by : Owners]
  /\ faults \in 0..MaxFaults

\* An export is never older than its version: it holds every edit the row held when it
\* first bore that stamp, whatever was edited, linked or retried between the request and
\* the rendering.  So as long as no two changes of the row share a millisecond, the
\* export under the row's current version is that of the current data.
NotOlderThanVersion ==
  \A k \in Owners \X Stamps :
    objects[k] # NONE =>
      objects[k] <= data /\ \E d \in 0..objects[k] : <<k[2], d>> \in borne

\* An accepted export is there in the end, unless the row was deleted or the guest who
\* asked for it linked the session meanwhile.
ExportFinishes ==
  \A i \in Exports : pc[i] = "load" ~> (TaskStatus(i) = "complete" \/ deleted \/ owner # asker[i])
==============================================================================
