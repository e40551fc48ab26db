-------------------------------- MODULE Queues --------------------------------
(***************************************************************************)
(* The two queues of the API worker and their consumers: e-mails about a   *)
(* completed extraction (queues/email-consumer.ts) and the cleanup of a    *)
(* deleted account (queues/cleanup-consumer.ts).                           *)
(*                                                                         *)
(* A consumer is invoked with a batch of messages and takes them one after *)
(* the other: read the row, do the work, ack.  The first exception leaves  *)
(* the loop, so the rest of the batch comes back with it, and each of them *)
(* has used up one of its deliveries.  An ack counts when the invocation   *)
(* ends, with or without an exception; an evicted invocation acked         *)
(* nothing.  The rows a handler reads may change before and after it.      *)
(***************************************************************************)
EXTENDS Naturals, FiniteSets

CONSTANTS
  Users, Guests,   \* accounts and anonymous sessions
  Extractions,     \* rows of extractions
  NotifyEmail,     \* extractions with notify_email set: no statement of the worker sets it
  Consumers,       \* concurrent invocations of the queue handler
  NONE,
  MaxBatch,        \* max_batch_size
  MaxRetries,      \* max_retries of wrangler.jsonc
  MaxFaults        \* bound: exceptions and evictions

Owners == Users \cup Guests
EmailKinds == {"extraction-complete", "cam-flags", "anonymous-notify"}
Messages == [kind : EmailKinds, of : Extractions] \cup [kind : {"cleanup"}, of : Users]
Objects == [ext : Extractions, kind : {"recorded", "export", "late"}, prefix : Owners]

ASSUME QueuesAssumption ==
  /\ Users \cap Guests = {}
  /\ NotifyEmail \subseteq Extractions
  /\ NONE \notin Messages
  /\ MaxBatch \in Nat /\ MaxRetries \in Nat /\ MaxFaults \in Nat

VARIABLES
  uploader,   \* the owner at upload, never changed
  owner,      \* extractions.user_id, or anonymous_session_id while it is NULL
  complete,   \* extractions with status complete
  deleted,    \* extractions with deleted_at set
  closed,     \* users with deleted_at set
  stored,     \* R2: objects of the extractions, by kind and the owner in the key's prefix
  place,      \* where a message is: not sent, in the queue, in a batch, acked or dead
  attempts,   \* how often it was delivered
  left, done, \* the batch of a consumer: what it has not acked, what it has
  sending,    \* the message it is about to send the mail of, its row having been read
  mails,      \* Resend: mails accepted for a message
  faults,     \* exceptions and evictions so far
  losses      \* those of them that lost the ack of a finished message

rows  == <<uploader, owner, complete, deleted, closed>>
queue == <<place, attempts>>
batch == <<left, done, sending>>
vars  == <<rows, stored, queue, batch, mails, faults, losses>>

Init ==
  /\ uploader \in [Extractions -> Owners] /\ owner = uploader
  /\ complete = {} /\ deleted = {} /\ closed = {}
  /\ stored = {[ext |-> x, kind |-> "recorded", prefix |-> uploader[x]] : x \in Extractions}
  /\ place = [m \in Messages |-> "none"]
  /\ attempts = [m \in Messages |-> 0]
  /\ left = [c \in Consumers |-> {}]
  /\ done = [c \in Consumers |-> {}]
  /\ sending = [c \in Consumers |-> NONE]
  /\ mails = [m \in Messages |-> 0]
  /\ faults = 0 /\ losses = 0

------------------------------------------------------------------------------
(* What happens to the rows meanwhile.                                     *)

\* completeExtraction: three sends, each of which may be rejected (allSettled).
Complete(x) ==
  /\ x \notin complete \cup deleted
  /\ complete' = complete \cup {x}
  /\ \E sent \in SUBSET EmailKinds :
       place' = [m \in Messages |-> IF m.kind \in sent /\ m.of = x THEN "queue" ELSE place[m]]
  /\ UNCHANGED <<uploader, owner, deleted, closed, stored, attempts, batch, mails, faults, losses>>

\* An export is stored under the prefix of the owner who asked for it: the present one, or
\* the guest of before.  Its workflow read the row some time ago; late: it is deleted by now.
PutExport(x) ==
  /\ x \in complete
  /\ \E kind \in {IF x \in deleted THEN "late" ELSE "export"}, prefix \in {owner[x], uploader[x]} :
       stored' = stored \cup {[ext |-> x, kind |-> kind, prefix |-> prefix]}
  /\ UNCHANGED <<rows, queue, batch, mails, faults, losses>>

Link(s, u) ==
  /\ owner' = [x \in Extractions |-> IF owner[x] = s THEN u ELSE owner[x]]
  /\ UNCHANGED <<uploader, complete, deleted, closed, stored, queue, batch, mails, faults, losses>>

DeleteAccount(u) ==
  /\ u \notin closed
  /\ closed' = closed \cup {u}
  /\ deleted' = deleted \cup {x \in Extractions : owner[x] = u}
  /\ UNCHANGED <<uploader, owner, complete, stored, queue, batch, mails, faults, losses>>

\* After the COMMIT; lost with the worker, in which case it is never sent.
SendCleanup(u) ==
  LET m == [kind |-> "cleanup", of |-> u] IN
  /\ u \in closed /\ place[m] = "none"
  /\ place' = [place EXCEPT ![m] = "queue"]
  /\ UNCHANGED <<rows, stored, attempts, batch, mails, faults, losses>>

------------------------------------------------------------------------------
(* Deliveries                                                              *)

SameQueue(B) == \A m, n \in B : m.kind = "cleanup" <=> n.kind = "cleanup"

StartBatch(c, B) ==
  /\ left[c] = {} /\ done[c] = {}
  /\ B # {} /\ Cardinality(B) <= MaxBatch /\ SameQueue(B)
  /\ \A m \in B : place[m] = "queue"
  /\ left' = [left EXCEPT ![c] = B]
  /\ place' = [m \in Messages |-> IF m \in B THEN "batch" ELSE place[m]]
  /\ attempts' = [m \in Messages |-> IF m \in B THEN attempts[m] + 1 ELSE attempts[m]]
  /\ UNCHANGED <<rows, stored, done, sending, mails, faults, losses>>

\* Variant: a message that was delivered max_retries times is given up at once.
Return_OffByOne(c, acked) ==
  /\ place' = [m \in Messages |->
                 IF m \in acked THEN "acked"
                 ELSE IF m \notin left[c] \cup done[c] THEN place[m]
                 ELSE IF attempts[m] >= MaxRetries THEN "dead" ELSE "queue"]
  /\ left' = [left EXCEPT ![c] = {}]
  /\ done' = [done EXCEPT ![c] = {}]
  /\ sending' = [sending EXCEPT ![c] = NONE]
  /\ UNCHANGED attempts

\* The invocation of c is over and these messages of its batch count as acked; the others
\* are delivered again, or are dead letters after max_retries repetitions.
Return(c, acked) ==
  /\ place' = [m \in Messages |->
                 IF m \in acked THEN "acked"
                 ELSE IF m \notin left[c] \cup done[c] THEN place[m]
                 ELSE IF attempts[m] > MaxRetries THEN "dead" ELSE "queue"]
  /\ left' = [left EXCEPT ![c] = {}]
  /\ done' = [done EXCEPT ![c] = {}]
  /\ sending' = [sending EXCEPT ![c] = NONE]
  /\ UNCHANGED attempts

Fault == faults < MaxFaults /\ faults' = faults + 1

\* Variant: the batch is acked as a whole when the handler returns.
Throw_WholeBatch(c) == Fault /\ Return(c, {})

\* An exception leaves the handler.
Throw(c) == Fault /\ Return(c, done[c])

\* Variant: acks the message whose mail is being sent, also when there is none.
Ack_Current(c, m) ==
  /\ left' = [left EXCEPT ![c] = @ \ {m}]
  /\ done' = [done EXCEPT ![c] = @ \cup {sending[c]}]
  /\ sending' = [sending EXCEPT ![c] = NONE]
  /\ UNCHANGED queue

Ack(c, m) ==
  /\ left' = [left EXCEPT ![c] = @ \ {m}]
  /\ done' = [done EXCEPT ![c] = @ \cup {m}]
  /\ sending' = [sending EXCEPT ![c] = NONE]
  /\ UNCHANGED queue

EndBatch(c) ==
  /\ left[c] = {} /\ done[c] # {}
  /\ Return(c, done[c])
  /\ UNCHANGED <<rows, stored, mails, faults, losses>>

\* The isolate is evicted: the acks of this invocation are lost with it.
Evict(c) ==
  /\ left[c] \cup done[c] # {}
  /\ Fault /\ losses' = losses + 1
  /\ Return(c, {})
  /\ UNCHANGED <<rows, stored, mails>>

------------------------------------------------------------------------------
(* The handlers                                                            *)

\* flagged: show_camaudit is set and red_flags is not empty, after whatever edits were made.
\* The row says whom to write to: the account for the first two kinds, the address a guest
\* left for the third.  deleted_at is not looked at, neither of the row nor of the user.
Addressed(m, flagged) ==
  CASE m.kind = "extraction-complete" -> owner[m.of] \in Users
    [] m.kind = "cam-flags"           -> owner[m.of] \in Users /\ flagged
    [] m.kind = "anonymous-notify"    -> owner[m.of] \in Guests /\ m.of \in NotifyEmail
    [] m.kind = "cleanup"             -> FALSE

ReadRow(c, m) ==
  /\ m \in left[c] /\ m.kind \in EmailKinds /\ sending[c] = NONE
  /\ \E flagged \in BOOLEAN :
       IF Addressed(m, flagged)
         THEN sending' = [sending EXCEPT ![c] = m] /\ UNCHANGED <<left, done, queue>>
         ELSE Ack(c, m)
  /\ UNCHANGED <<rows, stored, mails, faults, losses>>

\* The database is out of reach, for any kind of message.
ReadFails(c) ==
  /\ left[c] # {} /\ sending[c] = NONE
  /\ Throw(c)
  /\ UNCHANGED <<rows, stored, mails, losses>>

Accepted(m) == mails' = [mails EXCEPT ![m] = @ + 1]

\* Variant: a refused mail is logged and the message acked.
SendMail_Swallow(c) ==
  LET m == sending[c] IN
  /\ m # NONE
  /\ \/ Accepted(m) /\ Ack(c, m) /\ UNCHANGED <<faults, losses>>
     \/ Fault /\ Ack(c, m) /\ UNCHANGED <<mails, losses>>
  /\ UNCHANGED <<rows, stored>>

\* Variant: a refused mail is tried again in place, without an exception.
SendMail_InPlace(c) ==
  LET m == sending[c] IN
  /\ m # NONE
  /\ \/ Accepted(m) /\ Ack(c, m)
     \/ sending' = [sending EXCEPT ![c] = NONE] /\ UNCHANGED <<left, done, queue, mails>>
  /\ UNCHANGED <<rows, stored, faults, losses>>

\* sendEmail: accepted, refused (an exception), or accepted and the answer lost.
SendMail(c) ==
  LET m == sending[c] IN
  /\ m # NONE
  /\ \/ Accepted(m) /\ Ack(c, m) /\ UNCHANGED <<faults, losses>>
     \/ Throw(c) /\ UNCHANGED <<mails, losses>>
     \/ Accepted(m) /\ Throw(c) /\ losses' = losses + 1
  /\ UNCHANGED <<rows, stored>>

\* Variant: what is listed under the user's prefix, without the keys that the rows record.
ToDelete_OwnPrefix(u) ==
  {o \in stored : o.ext \in deleted /\ owner[o.ext] = u /\ o.prefix = u}

\* cleanupUserObjects: the recorded keys, wherever they are, and the exports under the
\* user's own prefix, of all extractions deleted with the account.
ToDelete(u) ==
  {o \in stored : /\ o.ext \in deleted /\ owner[o.ext] = u
                  /\ (o.kind = "recorded" \/ o.prefix = u)}

\* Every deletion is attempted; if any of them failed the handler throws in the end.
CleanupObjects(c, m) ==
  /\ m \in left[c] /\ m.kind = "cleanup"
  /\ \E failures \in SUBSET ToDelete(m.of) :
       /\ stored' = (stored \ ToDelete(m.of)) \cup failures
       /\ IF failures = {} THEN Ack(c, m) /\ UNCHANGED faults ELSE Throw(c)
  /\ UNCHANGED <<rows, mails, losses>>

Rows ==
  \/ \E x \in Extractions : Complete(x) \/ PutExport(x)
  \/ \E s \in Guests, u \in Users : Link(s, u)
  \/ \E u \in Users : DeleteAccount(u) \/ SendCleanup(u)

Deliver(c) == \E B \in SUBSET Messages : StartBatch(c, B)

Handle(c) ==
  \/ \E m \in Messages : ReadRow(c, m) \/ CleanupObjects(c, m)
  \/ SendMail(c)
  \/ EndBatch(c)

Break(c) == ReadFails(c) \/ Evict(c)

Next == Rows \/ \E c \in Consumers : Deliver(c) \/ Handle(c) \/ Break(c)

SafetySpec == Init /\ [][Next]_vars

\* The platform delivers what is in the queue and lets a handler run.
Spec == SafetySpec /\ WF_vars(\E c \in Consumers : Deliver(c) \/ Handle(c))
------------------------------------------------------------------------------
(* Properties                                                              *)

\* Every variable has its type; a consumer never holds more than one batch.
TypeOK ==
  /\ uploader \in [Extractions -> Owners] /\ owner \in [Extractions -> Owners]
  /\ complete \subseteq Extractions
  /\ deleted \subseteq Extractions /\ closed \subseteq Users
  /\ stored \subseteq Objects
  /\ place \in [Messages -> {"none", "queue", "batch", "acked", "dead"}]
  /\ attempts \in [Messages -> Nat] /\ mails \in [Messages -> Nat]
  /\ left \in [Consumers -> SUBSET Messages] /\ done \in [Consumers -> SUBSET Messages]
  /\ sending \in [Consumers -> Messages \cup {NONE}]
  /\ faults \in 0..MaxFaults /\ losses \in 0..faults

\* A mail is repeated only when the ack of that delivery was really lost: the refusal of
\* one mail does not repeat the others of its batch (ack per message, not per batch).
RepeatedOnlyAfterLoss == \A m \in Messages : mails[m] <= 1 + losses

\* A message is given up only after max_retries + 1 failures.  They need not be its own: an
\* exception of any message of its batch counts, even if it was never looked at itself.
DeadOnlyAfterRetries ==
  \A m \in Messages : place[m] = "dead" => faults > MaxRetries

\* The completion mail of a user's own upload is acked only after it was accepted, whatever
\* became of the row, the account and the rest of the batch meanwhile.  (Not so for a guest:
\* linked before the delivery of one message and after that of the other, neither is sent.)
UploadersAreMailed ==
  \A m \in Messages :
    /\ m.kind = "extraction-complete" /\ uploader[m.of] \in Users
    /\ place[m] = "acked"
    => mails[m] > 0

\* Of the extractions deleted with an account an acked cleanup has left no recorded object,
\* also of a lease a guest uploaded, and no export under the account's own prefix, although
\* deletions fail one by one and the message is delivered again.  All it can have left are
\* exports under the prefix of the guest who had the lease before it was linked, and exports
\* stored after the deletion.
CleanedBeforeAck ==
  \A u \in Users : place[[kind |-> "cleanup", of |-> u]] = "acked" =>
    \A o \in stored : o.ext \in deleted /\ owner[o.ext] = u =>
      \/ o.kind = "late"
      \/ o.kind = "export" /\ o.prefix = uploader[o.ext] /\ o.prefix \in Guests

\* The queues run empty: no message goes round for ever, and none is left in a batch that
\* nobody works on.
QueuesDrain == []<>(\A m \in Messages : place[m] \notin {"queue", "batch"})
==============================================================================
