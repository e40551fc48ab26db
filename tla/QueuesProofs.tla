----------------------------- MODULE QueuesProofs -----------------------------
(***************************************************************************)
(* Proofs about Queues, for any number of accounts, extractions, consumers, *)
(* retries and faults.  The invariant says, for a message in any place,    *)
(* how many of its deliveries and mails are accounted for by faults.       *)
(***************************************************************************)
EXTENDS Queues, TLAPS

Held(c) == left[c] \cup done[c]

\* A message is in at most one batch, and only while its place says so.
BatchesOK ==
  /\ \A c \in Consumers :
       /\ left[c] \cap done[c] = {}
       /\ sending[c] # NONE => sending[c] \in left[c] /\ sending[c].kind # "cleanup"
       /\ \A m \in Held(c) : place[m] = "batch"
  /\ \A c, d \in Consumers : c # d => Held(c) \cap Held(d) = {}

\* Nothing is sent about an extraction before it is complete, or an account before it is closed.
UnsentOK ==
  \A m \in Messages :
    /\ m.kind \in EmailKinds /\ m.of \notin complete => place[m] = "none"
    /\ m.kind = "cleanup" /\ m.of \notin closed => place[m] = "none"

Finished(m) == place[m] = "acked" \/ \E c \in Consumers : m \in done[c]

\* A mail accepted for a message that is not finished was paid for with a lost ack.
MailsOK ==
  \A m \in Messages :
    /\ mails[m] <= 1 + losses
    /\ ~Finished(m) => mails[m] <= losses

\* Every delivery but the present one ended in a fault.
AttemptsOK ==
  \A m \in Messages :
    /\ attempts[m] <= 1 + faults
    /\ place[m] \in {"none", "queue"} => attempts[m] <= faults
    /\ place[m] = "dead" => faults > MaxRetries

UploadersOK ==
  /\ \A x \in Extractions : uploader[x] \in Users => owner[x] \in Users
  /\ \A m \in Messages :
       m.kind = "extraction-complete" /\ uploader[m.of] \in Users /\ Finished(m) => mails[m] > 0

Cleanup(u) == [kind |-> "cleanup", of |-> u]

\* What an account's cleanup leaves of an extraction deleted with it.
Spared(o) ==
  \/ o.kind = "late"
  \/ o.kind = "export" /\ o.prefix = uploader[o.ext] /\ o.prefix \in Guests

Clean(u) == \A o \in stored : o.ext \in deleted /\ owner[o.ext] = u => Spared(o)

\* A link takes a lease from the guest who uploaded it; an object that is not a recorded one
\* is under the prefix of its lease's uploader or of its present owner.
PrefixesOK ==
  /\ \A x \in Extractions :
       owner[x] = uploader[x] \/ (uploader[x] \in Guests /\ owner[x] \in Users)
  /\ \A o \in stored : o.prefix \in {owner[o.ext], uploader[o.ext]}

CleanedOK ==
  /\ \A x \in deleted : owner[x] \in Users
  /\ \A u \in Users : Finished(Cleanup(u)) => Clean(u)

Bookkeeping == BatchesOK /\ UnsentOK
IInv == TypeOK /\ Bookkeeping /\ MailsOK /\ AttemptsOK /\ UploadersOK /\ PrefixesOK /\ CleanedOK

------------------------------------------------------------------------------
USE DEF Owners, EmailKinds

\* What the end of an invocation does, whatever it counts as acked.
LEMMA ReturnFacts ==
  ASSUME TypeOK, NEW c \in Consumers, NEW A \in SUBSET Messages, Return(c, A)
  PROVE  /\ place' \in [Messages -> {"none", "queue", "batch", "acked", "dead"}]
         /\ left' \in [Consumers -> SUBSET Messages] /\ done' \in [Consumers -> SUBSET Messages]
         /\ sending' \in [Consumers -> Messages \cup {NONE}]
         /\ left'[c] = {} /\ done'[c] = {} /\ sending'[c] = NONE
         /\ \A d \in Consumers \ {c} :
              left'[d] = left[d] /\ done'[d] = done[d] /\ sending'[d] = sending[d]
         /\ \A m \in A : place'[m] = "acked"
         /\ \A m \in Messages \ (A \cup Held(c)) : place'[m] = place[m]
         /\ \A m \in Held(c) \ A : place'[m] = IF attempts[m] > MaxRetries THEN "dead" ELSE "queue"
         /\ attempts' = attempts
  BY DEF TypeOK, Return, Held

LEMMA AckFacts ==
  ASSUME TypeOK, NEW c \in Consumers, NEW m \in Messages, Ack(c, m)
  PROVE  /\ left' \in [Consumers -> SUBSET Messages] /\ done' \in [Consumers -> SUBSET Messages]
         /\ sending' \in [Consumers -> Messages \cup {NONE}]
         /\ left'[c] = left[c] \ {m} /\ done'[c] = done[c] \cup {m} /\ sending'[c] = NONE
         /\ \A d \in Consumers \ {c} :
              left'[d] = left[d] /\ done'[d] = done[d] /\ sending'[d] = sending[d]
         /\ place' = place /\ attempts' = attempts
  BY DEF TypeOK, Ack, queue

\* Which messages are finished after an ack, and that the batches stay apart.
LEMMA AckKeeps ==
  ASSUME TypeOK, BatchesOK, NEW c \in Consumers, NEW m \in left[c], Ack(c, m)
  PROVE  /\ BatchesOK'
         /\ \A n \in Messages : Finished(n)' <=> Finished(n) \/ n = m
  <1>1. m \in Messages
    BY DEF TypeOK
  <1>2. \A d \in Consumers : Held(d)' = Held(d)
    BY <1>1, AckFacts DEF Held
  <1>3. BatchesOK'
    BY <1>1, <1>2, AckFacts DEF BatchesOK, Held
  <1>4. \A n \in Messages : Finished(n)' <=> Finished(n) \/ n = m
    BY <1>1, AckFacts DEF Finished
  <1> QED BY <1>3, <1>4

\* At the end of an invocation nothing becomes finished that its handler had not finished,
\* and only an ack that does not count is taken back.
LEMMA ReturnKeeps ==
  ASSUME TypeOK, BatchesOK, NEW c \in Consumers, NEW A \in SUBSET done[c], Return(c, A)
  PROVE  /\ BatchesOK'
         /\ \A n \in Messages :
              /\ Finished(n)' => Finished(n)
              /\ Finished(n) /\ n \notin done[c] \ A => Finished(n)'
  <1>1. A \in SUBSET Messages /\ A \subseteq Held(c)
    BY DEF TypeOK, Held
  <1>2. Held(c)' = {} /\ \A d \in Consumers \ {c} : Held(d)' = Held(d)
    BY <1>1, ReturnFacts DEF Held
  <1>3. \A d \in Consumers \ {c} : \A n \in Held(d) : n \in Messages /\ n \notin Held(c)
    BY DEF BatchesOK, TypeOK, Held
  <1>4. BatchesOK'
    <2>1. ASSUME NEW d \in Consumers
          PROVE  /\ left'[d] \cap done'[d] = {}
                 /\ sending'[d] # NONE => sending'[d] \in left'[d] /\ sending'[d].kind # "cleanup"
                 /\ \A n \in Held(d)' : place'[n] = "batch"
      <3>1. CASE d = c
        BY <1>1, <1>2, <3>1, ReturnFacts
      <3>2. CASE d # c
        BY <1>1, <1>2, <1>3, <3>2, ReturnFacts DEF BatchesOK
      <3> QED BY <3>1, <3>2
    <2>2. \A d, e \in Consumers : d # e => Held(d)' \cap Held(e)' = {}
      BY <1>2 DEF BatchesOK
    <2> QED BY <2>1, <2>2 DEF BatchesOK
  <1>5. ASSUME NEW n \in Messages
        PROVE  /\ Finished(n)' => Finished(n)
               /\ Finished(n) /\ n \notin done[c] \ A => Finished(n)'
    <2>1. CASE n \in Held(c)
      BY <1>1, <1>3, <2>1, ReturnFacts DEF Finished, Held, BatchesOK
    <2>2. CASE n \notin Held(c)
      BY <1>1, <2>2, ReturnFacts DEF Finished, Held
    <2> QED BY <2>1, <2>2
  <1> QED BY <1>4, <1>5

LEMMA StartFacts ==
  ASSUME TypeOK, BatchesOK, NEW c \in Consumers, NEW B \in SUBSET Messages, StartBatch(c, B)
  PROVE  /\ BatchesOK'
         /\ \A n \in Messages : Finished(n)' <=> Finished(n)
         /\ \A n \in Messages :
              \/ n \in B /\ place[n] = "queue" /\ place'[n] = "batch" /\ attempts'[n] = attempts[n] + 1
              \/ place'[n] = place[n] /\ attempts'[n] = attempts[n]
  <1>1. /\ \A n \in B : place[n] = "queue"
        /\ left' = [left EXCEPT ![c] = B] /\ UNCHANGED <<done, sending>>
        /\ place' = [n \in Messages |-> IF n \in B THEN "batch" ELSE place[n]]
        /\ attempts' = [n \in Messages |-> IF n \in B THEN attempts[n] + 1 ELSE attempts[n]]
        /\ left[c] = {} /\ done[c] = {}
    BY DEF StartBatch
  <1>2. Held(c)' = B /\ \A d \in Consumers \ {c} : Held(d)' = Held(d) /\ left'[d] = left[d]
    BY <1>1 DEF Held, TypeOK
  <1>3. \A d \in Consumers : \A n \in Held(d) : n \in Messages /\ n \notin B
    BY <1>1 DEF BatchesOK, Held, TypeOK
  <1>4. BatchesOK'
    <2>1. ASSUME NEW d \in Consumers
          PROVE  /\ left'[d] \cap done'[d] = {}
                 /\ sending'[d] # NONE => sending'[d] \in left'[d] /\ sending'[d].kind # "cleanup"
                 /\ \A n \in Held(d)' : place'[n] = "batch"
      <3>1. CASE d = c
        BY <1>1, <1>2, <3>1 DEF BatchesOK, TypeOK
      <3>2. CASE d # c
        BY <1>1, <1>2, <1>3, <3>2 DEF BatchesOK
      <3> QED BY <3>1, <3>2
    <2>2. \A d, e \in Consumers : d # e => Held(d)' \cap Held(e)' = {}
      BY <1>2, <1>3 DEF BatchesOK
    <2> QED BY <2>1, <2>2 DEF BatchesOK
  <1>5. \A n \in Messages : Finished(n)' <=> Finished(n)
    BY <1>1 DEF Finished
  <1> QED BY <1>1, <1>4, <1>5

------------------------------------------------------------------------------
(* Type correctness                                                        *)

LEMMA FaultCounted ==
  ASSUME TypeOK, Fault
  PROVE  faults' \in 0..MaxFaults /\ faults' = faults + 1
  BY QueuesAssumption DEF TypeOK, Fault

LEMMA ThrowFacts ==
  ASSUME TypeOK, NEW c \in Consumers, Throw(c)
  PROVE  Fault /\ Return(c, done[c]) /\ done[c] \in SUBSET Messages /\ done[c] \in SUBSET done[c]
  BY DEF TypeOK, Throw

LEMMA InitTyped == Init => TypeOK
  BY QueuesAssumption DEF Init, TypeOK, Objects

LEMMA RowsTyped ==
  ASSUME TypeOK, Rows
  PROVE  TypeOK'
  <1>1. ASSUME NEW x \in Extractions, Complete(x)
        PROVE  TypeOK'
    BY <1>1 DEF TypeOK, Complete, batch
  <1>2. ASSUME NEW x \in Extractions, PutExport(x)
        PROVE  TypeOK'
    BY <1>2 DEF TypeOK, PutExport, rows, queue, batch, Objects
  <1>3. ASSUME NEW s \in Guests, NEW u \in Users, Link(s, u)
        PROVE  TypeOK'
    BY <1>3 DEF TypeOK, Link, queue, batch
  <1>4. ASSUME NEW u \in Users, DeleteAccount(u)
        PROVE  TypeOK'
    BY <1>4 DEF TypeOK, DeleteAccount, queue, batch
  <1>5. ASSUME NEW u \in Users, SendCleanup(u)
        PROVE  TypeOK'
    BY <1>5 DEF TypeOK, SendCleanup, rows, batch
  <1> QED BY <1>1, <1>2, <1>3, <1>4, <1>5 DEF Rows

LEMMA ConsumerTyped ==
  ASSUME TypeOK, BatchesOK, NEW c \in Consumers, Deliver(c) \/ Handle(c) \/ Break(c)
  PROVE  TypeOK'
  <1>1. ASSUME NEW B \in SUBSET Messages, StartBatch(c, B)
        PROVE  TypeOK'
    BY <1>1 DEF TypeOK, StartBatch, rows
  <1>2. ASSUME NEW m \in Messages, ReadRow(c, m)
        PROVE  TypeOK'
    <2>1. CASE Ack(c, m)
      BY <1>2, <2>1, AckFacts DEF TypeOK, ReadRow, rows
    <2>2. CASE sending' = [sending EXCEPT ![c] = m] /\ UNCHANGED <<left, done, queue>>
      BY <1>2, <2>2 DEF TypeOK, ReadRow, rows, queue
    <2> QED BY <1>2, <2>1, <2>2 DEF ReadRow
  <1>3. CASE ReadFails(c)
    BY <1>3, ThrowFacts, ReturnFacts, FaultCounted DEF TypeOK, ReadFails, rows
  <1>4. CASE SendMail(c)
    <2> DEFINE m == sending[c]
    <2>1. m \in Messages /\ m \in left[c]
      BY <1>4 DEF SendMail, BatchesOK, TypeOK
    <2>2. CASE Accepted(m) /\ Ack(c, m) /\ UNCHANGED <<faults, losses>>
      BY <1>4, <2>1, <2>2, AckFacts DEF TypeOK, SendMail, Accepted, rows
    <2>3. CASE Throw(c) /\ UNCHANGED <<mails, losses>>
      BY <1>4, <2>3, ThrowFacts, ReturnFacts, FaultCounted DEF TypeOK, SendMail, rows
    <2>4. CASE Accepted(m) /\ Throw(c) /\ losses' = losses + 1
      BY <1>4, <2>1, <2>4, ThrowFacts, ReturnFacts, FaultCounted DEF TypeOK, SendMail, Accepted, rows
    <2> QED BY <1>4, <2>2, <2>3, <2>4 DEF SendMail
  <1>5. ASSUME NEW m \in Messages, CleanupObjects(c, m)
        PROVE  TypeOK'
    <2>1. stored' \subseteq Objects /\ UNCHANGED <<rows, mails, losses>>
      BY <1>5 DEF CleanupObjects, ToDelete, TypeOK
    <2>2. CASE Ack(c, m) /\ UNCHANGED faults
      BY <2>1, <2>2, AckFacts DEF TypeOK, rows
    <2>3. CASE Throw(c)
      BY <2>1, <2>3, ThrowFacts, ReturnFacts, FaultCounted DEF TypeOK, rows
    <2> QED BY <1>5, <2>2, <2>3 DEF CleanupObjects
  <1>6. CASE EndBatch(c)
    BY <1>6, ReturnFacts DEF TypeOK, EndBatch, rows
  <1>7. CASE Evict(c)
    BY <1>7, ReturnFacts, FaultCounted DEF TypeOK, Evict, rows
  <1> QED BY <1>1, <1>2, <1>3, <1>4, <1>5, <1>6, <1>7 DEF Deliver, Handle, Break

------------------------------------------------------------------------------
(* Batches, and the shapes that the other parts of the invariant speak of.  *)

\* What the other handlers do to the queues: put messages in that were never sent.
LEMMA RowsShape ==
  ASSUME TypeOK, Bookkeeping, Rows
  PROVE  /\ UNCHANGED <<attempts, left, done, sending, mails, faults, losses>>
         /\ \A n \in Messages :
              place'[n] = place[n] \/ (place[n] = "none" /\ place'[n] = "queue")
         /\ complete \subseteq complete' /\ closed \subseteq closed'
         /\ UnsentOK'
  <1>1. ASSUME NEW x \in Extractions, Complete(x)
        PROVE  /\ UNCHANGED <<attempts, left, done, sending, mails, faults, losses>>
               /\ \A n \in Messages :
                    place'[n] = place[n] \/ (place[n] = "none" /\ place'[n] = "queue")
               /\ complete \subseteq complete' /\ closed \subseteq closed'
               /\ UnsentOK'
    <2>1. PICK sent \in SUBSET EmailKinds :
            place' = [n \in Messages |-> IF n.kind \in sent /\ n.of = x THEN "queue" ELSE place[n]]
      BY <1>1 DEF Complete
    <2>2. x \notin complete /\ complete' = complete \cup {x} /\ closed' = closed
          /\ UNCHANGED <<attempts, left, done, sending, mails, faults, losses>>
      BY <1>1 DEF Complete, batch
    <2>3. ASSUME NEW n \in Messages
          PROVE  /\ place'[n] = place[n] \/ (place[n] = "none" /\ place'[n] = "queue")
                 /\ n.kind \in EmailKinds /\ n.of \notin complete' => place'[n] = "none"
                 /\ n.kind = "cleanup" /\ n.of \notin closed' => place'[n] = "none"
      BY <2>1, <2>2 DEF Bookkeeping, UnsentOK
    <2> QED BY <2>2, <2>3 DEF UnsentOK
  <1>2. ASSUME NEW x \in Extractions, PutExport(x)
        PROVE  UNCHANGED <<attempts, left, done, sending, mails, faults, losses, place, complete, closed>>
    BY <1>2 DEF PutExport, rows, queue, batch
  <1>3. ASSUME NEW s \in Guests, NEW u \in Users, Link(s, u)
        PROVE  UNCHANGED <<attempts, left, done, sending, mails, faults, losses, place, complete, closed>>
    BY <1>3 DEF Link, queue, batch
  <1>4. ASSUME NEW u \in Users, DeleteAccount(u)
        PROVE  /\ UNCHANGED <<attempts, left, done, sending, mails, faults, losses, place, complete>>
               /\ closed \subseteq closed'
    BY <1>4 DEF DeleteAccount, queue, batch
  <1>5. ASSUME NEW u \in Users, SendCleanup(u)
        PROVE  /\ UNCHANGED <<attempts, left, done, sending, mails, faults, losses, complete, closed>>
               /\ \A n \in Messages :
                    place'[n] = place[n] \/ (place[n] = "none" /\ place'[n] = "queue")
               /\ UnsentOK'
    <2>1. /\ u \in closed /\ place[Cleanup(u)] = "none"
          /\ place' = [place EXCEPT ![Cleanup(u)] = "queue"]
          /\ UNCHANGED <<attempts, left, done, sending, mails, faults, losses, complete, closed>>
      BY <1>5 DEF SendCleanup, Cleanup, rows, batch
    <2>2. Cleanup(u).kind = "cleanup" /\ Cleanup(u).of = u
      BY DEF Cleanup
    <2>3. \A n \in Messages : n # Cleanup(u) => place'[n] = place[n]
      BY <2>1 DEF TypeOK
    <2>4. Cleanup(u) \in Messages /\ place'[Cleanup(u)] = "queue"
      BY <2>1 DEF TypeOK, Cleanup, Messages
    <2> QED BY <2>1, <2>2, <2>3, <2>4 DEF Bookkeeping, UnsentOK
  <1> QED BY <1>1, <1>2, <1>3, <1>4, <1>5 DEF Rows, Bookkeeping, UnsentOK

LEMMA RowsKeep ==
  ASSUME TypeOK, Bookkeeping, Rows
  PROVE  /\ Bookkeeping'
         /\ \A n \in Messages : Finished(n)' <=> Finished(n)
  <1>1. \A d \in Consumers : Held(d)' = Held(d) /\ \A n \in Held(d) : n \in Messages
    BY RowsShape DEF Held, TypeOK
  <1>2. BatchesOK'
    BY <1>1, RowsShape DEF BatchesOK, Bookkeeping
  <1>3. \A n \in Messages : Finished(n)' <=> Finished(n)
    BY RowsShape DEF Finished
  <1> QED BY <1>2, <1>3, RowsShape DEF Bookkeeping

\* A handler that finishes a message: with its mail, with no account to write to, or with
\* nothing left to delete.
Finishes(c, m) ==
  /\ m \in left[c] /\ Ack(c, m)
  /\ UNCHANGED <<rows, faults, losses>>
  /\ \/ m = sending[c] /\ Accepted(m) /\ m.kind # "cleanup"
     \/ /\ UNCHANGED mails
        /\ m.kind = "extraction-complete" => owner[m.of] \notin Users
        /\ m.kind = "cleanup" => ToDelete(m.of)' = {}

\* The end of an invocation: in order, with an exception (after a mail that was accepted, if
\* a loss is counted), or by eviction.
Ends(c) ==
  /\ UNCHANGED rows
  /\ \/ left[c] = {} /\ Return(c, done[c]) /\ UNCHANGED <<mails, faults, losses>>
     \/ Throw(c) /\ UNCHANGED <<mails, losses>>
     \/ sending[c] \in left[c] /\ Accepted(sending[c]) /\ Throw(c) /\ losses' = losses + 1
     \/ Fault /\ Return(c, {}) /\ losses' = losses + 1 /\ UNCHANGED mails

LEMMA ConsumerShape ==
  ASSUME TypeOK, BatchesOK, NEW c \in Consumers, Deliver(c) \/ Handle(c) \/ Break(c)
  PROVE  \/ \E B \in SUBSET Messages : StartBatch(c, B)
         \/ \E m \in Messages : Finishes(c, m)
         \/ Ends(c)
         \/ /\ UNCHANGED <<rows, left, done, queue, mails, faults, losses>>
            /\ \E m \in left[c] : m.kind # "cleanup" /\ sending' = [sending EXCEPT ![c] = m]
  <1>1. ASSUME NEW m \in Messages, ReadRow(c, m)
        PROVE  \/ Finishes(c, m)
               \/ /\ UNCHANGED <<rows, left, done, queue, mails, faults, losses>>
                  /\ m \in left[c] /\ m.kind # "cleanup" /\ sending' = [sending EXCEPT ![c] = m]
    BY <1>1 DEF ReadRow, Addressed, Finishes
  <1>2. CASE ReadFails(c)
    BY <1>2 DEF ReadFails, Ends
  <1>3. CASE SendMail(c)
    <2>1. /\ sending[c] \in left[c] /\ sending[c] \in Messages /\ UNCHANGED rows
          /\ sending[c].kind # "cleanup"
      BY <1>3 DEF SendMail, BatchesOK, TypeOK
    <2> QED BY <1>3, <2>1 DEF SendMail, Finishes, Ends
  <1>4. ASSUME NEW m \in Messages, CleanupObjects(c, m)
        PROVE  Finishes(c, m) \/ Ends(c)
    <2>1. PICK failures \in SUBSET ToDelete(m.of) :
            /\ stored' = (stored \ ToDelete(m.of)) \cup failures
            /\ IF failures = {} THEN Ack(c, m) /\ UNCHANGED faults ELSE Throw(c)
      BY <1>4 DEF CleanupObjects
    <2>2. m \in left[c] /\ m.kind = "cleanup" /\ UNCHANGED <<rows, mails, losses>>
      BY <1>4 DEF CleanupObjects
    <2>3. failures = {} => ToDelete(m.of)' = {}
      BY <2>1, <2>2 DEF ToDelete, rows
    <2> QED BY <2>1, <2>2, <2>3 DEF Finishes, Ends
  <1>5. CASE EndBatch(c)
    BY <1>5 DEF EndBatch, Ends
  <1>6. CASE Evict(c)
    BY <1>6 DEF Evict, Ends
  <1> QED BY <1>1, <1>2, <1>3, <1>4, <1>5, <1>6 DEF Deliver, Handle, Break

LEMMA ConsumerKeeps ==
  ASSUME TypeOK, Bookkeeping, NEW c \in Consumers, Deliver(c) \/ Handle(c) \/ Break(c)
  PROVE  Bookkeeping'
  <1>1. BatchesOK /\ UnsentOK
    BY DEF Bookkeeping
  <1>2. ASSUME NEW B \in SUBSET Messages, StartBatch(c, B)
        PROVE  Bookkeeping'
    <2>1. UNCHANGED <<complete, closed>>
      BY <1>2 DEF StartBatch, rows
    <2> QED BY <1>1, <1>2, <2>1, StartFacts DEF Bookkeeping, UnsentOK
  <1>3. ASSUME NEW m \in Messages, Finishes(c, m)
        PROVE  Bookkeeping'
    <2>1. UNCHANGED <<complete, closed, place>>
      BY <1>3, AckFacts DEF Finishes, rows
    <2> QED BY <1>1, <1>3, <2>1, AckKeeps DEF Finishes, Bookkeeping, UnsentOK
  <1>4. ASSUME NEW A \in SUBSET done[c], Return(c, A), UNCHANGED rows
        PROVE  Bookkeeping'
    <2>1. A \in SUBSET Messages /\ UNCHANGED <<complete, closed>> /\ A \subseteq Held(c)
      BY <1>4 DEF TypeOK, rows, Held
    <2>2. \A n \in Messages : place[n] = "none" => place'[n] = "none"
      BY <1>1, <1>4, <2>1, ReturnFacts DEF BatchesOK
    <2>3. BatchesOK'
      BY <1>1, <1>4, ReturnKeeps
    <2> QED BY <1>1, <2>1, <2>2, <2>3 DEF Bookkeeping, UnsentOK
  <1>5. CASE Ends(c)
    <2>1. \E A \in SUBSET done[c] : Return(c, A)
      BY <1>5 DEF Ends, Throw
    <2>2. UNCHANGED rows
      BY <1>5 DEF Ends
    <2> QED BY <1>4, <2>1, <2>2
  <1>6. CASE /\ UNCHANGED <<rows, left, done, queue, mails, faults, losses>>
             /\ \E m \in left[c] : m.kind # "cleanup" /\ sending' = [sending EXCEPT ![c] = m]
    <2>1. UNCHANGED <<complete, closed, left, done, place>>
      BY <1>6 DEF rows, queue
    <2>2. \A d \in Consumers : Held(d)' = Held(d)
      BY <2>1 DEF Held
    <2>3. BatchesOK'
      BY <1>1, <1>6, <2>1, <2>2 DEF BatchesOK, TypeOK
    <2> QED BY <1>1, <2>1, <2>3 DEF Bookkeeping, UnsentOK
  <1> QED BY <1>1, <1>2, <1>3, <1>5, <1>6, ConsumerShape

------------------------------------------------------------------------------
(* Mails: a message that is not finished has been mailed at most as often   *)
(* as an ack was lost.                                                      *)

LEMMA ConsumerMails ==
  ASSUME TypeOK, Bookkeeping, MailsOK, NEW c \in Consumers, Deliver(c) \/ Handle(c) \/ Break(c)
  PROVE  MailsOK'
  <1>1. BatchesOK /\ losses \in Nat /\ mails \in [Messages -> Nat]
    BY DEF Bookkeeping, TypeOK
  <1>2. \A n \in left[c] : n \in Messages /\ ~Finished(n)
    BY <1>1 DEF BatchesOK, TypeOK, Finished, Held
  <1>3. ASSUME NEW B \in SUBSET Messages, StartBatch(c, B)
        PROVE  MailsOK'
    <2>1. UNCHANGED <<mails, losses>>
      BY <1>3 DEF StartBatch
    <2> QED BY <1>1, <1>3, <2>1, StartFacts DEF MailsOK
  <1>4. ASSUME NEW m \in Messages, Finishes(c, m)
        PROVE  MailsOK'
    <2>1. m \in left[c] /\ losses' = losses /\ Ack(c, m)
      BY <1>4 DEF Finishes
    <2>2. \A n \in Messages : mails'[n] = mails[n] \/ (n = m /\ mails'[n] = mails[n] + 1)
      BY <1>1, <1>4 DEF Finishes, Accepted
    <2> QED BY <1>1, <1>2, <2>1, <2>2, AckKeeps DEF MailsOK
  <1>5. CASE Ends(c)
    <2>1. CASE (Return(c, done[c]) \/ Throw(c)) /\ UNCHANGED <<mails, losses>>
      <3>1. Return(c, done[c]) /\ done[c] \in SUBSET done[c]
        BY <2>1 DEF Throw
      <3> QED BY <1>1, <2>1, <3>1, ReturnKeeps DEF MailsOK
    <2>2. CASE /\ sending[c] \in left[c] /\ Accepted(sending[c])
               /\ Throw(c) /\ losses' = losses + 1
      <3>1. Return(c, done[c]) /\ done[c] \in SUBSET done[c]
        BY <2>2 DEF Throw
      <3>2. \A n \in Messages :
              mails'[n] = mails[n] \/ (n = sending[c] /\ mails'[n] = mails[n] + 1)
        BY <1>1, <2>2 DEF Accepted
      <3>3. \A n \in Messages : Finished(n)  => Finished(n)'
        BY <1>1, <3>1, ReturnKeeps
      <3> QED BY <1>1, <1>2, <2>2, <3>2, <3>3 DEF MailsOK
    <2>3. CASE losses' = losses + 1 /\ UNCHANGED mails
      BY <1>1, <2>3 DEF MailsOK
    <2> QED BY <1>5, <2>1, <2>2, <2>3 DEF Ends
  <1>6. CASE UNCHANGED <<rows, left, done, queue, mails, faults, losses>>
    BY <1>6 DEF MailsOK, Finished, queue
  <1> QED BY <1>1, <1>3, <1>4, <1>5, <1>6, ConsumerShape

------------------------------------------------------------------------------
(* Attempts: every delivery but the present one ended in a fault.           *)

LEMMA RowsAttempts ==
  ASSUME TypeOK, Bookkeeping, AttemptsOK, Rows
  PROVE  AttemptsOK'
  BY RowsShape DEF AttemptsOK

LEMMA ConsumerAttempts ==
  ASSUME TypeOK, Bookkeeping, AttemptsOK, NEW c \in Consumers, Deliver(c) \/ Handle(c) \/ Break(c)
  PROVE  AttemptsOK'
  <1>1. BatchesOK /\ faults \in Nat /\ attempts \in [Messages -> Nat] /\ MaxRetries \in Nat
    BY QueuesAssumption DEF Bookkeeping, TypeOK
  <1>2. ASSUME NEW B \in SUBSET Messages, StartBatch(c, B)
        PROVE  AttemptsOK'
    <2>1. UNCHANGED faults
      BY <1>2 DEF StartBatch
    <2> QED BY <1>1, <1>2, <2>1, StartFacts DEF AttemptsOK
  <1>3. ASSUME NEW m \in Messages, Finishes(c, m)
        PROVE  AttemptsOK'
    BY <1>3, AckFacts DEF Finishes, AttemptsOK
  <1>4. ASSUME NEW A \in SUBSET done[c], Return(c, A), faults' = faults + 1
        PROVE  AttemptsOK'
    <2>1. A \in SUBSET Messages
      BY <1>4 DEF TypeOK
    <2>2. \A n \in Messages :
            /\ attempts'[n] = attempts[n]
            /\ \/ place'[n] = "acked" \/ place'[n] = place[n]
               \/ place'[n] = IF attempts[n] > MaxRetries THEN "dead" ELSE "queue"
      BY <1>4, <2>1, ReturnFacts
    <2> QED BY <1>1, <1>4, <2>2 DEF AttemptsOK
  <1>5. CASE left[c] = {} /\ Return(c, done[c]) /\ UNCHANGED <<mails, faults, losses>>
    <2>1. \A n \in Messages :
            attempts'[n] = attempts[n] /\ (place'[n] = "acked" \/ place'[n] = place[n])
      BY <1>5, ReturnFacts DEF TypeOK, Held
    <2> QED BY <1>1, <1>5, <2>1 DEF AttemptsOK
  <1>6. CASE Ends(c)
    <2>1. CASE Throw(c)
      BY <1>4, <2>1, ThrowFacts, FaultCounted
    <2>2. CASE Fault /\ Return(c, {})
      BY <1>4, <2>2, FaultCounted
    <2> QED BY <1>5, <1>6, <2>1, <2>2 DEF Ends
  <1>7. CASE UNCHANGED <<rows, left, done, queue, mails, faults, losses>>
    BY <1>7 DEF AttemptsOK, queue
  <1> QED BY <1>1, <1>2, <1>3, <1>6, <1>7, ConsumerShape

------------------------------------------------------------------------------
(* Uploaders: a row with a user keeps one, so the handler has an address.   *)

LEMMA RowsOwners ==
  ASSUME TypeOK, Rows
  PROVE  /\ uploader' = uploader
         /\ \A x \in Extractions :
              owner[x] \in Users => owner'[x] = owner[x]
  <1>1. ASSUME NEW s \in Guests, NEW u \in Users, Link(s, u)
        PROVE  /\ uploader' = uploader
               /\ \A x \in Extractions : owner[x] \in Users => owner'[x] = owner[x]
    BY <1>1, QueuesAssumption DEF Link, TypeOK
  <1>2. CASE ~ \E s \in Guests, u \in Users : Link(s, u)
    BY <1>2 DEF Rows, Complete, PutExport, DeleteAccount, SendCleanup, rows
  <1> QED BY <1>1, <1>2

LEMMA RowsUploaders ==
  ASSUME TypeOK, Bookkeeping, UploadersOK, Rows
  PROVE  UploadersOK'
  BY RowsOwners, RowsKeep, RowsShape DEF UploadersOK

LEMMA ConsumerUploaders ==
  ASSUME TypeOK, Bookkeeping, UploadersOK, NEW c \in Consumers, Deliver(c) \/ Handle(c) \/ Break(c)
  PROVE  UploadersOK'
  <1>1. BatchesOK /\ mails \in [Messages -> Nat]
    BY DEF Bookkeeping, TypeOK
  <1>2. \A m \in Messages : m.kind = "extraction-complete" => m.of \in Extractions
    BY DEF Messages
  <1>3. ASSUME NEW B \in SUBSET Messages, StartBatch(c, B)
        PROVE  UploadersOK'
    <2>1. UNCHANGED <<mails, uploader, owner>>
      BY <1>3 DEF StartBatch, rows
    <2> QED BY <1>1, <1>3, <2>1, StartFacts DEF UploadersOK
  <1>4. ASSUME NEW m \in Messages, Finishes(c, m)
        PROVE  UploadersOK'
    <2>1. m \in left[c] /\ Ack(c, m) /\ UNCHANGED <<uploader, owner>>
      BY <1>4 DEF Finishes, rows
    <2>2. \A n \in Messages : mails'[n] >= mails[n] /\ mails'[n] \in Nat
      BY <1>1, <1>4 DEF Finishes, Accepted
    <2>3. m.kind = "extraction-complete" /\ uploader[m.of] \in Users => mails'[m] > 0
      BY <1>1, <1>2, <1>4 DEF Finishes, Accepted, UploadersOK
    <2> QED BY <1>1, <2>1, <2>2, <2>3, AckKeeps DEF UploadersOK
  <1>5. CASE Ends(c)
    <2>1. \E A \in SUBSET done[c] : Return(c, A)
      BY <1>5 DEF Ends, Throw
    <2>2. \A n \in Messages : Finished(n)' => Finished(n)
      BY <1>1, <2>1, ReturnKeeps
    <2>3. \A n \in Messages : mails'[n] >= mails[n] /\ mails'[n] \in Nat
      BY <1>1, <1>5 DEF Ends, Accepted
    <2>4. UNCHANGED <<uploader, owner>>
      BY <1>5 DEF Ends, rows
    <2> QED BY <1>1, <2>2, <2>3, <2>4 DEF UploadersOK
  <1>6. CASE UNCHANGED <<rows, left, done, queue, mails, faults, losses>>
    BY <1>6 DEF UploadersOK, Finished, queue, rows
  <1> QED BY <1>1, <1>3, <1>4, <1>5, <1>6, ConsumerShape

------------------------------------------------------------------------------
(* Cleanup: after the account is closed its objects only become fewer.      *)

LEMMA CleanupIsMessage ==
  ASSUME NEW u \in Users
  PROVE  Cleanup(u) \in Messages /\ Cleanup(u).kind = "cleanup" /\ Cleanup(u).of = u
  BY DEF Cleanup, Messages

LEMMA RowsPrefixes ==
  ASSUME TypeOK, PrefixesOK, Rows
  PROVE  PrefixesOK'
  <1>1. ASSUME NEW x \in Extractions, PutExport(x)
        PROVE  PrefixesOK'
    <2>1. UNCHANGED <<uploader, owner>>
      BY <1>1 DEF PutExport, rows
    <2>2. PICK kind \in {"late", "export"}, prefix \in {owner[x], uploader[x]} :
            stored' = stored \cup {[ext |-> x, kind |-> kind, prefix |-> prefix]}
      BY <1>1 DEF PutExport
    <2> QED BY <2>1, <2>2 DEF PrefixesOK
  <1>2. ASSUME NEW s \in Guests, NEW u \in Users, Link(s, u)
        PROVE  PrefixesOK'
    <2>1. /\ UNCHANGED <<uploader, stored>>
          /\ owner' = [x \in Extractions |-> IF owner[x] = s THEN u ELSE owner[x]]
      BY <1>2 DEF Link
    <2>2. \A x \in Extractions :
            /\ owner'[x] = owner[x] \/ (owner[x] = s /\ uploader[x] = s /\ owner'[x] = u)
            /\ owner'[x] = uploader[x] \/ (uploader[x] \in Guests /\ owner'[x] \in Users)
      BY <2>1, QueuesAssumption DEF PrefixesOK
    <2>3. \A o \in stored : o.ext \in Extractions
      BY DEF TypeOK, Objects
    <2>4. \A o \in stored' : o.prefix \in {owner'[o.ext], uploader'[o.ext]}
      BY <2>1, <2>2, <2>3 DEF PrefixesOK
    <2> QED BY <2>1, <2>2, <2>4 DEF PrefixesOK
  <1>3. CASE UNCHANGED <<uploader, owner, stored>>
    BY <1>3 DEF PrefixesOK
  <1> QED BY <1>1, <1>2, <1>3 DEF Rows, Complete, DeleteAccount, SendCleanup, rows

\* A consumer only takes objects away, and leaves the rows alone.
LEMMA ConsumerStores ==
  ASSUME NEW c \in Consumers, Deliver(c) \/ Handle(c) \/ Break(c)
  PROVE  UNCHANGED <<uploader, owner, deleted>> /\ stored' \subseteq stored
  BY DEF Deliver, Handle, Break, StartBatch, ReadRow, CleanupObjects, SendMail,
         EndBatch, ReadFails, Evict, ToDelete, rows

\* A cleanup after which nothing is selected has spared only what it may.
LEMMA NothingToDelete ==
  ASSUME TypeOK', PrefixesOK', NEW u \in Users, ToDelete(u)' = {}
  PROVE  Clean(u)'
  <1> SUFFICES ASSUME NEW o \in stored', o.ext \in deleted', owner'[o.ext] = u
               PROVE  Spared(o)'
    BY DEF Clean
  <1>1. o.kind \in {"recorded", "export", "late"} /\ o.ext \in Extractions
    BY DEF TypeOK, Objects
  <1>2. o.kind # "recorded" /\ o.prefix # u
    BY DEF ToDelete
  <1>3. o.prefix = uploader'[o.ext] /\ o.prefix \in Guests
    BY <1>1, <1>2 DEF PrefixesOK
  <1> QED BY <1>1, <1>2, <1>3 DEF Spared

LEMMA RowsCleaned ==
  ASSUME TypeOK, Bookkeeping, CleanedOK, Rows
  PROVE  CleanedOK'
  <1>1. \A u \in Users : Finished(Cleanup(u))' <=> Finished(Cleanup(u))
    BY RowsKeep, CleanupIsMessage
  <1>2. ASSUME NEW u \in Users, Finished(Cleanup(u))
        PROVE  u \in closed
    BY <1>2, CleanupIsMessage DEF Bookkeeping, UnsentOK, BatchesOK, Finished, Held
  <1>3. ASSUME NEW x \in Extractions, PutExport(x)
        PROVE  CleanedOK'
    <2>1. UNCHANGED <<uploader, deleted, owner>>
      BY <1>3 DEF PutExport, rows
    <2>2. PICK prefix \in Owners :
            stored' = stored \cup {[ext |-> x, prefix |-> prefix,
                                   kind |-> IF x \in deleted THEN "late" ELSE "export"]}
      BY <1>3 DEF PutExport, TypeOK
    <2>3. ASSUME NEW u \in Users, Clean(u)
          PROVE  Clean(u)'
      BY <2>1, <2>2, <2>3 DEF Clean, Spared
    <2> QED BY <1>1, <2>1, <2>3 DEF CleanedOK
  <1>4. ASSUME NEW s \in Guests, NEW u \in Users, Link(s, u)
        PROVE  CleanedOK'
    <2>1. UNCHANGED <<uploader, deleted, stored>> /\ \A x \in deleted : owner'[x] = owner[x]
      BY <1>4, RowsOwners DEF Link, CleanedOK, TypeOK
    <2>2. \A v \in Users : Clean(v)' <=> Clean(v)
      BY <2>1 DEF Clean, Spared
    <2> QED BY <1>1, <2>1, <2>2 DEF CleanedOK
  <1>5. ASSUME NEW u \in Users, DeleteAccount(u)
        PROVE  CleanedOK'
    <2>1. /\ u \notin closed /\ UNCHANGED <<uploader, owner, stored>>
          /\ deleted' = deleted \cup {x \in Extractions : owner[x] = u}
      BY <1>5 DEF DeleteAccount
    <2>2. \A x \in deleted' : owner[x] \in Users
      BY <2>1 DEF CleanedOK
    <2>3. ASSUME NEW v \in Users, Finished(Cleanup(v))
          PROVE  Clean(v)'
      <3>1. v # u
        BY <1>2, <2>1, <2>3
      <3>2. Clean(v)
        BY <2>3 DEF CleanedOK
      <3> QED BY <2>1, <3>1, <3>2 DEF Clean, Spared
    <2> QED BY <1>1, <2>1, <2>2, <2>3 DEF CleanedOK
  <1>6. CASE UNCHANGED <<uploader, deleted, owner, stored>>
    <2>1. \A u \in Users : Clean(u)' <=> Clean(u)
      BY <1>6 DEF Clean, Spared
    <2> QED BY <1>1, <1>6, <2>1 DEF CleanedOK
  <1> QED BY <1>3, <1>4, <1>5, <1>6 DEF Rows, Complete, SendCleanup, rows

LEMMA ConsumerCleaned ==
  ASSUME TypeOK, Bookkeeping, PrefixesOK, CleanedOK,
         NEW c \in Consumers, Deliver(c) \/ Handle(c) \/ Break(c)
  PROVE  PrefixesOK' /\ CleanedOK'
  <1>1. BatchesOK /\ UNCHANGED <<uploader, owner, deleted>> /\ stored' \subseteq stored
    BY ConsumerStores DEF Bookkeeping
  <1>2. PrefixesOK' /\ \A u \in Users : Clean(u) => Clean(u)'
    BY <1>1 DEF PrefixesOK, Clean, Spared
  <1>3. ASSUME NEW m \in Messages, Finishes(c, m)
        PROVE  CleanedOK'
    <2>1. m \in left[c] /\ Ack(c, m)
      BY <1>3 DEF Finishes
    <2>2. TypeOK'
      BY <1>1, ConsumerTyped
    <2>3. ASSUME NEW u \in Users, Finished(Cleanup(u))'
          PROVE  Clean(u)'
      <3>1. Finished(Cleanup(u)) \/ m = Cleanup(u)
        BY <1>1, <2>1, <2>3, AckKeeps, CleanupIsMessage
      <3>2. CASE m = Cleanup(u)
        <4>1. ToDelete(u)' = {}
          BY <1>3, <3>2, CleanupIsMessage DEF Finishes
        <4> QED BY <1>2, <2>2, <4>1, NothingToDelete
      <3> QED BY <1>2, <3>1, <3>2 DEF CleanedOK
    <2> QED BY <1>1, <2>3 DEF CleanedOK
  <1>4. CASE \A n \in Messages : Finished(n)' => Finished(n)
    BY <1>1, <1>2, <1>4, CleanupIsMessage DEF CleanedOK
  <1>5. ASSUME NEW B \in SUBSET Messages, StartBatch(c, B)
        PROVE  \A n \in Messages : Finished(n)' => Finished(n)
    BY <1>1, <1>5, StartFacts
  <1>6. CASE Ends(c)
    <2>1. \E A \in SUBSET done[c] : Return(c, A)
      BY <1>6 DEF Ends, Throw
    <2>2. \A n \in Messages : Finished(n)' => Finished(n)
      BY <1>1, <2>1, ReturnKeeps
    <2> QED BY <1>4, <2>2
  <1>7. CASE UNCHANGED <<rows, left, done, queue, mails, faults, losses>>
    BY <1>4, <1>7 DEF Finished, queue
  <1> QED BY <1>1, <1>2, <1>3, <1>4, <1>5, <1>6, <1>7, ConsumerShape

------------------------------------------------------------------------------
(* The inductive invariant                                                 *)

LEMMA InitIInv == Init => IInv
  <1> SUFFICES ASSUME Init PROVE IInv
    OBVIOUS
  <1>1. TypeOK
    BY InitTyped
  <1>2. \A c \in Consumers : Held(c) = {} /\ sending[c] = NONE
    BY DEF Init, Held
  <1>3. \A m \in Messages : place[m] = "none" /\ attempts[m] = 0 /\ mails[m] = 0 /\ ~Finished(m)
    BY DEF Init, Finished
  <1>4. Bookkeeping
    BY <1>2, <1>3 DEF Bookkeeping, BatchesOK, UnsentOK, Held
  <1>5. MailsOK /\ AttemptsOK
    BY <1>3 DEF MailsOK, AttemptsOK, Init
  <1>6. UploadersOK /\ PrefixesOK /\ CleanedOK
    BY <1>3, CleanupIsMessage DEF UploadersOK, PrefixesOK, CleanedOK, Init
  <1> QED BY <1>1, <1>4, <1>5, <1>6 DEF IInv

LEMMA RowsMails ==
  ASSUME TypeOK, Bookkeeping, MailsOK, Rows
  PROVE  MailsOK'
  BY RowsShape, RowsKeep DEF MailsOK

LEMMA NextIInv == IInv /\ [Next]_vars => IInv'
  <1> SUFFICES ASSUME IInv, [Next]_vars PROVE IInv'
    OBVIOUS
  <1>1. CASE Rows
    BY <1>1, RowsTyped, RowsKeep, RowsMails, RowsAttempts, RowsUploaders, RowsPrefixes,
       RowsCleaned DEF IInv
  <1>2. ASSUME NEW c \in Consumers, Deliver(c) \/ Handle(c) \/ Break(c)
        PROVE  IInv'
    BY <1>2, ConsumerTyped, ConsumerKeeps, ConsumerMails, ConsumerAttempts, ConsumerUploaders,
       ConsumerCleaned DEF IInv, Bookkeeping
  <1>3. CASE UNCHANGED vars
    BY <1>3 DEF IInv, TypeOK, Bookkeeping, BatchesOK, UnsentOK, Held, Finished, MailsOK, AttemptsOK,
       UploadersOK, PrefixesOK, CleanedOK, Clean, Spared, vars, rows, queue, batch
  <1> QED BY <1>1, <1>2, <1>3 DEF Next

LEMMA Invariant == SafetySpec => []IInv
  BY InitIInv, NextIInv, PTL DEF SafetySpec

\* Every variable of the queues has its type, for any number of messages and consumers.
THEOREM QueuesTypeCorrect == SafetySpec => []TypeOK
  <1>1. IInv => TypeOK
    BY DEF IInv
  <1> QED BY Invariant, <1>1, PTL

\* A message is mailed again only after the ack of a delivery that mailed it was lost: each
\* repetition is paid for with an eviction or a lost answer (handleEmailBatch acks one by one).
THEOREM MailsRepeatedOnlyAfterLoss == SafetySpec => []RepeatedOnlyAfterLoss
  <1>1. IInv => RepeatedOnlyAfterLoss
    BY DEF IInv, MailsOK, RepeatedOnlyAfterLoss
  <1> QED BY Invariant, <1>1, PTL

\* A message becomes a dead letter only after max_retries + 1 faults, whatever batches it was in.
THEOREM DeadLettersExhausted == SafetySpec => []DeadOnlyAfterRetries
  <1>1. IInv => DeadOnlyAfterRetries
    BY DEF IInv, AttemptsOK, DeadOnlyAfterRetries
  <1> QED BY Invariant, <1>1, PTL

\* The completion mail of a user's upload was accepted before its message is acked: a row that
\* has a user keeps one, through links and deletions, so the handler never finds no address.
THEOREM UploadersGetMail == SafetySpec => []UploadersAreMailed
  <1>1. IInv => UploadersAreMailed
    BY DEF IInv, UploadersOK, UploadersAreMailed, Finished
  <1> QED BY Invariant, <1>1, PTL

\* When an account's cleanup is acked, no recorded object and no export under the account's own
\* prefix that was stored before the deletion is left of any extraction deleted with it,
\* whichever deletions failed in whichever delivery.  What may be left are exports under the
\* prefix of the guest who uploaded a lease that was linked later, and exports stored late.
THEOREM CleanupsComplete == SafetySpec => []CleanedBeforeAck
  <1>1. IInv => CleanedBeforeAck
    BY DEF IInv, CleanedOK, CleanedBeforeAck, Clean, Spared, Finished, Cleanup
  <1> QED BY Invariant, <1>1, PTL

------------------------------------------------------------------------------
(* Limits: deliveries of a message are limited by max_retries, and each of  *)
(* them mails it once at most.                                              *)

DeliveriesOK ==
  \A m \in Messages :
    /\ attempts[m] <= MaxRetries + 1
    /\ place[m] = "none" => attempts[m] = 0
    /\ place[m] = "queue" => attempts[m] <= MaxRetries
    /\ mails[m] <= attempts[m]
    /\ place[m] = "batch" /\ ~Finished(m) => mails[m] < attempts[m]

LEMMA RowsDeliveries ==
  ASSUME TypeOK, Bookkeeping, DeliveriesOK, Rows
  PROVE  DeliveriesOK'
  <1>1. ASSUME NEW m \in Messages
        PROVE  /\ attempts'[m] = attempts[m] /\ mails'[m] = mails[m]
               /\ place'[m] = place[m] \/ (place[m] = "none" /\ place'[m] = "queue")
               /\ Finished(m)' <=> Finished(m)
    BY RowsShape, RowsKeep
  <1> QED BY <1>1, QueuesAssumption DEF DeliveriesOK

LEMMA ConsumerDeliveries ==
  ASSUME TypeOK, Bookkeeping, DeliveriesOK, NEW c \in Consumers, Deliver(c) \/ Handle(c) \/ Break(c)
  PROVE  DeliveriesOK'
  <1>1. /\ BatchesOK /\ MaxRetries \in Nat
        /\ attempts \in [Messages -> Nat] /\ mails \in [Messages -> Nat]
    BY QueuesAssumption DEF Bookkeeping, TypeOK
  <1>2. \A n \in left[c] : n \in Messages /\ ~Finished(n) /\ place[n] = "batch"
    BY <1>1 DEF BatchesOK, TypeOK, Finished, Held
  <1>3. ASSUME NEW B \in SUBSET Messages, StartBatch(c, B)
        PROVE  DeliveriesOK'
    <2>1. UNCHANGED mails
      BY <1>3 DEF StartBatch
    <2> QED BY <1>1, <1>3, <2>1, StartFacts DEF DeliveriesOK
  <1>4. ASSUME NEW m \in Messages, Finishes(c, m)
        PROVE  DeliveriesOK'
    <2>1. m \in left[c] /\ Ack(c, m)
      BY <1>4 DEF Finishes
    <2>2. \A n \in Messages : mails'[n] = mails[n] \/ (n = m /\ mails'[n] = mails[n] + 1)
      BY <1>1, <1>4 DEF Finishes, Accepted
    <2>3. UNCHANGED <<place, attempts>>
      BY <2>1, AckFacts
    <2> QED BY <1>1, <1>2, <2>1, <2>2, <2>3, AckKeeps DEF DeliveriesOK
  <1>5. ASSUME NEW A \in SUBSET done[c], Return(c, A),
               \A n \in Messages : mails'[n] = mails[n] \/ (n \in left[c] /\ mails'[n] = mails[n] + 1)
        PROVE  DeliveriesOK'
    <2>1. A \in SUBSET Messages /\ A \subseteq Held(c) /\ Held(c) \subseteq Messages
      BY <1>5 DEF TypeOK, Held
    <2>2. ASSUME NEW n \in Messages, n \in Held(c)
          PROVE  /\ attempts'[n] = attempts[n] /\ mails'[n] <= attempts[n]
                 /\ place'[n] \in {"acked", "dead"} \/ (place'[n] = "queue" /\ attempts[n] <= MaxRetries)
      <3>1. mails'[n] <= attempts[n]
        BY <1>1, <1>2, <1>5, <2>2 DEF DeliveriesOK
      <3>2. CASE n \in A
        BY <1>5, <2>1, <3>1, <3>2, ReturnFacts
      <3>3. CASE n \notin A
        <4>1. attempts'[n] = attempts[n] /\ place'[n] = IF attempts[n] > MaxRetries THEN "dead" ELSE "queue"
          BY <1>5, <2>1, <2>2, <3>3, ReturnFacts
        <4> QED BY <1>1, <3>1, <4>1
      <3> QED BY <3>2, <3>3
    <2>3. ASSUME NEW n \in Messages, n \notin Held(c)
          PROVE  /\ attempts'[n] = attempts[n] /\ place'[n] = place[n] /\ mails'[n] = mails[n]
                 /\ Finished(n) => Finished(n)'
      <3>1. n \notin A /\ n \notin left[c] /\ n \notin done[c]
        BY <2>1, <2>3 DEF Held
      <3> QED BY <1>1, <1>5, <2>1, <2>3, <3>1, ReturnFacts, ReturnKeeps
    <2> QED BY <1>1, <2>2, <2>3 DEF DeliveriesOK
  <1>6. CASE Ends(c)
    <2>1. \E A \in SUBSET done[c] : Return(c, A)
      BY <1>6 DEF Ends, Throw
    <2>2. \A n \in Messages : mails'[n] = mails[n] \/ (n \in left[c] /\ mails'[n] = mails[n] + 1)
      BY <1>1, <1>6 DEF Ends, Accepted
    <2> QED BY <1>5, <2>1, <2>2
  <1>7. CASE UNCHANGED <<rows, left, done, queue, mails, faults, losses>>
    BY <1>7 DEF DeliveriesOK, Finished, queue
  <1> QED BY <1>1, <1>3, <1>4, <1>6, <1>7, ConsumerShape

LEMMA NextDeliveries == IInv /\ DeliveriesOK /\ [Next]_vars => DeliveriesOK'
  <1> SUFFICES ASSUME IInv, DeliveriesOK, [Next]_vars PROVE DeliveriesOK'
    OBVIOUS
  <1>1. CASE Rows
    BY <1>1, RowsDeliveries DEF IInv
  <1>2. ASSUME NEW c \in Consumers, Deliver(c) \/ Handle(c) \/ Break(c)
        PROVE  DeliveriesOK'
    BY <1>2, ConsumerDeliveries DEF IInv
  <1>3. CASE UNCHANGED vars
    BY <1>3 DEF DeliveriesOK, Finished, vars, queue, batch
  <1> QED BY <1>1, <1>2, <1>3 DEF Next

\* No message is delivered more often than max_retries + 1 times, whichever messages of its
\* batches fail, and so no mail is sent more often than that, however many acks are lost.
THEOREM DeliveriesBounded ==
  SafetySpec => [](\A m \in Messages : attempts[m] <= MaxRetries + 1 /\ mails[m] <= attempts[m])
  <1>1. Init => DeliveriesOK
    BY QueuesAssumption DEF Init, DeliveriesOK, Finished
  <1>2. DeliveriesOK => \A m \in Messages : attempts[m] <= MaxRetries + 1 /\ mails[m] <= attempts[m]
    BY DEF DeliveriesOK
  <1> QED BY <1>1, <1>2, Invariant, NextDeliveries, PTL DEF SafetySpec
==============================================================================
