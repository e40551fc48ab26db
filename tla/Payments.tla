------------------------------ MODULE Payments -------------------------------
(***************************************************************************)
(* Money in the API worker: repositories/payments.ts, routes/webhooks.ts,  *)
(* and the two transactions of other repositories that touch the same      *)
(* rows (linking a guest session, deleting an account).                    *)
(*                                                                         *)
(* A worker serves one request at a time.  pc[w] is the next database      *)
(* statement of its handler and req[w] what the handler holds in local     *)
(* variables.  The writes of a transaction become visible at its COMMIT,   *)
(* which is the step that applies them; the row locks a worker holds in    *)
(* between are a function of pc and req (UserLock, HoldsExtraction, ...).  *)
(* Statements that can neither wait nor show a write to anyone share a     *)
(* step with the COMMIT that follows them.                                 *)
(***************************************************************************)
EXTENDS Integers, Sequences, Relation

CONSTANTS
  Users, Sessions,   \* rows of users and of anonymous_sessions
  Extractions,       \* rows of extractions, uploaded before the model starts
  Checkouts,         \* Stripe checkout sessions; each has one completed event
  Product,           \* [Checkouts -> the product the customer buys]
  Workers,           \* concurrent invocations of the API worker
  NONE,              \* SQL NULL
  MaxCalls,          \* bound: requests that clients start
  MaxFaults          \* bound: crashes and duplicate deliveries

Packs == {"credit_pack_5", "credit_pack_10"}

ASSUME ConstantsAssumption ==
  /\ Product \in [Checkouts -> Packs \cup {"single"}]
  /\ Users \cap Sessions = {}
  /\ NONE \notin Users \cup Sessions \cup Extractions \cup Checkouts
  /\ MaxCalls \in Nat /\ MaxFaults \in Nat

Owners == Users \cup Sessions

VARIABLES
  balance,       \* users.credits_balance
  ledger,        \* credit_transactions, per user, in insertion order
  deletedUsers,  \* users with deleted_at set
  owner,         \* extractions.user_id, or anonymous_session_id while it is NULL
  payStatus,     \* extractions.payment_status
  paymentId,     \* extractions.payment_id, as the checkout session of that payment
  deletedExt,    \* extractions with deleted_at set
  linkedTo,      \* anonymous_sessions.linked_user_id
  expired,       \* anonymous sessions past expires_at
  payments,      \* payments, by stripe_checkout_session_id
  claimed, processed, failed,   \* stripe_webhook_events: rows, processed_at, failed_at
  cleanup,       \* users for whom a message was sent to CLEANUP_QUEUE
  stripe,        \* Stripe: [Checkouts -> {"none", "open", "paid"}]
  buyer, target, \* Stripe: metadata of a checkout, who pays and for which extraction
  acked,         \* Stripe: events answered with 200
  pc,            \* the next statement of each worker's handler
  req,           \* its request: who asks, for which extraction, checkout and session
  bal,           \* the balance it read under the lock on the user row
  new,           \* its open transaction inserted the payment, or marked the user deleted
  calls, faults  \* what the bounds count

tables  == <<balance, ledger, deletedUsers, owner, payStatus, paymentId, deletedExt,
             linkedTo, expired, payments, claimed, processed, failed, cleanup>>
external == <<stripe, buyer, target, acked>>
counters == <<calls, faults>>
locals   == <<req, bal, new>>
vars == <<tables, external, pc, locals, counters>>

LedgerRows == [amount : Int, after : Int,
               payment : Checkouts \cup {NONE}, ext : Extractions \cup {NONE}]

PCs == {"idle", "wh_claim", "rp_select", "rp_insert", "ac_lock", "ac_grant",
        "rs_select", "rs_insert", "rs_unlock", "wh_complete", "wh_fail",
        "uc_ext", "uc_user", "uc_commit", "da_user", "da_ext", "da_send",
        "ln_lock", "ln_move"}

Requests == [who : Owners \cup {NONE}, ext : Extractions \cup {NONE},
             co : Checkouts \cup {NONE}, sess : Sessions \cup {NONE}]
Request(o, x, c, s) == [who |-> o, ext |-> x, co |-> c, sess |-> s]
NoRequest == Request(NONE, NONE, NONE, NONE)

Init ==
  /\ balance = [u \in Users |-> 0]
  /\ ledger = [u \in Users |-> <<>>]
  /\ deletedUsers = {}
  /\ owner \in [Extractions -> Owners]
  /\ payStatus = [x \in Extractions |-> "unpaid"]
  /\ paymentId = [x \in Extractions |-> NONE]
  /\ deletedExt = {}
  /\ linkedTo = [s \in Sessions |-> NONE]
  /\ expired = {} /\ payments = {}
  /\ claimed = {} /\ processed = {} /\ failed = {}
  /\ cleanup = {}
  /\ stripe = [c \in Checkouts |-> "none"]
  /\ buyer = [c \in Checkouts |-> NONE]
  /\ target = [c \in Checkouts |-> NONE]
  /\ acked = {}
  /\ pc = [w \in Workers |-> "idle"]
  /\ req = [w \in Workers |-> NoRequest]
  /\ bal = [w \in Workers |-> 0]
  /\ new = [w \in Workers |-> FALSE]
  /\ calls = 0 /\ faults = 0

------------------------------------------------------------------------------
(* Row locks.  FU is SELECT ... FOR UPDATE, NKU what an UPDATE takes, KS   *)
(* the FOR KEY SHARE of a foreign key check.                               *)

Conflicting(held, wanted) ==
  \/ "FU" \in {held, wanted}
  \/ held = "NKU" /\ wanted = "NKU"

\* Variant: useCredit and addCredits read the balance without FOR UPDATE.
UserLock_NoForUpdate(v, u, mode) ==
  /\ req[v].who = u
  /\ \/ mode = "NKU" /\ pc[v] = "da_ext" /\ new[v]
     \/ mode = "KS"  /\ pc[v] = "rs_unlock" /\ new[v]

\* Worker v holds a lock of this mode on the row of user u.
UserLock(v, u, mode) ==
  /\ req[v].who = u
  /\ \/ mode = "FU"  /\ pc[v] \in {"uc_commit", "ac_grant"}
     \/ mode = "NKU" /\ pc[v] = "da_ext" /\ new[v]
     \/ mode = "KS"  /\ pc[v] = "rs_unlock" /\ new[v]

UserTaken(v, u, wanted) ==
  \E mode \in {"FU", "NKU", "KS"} : UserLock(v, u, mode) /\ Conflicting(mode, wanted)

\* Only useCredit keeps an extraction row locked from one step to the next.
HoldsExtraction(v, x) == pc[v] \in {"uc_user", "uc_commit"} /\ req[v].ext = x

\* An uncommitted payments row: inserting the same checkout session waits for it.
HoldsPaymentKey(v, c) == pc[v] = "rs_unlock" /\ new[v] /\ req[v].co = c

HoldsSession(v, s) == pc[v] = "ln_move" /\ req[v].sess = s

\* Variant: an extraction that is already paid for is unlocked again.
Unlockable_AnyStatus(w) == owner[req[w].ext] = req[w].who

\* The WHERE clause of the unlocking UPDATE; it says nothing about deleted_at.
Unlockable(w) ==
  /\ payStatus[req[w].ext] = "unpaid"
  /\ owner[req[w].ext] = req[w].who

OwnedBy(o) == {x \in Extractions : owner[x] = o}

\* The next statement of w waits for a lock that v holds.
WaitsFor(w, v) ==
  /\ v # w
  /\ LET r == req[w] IN
     \/ pc[w] = "uc_ext" /\ r.ext \notin deletedExt /\ HoldsExtraction(v, r.ext)
     \/ pc[w] \in {"uc_user", "ac_lock"} /\ r.who \notin deletedUsers /\ UserTaken(v, r.who, "FU")
     \/ pc[w] = "rp_insert" /\ r.co \notin payments /\ UserTaken(v, r.who, "KS")
     \/ pc[w] = "rs_insert" /\ (HoldsPaymentKey(v, r.co) \/ UserTaken(v, r.who, "KS"))
     \/ pc[w] = "rs_unlock" /\ Unlockable(w) /\ HoldsExtraction(v, r.ext)
     \/ pc[w] = "da_user" /\ r.who \notin deletedUsers /\ UserTaken(v, r.who, "NKU")
     \/ pc[w] = "da_ext" /\ \E x \in OwnedBy(r.who) \ deletedExt : HoldsExtraction(v, x)
     \/ pc[w] = "ln_lock" /\ HoldsSession(v, r.sess)
     \/ pc[w] = "ln_move" /\ UserTaken(v, r.who, "KS")

\* w is at this statement and nothing makes it wait.
At(w, step) == pc[w] = step /\ \A v \in Workers : ~WaitsFor(w, v)

Goto(w, step) == pc' = [pc EXCEPT ![w] = step]
Idle(w) ==
  /\ Goto(w, "idle")
  /\ req' = [req EXCEPT ![w] = NoRequest]
  /\ bal' = [bal EXCEPT ![w] = 0]
  /\ new' = [new EXCEPT ![w] = FALSE]
ReadBalance(w, b) == bal' = [bal EXCEPT ![w] = b] /\ UNCHANGED <<req, new>>
Wrote(w, b) == new' = [new EXCEPT ![w] = b] /\ UNCHANGED <<req, bal>>
Take(w, step, r) ==
  /\ pc[w] = "idle"
  /\ Goto(w, step)
  /\ req' = [req EXCEPT ![w] = r]
  /\ UNCHANGED <<bal, new>>
ClientCall == calls < MaxCalls /\ calls' = calls + 1

------------------------------------------------------------------------------
(* Checkout: POST /payments/checkout.  Between the ownership check and the *)
(* payment anything may happen; the customer pays whenever, or never.      *)

CheckoutAllowed(c, o, x) ==
  /\ o \in Sessions => linkedTo[o] = NONE /\ o \notin expired
  /\ IF Product[c] = "single"
       THEN x \in Extractions \ deletedExt /\ owner[x] = o /\ payStatus[x] = "unpaid"
       ELSE x = NONE

CreateCheckout(c, o, x) ==
  /\ ClientCall
  /\ stripe[c] = "none"
  /\ CheckoutAllowed(c, o, x)
  /\ stripe' = [stripe EXCEPT ![c] = "open"]
  /\ buyer' = [buyer EXCEPT ![c] = o]
  /\ target' = [target EXCEPT ![c] = x]
  /\ UNCHANGED <<tables, acked, pc, locals, faults>>

CustomerPays(c) ==
  /\ stripe[c] = "open"
  /\ stripe' = [stripe EXCEPT ![c] = "paid"]
  /\ UNCHANGED <<tables, buyer, target, acked, pc, locals, counters>>

------------------------------------------------------------------------------
(* The webhook.  Stripe repeats an event until it is answered with 200;    *)
(* two deliveries of one event may run at the same time.                   *)

EventRequest(c) ==
  Request(buyer[c], target[c], c, NONE)

Deliver(w, c) ==
  /\ stripe[c] = "paid" /\ c \notin acked
  /\ Take(w, "wh_claim", EventRequest(c))
  /\ UNCHANGED <<tables, external, counters>>

DeliverAgain(w, c) ==
  /\ c \in acked
  /\ faults < MaxFaults /\ faults' = faults + 1
  /\ Take(w, "wh_claim", EventRequest(c))
  /\ UNCHANGED <<tables, external, calls>>

\* processCheckoutCompleted: what to do with the event of this checkout.
FirstStep(c) ==
  IF Product[c] = "single" THEN "rs_select"
  ELSE IF buyer[c] \in Users THEN "rp_select" ELSE "wh_fail"

\* Variant: a row that exists counts as processed, so a crashed delivery is never resumed.
Claim_NeverReclaimed(w) ==
  /\ At(w, "wh_claim")
  /\ LET c == req[w].co IN
     IF c \in claimed
       THEN Idle(w) /\ acked' = acked \cup {c} /\ UNCHANGED claimed
       ELSE /\ claimed' = claimed \cup {c}
            /\ Goto(w, FirstStep(c))
            /\ UNCHANGED <<locals, acked>>
  /\ UNCHANGED <<balance, ledger, deletedUsers, owner, payStatus, paymentId, deletedExt,
                 linkedTo, expired, payments, processed, failed, cleanup,
                 stripe, buyer, target, counters>>

Claim(w) ==
  /\ At(w, "wh_claim")
  /\ LET c == req[w].co IN
     IF c \in processed \cup failed
       THEN Idle(w) /\ acked' = acked \cup {c} /\ UNCHANGED claimed
       ELSE /\ claimed' = claimed \cup {c}
            /\ Goto(w, FirstStep(c))
            /\ UNCHANGED <<locals, acked>>
  /\ UNCHANGED <<balance, ledger, deletedUsers, owner, payStatus, paymentId, deletedExt,
                 linkedTo, expired, payments, processed, failed, cleanup,
                 stripe, buyer, target, counters>>

\* recordPayment (credit packs): SELECT, then INSERT ... ON CONFLICT DO NOTHING.
RecordPaymentSelect(w) ==
  /\ At(w, "rp_select")
  /\ Goto(w, IF req[w].co \in payments THEN "ac_lock" ELSE "rp_insert")
  /\ UNCHANGED <<tables, external, locals, counters>>

RecordPaymentInsert(w) ==
  /\ At(w, "rp_insert")
  /\ payments' = payments \cup {req[w].co}
  /\ Goto(w, "ac_lock")
  /\ UNCHANGED <<balance, ledger, deletedUsers, owner, payStatus, paymentId, deletedExt,
                 linkedTo, expired, claimed, processed, failed, cleanup,
                 external, locals, counters>>

\* addCredits: lock the user row, then grant unless a ledger row has this payment.
\* Variant: a deleted user is passed over in silence and the event is completed.
AddCreditsLock_SkipDeleted(w) ==
  /\ At(w, "ac_lock")
  /\ IF req[w].who \in deletedUsers
       THEN Goto(w, "wh_complete") /\ UNCHANGED locals
       ELSE /\ Goto(w, "ac_grant")
            /\ ReadBalance(w, balance[req[w].who])
  /\ UNCHANGED <<tables, external, counters>>

AddCreditsLock(w) ==
  /\ At(w, "ac_lock")
  /\ IF req[w].who \in deletedUsers
       THEN Goto(w, "wh_fail") /\ UNCHANGED locals
       ELSE /\ Goto(w, "ac_grant")
            /\ ReadBalance(w, balance[req[w].who])
  /\ UNCHANGED <<tables, external, counters>>

CreditPackAmount(p) == IF p = "credit_pack_5" THEN 5 ELSE 10

Granted(c) ==
  \E u \in Users : \E i \in DOMAIN ledger[u] : ledger[u][i].payment = c

Row(amount, after, c, x) == [amount |-> amount, after |-> after, payment |-> c, ext |-> x]

Book(u, row) ==
  /\ balance' = [balance EXCEPT ![u] = row.after]
  /\ ledger' = [ledger EXCEPT ![u] = Append(@, row)]

\* Variant: the grant is not checked against the ledger (and the index is missing).
AddCreditsGrant_Unchecked(w) ==
  /\ At(w, "ac_grant")
  /\ LET r == req[w]
         n == CreditPackAmount(Product[r.co])
     IN Book(r.who, Row(n, bal[w] + n, r.co, NONE))
  /\ Goto(w, "wh_complete")
  /\ UNCHANGED <<deletedUsers, owner, payStatus, paymentId, deletedExt, linkedTo, expired,
                 payments, claimed, processed, failed, cleanup, external, locals, counters>>

AddCreditsGrant(w) ==
  /\ At(w, "ac_grant")
  /\ LET r == req[w]
         n == CreditPackAmount(Product[r.co])
     IN IF Granted(r.co) THEN UNCHANGED <<balance, ledger>>
                         ELSE Book(r.who, Row(n, bal[w] + n, r.co, NONE))
  /\ Goto(w, "wh_complete")
  /\ UNCHANGED <<deletedUsers, owner, payStatus, paymentId, deletedExt, linkedTo, expired,
                 payments, claimed, processed, failed, cleanup, external, locals, counters>>

\* recordSinglePaymentAndUnlock: SELECT the payment, INSERT it, UPDATE the extraction.
RecordSingleSelect(w) ==
  /\ At(w, "rs_select")
  /\ Goto(w, IF req[w].co \in payments THEN "rs_unlock" ELSE "rs_insert")
  /\ UNCHANGED <<tables, external, locals, counters>>

\* A concurrent delivery that committed first makes the INSERT fail: 500, Stripe retries.
\* Variant: the handler repeats the INSERT until the conflict is gone.
RecordSingleInsert_Retry(w) ==
  /\ At(w, "rs_insert")
  /\ req[w].co \notin payments
  /\ Goto(w, "rs_unlock")
  /\ Wrote(w, TRUE)
  /\ UNCHANGED <<tables, external, counters>>

RecordSingleInsert(w) ==
  /\ At(w, "rs_insert")
  /\ IF req[w].co \in payments
       THEN Idle(w)
       ELSE Goto(w, "rs_unlock") /\ Wrote(w, TRUE)
  /\ UNCHANGED <<tables, external, counters>>

RecordSingleUnlock(w) ==
  /\ At(w, "rs_unlock")
  /\ LET r == req[w] IN
     IF Unlockable(w)
       THEN /\ payments' = payments \cup {r.co}
            /\ payStatus' = [payStatus EXCEPT ![r.ext] = "paid"]
            /\ paymentId' = [paymentId EXCEPT ![r.ext] = r.co]
            /\ Goto(w, "wh_complete")
       ELSE /\ Goto(w, IF new[w] THEN "wh_fail" ELSE "wh_complete")
            /\ UNCHANGED <<payments, payStatus, paymentId>>
  /\ UNCHANGED <<balance, ledger, deletedUsers, owner, deletedExt, linkedTo, expired,
                 claimed, processed, failed, cleanup, external, locals, counters>>

\* The event is marked and answered with 200.
CompleteEvent(w) ==
  /\ At(w, "wh_complete")
  /\ processed' = processed \cup {req[w].co}
  /\ acked' = acked \cup {req[w].co}
  /\ Idle(w)
  /\ UNCHANGED <<balance, ledger, deletedUsers, owner, payStatus, paymentId, deletedExt,
                 linkedTo, expired, payments, claimed, failed, cleanup,
                 stripe, buyer, target, counters>>

\* A permanent error: failed_at is set and Stripe is told to stop.
FailEvent(w) ==
  /\ At(w, "wh_fail")
  /\ failed' = failed \cup {req[w].co}
  /\ acked' = acked \cup {req[w].co}
  /\ Idle(w)
  /\ UNCHANGED <<balance, ledger, deletedUsers, owner, payStatus, paymentId, deletedExt,
                 linkedTo, expired, payments, claimed, processed, cleanup,
                 stripe, buyer, target, counters>>

------------------------------------------------------------------------------
(* POST /payments/use-credit                                               *)

StartUseCredit(w, u, x) ==
  /\ ClientCall
  /\ Take(w, "uc_ext", Request(u, x, NONE, NONE))
  /\ UNCHANGED <<tables, external, faults>>

UseCreditLockExtraction(w) ==
  /\ At(w, "uc_ext")
  /\ LET x == req[w].ext IN
     IF x \notin deletedExt /\ owner[x] = req[w].who /\ payStatus[x] = "unpaid"
       THEN Goto(w, "uc_user") /\ UNCHANGED locals
       ELSE Idle(w)
  /\ UNCHANGED <<tables, external, counters>>

\* Variant: the balance is not checked.
UseCreditLockUser_NoBalanceCheck(w) ==
  /\ At(w, "uc_user")
  /\ Goto(w, "uc_commit")
  /\ ReadBalance(w, balance[req[w].who])
  /\ UNCHANGED <<tables, external, counters>>

UseCreditLockUser(w) ==
  /\ At(w, "uc_user")
  /\ LET u == req[w].who IN
     IF u \notin deletedUsers /\ balance[u] >= 1
       THEN Goto(w, "uc_commit") /\ ReadBalance(w, balance[u])
       ELSE Idle(w)
  /\ UNCHANGED <<tables, external, counters>>

UseCreditCommit(w) ==
  /\ At(w, "uc_commit")
  /\ LET r == req[w] IN
     IF owner[r.ext] = r.who /\ payStatus[r.ext] = "unpaid"
       THEN /\ Book(r.who, Row(-1, bal[w] - 1, NONE, r.ext))
            /\ payStatus' = [payStatus EXCEPT ![r.ext] = "paid"]
       ELSE UNCHANGED <<balance, ledger, payStatus>>
  /\ Idle(w)
  /\ UNCHANGED <<deletedUsers, owner, paymentId, deletedExt, linkedTo, expired, payments,
                 claimed, processed, failed, cleanup, external, counters>>

------------------------------------------------------------------------------
(* DELETE /user: users, then extractions, then the cleanup message.        *)

StartDeleteAccount(w, u) ==
  /\ ClientCall
  /\ Take(w, "da_user", Request(u, NONE, NONE, NONE))
  /\ UNCHANGED <<tables, external, faults>>

DeleteAccountUser(w) ==
  /\ At(w, "da_user")
  /\ Goto(w, "da_ext")
  /\ Wrote(w, req[w].who \notin deletedUsers)
  /\ UNCHANGED <<tables, external, counters>>

DeleteAccountCommit(w) ==
  /\ At(w, "da_ext")
  /\ deletedUsers' = deletedUsers \cup {req[w].who}
  /\ deletedExt' = deletedExt \cup OwnedBy(req[w].who)
  /\ Goto(w, "da_send")
  /\ UNCHANGED <<balance, ledger, owner, payStatus, paymentId, linkedTo, expired, payments,
                 claimed, processed, failed, cleanup, external, locals, counters>>

DeleteAccountSend(w) ==
  /\ At(w, "da_send")
  /\ cleanup' = cleanup \cup {req[w].who}
  /\ Idle(w)
  /\ UNCHANGED <<balance, ledger, deletedUsers, owner, payStatus, paymentId, deletedExt,
                 linkedTo, expired, payments, claimed, processed, failed,
                 external, counters>>

------------------------------------------------------------------------------
(* POST /auth/link: a guest's extractions become the user's.       *)

StartLink(w, u, s) ==
  /\ ClientCall
  /\ Take(w, "ln_lock", Request(u, NONE, NONE, s))
  /\ UNCHANGED <<tables, external, faults>>

LinkLockSession(w) ==
  /\ At(w, "ln_lock")
  /\ LET s == req[w].sess IN
     IF s \notin expired /\ linkedTo[s] \in {NONE, req[w].who}
       THEN Goto(w, "ln_move") /\ UNCHANGED locals
       ELSE Idle(w)
  /\ UNCHANGED <<tables, external, counters>>

\* Variant: the transfer takes every extraction, whoever owns it.
LinkTransfer_AnyOwner(w) ==
  /\ At(w, "ln_move")
  /\ linkedTo' = [linkedTo EXCEPT ![req[w].sess] = req[w].who]
  /\ owner' = [x \in Extractions |-> req[w].who]
  /\ Idle(w)
  /\ UNCHANGED <<balance, ledger, deletedUsers, payStatus, paymentId, deletedExt, expired,
                 payments, claimed, processed, failed, cleanup, external, counters>>

\* Variant: the user and the session change places.
LinkTransfer_Swapped(w) ==
  /\ At(w, "ln_move")
  /\ linkedTo' = [linkedTo EXCEPT ![req[w].sess] = req[w].sess]
  /\ owner' = [x \in Extractions |->
                 IF owner[x] = req[w].who THEN req[w].sess ELSE owner[x]]
  /\ Idle(w)
  /\ UNCHANGED <<balance, ledger, deletedUsers, payStatus, paymentId, deletedExt, expired,
                 payments, claimed, processed, failed, cleanup, external, counters>>

LinkTransfer(w) ==
  /\ At(w, "ln_move")
  /\ linkedTo' = [linkedTo EXCEPT ![req[w].sess] = req[w].who]
  /\ owner' = [x \in Extractions |->
                 IF owner[x] = req[w].sess THEN req[w].who ELSE owner[x]]
  /\ Idle(w)
  /\ UNCHANGED <<balance, ledger, deletedUsers, payStatus, paymentId, deletedExt, expired,
                 payments, claimed, processed, failed, cleanup, external, counters>>

\* 72 hours pass.
ExpireSession(s) ==
  /\ s \notin expired
  /\ expired' = expired \cup {s}
  /\ UNCHANGED <<balance, ledger, deletedUsers, owner, payStatus, paymentId, deletedExt,
                 linkedTo, payments, claimed, processed, failed, cleanup,
                 external, pc, locals, counters>>

\* DELETE /extractions/{id}: one UPDATE, which waits for a lock on the row.
SoftDeleteExtraction(x) ==
  /\ ClientCall
  /\ x \notin deletedExt
  /\ \A v \in Workers : ~HoldsExtraction(v, x)
  /\ deletedExt' = deletedExt \cup {x}
  /\ UNCHANGED <<balance, ledger, deletedUsers, owner, payStatus, paymentId, linkedTo,
                 expired, payments, claimed, processed, failed, cleanup,
                 external, pc, locals, faults>>

------------------------------------------------------------------------------
(* Failures.  A crash anywhere loses the connection: Postgres rolls back   *)
(* and releases the locks, and the caller gets no answer.  A deadlock is   *)
(* broken by rolling one member of the cycle back; its handler answers 500.*)

Crash(w) ==
  /\ pc[w] # "idle"
  /\ faults < MaxFaults /\ faults' = faults + 1
  /\ Idle(w)
  /\ UNCHANGED <<tables, external, calls>>

InCycle(w) ==
  TransitiveClosure([v \in Workers, z \in Workers |-> WaitsFor(v, z)], Workers)[w, w]

DeadlockVictim(w) ==
  /\ InCycle(w)
  /\ Idle(w)
  /\ UNCHANGED <<tables, external, counters>>

Webhook(w) ==
  \/ Claim(w) \/ RecordPaymentSelect(w) \/ RecordPaymentInsert(w)
  \/ AddCreditsLock(w) \/ AddCreditsGrant(w)
  \/ RecordSingleSelect(w) \/ RecordSingleInsert(w) \/ RecordSingleUnlock(w)
  \/ CompleteEvent(w) \/ FailEvent(w)

UseCredit(w) ==
  UseCreditLockExtraction(w) \/ UseCreditLockUser(w) \/ UseCreditCommit(w)

DeleteAccount(w) ==
  DeleteAccountUser(w) \/ DeleteAccountCommit(w) \/ DeleteAccountSend(w)

Link(w) == LinkLockSession(w) \/ LinkTransfer(w)

Handle(w) == Webhook(w) \/ UseCredit(w) \/ DeleteAccount(w) \/ Link(w)

Start(w) ==
  \/ \E c \in Checkouts : Deliver(w, c) \/ DeliverAgain(w, c)
  \/ \E u \in Users, x \in Extractions : StartUseCredit(w, u, x)
  \/ \E u \in Users : StartDeleteAccount(w, u)
  \/ \E u \in Users, s \in Sessions : StartLink(w, u, s)

Environment ==
  \/ \E c \in Checkouts, o \in Owners, x \in Extractions \cup {NONE} : CreateCheckout(c, o, x)
  \/ \E c \in Checkouts : CustomerPays(c)
  \/ \E s \in Sessions : ExpireSession(s)
  \/ \E x \in Extractions : SoftDeleteExtraction(x)

Next ==
  \/ \E w \in Workers : Handle(w) \/ Start(w) \/ Crash(w) \/ DeadlockVictim(w)
  \/ Environment

\* Statements are executed; Postgres queues lock waiters and breaks deadlocks; Stripe
\* keeps delivering an event that was not answered with 200.
Fairness ==
  /\ \A w \in Workers : SF_vars(Handle(w)) /\ WF_vars(DeadlockVictim(w))
  /\ \A c \in Checkouts : SF_vars(\E w \in Workers : Deliver(w, c))

SafetySpec == Init /\ [][Next]_vars
Spec == SafetySpec /\ Fairness
------------------------------------------------------------------------------
(* Properties                                                              *)

TablesTypeOK ==
  /\ balance \in [Users -> Int]
  /\ ledger \in [Users -> Seq(LedgerRows)]
  /\ owner \in [Extractions -> Owners]
  /\ payStatus \in [Extractions -> {"unpaid", "paid"}]
  /\ paymentId \in [Extractions -> Checkouts \cup {NONE}]
  /\ linkedTo \in [Sessions -> Users \cup {NONE}]
  /\ deletedUsers \subseteq Users /\ cleanup \subseteq Users
  /\ deletedExt \subseteq Extractions /\ expired \subseteq Sessions
  /\ payments \subseteq Checkouts /\ claimed \subseteq Checkouts
  /\ processed \subseteq Checkouts /\ failed \subseteq Checkouts

StripeTypeOK ==
  /\ stripe \in [Checkouts -> {"none", "open", "paid"}]
  /\ buyer \in [Checkouts -> Owners \cup {NONE}]
  /\ target \in [Checkouts -> Extractions \cup {NONE}]
  /\ acked \subseteq Checkouts

WorkersTypeOK ==
  /\ pc \in [Workers -> PCs] /\ req \in [Workers -> Requests]
  /\ bal \in [Workers -> Int] /\ new \in [Workers -> BOOLEAN]

\* Every variable has its type; in particular a session is only ever linked to a user,
\* and an extraction only ever owned by a user or a session (CHECK has_owner).
TypeOK ==
  /\ TablesTypeOK /\ StripeTypeOK /\ WorkersTypeOK
  /\ calls \in 0..MaxCalls /\ faults \in 0..MaxFaults

\* The balance of a user is the balance_after of the newest ledger row, every row's
\* balance_after is the previous one plus its amount, and none is negative: no update of
\* users.credits_balance is lost, whatever requests overlap (payments.ts, FOR UPDATE).
LedgerChain ==
  \A u \in Users :
    /\ balance[u] = IF ledger[u] = <<>> THEN 0 ELSE ledger[u][Len(ledger[u])].after
    /\ \A i \in 1..Len(ledger[u]) :
         /\ ledger[u][i].after >= 0
         /\ ledger[u][i].after =
              ledger[u][i].amount + IF i = 1 THEN 0 ELSE ledger[u][i - 1].after

\* A payment grants its credits at most once, in full, and to the user who bought them,
\* even when two deliveries of its event run side by side or one of them crashed.
GrantOnce ==
  \A u \in Users : \A i \in 1..Len(ledger[u]) :
    LET c == ledger[u][i].payment IN
    c # NONE =>
      /\ c \in payments /\ buyer[c] = u
      /\ ledger[u][i].amount = CreditPackAmount(Product[c])
      /\ \A v \in Users : \A j \in 1..Len(ledger[v]) :
           ledger[v][j].payment = c => v = u /\ j = i

Spends(x) ==
  {e \in UNION {{<<u, i>> : i \in 1..Len(ledger[u])} : u \in Users} :
     ledger[e[1]][e[2]].ext = x}

\* The recorded purchases of an extraction.
Purchases(x) == {c \in payments : target[c] = x}

\* An unlocked extraction is booked exactly once, on one credit of its owner or on one
\* recorded payment, and a locked one is booked on neither: two clicks, a credit spent
\* while a checkout is open and two checkouts for one extraction never book it twice.
PaidExactlyOnce ==
  \A x \in Extractions :
    IF payStatus[x] = "unpaid"
      THEN paymentId[x] = NONE /\ Purchases(x) = {} /\ Spends(x) = {}
      ELSE \/ Purchases(x) = {paymentId[x]} /\ Spends(x) = {}
           \/ /\ paymentId[x] = NONE /\ Purchases(x) = {}
              /\ \E e \in Spends(x) : e[1] = owner[x] /\ Spends(x) = {e}

\* An extraction unlocked by a purchase belongs to the buyer, or to the user who linked
\* the guest session that bought it, whatever was linked between paying and the webhook.
PaidForOwner ==
  \A x \in Extractions :
    paymentId[x] # NONE =>
      LET o == buyer[paymentId[x]] IN
      owner[x] = o \/ (o \in Sessions /\ linkedTo[o] = owner[x])

\* An event is marked processed only after everything it pays for has happened.
CompleteAfterEffects ==
  \A c \in processed :
    IF Product[c] = "single" THEN c \in payments ELSE Granted(c)

\* Every request gets its answer, although handlers lock rows in different orders.
RequestsReturn == \A w \in Workers : pc[w] # "idle" ~> pc[w] = "idle"

\* A credit pack a user paid for is granted in the end, unless the account is deleted
\* first: a delivery that crashed half way is completed by a later one.
PaidPackGranted ==
  \A c \in Checkouts :
    (stripe[c] = "paid" /\ Product[c] \in Packs /\ buyer[c] \in Users)
      ~> (Granted(c) \/ buyer[c] \in deletedUsers)

------------------------------------------------------------------------------
(* The statement-level protocol implements the atomic one.                 *)

CREDIT == "credit"

Bill == INSTANCE Billing WITH
  PackCredits <- [c \in Checkouts |->
                    IF Product[c] = "single" THEN 0 ELSE CreditPackAmount(Product[c])],
  granted <- {c \in Checkouts : Granted(c)},
  funding <- [x \in Extractions |-> IF payStatus[x] = "unpaid" THEN NONE
                                    ELSE IF paymentId[x] = NONE THEN CREDIT
                                    ELSE paymentId[x]]

\* Every step of every interleaving is one of Billing's atomic steps, or changes nothing
\* that Billing sees.
ImplementsBilling == Bill!Spec

------------------------------------------------------------------------------
(* A claim of the repository that this code does not keep (see README.md). *)

\* "Anonymous single-extraction purchases are unlocked by anonymous_session_id"
\* (migration 00017): a guest's paid purchase is never given up as a permanent failure
\* while its extraction stays locked.
GuestPurchaseUnlocks ==
  \A c \in failed :
    (Product[c] = "single" /\ buyer[c] \in Sessions) => payStatus[target[c]] = "paid"
==============================================================================
