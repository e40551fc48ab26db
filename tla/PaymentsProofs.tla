--------------------------- MODULE PaymentsProofs ----------------------------
(***************************************************************************)
(* Proofs about Payments, for any number of users, sessions, extractions,  *)
(* checkouts and workers and any bounds: type correctness, the ledger, what *)
(* a deadlock is made of, and that every request comes to an end.          *)
(***************************************************************************)
EXTENDS Payments, TLAPS

(* What a checkout's metadata holds once it exists. *)
StripeOK ==
  \A c \in Checkouts :
    stripe[c] # "none" =>
      /\ buyer[c] \in Owners
      /\ IF Product[c] = "single" THEN target[c] \in Extractions ELSE target[c] = NONE

(* Only the event of a completed payment is ever answered. *)
AckedOK == \A c \in acked : stripe[c] = "paid"

WebhookPCs == {"wh_claim", "rp_select", "rp_insert", "ac_lock", "ac_grant",
               "rs_select", "rs_insert", "rs_unlock", "wh_complete", "wh_fail"}
PackPCs   == {"rp_select", "rp_insert", "ac_lock", "ac_grant"}
SinglePCs == {"rs_select", "rs_insert", "rs_unlock"}
CreditPCs == {"uc_ext", "uc_user", "uc_commit"}
DeletePCs == {"da_user", "da_ext", "da_send"}
LinkPCs   == {"ln_lock", "ln_move"}

(* What a handler's local variables hold at each of its statements. *)
LocalOK(w) ==
  /\ pc[w] \in WebhookPCs =>
       /\ req[w].co \in Checkouts /\ stripe[req[w].co] = "paid"
       /\ req[w].who = buyer[req[w].co] /\ req[w].ext = target[req[w].co]
  /\ pc[w] \in PackPCs => req[w].who \in Users /\ Product[req[w].co] # "single"
  /\ pc[w] \in SinglePCs => Product[req[w].co] = "single"
  /\ pc[w] \in CreditPCs => req[w].who \in Users /\ req[w].ext \in Extractions
  /\ pc[w] \in DeletePCs => req[w].who \in Users
  /\ pc[w] \in LinkPCs => req[w].who \in Users /\ req[w].sess \in Sessions

RequestOK == \A w \in Workers : LocalOK(w)

TypeInv == TypeOK /\ StripeOK /\ AckedOK /\ RequestOK

------------------------------------------------------------------------------

LEMMA InitTypeInv == Init => TypeInv
  <1> SUFFICES ASSUME Init PROVE TypeInv
    OBVIOUS
  <1> USE ConstantsAssumption DEF Init
  <1>1. NoRequest \in Requests
    BY DEF NoRequest, Request, Requests
  <1>2. TypeOK
    BY <1>1 DEF TypeOK, TablesTypeOK, StripeTypeOK, WorkersTypeOK, PCs, Owners
  <1>3. StripeOK
    BY DEF StripeOK
  <1>4. AckedOK /\ RequestOK
    BY DEF AckedOK, RequestOK, LocalOK, WebhookPCs, PackPCs, SinglePCs, CreditPCs, DeletePCs, LinkPCs
  <1> QED BY <1>2, <1>3, <1>4 DEF TypeInv

(* How the workers' variables keep their types. *)

LEMMA GotoType ==
  ASSUME WorkersTypeOK, NEW w \in Workers, NEW step \in PCs, Goto(w, step), UNCHANGED locals
  PROVE  WorkersTypeOK'
  BY DEF WorkersTypeOK, Goto, locals

LEMMA IdleType ==
  ASSUME WorkersTypeOK, NEW w \in Workers, Idle(w)
  PROVE  WorkersTypeOK'
  <1>1. NoRequest \in Requests
    BY DEF NoRequest, Request, Requests
  <1> QED BY <1>1 DEF WorkersTypeOK, Idle, Goto, PCs

LEMMA TakeType ==
  ASSUME WorkersTypeOK, NEW w \in Workers, NEW step \in PCs, NEW r \in Requests,
         Take(w, step, r)
  PROVE  WorkersTypeOK'
  BY DEF WorkersTypeOK, Take, Goto

LEMMA ReadBalanceType ==
  ASSUME WorkersTypeOK, NEW w \in Workers, NEW step \in PCs, NEW b \in Int,
         Goto(w, step), ReadBalance(w, b)
  PROVE  WorkersTypeOK'
  BY DEF WorkersTypeOK, ReadBalance, Goto

LEMMA WroteType ==
  ASSUME WorkersTypeOK, NEW w \in Workers, NEW step \in PCs, NEW b \in BOOLEAN,
         Goto(w, step), Wrote(w, b)
  PROVE  WorkersTypeOK'
  BY DEF WorkersTypeOK, Wrote, Goto

LEMMA BookType ==
  ASSUME TablesTypeOK, NEW u, NEW row \in LedgerRows, Book(u, row)
  PROVE  balance' \in [Users -> Int] /\ ledger' \in [Users -> Seq(LedgerRows)]
  <1>1. row.after \in Int
    BY DEF LedgerRows
  <1>2. balance' \in [Users -> Int]
    BY <1>1 DEF TablesTypeOK, Book
  <1>3. ASSUME NEW v \in Users PROVE ledger'[v] \in Seq(LedgerRows)
    BY DEF TablesTypeOK, Book
  <1> QED BY <1>2, <1>3 DEF TablesTypeOK, Book

LEMMA StepTypeInv == TypeInv /\ [Next]_vars => TypeInv'
  <1> SUFFICES ASSUME TypeInv, [Next]_vars PROVE TypeInv'
    OBVIOUS
  <1> USE ConstantsAssumption DEF TypeInv, TypeOK, At, tables, external, counters
  <1>1. ASSUME NEW w \in Workers, Claim(w) PROVE TypeInv'
    <2> USE <1>1 DEF Claim
    <2>1. (TablesTypeOK /\ StripeTypeOK)' /\ calls' \in 0..MaxCalls /\ faults' \in 0..MaxFaults
      BY DEF TablesTypeOK, StripeTypeOK, RequestOK, LocalOK, WebhookPCs
    <2>2. WorkersTypeOK'
      BY IdleType, GotoType DEF FirstStep, PCs
    <2>3. (StripeOK /\ AckedOK)'
      BY DEF StripeOK, AckedOK, StripeTypeOK, RequestOK, LocalOK, WebhookPCs
    <2>4. RequestOK'
      BY DEF RequestOK, LocalOK, WorkersTypeOK, StripeTypeOK, WebhookPCs, PackPCs, SinglePCs,
                  CreditPCs, DeletePCs, LinkPCs,
             Goto, Idle, Take, ReadBalance, Wrote, locals, FirstStep, StripeOK, Packs
    <2> QED BY <2>1, <2>2, <2>3, <2>4
  <1>2. ASSUME NEW w \in Workers, RecordPaymentSelect(w) PROVE TypeInv'
    <2> USE <1>2 DEF RecordPaymentSelect
    <2>1. (TablesTypeOK /\ StripeTypeOK)' /\ calls' \in 0..MaxCalls /\ faults' \in 0..MaxFaults
      BY DEF TablesTypeOK, StripeTypeOK
    <2>2. WorkersTypeOK'
      BY GotoType DEF PCs, locals
    <2>3. (StripeOK /\ AckedOK)'
      BY DEF StripeOK, AckedOK, StripeTypeOK
    <2>4. RequestOK'
      BY DEF RequestOK, LocalOK, WorkersTypeOK, StripeTypeOK, WebhookPCs, PackPCs, SinglePCs,
                  CreditPCs, DeletePCs, LinkPCs,
             Goto, Idle, Take, ReadBalance, Wrote, locals
    <2> QED BY <2>1, <2>2, <2>3, <2>4
  <1>3. ASSUME NEW w \in Workers, RecordPaymentInsert(w) PROVE TypeInv'
    <2> USE <1>3 DEF RecordPaymentInsert
    <2>1. (TablesTypeOK /\ StripeTypeOK)' /\ calls' \in 0..MaxCalls /\ faults' \in 0..MaxFaults
      BY DEF TablesTypeOK, StripeTypeOK, RequestOK, LocalOK, WebhookPCs
    <2>2. WorkersTypeOK'
      BY GotoType DEF PCs, locals
    <2>3. (StripeOK /\ AckedOK)'
      BY DEF StripeOK, AckedOK, StripeTypeOK
    <2>4. RequestOK'
      BY DEF RequestOK, LocalOK, WorkersTypeOK, StripeTypeOK, WebhookPCs, PackPCs, SinglePCs,
                  CreditPCs, DeletePCs, LinkPCs,
             Goto, Idle, Take, ReadBalance, Wrote, locals
    <2> QED BY <2>1, <2>2, <2>3, <2>4
  <1>4. ASSUME NEW w \in Workers, AddCreditsLock(w) PROVE TypeInv'
    <2> USE <1>4 DEF AddCreditsLock
    <2>1. (TablesTypeOK /\ StripeTypeOK)' /\ calls' \in 0..MaxCalls /\ faults' \in 0..MaxFaults
      BY DEF TablesTypeOK, StripeTypeOK
    <2>2. WorkersTypeOK'
      <3>1. balance[req[w].who] \in Int
        BY DEF TablesTypeOK, RequestOK, LocalOK, PackPCs
      <3> QED BY <3>1, GotoType, ReadBalanceType DEF PCs
    <2>3. (StripeOK /\ AckedOK)'
      BY DEF StripeOK, AckedOK, StripeTypeOK
    <2>4. RequestOK'
      BY DEF RequestOK, LocalOK, WorkersTypeOK, StripeTypeOK, WebhookPCs, PackPCs, SinglePCs,
                  CreditPCs, DeletePCs, LinkPCs,
             Goto, Idle, Take, ReadBalance, Wrote, locals
    <2> QED BY <2>1, <2>2, <2>3, <2>4
  <1>5. ASSUME NEW w \in Workers, AddCreditsGrant(w) PROVE TypeInv'
    <2> USE <1>5 DEF AddCreditsGrant
    <2>1. (TablesTypeOK /\ StripeTypeOK)' /\ calls' \in 0..MaxCalls /\ faults' \in 0..MaxFaults
      <3>1. Row(CreditPackAmount(Product[req[w].co]), bal[w] + CreditPackAmount(Product[req[w].co]),
               req[w].co, NONE) \in LedgerRows
        BY DEF Row, LedgerRows, CreditPackAmount, WorkersTypeOK, RequestOK, LocalOK, WebhookPCs
      <3> QED BY <3>1, BookType DEF TablesTypeOK, StripeTypeOK
    <2>2. WorkersTypeOK'
      BY GotoType DEF PCs, locals
    <2>3. (StripeOK /\ AckedOK)'
      BY DEF StripeOK, AckedOK, StripeTypeOK
    <2>4. RequestOK'
      BY DEF RequestOK, LocalOK, WorkersTypeOK, StripeTypeOK, WebhookPCs, PackPCs, SinglePCs,
                  CreditPCs, DeletePCs, LinkPCs,
             Goto, Idle, Take, ReadBalance, Wrote, locals
    <2> QED BY <2>1, <2>2, <2>3, <2>4
  <1>6. ASSUME NEW w \in Workers, RecordSingleSelect(w) PROVE TypeInv'
    <2> USE <1>6 DEF RecordSingleSelect
    <2>1. (TablesTypeOK /\ StripeTypeOK)' /\ calls' \in 0..MaxCalls /\ faults' \in 0..MaxFaults
      BY DEF TablesTypeOK, StripeTypeOK
    <2>2. WorkersTypeOK'
      BY GotoType DEF PCs, locals
    <2>3. (StripeOK /\ AckedOK)'
      BY DEF StripeOK, AckedOK, StripeTypeOK
    <2>4. RequestOK'
      BY DEF RequestOK, LocalOK, WorkersTypeOK, StripeTypeOK, WebhookPCs, PackPCs, SinglePCs,
                  CreditPCs, DeletePCs, LinkPCs,
             Goto, Idle, Take, ReadBalance, Wrote, locals
    <2> QED BY <2>1, <2>2, <2>3, <2>4
  <1>7. ASSUME NEW w \in Workers, RecordSingleInsert(w) PROVE TypeInv'
    <2> USE <1>7 DEF RecordSingleInsert
    <2>1. (TablesTypeOK /\ StripeTypeOK)' /\ calls' \in 0..MaxCalls /\ faults' \in 0..MaxFaults
      BY DEF TablesTypeOK, StripeTypeOK
    <2>2. WorkersTypeOK'
      BY IdleType, WroteType DEF PCs
    <2>3. (StripeOK /\ AckedOK)'
      BY DEF StripeOK, AckedOK, StripeTypeOK
    <2>4. RequestOK'
      BY DEF RequestOK, LocalOK, WorkersTypeOK, StripeTypeOK, WebhookPCs, PackPCs, SinglePCs,
                  CreditPCs, DeletePCs, LinkPCs,
             Goto, Idle, Take, ReadBalance, Wrote, locals
    <2> QED BY <2>1, <2>2, <2>3, <2>4
  <1>8. ASSUME NEW w \in Workers, RecordSingleUnlock(w) PROVE TypeInv'
    <2> USE <1>8 DEF RecordSingleUnlock
    <2>1. (TablesTypeOK /\ StripeTypeOK)' /\ calls' \in 0..MaxCalls /\ faults' \in 0..MaxFaults
      <3>1. req[w].co \in Checkouts
        BY DEF RequestOK, LocalOK, WebhookPCs
      <3>2. CASE Unlockable(w)
        <4>1. /\ payStatus' \in [Extractions -> {"unpaid", "paid"}]
              /\ paymentId' \in [Extractions -> Checkouts \cup {NONE}]
          BY <3>1, <3>2 DEF TablesTypeOK
        <4> QED BY <3>1, <3>2, <4>1 DEF TablesTypeOK, StripeTypeOK
      <3>3. CASE ~Unlockable(w)
        BY <3>3 DEF TablesTypeOK, StripeTypeOK
      <3> QED BY <3>2, <3>3
    <2>2. WorkersTypeOK'
      BY GotoType DEF PCs, locals
    <2>3. (StripeOK /\ AckedOK)'
      BY DEF StripeOK, AckedOK, StripeTypeOK
    <2>4. RequestOK'
      BY DEF RequestOK, LocalOK, WorkersTypeOK, StripeTypeOK, WebhookPCs, PackPCs, SinglePCs,
                  CreditPCs, DeletePCs, LinkPCs,
             Goto, Idle, Take, ReadBalance, Wrote, locals
    <2> QED BY <2>1, <2>2, <2>3, <2>4
  <1>9. ASSUME NEW w \in Workers, CompleteEvent(w) PROVE TypeInv'
    <2> USE <1>9 DEF CompleteEvent
    <2>1. (TablesTypeOK /\ StripeTypeOK)' /\ calls' \in 0..MaxCalls /\ faults' \in 0..MaxFaults
      BY DEF TablesTypeOK, StripeTypeOK, RequestOK, LocalOK, WebhookPCs
    <2>2. WorkersTypeOK'
      BY IdleType
    <2>3. (StripeOK /\ AckedOK)'
      BY DEF StripeOK, AckedOK, StripeTypeOK, RequestOK, LocalOK, WebhookPCs
    <2>4. RequestOK'
      BY DEF RequestOK, LocalOK, WorkersTypeOK, StripeTypeOK, WebhookPCs, PackPCs, SinglePCs,
                  CreditPCs, DeletePCs, LinkPCs,
             Goto, Idle, Take, ReadBalance, Wrote, locals
    <2> QED BY <2>1, <2>2, <2>3, <2>4
  <1>10. ASSUME NEW w \in Workers, FailEvent(w) PROVE TypeInv'
    <2> USE <1>10 DEF FailEvent
    <2>1. (TablesTypeOK /\ StripeTypeOK)' /\ calls' \in 0..MaxCalls /\ faults' \in 0..MaxFaults
      BY DEF TablesTypeOK, StripeTypeOK, RequestOK, LocalOK, WebhookPCs
    <2>2. WorkersTypeOK'
      BY IdleType
    <2>3. (StripeOK /\ AckedOK)'
      BY DEF StripeOK, AckedOK, StripeTypeOK, RequestOK, LocalOK, WebhookPCs
    <2>4. RequestOK'
      BY DEF RequestOK, LocalOK, WorkersTypeOK, StripeTypeOK, WebhookPCs, PackPCs, SinglePCs,
                  CreditPCs, DeletePCs, LinkPCs,
             Goto, Idle, Take, ReadBalance, Wrote, locals
    <2> QED BY <2>1, <2>2, <2>3, <2>4
  <1>11. ASSUME NEW w \in Workers, UseCreditLockExtraction(w) PROVE TypeInv'
    <2> USE <1>11 DEF UseCreditLockExtraction
    <2>1. (TablesTypeOK /\ StripeTypeOK)' /\ calls' \in 0..MaxCalls /\ faults' \in 0..MaxFaults
      BY DEF TablesTypeOK, StripeTypeOK
    <2>2. WorkersTypeOK'
      BY IdleType, GotoType DEF PCs
    <2>3. (StripeOK /\ AckedOK)'
      BY DEF StripeOK, AckedOK, StripeTypeOK
    <2>4. RequestOK'
      BY DEF RequestOK, LocalOK, WorkersTypeOK, StripeTypeOK, WebhookPCs, PackPCs, SinglePCs,
                  CreditPCs, DeletePCs, LinkPCs,
             Goto, Idle, Take, ReadBalance, Wrote, locals
    <2> QED BY <2>1, <2>2, <2>3, <2>4
  <1>12. ASSUME NEW w \in Workers, UseCreditLockUser(w) PROVE TypeInv'
    <2> USE <1>12 DEF UseCreditLockUser
    <2>1. (TablesTypeOK /\ StripeTypeOK)' /\ calls' \in 0..MaxCalls /\ faults' \in 0..MaxFaults
      BY DEF TablesTypeOK, StripeTypeOK
    <2>2. WorkersTypeOK'
      <3>1. balance[req[w].who] \in Int
        BY DEF TablesTypeOK, RequestOK, LocalOK, CreditPCs
      <3> QED BY <3>1, IdleType, ReadBalanceType DEF PCs
    <2>3. (StripeOK /\ AckedOK)'
      BY DEF StripeOK, AckedOK, StripeTypeOK
    <2>4. RequestOK'
      BY DEF RequestOK, LocalOK, WorkersTypeOK, StripeTypeOK, WebhookPCs, PackPCs, SinglePCs,
                  CreditPCs, DeletePCs, LinkPCs,
             Goto, Idle, Take, ReadBalance, Wrote, locals
    <2> QED BY <2>1, <2>2, <2>3, <2>4
  <1>13. ASSUME NEW w \in Workers, UseCreditCommit(w) PROVE TypeInv'
    <2> USE <1>13 DEF UseCreditCommit
    <2>1. (TablesTypeOK /\ StripeTypeOK)' /\ calls' \in 0..MaxCalls /\ faults' \in 0..MaxFaults
      <3>1. Row(-1, bal[w] - 1, NONE, req[w].ext) \in LedgerRows
        BY DEF Row, LedgerRows, WorkersTypeOK, RequestOK, LocalOK, CreditPCs
      <3> QED BY <3>1, BookType DEF TablesTypeOK, StripeTypeOK
    <2>2. WorkersTypeOK'
      BY IdleType
    <2>3. (StripeOK /\ AckedOK)'
      BY DEF StripeOK, AckedOK, StripeTypeOK
    <2>4. RequestOK'
      BY DEF RequestOK, LocalOK, WorkersTypeOK, StripeTypeOK, WebhookPCs, PackPCs, SinglePCs,
                  CreditPCs, DeletePCs, LinkPCs,
             Goto, Idle, Take, ReadBalance, Wrote, locals
    <2> QED BY <2>1, <2>2, <2>3, <2>4
  <1>14. ASSUME NEW w \in Workers, DeleteAccountUser(w) PROVE TypeInv'
    <2> USE <1>14 DEF DeleteAccountUser
    <2>1. (TablesTypeOK /\ StripeTypeOK)' /\ calls' \in 0..MaxCalls /\ faults' \in 0..MaxFaults
      BY DEF TablesTypeOK, StripeTypeOK
    <2>2. WorkersTypeOK'
      BY WroteType DEF PCs
    <2>3. (StripeOK /\ AckedOK)'
      BY DEF StripeOK, AckedOK, StripeTypeOK
    <2>4. RequestOK'
      BY DEF RequestOK, LocalOK, WorkersTypeOK, StripeTypeOK, WebhookPCs, PackPCs, SinglePCs,
                  CreditPCs, DeletePCs, LinkPCs,
             Goto, Idle, Take, ReadBalance, Wrote, locals
    <2> QED BY <2>1, <2>2, <2>3, <2>4
  <1>15. ASSUME NEW w \in Workers, DeleteAccountCommit(w) PROVE TypeInv'
    <2> USE <1>15 DEF DeleteAccountCommit
    <2>1. (TablesTypeOK /\ StripeTypeOK)' /\ calls' \in 0..MaxCalls /\ faults' \in 0..MaxFaults
      BY DEF TablesTypeOK, StripeTypeOK, OwnedBy, RequestOK, LocalOK, DeletePCs
    <2>2. WorkersTypeOK'
      BY GotoType DEF PCs, locals
    <2>3. (StripeOK /\ AckedOK)'
      BY DEF StripeOK, AckedOK, StripeTypeOK
    <2>4. RequestOK'
      BY DEF RequestOK, LocalOK, WorkersTypeOK, StripeTypeOK, WebhookPCs, PackPCs, SinglePCs,
                  CreditPCs, DeletePCs, LinkPCs,
             Goto, Idle, Take, ReadBalance, Wrote, locals
    <2> QED BY <2>1, <2>2, <2>3, <2>4
  <1>16. ASSUME NEW w \in Workers, DeleteAccountSend(w) PROVE TypeInv'
    <2> USE <1>16 DEF DeleteAccountSend
    <2>1. (TablesTypeOK /\ StripeTypeOK)' /\ calls' \in 0..MaxCalls /\ faults' \in 0..MaxFaults
      BY DEF TablesTypeOK, StripeTypeOK, RequestOK, LocalOK, DeletePCs
    <2>2. WorkersTypeOK'
      BY IdleType
    <2>3. (StripeOK /\ AckedOK)'
      BY DEF StripeOK, AckedOK, StripeTypeOK
    <2>4. RequestOK'
      BY DEF RequestOK, LocalOK, WorkersTypeOK, StripeTypeOK, WebhookPCs, PackPCs, SinglePCs,
                  CreditPCs, DeletePCs, LinkPCs,
             Goto, Idle, Take, ReadBalance, Wrote, locals
    <2> QED BY <2>1, <2>2, <2>3, <2>4
  <1>17. ASSUME NEW w \in Workers, LinkLockSession(w) PROVE TypeInv'
    <2> USE <1>17 DEF LinkLockSession
    <2>1. (TablesTypeOK /\ StripeTypeOK)' /\ calls' \in 0..MaxCalls /\ faults' \in 0..MaxFaults
      BY DEF TablesTypeOK, StripeTypeOK
    <2>2. WorkersTypeOK'
      BY IdleType, GotoType DEF PCs
    <2>3. (StripeOK /\ AckedOK)'
      BY DEF StripeOK, AckedOK, StripeTypeOK
    <2>4. RequestOK'
      BY DEF RequestOK, LocalOK, WorkersTypeOK, StripeTypeOK, WebhookPCs, PackPCs, SinglePCs,
                  CreditPCs, DeletePCs, LinkPCs,
             Goto, Idle, Take, ReadBalance, Wrote, locals
    <2> QED BY <2>1, <2>2, <2>3, <2>4
  <1>18. ASSUME NEW w \in Workers, LinkTransfer(w) PROVE TypeInv'
    <2> USE <1>18 DEF LinkTransfer
    <2>1. (TablesTypeOK /\ StripeTypeOK)' /\ calls' \in 0..MaxCalls /\ faults' \in 0..MaxFaults
      BY DEF TablesTypeOK, StripeTypeOK, Owners, RequestOK, LocalOK, LinkPCs
    <2>2. WorkersTypeOK'
      BY IdleType
    <2>3. (StripeOK /\ AckedOK)'
      BY DEF StripeOK, AckedOK, StripeTypeOK
    <2>4. RequestOK'
      BY DEF RequestOK, LocalOK, WorkersTypeOK, StripeTypeOK, WebhookPCs, PackPCs, SinglePCs,
                  CreditPCs, DeletePCs, LinkPCs,
             Goto, Idle, Take, ReadBalance, Wrote, locals
    <2> QED BY <2>1, <2>2, <2>3, <2>4
  <1>19. ASSUME NEW w \in Workers, Crash(w) PROVE TypeInv'
    <2> USE <1>19 DEF Crash
    <2>1. (TablesTypeOK /\ StripeTypeOK)' /\ calls' \in 0..MaxCalls /\ faults' \in 0..MaxFaults
      BY DEF TablesTypeOK, StripeTypeOK
    <2>2. WorkersTypeOK'
      BY IdleType
    <2>3. (StripeOK /\ AckedOK)'
      BY DEF StripeOK, AckedOK, StripeTypeOK
    <2>4. RequestOK'
      BY DEF RequestOK, LocalOK, WorkersTypeOK, StripeTypeOK, WebhookPCs, PackPCs, SinglePCs,
                  CreditPCs, DeletePCs, LinkPCs,
             Goto, Idle, Take, ReadBalance, Wrote, locals
    <2> QED BY <2>1, <2>2, <2>3, <2>4
  <1>20. ASSUME NEW w \in Workers, DeadlockVictim(w) PROVE TypeInv'
    <2> USE <1>20 DEF DeadlockVictim
    <2>1. (TablesTypeOK /\ StripeTypeOK)' /\ calls' \in 0..MaxCalls /\ faults' \in 0..MaxFaults
      BY DEF TablesTypeOK, StripeTypeOK
    <2>2. WorkersTypeOK'
      BY IdleType
    <2>3. (StripeOK /\ AckedOK)'
      BY DEF StripeOK, AckedOK, StripeTypeOK
    <2>4. RequestOK'
      BY DEF RequestOK, LocalOK, WorkersTypeOK, StripeTypeOK, WebhookPCs, PackPCs, SinglePCs,
                  CreditPCs, DeletePCs, LinkPCs,
             Goto, Idle, Take, ReadBalance, Wrote, locals
    <2> QED BY <2>1, <2>2, <2>3, <2>4
  <1>21. ASSUME NEW w \in Workers, NEW c \in Checkouts, Deliver(w, c) PROVE TypeInv'
    <2> USE <1>21 DEF Deliver
    <2>1. (TablesTypeOK /\ StripeTypeOK)' /\ calls' \in 0..MaxCalls /\ faults' \in 0..MaxFaults
      BY DEF TablesTypeOK, StripeTypeOK
    <2>2. WorkersTypeOK'
      <3>1. EventRequest(c) \in Requests
        BY DEF EventRequest, Request, Requests, StripeTypeOK
      <3> QED BY <3>1, TakeType DEF PCs
    <2>3. (StripeOK /\ AckedOK)'
      BY DEF StripeOK, AckedOK, StripeTypeOK
    <2>4. RequestOK'
      BY DEF RequestOK, LocalOK, WorkersTypeOK, StripeTypeOK, WebhookPCs, PackPCs, SinglePCs,
                  CreditPCs, DeletePCs, LinkPCs,
             Goto, Idle, Take, ReadBalance, Wrote, locals, EventRequest, Request, AckedOK
    <2> QED BY <2>1, <2>2, <2>3, <2>4
  <1>22. ASSUME NEW w \in Workers, NEW c \in Checkouts, DeliverAgain(w, c) PROVE TypeInv'
    <2> USE <1>22 DEF DeliverAgain
    <2>1. (TablesTypeOK /\ StripeTypeOK)' /\ calls' \in 0..MaxCalls /\ faults' \in 0..MaxFaults
      BY DEF TablesTypeOK, StripeTypeOK
    <2>2. WorkersTypeOK'
      <3>1. EventRequest(c) \in Requests
        BY DEF EventRequest, Request, Requests, StripeTypeOK
      <3> QED BY <3>1, TakeType DEF PCs
    <2>3. (StripeOK /\ AckedOK)'
      BY DEF StripeOK, AckedOK, StripeTypeOK
    <2>4. RequestOK'
      BY DEF RequestOK, LocalOK, WorkersTypeOK, StripeTypeOK, WebhookPCs, PackPCs, SinglePCs,
                  CreditPCs, DeletePCs, LinkPCs,
             Goto, Idle, Take, ReadBalance, Wrote, locals, EventRequest, Request, AckedOK
    <2> QED BY <2>1, <2>2, <2>3, <2>4
  <1>23. ASSUME NEW w \in Workers, NEW u \in Users, NEW x \in Extractions, StartUseCredit(w, u, x) PROVE TypeInv'
    <2> USE <1>23 DEF StartUseCredit
    <2>1. (TablesTypeOK /\ StripeTypeOK)' /\ calls' \in 0..MaxCalls /\ faults' \in 0..MaxFaults
      BY DEF TablesTypeOK, StripeTypeOK, ClientCall
    <2>2. WorkersTypeOK'
      <3>1. Request(u, x, NONE, NONE) \in Requests
        BY DEF Request, Requests, Owners
      <3> QED BY <3>1, TakeType DEF PCs
    <2>3. (StripeOK /\ AckedOK)'
      BY DEF StripeOK, AckedOK, StripeTypeOK
    <2>4. RequestOK'
      BY DEF RequestOK, LocalOK, WorkersTypeOK, StripeTypeOK, WebhookPCs, PackPCs, SinglePCs,
                  CreditPCs, DeletePCs, LinkPCs,
             Goto, Idle, Take, ReadBalance, Wrote, locals, Request
    <2> QED BY <2>1, <2>2, <2>3, <2>4
  <1>24. ASSUME NEW w \in Workers, NEW u \in Users, StartDeleteAccount(w, u) PROVE TypeInv'
    <2> USE <1>24 DEF StartDeleteAccount
    <2>1. (TablesTypeOK /\ StripeTypeOK)' /\ calls' \in 0..MaxCalls /\ faults' \in 0..MaxFaults
      BY DEF TablesTypeOK, StripeTypeOK, ClientCall
    <2>2. WorkersTypeOK'
      <3>1. Request(u, NONE, NONE, NONE) \in Requests
        BY DEF Request, Requests, Owners
      <3> QED BY <3>1, TakeType DEF PCs
    <2>3. (StripeOK /\ AckedOK)'
      BY DEF StripeOK, AckedOK, StripeTypeOK
    <2>4. RequestOK'
      BY DEF RequestOK, LocalOK, WorkersTypeOK, StripeTypeOK, WebhookPCs, PackPCs, SinglePCs,
                  CreditPCs, DeletePCs, LinkPCs,
             Goto, Idle, Take, ReadBalance, Wrote, locals, Request
    <2> QED BY <2>1, <2>2, <2>3, <2>4
  <1>25. ASSUME NEW w \in Workers, NEW u \in Users, NEW s \in Sessions, StartLink(w, u, s) PROVE TypeInv'
    <2> USE <1>25 DEF StartLink
    <2>1. (TablesTypeOK /\ StripeTypeOK)' /\ calls' \in 0..MaxCalls /\ faults' \in 0..MaxFaults
      BY DEF TablesTypeOK, StripeTypeOK, ClientCall
    <2>2. WorkersTypeOK'
      <3>1. Request(u, NONE, NONE, s) \in Requests
        BY DEF Request, Requests, Owners
      <3> QED BY <3>1, TakeType DEF PCs
    <2>3. (StripeOK /\ AckedOK)'
      BY DEF StripeOK, AckedOK, StripeTypeOK
    <2>4. RequestOK'
      BY DEF RequestOK, LocalOK, WorkersTypeOK, StripeTypeOK, WebhookPCs, PackPCs, SinglePCs,
                  CreditPCs, DeletePCs, LinkPCs,
             Goto, Idle, Take, ReadBalance, Wrote, locals, Request
    <2> QED BY <2>1, <2>2, <2>3, <2>4
  <1>26. ASSUME NEW c \in Checkouts, NEW o \in Owners, NEW x \in Extractions \cup {NONE}, CreateCheckout(c, o, x) PROVE TypeInv'
    <2> USE <1>26 DEF CreateCheckout
    <2>1. (TablesTypeOK /\ StripeTypeOK)' /\ calls' \in 0..MaxCalls /\ faults' \in 0..MaxFaults
      BY DEF TablesTypeOK, StripeTypeOK, ClientCall
    <2>2. WorkersTypeOK'
      BY DEF WorkersTypeOK, locals
    <2>3. (StripeOK /\ AckedOK)'
      BY DEF StripeOK, AckedOK, StripeTypeOK, CheckoutAllowed
    <2>4. RequestOK'
      BY DEF RequestOK, LocalOK, WorkersTypeOK, StripeTypeOK, WebhookPCs, PackPCs, SinglePCs,
                  CreditPCs, DeletePCs, LinkPCs,
             Goto, Idle, Take, ReadBalance, Wrote, locals
    <2> QED BY <2>1, <2>2, <2>3, <2>4
  <1>27. ASSUME NEW c \in Checkouts, CustomerPays(c) PROVE TypeInv'
    <2> USE <1>27 DEF CustomerPays
    <2>1. (TablesTypeOK /\ StripeTypeOK)' /\ calls' \in 0..MaxCalls /\ faults' \in 0..MaxFaults
      BY DEF TablesTypeOK, StripeTypeOK
    <2>2. WorkersTypeOK'
      BY DEF WorkersTypeOK, locals
    <2>3. (StripeOK /\ AckedOK)'
      BY DEF StripeOK, AckedOK, StripeTypeOK
    <2>4. RequestOK'
      BY DEF RequestOK, LocalOK, WorkersTypeOK, StripeTypeOK, WebhookPCs, PackPCs, SinglePCs,
                  CreditPCs, DeletePCs, LinkPCs,
             Goto, Idle, Take, ReadBalance, Wrote, locals
    <2> QED BY <2>1, <2>2, <2>3, <2>4
  <1>28. ASSUME NEW s \in Sessions, ExpireSession(s) PROVE TypeInv'
    <2> USE <1>28 DEF ExpireSession
    <2>1. (TablesTypeOK /\ StripeTypeOK)' /\ calls' \in 0..MaxCalls /\ faults' \in 0..MaxFaults
      BY DEF TablesTypeOK, StripeTypeOK
    <2>2. WorkersTypeOK'
      BY DEF WorkersTypeOK, locals
    <2>3. (StripeOK /\ AckedOK)'
      BY DEF StripeOK, AckedOK, StripeTypeOK
    <2>4. RequestOK'
      BY DEF RequestOK, LocalOK, WorkersTypeOK, StripeTypeOK, WebhookPCs, PackPCs, SinglePCs,
                  CreditPCs, DeletePCs, LinkPCs,
             Goto, Idle, Take, ReadBalance, Wrote, locals
    <2> QED BY <2>1, <2>2, <2>3, <2>4
  <1>29. ASSUME NEW x \in Extractions, SoftDeleteExtraction(x) PROVE TypeInv'
    <2> USE <1>29 DEF SoftDeleteExtraction
    <2>1. (TablesTypeOK /\ StripeTypeOK)' /\ calls' \in 0..MaxCalls /\ faults' \in 0..MaxFaults
      BY DEF TablesTypeOK, StripeTypeOK, ClientCall
    <2>2. WorkersTypeOK'
      BY DEF WorkersTypeOK, locals
    <2>3. (StripeOK /\ AckedOK)'
      BY DEF StripeOK, AckedOK, StripeTypeOK
    <2>4. RequestOK'
      BY DEF RequestOK, LocalOK, WorkersTypeOK, StripeTypeOK, WebhookPCs, PackPCs, SinglePCs,
                  CreditPCs, DeletePCs, LinkPCs,
             Goto, Idle, Take, ReadBalance, Wrote, locals
    <2> QED BY <2>1, <2>2, <2>3, <2>4
  <1>30. CASE UNCHANGED vars
    BY <1>30 DEF vars, locals, TablesTypeOK, StripeTypeOK, WorkersTypeOK, StripeOK, AckedOK,
              RequestOK, LocalOK
  <1> QED
    BY <1>1, <1>2, <1>3, <1>4, <1>5, <1>6, <1>7, <1>8, <1>9, <1>10, <1>11, <1>12, <1>13,
       <1>14, <1>15, <1>16, <1>17, <1>18, <1>19, <1>20, <1>21, <1>22, <1>23, <1>24, <1>25,
       <1>26, <1>27, <1>28, <1>29, <1>30
    DEF Next, Handle, Webhook, UseCredit, DeleteAccount, Link, Start, Environment

(* Every variable always has its type. *)
THEOREM TypeCorrect == SafetySpec => []TypeOK
  <1>1. TypeInv => TypeOK
    BY DEF TypeInv
  <1> QED BY InitTypeInv, StepTypeInv, <1>1, PTL DEF SafetySpec

------------------------------------------------------------------------------
(* The balance a worker read stays the balance while it holds the lock.    *)

HeldPCs == {"ac_grant", "uc_commit"}

HeldBalance ==
  \A w \in Workers : pc[w] \in HeldPCs =>
    /\ bal[w] = balance[req[w].who]
    /\ pc[w] = "uc_commit" => bal[w] >= 1
    /\ \A v \in Workers : v # w /\ pc[v] \in HeldPCs => req[v].who # req[w].who

(* The statements that take or release the FOR UPDATE lock on a user row.  *)
LockStep(w) ==
  AddCreditsLock(w) \/ UseCreditLockUser(w) \/ AddCreditsGrant(w) \/ UseCreditCommit(w)

(* What every other step leaves alone. *)
HeldUnchanged ==
  /\ UNCHANGED <<balance, ledger>>
  /\ \A v \in Workers : pc'[v] \in HeldPCs =>
       pc'[v] = pc[v] /\ req'[v] = req[v] /\ bal'[v] = bal[v]

LEMMA HeldFrame ==
  ASSUME TypeOK, [Next]_vars
  PROVE  HeldUnchanged \/ \E w \in Workers : LockStep(w)
  <1> USE DEF HeldUnchanged, HeldPCs, TypeOK, WorkersTypeOK, At, Goto, tables, external,
              counters, locals
  <1>1. ASSUME NEW w \in Workers, Webhook(w), ~LockStep(w) PROVE HeldUnchanged
    BY <1>1 DEF LockStep, Webhook, Claim, FirstStep, RecordPaymentSelect, RecordPaymentInsert,
       RecordSingleSelect, RecordSingleInsert, RecordSingleUnlock, CompleteEvent, FailEvent,
       Idle, Wrote
  <1>2. ASSUME NEW w \in Workers, UseCredit(w), ~LockStep(w) PROVE HeldUnchanged
    BY <1>2 DEF LockStep, UseCredit, UseCreditLockExtraction, Idle
  <1>3. ASSUME NEW w \in Workers, DeleteAccount(w) PROVE HeldUnchanged
    BY <1>3 DEF DeleteAccount, DeleteAccountUser, DeleteAccountCommit, DeleteAccountSend,
       Idle, Wrote
  <1>4. ASSUME NEW w \in Workers, Link(w) PROVE HeldUnchanged
    BY <1>4 DEF Link, LinkLockSession, LinkTransfer, Idle
  <1>5. ASSUME NEW w \in Workers, Start(w) PROVE HeldUnchanged
    BY <1>5 DEF Start, Deliver, DeliverAgain, StartUseCredit, StartDeleteAccount, StartLink,
       Take
  <1>6. ASSUME NEW w \in Workers, Crash(w) \/ DeadlockVictim(w) PROVE HeldUnchanged
    BY <1>6 DEF Crash, DeadlockVictim, Idle
  <1>7. ASSUME Environment PROVE HeldUnchanged
    BY <1>7 DEF Environment, CreateCheckout, CustomerPays, ExpireSession, SoftDeleteExtraction
  <1>8. CASE UNCHANGED vars
    BY <1>8 DEF vars
  <1> QED BY <1>1, <1>2, <1>3, <1>4, <1>5, <1>6, <1>7, <1>8 DEF Next, Handle

LEMMA InitHeldBalance == Init => HeldBalance
  BY DEF Init, HeldBalance, HeldPCs

LEMMA StepHeldBalance == TypeInv /\ HeldBalance /\ [Next]_vars => HeldBalance'
  <1> SUFFICES ASSUME TypeInv, HeldBalance, [Next]_vars PROVE HeldBalance'
    OBVIOUS
  <1> USE DEF TypeInv, TypeOK, WorkersTypeOK, TablesTypeOK, HeldBalance, HeldPCs
  <1>1. CASE HeldUnchanged
    BY <1>1 DEF HeldUnchanged
  <1>2. ASSUME NEW w \in Workers, NEW u \in Users, u = req[w].who,
               At(w, "ac_lock") \/ At(w, "uc_user"), u \notin deletedUsers
        PROVE  \A v \in Workers : v # w /\ pc[v] \in HeldPCs => req[v].who # u
    BY <1>2 DEF At, WaitsFor, UserTaken, UserLock, Conflicting
  <1>3. ASSUME NEW w \in Workers, AddCreditsLock(w) PROVE HeldBalance'
    <2>1. At(w, "ac_lock") /\ req[w].who \in Users
      BY <1>3 DEF AddCreditsLock, At, RequestOK, LocalOK, PackPCs
    <2>2. CASE req[w].who \in deletedUsers
      BY <1>3, <2>2 DEF AddCreditsLock, Goto, tables, locals
    <2>3. CASE req[w].who \notin deletedUsers
      <3>1. \A v \in Workers : v # w /\ pc[v] \in HeldPCs => req[v].who # req[w].who
        BY <1>2, <2>1, <2>3
      <3>2. /\ pc' = [pc EXCEPT ![w] = "ac_grant"] /\ req' = req /\ balance' = balance
            /\ bal' = [bal EXCEPT ![w] = balance[req[w].who]]
        BY <1>3, <2>3 DEF AddCreditsLock, Goto, ReadBalance, tables
      <3> QED BY <3>1, <3>2
    <2> QED BY <2>2, <2>3
  <1>4. ASSUME NEW w \in Workers, UseCreditLockUser(w) PROVE HeldBalance'
    <2>1. At(w, "uc_user") /\ req[w].who \in Users
      BY <1>4 DEF UseCreditLockUser, At, RequestOK, LocalOK, CreditPCs
    <2>2. CASE ~(req[w].who \notin deletedUsers /\ balance[req[w].who] >= 1)
      <3>1. /\ pc' = [pc EXCEPT ![w] = "idle"] /\ balance' = balance
            /\ \A v \in Workers : v # w => req'[v] = req[v] /\ bal'[v] = bal[v]
        BY <1>4, <2>2 DEF UseCreditLockUser, Goto, Idle, tables
      <3> QED BY <3>1
    <2>3. CASE req[w].who \notin deletedUsers /\ balance[req[w].who] >= 1
      <3>1. \A v \in Workers : v # w /\ pc[v] \in HeldPCs => req[v].who # req[w].who
        BY <1>2, <2>1, <2>3
      <3>2. /\ pc' = [pc EXCEPT ![w] = "uc_commit"] /\ req' = req /\ balance' = balance
            /\ bal' = [bal EXCEPT ![w] = balance[req[w].who]]
        BY <1>4, <2>3 DEF UseCreditLockUser, Goto, ReadBalance, tables
      <3> QED BY <2>3, <3>1, <3>2
    <2> QED BY <2>2, <2>3
  <1>5. ASSUME NEW w \in Workers, AddCreditsGrant(w) \/ UseCreditCommit(w) PROVE HeldBalance'
    <2>1. pc[w] \in HeldPCs
      BY <1>5 DEF AddCreditsGrant, UseCreditCommit, At
    <2>2. \A u \in Users : u # req[w].who => balance'[u] = balance[u]
      BY <1>5 DEF AddCreditsGrant, UseCreditCommit, Book
    <2>3. ASSUME NEW v \in Workers, pc'[v] \in HeldPCs
          PROVE  v # w /\ pc'[v] = pc[v] /\ req'[v] = req[v] /\ bal'[v] = bal[v]
      BY <1>5, <2>3 DEF AddCreditsGrant, UseCreditCommit, Goto, Idle, locals
    <2>4. \A v \in Workers : pc[v] \in HeldPCs => req[v].who \in Users
      BY DEF RequestOK, LocalOK, PackPCs, CreditPCs
    <2>5. ASSUME NEW v \in Workers, pc'[v] \in HeldPCs
          PROVE  bal'[v] = balance'[req'[v].who]
      <3>1. v # w /\ pc[v] \in HeldPCs /\ req'[v] = req[v] /\ bal'[v] = bal[v]
        BY <2>3, <2>5
      <3>2. req[v].who # req[w].who /\ req[v].who \in Users
        BY <2>1, <2>4, <3>1
      <3> QED BY <2>2, <3>1, <3>2
    <2> QED BY <2>1, <2>3, <2>5
  <1> QED BY <1>1, <1>3, <1>4, <1>5, HeldFrame DEF LockStep

------------------------------------------------------------------------------
(* The ledger.                                                             *)

LEMMA BalanceNat ==
  ASSUME TablesTypeOK, LedgerChain, NEW u \in Users
  PROVE  balance[u] \in Nat
  <1>1. CASE ledger[u] = <<>>
    BY <1>1 DEF LedgerChain
  <1>2. CASE ledger[u] # <<>>
    <2>1. Len(ledger[u]) \in 1..Len(ledger[u])
      BY <1>2 DEF TablesTypeOK
    <2> QED BY <1>2, <2>1 DEF LedgerChain, TablesTypeOK
  <1> QED BY <1>1, <1>2

(* Booking a row that continues the chain of its user keeps every chain. *)
LEMMA BookChain ==
  ASSUME TablesTypeOK, LedgerChain, NEW u \in Users, NEW row \in LedgerRows, Book(u, row),
         row.after >= 0, row.after = balance[u] + row.amount
  PROVE  LedgerChain'
  <1>1. ASSUME NEW v \in Users, v # u
        PROVE  balance'[v] = balance[v] /\ ledger'[v] = ledger[v]
    BY <1>1 DEF Book, TablesTypeOK
  <1>2. balance'[u] = row.after /\ ledger'[u] = Append(ledger[u], row)
    BY DEF Book, TablesTypeOK
  <1>3. ledger[u] \in Seq(LedgerRows)
    BY DEF TablesTypeOK
  <1>4. /\ Len(ledger'[u]) = Len(ledger[u]) + 1
        /\ ledger'[u][Len(ledger[u]) + 1] = row
        /\ \A i \in 1..Len(ledger[u]) : ledger'[u][i] = ledger[u][i]
    BY <1>2, <1>3
  <1>5. row.amount \in Int /\ row.after \in Int
    BY DEF LedgerRows
  <1>6. balance'[u] = IF ledger'[u] = <<>> THEN 0 ELSE ledger'[u][Len(ledger'[u])].after
    BY <1>2, <1>3, <1>4
  <1>7. ASSUME NEW i \in 1..Len(ledger'[u])
        PROVE  /\ ledger'[u][i].after >= 0
               /\ ledger'[u][i].after =
                    ledger'[u][i].amount + IF i = 1 THEN 0 ELSE ledger'[u][i - 1].after
    <2>1. CASE i \in 1..Len(ledger[u])
      <3>1. ledger'[u][i] = ledger[u][i] /\ (i # 1 => ledger'[u][i - 1] = ledger[u][i - 1])
        BY <1>3, <1>4, <2>1
      <3> QED BY <2>1, <3>1 DEF LedgerChain
    <2>2. CASE i = Len(ledger[u]) + 1
      <3>1. balance[u] = IF i = 1 THEN 0 ELSE ledger[u][i - 1].after
        BY <1>3, <2>2 DEF LedgerChain
      <3>2. i # 1 => ledger'[u][i - 1] = ledger[u][i - 1]
        BY <1>3, <1>4, <2>2
      <3>3. balance[u] \in Int
        BY DEF TablesTypeOK
      <3> QED BY <1>4, <1>5, <2>2, <3>1, <3>2, <3>3
    <2> QED BY <1>3, <1>4, <2>1, <2>2
  <1> QED BY <1>1, <1>6, <1>7 DEF LedgerChain

(* What the two booking statements append. *)
GrantRow(w) == Row(CreditPackAmount(Product[req[w].co]),
                   bal[w] + CreditPackAmount(Product[req[w].co]), req[w].co, NONE)
SpendRow(w) == Row(-1, bal[w] - 1, NONE, req[w].ext)

LEMMA GrantRowType ==
  ASSUME TypeInv, NEW w \in Workers, pc[w] = "ac_grant"
  PROVE  GrantRow(w) \in LedgerRows /\ req[w].who \in Users /\ req[w].co \in Checkouts
  BY DEF TypeInv, TypeOK, WorkersTypeOK, RequestOK, LocalOK, WebhookPCs, PackPCs, GrantRow,
         Row, LedgerRows, CreditPackAmount

LEMMA SpendRowType ==
  ASSUME TypeInv, NEW w \in Workers, pc[w] = "uc_commit"
  PROVE  SpendRow(w) \in LedgerRows /\ req[w].who \in Users /\ req[w].ext \in Extractions
  BY DEF TypeInv, TypeOK, WorkersTypeOK, RequestOK, LocalOK, CreditPCs, SpendRow, Row,
         LedgerRows

LEMMA InitLedgerChain == Init => LedgerChain
  BY DEF Init, LedgerChain

LEMMA StepLedgerChain == TypeInv /\ HeldBalance /\ LedgerChain /\ [Next]_vars => LedgerChain'
  <1> SUFFICES ASSUME TypeInv, HeldBalance, LedgerChain, [Next]_vars PROVE LedgerChain'
    OBVIOUS
  <1> USE DEF TypeInv, TypeOK
  <1>1. CASE UNCHANGED <<balance, ledger>>
    BY <1>1 DEF LedgerChain
  <1>2. ASSUME NEW w \in Workers, AddCreditsLock(w) \/ UseCreditLockUser(w)
        PROVE  LedgerChain'
    BY <1>1, <1>2 DEF AddCreditsLock, UseCreditLockUser, tables
  <1>3. ASSUME NEW w \in Workers, AddCreditsGrant(w) PROVE LedgerChain'
    <2>1. pc[w] = "ac_grant" /\ bal[w] = balance[req[w].who]
      BY <1>3 DEF AddCreditsGrant, At, HeldBalance, HeldPCs
    <2>2. GrantRow(w) \in LedgerRows /\ req[w].who \in Users
      BY <2>1, GrantRowType
    <2>3. balance[req[w].who] \in Nat
      BY <2>2, BalanceNat
    <2>4. /\ GrantRow(w).after >= 0
          /\ GrantRow(w).after = balance[req[w].who] + GrantRow(w).amount
      BY <2>1, <2>3 DEF GrantRow, Row, CreditPackAmount
    <2>5. Book(req[w].who, GrantRow(w)) \/ UNCHANGED <<balance, ledger>>
      BY <1>3 DEF AddCreditsGrant, GrantRow
    <2> QED BY <1>1, <2>2, <2>4, <2>5, BookChain
  <1>4. ASSUME NEW w \in Workers, UseCreditCommit(w) PROVE LedgerChain'
    <2>1. pc[w] = "uc_commit" /\ bal[w] = balance[req[w].who] /\ bal[w] >= 1
      BY <1>4 DEF UseCreditCommit, At, HeldBalance, HeldPCs
    <2>2. SpendRow(w) \in LedgerRows /\ req[w].who \in Users
      BY <2>1, SpendRowType
    <2>3. balance[req[w].who] \in Nat
      BY <2>2, BalanceNat
    <2>4. /\ SpendRow(w).after >= 0
          /\ SpendRow(w).after = balance[req[w].who] + SpendRow(w).amount
      BY <2>1, <2>3 DEF SpendRow, Row
    <2>5. Book(req[w].who, SpendRow(w)) \/ UNCHANGED <<balance, ledger>>
      BY <1>4 DEF UseCreditCommit, SpendRow
    <2> QED BY <1>1, <2>2, <2>4, <2>5, BookChain
  <1> QED BY <1>1, <1>2, <1>3, <1>4, HeldFrame DEF LockStep, HeldUnchanged

(* No update of a balance is ever lost, and no balance is ever negative: the row locks
   taken by useCredit and addCredits are enough for any number of concurrent requests. *)
THEOREM LedgerIsChained == SafetySpec => []LedgerChain
  <1> DEFINE Inv == TypeInv /\ HeldBalance /\ LedgerChain
  <1>1. Init => Inv
    BY InitTypeInv, InitHeldBalance, InitLedgerChain
  <1>2. Inv /\ [Next]_vars => Inv'
    BY StepTypeInv, StepHeldBalance, StepLedgerChain
  <1> QED BY <1>1, <1>2, PTL DEF SafetySpec

------------------------------------------------------------------------------
(* What a deadlock is made of.  The handlers lock rows in different orders, *)
(* and only one pair of orders is opposed: use-credit locks the extraction  *)
(* and then the user, an account deletion and the purchase webhook have the *)
(* user's row (the webhook through its foreign key) and then the extraction.*)

(* Workers none of which can go on before another of them does; every cycle
   of waiting transactions is such a set. *)
Stuck(S) == S # {} /\ \A w \in S : \E v \in S : WaitsFor(w, v)

UserRowTaken(v) == new[v] /\ pc[v] \in {"da_ext", "rs_unlock"}

(* use-credit has locked the extraction and waits for the row of its user, which an
   account deletion or a purchase webhook of that user has. *)
Opposed(w, v) ==
  /\ WaitsFor(w, v)
  /\ pc[w] = "uc_user" /\ UserRowTaken(v) /\ req[v].who = req[w].who

(* The statements in the order of what they wait for: all but one of the waits go down. *)
LockRank(w) ==
  CASE pc[w] \in {"uc_commit", "ac_grant"} -> 0
    [] pc[w] = "uc_user"                   -> 1
    [] pc[w] \in {"da_ext", "rs_unlock"}   -> 2
    [] pc[w] = "ln_move"                   -> 3
    [] OTHER                               -> 4

LEMMA RankRange == ASSUME NEW w PROVE LockRank(w) \in 0..4
  BY DEF LockRank

LEMMA UserTakenBy ==
  ASSUME NEW v, NEW u, NEW wanted, UserTaken(v, u, wanted)
  PROVE  req[v].who = u /\ (pc[v] \in {"uc_commit", "ac_grant"} \/ UserRowTaken(v))
  BY DEF UserTaken, UserLock, UserRowTaken

(* A foreign key check waits for FOR UPDATE only. *)
LEMMA KeyShareWaits ==
  ASSUME NEW v, NEW u, UserTaken(v, u, "KS")
  PROVE  pc[v] \in {"uc_commit", "ac_grant"}
  BY DEF UserTaken, UserLock, Conflicting

LEMMA WaitsDescend ==
  ASSUME NEW w, NEW v, WaitsFor(w, v), ~Opposed(w, v)
  PROVE  LockRank(v) < LockRank(w)
  <1>1. \/ pc[w] = "uc_user" /\ pc[v] \in {"uc_commit", "ac_grant"}
        \/ pc[w] \in {"ac_lock", "da_user"}
           /\ pc[v] \in {"uc_commit", "ac_grant", "da_ext", "rs_unlock"}
        \/ pc[w] \in {"uc_ext", "da_ext", "rs_unlock"} /\ pc[v] \in {"uc_user", "uc_commit"}
        \/ pc[w] = "rp_insert" /\ pc[v] \in {"uc_commit", "ac_grant"}
        \/ pc[w] = "rs_insert" /\ pc[v] \in {"uc_commit", "ac_grant", "rs_unlock"}
        \/ pc[w] = "ln_lock" /\ pc[v] = "ln_move"
        \/ pc[w] = "ln_move" /\ pc[v] \in {"uc_commit", "ac_grant"}
    BY UserTakenBy, KeyShareWaits
       DEF WaitsFor, Opposed, UserRowTaken, HoldsExtraction, HoldsPaymentKey, HoldsSession
  <1> QED BY <1>1 DEF LockRank

(* Whenever workers wait for each other, one of them is a use-credit request that waits for
   a deletion or a purchase of the same account; deliveries, links, deletions and credits
   spent never block each other otherwise (payments.ts, users.ts, webhooks.ts). *)
THEOREM DeadlocksAreOpposed ==
  \A S \in SUBSET Workers : Stuck(S) => \E w, v \in S : Opposed(w, v)
  <1> SUFFICES ASSUME NEW S \in SUBSET Workers, Stuck(S), \A w, v \in S : ~Opposed(w, v)
               PROVE  FALSE
    OBVIOUS
  <1>1. ASSUME NEW w \in S PROVE \E v \in S : LockRank(v) < LockRank(w)
    BY WaitsDescend DEF Stuck
  <1>2. \A w \in S : LockRank(w) \in 0..4
    BY RankRange
  <1> DEFINE Above(n) == \A w \in S : LockRank(w) > n
  <1>3. Above(0)
    BY <1>1, <1>2
  <1>4. Above(1)
    BY <1>1, <1>2, <1>3
  <1>5. Above(2)
    BY <1>1, <1>2, <1>4
  <1>6. Above(3)
    BY <1>1, <1>2, <1>5
  <1>7. Above(4)
    BY <1>1, <1>2, <1>6
  <1> QED BY <1>2, <1>7 DEF Stuck

------------------------------------------------------------------------------
(* A request comes to an end                                               *)

(* How many statements the handler of w may still run, at most *)
StatementsLeft(w) ==
  CASE pc[w] = "idle"      -> 0
    [] pc[w] \in {"wh_complete", "wh_fail", "uc_commit", "da_send", "ln_move"} -> 1
    [] pc[w] \in {"ac_grant", "rs_unlock", "uc_user", "da_ext", "ln_lock"}     -> 2
    [] pc[w] \in {"ac_lock", "rs_insert", "uc_ext", "da_user"}                 -> 3
    [] pc[w] \in {"rp_insert", "rs_select"}                                    -> 4
    [] pc[w] = "rp_select" -> 5
    [] pc[w] = "wh_claim"  -> 6

Ends(w) == Handle(w) \/ Crash(w) \/ DeadlockVictim(w)

Advances(w) ==
  /\ StatementsLeft(w) \in 0..6
  /\ Handle(w) => StatementsLeft(w)' < StatementsLeft(w)
  /\ StatementsLeft(w)' > StatementsLeft(w) => pc[w] = "idle" /\ Start(w)

LEMMA StatementsRange ==
  ASSUME TypeOK, NEW w \in Workers
  PROVE  StatementsLeft(w) \in 0..6
  BY DEF TypeOK, WorkersTypeOK, PCs, StatementsLeft

(* Where each statement may lead. *)
LEMMA HandleGoes ==
  ASSUME TypeOK, NEW w \in Workers, Handle(w)
  PROVE  \E step \in PCs :
           /\ Goto(w, step)
           /\ \/ pc[w] = "wh_claim" /\ step \in {"idle", "rs_select", "rp_select", "wh_fail"}
              \/ pc[w] = "rp_select" /\ step \in {"ac_lock", "rp_insert"}
              \/ pc[w] = "rp_insert" /\ step = "ac_lock"
              \/ pc[w] = "ac_lock" /\ step \in {"ac_grant", "wh_fail"}
              \/ pc[w] = "ac_grant" /\ step = "wh_complete"
              \/ pc[w] = "rs_select" /\ step \in {"rs_unlock", "rs_insert"}
              \/ pc[w] = "rs_insert" /\ step \in {"idle", "rs_unlock"}
              \/ pc[w] = "rs_unlock" /\ step \in {"wh_complete", "wh_fail"}
              \/ pc[w] = "uc_ext" /\ step \in {"idle", "uc_user"}
              \/ pc[w] = "uc_user" /\ step \in {"idle", "uc_commit"}
              \/ pc[w] = "da_user" /\ step = "da_ext"
              \/ pc[w] = "da_ext" /\ step = "da_send"
              \/ pc[w] = "ln_lock" /\ step \in {"idle", "ln_move"}
              \/ pc[w] \in {"wh_complete", "wh_fail", "uc_commit", "da_send", "ln_move"}
                   /\ step = "idle"
  <1> USE DEF At, PCs
  <1>1. CASE Claim(w)
    BY <1>1 DEF Claim, Idle, FirstStep
  <1>2. CASE RecordPaymentSelect(w) \/ RecordPaymentInsert(w)
    BY <1>2 DEF RecordPaymentSelect, RecordPaymentInsert
  <1>3. CASE AddCreditsLock(w)
    BY <1>3 DEF AddCreditsLock
  <1>4. CASE AddCreditsGrant(w)
    BY <1>4 DEF AddCreditsGrant
  <1>5. CASE RecordSingleSelect(w)
    BY <1>5 DEF RecordSingleSelect
  <1>6. CASE RecordSingleInsert(w)
    BY <1>6 DEF RecordSingleInsert, Idle
  <1>7. CASE RecordSingleUnlock(w)
    BY <1>7 DEF RecordSingleUnlock
  <1>8. CASE CompleteEvent(w) \/ FailEvent(w)
    BY <1>8 DEF CompleteEvent, FailEvent, Idle
  <1>9. CASE UseCreditLockExtraction(w)
    BY <1>9 DEF UseCreditLockExtraction, Idle
  <1>10. CASE UseCreditLockUser(w)
    BY <1>10 DEF UseCreditLockUser, Idle
  <1>11. CASE UseCreditCommit(w)
    BY <1>11 DEF UseCreditCommit, Idle
  <1>12. CASE DeleteAccount(w)
    BY <1>12 DEF DeleteAccount, DeleteAccountUser, DeleteAccountCommit, DeleteAccountSend, Idle
  <1>13. CASE Link(w)
    BY <1>13 DEF Link, LinkLockSession, LinkTransfer, Idle
  <1> QED BY <1>1, <1>2, <1>3, <1>4, <1>5, <1>6, <1>7, <1>8, <1>9, <1>10, <1>11, <1>12, <1>13
          DEF Handle, Webhook, UseCredit

LEMMA EndsAdvance ==
  ASSUME TypeOK, NEW w \in Workers, Ends(w)
  PROVE  Advances(w)
  <1>1. StatementsLeft(w) \in 0..6
    BY StatementsRange
  <1>2. CASE Handle(w)
    <2>1. StatementsLeft(w)' < StatementsLeft(w)
      BY <1>2, HandleGoes DEF Goto, StatementsLeft, TypeOK, WorkersTypeOK
    <2>2. StatementsLeft(w)' \in Int
      BY <1>2, HandleGoes DEF Goto, StatementsLeft, TypeOK, WorkersTypeOK, PCs
    <2> QED BY <1>1, <2>1, <2>2 DEF Advances
  <1>3. CASE ~Handle(w)
    <2>1. StatementsLeft(w)' = 0
      BY <1>3 DEF Ends, Crash, DeadlockVictim, Idle, Goto, StatementsLeft, TypeOK, WorkersTypeOK
    <2> QED BY <1>1, <1>3, <2>1 DEF Advances
  <1> QED BY <1>2, <1>3

(* A request runs at most six statements and none of them twice, whatever other requests
   do, and is over when it crashes or is the victim of a deadlock: the safety half of
   RequestsReturn. *)
THEOREM RequestsBounded == SafetySpec => [][\A w \in Workers : Advances(w)]_vars
  <1>1. TypeOK /\ [Next]_vars => [\A w \in Workers : Advances(w)]_vars
    <2> SUFFICES ASSUME TypeOK, Next, NEW w \in Workers PROVE Advances(w)
      OBVIOUS
    <2>1. StatementsLeft(w) \in 0..6
      BY StatementsRange
    <2>2. CASE Ends(w)
      BY <2>2, EndsAdvance
    <2>3. CASE ~Ends(w) /\ Start(w)
      <3>1. pc[w] = "idle"
        BY <2>3 DEF Start, Deliver, DeliverAgain, StartUseCredit, StartDeleteAccount, StartLink,
                    Take
      <3> QED BY <2>1, <2>3, <3>1 DEF Advances, Ends
    <2>4. CASE ~Ends(w) /\ ~Start(w)
      <3>1. ASSUME NEW v \in Workers \ {w}, Ends(v) \/ Start(v) PROVE pc'[w] = pc[w]
        <4>1. \E step : Goto(v, step)
          <5>1. CASE Handle(v)
            BY <5>1, HandleGoes
          <5>2. CASE Crash(v) \/ DeadlockVictim(v)
            BY <5>2 DEF Crash, DeadlockVictim, Idle
          <5>3. CASE Start(v)
            BY <5>3 DEF Start, Deliver, DeliverAgain, StartUseCredit, StartDeleteAccount,
                        StartLink, Take
          <5> QED BY <3>1, <5>1, <5>2, <5>3 DEF Ends
        <4> QED BY <4>1 DEF Goto, TypeOK, WorkersTypeOK
      <3>2. ASSUME Environment PROVE pc'[w] = pc[w]
        BY <3>2 DEF Environment, CreateCheckout, CustomerPays, ExpireSession, SoftDeleteExtraction
      <3>3. pc'[w] = pc[w]
        BY <2>4, <3>1, <3>2 DEF Next, Ends
      <3>4. StatementsLeft(w)' = StatementsLeft(w)
        BY <3>3 DEF StatementsLeft
      <3> QED BY <2>1, <2>4, <3>4 DEF Advances, Ends
    <2> QED BY <2>2, <2>3, <2>4
  <1> QED BY <1>1, TypeCorrect, PTL DEF SafetySpec

==============================================================================
