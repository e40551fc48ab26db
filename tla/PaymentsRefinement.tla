------------------------- MODULE PaymentsRefinement --------------------------
(***************************************************************************)
(* Payments grants every pack at most once, books every unlock exactly     *)
(* once, implements Billing, completes no event before its effects and     *)
(* unlocks nothing but what is its buyer's: proofs for all values of the   *)
(* constants.                                                              *)
(***************************************************************************)
EXTENDS PaymentsProofs

(* The statements whose local variables the proofs below follow. *)
MoneyPCs == {"ac_lock", "ac_grant", "rs_unlock", "uc_user", "uc_commit", "wh_complete"}

(* The statements that book, unlock, transfer or lead to one that does. *)
MoneyStep(w) ==
  \/ RecordPaymentSelect(w) \/ RecordPaymentInsert(w) \/ AddCreditsLock(w)
  \/ AddCreditsGrant(w) \/ RecordSingleSelect(w) \/ RecordSingleInsert(w)
  \/ RecordSingleUnlock(w) \/ CompleteEvent(w) \/ UseCreditLockExtraction(w)
  \/ UseCreditLockUser(w) \/ UseCreditCommit(w) \/ LinkTransfer(w)

(* What every other step leaves alone. *)
MoneyUnchanged ==
  /\ UNCHANGED <<balance, ledger, owner, payStatus, paymentId, payments, processed>>
  /\ \A v \in Workers : pc'[v] \in MoneyPCs =>
       pc'[v] = pc[v] /\ req'[v] = req[v] /\ new'[v] = new[v]

(* The metadata of a checkout never changes. *)
BuyersKept ==
  \A c \in Checkouts : stripe[c] # "none" =>
    /\ buyer'[c] = buyer[c] /\ target'[c] = target[c]
    /\ stripe[c] = "paid" => stripe'[c] = "paid"

LEMMA MoneyFrame ==
  ASSUME TypeOK, [Next]_vars
  PROVE  MoneyUnchanged \/ \E w \in Workers : MoneyStep(w)
  <1> USE DEF MoneyUnchanged, MoneyPCs, TypeOK, WorkersTypeOK, Goto, tables, external,
              counters, locals
  <1>1. ASSUME NEW w \in Workers, Claim(w) PROVE MoneyUnchanged
    BY <1>1 DEF Claim, FirstStep, Idle
  <1>2. ASSUME NEW w \in Workers, FailEvent(w) PROVE MoneyUnchanged
    BY <1>2 DEF FailEvent, Idle
  <1>3. ASSUME NEW w \in Workers, DeleteAccount(w) PROVE MoneyUnchanged
    BY <1>3 DEF DeleteAccount, DeleteAccountUser, DeleteAccountCommit, DeleteAccountSend,
       Idle, Wrote
  <1>4. ASSUME NEW w \in Workers, LinkLockSession(w) PROVE MoneyUnchanged
    BY <1>4 DEF LinkLockSession, Idle
  <1>5. ASSUME NEW w \in Workers, Start(w) PROVE MoneyUnchanged
    BY <1>5 DEF Start, Deliver, DeliverAgain, StartUseCredit, StartDeleteAccount, StartLink,
       Take
  <1>6. ASSUME NEW w \in Workers, Crash(w) \/ DeadlockVictim(w) PROVE MoneyUnchanged
    BY <1>6 DEF Crash, DeadlockVictim, Idle
  <1>7. ASSUME Environment PROVE MoneyUnchanged
    BY <1>7 DEF Environment, CreateCheckout, CustomerPays, ExpireSession, SoftDeleteExtraction
  <1>8. CASE UNCHANGED vars
    BY <1>8 DEF vars
  <1> QED BY <1>1, <1>2, <1>3, <1>4, <1>5, <1>6, <1>7, <1>8
    DEF Next, Handle, Webhook, UseCredit, Link, MoneyStep

LEMMA BuyersFrame ==
  ASSUME TypeOK, [Next]_vars
  PROVE  BuyersKept
  <1> USE DEF BuyersKept, TypeOK, StripeTypeOK, external
  <1>1. ASSUME NEW w \in Workers, Webhook(w) PROVE BuyersKept
    BY <1>1 DEF Webhook, Claim, RecordPaymentSelect, RecordPaymentInsert, AddCreditsLock,
       AddCreditsGrant, RecordSingleSelect, RecordSingleInsert, RecordSingleUnlock,
       CompleteEvent, FailEvent
  <1>2. ASSUME NEW w \in Workers, UseCredit(w) PROVE BuyersKept
    BY <1>2 DEF UseCredit, UseCreditLockExtraction, UseCreditLockUser, UseCreditCommit
  <1>3. ASSUME NEW w \in Workers, DeleteAccount(w) \/ Link(w) PROVE BuyersKept
    BY <1>3 DEF DeleteAccount, DeleteAccountUser, DeleteAccountCommit, DeleteAccountSend,
       Link, LinkLockSession, LinkTransfer
  <1>4. ASSUME NEW w \in Workers, Start(w) PROVE BuyersKept
    BY <1>4 DEF Start, Deliver, DeliverAgain, StartUseCredit, StartDeleteAccount, StartLink
  <1>5. ASSUME NEW w \in Workers, Crash(w) \/ DeadlockVictim(w) PROVE BuyersKept
    BY <1>5 DEF Crash, DeadlockVictim
  <1>6. ASSUME NEW c \in Checkouts, NEW o \in Owners, NEW x \in Extractions \cup {NONE},
               CreateCheckout(c, o, x)
        PROVE  BuyersKept
    BY <1>6 DEF CreateCheckout
  <1>7. ASSUME NEW c \in Checkouts, CustomerPays(c) PROVE BuyersKept
    BY <1>7 DEF CustomerPays
  <1>8. ASSUME NEW s \in Sessions, ExpireSession(s) PROVE BuyersKept
    BY <1>8 DEF ExpireSession
  <1>9. ASSUME NEW x \in Extractions, SoftDeleteExtraction(x) PROVE BuyersKept
    BY <1>9 DEF SoftDeleteExtraction
  <1>10. CASE UNCHANGED vars
    BY <1>10 DEF vars
  <1> QED BY <1>1, <1>2, <1>3, <1>4, <1>5, <1>6, <1>7, <1>8, <1>9, <1>10
    DEF Next, Handle, Environment

------------------------------------------------------------------------------
(* Payments on record.                                                     *)

PaymentsInv ==
  /\ \A c \in payments : stripe[c] = "paid"
  /\ \A w \in Workers :
       (pc[w] \in {"ac_lock", "ac_grant"} \/ (pc[w] = "rs_unlock" /\ ~new[w]))
         => req[w].co \in payments

LEMMA InitPaymentsInv == Init => PaymentsInv
  BY DEF Init, PaymentsInv

LEMMA StepPaymentsInv == TypeInv /\ PaymentsInv /\ [Next]_vars => PaymentsInv'
  <1> SUFFICES ASSUME TypeInv, PaymentsInv, [Next]_vars PROVE PaymentsInv'
    OBVIOUS
  <1> USE DEF TypeInv, TypeOK, WorkersTypeOK, TablesTypeOK, PaymentsInv
  <1>1. BuyersKept
    BY BuyersFrame
  <1>2. CASE MoneyUnchanged
    BY <1>1, <1>2 DEF MoneyUnchanged, MoneyPCs, BuyersKept
  <1>3. ASSUME NEW w \in Workers, MoneyStep(w) PROVE PaymentsInv'
    <2>1. ASSUME RecordPaymentSelect(w) \/ RecordSingleSelect(w) PROVE PaymentsInv'
      BY <1>1, <2>1 DEF RecordPaymentSelect, RecordSingleSelect, Goto, locals, tables, external
    <2>2. ASSUME RecordPaymentInsert(w) PROVE PaymentsInv'
      BY <2>2 DEF RecordPaymentInsert, At, RequestOK, LocalOK, WebhookPCs, Goto, locals, external
    <2>3. ASSUME RecordSingleInsert(w) PROVE PaymentsInv'
      BY <2>3 DEF RecordSingleInsert, Goto, Idle, Wrote, tables, external
    <2>4. ASSUME RecordSingleUnlock(w) PROVE PaymentsInv'
      BY <2>4 DEF RecordSingleUnlock, At, RequestOK, LocalOK, WebhookPCs, Goto, locals, external
    <2>5. ASSUME AddCreditsLock(w) PROVE PaymentsInv'
      BY <2>5 DEF AddCreditsLock, At, Goto, ReadBalance, locals, tables, external
    <2>6. ASSUME AddCreditsGrant(w) PROVE PaymentsInv'
      BY <2>6 DEF AddCreditsGrant, Goto, locals, external
    <2>7. ASSUME CompleteEvent(w) \/ UseCreditCommit(w) \/ LinkTransfer(w) PROVE PaymentsInv'
      BY <2>7 DEF CompleteEvent, UseCreditCommit, LinkTransfer, Goto, Idle, external
    <2>8. ASSUME UseCreditLockExtraction(w) \/ UseCreditLockUser(w) PROVE PaymentsInv'
      BY <2>8 DEF UseCreditLockExtraction, UseCreditLockUser, Goto, Idle, ReadBalance, locals,
         tables, external
    <2> QED BY <1>3, <2>1, <2>2, <2>3, <2>4, <2>5, <2>6, <2>7, <2>8 DEF MoneyStep
  <1> QED BY <1>2, <1>3, MoneyFrame

------------------------------------------------------------------------------
(* Grants.                                                                 *)

(* The rows of the ledger after one was appended: the old ones and the new one. *)
LEMMA BookRows ==
  ASSUME TablesTypeOK, NEW u \in Users, NEW row, Book(u, row)
  PROVE  /\ \A v \in Users : \A i \in 1..Len(ledger[v]) :
              i \in 1..Len(ledger'[v]) /\ ledger'[v][i] = ledger[v][i]
         /\ Len(ledger[u]) + 1 \in 1..Len(ledger'[u])
         /\ ledger'[u][Len(ledger[u]) + 1] = row
         /\ \A v \in Users : \A i \in 1..Len(ledger'[v]) :
              i \in 1..Len(ledger[v]) \/ (v = u /\ i = Len(ledger[u]) + 1)
  <1>1. ASSUME NEW v \in Users, v # u PROVE ledger'[v] = ledger[v]
    BY <1>1 DEF Book, TablesTypeOK
  <1>2. ledger'[u] = Append(ledger[u], row)
    BY DEF Book, TablesTypeOK
  <1>3. ledger[u] \in Seq(LedgerRows)
    BY DEF TablesTypeOK
  <1>4. /\ Len(ledger[u]) \in Nat /\ Len(ledger'[u]) = Len(ledger[u]) + 1
        /\ ledger'[u][Len(ledger[u]) + 1] = row
        /\ \A i \in 1..Len(ledger[u]) : ledger'[u][i] = ledger[u][i]
    BY <1>2, <1>3
  <1> QED BY <1>1, <1>4

LEMMA GrantedRow ==
  ASSUME TablesTypeOK, NEW c
  PROVE  Granted(c) <=> \E v \in Users : \E i \in 1..Len(ledger[v]) : ledger[v][i].payment = c
  <1>1. \A v \in Users : DOMAIN ledger[v] = 1..Len(ledger[v])
    BY DEF TablesTypeOK
  <1> QED BY <1>1 DEF Granted

(* GrantOnce survives a new row, if that row is the first of its payment. *)
LEMMA BookGrantOnce ==
  ASSUME TablesTypeOK, GrantOnce, payments \subseteq payments',
         \A c \in payments : buyer'[c] = buyer[c],
         NEW u \in Users, NEW row, Book(u, row),
         row.payment = NONE \/ /\ row.payment \in payments /\ buyer[row.payment] = u
                               /\ row.amount = CreditPackAmount(Product[row.payment])
                               /\ ~Granted(row.payment)
  PROVE  GrantOnce'
  <1>1. ASSUME NEW v \in Users, NEW i \in 1..Len(ledger'[v]), ledger'[v][i].payment # NONE
        PROVE  /\ ledger'[v][i].payment \in payments'
               /\ buyer'[ledger'[v][i].payment] = v
               /\ ledger'[v][i].amount = CreditPackAmount(Product[ledger'[v][i].payment])
    <2>1. CASE i \in 1..Len(ledger[v])
      <3>1. ledger'[v][i] = ledger[v][i]
        BY <2>1, BookRows
      <3> QED BY <1>1, <2>1, <3>1 DEF GrantOnce
    <2>2. CASE v = u /\ i = Len(ledger[u]) + 1
      <3>1. ledger'[v][i] = row
        BY <2>2, BookRows
      <3> QED BY <1>1, <2>2, <3>1
    <2> QED BY <2>1, <2>2, BookRows
  <1>2. ASSUME NEW v \in Users, NEW i \in 1..Len(ledger'[v]),
               NEW z \in Users, NEW j \in 1..Len(ledger'[z]),
               ledger'[v][i].payment # NONE, ledger'[z][j].payment = ledger'[v][i].payment
        PROVE  z = v /\ j = i
    <2>1. ASSUME NEW y \in Users, NEW k \in 1..Len(ledger[y]) , row.payment # NONE
          PROVE  ledger[y][k].payment # row.payment
      BY <2>1, GrantedRow
    <2>2. CASE i \in 1..Len(ledger[v]) /\ j \in 1..Len(ledger[z])
      <3>1. ledger'[v][i] = ledger[v][i] /\ ledger'[z][j] = ledger[z][j]
        BY <2>2, BookRows
      <3> QED BY <1>2, <2>2, <3>1 DEF GrantOnce
    <2>3. CASE i \in 1..Len(ledger[v]) /\ z = u /\ j = Len(ledger[u]) + 1
      <3>1. ledger'[v][i] = ledger[v][i] /\ ledger'[z][j] = row
        BY <2>3, BookRows
      <3> QED BY <1>2, <2>1, <2>3, <3>1
    <2>4. CASE j \in 1..Len(ledger[z]) /\ v = u /\ i = Len(ledger[u]) + 1
      <3>1. ledger'[z][j] = ledger[z][j] /\ ledger'[v][i] = row
        BY <2>4, BookRows
      <3> QED BY <1>2, <2>1, <2>4, <3>1
    <2>5. \/ i \in 1..Len(ledger[v])
          \/ v = u /\ i = Len(ledger[u]) + 1
      BY BookRows
    <2>6. \/ j \in 1..Len(ledger[z])
          \/ z = u /\ j = Len(ledger[u]) + 1
      BY BookRows
    <2> QED BY <2>2, <2>3, <2>4, <2>5, <2>6
  <1> QED BY <1>1, <1>2 DEF GrantOnce

LEMMA InitGrantOnce == Init => GrantOnce
  BY DEF Init, GrantOnce

LEMMA StepGrantOnce ==
  TypeInv /\ PaymentsInv /\ PaymentsInv' /\ GrantOnce /\ [Next]_vars => GrantOnce'
  <1> SUFFICES ASSUME TypeInv, PaymentsInv, PaymentsInv', GrantOnce, [Next]_vars
               PROVE  GrantOnce'
    OBVIOUS
  <1> USE DEF TypeInv, TypeOK
  <1>1. BuyersKept
    BY BuyersFrame
  <1>2. payments \subseteq payments' /\ payments \subseteq Checkouts
    <2>1. CASE MoneyUnchanged
      BY <2>1 DEF MoneyUnchanged, TablesTypeOK
    <2>2. ASSUME NEW w \in Workers, MoneyStep(w)
          PROVE  payments \subseteq payments' /\ payments \subseteq Checkouts
      BY <2>2 DEF MoneyStep, RecordPaymentSelect, RecordPaymentInsert, AddCreditsLock,
         AddCreditsGrant, RecordSingleSelect, RecordSingleInsert, RecordSingleUnlock,
         CompleteEvent, UseCreditLockExtraction, UseCreditLockUser, UseCreditCommit,
         LinkTransfer, tables, TablesTypeOK
    <2> QED BY <2>1, <2>2, MoneyFrame
  <1>3. \A c \in payments : buyer'[c] = buyer[c]
    BY <1>1, <1>2 DEF BuyersKept, PaymentsInv
  <1>4. CASE UNCHANGED ledger
    BY <1>2, <1>3, <1>4 DEF GrantOnce
  <1>5. ASSUME NEW w \in Workers, AddCreditsGrant(w) PROVE GrantOnce'
    <2>1. pc[w] = "ac_grant" /\ req[w].co \in payments
      BY <1>5 DEF AddCreditsGrant, At, PaymentsInv
    <2>2. req[w].who \in Users /\ req[w].who = buyer[req[w].co] /\ req[w].co # NONE
      BY <2>1, ConstantsAssumption DEF RequestOK, LocalOK, WebhookPCs, PackPCs
    <2>3. CASE Granted(req[w].co)
      BY <1>4, <1>5, <2>3 DEF AddCreditsGrant
    <2>4. CASE ~Granted(req[w].co)
      <3>1. Book(req[w].who, GrantRow(w))
        BY <1>5, <2>4 DEF AddCreditsGrant, GrantRow
      <3>2. /\ GrantRow(w).payment = req[w].co
            /\ GrantRow(w).amount = CreditPackAmount(Product[req[w].co])
        BY DEF GrantRow, Row
      <3> QED BY <1>2, <1>3, <2>1, <2>2, <2>4, <3>1, <3>2, BookGrantOnce
    <2> QED BY <2>3, <2>4
  <1>6. ASSUME NEW w \in Workers, UseCreditCommit(w) PROVE GrantOnce'
    <2>1. req[w].who \in Users
      BY <1>6 DEF UseCreditCommit, At, RequestOK, LocalOK, CreditPCs
    <2>2. SpendRow(w).payment = NONE
      BY DEF SpendRow, Row
    <2>3. Book(req[w].who, SpendRow(w)) \/ UNCHANGED ledger
      BY <1>6 DEF UseCreditCommit, SpendRow
    <2> QED BY <1>2, <1>3, <1>4, <2>1, <2>2, <2>3, BookGrantOnce
  <1> QED BY <1>4, <1>5, <1>6, HeldFrame
    DEF LockStep, HeldUnchanged, AddCreditsLock, UseCreditLockUser, tables

(* However deliveries overlap, crash and are repeated, a payment grants its credits at
   most once, in full, to its buyer. *)
THEOREM GrantsOnce == SafetySpec => []GrantOnce
  <1> DEFINE Inv == TypeInv /\ PaymentsInv /\ GrantOnce
  <1>1. Init => Inv
    BY InitTypeInv, InitPaymentsInv, InitGrantOnce
  <1>2. Inv /\ [Next]_vars => Inv'
    BY StepTypeInv, StepPaymentsInv, StepGrantOnce
  <1> QED BY <1>1, <1>2, PTL DEF SafetySpec

------------------------------------------------------------------------------
(* Unlocks.  While useCredit holds an extraction, it stays unpaid and its  *)
(* owner stays the caller.                                                 *)

SpendPCs == {"uc_user", "uc_commit"}

HeldExtraction ==
  \A w \in Workers : pc[w] \in SpendPCs =>
    /\ payStatus[req[w].ext] = "unpaid" /\ owner[req[w].ext] = req[w].who
    /\ \A v \in Workers : v # w /\ pc[v] \in SpendPCs => req[v].ext # req[w].ext

LEMMA InitHeldExtraction == Init => HeldExtraction
  BY DEF Init, HeldExtraction, SpendPCs

LEMMA StepHeldExtraction == TypeInv /\ HeldExtraction /\ [Next]_vars => HeldExtraction'
  <1> SUFFICES ASSUME TypeInv, HeldExtraction, [Next]_vars PROVE HeldExtraction'
    OBVIOUS
  <1> USE DEF TypeInv, TypeOK, WorkersTypeOK, TablesTypeOK, HeldExtraction, SpendPCs
  <1>1. \A v \in Workers : pc[v] \in SpendPCs => req[v].who \in Users /\ req[v].ext \in Extractions
    BY DEF RequestOK, LocalOK, CreditPCs
  <1>2. CASE MoneyUnchanged
    BY <1>2 DEF MoneyUnchanged, MoneyPCs
  <1>3. ASSUME NEW w \in Workers, MoneyStep(w) PROVE HeldExtraction'
    <2>1. ASSUME UNCHANGED <<owner, payStatus>>,
                 \A v \in Workers : pc'[v] \in SpendPCs => pc[v] \in SpendPCs /\ req'[v] = req[v]
          PROVE  HeldExtraction'
      BY <2>1
    <2>2. ASSUME \/ RecordPaymentSelect(w) \/ RecordPaymentInsert(w) \/ RecordSingleSelect(w)
                 \/ RecordSingleInsert(w) \/ AddCreditsLock(w) \/ AddCreditsGrant(w)
                 \/ CompleteEvent(w)
          PROVE  HeldExtraction'
      BY <2>1, <2>2 DEF RecordPaymentSelect, RecordPaymentInsert, RecordSingleSelect,
         RecordSingleInsert, AddCreditsLock, AddCreditsGrant, CompleteEvent, Goto, Idle, Wrote,
         ReadBalance, tables, locals
    <2>3. ASSUME UseCreditLockUser(w) PROVE HeldExtraction'
      BY <2>1, <2>3 DEF UseCreditLockUser, At, Goto, Idle, ReadBalance, tables
    <2>4. ASSUME UseCreditLockExtraction(w) PROVE HeldExtraction'
      <3>1. CASE pc'[w] # "uc_user"
        BY <2>1, <2>4, <3>1 DEF UseCreditLockExtraction, Goto, Idle, tables, locals
      <3>2. CASE pc'[w] = "uc_user"
        <4>1. /\ pc' = [pc EXCEPT ![w] = "uc_user"] /\ req' = req
              /\ UNCHANGED <<owner, payStatus>> /\ req[w].ext \notin deletedExt
              /\ owner[req[w].ext] = req[w].who /\ payStatus[req[w].ext] = "unpaid"
          BY <2>4, <3>2 DEF UseCreditLockExtraction, Goto, Idle, tables, locals
        <4>2. \A v \in Workers : v # w /\ pc[v] \in SpendPCs => req[v].ext # req[w].ext
          BY <2>4, <4>1 DEF UseCreditLockExtraction, At, WaitsFor, HoldsExtraction
        <4> QED BY <4>1, <4>2
      <3> QED BY <3>1, <3>2
    <2>5. ASSUME UseCreditCommit(w) PROVE HeldExtraction'
      <3>1. pc[w] = "uc_commit" /\ owner' = owner
        BY <2>5 DEF UseCreditCommit, At
      <3>2. \A v \in Workers : pc'[v] \in SpendPCs =>
              v # w /\ pc[v] \in SpendPCs /\ req'[v] = req[v]
        BY <2>5 DEF UseCreditCommit, Goto, Idle
      <3>3. \A x \in Extractions : x # req[w].ext => payStatus'[x] = payStatus[x]
        BY <2>5 DEF UseCreditCommit
      <3>4. ASSUME NEW v \in Workers, pc'[v] \in SpendPCs
            PROVE  payStatus'[req'[v].ext] = "unpaid"
        <4>1. req[v].ext \in Extractions /\ req[v].ext # req[w].ext
          BY <1>1, <3>1, <3>2, <3>4
        <4> QED BY <3>2, <3>3, <3>4, <4>1
      <3> QED BY <3>1, <3>2, <3>4
    <2>6. ASSUME RecordSingleUnlock(w) PROVE HeldExtraction'
      <3>1. owner' = owner /\ \A v \in Workers : pc'[v] \in SpendPCs =>
              v # w /\ pc[v] \in SpendPCs /\ req'[v] = req[v]
        BY <2>6 DEF RecordSingleUnlock, Goto, locals
      <3>2. CASE ~Unlockable(w)
        BY <2>6, <3>1, <3>2 DEF RecordSingleUnlock
      <3>3. CASE Unlockable(w)
        <4>1. \A v \in Workers : v # w /\ pc[v] \in SpendPCs => req[v].ext # req[w].ext
          BY <2>6, <3>3 DEF RecordSingleUnlock, At, WaitsFor, HoldsExtraction
        <4>2. \A x \in Extractions : x # req[w].ext => payStatus'[x] = payStatus[x]
          BY <2>6 DEF RecordSingleUnlock
        <4>3. ASSUME NEW v \in Workers, pc'[v] \in SpendPCs
              PROVE  payStatus'[req'[v].ext] = "unpaid"
          <5>1. req[v].ext \in Extractions /\ req[v].ext # req[w].ext
            BY <1>1, <3>1, <4>1, <4>3
          <5> QED BY <3>1, <4>2, <4>3, <5>1
        <4> QED BY <3>1, <4>3
      <3> QED BY <3>2, <3>3
    <2>7. ASSUME LinkTransfer(w) PROVE HeldExtraction'
      <3>1. req[w].sess \in Sessions
        BY <2>7 DEF LinkTransfer, At, RequestOK, LocalOK, LinkPCs
      <3>2. \A x \in Extractions : owner[x] \in Users => owner'[x] = owner[x]
        BY <2>7, <3>1, ConstantsAssumption DEF LinkTransfer
      <3>3. payStatus' = payStatus /\ \A v \in Workers : pc'[v] \in SpendPCs =>
              pc[v] \in SpendPCs /\ req'[v] = req[v]
        BY <2>7 DEF LinkTransfer, Goto, Idle
      <3> QED BY <1>1, <3>2, <3>3
    <2> QED BY <1>3, <2>2, <2>3, <2>4, <2>5, <2>6, <2>7 DEF MoneyStep
  <1> QED BY <1>2, <1>3, MoneyFrame

------------------------------------------------------------------------------
(* Every unlock is booked exactly once.                                    *)

LEMMA SpendsMember ==
  ASSUME NEW x, NEW e
  PROVE  e \in Spends(x) <=>
           \E u \in Users : \E i \in 1..Len(ledger[u]) : e = <<u, i>> /\ ledger[u][i].ext = x
  BY DEF Spends

LEMMA SpendsKept ==
  ASSUME TablesTypeOK, NEW u \in Users, NEW row, Book(u, row), NEW x, row.ext # x
  PROVE  Spends(x)' = Spends(x)
  <1>1. ASSUME NEW v \in Users
        PROVE  \A i : (i \in 1..Len(ledger'[v]) /\ ledger'[v][i].ext = x) <=>
                      (i \in 1..Len(ledger[v]) /\ ledger[v][i].ext = x)
    BY BookRows
  <1> QED BY <1>1 DEF Spends

LEMMA SpendsAdded ==
  ASSUME TablesTypeOK, NEW u \in Users, NEW row, Book(u, row), Spends(row.ext) = {}
  PROVE  Spends(row.ext)' = {<<u, Len(ledger[u]) + 1>>}
  <1>1. \A v \in Users : \A i \in 1..Len(ledger[v]) : ledger[v][i].ext # row.ext
    BY SpendsMember
  <1>2. ASSUME NEW v \in Users
        PROVE  \A i : (i \in 1..Len(ledger'[v]) /\ ledger'[v][i].ext = row.ext) <=>
                      (v = u /\ i = Len(ledger[u]) + 1)
    BY <1>1, BookRows
  <1> QED BY <1>2 DEF Spends

LEMMA InitPaidExactlyOnce == Init => PaidExactlyOnce
  BY DEF Init, PaidExactlyOnce, Purchases, Spends

LEMMA StepPaidExactlyOnce ==
  TypeInv /\ PaymentsInv /\ HeldExtraction /\ PaidExactlyOnce /\ [Next]_vars
    => PaidExactlyOnce'
  <1> SUFFICES ASSUME TypeInv, PaymentsInv, HeldExtraction, PaidExactlyOnce, [Next]_vars
               PROVE  PaidExactlyOnce'
    OBVIOUS
  <1> USE DEF TypeInv, TypeOK
  <1>1. \A c \in payments : target'[c] = target[c]
    BY BuyersFrame DEF BuyersKept, PaymentsInv, TablesTypeOK
  <1>2. ASSUME NEW x, UNCHANGED payments PROVE Purchases(x)' = Purchases(x)
    BY <1>1, <1>2 DEF Purchases
  <1>3. ASSUME NEW x, UNCHANGED ledger PROVE Spends(x)' = Spends(x)
    BY <1>3 DEF Spends
  <1>4. ASSUME UNCHANGED <<owner, payStatus, paymentId, payments, ledger>>
        PROVE  PaidExactlyOnce'
    BY <1>2, <1>3, <1>4 DEF PaidExactlyOnce
  <1>5. CASE MoneyUnchanged
    BY <1>4, <1>5 DEF MoneyUnchanged
  <1>6. ASSUME NEW w \in Workers, MoneyStep(w) PROVE PaidExactlyOnce'
    <2>1. ASSUME \/ RecordPaymentSelect(w) \/ RecordSingleSelect(w) \/ RecordSingleInsert(w)
                 \/ AddCreditsLock(w) \/ UseCreditLockExtraction(w) \/ UseCreditLockUser(w)
                 \/ CompleteEvent(w)
          PROVE  PaidExactlyOnce'
      BY <1>4, <2>1 DEF RecordPaymentSelect, RecordSingleSelect, RecordSingleInsert,
         AddCreditsLock, UseCreditLockExtraction, UseCreditLockUser, CompleteEvent, tables
    <2>2. ASSUME RecordPaymentInsert(w) PROVE PaidExactlyOnce'
      <3>1. /\ payments' = payments \cup {req[w].co} /\ target' = target
            /\ UNCHANGED <<owner, payStatus, paymentId, ledger>>
        BY <2>2 DEF RecordPaymentInsert, external
      <3>2. target[req[w].co] = NONE
        BY <2>2 DEF RecordPaymentInsert, At, RequestOK, LocalOK, WebhookPCs, PackPCs, StripeOK
      <3>3. \A x \in Extractions : Purchases(x)' = Purchases(x)
        BY <3>1, <3>2, ConstantsAssumption DEF Purchases
      <3> QED BY <1>3, <3>1, <3>3 DEF PaidExactlyOnce
    <2>3. ASSUME AddCreditsGrant(w) PROVE PaidExactlyOnce'
      <3>1. UNCHANGED <<owner, payStatus, paymentId, payments>>
        BY <2>3 DEF AddCreditsGrant
      <3>2. CASE UNCHANGED ledger
        BY <1>4, <3>1, <3>2
      <3>3. CASE Book(req[w].who, GrantRow(w))
        <4>1. req[w].who \in Users
          BY <2>3 DEF AddCreditsGrant, At, RequestOK, LocalOK, PackPCs
        <4>2. \A x \in Extractions : GrantRow(w).ext # x
          BY ConstantsAssumption DEF GrantRow, Row
        <4>3. \A x \in Extractions : Spends(x)' = Spends(x)
          BY <3>3, <4>1, <4>2, SpendsKept
        <4> QED BY <1>2, <3>1, <4>3 DEF PaidExactlyOnce
      <3> QED BY <2>3, <3>2, <3>3 DEF AddCreditsGrant, GrantRow
    <2>4. ASSUME UseCreditCommit(w) PROVE PaidExactlyOnce'
      <3>1. UNCHANGED <<owner, paymentId, payments>> /\ pc[w] = "uc_commit"
        BY <2>4 DEF UseCreditCommit, At
      <3>2. req[w].who \in Users /\ req[w].ext \in Extractions
        BY <3>1 DEF RequestOK, LocalOK, CreditPCs
      <3>3. payStatus[req[w].ext] = "unpaid" /\ owner[req[w].ext] = req[w].who
        BY <3>1 DEF HeldExtraction, SpendPCs
      <3>4. /\ Book(req[w].who, SpendRow(w)) /\ SpendRow(w).ext = req[w].ext
            /\ payStatus' = [payStatus EXCEPT ![req[w].ext] = "paid"]
        BY <2>4, <3>3 DEF UseCreditCommit, SpendRow, Row
      <3>5. ASSUME NEW x \in Extractions, x # req[w].ext
            PROVE  Spends(x)' = Spends(x) /\ payStatus'[x] = payStatus[x]
        BY <3>2, <3>4, <3>5, SpendsKept DEF TablesTypeOK
      <3>6. ASSUME NEW x \in Extractions, x = req[w].ext
            PROVE  /\ Spends(x)' = {<<req[w].who, Len(ledger[req[w].who]) + 1>>}
                   /\ payStatus'[x] = "paid" /\ paymentId[x] = NONE /\ Purchases(x) = {}
        <4>1. Spends(x) = {} /\ paymentId[x] = NONE /\ Purchases(x) = {}
          BY <3>3, <3>6 DEF PaidExactlyOnce
        <4>2. Spends(x)' = {<<req[w].who, Len(ledger[req[w].who]) + 1>>}
          BY <3>2, <3>4, <3>6, <4>1, SpendsAdded
        <4> QED BY <3>4, <3>6, <4>1, <4>2 DEF TablesTypeOK
      <3>7. ASSUME NEW x \in Extractions, x = req[w].ext
            PROVE  \E e \in Spends(x)' : e[1] = owner'[x] /\ Spends(x)' = {e}
        <4> DEFINE e == <<req[w].who, Len(ledger[req[w].who]) + 1>>
        <4>1. Spends(x)' = {e}
          BY <3>6, <3>7
        <4>2. e[1] = owner'[x]
          BY <3>1, <3>3, <3>7
        <4> HIDE DEF e
        <4> QED BY <4>1, <4>2
      <3>8. ASSUME NEW x \in Extractions, x = req[w].ext
            PROVE  payStatus'[x] = "paid" /\ paymentId'[x] = NONE /\ Purchases(x)' = {}
        BY <1>2, <3>1, <3>6, <3>8
      <3> QED BY <1>2, <3>1, <3>5, <3>7, <3>8 DEF PaidExactlyOnce
    <2>5. ASSUME RecordSingleUnlock(w) PROVE PaidExactlyOnce'
      <3>1. CASE ~Unlockable(w)
        BY <1>4, <2>5, <3>1 DEF RecordSingleUnlock
      <3>2. CASE Unlockable(w)
        <4>1. /\ payments' = payments \cup {req[w].co} /\ UNCHANGED <<owner, ledger, target>>
              /\ payStatus' = [payStatus EXCEPT ![req[w].ext] = "paid"]
              /\ paymentId' = [paymentId EXCEPT ![req[w].ext] = req[w].co]
          BY <2>5, <3>2 DEF RecordSingleUnlock, external
        <4>2. target[req[w].co] = req[w].ext /\ req[w].ext \in Extractions
          BY <2>5 DEF RecordSingleUnlock, At, RequestOK, LocalOK, WebhookPCs, SinglePCs, StripeOK
        <4>3. ASSUME NEW x \in Extractions, x = req[w].ext
              PROVE  /\ Purchases(x)' = {req[w].co} /\ Spends(x)' = {}
                     /\ payStatus'[x] = "paid" /\ paymentId'[x] = req[w].co
          <5>1. Purchases(x) = {} /\ Spends(x) = {}
            BY <3>2, <4>3 DEF PaidExactlyOnce, Unlockable
          <5>2. Purchases(x)' = {req[w].co}
            BY <4>1, <4>2, <4>3, <5>1 DEF Purchases
          <5> QED BY <1>3, <4>1, <4>3, <5>1, <5>2 DEF TablesTypeOK
        <4>4. ASSUME NEW x \in Extractions, x # req[w].ext
              PROVE  /\ Purchases(x)' = Purchases(x)
                     /\ payStatus'[x] = payStatus[x] /\ paymentId'[x] = paymentId[x]
          BY <4>1, <4>2, <4>4 DEF Purchases, TablesTypeOK
        <4> QED BY <1>3, <4>1, <4>3, <4>4 DEF PaidExactlyOnce
      <3> QED BY <3>1, <3>2
    <2>6. ASSUME LinkTransfer(w) PROVE PaidExactlyOnce'
      <3>1. UNCHANGED <<payStatus, paymentId, payments, ledger>>
        BY <2>6 DEF LinkTransfer
      <3>2. req[w].sess \in Sessions
        BY <2>6 DEF LinkTransfer, At, RequestOK, LocalOK, LinkPCs
      <3>3. \A x \in Extractions : owner[x] \in Users => owner'[x] = owner[x]
        BY <2>6, <3>2, ConstantsAssumption DEF LinkTransfer
      <3>4. \A x \in Extractions : \A e \in Spends(x) : e[1] \in Users
        BY SpendsMember
      <3> QED BY <1>2, <1>3, <3>1, <3>3, <3>4 DEF PaidExactlyOnce
    <2> QED BY <1>6, <2>1, <2>2, <2>3, <2>4, <2>5, <2>6 DEF MoneyStep
  <1> QED BY <1>5, <1>6, MoneyFrame

(* However clicks, checkouts, deliveries and links overlap, an unlock is booked on exactly
   one credit or one purchase, and nothing is booked on a locked extraction. *)
THEOREM PaysExactlyOnce == SafetySpec => []PaidExactlyOnce
  <1> DEFINE Inv == TypeInv /\ PaymentsInv /\ HeldExtraction /\ PaidExactlyOnce
  <1>1. Init => Inv
    BY InitTypeInv, InitPaymentsInv, InitHeldExtraction, InitPaidExactlyOnce
  <1>2. Inv /\ [Next]_vars => Inv'
    BY StepTypeInv, StepPaymentsInv, StepHeldExtraction, StepPaidExactlyOnce
  <1> QED BY <1>1, <1>2, PTL DEF SafetySpec

------------------------------------------------------------------------------
(* Payments implements Billing.                                            *)

LEMMA InitBilling == Init => Bill!Init
  <1> SUFFICES ASSUME Init PROVE Bill!Init
    OBVIOUS
  <1>1. \A c \in Checkouts : ~Granted(c)
    BY DEF Init, Granted
  <1> QED BY <1>1 DEF Init, Bill!Init

(* A step that books nothing and unlocks nothing is a stutter of Billing. *)
LEMMA BillingStutter ==
  ASSUME UNCHANGED <<balance, ledger, payStatus, paymentId>>
  PROVE  UNCHANGED Bill!vars
  <1>1. \A c : Granted(c)' <=> Granted(c)
    BY DEF Granted
  <1> QED BY <1>1 DEF Bill!vars

(* What booking a row does to the set of granted payments. *)
LEMMA BookGranted ==
  ASSUME TablesTypeOK, NEW u \in Users, NEW row, Book(u, row), NEW c
  PROVE  Granted(c)' <=> (Granted(c) \/ row.payment = c)
  <1>1. \A v \in Users : DOMAIN ledger[v] = 1..Len(ledger[v])
    BY DEF TablesTypeOK
  <1>2. ASSUME NEW v \in Users PROVE DOMAIN ledger'[v] = 1..Len(ledger'[v])
    <2>1. CASE v = u
      BY <2>1 DEF Book, TablesTypeOK
    <2>2. CASE v # u
      BY <1>1, <2>2 DEF Book, TablesTypeOK
    <2> QED BY <2>1, <2>2
  <1>3. Granted(c)' <=> \E v \in Users : \E i \in 1..Len(ledger'[v]) : ledger'[v][i].payment = c
    BY <1>2 DEF Granted
  <1>4. ASSUME NEW v \in Users, NEW i \in 1..Len(ledger'[v]), ledger'[v][i].payment = c
        PROVE  Granted(c) \/ row.payment = c
    BY <1>4, BookRows, GrantedRow
  <1>5. ASSUME NEW v \in Users, NEW i \in 1..Len(ledger[v]), ledger[v][i].payment = c
        PROVE  Granted(c)'
    BY <1>3, <1>5, BookRows
  <1>6. row.payment = c => Granted(c)'
    BY <1>3, BookRows
  <1> QED BY <1>3, <1>4, <1>5, <1>6, GrantedRow

LEMMA SpendIsStep ==
  ASSUME NEW u \in Users, NEW x \in Extractions, Bill!Spend(u, x)
  PROVE  Bill!Next
  BY DEF Bill!Next

LEMMA UnlockIsStep ==
  ASSUME NEW c \in Checkouts, NEW x \in Extractions, Bill!Unlock(c, x)
  PROVE  Bill!Next
  BY DEF Bill!Next

LEMMA StepBilling ==
  ASSUME TypeInv, HeldBalance, HeldExtraction, LedgerChain, PaidExactlyOnce, [Next]_vars
  PROVE  [Bill!Next]_(Bill!vars)
  <1> USE DEF TypeInv, TypeOK
  <1>1. CASE UNCHANGED <<balance, ledger, payStatus, paymentId>>
    BY <1>1, BillingStutter
  <1>2. ASSUME NEW w \in Workers, AddCreditsGrant(w), ~Granted(req[w].co)
        PROVE  Bill!Grant(req[w].who, req[w].co) /\ req[w].who \in Users /\ req[w].co \in Checkouts
    <2> DEFINE u == req[w].who
               c == req[w].co
               n == CreditPackAmount(Product[c])
    <2>1. pc[w] = "ac_grant" /\ bal[w] = balance[u]
      BY <1>2 DEF AddCreditsGrant, At, HeldBalance, HeldPCs
    <2>2. u \in Users /\ c \in Checkouts /\ Product[c] # "single"
      BY <2>1 DEF RequestOK, LocalOK, WebhookPCs, PackPCs
    <2>3. /\ Book(u, GrantRow(w)) /\ GrantRow(w).payment = c /\ GrantRow(w).after = balance[u] + n
          /\ UNCHANGED <<payStatus, paymentId>>
      BY <1>2, <2>1 DEF AddCreditsGrant, GrantRow, Row
    <2>4. \A d : Granted(d)' <=> (Granted(d) \/ d = c)
      BY <2>2, <2>3, BookGranted
    <2>5. balance' = [balance EXCEPT ![u] = balance[u] + n]
      BY <2>3 DEF Book
    <2>6. n > 0
      BY DEF CreditPackAmount
    <2> QED BY <1>2, <2>2, <2>3, <2>4, <2>5, <2>6 DEF Bill!Grant
  <1>3. ASSUME NEW w \in Workers, NEW u \in Users, NEW x \in Extractions,
               u = req[w].who, x = req[w].ext, UseCreditCommit(w)
        PROVE  Bill!Spend(u, x)
    <2>1. pc[w] = "uc_commit" /\ bal[w] = balance[u] /\ bal[w] >= 1
      BY <1>3 DEF UseCreditCommit, At, HeldBalance, HeldPCs
    <2>2. balance[u] \in Int
      BY DEF TablesTypeOK
    <2>3. payStatus[x] = "unpaid" /\ owner[x] = u
      BY <1>3, <2>1 DEF HeldExtraction, SpendPCs
    <2>4. paymentId[x] = NONE
      BY <2>2, <2>3 DEF PaidExactlyOnce
    <2>5. /\ Book(u, SpendRow(w)) /\ SpendRow(w).payment = NONE /\ SpendRow(w).after = balance[u] - 1
          /\ payStatus' = [payStatus EXCEPT ![x] = "paid"] /\ paymentId' = paymentId
      BY <1>3, <2>1, <2>3 DEF UseCreditCommit, SpendRow, Row
    <2>6. \A d \in Checkouts : Granted(d)' <=> Granted(d)
      BY <2>2, <2>5, BookGranted, ConstantsAssumption
    <2>7. balance' = [balance EXCEPT ![u] = balance[u] - 1]
      BY <2>5 DEF Book
    <2>8. ASSUME NEW y \in Extractions
          PROVE  /\ y # x => payStatus'[y] = payStatus[y] /\ paymentId'[y] = paymentId[y]
                 /\ payStatus'[x] = "paid" /\ paymentId'[x] = NONE
      BY <2>2, <2>4, <2>5 DEF TablesTypeOK
    <2>9. balance[u] > 0
      BY <2>1, <2>2
    <2> QED BY <2>2, <2>3, <2>6, <2>7, <2>8, <2>9 DEF Bill!Spend
  <1>4. ASSUME NEW w \in Workers, NEW c \in Checkouts, NEW x \in Extractions,
               c = req[w].co, x = req[w].ext, RecordSingleUnlock(w), Unlockable(w)
        PROVE  Bill!Unlock(c, x)
    <2>1. Product[c] = "single" /\ c # NONE
      BY <1>4, ConstantsAssumption DEF RecordSingleUnlock, At, RequestOK, LocalOK, SinglePCs
    <2>2. /\ payStatus' = [payStatus EXCEPT ![x] = "paid"]
          /\ paymentId' = [paymentId EXCEPT ![x] = c]
          /\ UNCHANGED <<balance, ledger>> /\ payStatus[x] = "unpaid"
      BY <1>4 DEF RecordSingleUnlock, Unlockable
    <2>3. \A d : Granted(d)' <=> Granted(d)
      BY <2>2 DEF Granted
    <2> QED BY <2>1, <2>2, <2>3 DEF Bill!Unlock, TablesTypeOK
  <1>5. ASSUME NEW w \in Workers, MoneyStep(w)
        PROVE  \/ UNCHANGED <<balance, ledger, payStatus, paymentId>>
               \/ AddCreditsGrant(w) /\ ~Granted(req[w].co)
               \/ UseCreditCommit(w)
               \/ RecordSingleUnlock(w) /\ Unlockable(w)
    BY <1>5 DEF MoneyStep, RecordPaymentSelect, RecordPaymentInsert, AddCreditsLock,
       AddCreditsGrant, RecordSingleSelect, RecordSingleInsert, RecordSingleUnlock,
       CompleteEvent, UseCreditLockExtraction, UseCreditLockUser, LinkTransfer, tables
  <1>6. CASE MoneyUnchanged
    BY <1>1, <1>6 DEF MoneyUnchanged
  <1>7. ASSUME NEW w \in Workers, MoneyStep(w) PROVE [Bill!Next]_(Bill!vars)
    <2>1. CASE UNCHANGED <<balance, ledger, payStatus, paymentId>>
      BY <1>1, <2>1
    <2>2. CASE AddCreditsGrant(w) /\ ~Granted(req[w].co)
      BY <1>2, <2>2 DEF Bill!Next
    <2>3. CASE UseCreditCommit(w)
      <3>1. req[w].who \in Users /\ req[w].ext \in Extractions
        BY <2>3 DEF UseCreditCommit, At, RequestOK, LocalOK, CreditPCs
      <3> QED BY <1>3, <2>3, <3>1, SpendIsStep
    <2>4. CASE RecordSingleUnlock(w) /\ Unlockable(w)
      <3>1. req[w].co \in Checkouts /\ req[w].ext \in Extractions
        BY <2>4 DEF RecordSingleUnlock, At, RequestOK, LocalOK, WebhookPCs, SinglePCs, StripeOK
      <3> QED BY <1>4, <2>4, <3>1, UnlockIsStep
    <2> QED BY <1>5, <1>7, <2>1, <2>2, <2>3, <2>4
  <1> QED BY <1>6, <1>7, MoneyFrame

(* The statement-level protocol with its locks, retries, crashes and deadlocks is a
   correct implementation of the atomic billing service. *)
THEOREM PaymentsImplementsBilling == SafetySpec => ImplementsBilling
  <1> DEFINE Inv == /\ TypeInv /\ HeldBalance /\ LedgerChain
                    /\ PaymentsInv /\ HeldExtraction /\ PaidExactlyOnce
  <1>1. Init => Inv /\ Bill!Init
    BY InitTypeInv, InitHeldBalance, InitLedgerChain, InitPaymentsInv, InitHeldExtraction,
       InitPaidExactlyOnce, InitBilling
  <1>2. Inv /\ [Next]_vars => Inv'
    BY StepTypeInv, StepHeldBalance, StepLedgerChain, StepPaymentsInv, StepHeldExtraction,
       StepPaidExactlyOnce
  <1>3. Inv /\ [Next]_vars => [Bill!Next]_(Bill!vars)
    BY StepBilling
  <1> QED BY <1>1, <1>2, <1>3, PTL DEF SafetySpec, ImplementsBilling, Bill!Spec

------------------------------------------------------------------------------
(* An event is marked processed only after its effects, and a purchase     *)
(* unlocks nothing but what is its buyer's.                                *)

(* What an event pays for has happened. *)
Done(c) == IF Product[c] = "single" THEN c \in payments ELSE Granted(c)

CompleteInv ==
  /\ \A c \in processed : Done(c)
  /\ \A w \in Workers : pc[w] = "wh_complete" => Done(req[w].co)

LEMMA InitCompleteInv == Init => CompleteInv
  BY DEF Init, CompleteInv

(* No row of the ledger and no payment is ever removed. *)
LEMMA DoneStays ==
  ASSUME TypeInv, [Next]_vars
  PROVE  \A c : Done(c) => Done(c)'
  <1> USE DEF TypeInv, TypeOK
  <1>1. payments \subseteq payments'
    <2>1. ASSUME NEW w \in Workers, MoneyStep(w) PROVE payments \subseteq payments'
      BY <2>1 DEF MoneyStep, RecordPaymentSelect, RecordPaymentInsert, AddCreditsLock,
         AddCreditsGrant, RecordSingleSelect, RecordSingleInsert, RecordSingleUnlock,
         CompleteEvent, UseCreditLockExtraction, UseCreditLockUser, UseCreditCommit,
         LinkTransfer, tables
    <2> QED BY <2>1, MoneyFrame DEF MoneyUnchanged
  <1>2. TablesTypeOK'
    BY StepTypeInv
  <1>3. ASSUME UNCHANGED ledger, NEW c, Granted(c) PROVE Granted(c)'
    BY <1>3 DEF Granted
  <1>4. ASSUME NEW u \in Users, NEW row, Book(u, row), NEW c, Granted(c) PROVE Granted(c)'
    <2>1. PICK v \in Users : \E i \in 1..Len(ledger[v]) : ledger[v][i].payment = c
      BY <1>4, GrantedRow
    <2>2. \A i \in 1..Len(ledger[v]) : i \in 1..Len(ledger'[v]) /\ ledger'[v][i] = ledger[v][i]
      BY <1>4, <2>1, BookRows
    <2>3. DOMAIN ledger'[v] = 1..Len(ledger'[v])
      BY <1>2 DEF TablesTypeOK
    <2> QED BY <2>1, <2>2, <2>3 DEF Granted
  <1>5. UNCHANGED ledger \/ \E u \in Users : \E row : Book(u, row)
    <2>1. ASSUME NEW w \in Workers, AddCreditsGrant(w) \/ UseCreditCommit(w)
          PROVE  UNCHANGED ledger \/ \E u \in Users : \E row : Book(u, row)
      <3>1. req[w].who \in Users
        BY <2>1 DEF AddCreditsGrant, UseCreditCommit, At, RequestOK, LocalOK, PackPCs, CreditPCs
      <3> QED BY <2>1, <3>1 DEF AddCreditsGrant, UseCreditCommit
    <2>2. ASSUME NEW w \in Workers, AddCreditsLock(w) \/ UseCreditLockUser(w)
          PROVE  UNCHANGED ledger
      BY <2>2 DEF AddCreditsLock, UseCreditLockUser, tables
    <2> QED BY <2>1, <2>2, HeldFrame DEF LockStep, HeldUnchanged
  <1> QED BY <1>1, <1>3, <1>4, <1>5 DEF Done

(* The ledger holds the payment once addCredits has granted it. *)
LEMMA GrantIsDone ==
  ASSUME TypeInv, [Next]_vars, NEW w \in Workers, AddCreditsGrant(w)
  PROVE  Done(req[w].co)'
  <1> USE DEF TypeInv, TypeOK
  <1>1. req[w].who \in Users /\ Product[req[w].co] # "single" /\ req' = req
    BY DEF AddCreditsGrant, At, RequestOK, LocalOK, PackPCs, locals
  <1>2. CASE Granted(req[w].co)
    BY <1>1, <1>2, DoneStays DEF Done
  <1>3. CASE ~Granted(req[w].co)
    <2> DEFINE u == req[w].who
    <2>1. Book(u, GrantRow(w))
      BY <1>3 DEF AddCreditsGrant, GrantRow
    <2>2. /\ Len(ledger[u]) + 1 \in 1..Len(ledger'[u])
          /\ ledger'[u][Len(ledger[u]) + 1] = GrantRow(w)
      BY <1>1, <2>1, BookRows
    <2>3. TablesTypeOK'
      BY StepTypeInv
    <2>4. DOMAIN ledger'[u] = 1..Len(ledger'[u])
      BY <1>1, <2>3 DEF TablesTypeOK
    <2>5. GrantRow(w).payment = req[w].co
      BY DEF GrantRow, Row
    <2> QED BY <1>1, <2>2, <2>4, <2>5 DEF Done, Granted
  <1> QED BY <1>2, <1>3

LEMMA StepCompleteInv ==
  TypeInv /\ PaymentsInv /\ CompleteInv /\ [Next]_vars => CompleteInv'
  <1> SUFFICES ASSUME TypeInv, PaymentsInv, CompleteInv, [Next]_vars PROVE CompleteInv'
    OBVIOUS
  <1> USE DEF TypeInv, TypeOK, WorkersTypeOK
  <1>1. \A c : Done(c) => Done(c)'
    BY DoneStays
  <1>2. ASSUME UNCHANGED processed,
               \A v \in Workers : pc'[v] = "wh_complete" => pc[v] = "wh_complete" /\ req'[v] = req[v]
        PROVE  CompleteInv'
    <2>1. \A c \in processed' : Done(c)'
      BY <1>1, <1>2 DEF CompleteInv
    <2>2. ASSUME NEW v \in Workers, pc'[v] = "wh_complete" PROVE Done(req[v].co)'
      <3>1. PICK c : c = req[v].co
        OBVIOUS
      <3>2. Done(c)' /\ req'[v].co = c
        BY <1>1, <1>2, <2>2, <3>1 DEF CompleteInv
      <3> QED BY <3>2 DEF Done, Granted
    <2> QED BY <2>1, <2>2 DEF CompleteInv
  <1>3. ASSUME NEW w \in Workers, MoneyStep(w) PROVE CompleteInv'
    <2>1. CASE CompleteEvent(w)
      <3>1. \A v \in Workers : pc'[v] = "wh_complete" =>
              v # w /\ pc[v] = "wh_complete" /\ req'[v] = req[v]
        BY <2>1 DEF CompleteEvent, Idle, Goto
      <3>2. pc[w] = "wh_complete" /\ processed' = processed \cup {req[w].co}
        BY <2>1 DEF CompleteEvent, At
      <3>3. \A c \in processed' : Done(c)'
        BY <1>1, <3>2 DEF CompleteInv
      <3>4. ASSUME NEW v \in Workers, pc'[v] = "wh_complete" PROVE Done(req[v].co)'
        <4>1. PICK c : c = req[v].co
          OBVIOUS
        <4>2. Done(c)' /\ req'[v].co = c
          BY <1>1, <3>1, <3>4, <4>1 DEF CompleteInv
        <4> QED BY <4>2 DEF Done, Granted
      <3> QED BY <3>3, <3>4 DEF CompleteInv
    <2>2. ASSUME \/ RecordPaymentSelect(w) \/ RecordPaymentInsert(w) \/ RecordSingleSelect(w)
                 \/ RecordSingleInsert(w) \/ AddCreditsLock(w) \/ UseCreditLockExtraction(w)
                 \/ UseCreditLockUser(w) \/ UseCreditCommit(w) \/ LinkTransfer(w)
          PROVE  CompleteInv'
      BY <1>2, <2>2 DEF RecordPaymentSelect, RecordPaymentInsert, RecordSingleSelect,
         RecordSingleInsert, AddCreditsLock, UseCreditLockExtraction, UseCreditLockUser,
         UseCreditCommit, LinkTransfer, Goto, Idle, Wrote, ReadBalance, tables, locals
    <2>3. ASSUME AddCreditsGrant(w) \/ RecordSingleUnlock(w),
                 pc'[w] = "wh_complete" => Done(req[w].co)'
          PROVE  CompleteInv'
      <3>1. /\ processed' = processed /\ req' = req
            /\ \A v \in Workers : v # w => pc'[v] = pc[v]
        BY <2>3 DEF AddCreditsGrant, RecordSingleUnlock, Goto, locals
      <3>2. \A c \in processed' : Done(c)'
        BY <1>1, <3>1 DEF CompleteInv
      <3>3. ASSUME NEW v \in Workers, v # w, pc'[v] = "wh_complete" PROVE Done(req[v].co)'
        <4>1. PICK c : c = req[v].co
          OBVIOUS
        <4>2. Done(c)' /\ req'[v].co = c
          BY <1>1, <3>1, <3>3, <4>1 DEF CompleteInv
        <4> QED BY <4>2 DEF Done, Granted
      <3> QED BY <2>3, <3>2, <3>3 DEF CompleteInv
    <2>4. CASE AddCreditsGrant(w)
      BY <2>3, <2>4, GrantIsDone
    <2>5. CASE RecordSingleUnlock(w)
      <3>1. pc[w] = "rs_unlock" /\ Product[req[w].co] = "single" /\ req' = req
        BY <2>5 DEF RecordSingleUnlock, At, RequestOK, LocalOK, SinglePCs, locals
      <3>2. pc'[w] = "wh_complete" => req[w].co \in payments'
        BY <2>5, <3>1 DEF RecordSingleUnlock, Goto, PaymentsInv
      <3> QED BY <2>3, <2>5, <3>1, <3>2 DEF Done
    <2> QED BY <1>3, <2>1, <2>2, <2>4, <2>5 DEF MoneyStep
  <1>4. CASE MoneyUnchanged
    BY <1>2, <1>4 DEF MoneyUnchanged, MoneyPCs
  <1> QED BY <1>3, <1>4, MoneyFrame

(* However deliveries overlap, crash and are repeated, an event that is marked processed has
   granted its credits or has its payment on record. *)
THEOREM CompletesAfterEffects == SafetySpec => []CompleteAfterEffects
  <1> DEFINE Inv == TypeInv /\ PaymentsInv /\ CompleteInv
  <1>1. Init => Inv
    BY InitTypeInv, InitPaymentsInv, InitCompleteInv
  <1>2. Inv /\ [Next]_vars => Inv'
    BY StepTypeInv, StepPaymentsInv, StepCompleteInv
  <1>3. Inv => CompleteAfterEffects
    BY DEF CompleteInv, CompleteAfterEffects, Done
  <1> QED BY <1>1, <1>2, <1>3, PTL DEF SafetySpec
------------------------------------------------------------------------------
(* The owner of what was bought.  The lock on the session's row keeps its  *)
(* linked_user_id from changing between the SELECT and the transfer.       *)

HeldSession ==
  \A w \in Workers : pc[w] = "ln_move" =>
    /\ linkedTo[req[w].sess] \in {NONE, req[w].who}
    /\ \A v \in Workers : v # w /\ pc[v] = "ln_move" => req[v].sess # req[w].sess

BuyerInv ==
  \A x \in Extractions : paymentId[x] # NONE => stripe[paymentId[x]] = "paid"

(* What every step but those of linking leaves alone. *)
LinkUnchanged ==
  /\ UNCHANGED <<owner, linkedTo>>
  /\ \A v \in Workers : pc'[v] = "ln_move" => pc[v] = "ln_move" /\ req'[v] = req[v]

LEMMA LinkFrame ==
  ASSUME TypeOK, [Next]_vars
  PROVE  LinkUnchanged \/ \E w \in Workers : Link(w)
  <1> USE DEF LinkUnchanged, TypeOK, WorkersTypeOK, At, Goto, tables, external, counters, locals
  <1>1. ASSUME NEW w \in Workers, Webhook(w) PROVE LinkUnchanged
    BY <1>1 DEF Webhook, Claim, FirstStep, RecordPaymentSelect, RecordPaymentInsert,
       AddCreditsLock, AddCreditsGrant, RecordSingleSelect, RecordSingleInsert,
       RecordSingleUnlock, CompleteEvent, FailEvent, Idle, Wrote, ReadBalance
  <1>2. ASSUME NEW w \in Workers, UseCredit(w) PROVE LinkUnchanged
    BY <1>2 DEF UseCredit, UseCreditLockExtraction, UseCreditLockUser, UseCreditCommit, Idle,
       ReadBalance
  <1>3. ASSUME NEW w \in Workers, DeleteAccount(w) PROVE LinkUnchanged
    BY <1>3 DEF DeleteAccount, DeleteAccountUser, DeleteAccountCommit, DeleteAccountSend,
       Idle, Wrote
  <1>4. ASSUME NEW w \in Workers, Start(w) PROVE LinkUnchanged
    BY <1>4 DEF Start, Deliver, DeliverAgain, StartUseCredit, StartDeleteAccount, StartLink,
       Take
  <1>5. ASSUME NEW w \in Workers, Crash(w) \/ DeadlockVictim(w) PROVE LinkUnchanged
    BY <1>5 DEF Crash, DeadlockVictim, Idle
  <1>6. ASSUME Environment PROVE LinkUnchanged
    BY <1>6 DEF Environment, CreateCheckout, CustomerPays, ExpireSession, SoftDeleteExtraction
  <1>7. CASE UNCHANGED vars
    BY <1>7 DEF vars
  <1> QED BY <1>1, <1>2, <1>3, <1>4, <1>5, <1>6, <1>7 DEF Next, Handle

LEMMA StepHeldSession == TypeInv /\ HeldSession /\ [Next]_vars => HeldSession'
  <1> SUFFICES ASSUME TypeInv, HeldSession, [Next]_vars PROVE HeldSession'
    OBVIOUS
  <1> USE DEF TypeInv, TypeOK, WorkersTypeOK, TablesTypeOK, HeldSession
  <1>1. CASE LinkUnchanged
    BY <1>1 DEF LinkUnchanged
  <1>2. ASSUME NEW w \in Workers, LinkLockSession(w) PROVE HeldSession'
    <2>1. \A v \in Workers : v # w /\ pc[v] = "ln_move" => req[v].sess # req[w].sess
      BY <1>2 DEF LinkLockSession, At, WaitsFor, HoldsSession
    <2>2. /\ UNCHANGED <<owner, linkedTo>>
          /\ \A v \in Workers : v # w => pc'[v] = pc[v] /\ req'[v] = req[v]
      BY <1>2 DEF LinkLockSession, Goto, Idle, tables, locals
    <2>3. pc'[w] = "ln_move" => req'[w] = req[w] /\ linkedTo[req[w].sess] \in {NONE, req[w].who}
      BY <1>2 DEF LinkLockSession, Goto, Idle, locals
    <2>4. ASSUME NEW u \in Workers, pc'[u] = "ln_move"
          PROVE  /\ req'[u] = req[u] /\ linkedTo'[req[u].sess] \in {NONE, req[u].who}
                 /\ u # w => pc[u] = "ln_move"
      BY <2>2, <2>3, <2>4
    <2>5. ASSUME NEW u \in Workers, NEW v \in Workers, v # u,
                 pc'[u] = "ln_move", pc'[v] = "ln_move"
          PROVE  req'[v].sess # req'[u].sess
      <3>1. req'[u] = req[u] /\ req'[v] = req[v]
        BY <2>4, <2>5
      <3>2. req[v].sess # req[u].sess
        BY <2>1, <2>4, <2>5
      <3> QED BY <3>1, <3>2
    <2> QED BY <2>4, <2>5
  <1>3. ASSUME NEW w \in Workers, LinkTransfer(w) PROVE HeldSession'
    <2>1. pc[w] = "ln_move" /\ \A v \in Workers : pc'[v] = "ln_move" =>
            v # w /\ pc[v] = "ln_move" /\ req'[v] = req[v]
      BY <1>3 DEF LinkTransfer, At, Goto, Idle
    <2>2. \A s \in Sessions : s # req[w].sess => linkedTo'[s] = linkedTo[s]
      BY <1>3 DEF LinkTransfer
    <2>3. ASSUME NEW u \in Workers, pc'[u] = "ln_move"
          PROVE  /\ u # w /\ pc[u] = "ln_move" /\ req'[u] = req[u]
                 /\ linkedTo'[req[u].sess] \in {NONE, req[u].who}
      <3>1. u # w /\ pc[u] = "ln_move" /\ req'[u] = req[u]
        BY <2>1, <2>3
      <3>2. req[u].sess \in Sessions
        BY <3>1 DEF RequestOK, LocalOK, LinkPCs
      <3>3. req[u].sess # req[w].sess
        BY <2>1, <3>1
      <3>4. linkedTo'[req[u].sess] = linkedTo[req[u].sess]
        BY <2>2, <3>2, <3>3
      <3> QED BY <3>1, <3>4
    <2>4. ASSUME NEW u \in Workers, NEW v \in Workers, v # u,
                 pc'[u] = "ln_move", pc'[v] = "ln_move"
          PROVE  req'[v].sess # req'[u].sess
      <3>1. /\ pc[u] = "ln_move" /\ req'[u] = req[u]
            /\ pc[v] = "ln_move" /\ req'[v] = req[v]
        BY <2>3, <2>4
      <3> QED BY <2>4, <3>1
    <2> QED BY <2>3, <2>4
  <1> QED BY <1>1, <1>2, <1>3, LinkFrame DEF Link

LEMMA StepPaidForOwner ==
  TypeInv /\ HeldSession /\ BuyerInv /\ PaidForOwner /\ [Next]_vars
    => BuyerInv' /\ PaidForOwner'
  <1> SUFFICES ASSUME TypeInv, HeldSession, BuyerInv, PaidForOwner, [Next]_vars
               PROVE  BuyerInv' /\ PaidForOwner'
    OBVIOUS
  <1> USE DEF TypeInv, TypeOK, TablesTypeOK, BuyerInv, PaidForOwner
  <1>1. BuyersKept
    BY BuyersFrame
  <1>2. \A x \in Extractions : paymentId[x] # NONE =>
          /\ paymentId[x] \in Checkouts
          /\ stripe'[paymentId[x]] = "paid" /\ buyer'[paymentId[x]] = buyer[paymentId[x]]
    BY <1>1 DEF BuyersKept
  <1>3. CASE UNCHANGED <<owner, linkedTo, paymentId>>
    BY <1>2, <1>3
  <1>4. ASSUME NEW w \in Workers, LinkTransfer(w) PROVE BuyerInv' /\ PaidForOwner'
    <2>1. /\ req[w].sess \in Sessions /\ req[w].who \in Users
          /\ linkedTo[req[w].sess] \in {NONE, req[w].who}
      BY <1>4 DEF LinkTransfer, At, RequestOK, LocalOK, LinkPCs, HeldSession
    <2>2. /\ paymentId' = paymentId
          /\ \A s \in Sessions : linkedTo'[s] = IF s = req[w].sess THEN req[w].who ELSE linkedTo[s]
          /\ \A x \in Extractions :
               owner'[x] = IF owner[x] = req[w].sess THEN req[w].who ELSE owner[x]
      BY <1>4 DEF LinkTransfer
    <2>3. ASSUME NEW x \in Extractions, paymentId[x] # NONE
          PROVE  LET o == buyer[paymentId[x]] IN
                 owner'[x] = o \/ (o \in Sessions /\ linkedTo'[o] = owner'[x])
      <3> DEFINE o == buyer[paymentId[x]]
      <3>1. CASE owner[x] = o
        <4>1. CASE o = req[w].sess
          BY <2>1, <2>2, <3>1, <4>1
        <4>2. CASE o # req[w].sess
          BY <2>2, <3>1, <4>2
        <4> QED BY <4>1, <4>2
      <3>2. CASE o \in Sessions /\ linkedTo[o] = owner[x]
        <4>1. linkedTo[o] \in Users
          BY <3>2, <2>3, ConstantsAssumption DEF Owners
        <4>2. owner[x] # req[w].sess
          BY <2>1, <3>2, <4>1, ConstantsAssumption
        <4>3. o = req[w].sess => owner[x] = req[w].who
          BY <2>1, <3>2, <4>1, ConstantsAssumption
        <4> QED BY <2>2, <3>2, <4>2, <4>3
      <3> QED BY <2>3, <3>1, <3>2
    <2> QED BY <1>2, <2>2, <2>3
  <1>5. ASSUME NEW w \in Workers, RecordSingleUnlock(w), Unlockable(w),
               UNCHANGED <<owner, linkedTo>>
        PROVE  BuyerInv' /\ PaidForOwner'
    <2>1. /\ req[w].co \in Checkouts /\ stripe[req[w].co] = "paid"
          /\ req[w].who = buyer[req[w].co]
      BY <1>5 DEF RecordSingleUnlock, At, RequestOK, LocalOK, WebhookPCs
    <2>2. /\ paymentId' = [paymentId EXCEPT ![req[w].ext] = req[w].co]
          /\ stripe' = stripe /\ buyer' = buyer
      BY <1>5 DEF RecordSingleUnlock, external
    <2>3. owner[req[w].ext] = buyer[req[w].co]
      BY <1>5, <2>1 DEF Unlockable
    <2> QED BY <1>5, <2>1, <2>2, <2>3
  <1>6. UNCHANGED paymentId \/ \E w \in Workers :
          /\ RecordSingleUnlock(w) /\ Unlockable(w)
          /\ UNCHANGED <<owner, linkedTo>>
    <2>1. ASSUME NEW w \in Workers, RecordSingleUnlock(w), ~UNCHANGED paymentId
          PROVE  Unlockable(w) /\ UNCHANGED <<owner, linkedTo>>
      BY <2>1 DEF RecordSingleUnlock
    <2>2. ASSUME NEW w \in Workers, MoneyStep(w), ~RecordSingleUnlock(w)
          PROVE  UNCHANGED paymentId
      BY <2>2 DEF MoneyStep, RecordPaymentSelect, RecordPaymentInsert, AddCreditsLock,
         AddCreditsGrant, RecordSingleSelect, RecordSingleInsert, CompleteEvent,
         UseCreditLockExtraction, UseCreditLockUser, UseCreditCommit, LinkTransfer, tables
    <2> QED BY <2>1, <2>2, MoneyFrame DEF MoneyUnchanged
  <1>7. ASSUME NEW w \in Workers, Link(w), UNCHANGED paymentId PROVE BuyerInv' /\ PaidForOwner'
    BY <1>3, <1>4, <1>7 DEF Link, LinkLockSession, tables
  <1> QED BY <1>3, <1>5, <1>6, <1>7, LinkFrame DEF LinkUnchanged

(* Whatever is linked, expires or is deleted between a checkout and its webhook, what the
   purchase unlocks belongs to its buyer or to the user who linked the buyer's session. *)
THEOREM PurchasesUnlockTheBuyers == SafetySpec => []PaidForOwner
  <1> DEFINE Inv == TypeInv /\ HeldSession /\ BuyerInv /\ PaidForOwner
  <1>1. Init => Inv
    BY InitTypeInv DEF Init, HeldSession, BuyerInv, PaidForOwner
  <1>2. Inv /\ [Next]_vars => Inv'
    BY StepTypeInv, StepHeldSession, StepPaidForOwner
  <1> QED BY <1>1, <1>2, PTL DEF SafetySpec
==============================================================================
