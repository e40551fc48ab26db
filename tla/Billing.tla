------------------------------- MODULE Billing -------------------------------
(***************************************************************************)
(* What the payment service promises, with no database in sight: a paid    *)
(* credit pack is granted at most once, a credit is spent only when there  *)
(* is one, and an extraction is unlocked at most once, by exactly one      *)
(* credit or by exactly one purchase.  Each promise is one atomic step.    *)
(* Payments.tla implements it with row locks, retries and crashes.         *)
(***************************************************************************)
EXTENDS Integers

CONSTANTS
  Users, Extractions, Checkouts,
  PackCredits,   \* [Checkouts -> Nat]: the credits a checkout grants, 0 for a single unlock
  CREDIT,        \* the funding of an extraction unlocked by a credit
  NONE

VARIABLES
  balance,       \* [Users -> Nat]
  granted,       \* the checkouts whose credits were granted
  funding        \* [Extractions -> Checkouts \cup {CREDIT, NONE}]

vars == <<balance, granted, funding>>

Init ==
  /\ balance = [u \in Users |-> 0]
  /\ granted = {}
  /\ funding = [x \in Extractions |-> NONE]

\* A credit pack is granted, once, in full.
Grant(u, c) ==
  /\ c \notin granted
  /\ PackCredits[c] > 0
  /\ granted' = granted \cup {c}
  /\ balance' = [balance EXCEPT ![u] = @ + PackCredits[c]]
  /\ UNCHANGED funding

\* A user spends one credit on an extraction nobody has paid for.
Spend(u, x) ==
  /\ funding[x] = NONE
  /\ balance[u] > 0
  /\ balance' = [balance EXCEPT ![u] = @ - 1]
  /\ funding' = [funding EXCEPT ![x] = CREDIT]
  /\ UNCHANGED granted

\* A single purchase unlocks the extraction it was made for.
Unlock(c, x) ==
  /\ funding[x] = NONE
  /\ PackCredits[c] = 0
  /\ funding' = [funding EXCEPT ![x] = c]
  /\ UNCHANGED <<balance, granted>>

Next ==
  \/ \E u \in Users, c \in Checkouts : Grant(u, c)
  \/ \E u \in Users, x \in Extractions : Spend(u, x)
  \/ \E c \in Checkouts, x \in Extractions : Unlock(c, x)

Spec == Init /\ [][Next]_vars
==============================================================================
