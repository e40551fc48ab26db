----------------------------- MODULE MCPayments ------------------------------
(* Instances of Payments for TLC.  A configuration names the checkouts that *)
(* sell the two credit packs; every other checkout is a single unlock, and  *)
(* those are interchangeable, as are workers and accounts.                  *)
EXTENDS Payments, TLC

CONSTANTS
  Five,       \* the checkouts that sell the pack of five credits
  Ten         \* the checkouts that sell the pack of ten

ASSUME PacksAreCheckouts == Five \cup Ten \subseteq Checkouts

Products == [c \in Checkouts |-> IF c \in Five THEN "credit_pack_5"
                                 ELSE IF c \in Ten THEN "credit_pack_10"
                                 ELSE "single"]

WorkerSymmetry == Permutations(Workers)

Symmetry == WorkerSymmetry \cup Permutations(Users)
              \cup Permutations(Checkouts \ (Five \cup Ten))
==============================================================================
