------------------------------ MODULE Lifecycle ------------------------------
(***************************************************************************)
(* What one extraction goes through, as its customer sees it: the status   *)
(* moves forward, the results of exactly one inference are published       *)
(* together, and every notification is sent at most once, after that.      *)
(* Extraction.tla implements it with durable steps that are retried.       *)
(***************************************************************************)
EXTENDS Naturals

CONSTANT Kinds       \* the notifications of a finished extraction

VARIABLES
  status,            \* "none" until the upload is recorded
  shown,             \* the inference whose results are published, 0 while there is none
  owed,              \* notifications still to be handed to the queue
  mails              \* [Kinds -> Nat]: how often each was handed over

vars == <<status, shown, owed, mails>>

Unfinished == {"uploading", "extracting", "scoring"}

Init ==
  /\ status = "none" /\ shown = 0
  /\ owed = {} /\ mails = [k \in Kinds |-> 0]

Advance(from, to) ==
  /\ status = from
  /\ status' = to
  /\ UNCHANGED <<shown, owed, mails>>

\* Results, scores and red flags of one inference appear at once.  When the worker is
\* lost right then, nobody is left to send the notifications.
Publish ==
  /\ status = "scoring"
  /\ status' = "complete"
  /\ shown' \in Nat \ {0}
  /\ owed' \in {Kinds, {}}
  /\ UNCHANGED mails

\* The notifications in S are handed over, the others are given up.
Notify(S) ==
  /\ owed # {} /\ S \subseteq owed
  /\ mails' = [k \in Kinds |-> IF k \in S THEN mails[k] + 1 ELSE mails[k]]
  /\ owed' = {}
  /\ UNCHANGED <<status, shown>>

Fail ==
  /\ status \in Unfinished
  /\ status' = "failed"
  /\ UNCHANGED <<shown, owed, mails>>

\* The upload handler believes that processing never started; it may be late.
GiveUp ==
  /\ status # "none"
  /\ status' = "failed"
  /\ shown' = 0
  /\ UNCHANGED <<owed, mails>>

Next ==
  \/ Advance("none", "uploading") \/ Advance("uploading", "extracting")
  \/ Advance("extracting", "scoring")
  \/ Publish
  \/ \E S \in SUBSET Kinds : Notify(S)
  \/ Fail \/ GiveUp

Spec == Init /\ [][Next]_vars

\* What follows from it: no notification is handed to the queue twice, and so no customer is
\* written to twice because a step of the workflow was repeated.
NotifiedOnce == \A k \in Kinds : mails[k] <= 1
==============================================================================
