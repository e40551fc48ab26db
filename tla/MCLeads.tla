-------------------------------- MODULE MCLeads --------------------------------
(***************************************************************************)
(* Leads with one form submitted twice, another form of the same address,  *)
(* and one of another address.                                             *)
(***************************************************************************)
EXTENDS Leads

FourForms ==
  [c1 |-> [email |-> "ann", kind |-> "checklist", mail |-> TRUE],
   c2 |-> [email |-> "ann", kind |-> "checklist", mail |-> TRUE],
   c3 |-> [email |-> "ann", kind |-> "calculator", mail |-> FALSE],
   c4 |-> [email |-> "bea", kind |-> "checklist", mail |-> FALSE]]
==============================================================================
