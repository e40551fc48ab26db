------------------------------- MODULE Scoring --------------------------------
(***************************************************************************)
(* What is computed from the fields of a lease, without any state:         *)
(* reading a model's answer (extraction/response-parser.ts), scoring its   *)
(* confidence (confidence/score-confidence.ts) and detecting red flags     *)
(* (red-flags/rules.ts, detect-red-flags.ts) in packages/extract-core.     *)
(*                                                                         *)
(* An extraction maps the names of the reported fields to a value and a    *)
(* confidence.  Units: confidences in hundredths, scores in 1/10000,       *)
(* shares and percentages in thousandths, dates in months (of which only   *)
(* the order and the distance matter), weights in halves.                  *)
(***************************************************************************)
EXTENDS Integers, FiniteSets, Functions

CONSTANTS
  NONE,       \* null, or a value of the wrong type for the rule that reads it
  Registered, \* fields of the schema (the model may answer with others)
  CamFields   \* those of them with cam_relevant

Got(d, f) == IF f \in DOMAIN d THEN d[f] ELSE NONE
Value(ext, f) == IF f \in DOMAIN ext THEN ext[f].value ELSE NONE

Distance(a, b) == IF a > b THEN a - b ELSE b - a

------------------------------------------------------------------------------
(* Reading an answer                                                       *)

\* 0.95 and 95 are the same confidence; anything else is clamped.
NormalConfidence(c) ==
  LET n == IF c > 100 THEN c \div 100 ELSE c
  IN IF n < 0 THEN 0 ELSE IF n > 100 THEN 100 ELSE n

\* The fields whose data_type is percentage
Percentages ==
  {"pro_rata_share", "management_fee_cap", "cam_cap_percentage", "gross_up_percentage",
   "load_factor", "fixed_escalation_rate", "percentage_rent_rate", "profit_sharing_percentage",
   "late_fee_percentage", "discount_rate", "cpi_escalation_floor", "cpi_escalation_ceiling"}

\* Numbers above 1 and up to 100 are taken for percent.
ReadValue(f, v) ==
  IF f \in Percentages /\ v # NONE /\ v > 1000 /\ v <= 100000 THEN v \div 100 ELSE v

Read(answer) ==
  [f \in DOMAIN answer |->
     [value |-> ReadValue(f, answer[f].value), conf |-> NormalConfidence(answer[f].conf)]]

------------------------------------------------------------------------------
(* Confidence                                                              *)

\* Variant: a share of at most 1 is a ratio.
Inconsistent_Naive(share, tenant, building) ==
  IF share <= 1000 THEN 50 * Distance(share * building, tenant * 1000) > tenant * 1000
                   ELSE 50 * Distance(share * building, tenant * 100000) > tenant * 100000

\* The share is compared with tenant / building, as a ratio or as percent, whichever of the
\* two it is closer to, to within 2 per cent.
Inconsistent(share, tenant, building) ==
  LET asRatio   == Distance(share * building, tenant * 1000)
      asPercent == Distance(share * building, tenant * 100000)
  IN IF asRatio < asPercent THEN 50 * asRatio > tenant * 1000 ELSE 50 * asPercent > tenant * 100000

ProRataPenalties(ext) ==
  LET share == Value(ext, "pro_rata_share")
      tenant == Value(ext, "rentable_square_footage")
      building == Value(ext, "building_total_rsf")
  IN IF /\ NONE \notin {share, tenant, building}
        /\ building # 0 /\ tenant # 0
        /\ Inconsistent(share, tenant, building)
       THEN {"pro_rata_share", "rentable_square_footage", "building_total_rsf"} ELSE {}

DatePenalties(ext) ==
  LET from == Value(ext, "commencement_date")
      to   == Value(ext, "expiration_date")
      rent == Value(ext, "rent_commencement_date")
  IN IF NONE \in {from, to} THEN {}
     ELSE IF from >= to THEN {"commencement_date", "expiration_date"}
     ELSE IF rent # NONE /\ rent \notin from..to THEN {"rent_commencement_date"} ELSE {}

\* The stated term may differ by one month from the dates, which must be in order.
TermPenalties(ext) ==
  LET term == Value(ext, "lease_term_months")
      from == Value(ext, "commencement_date")
      to   == Value(ext, "expiration_date")
  IN IF NONE \notin {term, from, to} /\ from < to /\ Distance(term, to - from) > 1
       THEN {"lease_term_months"} ELSE {}

Penalties(ext) == <<ProRataPenalties(ext), DatePenalties(ext), TermPenalties(ext)>>

\* Each penalty takes three tenths of what is left.
Penalised(score, n) ==
  CASE n = 0 -> score
    [] n = 1 -> (score * 7) \div 10
    [] n = 2 -> (score * 49) \div 100
    [] n = 3 -> (score * 343) \div 1000

TimesPenalised(ext, f) == Cardinality({i \in 1..3 : f \in Penalties(ext)[i]})

Tier(score) == IF score >= 8500 THEN "high" ELSE IF score >= 6000 THEN "medium" ELSE "low"

\* Only the fields of the schema are scored.
Scores(ext) ==
  [f \in DOMAIN ext \cap Registered |->
     IF ext[f].value = NONE THEN [score |-> 0, tier |-> "not_found"]
     ELSE LET s == Penalised(100 * ext[f].conf, TimesPenalised(ext, f))
          IN [score |-> s, tier |-> Tier(s)]]

Weight(f) ==
  CASE f \in {"pro_rata_share", "base_rent_annual"} -> 4
    [] f \in {"lease_term_months", "lease_structure_type", "cam_cap_percentage",
              "escalation_type", "security_deposit_amount"} -> 3
    [] OTHER -> 2

\* Variant: the weights of all fields are counted.
Overall_NotFoundCounted(scores) ==
  LET found == {f \in DOMAIN scores : scores[f].tier # "not_found"}
      weighted == SumFunction([f \in found |-> scores[f].score * Weight(f)])
      total == SumFunction([f \in DOMAIN scores |-> Weight(f)])
      low == {f \in found : scores[f].score < 6000}
      overall == IF total = 0 THEN 0 ELSE (2 * weighted + total) \div (2 * total)
  IN [score |-> overall, tier |-> Tier(overall),
      needsReview |-> overall < 8500 \/ low # {}, low |-> low]

\* The weighted mean, rounded half up; what was not found does not count.
Overall(scores) ==
  LET found == {f \in DOMAIN scores : scores[f].tier # "not_found"}
      weighted == SumFunction([f \in found |-> scores[f].score * Weight(f)])
      total == SumFunction([f \in found |-> Weight(f)])
      low == {f \in found : scores[f].score < 6000}
      overall == IF total = 0 THEN 0 ELSE (2 * weighted + total) \div (2 * total)
  IN [score |-> overall, tier |-> Tier(overall),
      needsReview |-> overall < 8500 \/ low # {}, low |-> low]

------------------------------------------------------------------------------
(* Red flags                                                               *)

\* Fees are read as a fraction up to 1, holdover rates as a multiplier up to 10.
AsPercent(v, limit) == IF v # 0 /\ v >= -limit /\ v <= limit THEN v * 100 ELSE v

Below(v, limit) == v # NONE /\ v < limit

\* Denied, or not found
NoAuditRights(d) == Got(d, "audit_rights") # TRUE

\* Rules RF-001 to RF-020.
Triggered(rule, d) ==
  \/ rule = 1  /\ LET fee == Got(d, "management_fee_cap")
                   IN fee = NONE \/ AsPercent(fee, 1000) > 15000
  \/ rule = 2  /\ NoAuditRights(d)
  \/ rule = 3  /\ Got(d, "cam_cap_percentage") = NONE
  \/ rule = 4  /\ Got(d, "cap_cumulative_vs_annual") = "cumulative"
  \/ rule = 5  /\ Got(d, "lease_structure_type") = "NNN" /\ Got(d, "gross_up_percentage") = NONE
  \/ rule = 6  /\ Got(d, "cam_exclusions") \in {NONE, "empty"}
  \/ rule = 7  /\ Below(Got(d, "monetary_cure_period"), 10)
  \/ rule = 8  /\ LET rate == Got(d, "holdover_rate")
                   IN rate # NONE /\ AsPercent(rate, 10000) > 200000
  \/ rule = 9  /\ Got(d, "has_termination_option") = FALSE
                /\ Got(d, "lease_term_months") # NONE /\ Got(d, "lease_term_months") > 60
  \/ rule = 10 /\ Got(d, "restoration_requirement") = TRUE /\ Got(d, "tenant_work_description") = NONE
  \/ rule = 11 /\ Got(d, "has_renewal_option") = FALSE
  \/ rule = 12 /\ Got(d, "recapture_right") = TRUE
  \/ rule = 13 /\ Got(d, "base_year_gross_up") # TRUE /\ Got(d, "base_year") # NONE
  \/ rule = 14 /\ Got(d, "reconciliation_frequency") = NONE /\ Got(d, "lease_structure_type") = "NNN"
  \/ rule = 15 /\ Below(Got(d, "cam_audit_deadline_days"), 60)
  \/ rule = 16 /\ Got(d, "force_majeure_clause") # TRUE
  \/ rule = 17 /\ Got(d, "auto_renewal") = TRUE /\ Got(d, "auto_renewal_terms") = NONE
  \/ rule = 18 /\ Got(d, "casualty_termination_right") = NONE
  \/ rule = 19 /\ Got(d, "relocation_right") = TRUE
  \/ rule = 20 /\ Got(d, "has_purchase_option") = NONE

RedFlags(d) == {rule \in 1..20 : Triggered(rule, d)}

CamRules == (1..6) \cup (13..15)

\* A field that was not found has score 0 and counts as one of low confidence.
ShowCamAudit(flags, d, scores) ==
  \/ flags \cap CamRules # {}
  \/ Got(d, "audit_rights") = TRUE
  \/ Got(d, "lease_structure_type") \in {"NNN", "Modified Gross"}
  \/ Cardinality({f \in DOMAIN scores \cap CamFields : scores[f].score <= 6000}) >= 3
==============================================================================
