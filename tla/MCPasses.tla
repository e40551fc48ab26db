------------------------------- MODULE MCPasses -------------------------------
(***************************************************************************)
(* Passes with a few answers a model may give about one lease, chosen so   *)
(* that fields are confident, weak, missing, contradictory and unknown.    *)
(***************************************************************************)
EXTENDS Passes

\* A model and its fallback, as by default, for the first two passes; one for the third.
Fallbacks == <<<<"flash", "flash-old">>, <<"flash", "flash-old">>, <<"flash-old">>>>

Field(value, conf) == [value |-> value, conf |-> conf]

\* 5 per cent of the building, as a ratio, for 60 months; the tenant may audit.
Sound ==
  [pro_rata_share |-> Field(50, 95), rentable_square_footage |-> Field(10, 60),
   building_total_rsf |-> Field(200, 95), commencement_date |-> Field(0, 95),
   expiration_date |-> Field(60, 95), lease_term_months |-> Field(60, 95),
   audit_rights |-> Field(TRUE, 95)]

\* A half per cent, as percent, and no rule fires but those about what is not mentioned.
Small ==
  [pro_rata_share |-> Field(500, 9500), rentable_square_footage |-> Field(1, 9500),
   building_total_rsf |-> Field(200, 40), lease_term_months |-> Field(59, 59),
   management_fee_cap |-> Field(5000, 95), cam_cap_percentage |-> Field(5000, 95),
   cam_exclusions |-> Field("listed", 95), lease_structure_type |-> Field("Full Service Gross", 95)]

\* Dates out of order, a term that fits no dates, a share that fits no areas.
Contradictory ==
  [pro_rata_share |-> Field(5100, 95), rentable_square_footage |-> Field(10, 95),
   building_total_rsf |-> Field(100, 95), commencement_date |-> Field(60, 95),
   rent_commencement_date |-> Field(130, 95), lease_term_months |-> Field(72, 95)]

\* Nothing found, and a field that is not in the schema.
Unknown ==
  [pro_rata_share |-> Field(NONE, 0), audit_rights |-> Field(NONE, 30), remark |-> Field("given", 10)]

SomeAnswers == {Sound, Small, Contradictory, Unknown}

SomeCamFields ==
  {"pro_rata_share", "rentable_square_footage", "building_total_rsf", "audit_rights",
   "management_fee_cap", "cam_cap_percentage", "cam_exclusions", "lease_structure_type"}
SomeFields ==
  SomeCamFields \cup
  {"commencement_date", "expiration_date", "rent_commencement_date", "lease_term_months"}
==============================================================================
