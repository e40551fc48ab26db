-------------------------------- MODULE Passes --------------------------------
(***************************************************************************)
(* The extraction of one lease by language models: the passes of           *)
(* packages/extract-core/src/extraction/orchestrator.ts inside the first   *)
(* step of workers/api/src/workflows/extraction-workflow.ts, which the     *)
(* platform repeats as a whole, and the scoring of their result.           *)
(*                                                                         *)
(* A pass asks the models of its chain in turn until one gives an answer   *)
(* that can be read.  Passes 1 and 2 are merged; the fields that are weak  *)
(* then are asked for once more, unless the money is spent.  The raw       *)
(* responses are stored and everything is recorded in the row.             *)
(***************************************************************************)
EXTENDS Scoring, Sequences

CONSTANTS
  Chain,      \* [1..3 -> sequence of models]
  Answers,    \* what a model may answer
  Prices,     \* what a call may cost, in cents
  Ceiling,    \* OPENROUTER_COST_CEILING_CENTS
  Threshold,  \* EXTRACTION_ESCALATION_THRESHOLD
  Retries     \* how often the platform repeats the step (external)

ASSUME PassesAssumption ==
  /\ Prices \subseteq Nat /\ Ceiling \in Nat /\ Threshold \in Nat /\ Retries \in Nat
  /\ DOMAIN Chain = 1..3
  /\ Chain[1] # <<>> /\ Chain[2] # <<>>
  /\ \A p \in 1..3 :
       /\ Chain[p] \in Seq(STRING)
       /\ \A i, j \in DOMAIN Chain[p] : Chain[p][i] = Chain[p][j] => i = j

\* An answer gives a value and a confidence for each field.  A number of the wrong type counts
\* as NONE.  The code divides percent by 100 in floating point: a share is scaled so that this
\* is exact.
ASSUME AnswersAssumption ==
  /\ NONE \notin Answers /\ IsFiniteSet(Registered)
  /\ \A answer \in Answers : \A f \in DOMAIN answer :
       /\ answer[f].conf \in Int
       /\ f \in {"pro_rata_share", "rentable_square_footage", "building_total_rsf"} =>
            answer[f].value = NONE \/ answer[f].value \in Int
       /\ f = "pro_rata_share" /\ answer[f].value # NONE /\ answer[f].value > 1000 =>
            answer[f].value % 100 = 0

VARIABLES
  phase,       \* what the workflow is doing
  pass, turn,  \* the pass it is in, and the place of the next model in the chain
  answered,    \* the extractions of passes 1 to 3 as read, of the fields they reported
  records,     \* passRecords
  raws,        \* rawResponses, each with the call it answers and what it cost
  cost,        \* extractionCostCents
  hit,         \* costCeilingHit
  keys,        \* keys of the responses stored so far
  bucket,      \* R2: set of <<key, response>>, at most one for a key
  attempt,     \* repetitions of the step so far
  row          \* what has been recorded in the row

run  == <<pass, turn, answered, records, raws, cost, hit, keys>>
vars == <<phase, run, bucket, attempt, row>>

Nothing == [f \in {} |-> NONE]

\* The local state of runMultiPassExtraction when the step begins.
Fresh ==
  /\ pass' = 1 /\ turn' = 1 /\ answered' = <<Nothing, Nothing, Nothing>>
  /\ records' = <<>> /\ raws' = <<>> /\ cost' = 0 /\ hit' = FALSE /\ keys' = <<>>

Init ==
  /\ phase = "asking"
  /\ pass = 1 /\ turn = 1 /\ answered = <<Nothing, Nothing, Nothing>>
  /\ records = <<>> /\ raws = <<>> /\ cost = 0 /\ hit = FALSE /\ keys = <<>>
  /\ bucket = {} /\ attempt = 0
  /\ row = [data |-> Nothing, cost |-> 0, records |-> <<>>, keys |-> <<>>, scores |-> Nothing,
            overall |-> NONE, flags |-> {}, show |-> NONE]

------------------------------------------------------------------------------
(* Merging                                                                 *)

\* The fields of the later extraction win, also where it found nothing.
Merge(base, incoming) ==
  [f \in DOMAIN base \cup DOMAIN incoming |->
     IF f \in DOMAIN incoming THEN incoming[f] ELSE base[f]]

IsWeak(ext, f) == ext[f].value # NONE /\ ext[f].conf < Threshold
Weak(ext) == {f \in DOMAIN ext : IsWeak(ext, f)}
Only(ext, fields) == [f \in DOMAIN ext \cap fields |-> ext[f]]

TwoPasses == Merge(answered[1], answered[2])

\* Variant: whatever pass 3 reports is taken.
Extracted_Unfiltered == Merge(TwoPasses, answered[3])

Extracted == Merge(TwoPasses, Only(answered[3], Weak(TwoPasses)))

------------------------------------------------------------------------------
(* One call of a model                                                     *)

Model == Chain[pass][turn]
Call == [attempt |-> attempt, pass |-> pass, turn |-> turn]
Record(price, ok) == [pass |-> pass, model |-> Model, cost |-> price, ok |-> ok]

\* Variant: the repetitions are not counted.
Throw_Forever ==
  /\ phase' = "asking" /\ Fresh
  /\ UNCHANGED <<attempt, row>>

\* Throwing ends the step: it is begun again, or the extraction is marked failed.
Throw ==
  /\ IF attempt < Retries
       THEN phase' = "asking" /\ attempt' = attempt + 1 /\ Fresh
       ELSE phase' = "failed" /\ UNCHANGED <<attempt, run>>
  /\ UNCHANGED row

\* The next model of the chain, or the error of the last one.
NextModel(added) ==
  IF turn < Len(Chain[pass])
    THEN /\ turn' = turn + 1 /\ records' = records \o added
         /\ UNCHANGED <<phase, pass, answered, keys, attempt, row>>
    ELSE Throw

Asking == phase = "asking"

\* The call throws: no connection, a status, no JSON, no content.
CallFails ==
  /\ Asking
  /\ NextModel(<<Record(0, FALSE)>>)
  /\ turn < Len(Chain[pass]) => UNCHANGED <<raws, cost, hit>>
  /\ UNCHANGED bucket

\* Variant: the cost is added after the response was read.
Unreadable_NotCounted(price) ==
  /\ Asking
  /\ NextModel(<<Record(price, TRUE), Record(0, FALSE)>>)
  /\ turn < Len(Chain[pass]) =>
       /\ raws' = Append(raws, [call |-> Call, cost |-> price, text |-> NONE])
       /\ UNCHANGED <<cost, hit>>
  /\ UNCHANGED bucket

\* The response is no JSON object: counted, recorded as a success, kept, and recorded
\* once more as a failure.
Unreadable(price) ==
  /\ Asking
  /\ NextModel(<<Record(price, TRUE), Record(0, FALSE)>>)
  /\ turn < Len(Chain[pass]) =>
       /\ raws' = Append(raws, [call |-> Call, cost |-> price, text |-> NONE])
       /\ cost' = cost + price /\ hit' = (hit \/ cost + price >= Ceiling)
  /\ UNCHANGED bucket

\* Variant: the ceiling is looked at before the first pass only.
NextPass_Unlimited ==
  IF pass = 1 \/ (pass = 2 /\ Weak(TwoPasses)' # {} /\ Chain[3] # <<>>)
    THEN pass' = pass + 1 /\ turn' = 1 /\ UNCHANGED phase
    ELSE phase' = "storing" /\ UNCHANGED <<pass, turn>>

\* Variant: goes on with the place in the chain where the last pass stopped.
NextPass_SameTurn ==
  IF pass = 1 \/ (pass = 2 /\ Weak(TwoPasses)' # {} /\ Chain[3] # <<>> /\ ~hit')
    THEN pass' = pass + 1 /\ UNCHANGED <<turn, phase>>
    ELSE phase' = "storing" /\ UNCHANGED <<pass, turn>>

\* What follows a pass that succeeded.
NextPass ==
  IF pass = 1 \/ (pass = 2 /\ Weak(TwoPasses)' # {} /\ Chain[3] # <<>> /\ ~hit')
    THEN pass' = pass + 1 /\ turn' = 1 /\ UNCHANGED phase
    ELSE phase' = "storing" /\ UNCHANGED <<pass, turn>>

Answered(answer, price) ==
  /\ Asking
  /\ answered' = [answered EXCEPT ![pass] = Read(answer)]
  /\ records' = Append(records, Record(price, TRUE))
  /\ raws' = Append(raws, [call |-> Call, cost |-> price, text |-> answer])
  /\ cost' = cost + price /\ hit' = (hit \/ cost + price >= Ceiling)
  /\ NextPass
  /\ UNCHANGED <<keys, bucket, attempt, row>>

------------------------------------------------------------------------------
(* Storing and recording                                                   *)

\* Variant: paired with all records, not with the successful ones.
KeyOf_AllRecords(i) == <<records[i].pass, records[i].model>>

\* How many of the first j records are successful
Successes(j) == Cardinality({k \in 1..j : records[k].ok})

\* Responses are paired with the successful records by position.
KeyOf(i) ==
  LET r == records[CHOOSE j \in DOMAIN records : records[j].ok /\ Successes(j) = i]
  IN <<r.pass, r.model>>

\* storeRawResponses: one after the other; an object of an earlier attempt is overwritten.
StoreRaw ==
  LET i == Len(keys) + 1 IN
  /\ phase = "storing" /\ i <= Len(raws)
  /\ bucket' = {e \in bucket : e[1] # KeyOf(i)} \cup {<<KeyOf(i), raws[i].call>>}
  /\ keys' = Append(keys, KeyOf(i))
  /\ UNCHANGED <<phase, pass, turn, answered, records, raws, cost, hit, attempt, row>>

\* R2 fails, before or after the object was written.
StoreFails ==
  LET i == Len(keys) + 1 IN
  /\ phase = "storing" /\ i <= Len(raws)
  /\ bucket' \in {bucket, {e \in bucket : e[1] # KeyOf(i)} \cup {<<KeyOf(i), raws[i].call>>}}
  /\ Throw

PersistResult ==
  /\ phase = "storing" /\ Len(keys) = Len(raws)
  /\ row' = [row EXCEPT !.data = Extracted, !.cost = cost, !.records = records, !.keys = keys]
  /\ phase' = "persisted"
  /\ UNCHANGED <<run, bucket, attempt>>

ScoreConfidence ==
  /\ phase = "persisted"
  /\ row' = [row EXCEPT !.scores = Scores(row.data)]
  /\ phase' = "scored"
  /\ UNCHANGED <<run, bucket, attempt>>

Values == [f \in DOMAIN row.data |-> row.data[f].value]

DetectRedFlags ==
  /\ phase = "scored"
  /\ row' = [row EXCEPT !.overall = Overall(row.scores), !.flags = RedFlags(Values),
                        !.show = ShowCamAudit(RedFlags(Values), Values, row.scores)]
  /\ phase' = "done"
  /\ UNCHANGED <<run, bucket, attempt>>

Next ==
  \/ CallFails
  \/ \E price \in Prices : Unreadable(price) \/ \E answer \in Answers : Answered(answer, price)
  \/ StoreRaw \/ StoreFails
  \/ PersistResult \/ ScoreConfidence \/ DetectRedFlags

SafetySpec == Init /\ [][Next]_vars

\* A durable workflow goes on.
Spec == SafetySpec /\ WF_vars(Next)

------------------------------------------------------------------------------
(* Properties                                                              *)

Calls == [attempt : 0..Retries, pass : 1..3, turn : Nat \ {0}]
Keys == (1..3) \X STRING

\* Every variable has its type; an object of R2 is stored under the key of its pass.
TypeOK ==
  /\ phase \in {"asking", "storing", "persisted", "scored", "done", "failed"}
  /\ pass \in 1..3 /\ turn \in DOMAIN Chain[pass]
  /\ records \in Seq([pass : 1..3, model : STRING, cost : Nat, ok : BOOLEAN])
  /\ raws \in Seq([call : Calls, cost : Nat, text : Answers \cup {NONE}])
  /\ cost \in Nat /\ hit \in BOOLEAN /\ (hit <=> raws # <<>> /\ cost >= Ceiling)
  /\ keys \in Seq(Keys)
  /\ bucket \subseteq Keys \X Calls
  /\ \A e \in bucket : e[1] = <<e[2].pass, Chain[e[2].pass][e[2].turn]>>
  /\ attempt \in 0..Retries

Persisted == phase \in {"persisted", "scored", "done"}

\* "A third pass cannot disturb fields that were already confident" (src/README.md:273): nor
\* those that were not found, nor those that only pass 1 reported.
ConfidentUndisturbed ==
  Persisted =>
    \A f \in DOMAIN TwoPasses :
      IsWeak(TwoPasses, f) \/ (f \in DOMAIN row.data /\ row.data[f] = TwoPasses[f])

Costs(s) == [i \in DOMAIN s |-> s[i].cost]

\* The cost of the row is that of all responses of the attempt, the unreadable ones
\* included, and it is what the recorded passes add up to.
CostRecorded ==
  Persisted =>
    /\ row.cost = SumFunction(Costs(raws))
    /\ row.cost = SumFunction(Costs(row.records))

\* The third pass is begun only while the first two have cost less than the ceiling.
ThirdWithinBudget ==
  pass = 3 => SumFunctionOnSet(Costs(raws), {i \in DOMAIN raws : raws[i].call.pass < 3}) < Ceiling

\* Each response of the attempt that is recorded can be found under its recorded key, which
\* names the pass and the model that gave it, although earlier attempts may have used other
\* models, stored only some of their responses and used the same keys.
ResponsesKept ==
  Persisted =>
    /\ DOMAIN row.keys = DOMAIN raws
    /\ \A i \in DOMAIN raws :
         LET call == raws[i].call IN
         /\ row.keys[i] = <<call.pass, Chain[call.pass][call.turn]>>
         /\ {e \in bucket : e[1] = row.keys[i]} = {<<row.keys[i], call>>}
         /\ call.attempt = attempt

\* What the model reported in a pass, before it was read
Reported(p) ==
  LET readable == {i \in DOMAIN raws : raws[i].call.pass = p /\ raws[i].text # NONE}
  IN IF readable = {} THEN Nothing ELSE raws[CHOOSE i \in readable : TRUE].text

\* A share that is tenant / building, whether it was reported as a ratio or as percent, below
\* 1 per cent or above, is never penalised: reading and checking together take it as meant.
ShareReadEitherWay ==
  Persisted =>
    LET reported == Merge(Merge(Reported(1), Reported(2)), Only(Reported(3), Weak(TwoPasses)))
        share    == Value(reported, "pro_rata_share")
        tenant   == Value(reported, "rentable_square_footage")
        building == Value(reported, "building_total_rsf")
    IN /\ NONE \notin {share, tenant, building}
       /\ tenant \in 1..building
       /\ share * building \in {tenant * 1000, tenant * 100000}
       => ProRataPenalties(row.data) = {}

\* The overall score lies between the lowest and the highest score of the fields that were
\* found, however weights and rounding work out; the others cannot pull it out of there.
OverallBetween ==
  phase = "done" =>
    LET found == {f \in DOMAIN row.scores : row.scores[f].tier # "not_found"}
    IN found # {} =>
         /\ \E f \in found : row.scores[f].score <= row.overall.score
         /\ \E f \in found : row.overall.score <= row.scores[f].score

\* The workflow ends, whatever the models and R2 do.
ExtractionEnds == <>(phase \in {"done", "failed"})

------------------------------------------------------------------------------
(* A claim of the documents that the code does not keep                    *)

==============================================================================
