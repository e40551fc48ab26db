----------------------------- MODULE PassesProofs -----------------------------
(***************************************************************************)
(* What holds of an extraction by several passes and of its scoring, for   *)
(* every chain of models, every set of answers and prices, every ceiling   *)
(* and every number of repetitions: the safety properties of Passes and    *)
(* that every step brings the workflow nearer to its end.                  *)
(*                                                                         *)
(* Costs and weights are sums over data.  The first part proves what is    *)
(* needed of SumFunctionOnSet, by an induction stated with sets; the       *)
(* second what records, responses and scores are; the third that IInv is   *)
(* kept by every action.                                                   *)
(***************************************************************************)
EXTENDS Passes, FiniteSetTheorems, WellFoundedInduction, TLAPS

------------------------------------------------------------------------------
(* Induction and sums                                                      *)

\* A set of numbers has a least element.
LEMMA LeastElement ==
  ASSUME NEW B \in SUBSET Nat, B # {}
  PROVE  \E n \in B : \A m \in B : n <= m
  <1> DEFINE R == OpToRel(<, Nat)
  <1>1. PICK n \in B : \A m \in B : <<m, n>> \notin R
    BY NatLessThanWellFounded, WFMin
  <1>2. \A m \in B : ~(m < n)
    BY <1>1 DEF OpToRel
  <1> QED BY <1>2

\* Induction over numbers and over the subsets of a finite set, in first-order form: G holds
\* those of which the claim is true.
LEMMA NumberInduction ==
  ASSUME NEW G, 0 \in G, \A n \in Nat : n \in G => n + 1 \in G
  PROVE  Nat \subseteq G
  <1> DEFINE Bad == Nat \ G
  <1> SUFFICES ASSUME Bad # {} PROVE FALSE
    OBVIOUS
  <1>1. PICK n \in Bad : \A m \in Bad : n <= m
    BY LeastElement
  <1>2. n \in Nat /\ n - 1 \in Nat /\ n - 1 \notin Bad
    BY <1>1
  <1> QED BY <1>1, <1>2

\* What is left of a set of n + 1 elements when one is taken out
LEMMA TakeOne ==
  ASSUME NEW T, IsFiniteSet(T), NEW n \in Nat, Cardinality(T) = n + 1
  PROVE  T # {} /\ \A x \in T : Cardinality(T \ {x}) = n
  <1>1. T # {}
    BY FS_EmptySet
  <1>2. ASSUME NEW x \in T PROVE Cardinality(T \ {x}) = n
    BY FS_RemoveElement
  <1> QED BY <1>1, <1>2

LEMMA SubsetInduction ==
  ASSUME NEW S, IsFiniteSet(S), NEW G, {} \in G,
         \A T \in SUBSET S, x \in S : T \in G /\ x \notin T => T \cup {x} \in G
  PROVE  \A T \in SUBSET S : T \in G
  <1> DEFINE Good == {n \in Nat : \A T \in SUBSET S : Cardinality(T) = n => T \in G}
  <1>1. \A T \in SUBSET S : IsFiniteSet(T) /\ Cardinality(T) \in Nat
    BY FS_Subset, FS_CardinalityType
  <1>2. 0 \in Good
    BY <1>1, FS_EmptySet
  <1>3. ASSUME NEW n \in Nat, n \in Good, NEW T \in SUBSET S, Cardinality(T) = n + 1
        PROVE  T \in G
    <2> HIDE DEF Good
    <2>1. PICK x \in T : Cardinality(T \ {x}) = n
      BY <1>1, <1>3, TakeOne
    <2>2. T \ {x} \in SUBSET S /\ x \in S
      BY <1>3, <2>1
    <2>3. T = (T \ {x}) \cup {x}
      BY <2>1
    <2> QED BY <1>3, <2>1, <2>2, <2>3 DEF Good
  <1>4. \A n \in Nat : n \in Good => n + 1 \in Good
    BY <1>3
  <1> HIDE DEF Good
  <1>5. Nat \subseteq Good
    BY <1>2, <1>4, NumberInduction
  <1> QED BY <1>1, <1>5 DEF Good

------------------------------------------------------------------------------
(* Sums                                                                    *)

First(s) == CHOOSE x \in s : TRUE

\* The function of the definition of SumFunctionOnSet
Sums(g, f, S) ==
  g = [s \in SUBSET S |-> IF s = {} THEN 0 ELSE f[First(s)] + g[s \ {First(s)}]]

LEMMA FirstIsElement == \A s : s # {} => First(s) \in s
  BY DEF First

\* It exists: it is built up over the cardinality of its arguments.
LEMMA SumsExist ==
  ASSUME NEW f, NEW S, IsFiniteSet(S)
  PROVE  \E g : Sums(g, f, S)
  <1> DEFINE Upto(n) == {s \in SUBSET S : Cardinality(s) <= n}
             Step(g, s) == IF s = {} THEN 0 ELSE f[First(s)] + g[s \ {First(s)}]
             Good == {n \in Nat : \E g : g = [s \in Upto(n) |-> Step(g, s)]}
  <1>1. \A s \in SUBSET S : IsFiniteSet(s) /\ Cardinality(s) \in Nat
    BY FS_Subset, FS_CardinalityType
  <1>2. \A s \in SUBSET S : s # {} =>
          /\ s \ {First(s)} \in SUBSET S
          /\ Cardinality(s \ {First(s)}) = Cardinality(s) - 1
    BY <1>1, FirstIsElement, FS_RemoveElement
  <1>3. 0 \in Good
    <2>1. Upto(0) = {{}}
      BY <1>1, FS_EmptySet
    <2> DEFINE g == [s \in {{}} |-> 0]
    <2>2. g = [s \in Upto(0) |-> Step(g, s)]
      BY <2>1
    <2> QED BY <2>2
  <1>4. ASSUME NEW n \in Nat, n \in Good PROVE n + 1 \in Good
    <2>1. PICK g : g = [s \in Upto(n) |-> Step(g, s)]
      BY <1>4
    <2> DEFINE h == [s \in Upto(n + 1) |-> IF s \in Upto(n) THEN g[s] ELSE Step(g, s)]
    <2>2. \A s \in Upto(n + 1) : s # {} => s \ {First(s)} \in Upto(n) /\ s \ {First(s)} \in Upto(n + 1)
      BY <1>1, <1>2
    <2>3. \A s \in Upto(n + 1) : h[s] = Step(g, s)
      BY <2>1
    <2>4. \A s \in Upto(n) : h[s] = g[s]
      BY <1>1
    <2>5. \A s \in Upto(n + 1) : Step(h, s) = Step(g, s)
      BY <2>2, <2>4
    <2> HIDE DEF Upto, Step
    <2>6. h = [s \in Upto(n + 1) |-> Step(h, s)]
      BY <2>3, <2>5
    <2>7. \E p : p = [s \in Upto(n + 1) |-> Step(p, s)]
      <3> HIDE DEF h
      <3> QED BY <2>6
    <2>8. n + 1 \in Nat
      BY <1>4
    <2> QED BY <2>7, <2>8
  <1> HIDE DEF Good
  <1>5. Cardinality(S) \in Good
    BY <1>1, <1>3, <1>4, NumberInduction
  <1>6. Upto(Cardinality(S)) = SUBSET S
    BY FS_Subset
  <1> QED BY <1>5, <1>6 DEF Good, Sums

LEMMA SumIsOfSums ==
  ASSUME NEW f, NEW S, IsFiniteSet(S)
  PROVE  \E g : Sums(g, f, S) /\ SumFunctionOnSet(f, S) = g[S]
  <1>1. SumFunctionOnSet(f, S) = (CHOOSE g : Sums(g, f, S))[S]
    BY DEF SumFunctionOnSet, FoldFunctionOnSet, MapThenFoldSet, Sums, First
  <1> QED BY <1>1, SumsExist

\* What it is of a set depends on that set only.
LEMMA SumsAgree ==
  ASSUME NEW S, IsFiniteSet(S), NEW A, NEW B, S \subseteq A, S \subseteq B,
         NEW f, NEW h, \A x \in S : f[x] = h[x],
         NEW g, Sums(g, f, A), NEW k, Sums(k, h, B)
  PROVE  g[S] = k[S]
  <1> DEFINE Good == {T \in SUBSET S : g[T] = k[T]}
             Sized == {n \in Nat : \A T \in SUBSET S : Cardinality(T) = n => T \in Good}
  <1>1. \A T \in SUBSET S : IsFiniteSet(T) /\ Cardinality(T) \in Nat
    BY FS_Subset, FS_CardinalityType
  <1>2. \A T \in SUBSET S :
          /\ g[T] = IF T = {} THEN 0 ELSE f[First(T)] + g[T \ {First(T)}]
          /\ k[T] = IF T = {} THEN 0 ELSE h[First(T)] + k[T \ {First(T)}]
    <2>1. \A T \in SUBSET S : T \in SUBSET A /\ T \in SUBSET B
      OBVIOUS
    <2> QED BY <2>1 DEF Sums
  <1>3. 0 \in Sized
    BY <1>1, <1>2, FS_EmptySet
  <1>4. ASSUME NEW n \in Nat, n \in Sized, NEW T \in SUBSET S, Cardinality(T) = n + 1
        PROVE  T \in Good
    <2> HIDE DEF Good, Sized
    <2>1. T # {} /\ First(T) \in T /\ Cardinality(T \ {First(T)}) = n
      BY <1>1, <1>4, TakeOne, FirstIsElement
    <2>2. T \ {First(T)} \in Good
      BY <1>4, <2>1 DEF Sized
    <2> QED BY <1>2, <1>4, <2>1, <2>2 DEF Good
  <1> HIDE DEF Good
  <1>5. \A n \in Nat : n \in Sized => n + 1 \in Sized
    BY <1>4
  <1> HIDE DEF Sized
  <1>6. Nat \subseteq Sized
    BY <1>3, <1>5, NumberInduction
  <1> QED BY <1>1, <1>6 DEF Sized, Good

Numeric(f, S) == \A x \in S : f[x] \in Int

LEMMA SumsAreNumbers ==
  ASSUME NEW S, IsFiniteSet(S), NEW f, Numeric(f, S), NEW g, Sums(g, f, S)
  PROVE  \A T \in SUBSET S :
           /\ g[T] \in Int
           /\ g[T] = IF T = {} THEN 0 ELSE f[First(T)] + g[T \ {First(T)}]
  <1> DEFINE Sized == {n \in Nat : \A T \in SUBSET S : Cardinality(T) = n => g[T] \in Int}
  <1>1. \A T \in SUBSET S : IsFiniteSet(T) /\ Cardinality(T) \in Nat
    BY FS_Subset, FS_CardinalityType
  <1>2. \A T \in SUBSET S : g[T] = IF T = {} THEN 0 ELSE f[First(T)] + g[T \ {First(T)}]
    BY DEF Sums
  <1>3. 0 \in Sized
    <2>1. ASSUME NEW T \in SUBSET S, Cardinality(T) = 0 PROVE g[T] \in Int
      <3>1. T = {}
        BY <1>1, <2>1, FS_EmptySet
      <3>2. g[{}] = 0
        BY <1>2
      <3> QED BY <3>1, <3>2
    <2> QED BY <2>1
  <1>4. ASSUME NEW n \in Nat, n \in Sized, NEW T \in SUBSET S, Cardinality(T) = n + 1
        PROVE  g[T] \in Int
    <2>1. T # {} /\ First(T) \in T /\ g[T] = f[First(T)] + g[T \ {First(T)}]
      BY <1>1, <1>2, <1>4, TakeOne, FirstIsElement
    <2>2. g[T \ {First(T)}] \in Int
      BY <1>1, <1>4, <2>1, TakeOne
    <2> QED BY <2>1, <2>2 DEF Numeric
  <1>5. \A n \in Nat : n \in Sized => n + 1 \in Sized
    BY <1>4
  <1> HIDE DEF Sized
  <1>6. Nat \subseteq Sized
    BY <1>3, <1>5, NumberInduction
  <1> QED BY <1>1, <1>2, <1>6 DEF Sized

\* Any element may be taken out first.
LEMMA SumsTake ==
  ASSUME NEW S, IsFiniteSet(S), NEW f, Numeric(f, S), NEW g, Sums(g, f, S)
  PROVE  \A T \in SUBSET S : \A x \in T : g[T] = f[x] + g[T \ {x}]
  <1> DEFINE Any(T) == \A x \in T : g[T] = f[x] + g[T \ {x}]
             Sized == {n \in Nat : \A T \in SUBSET S : Cardinality(T) = n => Any(T)}
  <1>1. \A T \in SUBSET S : IsFiniteSet(T) /\ Cardinality(T) \in Nat
    BY FS_Subset, FS_CardinalityType
  <1>2. \A T \in SUBSET S :
          /\ g[T] \in Int
          /\ g[T] = IF T = {} THEN 0 ELSE f[First(T)] + g[T \ {First(T)}]
    BY SumsAreNumbers
  <1>3. 0 \in Sized
    BY <1>1, FS_EmptySet
  <1>4. ASSUME NEW n \in Nat, n \in Sized, NEW T \in SUBSET S, Cardinality(T) = n + 1
        PROVE  Any(T)
    <2> SUFFICES ASSUME NEW x \in T PROVE g[T] = f[x] + g[T \ {x}]
      OBVIOUS
    <2> DEFINE c == First(T)
    <2>1. c \in T /\ f[c] \in Int /\ f[x] \in Int /\ g[T] = f[c] + g[T \ {c}]
      BY <1>1, <1>2, <1>4, TakeOne, FirstIsElement DEF Numeric
    <2>2. Any(T \ {x}) /\ Any(T \ {c})
      <3> HIDE DEF Any, c
      <3> QED BY <1>1, <1>4, <2>1, TakeOne
    <2> HIDE DEF c
    <2>3. CASE x = c
      BY <2>1, <2>3
    <2>4. CASE x # c
      <3> DEFINE rest == (T \ {x}) \ {c}
      <3>1. rest = (T \ {c}) \ {x} /\ g[rest] \in Int
        BY <1>2
      <3>2. g[T \ {c}] = f[x] + g[rest] /\ g[T \ {x}] = f[c] + g[rest]
        BY <2>1, <2>2, <2>4, <3>1
      <3> HIDE DEF rest
      <3> QED BY <2>1, <3>1, <3>2
    <2> QED BY <2>3, <2>4
  <1> HIDE DEF Any
  <1>5. \A n \in Nat : n \in Sized => n + 1 \in Sized
    BY <1>4
  <1> HIDE DEF Sized
  <1>6. Nat \subseteq Sized
    BY <1>3, <1>5, NumberInduction
  <1> QED BY <1>1, <1>6 DEF Sized, Any

\* What the proofs below use of sums: the empty one, its type, what it depends on, and
\* taking one element out.
LEMMA SumOfNothing == \A f : SumFunctionOnSet(f, {}) = 0
  <1> SUFFICES ASSUME NEW f PROVE SumFunctionOnSet(f, {}) = 0
    OBVIOUS
  <1>1. PICK g : Sums(g, f, {}) /\ SumFunctionOnSet(f, {}) = g[{}]
    BY SumIsOfSums, FS_EmptySet
  <1> QED BY <1>1 DEF Sums

LEMMA SumType ==
  ASSUME NEW S, IsFiniteSet(S), NEW f, Numeric(f, S)
  PROVE  SumFunctionOnSet(f, S) \in Int
  <1>1. PICK g : Sums(g, f, S) /\ SumFunctionOnSet(f, S) = g[S]
    BY SumIsOfSums
  <1>2. \A T \in SUBSET S : g[T] \in Int
    BY <1>1, SumsAreNumbers
  <1> QED BY <1>1, <1>2

LEMMA SumAgrees ==
  ASSUME NEW S, IsFiniteSet(S), NEW f, NEW h, \A x \in S : f[x] = h[x]
  PROVE  SumFunctionOnSet(f, S) = SumFunctionOnSet(h, S)
  <1>1. PICK g : Sums(g, f, S) /\ SumFunctionOnSet(f, S) = g[S]
    BY SumIsOfSums
  <1>2. PICK k : Sums(k, h, S) /\ SumFunctionOnSet(h, S) = k[S]
    BY SumIsOfSums
  <1> QED BY <1>1, <1>2, SumsAgree

LEMMA SumTake ==
  ASSUME NEW S, IsFiniteSet(S), NEW f, Numeric(f, S), NEW x \in S
  PROVE  SumFunctionOnSet(f, S) = f[x] + SumFunctionOnSet(f, S \ {x})
  <1>1. PICK g : Sums(g, f, S) /\ SumFunctionOnSet(f, S) = g[S]
    BY SumIsOfSums
  <1>2. IsFiniteSet(S \ {x})
    BY FS_Subset
  <1>3. PICK k : Sums(k, f, S \ {x}) /\ SumFunctionOnSet(f, S \ {x}) = k[S \ {x}]
    BY <1>2, SumIsOfSums
  <1>4. g[S \ {x}] = k[S \ {x}]
    BY <1>1, <1>2, <1>3, SumsAgree
  <1>5. g[S] = f[x] + g[S \ {x}]
    BY <1>1, SumsTake
  <1> QED BY <1>1, <1>3, <1>4, <1>5

LEMMA SumAdd ==
  ASSUME NEW S, IsFiniteSet(S), NEW x, x \notin S, NEW f, Numeric(f, S \cup {x})
  PROVE  SumFunctionOnSet(f, S \cup {x}) = SumFunctionOnSet(f, S) + f[x]
  <1>1. IsFiniteSet(S \cup {x}) /\ (S \cup {x}) \ {x} = S
    BY FS_AddElement
  <1>2. SumFunctionOnSet(f, S \cup {x}) = f[x] + SumFunctionOnSet(f, S)
    BY <1>1, SumTake
  <1>3. SumFunctionOnSet(f, S) \in Int /\ f[x] \in Int
    BY SumType DEF Numeric
  <1> QED BY <1>2, <1>3

\* The sum over a sequence that grows
LEMMA SumAppend ==
  ASSUME NEW n \in Nat, NEW f, NEW h, \A i \in 1..n : f[i] = h[i] /\ f[i] \in Int, h[n + 1] \in Int
  PROVE  SumFunctionOnSet(h, 1..(n + 1)) = SumFunctionOnSet(f, 1..n) + h[n + 1]
  <1>1. IsFiniteSet(1..n)
    BY FS_Interval
  <1>2. SumFunctionOnSet(h, 1..n) = SumFunctionOnSet(f, 1..n)
    BY <1>1, SumAgrees
  <1>3. 1..(n + 1) = (1..n) \cup {n + 1} /\ n + 1 \notin 1..n
    OBVIOUS
  <1>4. Numeric(h, (1..n) \cup {n + 1})
    BY DEF Numeric
  <1>5. SumFunctionOnSet(h, (1..n) \cup {n + 1}) = SumFunctionOnSet(h, 1..n) + h[n + 1]
    <2> DEFINE S == 1..n
               x == n + 1
    <2> HIDE DEF S, x
    <2>1. IsFiniteSet(S) /\ x \notin S /\ Numeric(h, S \cup {x})
      BY <1>1, <1>3, <1>4 DEF S, x
    <2>2. SumFunctionOnSet(h, S \cup {x}) = SumFunctionOnSet(h, S) + h[x]
      BY <2>1, SumAdd
    <2> QED BY <2>2 DEF S, x
  <1> QED BY <1>2, <1>3, <1>5

------------------------------------------------------------------------------
(* The inductive invariant                                                 *)

Before(c, p, t) == c.pass < p \/ (c.pass = p /\ c.turn < t)
KeyFor(c) == <<c.pass, Chain[c.pass][c.turn]>>

\* Answers come in the order in which the models are asked, each of this attempt.
CallsInOrder ==
  /\ \A i \in DOMAIN raws :
       LET c == raws[i].call IN
       /\ c.attempt = attempt /\ c.pass <= pass /\ c.turn \in DOMAIN Chain[c.pass]
       /\ phase = "asking" => Before(c, pass, turn)
  /\ \A i, j \in DOMAIN raws : i < j => Before(raws[i].call, raws[j].call.pass, raws[j].call.turn)

Oks(s, j) == {k \in 1..j : s[k].ok}

\* The i-th successful record is that of the i-th response.
Paired(s, w) ==
  /\ Cardinality(Oks(s, Len(s))) = Len(w)
  /\ \A j \in DOMAIN s : s[j].ok =>
       /\ Cardinality(Oks(s, j)) \in DOMAIN w
       /\ <<s[j].pass, s[j].model>> = KeyFor(w[Cardinality(Oks(s, j))].call)
  /\ \A i \in DOMAIN w : \E j \in DOMAIN s : s[j].ok /\ Cardinality(Oks(s, j)) = i

Total(s) == SumFunctionOnSet(Costs(s), 1..Len(s))

CostsAddUp == cost = Total(raws) /\ cost = Total(records)

\* The responses of pass p that could be read: none or one, and it is what the pass reported.
Readable(w, p) == {i \in DOMAIN w : w[i].call.pass = p /\ w[i].text # NONE}

ReadOnce ==
  /\ DOMAIN answered = 1..3
  /\ \A p \in 1..3 :
       \/ Readable(raws, p) = {} /\ answered[p] = Nothing
       \/ \E i \in DOMAIN raws : Readable(raws, p) = {i} /\ answered[p] = Read(raws[i].text)
  /\ phase = "asking" => \A p \in pass..3 : Readable(raws, p) = {}

Entries(b, k) == {e \in b : e[1] = k}

\* What has been stored in this attempt is what R2 has under its key.
StoredUnderKey ==
  /\ phase = "asking" => keys = <<>>
  /\ phase # "failed" =>
       /\ Len(keys) <= Len(raws)
       /\ \A k \in DOMAIN keys :
            keys[k] = KeyFor(raws[k].call) /\ Entries(bucket, keys[k]) = {<<keys[k], raws[k].call>>}

\* The row holds what was computed from the attempt that was persisted.
RowAsComputed ==
  /\ DOMAIN row = {"data", "cost", "records", "keys", "scores", "overall", "flags", "show"}
  /\ Persisted =>
       /\ Len(keys) = Len(raws) /\ row.keys = keys
       /\ row.cost = cost /\ row.records = records /\ row.data = Extracted
  /\ phase \in {"scored", "done"} => row.scores = Scores(row.data)
  /\ phase = "done" =>
       /\ row.overall = Overall(row.scores)
       /\ row.show = ShowCamAudit(RedFlags(Values), Values, row.scores)

IInv ==
  /\ TypeOK /\ CallsInOrder /\ Paired(records, raws) /\ CostsAddUp /\ ThirdWithinBudget
  /\ ReadOnce /\ StoredUnderKey /\ RowAsComputed

RecordType == [pass : 1..3, model : STRING, cost : Nat, ok : BOOLEAN]
RawType == [call : Calls, cost : Nat, text : Answers \cup {NONE}]

------------------------------------------------------------------------------
(* Records and responses                                                   *)

LEMMA OksType ==
  ASSUME NEW s, NEW n \in Nat
  PROVE  IsFiniteSet(Oks(s, n)) /\ Cardinality(Oks(s, n)) \in Nat
  <1>1. IsFiniteSet(1..n)
    BY FS_Interval
  <1>2. Oks(s, n) \subseteq 1..n
    BY DEF Oks
  <1> QED BY <1>1, <1>2, FS_Subset, FS_CardinalityType

LEMMA OksNext ==
  ASSUME NEW s, NEW n \in Nat
  PROVE  /\ s[n + 1].ok => Cardinality(Oks(s, n + 1)) = Cardinality(Oks(s, n)) + 1
         /\ ~s[n + 1].ok => Cardinality(Oks(s, n + 1)) = Cardinality(Oks(s, n))
  <1>1. CASE s[n + 1].ok
    <2>1. Oks(s, n + 1) = Oks(s, n) \cup {n + 1} /\ n + 1 \notin Oks(s, n)
      BY <1>1 DEF Oks
    <2> QED BY <1>1, <2>1, OksType, FS_AddElement
  <1>2. CASE ~s[n + 1].ok
    <2>1. Oks(s, n + 1) = Oks(s, n)
      <3>1. \A k \in 1..(n + 1) : k \in 1..n \/ k = n + 1
        OBVIOUS
      <3> QED BY <1>2, <3>1 DEF Oks
    <2> QED BY <1>2, <2>1
  <1> QED BY <1>1, <1>2

LEMMA OksSame ==
  ASSUME NEW s, NEW t, NEW n \in Nat, \A k \in 1..n : t[k] = s[k]
  PROVE  \A j \in 0..n : Oks(t, j) = Oks(s, j)
  BY DEF Oks

\* A failure is recorded, and nothing else happens.
LEMMA PairedFailure ==
  ASSUME NEW s \in Seq(RecordType), NEW w \in Seq(RawType), Paired(s, w),
         NEW r \in RecordType, ~r.ok
  PROVE  Paired(Append(s, r), w)
  <1> DEFINE t == Append(s, r)
             n == Len(s)
  <1>1. n \in Nat /\ Len(t) = n + 1 /\ DOMAIN s = 1..n /\ DOMAIN t = 1..(n + 1)
    OBVIOUS
  <1>2. (\A k \in 1..n : t[k] = s[k]) /\ t[n + 1] = r
    OBVIOUS
  <1> HIDE DEF t, n
  <1>3. \A j \in 0..n : Oks(t, j) = Oks(s, j)
    BY <1>1, <1>2, OksSame
  <1>4. Cardinality(Oks(t, n + 1)) = Cardinality(Oks(t, n)) /\ n \in 0..n
    BY <1>1, <1>2, OksNext
  <1>5. Cardinality(Oks(t, Len(t))) = Len(w)
    BY <1>1, <1>3, <1>4 DEF Paired, n
  <1>6. ASSUME NEW j \in DOMAIN t, t[j].ok
        PROVE  /\ Cardinality(Oks(t, j)) \in DOMAIN w
               /\ <<t[j].pass, t[j].model>> = KeyFor(w[Cardinality(Oks(t, j))].call)
    <2>1. j \in 1..n /\ t[j] = s[j]
      BY <1>1, <1>2, <1>6
    <2> QED BY <1>1, <1>3, <1>6, <2>1 DEF Paired
  <1>7. \A i \in DOMAIN w : \E j \in DOMAIN t : t[j].ok /\ Cardinality(Oks(t, j)) = i
    <2>1. \A j \in 1..n : j \in DOMAIN t /\ t[j] = s[j] /\ Oks(t, j) = Oks(s, j)
      BY <1>1, <1>2, <1>3
    <2> QED BY <1>1, <2>1 DEF Paired
  <1> QED BY <1>5, <1>6, <1>7 DEF Paired, t

\* A success is recorded together with its response.
LEMMA PairedSuccess ==
  ASSUME NEW s \in Seq(RecordType), NEW w \in Seq(RawType), Paired(s, w),
         NEW r \in RecordType, r.ok, NEW x \in RawType, <<r.pass, r.model>> = KeyFor(x.call)
  PROVE  Paired(Append(s, r), Append(w, x))
  <1> DEFINE t == Append(s, r)
             v == Append(w, x)
             n == Len(s)
             m == Len(w)
  <1>1. /\ n \in Nat /\ Len(t) = n + 1 /\ DOMAIN s = 1..n /\ DOMAIN t = 1..(n + 1)
        /\ m \in Nat /\ Len(v) = m + 1 /\ DOMAIN w = 1..m /\ DOMAIN v = 1..(m + 1)
    OBVIOUS
  <1>2. /\ (\A k \in 1..n : t[k] = s[k]) /\ t[n + 1] = r
        /\ (\A k \in 1..m : v[k] = w[k]) /\ v[m + 1] = x
    OBVIOUS
  <1>3. Cardinality(Oks(s, n)) = m
    BY DEF Paired
  <1> HIDE DEF t, n, v, m
  <1>4. \A j \in 0..n : Oks(t, j) = Oks(s, j)
    BY <1>1, <1>2, OksSame
  <1>5. Cardinality(Oks(t, n + 1)) = m + 1
    <2>1. t[n + 1].ok /\ n \in 0..n
      BY <1>1, <1>2
    <2>2. Cardinality(Oks(t, n + 1)) = Cardinality(Oks(t, n)) + 1
      BY <1>1, <2>1, OksNext
    <2> QED BY <1>3, <1>4, <2>1, <2>2
  <1>6. ASSUME NEW j \in DOMAIN t, t[j].ok
        PROVE  /\ Cardinality(Oks(t, j)) \in DOMAIN v
               /\ <<t[j].pass, t[j].model>> = KeyFor(v[Cardinality(Oks(t, j))].call)
    <2>1. CASE j = n + 1
      BY <1>1, <1>2, <1>5, <2>1
    <2>2. CASE j # n + 1
      <3>1. j \in DOMAIN s /\ t[j] = s[j] /\ Oks(t, j) = Oks(s, j)
        BY <1>1, <1>2, <1>4, <2>2
      <3>2. /\ Cardinality(Oks(s, j)) \in DOMAIN w
            /\ <<s[j].pass, s[j].model>> = KeyFor(w[Cardinality(Oks(s, j))].call)
        BY <1>6, <3>1 DEF Paired
      <3>3. \A k \in DOMAIN w : k \in DOMAIN v /\ v[k] = w[k]
        BY <1>1, <1>2
      <3> QED BY <3>1, <3>2, <3>3
    <2> QED BY <2>1, <2>2
  <1>7. ASSUME NEW i \in DOMAIN v PROVE \E j \in DOMAIN t : t[j].ok /\ Cardinality(Oks(t, j)) = i
    <2>1. CASE i = m + 1
      BY <1>1, <1>2, <1>5, <2>1
    <2>2. CASE i # m + 1
      <3>1. PICK j \in DOMAIN s : s[j].ok /\ Cardinality(Oks(s, j)) = i
        BY <1>1, <2>2 DEF Paired
      <3> QED BY <1>1, <1>2, <1>4, <3>1
    <2> QED BY <2>1, <2>2
  <1>8. Cardinality(Oks(t, Len(t))) = Len(v)
    BY <1>1, <1>5
  <1> QED BY <1>6, <1>7, <1>8 DEF Paired, t, v

\* The key that storeRawResponses gives to a response is that of the call it answers.
LEMMA KeysMatch ==
  ASSUME Paired(records, raws), NEW i \in DOMAIN raws
  PROVE  KeyOf(i) = KeyFor(raws[i].call)
  <1> DEFINE j == CHOOSE k \in DOMAIN records : records[k].ok /\ Successes(k) = i
  <1>1. \A k : Successes(k) = Cardinality(Oks(records, k))
    BY DEF Successes, Oks
  <1>2. \E k \in DOMAIN records : records[k].ok /\ Successes(k) = i
    BY <1>1 DEF Paired
  <1>3. j \in DOMAIN records /\ records[j].ok /\ Successes(j) = i
    BY <1>2
  <1>4. KeyOf(i) = <<records[j].pass, records[j].model>>
    BY DEF KeyOf
  <1> HIDE DEF j
  <1> QED BY <1>1, <1>3, <1>4 DEF Paired

LEMMA TotalOfNothing == Total(<<>>) = 0
  BY SumOfNothing DEF Total

LEMMA TotalAppend ==
  ASSUME NEW X, NEW s \in Seq(X), \A i \in DOMAIN s : s[i].cost \in Int, NEW r \in X, r.cost \in Int
  PROVE  Total(Append(s, r)) = Total(s) + r.cost
  <1> DEFINE n == Len(s)
             f == Costs(s)
             h == Costs(Append(s, r))
  <1>1. n \in Nat /\ Len(Append(s, r)) = n + 1
    OBVIOUS
  <1>2. (\A i \in 1..n : f[i] = h[i] /\ f[i] \in Int) /\ h[n + 1] = r.cost
    BY DEF Costs
  <1> HIDE DEF n, f, h
  <1>3. SumFunctionOnSet(h, 1..(n + 1)) = SumFunctionOnSet(f, 1..n) + h[n + 1]
    BY <1>1, <1>2, SumAppend
  <1> QED BY <1>1, <1>2, <1>3 DEF Total, n, f, h

\* What the first two passes cost
Early(w) == {i \in DOMAIN w : w[i].call.pass < 3}

LEMMA EarlyIsAll ==
  ASSUME NEW w \in Seq(RawType), \A i \in DOMAIN w : w[i].call.pass < 3
  PROVE  SumFunctionOnSet(Costs(w), Early(w)) = Total(w)
  <1>1. Early(w) = 1..Len(w)
    BY DEF Early
  <1> QED BY <1>1 DEF Total

LEMMA EarlyStays ==
  ASSUME NEW w \in Seq(RawType), NEW x \in RawType, x.call.pass = 3
  PROVE  SumFunctionOnSet(Costs(Append(w, x)), Early(Append(w, x))) = SumFunctionOnSet(Costs(w), Early(w))
  <1>1. Early(Append(w, x)) = Early(w)
    BY DEF Early
  <1>2. IsFiniteSet(1..Len(w)) /\ Early(w) \subseteq 1..Len(w)
    <2>1. Len(w) \in Nat /\ DOMAIN w = 1..Len(w)
      OBVIOUS
    <2>2. IsFiniteSet(1..Len(w))
      BY <2>1, FS_Interval
    <2> QED BY <2>1, <2>2 DEF Early
  <1>3. \A i \in Early(w) : Costs(Append(w, x))[i] = Costs(w)[i]
    BY DEF Early, Costs
  <1>4. IsFiniteSet(Early(w))
    BY <1>2, FS_Subset
  <1> QED BY <1>1, <1>3, <1>4, SumAgrees

LEMMA ReadableGrows ==
  ASSUME NEW w \in Seq(RawType), NEW x \in RawType, NEW p
  PROVE  /\ x.call.pass # p \/ x.text = NONE => Readable(Append(w, x), p) = Readable(w, p)
         /\ x.call.pass = p /\ x.text # NONE => Readable(Append(w, x), p) = Readable(w, p) \cup {Len(w) + 1}
  BY DEF Readable

LEMMA ChainType ==
  \A p \in 1..3 : Chain[p] \in Seq(STRING) /\ Len(Chain[p]) \in Nat /\ DOMAIN Chain[p] = 1..Len(Chain[p])
  <1>1. \A p \in 1..3 : Chain[p] \in Seq(STRING)
    BY PassesAssumption
  <1> QED BY <1>1

LEMMA SequencesTyped == TypeOK => records \in Seq(RecordType) /\ raws \in Seq(RawType)
  BY DEF TypeOK, RecordType, RawType

LEMMA ResponseTyped ==
  ASSUME NEW w \in Seq(RawType)
  PROVE  \A i \in DOMAIN w : /\ w[i].cost \in Nat /\ w[i].call \in Calls
                            /\ w[i].call.pass \in 1..3 /\ w[i].call.turn \in Nat
  <1>1. \A i \in DOMAIN w : w[i] \in RawType
    OBVIOUS
  <1>2. \A x \in RawType : x.cost \in Nat /\ x.call \in Calls
    BY DEF RawType
  <1>3. \A c \in Calls : c.pass \in 1..3 /\ c.turn \in Nat
    BY DEF Calls
  <1> QED BY <1>1, <1>2, <1>3

LEMMA RecordTyped ==
  ASSUME NEW s \in Seq(RecordType)
  PROVE  \A i \in DOMAIN s : s[i].cost \in Nat
  <1>1. \A i \in DOMAIN s : s[i] \in RecordType
    OBVIOUS
  <1> QED BY <1>1 DEF RecordType

LEMMA CallsGrow ==
  ASSUME TypeOK, CallsInOrder, phase = "asking", NEW x \in RawType, x.call = Call,
         raws' = Append(raws, x), attempt' = attempt, pass' \in 1..3, pass <= pass',
         phase' = "asking" => Before(Call, pass', turn'), turn' \in Nat
  PROVE  CallsInOrder'
  <1> DEFINE n == Len(raws)
  <1>1. n \in Nat /\ DOMAIN raws = 1..n /\ DOMAIN raws' = 1..(n + 1)
    BY DEF TypeOK
  <1>2. (\A i \in 1..n : raws'[i] = raws[i]) /\ raws'[n + 1].call = Call
    BY DEF TypeOK
  <1>3. /\ \A i \in 1..n : raws[i].call.pass \in 1..3 /\ raws[i].call.turn \in Nat
        /\ pass \in 1..3 /\ turn \in Nat /\ turn \in DOMAIN Chain[pass]
    <2>1. pass \in 1..3 /\ turn \in DOMAIN Chain[pass]
      BY DEF TypeOK
    <2>2. turn \in Nat
      BY <2>1, ChainType
    <2>3. \A i \in DOMAIN raws : raws[i].call.pass \in 1..3 /\ raws[i].call.turn \in Nat
      BY SequencesTyped, ResponseTyped
    <2> QED BY <1>1, <2>1, <2>2, <2>3
  <1>4. \A i \in 1..n :
          /\ raws[i].call.attempt = attempt /\ raws[i].call.pass <= pass
          /\ raws[i].call.turn \in DOMAIN Chain[raws[i].call.pass]
          /\ Before(raws[i].call, pass, turn)
    BY <1>1 DEF CallsInOrder
  <1> HIDE DEF n
  <1>5. ASSUME NEW i \in DOMAIN raws'
        PROVE  /\ raws'[i].call.attempt = attempt' /\ raws'[i].call.pass <= pass'
               /\ raws'[i].call.turn \in DOMAIN Chain[raws'[i].call.pass]
               /\ phase' = "asking" => Before(raws'[i].call, pass', turn')
    <2>1. CASE i = n + 1
      BY <1>2, <1>3, <2>1 DEF Call
    <2>2. CASE i # n + 1
      <3>1. i \in 1..n
        BY <1>1, <2>2
      <3> QED BY <1>2, <1>3, <1>4, <3>1 DEF Before, Call
    <2> QED BY <2>1, <2>2
  <1>6. ASSUME NEW i \in DOMAIN raws', NEW j \in DOMAIN raws', i < j
        PROVE  Before(raws'[i].call, raws'[j].call.pass, raws'[j].call.turn)
    <2>1. i \in 1..n
      BY <1>1, <1>6
    <2>2. CASE j = n + 1
      BY <1>2, <1>4, <2>1, <2>2 DEF Call
    <2>3. CASE j # n + 1
      <3>1. j \in 1..n
        BY <1>1, <2>3
      <3> QED BY <1>1, <1>2, <1>6, <2>1, <3>1 DEF CallsInOrder
    <2> QED BY <2>2, <2>3
  <1> QED BY <1>5, <1>6 DEF CallsInOrder, Before

------------------------------------------------------------------------------
(* Beginning, and beginning again                                          *)

LEMMA PairedNothing == Paired(<<>>, <<>>)
  <1>1. Oks(<<>>, 0) = {}
    BY DEF Oks
  <1>2. Cardinality(Oks(<<>>, 0)) = 0
    BY <1>1, FS_EmptySet
  <1> QED BY <1>2 DEF Paired

LEMMA NothingSpent == SumFunctionOnSet(Costs(<<>>), {i \in DOMAIN <<>> : <<>>[i].call.pass < 3}) = 0
  <1>1. {i \in DOMAIN <<>> : <<>>[i].call.pass < 3} = {}
    OBVIOUS
  <1> QED BY <1>1, SumOfNothing

LEMMA NothingReadable == \A p : Readable(<<>>, p) = {}
  BY DEF Readable

\* TypeOK in three parts
RunTyped ==
  /\ phase \in {"asking", "storing", "persisted", "scored", "done", "failed"}
  /\ pass \in 1..3 /\ turn \in DOMAIN Chain[pass]
  /\ records \in Seq(RecordType) /\ raws \in Seq(RawType)
  /\ cost \in Nat /\ keys \in Seq(Keys) /\ attempt \in 0..Retries
CeilingSeen == hit \in BOOLEAN /\ (hit <=> raws # <<>> /\ cost >= Ceiling)
BucketTyped == bucket \subseteq Keys \X Calls /\ \A e \in bucket : e[1] = KeyFor(e[2])

LEMMA TypeParts ==
  /\ TypeOK <=> RunTyped /\ CeilingSeen /\ BucketTyped
  /\ TypeOK' <=> RunTyped' /\ CeilingSeen' /\ BucketTyped'
  <1> DEFINE RS == Seq(RecordType)
             WS == Seq(RawType)
  <1>1. /\ RS = Seq([pass : 1..3, model : STRING, cost : Nat, ok : BOOLEAN])
        /\ WS = Seq([call : Calls, cost : Nat, text : Answers \cup {NONE}])
    BY DEF RecordType, RawType
  <1> HIDE DEF RS, WS
  <1> QED BY <1>1, Zenon DEF TypeOK, RunTyped, CeilingSeen, BucketTyped, KeyFor, RS, WS

LEMMA InitInv == Init => IInv
  <1> SUFFICES ASSUME Init PROVE IInv
    OBVIOUS
  <1> USE DEF Init
  <1>1. TypeOK
    <2>1. turn \in DOMAIN Chain[pass]
      BY PassesAssumption, ChainType
    <2>2. 0 \in 0..Retries
      BY PassesAssumption
    <2>3. RunTyped
      BY <2>1, <2>2 DEF RunTyped
    <2>4. CeilingSeen
      BY DEF CeilingSeen
    <2>5. BucketTyped
      BY DEF BucketTyped
    <2> QED BY <2>3, <2>4, <2>5, TypeParts
  <1>2. CallsInOrder
    BY DEF CallsInOrder
  <1>3. Paired(records, raws)
    BY PairedNothing
  <1>4. CostsAddUp
    BY TotalOfNothing DEF CostsAddUp
  <1>5. ThirdWithinBudget
    BY DEF ThirdWithinBudget
  <1>6. ReadOnce
    BY NothingReadable DEF ReadOnce
  <1>7. StoredUnderKey
    BY DEF StoredUnderKey
  <1>8. RowAsComputed
    BY DEF RowAsComputed, Persisted
  <1> QED BY <1>1, <1>2, <1>3, <1>4, <1>5, <1>6, <1>7, <1>8 DEF IInv

\* Throwing leaves nothing of the attempt but objects in R2.
LEMMA ThrowKeeps ==
  ASSUME IInv, Throw, BucketTyped'
  PROVE  IInv'
  <1> USE DEF IInv
  <1>1. CASE attempt < Retries
    <2>1. phase' = "asking" /\ attempt' = attempt + 1 /\ Fresh /\ row' = row
      BY <1>1 DEF Throw
    <2> USE DEF Fresh
    <2>2. TypeOK'
      <3>1. turn' \in DOMAIN Chain[pass']
        BY <2>1, PassesAssumption, ChainType
      <3>2. attempt \in 0..Retries /\ Retries \in Nat
        BY TypeParts, PassesAssumption DEF RunTyped
      <3>3. attempt' \in 0..Retries
        BY <1>1, <2>1, <3>2
      <3>4. RunTyped'
        BY <2>1, <3>1, <3>3 DEF RunTyped
      <3>5. CeilingSeen'
        BY <2>1 DEF CeilingSeen
      <3> QED BY <3>4, <3>5, TypeParts
    <2>3. CallsInOrder'
      BY <2>1 DEF CallsInOrder
    <2>4. Paired(records, raws)'
      BY <2>1, PairedNothing
    <2>5. CostsAddUp'
      BY <2>1, TotalOfNothing DEF CostsAddUp
    <2>6. ThirdWithinBudget'
      BY <2>1 DEF ThirdWithinBudget
    <2>7. ReadOnce'
      BY <2>1, NothingReadable DEF ReadOnce
    <2>8. StoredUnderKey'
      BY <2>1 DEF StoredUnderKey
    <2>9. RowAsComputed'
      BY <2>1 DEF RowAsComputed, Persisted
    <2> QED BY <2>2, <2>3, <2>4, <2>5, <2>6, <2>7, <2>8, <2>9
  <1>2. CASE ~(attempt < Retries)
    <2>1. phase' = "failed" /\ UNCHANGED <<attempt, run, row>>
      BY <1>2 DEF Throw
    <2> USE DEF run
    <2>2. TypeOK'
      <3>1. RunTyped' /\ CeilingSeen'
        BY <2>1, TypeParts DEF RunTyped, CeilingSeen
      <3> QED BY <3>1, TypeParts
    <2>3. CallsInOrder'
      BY <2>1 DEF CallsInOrder, Before
    <2>4. Paired(records, raws)'
      BY <2>1 DEF Paired, KeyFor
    <2>5. CostsAddUp'
      BY <2>1 DEF CostsAddUp
    <2>6. ThirdWithinBudget'
      BY <2>1 DEF ThirdWithinBudget
    <2>7. ReadOnce'
      BY <2>1 DEF ReadOnce, Readable
    <2>8. StoredUnderKey'
      BY <2>1 DEF StoredUnderKey
    <2>9. RowAsComputed'
      BY <2>1 DEF RowAsComputed, Persisted
    <2> QED BY <2>2, <2>3, <2>4, <2>5, <2>6, <2>7, <2>8, <2>9
  <1> QED BY <1>1, <1>2

------------------------------------------------------------------------------
(* Asking                                                                  *)

\* What is recorded of a call
LEMMA CallTyped ==
  ASSUME TypeOK
  PROVE  /\ Call \in Calls /\ KeyFor(Call) = <<pass, Model>>
         /\ Call.attempt = attempt /\ Call.pass = pass /\ Call.turn = turn
         /\ \A price \in Nat, ok \in BOOLEAN :
              LET r == Record(price, ok) IN
              r \in RecordType /\ r.pass = pass /\ r.model = Model /\ r.cost = price /\ r.ok = ok
  <1>1. pass \in 1..3 /\ turn \in DOMAIN Chain[pass] /\ attempt \in 0..Retries
    BY TypeParts DEF RunTyped
  <1>2. turn \in Nat \ {0} /\ Model \in STRING
    <2>1. Chain[pass] \in Seq(STRING) /\ DOMAIN Chain[pass] = 1..Len(Chain[pass]) /\ Len(Chain[pass]) \in Nat
      BY <1>1, ChainType
    <2>2. turn \in Nat \ {0}
      BY <1>1, <2>1
    <2>3. Chain[pass][turn] \in STRING
      BY <1>1, <2>1
    <2> QED BY <2>2, <2>3 DEF Model
  <1>3. Call \in Calls /\ KeyFor(Call) = <<pass, Model>>
    BY <1>1, <1>2 DEF Call, Calls, KeyFor, Model
  <1>4. Call.attempt = attempt /\ Call.pass = pass /\ Call.turn = turn
    BY DEF Call
  <1>5. \A price \in Nat, ok \in BOOLEAN :
          LET r == Record(price, ok) IN
          r \in RecordType /\ r.pass = pass /\ r.model = Model /\ r.cost = price /\ r.ok = ok
    BY <1>1, <1>2 DEF Record, RecordType
  <1> QED BY <1>3, <1>4, <1>5

\* The model that is asked next is one of the chain.
LEMMA NextTurn ==
  ASSUME TypeOK, turn < Len(Chain[pass])
  PROVE  turn + 1 \in DOMAIN Chain[pass] /\ turn \in Nat
  <1>1. pass \in 1..3 /\ turn \in DOMAIN Chain[pass]
    BY TypeParts DEF RunTyped
  <1>2. DOMAIN Chain[pass] = 1..Len(Chain[pass]) /\ Len(Chain[pass]) \in Nat
    BY <1>1, ChainType
  <1> QED BY <1>1, <1>2

LEMMA CallFailsKeeps ==
  ASSUME IInv, CallFails
  PROVE  IInv'
  <1> USE DEF IInv
  <1>0. CASE ~(turn < Len(Chain[pass]))
    <2>1. Throw /\ bucket' = bucket
      BY <1>0 DEF CallFails, NextModel
    <2>2. BucketTyped'
      BY <2>1, TypeParts DEF BucketTyped
    <2> QED BY <2>1, <2>2, ThrowKeeps
  <1> SUFFICES ASSUME turn < Len(Chain[pass]) PROVE IInv'
    BY <1>0
  <1> DEFINE r == Record(0, FALSE)
  <1>1. /\ phase = "asking" /\ turn' = turn + 1 /\ records' = records \o <<r>>
        /\ UNCHANGED <<phase, pass, answered, keys, attempt, row, raws, cost, hit, bucket>>
    BY DEF CallFails, Asking, NextModel
  <1>2. r \in RecordType /\ r.cost = 0 /\ r.ok = FALSE
    BY CallTyped
  <1> HIDE DEF r
  <1>3. records \in Seq(RecordType) /\ raws \in Seq(RawType)
    BY SequencesTyped
  <1>4. records' = Append(records, r)
    BY <1>1, <1>2, <1>3
  <1>5. TypeOK'
    <2>1. RunTyped /\ CeilingSeen /\ BucketTyped
      BY TypeParts
    <2>2. turn' \in DOMAIN Chain[pass'] /\ records' \in Seq(RecordType)
      BY <1>1, <1>2, <1>3, <1>4, NextTurn
    <2>3. RunTyped'
      BY <1>1, <2>1, <2>2 DEF RunTyped
    <2>4. CeilingSeen'
      BY <1>1, <2>1 DEF CeilingSeen
    <2>5. BucketTyped'
      BY <1>1, <2>1 DEF BucketTyped
    <2> QED BY <2>3, <2>4, <2>5, TypeParts
  <1>6. CallsInOrder'
    <2>1. turn \in Nat
      BY NextTurn
    <2>2. \A i \in DOMAIN raws : raws[i].call.turn \in Nat /\ raws[i].call.pass \in 1..3
      BY <1>3, ResponseTyped
    <2>3. \A i \in DOMAIN raws : Before(raws[i].call, pass, turn) => Before(raws[i].call, pass, turn + 1)
      BY <2>1, <2>2 DEF Before
    <2> QED BY <1>1, <2>3 DEF CallsInOrder, Before
  <1>7. Paired(records, raws)'
    <2>1. Paired(Append(records, r), raws)
      BY <1>2, <1>3, PairedFailure
    <2> QED BY <1>1, <1>4, <2>1
  <1>8. CostsAddUp'
    <2>1. \A i \in DOMAIN records : records[i].cost \in Int
      BY <1>3, RecordTyped
    <2>2. Total(Append(records, r)) = Total(records) + 0
      BY <1>2, <1>3, <2>1, TotalAppend
    <2>3. cost \in Nat
      BY TypeParts DEF RunTyped
    <2>4. cost = Total(raws) /\ cost = Total(records)
      BY DEF CostsAddUp
    <2>5. Total(Append(records, r)) = cost
      BY <2>2, <2>3, <2>4
    <2>6. cost' = Total(raws') /\ cost' = Total(records')
      BY <1>1, <1>4, <2>4, <2>5
    <2> QED BY <2>6 DEF CostsAddUp
  <1>9. ThirdWithinBudget'
    BY <1>1 DEF ThirdWithinBudget
  <1>10. ReadOnce'
    BY <1>1 DEF ReadOnce, Readable
  <1>11. StoredUnderKey'
    BY <1>1 DEF StoredUnderKey
  <1>12. RowAsComputed'
    BY <1>1 DEF RowAsComputed, Persisted
  <1> QED BY <1>5, <1>6, <1>7, <1>8, <1>9, <1>10, <1>11, <1>12

Response(price, text) == [call |-> Call, cost |-> price, text |-> text]

\* A response is counted, recorded and kept.
LEMMA ResponseCounted ==
  ASSUME TypeOK, Paired(records, raws), CostsAddUp,
         NEW price \in Prices, NEW text \in Answers \cup {NONE}
  PROVE  LET r == Record(price, TRUE)
             x == Response(price, text)
         IN /\ r \in RecordType /\ x \in RawType /\ x.call = Call /\ x.text = text
            /\ Paired(Append(records, r), Append(raws, x))
            /\ cost + price \in Nat /\ price \in Nat
            /\ Total(Append(records, r)) = cost + price
            /\ Total(Append(raws, x)) = cost + price
  <1> DEFINE r == Record(price, TRUE)
             x == Response(price, text)
  <1>1. records \in Seq(RecordType) /\ raws \in Seq(RawType)
    BY SequencesTyped
  <1>2. price \in Nat /\ cost \in Nat
    BY PassesAssumption, TypeParts DEF RunTyped
  <1>3. r \in RecordType /\ r.cost = price /\ r.ok = TRUE /\ r.pass = pass /\ r.model = Model
    BY <1>2, CallTyped
  <1>4. x \in RawType /\ x.call = Call /\ x.cost = price /\ x.text = text
    BY <1>2, CallTyped DEF Response, RawType
  <1>5. <<r.pass, r.model>> = KeyFor(x.call)
    BY <1>3, <1>4, CallTyped
  <1> HIDE DEF r, x
  <1>6. Paired(Append(records, r), Append(raws, x))
    BY <1>1, <1>3, <1>4, <1>5, PairedSuccess
  <1>7. Total(Append(records, r)) = Total(records) + price
    <2>1. \A i \in DOMAIN records : records[i].cost \in Int
      BY <1>1, RecordTyped
    <2>2. r.cost \in Int
      BY <1>2, <1>3
    <2>3. Total(Append(records, r)) = Total(records) + r.cost
      BY <1>1, <1>3, <2>1, <2>2, TotalAppend
    <2> QED BY <1>3, <2>3
  <1>8. Total(Append(raws, x)) = Total(raws) + price
    <2>1. \A i \in DOMAIN raws : raws[i].cost \in Int
      BY <1>1, ResponseTyped
    <2>2. x.cost \in Int
      BY <1>2, <1>4
    <2>3. Total(Append(raws, x)) = Total(raws) + x.cost
      BY <1>1, <1>4, <2>1, <2>2, TotalAppend
    <2> QED BY <1>4, <2>3
  <1>9. cost + price \in Nat
    BY <1>2
  <1>10. cost = Total(raws) /\ cost = Total(records)
    BY DEF CostsAddUp
  <1>11. Total(Append(records, r)) = cost + price /\ Total(Append(raws, x)) = cost + price
    BY <1>7, <1>8, <1>10
  <1> QED BY <1>2, <1>3, <1>4, <1>6, <1>9, <1>11 DEF r, x

\* The ceiling is looked at after every response.
LEMMA CeilingLookedAt ==
  ASSUME TypeOK, NEW price \in Nat, NEW x, raws' = Append(raws, x),
         cost' = cost + price, hit' = (hit \/ cost + price >= Ceiling)
  PROVE  CeilingSeen'
  <1>1. hit \in BOOLEAN /\ (hit => cost >= Ceiling) /\ cost \in Nat /\ Ceiling \in Nat
    BY TypeParts, PassesAssumption DEF RunTyped, CeilingSeen
  <1>2. raws' # <<>>
    <2>1. raws \in Seq(RawType)
      BY SequencesTyped
    <2>2. Len(raws') = Len(raws) + 1 /\ Len(raws) \in Nat
      BY <2>1
    <2> QED BY <2>2
  <1>3. hit => cost + price >= Ceiling
    BY <1>1
  <1>4. (hit' <=> cost' >= Ceiling) /\ hit' \in BOOLEAN
    <2> DEFINE big == cost + price >= Ceiling
    <2>1. hit' = (hit \/ big) /\ (hit => big) /\ (cost' >= Ceiling <=> big)
      BY <1>3
    <2> HIDE DEF big
    <2> QED BY <1>1, <2>1
  <1> QED BY <1>2, <1>4 DEF CeilingSeen

LEMMA UnreadableKeeps ==
  ASSUME IInv, NEW price \in Prices, Unreadable(price)
  PROVE  IInv'
  <1> USE DEF IInv
  <1>0. CASE ~(turn < Len(Chain[pass]))
    <2>1. Throw /\ bucket' = bucket
      BY <1>0 DEF Unreadable, NextModel
    <2>2. BucketTyped'
      BY <2>1, TypeParts DEF BucketTyped
    <2> QED BY <2>1, <2>2, ThrowKeeps
  <1> SUFFICES ASSUME turn < Len(Chain[pass]) PROVE IInv'
    BY <1>0
  <1> DEFINE r == Record(price, TRUE)
             e == Record(0, FALSE)
             x == Response(price, NONE)
             grown == Append(records, r)
  <1>1. /\ phase = "asking" /\ turn' = turn + 1 /\ records' = records \o <<r, e>>
        /\ UNCHANGED <<phase, pass, answered, keys, attempt, row, bucket>>
        /\ raws' = Append(raws, x) /\ cost' = cost + price /\ hit' = (hit \/ cost + price >= Ceiling)
    BY DEF Unreadable, Asking, NextModel, Response
  <1>2. /\ r \in RecordType /\ x \in RawType /\ x.call = Call /\ x.text = NONE
        /\ Paired(grown, Append(raws, x))
        /\ cost + price \in Nat /\ price \in Nat
        /\ Total(grown) = cost + price /\ Total(Append(raws, x)) = cost + price
    BY ResponseCounted
  <1>3. e \in RecordType /\ e.cost = 0 /\ e.ok = FALSE
    BY CallTyped
  <1> HIDE DEF r, e, x, grown
  <1>4. records \in Seq(RecordType) /\ raws \in Seq(RawType)
    BY SequencesTyped
  <1>5. grown \in Seq(RecordType) /\ records' = Append(grown, e) /\ raws' \in Seq(RawType)
    BY <1>1, <1>2, <1>3, <1>4 DEF grown
  <1>6. TypeOK'
    <2>1. RunTyped /\ BucketTyped
      BY TypeParts
    <2>2. turn' \in DOMAIN Chain[pass']
      BY <1>1, NextTurn
    <2>3. RunTyped'
      <3>1. records' \in Seq(RecordType)
        BY <1>3, <1>5
      <3> QED BY <1>1, <1>2, <1>5, <2>1, <2>2, <3>1 DEF RunTyped
    <2>4. CeilingSeen'
      BY <1>1, <1>2, CeilingLookedAt
    <2>5. BucketTyped'
      BY <1>1, <2>1 DEF BucketTyped
    <2> QED BY <2>3, <2>4, <2>5, TypeParts
  <1>7. CallsInOrder'
    <2>1. pass \in 1..3 /\ turn \in Nat
      BY NextTurn, TypeParts DEF RunTyped
    <2>2. Before(Call, pass', turn') /\ turn' \in Nat /\ pass' \in 1..3 /\ pass <= pass'
      BY <1>1, <2>1, CallTyped DEF Before
    <2> QED BY <1>1, <1>2, <2>2, CallsGrow
  <1>8. Paired(records, raws)'
    <2>1. Paired(Append(grown, e), Append(raws, x))
      BY <1>1, <1>2, <1>3, <1>5, PairedFailure
    <2> QED BY <1>1, <1>5, <2>1
  <1>9. CostsAddUp'
    <2>1. \A i \in DOMAIN grown : grown[i].cost \in Int
      BY <1>5, RecordTyped
    <2>2. Total(Append(grown, e)) = Total(grown) + 0
      BY <1>3, <1>5, <2>1, TotalAppend
    <2>3. Total(grown) + 0 = cost + price
      BY <1>2
    <2>4. cost' = Total(raws') /\ cost' = Total(records')
      BY <1>1, <1>2, <1>5, <2>2, <2>3
    <2> QED BY <2>4 DEF CostsAddUp
  <1>10. ThirdWithinBudget'
    <2> SUFFICES ASSUME pass' = 3 PROVE SumFunctionOnSet(Costs(raws'), Early(raws')) < Ceiling
      BY DEF ThirdWithinBudget, Early
    <2>1. x.call.pass = 3
      BY <1>1, <1>2, CallTyped
    <2>2. SumFunctionOnSet(Costs(raws'), Early(raws')) = SumFunctionOnSet(Costs(raws), Early(raws))
      BY <1>1, <1>2, <1>4, <2>1, EarlyStays
    <2>3. SumFunctionOnSet(Costs(raws), Early(raws)) < Ceiling
      BY <1>1 DEF ThirdWithinBudget, Early
    <2> QED BY <2>2, <2>3
  <1>11. ReadOnce'
    <2>1. \A p \in 1..3 : Readable(raws', p) = Readable(raws, p)
      BY <1>1, <1>2, <1>4, ReadableGrows
    <2>2. \A i \in DOMAIN raws : i \in DOMAIN raws' /\ raws'[i] = raws[i]
      BY <1>1, <1>4
    <2>3. pass \in 1..3
      BY TypeParts DEF RunTyped
    <2>4. ASSUME NEW p \in 1..3
          PROVE  \/ Readable(raws', p) = {} /\ answered'[p] = Nothing
                 \/ \E i \in DOMAIN raws' : Readable(raws', p) = {i} /\ answered'[p] = Read(raws'[i].text)
      BY <1>1, <2>1, <2>2 DEF ReadOnce
    <2>5. \A p \in pass'..3 : Readable(raws', p) = {}
      <3>1. \A p \in pass..3 : p \in 1..3 /\ Readable(raws, p) = {}
        BY <1>1, <2>3 DEF ReadOnce
      <3> QED BY <1>1, <2>1, <3>1
    <2>6. DOMAIN answered' = 1..3
      BY <1>1 DEF ReadOnce
    <2> QED BY <2>4, <2>5, <2>6 DEF ReadOnce
  <1>12. StoredUnderKey'
    <2>1. keys' = <<>>
      BY <1>1 DEF StoredUnderKey
    <2>2. Len(raws') \in Nat
      BY <1>5
    <2> QED BY <2>1, <2>2 DEF StoredUnderKey
  <1>13. RowAsComputed'
    BY <1>1 DEF RowAsComputed, Persisted
  <1> QED BY <1>6, <1>7, <1>8, <1>9, <1>10, <1>11, <1>12, <1>13

LEMMA NextPassCases ==
  ASSUME TypeOK, NextPass
  PROVE  \/ /\ phase' = phase /\ pass \in {1, 2} /\ pass' = pass + 1 /\ turn' = 1
            /\ turn' \in DOMAIN Chain[pass'] /\ (pass = 2 => ~hit')
         \/ phase' = "storing" /\ pass' = pass /\ turn' = turn
  <1>1. CASE pass = 1
    <2>1. phase' = phase /\ pass' = 2 /\ turn' = 1
      BY <1>1 DEF NextPass
    <2>2. 1 \in DOMAIN Chain[2]
      <3>1. Chain[2] # <<>> /\ Chain[2] \in Seq(STRING)
        BY PassesAssumption
      <3> QED BY <3>1
    <2> QED BY <1>1, <2>1, <2>2
  <1>2. CASE pass = 2 /\ Weak(TwoPasses)' # {} /\ Chain[3] # <<>> /\ ~hit'
    <2>1. phase' = phase /\ pass' = 3 /\ turn' = 1
      BY <1>2 DEF NextPass
    <2>2. 1 \in DOMAIN Chain[3]
      <3>1. Chain[3] # <<>> /\ Chain[3] \in Seq(STRING)
        BY <1>2, PassesAssumption
      <3> QED BY <3>1
    <2> QED BY <1>2, <2>1, <2>2
  <1>3. CASE ~(pass = 1 \/ (pass = 2 /\ Weak(TwoPasses)' # {} /\ Chain[3] # <<>> /\ ~hit'))
    BY <1>3, Zenon DEF NextPass
  <1> QED BY <1>1, <1>2, <1>3, Zenon

LEMMA AnsweredKeeps ==
  ASSUME IInv, NEW answer \in Answers, NEW price \in Prices, Answered(answer, price)
  PROVE  IInv'
  <1> USE DEF IInv
  <1> DEFINE r == Record(price, TRUE)
             x == Response(price, answer)
  <1>1. /\ phase = "asking" /\ records' = Append(records, r) /\ raws' = Append(raws, x)
        /\ answered' = [answered EXCEPT ![pass] = Read(answer)]
        /\ cost' = cost + price /\ hit' = (hit \/ cost + price >= Ceiling)
        /\ NextPass /\ UNCHANGED <<keys, bucket, attempt, row>>
    BY DEF Answered, Asking, Response
  <1>2. /\ r \in RecordType /\ x \in RawType /\ x.call = Call /\ x.text = answer
        /\ Paired(records', raws')
        /\ cost + price \in Nat /\ price \in Nat
        /\ Total(records') = cost + price /\ Total(raws') = cost + price
    BY <1>1, ResponseCounted
  <1> HIDE DEF r, x
  <1>3. \/ /\ phase' = "asking" /\ pass \in {1, 2} /\ pass' = pass + 1 /\ turn' = 1
           /\ turn' \in DOMAIN Chain[pass'] /\ (pass = 2 => ~hit')
        \/ phase' = "storing" /\ pass' = pass /\ turn' = turn
    BY <1>1, NextPassCases
  <1>4. records \in Seq(RecordType) /\ raws \in Seq(RawType) /\ raws' \in Seq(RawType)
    <2>1. records \in Seq(RecordType) /\ raws \in Seq(RawType)
      BY SequencesTyped
    <2> QED BY <1>1, <1>2, <2>1
  <1>5. pass \in 1..3 /\ pass' \in 1..3 /\ pass <= pass' /\ turn \in DOMAIN Chain[pass] /\ turn' \in DOMAIN Chain[pass']
    <2>1. pass \in 1..3 /\ turn \in DOMAIN Chain[pass]
      BY TypeParts DEF RunTyped
    <2> QED BY <1>3, <2>1
  <1>6. CeilingSeen'
    BY <1>1, <1>2, CeilingLookedAt
  <1>7. TypeOK'
    <2>1. RunTyped /\ BucketTyped
      BY TypeParts
    <2>2. phase' \in {"asking", "storing"}
      BY <1>3
    <2>3. records' \in Seq(RecordType)
      BY <1>1, <1>2, <1>4
    <2>4. RunTyped'
      BY <1>1, <1>2, <1>4, <1>5, <2>1, <2>2, <2>3 DEF RunTyped
    <2>5. BucketTyped'
      BY <1>1, <2>1 DEF BucketTyped
    <2> QED BY <1>6, <2>4, <2>5, TypeParts
  <1>8. CallsInOrder'
    <2>1. turn' \in Nat
      BY <1>5, ChainType
    <2>2. phase' = "asking" => Before(Call, pass', turn')
      BY <1>3, <1>5, CallTyped DEF Before
    <2> QED BY <1>1, <1>2, <1>5, <2>1, <2>2, CallsGrow
  <1>9. CostsAddUp'
    BY <1>1, <1>2 DEF CostsAddUp
  <1>10. ThirdWithinBudget'
    <2> SUFFICES ASSUME pass' = 3 PROVE SumFunctionOnSet(Costs(raws'), Early(raws')) < Ceiling
      BY DEF ThirdWithinBudget, Early
    <2>1. CASE pass = 3
      <3>1. x.call.pass = 3
        BY <1>2, <2>1, CallTyped
      <3>2. SumFunctionOnSet(Costs(raws'), Early(raws')) = SumFunctionOnSet(Costs(raws), Early(raws))
        BY <1>1, <1>2, <1>4, <3>1, EarlyStays
      <3>3. SumFunctionOnSet(Costs(raws), Early(raws)) < Ceiling
        BY <2>1 DEF ThirdWithinBudget, Early
      <3> QED BY <3>2, <3>3
    <2>2. CASE pass # 3
      <3>1. pass = 2 /\ ~hit'
        BY <1>3, <1>5, <2>2
      <3>2. \A i \in DOMAIN raws' : raws'[i].call.pass < 3
        <4>1. \A i \in DOMAIN raws : raws[i].call.pass <= 2 /\ raws[i].call.pass \in 1..3
          BY <1>4, <3>1, ResponseTyped DEF CallsInOrder
        <4>2. x.call.pass = 2
          BY <1>2, <3>1, CallTyped
        <4>3. \A i \in DOMAIN raws' : raws'[i] = x \/ (i \in DOMAIN raws /\ raws'[i] = raws[i])
          BY <1>1, <1>2, <1>4
        <4> QED BY <4>1, <4>2, <4>3
      <3>3. SumFunctionOnSet(Costs(raws'), Early(raws')) = cost'
        BY <1>1, <1>2, <1>4, <3>2, EarlyIsAll
      <3>4. cost' < Ceiling
        <4>1. raws' # <<>>
          BY <1>1, <1>2, <1>4
        <4>2. ~(cost' >= Ceiling) /\ cost' \in Nat /\ Ceiling \in Nat
          BY <1>1, <1>2, <1>6, <3>1, <4>1, PassesAssumption DEF CeilingSeen
        <4> QED BY <4>2
      <3> QED BY <3>3, <3>4
    <2> QED BY <2>1, <2>2
  <1>11. ReadOnce'
    <2> DEFINE n == Len(raws) + 1
    <2>1. /\ \A p \in 1..3 : p # pass => Readable(raws', p) = Readable(raws, p)
          /\ Readable(raws', pass) = Readable(raws, pass) \cup {n}
      <3>1. x.call.pass = pass /\ x.text # NONE
        BY <1>2, CallTyped, AnswersAssumption
      <3>2. ASSUME NEW p
            PROVE  /\ p # pass => Readable(Append(raws, x), p) = Readable(raws, p)
                   /\ p = pass => Readable(Append(raws, x), p) = Readable(raws, p) \cup {n}
        <4>1. /\ x.call.pass # p \/ x.text = NONE => Readable(Append(raws, x), p) = Readable(raws, p)
              /\ x.call.pass = p /\ x.text # NONE => Readable(Append(raws, x), p) = Readable(raws, p) \cup {Len(raws) + 1}
          BY <1>2, <1>4, ReadableGrows
        <4> QED BY <3>1, <4>1
      <3> QED BY <1>1, <3>2
    <2>2. \A i \in DOMAIN raws : i \in DOMAIN raws' /\ raws'[i] = raws[i]
      BY <1>1, <1>4
    <2>3. n \in DOMAIN raws' /\ raws'[n] = x
      BY <1>1, <1>2, <1>4
    <2> HIDE DEF n
    <2>4. DOMAIN answered = 1..3 /\ \A p \in pass..3 : Readable(raws, p) = {}
      BY <1>1 DEF ReadOnce
    <2>5. /\ DOMAIN answered' = 1..3 /\ answered'[pass] = Read(answer)
          /\ \A p \in 1..3 : p # pass => answered'[p] = answered[p]
      BY <1>1, <1>5, <2>4
    <2>6. ASSUME NEW p \in 1..3
          PROVE  \/ Readable(raws', p) = {} /\ answered'[p] = Nothing
                 \/ \E i \in DOMAIN raws' : Readable(raws', p) = {i} /\ answered'[p] = Read(raws'[i].text)
      <3>1. CASE p = pass
        <4>1. Readable(raws', p) = {n} /\ answered'[p] = Read(raws'[n].text)
          BY <1>2, <1>5, <2>1, <2>3, <2>4, <2>5, <3>1
        <4> QED BY <2>3, <4>1
      <3>2. CASE p # pass
        BY <2>1, <2>2, <2>5, <3>2 DEF ReadOnce
      <3> QED BY <3>1, <3>2
    <2>7. ASSUME phase' = "asking", NEW p \in pass'..3 PROVE Readable(raws', p) = {}
      <3>1. p \in 1..3 /\ p # pass /\ p \in pass..3
        BY <1>3, <1>5, <2>7
      <3> QED BY <2>1, <2>4, <3>1
    <2> QED BY <2>5, <2>6, <2>7 DEF ReadOnce
  <1>12. StoredUnderKey'
    <2>1. keys' = <<>>
      BY <1>1 DEF StoredUnderKey
    <2>2. Len(raws') \in Nat
      BY <1>4
    <2> QED BY <2>1, <2>2 DEF StoredUnderKey
  <1>13. RowAsComputed'
    BY <1>1, <1>3 DEF RowAsComputed, Persisted
  <1> QED BY <1>2, <1>7, <1>8, <1>9, <1>10, <1>11, <1>12, <1>13

------------------------------------------------------------------------------
(* Storing and recording                                                   *)

\* No two responses of an attempt have the same key.
LEMMA KeysDiffer ==
  ASSUME TypeOK, CallsInOrder, NEW i \in DOMAIN raws, NEW j \in DOMAIN raws, i < j
  PROVE  KeyFor(raws[i].call) # KeyFor(raws[j].call)
  <1> DEFINE c == raws[i].call
             d == raws[j].call
  <1>1. c \in Calls /\ d \in Calls /\ c.pass \in 1..3 /\ d.pass \in 1..3 /\ c.turn \in Nat /\ d.turn \in Nat
    BY SequencesTyped, ResponseTyped
  <1>2. c.turn \in DOMAIN Chain[c.pass] /\ d.turn \in DOMAIN Chain[d.pass] /\ Before(c, d.pass, d.turn)
    BY DEF CallsInOrder
  <1> HIDE DEF c, d
  <1>3. CASE c.pass < d.pass
    BY <1>1, <1>3 DEF KeyFor, c, d
  <1>4. CASE c.pass = d.pass /\ c.turn < d.turn
    <2>1. \A m, n \in DOMAIN Chain[c.pass] : Chain[c.pass][m] = Chain[c.pass][n] => m = n
      BY <1>1, PassesAssumption
    <2>2. c.turn # d.turn
      BY <1>1, <1>4
    <2>3. Chain[c.pass][c.turn] # Chain[d.pass][d.turn]
      BY <1>2, <1>4, <2>1, <2>2
    <2> QED BY <2>3 DEF KeyFor, c, d
  <1> QED BY <1>2, <1>3, <1>4 DEF Before

\* The object of a response, and R2 after it was written
LEMMA WriteTyped ==
  ASSUME TypeOK, CallsInOrder, Paired(records, raws), NEW i \in DOMAIN raws,
         bucket' \in {bucket, {e \in bucket : e[1] # KeyOf(i)} \cup {<<KeyOf(i), raws[i].call>>}}
  PROVE  BucketTyped' /\ KeyOf(i) \in Keys /\ KeyOf(i) = KeyFor(raws[i].call)
  <1> DEFINE c == raws[i].call
  <1>1. KeyOf(i) = KeyFor(c)
    BY KeysMatch
  <1>2. c \in Calls /\ c.pass \in 1..3 /\ c.turn \in DOMAIN Chain[c.pass]
    BY SequencesTyped, ResponseTyped DEF CallsInOrder
  <1>3. KeyFor(c) \in Keys
    <2>1. Chain[c.pass][c.turn] \in STRING
      BY <1>2, ChainType
    <2> QED BY <1>2, <2>1 DEF KeyFor, Keys
  <1>4. bucket \subseteq Keys \X Calls /\ \A e \in bucket : e[1] = KeyFor(e[2])
    BY TypeParts DEF BucketTyped
  <1> HIDE DEF c
  <1>5. \A e \in bucket' : e \in bucket \/ e = <<KeyFor(c), c>>
    BY <1>1 DEF c
  <1>6. BucketTyped'
    BY <1>2, <1>3, <1>4, <1>5 DEF BucketTyped
  <1> QED BY <1>1, <1>3, <1>6 DEF c

LEMMA StoreRawKeeps ==
  ASSUME IInv, StoreRaw
  PROVE  IInv'
  <1> USE DEF IInv
  <1> DEFINE i == Len(keys) + 1
             k0 == KeyOf(i)
             c == raws[i].call
  <1>1. /\ phase = "storing" /\ i <= Len(raws) /\ keys' = Append(keys, k0)
        /\ bucket' = {e \in bucket : e[1] # k0} \cup {<<k0, c>>}
        /\ UNCHANGED <<phase, pass, turn, answered, records, raws, cost, hit, attempt, row>>
    BY DEF StoreRaw
  <1>2. raws \in Seq(RawType) /\ keys \in Seq(Keys)
    BY TypeParts DEF RunTyped
  <1>3. i \in DOMAIN raws /\ Len(keys) \in Nat /\ i \in Nat
    BY <1>1, <1>2
  <1>4. BucketTyped' /\ k0 \in Keys /\ k0 = KeyFor(c)
    <2>1. bucket' \in {bucket, {e \in bucket : e[1] # KeyOf(i)} \cup {<<KeyOf(i), raws[i].call>>}}
      BY <1>1
    <2> HIDE DEF i
    <2> QED BY <1>3, <2>1, WriteTyped
  <1>5. /\ DOMAIN keys = 1..Len(keys) /\ DOMAIN keys' = 1..i /\ Len(keys') = i
        /\ keys'[i] = k0 /\ \A k \in DOMAIN keys : keys'[k] = keys[k]
    <2> HIDE DEF k0
    <2> QED BY <1>1, <1>2
  <1> HIDE DEF i, k0, c
  <1>6. TypeOK'
    <2>1. RunTyped /\ CeilingSeen
      BY TypeParts
    <2>2. keys' \in Seq(Keys)
      BY <1>1, <1>2, <1>4
    <2>3. RunTyped'
      BY <1>1, <2>1, <2>2 DEF RunTyped
    <2>4. CeilingSeen'
      BY <1>1, <2>1 DEF CeilingSeen
    <2> QED BY <1>4, <2>3, <2>4, TypeParts
  <1>7. CallsInOrder'
    BY <1>1 DEF CallsInOrder, Before
  <1>8. Paired(records, raws)'
    BY <1>1 DEF Paired, KeyFor
  <1>9. CostsAddUp'
    BY <1>1 DEF CostsAddUp
  <1>10. ThirdWithinBudget'
    BY <1>1 DEF ThirdWithinBudget
  <1>11. ReadOnce'
    BY <1>1 DEF ReadOnce, Readable
  <1>12. StoredUnderKey'
    <2>1. ASSUME NEW k \in DOMAIN keys
          PROVE  keys'[k] = KeyFor(raws[k].call) /\ Entries(bucket', keys'[k]) = {<<keys'[k], raws[k].call>>}
      <3>1. keys[k] = KeyFor(raws[k].call) /\ Entries(bucket, keys[k]) = {<<keys[k], raws[k].call>>}
        BY <1>1 DEF StoredUnderKey
      <3>2. keys'[k] = keys[k]
        BY <1>5
      <3>3. k \in DOMAIN raws /\ k < i
        BY <1>1, <1>2, <1>3, <1>5 DEF i
      <3>4. keys[k] # k0
        BY <1>3, <1>4, <3>1, <3>3, KeysDiffer DEF c
      <3>5. {e \in bucket' : e[1] = keys[k]} = {e \in bucket : e[1] = keys[k]}
        BY <1>1, <3>4
      <3> QED BY <3>1, <3>2, <3>5 DEF Entries
    <2>2. keys'[i] = KeyFor(raws[i].call) /\ Entries(bucket', keys'[i]) = {<<keys'[i], raws[i].call>>}
      <3>1. {e \in bucket' : e[1] = k0} = {<<k0, c>>}
        BY <1>1
      <3> QED BY <1>4, <1>5, <3>1 DEF Entries, c
    <2>3. \A k \in DOMAIN keys' : k \in DOMAIN keys \/ k = i
      BY <1>3, <1>5 DEF i
    <2>4. Len(keys') <= Len(raws')
      BY <1>1, <1>5
    <2>5. phase' # "asking"
      BY <1>1
    <2>6. \A k \in DOMAIN keys' : keys'[k] = KeyFor(raws'[k].call) /\ Entries(bucket', keys'[k]) = {<<keys'[k], raws'[k].call>>}
      BY <1>1, <2>1, <2>2, <2>3
    <2> QED BY <2>4, <2>5, <2>6 DEF StoredUnderKey
  <1>13. RowAsComputed'
    BY <1>1 DEF RowAsComputed, Persisted
  <1> QED BY <1>6, <1>7, <1>8, <1>9, <1>10, <1>11, <1>12, <1>13

LEMMA StoreFailsKeeps ==
  ASSUME IInv, StoreFails
  PROVE  IInv'
  <1> DEFINE i == Len(keys) + 1
  <1>1. raws \in Seq(RawType) /\ keys \in Seq(Keys)
    BY TypeParts DEF RunTyped, IInv
  <1>2. i \in DOMAIN raws
    BY <1>1 DEF StoreFails
  <1>3. bucket' \in {bucket, {e \in bucket : e[1] # KeyOf(i)} \cup {<<KeyOf(i), raws[i].call>>}} /\ Throw
    BY DEF StoreFails
  <1> HIDE DEF i
  <1>4. BucketTyped'
    BY <1>2, <1>3, WriteTyped DEF IInv
  <1> QED BY <1>3, <1>4, ThrowKeeps

\* The steps that only write the row
LEMMA RowStepKeeps ==
  ASSUME IInv, UNCHANGED <<run, bucket, attempt>>, RowAsComputed',
         phase \in {"storing", "persisted", "scored"}, phase' \in {"persisted", "scored", "done"}
  PROVE  IInv'
  <1> USE DEF IInv
  <1>1. UNCHANGED <<pass, turn, answered, records, raws, cost, hit, keys, bucket, attempt>>
    BY DEF run
  <1>2. TypeOK'
    <2>1. RunTyped /\ CeilingSeen /\ BucketTyped
      BY TypeParts
    <2>2. RunTyped'
      BY <1>1, <2>1 DEF RunTyped
    <2>3. CeilingSeen'
      BY <1>1, <2>1 DEF CeilingSeen
    <2>4. BucketTyped'
      BY <1>1, <2>1 DEF BucketTyped
    <2> QED BY <2>2, <2>3, <2>4, TypeParts
  <1>3. CallsInOrder'
    BY <1>1 DEF CallsInOrder, Before
  <1>4. Paired(records, raws)'
    BY <1>1 DEF Paired, KeyFor
  <1>5. CostsAddUp'
    BY <1>1 DEF CostsAddUp
  <1>6. ThirdWithinBudget'
    BY <1>1 DEF ThirdWithinBudget
  <1>7. ReadOnce'
    BY <1>1 DEF ReadOnce, Readable
  <1>8. StoredUnderKey'
    BY <1>1 DEF StoredUnderKey
  <1> QED BY <1>2, <1>3, <1>4, <1>5, <1>6, <1>7, <1>8

LEMMA PersistResultKeeps ==
  ASSUME IInv, PersistResult
  PROVE  IInv'
  <1> USE DEF IInv, PersistResult
  <1>1. RowAsComputed'
    <2>1. DOMAIN row = {"data", "cost", "records", "keys", "scores", "overall", "flags", "show"}
      BY DEF RowAsComputed
    <2>2. /\ DOMAIN row' = DOMAIN row /\ row'.data = Extracted /\ row'.cost = cost
          /\ row'.records = records /\ row'.keys = keys
      BY <2>1
    <2>3. Extracted' = Extracted
      BY DEF Extracted, TwoPasses, run
    <2>4. Len(keys') = Len(raws') /\ keys' = keys /\ cost' = cost /\ records' = records
      BY DEF run
    <2> QED BY <2>1, <2>2, <2>3, <2>4 DEF RowAsComputed
  <1> QED BY <1>1, RowStepKeeps

LEMMA ScoreConfidenceKeeps ==
  ASSUME IInv, ScoreConfidence
  PROVE  IInv'
  <1> USE DEF IInv, ScoreConfidence
  <1>1. RowAsComputed'
    <2>1. DOMAIN row = {"data", "cost", "records", "keys", "scores", "overall", "flags", "show"}
      BY DEF RowAsComputed
    <2>2. /\ DOMAIN row' = DOMAIN row /\ row'.scores = Scores(row.data) /\ row'.data = row.data
          /\ row'.cost = row.cost /\ row'.records = row.records /\ row'.keys = row.keys
      BY <2>1
    <2>3. Extracted' = Extracted
      BY DEF Extracted, TwoPasses, run
    <2>4. /\ Len(keys) = Len(raws) /\ row.keys = keys
          /\ row.cost = cost /\ row.records = records /\ row.data = Extracted
      BY DEF RowAsComputed, Persisted
    <2>5. UNCHANGED <<keys, raws, cost, records>>
      BY DEF run
    <2> QED BY <2>1, <2>2, <2>3, <2>4, <2>5 DEF RowAsComputed
  <1> QED BY <1>1, RowStepKeeps

LEMMA DetectRedFlagsKeeps ==
  ASSUME IInv, DetectRedFlags
  PROVE  IInv'
  <1> USE DEF IInv, DetectRedFlags
  <1>1. RowAsComputed'
    <2>1. DOMAIN row = {"data", "cost", "records", "keys", "scores", "overall", "flags", "show"}
      BY DEF RowAsComputed
    <2>2. /\ DOMAIN row' = DOMAIN row /\ row'.scores = row.scores /\ row'.data = row.data
          /\ row'.cost = row.cost /\ row'.records = row.records /\ row'.keys = row.keys
          /\ row'.overall = Overall(row.scores)
          /\ row'.show = ShowCamAudit(RedFlags(Values), Values, row.scores)
      BY <2>1
    <2>3. Extracted' = Extracted
      BY DEF Extracted, TwoPasses, run
    <2>4. /\ Len(keys) = Len(raws) /\ row.keys = keys
          /\ row.cost = cost /\ row.records = records /\ row.data = Extracted /\ row.scores = Scores(row.data)
      BY DEF RowAsComputed, Persisted
    <2>5. UNCHANGED <<keys, raws, cost, records>>
      BY DEF run
    <2>6. Values' = Values
      BY <2>2 DEF Values
    <2> QED BY <2>1, <2>2, <2>3, <2>4, <2>5, <2>6 DEF RowAsComputed
  <1> QED BY <1>1, RowStepKeeps

LEMMA StepKeeps == IInv /\ [Next]_vars => IInv'
  <1> SUFFICES ASSUME IInv, [Next]_vars PROVE IInv'
    OBVIOUS
  <1>1. CASE CallFails
    BY <1>1, CallFailsKeeps
  <1>2. ASSUME NEW price \in Prices, Unreadable(price) PROVE IInv'
    BY <1>2, UnreadableKeeps
  <1>3. ASSUME NEW price \in Prices, NEW answer \in Answers, Answered(answer, price) PROVE IInv'
    BY <1>3, AnsweredKeeps
  <1>4. CASE StoreRaw
    BY <1>4, StoreRawKeeps
  <1>5. CASE StoreFails
    BY <1>5, StoreFailsKeeps
  <1>6. CASE PersistResult
    BY <1>6, PersistResultKeeps
  <1>7. CASE ScoreConfidence
    BY <1>7, ScoreConfidenceKeeps
  <1>8. CASE DetectRedFlags
    BY <1>8, DetectRedFlagsKeeps
  <1>9. CASE UNCHANGED vars
    <2> USE <1>9 DEF vars, run, IInv
    <2>1. TypeOK'
      <3>1. RunTyped' /\ BucketTyped'
        BY TypeParts DEF RunTyped, BucketTyped
      <3>2. CeilingSeen'
        BY TypeParts DEF CeilingSeen
      <3> QED BY <3>1, <3>2, TypeParts
    <2>2. CallsInOrder'
      BY DEF CallsInOrder, Before
    <2>3. Paired(records, raws)'
      BY DEF Paired, KeyFor
    <2>4. CostsAddUp'
      BY DEF CostsAddUp
    <2>5. ThirdWithinBudget'
      BY DEF ThirdWithinBudget
    <2>6. ReadOnce'
      BY DEF ReadOnce, Readable
    <2>7. StoredUnderKey'
      BY DEF StoredUnderKey
    <2>8. RowAsComputed'
      BY DEF RowAsComputed, Persisted, Extracted, TwoPasses, Values
    <2> QED BY <2>1, <2>2, <2>3, <2>4, <2>5, <2>6, <2>7, <2>8
  <1> QED BY <1>1, <1>2, <1>3, <1>4, <1>5, <1>6, <1>7, <1>8, <1>9 DEF Next

\* IInv holds in every reachable state: what each action of the workflow relies on.
THEOREM Invariance == SafetySpec => []IInv
  <1>1. Init => IInv
    BY InitInv
  <1>2. IInv /\ [Next]_vars => IInv'
    BY StepKeeps
  <1> QED BY <1>1, <1>2, PTL DEF SafetySpec

------------------------------------------------------------------------------
(* What follows                                                            *)

\* Every variable has its type, the ceiling is noticed as soon as it is reached, and an
\* object of R2 is stored under the key of the call it answers, in all attempts.
THEOREM TypesCorrect == SafetySpec => []TypeOK
  <1>1. IInv => TypeOK
    BY DEF IInv
  <1> QED BY <1>1, Invariance, PTL

\* The third pass is begun only while the first two have cost less than the ceiling.
THEOREM StaysInBudget == SafetySpec => []ThirdWithinBudget
  <1>1. IInv => ThirdWithinBudget
    BY DEF IInv
  <1> QED BY <1>1, Invariance, PTL

\* A field that was confident, not found or reported by pass 1 only is in the row as the
\* first two passes left it, whatever the third pass reported.
THEOREM ThirdPassDisturbsNothing == SafetySpec => []ConfidentUndisturbed
  <1>1. IInv => ConfidentUndisturbed
    <2> SUFFICES ASSUME IInv, Persisted, NEW f \in DOMAIN TwoPasses, ~IsWeak(TwoPasses, f)
                 PROVE  f \in DOMAIN row.data /\ row.data[f] = TwoPasses[f]
      BY DEF ConfidentUndisturbed
    <2>1. row.data = Extracted
      BY DEF IInv, RowAsComputed
    <2>2. f \notin DOMAIN Only(answered[3], Weak(TwoPasses))
      BY DEF Only, Weak
    <2> QED BY <2>1, <2>2 DEF Extracted, Merge
  <1> QED BY <1>1, Invariance, PTL

\* The cost in the row is that of all responses of the attempt and the sum over the records.
THEOREM CostIsRecorded == SafetySpec => []CostRecorded
  <1>1. IInv => CostRecorded
    <2> SUFFICES ASSUME IInv, Persisted
                 PROVE  row.cost = SumFunction(Costs(raws)) /\ row.cost = SumFunction(Costs(row.records))
      BY DEF CostRecorded
    <2>1. row.cost = cost /\ row.records = records
      BY DEF IInv, RowAsComputed
    <2>2. DOMAIN Costs(raws) = 1..Len(raws) /\ DOMAIN Costs(records) = 1..Len(records)
      <3>1. records \in Seq(RecordType) /\ raws \in Seq(RawType)
        BY SequencesTyped DEF IInv
      <3> QED BY <3>1 DEF Costs
    <2>3. SumFunction(Costs(raws)) = Total(raws) /\ SumFunction(Costs(records)) = Total(records)
      BY <2>2 DEF SumFunction, SumFunctionOnSet, FoldFunction, FoldFunctionOnSet, Total
    <2> QED BY <2>1, <2>3 DEF IInv, CostsAddUp
  <1> QED BY <1>1, Invariance, PTL

\* Each response of the attempt is found under its recorded key, which names the pass and
\* the model that gave it, and nothing else is: not what an earlier attempt stored.
THEOREM ResponsesAreKept == SafetySpec => []ResponsesKept
  <1>1. IInv => ResponsesKept
    <2> SUFFICES ASSUME IInv, Persisted PROVE ResponsesKept
      BY DEF ResponsesKept
    <2>1. row.keys = keys /\ Len(keys) = Len(raws)
      BY DEF IInv, RowAsComputed
    <2>2. DOMAIN keys = DOMAIN raws
      <3>1. keys \in Seq(Keys) /\ raws \in Seq(RawType)
        BY TypeParts DEF IInv, RunTyped
      <3> QED BY <2>1, <3>1
    <2>3. \A k \in DOMAIN keys : keys[k] = KeyFor(raws[k].call) /\ Entries(bucket, keys[k]) = {<<keys[k], raws[k].call>>}
      BY DEF IInv, StoredUnderKey, Persisted
    <2>4. \A k \in DOMAIN raws : raws[k].call.attempt = attempt
      BY DEF IInv, CallsInOrder
    <2> QED BY <2>1, <2>2, <2>3, <2>4 DEF ResponsesKept, Entries, KeyFor
  <1> QED BY <1>1, Invariance, PTL

\* show_camaudit does not depend on the lease: a lease without audit rights has flag 2.
LEMMA AlwaysShown == \A d, scores : ShowCamAudit(RedFlags(d), d, scores)
  <1> SUFFICES ASSUME NEW d, NEW scores PROVE ShowCamAudit(RedFlags(d), d, scores)
    OBVIOUS
  <1>1. CASE ~NoAuditRights(d)
    BY <1>1, Zenon DEF ShowCamAudit, NoAuditRights
  <1>2. CASE NoAuditRights(d)
    <2>1. Triggered(2, d)
      BY <1>2 DEF Triggered
    <2>2. 2 \in RedFlags(d) /\ 2 \in CamRules
      BY <2>1 DEF RedFlags, CamRules
    <2> QED BY <2>2 DEF ShowCamAudit
  <1> QED BY <1>1, <1>2

\* No lease without CAM flags is spared the CAMAudit banner, whatever the passes reported of
\* it and however it was scored: that HiddenWithoutCamRisk fails is not the fault of a lease.
THEOREM ShownWithoutCamRisk ==
  SafetySpec => [](phase = "done" /\ row.flags \cap CamRules = {} => row.show)
  <1>1. IInv => (phase = "done" /\ row.flags \cap CamRules = {} => row.show)
    <2>1. IInv /\ phase = "done" => row.show = ShowCamAudit(RedFlags(Values), Values, row.scores)
      BY DEF IInv, RowAsComputed
    <2> QED BY <2>1, AlwaysShown
  <1> QED BY <1>1, Invariance, PTL

------------------------------------------------------------------------------
(* Shares                                                                  *)

\* A reported share, and how it is read
ExactShare(v) == v > 1000 => v % 100 = 0
ReadShare(v) == IF v > 1000 /\ v <= 100000 THEN v \div 100 ELSE v

\* A ratio is closer to the areas as a ratio, a percentage as a percentage.
LEMMA ConsistentAsRatio ==
  ASSUME NEW s \in Int, NEW t \in Nat \ {0}, NEW b \in Int, s * b = t * 1000
  PROVE  ~Inconsistent(s, t, b)
  <1>1. Distance(s * b, t * 1000) = 0 /\ Distance(s * b, t * 100000) = t * 99000
    BY DEF Distance
  <1>2. 0 < t * 99000 /\ ~(50 * 0 > t * 1000)
    OBVIOUS
  <1> QED BY <1>1, <1>2 DEF Inconsistent

LEMMA ConsistentAsPercent ==
  ASSUME NEW s \in Int, NEW t \in Nat \ {0}, NEW b \in Int, s * b = t * 100000
  PROVE  ~Inconsistent(s, t, b)
  <1>1. Distance(s * b, t * 1000) = t * 99000 /\ Distance(s * b, t * 100000) = 0
    BY DEF Distance
  <1>2. ~(t * 99000 < 0) /\ ~(50 * 0 > t * 100000)
    OBVIOUS
  <1> QED BY <1>1, <1>2 DEF Inconsistent

\* A share of at most the whole building is at most 1, or 100 per cent.
LEMMA ShareBounded ==
  ASSUME NEW s \in Int, NEW b \in Nat \ {0}, NEW t \in 1..b, NEW k \in Nat, s * b = t * k
  PROVE  s <= k
  <1> SUFFICES ASSUME s >= k + 1 PROVE FALSE
    OBVIOUS
  <1>1. s - (k + 1) \in Nat /\ b - t \in Nat
    OBVIOUS
  <1>2. \A x, y \in Nat : x * y \in Nat
    OBVIOUS
  <1>3. (s - (k + 1)) * b >= 0 /\ (b - t) * k >= 0
    BY <1>1, <1>2
  <1>4. (s - (k + 1)) * b = s * b - k * b - b /\ (b - t) * k = b * k - t * k
    OBVIOUS
  <1> QED BY <1>3, <1>4

LEMMA ReadShareConsistent ==
  ASSUME NEW s \in Int, ExactShare(s), NEW b \in Nat \ {0}, NEW t \in 1..b,
         s * b \in {t * 1000, t * 100000}
  PROVE  ~Inconsistent(ReadShare(s), t, b)
  <1>1. CASE s * b = t * 1000
    <2>1. s <= 1000
      BY <1>1, ShareBounded
    <2>2. ReadShare(s) = s
      BY <2>1 DEF ReadShare
    <2> QED BY <1>1, <2>2, ConsistentAsRatio
  <1>2. CASE s * b = t * 100000 /\ s <= 1000
    <2>1. ReadShare(s) = s
      BY <1>2 DEF ReadShare
    <2> QED BY <1>2, <2>1, ConsistentAsPercent
  <1>3. CASE s * b = t * 100000 /\ s > 1000
    <2>1. s <= 100000
      BY <1>3, ShareBounded
    <2> DEFINE q == s \div 100
    <2>2. q \in Int /\ s = 100 * q
      BY <1>3 DEF ExactShare
    <2>3. ReadShare(s) = q
      BY <1>3, <2>1 DEF ReadShare
    <2> HIDE DEF q
    <2>4. q * b = t * 1000
      <3>1. (100 * q) * b = 100 * (q * b)
        BY <2>2
      <3> QED BY <1>3, <2>2, <3>1
    <2> QED BY <2>2, <2>3, <2>4, ConsistentAsRatio
  <1> QED BY <1>1, <1>2, <1>3

Areas == {"rentable_square_footage", "building_total_rsf"}

\* A field of an answer as far as shares are concerned
FieldExact(f, x) ==
  /\ f \in Areas \cup {"pro_rata_share"} => x.value = NONE \/ x.value \in Int
  /\ f = "pro_rata_share" /\ x.value # NONE => ExactShare(x.value)

\* ext is what is read of the reported fields.
Matches(ext, reported) ==
  /\ DOMAIN ext = DOMAIN reported
  /\ \A f \in DOMAIN ext :
       ext[f].value = ReadValue(f, reported[f].value) /\ FieldExact(f, reported[f])

LEMMA MatchesNothing == Matches(Nothing, Nothing)
  BY DEF Matches, Nothing

LEMMA MatchesRead == \A answer \in Answers : Matches(Read(answer), answer)
  <1> SUFFICES ASSUME NEW answer \in Answers PROVE Matches(Read(answer), answer)
    OBVIOUS
  <1>1. DOMAIN Read(answer) = DOMAIN answer
    BY DEF Read
  <1>2. \A f \in DOMAIN answer : Read(answer)[f].value = ReadValue(f, answer[f].value)
    BY DEF Read
  <1>3. \A f \in DOMAIN answer : FieldExact(f, answer[f])
    BY AnswersAssumption DEF FieldExact, ExactShare, Areas
  <1> QED BY <1>1, <1>2, <1>3 DEF Matches

LEMMA MatchesMerge ==
  ASSUME NEW a, NEW r, Matches(a, r), NEW b, NEW s, Matches(b, s)
  PROVE  Matches(Merge(a, b), Merge(r, s))
  BY DEF Matches, Merge

LEMMA MatchesOnly ==
  ASSUME NEW a, NEW r, Matches(a, r), NEW F
  PROVE  Matches(Only(a, F), Only(r, F))
  BY DEF Matches, Only

\* Each pass either reported nothing or has been read from one answer.
LEMMA AnswersRead ==
  ASSUME IInv, NEW p \in 1..3
  PROVE  \/ answered[p] = Nothing /\ Reported(p) = Nothing
         \/ \E answer \in Answers : answered[p] = Read(answer) /\ Reported(p) = answer
  <1>1. raws \in Seq(RawType)
    BY SequencesTyped DEF IInv
  <1>2. Reported(p) = IF Readable(raws, p) = {} THEN Nothing
                      ELSE raws[CHOOSE i \in Readable(raws, p) : TRUE].text
    BY DEF Reported, Readable
  <1>3. CASE Readable(raws, p) = {} /\ answered[p] = Nothing
    BY <1>2, <1>3
  <1>4. CASE \E i \in DOMAIN raws : Readable(raws, p) = {i} /\ answered[p] = Read(raws[i].text)
    <2>1. PICK i \in DOMAIN raws : Readable(raws, p) = {i} /\ answered[p] = Read(raws[i].text)
      BY <1>4
    <2>2. (CHOOSE j \in Readable(raws, p) : TRUE) = i
      BY <2>1
    <2>3. Reported(p) = raws[i].text
      BY <1>2, <2>1, <2>2
    <2>4. raws[i].text \in Answers
      <3>1. raws[i] \in RawType /\ i \in Readable(raws, p)
        BY <1>1, <2>1
      <3> QED BY <3>1 DEF RawType, Readable
    <2> QED BY <2>1, <2>3, <2>4
  <1> QED BY <1>3, <1>4 DEF IInv, ReadOnce

LEMMA ReportedMatches == IInv => \A p \in 1..3 : Matches(answered[p], Reported(p))
  BY AnswersRead, MatchesRead, MatchesNothing

\* Whether it was reported as a ratio or as percent, a share that is tenant / building is
\* not penalised: it is read and checked as it was meant, for all areas and all shares.
THEOREM ShareIsReadEitherWay == SafetySpec => []ShareReadEitherWay
  <1>1. IInv => ShareReadEitherWay
    <2> SUFFICES ASSUME IInv, Persisted PROVE ShareReadEitherWay
      BY DEF ShareReadEitherWay
    <2> DEFINE reported == Merge(Merge(Reported(1), Reported(2)), Only(Reported(3), Weak(TwoPasses)))
               share    == Value(reported, "pro_rata_share")
               tenant   == Value(reported, "rentable_square_footage")
               building == Value(reported, "building_total_rsf")
    <2>1. Matches(Extracted, reported)
      <3>1. Matches(TwoPasses, Merge(Reported(1), Reported(2)))
        BY ReportedMatches, MatchesMerge DEF TwoPasses
      <3>2. Matches(Only(answered[3], Weak(TwoPasses)), Only(Reported(3), Weak(TwoPasses)))
        BY ReportedMatches, MatchesOnly
      <3> QED BY <3>1, <3>2, MatchesMerge DEF Extracted
    <2>2. row.data = Extracted
      BY DEF IInv, RowAsComputed
    <2> HIDE DEF reported
    <2> SUFFICES ASSUME NONE \notin {share, tenant, building}, tenant \in 1..building,
                        share * building \in {tenant * 1000, tenant * 100000}
                 PROVE  ProRataPenalties(row.data) = {}
      BY DEF ShareReadEitherWay, reported
    <2>3. /\ share = reported["pro_rata_share"].value /\ "pro_rata_share" \in DOMAIN reported
          /\ tenant = reported["rentable_square_footage"].value /\ "rentable_square_footage" \in DOMAIN reported
          /\ building = reported["building_total_rsf"].value /\ "building_total_rsf" \in DOMAIN reported
      BY DEF Value
    <2>4. share \in Int /\ tenant \in Int /\ building \in Int /\ ExactShare(share)
      BY <2>1, <2>3 DEF Matches, FieldExact, Areas
    <2>5. /\ Value(row.data, "pro_rata_share") = ReadValue("pro_rata_share", share)
          /\ Value(row.data, "rentable_square_footage") = ReadValue("rentable_square_footage", tenant)
          /\ Value(row.data, "building_total_rsf") = ReadValue("building_total_rsf", building)
      BY <2>1, <2>2, <2>3 DEF Matches, Value
    <2> HIDE DEF share, tenant, building
    <2>6. /\ ReadValue("pro_rata_share", share) = ReadShare(share)
          /\ ReadValue("rentable_square_footage", tenant) = tenant
          /\ ReadValue("building_total_rsf", building) = building
      BY DEF ReadValue, ReadShare, Percentages
    <2>7. building \in Nat \ {0}
      BY <2>4
    <2>8. ~Inconsistent(ReadShare(share), tenant, building)
      BY <2>4, <2>7, ReadShareConsistent
    <2> QED BY <2>5, <2>6, <2>8 DEF ProRataPenalties
  <1> QED BY <1>1, Invariance, PTL

------------------------------------------------------------------------------
(* The overall score                                                       *)

\* Rounded half up, a quotient stays between the bounds of what is divided.
LEMMA QuotientBetween ==
  ASSUME NEW lo \in Int, NEW hi \in Int, NEW w \in Int, NEW n \in Nat \ {0}, lo * n <= w, w <= hi * n
  PROVE  /\ (2 * w + n) \div (2 * n) \in Int
         /\ lo <= (2 * w + n) \div (2 * n) /\ (2 * w + n) \div (2 * n) <= hi
  <1> DEFINE a == 2 * w + n
             d == 2 * n
             q == a \div d
  <1>1. a \in Int /\ d \in Nat \ {0} /\ q \in Int
    OBVIOUS
  <1>2. q * d <= a /\ a < q * d + d
    <2>1. \A x \in Int, y \in Nat \ {0} : (x \div y) * y <= x /\ x < (x \div y) * y + y
      OBVIOUS
    <2> HIDE DEF a, d
    <2> QED BY <1>1, <2>1
  <1> HIDE DEF q
  <1>3. \A x, y \in Nat : x * y \in Nat
    OBVIOUS
  <1>4. lo <= q
    <2> SUFFICES ASSUME lo - q - 1 \in Nat PROVE FALSE
      BY <1>1
    <2>1. (lo - q - 1) * d >= 0
      BY <1>1, <1>3
    <2>2. (lo - q - 1) * d = 2 * (lo * n) - q * d - d
      BY <1>1
    <2> QED BY <1>1, <1>2, <2>1, <2>2
  <1>5. q <= hi
    <2> SUFFICES ASSUME q - hi - 1 \in Nat PROVE FALSE
      BY <1>1
    <2>1. (q - hi - 1) * d >= 0
      BY <1>1, <1>3
    <2>2. (q - hi - 1) * d = q * d - 2 * (hi * n) - d
      BY <1>1
    <2> QED BY <1>1, <1>2, <2>1, <2>2
  <1> QED BY <1>1, <1>4, <1>5 DEF q

\* One of the values of a function on a finite set is the lowest, one the highest.
LEMMA Extremes ==
  ASSUME NEW S, IsFiniteSet(S), S # {}, NEW g, Numeric(g, S)
  PROVE  /\ \E x \in S : \A y \in S : g[x] <= g[y]
         /\ \E x \in S : \A y \in S : g[y] <= g[x]
  <1> DEFINE Low(T) == T = {} \/ \E x \in T : \A y \in T : g[x] <= g[y]
             High(T) == T = {} \/ \E x \in T : \A y \in T : g[y] <= g[x]
             G == {T \in SUBSET S : Low(T) /\ High(T)}
  <1>1. {} \in G
    OBVIOUS
  <1>2. ASSUME NEW T \in SUBSET S, NEW z \in S, T \in G, z \notin T PROVE T \cup {z} \in G
    <2>1. \A x \in T \cup {z} : g[x] \in Int
      BY DEF Numeric
    <2>2. Low(T \cup {z})
      <3>1. CASE T = {}
        BY <2>1, <3>1
      <3>2. CASE T # {}
        <4>1. PICK x \in T : \A y \in T : g[x] <= g[y]
          BY <1>2, <3>2
        <4>2. CASE g[x] <= g[z]
          BY <4>1, <4>2
        <4>3. CASE ~(g[x] <= g[z])
          <5>1. \A y \in T \cup {z} : g[z] <= g[y]
            BY <2>1, <4>1, <4>3
          <5> QED BY <5>1
        <4> QED BY <4>2, <4>3
      <3> QED BY <3>1, <3>2
    <2>3. High(T \cup {z})
      <3>1. CASE T = {}
        BY <2>1, <3>1
      <3>2. CASE T # {}
        <4>1. PICK x \in T : \A y \in T : g[y] <= g[x]
          BY <1>2, <3>2
        <4>2. CASE g[z] <= g[x]
          BY <4>1, <4>2
        <4>3. CASE ~(g[z] <= g[x])
          <5>1. \A y \in T \cup {z} : g[y] <= g[z]
            BY <2>1, <4>1, <4>3
          <5> QED BY <5>1
        <4> QED BY <4>2, <4>3
      <3> QED BY <3>1, <3>2
    <2> HIDE DEF Low, High
    <2> QED BY <2>2, <2>3
  <1> HIDE DEF G
  <1>3. \A T \in SUBSET S : T \in G
    BY <1>1, <1>2, SubsetInduction
  <1> QED BY <1>3 DEF G

\* A weighted sum lies between the lowest and the highest value times the weights.
LEMMA WeightedBetween ==
  ASSUME NEW S, IsFiniteSet(S), NEW g, Numeric(g, S), NEW wt, \A f \in S : wt[f] \in Nat \ {0},
         NEW gw, \A f \in S : gw[f] = g[f] * wt[f],
         NEW lo \in Int, NEW hi \in Int, \A f \in S : lo <= g[f] /\ g[f] <= hi
  PROVE  /\ SumFunctionOnSet(gw, S) \in Int /\ SumFunctionOnSet(wt, S) \in Nat
         /\ lo * SumFunctionOnSet(wt, S) <= SumFunctionOnSet(gw, S)
         /\ SumFunctionOnSet(gw, S) <= hi * SumFunctionOnSet(wt, S)
         /\ S # {} => SumFunctionOnSet(wt, S) # 0
  <1> DEFINE W(T) == SumFunctionOnSet(gw, T)
             N(T) == SumFunctionOnSet(wt, T)
             Between(T) == /\ W(T) \in Int /\ N(T) \in Nat /\ (T # {} => N(T) # 0)
                           /\ lo * N(T) <= W(T) /\ W(T) <= hi * N(T)
             G == {T \in SUBSET S : Between(T)}
  <1>1. {} \in G
    <2>1. W({}) = 0 /\ N({}) = 0
      BY SumOfNothing
    <2> HIDE DEF W, N
    <2> QED BY <2>1
  <1>2. ASSUME NEW T \in SUBSET S, NEW x \in S, T \in G, x \notin T PROVE T \cup {x} \in G
    <2>1. g[x] \in Int /\ wt[x] \in Nat \ {0} /\ gw[x] = g[x] * wt[x] /\ lo <= g[x] /\ g[x] <= hi
      BY DEF Numeric
    <2>2. IsFiniteSet(T) /\ Numeric(gw, T \cup {x}) /\ Numeric(wt, T \cup {x})
      <3>1. IsFiniteSet(T)
        BY FS_Subset
      <3>2. \A f \in S : gw[f] \in Int /\ wt[f] \in Int
        BY DEF Numeric
      <3> QED BY <3>1, <3>2 DEF Numeric
    <2>3. W(T \cup {x}) = W(T) + gw[x] /\ N(T \cup {x}) = N(T) + wt[x]
      BY <1>2, <2>2, SumAdd
    <2>4. Between(T)
      BY <1>2
    <2> HIDE DEF W, N
    <2>5. lo * wt[x] <= gw[x] /\ gw[x] <= hi * wt[x]
      <3>1. \A a, b \in Nat : a * b >= 0
        OBVIOUS
      <3>2. (g[x] - lo) * wt[x] >= 0 /\ (hi - g[x]) * wt[x] >= 0
        BY <2>1, <3>1
      <3> QED BY <2>1, <3>2
    <2>6. Between(T \cup {x})
      <3>1. lo * (N(T) + wt[x]) = lo * N(T) + lo * wt[x] /\ hi * (N(T) + wt[x]) = hi * N(T) + hi * wt[x]
        BY <2>1, <2>4
      <3> QED BY <2>1, <2>3, <2>4, <2>5, <3>1
    <2> HIDE DEF Between
    <2> QED BY <2>6
  <1> HIDE DEF G
  <1>3. \A T \in SUBSET S : T \in G
    BY <1>1, <1>2, SubsetInduction
  <1> QED BY <1>3 DEF G

LEMMA ConfidenceNormal == \A c \in Int : NormalConfidence(c) \in 0..100
  BY DEF NormalConfidence

LEMMA PenalisedType == \A score \in Int, n \in 0..3 : Penalised(score, n) \in Int
  <1> SUFFICES ASSUME NEW score \in Int, NEW n \in 0..3 PROVE Penalised(score, n) \in Int
    OBVIOUS
  <1>1. n = 0 \/ n = 1 \/ n = 2 \/ n = 3
    OBVIOUS
  <1> QED BY <1>1 DEF Penalised

LEMMA PenaltiesCounted == \A ext, f : TimesPenalised(ext, f) \in 0..3
  <1> SUFFICES ASSUME NEW ext, NEW f PROVE TimesPenalised(ext, f) \in 0..3
    OBVIOUS
  <1> DEFINE P == {i \in 1..3 : f \in Penalties(ext)[i]}
  <1>1. P \subseteq 1..3
    OBVIOUS
  <1> HIDE DEF P
  <1>2. IsFiniteSet(1..3) /\ Cardinality(1..3) = 3
    <2>1. 1 \in Int /\ 3 \in Int
      OBVIOUS
    <2>2. IsFiniteSet(1..3) /\ Cardinality(1..3) = IF 1 > 3 THEN 0 ELSE 3 - 1 + 1
      BY <2>1, FS_Interval, Zenon
    <2> QED BY <2>2
  <1>3. Cardinality(P) \in Nat /\ Cardinality(P) <= 3
    BY <1>1, <1>2, FS_Subset, FS_CardinalityType
  <1> QED BY <1>3 DEF TimesPenalised, P

\* Every confidence that was read is one.
Confident(ext) == \A f \in DOMAIN ext : ext[f].conf \in Int

LEMMA ExtractedConfident ==
  ASSUME IInv
  PROVE  Confident(Extracted)
  <1>1. \A answer \in Answers : Confident(Read(answer))
    BY AnswersAssumption, ConfidenceNormal DEF Confident, Read
  <1>2. Confident(Nothing)
    BY DEF Confident, Nothing
  <1>3. ASSUME NEW p \in 1..3 PROVE Confident(answered[p])
    BY <1>1, <1>2, AnswersRead
  <1>4. \A a, b : Confident(a) /\ Confident(b) => Confident(Merge(a, b))
    BY DEF Confident, Merge
  <1>5. \A a, F : Confident(a) => Confident(Only(a, F))
    BY DEF Confident, Only
  <1> QED BY <1>3, <1>4, <1>5 DEF Extracted, TwoPasses

LEMMA ScoresType ==
  ASSUME NEW ext, Confident(ext)
  PROVE  IsFiniteSet(DOMAIN Scores(ext)) /\ \A f \in DOMAIN Scores(ext) : Scores(ext)[f].score \in Int
  <1>1. DOMAIN Scores(ext) = DOMAIN ext \cap Registered
    BY DEF Scores
  <1>2. IsFiniteSet(DOMAIN ext \cap Registered)
    BY AnswersAssumption, FS_Subset
  <1>3. ASSUME NEW f \in DOMAIN ext \cap Registered PROVE Scores(ext)[f].score \in Int
    <2>1. 100 * ext[f].conf \in Int
      BY DEF Confident
    <2>2. Penalised(100 * ext[f].conf, TimesPenalised(ext, f)) \in Int
      BY <2>1, PenaltiesCounted, PenalisedType
    <2>3. CASE ext[f].value = NONE
      BY <2>3 DEF Scores
    <2>4. CASE ext[f].value # NONE
      BY <2>2, <2>4 DEF Scores
    <2> QED BY <2>3, <2>4
  <1> QED BY <1>1, <1>2, <1>3

LEMMA WeightType == \A f : Weight(f) \in Nat \ {0}
  BY DEF Weight

FoundIn(scores) == {f \in DOMAIN scores : scores[f].tier # "not_found"}

LEMMA OverallIsBetween ==
  ASSUME NEW scores, IsFiniteSet(DOMAIN scores), \A f \in DOMAIN scores : scores[f].score \in Int,
         FoundIn(scores) # {}
  PROVE  /\ \E f \in FoundIn(scores) : scores[f].score <= Overall(scores).score
         /\ \E f \in FoundIn(scores) : Overall(scores).score <= scores[f].score
  <1> DEFINE S == FoundIn(scores)
             g == [f \in S |-> scores[f].score]
             wt == [f \in S |-> Weight(f)]
             gw == [f \in S |-> scores[f].score * Weight(f)]
             W == SumFunctionOnSet(gw, S)
             N == SumFunctionOnSet(wt, S)
  <1>1. IsFiniteSet(S) /\ Numeric(g, S)
    <2>1. S \subseteq DOMAIN scores
      BY DEF FoundIn
    <2> QED BY <2>1, FS_Subset DEF Numeric
  <1>2. (\A f \in S : wt[f] \in Nat \ {0}) /\ \A f \in S : gw[f] = g[f] * wt[f]
    BY WeightType
  <1>3. SumFunction(gw) = W /\ SumFunction(wt) = N
    BY DEF SumFunction, SumFunctionOnSet, FoldFunction, FoldFunctionOnSet
  <1>4. Overall(scores).score = IF N = 0 THEN 0 ELSE (2 * W + N) \div (2 * N)
    <2> HIDE DEF W, N
    <2>1. SumFunction([f \in {k \in DOMAIN scores : scores[k].tier # "not_found"} |-> scores[f].score * Weight(f)]) = W
      BY <1>3 DEF FoundIn
    <2>2. SumFunction([f \in {k \in DOMAIN scores : scores[k].tier # "not_found"} |-> Weight(f)]) = N
      BY <1>3 DEF FoundIn
    <2> QED BY <2>1, <2>2 DEF Overall
  <1>5. \A f \in S : g[f] = scores[f].score
    OBVIOUS
  <1> HIDE DEF S, g, wt, gw, W, N
  <1>6. PICK x \in S : \A f \in S : g[x] <= g[f]
    BY <1>1, Extremes DEF S
  <1>7. PICK y \in S : \A f \in S : g[f] <= g[y]
    BY <1>1, Extremes DEF S
  <1>8. g[x] \in Int /\ g[y] \in Int
    BY <1>1, <1>6, <1>7 DEF Numeric
  <1>9. W \in Int /\ N \in Nat \ {0} /\ g[x] * N <= W /\ W <= g[y] * N
    <2>1. /\ W \in Int /\ N \in Nat /\ (S # {} => N # 0)
          /\ g[x] * N <= W /\ W <= g[y] * N
      BY <1>1, <1>2, <1>6, <1>7, <1>8, WeightedBetween DEF W, N
    <2> QED BY <2>1 DEF S
  <1>10. g[x] <= (2 * W + N) \div (2 * N) /\ (2 * W + N) \div (2 * N) <= g[y]
    BY <1>8, <1>9, QuotientBetween
  <1>11. Overall(scores).score = (2 * W + N) \div (2 * N)
    BY <1>4, <1>9
  <1> QED BY <1>5, <1>6, <1>7, <1>10, <1>11 DEF S

\* The overall score of the row lies between the scores of the fields that were found.
THEOREM OverallIsMean == SafetySpec => []OverallBetween
  <1>1. IInv => OverallBetween
    <2> SUFFICES ASSUME IInv, phase = "done", FoundIn(row.scores) # {}
                 PROVE  /\ \E f \in FoundIn(row.scores) : row.scores[f].score <= row.overall.score
                        /\ \E f \in FoundIn(row.scores) : row.overall.score <= row.scores[f].score
      BY DEF OverallBetween, FoundIn
    <2>1. row.overall = Overall(row.scores) /\ row.scores = Scores(Extracted)
      BY DEF IInv, RowAsComputed, Persisted
    <2>2. IsFiniteSet(DOMAIN row.scores) /\ \A f \in DOMAIN row.scores : row.scores[f].score \in Int
      BY <2>1, ExtractedConfident, ScoresType
    <2> QED BY <2>1, <2>2, OverallIsBetween
  <1> QED BY <1>1, Invariance, PTL

------------------------------------------------------------------------------
(* Every step brings the workflow nearer to its end                        *)

Lengths == [p \in 1..3 |-> Len(Chain[p])]
AllCalls == Lengths[1] + Lengths[2] + Lengths[3]

\* How many models come before the n-th of pass p, and before the next one
Place(p, n) == n - 1 + (IF p = 1 THEN 0 ELSE IF p = 2 THEN Lengths[1] ELSE Lengths[1] + Lengths[2])
Position == Place(pass, turn)

\* The number of steps that are left in this attempt, at most
LeftInAttempt ==
  IF phase = "asking" THEN 2 * AllCalls - Position + 3
  ELSE IF phase = "storing" THEN Len(raws) - Len(keys) + 3
  ELSE IF phase = "persisted" THEN 2
  ELSE IF phase = "scored" THEN 1
  ELSE 0

\* Those of the attempts to come included
Remaining == (Retries - attempt) * (2 * AllCalls + 3) + LeftInAttempt

\* Every call gives at most one response.
ResponsesBounded ==
  /\ phase = "asking" => Len(raws) <= Position
  /\ Len(raws) <= AllCalls

LEMMA LengthsType == Lengths[1] \in Nat /\ Lengths[2] \in Nat /\ Lengths[3] \in Nat /\ AllCalls \in Nat
  <1>1. \A p \in 1..3 : Lengths[p] \in Nat
    BY ChainType DEF Lengths
  <1>2. 1 \in 1..3 /\ 2 \in 1..3 /\ 3 \in 1..3
    OBVIOUS
  <1> QED BY <1>1, <1>2 DEF AllCalls

LEMMA PlaceType ==
  ASSUME NEW p \in 1..3, NEW n \in DOMAIN Chain[p]
  PROVE  Place(p, n) \in Nat /\ Place(p, n) < AllCalls
  <1>1. n \in 1..Lengths[p]
    BY ChainType DEF Lengths
  <1>2. p = 1 \/ p = 2 \/ p = 3
    OBVIOUS
  <1> QED BY <1>1, <1>2, LengthsType DEF Place, AllCalls

LEMMA PositionType ==
  /\ TypeOK => Position \in Nat /\ Position < AllCalls
  /\ TypeOK' => Position' \in Nat /\ Position' < AllCalls
  BY TypeParts, PlaceType DEF RunTyped, Position

LEMMA ResponsesBoundedInit == Init => ResponsesBounded
  <1> SUFFICES ASSUME Init PROVE ResponsesBounded
    OBVIOUS
  <1>1. Len(raws) = 0 /\ Position = 0
    BY DEF Init, Position, Place
  <1> QED BY <1>1, LengthsType DEF ResponsesBounded

\* Where the step that follows a call leads
LEMMA Turns ==
  ASSUME TypeOK, turn' = turn + 1, pass' = pass
  PROVE  Position' = Position + 1
  <1>1. pass \in 1..3 /\ turn \in DOMAIN Chain[pass]
    BY TypeParts DEF RunTyped
  <1>2. turn \in Nat
    BY <1>1, ChainType
  <1> DEFINE before == IF pass = 1 THEN 0 ELSE IF pass = 2 THEN Lengths[1] ELSE Lengths[1] + Lengths[2]
  <1>3. before \in Nat /\ Position = turn - 1 + before /\ Position' = turn' - 1 + before
    BY LengthsType DEF Position, Place
  <1> HIDE DEF before
  <1> QED BY <1>2, <1>3

LEMMA PassEnds ==
  ASSUME TypeOK, pass \in {1, 2}, pass' = pass + 1, turn' = 1
  PROVE  Position' \in Nat /\ Position' >= Position + 1
  <1>1. turn \in 1..Lengths[pass]
    BY TypeParts, ChainType DEF RunTyped, Lengths
  <1>2. CASE pass = 1
    BY <1>1, <1>2, LengthsType DEF Position, Place
  <1>3. CASE pass = 2
    BY <1>1, <1>3, LengthsType DEF Position, Place
  <1> QED BY <1>2, <1>3

\* The kinds of steps there are
AsksAgain ==
  /\ phase = "asking" /\ phase' = "asking" /\ attempt' = attempt
  /\ Len(raws') \in {Len(raws), Len(raws) + 1} /\ Position' \in Nat /\ Position' >= Position + 1
StopsAsking ==
  phase = "asking" /\ phase' = "storing" /\ attempt' = attempt /\ Len(raws') = Len(raws) + 1 /\ keys' = <<>>
StoresOne ==
  /\ phase = "storing" /\ phase' = "storing" /\ attempt' = attempt /\ raws' = raws
  /\ Len(keys') = Len(keys) + 1
Records ==
  /\ attempt' = attempt /\ UNCHANGED run
  /\ <<phase, phase'>> \in {<<"storing", "persisted">>, <<"persisted", "scored">>, <<"scored", "done">>}

LEMMA StepKinds ==
  ASSUME IInv, Next
  PROVE  (Throw /\ phase \in {"asking", "storing"}) \/ AsksAgain \/ StopsAsking \/ StoresOne \/ Records
  <1>1. TypeOK /\ raws \in Seq(RawType) /\ keys \in Seq(Keys) /\ (phase = "asking" => keys = <<>>)
    BY TypeParts DEF IInv, RunTyped, StoredUnderKey
  <1>2. Position \in Nat
    BY <1>1, PositionType
  <1>3. CASE CallFails
    <2>1. CASE ~(turn < Len(Chain[pass]))
      BY <1>3, <2>1 DEF CallFails, NextModel, Asking
    <2>2. CASE turn < Len(Chain[pass])
      <3>1. /\ phase = "asking" /\ phase' = "asking" /\ attempt' = attempt /\ raws' = raws
            /\ turn' = turn + 1 /\ pass' = pass
        BY <1>3, <2>2 DEF CallFails, NextModel, Asking
      <3>2. Position' = Position + 1
        BY <1>1, <3>1, Turns
      <3> QED BY <1>2, <3>1, <3>2 DEF AsksAgain
    <2> QED BY <2>1, <2>2
  <1>4. ASSUME NEW price \in Prices, Unreadable(price)
        PROVE  (Throw /\ phase \in {"asking", "storing"}) \/ AsksAgain
    <2>1. CASE ~(turn < Len(Chain[pass]))
      BY <1>4, <2>1 DEF Unreadable, NextModel, Asking
    <2>2. CASE turn < Len(Chain[pass])
      <3> DEFINE x == [call |-> Call, cost |-> price, text |-> NONE]
      <3>1. /\ phase = "asking" /\ phase' = "asking" /\ attempt' = attempt /\ raws' = Append(raws, x)
            /\ turn' = turn + 1 /\ pass' = pass
        BY <1>4, <2>2 DEF Unreadable, NextModel, Asking
      <3> HIDE DEF x
      <3>2. Position' = Position + 1
        BY <1>1, <3>1, Turns
      <3>3. Len(raws') = Len(raws) + 1
        BY <1>1, <3>1
      <3> QED BY <1>2, <3>1, <3>2, <3>3 DEF AsksAgain
    <2> QED BY <2>1, <2>2
  <1>5. ASSUME NEW price \in Prices, NEW answer \in Answers, Answered(answer, price)
        PROVE  AsksAgain \/ StopsAsking
    <2> DEFINE x == [call |-> Call, cost |-> price, text |-> answer]
    <2>1. /\ phase = "asking" /\ attempt' = attempt /\ raws' = Append(raws, x) /\ keys' = keys /\ NextPass
      BY <1>5 DEF Answered, Asking
    <2> HIDE DEF x
    <2>2. Len(raws') = Len(raws) + 1
      BY <1>1, <2>1
    <2>3. CASE phase' = phase /\ pass \in {1, 2} /\ pass' = pass + 1 /\ turn' = 1
      <3>1. Position' \in Nat /\ Position' >= Position + 1
        BY <1>1, <2>3, PassEnds
      <3> QED BY <2>1, <2>2, <2>3, <3>1 DEF AsksAgain
    <2>4. CASE phase' = "storing"
      BY <1>1, <2>1, <2>2, <2>4 DEF StopsAsking
    <2> QED BY <1>1, <2>1, <2>3, <2>4, NextPassCases
  <1>6. CASE StoreRaw
    <2> DEFINE k == KeyOf(Len(keys) + 1)
    <2>1. /\ phase = "storing" /\ phase' = phase /\ attempt' = attempt /\ raws' = raws
          /\ keys' = Append(keys, k)
      BY <1>6 DEF StoreRaw
    <2> HIDE DEF k
    <2>2. Len(keys') = Len(keys) + 1
      BY <1>1, <2>1
    <2> QED BY <2>1, <2>2 DEF StoresOne
  <1>7. CASE StoreFails
    BY <1>7 DEF StoreFails
  <1>8. CASE PersistResult \/ ScoreConfidence \/ DetectRedFlags
    BY <1>8 DEF PersistResult, ScoreConfidence, DetectRedFlags, Records
  <1> QED BY <1>3, <1>4, <1>5, <1>6, <1>7, <1>8 DEF Next

LEMMA ResponsesBoundedStep ==
  ASSUME IInv, IInv', ResponsesBounded, [Next]_vars
  PROVE  ResponsesBounded'
  <1>1. Len(raws) \in Nat /\ Len(raws') \in Nat
    <2>1. raws \in Seq(RawType) /\ raws' \in Seq(RawType)
      BY TypeParts DEF IInv, RunTyped
    <2> QED BY <2>1
  <1>2. Position \in Nat /\ Position < AllCalls /\ AllCalls \in Nat /\ AllCalls' = AllCalls
    BY PositionType, LengthsType DEF IInv, AllCalls, Lengths
  <1>3. phase' = "asking" => Position' \in Nat /\ Position' < AllCalls
    BY PositionType DEF IInv
  <1>4. CASE Throw
    <2>1. CASE attempt < Retries
      <3>1. raws' = <<>>
        BY <1>4, <2>1 DEF Throw, Fresh
      <3>2. Len(raws') = 0
        BY <3>1
      <3> QED BY <1>2, <1>3, <3>2 DEF ResponsesBounded
    <2>2. CASE ~(attempt < Retries)
      <3>1. raws' = raws /\ phase' # "asking"
        BY <1>4, <2>2 DEF Throw, run
      <3> QED BY <1>2, <3>1 DEF ResponsesBounded
    <2> QED BY <2>1, <2>2
  <1>5. CASE AsksAgain
    <2>1. Len(raws) <= Position /\ Len(raws') \in {Len(raws), Len(raws) + 1} /\ Position' >= Position + 1 /\ phase' = "asking"
      BY <1>5 DEF AsksAgain, ResponsesBounded
    <2> QED BY <1>1, <1>2, <1>3, <2>1 DEF ResponsesBounded
  <1>6. CASE StopsAsking
    <2>1. Len(raws) <= Position /\ Len(raws') = Len(raws) + 1 /\ phase' = "storing"
      BY <1>6 DEF StopsAsking, ResponsesBounded
    <2> QED BY <1>1, <1>2, <2>1 DEF ResponsesBounded
  <1>7. CASE StoresOne \/ Records
    <2>1. raws' = raws /\ phase' # "asking"
      BY <1>7 DEF StoresOne, Records, run
    <2> QED BY <1>2, <2>1 DEF ResponsesBounded
  <1>8. CASE UNCHANGED vars
    BY <1>8 DEF vars, run, ResponsesBounded, Position, Place, AllCalls, Lengths
  <1> QED BY <1>4, <1>5, <1>6, <1>7, <1>8, StepKinds

\* The steps of an attempt that are left, and one at least if there is anything to do
LEMMA LeftBounded ==
  ASSUME IInv, ResponsesBounded
  PROVE  /\ LeftInAttempt \in Nat /\ LeftInAttempt <= 2 * AllCalls + 3
         /\ phase \in {"asking", "storing"} => LeftInAttempt >= 1
  <1>1. Position \in Nat /\ Position < AllCalls /\ AllCalls \in Nat
    BY PositionType, LengthsType DEF IInv
  <1>2. raws \in Seq(RawType) /\ keys \in Seq(Keys)
    BY TypeParts DEF IInv, RunTyped
  <1>3. Len(raws) \in Nat /\ Len(keys) \in Nat
    BY <1>2
  <1>4. Len(raws) <= AllCalls /\ (phase = "storing" => Len(keys) <= Len(raws))
    BY DEF ResponsesBounded, IInv, StoredUnderKey
  <1>5. CASE phase = "asking"
    BY <1>1, <1>5 DEF LeftInAttempt
  <1>6. CASE phase = "storing"
    BY <1>1, <1>3, <1>4, <1>6 DEF LeftInAttempt
  <1>7. CASE phase \notin {"asking", "storing"}
    BY <1>1, <1>7 DEF LeftInAttempt
  <1> QED BY <1>5, <1>6, <1>7

Bounded == LeftInAttempt \in Nat /\ LeftInAttempt <= 2 * AllCalls + 3

LEMMA Lexicographic ==
  ASSUME NEW K \in Nat, NEW r \in Nat, NEW a \in 0..r, NEW b \in 0..r, NEW x \in Nat, NEW y \in Nat,
         y <= K, (b = a /\ y < x) \/ (b = a + 1 /\ x >= 1)
  PROVE  (r - a) * K + x \in Nat /\ (r - b) * K + y \in Nat /\ (r - b) * K + y < (r - a) * K + x
  <1> DEFINE m == r - a
             n == r - b
  <1>1. m \in Nat /\ n \in Nat /\ (n = m \/ n = m - 1)
    OBVIOUS
  <1>2. (n = m /\ y < x) \/ (n = m - 1 /\ x >= 1)
    OBVIOUS
  <1> HIDE DEF m, n
  <1>3. \A i, j \in Nat : i * j \in Nat
    OBVIOUS
  <1>4. m * K \in Nat /\ n * K \in Nat
    BY <1>1, <1>3
  <1>5. n = m - 1 => n * K = m * K - K
    BY <1>1
  <1>6. m * K + x \in Nat /\ n * K + y \in Nat /\ n * K + y < m * K + x
    BY <1>2, <1>4, <1>5
  <1> QED BY <1>6 DEF m, n

\* A step within an attempt, and one to the next
LEMMA LessLeft ==
  ASSUME TypeOK, TypeOK', Bounded, Bounded',
         \/ attempt' = attempt /\ LeftInAttempt' < LeftInAttempt
         \/ attempt' = attempt + 1 /\ LeftInAttempt >= 1
  PROVE  Remaining \in Nat /\ Remaining' \in Nat /\ Remaining' < Remaining
  <1> DEFINE K == 2 * AllCalls + 3
  <1>1. AllCalls' = AllCalls /\ AllCalls \in Nat
    BY LengthsType DEF AllCalls, Lengths
  <1>2. attempt \in 0..Retries /\ attempt' \in 0..Retries /\ Retries \in Nat
    BY TypeParts, PassesAssumption DEF RunTyped
  <1>3. K \in Nat
    BY <1>1
  <1>4. LeftInAttempt \in Nat /\ LeftInAttempt' \in Nat /\ LeftInAttempt' <= K
    <2>1. LeftInAttempt \in Nat
      BY DEF Bounded
    <2>2. LeftInAttempt' \in Nat /\ LeftInAttempt' <= 2 * AllCalls' + 3
      BY DEF Bounded
    <2> QED BY <1>1, <2>1, <2>2
  <1>5. Remaining = (Retries - attempt) * K + LeftInAttempt
    BY DEF Remaining
  <1>6. Remaining' = (Retries - attempt') * K + LeftInAttempt'
    BY <1>1 DEF Remaining
  <1> HIDE DEF K
  <1> DEFINE a == attempt
             b == attempt'
             x == LeftInAttempt
             y == LeftInAttempt'
  <1> HIDE DEF a, b, x, y
  <1>7. a \in 0..Retries /\ b \in 0..Retries /\ x \in Nat /\ y \in Nat /\ y <= K
    BY <1>2, <1>4 DEF a, b, x, y
  <1>8. (b = a /\ y < x) \/ (b = a + 1 /\ x >= 1)
    BY DEF a, b, x, y
  <1>9. /\ (Retries - a) * K + x \in Nat /\ (Retries - b) * K + y \in Nat
        /\ (Retries - b) * K + y < (Retries - a) * K + x
    BY <1>2, <1>3, <1>7, <1>8, Lexicographic
  <1> QED BY <1>5, <1>6, <1>9 DEF a, b, x, y

LEMMA StepDescends ==
  ASSUME IInv, IInv', ResponsesBounded, ResponsesBounded', Bounded, Bounded', Next
  PROVE  Remaining \in Nat /\ Remaining' \in Nat /\ Remaining' < Remaining
  <1>1. Len(raws) \in Nat /\ Len(keys) \in Nat /\ Len(raws') \in Nat /\ Len(keys') \in Nat
    <2>1. raws \in Seq(RawType) /\ keys \in Seq(Keys) /\ raws' \in Seq(RawType) /\ keys' \in Seq(Keys)
      BY TypeParts DEF IInv, RunTyped
    <2> QED BY <2>1
  <1>2. Position \in Nat /\ Position < AllCalls /\ AllCalls \in Nat /\ AllCalls' = AllCalls
    BY PositionType, LengthsType DEF IInv, AllCalls, Lengths
  <1>3. CASE Throw /\ phase \in {"asking", "storing"}
    <2>1. LeftInAttempt >= 1
      BY <1>3, LeftBounded
    <2>2. CASE attempt < Retries
      <3>1. attempt' = attempt + 1
        BY <1>3, <2>2 DEF Throw
      <3> QED BY <2>1, <3>1, LessLeft DEF IInv
    <2>3. CASE ~(attempt < Retries)
      <3>1. attempt' = attempt /\ LeftInAttempt' = 0
        BY <1>3, <2>3 DEF Throw, LeftInAttempt
      <3>2. LeftInAttempt' < LeftInAttempt
        BY <2>1, <3>1 DEF Bounded
      <3> QED BY <3>1, <3>2, LessLeft DEF IInv
    <2> QED BY <2>2, <2>3
  <1>4. CASE AsksAgain
    <2>1. LeftInAttempt = 2 * AllCalls - Position + 3 /\ LeftInAttempt' = 2 * AllCalls - Position' + 3
      BY <1>2, <1>4 DEF AsksAgain, LeftInAttempt
    <2>2. \A p, q, n \in Nat : q >= p + 1 => 2 * n - q + 3 < 2 * n - p + 3
      OBVIOUS
    <2>3. attempt' = attempt /\ Position' \in Nat /\ Position' >= Position + 1
      BY <1>4 DEF AsksAgain
    <2>4. LeftInAttempt' < LeftInAttempt
      BY <1>2, <2>1, <2>2, <2>3
    <2> QED BY <2>3, <2>4, LessLeft DEF IInv
  <1>5. CASE StopsAsking
    <2>1. LeftInAttempt = 2 * AllCalls - Position + 3 /\ LeftInAttempt' = Len(raws') - Len(keys') + 3
      BY <1>5 DEF StopsAsking, LeftInAttempt
    <2>2. Len(raws') <= AllCalls /\ Len(keys') = 0
      BY <1>5 DEF StopsAsking, ResponsesBounded
    <2>3. attempt' = attempt /\ LeftInAttempt' < LeftInAttempt
      BY <1>1, <1>2, <1>5, <2>1, <2>2 DEF StopsAsking
    <2> QED BY <2>3, LessLeft DEF IInv
  <1>6. CASE StoresOne
    <2>1. LeftInAttempt = Len(raws) - Len(keys) + 3 /\ LeftInAttempt' = Len(raws) - (Len(keys) + 1) + 3
      BY <1>6 DEF StoresOne, LeftInAttempt
    <2>2. attempt' = attempt /\ LeftInAttempt' < LeftInAttempt
      BY <1>1, <1>6, <2>1 DEF StoresOne
    <2> QED BY <2>2, LessLeft DEF IInv
  <1>7. CASE Records
    <2>1. CASE phase = "storing" /\ phase' = "persisted"
      <3>1. LeftInAttempt = Len(raws) - Len(keys) + 3 /\ LeftInAttempt' = 2
        BY <2>1 DEF LeftInAttempt
      <3>2. Len(keys) <= Len(raws)
        BY <2>1 DEF IInv, StoredUnderKey
      <3>3. LeftInAttempt' < LeftInAttempt
        BY <1>1, <3>1, <3>2
      <3> QED BY <1>7, <3>3, LessLeft DEF IInv, Records
    <2>2. CASE phase = "persisted" /\ phase' = "scored"
      <3>1. LeftInAttempt = 2 /\ LeftInAttempt' = 1
        BY <2>2 DEF LeftInAttempt
      <3>2. LeftInAttempt' < LeftInAttempt
        BY <3>1
      <3> QED BY <1>7, <3>2, LessLeft DEF IInv, Records
    <2>3. CASE phase = "scored" /\ phase' = "done"
      <3>1. LeftInAttempt = 1 /\ LeftInAttempt' = 0
        BY <2>3 DEF LeftInAttempt
      <3>2. LeftInAttempt' < LeftInAttempt
        BY <3>1
      <3> QED BY <1>7, <3>2, LessLeft DEF IInv, Records
    <2> QED BY <1>7, <2>1, <2>2, <2>3 DEF Records
  <1> QED BY <1>3, <1>4, <1>5, <1>6, <1>7, StepKinds

Descends == Remaining \in Nat /\ Remaining' \in Nat /\ Remaining' < Remaining

\* No step can be repeated: each leaves fewer steps than were left before, so that an
\* extraction takes at most (Retries + 1) * (2 * AllCalls + 3) of them, whichever models
\* and stores fail.  This is the safety half of ExtractionEnds.
THEOREM StepsAreBounded == SafetySpec => [][Descends]_vars
  <1>1. Init => ResponsesBounded
    BY ResponsesBoundedInit
  <1>2. IInv /\ IInv' /\ ResponsesBounded /\ [Next]_vars => ResponsesBounded'
    BY ResponsesBoundedStep
  <1>3. IInv /\ ResponsesBounded => Bounded
    BY LeftBounded DEF Bounded
  <1>4. IInv /\ IInv' /\ ResponsesBounded /\ ResponsesBounded' /\ Bounded /\ Bounded' /\ [Next]_vars => [Descends]_vars
    BY StepDescends DEF Descends
  <1> QED BY <1>1, <1>2, <1>3, <1>4, Invariance, PTL DEF SafetySpec
==============================================================================
