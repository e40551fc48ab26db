--------------------------- MODULE FieldEditProofs ---------------------------
(***************************************************************************)
(* Proofs about FieldEdit, for any set of edits, fields and values.        *)
(*                                                                         *)
(* The server's half rests on the row lock: what a transaction read is     *)
(* still the document when it writes.  The page's half says of every       *)
(* answer of GET /extractions/{id} what it says of the cache: once no save *)
(* is under way it is a document the server had, and after every save that *)
(* was reported.  Documents are told by the history, which only grows.     *)
(***************************************************************************)
EXTENDS FieldEdit, FiniteSetTheorems, TLAPS

USE FieldEditAssumption

Requests == [field : Fields, value : Values, revert : BOOLEAN]

Stored(e, n) == \E i \in 1..n : history[i].at = at[e]

\* A document the server had, with every save reported as saved.
Current(x) ==
  \E n \in 0..Len(history) :
    /\ x.data = After(n) /\ x.flags = After(n)
    /\ \A e \in Edits : ui[e] = "saved" => Stored(e, n)

Transactions ==
  \A e \in Edits :
    /\ srv[e] # "idle" => request[e] \in Requests /\ snap[e] \in Data
    /\ srv[e] = "idle" => ui[e] = "idle"
    /\ srv[e] = "locked" => lock = e /\ read[e] = data
    /\ srv[e] = "committed" => read[e] \in Data /\ Stored(e, Len(history))
    /\ ui[e] = "saved" => srv[e] = "committed"
    /\ ui[e] # "idle" => srv[e] # "idle"

Answers ==
  /\ fetch["detail"].pc = "read" => fetch["detail"].answer \in Shown
  /\ fetch["edits"].pc = "read" => fetch["edits"].answer \in SUBSET Row

Quiet == \A e \in Edits : ui[e] # "pending"

Page ==
  Quiet =>
    /\ fetch["detail"].pc = "read" => Current(fetch["detail"].answer)
    /\ fetch["detail"].pc = "idle" /\ ~broken => Current(cache)

\* A document the server had, and the one that an edit made.
Had(x) == \E n \in 0..Len(history) : x = After(n)
MadeBy(e, x) == \E n \in 1..Len(history) : history[n].at = at[e] /\ x = After(n)

FlagsOK ==
  /\ Had(cache.flags)
  /\ fetch["detail"].pc = "read" => Had(fetch["detail"].answer.flags)
  /\ \A e \in Edits : srv[e] = "committed" => MadeBy(e, Updated(e))
  /\ panel # NONE => \E e \in Edits : ui[e] = "saved" /\ MadeBy(e, panel)
  /\ \A e \in Edits : ui[e] = "saved" => panel # NONE

IInv == TypeOK /\ Transactions /\ Answers /\ HistoryExplainsData /\ Page /\ FlagsOK

LEMMA Greatest ==
  ASSUME NEW n \in Nat, NEW S \in SUBSET (1..n), S # {}
  PROVE  \E m \in S : \A k \in S : k <= m
<1> DEFINE R == OpToRel(<, Nat)
           T == {n - k : k \in S}
<1>0. \A k \in S : k \in Nat /\ n - k \in Nat
  OBVIOUS
<1>1. T \subseteq Nat /\ T # {}
  BY <1>0
<1>2. PICK x \in T : \A y \in T : ~(<<y, x>> \in R)
  BY <1>1, NatLessThanWellFounded, WFMin
<1>3. \A y \in T : ~(y < x)
  BY <1>1, <1>2 DEF OpToRel
<1>4. PICK m \in S : x = n - m
  BY <1>2
<1>5. \A k \in S : ~(n - k < n - m)
  BY <1>3, <1>4
<1>6. \A k \in S : k <= m
  BY <1>0, <1>5
<1> QED BY <1>6

\* The value of a field depends on the first rows of the history only.
LEMMA ValueStays ==
  ASSUME TypeOK, NEW r \in Row, history' = Append(history, r),
         NEW n \in 0..Len(history), NEW f
  PROVE  ValueAfter(n, f)' = ValueAfter(n, f)
<1> DEFINE S == {i \in 1..n : history[i].field = f}
           m == CHOOSE i \in S : \A j \in S : j <= i
<1>0. history \in Seq(Row) /\ Len(history) \in Nat /\ n \in Nat
  BY DEF TypeOK
<1>1. \A i \in 1..n : history'[i] = history[i]
  BY <1>0
<1>2. S' = S
  BY <1>1
<1>3. CASE S = {}
  BY <1>2, <1>3 DEF ValueAfter
<1>4. CASE S # {}
  <2>1. m \in S
    BY <1>0, <1>4, Greatest
  <2>2. history'[m] = history[m]
    BY <1>1, <2>1
  <2> HIDE DEF m
  <2>3. m' = m
    BY <1>2 DEF m
  <2>4. ValueAfter(n, f) = history[m].to
    BY <1>4 DEF ValueAfter, m
  <2>5. ValueAfter(n, f)' = history'[m].to
    BY <1>2, <1>4, <2>3 DEF ValueAfter, m
  <2> QED BY <2>2, <2>4, <2>5
<1> QED BY <1>3, <1>4

\* One more row changes the value of its own field, to the row's.
LEMMA ValueChanges ==
  ASSUME TypeOK, NEW r \in Row, history' = Append(history, r),
         NEW N \in Nat, N = Len(history), NEW f
  PROVE  ValueAfter(N + 1, f)' = IF r.field = f THEN r.to ELSE ValueAfter(N, f)
<1> DEFINE S == {i \in 1..N : history'[i].field = f}
           U == {i \in 1..(N + 1) : history'[i].field = f}
           m == CHOOSE i \in U : \A j \in U : j <= i
<1>0. history \in Seq(Row)
  BY DEF TypeOK
<1>1. history'[N + 1] = r
  BY <1>0
<1>2. CASE r.field = f
  <2>1. N + 1 \in U /\ \A j \in U : j <= N + 1
    BY <1>1, <1>2
  <2>2. \A i \in U : (\A j \in U : j <= i) => i = N + 1
    BY <2>1
  <2>3. m = N + 1
    <3> HIDE DEF U
    <3>1. m \in U /\ \A j \in U : j <= m
      BY <2>1
    <3> QED BY <2>2, <3>1
  <2>4. ValueAfter(N + 1, f)' = history'[m].to
    BY <2>1 DEF ValueAfter
  <2> QED BY <1>1, <1>2, <2>3, <2>4
<1>3. CASE r.field # f
  <2>1. U = S
    <3>1. \A i \in 1..(N + 1) : i \in 1..N \/ i = N + 1
      OBVIOUS
    <3>2. \A i \in 1..N : i \in 1..(N + 1)
      OBVIOUS
    <3> QED BY <1>1, <1>3, <3>1, <3>2
  <2>2. ValueAfter(N + 1, f)' = ValueAfter(N, f)'
    <3> DEFINE Last(X) == IF X = {} THEN AI
                          ELSE history'[CHOOSE i \in X : \A j \in X : j <= i].to
    <3>1. ValueAfter(N + 1, f)' = Last(U) /\ ValueAfter(N, f)' = Last(S)
      BY DEF ValueAfter
    <3> HIDE DEF U, S
    <3> QED BY <2>1, <3>1
  <2>3. ValueAfter(N, f)' = ValueAfter(N, f)
    BY ValueStays
  <2> QED BY <1>3, <2>2, <2>3
<1> QED BY <1>2, <1>3

\* A document the server had stays one, as long as nothing more was reported saved.
LEMMA CurrentStays ==
  ASSUME TypeOK, NEW x, Current(x),
         history' = history \/ \E r \in Row : history' = Append(history, r),
         \A e \in Edits : ui'[e] = "saved" => ui[e] = "saved" /\ at'[e] = at[e]
  PROVE  Current(x)'
<1>0. history \in Seq(Row)
  BY DEF TypeOK
<1>1. PICK n \in 0..Len(history) :
        /\ x.data = After(n) /\ x.flags = After(n)
        /\ \A e \in Edits : ui[e] = "saved" => Stored(e, n)
  BY DEF Current
<1>2. n \in 0..Len(history')
  BY <1>0
<1>3. After(n)' = After(n)
  <2>1. CASE history' = history
    <3>1. \A f : ValueAfter(n, f)' = ValueAfter(n, f)
      BY <2>1 DEF ValueAfter
    <3> QED BY <3>1 DEF After
  <2>2. CASE \E r \in Row : history' = Append(history, r)
    BY <2>2, ValueStays DEF After
  <2> QED BY <2>1, <2>2
<1>4. \A i \in 1..n : history'[i] = history[i]
  BY <1>0
<1>5. \A e \in Edits : ui'[e] = "saved" => Stored(e, n)'
  BY <1>1, <1>4 DEF Stored
<1> QED BY <1>1, <1>2, <1>3, <1>5 DEF Current

\* Neither of the two idle states depends on which query it is of.
LEMMA FetchStep ==
  ASSUME FetchType, NEW x \in {Idle, Asked},
         \/ fetch' = [q \in Queries |-> x]
         \/ \E q \in Queries : fetch' = [fetch EXCEPT ![q] = x]
  PROVE  FetchType'
<1>1. DOMAIN fetch' = Queries
  BY DEF FetchType
<1>2. \A q \in Queries : fetch'[q] = x \/ fetch'[q] = fetch[q]
  BY DEF FetchType
<1>3. x.pc \in {"idle", "asked", "read"} /\ x.answer = NONE /\ x = [pc |-> x.pc, answer |-> NONE]
  BY DEF Idle, Asked
<1>4. "detail" \in Queries /\ "edits" \in Queries
  BY DEF Queries
<1>5. x \in [pc : {"idle", "asked", "read"}, answer : Shown \cup {NONE}]
  BY <1>3
<1>6. x \in [pc : {"idle", "asked", "read"}, answer : (SUBSET Row) \cup {NONE}]
  BY <1>3
<1>7. fetch'["detail"] \in [pc : {"idle", "asked", "read"}, answer : Shown \cup {NONE}]
  BY <1>2, <1>4, <1>5 DEF FetchType
<1>8. fetch'["edits"] \in [pc : {"idle", "asked", "read"}, answer : (SUBSET Row) \cup {NONE}]
  BY <1>2, <1>4, <1>6 DEF FetchType
<1> QED BY <1>1, <1>7, <1>8 DEF FetchType

LEMMA TypeStep ==
  ASSUME IInv, [Next]_vars
  PROVE  TypeOK'
<1> USE DEF IInv, TypeOK, Data
<1>0. /\ CancelQueries => FetchType'
      /\ InvalidateQueries => FetchType'
      /\ \A q \in Queries : fetch' = [fetch EXCEPT ![q] = Asked] => FetchType'
      /\ \A q \in Queries : fetch' = [fetch EXCEPT ![q] = Idle] => FetchType'
      /\ UNCHANGED fetch => FetchType'
  <2>1. UNCHANGED fetch => FetchType'
    BY DEF FetchType
  <2> QED BY <2>1, FetchStep DEF CancelQueries, InvalidateQueries
<1>1. ASSUME NEW e \in Edits, NEW r \in Requests, Mutate(e, r) PROVE TypeOK'
  <2>1. cache' \in Shown /\ snap' \in [Edits -> Data \cup {NONE}]
    BY <1>1 DEF Mutate, Requests, Shown
  <2> QED BY <1>0, <1>1, <2>1 DEF Mutate, Requests
<1>2. ASSUME NEW e \in Edits, Save(e) PROVE TypeOK'
  BY <1>1, <1>2 DEF Save, Requests
<1>3. ASSUME NEW e \in Edits, Revert(e) PROVE TypeOK'
  <2>1. PICK r \in seen : Mutate(e, [field |-> r.field, value |-> r.from, revert |-> TRUE])
    BY <1>3 DEF Revert
  <2>2. [field |-> r.field, value |-> r.from, revert |-> TRUE] \in Requests
    BY DEF Requests, Row
  <2> QED BY <1>1, <2>1, <2>2
<1>4. ASSUME NEW e \in Edits, Success(e) PROVE TypeOK'
  <2>1. request[e] \in Requests /\ read[e] \in Data
    BY <1>4 DEF Success, Transactions
  <2>2. cache' \in Shown /\ panel' \in Data \cup {NONE}
    BY <1>4, <2>1 DEF Success, Updated, Requests, Shown
  <2> QED BY <1>0, <1>4, <2>2 DEF Success, server
<1>5. ASSUME NEW e \in Edits, Failure(e) PROVE TypeOK'
  <2>1. request[e] \in Requests /\ snap[e] \in Data
    BY <1>5 DEF Failure, Transactions
  <2>2. cache' \in Shown
    BY <1>5, <2>1 DEF Failure, Requests, Shown
  <2> QED BY <1>0, <1>5, <2>2 DEF Failure, server
<1>6. ASSUME NEW e \in Edits, Begin(e) PROVE TypeOK'
  <2>1. {o \in Edits : at[o] # 0} \in SUBSET Edits
    OBVIOUS
  <2>2. Cardinality({o \in Edits : at[o] # 0}) \in Nat
    BY <2>1, FS_Subset, FS_CardinalityType
  <2> QED BY <1>0, <1>6, <2>2 DEF Begin, page
<1>7. ASSUME NEW e \in Edits, Lock(e) PROVE TypeOK'
  BY <1>0, <1>7 DEF Lock, page
<1>8. ASSUME NEW e \in Edits, Abort(e) PROVE TypeOK'
  BY <1>0, <1>8 DEF Abort, page
<1>9. ASSUME NEW e \in Edits, Commit(e) PROVE TypeOK'
  BY <1>0, <1>9 DEF Commit, Updated, page, Transactions, Requests, Row
<1>10. ASSUME NEW q \in Queries, Focus(q) PROVE TypeOK'
  BY <1>0, <1>10 DEF Focus, page, server
<1>11. ASSUME NEW q \in Queries, ServerReads(q) PROVE TypeOK'
  <2>1. FetchType'
    BY <1>11 DEF ServerReads, Extraction, FetchType, Queries, Shown, Range
  <2> QED BY <1>11, <2>1 DEF ServerReads, page, server
<1>12. ASSUME NEW q \in Queries, FetchArrives(q) PROVE TypeOK'
  <2>1. cache' \in Shown /\ broken' \in BOOLEAN /\ seen' \subseteq Row
    BY <1>12 DEF FetchArrives, Queries, Answers
  <2> QED BY <1>0, <1>12, <2>1 DEF FetchArrives, server
<1>13. ASSUME NEW q \in Queries, FetchFails(q) PROVE TypeOK'
  BY <1>0, <1>13 DEF FetchFails, server
<1>14. CASE UNCHANGED vars
  BY <1>0, <1>14 DEF vars, server, page
<1> QED BY <1>2, <1>3, <1>4, <1>5, <1>6, <1>7, <1>8, <1>9, <1>10, <1>11, <1>12, <1>13, <1>14 DEF Next

LEMMA TransactionsStep ==
  ASSUME IInv, [Next]_vars
  PROVE  Transactions'
<1> USE DEF IInv, Transactions
<1>0. history \in Seq(Row)
  BY DEF TypeOK
<1>1. ASSUME NEW w \in Edits, srv[w] = "committed", at'[w] = at[w],
             history' = history \/ \E r \in Row : history' = Append(history, r)
      PROVE  Stored(w, Len(history))'
  <2>1. PICK i \in 1..Len(history) : history[i].at = at[w]
    BY <1>1 DEF Stored
  <2>2. i \in 1..Len(history') /\ history'[i] = history[i]
    BY <1>0, <1>1, <2>1
  <2> QED BY <1>1, <2>1, <2>2 DEF Stored
<1>2. ASSUME NEW e \in Edits, NEW r \in Requests, Mutate(e, r) PROVE Transactions'
  BY <1>1, <1>2 DEF Mutate, TypeOK, Shown
<1>3. ASSUME NEW e \in Edits, Save(e) PROVE Transactions'
  BY <1>2, <1>3 DEF Save, Requests
<1>4. ASSUME NEW e \in Edits, Revert(e) PROVE Transactions'
  <2>1. PICK r \in seen : Mutate(e, [field |-> r.field, value |-> r.from, revert |-> TRUE])
    BY <1>4 DEF Revert
  <2>2. [field |-> r.field, value |-> r.from, revert |-> TRUE] \in Requests
    BY DEF Requests, Row, TypeOK
  <2> QED BY <1>2, <2>1, <2>2
<1>5. ASSUME NEW e \in Edits, Success(e) PROVE Transactions'
  BY <1>1, <1>5 DEF Success, server, TypeOK
<1>6. ASSUME NEW e \in Edits, Failure(e) PROVE Transactions'
  BY <1>1, <1>6 DEF Failure, server, TypeOK
<1>7. ASSUME NEW e \in Edits, Begin(e) PROVE Transactions'
  BY <1>1, <1>7 DEF Begin, page, TypeOK
<1>8. ASSUME NEW e \in Edits, Lock(e) PROVE Transactions'
  BY <1>1, <1>8 DEF Lock, page, TypeOK
<1>9. ASSUME NEW e \in Edits, Abort(e) PROVE Transactions'
  BY <1>1, <1>9 DEF Abort, page, TypeOK
<1>10. ASSUME NEW e \in Edits, Commit(e) PROVE Transactions'
  <2> DEFINE r == [field |-> request[e].field, from |-> read[e][request[e].field],
                   to |-> request[e].value, at |-> at[e]]
  <2>1. r \in Row /\ history' = Append(history, r)
    BY <1>10 DEF Commit, TypeOK, Data, Requests, Row
  <2> HIDE DEF r
  <2>2. \A w \in Edits : srv[w] = "committed" => Stored(w, Len(history))'
    BY <1>1, <1>10, <2>1 DEF Commit
  <2>3. Stored(e, Len(history))'
    <3>1. Len(history') \in 1..Len(history') /\ history'[Len(history')] = r
      BY <1>0, <2>1
    <3>2. history'[Len(history')].at = at'[e]
      BY <1>10, <3>1 DEF Commit, r
    <3> QED BY <3>1, <3>2 DEF Stored
  <2>4. \A w \in Edits : srv'[w] = IF w = e THEN "committed" ELSE srv[w]
    BY <1>10 DEF Commit, TypeOK
  <2>5. \A w \in Edits : w # e => srv[w] # "locked"
    BY <1>10 DEF Commit
  <2>6. read[e] \in Data
    BY <1>10 DEF Commit, TypeOK
  <2> QED BY <1>10, <2>2, <2>3, <2>4, <2>5, <2>6 DEF Commit, page
<1>11. CASE UNCHANGED server /\ UNCHANGED <<ui, request, snap>>
  BY <1>1, <1>11 DEF server
<1> QED BY <1>3, <1>4, <1>5, <1>6, <1>7, <1>8, <1>9, <1>10, <1>11
        DEF Next, vars, page, Focus, ServerReads, FetchArrives, FetchFails

LEMMA AnswersStep ==
  ASSUME IInv, [Next]_vars
  PROVE  Answers'
<1> USE DEF IInv, Answers
<1>1. CASE UNCHANGED fetch
  BY <1>1
<1>2. CASE CancelQueries \/ InvalidateQueries
  BY <1>2 DEF CancelQueries, InvalidateQueries, Idle, Asked, Queries
<1>3. ASSUME NEW q \in Queries, Focus(q) \/ FetchArrives(q) \/ FetchFails(q) PROVE Answers'
  <2>1. fetch' = [fetch EXCEPT ![q] = Idle] \/ fetch' = [fetch EXCEPT ![q] = Asked]
    BY <1>3 DEF Focus, FetchArrives, FetchFails
  <2>2. \A p \in Queries : fetch'[p] \in {fetch[p], Idle, Asked}
    BY <2>1 DEF TypeOK, FetchType
  <2> QED BY <2>2 DEF Idle, Asked, Queries
<1>4. ASSUME NEW q \in Queries, ServerReads(q) PROVE Answers'
  BY <1>4 DEF ServerReads, Extraction, TypeOK, FetchType, Queries, Shown, Range
<1> QED BY <1>1, <1>2, <1>3, <1>4
        DEF Next, vars, Save, Revert, Mutate, Success, Failure, Begin, Lock, Commit, Abort

\* Outside Commit nothing of the database changes; Commit adds one row, of what it read under
\* the lock.
LEMMA Effect ==
  ASSUME IInv, [Next]_vars
  PROVE  \/ UNCHANGED <<data, flags, history>>
         \/ \E e \in Edits, r \in Row :
              /\ Commit(e) /\ history' = Append(history, r)
              /\ r.from = data[r.field]
              /\ data' = [data EXCEPT ![r.field] = r.to] /\ flags' = data'
<1>1. ASSUME NEW e \in Edits, Commit(e)
      PROVE  \E r \in Row :
               /\ history' = Append(history, r)
               /\ r.from = data[r.field]
               /\ data' = [data EXCEPT ![r.field] = r.to] /\ flags' = data'
  <2> DEFINE r == [field |-> request[e].field, from |-> read[e][request[e].field],
                   to |-> request[e].value, at |-> at[e]]
  <2>1. request[e] \in Requests /\ read[e] = data
    BY <1>1 DEF Commit, IInv, Transactions
  <2>2. r \in Row
    BY <2>1 DEF IInv, TypeOK, Data, Requests, Row
  <2>3. /\ history' = Append(history, r)
        /\ r.from = data[r.field]
        /\ data' = [data EXCEPT ![r.field] = r.to] /\ flags' = data'
    BY <1>1, <2>1 DEF Commit, Updated
  <2> QED BY <2>2, <2>3
<1>2. CASE \E e \in Edits : Commit(e)
  BY <1>1, <1>2
<1>3. CASE ~ \E e \in Edits : Commit(e)
  BY <1>3 DEF Next, vars, server, Save, Revert, Mutate, Success, Failure, Begin, Lock, Abort,
              Focus, ServerReads, FetchArrives, FetchFails
<1> QED BY <1>2, <1>3

LEMMA HistoryStep ==
  ASSUME IInv, [Next]_vars
  PROVE  HistoryExplainsData'
<1>0. history \in Seq(Row) /\ data \in Data /\ TypeOK
  BY DEF IInv, TypeOK
<1>1. CASE UNCHANGED <<data, flags, history>>
  <2>1. \A n, f : ValueAfter(n, f)' = ValueAfter(n, f)
    BY <1>1 DEF ValueAfter
  <2> QED BY <1>1, <2>1 DEF IInv, HistoryExplainsData, After
<1>2. ASSUME NEW r \in Row, history' = Append(history, r), r.from = data[r.field],
             data' = [data EXCEPT ![r.field] = r.to], flags' = data'
      PROVE  HistoryExplainsData'
  <2> DEFINE N == Len(history)
  <2>0. N \in Nat /\ Len(history') = N + 1 /\ history'[N + 1] = r
    BY <1>0, <1>2
  <2>1. data = After(N) /\ \A n \in 1..N : history[n].from = ValueAfter(n - 1, history[n].field)
    BY DEF IInv, HistoryExplainsData
  <2>2. \A n \in 0..N : \A f : ValueAfter(n, f)' = ValueAfter(n, f)
    BY <1>0, <1>2, ValueStays
  <2>3. PICK M \in Nat : M = N
    BY <2>0
  <2> HIDE DEF N
  <2>4. \A f : ValueAfter(M + 1, f)' = IF r.field = f THEN r.to ELSE ValueAfter(M, f)
    BY <1>0, <1>2, <2>3, ValueChanges DEF N
  <2>5. \A f \in Fields : data[f] = ValueAfter(M, f)
    BY <2>1, <2>3 DEF After
  <2>6. data' = After(M + 1)'
    <3>1. \A f \in Fields : data'[f] = ValueAfter(M + 1, f)'
      BY <1>0, <1>2, <2>4, <2>5 DEF Data
    <3>2. data' = [f \in Fields |-> data'[f]]
      BY <1>0, <1>2 DEF Data
    <3> QED BY <3>1, <3>2 DEF After
  <2>7. data' = After(Len(history))'
    BY <2>0, <2>3, <2>6 DEF After
  <2>8. ASSUME NEW n \in 1..N PROVE history'[n].from = ValueAfter(n - 1, history[n].field)'
                                     /\ history'[n] = history[n]
    BY <1>0, <1>2, <2>0, <2>1, <2>2, <2>8 DEF N
  <2>9. r.from = ValueAfter(M, r.field)'
    BY <1>2, <2>0, <2>2, <2>3, <2>5 DEF Row
  <2>10. ASSUME NEW n \in 1..Len(history')
         PROVE  history'[n].from = ValueAfter(n - 1, history[n].field)'
    <3>1. CASE n \in 1..N
      BY <2>8, <3>1
    <3>2. CASE n = M + 1
      <4>1. history'[n] = r /\ n - 1 = M
        BY <2>0, <2>3, <3>2
      <4> QED BY <2>9, <4>1 DEF ValueAfter
    <3> QED BY <2>0, <2>3, <3>1, <3>2
  <2> QED BY <1>2, <2>7, <2>10 DEF HistoryExplainsData
<1> QED BY <1>1, <1>2, Effect

\* What GET /extractions/{id} answers is the document after the whole history.
LEMMA AnswerIsCurrent ==
  ASSUME IInv
  PROVE  Current(Extraction)
<1>1. Len(history) \in 0..Len(history)
  BY DEF IInv, TypeOK
<1>2. data = After(Len(history)) /\ flags = After(Len(history))
  BY DEF IInv, HistoryExplainsData
<1>3. \A e \in Edits : ui[e] = "saved" => Stored(e, Len(history))
  BY DEF IInv, Transactions
<1> QED BY <1>1, <1>2, <1>3 DEF Current, Extraction

LEMMA PageStep ==
  ASSUME IInv, [Next]_vars
  PROVE  Page'
<1> USE DEF IInv, Page
<1>0. "detail" \in Queries /\ DOMAIN fetch = Queries
  BY DEF TypeOK, FetchType, Queries
<1>1. \A x : Current(x) /\ (\A e \in Edits : ui'[e] = "saved" => ui[e] = "saved" /\ at'[e] = at[e])
              => Current(x)'
  <2>1. history' = history \/ \E r \in Row : history' = Append(history, r)
    BY Effect
  <2> QED BY <2>1, CurrentStays
<1>2. ASSUME fetch'["detail"] = Asked \/ (\E e \in Edits : ui'[e] = "pending") PROVE Page'
  BY <1>2 DEF Quiet, Asked
<1>3. ASSUME Quiet' => Quiet, UNCHANGED <<cache, broken>>, fetch'["detail"] = fetch["detail"],
             \A e \in Edits : ui'[e] = "saved" => ui[e] = "saved" /\ at'[e] = at[e]
      PROVE  Page'
  <2>1. PICK x, y : x = cache /\ y = fetch["detail"].answer
    OBVIOUS
  <2>2. (Current(x) => Current(x)') /\ (Current(y) => Current(y)')
    BY <1>1, <1>3
  <2>3. (Current(cache) <=> Current(x)) /\ (Current(fetch["detail"].answer) <=> Current(y))
    BY <2>1
  <2>4. (Current(cache)' <=> Current(x)') /\ (Current(fetch["detail"].answer)' <=> Current(y)')
    BY <1>3, <2>1 DEF Current
  <2> QED BY <1>3, <2>2, <2>3, <2>4
<1>4. ASSUME NEW e \in Edits, NEW r, Mutate(e, r) PROVE Page'
  BY <1>2, <1>4 DEF Mutate, TypeOK
<1>5. ASSUME NEW e \in Edits, Success(e) \/ Failure(e) PROVE Page'
  BY <1>0, <1>2, <1>5 DEF Success, Failure, InvalidateQueries
<1>6. ASSUME NEW e \in Edits, Begin(e) \/ Lock(e) \/ Commit(e) \/ Abort(e) PROVE Page'
  <2>1. \A w \in Edits : ui[w] = "saved" => at'[w] = at[w]
    BY <1>6 DEF Begin, Lock, Commit, Abort, Transactions, TypeOK
  <2> QED BY <1>3, <1>6, <2>1 DEF Begin, Lock, Commit, Abort, page, Quiet
<1>7. ASSUME NEW q \in Queries, q # "detail", Focus(q) \/ ServerReads(q) \/ FetchArrives(q) \/ FetchFails(q)
      PROVE  Page'
  <2>1. fetch'["detail"] = fetch["detail"]
    BY <1>0, <1>7 DEF Focus, ServerReads, FetchArrives, FetchFails
  <2> QED BY <1>3, <1>7, <2>1 DEF Focus, ServerReads, FetchArrives, FetchFails, page, server, Quiet, TypeOK
<1>8. ASSUME Focus("detail") PROVE Page'
  BY <1>0, <1>2, <1>8 DEF Focus
<1>9. ASSUME ServerReads("detail") PROVE Page'
  <2>1. PICK x : x = Extraction
    OBVIOUS
  <2>2. Current(x)
    BY <2>1, AnswerIsCurrent
  <2>3. Current(x)'
    BY <1>1, <1>9, <2>2 DEF ServerReads, page, server
  <2>4. fetch'["detail"].pc = "read" /\ fetch'["detail"].answer = x
    BY <1>0, <1>9, <2>1 DEF ServerReads
  <2>5. Current(fetch["detail"].answer)'
    BY <2>3, <2>4 DEF Current
  <2> QED BY <2>4, <2>5
<1>10. ASSUME FetchArrives("detail") PROVE Page'
  <2>1. PICK x : x = fetch["detail"].answer
    OBVIOUS
  <2>2. Quiet' => Current(x)
    BY <1>10, <2>1 DEF FetchArrives, Quiet
  <2>3. Quiet' => Current(x)'
    BY <1>1, <1>10, <2>2 DEF FetchArrives, server
  <2>4. fetch'["detail"].pc = "idle" /\ cache' = x
    BY <1>0, <1>10, <2>1 DEF FetchArrives, Idle
  <2>5. Current(x)' => Current(cache)'
    BY <2>4 DEF Current
  <2> QED BY <2>3, <2>4, <2>5
<1>11. ASSUME FetchFails("detail") PROVE Page'
  BY <1>0, <1>11 DEF FetchFails, Idle
<1>12. CASE UNCHANGED vars
  BY <1>3, <1>12 DEF vars, page, server, Quiet
<1> QED BY <1>4, <1>5, <1>6, <1>7, <1>8, <1>9, <1>10, <1>11, <1>12 DEF Next, Save, Revert, Queries

\* The history keeps what it says of a document, and of the edit that made it.
LEMMA DocumentsStay ==
  ASSUME IInv, [Next]_vars, NEW x
  PROVE  /\ Had(x) => Had(x)'
         /\ \A e \in Edits : at'[e] = at[e] /\ MadeBy(e, x) => MadeBy(e, x)'
<1>0. history \in Seq(Row) /\ TypeOK
  BY DEF IInv, TypeOK
<1>1. history' = history \/ \E r \in Row : history' = Append(history, r)
  BY Effect
<1>2. \A n \in 0..Len(history) : After(n)' = After(n)
  <2>1. CASE history' = history
    BY <2>1 DEF ValueAfter, After
  <2>2. CASE \E r \in Row : history' = Append(history, r)
    BY <1>0, <2>2, ValueStays DEF After
  <2> QED BY <1>1, <2>1, <2>2
<1>3. \A n \in 0..Len(history) : n \in 0..Len(history')
  BY <1>0, <1>1
<1>4. \A n \in 1..Len(history) :
        n \in 1..Len(history') /\ n \in 0..Len(history) /\ history'[n] = history[n]
  BY <1>0, <1>1
<1>5. Had(x) => Had(x)'
  BY <1>2, <1>3 DEF Had
<1>6. ASSUME NEW e \in Edits, at'[e] = at[e], MadeBy(e, x) PROVE MadeBy(e, x)'
  BY <1>2, <1>4, <1>6 DEF MadeBy
<1> QED BY <1>5, <1>6

\* What a commit makes of the document is what it is after the history with the edit's row.
LEMMA CommitMakes ==
  ASSUME IInv, [Next]_vars, NEW e \in Edits, Commit(e)
  PROVE  MadeBy(e, Updated(e))'
<1>1. PICK r \in Row : history' = Append(history, r) /\ r.at = at[e]
  <2>1. request[e] \in Requests /\ read[e] = data /\ at[e] \in Nat
    BY DEF Commit, IInv, Transactions, TypeOK
  <2>2. [field |-> request[e].field, from |-> read[e][request[e].field],
         to |-> request[e].value, at |-> at[e]] \in Row
    BY <2>1 DEF IInv, TypeOK, Data, Requests, Row
  <2> QED BY <2>2 DEF Commit
<1>2. Len(history') \in 1..Len(history') /\ history'[Len(history')] = r
  BY <1>1 DEF IInv, TypeOK
<1>3. Updated(e)' = data' /\ at' = at
  BY DEF Commit, Updated, page
<1>4. data' = After(Len(history))'
  BY HistoryStep DEF HistoryExplainsData
<1> QED BY <1>1, <1>2, <1>3, <1>4 DEF MadeBy

LEMMA FlagsStep ==
  ASSUME IInv, [Next]_vars
  PROVE  FlagsOK'
<1> USE DEF IInv, FlagsOK
<1>0. "detail" \in Queries /\ DOMAIN fetch = Queries
  BY DEF TypeOK, FetchType, Queries
<1>1. ASSUME NEW x, Had(x) PROVE Had(x)'
  BY <1>1, DocumentsStay
<1>2. ASSUME NEW x, NEW e \in Edits, at'[e] = at[e], MadeBy(e, x) PROVE MadeBy(e, x)'
  BY <1>2, DocumentsStay
<1>3. ASSUME NEW x, NEW e \in Edits, MadeBy(e, x) PROVE Had(x)
  BY <1>3 DEF MadeBy, Had
<1>4. ASSUME NEW e \in Edits, Success(e)
      PROVE  MadeBy(e, Updated(e)) /\ cache'.flags = Updated(e) /\ panel' = Updated(e)
             /\ ui' = [ui EXCEPT ![e] = "saved"] /\ UNCHANGED server
             /\ Updated(e) \in Data
  <2>1. request[e] \in Requests /\ read[e] \in Data
    BY <1>4 DEF Success, Transactions
  <2> QED BY <1>4, <2>1 DEF Success, Updated, Data, Requests, TypeOK, Shown
<1>5. Had(cache.flags)'
  <2>1. PICK x : x = cache'.flags
    OBVIOUS
  <2>2. Had(x)
    <3>1. ASSUME NEW e \in Edits, Success(e) PROVE Had(x)
      BY <1>3, <1>4, <2>1, <3>1
    <3>2. CASE cache'.flags = cache.flags
      BY <2>1, <3>2
    <3>3. ASSUME FetchArrives("detail") PROVE Had(x)
      BY <2>1, <3>3 DEF FetchArrives
    <3>4. ASSUME NEW e \in Edits, NEW r, Mutate(e, r) PROVE cache'.flags = cache.flags
      BY <3>4 DEF Mutate, TypeOK, Shown
    <3>5. ASSUME NEW e \in Edits, Failure(e) PROVE cache'.flags = cache.flags
      BY <3>5 DEF Failure, TypeOK, Shown
    <3>6. ASSUME NEW q \in Queries, q # "detail", FetchArrives(q) PROVE cache'.flags = cache.flags
      BY <3>6 DEF FetchArrives
    <3> QED BY <3>1, <3>2, <3>3, <3>4, <3>5, <3>6
            DEF Next, vars, page, Save, Revert, Begin, Lock, Commit, Abort, Focus, ServerReads, FetchFails
  <2>3. Had(x)'
    BY <1>1, <2>2
  <2> QED BY <2>1, <2>3 DEF Had
<1>6. fetch'["detail"].pc = "read" => Had(fetch["detail"].answer.flags)'
  <2> SUFFICES ASSUME fetch'["detail"].pc = "read" PROVE Had(fetch["detail"].answer.flags)'
    OBVIOUS
  <2>1. PICK x : x = fetch'["detail"].answer.flags
    OBVIOUS
  <2>2. Had(x)
    <3>1. CASE fetch'["detail"] = fetch["detail"]
      BY <2>1, <3>1
    <3>2. ASSUME ServerReads("detail") PROVE Had(x)
      <4>1. fetch'["detail"].answer = Extraction
        BY <1>0, <3>2 DEF ServerReads
      <4>2. flags = After(Len(history)) /\ Len(history) \in 0..Len(history)
        BY DEF HistoryExplainsData, TypeOK
      <4> QED BY <2>1, <4>1, <4>2 DEF Extraction, Had
    <3>3. ASSUME CancelQueries \/ InvalidateQueries PROVE FALSE
      BY <1>0, <3>3 DEF CancelQueries, InvalidateQueries, Idle, Asked
    <3>4. ASSUME NEW q \in Queries, Focus(q) \/ FetchArrives(q) \/ FetchFails(q)
          PROVE  fetch'["detail"] = fetch["detail"]
      BY <1>0, <3>4 DEF Focus, FetchArrives, FetchFails, Idle, Asked
    <3>5. ASSUME NEW q \in Queries, q # "detail", ServerReads(q)
          PROVE  fetch'["detail"] = fetch["detail"]
      BY <1>0, <3>5 DEF ServerReads
    <3> QED BY <3>1, <3>2, <3>3, <3>4, <3>5
            DEF Next, vars, Save, Revert, Mutate, Success, Failure, Begin, Lock, Commit, Abort
  <2>3. Had(x)'
    BY <1>1, <2>2
  <2> QED BY <2>1, <2>3 DEF Had
<1>7. ASSUME NEW e \in Edits, srv'[e] = "committed" PROVE MadeBy(e, Updated(e))'
  <2>1. CASE Commit(e)
    BY <2>1, CommitMakes
  <2>2. CASE srv[e] = "committed" /\ at'[e] = at[e] /\ read'[e] = read[e] /\ request'[e] = request[e]
    <3>1. PICK x : x = Updated(e)
      OBVIOUS
    <3>2. MadeBy(e, x)'
      BY <1>2, <2>2, <3>1
    <3>3. Updated(e)' = x
      BY <2>2, <3>1 DEF Updated
    <3> QED BY <3>2, <3>3 DEF MadeBy
  <2>3. ASSUME NEW w \in Edits, NEW r, Mutate(w, r)
        PROVE  srv[e] = "committed" /\ at'[e] = at[e] /\ read'[e] = read[e] /\ request'[e] = request[e]
    BY <1>7, <2>3 DEF Mutate, Transactions, TypeOK
  <2>4. ASSUME NEW w \in Edits, Begin(w) \/ Lock(w) \/ Abort(w)
        PROVE  srv[e] = "committed" /\ at'[e] = at[e] /\ read'[e] = read[e] /\ request'[e] = request[e]
    BY <1>7, <2>4 DEF Begin, Lock, Abort, page, TypeOK
  <2>5. ASSUME NEW w \in Edits, w # e, Commit(w)
        PROVE  srv[e] = "committed" /\ at'[e] = at[e] /\ read'[e] = read[e] /\ request'[e] = request[e]
    BY <1>7, <2>5 DEF Commit, page, TypeOK
  <2>6. CASE UNCHANGED server /\ UNCHANGED request
    BY <1>7, <2>2, <2>6 DEF server
  <2> QED BY <2>1, <2>2, <2>3, <2>4, <2>5, <2>6
          DEF Next, vars, page, Save, Revert, Success, Failure, Focus, ServerReads, FetchArrives, FetchFails
<1>8. /\ panel' # NONE => \E e \in Edits : ui'[e] = "saved" /\ MadeBy(e, panel)'
      /\ \A e \in Edits : ui'[e] = "saved" => panel' # NONE
  <2>1. ASSUME NEW e \in Edits, Success(e)
        PROVE  /\ ui'[e] = "saved" /\ MadeBy(e, panel)'
               /\ panel' # NONE
    <3>1. PICK x : x = Updated(e)
      OBVIOUS
    <3>2. MadeBy(e, x)'
      BY <1>2, <1>4, <2>1, <3>1 DEF server
    <3>3. ui'[e] = "saved"
      BY <1>4, <2>1 DEF TypeOK
    <3>4. panel' = x /\ panel' # NONE
      BY <1>4, <2>1, <3>1 DEF Data
    <3>5. MadeBy(e, panel)'
      BY <3>2, <3>4 DEF MadeBy
    <3> QED BY <3>3, <3>4, <3>5
  <2>2. ASSUME panel' = panel, \A e \in Edits : ui'[e] = "saved" <=> ui[e] = "saved",
               \A e \in Edits : ui[e] = "saved" => at'[e] = at[e]
        PROVE  /\ panel' # NONE => \E e \in Edits : ui'[e] = "saved" /\ MadeBy(e, panel)'
               /\ \A e \in Edits : ui'[e] = "saved" => panel' # NONE
    <3>1. PICK x : x = panel
      OBVIOUS
    <3>2. \A e \in Edits : ui[e] = "saved" /\ MadeBy(e, x) => MadeBy(e, x)'
      BY <1>2, <2>2
    <3>3. \A e \in Edits : (MadeBy(e, panel) <=> MadeBy(e, x)) /\ (MadeBy(e, x)' => MadeBy(e, panel)')
      BY <2>2, <3>1 DEF MadeBy
    <3> QED BY <2>2, <3>2, <3>3
  <2>3. ASSUME NEW e \in Edits, NEW r, Mutate(e, r)
        PROVE  /\ panel' = panel /\ at' = at
               /\ \A w \in Edits : ui'[w] = "saved" <=> ui[w] = "saved"
    BY <2>3 DEF Mutate, TypeOK
  <2>4. ASSUME NEW e \in Edits, Failure(e)
        PROVE  /\ panel' = panel /\ at' = at
               /\ \A w \in Edits : ui'[w] = "saved" <=> ui[w] = "saved"
    BY <2>4 DEF Failure, server, TypeOK
  <2>5. ASSUME NEW e \in Edits, Begin(e)
        PROVE  /\ panel' = panel /\ ui' = ui
               /\ \A w \in Edits : ui[w] = "saved" => at'[w] = at[w]
    BY <2>5 DEF Begin, page, TypeOK, Transactions
  <2>6. CASE UNCHANGED <<panel, ui, at>>
    BY <2>2, <2>6
  <2> QED BY <2>1, <2>2, <2>3, <2>4, <2>5, <2>6
          DEF Next, vars, server, page, Save, Revert, Lock, Commit, Abort, Focus, ServerReads,
              FetchArrives, FetchFails
<1> QED BY <1>5, <1>6, <1>7, <1>8

LEMMA InitHolds == Init => IInv
<1> SUFFICES ASSUME Init PROVE IInv
  OBVIOUS
<1>1. Len(history) = 0 /\ 1..0 = {}
  BY DEF Init
<1>2. After(0) = Found
  <2>1. \A f : ValueAfter(0, f) = AI
    BY <1>1 DEF ValueAfter
  <2> QED BY <2>1 DEF After, Found
<1>3. TypeOK
  <2>1. Found \in Data
    BY DEF Found, Data
  <2>2. FetchType
    BY DEF Init, FetchType, Idle, Queries
  <2>3. cache \in Shown /\ history \in Seq(Row) /\ seen \subseteq Row
    BY <2>1 DEF Init, Shown
  <2>4. request \in [Edits -> Requests \cup {Nobody}]
    BY DEF Init
  <2>5. /\ srv \in [Edits -> {"idle", "sent", "begun", "locked", "committed", "aborted"}]
        /\ at \in [Edits -> Nat]
        /\ ui \in [Edits -> {"idle", "pending", "saved", "failed"}]
        /\ read \in [Edits -> Data \cup {NONE}] /\ snap \in [Edits -> Data \cup {NONE}]
    BY DEF Init
  <2>6. /\ data \in Data /\ flags \in Data /\ lock \in Edits \cup {NONE}
        /\ broken \in BOOLEAN /\ panel \in Data \cup {NONE}
    BY <2>1 DEF Init
  <2> QED BY <2>2, <2>3, <2>4, <2>5, <2>6 DEF TypeOK, Requests
<1>4. Transactions /\ Answers
  BY DEF Init, Transactions, Answers, Idle, Queries
<1>5. HistoryExplainsData
  BY <1>1, <1>2 DEF Init, HistoryExplainsData
<1>6. Current(cache)
  BY <1>1, <1>2 DEF Init, Current
<1>7. Page
  BY <1>6 DEF Init, Page, Idle, Queries
<1>8. FlagsOK
  BY <1>1, <1>2 DEF Init, FlagsOK, Had, Idle, Queries
<1> QED BY <1>3, <1>4, <1>5, <1>7, <1>8 DEF IInv

LEMMA Invariant == Spec => []IInv
<1>1. IInv /\ [Next]_vars => IInv'
  BY TypeStep, TransactionsStep, AnswersStep, HistoryStep, PageStep, FlagsStep DEF IInv
<1> QED BY <1>1, InitHolds, PTL DEF Spec

\* Type correctness of FieldEdit.
THEOREM FieldEditTypeCorrect == Spec => []TypeOK
<1>1. IInv => TypeOK
  BY DEF IInv
<1> QED BY <1>1, Invariant, PTL

\* No edit is lost and the history is a chain, for any number of overlapping edits.
THEOREM HistoryIsTheDocument == Spec => []HistoryExplainsData
<1>1. IInv => HistoryExplainsData
  BY DEF IInv
<1> QED BY <1>1, Invariant, PTL

\* The fields on a page at rest are those of a document the server had, with every save that
\* was reported: no optimistic value outlives the save that showed it.
THEOREM PageShowsTheServers == Spec => []CacheIsServers
<1>1. IInv => CacheIsServers
  BY DEF IInv, Page, Current, Stored, CacheIsServers, Quiet, Idle
<1> QED BY <1>1, Invariant, PTL

\* The red flags on the page (localRedFlags, or else those of the last fetch) are at any time
\* those of a document the server had, and of one that a reported save made once there is one,
\* however answers, failures and fetches are ordered: none is of a value never stored.
THEOREM PageShowsFlagsOfServer == Spec => []FlagsWereServers
<1>1. IInv => FlagsWereServers
  <2> SUFFICES ASSUME IInv PROVE FlagsWereServers
    OBVIOUS
  <2>1. CASE panel = NONE
    BY <2>1 DEF IInv, FlagsOK, Had, ShownFlags, FlagsWereServers
  <2>2. CASE panel # NONE
    <3>1. PICK e \in Edits : ui[e] = "saved" /\ MadeBy(e, panel)
      BY <2>2 DEF IInv, FlagsOK
    <3>2. PICK n \in 1..Len(history) : history[n].at = at[e] /\ panel = After(n)
      BY <3>1 DEF MadeBy
    <3>3. n \in 0..Len(history) /\ n > 0
      BY DEF IInv, TypeOK
    <3> QED BY <2>2, <3>1, <3>2, <3>3 DEF ShownFlags, FlagsWereServers
  <2> QED BY <2>1, <2>2
<1> QED BY <1>1, Invariant, PTL
==============================================================================
