------------------------------ MODULE FieldEdit ------------------------------
(***************************************************************************)
(* Inline editing of one paid extraction: the optimistic mutation of the   *)
(* results page (frontend/hooks/use-field-edit.ts), the queries it races   *)
(* with, and the transaction behind PATCH /extractions/{id}/fields         *)
(* (repositories/extractions.ts, editExtractionField).                     *)
(*                                                                         *)
(* A row stays in its editor until its save was answered, so one field may *)
(* have several saves under way; rows of different fields always may.      *)
(***************************************************************************)
EXTENDS Naturals, Sequences, FiniteSets, Functions

CONSTANTS
  Edits,    \* saves and reverts the user makes (bound)
  Fields, Values,
  AI,       \* the value extraction found, of every field
  NONE

ASSUME FieldEditAssumption ==
  /\ AI \in Values /\ IsFiniteSet(Edits)
  /\ NONE \notin Edits \cup [Fields -> Values]

Queries == {"detail", "edits"}
Data    == [Fields -> Values]

VARIABLES
  data,     \* extractions.extracted_data, a value per field
  flags,    \* extractions.red_flags, as the data they were detected in
  history,  \* extraction_edits, in the order of the commits
  lock,     \* the transaction that holds the row
  srv,      \* the transaction of an edit: how far it is
  at,       \* its NOW(): its place in the order of the BEGINs
  read,     \* the extracted_data its SELECT ... FOR UPDATE returned
  ui,       \* the mutation of an edit
  request,  \* its field, its value, and whether it is "Revert to AI value"
  snap,     \* context.previousData
  cache,    \* the page's copy of the extraction
  broken,   \* the last fetch of it failed: the page shows an error instead of the rows
  seen,     \* the page's copy of the edit history
  panel,    \* localRedFlags: NONE, or what the last answered edit returned
  fetch     \* a request under way for each query, and what the server answered

server == <<data, flags, history, lock, srv, at, read>>
page   == <<ui, request, snap, cache, broken, seen, panel>>
vars   == <<server, page, fetch>>

Found  == [f \in Fields |-> AI]
Shown  == [data : Data, flags : Data]
Row    == [field : Fields, from : Values, to : Values, at : Nat]
Idle   == [pc |-> "idle", answer |-> NONE]
Asked  == [pc |-> "asked", answer |-> NONE]
Nobody == [field |-> NONE, value |-> NONE, revert |-> FALSE]

Init ==
  /\ data = Found /\ flags = Found /\ history = <<>> /\ lock = NONE
  /\ srv = [e \in Edits |-> "idle"] /\ at = [e \in Edits |-> 0]
  /\ read = [e \in Edits |-> NONE]
  /\ ui = [e \in Edits |-> "idle"] /\ request = [e \in Edits |-> Nobody]
  /\ snap = [e \in Edits |-> NONE]
  /\ cache = [data |-> Found, flags |-> Found] /\ broken = FALSE
  /\ seen = {} /\ panel = NONE
  /\ fetch = [q \in Queries |-> Idle]

-----------------------------------------------------------------------------
(* The page.  The key of the detail query is a prefix of the edits query's, *)
(* so cancelling or invalidating the one does it to both.                   *)

CancelQueries     == fetch' = [q \in Queries |-> Idle]
InvalidateQueries == fetch' = [q \in Queries |-> Asked]

\* onMutate: cancel, remember what is shown, show the new value.
Mutate(e, r) ==
  /\ ui[e] = "idle" /\ ~broken
  /\ CancelQueries
  /\ snap' = [snap EXCEPT ![e] = cache.data]
  /\ cache' = [cache EXCEPT !.data = [@ EXCEPT ![r.field] = r.value]]
  /\ ui' = [ui EXCEPT ![e] = "pending"] /\ request' = [request EXCEPT ![e] = r]
  /\ srv' = [srv EXCEPT ![e] = "sent"]
  /\ UNCHANGED <<data, flags, history, lock, at, read, broken, seen, panel>>

Save(e) ==
  \E f \in Fields, v \in Values : Mutate(e, [field |-> f, value |-> v, revert |-> FALSE])

\* originalValues: the history comes newest first, and the first row of a field counts.
Revert(e) ==
  \E r \in seen :
    /\ \A s \in seen : s.field = r.field => s.at <= r.at
    /\ Mutate(e, [field |-> r.field, value |-> r.from, revert |-> TRUE])

\* updatedData: what an edit makes of the document that it read
Updated(e) == [read[e] EXCEPT ![request[e].field] = request[e].value]

\* Variant: the flags are taken from what the page shows instead of from the answer.
Success_Optimistic(e) ==
  /\ ui[e] = "pending" /\ srv[e] = "committed"
  /\ ui' = [ui EXCEPT ![e] = "saved"]
  /\ cache' = [cache EXCEPT !.flags = cache.data] /\ panel' = cache.data
  /\ broken' = FALSE
  /\ InvalidateQueries
  /\ UNCHANGED <<server, request, snap, seen>>

\* onSuccess and onSettled, then handleEditComplete: the flags of the answer are those of the
\* document the edit made.
Success(e) ==
  /\ ui[e] = "pending" /\ srv[e] = "committed"
  /\ ui' = [ui EXCEPT ![e] = "saved"]
  /\ cache' = [cache EXCEPT !.flags = Updated(e)] /\ panel' = Updated(e)
  /\ broken' = FALSE
  /\ InvalidateQueries
  /\ UNCHANGED <<server, request, snap, seen>>

\* Variant: no refetch after a failure, the restored value is taken for the server's.
Failure_NoRefetch(e) ==
  /\ ui[e] = "pending"
  /\ ui' = [ui EXCEPT ![e] = "failed"]
  /\ cache' = [cache EXCEPT !.data =
       [@ EXCEPT ![request[e].field] = snap[e][request[e].field]]]
  /\ broken' = FALSE
  /\ UNCHANGED <<server, request, snap, seen, panel, fetch>>

\* Variant: the document is put back in the place of the extraction.
Failure_Bare(e) ==
  /\ ui[e] = "pending"
  /\ ui' = [ui EXCEPT ![e] = "failed"]
  /\ cache' = snap[e]
  /\ broken' = FALSE
  /\ InvalidateQueries
  /\ UNCHANGED <<server, request, snap, seen, panel>>

\* onError and onSettled: the server refused, or nothing was heard of it.
Failure(e) ==
  /\ ui[e] = "pending"
  /\ ui' = [ui EXCEPT ![e] = "failed"]
  /\ cache' = [cache EXCEPT !.data =
       [@ EXCEPT ![request[e].field] = snap[e][request[e].field]]]
  /\ broken' = FALSE
  /\ InvalidateQueries
  /\ UNCHANGED <<server, request, snap, seen, panel>>

-----------------------------------------------------------------------------
(* The transaction.                                                        *)

Begin(e) ==
  /\ srv[e] = "sent"
  /\ srv' = [srv EXCEPT ![e] = "begun"]
  /\ at' = [at EXCEPT ![e] = Cardinality({o \in Edits : at[o] # 0}) + 1]
  /\ UNCHANGED <<data, flags, history, lock, read, page, fetch>>

\* Variant: the SELECT without FOR UPDATE.
Lock_NoForUpdate(e) ==
  /\ srv[e] = "begun"
  /\ srv' = [srv EXCEPT ![e] = "locked"]
  /\ read' = [read EXCEPT ![e] = data]
  /\ UNCHANGED <<data, flags, history, lock, at, page, fetch>>

\* SELECT ... FOR UPDATE
Lock(e) ==
  /\ srv[e] = "begun" /\ lock = NONE
  /\ srv' = [srv EXCEPT ![e] = "locked"] /\ lock' = e
  /\ read' = [read EXCEPT ![e] = data]
  /\ UNCHANGED <<data, flags, history, at, page, fetch>>

\* The UPDATE of the whole document, the INSERT of the history row, COMMIT.
Commit(e) ==
  LET f == request[e].field IN
  /\ srv[e] = "locked"
  /\ data' = Updated(e) /\ flags' = Updated(e)
  /\ history' = Append(history,
       [field |-> f, from |-> read[e][f], to |-> request[e].value, at |-> at[e]])
  /\ srv' = [srv EXCEPT ![e] = "committed"]
  /\ lock' = IF lock = e THEN NONE ELSE lock
  /\ UNCHANGED <<at, read, page, fetch>>

\* Refused, not found, a statement failed, or the worker was lost: ROLLBACK.
Abort(e) ==
  /\ srv[e] \in {"sent", "begun", "locked"}
  /\ srv' = [srv EXCEPT ![e] = "aborted"]
  /\ lock' = IF lock = e THEN NONE ELSE lock
  /\ UNCHANGED <<data, flags, history, at, read, page, fetch>>

-----------------------------------------------------------------------------
(* The queries.                                                            *)

\* The window gets the focus, or the user asks for a retry.
Focus(q) ==
  /\ fetch[q] = Idle
  /\ fetch' = [fetch EXCEPT ![q] = Asked]
  /\ UNCHANGED <<server, page>>

\* GET /extractions/{id}
Extraction == [data |-> data, flags |-> flags]

\* GET /extractions/{id}, GET /extractions/{id}/edits
ServerReads(q) ==
  /\ fetch[q].pc = "asked"
  /\ fetch' = [fetch EXCEPT ![q] =
       [pc |-> "read", answer |-> IF q = "detail" THEN Extraction ELSE Range(history)]]
  /\ UNCHANGED <<server, page>>

FetchArrives(q) ==
  /\ fetch[q].pc = "read"
  /\ fetch' = [fetch EXCEPT ![q] = Idle]
  /\ IF q = "detail"
     THEN cache' = fetch[q].answer /\ broken' = FALSE /\ UNCHANGED seen
     ELSE seen' = fetch[q].answer /\ UNCHANGED <<cache, broken>>
  /\ UNCHANGED <<server, ui, request, snap, panel>>

\* Twice in a row: queries are retried once.
FetchFails(q) ==
  /\ fetch[q] # Idle
  /\ fetch' = [fetch EXCEPT ![q] = Idle]
  /\ broken' = (broken \/ q = "detail")
  /\ UNCHANGED <<server, ui, request, snap, cache, seen, panel>>

Next ==
  \/ \E e \in Edits :
       \/ Save(e) \/ Revert(e) \/ Success(e) \/ Failure(e)
       \/ Begin(e) \/ Lock(e) \/ Commit(e) \/ Abort(e)
  \/ \E q \in Queries :
       Focus(q) \/ ServerReads(q) \/ FetchArrives(q) \/ FetchFails(q)

Spec == Init /\ [][Next]_vars

\* redFlags, what the page shows as the red flags
ShownFlags == IF panel = NONE THEN cache.flags ELSE panel

-----------------------------------------------------------------------------
(* Properties.                                                             *)

FetchType ==
  /\ DOMAIN fetch = Queries
  /\ fetch["detail"] \in [pc : {"idle", "asked", "read"}, answer : Shown \cup {NONE}]
  /\ fetch["edits"] \in [pc : {"idle", "asked", "read"}, answer : (SUBSET Row) \cup {NONE}]

\* Every variable has its type; the page always has a whole document to show.
TypeOK ==
  /\ data \in Data /\ flags \in Data /\ history \in Seq(Row)
  /\ lock \in Edits \cup {NONE}
  /\ srv \in [Edits -> {"idle", "sent", "begun", "locked", "committed", "aborted"}]
  /\ at \in [Edits -> Nat]
  /\ read \in [Edits -> Data \cup {NONE}]
  /\ ui \in [Edits -> {"idle", "pending", "saved", "failed"}]
  /\ request \in [Edits -> [field : Fields, value : Values, revert : BOOLEAN] \cup {Nobody}]
  /\ snap \in [Edits -> Data \cup {NONE}]
  /\ cache \in Shown /\ broken \in BOOLEAN /\ seen \subseteq Row
  /\ panel \in Data \cup {NONE}
  /\ FetchType

\* The value of a field, and the document, after the first n edits of the history.
ValueAfter(n, f) ==
  LET rows == {i \in 1..n : history[i].field = f} IN
  IF rows = {} THEN AI ELSE history[CHOOSE i \in rows : \A j \in rows : j <= i].to

After(n) == [f \in Fields |-> ValueAfter(n, f)]

\* However edits of the same and of other fields overlap, the document is what
\* its history says: every row of extraction_edits starts from the value the one
\* before it left, nothing an edit stored is missing, and the red flags are those
\* of the document as it is.
HistoryExplainsData ==
  /\ data = After(Len(history)) /\ flags = data
  /\ \A n \in 1..Len(history) : history[n].from = ValueAfter(n - 1, history[n].field)

\* Once no save and no fetch is under way the fields on the page are those of a
\* document the server had, and one that holds every save reported as saved: no
\* optimistic value outlives the save that showed it.  (Of fields only: see below.)
CacheIsServers ==
  ((\A e \in Edits : ui[e] # "pending") /\ fetch["detail"] = Idle /\ ~broken) =>
    \E n \in 0..Len(history) :
      /\ cache.data = After(n)
      /\ \A e \in Edits : ui[e] = "saved" => \E i \in 1..n : history[i].at = at[e]

\* The red flags on the page are at any time those of a document the server had, never of one
\* it only would have if every save were accepted: at first the one last
\* fetched, then the one that a save reported as saved made, other edits before it included.
\* (It need not be the last: localRedFlags is never refreshed by a fetch, so it stays behind
\* when two answers arrive out of the order of the commits, or a later one does not arrive.)
FlagsWereServers ==
  LET saved == {e \in Edits : ui[e] = "saved"} IN
  \E n \in 0..Len(history) :
    /\ ShownFlags = After(n)
    /\ saved # {} => n > 0 /\ \E e \in saved : history[n].at = at[e]

\* "Revert to AI value" restores what extraction found.
RevertRestoresAI ==
  \A e \in Edits : request[e].revert => request[e].value = AI
==============================================================================
