------------------------------ MODULE LeadsProofs ------------------------------
(***************************************************************************)
(* Proofs about Leads, for any set of submissions and unsubscriptions.     *)
(*                                                                         *)
(* All follows from one inductive invariant: a row keeps its id, each      *)
(* event is the only one of its address and kind and belongs to the        *)
(* request that recorded it, and only that request goes on to enrol.       *)
(***************************************************************************)
EXTENDS Leads, TLAPS

USE LeadsAssumption

HasEvent(c) == \E v \in events : v.id = c
Knows(c) == leads[Email(c)] # NONE /\ leads[Email(c)].id = held[c]

\* What a request has found out before its next step.
Informed(c) ==
  /\ at[c] = "insert" => held[c] \in Captures
  /\ at[c] = "reread" => leads[Email(c)] # NONE
  /\ at[c] \in {"event", "contact", "enroll", "mail", "answered"} => Knows(c)
  /\ at[c] \in {"new", "insert", "reread", "event"} => ~HasEvent(c)
  /\ at[c] \in {"contact", "enroll", "mail"} => HasEvent(c)
  /\ at[c] = "mail" => Enrolment(c) \in enrolled

Requests == \A c \in Captures : Informed(c)

\* An event carries the form of its request, and no other has its address and kind.
Events ==
  /\ \A v \in events : v.kind = Form[v.id].kind
  /\ \A v, w \in events : Email(v.id) = Email(w.id) /\ v.kind = w.kind => v.id = w.id

\* Enrolments and mails are of requests that recorded an event.
Effects ==
  /\ \A a \in enrolled : a = Enrolment(a.by) /\ HasEvent(a.by)
  /\ \A c \in mails : HasEvent(c)

Unsubscriptions ==
  \A u \in Unsubs :
    /\ uat[u] \in {"mark", "suppress", "answered"} =>
         target[u] \in Emails /\ leads[target[u]] # NONE
    /\ uat[u] \in {"suppress", "answered"} => leads[target[u]].unsubscribed
    /\ uat[u] = "answered" => target[u] \in suppressed

IInv ==
  /\ TypeOK /\ Requests /\ EventsHaveLead /\ Events /\ Effects
  /\ FollowedUpUnlessFailed /\ Unsubscriptions

\* A row is never removed, keeps its id, and stays unsubscribed.
RowsStay ==
  \A e \in Emails :
    leads[e] # NONE =>
      /\ leads'[e] # NONE /\ leads'[e].id = leads[e].id
      /\ leads[e].unsubscribed => leads'[e].unsubscribed

LEMMA FormType ==
  ASSUME NEW c \in Captures
  PROVE  Email(c) \in Emails /\ Form[c].kind \in Kinds /\ Form[c].mail \in BOOLEAN
BY DEF Email

LEMMA RowIsSomething ==
  ASSUME NEW i \in Captures, NEW b \in BOOLEAN
  PROVE  [id |-> i, unsubscribed |-> b] # NONE
<1>1. [id |-> i, unsubscribed |-> b] \in [id : Captures, unsubscribed : BOOLEAN]
  OBVIOUS
<1> QED BY <1>1

LEMMA InitHolds == Init => IInv
BY FormType DEF Init, IInv, TypeOK, Requests, EventsHaveLead, Events, Effects,
   FollowedUpUnlessFailed, Unsubscriptions, HasEvent, Informed, Places

\* A statement in a request's own place changes no other request.
LEMMA TypeStep ==
  ASSUME IInv, [Next]_vars
  PROVE  TypeOK'
<1> USE DEF TypeOK, Places, Go, GoU, remote
<1>0. CASE UNCHANGED vars
  BY <1>0 DEF IInv, vars
<1>1. ASSUME NEW c \in Captures, ReadLead(c) PROVE TypeOK'
  BY <1>1, FormType DEF IInv, ReadLead
<1>2. ASSUME NEW c \in Captures, InsertLead(c) PROVE TypeOK'
  BY <1>2, FormType DEF IInv, InsertLead, Requests, Informed
<1>3. ASSUME NEW c \in Captures, RereadLead(c) PROVE TypeOK'
  BY <1>3, FormType DEF IInv, RereadLead
<1>4. ASSUME NEW c \in Captures, InsertEvent(c) PROVE TypeOK'
  <2>1. held[c] \in Captures
    BY <1>4, FormType DEF IInv, InsertEvent, Requests, Informed, Knows
  <2> QED BY <1>4, <2>1, FormType DEF IInv, InsertEvent
<1>5. ASSUME NEW c \in Captures, CreateContact(c) PROVE TypeOK'
  BY <1>5 DEF IInv, CreateContact
<1>6. ASSUME NEW c \in Captures, Enroll(c) PROVE TypeOK'
  BY <1>6, FormType DEF IInv, Enroll, Enrolment
<1>7. ASSUME NEW c \in Captures, SendDelivery(c) PROVE TypeOK'
  BY <1>7 DEF IInv, SendDelivery
<1>8. ASSUME NEW c \in Captures, LoseCapture(c) PROVE TypeOK'
  BY <1>8 DEF IInv, LoseCapture
<1>9. ASSUME NEW u \in Unsubs, FindLead(u) PROVE TypeOK'
  BY <1>9 DEF IInv, FindLead
<1>10. ASSUME NEW u \in Unsubs, MarkLead(u) PROVE TypeOK'
  <2>1. target[u] \in Emails /\ leads[target[u]] # NONE
    BY <1>10 DEF IInv, Unsubscriptions, MarkLead
  <2>2. leads[target[u]].id \in Captures
    BY <2>1 DEF IInv
  <2> QED BY <1>10, <2>1, <2>2 DEF IInv, MarkLead
<1>11. ASSUME NEW u \in Unsubs, Suppress(u) PROVE TypeOK'
  BY <1>11 DEF IInv, Unsubscriptions, Suppress
<1>12. ASSUME NEW u \in Unsubs, LoseUnsubscribe(u) PROVE TypeOK'
  BY <1>12 DEF IInv, LoseUnsubscribe
<1> QED
  BY <1>0, <1>1, <1>2, <1>3, <1>4, <1>5, <1>6, <1>7, <1>8, <1>9, <1>10, <1>11, <1>12 DEF Next

LEMMA RowsStep ==
  ASSUME IInv, [Next]_vars
  PROVE  RowsStay
<1>1. ASSUME NEW c \in Captures, InsertLead(c) PROVE RowsStay
  BY <1>1, FormType DEF IInv, InsertLead, RowsStay, TypeOK
<1>2. ASSUME NEW u \in Unsubs, MarkLead(u) PROVE RowsStay
  <2>1. target[u] \in Emails /\ leads[target[u]].id \in Captures
    BY <1>2 DEF IInv, Unsubscriptions, MarkLead, TypeOK
  <2> QED BY <1>2, <2>1, RowIsSomething DEF IInv, MarkLead, RowsStay, TypeOK
<1>3. CASE leads' = leads
  BY <1>3 DEF RowsStay
<1>4. \/ leads' = leads
      \/ \E c \in Captures : InsertLead(c)
      \/ \E u \in Unsubs : MarkLead(u)
  BY DEF Next, vars, ReadLead, RereadLead, InsertEvent, CreateContact, Enroll, SendDelivery,
     LoseCapture, FindLead, Suppress, LoseUnsubscribe, remote
<1> QED BY <1>1, <1>2, <1>3, <1>4

\* Events are only added, by a request that had none and whose lead is without this kind.
LEMMA EventsStep ==
  ASSUME IInv, [Next]_vars
  PROVE  \/ events' = events
         \/ \E c \in Captures :
              /\ at[c] = "event" /\ at'[c] = "contact" /\ ~Recorded(c)
              /\ events' = events \cup {[id |-> c, lead |-> held[c], kind |-> Form[c].kind]}
              /\ UNCHANGED <<enrolled, mails, leads, held>>
              /\ \A d \in Captures : d # c => at'[d] = at[d]
<1>1. ASSUME NEW c \in Captures, InsertEvent(c)
      PROVE  \/ events' = events
             \/ /\ at[c] = "event" /\ at'[c] = "contact" /\ ~Recorded(c)
                /\ events' = events \cup {[id |-> c, lead |-> held[c], kind |-> Form[c].kind]}
                /\ UNCHANGED <<enrolled, mails, leads, held>>
                /\ \A d \in Captures : d # c => at'[d] = at[d]
  BY <1>1 DEF InsertEvent, IInv, TypeOK, Go, remote
<1>2. events' = events \/ \E c \in Captures : InsertEvent(c)
  BY DEF Next, vars, ReadLead, InsertLead, RereadLead, CreateContact, Enroll, SendDelivery,
     LoseCapture, FindLead, MarkLead, Suppress, LoseUnsubscribe
<1> QED BY <1>1, <1>2

LEMMA EventsInvStep ==
  ASSUME IInv, [Next]_vars
  PROVE  EventsHaveLead' /\ Events'
<1>1. CASE events' = events
  <2>1. EventsHaveLead'
    <3> SUFFICES ASSUME NEW v \in events
                 PROVE  leads'[Email(v.id)] # NONE /\ leads'[Email(v.id)].id = v.lead
      BY <1>1 DEF EventsHaveLead, Email
    <3>1. v.id \in Captures
      BY DEF IInv, TypeOK
    <3> QED BY <3>1, FormType, RowsStep DEF IInv, EventsHaveLead, RowsStay
  <2> QED BY <1>1, <2>1 DEF IInv, Events, Email
<1>2. ASSUME NEW c \in Captures,
             at[c] = "event", ~Recorded(c), UNCHANGED leads,
             events' = events \cup {[id |-> c, lead |-> held[c], kind |-> Form[c].kind]}
      PROVE  EventsHaveLead' /\ Events'
  <2>1. leads[Email(c)] # NONE /\ leads[Email(c)].id = held[c]
    BY <1>2 DEF IInv, Requests, Informed, Knows
  <2>2. EventsHaveLead'
    BY <1>2, <2>1 DEF IInv, EventsHaveLead, Email
  <2>3. \A v \in events : Email(v.id) = Email(c) => v.kind # Form[c].kind
    BY <1>2, <2>1 DEF IInv, EventsHaveLead, Recorded
  <2>4. Events'
    BY <1>2, <2>3 DEF IInv, Events, Email
  <2> QED BY <2>2, <2>4
<1> QED BY <1>1, <1>2, EventsStep

\* What the Sequencer and the mail service received stays, and grows by requests with events.
LEMMA EffectsStep ==
  ASSUME IInv, [Next]_vars
  PROVE  /\ enrolled \subseteq enrolled' /\ mails \subseteq mails' /\ suppressed \subseteq suppressed'
         /\ \A c \in Captures : HasEvent(c) => HasEvent(c)'
         /\ Effects'
<1>1. \A c \in Captures : HasEvent(c) => HasEvent(c)'
  BY EventsStep DEF HasEvent
<1>2. enrolled' = enrolled
      \/ \E c \in Captures : at[c] = "enroll" /\ enrolled' = enrolled \cup {Enrolment(c)}
  BY DEF Next, vars, remote, ReadLead, InsertLead, RereadLead, InsertEvent, CreateContact, Enroll,
     SendDelivery, LoseCapture, FindLead, MarkLead, Suppress, LoseUnsubscribe
<1>3. mails' = mails \/ \E c \in Captures : at[c] = "mail" /\ mails' = mails \cup {c}
  BY DEF Next, vars, remote, ReadLead, InsertLead, RereadLead, InsertEvent, CreateContact, Enroll,
     SendDelivery, LoseCapture, FindLead, MarkLead, Suppress, LoseUnsubscribe
<1>4. suppressed \subseteq suppressed'
  BY DEF Next, vars, remote, ReadLead, InsertLead, RereadLead, InsertEvent, CreateContact, Enroll,
     SendDelivery, LoseCapture, FindLead, MarkLead, Suppress, LoseUnsubscribe
<1>5. \A c \in Captures : at[c] \in {"enroll", "mail"} => HasEvent(c)
  BY DEF IInv, Requests, Informed
<1>6. \A a \in enrolled' : a = Enrolment(a.by) /\ a.by \in Captures /\ HasEvent(a.by)
  <2>1. \A a \in enrolled : a = Enrolment(a.by) /\ a.by \in Captures /\ HasEvent(a.by)
    BY DEF IInv, TypeOK, Effects
  <2>2. \A c \in Captures : Enrolment(c).by = c
    BY DEF Enrolment
  <2> QED BY <1>2, <1>5, <2>1, <2>2
<1>7. \A c \in mails' : c \in Captures /\ HasEvent(c)
  BY <1>3, <1>5 DEF IInv, TypeOK, Effects
<1>8. Effects'
  BY <1>1, <1>6, <1>7 DEF Effects, Enrolment, Email
<1> QED BY <1>1, <1>2, <1>3, <1>4, <1>8

\* What a request that stays where it is has found out stays true.
LEMMA InformedStays ==
  ASSUME IInv, [Next]_vars, NEW d \in Captures, at'[d] = at[d], held'[d] = held[d]
  PROVE  Informed(d)'
<1>1. Informed(d) /\ RowsStay /\ enrolled \subseteq enrolled' /\ (HasEvent(d) => HasEvent(d)')
  BY RowsStep, EffectsStep DEF IInv, Requests
<1>2. HasEvent(d)' => HasEvent(d) \/ (at[d] = "event" /\ at'[d] = "contact")
  BY EventsStep DEF HasEvent
<1>3. Knows(d) => Knows(d)'
  BY <1>1, FormType DEF Knows, RowsStay, Email
<1>4. leads[Email(d)] # NONE => leads'[Email(d)] # NONE
  BY <1>1, FormType DEF RowsStay
<1> QED BY <1>1, <1>2, <1>3, <1>4 DEF Informed, Email, Enrolment

LEMMA RequestsStep ==
  ASSUME IInv, [Next]_vars
  PROVE  Requests'
<1> SUFFICES ASSUME NEW d \in Captures PROVE Informed(d)'
  BY DEF Requests
<1> USE DEF Go, remote
<1>0. TypeOK /\ Informed(d)
  BY DEF IInv, Requests
<1>s. CASE at'[d] = at[d] /\ held'[d] = held[d]
  BY <1>s, InformedStays
<1>1. CASE ReadLead(d)
  <2>1. at'[d] = "insert" /\ held'[d] \in Captures /\ ~HasEvent(d)'
    BY <1>0, <1>1, FormType DEF ReadLead, TypeOK, Informed, HasEvent
  <2> QED BY <2>1 DEF Informed
<1>2. CASE InsertLead(d)
  <2>1. at'[d] = "reread" /\ leads'[Email(d)] # NONE /\ ~HasEvent(d)'
    BY <1>0, <1>2, FormType, RowIsSomething DEF InsertLead, TypeOK, Informed, HasEvent
  <2> QED BY <2>1 DEF Informed, Email
<1>3. CASE RereadLead(d)
  <2>1. at'[d] = "event" /\ ~HasEvent(d)' /\ leads'[Email(d)] # NONE /\ leads'[Email(d)].id = held'[d]
    BY <1>0, <1>3, FormType DEF RereadLead, TypeOK, Informed, HasEvent
  <2> QED BY <2>1 DEF Informed, Knows, Email
<1>4. CASE InsertEvent(d)
  <2>1. leads'[Email(d)] # NONE /\ leads'[Email(d)].id = held'[d]
    BY <1>0, <1>4 DEF InsertEvent, Informed, Knows
  <2>e. [id |-> d, lead |-> held[d], kind |-> Form[d].kind].id = d
    OBVIOUS
  <2>2. at'[d] = "answered" \/ (at'[d] = "contact" /\ \E v \in events' : v.id = d)
    BY <1>0, <1>4, <2>e DEF InsertEvent, TypeOK
  <2> QED BY <2>1, <2>2 DEF Informed, Knows, Email, HasEvent
<1>5. CASE CreateContact(d)
  <2>1. at'[d] \in {"enroll", "failed"} /\ Knows(d) /\ HasEvent(d) /\ UNCHANGED <<leads, held, events>>
    BY <1>0, <1>5 DEF CreateContact, TypeOK, Informed
  <2> QED BY <2>1 DEF Informed, Knows, HasEvent, Email
<1>6. CASE Enroll(d)
  <2>1. at'[d] \in {"mail", "failed"} /\ Knows(d) /\ HasEvent(d) /\ UNCHANGED <<leads, held, events>>
    BY <1>0, <1>6 DEF Enroll, TypeOK, Informed
  <2>2. at'[d] = "mail" => Enrolment(d) \in enrolled'
    BY <1>0, <1>6 DEF Enroll, TypeOK
  <2> QED BY <2>1, <2>2 DEF Informed, Knows, HasEvent, Email, Enrolment
<1>7. CASE SendDelivery(d)
  <2>1. at'[d] \in {"answered", "failed"} /\ Knows(d) /\ UNCHANGED <<leads, held>>
    BY <1>0, <1>7 DEF SendDelivery, TypeOK, Informed
  <2> QED BY <2>1 DEF Informed, Knows, Email
<1>8. CASE LoseCapture(d)
  <2>1. at'[d] = "failed"
    BY <1>0, <1>8 DEF LoseCapture, TypeOK
  <2> QED BY <2>1 DEF Informed
<1>9. \/ at'[d] = at[d] /\ held'[d] = held[d]
      \/ ReadLead(d) \/ InsertLead(d) \/ RereadLead(d) \/ InsertEvent(d)
      \/ CreateContact(d) \/ Enroll(d) \/ SendDelivery(d) \/ LoseCapture(d)
  <2>1. CASE UNCHANGED vars
    BY <2>1 DEF vars
  <2>2. ASSUME NEW u \in Unsubs, FindLead(u) \/ MarkLead(u) \/ Suppress(u) \/ LoseUnsubscribe(u)
        PROVE  at'[d] = at[d] /\ held'[d] = held[d]
    BY <2>2 DEF FindLead, MarkLead, Suppress, LoseUnsubscribe
  <2>3. ASSUME NEW c \in Captures, c # d,
               \/ ReadLead(c) \/ InsertLead(c) \/ RereadLead(c) \/ InsertEvent(c)
               \/ CreateContact(c) \/ Enroll(c) \/ SendDelivery(c) \/ LoseCapture(c)
        PROVE  at'[d] = at[d] /\ held'[d] = held[d]
    BY <1>0, <2>3 DEF ReadLead, InsertLead, RereadLead, InsertEvent, CreateContact, Enroll,
       SendDelivery, LoseCapture, TypeOK
  <2> QED BY <2>1, <2>2, <2>3 DEF Next
<1> QED BY <1>s, <1>1, <1>2, <1>3, <1>4, <1>5, <1>6, <1>7, <1>8, <1>9

\* A request is answered with an event of its own only after its enrolment and its mail.
LEMMA FollowedUpStep ==
  ASSUME IInv, [Next]_vars
  PROVE  FollowedUpUnlessFailed'
<1> SUFFICES ASSUME NEW v \in events', at'[v.id] = "answered"
             PROVE  Enrolment(v.id) \in enrolled' /\ (Form[v.id].mail => v.id \in mails')
  BY DEF FollowedUpUnlessFailed, Enrolment, Email
<1> DEFINE c == v.id
<1>1. c \in Captures /\ HasEvent(c)'
  BY TypeStep DEF TypeOK, HasEvent
<1>2. HasEvent(c)
  BY <1>1, EventsStep DEF HasEvent
<1>3. enrolled \subseteq enrolled' /\ mails \subseteq mails'
  BY EffectsStep
<1>4. CASE at[c] = "answered"
  BY <1>1, <1>2, <1>3, <1>4 DEF IInv, FollowedUpUnlessFailed, HasEvent
<1>5. CASE at[c] # "answered"
  <2>1. InsertEvent(c) \/ SendDelivery(c)
    <3> USE <1>1, <1>5 DEF IInv, TypeOK, Go
    <3>1. CASE UNCHANGED at
      BY <3>1
    <3>2. ASSUME NEW d \in Captures,
                 \/ ReadLead(d) \/ InsertLead(d) \/ RereadLead(d)
                 \/ CreateContact(d) \/ Enroll(d) \/ LoseCapture(d)
          PROVE  FALSE
      BY <3>2 DEF ReadLead, InsertLead, RereadLead, CreateContact, Enroll, LoseCapture
    <3>3. ASSUME NEW d \in Captures, InsertEvent(d) \/ SendDelivery(d)
          PROVE  d = c
      BY <3>3 DEF InsertEvent, SendDelivery
    <3> QED BY <3>1, <3>2, <3>3 DEF Next, vars, FindLead, MarkLead, Suppress, LoseUnsubscribe
  <2>2. at[c] # "event"
    BY <1>1, <1>2 DEF IInv, Requests, Informed
  <2>3. SendDelivery(c)
    BY <2>1, <2>2 DEF InsertEvent
  <2>4. Enrolment(c) \in enrolled
    BY <1>1, <2>3 DEF SendDelivery, IInv, Requests, Informed
  <2>5. Form[c].mail => c \in mails'
    BY <1>1, <2>3, FormType DEF SendDelivery, IInv, TypeOK, Go
  <2> QED BY <1>3, <2>4, <2>5
<1> QED BY <1>4, <1>5

LEMMA UnsubscriptionsStep ==
  ASSUME IInv, [Next]_vars
  PROVE  Unsubscriptions'
<1> SUFFICES ASSUME NEW w \in Unsubs
             PROVE  /\ uat'[w] \in {"mark", "suppress", "answered"} =>
                         target'[w] \in Emails /\ leads'[target'[w]] # NONE
                    /\ uat'[w] \in {"suppress", "answered"} => leads'[target'[w]].unsubscribed
                    /\ uat'[w] = "answered" => target'[w] \in suppressed'
  BY DEF Unsubscriptions
<1> USE DEF GoU, remote
<1>0. TypeOK /\ Unsubscriptions /\ RowsStay /\ suppressed \subseteq suppressed'
  BY RowsStep, EffectsStep DEF IInv
<1>1. CASE uat'[w] = uat[w] /\ target'[w] = target[w]
  BY <1>0, <1>1 DEF Unsubscriptions, RowsStay
<1>2. CASE FindLead(w)
  BY <1>0, <1>2 DEF FindLead, TypeOK
<1>3. CASE MarkLead(w)
  <2>1. target[w] \in Emails /\ leads[target[w]].id \in Captures
    BY <1>0, <1>3 DEF MarkLead, TypeOK, Unsubscriptions
  <2>2. uat'[w] = "suppress" /\ target'[w] = target[w]
    BY <1>0, <1>3 DEF MarkLead, TypeOK
  <2> QED BY <1>0, <1>3, <2>1, <2>2, RowIsSomething DEF MarkLead, TypeOK
<1>4. CASE Suppress(w)
  BY <1>0, <1>4 DEF Suppress, TypeOK, Unsubscriptions
<1>5. CASE LoseUnsubscribe(w)
  BY <1>0, <1>5 DEF LoseUnsubscribe, TypeOK
<1>6. \/ uat'[w] = uat[w] /\ target'[w] = target[w]
      \/ FindLead(w) \/ MarkLead(w) \/ Suppress(w) \/ LoseUnsubscribe(w)
  <2>1. CASE UNCHANGED <<uat, target>>
    BY <2>1
  <2>2. ASSUME NEW u \in Unsubs, u # w,
               FindLead(u) \/ MarkLead(u) \/ Suppress(u) \/ LoseUnsubscribe(u)
        PROVE  uat'[w] = uat[w] /\ target'[w] = target[w]
    BY <1>0, <2>2 DEF FindLead, MarkLead, Suppress, LoseUnsubscribe, TypeOK
  <2> QED BY <2>1, <2>2 DEF Next, vars, ReadLead, InsertLead, RereadLead, InsertEvent,
          CreateContact, Enroll, SendDelivery, LoseCapture
<1> QED BY <1>1, <1>2, <1>3, <1>4, <1>5, <1>6

LEMMA Invariant == Spec => []IInv
<1>1. IInv /\ [Next]_vars => IInv'
  BY TypeStep, RequestsStep, EventsInvStep, EffectsStep, FollowedUpStep, UnsubscriptionsStep DEF IInv
<1> QED BY <1>1, InitHolds, PTL DEF Spec

\* Type correctness of Leads.
THEOREM LeadsTypeCorrect == Spec => []TypeOK
<1>1. IInv => TypeOK
  BY DEF IInv
<1> QED BY <1>1, Invariant, PTL

\* Each event refers to the row of the address that was submitted, however many requests made
\* an id for that address at the same time.
THEOREM EventsReferToLeads == Spec => []EventsHaveLead
<1>1. IInv => EventsHaveLead
  BY DEF IInv
<1> QED BY <1>1, Invariant, PTL

\* At most one enrolment and one mail for an address and a kind of form.
THEOREM LeadsFollowedUpOnce == Spec => []FollowedUpOnce
<1>1. IInv => FollowedUpOnce
  <2> SUFFICES ASSUME IInv PROVE FollowedUpOnce
    OBVIOUS
  <2>1. \A c, d \in Captures :
          HasEvent(c) /\ HasEvent(d) /\ Email(c) = Email(d) /\ Form[c].kind = Form[d].kind => c = d
    BY DEF HasEvent, IInv, Events
  <2>2. \A a \in enrolled : /\ a = Enrolment(a.by) /\ a.by \in Captures /\ HasEvent(a.by)
                            /\ a.email = Email(a.by) /\ a.kind = Form[a.by].kind
    BY DEF IInv, Effects, TypeOK, Enrolment
  <2>3. \A c \in mails : c \in Captures /\ HasEvent(c)
    BY DEF IInv, Effects, TypeOK
  <2>4. \A a, b \in enrolled : a.email = b.email /\ a.kind = b.kind => a = b
    BY <2>1, <2>2
  <2>5. \A c, d \in mails : Form[c].email = Form[d].email /\ Form[c].kind = Form[d].kind => c = d
    BY <2>1, <2>3 DEF Email
  <2> QED BY <2>4, <2>5 DEF FollowedUpOnce
<1> QED BY <1>1, Invariant, PTL

\* Only a request that failed leaves its event without the enrolment or the mail.
THEOREM LeadsFollowedUp == Spec => []FollowedUpUnlessFailed
<1>1. IInv => FollowedUpUnlessFailed
  BY DEF IInv
<1> QED BY <1>1, Invariant, PTL

\* An answered unsubscription holds in the row and at the Sequencer, from then on.
THEOREM LeadsUnsubscribed == Spec => []UnsubscribedInBoth
<1>1. IInv => UnsubscribedInBoth
  BY DEF IInv, Unsubscriptions, UnsubscribedInBoth
<1> QED BY <1>1, Invariant, PTL
==============================================================================
