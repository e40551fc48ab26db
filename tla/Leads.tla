--------------------------------- MODULE Leads ---------------------------------
(***************************************************************************)
(* Marketing leads: the requests /capture and /unsubscribe of              *)
(* workers/marketing-data/src/index.ts.  Every request is a process of its *)
(* own; D1 executes one statement at a time, and between two statements or *)
(* calls a request may be lost.                                            *)
(*                                                                         *)
(* A captured form makes a lead of its e-mail address, records one event   *)
(* for each kind of form, and for a new event enrols the address in the    *)
(* mail sequence of the Sequencer (an external service).                   *)
(***************************************************************************)
EXTENDS Naturals, FiniteSets

CONSTANTS
  Emails,    \* normalized addresses
  Kinds,     \* what makes an event unique for a lead: event_type, magnet_slug, tool_slug
  Captures,  \* requests to /capture; also the ids each of them generates
  Unsubs,    \* requests to /unsubscribe
  Form,      \* [Captures -> [email : Emails, kind : Kinds, mail : BOOLEAN]]
  NONE

ASSUME LeadsAssumption ==
  /\ Form \in [Captures -> [email : Emails, kind : Kinds, mail : BOOLEAN]]
  /\ NONE \notin Captures \cup [id : Captures, unsubscribed : BOOLEAN]

VARIABLES
  leads,       \* marketing_leads: [Emails -> NONE or the row]
  events,      \* marketing_events: rows, each with the id the request generated for it
  enrolled,    \* enrolments the Sequencer received, with the request that sent them
  mails,       \* requests whose delivery mail the mail service took
  suppressed,  \* addresses the Sequencer was told not to write to
  at,          \* [Captures -> what the request does next]
  held,        \* [Captures -> the lead id it holds]
  uat,         \* [Unsubs -> what the request does next]
  target       \* [Unsubs -> the address of the lead it read]

remote == <<enrolled, mails, suppressed>>
vars == <<leads, events, remote, at, held, uat, target>>

Init ==
  /\ leads = [e \in Emails |-> NONE]
  /\ events = {} /\ enrolled = {} /\ mails = {} /\ suppressed = {}
  /\ at = [c \in Captures |-> "new"] /\ held = [c \in Captures |-> NONE]
  /\ uat = [u \in Unsubs |-> "new"] /\ target = [u \in Unsubs |-> NONE]

Email(c) == Form[c].email
Go(c, place) == at' = [at EXCEPT ![c] = place]
GoU(u, place) == uat' = [uat EXCEPT ![u] = place]

------------------------------------------------------------------------------
(* /capture                                                                *)

\* upsertLead looks for the address, and makes an id for a new lead.
ReadLead(c) ==
  /\ at[c] = "new"
  /\ held' = [held EXCEPT ![c] = IF leads[Email(c)] = NONE THEN c ELSE leads[Email(c)].id]
  /\ Go(c, "insert")
  /\ UNCHANGED <<leads, events, remote, uat, target>>

\* INSERT ... ON CONFLICT(email) DO UPDATE: neither the id nor unsubscribed_at of a row change.
InsertLead(c) ==
  /\ at[c] = "insert"
  /\ leads' = IF leads[Email(c)] = NONE
                THEN [leads EXCEPT ![Email(c)] = [id |-> held[c], unsubscribed |-> FALSE]]
                ELSE leads
  /\ Go(c, "reread")
  /\ UNCHANGED <<events, remote, held, uat, target>>

\* Variant: the lead is taken to have the id that was made for it.
RereadLead_Trusting(c) ==
  /\ at[c] = "reread"
  /\ Go(c, "event")
  /\ UNCHANGED <<leads, events, remote, held, uat, target>>

RereadLead(c) ==
  /\ at[c] = "reread"
  /\ leads[Email(c)] # NONE
  /\ held' = [held EXCEPT ![c] = leads[Email(c)].id]
  /\ Go(c, "event")
  /\ UNCHANGED <<leads, events, remote, uat, target>>

Recorded(c) == \E v \in events : v.lead = held[c] /\ v.kind = Form[c].kind

\* Variant: what INSERT OR IGNORE changed is not looked at.
InsertEvent_AlwaysNew(c) ==
  /\ at[c] = "event"
  /\ events' = IF Recorded(c) THEN events
               ELSE events \cup {[id |-> c, lead |-> held[c], kind |-> Form[c].kind]}
  /\ Go(c, "contact")
  /\ UNCHANGED <<leads, remote, held, uat, target>>

\* INSERT OR IGNORE: a repeated submission is answered without doing more.
InsertEvent(c) ==
  /\ at[c] = "event"
  /\ IF Recorded(c)
       THEN Go(c, "answered") /\ UNCHANGED events
       ELSE /\ Go(c, "contact")
            /\ events' = events \cup {[id |-> c, lead |-> held[c], kind |-> Form[c].kind]}
  /\ UNCHANGED <<leads, remote, held, uat, target>>

\* POST /contacts
CreateContact(c) ==
  /\ at[c] = "contact"
  /\ Go(c, "enroll") \/ Go(c, "failed")
  /\ UNCHANGED <<leads, events, remote, held, uat, target>>

Enrolment(c) == [email |-> Email(c), kind |-> Form[c].kind, by |-> c]

\* Variant: an enrolment that fails is no error.
Enroll_Swallow(c) ==
  /\ at[c] = "enroll"
  /\ \/ enrolled' = enrolled \cup {Enrolment(c)}
     \/ UNCHANGED enrolled
  /\ Go(c, "mail")
  /\ UNCHANGED <<leads, events, mails, suppressed, held, uat, target>>

\* POST /enrollments; its answer may be lost, or it may fail.
Enroll(c) ==
  /\ at[c] = "enroll"
  /\ \/ enrolled' = enrolled \cup {Enrolment(c)} /\ (Go(c, "mail") \/ Go(c, "failed"))
     \/ UNCHANGED enrolled /\ Go(c, "failed")
  /\ UNCHANGED <<leads, events, mails, suppressed, held, uat, target>>

\* maybeSendLeadMagnetDelivery
SendDelivery(c) ==
  /\ at[c] = "mail"
  /\ \/ Form[c].mail /\ mails' = mails \cup {c} /\ (Go(c, "answered") \/ Go(c, "failed"))
     \/ Form[c].mail /\ UNCHANGED mails /\ Go(c, "failed")
     \/ ~Form[c].mail /\ UNCHANGED mails /\ Go(c, "answered")
  /\ UNCHANGED <<leads, events, enrolled, suppressed, held, uat, target>>

\* The request is lost, or a statement of it fails.
LoseCapture(c) ==
  /\ at[c] \notin {"new", "answered", "failed"}
  /\ Go(c, "failed")
  /\ UNCHANGED <<leads, events, remote, held, uat, target>>

------------------------------------------------------------------------------
(* /unsubscribe, called by the API for the page of the mails' link         *)

\* Variant: what is kept is the id, where the Sequencer is told an address.
FindLead_Id(u) ==
  /\ uat[u] = "new"
  /\ \E e \in Emails : leads[e] # NONE /\ target' = [target EXCEPT ![u] = leads[e].id]
  /\ GoU(u, "mark")
  /\ UNCHANGED <<leads, events, remote, at, held>>

\* The id of a link is one of a row.
FindLead(u) ==
  /\ uat[u] = "new"
  /\ \E e \in Emails : leads[e] # NONE /\ target' = [target EXCEPT ![u] = e]
  /\ GoU(u, "mark")
  /\ UNCHANGED <<leads, events, remote, at, held>>

MarkLead(u) ==
  /\ uat[u] = "mark"
  /\ leads' = [leads EXCEPT ![target[u]] = [id |-> leads[target[u]].id, unsubscribed |-> TRUE]]
  /\ GoU(u, "suppress")
  /\ UNCHANGED <<events, remote, at, held, target>>

\* Variant: a suppression that fails is no error.
Suppress_Swallow(u) ==
  /\ uat[u] = "suppress"
  /\ suppressed' \in {suppressed, suppressed \cup {target[u]}}
  /\ GoU(u, "answered")
  /\ UNCHANGED <<leads, events, enrolled, mails, at, held, target>>

Suppress(u) ==
  /\ uat[u] = "suppress"
  /\ \/ suppressed' = suppressed \cup {target[u]} /\ (GoU(u, "answered") \/ GoU(u, "failed"))
     \/ UNCHANGED suppressed /\ GoU(u, "failed")
  /\ UNCHANGED <<leads, events, enrolled, mails, at, held, target>>

LoseUnsubscribe(u) ==
  /\ uat[u] \in {"mark", "suppress"}
  /\ GoU(u, "failed")
  /\ UNCHANGED <<leads, events, remote, at, held, target>>

Next ==
  \/ \E c \in Captures :
       \/ ReadLead(c) \/ InsertLead(c) \/ RereadLead(c) \/ InsertEvent(c)
       \/ CreateContact(c) \/ Enroll(c) \/ SendDelivery(c) \/ LoseCapture(c)
  \/ \E u \in Unsubs : FindLead(u) \/ MarkLead(u) \/ Suppress(u) \/ LoseUnsubscribe(u)

Spec == Init /\ [][Next]_vars

------------------------------------------------------------------------------
(* Properties                                                              *)

Places == {"new", "insert", "reread", "event", "contact", "enroll", "mail", "answered", "failed"}

\* Every variable has its type.
TypeOK ==
  /\ leads \in [Emails -> {NONE} \cup [id : Captures, unsubscribed : BOOLEAN]]
  /\ events \subseteq [id : Captures, lead : Captures, kind : Kinds]
  /\ enrolled \subseteq [email : Emails, kind : Kinds, by : Captures]
  /\ mails \subseteq Captures /\ suppressed \subseteq Emails
  /\ at \in [Captures -> Places] /\ held \in [Captures -> Captures \cup {NONE}]
  /\ uat \in [Unsubs -> {"new", "mark", "suppress", "answered", "failed"}]
  /\ target \in [Unsubs -> Emails \cup {NONE}]

\* Each event refers to the row of the address that was submitted, also when several requests
\* found no row and made an id of their own for it.
EventsHaveLead ==
  \A v \in events : leads[Email(v.id)] # NONE /\ leads[Email(v.id)].id = v.lead

\* However often and in whatever interleaving a form is submitted, and whatever fails, an
\* address is enrolled at most once and written to at most once for each kind of form.
FollowedUpOnce ==
  /\ \A a, b \in enrolled : a.email = b.email /\ a.kind = b.kind => a = b
  /\ \A c, d \in mails : Form[c].email = Form[d].email /\ Form[c].kind = Form[d].kind => c = d

\* An event is without its enrolment, or its mail, only while the request that recorded it
\* runs, or if that request failed; nobody else makes up for it.
FollowedUpUnlessFailed ==
  \A v \in events :
    at[v.id] = "answered" =>
      /\ Enrolment(v.id) \in enrolled
      /\ Form[v.id].mail => v.id \in mails

\* Who was told that they are unsubscribed is unsubscribed in both places, and no submission
\* that was under way or came later takes the mark away.
UnsubscribedInBoth ==
  \A u \in Unsubs :
    uat[u] = "answered" =>
      /\ leads[target[u]] # NONE /\ leads[target[u]].unsubscribed
      /\ target[u] \in suppressed
==============================================================================
