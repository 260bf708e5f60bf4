------------------------------ MODULE Referrals ------------------------------
(***************************************************************************)
(* Submissions of the referral form.  A submission is one HTTP handler     *)
(* that awaits the database and the CRM several times; between two awaits  *)
(* any other handler, the bounty service and the calendar may move.  The   *)
(* model gives every stretch between two awaits an action of its own.      *)
(*                                                                         *)
(* A submission refused before create_first_application (rate limit,       *)
(* captcha, honeypot, short name, bad phone) touches nothing kept here and *)
(* is not represented.                                                     *)
(***************************************************************************)
EXTENDS Integers, Sequences, FiniteSets

CONSTANTS
  Agents,          \* partners whose referral links are used
  Phones,          \* normalised client phones
  Requests,        \* handler slots; two slots are two concurrent submissions
  ExpiryDays,      \* FIXATION_EXPIRY_DAYS
  MaxDay,          \* bound: days the calendar advances
  MaxSubmissions,  \* bound: submissions that reach create_first_application
  MaxDeaths        \* bound: handlers cut off half way

ASSUME ReferralsAssumption ==
  /\ ExpiryDays \in Nat
  /\ MaxDay \in Nat
  /\ MaxSubmissions \in Nat
  /\ MaxDeaths \in Nat

VARIABLES
  day,          \* the date the code reads from the clock
  apps,         \* table referral_applications, in insertion (id) order
  rewarded,     \* ids of the applications that have a Reward row
  leads,        \* CRM: number of leads created for each application
  notices,      \* admin Telegram notices delivered: <<application, claim>>
  pc,           \* where each handler stands
  form,         \* the agent and phone a handler works for
  latest,       \* the application a handler found (0 when none)
  mine,         \* the application a handler inserted (0 when none)
  reply,        \* what create_lead gave the handler
  submissions, deaths,
  view,         \* history: what a handler has read when it decides
  basis         \* history: the view each application was inserted on

handlerVars == <<pc, form, latest, mine, reply, view>>
vars == <<day, apps, rewarded, leads, notices, handlerVars,
          submissions, deaths, basis>>

Forms == [agent : Agents, phone : Phones]
Delivery == {"PENDING", "SENT", "FAILED"}
Application == [agent : Agents, phone : Phones, created : Nat, delivery : Delivery]

Ids == DOMAIN apps
SamePhone(i, j) == apps[i].phone = apps[j].phone
OfPhone(p) == {i \in Ids : apps[i].phone = p}

\* A mutated LatestOf: ascending order.
FirstOf(p) == {i \in OfPhone(p) : \A j \in OfPhone(p) : apps[i].created <= apps[j].created}

\* ORDER BY created_at DESC LIMIT 1; the model's clock counts days, so among
\* the applications of one day the database may return any.
LatestOf(p) == {i \in OfPhone(p) : \A j \in OfPhone(p) : apps[j].created <= apps[i].created}

\* Mutated forms of FixationActive: a day short, and blind to rewards.
FixationADayShort(i) == i \in rewarded \/ day - apps[i].created < ExpiryDays
FixationByAgeOnly(i) == day - apps[i].created <= ExpiryDays

FixationActive(i) == i \in rewarded \/ day - apps[i].created <= ExpiryDays

-----------------------------------------------------------------------------

View == [seen : Nat, paid : SUBSET Nat]

NoForm == [agent |-> "none", phone |-> "none"]
NoView == [seen |-> 0, paid |-> {}]

Init ==
  /\ day = 0
  /\ apps = <<>>
  /\ rewarded = {}
  /\ leads = <<>>
  /\ notices = {}
  /\ pc = [r \in Requests |-> "idle"]
  /\ form = [r \in Requests |-> NoForm]
  /\ latest = [r \in Requests |-> 0]
  /\ mine = [r \in Requests |-> 0]
  /\ reply = [r \in Requests |-> "none"]
  /\ view = [r \in Requests |-> NoView]
  /\ basis = <<>>
  /\ submissions = 0
  /\ deaths = 0

\* The handler is over: its answer is sent or its process is gone.
Leave(r) ==
  /\ pc' = [pc EXCEPT ![r] = "idle"]
  /\ form' = [form EXCEPT ![r] = NoForm]
  /\ latest' = [latest EXCEPT ![r] = 0]
  /\ mine' = [mine EXCEPT ![r] = 0]
  /\ reply' = [reply EXCEPT ![r] = "none"]
  /\ view' = [view EXCEPT ![r] = NoView]

\* A checked form reaches create_first_application.
Submit(r, a, p) ==
  /\ pc[r] = "idle"
  /\ submissions < MaxSubmissions
  /\ submissions' = submissions + 1
  /\ pc' = [pc EXCEPT ![r] = "lookup"]
  /\ form' = [form EXCEPT ![r] = [agent |-> a, phone |-> p]]
  /\ UNCHANGED <<day, apps, rewarded, leads, notices, latest, mine, reply,
                 view, deaths, basis>>

\* The first SELECT: the latest application of the phone, or none.
FindLatest(r) ==
  /\ pc[r] = "lookup"
  /\ view' = [view EXCEPT ![r].seen = Len(apps)]
  /\ \/ /\ OfPhone(form[r].phone) = {}
        /\ pc' = [pc EXCEPT ![r] = "insert"]
        /\ UNCHANGED latest
     \/ \E i \in LatestOf(form[r].phone) :
          /\ latest' = [latest EXCEPT ![r] = i]
          /\ pc' = [pc EXCEPT ![r] = "fixation"]
  /\ UNCHANGED <<day, apps, rewarded, leads, notices, form, mine, reply,
                 submissions, deaths, basis>>

\* The second SELECT and the age test.  An active fixation is answered with
\* the application found, and nobody is notified.
JudgeFixation(r) ==
  /\ pc[r] = "fixation"
  /\ \/ /\ FixationActive(latest[r])
        /\ Leave(r)
     \/ /\ ~FixationActive(latest[r])
        /\ pc' = [pc EXCEPT ![r] = "insert"]
        /\ view' = [view EXCEPT ![r].paid = rewarded]
        /\ UNCHANGED <<form, latest, mine, reply>>
  /\ UNCHANGED <<day, apps, rewarded, leads, notices, submissions, deaths, basis>>

\* INSERT and the first commit; delivery_status starts PENDING.
InsertApplication(r) ==
  /\ pc[r] = "insert"
  /\ apps' = Append(apps, [agent |-> form[r].agent, phone |-> form[r].phone,
                           created |-> day, delivery |-> "PENDING"])
  /\ leads' = Append(leads, 0)
  /\ basis' = Append(basis, view[r])
  /\ mine' = [mine EXCEPT ![r] = Len(apps) + 1]
  /\ pc' = [pc EXCEPT ![r] = "deliver"]
  /\ UNCHANGED <<day, rewarded, notices, form, latest, reply, view,
                 submissions, deaths>>

\* create_lead: the CRM works on the request and its answer arrives; it works
\* on it and the answer is lost, late (20 s timeout) or unreadable; or it
\* creates nothing.
CreateLead(r) ==
  /\ pc[r] = "deliver"
  /\ \/ /\ leads' = [leads EXCEPT ![mine[r]] = @ + 1]
        /\ reply' = [reply EXCEPT ![r] = "lead_id"]
     \/ /\ leads' = [leads EXCEPT ![mine[r]] = @ + 1]
        /\ reply' = [reply EXCEPT ![r] = "exception"]
     \/ /\ UNCHANGED leads
        /\ reply' = [reply EXCEPT ![r] = "exception"]
  /\ pc' = [pc EXCEPT ![r] = "record"]
  /\ UNCHANGED <<day, apps, rewarded, notices, form, latest, mine, view,
                 submissions, deaths, basis>>

\* Mutated forms of DeliveryOutcome, for the mutation runs only.
OutcomeAlwaysSent(answer) == "SENT"
OutcomeOnlySuccess(answer) == IF answer = "lead_id" THEN "SENT" ELSE "PENDING"

DeliveryOutcome(answer) == IF answer = "lead_id" THEN "SENT" ELSE "FAILED"

\* delivery_status and the second commit.
RecordDelivery(r) ==
  /\ pc[r] = "record"
  /\ apps' = [apps EXCEPT ![mine[r]].delivery = DeliveryOutcome(reply[r])]
  /\ pc' = [pc EXCEPT ![r] = "notify"]
  /\ UNCHANGED <<day, rewarded, leads, notices, form, latest, mine, reply,
                 view, submissions, deaths, basis>>

Claim(i) == IF apps[i].delivery = "SENT" THEN "lead created" ELSE "lead not created"

\* _notify_partner, best effort: the admin notice goes out or fails.
NotifyPartner(r) ==
  /\ pc[r] = "notify"
  /\ \/ notices' = notices \cup {<<mine[r], Claim(mine[r])>>}
     \/ UNCHANGED notices
  /\ Leave(r)
  /\ UNCHANGED <<day, apps, rewarded, leads, submissions, deaths, basis>>

\* The handler never resumes: the service restarts or the database fails.
HandlerDies(r) ==
  /\ pc[r] # "idle"
  /\ deaths < MaxDeaths
  /\ deaths' = deaths + 1
  /\ Leave(r)
  /\ UNCHANGED <<day, apps, rewarded, leads, notices, submissions, basis>>

\* The bounty service creates a reward for the deal of an application's lead.
CreateReward(i) ==
  /\ leads[i] > 0
  /\ i \notin rewarded
  /\ rewarded' = rewarded \cup {i}
  /\ UNCHANGED <<day, apps, leads, notices, handlerVars, submissions, deaths, basis>>

NextDay ==
  /\ day < MaxDay
  /\ day' = day + 1
  /\ UNCHANGED <<apps, rewarded, leads, notices, handlerVars, submissions,
                 deaths, basis>>

HandlerStep(r) ==
  \/ FindLatest(r)
  \/ JudgeFixation(r)
  \/ InsertApplication(r)
  \/ CreateLead(r)
  \/ RecordDelivery(r)
  \/ NotifyPartner(r)

Next ==
  \/ \E r \in Requests :
       \/ \E a \in Agents, p \in Phones : Submit(r, a, p)
       \/ HandlerStep(r)
       \/ HandlerDies(r)
  \/ \E i \in Ids : CreateReward(i)
  \/ NextDay

Spec == Init /\ [][Next]_vars

\* The event loop resumes every handler whose awaited call has returned, and
\* every awaited call returns (the CRM call after 20 s at the latest).
FairSpec == Spec /\ \A r \in Requests : WF_vars(HandlerStep(r))

-----------------------------------------------------------------------------
(* Properties *)

InFlight == {"deliver", "record"}
HandlerStates == {"idle", "lookup", "fixation", "insert", "notify"} \cup InFlight

Pending(i) == i \in Ids /\ apps[i].delivery = "PENDING"

TableTypes ==
  /\ day \in Nat
  /\ apps \in Seq(Application)
  /\ rewarded \subseteq Ids
  /\ leads \in Seq(Nat) /\ Len(leads) = Len(apps)
  /\ notices \subseteq Ids \X {"lead created", "lead not created"}

HandlerTypes ==
  /\ pc \in [Requests -> HandlerStates]
  /\ form \in [Requests -> Forms \cup {NoForm}]
  /\ latest \in [Requests -> Ids \cup {0}]
  /\ mine \in [Requests -> Ids \cup {0}]
  /\ reply \in [Requests -> {"none", "lead_id", "exception"}]
  /\ view \in [Requests -> View]

HistoryTypes ==
  /\ basis \in Seq(View) /\ Len(basis) = Len(apps)
  /\ submissions \in Nat
  /\ deaths \in Nat

\* Every table, handler and history variable keeps its shape, and the tables
\* that grow with referral_applications stay as long as it.
TypeOK == TableTypes /\ HandlerTypes /\ HistoryTypes

\* An application is inserted only over an expired fixation: every application
\* of its phone that its handler could have seen is more than ExpiryDays older,
\* however many submissions run at once (_fixation_is_active and the early
\* return of create_first_application).
ClaimsOnlyExpired ==
  \A j \in Ids : \A i \in 1..basis[j].seen :
    SamePhone(i, j) => apps[j].created - apps[i].created > ExpiryDays

\* An application that already had a Reward when its client was claimed again
\* was no longer the client's latest: an unpaid one, as recent or more recent,
\* stood over it and was the one the fixation test looked at.
PaidClaimedOnlyBehindUnpaid ==
  \A j \in Ids : \A i \in basis[j].paid \cap 1..basis[j].seen :
    SamePhone(i, j) =>
      \E k \in 1..basis[j].seen :
        /\ SamePhone(k, j)
        /\ k \notin basis[j].paid
        /\ apps[k].created >= apps[i].created

\* What the site says of the CRM is so: an application recorded SENT, or
\* announced to the admins with a lead, has exactly one lead in the CRM.
SentMeansOneLead ==
  /\ \A i \in Ids : leads[i] <= 1
  /\ \A i \in Ids : apps[i].delivery = "SENT" => leads[i] = 1
  /\ \A i \in Ids : <<i, "lead created">> \in notices => leads[i] = 1

\* An application is PENDING while its handler works on the delivery; those
\* left PENDING beyond that are at most as many as the handlers that died.
PendingIsOwned ==
  Cardinality({i \in Ids : Pending(i)})
    <= Cardinality({r \in Requests : pc[r] \in InFlight}) + deaths

\* A stored application gets its delivery result unless some handler dies:
\* neither a CRM error nor a lost answer leaves it PENDING.
DeliverySettles ==
  \A i \in 1..MaxSubmissions : Pending(i) ~> (~Pending(i) \/ deaths > 0)

\* One fixation at a time: two applications of one phone are more than
\* ExpiryDays apart.  Holds when submissions come one after another.
OneFixation ==
  \A i, j \in Ids :
    (i < j /\ SamePhone(i, j)) => apps[j].created - apps[i].created > ExpiryDays

\* "A client stays fixed to their agent forever once they've paid (a Reward
\* exists)": nobody else claims a client some application of whom had a Reward.
FixedForeverOncePaid ==
  \A j \in Ids : \A i \in basis[j].paid :
    SamePhone(i, j) => apps[j].agent = apps[i].agent

=============================================================================
