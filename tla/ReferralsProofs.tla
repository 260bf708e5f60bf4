-------------------------- MODULE ReferralsProofs --------------------------
(***************************************************************************)
(* What TLAPS proves of Referrals for every number of agents, clients,     *)
(* concurrent submissions, days and deaths; and that submissions handled   *)
(* one after another implement ClientFixation.  The liveness part of that  *)
(* promise is model-checked only.                                          *)
(***************************************************************************)
EXTENDS FixationRefinement, SequenceTheorems, FiniteSetTheorems, TLAPS

-----------------------------------------------------------------------------
(* Type correctness *)

\* What a handler holds in each state, beyond its type.
HandlerOK ==
  \A r \in Requests :
    /\ pc[r] # "idle" => form[r] \in Forms
    /\ pc[r] = "fixation" => latest[r] \in Ids
    /\ pc[r] \in {"deliver", "record", "notify"} => mine[r] \in Ids
    /\ pc[r] = "record" => reply[r] \in {"lead_id", "exception"}

Typed == TypeOK /\ HandlerOK

\* The ids in use are an initial segment of the numbers, and every table that
\* follows referral_applications has a row for each.
LEMMA IdsRange ==
  ASSUME TableTypes
  PROVE  /\ Len(apps) \in Nat
         /\ Ids = 1..Len(apps)
         /\ Ids = 1..Len(leads)
         /\ Ids \subseteq Nat
         /\ \A i \in Ids : apps[i] \in Application /\ leads[i] \in Nat
<1>1. Len(apps) \in Nat /\ Ids = 1..Len(apps) /\ \A i \in Ids : apps[i] \in Application
  BY LenProperties, ElementOfSeq DEF TableTypes, Ids
<1>2. leads \in Seq(Nat) /\ Len(leads) = Len(apps)
  BY DEF TableTypes
<1>3. \A i \in 1..Len(leads) : leads[i] \in Nat
  BY <1>2, ElementOfSeq
<1>4. QED
  BY <1>1, <1>2, <1>3

\* The empty view of a handler that has read nothing is a view.
LEMMA NoViewType == NoView \in View
  BY DEF NoView, View

\* The initial state is well typed.
LEMMA InitTyped == Init => Typed
<1> SUFFICES ASSUME Init PROVE Typed
  OBVIOUS
<1>1. TableTypes
  BY DEF Init, TableTypes, Ids
<1>2. HandlerTypes
  BY NoViewType DEF Init, HandlerTypes, HandlerStates, InFlight
<1>3. HistoryTypes
  BY DEF Init, HistoryTypes
<1>4. HandlerOK
  BY DEF Init, HandlerOK
<1>5. QED
  BY <1>1, <1>2, <1>3, <1>4 DEF Typed, TypeOK

\* A step that leaves the applications and every handler alone.
LEMMA HandlersUntouched ==
  ASSUME HandlerTypes, HandlerOK, UNCHANGED <<apps, handlerVars>>
  PROVE  HandlerTypes' /\ HandlerOK'
  BY DEF HandlerTypes, HandlerOK, handlerVars, Ids

\* A handler that leaves keeps the types of all handlers.
LEMMA LeaveTyped ==
  ASSUME HandlerTypes, HandlerOK, NEW r \in Requests, Leave(r), UNCHANGED apps
  PROVE  HandlerTypes' /\ HandlerOK'
<1>1. HandlerTypes'
  BY NoViewType DEF HandlerTypes, Leave, HandlerStates, Ids
<1>2. HandlerOK'
  BY DEF HandlerTypes, HandlerOK, Leave, Ids
<1>3. QED
  BY <1>1, <1>2

\* Tables and histories untouched keep their types.
LEMMA TablesUntouched ==
  ASSUME TableTypes, UNCHANGED <<day, apps, rewarded, leads, notices>>
  PROVE  TableTypes'
  BY DEF TableTypes, Ids

\* Histories keep their types when nothing in them changes.
LEMMA HistoryUntouched ==
  ASSUME HistoryTypes, UNCHANGED <<apps, basis, submissions, deaths>>
  PROVE  HistoryTypes'
  BY DEF HistoryTypes

\* Every step keeps the types: one step of the proof for each action.
LEMMA NextTyped == Typed /\ [Next]_vars => Typed'
<1> SUFFICES ASSUME TableTypes, HandlerTypes, HistoryTypes, HandlerOK, [Next]_vars
             PROVE  TableTypes' /\ HandlerTypes' /\ HistoryTypes' /\ HandlerOK'
  BY DEF Typed, TypeOK
<1>1. ASSUME NEW r \in Requests, NEW a \in Agents, NEW p \in Phones, Submit(r, a, p)
      PROVE TableTypes' /\ HandlerTypes' /\ HistoryTypes' /\ HandlerOK'
  <2>1. TableTypes'
    BY <1>1, TablesUntouched DEF Submit
  <2>2. [agent |-> a, phone |-> p] \in Forms
    BY DEF Forms
  <2>3. HandlerTypes'
    BY <1>1, <2>2 DEF Submit, HandlerTypes, HandlerStates, Ids
  <2>4. HistoryTypes'
    BY <1>1, ReferralsAssumption DEF Submit, HistoryTypes
  <2>5. HandlerOK'
    BY <1>1, <2>2 DEF Submit, HandlerTypes, HandlerOK, Ids
  <2>6. QED
    BY <2>1, <2>3, <2>4, <2>5
<1>2. ASSUME NEW r \in Requests, FindLatest(r)
      PROVE TableTypes' /\ HandlerTypes' /\ HistoryTypes' /\ HandlerOK'
  <2>1. TableTypes' /\ HistoryTypes'
    BY <1>2, TablesUntouched, HistoryUntouched DEF FindLatest
  <2>2. [view[r] EXCEPT !.seen = Len(apps)] \in View
    BY IdsRange DEF HandlerTypes, View
  <2>3. view' \in [Requests -> View]
    BY <1>2, <2>2 DEF FindLatest, HandlerTypes
  <2>4. HandlerTypes'
    BY <1>2, <2>3 DEF FindLatest, HandlerTypes, HandlerStates, LatestOf, OfPhone, Ids
  <2>5. HandlerOK'
    BY <1>2 DEF FindLatest, HandlerTypes, HandlerOK, LatestOf, OfPhone, Ids
  <2>6. QED
    BY <2>1, <2>4, <2>5
<1>3. ASSUME NEW r \in Requests, JudgeFixation(r)
      PROVE TableTypes' /\ HandlerTypes' /\ HistoryTypes' /\ HandlerOK'
  <2>1. TableTypes' /\ HistoryTypes'
    BY <1>3, TablesUntouched, HistoryUntouched DEF JudgeFixation
  <2>2. CASE Leave(r)
    BY <1>3, <2>1, <2>2, LeaveTyped DEF JudgeFixation
  <2>3. CASE ~FixationActive(latest[r])
    <3>1. rewarded \in SUBSET Nat
      BY IdsRange DEF TableTypes
    <3>2. [view[r] EXCEPT !.paid = rewarded] \in View
      BY <3>1 DEF HandlerTypes, View
    <3>3. HandlerTypes'
      BY <1>3, <2>3, <3>2 DEF JudgeFixation, HandlerTypes, HandlerStates, Ids
    <3>4. HandlerOK'
      BY <1>3, <2>3 DEF JudgeFixation, HandlerTypes, HandlerOK, Ids
    <3>5. QED
      BY <2>1, <3>3, <3>4
  <2>4. QED
    BY <1>3, <2>2, <2>3 DEF JudgeFixation
<1>4. ASSUME NEW r \in Requests, InsertApplication(r)
      PROVE TableTypes' /\ HandlerTypes' /\ HistoryTypes' /\ HandlerOK'
  <2> DEFINE row == [agent |-> form[r].agent, phone |-> form[r].phone,
                     created |-> day, delivery |-> "PENDING"]
  <2>1. row \in Application
    BY <1>4 DEF InsertApplication, HandlerOK, TableTypes, Forms, Application, Delivery
  <2>2. /\ apps' \in Seq(Application)
        /\ Len(apps') = Len(apps) + 1
        /\ Ids' = 1..(Len(apps) + 1)
        /\ Ids = 1..Len(apps)
        /\ Len(apps) \in Nat
    <3>1. apps \in Seq(Application) /\ apps' = Append(apps, row)
      BY <1>4 DEF InsertApplication, TableTypes
    <3>2. apps' \in Seq(Application) /\ Len(apps') = Len(apps) + 1
      BY <2>1, <3>1, AppendProperties
    <3>3. QED
      BY <3>2, IdsRange, LenProperties DEF Ids
  <2>3. TableTypes'
    <3>1. Ids \subseteq Ids'
      BY <2>2
    <3>2. leads' \in Seq(Nat) /\ Len(leads') = Len(apps')
      <4>1. leads \in Seq(Nat) /\ leads' = Append(leads, 0) /\ Len(leads) = Len(apps)
        BY <1>4 DEF InsertApplication, TableTypes
      <4>2. QED
        BY <4>1, <2>2, AppendProperties
    <3>3. notices' \subseteq Ids' \X {"lead created", "lead not created"}
      BY <1>4, <3>1 DEF InsertApplication, TableTypes
    <3>4. rewarded' \subseteq Ids' /\ day' \in Nat
      BY <1>4, <3>1 DEF InsertApplication, TableTypes
    <3>5. QED
      BY <2>2, <3>2, <3>3, <3>4 DEF TableTypes
  <2>4. HandlerTypes'
    BY <1>4, <2>2 DEF InsertApplication, HandlerTypes, HandlerStates, InFlight
  <2>5. HistoryTypes'
    BY <1>4, <2>2 DEF InsertApplication, HistoryTypes, HandlerTypes
  <2>6. HandlerOK'
    BY <1>4, <2>2 DEF InsertApplication, HandlerTypes, HandlerOK
  <2>7. QED
    BY <2>3, <2>4, <2>5, <2>6
<1>5. ASSUME NEW r \in Requests, CreateLead(r)
      PROVE TableTypes' /\ HandlerTypes' /\ HistoryTypes' /\ HandlerOK'
  <2>1. mine[r] \in 1..Len(leads)
    BY <1>5, IdsRange DEF CreateLead, HandlerOK
  <2>2. leads' \in Seq(Nat) /\ Len(leads') = Len(leads)
    <3>1. CASE leads' = [leads EXCEPT ![mine[r]] = @ + 1]
      <4>1. leads \in Seq(Nat)
        BY DEF TableTypes
      <4> DEFINE n == leads[mine[r]]
      <4>2. n \in Nat
        BY <2>1, <4>1, ElementOfSeq
      <4>3. leads' = [leads EXCEPT ![mine[r]] = n + 1] /\ n + 1 \in Nat
        BY <3>1, <4>2
      <4>4. QED
        BY <2>1, <4>1, <4>3, ExceptSeq
    <3>2. QED
      BY <1>5, <3>1 DEF CreateLead, TableTypes
  <2>3. TableTypes'
    BY <1>5, <2>2 DEF CreateLead, TableTypes, Ids
  <2>4. HandlerTypes'
    BY <1>5 DEF CreateLead, HandlerTypes, HandlerStates, InFlight, Ids
  <2>5. HistoryTypes'
    BY <1>5, HistoryUntouched DEF CreateLead
  <2>6. HandlerOK'
    BY <1>5 DEF CreateLead, HandlerTypes, HandlerOK, Ids
  <2>7. QED
    BY <2>3, <2>4, <2>5, <2>6
<1>6. ASSUME NEW r \in Requests, RecordDelivery(r)
      PROVE TableTypes' /\ HandlerTypes' /\ HistoryTypes' /\ HandlerOK'
  <2>1. mine[r] \in 1..Len(apps)
    BY <1>6, IdsRange DEF RecordDelivery, HandlerOK
  <2>2. [apps[mine[r]] EXCEPT !.delivery = DeliveryOutcome(reply[r])] \in Application
    BY <2>1, IdsRange DEF Application, Delivery, DeliveryOutcome
  <2>3. apps' \in Seq(Application) /\ Len(apps') = Len(apps) /\ Ids' = Ids
    <3> DEFINE app == [apps[mine[r]] EXCEPT !.delivery = DeliveryOutcome(reply[r])]
    <3>1. apps' = [apps EXCEPT ![mine[r]] = app] /\ apps \in Seq(Application)
      BY <1>6 DEF RecordDelivery, TableTypes
    <3>2. apps' \in Seq(Application) /\ Len(apps') = Len(apps)
      BY <2>1, <2>2, <3>1, ExceptSeq
    <3>3. QED
      BY <3>1, <3>2, LenProperties DEF Ids
  <2>4. TableTypes'
    BY <1>6, <2>3 DEF RecordDelivery, TableTypes
  <2>5. HandlerTypes'
    BY <1>6, <2>3 DEF RecordDelivery, HandlerTypes, HandlerStates
  <2>6. HistoryTypes'
    BY <1>6, <2>3 DEF RecordDelivery, HistoryTypes
  <2>7. HandlerOK'
    BY <1>6, <2>3 DEF RecordDelivery, HandlerTypes, HandlerOK
  <2>8. QED
    BY <2>4, <2>5, <2>6, <2>7
<1>7. ASSUME NEW r \in Requests, NotifyPartner(r)
      PROVE TableTypes' /\ HandlerTypes' /\ HistoryTypes' /\ HandlerOK'
  <2>1. <<mine[r], Claim(mine[r])>> \in Ids \X {"lead created", "lead not created"}
    BY <1>7 DEF NotifyPartner, HandlerOK, Claim
  <2>2. notices' \subseteq Ids' \X {"lead created", "lead not created"}
    BY <1>7, <2>1 DEF NotifyPartner, TableTypes, Ids
  <2>3. TableTypes'
    BY <1>7, <2>2 DEF NotifyPartner, TableTypes, Ids
  <2>4. QED
    BY <1>7, <2>3, LeaveTyped, HistoryUntouched DEF NotifyPartner
<1>8. ASSUME NEW r \in Requests, HandlerDies(r)
      PROVE TableTypes' /\ HandlerTypes' /\ HistoryTypes' /\ HandlerOK'
  <2>1. HistoryTypes'
    BY <1>8, ReferralsAssumption DEF HandlerDies, HistoryTypes
  <2>2. QED
    BY <1>8, <2>1, LeaveTyped, TablesUntouched DEF HandlerDies
<1>9. ASSUME NEW i \in Ids, CreateReward(i)
      PROVE TableTypes' /\ HandlerTypes' /\ HistoryTypes' /\ HandlerOK'
  <2>1. TableTypes'
    BY <1>9 DEF CreateReward, TableTypes, Ids
  <2>2. QED
    BY <1>9, <2>1, HandlersUntouched, HistoryUntouched DEF CreateReward
<1>10. CASE NextDay
  <2>1. TableTypes'
    <3>1. day' \in Nat
      <4>1. day \in Nat
        BY DEF TableTypes
      <4>2. QED
        BY <1>10, <4>1 DEF NextDay
    <3>2. QED
      BY <1>10, <3>1 DEF NextDay, TableTypes, Ids
  <2>2. QED
    BY <1>10, <2>1, HandlersUntouched, HistoryUntouched DEF NextDay
<1>11. CASE UNCHANGED vars
  BY <1>11, TablesUntouched, HandlersUntouched, HistoryUntouched DEF vars
<1>12. QED
  BY <1>1, <1>2, <1>3, <1>4, <1>5, <1>6, <1>7, <1>8, <1>9, <1>10, <1>11
  DEF Next, HandlerStep

\* Type correctness of every reachable state.
THEOREM TypeCorrect == Spec => []TypeOK
<1>1. Init => Typed
  BY InitTyped
<1>2. Typed /\ [Next]_vars => Typed'
  BY NextTyped
<1>3. Typed => TypeOK
  BY DEF Typed
<1>4. QED
  BY <1>1, <1>2, <1>3, PTL DEF Spec

-----------------------------------------------------------------------------
(* Claims *)

ClientOf(r) == {i \in 1..view[r].seen : apps[i].phone = form[r].phone}

\* What the handler that will insert knows of the applications it could see.
\* The latest bounds the age of all, so the age test of one covers them.
ViewSound(r) ==
  /\ view[r].seen <= Len(apps)
  /\ pc[r] \in {"idle", "lookup", "fixation"} => view[r].paid = {}
  /\ pc[r] = "fixation" =>
       /\ latest[r] \in ClientOf(r)
       /\ \A i \in ClientOf(r) : apps[i].created <= apps[latest[r]].created
  /\ pc[r] = "insert" =>
       /\ \A i \in ClientOf(r) : day - apps[i].created > ExpiryDays
       /\ \A i \in ClientOf(r) \cap view[r].paid :
            \E k \in ClientOf(r) \ view[r].paid : apps[k].created >= apps[i].created

ViewsSound == \A r \in Requests : ViewSound(r)

\* Every application was inserted on a view of earlier ones.
BasisEarlier == \A j \in Ids : basis[j].seen < j

ClaimInv == Typed /\ ViewsSound /\ BasisEarlier /\ ClaimsOnlyExpired /\ PaidClaimedOnlyBehindUnpaid

\* A step that keeps the phones and dates of the applications and their bases
\* keeps what is said of the claims made so far.
LEMMA ClaimsKept ==
  ASSUME TableTypes, HistoryTypes, TableTypes',
         BasisEarlier, ClaimsOnlyExpired, PaidClaimedOnlyBehindUnpaid,
         UNCHANGED basis, Ids' = Ids,
         \A i \in Ids : apps'[i].phone = apps[i].phone /\ apps'[i].created = apps[i].created
  PROVE  BasisEarlier' /\ ClaimsOnlyExpired' /\ PaidClaimedOnlyBehindUnpaid'
<1>1. BasisEarlier'
  BY DEF BasisEarlier
<1>2. \A j \in Ids : basis[j] \in View
  BY ElementOfSeq, IdsRange DEF HistoryTypes
<1>3. \A j \in Ids : 1..basis[j].seen \subseteq Ids
  BY <1>2, IdsRange DEF BasisEarlier, View
<1>4. \A i, j \in Ids : SamePhone(i, j)' <=> SamePhone(i, j)
  BY DEF SamePhone
<1>5. ClaimsOnlyExpired'
  BY <1>3, <1>4 DEF ClaimsOnlyExpired
<1>6. PaidClaimedOnlyBehindUnpaid'
  <2> SUFFICES ASSUME NEW j \in Ids, NEW i \in basis[j].paid \cap 1..basis[j].seen,
                      SamePhone(i, j)
               PROVE  \E k \in 1..basis[j].seen :
                        /\ SamePhone(k, j)'
                        /\ k \notin basis[j].paid
                        /\ apps'[k].created >= apps'[i].created
    BY <1>2, <1>3, <1>4 DEF PaidClaimedOnlyBehindUnpaid, View
  <2>1. PICK k \in 1..basis[j].seen :
          SamePhone(k, j) /\ k \notin basis[j].paid /\ apps[k].created >= apps[i].created
    BY DEF PaidClaimedOnlyBehindUnpaid
  <2>2. QED
    BY <1>3, <1>4, <2>1
<1>7. QED
  BY <1>1, <1>5, <1>6

\* The initial state satisfies the invariant: there is no application yet.
LEMMA InitClaims == Init => ClaimInv
<1> SUFFICES ASSUME Init PROVE ClaimInv
  OBVIOUS
<1>1. Typed
  BY InitTyped
<1>2. Ids = {} /\ Len(apps) = 0
  BY DEF Init, Ids
<1>3. ViewsSound
  BY <1>2 DEF Init, ViewsSound, ViewSound, NoView
<1>4. QED
  BY <1>1, <1>2, <1>3
  DEF ClaimInv, BasisEarlier, ClaimsOnlyExpired, PaidClaimedOnlyBehindUnpaid

\* A handler that starts, leaves or stays where it is, over applications whose
\* phones and dates stay, keeps its view sound.
LEMMA ViewKept ==
  ASSUME Typed, NEW r \in Requests, ViewSound(r),
         Len(apps') >= Len(apps), Len(apps') \in Nat,
         day' \in Nat, day' >= day,
         \A i \in Ids : apps'[i].phone = apps[i].phone /\ apps'[i].created = apps[i].created,
         \/ view'[r].seen <= Len(apps') /\ view'[r].paid = {} /\ pc'[r] \in {"idle", "lookup"}
         \/ view'[r] = view[r] /\ UNCHANGED <<pc[r], form[r], latest[r]>>
         \/ view'[r] = view[r] /\ pc'[r] \notin {"idle", "lookup", "fixation", "insert"}
  PROVE  ViewSound(r)'
<1>1. view[r] \in View
  BY DEF Typed, TypeOK, HandlerTypes
<1>2. day \in Nat /\ \A i \in Ids : apps[i].created \in Nat
  BY IdsRange DEF Typed, TypeOK, TableTypes, Application
<1>3. CASE view'[r].seen <= Len(apps') /\ view'[r].paid = {} /\ pc'[r] \in {"idle", "lookup"}
  BY <1>3 DEF ViewSound
<1>4. CASE view'[r] = view[r] /\ pc'[r] \notin {"idle", "lookup", "fixation", "insert"}
  BY <1>1, <1>4, IdsRange DEF ViewSound, View, Typed, TypeOK
<1>5. CASE view'[r] = view[r] /\ UNCHANGED <<pc[r], form[r], latest[r]>>
  <2>1. view[r].seen \in Nat /\ view[r].seen <= Len(apps) /\ 1..view[r].seen \subseteq Ids
    BY <1>1, IdsRange DEF ViewSound, View, Typed, TypeOK
  <2>2. ClientOf(r)' = ClientOf(r) /\ ClientOf(r) \subseteq Ids
    BY <1>5, <2>1 DEF ClientOf
  <2>3. view'[r].seen <= Len(apps')
    BY <1>5, <2>1, IdsRange DEF Typed, TypeOK
  <2>4. pc'[r] = "fixation" =>
          /\ latest'[r] \in ClientOf(r)'
          /\ \A i \in ClientOf(r)' : apps'[i].created <= apps'[latest'[r]].created
    BY <1>5, <2>2 DEF ViewSound
  <2>5. pc'[r] = "insert" => \A i \in ClientOf(r)' : day' - apps'[i].created > ExpiryDays
    <3> SUFFICES ASSUME pc[r] = "insert", NEW i \in ClientOf(r)
                 PROVE  day' - apps[i].created > ExpiryDays
      BY <1>5, <2>2
    <3>1. day - apps[i].created > ExpiryDays
      BY DEF ViewSound
    <3>2. QED
      BY <1>2, <2>2, <3>1, ReferralsAssumption
  <2>6. pc'[r] = "insert" =>
          \A i \in ClientOf(r)' \cap view'[r].paid :
            \E k \in ClientOf(r)' \ view'[r].paid : apps'[k].created >= apps'[i].created
    BY <1>5, <2>2 DEF ViewSound
  <2>7. QED
    BY <1>5, <2>3, <2>4, <2>5, <2>6 DEF ViewSound
<1>6. QED
  BY <1>3, <1>4, <1>5

\* Every step keeps the claim invariant.  Only FindLatest and JudgeFixation
\* establish something about a view, and only InsertApplication uses it.
LEMMA NextClaims == ClaimInv /\ [Next]_vars => ClaimInv'
<1> DEFINE Goal == ViewsSound' /\ BasisEarlier' /\ ClaimsOnlyExpired' /\ PaidClaimedOnlyBehindUnpaid'
<1> SUFFICES ASSUME Typed, ViewsSound, BasisEarlier, ClaimsOnlyExpired,
                    PaidClaimedOnlyBehindUnpaid, [Next]_vars
             PROVE  Goal
  BY NextTyped DEF ClaimInv
<1>a. /\ TableTypes /\ HandlerTypes /\ HistoryTypes /\ HandlerOK
      /\ TableTypes' /\ HandlerTypes' /\ HistoryTypes'
  BY NextTyped DEF Typed, TypeOK
<1>b. /\ Len(apps) \in Nat /\ Ids = 1..Len(apps) /\ day \in Nat
      /\ Len(apps') \in Nat /\ Ids' = 1..Len(apps')
      /\ \A i \in Ids : apps[i] \in Application /\ apps[i].created \in Nat
  BY <1>a, LenProperties, IdsRange DEF Ids, TableTypes, Application
<1>c. \A r \in Requests : view[r].seen \in Nat /\ view[r].paid \in SUBSET Nat
  BY <1>a DEF HandlerTypes, View
<1>1. ASSUME NEW r \in Requests, NEW a \in Agents, NEW p \in Phones, Submit(r, a, p)
      PROVE  Goal
  <2>1. BasisEarlier' /\ ClaimsOnlyExpired' /\ PaidClaimedOnlyBehindUnpaid'
    BY <1>1, <1>a, ClaimsKept DEF Submit, Ids
  <2>2. ASSUME NEW q \in Requests PROVE ViewSound(q)'
    <3>1. apps' = apps /\ day' = day
      BY <1>1 DEF Submit
    <3>2. CASE q = r
      BY <1>1, <1>a, <1>b, <3>1, <3>2, ViewKept
      DEF Submit, HandlerTypes, ViewsSound, ViewSound
    <3>3. CASE q # r
      <4>1. UNCHANGED <<view[q], pc[q], form[q], latest[q]>>
        BY <1>1, <1>a, <3>3 DEF Submit, HandlerTypes
      <4>2. QED
        BY <1>b, <3>1, <4>1, ViewKept DEF ViewsSound
    <3>4. QED
      BY <3>2, <3>3
  <2>3. QED
    BY <2>1, <2>2 DEF ViewsSound
<1>2. ASSUME NEW r \in Requests, FindLatest(r)
      PROVE  Goal
  <2>1. BasisEarlier' /\ ClaimsOnlyExpired' /\ PaidClaimedOnlyBehindUnpaid'
    BY <1>2, <1>a, ClaimsKept DEF FindLatest, Ids
  <2>2. ASSUME NEW q \in Requests, q # r
        PROVE  ViewSound(q)'
    <3>1. UNCHANGED <<view[q], pc[q], form[q], latest[q], apps, day>>
      BY <1>2, <1>a, <2>2 DEF FindLatest, HandlerTypes
    <3>2. QED
      BY <1>b, <3>1, ViewKept DEF ViewsSound
  <2>3. /\ view'[r] = [view[r] EXCEPT !.seen = Len(apps)] /\ view[r].paid = {}
        /\ UNCHANGED <<apps, form, day>>
    BY <1>2, <1>a DEF FindLatest, HandlerTypes, ViewsSound, ViewSound
  <2>4. view'[r].seen = Len(apps) /\ view'[r].paid = {}
    BY <2>3, <1>a DEF HandlerTypes, View
  <2>5. ClientOf(r)' = OfPhone(form[r].phone)
    BY <2>3, <2>4, <1>b DEF ClientOf, OfPhone
  <2>6. \/ OfPhone(form[r].phone) = {} /\ pc'[r] = "insert"
        \/ \E i \in LatestOf(form[r].phone) : latest'[r] = i /\ pc'[r] = "fixation"
    BY <1>2, <1>a DEF FindLatest, HandlerTypes
  <2>a. ASSUME OfPhone(form[r].phone) = {}, pc'[r] = "insert"
        PROVE  ViewSound(r)'
    <3>1. ClientOf(r)' = {} /\ view'[r].seen <= Len(apps')
      BY <1>b, <2>3, <2>4, <2>5, <2>a
    <3>2. QED
      BY <2>a, <3>1 DEF ViewSound
  <2>7. ASSUME NEW i \in LatestOf(form[r].phone), latest'[r] = i, pc'[r] = "fixation"
        PROVE  ViewSound(r)'
    BY <1>b, <2>3, <2>4, <2>5, <2>7 DEF ViewSound, LatestOf
  <2>8. ViewSound(r)'
    BY <2>6, <2>7, <2>a
  <2>9. QED
    BY <2>1, <2>2, <2>8 DEF ViewsSound
<1>3. ASSUME NEW r \in Requests, JudgeFixation(r)
      PROVE  Goal
  <2>1. BasisEarlier' /\ ClaimsOnlyExpired' /\ PaidClaimedOnlyBehindUnpaid'
    BY <1>3, <1>a, ClaimsKept DEF JudgeFixation, Ids
  <2>2. ASSUME NEW q \in Requests, q # r
        PROVE  ViewSound(q)'
    <3>1. UNCHANGED <<view[q], pc[q], form[q], latest[q], apps, day>>
      BY <1>3, <1>a, <2>2 DEF JudgeFixation, Leave, HandlerTypes
    <3>2. QED
      BY <1>b, <3>1, ViewKept DEF ViewsSound
  <2>3. ASSUME Leave(r) PROVE ViewSound(r)'
    <3>1. view'[r].seen = 0 /\ view'[r].paid = {} /\ pc'[r] = "idle"
      BY <1>a, <2>3 DEF Leave, NoView, HandlerTypes
    <3>2. view'[r].seen <= Len(apps')
      BY <1>b, <1>3, <3>1 DEF JudgeFixation
    <3>3. QED
      BY <3>1, <3>2 DEF ViewSound
  <2>4. ASSUME ~FixationActive(latest[r]),
               pc' = [pc EXCEPT ![r] = "insert"],
               view' = [view EXCEPT ![r].paid = rewarded],
               UNCHANGED <<form, latest, mine, reply>>
        PROVE  ViewSound(r)'
    <3>1. /\ apps' = apps /\ form' = form /\ day' = day
          /\ view'[r].seen = view[r].seen
          /\ view'[r].paid = rewarded
          /\ pc'[r] = "insert"
      BY <1>3, <1>a, <2>4 DEF JudgeFixation, HandlerTypes, View
    <3>2. ClientOf(r)' = ClientOf(r) /\ ClientOf(r) \subseteq Ids
      BY <1>b, <1>c, <3>1 DEF ClientOf, ViewsSound, ViewSound
    <3>3. latest[r] \in ClientOf(r) \ rewarded /\ day - apps[latest[r]].created > ExpiryDays
      BY <1>3, <1>b, <2>4, <3>2, ReferralsAssumption
      DEF JudgeFixation, FixationActive, ViewsSound, ViewSound
    <3>4. \A i \in ClientOf(r) : apps[i].created <= apps[latest[r]].created
      BY <1>3 DEF JudgeFixation, ViewsSound, ViewSound
    <3>5. \A i \in ClientOf(r) : day - apps[i].created > ExpiryDays
      <4> SUFFICES ASSUME NEW i \in ClientOf(r)
                   PROVE  day - apps[i].created > ExpiryDays
        OBVIOUS
      <4>1. /\ apps[i].created \in Nat /\ apps[latest[r]].created \in Nat
            /\ apps[i].created <= apps[latest[r]].created
        BY <1>b, <3>2, <3>3, <3>4
      <4>2. QED
        BY <1>b, <3>3, <4>1, ReferralsAssumption
    <3>6. \A i \in ClientOf(r) : apps[latest[r]].created >= apps[i].created
      BY <1>b, <3>2, <3>3, <3>4
    <3>7. view'[r].seen <= Len(apps')
      BY <3>1 DEF ViewsSound, ViewSound
    <3>8. \A i \in ClientOf(r)' : day' - apps'[i].created > ExpiryDays
      BY <3>1, <3>2, <3>5
    <3>9. \A i \in ClientOf(r)' \cap view'[r].paid :
             \E k \in ClientOf(r)' \ view'[r].paid : apps'[k].created >= apps'[i].created
      BY <3>1, <3>2, <3>3, <3>6
    <3>10. QED
      BY <3>1, <3>7, <3>8, <3>9 DEF ViewSound
  <2>5. ViewSound(r)'
    BY <1>3, <2>3, <2>4 DEF JudgeFixation
  <2>6. QED
    BY <2>1, <2>2, <2>5 DEF ViewsSound
<1>4. ASSUME NEW r \in Requests, InsertApplication(r)
      PROVE  Goal
  <2> DEFINE n == Len(apps) + 1
  <2> DEFINE row == [agent |-> form[r].agent, phone |-> form[r].phone,
                     created |-> day, delivery |-> "PENDING"]
  <2>1. /\ Len(apps') = n /\ Ids' = Ids \cup {n} /\ n \notin Ids
        /\ \A i \in Ids : apps'[i] = apps[i]
        /\ apps'[n] = row
    <3>1. apps \in Seq(Application) /\ apps' = Append(apps, row)
      BY <1>4, <1>a DEF InsertApplication, TableTypes
    <3>2. row \in Application
      BY <1>4, <1>a DEF InsertApplication, HandlerOK, TableTypes, Forms, Application, Delivery
    <3>3. /\ Len(apps') = n
          /\ \A i \in 1..Len(apps) : apps'[i] = apps[i]
          /\ apps'[n] = row
      BY <3>1, <3>2, AppendProperties
    <3>4. QED
      BY <1>b, <3>3
  <2>2. /\ basis'[n] = view[r]
        /\ \A i \in Ids : basis'[i] = basis[i] /\ basis[i] \in View
    <3>1. basis \in Seq(View) /\ Len(basis) = Len(apps) /\ basis' = Append(basis, view[r]) /\ view[r] \in View
      BY <1>4, <1>a DEF InsertApplication, HistoryTypes, HandlerTypes
    <3>2. QED
      BY <1>b, <3>1, AppendProperties, ElementOfSeq
  <2>3. /\ view[r].seen <= Len(apps)
        /\ ClientOf(r) \subseteq Ids
        /\ \A i \in ClientOf(r) : day - apps[i].created > ExpiryDays
        /\ \A i \in ClientOf(r) \cap view[r].paid :
             \E k \in ClientOf(r) \ view[r].paid : apps[k].created >= apps[i].created
    <3>1. view[r].seen <= Len(apps)
      BY DEF ViewsSound, ViewSound
    <3>2. ClientOf(r) \subseteq Ids
      BY <1>b, <1>c, <3>1 DEF ClientOf
    <3>3. QED
      BY <1>4, <3>1, <3>2 DEF InsertApplication, ViewsSound, ViewSound
  <2>4. BasisEarlier'
    BY <1>b, <1>c, <2>1, <2>2, <2>3 DEF BasisEarlier
  <2>5. \A j \in Ids : 1..basis[j].seen \subseteq Ids
    BY <1>b, <2>2 DEF BasisEarlier, View
  <2>6. \A i, j \in Ids : SamePhone(i, j)' <=> SamePhone(i, j)
    BY <2>1 DEF SamePhone
  <2>7. \A i \in 1..view[r].seen, j \in Ids' :
          j = n => (SamePhone(i, j)' <=> i \in ClientOf(r))
    <3> SUFFICES ASSUME NEW i \in 1..view[r].seen, NEW j \in Ids', j = n
                 PROVE  SamePhone(i, j)' <=> i \in ClientOf(r)
      OBVIOUS
    <3>1. i \in Ids
      BY <1>b, <1>c, <2>3
    <3>2. apps'[i].phone = apps[i].phone /\ apps'[j].phone = form[r].phone
      BY <2>1, <3>1
    <3>3. QED
      BY <3>2 DEF SamePhone, ClientOf
  <2>8. ClaimsOnlyExpired'
    <3> SUFFICES ASSUME NEW j \in Ids', NEW i \in 1..basis'[j].seen, SamePhone(i, j)'
                 PROVE  apps'[j].created - apps'[i].created > ExpiryDays
      BY DEF ClaimsOnlyExpired
    <3>1. CASE j \in Ids
      BY <2>1, <2>2, <2>5, <2>6, <3>1 DEF ClaimsOnlyExpired
    <3>2. CASE j = n
      <4>1. i \in ClientOf(r) /\ apps'[i] = apps[i] /\ apps'[j].created = day
        BY <2>1, <2>2, <2>3, <2>7, <3>2
      <4>2. QED
        BY <2>3, <4>1
    <3>3. QED
      BY <2>1, <3>1, <3>2
  <2>9. PaidClaimedOnlyBehindUnpaid'
    <3> SUFFICES ASSUME NEW j \in Ids', NEW i \in basis'[j].paid \cap 1..basis'[j].seen,
                        SamePhone(i, j)'
                 PROVE  \E k \in 1..basis'[j].seen :
                          /\ SamePhone(k, j)'
                          /\ k \notin basis'[j].paid
                          /\ apps'[k].created >= apps'[i].created
      BY DEF PaidClaimedOnlyBehindUnpaid
    <3>1. CASE j \in Ids
      <4>1. PICK k \in 1..basis[j].seen :
              SamePhone(k, j) /\ k \notin basis[j].paid /\ apps[k].created >= apps[i].created
        BY <2>2, <2>5, <2>6, <3>1 DEF PaidClaimedOnlyBehindUnpaid
      <4>2. QED
        BY <2>1, <2>2, <2>5, <2>6, <3>1, <4>1
    <3>2. CASE j = n
      <4>1. i \in ClientOf(r) \cap view[r].paid
        BY <2>2, <2>7, <3>2
      <4>2. PICK k \in ClientOf(r) \ view[r].paid : apps[k].created >= apps[i].created
        BY <2>3, <4>1
      <4>3. k \in 1..view[r].seen /\ SamePhone(k, j)'
        BY <2>7, <3>2 DEF ClientOf
      <4>4. apps'[k] = apps[k] /\ apps'[i] = apps[i]
        BY <2>1, <2>3, <4>1
      <4>5. QED
        BY <2>2, <3>2, <4>2, <4>3, <4>4
    <3>3. QED
      BY <2>1, <3>1, <3>2
  <2>10. ASSUME NEW q \in Requests PROVE ViewSound(q)'
    <3>1. view' = view /\ day' = day
      BY <1>4 DEF InsertApplication
    <3>2. CASE q = r
      BY <1>4, <1>a, <1>b, <2>1, <3>1, <3>2, ViewKept DEF InsertApplication, HandlerTypes, ViewsSound
    <3>3. CASE q # r
      <4>1. UNCHANGED <<pc[q], form[q], latest[q]>>
        BY <1>4, <1>a, <3>3 DEF InsertApplication, HandlerTypes
      <4>2. QED
        BY <1>b, <2>1, <3>1, <4>1, ViewKept DEF ViewsSound
    <3>4. QED
      BY <3>2, <3>3
  <2>11. QED
    BY <2>4, <2>8, <2>9, <2>10 DEF ViewsSound
<1>5. ASSUME NEW r \in Requests, CreateLead(r)
      PROVE  Goal
  <2>1. BasisEarlier' /\ ClaimsOnlyExpired' /\ PaidClaimedOnlyBehindUnpaid'
    BY <1>5, <1>a, ClaimsKept DEF CreateLead, Ids
  <2>2. ASSUME NEW q \in Requests PROVE ViewSound(q)'
    <3>1. apps' = apps /\ day' = day
      BY <1>5 DEF CreateLead
    <3>2. CASE q = r
      BY <1>5, <1>a, <1>b, <3>1, <3>2, ViewKept
      DEF CreateLead, HandlerTypes, ViewsSound, ViewSound
    <3>3. CASE q # r
      <4>1. UNCHANGED <<view[q], pc[q], form[q], latest[q]>>
        BY <1>5, <1>a, <3>3 DEF CreateLead, HandlerTypes
      <4>2. QED
        BY <1>b, <3>1, <4>1, ViewKept DEF ViewsSound
    <3>4. QED
      BY <3>2, <3>3
  <2>3. QED
    BY <2>1, <2>2 DEF ViewsSound
<1>6. ASSUME NEW r \in Requests, RecordDelivery(r)
      PROVE  Goal
  <2>1. /\ Len(apps') = Len(apps) /\ Ids' = Ids
        /\ \A i \in Ids : apps'[i].phone = apps[i].phone /\ apps'[i].created = apps[i].created
    <3>1. apps' = [apps EXCEPT ![mine[r]].delivery = DeliveryOutcome(reply[r])]
      BY <1>6 DEF RecordDelivery
    <3>2. \A i \in Ids : apps'[i].phone = apps[i].phone /\ apps'[i].created = apps[i].created
      BY <1>b, <3>1 DEF Ids, Application
    <3>3. Ids' = Ids
      BY <3>1 DEF Ids
    <3>4. QED
      BY <1>b, <3>2, <3>3
  <2>2. BasisEarlier' /\ ClaimsOnlyExpired' /\ PaidClaimedOnlyBehindUnpaid'
    BY <1>6, <1>a, <2>1, ClaimsKept DEF RecordDelivery
  <2>3. ASSUME NEW q \in Requests PROVE ViewSound(q)'
    <3>1. view' = view /\ day' = day
      BY <1>6 DEF RecordDelivery
    <3>2. CASE q = r
      BY <1>6, <1>a, <1>b, <2>1, <3>1, <3>2, ViewKept DEF RecordDelivery, HandlerTypes, ViewsSound
    <3>3. CASE q # r
      <4>1. UNCHANGED <<pc[q], form[q], latest[q]>>
        BY <1>6, <1>a, <3>3 DEF RecordDelivery, HandlerTypes
      <4>2. QED
        BY <1>b, <2>1, <3>1, <4>1, ViewKept DEF ViewsSound
    <3>4. QED
      BY <3>2, <3>3
  <2>4. QED
    BY <2>2, <2>3 DEF ViewsSound
<1>7. ASSUME NEW r \in Requests, NotifyPartner(r)
      PROVE  Goal
  <2>1. BasisEarlier' /\ ClaimsOnlyExpired' /\ PaidClaimedOnlyBehindUnpaid'
    BY <1>7, <1>a, ClaimsKept DEF NotifyPartner, Ids
  <2>2. ASSUME NEW q \in Requests PROVE ViewSound(q)'
    <3>1. apps' = apps /\ day' = day
      BY <1>7 DEF NotifyPartner
    <3>2. CASE q = r
      BY <1>7, <1>a, <1>b, <3>1, <3>2, ViewKept
      DEF NotifyPartner, Leave, NoView, HandlerTypes, ViewsSound, ViewSound
    <3>3. CASE q # r
      <4>1. UNCHANGED <<view[q], pc[q], form[q], latest[q]>>
        BY <1>7, <1>a, <3>3 DEF NotifyPartner, Leave, NoView, HandlerTypes
      <4>2. QED
        BY <1>b, <3>1, <4>1, ViewKept DEF ViewsSound
    <3>4. QED
      BY <3>2, <3>3
  <2>3. QED
    BY <2>1, <2>2 DEF ViewsSound
<1>8. ASSUME NEW r \in Requests, HandlerDies(r)
      PROVE  Goal
  <2>1. BasisEarlier' /\ ClaimsOnlyExpired' /\ PaidClaimedOnlyBehindUnpaid'
    BY <1>8, <1>a, ClaimsKept DEF HandlerDies, Ids
  <2>2. ASSUME NEW q \in Requests PROVE ViewSound(q)'
    <3>1. apps' = apps /\ day' = day
      BY <1>8 DEF HandlerDies
    <3>2. CASE q = r
      BY <1>8, <1>a, <1>b, <3>1, <3>2, ViewKept
      DEF HandlerDies, Leave, NoView, HandlerTypes, ViewsSound, ViewSound
    <3>3. CASE q # r
      <4>1. UNCHANGED <<view[q], pc[q], form[q], latest[q]>>
        BY <1>8, <1>a, <3>3 DEF HandlerDies, Leave, NoView, HandlerTypes
      <4>2. QED
        BY <1>b, <3>1, <4>1, ViewKept DEF ViewsSound
    <3>4. QED
      BY <3>2, <3>3
  <2>3. QED
    BY <2>1, <2>2 DEF ViewsSound
<1>9. ASSUME NEW i \in Ids, CreateReward(i)
      PROVE  Goal
  <2>1. BasisEarlier' /\ ClaimsOnlyExpired' /\ PaidClaimedOnlyBehindUnpaid'
    BY <1>9, <1>a, ClaimsKept DEF CreateReward, Ids
  <2>2. ASSUME NEW q \in Requests PROVE ViewSound(q)'
    <3>1. /\ apps' = apps /\ day' \in Nat /\ day' >= day
          /\ UNCHANGED <<view[q], pc[q], form[q], latest[q]>>
      BY <1>9, <1>a, <1>b DEF CreateReward, handlerVars
    <3>2. QED
      BY <1>b, <3>1, ViewKept DEF ViewsSound
  <2>3. QED
    BY <2>1, <2>2 DEF ViewsSound
<1>10. ASSUME NextDay PROVE Goal
  <2>1. BasisEarlier' /\ ClaimsOnlyExpired' /\ PaidClaimedOnlyBehindUnpaid'
    BY <1>10, <1>a, ClaimsKept DEF NextDay, Ids
  <2>2. ASSUME NEW q \in Requests PROVE ViewSound(q)'
    <3>1. /\ apps' = apps /\ day' \in Nat /\ day' >= day
          /\ UNCHANGED <<view[q], pc[q], form[q], latest[q]>>
      BY <1>10, <1>a, <1>b DEF NextDay, handlerVars
    <3>2. QED
      BY <1>b, <3>1, ViewKept DEF ViewsSound
  <2>3. QED
    BY <2>1, <2>2 DEF ViewsSound
<1>11. ASSUME UNCHANGED vars PROVE Goal
  <2>1. BasisEarlier' /\ ClaimsOnlyExpired' /\ PaidClaimedOnlyBehindUnpaid'
    BY <1>11, <1>a, ClaimsKept DEF vars, handlerVars, Ids
  <2>2. ASSUME NEW q \in Requests PROVE ViewSound(q)'
    <3>1. /\ apps' = apps /\ day' \in Nat /\ day' >= day
          /\ UNCHANGED <<view[q], pc[q], form[q], latest[q]>>
      BY <1>11, <1>a, <1>b DEF vars, handlerVars, handlerVars
    <3>2. QED
      BY <1>b, <3>1, ViewKept DEF ViewsSound
  <2>3. QED
    BY <2>1, <2>2 DEF ViewsSound
<1>12. QED
  BY <1>1, <1>2, <1>3, <1>4, <1>5, <1>6, <1>7, <1>8, <1>9, <1>10, <1>11
  DEF Next, HandlerStep

\* The invariant holds in every reachable state.
LEMMA ClaimInvariant == Spec => []ClaimInv
<1>1. Init => ClaimInv
  BY InitClaims
<1>2. ClaimInv /\ [Next]_vars => ClaimInv'
  BY NextClaims
<1>3. QED
  BY <1>1, <1>2, PTL DEF Spec

\* A client is claimed only over expired fixations, whatever runs at once.
THEOREM ClaimsCorrect == Spec => []ClaimsOnlyExpired
<1>1. ClaimInv => ClaimsOnlyExpired
  BY DEF ClaimInv
<1>2. QED
  BY <1>1, ClaimInvariant, PTL

\* A paid application is passed over only behind an unpaid one.
THEOREM PaidClaimsCorrect == Spec => []PaidClaimedOnlyBehindUnpaid
<1>1. ClaimInv => PaidClaimedOnlyBehindUnpaid
  BY DEF ClaimInv
<1>2. QED
  BY <1>1, ClaimInvariant, PTL

-----------------------------------------------------------------------------
(* One submission after another *)

\* A handler that has looked has seen every application there is, and so had
\* the handler of every application.
NothingMissed ==
  /\ \A r \in Requests : pc[r] \in {"fixation", "insert"} => view[r].seen = Len(apps)
  /\ \A j \in Ids : basis[j].seen = j - 1

\* With a single handler nothing is inserted behind its back.
LEMMA SerialStep ==
  ASSUME NEW h, Requests = {h}, Typed, Typed', NothingMissed, [Next]_vars
  PROVE  NothingMissed'
<1>a. /\ TableTypes /\ HandlerTypes /\ HistoryTypes /\ TableTypes' /\ HistoryTypes' /\ h \in Requests
      /\ HandlerOK
  BY DEF Typed, TypeOK
<1>b. /\ Len(apps) \in Nat /\ Ids = 1..Len(apps) /\ Ids' = 1..Len(apps')
      /\ pc \in [Requests -> HandlerStates] /\ view \in [Requests -> View]
  BY <1>a, LenProperties, IdsRange DEF Ids, TableTypes, HandlerTypes
<1>1. CASE InsertApplication(h)
  <2>1. basis' = Append(basis, view[h]) /\ basis \in Seq(View) /\ Len(basis) = Len(apps) /\ view[h] \in View
    BY <1>1, <1>a, <1>b DEF InsertApplication, HistoryTypes
  <2>2. Len(apps') = Len(apps) + 1
    BY <2>1, <1>a, AppendProperties DEF HistoryTypes
  <2>3. view[h].seen = Len(apps)
    BY <1>1, <1>a DEF InsertApplication, NothingMissed
  <2>4. \A j \in Ids' : basis'[j].seen = j - 1
    BY <1>b, <2>1, <2>2, <2>3, AppendProperties DEF NothingMissed
  <2>5. \A r \in Requests : pc'[r] \notin {"fixation", "insert"}
    BY <1>1, <1>b DEF InsertApplication
  <2>6. QED
    BY <2>4, <2>5 DEF NothingMissed
<1>2. CASE RecordDelivery(h)
  <2>1. basis' = basis
    BY <1>2 DEF RecordDelivery
  <2>2. Len(apps') = Len(apps)
    BY <2>1, <1>a DEF HistoryTypes
  <2>3. \A r \in Requests : pc'[r] = "notify"
    BY <1>2, <1>b DEF RecordDelivery
  <2>4. QED
    BY <1>b, <2>1, <2>2, <2>3 DEF NothingMissed
<1>3. CASE FindLatest(h)
  <2>1. apps' = apps /\ basis' = basis
    BY <1>3 DEF FindLatest
  <2>2. view'[h].seen = Len(apps)
    BY <1>3, <1>a, <1>b DEF FindLatest, View
  <2>3. QED
    BY <2>1, <2>2, <1>b DEF NothingMissed
<1>4. CASE JudgeFixation(h)
  <2>1. apps' = apps /\ basis' = basis /\ view[h].seen = Len(apps)
    BY <1>4, <1>a DEF JudgeFixation, NothingMissed
  <2>2. pc'[h] = "idle" \/ view'[h].seen = view[h].seen
    BY <1>4, <1>a, <1>b DEF JudgeFixation, Leave, View
  <2>3. QED
    BY <2>1, <2>2, <1>b DEF NothingMissed
<1>5. ASSUME NEW a \in Agents, NEW p \in Phones, Submit(h, a, p)
      PROVE  NothingMissed'
  BY <1>5, <1>b DEF Submit, NothingMissed, Ids
<1>6. CASE CreateLead(h) \/ NotifyPartner(h) \/ HandlerDies(h)
  <2>1. apps' = apps /\ basis' = basis
    BY <1>6 DEF CreateLead, NotifyPartner, HandlerDies
  <2>2. pc'[h] \notin {"fixation", "insert"}
    BY <1>6, <1>a, <1>b DEF CreateLead, NotifyPartner, HandlerDies, Leave
  <2>3. QED
    BY <2>1, <2>2, <1>b DEF NothingMissed
<1>7. CASE \/ UNCHANGED vars
           \/ NextDay
           \/ \E i \in Ids : CreateReward(i)
  <2>1. UNCHANGED <<apps, basis, pc, view>>
    BY <1>7 DEF vars, handlerVars, NextDay, CreateReward
  <2>2. QED
    BY <2>1, <1>b DEF NothingMissed
<1>8. QED
  BY <1>1, <1>2, <1>3, <1>4, <1>5, <1>6, <1>7 DEF Next, HandlerStep

\* Submissions handled one after another fix a client to one agent at a time.
THEOREM SerialFixation ==
  ASSUME NEW h, Requests = {h}
  PROVE  Spec => []OneFixation
<1>1. Init => NothingMissed
  BY DEF Init, NothingMissed, Ids
<1>2. Typed /\ Typed' /\ NothingMissed /\ [Next]_vars => NothingMissed'
  BY SerialStep
<1>3. Typed /\ NothingMissed /\ ClaimsOnlyExpired => OneFixation
  <2> SUFFICES ASSUME Typed, NothingMissed, ClaimsOnlyExpired,
                      NEW i \in Ids, NEW j \in Ids, i < j, SamePhone(i, j)
               PROVE  apps[j].created - apps[i].created > ExpiryDays
    BY DEF OneFixation
  <2>1. i \in 1..basis[j].seen
    BY IdsRange DEF NothingMissed, Typed, TypeOK
  <2>2. QED
    BY <2>1 DEF ClaimsOnlyExpired
<1>4. ClaimInv => Typed /\ ClaimsOnlyExpired
  BY DEF ClaimInv
<1>5. QED
  BY <1>1, <1>2, <1>3, <1>4, ClaimInvariant, PTL DEF Spec

-----------------------------------------------------------------------------
(* Deliveries *)

\* What a handler on its way through the delivery has of its application: no
\* lead and no result before the CRM is called, no result before it is recorded.
Delivering(r) ==
  /\ pc[r] = "deliver" => leads[mine[r]] = 0
  /\ pc[r] = "record" => /\ leads[mine[r]] <= 1
                         /\ reply[r] = "lead_id" => leads[mine[r]] = 1
  /\ pc[r] \in InFlight => apps[mine[r]].delivery = "PENDING"

\* No two handlers work on one application.
OneEach ==
  \A r, s \in Requests :
    (pc[r] \in InFlight /\ pc[s] \in InFlight /\ mine[r] = mine[s]) => r = s

DeliveryInv == (\A r \in Requests : Delivering(r)) /\ OneEach /\ SentMeansOneLead

\* A step that leaves the tables, and no handler newly on its way.
LEMMA DeliveryKept ==
  ASSUME DeliveryInv, UNCHANGED <<apps, leads>>,
         \A r \in Requests : pc'[r] \in InFlight =>
           pc'[r] = pc[r] /\ mine'[r] = mine[r] /\ reply'[r] = reply[r],
         \A i \in Ids : <<i, "lead created">> \in notices' =>
           <<i, "lead created">> \in notices \/ leads[i] = 1
  PROVE  DeliveryInv'
<1>1. ASSUME NEW r \in Requests
      PROVE  Delivering(r)'
  BY DEF DeliveryInv, Delivering, InFlight
<1>2. OneEach'
  BY DEF DeliveryInv, OneEach
<1>3. SentMeansOneLead'
  BY DEF DeliveryInv, SentMeansOneLead, Ids
<1>4. QED
  BY <1>1, <1>2, <1>3 DEF DeliveryInv

\* Every step keeps what the handlers and the CRM know of a delivery in line.
LEMMA DeliveryNext == Typed /\ DeliveryInv /\ [Next]_vars => DeliveryInv'
<1> SUFFICES ASSUME Typed, DeliveryInv, [Next]_vars
             PROVE  DeliveryInv'
  OBVIOUS
<1>t. /\ TableTypes /\ HandlerTypes /\ HistoryTypes /\ HandlerOK
      /\ pc \in [Requests -> HandlerStates] /\ mine \in [Requests -> Ids \cup {0}]
      /\ reply \in [Requests -> {"none", "lead_id", "exception"}]
      /\ apps \in Seq(Application) /\ leads \in Seq(Nat) /\ Len(leads) = Len(apps)
      /\ Ids = 1..Len(apps) /\ Len(apps) \in Nat
  BY IdsRange DEF Typed, TypeOK, TableTypes, HandlerTypes
<1>l. ASSUME NEW r \in Requests, Leave(r)
      PROVE  \A s \in Requests : pc'[s] \in InFlight =>
               pc'[s] = pc[s] /\ mine'[s] = mine[s] /\ reply'[s] = reply[s]
  BY <1>l, <1>t DEF Leave, InFlight
<1>1. ASSUME NEW r \in Requests, NEW a \in Agents, NEW p \in Phones, Submit(r, a, p)
      PROVE  DeliveryInv'
  BY <1>1, <1>t, DeliveryKept DEF Submit, InFlight
<1>2. ASSUME NEW r \in Requests, FindLatest(r)
      PROVE  DeliveryInv'
  BY <1>2, <1>t, DeliveryKept DEF FindLatest, InFlight
<1>3. ASSUME NEW r \in Requests, JudgeFixation(r)
      PROVE  DeliveryInv'
  <2>1. UNCHANGED <<apps, leads, notices>>
    BY <1>3 DEF JudgeFixation
  <2>2. CASE Leave(r)
    BY <1>l, <2>1, <2>2, DeliveryKept
  <2>3. CASE pc' = [pc EXCEPT ![r] = "insert"] /\ UNCHANGED <<mine, reply>>
    BY <1>t, <2>1, <2>3, DeliveryKept DEF InFlight
  <2>4. QED
    BY <1>3, <2>2, <2>3 DEF JudgeFixation
<1>4. ASSUME NEW r \in Requests, InsertApplication(r)
      PROVE  DeliveryInv'
  <2> DEFINE n == Len(apps) + 1
             new == [agent |-> form[r].agent, phone |-> form[r].phone,
                     created |-> day, delivery |-> "PENDING"]
  <2>1. new \in Application /\ new.delivery = "PENDING"
    BY <1>4, <1>t DEF InsertApplication, HandlerOK, TableTypes, Forms, Application, Delivery
  <2>2. /\ apps' = Append(apps, new) /\ leads' = Append(leads, 0)
        /\ pc' = [pc EXCEPT ![r] = "deliver"] /\ mine' = [mine EXCEPT ![r] = n]
        /\ reply' = reply /\ notices' = notices
    BY <1>4 DEF InsertApplication
  <2>3. /\ \A i \in Ids : apps'[i] = apps[i] /\ leads'[i] = leads[i]
        /\ apps'[n] = new /\ leads'[n] = 0
        /\ Ids' = Ids \cup {n} /\ n \notin Ids
    <3> HIDE DEF new
    <3>1. /\ Len(apps') = n /\ apps'[n] = new /\ \A i \in Ids : apps'[i] = apps[i]
          /\ apps' \in Seq(Application)
      BY <1>t, <2>1, <2>2, AppendProperties
    <3>2. leads'[n] = 0 /\ \A i \in Ids : leads'[i] = leads[i]
      BY <1>t, <2>2, AppendProperties
    <3>3. Ids' = 1..n
      BY <3>1, LenProperties DEF Ids
    <3>4. QED
      BY <1>t, <3>1, <3>2, <3>3
  <2>4. ASSUME NEW s \in Requests
        PROVE  Delivering(s)'
    <3>1. CASE s = r
      BY <1>t, <2>1, <2>2, <2>3, <3>1 DEF Delivering, InFlight
    <3>2. CASE s # r
      <4>1. pc'[s] = pc[s] /\ mine'[s] = mine[s] /\ reply'[s] = reply[s]
        BY <1>t, <2>2, <3>2
      <4>2. pc[s] \in InFlight => mine[s] \in Ids
        BY <1>t DEF HandlerOK, InFlight
      <4>3. QED
        BY <2>3, <4>1, <4>2 DEF DeliveryInv, Delivering, InFlight
    <3>3. QED
      BY <3>1, <3>2
  <2>5. OneEach'
    <3>1. \A s \in Requests \ {r} : pc'[s] = pc[s] /\ mine'[s] = mine[s]
      BY <1>t, <2>2
    <3>2. \A s \in Requests : pc[s] \in InFlight => mine[s] \in Ids
      BY <1>t DEF HandlerOK, InFlight
    <3>3. mine'[r] = n
      BY <1>t, <2>2
    <3>4. QED
      BY <2>3, <3>1, <3>2, <3>3 DEF DeliveryInv, OneEach
  <2>6. SentMeansOneLead'
    <3>1. \A i \in Ids : /\ leads'[i] <= 1
                         /\ apps'[i].delivery = "SENT" => leads'[i] = 1
                         /\ <<i, "lead created">> \in notices' => leads'[i] = 1
      BY <2>2, <2>3 DEF DeliveryInv, SentMeansOneLead
    <3>2. <<n, "lead created">> \notin notices'
      BY <1>t, <2>2, <2>3 DEF TableTypes
    <3>3. leads'[n] <= 1 /\ apps'[n].delivery # "SENT"
      BY <2>1, <2>3
    <3>4. QED
      BY <2>3, <3>1, <3>2, <3>3 DEF SentMeansOneLead
  <2>7. QED
    BY <2>4, <2>5, <2>6 DEF DeliveryInv
<1>5. ASSUME NEW r \in Requests, CreateLead(r)
      PROVE  DeliveryInv'
  <2>1. PICK i \in Ids : i = mine[r]
    BY <1>5, <1>t DEF CreateLead, HandlerOK
  <2>2. /\ pc[r] = "deliver" /\ leads[i] = 0 /\ apps[i].delivery = "PENDING"
        /\ pc' = [pc EXCEPT ![r] = "record"]
        /\ UNCHANGED <<apps, mine, notices>>
    BY <1>5, <2>1 DEF CreateLead, DeliveryInv, Delivering, InFlight
  <2>3. /\ \A j \in Ids \ {i} : leads'[j] = leads[j]
        /\ leads'[i] \in {0, 1}
        /\ reply'[r] = "lead_id" => leads'[i] = 1
        /\ \A s \in Requests \ {r} : reply'[s] = reply[s]
    <3>1. i \in 1..Len(leads)
      BY <1>t, <2>1
    <3>2. QED
      BY <1>5, <1>t, <2>1, <2>2, <3>1 DEF CreateLead
  <2>4. ASSUME NEW s \in Requests
        PROVE  Delivering(s)'
    <3>1. CASE s = r
      BY <1>t, <2>1, <2>2, <2>3, <3>1 DEF Delivering, InFlight
    <3>2. CASE s # r
      <4>1. pc'[s] = pc[s] /\ mine'[s] = mine[s] /\ reply'[s] = reply[s]
        BY <1>t, <2>2, <2>3, <3>2
      <4>2. pc[s] \in InFlight => mine[s] \in Ids \ {i}
        BY <1>t, <2>1, <2>2, <3>2 DEF HandlerOK, InFlight, DeliveryInv, OneEach
      <4>3. QED
        BY <2>2, <2>3, <4>1, <4>2 DEF DeliveryInv, Delivering, InFlight
    <3>3. QED
      BY <3>1, <3>2
  <2>5. OneEach'
    BY <1>t, <2>2 DEF DeliveryInv, OneEach, InFlight
  <2>6. SentMeansOneLead'
    <3>1. ASSUME NEW j \in Ids, j # i
          PROVE  /\ leads'[j] <= 1
                 /\ apps[j].delivery = "SENT" => leads'[j] = 1
                 /\ <<j, "lead created">> \in notices => leads'[j] = 1
      BY <2>3, <3>1 DEF DeliveryInv, SentMeansOneLead
    <3>2. /\ leads'[i] <= 1 /\ apps[i].delivery # "SENT"
          /\ <<i, "lead created">> \notin notices
      <4>1. <<i, "lead created">> \in notices => leads[i] = 1
        BY <2>1 DEF DeliveryInv, SentMeansOneLead
      <4>2. leads'[i] <= 1
        BY <2>3
      <4>3. apps[i].delivery # "SENT"
        BY <2>2
      <4>4. leads[i] # 1
        BY <2>2
      <4>5. QED
        BY <4>1, <4>2, <4>3, <4>4, Zenon
    <3>3. QED
      BY <2>2, <3>1, <3>2 DEF SentMeansOneLead, Ids
  <2>7. QED
    BY <2>4, <2>5, <2>6 DEF DeliveryInv
<1>6. ASSUME NEW r \in Requests, RecordDelivery(r)
      PROVE  DeliveryInv'
  <2>1. PICK i \in Ids : i = mine[r]
    BY <1>6, <1>t DEF RecordDelivery, HandlerOK
  <2>2. /\ pc[r] = "record" /\ leads[i] <= 1 /\ (reply[r] = "lead_id" => leads[i] = 1)
        /\ pc' = [pc EXCEPT ![r] = "notify"]
        /\ UNCHANGED <<leads, mine, reply, notices>>
    BY <1>6, <2>1 DEF RecordDelivery, DeliveryInv, Delivering
  <2>3. apps' = [apps EXCEPT ![i].delivery = DeliveryOutcome(reply[r])]
    BY <1>6, <2>1 DEF RecordDelivery
  <2>4. /\ Ids' = Ids /\ \A j \in Ids \ {i} : apps'[j] = apps[j]
        /\ apps'[i].delivery = DeliveryOutcome(reply[r])
    <3>1. apps[i] \in Application
      BY <1>t, IdsRange
    <3>2. QED
      BY <1>t, <2>1, <2>3, <3>1 DEF Application, Ids
  <2>5. ASSUME NEW s \in Requests
        PROVE  Delivering(s)'
    <3>1. CASE s = r
      BY <1>t, <2>2, <3>1 DEF Delivering, InFlight
    <3>2. CASE s # r
      <4>1. pc'[s] = pc[s]
        BY <1>t, <2>2, <3>2
      <4>2. pc[s] \in InFlight => mine[s] \in Ids \ {i}
        BY <1>t, <2>1, <2>2, <3>2 DEF HandlerOK, InFlight, DeliveryInv, OneEach
      <4>3. QED
        BY <2>2, <2>4, <4>1, <4>2 DEF DeliveryInv, Delivering, InFlight
    <3>3. QED
      BY <3>1, <3>2
  <2>6. OneEach'
    BY <1>t, <2>2 DEF DeliveryInv, OneEach, InFlight
  <2>7. SentMeansOneLead'
    BY <2>2, <2>4 DEF DeliveryInv, SentMeansOneLead, DeliveryOutcome
  <2>8. QED
    BY <2>5, <2>6, <2>7 DEF DeliveryInv
<1>7. ASSUME NEW r \in Requests, NotifyPartner(r)
      PROVE  DeliveryInv'
  <2>1. UNCHANGED <<apps, leads>> /\ Leave(r)
    BY <1>7 DEF NotifyPartner
  <2>2. \A i \in Ids : <<i, "lead created">> \in notices' =>
          <<i, "lead created">> \in notices \/ leads[i] = 1
    <3>1. ASSUME NEW i \in Ids, <<i, "lead created">> = <<mine[r], Claim(mine[r])>>
          PROVE  leads[i] = 1
      <4>1. apps[i].delivery = "SENT"
        BY <3>1 DEF Claim
      <4>2. QED
        BY <4>1 DEF DeliveryInv, SentMeansOneLead
    <3>2. QED
      BY <1>7, <3>1 DEF NotifyPartner
  <2>3. QED
    BY <1>l, <2>1, <2>2, DeliveryKept
<1>8. ASSUME NEW r \in Requests, HandlerDies(r)
      PROVE  DeliveryInv'
  BY <1>8, <1>l, DeliveryKept DEF HandlerDies
<1>9. CASE NextDay \/ UNCHANGED vars \/ \E i \in Ids : CreateReward(i)
  BY <1>9, DeliveryKept DEF NextDay, vars, handlerVars, CreateReward
<1>10. QED
  BY <1>1, <1>2, <1>3, <1>4, <1>5, <1>6, <1>7, <1>8, <1>9 DEF Next, HandlerStep

\* The invariant of the deliveries holds in every reachable state.
LEMMA DeliveryInvariant == Spec => []DeliveryInv
<1>1. Init => DeliveryInv
  BY DEF Init, DeliveryInv, Delivering, OneEach, SentMeansOneLead, InFlight, Ids
<1>2. QED
  BY <1>1, InitTyped, NextTyped, DeliveryNext, PTL DEF Spec

\* An application recorded as sent, or announced as created, has exactly one lead
\* in the CRM, for any number of handlers that die or lose an answer; one recorded
\* as failed may have a lead too (_deliver).
THEOREM SentCorrect == Spec => []SentMeansOneLead
<1>1. DeliveryInv => SentMeansOneLead
  BY DEF DeliveryInv
<1>2. QED
  BY <1>1, DeliveryInvariant, PTL

-----------------------------------------------------------------------------
(* Applications left pending *)

PendingIds == {i \in Ids : Pending(i)}
Owners == {r \in Requests : pc[r] \in InFlight}

PendingInv == IsFiniteSet(Owners) /\ PendingIsOwned

\* The applications and the handlers on their way can be counted.
LEMMA PendingCounted ==
  ASSUME Typed
  PROVE  IsFiniteSet(PendingIds) /\ Cardinality(PendingIds) \in Nat
<1>1. PendingIds \subseteq 1..Len(apps) /\ Len(apps) \in Nat
  BY IdsRange DEF Typed, TypeOK, PendingIds
<1>2. IsFiniteSet(1..Len(apps))
  BY <1>1, FS_Interval
<1>3. IsFiniteSet(PendingIds)
  BY <1>1, <1>2, FS_Subset, Zenon
<1>4. QED
  BY <1>3, FS_CardinalityType, Zenon

\* A step that moves none of them.
LEMMA PendingKept ==
  ASSUME PendingInv, UNCHANGED <<PendingIds, Owners, deaths>>
  PROVE  PendingInv'
  BY DEF PendingInv, PendingIsOwned, PendingIds, Owners

\* A new application comes with its owner, one leaves with its result, and a
\* handler that dies is counted.
LEMMA PendingNext == Typed /\ Typed' /\ DeliveryInv /\ PendingInv /\ [Next]_vars => PendingInv'
<1> SUFFICES ASSUME Typed, Typed', DeliveryInv, PendingInv, [Next]_vars
             PROVE  PendingInv'
  OBVIOUS
<1>t. /\ TableTypes /\ HandlerTypes /\ HandlerOK /\ deaths \in Nat
      /\ pc \in [Requests -> HandlerStates] /\ mine \in [Requests -> Ids \cup {0}]
      /\ apps \in Seq(Application) /\ Ids = 1..Len(apps) /\ Len(apps) \in Nat
  BY IdsRange DEF Typed, TypeOK, TableTypes, HandlerTypes, HistoryTypes
<1>i. PendingIsOwned <=> Cardinality(PendingIds) <= Cardinality(Owners) + deaths
  BY DEF PendingIsOwned, PendingIds, Owners
<1>j. PendingIsOwned' <=> Cardinality(PendingIds') <= Cardinality(Owners') + deaths'
  BY DEF PendingIsOwned, PendingIds, Owners
<1>n. /\ IsFiniteSet(Owners) /\ Cardinality(Owners) \in Nat
      /\ IsFiniteSet(PendingIds) /\ Cardinality(PendingIds) \in Nat
      /\ Cardinality(PendingIds) <= Cardinality(Owners) + deaths
  BY <1>i, PendingCounted, FS_CardinalityType DEF PendingInv
<1>k. ASSUME UNCHANGED <<apps, deaths>>, NEW r \in Requests, pc[r] \notin InFlight \/ pc[r] = "deliver",
             NEW to, pc' = [pc EXCEPT ![r] = to], pc[r] \in InFlight <=> to \in InFlight
      PROVE  PendingInv'
  <2>1. Owners' = Owners
    BY <1>t, <1>k DEF Owners
  <2>2. PendingIds' = PendingIds
    BY <1>k DEF PendingIds, Pending, Ids
  <2>3. QED
    BY <1>k, <2>1, <2>2, PendingKept
<1>1. ASSUME NEW r \in Requests, NEW a \in Agents, NEW p \in Phones, Submit(r, a, p)
      PROVE  PendingInv'
  BY <1>1, <1>k DEF Submit, InFlight
<1>2. ASSUME NEW r \in Requests, FindLatest(r)
      PROVE  PendingInv'
  BY <1>2, <1>k DEF FindLatest, InFlight
<1>3. ASSUME NEW r \in Requests, JudgeFixation(r)
      PROVE  PendingInv'
  BY <1>3, <1>k DEF JudgeFixation, Leave, InFlight
<1>4. ASSUME NEW r \in Requests, InsertApplication(r)
      PROVE  PendingInv'
  <2> DEFINE n == Len(apps) + 1
             new == [agent |-> form[r].agent, phone |-> form[r].phone,
                     created |-> day, delivery |-> "PENDING"]
  <2>1. apps' = Append(apps, new) /\ new.delivery = "PENDING" /\ deaths' = deaths
        /\ pc[r] = "insert" /\ pc' = [pc EXCEPT ![r] = "deliver"]
    BY <1>4 DEF InsertApplication
  <2>2. new \in Application
    BY <1>4, <1>t DEF InsertApplication, HandlerOK, TableTypes, Forms, Application, Delivery
  <2>3. Ids' = Ids \cup {n} /\ n \notin Ids
        /\ apps'[n] = new /\ \A i \in Ids : apps'[i] = apps[i]
    <3> HIDE DEF new
    <3>1. /\ Len(apps') = n /\ apps'[n] = new /\ \A i \in Ids : apps'[i] = apps[i]
          /\ apps' \in Seq(Application)
      BY <1>t, <2>1, <2>2, AppendProperties
    <3>2. Ids' = 1..n
      BY <3>1, LenProperties DEF Ids
    <3>3. QED
      BY <1>t, <3>1, <3>2
  <2>4. PendingIds' = PendingIds \cup {n} /\ n \notin PendingIds
    BY <2>1, <2>3 DEF PendingIds, Pending
  <2>5. Owners' = Owners \cup {r} /\ r \notin Owners
    BY <1>t, <2>1 DEF Owners, InFlight
  <2>6. Cardinality(PendingIds') = Cardinality(PendingIds) + 1
    <3>1. Cardinality(PendingIds \cup {n}) = Cardinality(PendingIds) + 1
      BY <1>n, <2>4, FS_AddElement, Zenon
    <3>2. QED
      BY <2>4, <3>1
  <2>7. IsFiniteSet(Owners') /\ Cardinality(Owners') = Cardinality(Owners) + 1
    <3>1. IsFiniteSet(Owners \cup {r}) /\ Cardinality(Owners \cup {r}) = Cardinality(Owners) + 1
      BY <1>n, <2>5, FS_AddElement, Zenon
    <3>2. QED
      BY <2>5, <3>1
  <2>8. QED
    BY <1>j, <1>n, <1>t, <2>1, <2>6, <2>7 DEF PendingInv
<1>5. ASSUME NEW r \in Requests, CreateLead(r)
      PROVE  PendingInv'
  BY <1>5, <1>k DEF CreateLead, InFlight
<1>6. ASSUME NEW r \in Requests, RecordDelivery(r)
      PROVE  PendingInv'
  <2>1. PICK i \in Ids : i = mine[r]
    BY <1>6, <1>t DEF RecordDelivery, HandlerOK
  <2>2. /\ pc[r] = "record" /\ apps[i].delivery = "PENDING"
        /\ pc' = [pc EXCEPT ![r] = "notify"]
        /\ deaths' = deaths
    BY <1>6, <2>1 DEF RecordDelivery, DeliveryInv, Delivering, InFlight
  <2>3. apps' = [apps EXCEPT ![i].delivery = DeliveryOutcome(reply[r])]
    BY <1>6, <2>1 DEF RecordDelivery
  <2>4. /\ Ids' = Ids /\ \A j \in Ids \ {i} : apps'[j] = apps[j]
        /\ apps'[i].delivery # "PENDING"
    <3>1. apps[i] \in Application
      BY <1>t, <2>1, IdsRange
    <3>2. QED
      BY <1>t, <2>1, <2>3, <3>1 DEF Application, Ids, DeliveryOutcome
  <2>5. PendingIds' = PendingIds \ {i} /\ i \in PendingIds
    BY <2>1, <2>2, <2>4 DEF PendingIds, Pending
  <2>6. Owners' = Owners \ {r} /\ r \in Owners
    BY <1>t, <2>2 DEF Owners, InFlight
  <2>7. Cardinality(PendingIds') = Cardinality(PendingIds) - 1
    <3>1. Cardinality(PendingIds \ {i}) = Cardinality(PendingIds) - 1
      BY <1>n, <2>5, FS_RemoveElement, Zenon
    <3>2. QED
      BY <2>5, <3>1
  <2>8. IsFiniteSet(Owners') /\ Cardinality(Owners') = Cardinality(Owners) - 1
    <3>1. IsFiniteSet(Owners \ {r}) /\ Cardinality(Owners \ {r}) = Cardinality(Owners) - 1
      BY <1>n, <2>6, FS_RemoveElement, Zenon
    <3>2. QED
      BY <2>6, <3>1
  <2>9. QED
    BY <1>j, <1>n, <1>t, <2>2, <2>7, <2>8 DEF PendingInv
<1>7. ASSUME NEW r \in Requests, NotifyPartner(r)
      PROVE  PendingInv'
  BY <1>7, <1>k DEF NotifyPartner, Leave, InFlight
<1>8. ASSUME NEW r \in Requests, HandlerDies(r)
      PROVE  PendingInv'
  <2>1. /\ apps' = apps /\ deaths' = deaths + 1 /\ pc' = [pc EXCEPT ![r] = "idle"]
    BY <1>8 DEF HandlerDies, Leave
  <2>2. PendingIds' = PendingIds
    BY <2>1 DEF PendingIds, Pending, Ids
  <2>3. Owners' = Owners \ {r}
    BY <1>t, <2>1 DEF Owners, InFlight
  <2>4. /\ IsFiniteSet(Owners')
        /\ Cardinality(Owners') \in {Cardinality(Owners), Cardinality(Owners) - 1}
    <3>1. /\ IsFiniteSet(Owners \ {r})
          /\ Cardinality(Owners \ {r}) = IF r \in Owners THEN Cardinality(Owners) - 1
                                                         ELSE Cardinality(Owners)
      BY <1>n, FS_RemoveElement, Zenon
    <3>2. QED
      BY <2>3, <3>1
  <2>5. QED
    BY <1>j, <1>n, <1>t, <2>1, <2>2, <2>4 DEF PendingInv
<1>9. CASE NextDay \/ UNCHANGED vars \/ \E i \in Ids : CreateReward(i)
  <2>1. UNCHANGED <<apps, pc, deaths>>
    BY <1>9 DEF NextDay, vars, handlerVars, CreateReward
  <2>2. QED
    BY <2>1, PendingKept DEF PendingIds, Pending, Owners, Ids
<1>10. QED
  BY <1>1, <1>2, <1>3, <1>4, <1>5, <1>6, <1>7, <1>8, <1>9 DEF Next, HandlerStep

\* Applications left pending are owned by a handler or owed to one that died.
THEOREM PendingCorrect == Spec => []PendingIsOwned
<1>1. Init => PendingInv
  <2> SUFFICES ASSUME Init PROVE PendingInv
    OBVIOUS
  <2>1. Owners = {} /\ PendingIds = {}
    BY DEF Init, Owners, PendingIds, Ids, InFlight
  <2>2. Cardinality({}) = 0 /\ IsFiniteSet({})
    BY FS_EmptySet
  <2>3. Cardinality(PendingIds) <= Cardinality(Owners) + deaths
    BY <2>1, <2>2 DEF Init
  <2>4. QED
    BY <2>1, <2>2, <2>3 DEF PendingInv, PendingIsOwned, PendingIds, Owners
<1>2. PendingInv => PendingIsOwned
  BY DEF PendingInv
<1>3. QED
  BY <1>1, <1>2, InitTyped, NextTyped, DeliveryInvariant, PendingNext, PTL DEF Spec

-----------------------------------------------------------------------------
(* What the mapping looks at *)

\* A set of ids has one highest.
LEMMA HighestIs ==
  ASSUME NEW S, S \subseteq Nat, NEW i \in S, \A j \in S : j <= i
  PROVE  (CHOOSE k \in S : \A j \in S : j <= k) = i
<1> DEFINE High(k) == \A j \in S : j <= k
<1>1. High(i)
  OBVIOUS
<1>2. \A k \in S : High(k) => k = i
  OBVIOUS
<1> HIDE DEF High
<1>3. (CHOOSE k \in S : High(k)) \in S /\ High(CHOOSE k \in S : High(k))
  BY <1>1
<1>4. (CHOOSE k \in S : High(k)) = i
  BY <1>2, <1>3, Zenon
<1>5. QED
  BY <1>4 DEF High

\* Steps that leave the applications and the rewards alone move no fixation.
LEMMA TablesStill ==
  ASSUME UNCHANGED <<apps, rewarded>>
  PROVE  /\ FixationTable' = FixationTable
         /\ Paid' = Paid
         /\ \A p : OfPhone(p)' = OfPhone(p) /\ Current(p)' = Current(p)
<1>1. \A p : OfPhone(p)' = OfPhone(p) /\ Current(p)' = Current(p)
  BY DEF OfPhone, Current, Ids
<1>2. \A p : FixationOf(p)' = FixationOf(p)
  BY <1>1 DEF FixationOf
<1>3. QED
  BY <1>1, <1>2 DEF FixationTable, Paid

\* With one handler, a claim is open while it is between test and insert.
LEMMA OneClaim ==
  ASSUME NEW h, Requests = {h}
  PROVE  /\ pc[h] # "insert" => Claimed = {}
         /\ pc[h] = "insert" /\ form[h].phone \in Phones => Claimed = {form[h].phone}
         /\ pc'[h] # "insert" => Claimed' = {}
         /\ pc'[h] = "insert" /\ form'[h].phone \in Phones => Claimed' = {form'[h].phone}
  BY DEF Claimed

\* A handler that may insert has a form with a client.
LEMMA FormPhone ==
  ASSUME Typed, NEW r \in Requests, pc[r] # "idle"
  PROVE  form[r].phone \in Phones /\ form[r].agent \in Agents
  BY DEF Typed, HandlerOK, Forms

-----------------------------------------------------------------------------
(* The invariant *)

\* The current application of a client with any is the one of the highest id,
\* and it is the one that a handler at the fixation test has found.
CurrentSound ==
  \A p \in Phones : OfPhone(p) # {} =>
    Current(p) \in OfPhone(p) /\ \A j \in OfPhone(p) : j <= Current(p)

FoundCurrent ==
  \A r \in Requests : pc[r] = "fixation" =>
    /\ OfPhone(form[r].phone) # {}
    /\ latest[r] = Current(form[r].phone)

FixInv == CurrentSound /\ FoundCurrent

\* A new application becomes the current one of its client.
LEMMA Inserted ==
  ASSUME Typed, NEW r \in Requests, InsertApplication(r), NEW p \in Phones
  PROVE  LET n == Len(apps) + 1 IN
         /\ n \in Nat /\ n \notin Ids /\ rewarded \subseteq Ids
         /\ p # form[r].phone => /\ OfPhone(p)' = OfPhone(p)
                                 /\ Current(p)' = Current(p)
                                 /\ \A i \in OfPhone(p) : apps'[i] = apps[i]
         /\ p = form[r].phone => /\ n \in OfPhone(p)'
                                 /\ Current(p)' = n
                                 /\ \A j \in OfPhone(p)' : j <= n
         /\ apps'[n].agent = form[r].agent
         /\ apps'[n].created = day
<1> DEFINE n == Len(apps) + 1
           row == [agent |-> form[r].agent, phone |-> form[r].phone,
                   created |-> day, delivery |-> "PENDING"]
<1>1. TableTypes /\ HandlerOK
  BY DEF Typed, TypeOK
<1>2. /\ apps \in Seq(Application)
      /\ Len(apps) \in Nat
      /\ Ids = 1..Len(apps)
      /\ apps' = Append(apps, row)
  BY <1>1, IdsRange DEF InsertApplication, TableTypes
<1>3. row \in Application
  BY <1>1 DEF InsertApplication, HandlerOK, TableTypes, Forms, Application, Delivery
<1> HIDE DEF row
<1>4. /\ Ids' = 1..n
      /\ \A i \in Ids : apps'[i] = apps[i]
      /\ apps'[n] = row
  BY <1>2, <1>3, AppendProperties, LenProperties DEF Ids
<1>5. OfPhone(p)' = IF p = form[r].phone THEN OfPhone(p) \cup {n} ELSE OfPhone(p)
  BY <1>2, <1>4 DEF OfPhone, row
<1>6. OfPhone(p) \subseteq 1..Len(apps)
  BY <1>2 DEF OfPhone
<1>7. p = form[r].phone => Current(p)' = n
  <2> SUFFICES ASSUME p = form[r].phone PROVE Current(p)' = n
    OBVIOUS
  <2> DEFINE S == OfPhone(p)'
  <2>1. S \subseteq Nat /\ n \in S /\ \A j \in S : j <= n
    BY <1>2, <1>5, <1>6
  <2> HIDE DEF S
  <2>2. (CHOOSE k \in S : \A j \in S : j <= k) = n
    BY <2>1, HighestIs
  <2>3. QED
    BY <2>2 DEF S, Current
<1>8. p # form[r].phone => Current(p)' = Current(p)
  BY <1>5 DEF Current
<1>9. n \in Nat /\ n \notin Ids /\ rewarded \subseteq Ids
  <2>1. n \in Nat /\ n \notin Ids
    BY <1>2
  <2>2. rewarded \subseteq Ids
    BY <1>1 DEF TableTypes
  <2>3. QED
    BY <2>1, <2>2
<1>10. apps'[n].agent = form[r].agent /\ apps'[n].created = day
  BY <1>4 DEF row
<1>11. \A i \in OfPhone(p) : apps'[i] = apps[i]
  BY <1>4 DEF OfPhone
<1>12. p = form[r].phone => n \in OfPhone(p)' /\ \A j \in OfPhone(p)' : j <= n
  BY <1>2, <1>5, <1>6
<1>13. QED
  BY <1>5, <1>7, <1>8, <1>9, <1>10, <1>11, <1>12

\* A delivery result moves no application to another client or day.
LEMMA Recorded ==
  ASSUME Typed, CurrentSound, NEW r \in Requests, RecordDelivery(r)
  PROVE  /\ \A p : OfPhone(p)' = OfPhone(p) /\ Current(p)' = Current(p)
         /\ FixationTable' = FixationTable
         /\ Paid' = Paid
<1>1. TableTypes /\ HandlerOK
  BY DEF Typed, TypeOK
<1>2. apps \in Seq(Application) /\ mine[r] \in Ids
  BY <1>1 DEF TableTypes, HandlerOK, RecordDelivery
<1>3. \A i \in Ids : apps[i] \in Application
  BY <1>1, IdsRange
<1>4. /\ Ids' = Ids
      /\ \A i \in Ids : /\ apps'[i].phone = apps[i].phone
                        /\ apps'[i].agent = apps[i].agent
                        /\ apps'[i].created = apps[i].created
  BY <1>2, <1>3 DEF RecordDelivery, Ids, Application
<1>5. \A p : OfPhone(p)' = OfPhone(p)
  BY <1>4 DEF OfPhone
<1>6. \A p : Current(p)' = Current(p)
  BY <1>5 DEF Current
<1>7. rewarded' = rewarded
  BY DEF RecordDelivery
<1>8. Paid' = Paid
  BY <1>5, <1>6, <1>7 DEF Paid
<1>9. ASSUME NEW p \in Phones PROVE FixationOf(p)' = FixationOf(p)
  <2>1. OfPhone(p) # {} => Current(p) \in Ids
    BY DEF CurrentSound, OfPhone
  <2>2. QED
    BY <1>4, <1>5, <1>6, <2>1 DEF FixationOf
<1>10. QED
  BY <1>5, <1>6, <1>8, <1>9 DEF FixationTable

-----------------------------------------------------------------------------
(* The invariant holds *)

\* A step that leaves every client its applications.
LEMMA CurrentKept ==
  ASSUME CurrentSound, \A p : OfPhone(p)' = OfPhone(p) /\ Current(p)' = Current(p)
  PROVE  CurrentSound'
  BY DEF CurrentSound

LEMMA FixInvNext ==
  ASSUME NEW h, Requests = {h}, Typed, OneFixation, FixInv, [Next]_vars
  PROVE  FixInv'
<1>a. /\ h \in Requests
      /\ pc \in [Requests -> HandlerStates]
      /\ form \in [Requests -> Forms \cup {NoForm}]
      /\ TableTypes
      /\ CurrentSound /\ FoundCurrent
  BY DEF Typed, TypeOK, HandlerTypes, FixInv
<1>1. CASE InsertApplication(h)
  <2>1. CurrentSound'
    <3> SUFFICES ASSUME NEW p \in Phones, OfPhone(p)' # {}
                 PROVE  Current(p)' \in OfPhone(p)' /\ \A j \in OfPhone(p)' : j <= Current(p)'
      BY DEF CurrentSound
    <3>1. CASE p = form[h].phone
      BY <1>1, <3>1, Inserted, <1>a
    <3>2. CASE p # form[h].phone
      <4>1. OfPhone(p)' = OfPhone(p) /\ Current(p)' = Current(p)
        BY <1>1, <3>2, Inserted, <1>a
      <4>2. QED
        BY <4>1, <1>a DEF CurrentSound
    <3>3. QED
      BY <3>1, <3>2
  <2>2. \A r \in Requests : pc'[r] # "fixation"
    BY <1>1, <1>a DEF InsertApplication
  <2>3. QED
    BY <2>1, <2>2 DEF FixInv, FoundCurrent
<1>2. CASE RecordDelivery(h)
  <2>1. CurrentSound'
    BY <1>2, <1>a, Recorded, CurrentKept
  <2>2. \A r \in Requests : pc'[r] # "fixation"
    BY <1>2, <1>a DEF RecordDelivery
  <2>3. QED
    BY <2>1, <2>2 DEF FixInv, FoundCurrent
<1>3. CASE FindLatest(h)
  <2>1. UNCHANGED <<apps, rewarded, form>>
    BY <1>3 DEF FindLatest
  <2>2. /\ \A p : OfPhone(p)' = OfPhone(p) /\ Current(p)' = Current(p)
        /\ CurrentSound'
    BY <2>1, <1>a, TablesStill, CurrentKept
  <2>3. ASSUME NEW i \in LatestOf(form[h].phone)
        PROVE  OfPhone(form[h].phone) # {} /\ i = Current(form[h].phone)
    <3> DEFINE S == OfPhone(form[h].phone)
    <3>1. i \in S /\ \A j \in S : apps[j].created <= apps[i].created
      BY <2>3 DEF LatestOf
    <3>2. S \subseteq Ids /\ \A j \in S : apps[j].phone = form[h].phone
      BY DEF OfPhone
    <3>3. Ids \subseteq Nat /\ \A j \in Ids : apps[j].created \in Nat
      BY <1>a, IdsRange DEF Application
    <3>4. \A j \in S : i < j => apps[j].created - apps[i].created > ExpiryDays
      BY <3>1, <3>2 DEF OneFixation, SamePhone
    <3> HIDE DEF S
    <3>5. \A j \in S : j <= i
      BY <3>1, <3>2, <3>3, <3>4, ReferralsAssumption
    <3>6. (CHOOSE k \in S : \A j \in S : j <= k) = i
      BY <3>1, <3>2, <3>3, <3>5, HighestIs
    <3>7. QED
      BY <3>1, <3>6 DEF S, Current
  <2>4. FoundCurrent'
    <3> SUFFICES ASSUME pc'[h] = "fixation"
                 PROVE  OfPhone(form[h].phone)' # {} /\ latest'[h] = Current(form[h].phone)'
      BY <1>a DEF FoundCurrent
    <3>1. PICK i \in LatestOf(form[h].phone) : latest' = [latest EXCEPT ![h] = i]
      BY <1>3, <1>a DEF FindLatest
    <3>2. latest'[h] = i
      BY <3>1, <1>a DEF Typed, TypeOK, HandlerTypes
    <3>3. OfPhone(form[h].phone) # {} /\ i = Current(form[h].phone)
      BY <3>1, <2>3
    <3>4. QED
      BY <2>1, <3>2, <3>3 DEF OfPhone, Current, Ids
  <2>5. QED
    BY <2>2, <2>4 DEF FixInv
<1>4. CASE \/ JudgeFixation(h) \/ CreateLead(h) \/ NotifyPartner(h) \/ HandlerDies(h)
           \/ \E a \in Agents, p \in Phones : Submit(h, a, p)
  <2>1. apps' = apps
    BY <1>4 DEF JudgeFixation, CreateLead, NotifyPartner, HandlerDies, Submit
  <2>2. \A p : OfPhone(p)' = OfPhone(p) /\ Current(p)' = Current(p)
    BY <2>1 DEF OfPhone, Current, Ids
  <2>3. pc'[h] # "fixation"
    BY <1>4, <1>a DEF JudgeFixation, CreateLead, NotifyPartner, HandlerDies, Submit, Leave
  <2>4. QED
    BY <2>2, <2>3, <1>a, CurrentKept DEF FixInv, FoundCurrent
<1>5. CASE NextDay \/ (\E i \in Ids : CreateReward(i)) \/ UNCHANGED vars
  <2>1. UNCHANGED <<apps, pc, form, latest>>
    BY <1>5 DEF NextDay, CreateReward, vars, handlerVars
  <2>2. \A p : OfPhone(p)' = OfPhone(p) /\ Current(p)' = Current(p)
    BY <2>1 DEF OfPhone, Current, Ids
  <2>3. QED
    BY <2>1, <2>2, <1>a, CurrentKept DEF FixInv, FoundCurrent
<1>6. QED
  BY <1>1, <1>2, <1>3, <1>4, <1>5 DEF Next, HandlerStep

-----------------------------------------------------------------------------
(* Every step is a step of ClientFixation or none *)

\* An abstract step that is none.
LEMMA NoStep ==
  ASSUME UNCHANGED <<day, FixationTable, Paid, Claimed>>
  PROVE  [Fixations!Next]_Fixations!vars
  BY DEF Fixations!vars

\* A handler finds the client free: it has no application, or its current one
\* is unpaid and expired.
LEMMA FreeClaimed ==
  ASSUME NEW h, Requests = {h}, Typed, FixInv,
         \/ FindLatest(h) /\ OfPhone(form[h].phone) = {}
         \/ JudgeFixation(h) /\ ~FixationActive(latest[h]),
         pc'[h] = "insert"
  PROVE  \E p \in Phones : Fixations!Claim(p)
<1> DEFINE p == form[h].phone
<1>1. /\ h \in Requests
      /\ TableTypes
      /\ pc \in [Requests -> HandlerStates]
      /\ CurrentSound /\ FoundCurrent
  BY DEF Typed, TypeOK, HandlerTypes, FixInv
<1>2. p \in Phones /\ pc[h] \in {"lookup", "fixation"}
  BY <1>1, FormPhone DEF FindLatest, JudgeFixation
<1>3. UNCHANGED <<day, apps, rewarded>> /\ form'[h].phone = p
  <2>1. CASE FindLatest(h)
    BY <2>1 DEF FindLatest
  <2>2. CASE JudgeFixation(h)
    BY <2>2, <1>1 DEF JudgeFixation, Leave
  <2>3. QED
    BY <2>1, <2>2
<1>4. Claimed = {} /\ Claimed' = {p}
  BY <1>2, <1>3, OneClaim
<1>5. FixationTable' = FixationTable /\ Paid' = Paid
  BY <1>3, TablesStill
<1>6. Fixations!Fixed(p) => Fixations!Expired(p)
  <2>1. CASE FindLatest(h) /\ OfPhone(p) = {}
    BY <2>1, <1>2 DEF Fixations!Fixed, FixationTable, FixationOf
  <2>2. CASE JudgeFixation(h) /\ ~FixationActive(latest[h])
    <3>1. pc[h] = "fixation"
      BY <2>2 DEF JudgeFixation
    <3>2. OfPhone(p) # {} /\ latest[h] = Current(p)
      BY <1>1, <3>1 DEF FoundCurrent
    <3>3. Current(p) \notin rewarded /\ ~(day - apps[Current(p)].created <= ExpiryDays)
      BY <2>2, <3>2 DEF FixationActive
    <3>4. Current(p) \in Ids
      BY <1>1, <1>2, <3>2 DEF CurrentSound, OfPhone
    <3>5. apps[Current(p)].created \in Nat /\ day \in Nat
      BY <1>1, <3>4, IdsRange DEF Application, TableTypes
    <3>6. FixationTable[p].since = apps[Current(p)].created
      BY <1>2, <3>2 DEF FixationTable, FixationOf
    <3>7. p \notin Paid
      BY <3>3 DEF Paid
    <3>8. QED
      BY <3>3, <3>5, <3>6, <3>7, ReferralsAssumption DEF Fixations!Expired
  <2>3. QED
    BY <2>1, <2>2 DEF FindLatest, JudgeFixation
<1>7. Fixations!Claim(p)
  BY <1>3, <1>4, <1>5, <1>6 DEF Fixations!Claim
<1>8. QED
  BY <1>2, <1>7

\* The insert grants the claim.
LEMMA InsertGrants ==
  ASSUME NEW h, Requests = {h}, Typed, CurrentSound, InsertApplication(h)
  PROVE  \E p \in Phones, a \in Agents : Fixations!Grant(p, a)
<1>1. h \in Requests /\ pc \in [Requests -> HandlerStates]
  BY DEF Typed, TypeOK, HandlerTypes
<1>2. /\ form[h].phone \in Phones /\ form[h].agent \in Agents
      /\ pc[h] = "insert" /\ pc'[h] = "deliver"
  BY <1>1, FormPhone DEF InsertApplication
<1>3. PICK p \in Phones, a \in Agents : p = form[h].phone /\ a = form[h].agent
  BY <1>2
<1>4. Claimed = {p} /\ Claimed' = {}
  BY <1>2, <1>3, OneClaim
<1>5. rewarded' = rewarded /\ day' = day
  BY DEF InsertApplication
<1>6. /\ Len(apps) + 1 \notin rewarded
      /\ OfPhone(p)' # {} /\ Current(p)' = Len(apps) + 1
      /\ apps'[Len(apps) + 1].agent = a /\ apps'[Len(apps) + 1].created = day
  BY <1>1, <1>3, Inserted
<1>7. FixationOf(p)' = [agent |-> a, since |-> day]
  BY <1>6 DEF FixationOf
<1>8. ASSUME NEW q \in Phones, q # p
      PROVE  FixationOf(q)' = FixationOf(q) /\ (q \in Paid' <=> q \in Paid)
  <2>1. /\ OfPhone(q)' = OfPhone(q) /\ Current(q)' = Current(q)
        /\ \A i \in OfPhone(q) : apps'[i] = apps[i]
    BY <1>1, <1>3, <1>8, Inserted
  <2>2. OfPhone(q) # {} => Current(q) \in OfPhone(q)
    BY DEF CurrentSound
  <2>3. FixationOf(q)' = FixationOf(q)
    BY <2>1, <2>2 DEF FixationOf
  <2>4. QED
    BY <2>1, <2>3, <1>5 DEF Paid
<1>9. FixationTable' = [FixationTable EXCEPT ![p] = [agent |-> a, since |-> day]]
  BY <1>7, <1>8 DEF FixationTable
<1>10. p \notin Paid'
  BY <1>5, <1>6 DEF Paid
<1>11. Paid \subseteq Phones /\ Paid' \subseteq Phones
  BY DEF Paid
<1>12. Paid' = Paid \ {p}
  BY <1>8, <1>10, <1>11
<1>13. Fixations!Grant(p, a)
  BY <1>4, <1>5, <1>9, <1>12 DEF Fixations!Grant
<1>14. QED
  BY <1>13

\* A reward pays the fixation of a client when it is for its current
\* application, and otherwise none.
LEMMA RewardPays ==
  ASSUME Typed, CurrentSound, "none" \notin Agents, NEW i \in Ids, CreateReward(i)
  PROVE  (\E p \in Phones : Fixations!Pay(p)) \/ UNCHANGED <<day, FixationTable, Paid, Claimed>>
<1>1. /\ rewarded' = rewarded \cup {i}
      /\ UNCHANGED <<day, apps, pc, form>>
  BY DEF CreateReward, handlerVars
<1>2. /\ \A p : OfPhone(p)' = OfPhone(p) /\ Current(p)' = Current(p)
      /\ Claimed' = Claimed
  BY <1>1 DEF OfPhone, Current, Ids, Claimed
<1>3. FixationTable' = FixationTable
  <2>1. \A p : FixationOf(p)' = FixationOf(p)
    BY <1>1, <1>2 DEF FixationOf
  <2>2. QED
    BY <2>1 DEF FixationTable
<1>4. PICK q \in Phones : q = apps[i].phone /\ apps[i].agent \in Agents
  BY IdsRange DEF Typed, TypeOK, Application
<1>5. i \in OfPhone(q) /\ \A p \in Phones : Current(p) = i /\ OfPhone(p) # {} => p = q
  BY <1>4 DEF OfPhone, CurrentSound
<1>6. CASE Current(q) = i
  <2>1. Fixations!Fixed(q)
    BY <1>4, <1>5, <1>6 DEF Fixations!Fixed, FixationTable, FixationOf
  <2>2. Paid' = Paid \cup {q}
    BY <1>1, <1>2, <1>5, <1>6 DEF Paid
  <2>3. QED
    BY <1>1, <1>2, <1>3, <1>4, <2>1, <2>2 DEF Fixations!Pay
<1>7. CASE Current(q) # i
  <2>1. Paid' = Paid
    BY <1>1, <1>2, <1>5, <1>7 DEF Paid
  <2>2. QED
    BY <1>1, <1>2, <1>3, <2>1
<1>8. QED
  BY <1>6, <1>7

LEMMA FixationStep ==
  ASSUME NEW h, Requests = {h}, "none" \notin Agents, Typed, FixInv, [Next]_vars
  PROVE  [Fixations!Next]_Fixations!vars
<1>a. /\ h \in Requests
      /\ pc \in [Requests -> HandlerStates]
      /\ TypeOK
      /\ CurrentSound
  BY DEF Typed, TypeOK, HandlerTypes, FixInv
<1>1. CASE InsertApplication(h)
  BY <1>1, <1>a, InsertGrants DEF Fixations!Next
<1>2. CASE RecordDelivery(h)
  <2>1. pc[h] = "record" /\ pc'[h] = "notify" /\ day' = day
    BY <1>2, <1>a DEF RecordDelivery
  <2>2. Claimed' = Claimed
    BY <2>1, OneClaim
  <2>3. FixationTable' = FixationTable /\ Paid' = Paid
    BY <1>2, <1>a, Recorded
  <2>4. QED
    BY <2>1, <2>2, <2>3, NoStep
<1>3. CASE /\ FindLatest(h) \/ JudgeFixation(h)
           /\ pc'[h] = "insert"
  <2>1. \/ FindLatest(h) /\ OfPhone(form[h].phone) = {}
        \/ JudgeFixation(h) /\ ~FixationActive(latest[h])
    BY <1>3, <1>a DEF FindLatest, JudgeFixation, Leave
  <2>2. QED
    BY <1>3, <2>1, FreeClaimed DEF Fixations!Next
<1>4. CASE /\ \/ FindLatest(h) \/ JudgeFixation(h) \/ CreateLead(h) \/ NotifyPartner(h)
              \/ HandlerDies(h) \/ \E a \in Agents, p \in Phones : Submit(h, a, p)
           /\ pc'[h] # "insert"
  <2>1. UNCHANGED <<day, apps, rewarded>>
    BY <1>4 DEF FindLatest, JudgeFixation, CreateLead, NotifyPartner, HandlerDies, Submit
  <2>2. FixationTable' = FixationTable /\ Paid' = Paid /\ Claimed' = {}
    BY <2>1, <1>4, TablesStill, OneClaim
  <2>3. CASE pc[h] # "insert"
    <3>1. Claimed' = Claimed
      BY <2>2, <2>3, OneClaim
    <3>2. QED
      BY <2>1, <2>2, <3>1, NoStep
  <2>4. CASE pc[h] = "insert"
    <3>1. PICK p \in Phones : Claimed = {p}
      BY <2>4, <1>a, FormPhone, OneClaim
    <3>2. Fixations!GiveUp(p)
      BY <2>1, <2>2, <3>1 DEF Fixations!GiveUp
    <3>3. QED
      BY <3>1, <3>2 DEF Fixations!Next
  <2>5. QED
    BY <2>3, <2>4
<1>5. CASE CreateLead(h) \/ NotifyPartner(h) \/ HandlerDies(h)
           \/ \E a \in Agents, p \in Phones : Submit(h, a, p)
  <2>1. pc'[h] # "insert"
    BY <1>5, <1>a DEF CreateLead, NotifyPartner, HandlerDies, Submit, Leave
  <2>2. QED
    BY <1>4, <1>5, <2>1
<1>6. ASSUME NEW i \in Ids, CreateReward(i) PROVE [Fixations!Next]_Fixations!vars
  BY <1>6, <1>a, RewardPays, NoStep DEF Fixations!Next
<1>7. CASE NextDay
  <2>1. UNCHANGED <<apps, rewarded, pc, form>> /\ day' = day + 1
    BY <1>7 DEF NextDay, handlerVars
  <2>2. FixationTable' = FixationTable /\ Paid' = Paid
    BY <2>1, TablesStill
  <2>3. Claimed' = Claimed
    BY <2>1 DEF Claimed
  <2>4. QED
    BY <2>1, <2>2, <2>3 DEF Fixations!Next, Fixations!NextDay
<1>8. CASE UNCHANGED vars
  <2>1. UNCHANGED <<day, apps, rewarded, pc, form>>
    BY <1>8 DEF vars, handlerVars
  <2>2. FixationTable' = FixationTable /\ Paid' = Paid
    BY <2>1, TablesStill
  <2>3. Claimed' = Claimed
    BY <2>1 DEF Claimed
  <2>4. QED
    BY <2>1, <2>2, <2>3, NoStep
<1>9. QED
  BY <1>1, <1>2, <1>3, <1>4, <1>5, <1>6, <1>7, <1>8 DEF Next, HandlerStep

\* Submissions handled one after another implement the fixation of clients.
THEOREM SerialImplements ==
  ASSUME NEW h, Requests = {h}, "none" \notin Agents
  PROVE  Spec => Fixations!Spec
<1>1. Init => FixInv
  BY DEF Init, FixInv, CurrentSound, FoundCurrent, OfPhone, Ids
<1>2. Typed /\ OneFixation /\ FixInv /\ [Next]_vars => FixInv'
  BY FixInvNext
<1>3. Init => Fixations!Init
  <2> SUFFICES ASSUME Init PROVE Fixations!Init
    OBVIOUS
  <2>1. /\ day = 0 /\ apps = <<>>
        /\ pc = [r \in Requests |-> "idle"]
    BY DEF Init
  <2>2. \A p : OfPhone(p) = {}
    BY <2>1 DEF OfPhone, Ids
  <2>3. FixationTable = [p \in Phones |-> Fixations!NoFixation] /\ Paid = {}
    BY <2>2 DEF FixationTable, FixationOf, Paid, Fixations!NoFixation
  <2>4. Claimed = {}
    BY <2>1 DEF Claimed
  <2>5. QED
    BY <2>1, <2>3, <2>4 DEF Fixations!Init
<1>4. Typed /\ FixInv /\ [Next]_vars => [Fixations!Next]_Fixations!vars
  BY FixationStep
<1>5. ClaimInv => Typed
  BY DEF ClaimInv
<1>6. QED
  BY <1>1, <1>2, <1>3, <1>4, <1>5, ClaimInvariant, SerialFixation, PTL DEF Spec, Fixations!Spec

=============================================================================
