--------------------------- MODULE PayoutsProofs ---------------------------
(***************************************************************************)
(* What TLAPS proves of Payouts for every number of rewards, handlers,     *)
(* chats, days, crashes and failed notices.                                *)
(***************************************************************************)
EXTENDS Payouts, FiniteSetTheorems, TLAPS

-----------------------------------------------------------------------------
(* Type correctness *)

\* The initial state is well typed.
LEMMA InitTyped == Init => TypeOK
<1> SUFFICES ASSUME Init PROVE TypeOK
  OBVIOUS
<1>1. TableTypes
  BY PayoutsAssumption DEF Init, TableTypes
<1>2. HandlerTypes
  BY DEF Init, HandlerTypes
<1>3. JobTypes
  BY DEF Init, JobTypes, JobStates
<1>4. HistoryTypes
  BY DEF Init, HistoryTypes
<1>5. QED
  BY <1>1, <1>2, <1>3, <1>4 DEF TypeOK

\* A message to some chats leaves the delivery counts well typed.
LEMMA DeliverTyped ==
  ASSUME got \in [Rewards -> [Kinds -> [1..Chats -> Nat]]],
         NEW r \in Rewards, NEW k \in Kinds, NEW S, Deliver(r, k, S)
  PROVE  got' \in [Rewards -> [Kinds -> [1..Chats -> Nat]]]
<1> DEFINE reached == [c \in 1..Chats |-> IF c \in S THEN got[r][k][c] + 1 ELSE got[r][k][c]]
<1>1. reached \in [1..Chats -> Nat]
  <2>1. \A c \in 1..Chats : got[r][k][c] \in Nat
    <3>1. got[r] \in [Kinds -> [1..Chats -> Nat]]
      OBVIOUS
    <3>2. got[r][k] \in [1..Chats -> Nat]
      BY <3>1
    <3>3. QED
      BY <3>2
  <2>2. \A c \in 1..Chats : (IF c \in S THEN got[r][k][c] + 1 ELSE got[r][k][c]) \in Nat
    BY <2>1
  <2>3. QED
    BY <2>2
<1>2. got' = [got EXCEPT ![r] = [got[r] EXCEPT ![k] = reached]]
  BY DEF Deliver
<1>3. [got[r] EXCEPT ![k] = reached] \in [Kinds -> [1..Chats -> Nat]]
  BY <1>1
<1>4. QED
  BY <1>2, <1>3

\* A run that ends keeps its types.
LEMMA EndRunTyped == EndRun => JobTypes'
  BY DEF JobTypes, EndRun, JobStates

\* Every step keeps the types.
LEMMA NextTyped == TypeOK /\ [Next]_vars => TypeOK'
<1> SUFFICES ASSUME TableTypes, HandlerTypes, JobTypes, HistoryTypes, [Next]_vars
             PROVE  TableTypes' /\ HandlerTypes' /\ JobTypes' /\ HistoryTypes'
  BY DEF TypeOK
<1> USE DEF handlerVars, jobVars, noticeVars, rewardVars
<1>1. ASSUME NEW r \in Rewards, NEW s \in {"APPROVED", "REJECTED"}, DecideReward(r, s)
      PROVE TableTypes' /\ HandlerTypes' /\ JobTypes' /\ HistoryTypes'
  <2>1. TableTypes'
    BY <1>1 DEF DecideReward, TableTypes
  <2>2. HandlerTypes' /\ JobTypes' /\ HistoryTypes'
    BY <1>1 DEF DecideReward, HandlerTypes, JobTypes, HistoryTypes
  <2>3. QED
    BY <2>1, <2>2
<1>2. ASSUME NEW n \in DelayInputs, SetOverdueDays(n)
      PROVE TableTypes' /\ HandlerTypes' /\ JobTypes' /\ HistoryTypes'
  BY <1>2 DEF SetOverdueDays, ValidDelay, TableTypes, HandlerTypes, JobTypes, HistoryTypes
<1>3. ASSUME NextDay
      PROVE TableTypes' /\ HandlerTypes' /\ JobTypes' /\ HistoryTypes'
  <2>1. TableTypes'
    BY <1>3, PayoutsAssumption DEF NextDay, TableTypes
  <2>2. HandlerTypes' /\ JobTypes' /\ HistoryTypes'
    BY <1>3 DEF NextDay, HandlerTypes, JobTypes, HistoryTypes
  <2>3. QED
    BY <2>1, <2>2
<1>4. ASSUME NEW h \in Handlers, NEW r \in Rewards, LoadReward(h, r)
      PROVE TableTypes' /\ HandlerTypes' /\ JobTypes' /\ HistoryTypes'
  <2>1. HandlerTypes'
    BY <1>4 DEF LoadReward, HandlerTypes
  <2>2. TableTypes' /\ JobTypes' /\ HistoryTypes'
    BY <1>4 DEF LoadReward, TableTypes, JobTypes, HistoryTypes
  <2>3. QED
    BY <2>1, <2>2
<1>5. ASSUME NEW h \in Handlers, CommitPaid(h)
      PROVE TableTypes' /\ HandlerTypes' /\ JobTypes' /\ HistoryTypes'
  <2>1. target[h] \in Rewards
    BY <1>5 DEF CommitPaid, HandlerTypes
  <2>2. TableTypes' /\ JobTypes'
    BY <1>5, <2>1 DEF CommitPaid, TableTypes, JobTypes
  <2>3. HandlerTypes'
    BY <1>5, <2>1 DEF CommitPaid, HandlerTypes
  <2>4. HistoryTypes'
    BY <1>5, <2>1 DEF CommitPaid, HistoryTypes
  <2>5. QED
    BY <2>2, <2>3, <2>4
<1>6. ASSUME NEW h \in Handlers, TellPartner(h)
      PROVE TableTypes' /\ HandlerTypes' /\ JobTypes' /\ HistoryTypes'
  <2>1. HandlerTypes'
    BY <1>6 DEF TellPartner, HandlerTypes
  <2>2. TableTypes' /\ JobTypes'
    BY <1>6 DEF TellPartner, TableTypes, JobTypes
  <2>3. HistoryTypes'
    BY <1>6 DEF TellPartner, HistoryTypes, HandlerTypes
  <2>4. QED
    BY <2>1, <2>2, <2>3
<1>7. ASSUME NEW h \in Handlers, HandlerDies(h)
      PROVE TableTypes' /\ HandlerTypes' /\ JobTypes' /\ HistoryTypes'
  <2>1. HandlerTypes'
    BY <1>7 DEF HandlerDies, HandlerTypes
  <2>2. TableTypes' /\ JobTypes' /\ HistoryTypes'
    BY <1>7 DEF HandlerDies, TableTypes, JobTypes, HistoryTypes
  <2>3. QED
    BY <2>1, <2>2
<1>8. ASSUME \/ StartRun \/ ReadRows \/ FinishRun \/ RunDies
             \/ \E r \in Rewards : NextRow(r)
      PROVE TableTypes' /\ HandlerTypes' /\ JobTypes' /\ HistoryTypes'
  <2>1. TableTypes' /\ HandlerTypes'
    BY <1>8 DEF StartRun, ReadRows, NextRow, FinishRun, RunDies, TableTypes, HandlerTypes
  <2>2. HistoryTypes'
    BY <1>8, PayoutsAssumption DEF StartRun, ReadRows, NextRow, FinishRun, RunDies, HistoryTypes
  <2>3. JobTypes'
    <3>1. CASE StartRun
      <4>1. day \in Nat /\ delay \in Nat
        BY PayoutsAssumption DEF TableTypes
      <4>2. QED
        BY <3>1, <4>1 DEF StartRun, JobTypes, JobStates
    <3>2. CASE ReadRows
      BY <3>2 DEF ReadRows, JobTypes, JobStates
    <3>3. ASSUME NEW r \in Rewards, NextRow(r) PROVE JobTypes'
      BY <3>3 DEF NextRow, JobTypes, JobStates
    <3>4. CASE FinishRun \/ RunDies
      BY <3>4, EndRunTyped DEF FinishRun, RunDies
    <3>5. QED
      BY <1>8, <3>1, <3>2, <3>3, <3>4
  <2>4. QED
    BY <2>1, <2>2, <2>3
<1>9. ASSUME NEW k \in Kinds,
             SkipNotice(k) \/ SendNotice(k) \/ NoticeFails(k) \/ StampNotice(k)
      PROVE TableTypes' /\ HandlerTypes' /\ JobTypes' /\ HistoryTypes'
  <2>1. jcur \in Rewards
    BY <1>9 DEF SkipNotice, SendNotice, NoticeFails, StampNotice, Stamping, JobTypes, JobStates, Kinds
  <2>2. HandlerTypes'
    BY <1>9 DEF SkipNotice, SendNotice, NoticeFails, StampNotice, HandlerTypes
  <2>3. JobTypes'
    BY <1>9, <2>1 DEF SkipNotice, SendNotice, NoticeFails, StampNotice, After, AfterFailure, Stamping, JobTypes, JobStates
  <2>4. TableTypes'
    <3>1. <<jcur, k>> \in Rewards \X Kinds
      BY <2>1
    <3>2. QED
      BY <1>9, <3>1 DEF SkipNotice, SendNotice, NoticeFails, StampNotice, TableTypes
  <2>5. HistoryTypes'
    <3>1. got' \in [Rewards -> [Kinds -> [1..Chats -> Nat]]]
      BY <1>9, <2>1, DeliverTyped DEF SkipNotice, SendNotice, NoticeFails, StampNotice, HistoryTypes
    <3>2. failures' \in [Rewards -> [Kinds -> Nat]]
      <4>1. CASE NoticeFails(k)
        <5>1. failures[jcur] \in [Kinds -> Nat] /\ failures[jcur][k] \in Nat
          BY <2>1 DEF HistoryTypes
        <5>2. [failures[jcur] EXCEPT ![k] = failures[jcur][k] + 1] \in [Kinds -> Nat]
          BY <5>1
        <5>3. failures' = [failures EXCEPT
                 ![jcur] = [failures[jcur] EXCEPT ![k] = failures[jcur][k] + 1]]
          BY <4>1 DEF NoticeFails
        <5>4. QED
          BY <5>2, <5>3 DEF HistoryTypes
      <4>2. CASE SkipNotice(k) \/ SendNotice(k) \/ StampNotice(k)
        BY <4>2 DEF SkipNotice, SendNotice, StampNotice, HistoryTypes
      <4>3. QED
        BY <1>9, <4>1, <4>2
    <3>3. QED
      BY <1>9, <3>1, <3>2 DEF SkipNotice, SendNotice, NoticeFails, StampNotice, HistoryTypes
  <2>6. QED
    BY <2>2, <2>3, <2>4, <2>5
<1>10. ASSUME UNCHANGED vars
      PROVE TableTypes' /\ HandlerTypes' /\ JobTypes' /\ HistoryTypes'
  BY <1>10 DEF vars, TableTypes, HandlerTypes, JobTypes, HistoryTypes
<1>11. QED
  BY <1>1, <1>2, <1>3, <1>4, <1>5, <1>6, <1>7, <1>8, <1>9, <1>10 DEF Next, JobStep

\* Type correctness of every reachable state.
THEOREM TypeCorrect == Spec => []TypeOK
<1>1. Init => TypeOK
  BY InitTyped
<1>2. TypeOK /\ [Next]_vars => TypeOK'
  BY NextTyped
<1>3. QED
  BY <1>1, <1>2, PTL DEF Spec

-----------------------------------------------------------------------------
(* Payments *)

\* What a handler past its test knows: its reward is approved, and paid once
\* the handler has committed.
HandlersSound ==
  \A h \in Handlers :
    /\ pc[h] = "commit" => status[target[h]] = "APPROVED"
    /\ pc[h] = "tell" => target[h] \in paid

PayInv == TypeOK /\ HandlersSound /\ OnlyApprovedPaid

\* No reward is paid at first.
LEMMA InitPayments == Init => PayInv /\ ConfirmationsBounded
<1> SUFFICES ASSUME Init PROVE PayInv /\ ConfirmationsBounded
  OBVIOUS
<1>1. TypeOK
  BY InitTyped
<1>2. HandlersSound /\ OnlyApprovedPaid
  BY DEF Init, HandlersSound, OnlyApprovedPaid
<1>3. ConfirmationsBounded
  <2>1. \A r \in Rewards : Committing(r) = {} /\ confirmed[r] = 0
    BY DEF Init, Committing
  <2>2. Cardinality(Handlers) \in Nat /\ Cardinality({}) = 0
    BY FS_CardinalityType, FS_EmptySet, PayoutsAssumption
  <2>3. QED
    BY <2>1, <2>2 DEF ConfirmationsBounded
<1>4. QED
  BY <1>1, <1>2, <1>3 DEF PayInv

\* Every step keeps what the handlers know and what is paid.
LEMMA NextPayments == PayInv /\ [Next]_vars => PayInv'
<1> SUFFICES ASSUME PayInv, [Next]_vars PROVE HandlersSound' /\ OnlyApprovedPaid'
  BY NextTyped DEF PayInv
<1> USE DEF handlerVars, jobVars, noticeVars, rewardVars
<1>0. TableTypes /\ HandlerTypes /\ HistoryTypes /\ HandlersSound /\ OnlyApprovedPaid
  BY DEF PayInv, TypeOK
<1>1. ASSUME NEW r \in Rewards, NEW s \in {"APPROVED", "REJECTED"}, DecideReward(r, s)
      PROVE HandlersSound' /\ OnlyApprovedPaid'
  <2>1. \A q \in Rewards : status[q] = "APPROVED" => status'[q] = "APPROVED"
    BY <1>0, <1>1 DEF DecideReward, TableTypes
  <2>2. QED
    BY <1>0, <1>1, <2>1 DEF DecideReward, HandlersSound, OnlyApprovedPaid, HandlerTypes
<1>2. ASSUME NEW h \in Handlers, NEW r \in Rewards, LoadReward(h, r)
      PROVE HandlersSound' /\ OnlyApprovedPaid'
  <2>1. HandlersSound'
    BY <1>0, <1>2 DEF LoadReward, Payable, HandlersSound, HandlerTypes
  <2>2. OnlyApprovedPaid'
    BY <1>0, <1>2 DEF LoadReward, OnlyApprovedPaid
  <2>3. QED
    BY <2>1, <2>2
<1>3. ASSUME NEW h \in Handlers, CommitPaid(h)
      PROVE HandlersSound' /\ OnlyApprovedPaid'
  <2>1. target[h] \in Rewards /\ status[target[h]] = "APPROVED"
    BY <1>0, <1>3 DEF CommitPaid, HandlersSound, HandlerTypes
  <2>2. HandlersSound'
    BY <1>0, <1>3 DEF CommitPaid, HandlersSound, HandlerTypes
  <2>3. \A r \in Rewards : r \in paid' <=> confirmed'[r] > 0
    BY <1>0, <1>3, <2>1 DEF CommitPaid, OnlyApprovedPaid, HistoryTypes
  <2>4. QED
    BY <1>0, <1>3, <2>1, <2>2, <2>3 DEF CommitPaid, OnlyApprovedPaid
<1>4. ASSUME NEW h \in Handlers, TellPartner(h) \/ HandlerDies(h)
      PROVE HandlersSound' /\ OnlyApprovedPaid'
  <2>1. HandlersSound'
    BY <1>0, <1>4 DEF TellPartner, HandlerDies, HandlersSound, HandlerTypes
  <2>2. OnlyApprovedPaid'
    BY <1>0, <1>4 DEF TellPartner, HandlerDies, HandlersSound, OnlyApprovedPaid
  <2>3. QED
    BY <2>1, <2>2
<1>5. ASSUME UNCHANGED <<status, paid, pc, target, told, confirmed>>
      PROVE HandlersSound' /\ OnlyApprovedPaid'
  BY <1>0, <1>5 DEF HandlersSound, OnlyApprovedPaid
<1>6. ASSUME JobStep \/ RunDies \/ NextDay \/ (\E n \in DelayInputs : SetOverdueDays(n))
      PROVE UNCHANGED <<status, paid, pc, target, told, confirmed>>
  BY <1>6 DEF JobStep, StartRun, ReadRows, NextRow, SkipNotice, SendNotice,
     NoticeFails, StampNotice, FinishRun, RunDies, NextDay, SetOverdueDays
<1>7. CASE UNCHANGED vars
  BY <1>5, <1>7 DEF vars
<1>8. QED
  BY <1>1, <1>2, <1>3, <1>4, <1>5, <1>6, <1>7 DEF Next

\* The handlers about to commit a reward are finitely many.
LEMMA CommittingFinite ==
  \A r : /\ IsFiniteSet(Committing(r))
         /\ Cardinality(Committing(r)) \in Nat
         /\ Cardinality(Committing(r)) <= Cardinality(Handlers)
         /\ Cardinality(Handlers) \in Nat
<1> TAKE r
<1>1. Committing(r) \subseteq Handlers
  BY DEF Committing
<1>2. QED
  BY <1>1, FS_Subset, FS_CardinalityType, PayoutsAssumption

\* Every step keeps the bound on confirmations: a handler that loads a reward
\* finds it unpaid, one that commits leaves the set it is counted in.
LEMMA NextBounded ==
  PayInv /\ PayInv' /\ ConfirmationsBounded /\ [Next]_vars => ConfirmationsBounded'
<1> SUFFICES ASSUME PayInv, PayInv', ConfirmationsBounded, [Next]_vars, NEW r \in Rewards
             PROVE (confirmed[r] + Cardinality(Committing(r)) <= Cardinality(Handlers))'
  BY DEF ConfirmationsBounded
<1> USE DEF handlerVars, jobVars, noticeVars, rewardVars
<1>0. /\ HandlerTypes /\ OnlyApprovedPaid
      /\ confirmed \in [Rewards -> Nat] /\ confirmed' \in [Rewards -> Nat]
      /\ confirmed[r] + Cardinality(Committing(r)) <= Cardinality(Handlers)
  BY DEF PayInv, TypeOK, HistoryTypes, ConfirmationsBounded
<1> DEFINE Now == Committing(r)
           Then == Committing(r)'
<1>1. /\ IsFiniteSet(Now) /\ Cardinality(Now) \in Nat
      /\ IsFiniteSet(Then) /\ Cardinality(Then) \in Nat
      /\ Cardinality(Then) <= Cardinality(Handlers)
      /\ Cardinality(Handlers) \in Nat
  <2>1. IsFiniteSet(Now) /\ Cardinality(Now) \in Nat
    BY CommittingFinite
  <2>2. Then \subseteq Handlers
    BY DEF Committing
  <2>3. QED
    BY <2>1, <2>2, FS_Subset, FS_CardinalityType, PayoutsAssumption
<1>2. ASSUME confirmed'[r] = confirmed[r], Then \subseteq Now
      PROVE confirmed'[r] + Cardinality(Then) <= Cardinality(Handlers)
  <2>1. Cardinality(Then) <= Cardinality(Now)
    BY <1>1, <1>2, FS_Subset
  <2>2. confirmed[r] \in Nat
    BY <1>0
  <2>3. QED
    BY <1>0, <1>1, <1>2, <2>1, <2>2
<1>3. ASSUME NEW h \in Handlers, NEW q \in Rewards, LoadReward(h, q)
      PROVE confirmed'[r] + Cardinality(Then) <= Cardinality(Handlers)
  <2>1. CASE q = r
    <3>1. confirmed[r] = 0 /\ confirmed'[r] = 0
      BY <1>0, <1>3, <2>1 DEF LoadReward, Payable, OnlyApprovedPaid
    <3>2. QED
      BY <1>1, <3>1
  <2>2. CASE q # r
    <3>1. Then \subseteq Now
      BY <1>0, <1>3, <2>2 DEF LoadReward, Committing, HandlerTypes
    <3>2. QED
      BY <1>2, <1>3, <3>1 DEF LoadReward
  <2>3. QED
    BY <2>1, <2>2
<1>4. ASSUME NEW h \in Handlers, CommitPaid(h)
      PROVE confirmed'[r] + Cardinality(Then) <= Cardinality(Handlers)
  <2>1. CASE target[h] = r
    <3>1. h \in Now /\ Then = Now \ {h}
      BY <1>0, <1>4, <2>1 DEF CommitPaid, Committing, HandlerTypes
    <3>2. Cardinality(Then) = Cardinality(Now) - 1
      BY <1>1, <3>1, FS_RemoveElement
    <3>3. confirmed'[r] = confirmed[r] + 1 /\ confirmed[r] \in Nat
      BY <1>0, <1>4, <2>1 DEF CommitPaid
    <3>4. QED
      BY <1>0, <1>1, <3>2, <3>3
  <2>2. CASE target[h] # r
    <3>1. Then \subseteq Now /\ confirmed'[r] = confirmed[r]
      BY <1>0, <1>4, <2>2 DEF CommitPaid, Committing, HandlerTypes
    <3>2. QED
      BY <1>2, <3>1
  <2>3. QED
    BY <2>1, <2>2
<1>5. ASSUME NEW h \in Handlers, TellPartner(h) \/ HandlerDies(h)
      PROVE confirmed'[r] + Cardinality(Then) <= Cardinality(Handlers)
  <2>1. Then \subseteq Now /\ confirmed'[r] = confirmed[r]
    BY <1>0, <1>5 DEF TellPartner, HandlerDies, Committing, HandlerTypes
  <2>2. QED
    BY <1>2, <2>1
<1>6. ASSUME UNCHANGED <<pc, target, confirmed>>
      PROVE confirmed'[r] + Cardinality(Then) <= Cardinality(Handlers)
  <2>1. Then \subseteq Now /\ confirmed'[r] = confirmed[r]
    BY <1>6 DEF Committing
  <2>2. QED
    BY <1>2, <2>1
<1>7. ASSUME \/ JobStep \/ RunDies \/ NextDay
             \/ \E n \in DelayInputs : SetOverdueDays(n)
             \/ \E q \in Rewards, s \in {"APPROVED", "REJECTED"} : DecideReward(q, s)
      PROVE UNCHANGED <<pc, target, confirmed>>
  BY <1>7 DEF JobStep, StartRun, ReadRows, NextRow, SkipNotice, SendNotice,
     NoticeFails, StampNotice, FinishRun, RunDies, NextDay, SetOverdueDays, DecideReward
<1>8. CASE UNCHANGED vars
  BY <1>6, <1>8 DEF vars
<1>9. confirmed'[r] + Cardinality(Then) <= Cardinality(Handlers)
  BY <1>3, <1>4, <1>5, <1>6, <1>7, <1>8 DEF Next
<1>10. QED
  BY <1>9

\* Money is paid, and a partner told so, for approved rewards only (mark_paid).
THEOREM PaymentsCorrect == Spec => []OnlyApprovedPaid
<1>1. Init => PayInv
  BY InitPayments
<1>2. PayInv /\ [Next]_vars => PayInv'
  BY NextPayments
<1>3. PayInv => OnlyApprovedPaid
  BY DEF PayInv
<1>4. QED
  BY <1>1, <1>2, <1>3, PTL DEF Spec

\* However many clicks race, each reward is confirmed as paid at most once per
\* handler that can run at the same time (mark_paid has no row lock).
THEOREM ConfirmationsCorrect == Spec => []ConfirmationsBounded
<1>1. Init => PayInv /\ ConfirmationsBounded
  BY InitPayments
<1>2. PayInv /\ [Next]_vars => PayInv'
  BY NextPayments
<1>3. PayInv /\ PayInv' /\ ConfirmationsBounded /\ [Next]_vars => ConfirmationsBounded'
  BY NextBounded
<1>4. QED
  BY <1>1, <1>2, <1>3, PTL DEF Spec

\* Requests that come one after another pay a reward once: what the double
\* click run breaks holds as soon as handlers do not overlap.
THEOREM SingleHandlerPaysOnce ==
  ASSUME Cardinality(Handlers) = 1
  PROVE  Spec => []ConfirmedOnce
<1>1. TypeOK /\ ConfirmationsBounded => ConfirmedOnce
  <2> SUFFICES ASSUME TypeOK, ConfirmationsBounded, NEW r \in Rewards
               PROVE confirmed[r] <= 1
    BY DEF ConfirmedOnce
  <2>1. confirmed[r] \in Nat
    BY DEF TypeOK, HistoryTypes
  <2>2. Cardinality(Committing(r)) \in Nat
    BY CommittingFinite
  <2>3. QED
    BY <2>1, <2>2 DEF ConfirmationsBounded
<1>2. QED
  BY <1>1, TypeCorrect, ConfirmationsCorrect, PTL

-----------------------------------------------------------------------------
(* Reminders *)

\* The notice of kind k for reward r has gone out, and its stamp is stored or
\* is the next step of the run.
Sent(r, k) == <<r, k>> \in stamped \/ (jpc = Stamping(k) /\ jcur = r)

\* Messages beyond the one that Sent stands for are owed to failures and crashes.
FlowAt(r, k, c) ==
  /\ got[r][k][c] <= failures[r][k] + crashes + (IF Sent(r, k) THEN 1 ELSE 0)
  /\ Sent(r, k) => got[r][k][c] >= 1

NoticeFlow == \A r \in Rewards, k \in Kinds, c \in 1..Chats : FlowAt(r, k, c)

\* A delivery adds one message to the chats it reaches and no other.
LEMMA DeliverEffect ==
  ASSUME got \in [Rewards -> [Kinds -> [1..Chats -> Nat]]],
         NEW r \in Rewards, NEW k \in Kinds, NEW S, Deliver(r, k, S),
         NEW q \in Rewards, NEW i \in Kinds, NEW c \in 1..Chats
  PROVE  got'[q][i][c] =
           IF q = r /\ i = k /\ c \in S THEN got[q][i][c] + 1 ELSE got[q][i][c]
<1> DEFINE reached == [b \in 1..Chats |-> IF b \in S THEN got[r][k][b] + 1 ELSE got[r][k][b]]
<1>1. got' = [got EXCEPT ![r] = [got[r] EXCEPT ![k] = reached]]
  BY DEF Deliver
<1>2. got[r] \in [Kinds -> [1..Chats -> Nat]]
  OBVIOUS
<1>3. CASE q = r /\ i = k
  <2>1. got'[q][i] = reached
    BY <1>1, <1>2, <1>3
  <2>2. QED
    BY <1>3, <2>1
<1>4. CASE q = r /\ i # k
  BY <1>1, <1>2, <1>4
<1>5. CASE q # r
  BY <1>1, <1>5
<1>6. QED
  BY <1>3, <1>4, <1>5

\* Message and failure counts are numbers.
LEMMA CountsTyped ==
  ASSUME HistoryTypes, NEW r \in Rewards, NEW k \in Kinds, NEW c \in 1..Chats
  PROVE  got[r][k][c] \in Nat /\ failures[r][k] \in Nat /\ crashes \in Nat
<1>1. got[r] \in [Kinds -> [1..Chats -> Nat]] /\ failures[r] \in [Kinds -> Nat]
  BY DEF HistoryTypes
<1>2. got[r][k] \in [1..Chats -> Nat] /\ failures[r][k] \in Nat
  BY <1>1
<1>3. QED
  BY <1>2 DEF HistoryTypes

\* No message is owed at first.
LEMMA InitFlow == Init => NoticeFlow
<1> SUFFICES ASSUME Init, NEW r \in Rewards, NEW k \in Kinds, NEW c \in 1..Chats
             PROVE FlowAt(r, k, c)
  BY DEF NoticeFlow
<1>1. got[r][k][c] = 0 /\ failures[r][k] = 0 /\ crashes = 0
  BY DEF Init
<1>2. ~Sent(r, k)
  BY DEF Init, Sent, Stamping
<1>3. QED
  BY <1>1, <1>2 DEF FlowAt

\* Every step keeps the account of the messages.
LEMMA NextFlow == TypeOK /\ NoticeFlow /\ [Next]_vars => NoticeFlow'
<1> SUFFICES ASSUME TypeOK, NoticeFlow, [Next]_vars,
                    NEW r \in Rewards, NEW k \in Kinds, NEW c \in 1..Chats
             PROVE FlowAt(r, k, c)'
  BY DEF NoticeFlow
<1> USE DEF handlerVars, jobVars, noticeVars, rewardVars
<1> DEFINE g == got[r][k][c]
           f == failures[r][k]
<1>0. /\ JobTypes /\ crashes \in Nat
      /\ got \in [Rewards -> [Kinds -> [1..Chats -> Nat]]]
      /\ failures \in [Rewards -> [Kinds -> Nat]]
      /\ g \in Nat /\ f \in Nat
      /\ g <= f + crashes + (IF Sent(r, k) THEN 1 ELSE 0)
      /\ Sent(r, k) => g >= 1
  <2>1. JobTypes /\ HistoryTypes /\ FlowAt(r, k, c)
    BY DEF TypeOK, NoticeFlow
  <2>2. g \in Nat /\ f \in Nat /\ crashes \in Nat
    BY <2>1, CountsTyped
  <2>3. QED
    BY <2>1, <2>2 DEF HistoryTypes, FlowAt
<1>1. ASSUME UNCHANGED <<got, failures, crashes>>, Sent(r, k)' <=> Sent(r, k)
      PROVE FlowAt(r, k, c)'
  BY <1>0, <1>1 DEF FlowAt
<1>2. ASSUME UNCHANGED <<got, failures, crashes, stamped, jpc, jcur>>
      PROVE FlowAt(r, k, c)'
  <2>1. Sent(r, k)' <=> Sent(r, k)
    BY <1>2 DEF Sent
  <2>2. QED
    BY <1>1, <1>2, <2>1
<1>3. ASSUME \/ StartRun \/ ReadRows \/ FinishRun
             \/ \E q \in Rewards : NextRow(q)
             \/ \E i \in Kinds : SkipNotice(i)
      PROVE FlowAt(r, k, c)'
  <2>1. /\ UNCHANGED <<got, failures, crashes, stamped>>
        /\ jpc # Stamping(k) /\ jpc' # Stamping(k)
    BY <1>3 DEF StartRun, ReadRows, FinishRun, EndRun, NextRow, SkipNotice,
       Stamping, After, Kinds
  <2>2. QED
    BY <1>1, <2>1 DEF Sent
<1>4. ASSUME RunDies PROVE FlowAt(r, k, c)'
  <2>1. got' = got /\ failures' = failures /\ crashes' = crashes + 1
    BY <1>4 DEF RunDies
  <2>2. Sent(r, k)' => Sent(r, k)
    BY <1>4 DEF RunDies, EndRun, Sent, Stamping
  <2>3. QED
    BY <1>0, <2>1, <2>2 DEF FlowAt
<1>5. ASSUME NEW i \in Kinds, SendNotice(i) PROVE FlowAt(r, k, c)'
  <2>1. jcur \in Rewards
    BY <1>0, <1>5 DEF SendNotice, JobTypes, JobStates, Kinds
  <2>2. /\ failures' = failures /\ crashes' = crashes
        /\ jpc = i /\ jpc' = Stamping(i) /\ jcur' = jcur
        /\ stamped' = stamped /\ <<jcur, i>> \notin stamped
    BY <1>5 DEF SendNotice, Wanted
  <2>0. PICK S : S = 1..Chats /\ Deliver(jcur, i, S)
    BY <1>5 DEF SendNotice
  <2>3. CASE r = jcur /\ k = i
    <3>0. c \in S
      BY <2>0
    <3>1. got'[r][k][c] = g + 1
      <4>1. Deliver(jcur, i, S)
        BY <2>0
      <4>2. QED
        BY <1>0, <2>1, <2>3, <3>0, <4>1, DeliverEffect
    <3>2. ~Sent(r, k) /\ Sent(r, k)'
      BY <2>2, <2>3 DEF Sent, Stamping, Kinds
    <3>3. QED
      BY <1>0, <2>0, <2>2, <2>3, <3>1, <3>2 DEF FlowAt
  <2>4. CASE ~(r = jcur /\ k = i)
    <3>1. got'[r][k][c] = g
      BY <1>0, <2>1, <2>0, <2>4, DeliverEffect
    <3>2. Sent(r, k)' <=> Sent(r, k)
      BY <2>2, <2>4 DEF Sent, Stamping, Kinds
    <3>3. QED
      BY <1>0, <2>2, <2>4, <3>1, <3>2 DEF FlowAt
  <2>5. QED
    BY <2>3, <2>4
<1>6. ASSUME NEW i \in Kinds, NoticeFails(i) PROVE FlowAt(r, k, c)'
  <2>1. jcur \in Rewards
    BY <1>0, <1>6 DEF NoticeFails, JobTypes, JobStates, Kinds
  <2>2. /\ failures' = [failures EXCEPT ![jcur][i] = @ + 1] /\ crashes' = crashes
        /\ jpc = i /\ jpc' = After(i) /\ jcur' = jcur /\ stamped' = stamped
    BY <1>6 DEF NoticeFails, AfterFailure
  <2>3. PICK S : Deliver(jcur, i, S)
    BY <1>6 DEF NoticeFails
  <2>4. Sent(r, k)' <=> Sent(r, k)
    BY <2>2 DEF Sent, Stamping, After, Kinds
  <2>5. CASE r = jcur /\ k = i
    <3>1. got'[r][k][c] \in {g, g + 1}
      BY <1>0, <2>1, <2>3, <2>5, DeliverEffect
    <3>2. failures'[r][k] = f + 1
      BY <1>0, <2>2, <2>5
    <3>3. crashes' = crashes
      BY <2>2
    <3>4. CASE Sent(r, k)
      <4>1. g <= f + crashes + 1 /\ g >= 1
        BY <1>0, <3>4
      <4>2. got'[r][k][c] <= (f + 1) + crashes + 1 /\ got'[r][k][c] >= 1
        BY <1>0, <3>1, <4>1
      <4>3. QED
        BY <2>4, <3>2, <3>3, <3>4, <4>2 DEF FlowAt
    <3>5. CASE ~Sent(r, k)
      <4>1. g <= f + crashes + 0
        BY <1>0, <3>5
      <4>2. got'[r][k][c] <= (f + 1) + crashes + 0
        BY <1>0, <3>1, <4>1
      <4>3. QED
        BY <2>4, <3>2, <3>3, <3>5, <4>2 DEF FlowAt
    <3>6. QED
      BY <3>4, <3>5
  <2>6. CASE ~(r = jcur /\ k = i)
    <3>1. got'[r][k][c] = g
      BY <1>0, <2>1, <2>3, <2>6, DeliverEffect
    <3>2. failures'[r][k] = f
      BY <1>0, <2>1, <2>2, <2>6
    <3>3. QED
      BY <1>0, <2>2, <2>4, <3>1, <3>2 DEF FlowAt
  <2>7. QED
    BY <2>5, <2>6
<1>7. ASSUME NEW i \in Kinds, StampNotice(i) PROVE FlowAt(r, k, c)'
  <2>1. /\ UNCHANGED <<got, failures, crashes>>
        /\ jpc = Stamping(i) /\ jpc' = After(i) /\ jcur' = jcur
        /\ stamped' = stamped \cup {<<jcur, i>>}
    BY <1>7 DEF StampNotice
  <2>2. Sent(r, k)' <=> Sent(r, k)
    BY <2>1 DEF Sent, Stamping, After, Kinds
  <2>3. QED
    BY <1>1, <2>1, <2>2
<1>8. ASSUME \/ NextDay \/ (\E n \in DelayInputs : SetOverdueDays(n))
             \/ \E q \in Rewards, s \in {"APPROVED", "REJECTED"} : DecideReward(q, s)
             \/ \E h \in Handlers :
                  \/ \E q \in Rewards : LoadReward(h, q)
                  \/ CommitPaid(h) \/ TellPartner(h) \/ HandlerDies(h)
      PROVE UNCHANGED <<got, failures, crashes, stamped, jpc, jcur>>
  BY <1>8 DEF NextDay, SetOverdueDays, DecideReward, LoadReward, CommitPaid,
     TellPartner, HandlerDies
<1>9. CASE UNCHANGED vars
  BY <1>2, <1>9 DEF vars
<1>10. QED
  BY <1>2, <1>3, <1>4, <1>5, <1>6, <1>7, <1>8, <1>9 DEF Next, JobStep

\* A chat gets a notice again only after a failed send or a run that was cut off
\* (check_payout_reminders).
THEOREM RepeatsCorrect == Spec => []RepeatsExplained
<1>1. TypeOK /\ NoticeFlow => RepeatsExplained
  <2> SUFFICES ASSUME TypeOK, NoticeFlow,
                      NEW r \in Rewards, NEW k \in Kinds, NEW c \in 1..Chats
               PROVE got[r][k][c] <= 1 + failures[r][k] + crashes
    BY DEF RepeatsExplained
  <2>1. got[r][k][c] \in Nat /\ failures[r][k] \in Nat /\ crashes \in Nat
    BY CountsTyped DEF TypeOK
  <2>2. FlowAt(r, k, c)
    BY DEF NoticeFlow
  <2>3. QED
    BY <2>1, <2>2 DEF FlowAt
<1>2. QED
  BY <1>1, InitFlow, NextFlow, TypeCorrect, PTL DEF Spec

\* A notice stamped as sent has reached every admin chat.
THEOREM StampsCorrect == Spec => []StampMeansDelivered
<1>1. NoticeFlow => StampMeansDelivered
  BY DEF NoticeFlow, FlowAt, Sent, StampMeansDelivered
<1>2. QED
  BY <1>1, InitFlow, NextFlow, TypeCorrect, PTL DEF Spec

-----------------------------------------------------------------------------
(* What a run knows of the payments *)

NoticeStates == JobStates \ {"idle", "rows", "next"}

\* The rows a run has still to serve, the one in hand included.
InHand(r) == r \in jrows \/ (jcur = r /\ jpc \in NoticeStates)

\* Every such reward is unpaid, or was paid after the run read it.
RowsFresh ==
  \A r \in Rewards :
    (jpc \notin {"idle", "rows"} /\ InHand(r)) => (r \notin paid \/ r \in paidInRun)

\* Every step keeps what the run knows.
LEMMA NextFresh == TypeOK /\ RowsFresh /\ [Next]_vars => RowsFresh'
<1> SUFFICES ASSUME TypeOK, RowsFresh, [Next]_vars, NEW r \in Rewards,
                    (jpc \notin {"idle", "rows"} /\ InHand(r))'
             PROVE (r \notin paid \/ r \in paidInRun)'
  BY DEF RowsFresh
<1> USE DEF handlerVars, jobVars, noticeVars, rewardVars
<1>0. JobTypes /\ HandlerTypes
  BY DEF TypeOK
<1>1. ASSUME jpc \notin {"idle", "rows"}, InHand(r), UNCHANGED <<paid, paidInRun>>
      PROVE (r \notin paid \/ r \in paidInRun)'
  BY <1>1 DEF RowsFresh
<1>2. ASSUME StartRun \/ FinishRun \/ RunDies PROVE FALSE
  BY <1>2 DEF StartRun, FinishRun, RunDies, EndRun
<1>3. CASE ReadRows
  BY <1>3 DEF ReadRows, PaidFilter, InHand, NoticeStates
<1>4. ASSUME NEW q \in Rewards, NextRow(q) PROVE (r \notin paid \/ r \in paidInRun)'
  <2>1. InHand(r)
    BY <1>4 DEF NextRow, InHand
  <2>2. QED
    BY <1>1, <1>4, <2>1 DEF NextRow
<1>5. ASSUME NEW i \in Kinds, SkipNotice(i) \/ SendNotice(i) \/ NoticeFails(i) \/ StampNotice(i)
      PROVE (r \notin paid \/ r \in paidInRun)'
  <2>1. jpc \in NoticeStates
    BY <1>5 DEF SkipNotice, SendNotice, NoticeFails, StampNotice, Stamping,
       NoticeStates, JobStates, Kinds
  <2>2. InHand(r)
    BY <1>5, <2>1 DEF SkipNotice, SendNotice, NoticeFails, StampNotice, InHand
  <2>3. QED
    BY <1>1, <1>5, <2>1, <2>2 DEF SkipNotice, SendNotice, NoticeFails, StampNotice,
       NoticeStates
<1>6. ASSUME NEW h \in Handlers, CommitPaid(h) PROVE (r \notin paid \/ r \in paidInRun)'
  BY <1>6 DEF CommitPaid, RowsFresh, InHand
<1>7. ASSUME \/ NextDay \/ (\E n \in DelayInputs : SetOverdueDays(n))
             \/ \E q \in Rewards, s \in {"APPROVED", "REJECTED"} : DecideReward(q, s)
             \/ \E h \in Handlers :
                  (\E q \in Rewards : LoadReward(h, q)) \/ TellPartner(h) \/ HandlerDies(h)
             \/ UNCHANGED vars
      PROVE UNCHANGED <<paid, paidInRun, jpc, jrows, jcur>>
  BY <1>7 DEF NextDay, SetOverdueDays, DecideReward, LoadReward, TellPartner,
     HandlerDies, vars
<1>8. ASSUME UNCHANGED <<paid, paidInRun, jpc, jrows, jcur>>
      PROVE (r \notin paid \/ r \in paidInRun)'
  BY <1>1, <1>8 DEF InHand
<1>9. QED
  BY <1>2, <1>3, <1>4, <1>5, <1>6, <1>7, <1>8 DEF Next, JobStep

\* No reminder goes out for a reward that was paid before the run read its
\* rows: the query leaves it out, and nothing pays it back into the list.
THEOREM PaidNotReminded == Spec => NoReminderOncePaid
<1> USE DEF handlerVars, jobVars, noticeVars, rewardVars
<1>1. Init => RowsFresh
  BY DEF Init, RowsFresh
<1>2. TypeOK /\ RowsFresh /\ [Next]_vars =>
        [\A r \in Rewards, k \in Kinds :
           got'[r][k] # got[r][k] => (r \notin paid \/ r \in paidInRun)]_vars
  <2> SUFFICES ASSUME TypeOK, RowsFresh, Next, NEW r \in Rewards, NEW k \in Kinds,
                      got'[r][k] # got[r][k]
               PROVE r \notin paid \/ r \in paidInRun
    OBVIOUS
  <2>1. PICK i \in Kinds : SendNotice(i) \/ NoticeFails(i)
    BY DEF Next, JobStep, StartRun, ReadRows, NextRow, SkipNotice, StampNotice,
       FinishRun, RunDies, NextDay, SetOverdueDays, DecideReward, LoadReward,
       CommitPaid, TellPartner, HandlerDies
  <2>2. jpc \in NoticeStates
    BY <2>1 DEF SendNotice, NoticeFails, NoticeStates, JobStates, Kinds
  <2>3. jcur = r
    <3>1. got \in [Rewards -> [Kinds -> [1..Chats -> Nat]]] /\ jcur \in Rewards
      BY <2>2 DEF TypeOK, HistoryTypes, JobTypes, NoticeStates
    <3>2. PICK S : Deliver(jcur, i, S)
      BY <2>1 DEF SendNotice, NoticeFails
    <3>3. QED
      BY <3>1, <3>2 DEF Deliver
  <2>4. QED
    BY <2>2, <2>3 DEF RowsFresh, InHand, NoticeStates
<1>3. QED
  BY <1>1, <1>2, NextFresh, TypeCorrect, PTL DEF Spec, NoReminderOncePaid

============================================================================
