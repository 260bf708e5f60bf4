------------------------------ MODULE Payouts ------------------------------
(***************************************************************************)
(* The payout of a reward: the bounty service decides it, an admin marks   *)
(* it paid in a handler that reads, commits and then tells the partner,    *)
(* and the hourly job reminds the admins of payouts that are due.          *)
(***************************************************************************)
EXTENDS Integers, FiniteSets

CONSTANTS
  Rewards,
  Handlers,      \* concurrent mark-paid handlers
  Chats,         \* number of admin Telegram chats
  DelayInputs,   \* values an admin types for the setting overdue_days
  MaxOverdueDays,
  DefaultDelay,  \* DEFAULT_OVERDUE_DAYS
  AlertAfter,    \* OVERDUE_ALERT_AFTER_DAYS
  MaxDay,        \* bound: the last day
  MaxCrashes,    \* bound: runs of the job cut off
  MaxFailures    \* bound: notices that fail

ASSUME PayoutsAssumption ==
  /\ IsFiniteSet(Handlers)
  /\ Chats \in Nat
  /\ MaxOverdueDays \in Nat
  /\ DefaultDelay \in 1..MaxOverdueDays
  /\ AlertAfter \in Nat
  /\ MaxDay \in Nat \ {0}
  /\ MaxCrashes \in Nat
  /\ MaxFailures \in Nat

Kinds == {"due", "overdue"}
NoReward == "no reward"
ASSUME NoRewardAssumption == NoReward \notin Rewards

VARIABLES
  day,
  delay,       \* payout_settings.overdue_days
  status,      \* rewards.status
  decidedAt,   \* rewards.decided_at (0 when NULL)
  paid,        \* rewards whose paid_at is set
  stamped,     \* notices recorded as sent: <<reward, kind>>
  pc, target,  \* where each mark-paid handler stands, and its reward
  jpc,         \* where the reminder job stands
  jday, jdelay,    \* the job: today and overdue_days, read once per run
  jrows, jcur, \* the job: the rows still to visit, and the row in hand
  crashes,
  got,         \* history: notices that reached each chat, by reward and kind
  failures,    \* history: failed sends, by reward and kind
  confirmed,   \* history: payments confirmed to admins, by reward
  told,        \* history: rewards whose partner was told of the payment
  paidInRun    \* history: rewards paid since the job read its rows

handlerVars == <<pc, target>>
jobVars == <<jpc, jday, jdelay, jrows, jcur>>
noticeVars == <<stamped, got, failures>>
rewardVars == <<status, decidedAt, paid>>
vars == <<day, delay, rewardVars, handlerVars, jobVars, noticeVars, crashes,
          confirmed, told, paidInRun>>

-----------------------------------------------------------------------------

Init ==
  /\ day = 1
  /\ delay = DefaultDelay
  /\ status = [r \in Rewards |-> "PENDING"]
  /\ decidedAt = [r \in Rewards |-> 0]
  /\ paid = {}
  /\ stamped = {}
  /\ pc = [h \in Handlers |-> "idle"]
  /\ target = [h \in Handlers |-> NoReward]
  /\ jpc = "idle"
  /\ jday = 0
  /\ jdelay = 0
  /\ jrows = {}
  /\ jcur = NoReward
  /\ crashes = 0
  /\ got = [r \in Rewards |-> [k \in Kinds |-> [c \in 1..Chats |-> 0]]]
  /\ failures = [r \in Rewards |-> [k \in Kinds |-> 0]]
  /\ confirmed = [r \in Rewards |-> 0]
  /\ told = {}
  /\ paidInRun = {}

-----------------------------------------------------------------------------
(* The bounty service, the calendar and the setting *)

\* The last day leaves time for the longest delay to run out.
DecideReward(r, s) ==
  /\ status[r] = "PENDING"
  /\ day + MaxOverdueDays <= MaxDay
  /\ status' = [status EXCEPT ![r] = s]
  /\ decidedAt' = [decidedAt EXCEPT ![r] = day]
  /\ UNCHANGED <<day, delay, paid, handlerVars, jobVars, noticeVars, crashes,
                 confirmed, told, paidInRun>>

NextDay ==
  /\ day < MaxDay
  /\ day' = day + 1
  /\ UNCHANGED <<delay, rewardVars, handlerVars, jobVars, noticeVars, crashes,
                 confirmed, told, paidInRun>>

ValidDelay(n) == n \in 1..MaxOverdueDays

SetOverdueDays(n) ==
  /\ ValidDelay(n)
  /\ delay' = n
  /\ UNCHANGED <<day, rewardVars, handlerVars, jobVars, noticeVars, crashes,
                 confirmed, told, paidInRun>>

-----------------------------------------------------------------------------
(* mark_reward_paid *)

\* Mutated: the payment is forgotten.
PayableAgain(r) == status[r] = "APPROVED"

Payable(r) == status[r] = "APPROVED" /\ r \notin paid

\* session.get and the tests of mark_paid (its own session.get returns the
\* object already loaded); a reward that is not payable is answered 409.
LoadReward(h, r) ==
  /\ pc[h] = "idle"
  /\ Payable(r)
  /\ pc' = [pc EXCEPT ![h] = "commit"]
  /\ target' = [target EXCEPT ![h] = r]
  /\ UNCHANGED <<day, delay, rewardVars, jobVars, noticeVars, crashes,
                 confirmed, told, paidInRun>>

\* UPDATE rewards SET paid_at and the commit.
CommitPaid(h) ==
  /\ pc[h] = "commit"
  /\ paid' = paid \cup {target[h]}
  /\ confirmed' = [confirmed EXCEPT ![target[h]] = @ + 1]
  /\ paidInRun' = IF jpc = "idle" THEN {} ELSE paidInRun \cup {target[h]}
  /\ pc' = [pc EXCEPT ![h] = "tell"]
  /\ UNCHANGED <<day, delay, status, decidedAt, target, jobVars, noticeVars,
                 crashes, told>>

\* _tell_partner, best effort, and the answer to the admin.
TellPartner(h) ==
  /\ pc[h] = "tell"
  /\ told' = told \cup {target[h]}
  /\ pc' = [pc EXCEPT ![h] = "idle"]
  /\ target' = [target EXCEPT ![h] = NoReward]
  /\ UNCHANGED <<day, delay, rewardVars, jobVars, noticeVars, crashes,
                 confirmed, paidInRun>>

\* The commit fails or the process stops: the handler is gone.
HandlerDies(h) ==
  /\ pc[h] # "idle"
  /\ pc' = [pc EXCEPT ![h] = "idle"]
  /\ target' = [target EXCEPT ![h] = NoReward]
  /\ UNCHANGED <<day, delay, rewardVars, jobVars, noticeVars, crashes,
                 confirmed, told, paidInRun>>

-----------------------------------------------------------------------------
(* check_payout_reminders.  The scheduler lets one run go at a time, and    *)
(* only the job writes the stamps, so the stamps it read are the current    *)
(* ones.                                                                    *)

\* A mutated PaidFilter: rewards already paid are read as well.
PaidAny(r) == TRUE

PaidFilter(r) == r \notin paid

StartRun ==
  /\ jpc = "idle"
  /\ jpc' = "rows"
  /\ jdelay' = delay
  /\ jday' = day
  /\ UNCHANGED <<day, delay, rewardVars, handlerVars, jrows, jcur, noticeVars,
                 crashes, confirmed, told, paidInRun>>

ReadRows ==
  /\ jpc = "rows"
  /\ jrows' = {r \in Rewards : status[r] = "APPROVED" /\ PaidFilter(r)}
  /\ paidInRun' = {}
  /\ jpc' = "next"
  /\ UNCHANGED <<day, delay, rewardVars, handlerVars, jday, jdelay, jcur,
                 noticeVars, crashes, confirmed, told>>

NextRow(r) ==
  /\ jpc = "next"
  /\ r \in jrows
  /\ jcur' = r
  /\ jrows' = jrows \ {r}
  /\ jpc' = "due"
  /\ UNCHANGED <<day, delay, rewardVars, handlerVars, jday, jdelay, noticeVars,
                 crashes, confirmed, told, paidInRun>>

\* Mutated: the notice goes out the day after the target date.
ReachedLate(r, k) == jday > decidedAt[r] + jdelay

\* The day the notice of a kind is due: the target date, or more than
\* AlertAfter days after it.
Reached(r, k) ==
  IF k = "due" THEN jday >= decidedAt[r] + jdelay
  ELSE jday - (decidedAt[r] + jdelay) > AlertAfter

\* Mutated: the stamp is not looked at.
WantedAnyway(r, k) == Reached(r, k)

Wanted(r, k) == <<r, k>> \notin stamped /\ Reached(r, k)

\* What the loop does after a notice of kind k, sent or not.
After(k) == IF k = "due" THEN "overdue" ELSE "next"

\* The job's states for a notice: the kind itself, then its stamp.
Stamping(k) == IF k = "due" THEN "stamp due" ELSE "stamp overdue"

SkipNotice(k) ==
  /\ jpc = k
  /\ ~Wanted(jcur, k)
  /\ jpc' = After(k)
  /\ UNCHANGED <<day, delay, rewardVars, handlerVars, jday, jdelay, jrows, jcur,
                 noticeVars, crashes, confirmed, told, paidInRun>>

Deliver(r, k, S) ==
  got' = [got EXCEPT ![r][k] = [c \in 1..Chats |-> IF c \in S THEN @[c] + 1 ELSE @[c]]]

\* _send_admin_notice reaches every chat in turn.
SendNotice(k) ==
  /\ jpc = k
  /\ Wanted(jcur, k)
  /\ Deliver(jcur, k, 1..Chats)
  /\ jpc' = Stamping(k)
  /\ UNCHANGED <<day, delay, rewardVars, handlerVars, jday, jdelay, jrows, jcur,
                 stamped, failures, crashes, confirmed, told, paidInRun>>

\* Mutated: the stamp follows whether or not the notice went out.
AfterAnyway(k) == Stamping(k)

\* The stamp stands in the else branch of the try, which a failure skips.
AfterFailure(k) == After(k)

\* It fails at chat n, whose message may have arrived; the chats before it have
\* theirs, nothing is stamped, and the run goes on.
NoticeFails(k) ==
  /\ jpc = k
  /\ Wanted(jcur, k)
  /\ failures[jcur][k] < MaxFailures
  /\ failures' = [failures EXCEPT ![jcur][k] = @ + 1]
  /\ \E n \in 1..Chats : \E S \in {1..(n - 1), 1..n} : Deliver(jcur, k, S)
  /\ jpc' = AfterFailure(k)
  /\ UNCHANGED <<day, delay, rewardVars, handlerVars, jday, jdelay, jrows, jcur,
                 stamped, crashes, confirmed, told, paidInRun>>

StampNotice(k) ==
  /\ jpc = Stamping(k)
  /\ stamped' = stamped \cup {<<jcur, k>>}
  /\ jpc' = After(k)
  /\ UNCHANGED <<day, delay, rewardVars, handlerVars, jday, jdelay, jrows, jcur,
                 got, failures, crashes, confirmed, told, paidInRun>>

EndRun ==
  /\ jpc' = "idle"
  /\ jday' = 0
  /\ jdelay' = 0
  /\ jrows' = {}
  /\ jcur' = NoReward

FinishRun ==
  /\ jpc = "next"
  /\ jrows = {}
  /\ EndRun
  /\ UNCHANGED <<day, delay, rewardVars, handlerVars, noticeVars, crashes,
                 confirmed, told, paidInRun>>

\* The process stops, or a database call raises, which nothing catches.
RunDies ==
  /\ jpc # "idle"
  /\ crashes < MaxCrashes
  /\ crashes' = crashes + 1
  /\ EndRun
  /\ UNCHANGED <<day, delay, rewardVars, handlerVars, noticeVars, confirmed, told,
                 paidInRun>>

JobStep ==
  \/ StartRun
  \/ ReadRows
  \/ \E r \in Rewards : NextRow(r)
  \/ \E k \in Kinds : SkipNotice(k) \/ SendNotice(k) \/ NoticeFails(k) \/ StampNotice(k)
  \/ FinishRun

-----------------------------------------------------------------------------

Next ==
  \/ \E r \in Rewards, s \in {"APPROVED", "REJECTED"} : DecideReward(r, s)
  \/ \E n \in DelayInputs : SetOverdueDays(n)
  \/ NextDay
  \/ \E h \in Handlers :
       \/ \E r \in Rewards : LoadReward(h, r)
       \/ CommitPaid(h)
       \/ TellPartner(h)
       \/ HandlerDies(h)
  \/ JobStep
  \/ RunDies

Spec == Init /\ [][Next]_vars

\* The calendar advances; the scheduler starts a run every hour and the event
\* loop carries it on.  MaxFailures says that Telegram does not refuse for ever,
\* MaxCrashes that the runs are not all cut off.
FairSpec ==
  /\ Spec
  /\ WF_vars(NextDay)
  /\ WF_vars(JobStep)

-----------------------------------------------------------------------------
(* Properties *)

JobStates == {"idle", "rows", "next", "due", "stamp due", "overdue", "stamp overdue"}

TableTypes ==
  /\ day \in Nat
  /\ delay \in 1..MaxOverdueDays
  /\ status \in [Rewards -> {"PENDING", "APPROVED", "REJECTED"}]
  /\ decidedAt \in [Rewards -> Nat]
  /\ paid \subseteq Rewards
  /\ stamped \subseteq Rewards \X Kinds

HandlerTypes ==
  /\ pc \in [Handlers -> {"idle", "commit", "tell"}]
  /\ target \in [Handlers -> Rewards \cup {NoReward}]
  /\ \A h \in Handlers : pc[h] # "idle" => target[h] \in Rewards

JobTypes ==
  /\ jpc \in JobStates
  /\ jday \in Nat
  /\ jdelay \in Nat
  /\ jrows \subseteq Rewards
  /\ jcur \in Rewards \cup {NoReward}
  /\ jpc \in JobStates \ {"idle", "rows", "next"} => jcur \in Rewards

HistoryTypes ==
  /\ crashes \in Nat
  /\ got \in [Rewards -> [Kinds -> [1..Chats -> Nat]]]
  /\ failures \in [Rewards -> [Kinds -> Nat]]
  /\ confirmed \in [Rewards -> Nat]
  /\ told \subseteq Rewards
  /\ paidInRun \subseteq Rewards

\* Every table, handler, job and history variable keeps its shape, and a
\* handler or a run at work has a reward in hand.
TypeOK == TableTypes /\ HandlerTypes /\ JobTypes /\ HistoryTypes

Committing(r) == {h \in Handlers : pc[h] = "commit" /\ target[h] = r}

\* A payment is confirmed at most once by each handler that was past its test
\* when the first one committed: handlers, not clicks, bound the repetitions,
\* and a single handler at a time pays once (mark_paid).
ConfirmationsBounded ==
  \A r \in Rewards :
    confirmed[r] + Cardinality(Committing(r)) <= Cardinality(Handlers)

\* Money is paid, and a partner told so, for approved rewards only, and nobody
\* is told before the payment is stored (mark_paid, _tell_partner).
OnlyApprovedPaid ==
  /\ told \subseteq paid
  /\ \A r \in Rewards : r \in paid => status[r] = "APPROVED"
  /\ \A r \in Rewards : r \in paid <=> confirmed[r] > 0

\* An admin chat gets a notice again only where a send failed or a run was cut
\* off between sending and stamping (check_payout_reminders).
RepeatsExplained ==
  \A r \in Rewards, k \in Kinds, c \in 1..Chats :
    got[r][k][c] <= 1 + failures[r][k] + crashes

\* A notice stamped as sent has reached every admin chat.
StampMeansDelivered ==
  \A r \in Rewards, k \in Kinds, c \in 1..Chats :
    <<r, k>> \in stamped => got[r][k][c] >= 1

\* No reminder goes out for a reward that was paid before the run read its rows.
NoReminderOncePaid ==
  [][\A r \in Rewards, k \in Kinds :
       got'[r][k] # got[r][k] => (r \notin paid \/ r \in paidInRun)]_vars

\* An approved reward is paid or its target date is announced to the admins,
\* whatever they do to the delay meanwhile.
ApprovedIsAnnounced ==
  \A r \in Rewards :
    status[r] = "APPROVED" ~> (r \in paid \/ <<r, "due">> \in stamped)

\* "Already paid (e.g. a double click): nothing was changed": one confirmed
\* payment of a reward.  Holds when mark-paid requests do not overlap.
ConfirmedOnce == \A r \in Rewards : confirmed[r] <= 1

=============================================================================
