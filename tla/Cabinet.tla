------------------------------ MODULE Cabinet ------------------------------
(***************************************************************************)
(* The pages that show partners and admins the tables: the cabinet, the    *)
(* payouts page and the payouts calendar.  A page is put together from     *)
(* several SELECTs of one session, between which the tables change; a      *)
(* reward the session holds already keeps the columns first read when a    *)
(* later SELECT returns it again (the identity map).                       *)
(*                                                                         *)
(* One page is followed: pages write nothing the others read.  Link visits, *)
(* labels, names and the PDF are left out; amounts are small numbers.      *)
(***************************************************************************)
EXTENDS Integers, Sequences, FiniteSets, FiniteSetsExt

CONSTANTS
  Agents,
  Viewers,     \* those whose pages are looked at
  Apps,        \* ids of applications; 0 stands for none
  Rewards,     \* ids of rewards
  Types,       \* reward types created
  Stages,      \* stages a deal may be in
  Delay,       \* payout_settings.overdue_days
  MaxContracts,  \* bound: contracts the level track is checked for
  MaxDay,        \* bound: days
  MaxChanges     \* bound: changes of the tables

ASSUME CabinetAssumption ==
  /\ Agents \subseteq Nat \ {0}
  /\ Apps \subseteq Nat \ {0}
  /\ Rewards \subseteq Nat \ {0}
  /\ Viewers \subseteq Agents
  /\ {Delay, MaxContracts, MaxDay, MaxChanges} \subseteq Nat

VARIABLES
  day,
  brought,   \* the agent of each application (0: not there yet)
  stage,     \* deal_stage_code of each
  rewards,   \* table rewards: stored rewards by id
  changes,
  page       \* the page in the making (own, since: history, as of its last SELECT)

vars == <<day, brought, stage, rewards, changes, page>>
tables == <<brought, stage, rewards, changes>>

NoRewards == [r \in {} |-> 0]
NoPage == [kind |-> "none", at |-> "idle", agent |-> 0, filter |-> "", today |-> 0,
           first |-> NoRewards, again |-> NoRewards, direct |-> {}, own |-> {},
           since |-> {}]

Init ==
  /\ day = 1
  /\ brought = [i \in Apps |-> 0]
  /\ stage = [i \in Apps |-> "none"]
  /\ rewards = NoRewards
  /\ changes = 0
  /\ page = NoPage

-----------------------------------------------------------------------------
(* Changes of the tables *)

Change ==
  /\ changes < MaxChanges /\ page.at # "done" \* bound: one page is followed
  /\ changes' = changes + 1
  /\ UNCHANGED <<day, page>>

NewApplication(i, a) ==
  /\ Change
  /\ brought[i] = 0 /\ \A j \in Apps : j < i => brought[j] # 0
  /\ brought' = [brought EXCEPT ![i] = a]
  /\ UNCHANGED <<stage, rewards>>

MoveStage(i, s) ==
  /\ Change
  /\ brought[i] # 0
  /\ stage' = [stage EXCEPT ![i] = s]
  /\ UNCHANGED <<brought, rewards>>

\* The bounty service: an override goes to another agent than the client's, a
\* quarterly bonus has no client, a main reward has its amount after the close.
ForWhom(t, a, i) ==
  IF t = "QUARTERLY_BONUS" THEN i = 0
  ELSE i # 0 /\ brought[i] # 0 /\ (t = "OVERRIDE") = (brought[i] # a)

CreateReward(r, t, a, i) ==
  /\ Change
  /\ r \notin DOMAIN rewards /\ \A x \in Rewards : x < r => x \in DOMAIN rewards
  /\ ForWhom(t, a, i)
  /\ rewards' = [x \in DOMAIN rewards \cup {r} |->
       IF x = r THEN [agent |-> a, app |-> i, type |-> t, status |-> "PENDING",
                      amount |-> IF t = "MAIN" THEN 0 ELSE 1, decided |-> 0, paid |-> 0]
       ELSE rewards[x]]
  /\ UNCHANGED <<brought, stage>>

PriceReward(r) ==
  /\ Change
  /\ rewards[r].amount = 0
  /\ rewards' = [rewards EXCEPT ![r].amount = 2]
  /\ UNCHANGED <<brought, stage>>

DecideReward(r, s) ==
  /\ Change
  /\ rewards[r].status = "PENDING"
  /\ rewards' = [rewards EXCEPT ![r].status = s, ![r].decided = day]
  /\ UNCHANGED <<brought, stage>>

Payable(reward) == reward.status = "APPROVED" /\ reward.paid = 0

MarkPaid(r) ==
  /\ Change
  /\ Payable(rewards[r])
  /\ rewards' = [rewards EXCEPT ![r].paid = day]
  /\ UNCHANGED <<brought, stage>>

NextDay ==
  /\ day < MaxDay /\ page.at # "done"
  /\ day' = day + 1
  /\ UNCHANGED <<tables, page>>

-----------------------------------------------------------------------------
(* Slugs and sums *)

\* payout_status_slug
Slug(reward) ==
  IF reward.status = "REJECTED" THEN "rejected"
  ELSE IF reward.status = "PENDING" THEN "pending"
  ELSE IF reward.paid # 0 THEN "paid" ELSE "scheduled"

\* page_status_slug: to the partner a reward to be decided is scheduled.
PageSlug(reward) == IF Slug(reward) = "pending" THEN "scheduled" ELSE Slug(reward)

StageSlug(s) ==
  IF s = "UC_4FX5NE" THEN "deposit" ELSE IF s = "UC_1BEALQ" THEN "ignored" ELSE "analysis"

Own(a) == {r \in DOMAIN rewards : rewards[r].agent = a}

Snapshot(ids) == [r \in ids |-> rewards[r]]

\* A SELECT in a session that holds some rewards already.
SelectAgain(ids, held) == [r \in ids |-> IF r \in DOMAIN held THEN held[r] ELSE rewards[r]]

AmountOf(table, ids) == FoldSet(LAMBDA r, sum : sum + table[r].amount, 0, ids)

\* build_finance_summary; a reward without an amount (0) adds nothing.
Finance(table) ==
  [paid |-> AmountOf(table, {r \in DOMAIN table : table[r].paid # 0}),
   expected |-> AmountOf(table, {r \in DOMAIN table :
     table[r].paid = 0 /\ Slug(table[r]) \in {"pending", "scheduled"}})]

\* Mutated: rewards to be decided are not expected yet.
RewardTotalsDecided(table, ids) ==
  [paid |-> AmountOf(table, {r \in ids : Slug(table[r]) = "paid"}),
   expected |-> AmountOf(table, {r \in ids : Slug(table[r]) = "scheduled"})]

\* _reward_totals
RewardTotals(table, ids) ==
  [paid |-> AmountOf(table, {r \in ids : Slug(table[r]) = "paid"}),
   expected |-> AmountOf(table, {r \in ids : Slug(table[r]) \in {"pending", "scheduled"}})]

-----------------------------------------------------------------------------
(* Levels: indices into LEVEL_ORDER *)

UpperBounds == <<1, 3, 5>>
LevelMinimum == <<0, 2, 4, 6>>

\* Mutated: the upper bound of a level belongs to the next.
LevelFromBound(n) == 1 + Cardinality({k \in DOMAIN UpperBounds : n >= UpperBounds[k]})

LevelForContracts(n) == 1 + Cardinality({k \in DOMAIN UpperBounds : n > UpperBounds[k]})

Clamp(n) == IF n < 0 THEN 0 ELSE IF n > 100 THEN 100 ELSE n

\* build_level_progress; l is the level set by hand, or 0.
LevelProgress(n, l) ==
  LET level == IF l # 0 THEN l ELSE LevelForContracts(n) IN
  [level |-> level,
   fills |-> [k \in 1..3 |->
     IF l # 0 THEN (IF k < level THEN 100 ELSE 0)
     ELSE Clamp(10 * ((10 * (n - LevelMinimum[k])) \div (LevelMinimum[k + 1] - LevelMinimum[k])))],
   toNext |-> IF l # 0 \/ level = 4 THEN 0 ELSE LevelMinimum[level + 1] - n]

\* _count_contracts_by_agent; the days of the model lie in one month.
Contracts(a) ==
  Cardinality({r \in Own(a) : rewards[r].type = "ADVANCE" /\ rewards[r].status # "REJECTED"})

\* get_current_month_progress
CurrentProgress(a, l) == LevelProgress(Contracts(a), l)

-----------------------------------------------------------------------------
(* The cabinet *)

\* The finance summary's rewards.  The level and the counts of get_link_stats,
\* read next, are compared with nothing and have no step.
OpenCabinet(a) ==
  /\ page.at = "idle"
  /\ page' = [NoPage EXCEPT !.kind = "cabinet", !.at = "direct", !.agent = a,
                            !.first = Snapshot(Own(a))]
  /\ UNCHANGED <<day, tables>>

\* get_network_client_rows: the partner's own clients,
ReadDirect ==
  /\ page.at = "direct"
  /\ page' = [page EXCEPT !.at = "rewards",
                          !.direct = {i \in Apps : brought[i] = page.agent}]
  /\ UNCHANGED <<day, tables>>

\* then all rewards, and with them the clients of others.
ReadRewards ==
  /\ page.at = "rewards"
  /\ page' = [page EXCEPT !.at = "done", !.again = SelectAgain(Own(page.agent), page.first)]
  /\ UNCHANGED <<day, tables>>

RewardsOf(i) == {r \in DOMAIN page.again : page.again[r].app = i}

ClientRows == page.direct \cup ({page.again[r].app : r \in DOMAIN page.again} \ {0})

-----------------------------------------------------------------------------
(* The payouts page *)

Shows(filter, slug) == filter \in {"", slug}

\* get_payout_rows without a month or type: rewards,
OpenPayouts(a, filter) ==
  /\ page.at = "idle"
  /\ page' = [NoPage EXCEPT !.kind = "payouts", !.at = "stages", !.agent = a,
                            !.filter = filter, !.first = Snapshot(Own(a))]
  /\ UNCHANGED <<day, tables>>

\* Mutated: a client with a reward of any agent has no row.
RewardlessOfAll(a) ==
  {i \in Apps : brought[i] = a /\ \A r \in DOMAIN rewards : rewards[r].app # i}

\* The clients the agent has no reward for.
Rewardless(a) ==
  {i \in Apps : brought[i] = a /\ \A r \in Own(a) : rewards[r].app # i}

\* then the clients without one, by the stage of their deal.
ReadStages ==
  /\ page.at = "stages"
  /\ page' = [page EXCEPT !.at = "done",
       !.direct = {i \in Rewardless(page.agent) : Shows(page.filter, StageSlug(stage[i]))},
       !.own = {i \in Apps : brought[i] = page.agent},
       !.since = {rewards[r].app : r \in Own(page.agent) \ DOMAIN page.first}]
  /\ UNCHANGED <<day, tables>>

PayoutRows == {r \in DOMAIN page.first : Shows(page.filter, PageSlug(page.first[r]))}

-----------------------------------------------------------------------------
(* The payouts calendar *)

\* _status_slug of the admin pages
AdminSlug(reward, today) ==
  IF Slug(reward) = "scheduled" /\ reward.decided # 0 /\ reward.decided + Delay < today
  THEN "overdue" ELSE Slug(reward)

\* _target_date, 0 for none
TargetDate(reward) ==
  IF reward.paid # 0 THEN reward.paid
  ELSE IF reward.decided # 0 THEN reward.decided + Delay ELSE 0

\* list_payout_rows for the calendar; rewards filtered out are not held.
OpenCalendar(filter) ==
  /\ page.at = "idle"
  /\ page' = [NoPage EXCEPT !.kind = "calendar", !.filter = filter, !.today = day,
       !.at = IF filter = "overdue" THEN "done" ELSE "overdue",
       !.first = Snapshot({r \in DOMAIN rewards : Shows(filter, AdminSlug(rewards[r], day))}),
       !.again = IF filter = "overdue"
                 THEN Snapshot({r \in DOMAIN rewards : AdminSlug(rewards[r], day) = "overdue"})
                 ELSE @]
  /\ UNCHANGED <<day, tables>>

\* list_payout_rows again, for the list of overdue payouts.
ReadOverdue ==
  LET table == SelectAgain(DOMAIN rewards, page.first) IN
  /\ page.at = "overdue"
  /\ page' = [page EXCEPT !.at = "done", !.again =
       [r \in {x \in DOMAIN table : AdminSlug(table[x], day) = "overdue"} |-> table[r]]]
  /\ UNCHANGED <<day, tables>>

\* build_calendar: the rows of a day.
EntriesOn(d) == {r \in DOMAIN page.first : TargetDate(page.first[r]) = d /\ d # 0}

\* Mutated: a payout that is late has no button.
ButtonScheduled(r) == AdminSlug(page.first[r], page.today) = "scheduled"

\* _entry.can_mark_paid
Button(r) == AdminSlug(page.first[r], page.today) \in {"scheduled", "overdue"}

-----------------------------------------------------------------------------

Next ==
  \/ \E a \in Agents :
       \/ \E i \in Apps : NewApplication(i, a)
       \/ \E r \in Rewards, t \in Types, i \in Apps \cup {0} : CreateReward(r, t, a, i)
  \/ \E a \in Viewers :
       \/ OpenCabinet(a)
       \/ \E f \in {"", "scheduled", "analysis"} : OpenPayouts(a, f)
  \/ \E i \in Apps, s \in Stages : MoveStage(i, s)
  \/ \E r \in DOMAIN rewards :
       \/ PriceReward(r)
       \/ \E s \in {"APPROVED", "REJECTED"} : DecideReward(r, s)
       \/ MarkPaid(r)
  \/ \E f \in {"", "scheduled", "overdue"} : OpenCalendar(f)
  \/ ReadDirect
  \/ ReadRewards
  \/ ReadStages
  \/ ReadOverdue
  \/ NextDay

Spec == Init /\ [][Next]_vars

-----------------------------------------------------------------------------
(* Properties *)

Done(kind) == page.kind = kind /\ page.at = "done"

Plus(x, y) == [paid |-> x.paid + y.paid, expected |-> x.expected + y.expected]

SumOfRows ==
  FoldSet(LAMBDA i, sum : Plus(sum, RewardTotals(page.again, RewardsOf(i))),
          [paid |-> 0, expected |-> 0], ClientRows)

\* The cabinet adds up: the clients' totals and the bonuses without a client
\* make the sums of the finance block and those of rewards created meanwhile,
\* however rewards are priced, decided and paid between the SELECTs
\* (build_finance_summary, get_network_client_rows).
CabinetAddsUp ==
  LET fresh == [r \in DOMAIN page.again \ DOMAIN page.first |-> page.again[r]] IN
  Done("cabinet") =>
    Plus(SumOfRows, RewardTotals(page.again, RewardsOf(0)))
      = Plus(Finance(page.first), Finance(fresh))

\* The payouts page without a filter has one row or more of each client of the
\* partner, from the rewards or from the stages, not both; only a client whose
\* first reward was created between the two SELECTs is missing
\* (get_payout_rows).
PayoutsCoverClients ==
  LET rewarded == {page.first[r].app : r \in DOMAIN page.first} IN
  (Done("payouts") /\ page.filter = "") =>
    /\ page.direct \cap rewarded = {}
    /\ page.own \ (page.direct \cup rewarded) \subseteq page.since

\* The calendar offers to pay what mark_paid accepts, and each overdue payout
\* has a day before today, where it stands with a button unless the filter or
\* the first SELECT left it out, also over midnight (list_payout_rows, _entry).
CalendarAgrees ==
  Done("calendar") =>
    /\ \A r \in DOMAIN page.first : Button(r) <=> Payable(page.first[r])
    /\ \A r \in DOMAIN page.again :
         /\ TargetDate(page.again[r]) \in 1..(day - 1)
         /\ r \in DOMAIN page.first =>
              r \in EntriesOn(TargetDate(page.again[r])) /\ Button(r)

TrackFits ==
  \A n \in 0..MaxContracts, l \in 0..4 :
    LET shown == LevelProgress(n, l) IN
    /\ \A k \in 1..3 : (shown.fills[k] = 100) = (shown.level > k)
    /\ l = 0 /\ shown.level < 4 =>
         /\ LevelForContracts(n + shown.toNext) = shown.level + 1
         /\ LevelForContracts(n + shown.toNext - 1) = shown.level

\* The level track agrees with the levels: a segment is full when the level at
\* its end is reached, and the contracts said to be missing lead to the next
\* level, no fewer; a level set by hand is shown whatever the contracts
\* (build_level_progress, level_for_contracts).
TrackAgrees ==
  /\ TrackFits
  /\ \A a \in Viewers, l \in 1..4 : CurrentProgress(a, l).level = l

=============================================================================
