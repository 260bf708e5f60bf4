# Verification of the referral site

TLA+ models of the partner referral site under `src/` (a FastAPI application with a
PostgreSQL database and a React client), TLC runs on small instances, and theorems
checked by TLAPS for every instance. All paths below are relative to `src/src/` unless
they start with `src/`.

## The system

Partners ("agents") bring clients through a referral link. A client's form becomes an
application, the application a CRM lead, the lead a deal; a separate *bounty* service
creates rewards for the deal. The site stores all of it, tells the partner about every
step, lets administrators pay, and closes the partner levels once a month.

One process runs everything (`src/Dockerfile:35` starts a single uvicorn worker,
`src/docker-compose.yml:47` a single container). Inside it, request handlers and the
APScheduler jobs (`core/scheduler.py`, started in `site/main.py:51-59`) are asyncio tasks.
They interleave at every `await`, which means at every database statement and every
call to another service; each holds a database session of its own, at READ COMMITTED and
without row locks unless stated. The bounty, CRM and administration services share the
database (`pravburo_ref_common`, a submodule whose contents are not part of the
repository) or call the site's internal API.

### Inventory

| Component | State | Operations | Interacts with | Hard behaviour | Correct when | Module |
|---|---|---|---|---|---|---|
| Referral applications (`services/referrals.py`, `web/routes/api_referral.py`, `site/crm_client.py`) | `referral_applications`, link visits | submit, record delivery, client list, statistics | CRM, bounty (rewards), notices | concurrent submissions, lost answers, restart between two commits, expiry | one fixation of a phone at a time; a paid client stays; the delivery status says what happened | `Referrals`, `ClientFixation`, `Cabinet` |
| Partner levels (`services/partner_levels.py`, `core/scheduler.py`) | `partner_level_months`, MAIN amounts, bonus rewards | close month, backfill, close quarter, level track | bounty (creates and rejects rewards), admins (edit levels) | re-runs, failures between phases, edits during a run | levels match contracts, corrections survive, rewards priced once, one bonus a quarter | `PartnerLevels`, `Cabinet` |
| Payouts (`services/admin_payouts.py`, `services/payout_reminders.py`, `web/routes/api_admin_payouts.py`) | `rewards.paid_at`, notice stamps, `overdue_days` | mark paid, set delay, hourly reminders, calendar | bounty (decides), Telegram, partner notices | double clicks, partial sends, crash between send and stamp, midnight | paid once, only if approved; every due payout announced, repeats explained; the calendar agrees with what can be paid | `Payouts`, `Cabinet` |
| Deal stages and notices (`web/routes/internal.py`, `services/deal_stages.py`) | `deal_stage_code` | stage update, reward notice | CRM and bounty call it; e-mail, push, Telegram | reordered, repeated and concurrent updates, failing channels | no labelled stage and no reward that has a text stays in silence, repeats are bounded, the stage kept is the deal's | `Notices` |
| Push (`web/routes/push.py`, `core/push.py`) | subscriptions | subscribe, unsubscribe, send and prune | all notices | stale rows, a device changes hands | a device is subscribed for who subscribed it last | `Notices` |
| Partner network (`services/agents.py`, `services/network.py`, `web/routes/api_admin_network.py`) | `invited_by_agent_id`, override rates | link to referrer, downline tree, rates, search | applications, profile, imports | cycles, a link made from stale data | an upline comes from a form that had loaded none, and is the referrer that form found; the tree is the downline, the query ends; rates saved are the ones entered | `Network`, `AdminForms` |
| Profile, onboarding (`services/profile.py`, `web/routes/api_profile.py`, `web/routes/api_onboarding.py`) | agent columns, e-mail change code in the session | update, choose format, change e-mail | network | phone taken by two, column-wise updates of stale rows | a phone belongs to one agent; the INN follows the format | `Network`, `Accounts` |
| Registration, login, reset (`core/auth.py`, `web/routes/api_auth.py`, `web/api_dependencies.py`) | pending registrations and resets, credentials, sessions | begin, confirm, log in, log out | e-mail | concurrent begins and confirmations, attempts, expiry | a code works once, within its time and attempts; newer codes retire older ones | `Accounts` |
| Social accounts (`services/social_auth.py`, `web/routes/auth.py`) | identities | log in or create, link | registration | two first logins, a link racing a login | an identity never changes agents; no agent is left without a way in | `Accounts` |
| Legacy clients (`integrations/legacy_lk/`, `site/legacy_routes.py`) | `legacy_client_id` | import | profile | match by id or phone, no conflict test | a phone belongs to one agent | `Network` |
| Administrator second factor (`core/totp.py`, `web/routes/api_admin_2fa.py`) | TOTP secret, enabled flag, pending session | show, set up, verify | rate limiter, social login | two tabs, two ways in | no full session by the password alone: a right code in time, or a social login; the secret enabled was proven | `AdminLogin` |
| Rate limiter (`services/protection.py`) | hits by key | allow | forms, login, second factor | boundary of the window | at most `limit` in any window | `RateLimiter` |
| FAQ (`services/admin_faq.py`) | positions | create, edit, delete, move | site | gaps and ties of positions | positions stand for a list | `Faq`, `FaqList` |
| Administration of partners and applications | blocked flag, processing status, manager, notes | list, block, unblock, note, status, manager | sessions | forms of several administrators over rows loaded before, paging, live sessions of a blocked partner | an answered form is what the table holds; blocked with a reason; who goes through the pages sees what stays listed | `AdminForms`, `Listing`, `Accounts` |
| Cabinet and payout views (`services/payouts.py`, `web/routes/api_cabinet.py`) | none | pages over several SELECTs | rewards, applications | tables that change between SELECTs | totals add up, no client is missing | `Cabinet` |
| Backup (`services/backup.py`) | none | daily dump | Telegram | two failure branches | a failure is announced | not modelled |
| Configuration, transport, pages | none of their own | input and output | | | | not modelled |
| Browser client (`src/frontend/src`) | session cache, forms | guard, forms, tree layout | JSON API | | | not modelled |

`PROJECT.json` lists the same components, and under `hazards` what in each is hard to
test, at its line, with the properties that guard it.

## What is modelled

Common to all modules:

* an action is what one task does between two `await`s that touch shared state. Where the
  code writes without locks, reading and writing are separate actions, and anything may
  come between them; where it holds a row lock (`SELECT ... FOR UPDATE`) from the first
  statement to the commit, the transaction is one action;
* SQLAlchemy flushes pending writes before the next statement, writes only columns that
  differ from what was loaded, returns an object it holds already with the columns first
  read (identity map), and commits keep objects loaded (`expire_on_commit=False`, as the
  code relies on when it reads objects after a commit);
* names, amounts and texts are abstracted to what the properties tell apart; notices
  that change no state are left out unless a property is about them;
* bounds (`Max...`) stand in guards only and are named as such.

How the modules compose: `AdminLogin` extends `RateLimiter` (the attempts at a code are the
hits of the limiter); `FixationRefinement` extends `Referrals` and maps it to
`ClientFixation`; `Faq` maps its table to `FaqList`. The others meet in tables one of them
writes and others read; each models the writes of the others as actions of its own
(`Cabinet!MarkPaid` is what `Payouts!CommitPaid` does to a reward, `Network!Submit` what
`Referrals!InsertApplication` does to the applications).

### Referrals, ClientFixation, FixationRefinement

`create_first_application` as run by concurrent handlers (`Requests`, each a slot that
serves one submission after another). `pc` is where a handler stands:

| `pc` | action | code |
|---|---|---|
| `idle` | `Submit` | `web/routes/api_referral.py:89-122`; refused forms touch nothing kept here |
| `lookup` | `FindLatest` | the SELECT of `services/referrals.py:257-262` |
| `fixation` | `JudgeFixation` | `_fixation_is_active`, 263-264 |
| `insert` | `InsertApplication` | 266-277, first commit |
| `deliver` | `CreateLead` | `site/crm_client.py:12-41`: lead and answer, lead without answer, no lead |
| `record` | `RecordDelivery` | 279-288, second commit |
| `notify` | `NotifyPartner` | `web/routes/api_referral.py:63-78`; only the admins' Telegram notice is kept |

`apps` is the table, ordered by id; `leads` is what the CRM holds. `HandlerDies` is a
restart or a database error. `rewarded`, set by `CreateReward`, belongs to the bounty
service, which is external: it creates rewards only for deals of leads. `view` and
`basis` are history: how much of the table a handler had seen when it decided.
Assumptions: `created_at` is the day of the INSERT, `delivery_status` starts PENDING (both
are defaults of the external schema), and the clock does not go back.

`ClientFixation` states the promise without tables and handlers: a client is fixed to one
partner, may be claimed when found unpaid and expired, and the claim is granted or given up.
Its state is the day, the `fixation` of each client, the clients `paid` for and those `claimed`.
`FixationRefinement` maps the table to it: the fixation of a phone is its youngest
application, and a handler about to insert is an open claim.

### PartnerLevels

`run_monthly_level_close`: `jpc` is the phase (`close`, `mains`, `price`, `quarter`,
`bonus`). The loop of `_close_month` has one action per iteration (`VisitAgent`), because
the session flushes the row of one partner before it reads the next one's: `cur` and
`read` hold the row taken and not yet flushed, `writes` what is flushed and not
committed. `CommitClose` writes what changed, `InsertConflict` is the unique key of a
row made by hand meanwhile, after which only `JobFails` is left. The bounty service and
the administrators act between any two steps; a row the job has flushed is locked for
them until the commit. `rows`, `main` and `bonus` are the tables. External, and modelled
from how the code uses them: the creation of rewards, the amount rule of MAIN rewards
that are created after their month closed, the hand edit, and the unique keys of
`partner_level_months` and `rewards`. `PriceAgent` prices the waiting rewards of one partner by one read of the
level, where the code SELECTs it for each (`services/partner_levels.py:298-305`).

### Payouts

`LoadReward`, `CommitPaid`, `TellPartner` are `mark_paid` and the route around it, by
concurrent handlers. The reminder job reads the setting and the date (`StartRun`), reads
the rows (`ReadRows`), and for each row and kind of notice skips, sends and stamps, or
fails (`SkipNotice`, `SendNotice`, `StampNotice`, `NoticeFails`). `got` counts messages
by chat, so a failure at the n-th chat is visible. `RunDies` cuts a run off anywhere,
also between sending and stamping. APScheduler runs one instance of a job at a time. `PaidFilter`
leaves out the test for `decided_at` (`services/payout_reminders.py:27`), as every approved reward has one here.

### Notices

One application and its deal. `CrmMove` moves the deal; `LoadApplication` delivers the
report of any move so far, so reports are late, repeated and out of order. `StoreStage` is
the commit of `update_deal_stage` (`web/routes/internal.py:40-62`): the labelled stages and
those of the sales funnel are stored, the other support stages are not, and a labelled
stage that differs from the one loaded is news; the deal's id, written in the same commit, is
left out. `Noticed` are the reward types with a text (`REWARD_NOTICE_TEXT`): a reward of another type
is answered "ignored" (`IgnoreReward`, lines 78-80), for one with a text `LoadAgent` and `Email` begin
the notice. Both notices go on through `SelectSubscriptions`, `Push`, `Prune` (`core/push.py`: dead
rows are deleted by id after all sends) and `Telegram`. `FindSubscription` and
`StoreSubscription` are the two statements of `subscribe`, `Unsubscribe` the one of its
counterpart (`web/routes/push.py`). Whether endpoints are unique is for the external
schema to say; the model allows both. `wants`, `raced`, `told`, `entered`, `orderly` are history.

### Network

`row` holds the columns of each agent that the chain depends on. A profile form
(`OpenProfile`, `TestPhone`, `FindReferrer`, `Save`: `services/profile.py:59-91`) and the choice of a format
(`OpenOnboarding`, `Save`) load the agent, change the loaded object and commit; `Written` is
SQLAlchemy's UPDATE of the columns that differ from what was loaded. `FindReferrer`
is `link_agent_to_referrer` (`services/agents.py:9-26`), a statement of its own between the conflict
test and the commit; `Referrer` is its SELECT of the latest application of the phone, and `read`, which
is history, says how many applications there were then. `ImportClient` and `CreateImported` are
`ensure_legacy_client_agent`, with the row lock of its match and without a conflict test.
`Levels`, `DescendantRows` and `Children` are the recursive query and
`build_network_tree` (`services/network.py`); `Ends` says that the query comes to an end.
`contested` and `mixed` are history: they name the races in which the two invariants about
phones and formats may fail.

### Accounts

A browser has one request open (`req`) and a session in its signed cookie (`cookie`).
`codes` are the rows of pending registrations and resets, by token; `live` those still in
the tables. Beginning is three steps, because the address is looked up before and the mail
sent after the transaction: `BeginRegistration`/`BeginReset`, then `DeleteOld` and `InsertCode`
(one transaction, whose DELETE holds the old rows' locks until the commit), then `MailCode`.
A confirmation locks the row of its code first (`core/auth.py:94-140`) and is one action:
`WrongCode`, `ConfirmRegistration`, `ConfirmReset`. `SocialLogin`, `FindByEmail`, `StoreSocial`
and `LinkSocial`, `StoreLink` are the statements of `services/social_auth.py`; the unique keys
of e-mails and identities, part of the external schema, refuse the loser of a race
(`Refused`). The code of an e-mail change lives in the cookie (`BeginEmailChange`,
`ConfirmEmailChange`). `SetBlocked` and `Visit`: a blocked agent's session ends with its next
request.

### RateLimiter and AdminLogin

`Allow` and `Refuse` are `InMemoryRateLimiter.allow` (`services/protection.py:12-26`), which
runs under a lock without an `await`. `Kept` is the loop that pops from the left. `times` is
history: when each hit was admitted. `AdminLogin` extends it: `GivePassword` leaves only
`pending_admin_id` in the session; `GenerateSecret` and `StoreSecret` are the two ends of
`get_or_create_totp_secret`, `ConfirmSetup` and `EnableTotp` those of the set-up;
`WrongCode`, `Verify` and `RefuseCode` are attempts under the limiter. `SocialLogin` is the way past the
factor: `_log_in` (`web/routes/auth.py:34-60`, `95-106`) opens a full session for whoever an identity at
Telegram or Yandex belongs to, an administrator included. `pass` is history: how each browser came in.
The clock counts in periods of the one-time codes. A code is a pair of secret and period.

### Cabinet

The pages as their SELECTs: `OpenCabinet`, `ReadDirect`, `ReadRewards`
(`web/routes/api_cabinet.py` with `services/referrals.py:149-232`); `OpenPayouts`, `ReadStages`
(`services/payouts.py`); `OpenCalendar`, `ReadOverdue` (`web/routes/api_admin_payouts.py`). A
page keeps a snapshot of the rewards its session holds; `SelectAgain` is the identity map.
`NewApplication` ... `MarkPaid` change the tables in between, `NextDay` moves midnight in.
`Slug`, `PageSlug`, `AdminSlug`, `Finance`, `RewardTotals`, `TargetDate`, `LevelProgress`
are the pure functions of the pages, evaluated over all rows reached or over
all inputs within the bounds.

### Listing

The lists of partners (`services/partners.py:48-100`) and of applications
(`services/admin_applications.py:59-95`). A page is two statements: `CountEntries` counts, and cuts the
page asked for to those there are; `ReadRows` reads the rows with OFFSET and LIMIT. ORDER BY created_at
DESC names no second column, so `FirstRows` leaves entries of one created_at in any order, another one at
each SELECT. `Come` and `Go` are entries that come to pass the search and the filter, or no longer do: created,
blocked, unblocked, delivered. An entry that comes need not be the newest, as a filter may let an old one
in and a transaction may commit after younger ones. `walk` is history: who asks for the first page begins a
walk, and the page offered next (`Pagination.tsx`) continues it.

### AdminForms

What administrators change by hand. A form is the columns it assigns: `Block`, `Unblock` and
`SaveNote` (`web/routes/api_admin_partners.py`), `SetStatus` and `SetManager`
(`services/admin_applications.py`), `SaveRates` (`web/routes/api_admin_network.py`). `Load` is the
SELECT whose row the form is compared with at its commit. The handlers of a partner keep the object they
loaded, so a second `get` returns it; `_existing_application` (`web/routes/api_admin_applications.py:86-88`)
keeps no reference, so `session.get` in `set_processing_status` or `assign_manager` may SELECT again, and is then the `Load`.
`Commit` is the assignments with the UPDATE and the commit; `Written` is the UPDATE of the columns
that differ from those loaded. The three rates are three rows, updated in the order of their keys and
locked until the commit, so that forms for them are applied in the order of their commits. `RollBack`
is a request that is cut off. `row` joins one partner, one application and the rates: rows do
not touch each other. Refused forms (no reason, a negative rate, a manager who is no
administrator) change nothing and are not in `Forms`; the partner of the model is no administrator,
and no code under `src/` changes a role. `last` and `contested` are history: what each column was last
answered OK for, and the columns another form wrote while that one was open.

### Faq, FaqList

`Faq` is the table of positions, with a read and a write action for each request
(`services/admin_faq.py`). `FaqList` is the list it stands for: add at the end, edit, drop,
move by one place. `Listed` is ORDER BY position, id: the one enumeration of the rows in that order. `Update` writes the
text always, the code only if it differs from the one loaded, which is the same for one admin.

## Runs

Every run checks all behaviours within its bounds. Deadlock is not checked: every
bounded model stops where its counters end, and the program may be idle.

| Run | Shows | Bounds and why they are enough |
|---|---|---|
| `submissions_race` | claims only over expired fixations; a rewarded client only claimed behind a younger unpaid application; SENT means one lead; PENDING is owned by a live handler | two handlers, one phone, three submissions, so a third one finds what two racing ones left; fixations of one day and four days, so that two expire; one death |
| `submissions_serial` | serial submissions implement `ClientFixation`, also that no claim stays open; one fixation at a time; an application leaves PENDING unless a handler dies | one handler, two agents, three submissions over four days, one death: two expiries after each other |
| `paid_reclaim` | violated: a reward of an older application does not hold the client | one handler, four submissions, five days |
| `levels` | closed levels match contracts; MAIN rewards of counted partners priced, and by the closed level; one bonus a quarter, only when earned, and there once a run is complete; corrections lost in one race only | months 2 to 4 around the close of a quarter; two partners (two contracts make one ACTIVE, one leaves the other at START), threshold 2; two runs, so that one repeats or overtakes another month; one hand edit, to a level the contracts cannot give |
| `payouts` | confirmations bounded by handlers; repeats explained by failures and crashes; a stamp means delivered; paid rewards not announced; an approved reward is paid or announced | one reward (runs and handlers serve rows independently), two handlers for every overlap of two clicks, two chats, one failure, one crash, delays 0 to 2 over four days |
| `payouts_double_click` | violated: two clicks at once both confirm | two handlers, one reward |
| `accounts` | a code is spent once and within its tries; newer codes retire older ones and nothing else does; identities never move; no agent without a way in | two browsers, two addresses of which one is an administrator's, one social account that brings an address one may also register with, two agents, two codes, one try: every pair of requests in every order |
| `admin_login` | the limit holds in every window; no full session by the password alone; secrets replaced only by racing set-up pages; the secret enabled was proven | one administrator (the state of two is disjoint) in two browsers, two attempts in a window of one period, five moments, three secrets |
| `network` | the tree shows the downline; phones owned once, formats with their INN, except in the named races; an upline only from a form that had loaded none, and the referrer that form found | three agents of whom one is imported, two phones, one legacy client, two handlers, two applications, three forms or imports: chains of three, and every overlap of two forms |
| `network_cycle` | violated: two partners become each other's upline and the query does not end | two agents, one handler, two applications, two forms |
| `notices` | no labelled stage and no reward that has a text in silence, of the others nobody hears; repeats bounded by handlers; reports in order keep the deal's stage; a device is subscribed for who subscribed last | two moves and three reports, so that one is repeated or overtaken; two handlers; a shown, a hidden and a sales stage; a reward type with a text and one without; one browser, two subscriptions by two agents; one death |
| `back_office` | cabinet sums, payout rows and calendar over tables that change between SELECTs and over midnight; the level track for all inputs; a walk through the pages of a list misses or repeats an entry only where created_at ties or one as new came or went; what an administrator's form was answered OK for is in the table, unless forms for the same columns overlapped; the FAQ implements a list | two agents, two applications, two rewards of any type, five changes, three days; five entries, two of one created_at, on pages of two, with four comings and goings between any two SELECTs; contracts to one past the last level; two handlers and three forms with two reasons, notes and rates, so that a form that changes nothing it loaded is overtaken by one that does; three FAQ items of one admin. The four parts share no state and are explored one at a time |

The `expect: violation` runs state what a docstring, comment or test of the repository
says; `findings` in `PROJECT.json` quotes each. Each has a counterpart that holds and says how
far the code does keep the promise: `PaidClaimedOnlyBehindUnpaid` bounds
`FixedForeverOncePaid`, `ConfirmationsBounded` how often `ConfirmedOnce` can fail, and
`TreeShowsDownline` holds wherever the query of `DownlineEnds` does end.

More divergences are plain in the models and have no run of their own:

* two racing submissions of a phone both insert, so `OneFixation` and `ImplementsFixation` hold
  only for submissions one after another; `ClaimsOnlyExpired` is what holds of all;
* a level set by hand between the job's SELECT and its UPDATE of the row is overwritten,
  although `services/partner_levels.py:239-240` says corrections survive; `CorrectionsLostInRaceOnly`
  names this window as the only one;
* a partner with no level row has his MAIN rewards left without an amount, although
  lines 238-239 say that absence means START; `CountedPartnersPriced` names the partners
  this does not concern;
* a close that runs again after all contracts of a partner were rejected leaves his level,
  although lines 237-239 derive it from non-rejected contracts (`StartJob` visits partners with
  contracts only);
* a CRM answer that is lost or late makes the admin notice say that no lead was created
  (`core/telegram.py:34`) although `leads` holds one (`CreateLead`, second case);
* a second block of a blocked partner writes only its reason: if an unblock is committed between its
  load and its commit, it is answered OK and the partner stays active with a reason, although
  `src/docs/manual-test-checklist.md:94` has blocking keep the partner out; `AnswersHold` and
  `ReasonWithBlock` hold of all forms that do not overlap so;
* a social login gives an administrator a full session with no one-time code (`web/routes/auth.py:34-38`,
  and the test `src/tests/test_social_callbacks.py:74` has him land in `/admin`), although
  `web/routes/api_admin_2fa.py:3-4` says "A full session (``agent_id``) exists only once a valid TOTP code
  has been given here"; `SessionsProven` says which of the two ways each full session came by;
* a partner's upline is the agent of the latest application of his phone (`services/agents.py:21-23`), although
  the docstring at lines 10-14 speaks of "whoever first brought them in as a client" and says that
  "invited_by_agent_id never gets reassigned after it's set": of two forms that both loaded the
  partner without an upline, the second to commit replaces the upline of the first. `UplineKept` says
  what the code does: which form may write an upline, and whose it is;
* the test `src/tests/test_partners_pagination.py` has the two pages of thirty partners, created in one transaction,
  disjoint and complete; `services/partners.py:62` orders them by created_at alone, which need not tell them
  apart, so nothing but the database's habit keeps the pages apart. `ListsComplete` names ties and the
  comings and goings that make a walk miss or repeat an entry, and no other reason;
* FAQ items two admins create at once tie, and a move between them then shows nothing; with
  `Admins` of two, `ImplementsList` fails.

Fairness. `Referrals!FairSpec`: every handler that can go on does; the event loop
schedules tasks fairly, every database and CRM call returns or raises (the CRM call
after 20 s). `Payouts!FairSpec`: days pass and the job, started every hour by the
scheduler, goes on; `MaxFailures` and `MaxCrashes` say that Telegram does not refuse
and the process does not stop for ever. `DecideReward` happens early enough for the
longest delay to end before the last day. The other modules have no fairness:
nothing in the code makes a missed close happen, a form be submitted or a report arrive.

Each property of a passing run has a mutant in `PROJECT.json`: a wrong variant of a
definition (an off-by-one, a dropped guard, a wrong branch), defined in the module just
above the right one and used by nothing else, that the property catches.

## Proofs

All theorems hold for every value of the constants that meets the named ASSUMEs of the
modules, which say that bounds and delays are numbers, sets of handlers finite, entries of lists
finitely many with numbers for created_at, and special values not members of the sets they stand beside (no stage is called like a reward). Every invariant was checked with
TLC first; the types, `OnlyApprovedPaid` and `ReasonWithBlock` are in no run, as they are proved.

* `ReferralsProofs`: `TypeOK`; `ClaimsOnlyExpired`; `PaidClaimedOnlyBehindUnpaid`; and
  `OneFixation` for a single handler.
  The inductive invariant `ClaimInv` adds to the type invariant what a handler knows
  between its SELECT and its INSERT: all applications of the phone within its view are
  expired (the latest one was, and the others are older), those that had a reward are
  covered by the latest, and the views of stored applications lie before them. The
  table only grows and time only advances, so this stays true while others move. With one
  handler the view is the whole table, which gives `OneFixation`. `SentMeansOneLead` (of what is recorded
  as sent or announced as created; one recorded as failed may have a lead) and `PendingIsOwned` rest on two more: no two handlers work on one application, and one that
  delivers has made no lead of it before (`Delivering`, `OneEach`); and each PENDING application
  is that of a handler at work or of one that died, which a count of both keeps (`PendingInv`).
* `PayoutsProofs`: `TypeOK`; `OnlyApprovedPaid` (strengthened by `HandlersSound`: a handler past
  its test holds an approved reward); `ConfirmationsBounded` (a handler loads a reward only
  while it is unpaid, hence while nothing is confirmed, and leaves `Committing` when it
  confirms), with `ConfirmedOnce` for one handler as its corollary; `RepeatsExplained` and
  `StampMeansDelivered` (from `NoticeFlow`: at most one message of a notice is not owed to a
  failure or a crash, and it is the one that is stamped or about to be);
  `NoReminderOncePaid` (from `RowsFresh`: every row in hand is unpaid or was paid
  since it was read).
* `AdminLoginProofs`: `TypeOK`; `AtMostLimit`, strengthened by `Forgotten` (a hit the deque
  has dropped is older than the window, and times only grow, so the hits of any window that
  a new hit falls into are still in the deque and were counted); `SessionsProven` (a full session
  names the pass it came by, a code or a social login, and a handler that waits to enable holds a code
  that was right for the secret it loaded); `SecretWritesBounded`
  (a browser that stores counts against the bound before and after its write, and none starts
  once a secret is there); `EnabledIsProven` (while one secret was written, whoever waits to
  enable has proven that one).
* `NetworkProofs`: `TypeOK`; `InnFollowsFormat` (from `RequestsSound`: the columns a form will
  save go together, so they do in the row unless another form changed it since it was loaded);
  `PhoneOwnedOnce` (the claimants of a phone, its owners and the forms past the test for
  it, only grow by `TestPhone`, which finds no other owner, and by imports); `UplineKept`
  (`LinksSound`: a form past `FindReferrer` has the upline it loaded, or the partner who brought its phone
  last of the applications it read, and stored applications do not change).
* `ReferralsProofs`, its second part: `SerialImplements`, the initial states and the steps of `ImplementsFixation` for
  one handler. `FixInv` says that the application the mapping takes for a client's fixation is
  the youngest of the phone (`CurrentSound`), and that a handler between its SELECT and its
  INSERT has found just that one (`FoundCurrent`); each step then maps to a step of
  `ClientFixation` or to a stutter.
* `AccountsProofs`: `TypeOK`, through shapes that grow with the agents and codes there are;
  `IdentityKept` and `NoStrandedAgents` step by step; `CodesSpentOnce`, time and wrong entries included, and `CodesReplacedByNewer` from
  `CodeInv`: a code still in the tables was never accepted (`Unspent`), and a request about to
  store a code has deleted all codes of its owner that were there when it looked (`Deleting`).
* `PartnerLevelsProofs`: `TypeOK`; `CorrectionsLostInRaceOnly` (`HandInv`: a row the run holds or has
  flushed is not one set by hand, unless in the race the property names);
  `ClosedLevelsMatchContracts` (`CloseInv`: each partner counted is still to be visited, in hand,
  flushed at the level counted, or has a row that fits); `MainsPricedByClosedLevel` (`PricingInv`:
  without edits, rows exist for closed months only and a run prices by the row);
  `CountedPartnersPriced` (`CountedInv`: a deal that counts belongs to a partner counted when its
  month closed; `WaitingInv`: each reward that waits for an amount is in the hands of the run
  that prices, its partner still to be visited or found with a level); `QuarterBonusSettled`
  (`BonusInv`: whoever reached the threshold is still to be visited or has the bonus).
* `NoticesProofs`: types of the tables and slots; `NothingSilent` (the stage stored, while labelled,
  has been told or has a handler on the way, and each report of a reward that has a text is
  counted in one of the two, while none of another type is ever on its way); `RepeatsBounded` (a notice, or a handler that loaded an older stage, counts
  against the round of the stage it belongs to; a new round opens for all handlers at once);
  `StageFollowsCrm` (`Following`: in order, one handler at most is storing, and it compares with
  the stage of the report before); `SubscribedHears` (`IdsSound`: an id stays with its browser
  and is given once, so what is pruned is of browsers that are gone; `Hearing`: a browser has one
  subscription at most, which the only handler at it has found).
* `NetworkProofs`, its second part: `TreesCorrect`. `UplinesStored` (a partner's upline and whoever submits
  an application are stored partners) makes "upline of" a function on the partners and the root, and a
  chain of uplines its iteration (`Iterates`). `LevelsAreChains`: level n of the recursive
  query holds those whose chain reaches the root in n steps; since the root is below nobody where the query ends,
  levels do not overlap (`LevelsApart`) and there are no more of them than partners, so that
  the tree is the set of all chains, each partner once (`TreeIsDownline`). `QueryEnds` says where that is:
  a query that does not end has more levels than there are partners, so a partner on two of them, which
  only a root in his own downline allows. The cycle `network_cycle` finds is the only way.
* `BackOfficeProofs` is about the four parts of `MCBackOffice`, each a behaviour of its own
  specification (`PartsApart`, `FaqImplementsList`).
  * Forms: `AnswersHold` and `ReasonWithBlock`, from `Fresh`: what a handler loaded of its columns is in
    the table still, unless another form for them was committed meanwhile; so a column that is
    not written, because it equals the one loaded, has the right value.
  * Pages: `CabinetInv` is the types of the tables (`TablesOK`) and what a page knows between its SELECTs
    (`PageInv`): rewards are only added, and keep agent, client and type; what is held fits what
    the table has, by now or when it was read. `PayoutsCoverClients` and `CalendarAgrees` follow from it; so does
    `CabinetAddsUp`, with a lemma about sums: a fold over a finite set of rewards counts the set of units
    the rewards are made of (`Units`), and so splits over the rows however they are grouped. `TrackAgrees`
    is arithmetic, for any number of contracts.
  * Lists: `ListsComplete`, for any page size and any number of entries. The place of an entry without a tie is
    the number of newer ones (`PlaceOf`), so an entry not seen yet lies below the pages shown, unless one at
    least as new went or came late (`UnseenBelow`), and one seen lies above them unless one at least as new
    came (`SeenAbove`); the last page counted has room for the rest (`LastHolds`).
  * FAQ: `FaqImplementsList`, the initial states and the steps of the refinement and `EveryMoveShows`, for one
    admin. `FaqInv`: no two positions tie, ids were given out, and what the one open request has read is in
    the table still. A finite set with a strict order has just one enumeration (`EnumerationIs`), so the
    list shown is known as soon as one by rising positions is given: one more at the end
    (`RowAdded`), the same (`RowEdited`), closed up (`RowDropped`), two exchanged (`RowsSwapped`).

Two arguments are inductions over data, which the library's induction theorems do not give here, as they take
an operator as parameter. `SetInduction` and `UpTo` state them for a set of good sets and a set of good
numbers, from the well-foundedness of the orders (`FS_StrictSubsetOrderingWellFounded`, `NatLessThanWellFounded`)
and its least element (`WFMin`).

Only model-checked: liveness (`DeliverySettles`, `ApprovedIsAnnounced`, the open claims of
`ImplementsFixation`), which the prover does not reach. Every other property of a passing run
is a theorem.

## Not modelled

* The browser client: it renders what the API gives, and each rule it shows is enforced,
  and modelled, on the server.
* Backup, configuration, transport, security headers, static pages, layout of messages and of the
  payout PDF: input and output without a protocol of their own.
* The internals of other services: bounty, CRM, Telegram, Yandex, captcha and the shared
  schema are external and appear as what the code assumes of them.
* Columns nothing else reads: names and payout details; link visits and the counts over them; the search in the network
  and the filters of the payouts page by month and type, which only narrow a SELECT.

## What is left

The hazards without a property are in `PROJECT.json`, each with the reason. Worth doing next:

* link visits and their counts in `Referrals`, which would make that component whole;
* a run of `Network` with four agents and one of `Levels` over two quarters, if longer runs
  are acceptable: the theorems hold for them already.
