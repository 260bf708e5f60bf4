------------------------------ MODULE Notices ------------------------------
(***************************************************************************)
(* What the CRM and the bounty service report, and what partners hear of   *)
(* it.  An update of a deal's stage loads the application, stores what the *)
(* partner may see and, at a new stage, tells the partner by push and by   *)
(* Telegram; a reward of a type that has a text is told by e-mail, push    *)
(* and Telegram, one of another type is ignored.  Updates come late,       *)
(* repeated and out of order, several at once, and browsers subscribe to   *)
(* pushes, change hands and go away meanwhile.                             *)
(*                                                                         *)
(* One deal of one application is followed.  Updates refused for a wrong   *)
(* id touch nothing; keys, texts and amounts are left out.  The schema may *)
(* or may not let two subscriptions have one endpoint: both are allowed.   *)
(***************************************************************************)
EXTENDS Integers, Sequences, FiniteSets

CONSTANTS
  Agents,
  Owner,        \* the partner whose application it is
  NoAgent,
  Endpoints,    \* browsers
  Shown,        \* stages of the support funnel with a label (STAGE_LABELS)
  Hidden,       \* its other stages
  Sales,        \* stages of the sales funnel
  NoStage,
  RewardTypes,
  Noticed,      \* those with a text (REWARD_NOTICE_TEXT)
  Handlers,
  MaxMoves,     \* bound: moves of the deal in the CRM
  MaxUpdates,   \* bound: updates and reward notices received
  MaxSubscribes,
  MaxDeaths     \* bound: handlers cut off half way

ASSUME NoticesAssumption ==
  /\ Owner \in Agents
  /\ NoAgent \notin Agents
  /\ ({NoStage} \cup RewardTypes) \cap (Shown \cup Hidden \cup Sales) = {}
  /\ NoStage \notin RewardTypes
  /\ Noticed \subseteq RewardTypes
  /\ (Shown \cup Sales) \cap Hidden = {}
  /\ Shown \cap Sales = {}
  /\ IsFiniteSet(Handlers)
  /\ {MaxMoves, MaxUpdates, MaxSubscribes, MaxDeaths} \subseteq Nat

Stages == Shown \cup Hidden \cup Sales

VARIABLES
  moves,     \* the stages the deal went through in the CRM
  stage,     \* deal_stage_code of the application
  subs,      \* table push_subscriptions: a set of [id, agent, endpoint]
  gone,      \* browsers that answer 404 or 410 from now on
  req,       \* the handler in each slot
  updates, subscribes, deaths,
  upTo,      \* history: the move last received
  orderly,   \* history: moves were received one at a time, each once, in order
  entered,   \* history: times each stage was stored over another one
  told,      \* history: notices of each stage, and of each type of reward
  rewards,   \* history: rewards of each type reported
  wants,     \* history: who subscribed last at each browser, and not out again
  raced      \* history: browsers where that overlapped another request

vars == <<moves, stage, subs, gone, req, updates, subscribes, deaths,
          upTo, orderly, entered, told, rewards, wants, raced>>
subVars == <<subs, subscribes, wants, raced>>
stageVars == <<moves, stage, upTo, orderly, entered>>

Idle == [at |-> "idle", new |-> NoStage, prev |-> NoStage, agent |-> NoAgent,
         rows |-> {}, endpoint |-> "none", id |-> 0]

Init ==
  /\ moves = <<>>
  /\ stage = NoStage
  /\ subs = {}
  /\ gone = {}
  /\ req = [h \in Handlers |-> Idle]
  /\ updates = 0 /\ subscribes = 0 /\ deaths = 0
  /\ upTo = 0
  /\ orderly = TRUE
  /\ entered = [s \in Stages |-> 0]
  /\ told = [n \in Stages \cup RewardTypes |-> 0]
  /\ rewards = [t \in RewardTypes |-> 0]
  /\ wants = [e \in Endpoints |-> NoAgent]
  /\ raced = {}

-----------------------------------------------------------------------------
(* update_deal_stage *)

CrmMove(s) ==
  /\ Len(moves) < MaxMoves
  /\ moves' = Append(moves, s)
  /\ UNCHANGED <<stage, subVars, gone, req, updates, deaths, upTo, orderly,
                 entered, told, rewards>>

Storing == {h \in Handlers : req[h].at = "store"}

\* The report of some move arrives and the application is loaded.
LoadApplication(h, i) ==
  /\ req[h] = Idle
  /\ updates < MaxUpdates
  /\ updates' = updates + 1
  /\ req' = [req EXCEPT ![h] = [Idle EXCEPT !.at = "store", !.new = moves[i],
                                            !.prev = stage, !.agent = Owner]]
  /\ orderly' = (orderly /\ i = upTo + 1 /\ Storing = {})
  /\ upTo' = i
  /\ UNCHANGED <<moves, stage, subVars, gone, deaths, entered, told, rewards>>

\* Mutated: every stage is stored.
StoredAll(s) == TRUE

\* A stage without a label is stored unless it is one of the support funnel.
Stored(s) == s \notin Hidden

\* Mutated: an update is always news; the first stage is none.
NewsAlways(new, prev) == new \in Shown
NewsAfterFirst(new, prev) == new \in Shown /\ new # prev /\ prev \in Shown

News(new, prev) == new \in Shown /\ new # prev

\* The commit writes the stage if it differs from the one loaded.
StoreStage(h) ==
  LET r == req[h]
      writes == Stored(r.new) /\ r.new # r.prev IN
  /\ r.at = "store"
  /\ stage' = IF writes THEN r.new ELSE stage
  /\ entered' = IF writes /\ stage # r.new
                THEN [entered EXCEPT ![r.new] = @ + 1] ELSE entered
  /\ req' = [req EXCEPT ![h] =
               IF News(r.new, r.prev) THEN [r EXCEPT !.at = "select"] ELSE Idle]
  /\ UNCHANGED <<moves, subVars, gone, updates, deaths, upTo, orderly, told, rewards>>

-----------------------------------------------------------------------------
(* notify_reward *)

\* A reward is reported of a type without a text: answered "ignored".
IgnoreReward(t) ==
  /\ t \notin Noticed
  /\ updates < MaxUpdates
  /\ updates' = updates + 1
  /\ rewards' = [rewards EXCEPT ![t] = @ + 1]
  /\ UNCHANGED <<stageVars, subVars, gone, req, deaths, told>>

\* One of a type with a text is reported, for an existing partner.
LoadAgent(h, a, t) ==
  /\ t \in Noticed
  /\ req[h] = Idle
  /\ updates < MaxUpdates
  /\ updates' = updates + 1
  /\ rewards' = [rewards EXCEPT ![t] = @ + 1]
  /\ req' = [req EXCEPT ![h] = [Idle EXCEPT !.at = "email", !.new = t, !.agent = a]]
  /\ UNCHANGED <<stageVars, subVars, gone, deaths, told>>

\* The mail goes out or fails; nothing hangs on it.
Email(h) ==
  /\ req[h].at = "email"
  /\ req' = [req EXCEPT ![h].at = "select"]
  /\ UNCHANGED <<stageVars, subVars, gone, updates, deaths, told, rewards>>

-----------------------------------------------------------------------------
(* send_push_notice and send_partner_notice *)

\* The SELECT of the partner's subscriptions.
SelectSubscriptions(h) ==
  LET rows == {s \in subs : s.agent = req[h].agent} IN
  /\ req[h].at = "select"
  /\ req' = [req EXCEPT ![h].rows = rows,
                        ![h].at = IF rows = {} THEN "telegram" ELSE "push"]
  /\ UNCHANGED <<stageVars, subVars, gone, updates, deaths, told, rewards>>

\* Mutated: a push that failed in some other way counts as dead too.
DeadOrFailed(rows, failed) == {s \in rows : s.endpoint \in gone} \cup failed

\* 404 and 410 mean a dead subscription, other errors are logged.
Dead(rows, failed) == {s \in rows : s.endpoint \in gone}

\* The pushes, one after another without an await; an error webpush does not
\* wrap ends them, and no subscription is deleted then.
Push(h) ==
  /\ req[h].at = "push"
  /\ \/ \E failed \in SUBSET req[h].rows :
          LET dead == Dead(req[h].rows, failed) IN
          req' = [req EXCEPT ![h].rows = dead,
                             ![h].at = IF dead = {} THEN "telegram" ELSE "prune"]
     \/ req' = [req EXCEPT ![h].rows = {}, ![h].at = "telegram"]
  /\ UNCHANGED <<stageVars, subVars, gone, updates, deaths, told, rewards>>

\* Dead rows are deleted by id, whoever has them now.
Prune(h) ==
  /\ req[h].at = "prune"
  /\ subs' = {s \in subs : s.id \notin {d.id : d \in req[h].rows}}
  /\ req' = [req EXCEPT ![h].rows = {}, ![h].at = "telegram"]
  /\ UNCHANGED <<stageVars, subscribes, wants, raced, gone, updates, deaths, told, rewards>>

\* Told by Telegram if that is linked; an error is logged.
Telegram(h) ==
  /\ req[h].at = "telegram"
  /\ told' = [told EXCEPT ![req[h].new] = @ + 1]
  /\ req' = [req EXCEPT ![h] = Idle]
  /\ UNCHANGED <<stageVars, subVars, gone, updates, deaths, rewards>>

-----------------------------------------------------------------------------
(* Push subscriptions *)

AtEndpoint(e) == {h \in Handlers : req[h].at = "subscribe" /\ req[h].endpoint = e}

\* subscribe: the SELECT by endpoint; rows holds the subscription found.
FindSubscription(h, a, e) ==
  LET same == {s \in subs : s.endpoint = e}
      start == [Idle EXCEPT !.at = "subscribe", !.agent = a, !.endpoint = e,
                         !.id = subscribes + 1] IN
  /\ req[h] = Idle
  /\ e \notin gone
  /\ subscribes < MaxSubscribes
  /\ subscribes' = subscribes + 1
  /\ IF same = {} THEN req' = [req EXCEPT ![h] = start]
     ELSE \E s \in same : req' = [req EXCEPT ![h] = [start EXCEPT !.rows = {s}]]
  /\ UNCHANGED <<stageVars, subs, wants, raced, gone, updates, deaths, told, rewards>>

Moved(s, a) == [s EXCEPT !.agent = a]

\* The commit: the row found changes hands, if it still exists and was another
\* partner's; or a row is inserted, which a unique endpoint may refuse.
StoreSubscription(h) ==
  LET a == req[h].agent
      e == req[h].endpoint
      found == req[h].rows
      moves2 == {s \in subs : \E f \in found : f.id = s.id /\ f.agent # a}
      added == {[id |-> req[h].id, agent |-> a, endpoint |-> e]}
      taken == \E s \in subs : s.endpoint = e IN
  /\ req[h].at = "subscribe"
  /\ \/ /\ found # {}
        /\ subs' = (subs \ moves2) \cup {Moved(s, a) : s \in moves2}
     \/ /\ found = {}
        /\ subs' = subs \cup added
     \/ /\ found = {} /\ taken
        /\ UNCHANGED subs
  /\ wants' = [wants EXCEPT ![e] = a]
  /\ raced' = IF AtEndpoint(e) = {h} THEN raced ELSE raced \cup {e}
  /\ req' = [req EXCEPT ![h] = Idle]
  /\ UNCHANGED <<stageVars, subscribes, gone, updates, deaths, told, rewards>>

Unsubscribe(a, e) ==
  /\ subscribes < MaxSubscribes
  /\ subscribes' = subscribes + 1
  /\ subs' = {s \in subs : s.endpoint # e \/ s.agent # a}
  /\ wants' = [wants EXCEPT ![e] = IF @ = a THEN NoAgent ELSE @]
  /\ raced' = IF AtEndpoint(e) = {} THEN raced ELSE raced \cup {e}
  /\ UNCHANGED <<stageVars, req, gone, updates, deaths, told, rewards>>

\* A browser drops its endpoint for good.
GoesAway(e) ==
  /\ e \notin gone
  /\ gone' = gone \cup {e}
  /\ UNCHANGED <<stageVars, subVars, req, updates, deaths, told, rewards>>

\* The handler never resumes.
HandlerDies(h) ==
  /\ req[h] # Idle
  /\ deaths < MaxDeaths
  /\ deaths' = deaths + 1
  /\ orderly' = (orderly /\ req[h].at # "store")
  /\ req' = [req EXCEPT ![h] = Idle]
  /\ UNCHANGED <<moves, stage, subVars, gone, updates, upTo, entered, told, rewards>>

-----------------------------------------------------------------------------

HandlerStep(h) ==
  \/ StoreStage(h)
  \/ Email(h)
  \/ SelectSubscriptions(h)
  \/ Push(h)
  \/ Prune(h)
  \/ Telegram(h)
  \/ StoreSubscription(h)

Next ==
  \/ \E s \in Stages : CrmMove(s)
  \/ \E h \in Handlers :
       \/ \E i \in DOMAIN moves : LoadApplication(h, i)
       \/ \E a \in Agents :
            \/ \E t \in RewardTypes : LoadAgent(h, a, t)
            \/ \E e \in Endpoints : FindSubscription(h, a, e)
       \/ HandlerStep(h)
       \/ HandlerDies(h)
  \/ \E t \in RewardTypes : IgnoreReward(t)
  \/ \E e \in Endpoints :
       \/ \E a \in Agents : Unsubscribe(a, e)
       \/ GoesAway(e)

Spec == Init /\ [][Next]_vars

-----------------------------------------------------------------------------
(* Properties *)

Telling(h) == req[h].at \in {"email", "select", "push", "prune", "telegram"}
TellingOf(n) == {h \in Handlers : Telling(h) /\ req[h].new = n}

\* While no handler dies: a labelled stage is never there in silence, and as
\* many rewards of a type with a text were told as were reported, or their
\* handlers are on the way through the channels, whatever failed before.  Of a
\* type without a text nobody hears (update_deal_stage, notify_reward).
NothingSilent ==
  deaths = 0 =>
    /\ stage \in Shown => told[stage] > 0 \/ TellingOf(stage) # {}
    /\ \A t \in RewardTypes :
         told[t] + Cardinality(TellingOf(t)) = IF t \in Noticed THEN rewards[t] ELSE 0

\* Repeated reports are not repeated to the partner: each time a stage is
\* entered, at most one notice for every handler that had loaded the
\* application before (the comparison with the previous stage).
RepeatsBounded ==
  \A s \in Shown :
    told[s] + Cardinality(TellingOf(s)) <= entered[s] * Cardinality(Handlers)

LastStored(n) ==
  LET stored == {i \in 1..n : moves[i] \notin Hidden} IN
  IF stored = {} THEN NoStage
  ELSE moves[CHOOSE i \in stored : \A j \in stored : j <= i]

\* With reports in order, the application has the deal's last stage that
\* concerns the partner, and hidden stages of the support funnel leave it as it
\* was (update_deal_stage).
StageFollowsCrm == (orderly /\ Storing = {}) => stage = LastStored(upTo)

\* The last partner to subscribe at a browser is the one it is subscribed for,
\* until that partner unsubscribes or the browser is gone: no notice to the
\* partners before deletes it (subscribe, unsubscribe, send_push_notice).
\* Requests that overlap at one browser are excepted.
SubscribedHears ==
  \A e \in Endpoints \ (gone \cup raced) :
    {s.agent : s \in {t \in subs : t.endpoint = e}} =
      IF wants[e] = NoAgent THEN {} ELSE {wants[e]}

=============================================================================
