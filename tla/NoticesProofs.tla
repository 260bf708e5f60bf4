-------------------------- MODULE NoticesProofs --------------------------
(***************************************************************************)
(* The properties of stage updates, reward notices and push subscriptions  *)
(* hold for every set of partners, browsers, stages and handlers, and for  *)
(* every bound.                                                            *)
(*                                                                         *)
(* Four parts rest on the types and on what a step leaves in its slot:     *)
(* which stages are still to be told (Heard), how often a stage may be     *)
(* told (Bounded), which report a handler is storing (Following), and      *)
(* which rows and handlers belong to a browser (IdsSound, Hearing).        *)
(***************************************************************************)
EXTENDS Notices, FiniteSetTheorems, TLAPS

-----------------------------------------------------------------------------
(* Types *)

Places == {"idle", "store", "email", "select", "push", "prune", "telegram", "subscribe"}

Channels == {"email", "select", "push", "prune", "telegram"}

Sub == [id : Nat, agent : Agents, endpoint : Endpoints]

Slot == [at : Places, new : Stages \cup RewardTypes \cup {NoStage},
         prev : Stages \cup {NoStage},
         agent : Agents \cup {NoAgent}, rows : SUBSET Sub,
         endpoint : Endpoints \cup {"none"}, id : Nat]

\* A handler in a slot has its partner, its stage or type of reward, or its browser.
Placed(r) ==
  /\ r.at = "store" => r.agent \in Agents /\ r.new \in Stages
  /\ r.at \in Channels => r.agent \in Agents /\ r.new \in Shown \cup Noticed
  /\ r.at = "subscribe" => r.agent \in Agents /\ r.endpoint \in Endpoints

TablesTyped ==
  /\ moves \in Seq(Stages)
  /\ stage \in Stages \cup {NoStage}
  /\ subs \subseteq Sub
  /\ gone \subseteq Endpoints
  /\ updates \in Nat /\ subscribes \in Nat /\ deaths \in Nat
  /\ rewards \in [RewardTypes -> Nat]
  /\ upTo \in Nat /\ upTo <= Len(moves)
  /\ orderly \in BOOLEAN
  /\ entered \in [Stages -> Nat]
  /\ told \in [Stages \cup RewardTypes -> Nat]
  /\ wants \in [Endpoints -> Agents \cup {NoAgent}]
  /\ raced \subseteq Endpoints

SlotsTyped == req \in [Handlers -> Slot] /\ \A h \in Handlers : Placed(req[h])

Typed == TablesTyped /\ SlotsTyped

\* A slot that nobody uses.
LEMMA IdleSlot ==
  /\ Idle \in Slot /\ Placed(Idle)
  /\ Idle.at = "idle" /\ Idle.rows = {} /\ Idle.new = NoStage
<1>1. Idle \in Slot
  BY DEF Idle, Slot, Places
<1>2. Idle.at = "idle" /\ Idle.rows = {} /\ Idle.new = NoStage
  BY DEF Idle
<1>3. QED
  BY <1>1, <1>2 DEF Placed, Channels

\* What LoadApplication puts into its slot.
LEMMA LoadedSlot ==
  ASSUME NEW new \in Stages, NEW prev \in Stages \cup {NoStage},
         NEW r, r = [Idle EXCEPT !.at = "store", !.new = new, !.prev = prev, !.agent = Owner]
  PROVE  r \in Slot /\ Placed(r) /\ r.at = "store" /\ r.new = new /\ r.prev = prev
         /\ r.rows = {}
<1>1. r.at = "store" /\ r.new = new /\ r.prev = prev /\ r.rows = {} /\ r.agent = Owner
  BY DEF Idle
<1>2. r \in Slot
  BY NoticesAssumption DEF Idle, Slot, Places
<1>3. QED
  BY <1>1, <1>2, NoticesAssumption DEF Placed, Channels

\* What LoadAgent puts into its slot.
LEMMA RewardSlot ==
  ASSUME NEW a \in Agents, NEW t \in Noticed,
         NEW r, r = [Idle EXCEPT !.at = "email", !.new = t, !.agent = a]
  PROVE  r \in Slot /\ Placed(r) /\ r.at = "email" /\ r.new = t /\ r.rows = {}
<1>1. r.at = "email" /\ r.agent = a /\ r.new = t /\ r.rows = {}
  BY DEF Idle
<1>2. r \in Slot
  BY NoticesAssumption DEF Idle, Slot, Places
<1>3. QED
  BY <1>1, <1>2 DEF Placed, Channels

\* A slot that goes on to another channel.
LEMMA GoneOnBare ==
  ASSUME NEW r \in Slot, NEW p \in Places, NEW q, q = [r EXCEPT !.at = p]
  PROVE  q \in Slot /\ q.at = p /\ q.rows = r.rows /\ q.new = r.new /\ q.agent = r.agent
         /\ q.prev = r.prev
  BY DEF Slot

-----------------------------------------------------------------------------
(* What each step does to its slot *)

\* Slot h holds r now, the others what they did.
Now(h, r) == req' = [req EXCEPT ![h] = r] /\ r \in Slot /\ Placed(r)

\* A step of one handler leaves the others alone.
LEMMA NowSlots ==
  ASSUME Typed, NEW h \in Handlers, NEW r, Now(h, r)
  PROVE  /\ SlotsTyped'
         /\ req'[h] = r /\ \A g \in Handlers : g # h => req'[g] = req[g]
<1>1. req' = [req EXCEPT ![h] = r] /\ r \in Slot /\ req \in [Handlers -> Slot]
  BY DEF Now, Typed, TablesTyped, SlotsTyped
<1>2. req' \in [Handlers -> Slot] /\ req'[h] = r /\ \A g \in Handlers : g # h => req'[g] = req[g]
  BY <1>1
<1>3. QED
  BY <1>2 DEF Now, Typed, SlotsTyped

\* What LoadApplication leaves in its slot.
LEMMA LoadApplicationSlot ==
  ASSUME Typed, NEW h \in Handlers, NEW i \in DOMAIN moves, LoadApplication(h, i)
  PROVE  \E r : /\ Now(h, r)
                /\ r.at = "store" /\ r.new = moves[i] /\ r.prev = stage /\ r.rows = {}
<1> DEFINE r == [Idle EXCEPT !.at = "store", !.new = moves[i], !.prev = stage, !.agent = Owner]
<1>1. moves[i] \in Stages /\ stage \in Stages \cup {NoStage}
  BY DEF Typed, TablesTyped, SlotsTyped
<1>2. r \in Slot /\ Placed(r) /\ r.at = "store" /\ r.new = moves[i] /\ r.prev = stage
      /\ r.rows = {}
  BY <1>1, LoadedSlot
<1>3. req' = [req EXCEPT ![h] = r]
  BY DEF LoadApplication
<1> HIDE DEF r
<1>4. QED
  BY <1>2, <1>3 DEF Now

\* After the commit, a new stage goes on to the channels.
LEMMA StoreStageSlot ==
  ASSUME Typed, NEW h \in Handlers, StoreStage(h)
  PROVE  \E r : /\ Now(h, r) /\ r.rows \subseteq req[h].rows
                /\ IF News(req[h].new, req[h].prev)
                   THEN r.at = "select" /\ r.new = req[h].new
                   ELSE r = Idle
<1> DEFINE q == [req[h] EXCEPT !.at = "select"]
<1>1. req[h] \in Slot /\ Placed(req[h]) /\ req[h].at = "store"
  BY DEF Typed, TablesTyped, SlotsTyped, StoreStage
<1>2. "select" \in Places
  BY DEF Places
<1>3. q \in Slot /\ q.at = "select" /\ q.new = req[h].new /\ q.agent = req[h].agent
      /\ q.rows = req[h].rows
  BY <1>1, <1>2, GoneOnBare
<1>4. req' = [req EXCEPT ![h] = IF News(req[h].new, req[h].prev) THEN q ELSE Idle]
  BY DEF StoreStage
<1> HIDE DEF q
<1>5. CASE News(req[h].new, req[h].prev)
  <2>1. Placed(q)
    BY <1>1, <1>3, <1>5 DEF Placed, News, Channels
  <2>2. Now(h, q)
    BY <1>3, <1>4, <1>5, <2>1 DEF Now
  <2>3. QED
    BY <1>3, <1>5, <2>2
<1>6. CASE ~News(req[h].new, req[h].prev)
  <2>1. Now(h, Idle)
    BY <1>4, <1>6, IdleSlot DEF Now
  <2>2. QED
    BY <1>6, <2>1, IdleSlot
<1>7. QED
  BY <1>5, <1>6

\* What LoadAgent leaves in its slot.
LEMMA LoadAgentSlot ==
  ASSUME Typed, NEW h \in Handlers, NEW a \in Agents, NEW t \in RewardTypes,
         LoadAgent(h, a, t)
  PROVE  t \in Noticed /\ \E r : Now(h, r) /\ r.at = "email" /\ r.new = t /\ r.rows = {}
<1> DEFINE r == [Idle EXCEPT !.at = "email", !.new = t, !.agent = a]
<1>0. t \in Noticed
  BY DEF LoadAgent
<1>1. r \in Slot /\ Placed(r) /\ r.at = "email" /\ r.new = t /\ r.rows = {}
  BY <1>0, RewardSlot
<1>2. req' = [req EXCEPT ![h] = r]
  BY DEF LoadAgent
<1> HIDE DEF r
<1>3. QED
  BY <1>0, <1>1, <1>2 DEF Now

\* What Email leaves in its slot.
LEMMA EmailSlot ==
  ASSUME Typed, NEW h \in Handlers, Email(h)
  PROVE  \E r : /\ Now(h, r) /\ r.at = "select" /\ r.new = req[h].new
                /\ r.rows \subseteq req[h].rows
<1> DEFINE r == [req[h] EXCEPT !.at = "select"]
<1>1. req[h] \in Slot /\ Placed(req[h]) /\ "select" \in Places /\ req[h].at = "email"
  BY DEF Typed, TablesTyped, SlotsTyped, Places, Email
<1>2. r \in Slot /\ r.at = "select" /\ r.rows = req[h].rows /\ r.new = req[h].new
      /\ r.agent = req[h].agent
  BY <1>1, GoneOnBare
<1>3. req' = [req EXCEPT ![h] = r]
  BY DEF Email
<1> HIDE DEF r
<1>4. QED
  BY <1>1, <1>2, <1>3 DEF Now, Placed, Channels

\* What SelectSubscriptions leaves in its slot.
LEMMA SelectSlot ==
  ASSUME Typed, NEW h \in Handlers, SelectSubscriptions(h)
  PROVE  \E r : /\ Now(h, r) /\ r.at \in {"telegram", "push"} /\ r.new = req[h].new
                /\ r.rows \subseteq subs
<1> DEFINE rows == {s \in subs : s.agent = req[h].agent}
           p == IF rows = {} THEN "telegram" ELSE "push"
<1>1. req[h] \in Slot /\ Placed(req[h]) /\ req[h].at = "select" /\ rows \in SUBSET Sub
      /\ rows \subseteq subs
  BY DEF Typed, TablesTyped, SlotsTyped, SelectSubscriptions
<1>2. p \in Places /\ p \in {"telegram", "push"}
  BY DEF Places
<1> HIDE DEF rows, p
<1>0. PICK r : r = [req[h] EXCEPT !.rows = rows, !.at = p]
  OBVIOUS
<1>3. req' = [req EXCEPT ![h] = r]
  BY <1>0 DEF SelectSubscriptions, Typed, TablesTyped, SlotsTyped, rows, p
<1>4. r \in Slot /\ r.at = p /\ r.rows = rows /\ r.new = req[h].new /\ r.agent = req[h].agent
  BY <1>0, <1>1, <1>2 DEF Slot
<1>5. QED
  BY <1>1, <1>2, <1>3, <1>4 DEF Now, Placed, Channels

\* After the pushes, only dead subscriptions are kept in hand.
LEMMA PushSlot ==
  ASSUME Typed, NEW h \in Handlers, Push(h)
  PROVE  \E r : /\ Now(h, r) /\ r.at \in {"telegram", "prune"} /\ r.new = req[h].new
                /\ r.rows \subseteq req[h].rows
                /\ r.at = "prune" => \A s \in r.rows : s.endpoint \in gone
<1> DEFINE dead == {s \in req[h].rows : s.endpoint \in gone}
<1>1. PICK p \in {"telegram", "prune"}, rows \in SUBSET dead :
        req' = [req EXCEPT ![h].rows = rows, ![h].at = p]
  <2>1. CASE req' = [req EXCEPT ![h].rows = {}, ![h].at = "telegram"]
    BY <2>1
  <2>2. CASE req' = [req EXCEPT ![h].rows = dead,
                                ![h].at = IF dead = {} THEN "telegram" ELSE "prune"]
    <3>1. CASE dead = {}
      BY <2>2, <3>1
    <3>2. CASE dead # {}
      BY <2>2, <3>2
    <3>3. QED
      BY <3>1, <3>2
  <2>3. QED
    BY <2>1, <2>2 DEF Push, Dead
<1>0. PICK r : r = [req[h] EXCEPT !.rows = rows, !.at = p]
  OBVIOUS
<1>2. req[h] \in Slot /\ Placed(req[h]) /\ req[h].at = "push"
  BY DEF Typed, TablesTyped, SlotsTyped, Push
<1>3. rows \in SUBSET Sub /\ rows \subseteq req[h].rows /\ \A s \in rows : s.endpoint \in gone
  <2>1. req[h].rows \subseteq Sub
    BY <1>2 DEF Slot
  <2>2. QED
    BY <2>1
<1>4. p \in Places
  BY DEF Places
<1>5. req' = [req EXCEPT ![h] = r]
  BY <1>0, <1>1 DEF Typed, TablesTyped, SlotsTyped
<1>6. r \in Slot /\ r.at = p /\ r.rows = rows /\ r.new = req[h].new /\ r.agent = req[h].agent
  BY <1>0, <1>2, <1>3, <1>4 DEF Slot
<1> HIDE DEF dead
<1>7. QED
  BY <1>2, <1>3, <1>5, <1>6 DEF Now, Placed, Channels

\* What Prune leaves in its slot.
LEMMA PruneSlot ==
  ASSUME Typed, NEW h \in Handlers, Prune(h)
  PROVE  \E r : Now(h, r) /\ r.at = "telegram" /\ r.new = req[h].new /\ r.rows = {}
<1>1. PICK p, rows : p = "telegram" /\ rows = {}
  OBVIOUS
<1>2. PICK r : r = [req[h] EXCEPT !.rows = rows, !.at = p]
  OBVIOUS
<1>3. req[h] \in Slot /\ Placed(req[h]) /\ req[h].at = "prune"
      /\ p \in Places /\ rows \in SUBSET Sub
  BY <1>1 DEF Typed, TablesTyped, SlotsTyped, Places, Prune
<1>4. r \in Slot /\ r.at = p /\ r.rows = rows /\ r.new = req[h].new /\ r.agent = req[h].agent
  BY <1>2, <1>3 DEF Slot
<1>5. req' = [req EXCEPT ![h] = r]
  BY <1>1, <1>2 DEF Prune, Typed, TablesTyped, SlotsTyped
<1>6. QED
  BY <1>1, <1>3, <1>4, <1>5 DEF Now, Placed, Channels

\* The steps after which the slot is free.
LEMMA FreedSlot ==
  ASSUME NEW h \in Handlers, Telegram(h) \/ StoreSubscription(h) \/ HandlerDies(h)
  PROVE  Now(h, Idle)
  BY IdleSlot DEF Telegram, StoreSubscription, HandlerDies, Now

\* What FindSubscription leaves in its slot: the subscription found, if any.
LEMMA FindSlot ==
  ASSUME Typed, NEW h \in Handlers, NEW a \in Agents, NEW e \in Endpoints,
         FindSubscription(h, a, e)
  PROVE  \E r : /\ Now(h, r) /\ r.at = "subscribe" /\ r.agent = a /\ r.endpoint = e
                /\ r.id = subscribes + 1
                /\ \/ r.rows = {} /\ {s \in subs : s.endpoint = e} = {}
                   \/ \E s \in subs : s.endpoint = e /\ r.rows = {s}
<1>1. PICK n \in Nat : n = subscribes + 1
  BY DEF Typed, TablesTyped, SlotsTyped
<1>2. CASE {s \in subs : s.endpoint = e} = {}
  <2>1. PICK r : r = [Idle EXCEPT !.at = "subscribe", !.agent = a, !.endpoint = e, !.id = n]
    OBVIOUS
  <2>2. req' = [req EXCEPT ![h] = r]
    BY <1>1, <1>2, <2>1 DEF FindSubscription
  <2>3. r.at = "subscribe" /\ r.agent = a /\ r.endpoint = e /\ r.id = n /\ r.rows = {}
    BY <2>1 DEF Idle
  <2>4. r \in Slot
    BY <2>1 DEF Idle, Slot, Places
  <2>5. Placed(r)
    BY <2>3 DEF Placed, Channels
  <2>6. QED
    BY <1>1, <1>2, <2>2, <2>3, <2>4, <2>5 DEF Now
<1>3. CASE {s \in subs : s.endpoint = e} # {}
  <2>1. PICK s \in {t \in subs : t.endpoint = e} :
          req' = [req EXCEPT ![h] =
            [[Idle EXCEPT !.at = "subscribe", !.agent = a, !.endpoint = e, !.id = n]
               EXCEPT !.rows = {s}]]
    BY <1>1, <1>3 DEF FindSubscription
  <2>2. PICK rows : rows = {s}
    OBVIOUS
  <2>3. PICK r : r = [[Idle EXCEPT !.at = "subscribe", !.agent = a, !.endpoint = e, !.id = n]
                        EXCEPT !.rows = rows]
    OBVIOUS
  <2>4. req' = [req EXCEPT ![h] = r]
    BY <2>1, <2>2, <2>3
  <2>5. rows \in SUBSET Sub
    BY <2>1, <2>2 DEF Typed, TablesTyped, SlotsTyped
  <2>6. r.at = "subscribe" /\ r.agent = a /\ r.endpoint = e /\ r.id = n /\ r.rows = rows
    BY <2>3 DEF Idle
  <2>7. r \in Slot
    BY <2>3, <2>5 DEF Idle, Slot, Places
  <2>8. Placed(r)
    BY <2>6 DEF Placed, Channels
  <2>9. QED
    BY <1>1, <2>1, <2>2, <2>4, <2>6, <2>7, <2>8 DEF Now
<1>4. QED
  BY <1>2, <1>3

\* A step of a handler leaves every slot one of a handler.
LEMMA HandlerTyped ==
  ASSUME Typed, NEW h \in Handlers,
         \/ \E i \in DOMAIN moves : LoadApplication(h, i)
         \/ \E a \in Agents, t \in RewardTypes : LoadAgent(h, a, t)
         \/ \E a \in Agents, e \in Endpoints : FindSubscription(h, a, e)
         \/ HandlerStep(h)
         \/ HandlerDies(h)
  PROVE  SlotsTyped'
<1>1. \E r : Now(h, r)
  BY LoadApplicationSlot, LoadAgentSlot, FindSlot, StoreStageSlot, EmailSlot, SelectSlot,
     PushSlot, PruneSlot, FreedSlot DEF HandlerStep
<1>2. QED
  BY <1>1, NowSlots

\* The types hold in the initial state.
LEMMA InitTyped == Init => Typed
<1>1. Init => SlotsTyped
  BY IdleSlot DEF Init, SlotsTyped
<1>2. Init => TablesTyped
  BY DEF Init, TablesTyped
<1>3. QED
  BY <1>1, <1>2 DEF Typed

\* Every step keeps the types.
LEMMA NextTyped == Typed /\ [Next]_vars => Typed'
<1> SUFFICES ASSUME Typed, [Next]_vars
             PROVE  TablesTyped' /\ SlotsTyped'
  BY DEF Typed
<1>a. TablesTyped /\ SlotsTyped
  BY DEF Typed
<1>1. ASSUME NEW s \in Stages, CrmMove(s)
      PROVE  TablesTyped' /\ SlotsTyped'
  <2>1. moves' \in Seq(Stages) /\ Len(moves') = Len(moves) + 1
    BY <1>1, <1>a DEF CrmMove, TablesTyped
  <2>2. upTo <= Len(moves')
    <3>1. upTo \in Nat /\ Len(moves) \in Nat /\ upTo <= Len(moves)
      BY <1>a DEF TablesTyped
    <3>2. QED
      BY <2>1, <3>1
  <2>3. QED
    BY <1>1, <1>a, <2>1, <2>2 DEF CrmMove, TablesTyped, SlotsTyped, subVars
<1>2. ASSUME NEW h \in Handlers, NEW i \in DOMAIN moves, LoadApplication(h, i)
      PROVE  TablesTyped' /\ SlotsTyped'
  <2>1. i \in Nat /\ i <= Len(moves)
    BY <1>a DEF TablesTyped
  <2>2. SlotsTyped'
    BY <1>2, HandlerTyped
  <2>3. /\ updates' = updates + 1 /\ upTo' = i
        /\ UNCHANGED <<moves, stage, subs, subscribes, wants, raced, gone, deaths, entered, told,
                       rewards>>
    BY <1>2 DEF LoadApplication, subVars
  <2>4. orderly' \in BOOLEAN
    BY <1>2 DEF LoadApplication
  <2>5. QED
    BY <1>a, <2>1, <2>2, <2>3, <2>4 DEF TablesTyped
<1>3. ASSUME NEW h \in Handlers, StoreStage(h)
      PROVE  TablesTyped' /\ SlotsTyped'
  <2>1. req[h].new \in Stages
    BY <1>3, <1>a DEF StoreStage, SlotsTyped, Placed
  <2>2. SlotsTyped'
    BY <1>3, HandlerTyped DEF HandlerStep
  <2>3. stage' \in Stages \cup {NoStage}
    BY <1>3, <1>a, <2>1 DEF StoreStage, TablesTyped
  <2>4. entered' \in [Stages -> Nat]
    <3>1. entered' = entered \/ entered' = [entered EXCEPT ![req[h].new] = @ + 1]
      BY <1>3 DEF StoreStage
    <3>2. entered \in [Stages -> Nat]
      BY <1>a DEF TablesTyped
    <3>3. QED
      BY <3>1, <3>2
  <2>5. UNCHANGED <<moves, subs, subscribes, wants, raced, gone, updates, deaths, upTo,
                    orderly, told, rewards>>
    BY <1>3 DEF StoreStage, subVars
  <2>6. QED
    BY <1>a, <2>2, <2>3, <2>4, <2>5 DEF TablesTyped
<1>4. ASSUME NEW h \in Handlers, NEW a \in Agents, NEW t \in RewardTypes,
             LoadAgent(h, a, t)
      PROVE  TablesTyped' /\ SlotsTyped'
  <2>1. SlotsTyped'
    BY <1>4, HandlerTyped
  <2>2. rewards' \in [RewardTypes -> Nat]
    BY <1>4, <1>a DEF LoadAgent, TablesTyped
  <2>3. QED
    BY <1>4, <1>a, <2>1, <2>2 DEF LoadAgent, TablesTyped, subVars, stageVars
<1>5. ASSUME NEW h \in Handlers, Email(h) \/ SelectSubscriptions(h) \/ Push(h)
      PROVE  TablesTyped' /\ SlotsTyped'
  <2>1. SlotsTyped'
    BY <1>5, HandlerTyped DEF HandlerStep
  <2>2. QED
    BY <1>5, <1>a, <2>1 DEF Email, SelectSubscriptions, Push, TablesTyped, subVars, stageVars
<1>6. ASSUME NEW h \in Handlers, Prune(h)
      PROVE  TablesTyped' /\ SlotsTyped'
  <2>1. SlotsTyped'
    BY <1>6, HandlerTyped DEF HandlerStep
  <2>2. subs' \subseteq subs
    BY <1>6 DEF Prune
  <2>3. QED
    BY <1>6, <1>a, <2>1, <2>2 DEF Prune, TablesTyped, stageVars
<1>7. ASSUME NEW h \in Handlers, Telegram(h)
      PROVE  TablesTyped' /\ SlotsTyped'
  <2>1. SlotsTyped'
    BY <1>7, HandlerTyped DEF HandlerStep
  <2>2. req[h].new \in Stages \cup RewardTypes
    BY <1>7, <1>a, NoticesAssumption DEF Telegram, SlotsTyped, Placed, Channels, Stages
  <2>3. told' \in [Stages \cup RewardTypes -> Nat]
    BY <1>7, <1>a, <2>2 DEF Telegram, TablesTyped
  <2>4. QED
    BY <1>7, <1>a, <2>1, <2>3 DEF Telegram, TablesTyped, subVars, stageVars
<1>8. ASSUME NEW h \in Handlers, StoreSubscription(h)
      PROVE  TablesTyped' /\ SlotsTyped'
  <2>1. SlotsTyped'
    BY <1>8, HandlerTyped DEF HandlerStep
  <2>2. PICK a \in Agents, e \in Endpoints, n \in Nat :
          a = req[h].agent /\ e = req[h].endpoint /\ n = req[h].id
    BY <1>8, <1>a DEF StoreSubscription, SlotsTyped, Slot, Placed
  <2>3. subs' \subseteq Sub
    <3>1. [id |-> n, agent |-> a, endpoint |-> e] \in Sub
      BY DEF Sub
    <3>2. \A s \in Sub : Moved(s, a) \in Sub
      BY DEF Moved, Sub
    <3>3. subs \subseteq Sub
      BY <1>a DEF TablesTyped
    <3> HIDE DEF Sub
    <3>4. subs' \subseteq subs \cup {Moved(s, a) : s \in subs}
                           \cup {[id |-> n, agent |-> a, endpoint |-> e]}
      BY <1>8, <2>2 DEF StoreSubscription
    <3>5. QED
      BY <3>1, <3>2, <3>3, <3>4
  <2>4. wants' \in [Endpoints -> Agents \cup {NoAgent}] /\ raced' \subseteq Endpoints
    BY <1>8, <1>a, <2>2 DEF StoreSubscription, TablesTyped
  <2>5. QED
    BY <1>8, <1>a, <2>1, <2>3, <2>4 DEF StoreSubscription, TablesTyped, stageVars
<1>9. ASSUME NEW h \in Handlers, NEW a \in Agents, NEW e \in Endpoints, FindSubscription(h, a, e)
      PROVE  TablesTyped' /\ SlotsTyped'
  <2>1. SlotsTyped'
    BY <1>9, HandlerTyped
  <2>2. /\ subscribes' = subscribes + 1
        /\ UNCHANGED <<moves, stage, upTo, orderly, entered, subs, wants, raced, gone, updates,
                       deaths, told, rewards>>
    BY <1>9 DEF FindSubscription, stageVars
  <2>3. QED
    BY <1>a, <2>1, <2>2 DEF TablesTyped
<1>10. ASSUME NEW h \in Handlers, HandlerDies(h)
       PROVE  TablesTyped' /\ SlotsTyped'
  <2>1. SlotsTyped'
    BY <1>10, HandlerTyped
  <2>2. QED
    BY <1>10, <1>a, <2>1 DEF HandlerDies, TablesTyped, subVars
<1>11. ASSUME NEW a \in Agents, NEW e \in Endpoints, Unsubscribe(a, e)
       PROVE  TablesTyped' /\ SlotsTyped'
  <2>1. subs' \subseteq subs
    BY <1>11 DEF Unsubscribe
  <2>2. QED
    BY <1>11, <1>a, <2>1 DEF Unsubscribe, TablesTyped, SlotsTyped, stageVars
<1>12. ASSUME NEW e \in Endpoints, GoesAway(e)
       PROVE  TablesTyped' /\ SlotsTyped'
  BY <1>12, <1>a DEF GoesAway, TablesTyped, SlotsTyped, stageVars, subVars
<1>13. ASSUME NEW t \in RewardTypes, IgnoreReward(t)
       PROVE  TablesTyped' /\ SlotsTyped'
  <2>1. rewards' \in [RewardTypes -> Nat]
    BY <1>13, <1>a DEF IgnoreReward, TablesTyped
  <2>2. QED
    BY <1>13, <1>a, <2>1 DEF IgnoreReward, TablesTyped, SlotsTyped, stageVars, subVars
<1>14. CASE UNCHANGED vars
  BY <1>14, <1>a DEF vars, TablesTyped, SlotsTyped
<1>15. QED
  BY <1>1, <1>2, <1>3, <1>4, <1>5, <1>6, <1>7, <1>8, <1>9, <1>10, <1>11, <1>12, <1>13,
     <1>14
     DEF Next, HandlerStep

\* The types hold always.
THEOREM TypeCorrect == Spec => []Typed
<1>1. QED
  BY InitTyped, NextTyped, PTL DEF Spec

-----------------------------------------------------------------------------
(* Who is telling what *)

\* Handlers that will tell of stage s unless it is stored by then already.
Waiting(s) == {h \in Handlers : req[h].at = "store" /\ req[h].new = s /\ req[h].prev # s}

\* Sets of handlers are counted.
LEMMA HandlersCounted ==
  ASSUME NEW S \in SUBSET Handlers
  PROVE  /\ Cardinality(S) \in Nat /\ Cardinality(Handlers) \in Nat
         /\ Cardinality(S) <= Cardinality(Handlers)
         /\ S # {} => Cardinality(S) > 0
         /\ \A h \in Handlers : h \notin S => Cardinality(S \cup {h}) = Cardinality(S) + 1
         /\ \A h \in S : Cardinality(S \ {h}) = Cardinality(S) - 1
<1>1. IsFiniteSet(Handlers) /\ IsFiniteSet(S)
  BY NoticesAssumption, FS_Subset
<1>2. Cardinality(S) \in Nat /\ Cardinality(Handlers) \in Nat
  BY <1>1, FS_CardinalityType
<1>3. Cardinality(S) <= Cardinality(Handlers)
  BY <1>1, FS_Subset
<1>4. S # {} => Cardinality(S) > 0
  <2>1. Cardinality(S) = 0 <=> S = {}
    BY <1>1, FS_EmptySet
  <2>2. QED
    BY <1>2, <2>1
<1>5. \A h \in Handlers : h \notin S => Cardinality(S \cup {h}) = Cardinality(S) + 1
  BY <1>1, FS_AddElement
<1>6. \A h \in S : Cardinality(S \ {h}) = Cardinality(S) - 1
  BY <1>1, FS_RemoveElement
<1>7. QED
  BY <1>2, <1>3, <1>4, <1>5, <1>6

\* Steps that tell nobody anything, and load and store no stage.
LEMMA QuietSteps ==
  ASSUME Typed, [Next]_vars
  PROVE  \/ \E h \in Handlers :
              \/ \E i \in DOMAIN moves : LoadApplication(h, i)
              \/ \E a \in Agents, t \in RewardTypes : LoadAgent(h, a, t)
              \/ StoreStage(h)
              \/ Telegram(h)
              \/ HandlerDies(h)
         \/ /\ UNCHANGED <<stage, upTo, orderly, entered, told, deaths>>
            /\ \A t \in Noticed : rewards'[t] = rewards[t]
            /\ UNCHANGED moves \/ \E s \in Stages : CrmMove(s)
            /\ \A g \in Handlers :
                 /\ Telling(g)' <=> Telling(g)
                 /\ Telling(g) => req'[g].new = req[g].new
                 /\ req'[g].at = "store" <=> req[g].at = "store"
                 /\ req[g].at = "store" => req'[g] = req[g]
<1> DEFINE Quiet == /\ UNCHANGED <<stage, upTo, orderly, entered, told, deaths>>
                    /\ \A t \in Noticed : rewards'[t] = rewards[t]
                    /\ UNCHANGED moves \/ \E s \in Stages : CrmMove(s)
                    /\ \A g \in Handlers :
                         /\ Telling(g)' <=> Telling(g)
                         /\ Telling(g) => req'[g].new = req[g].new
                         /\ req'[g].at = "store" <=> req[g].at = "store"
                         /\ req[g].at = "store" => req'[g] = req[g]
<1>1. CASE UNCHANGED vars \/ (\E s \in Stages : CrmMove(s))
           \/ (\E e \in Endpoints : GoesAway(e) \/ \E a \in Agents : Unsubscribe(a, e))
  <2>1. UNCHANGED <<req, stage, upTo, orderly, entered, told, rewards, deaths>>
    BY <1>1 DEF vars, CrmMove, GoesAway, Unsubscribe, stageVars, subVars
  <2>2. UNCHANGED moves \/ \E s \in Stages : CrmMove(s)
    BY <1>1 DEF vars, GoesAway, Unsubscribe, stageVars
  <2>3. QED
    BY <2>1, <2>2 DEF Telling
<1>2. ASSUME NEW h \in Handlers, Email(h) \/ SelectSubscriptions(h) \/ Push(h) \/ Prune(h)
      PROVE  Quiet
  <2>1. PICK r : Now(h, r) /\ r.at \in {"select", "push", "prune", "telegram"}
                 /\ r.new = req[h].new
    BY <1>2, EmailSlot, SelectSlot, PushSlot, PruneSlot
  <2>2. req[h].at \in {"email", "select", "push", "prune"}
    BY <1>2 DEF Email, SelectSubscriptions, Push, Prune
  <2>3. req'[h] = r /\ \A g \in Handlers : g # h => req'[g] = req[g]
    BY <2>1, NowSlots
  <2>4. UNCHANGED <<stage, upTo, orderly, entered, told, rewards, deaths, moves>>
    BY <1>2 DEF Email, SelectSubscriptions, Push, Prune, stageVars
  <2>5. QED
    BY <2>1, <2>2, <2>3, <2>4 DEF Telling
<1>3. ASSUME NEW h \in Handlers,
             StoreSubscription(h)
             \/ \E a \in Agents, e \in Endpoints : FindSubscription(h, a, e)
      PROVE  Quiet
  <2>1. PICK r : Now(h, r) /\ r.at \in {"idle", "subscribe"}
    BY <1>3, FreedSlot, FindSlot, IdleSlot
  <2>2. req[h].at \in {"idle", "subscribe"}
    BY <1>3, IdleSlot DEF StoreSubscription, FindSubscription
  <2>3. req'[h] = r /\ \A g \in Handlers : g # h => req'[g] = req[g]
    BY <2>1, NowSlots
  <2>4. UNCHANGED <<stage, upTo, orderly, entered, told, rewards, deaths, moves>>
    BY <1>3 DEF StoreSubscription, FindSubscription, stageVars
  <2>5. QED
    BY <2>1, <2>2, <2>3, <2>4 DEF Telling
<1>4. ASSUME NEW t \in RewardTypes, IgnoreReward(t)
      PROVE  Quiet
  <2>1. UNCHANGED <<req, stage, upTo, orderly, entered, told, deaths, moves>>
    BY <1>4 DEF IgnoreReward, stageVars
  <2>2. \A n \in Noticed : rewards'[n] = rewards[n]
    BY <1>4, NoticesAssumption DEF IgnoreReward, Typed, TablesTyped
  <2>3. QED
    BY <2>1, <2>2 DEF Telling
<1>5. QED
  BY <1>1, <1>2, <1>3, <1>4 DEF Next, HandlerStep

\* Who tells and waits after such a step.
LEMMA QuietSets ==
  ASSUME \A g \in Handlers :
           /\ Telling(g)' <=> Telling(g)
           /\ Telling(g) => req'[g].new = req[g].new
           /\ req'[g].at = "store" <=> req[g].at = "store"
           /\ req[g].at = "store" => req'[g] = req[g],
         NEW s
  PROVE  TellingOf(s)' = TellingOf(s) /\ Waiting(s)' = Waiting(s) /\ Storing' = Storing
  BY DEF TellingOf, Waiting, Storing

\* Who tells and waits after an application was loaded.
LEMMA LoadedSets ==
  ASSUME Typed, NEW h \in Handlers, NEW i \in DOMAIN moves, LoadApplication(h, i), NEW s
  PROVE  /\ TellingOf(s)' = TellingOf(s)
         /\ s = stage => Waiting(s)' = Waiting(s)
         /\ Storing' = Storing \cup {h}
<1>1. PICK r : Now(h, r) /\ r.at = "store" /\ r.new = moves[i] /\ r.prev = stage
  BY LoadApplicationSlot
<1>2. req'[h] = r /\ \A g \in Handlers : g # h => req'[g] = req[g]
  BY <1>1, NowSlots
<1>3. req[h].at = "idle"
  BY IdleSlot DEF LoadApplication
<1>4. QED
  BY <1>1, <1>2, <1>3 DEF TellingOf, Telling, Waiting, Storing

\* Who tells and waits after a stage was stored.
LEMMA StoredSets ==
  ASSUME Typed, NEW h \in Handlers, StoreStage(h), NEW s
  PROVE  /\ TellingOf(s)' = IF News(req[h].new, req[h].prev) /\ s = req[h].new
                            THEN TellingOf(s) \cup {h} ELSE TellingOf(s)
         /\ h \notin TellingOf(s)
         /\ Waiting(s)' = Waiting(s) \ {h}
         /\ h \in Waiting(s) <=> s = req[h].new /\ req[h].prev # s
         /\ Storing' = Storing \ {h}
<1>1. PICK r : /\ Now(h, r)
               /\ IF News(req[h].new, req[h].prev)
                  THEN r.at = "select" /\ r.new = req[h].new
                  ELSE r = Idle
  BY StoreStageSlot
<1>2. req'[h] = r /\ \A g \in Handlers : g # h => req'[g] = req[g]
  BY <1>1, NowSlots
<1>3. req[h].at = "store" /\ Idle.at = "idle"
  BY IdleSlot DEF StoreStage
<1>4. r.at # "store"
  BY <1>1, <1>3
<1>5. CASE News(req[h].new, req[h].prev)
  BY <1>1, <1>2, <1>3, <1>4, <1>5 DEF TellingOf, Telling, Waiting, Storing
<1>6. CASE ~News(req[h].new, req[h].prev)
  BY <1>1, <1>2, <1>3, <1>4, <1>6 DEF TellingOf, Telling, Waiting, Storing
<1>7. QED
  BY <1>5, <1>6

\* Who tells and waits after a reward was reported.
LEMMA RewardSets ==
  ASSUME Typed, NEW h \in Handlers, NEW a \in Agents, NEW t \in RewardTypes,
         LoadAgent(h, a, t), NEW s
  PROVE  /\ TellingOf(s)' = IF s = t THEN TellingOf(s) \cup {h} ELSE TellingOf(s)
         /\ h \notin TellingOf(s)
         /\ Waiting(s)' = Waiting(s)
         /\ Storing' = Storing
<1>1. PICK r : Now(h, r) /\ r.at = "email" /\ r.new = t
  BY LoadAgentSlot
<1>2. req'[h] = r /\ \A g \in Handlers : g # h => req'[g] = req[g]
  BY <1>1, NowSlots
<1>3. req[h].at = "idle"
  BY IdleSlot DEF LoadAgent
<1>4. QED
  BY <1>1, <1>2, <1>3 DEF TellingOf, Telling, Waiting, Storing

\* Who tells and waits after a notice was sent, or its handler died.
LEMMA FreedSets ==
  ASSUME Typed, NEW h \in Handlers, Telegram(h) \/ HandlerDies(h), NEW s
  PROVE  /\ TellingOf(s)' = TellingOf(s) \ {h}
         /\ Waiting(s)' = Waiting(s) \ {h}
         /\ Storing' = Storing \ {h}
<1>1. Now(h, Idle) /\ Idle.at = "idle"
  BY FreedSlot, IdleSlot
<1>2. req'[h] = Idle /\ \A g \in Handlers : g # h => req'[g] = req[g]
  BY <1>1, NowSlots
<1> HIDE DEF Idle
<1>3. QED
  BY <1>1, <1>2 DEF TellingOf, Telling, Waiting, Storing

-----------------------------------------------------------------------------
(* Nothing is silent *)

\* What is told when a handler has come to the end of its channels.
LEMMA Told ==
  ASSUME Typed, NEW h \in Handlers, Telegram(h)
  PROVE  /\ h \in TellingOf(req[h].new)
         /\ req[h].new \in Shown \cup Noticed
         /\ \A n \in Stages \cup RewardTypes :
              told'[n] = IF n = req[h].new THEN told[n] + 1 ELSE told[n]
<1>1. req[h].at = "telegram" /\ req[h].new \in Shown \cup Noticed
  BY DEF Telegram, Typed, SlotsTyped, Placed, Channels
<1>2. told \in [Stages \cup RewardTypes -> Nat]
  BY DEF Typed, TablesTyped
<1>3. told' = [told EXCEPT ![req[h].new] = @ + 1]
  BY DEF Telegram
<1>4. QED
  BY <1>1, <1>2, <1>3 DEF TellingOf, Telling

\* Nothing is silent, stage by stage.
Heard(s) == deaths = 0 /\ stage = s => told[s] > 0 \/ TellingOf(s) # {}

\* The rewards of a type that are told of, or being told of.
RewardHeard(t) ==
  deaths = 0 =>
    told[t] + Cardinality(TellingOf(t)) = IF t \in Noticed THEN rewards[t] ELSE 0

\* The property, by stages and types of reward.
LEMMA HeardIsSilent ==
  NothingSilent <=> (\A t \in RewardTypes : RewardHeard(t)) /\ (\A s \in Shown : Heard(s))
  BY DEF NothingSilent, Heard, RewardHeard

\* What the sets and counters are.
LEMMA TellingTyped ==
  ASSUME Typed
  PROVE  /\ Shown \subseteq Stages /\ NoStage \notin Stages
         /\ Stages \cap RewardTypes = {} /\ Noticed \subseteq RewardTypes
         /\ told \in [Stages \cup RewardTypes -> Nat] /\ deaths \in Nat
         /\ \A s : TellingOf(s) \in SUBSET Handlers /\ Waiting(s) \in SUBSET Handlers
  BY NoticesAssumption DEF Stages, Typed, TablesTyped, TellingOf, Waiting

\* Every step keeps a labelled stage from being silent.
LEMMA HeardNext ==
  ASSUME Typed, [Next]_vars, NEW s \in Shown, Heard(s)
  PROVE  Heard(s)'
<1> SUFFICES ASSUME deaths' = 0, stage' = s
             PROVE  told'[s] > 0 \/ TellingOf(s)' # {}
  BY DEF Heard, TellingOf, Telling
<1>a. s \in Stages /\ s # NoStage /\ told \in [Stages \cup RewardTypes -> Nat] /\ deaths \in Nat
  BY TellingTyped
<1>b. deaths = 0 /\ stage = s => told[s] > 0 \/ TellingOf(s) # {}
  BY DEF Heard
<1>1. ASSUME NEW h \in Handlers, NEW i \in DOMAIN moves, LoadApplication(h, i)
      PROVE  told'[s] > 0 \/ TellingOf(s)' # {}
  <2>1. UNCHANGED <<stage, told, deaths>>
    BY <1>1 DEF LoadApplication
  <2>2. TellingOf(s)' = TellingOf(s)
    BY <1>1, LoadedSets
  <2>3. QED
    BY <1>b, <2>1, <2>2
<1>2. ASSUME NEW h \in Handlers, NEW a \in Agents, NEW t \in RewardTypes,
             LoadAgent(h, a, t)
      PROVE  told'[s] > 0 \/ TellingOf(s)' # {}
  <2>1. UNCHANGED <<stage, told, deaths>>
    BY <1>2 DEF LoadAgent, stageVars
  <2>2. TellingOf(s)' = TellingOf(s)
    BY <1>a, <1>2, TellingTyped, RewardSets
  <2>3. QED
    BY <1>b, <2>1, <2>2
<1>3. ASSUME NEW h \in Handlers, StoreStage(h)
      PROVE  told'[s] > 0 \/ TellingOf(s)' # {}
  <2>1. UNCHANGED <<told, deaths>>
    BY <1>3 DEF StoreStage
  <2>2. TellingOf(s)' = IF News(req[h].new, req[h].prev) /\ s = req[h].new
                        THEN TellingOf(s) \cup {h} ELSE TellingOf(s)
    BY <1>3, StoredSets
  <2>3. stage' # stage => s = req[h].new /\ req[h].new # req[h].prev
    BY <1>3 DEF StoreStage
  <2>4. stage' # stage => News(req[h].new, req[h].prev)
    BY <2>3 DEF News
  <2>5. QED
    BY <1>b, <2>1, <2>2, <2>3, <2>4
<1>4. ASSUME NEW h \in Handlers, Telegram(h)
      PROVE  told'[s] > 0 \/ TellingOf(s)' # {}
  <2>1. UNCHANGED <<stage, deaths>>
    BY <1>4 DEF Telegram, stageVars
  <2>2. told'[s] = IF s = req[h].new THEN told[s] + 1 ELSE told[s]
    BY <1>4, <1>a, Told
  <2>3. TellingOf(s)' = TellingOf(s) \ {h}
    BY <1>4, FreedSets
  <2>4. CASE s = req[h].new
    BY <1>a, <2>2, <2>4
  <2>5. CASE s # req[h].new
    <3>1. h \notin TellingOf(s)
      BY <2>5 DEF TellingOf
    <3>2. QED
      BY <1>b, <2>1, <2>2, <2>3, <2>5, <3>1
  <2>6. QED
    BY <2>4, <2>5
<1>5. ASSUME NEW h \in Handlers, HandlerDies(h)
      PROVE  FALSE
  <2>1. deaths' = deaths + 1
    BY <1>5 DEF HandlerDies
  <2>2. QED
    BY <1>a, <2>1
<1>6. CASE UNCHANGED <<stage, told, deaths>> /\ TellingOf(s)' = TellingOf(s)
  BY <1>b, <1>6
<1>7. QED
  BY <1>1, <1>2, <1>3, <1>4, <1>5, <1>6, QuietSteps, QuietSets

\* Every step keeps the count of the rewards of a type told and being told.
LEMMA RewardNext ==
  ASSUME Typed, [Next]_vars, NEW n \in RewardTypes, RewardHeard(n)
  PROVE  RewardHeard(n)'
<1> DEFINE T == TellingOf(n)
           Goal == told'[n] + Cardinality(T') = IF n \in Noticed THEN rewards'[n] ELSE 0
<1> SUFFICES ASSUME deaths' = 0 PROVE Goal
  BY DEF RewardHeard, TellingOf, Telling
<1>a. /\ n \notin Stages /\ deaths \in Nat /\ T \in SUBSET Handlers
      /\ told[n] \in Nat /\ rewards[n] \in Nat
  BY TellingTyped DEF Typed, TablesTyped
<1>b. deaths = 0 => told[n] + Cardinality(T) = IF n \in Noticed THEN rewards[n] ELSE 0
  BY DEF RewardHeard
<1>c. Cardinality(T) \in Nat
  BY <1>a, HandlersCounted
<1>1. ASSUME NEW h \in Handlers, NEW i \in DOMAIN moves, LoadApplication(h, i)
      PROVE  Goal
  <2>1. UNCHANGED <<rewards, told, deaths>>
    BY <1>1 DEF LoadApplication
  <2>2. T' = T
    BY <1>1, LoadedSets
  <2> HIDE DEF T
  <2>3. QED
    BY <1>b, <2>1, <2>2
<1>2. ASSUME NEW h \in Handlers, NEW a \in Agents, NEW t \in RewardTypes,
             LoadAgent(h, a, t)
      PROVE  Goal
  <2>1. /\ rewards'[n] = IF n = t THEN rewards[n] + 1 ELSE rewards[n]
        /\ UNCHANGED <<told, deaths>> /\ t \in Noticed
    BY <1>2 DEF LoadAgent, Typed, TablesTyped
  <2>2. T' = (IF n = t THEN T \cup {h} ELSE T) /\ h \notin T
    BY <1>2, RewardSets
  <2> HIDE DEF T
  <2>3. CASE n = t
    <3>1. Cardinality(T') = Cardinality(T) + 1
      BY <1>a, <2>2, <2>3, HandlersCounted
    <3>2. QED
      BY <1>a, <1>b, <1>c, <2>1, <2>3, <3>1
  <2>4. CASE n # t
    BY <1>b, <2>1, <2>2, <2>4
  <2>5. QED
    BY <2>3, <2>4
<1>3. ASSUME NEW h \in Handlers, StoreStage(h)
      PROVE  Goal
  <2>1. UNCHANGED <<rewards, told, deaths>> /\ req[h].new \in Stages
    BY <1>3 DEF StoreStage, Typed, SlotsTyped, Placed
  <2>2. T' = T
    BY <1>3, <1>a, <2>1, StoredSets
  <2> HIDE DEF T
  <2>3. QED
    BY <1>b, <2>1, <2>2
<1>4. ASSUME NEW h \in Handlers, Telegram(h)
      PROVE  Goal
  <2>1. UNCHANGED <<rewards, deaths>>
    BY <1>4 DEF Telegram
  <2>2. told'[n] = IF n = req[h].new THEN told[n] + 1 ELSE told[n]
    BY <1>4, Told
  <2>3. T' = T \ {h} /\ h \in TellingOf(req[h].new)
    BY <1>4, FreedSets, Told
  <2>4. h \in T <=> n = req[h].new
    BY <2>3 DEF TellingOf
  <2> HIDE DEF T
  <2>5. CASE h \in T
    <3>1. Cardinality(T') = Cardinality(T) - 1
      BY <1>a, <2>3, <2>5, HandlersCounted
    <3>2. QED
      BY <1>a, <1>b, <1>c, <2>1, <2>2, <2>4, <2>5, <3>1
  <2>6. CASE h \notin T
    <3>1. T' = T
      BY <2>3, <2>6
    <3>2. QED
      BY <1>b, <2>1, <2>2, <2>4, <2>6, <3>1
  <2>7. QED
    BY <2>5, <2>6
<1>5. ASSUME NEW h \in Handlers, HandlerDies(h)
      PROVE  FALSE
  <2>1. deaths' = deaths + 1
    BY <1>5 DEF HandlerDies
  <2>2. QED
    BY <1>a, <2>1
<1>6. CASE /\ UNCHANGED <<told, deaths>> /\ T' = T
           /\ n \in Noticed => rewards'[n] = rewards[n]
  <2> HIDE DEF T
  <2>1. QED
    BY <1>b, <1>6
<1>7. QED
  BY <1>1, <1>2, <1>3, <1>4, <1>5, <1>6, QuietSteps, QuietSets

\* In a fresh start nobody tells anything.
LEMMA InitSilent == Init => \A s : TellingOf(s) = {} /\ Waiting(s) = {} /\ Storing = {}
<1> SUFFICES ASSUME Init PROVE \A s : TellingOf(s) = {} /\ Waiting(s) = {} /\ Storing = {}
  OBVIOUS
<1>1. \A h \in Handlers : req[h].at = "idle"
  BY IdleSlot DEF Init
<1>2. QED
  BY <1>1 DEF TellingOf, Telling, Waiting, Storing

\* Unless a handler dies, no labelled stage is there in silence, every reward
\* reported of a type with a text is told or being told, and nothing is told of
\* the other types, for any number of handlers and whichever types have a text.
THEOREM SilentCorrect == Spec => []NothingSilent
<1>1. Init => NothingSilent
  <2>1. Cardinality({}) = 0
    BY FS_EmptySet
  <2>2. Init => /\ stage \notin Shown
               /\ \A t \in RewardTypes : rewards[t] = 0 /\ told[t] = 0
    BY NoticesAssumption DEF Init, Stages
  <2>3. QED
    BY <2>1, <2>2, InitSilent DEF NothingSilent
<1>2. Typed /\ NothingSilent /\ [Next]_vars => NothingSilent'
  <2> SUFFICES ASSUME Typed, NothingSilent, [Next]_vars PROVE NothingSilent'
    OBVIOUS
  <2>1. (\A t \in RewardTypes : RewardHeard(t)') /\ (\A s \in Shown : Heard(s)')
    BY HeardIsSilent, HeardNext, RewardNext
  <2>2. QED
    BY <2>1 DEF NothingSilent, Heard, RewardHeard, TellingOf, Telling
<1>3. QED
  BY <1>1, <1>2, TypeCorrect, PTL DEF Spec

-----------------------------------------------------------------------------
(* How often a stage is told *)

\* Notices of s that were sent or are on their way.
Notices(s) == told[s] + Cardinality(TellingOf(s))

\* Each entering of s allows one notice for every handler; while s is stored,
\* handlers that loaded an earlier stage use some of that up.
Bounded(s) ==
  /\ Notices(s) <= entered[s] * Cardinality(Handlers)
  /\ stage = s => Notices(s) + Cardinality(Waiting(s)) <= entered[s] * Cardinality(Handlers)

\* One entering more allows one round of handlers more.
LEMMA OneRoundMore ==
  ASSUME NEW x \in Nat, NEW y \in Nat
  PROVE  (x + 1) * y = x * y + y /\ x * y \in Nat
  OBVIOUS

\* Every step keeps the notices of a stage within its bound.
LEMMA BoundedNext ==
  ASSUME Typed, [Next]_vars, NEW s \in Shown, Bounded(s)
  PROVE  Bounded(s)'
<1> DEFINE T == TellingOf(s)
           W == Waiting(s)
           H == Cardinality(Handlers)
           Goal == /\ told'[s] + Cardinality(T') <= entered'[s] * H
                   /\ stage' = s =>
                        told'[s] + Cardinality(T') + Cardinality(W') <= entered'[s] * H
<1> SUFFICES Goal
  BY DEF Bounded, Notices, TellingOf, Telling, Waiting
<1>a. /\ s \in Stages /\ s # NoStage /\ told[s] \in Nat /\ entered[s] \in Nat
      /\ T \in SUBSET Handlers /\ W \in SUBSET Handlers
  BY TellingTyped DEF Typed, TablesTyped
<1>b. Cardinality(T) \in Nat /\ Cardinality(W) \in Nat /\ H \in Nat
      /\ Cardinality(W) <= H
  BY <1>a, HandlersCounted
<1>c. /\ told[s] + Cardinality(T) <= entered[s] * H
      /\ stage = s => told[s] + Cardinality(T) + Cardinality(W) <= entered[s] * H
  BY DEF Bounded, Notices
<1>1. ASSUME NEW h \in Handlers, NEW i \in DOMAIN moves, LoadApplication(h, i)
      PROVE  Goal
  <2>1. UNCHANGED <<stage, told, entered>>
    BY <1>1 DEF LoadApplication
  <2>2. T' = T /\ (s = stage => W' = W)
    BY <1>1, LoadedSets
  <2> HIDE DEF T, W, H
  <2>3. QED
    BY <1>c, <2>1, <2>2
<1>2. ASSUME NEW h \in Handlers, NEW a \in Agents, NEW t \in RewardTypes,
             LoadAgent(h, a, t)
      PROVE  Goal
  <2>1. UNCHANGED <<stage, told, entered>>
    BY <1>2 DEF LoadAgent, stageVars
  <2>2. T' = T /\ W' = W
    BY <1>2, <1>a, TellingTyped, RewardSets
  <2> HIDE DEF T, W, H
  <2>3. QED
    BY <1>c, <2>1, <2>2
<1>3. ASSUME NEW h \in Handlers, StoreStage(h)
      PROVE  Goal
  <2>1. /\ told' = told
        /\ T' = IF News(req[h].new, req[h].prev) /\ s = req[h].new THEN T \cup {h} ELSE T
        /\ h \notin T
        /\ W' = W \ {h}
        /\ h \in W <=> s = req[h].new /\ req[h].prev # s
    BY <1>3, StoredSets DEF StoreStage
  <2>2. s \notin Hidden
    BY NoticesAssumption
  <2>3. CASE req[h].new = s /\ req[h].prev # s
    <3>1. News(req[h].new, req[h].prev) /\ Stored(req[h].new)
      BY <2>2, <2>3 DEF News, Stored
    <3>2. /\ stage' = s
          /\ entered'[s] = IF stage # s THEN entered[s] + 1 ELSE entered[s]
      BY <1>3, <1>a, <2>3, <3>1 DEF StoreStage, Typed, TablesTyped
    <3>3. T' = T \cup {h} /\ h \in W
      BY <2>1, <2>3, <3>1
    <3> HIDE DEF T, W
    <3>4. Cardinality(T') = Cardinality(T) + 1 /\ Cardinality(W') = Cardinality(W) - 1
          /\ Cardinality(W) > 0
      BY <1>a, <2>1, <3>3, HandlersCounted
    <3>5. (entered[s] + 1) * H = entered[s] * H + H /\ entered[s] * H \in Nat
      BY <1>a, <1>b, OneRoundMore
    <3>6. PICK p \in Nat : p = entered[s] * H
      BY <3>5
    <3>7. entered'[s] * H = IF stage # s THEN p + H ELSE p
      BY <3>2, <3>5, <3>6
    <3> HIDE DEF H
    <3>8. QED
      BY <1>a, <1>b, <1>c, <2>1, <3>2, <3>4, <3>6, <3>7
  <2>4. CASE ~(req[h].new = s /\ req[h].prev # s)
    <3>1. T' = T /\ W' = W
      <4>1. ~(News(req[h].new, req[h].prev) /\ s = req[h].new)
        BY <2>4 DEF News
      <4>2. h \notin W
        BY <2>1, <2>4
      <4> HIDE DEF T, W
      <4>3. QED
        BY <2>1, <4>1, <4>2
    <3>2. (stage' = s => stage = s) /\ entered'[s] = entered[s]
      BY <1>3, <1>a, <2>4 DEF StoreStage, Typed, TablesTyped
    <3> HIDE DEF T, W, H
    <3>3. QED
      BY <1>c, <2>1, <3>1, <3>2
  <2>5. QED
    BY <2>3, <2>4
<1>4. ASSUME NEW h \in Handlers, Telegram(h)
      PROVE  Goal
  <2>1. UNCHANGED <<stage, entered>>
    BY <1>4 DEF Telegram, stageVars
  <2>2. told'[s] = IF s = req[h].new THEN told[s] + 1 ELSE told[s]
    BY <1>4, <1>a, Told
  <2>3. /\ T' = T \ {h} /\ W' = W \ {h}
        /\ h \in TellingOf(req[h].new)
    BY <1>4, FreedSets, Told
  <2>4. h \notin W /\ (h \in T <=> s = req[h].new)
    BY <1>4, <2>3 DEF Telegram, Waiting, TellingOf
  <2> HIDE DEF T, W, H
  <2>5. W' = W
    BY <2>3, <2>4
  <2>6. CASE h \in T
    <3>1. Cardinality(T') = Cardinality(T) - 1
      BY <1>a, <2>3, <2>6, HandlersCounted
    <3>2. told'[s] + Cardinality(T') = told[s] + Cardinality(T)
      BY <1>a, <1>b, <2>2, <2>4, <2>6, <3>1
    <3>3. QED
      BY <1>c, <2>1, <2>5, <3>2
  <2>7. CASE h \notin T
    <3>1. T' = T /\ told'[s] = told[s]
      BY <2>2, <2>3, <2>4, <2>7
    <3>2. QED
      BY <1>c, <2>1, <2>5, <3>1
  <2>8. QED
    BY <2>6, <2>7
<1>5. ASSUME NEW h \in Handlers, HandlerDies(h)
      PROVE  Goal
  <2>1. UNCHANGED <<stage, told, entered>>
    BY <1>5 DEF HandlerDies
  <2>2. T' = T \ {h} /\ W' = W \ {h}
    BY <1>5, FreedSets
  <2> HIDE DEF T, W, H
  <2>3. Cardinality(T') <= Cardinality(T) /\ Cardinality(T') \in Nat
    <3>1. CASE h \in T
      BY <1>a, <1>b, <2>2, <3>1, HandlersCounted
    <3>2. CASE h \notin T
      BY <1>b, <2>2, <3>2
    <3>3. QED
      BY <3>1, <3>2
  <2>4. Cardinality(W') <= Cardinality(W) /\ Cardinality(W') \in Nat
    <3>1. CASE h \in W
      BY <1>a, <1>b, <2>2, <3>1, HandlersCounted
    <3>2. CASE h \notin W
      BY <1>b, <2>2, <3>2
    <3>3. QED
      BY <3>1, <3>2
  <2>5. PICK p : p = entered[s] * H
    OBVIOUS
  <2>6. p \in Nat /\ entered'[s] * H = p
    BY <1>a, <1>b, <2>1, <2>5, OneRoundMore
  <2>7. QED
    BY <1>a, <1>b, <1>c, <2>1, <2>3, <2>4, <2>5, <2>6
<1>6. CASE UNCHANGED <<stage, told, entered>> /\ T' = T /\ W' = W
  <2> HIDE DEF T, W, H
  <2>1. QED
    BY <1>6, <1>c
<1>7. QED
  BY <1>1, <1>2, <1>3, <1>4, <1>5, <1>6, QuietSteps, QuietSets

\* However reports are repeated and overlap, a stage is told at most once per
\* handler each time it is entered.
THEOREM RepeatsCorrect == Spec => []RepeatsBounded
<1> DEFINE All == \A s \in Shown : Bounded(s)
<1>1. Init => All
  <2> SUFFICES ASSUME Init, NEW s \in Shown PROVE Bounded(s)
    OBVIOUS
  <2>1. told[s] = 0 /\ entered[s] = 0 /\ stage # s
    BY NoticesAssumption DEF Init, Stages
  <2>2. Cardinality(TellingOf(s)) = 0
    BY InitSilent, FS_EmptySet
  <2>3. 0 * Cardinality(Handlers) = 0
    <3>1. Cardinality(Handlers) \in Nat
      BY HandlersCounted
    <3>2. QED
      BY <3>1
  <2>4. QED
    BY <2>1, <2>2, <2>3 DEF Bounded, Notices
<1>2. Typed /\ All /\ [Next]_vars => All'
  <2> SUFFICES ASSUME Typed, All, [Next]_vars, NEW s \in Shown PROVE Bounded(s)'
    BY DEF Bounded, Notices, TellingOf, Telling, Waiting
  <2>1. QED
    BY BoundedNext
<1>3. All => RepeatsBounded
  BY DEF Bounded, Notices, RepeatsBounded
<1>4. QED
  BY <1>1, <1>2, <1>3, TypeCorrect, PTL DEF Spec

-----------------------------------------------------------------------------
(* Which stage is stored *)

\* The moves up to the n-th that are stored.
StoredMoves(n) == {i \in 1..n : moves[i] \notin Hidden}

\* The moves that are stored have a last one.
LastMoves ==
  \A n \in 0..Len(moves) :
    StoredMoves(n) # {} => \E i \in StoredMoves(n) : \A j \in StoredMoves(n) : j <= i

\* The last stage of some moves.
LastIn(S) == IF S = {} THEN NoStage ELSE moves[CHOOSE i \in S : \A j \in S : j <= i]

\* The last stage stored, as the last of the moves stored.
LEMMA LastStoredMove ==
  \A n : LastStored(n) = LastIn(StoredMoves(n))
  BY DEF LastStored, StoredMoves, LastIn

\* Before any move nothing is stored.
LEMMA LastOfNone == LastStored(0) = NoStage
<1>1. StoredMoves(0) = {}
  BY DEF StoredMoves
<1>2. QED
  BY <1>1, LastStoredMove DEF LastIn

\* One move more replaces the last stage, or is hidden.
LEMMA LastOfNext ==
  ASSUME Typed, NEW n \in Nat, n + 1 <= Len(moves)
  PROVE  LastStored(n + 1) = IF moves[n + 1] \in Hidden THEN LastStored(n) ELSE moves[n + 1]
<1>1. CASE moves[n + 1] \in Hidden
  <2>1. StoredMoves(n + 1) = StoredMoves(n)
    BY <1>1 DEF StoredMoves
  <2>2. QED
    BY <1>1, <2>1, LastStoredMove
<1>2. CASE moves[n + 1] \notin Hidden
  <2>1. n + 1 \in StoredMoves(n + 1) /\ \A j \in StoredMoves(n + 1) : j \in Nat /\ j <= n + 1
    BY <1>2 DEF StoredMoves
  <2>2. PICK k : k = CHOOSE i \in StoredMoves(n + 1) : \A j \in StoredMoves(n + 1) : j <= i
    OBVIOUS
  <2>3. k \in StoredMoves(n + 1) /\ \A j \in StoredMoves(n + 1) : j <= k
    BY <2>1, <2>2
  <2>4. k = n + 1
    BY <2>1, <2>3
  <2>5. QED
    BY <1>2, <2>1, <2>2, <2>4, LastStoredMove DEF LastIn
<1>3. QED
  BY <1>1, <1>2

\* A move of the deal changes no stage before it.
LEMMA LastKept ==
  ASSUME Typed, LastMoves, NEW s \in Stages, CrmMove(s), NEW n \in Nat, n <= Len(moves)
  PROVE  LastStored(n)' = LastStored(n)
<1>1. moves \in Seq(Stages) /\ moves' = Append(moves, s)
  BY DEF CrmMove, Typed, TablesTyped
<1>2. \A i \in 1..n : moves'[i] = moves[i]
  BY <1>1
<1>3. StoredMoves(n)' = StoredMoves(n)
  BY <1>2 DEF StoredMoves
<1>4. CASE StoredMoves(n) = {}
  <2>1. LastStored(n)' = NoStage
    BY <1>3, <1>4 DEF LastStored, StoredMoves
  <2>2. QED
    BY <1>4, <2>1, LastStoredMove DEF LastIn
<1>5. CASE StoredMoves(n) # {}
  <2>1. PICK k : k = CHOOSE i \in StoredMoves(n) : \A j \in StoredMoves(n) : j <= i
    OBVIOUS
  <2>2. n \in 0..Len(moves)
    BY <1>1
  <2>3. k \in StoredMoves(n)
    BY <1>5, <2>1, <2>2 DEF LastMoves
  <2>4. k \in 1..n
    BY <2>3 DEF StoredMoves
  <2>5. LastStored(n) = moves[k]
    BY <1>5, <2>1, LastStoredMove DEF LastIn
  <2>6. LastStored(n)' = moves'[k]
    <3>1. LastStored(n)' = IF StoredMoves(n)' = {} THEN NoStage
             ELSE moves'[CHOOSE i \in StoredMoves(n)' : \A j \in StoredMoves(n)' : j <= i]
      BY DEF LastStored, StoredMoves
    <3>2. QED
      BY <1>3, <1>5, <2>1, <3>1
  <2>7. QED
    BY <1>2, <2>4, <2>5, <2>6
<1>6. QED
  BY <1>4, <1>5

\* Every step keeps a last stored move.
LEMMA LastMovesNext == Typed /\ LastMoves /\ [Next]_vars => LastMoves'
<1> SUFFICES ASSUME Typed, LastMoves, [Next]_vars PROVE LastMoves'
  OBVIOUS
<1>1. ASSUME NEW s \in Stages, CrmMove(s)
      PROVE  LastMoves'
  <2>1. /\ moves \in Seq(Stages) /\ moves' = Append(moves, s)
        /\ Len(moves') = Len(moves) + 1 /\ Len(moves) \in Nat
    BY <1>1 DEF CrmMove, Typed, TablesTyped
  <2>2. \A i \in 1..Len(moves) : moves'[i] = moves[i]
    BY <2>1
  <2> SUFFICES ASSUME NEW n \in 0..Len(moves'), StoredMoves(n)' # {}
               PROVE  \E i \in StoredMoves(n)' : \A j \in StoredMoves(n)' : j <= i
    BY DEF LastMoves, StoredMoves
  <2>3. CASE n <= Len(moves)
    <3>1. n \in 0..Len(moves) /\ StoredMoves(n)' = StoredMoves(n)
      BY <2>1, <2>2, <2>3 DEF StoredMoves
    <3>2. QED
      BY <3>1 DEF LastMoves
  <2>4. CASE n = Len(moves) + 1
    <3>1. CASE moves'[n] \in Hidden
      <4>1. StoredMoves(n)' = StoredMoves(Len(moves))
        BY <2>1, <2>2, <2>4, <3>1 DEF StoredMoves
      <4>2. Len(moves) \in 0..Len(moves)
        BY <2>1
      <4>3. QED
        BY <4>1, <4>2 DEF LastMoves
    <3>2. CASE moves'[n] \notin Hidden
      <4>1. n \in StoredMoves(n)' /\ \A j \in StoredMoves(n)' : j <= n
        BY <2>1, <2>4, <3>2 DEF StoredMoves
      <4>2. QED
        BY <4>1
    <3>3. QED
      BY <3>1, <3>2
  <2>5. n <= Len(moves) \/ n = Len(moves) + 1
    BY <2>1
  <2>6. QED
    BY <2>3, <2>4, <2>5
<1>2. CASE UNCHANGED moves
  BY <1>2 DEF LastMoves, StoredMoves
<1>3. UNCHANGED moves \/ \E s \in Stages : CrmMove(s)
  BY DEF Next, HandlerStep, vars, LoadApplication, StoreStage, LoadAgent, Email,
         SelectSubscriptions, Push, Prune, Telegram, FindSubscription, StoreSubscription,
         Unsubscribe, GoesAway, HandlerDies, IgnoreReward, stageVars
<1>4. QED
  BY <1>1, <1>2, <1>3

\* While reports come in order, the stage is that of the last report, or its
\* handler is alone about to store it over the one before.
Following ==
  orderly =>
    /\ Storing = {} => stage = LastStored(upTo)
    /\ \A h \in Storing :
         /\ Storing = {h}
         /\ upTo > 0 /\ req[h].new = moves[upTo]
         /\ req[h].prev = stage /\ stage = LastStored(upTo - 1)

\* Every step keeps the stage with the reports.
LEMMA FollowingNext == Typed /\ LastMoves /\ Following /\ [Next]_vars => Following'
<1> SUFFICES ASSUME Typed, LastMoves, Following, [Next]_vars, orderly'
             PROVE  /\ Storing' = {} => stage' = LastStored(upTo)'
                    /\ \A h \in Storing' :
                         /\ Storing' = {h}
                         /\ upTo' > 0 /\ req'[h].new = moves'[upTo']
                         /\ req'[h].prev = stage' /\ stage' = LastStored(upTo - 1)'
  BY DEF Following, Storing, LastStored
<1> DEFINE Goal == /\ Storing' = {} => stage' = LastStored(upTo)'
                   /\ \A h \in Storing' :
                        /\ Storing' = {h}
                        /\ upTo' > 0 /\ req'[h].new = moves'[upTo']
                        /\ req'[h].prev = stage' /\ stage' = LastStored(upTo - 1)'
<1>a. upTo \in Nat /\ upTo <= Len(moves) /\ moves \in Seq(Stages)
  BY DEF Typed, TablesTyped
<1>b. ASSUME orderly
      PROVE  /\ Storing = {} => stage = LastStored(upTo)
             /\ \A h \in Storing :
                  /\ Storing = {h}
                  /\ upTo > 0 /\ req[h].new = moves[upTo]
                  /\ req[h].prev = stage /\ stage = LastStored(upTo - 1)
  BY <1>b DEF Following
<1>1. ASSUME NEW h \in Handlers, NEW i \in DOMAIN moves, LoadApplication(h, i)
      PROVE  Goal
  <2>1. /\ orderly /\ i = upTo + 1 /\ Storing = {} /\ upTo' = i
        /\ UNCHANGED <<moves, stage>>
    BY <1>1 DEF LoadApplication
  <2>2. PICK r : Now(h, r) /\ r.at = "store" /\ r.new = moves[i] /\ r.prev = stage
    BY <1>1, LoadApplicationSlot
  <2>3. req'[h] = r
    BY <2>2, NowSlots
  <2>4. Storing' = {h}
    <3>1. Storing' = Storing \cup {h}
      BY <1>1, LoadedSets
    <3>2. QED
      BY <2>1, <3>1
  <2>5. LastStored(upTo - 1)' = LastStored(upTo)
    <3>1. upTo' - 1 = upTo
      BY <1>a, <2>1
    <3>2. StoredMoves(upTo - 1)' = StoredMoves(upTo)
      BY <2>1, <3>1 DEF StoredMoves
    <3>3. LastStored(upTo - 1)' = LastIn(StoredMoves(upTo - 1))'
      BY DEF LastStored, StoredMoves, LastIn
    <3>4. LastIn(StoredMoves(upTo - 1))' = LastIn(StoredMoves(upTo))
      <4>1. PICK S : S = StoredMoves(upTo)
        OBVIOUS
      <4>2. LastIn(S)' = LastIn(S)
        BY <2>1 DEF LastIn
      <4>3. LastIn(StoredMoves(upTo - 1))' = LastIn(S)'
        BY <3>2, <4>1
      <4>4. QED
        BY <4>1, <4>2, <4>3
    <3>5. QED
      BY <3>3, <3>4, LastStoredMove
  <2>6. QED
    BY <1>a, <1>b, <2>1, <2>2, <2>3, <2>4, <2>5
<1>2. ASSUME NEW h \in Handlers, NEW a \in Agents, NEW t \in RewardTypes,
             LoadAgent(h, a, t)
      PROVE  Goal
  <2>1. UNCHANGED <<moves, stage, upTo, orderly>>
    BY <1>2 DEF LoadAgent, stageVars
  <2>2. PICK r : Now(h, r) /\ r.at = "email"
    BY <1>2, LoadAgentSlot
  <2>3. Storing' = Storing
    BY <1>2, RewardSets
  <2>4. \A g \in Storing : req'[g] = req[g]
    <3>1. h \notin Storing
      BY <1>2, IdleSlot DEF LoadAgent, Storing
    <3>2. QED
      BY <2>2, <3>1, NowSlots DEF Storing
  <2>5. LastStored(upTo)' = LastStored(upTo) /\ LastStored(upTo - 1)' = LastStored(upTo - 1)
    BY <2>1 DEF LastStored
  <2>6. QED
    BY <1>b, <2>1, <2>3, <2>4, <2>5
<1>3. ASSUME NEW h \in Handlers, StoreStage(h)
      PROVE  Goal
  <2>1. orderly /\ h \in Storing /\ UNCHANGED <<moves, upTo>>
    BY <1>3 DEF StoreStage, Storing
  <2>2. /\ Storing = {h} /\ upTo > 0 /\ req[h].new = moves[upTo] /\ req[h].prev = stage
        /\ stage = LastStored(upTo - 1)
    BY <1>b, <2>1
  <2>3. Storing' = {}
    <3>1. Storing' = Storing \ {h}
      BY <1>3, StoredSets
    <3>2. QED
      BY <2>2, <3>1
  <2>4. PICK n \in Nat : n = upTo - 1 /\ n + 1 = upTo
    BY <1>a, <2>2
  <2>5. LastStored(upTo) = IF moves[upTo] \in Hidden THEN stage ELSE moves[upTo]
    BY <1>a, <2>2, <2>4, LastOfNext
  <2>6. stage' = LastStored(upTo)
    BY <1>3, <2>2, <2>5 DEF StoreStage, Stored
  <2>7. LastStored(upTo)' = LastStored(upTo)
    BY <2>1 DEF LastStored
  <2>8. QED
    BY <2>3, <2>6, <2>7
<1>4. ASSUME NEW h \in Handlers, Telegram(h) \/ HandlerDies(h)
      PROVE  Goal
  <2>1. orderly /\ req[h].at # "store" /\ UNCHANGED <<moves, stage, upTo>>
    BY <1>4 DEF Telegram, HandlerDies, stageVars
  <2>2. h \notin Storing
    BY <2>1 DEF Storing
  <2>3. Storing' = Storing
    <3>1. Storing' = Storing \ {h}
      BY <1>4, FreedSets
    <3>2. QED
      BY <2>2, <3>1
  <2>4. \A g \in Storing : req'[g] = req[g]
    <3>1. Now(h, Idle)
      BY <1>4, FreedSlot
    <3>2. QED
      BY <2>2, <3>1, NowSlots DEF Storing
  <2>5. LastStored(upTo)' = LastStored(upTo) /\ LastStored(upTo - 1)' = LastStored(upTo - 1)
    BY <2>1 DEF LastStored
  <2>6. QED
    BY <1>b, <2>1, <2>3, <2>4, <2>5
<1>5. CASE /\ UNCHANGED <<stage, upTo, orderly>>
           /\ UNCHANGED moves \/ \E s \in Stages : CrmMove(s)
           /\ Storing' = Storing /\ \A g \in Storing : req'[g] = req[g]
  <2>1. PICK n \in Nat : n = upTo /\ n <= Len(moves)
    BY <1>a
  <2>2. LastStored(n)' = LastStored(n) /\ (n > 0 => LastStored(n - 1)' = LastStored(n - 1))
    <3>1. CASE UNCHANGED moves
      BY <3>1 DEF LastStored
    <3>2. ASSUME NEW s \in Stages, CrmMove(s)
          PROVE  LastStored(n)' = LastStored(n) /\ (n > 0 => LastStored(n - 1)' = LastStored(n - 1))
      <4>1. LastStored(n)' = LastStored(n)
        BY <2>1, <3>2, LastKept
      <4>2. ASSUME n > 0 PROVE LastStored(n - 1)' = LastStored(n - 1)
        <5>1. PICK m \in Nat : m = n - 1 /\ m <= Len(moves)
          BY <1>a, <2>1, <4>2
        <5>2. LastStored(m)' = LastStored(m)
          BY <3>2, <5>1, LastKept
        <5>3. QED
          BY <5>1, <5>2
      <4>3. QED
        BY <4>1, <4>2
    <3>3. QED
      BY <1>5, <3>1, <3>2
  <2>3. LastStored(upTo)' = LastStored(n)' /\ LastStored(upTo - 1)' = LastStored(n - 1)'
    BY <1>5, <2>1
  <2>4. upTo > 0 => moves'[upTo] = moves[upTo]
    <3>1. CASE UNCHANGED moves
      BY <3>1
    <3>2. ASSUME NEW s \in Stages, CrmMove(s) PROVE upTo > 0 => moves'[upTo] = moves[upTo]
      BY <1>a, <3>2 DEF CrmMove
    <3>3. QED
      BY <1>5, <3>1, <3>2
  <2>5. QED
    BY <1>5, <1>b, <2>1, <2>2, <2>3, <2>4
<1>6. QED
  <2>1. (\A g \in Handlers :
           /\ req'[g].at = "store" <=> req[g].at = "store"
           /\ req[g].at = "store" => req'[g] = req[g])
        => Storing' = Storing /\ \A g \in Storing : req'[g] = req[g]
    BY DEF Storing
  <2>2. QED
    BY <1>1, <1>2, <1>3, <1>4, <1>5, <2>1, QuietSteps

\* With reports in order, the stage stored is the last that concerns the partner,
\* whatever the length of the deal's history.
THEOREM StageCorrect == Spec => []StageFollowsCrm
<1>1. Init => LastMoves /\ Following
  <2> SUFFICES ASSUME Init PROVE LastMoves /\ Following
    OBVIOUS
  <2>1. moves = <<>> /\ upTo = 0 /\ stage = NoStage
    BY DEF Init
  <2>2. LastMoves
    BY <2>1 DEF LastMoves, StoredMoves
  <2>3. Storing = {}
    BY InitSilent
  <2>4. QED
    BY <2>1, <2>2, <2>3, LastOfNone DEF Following
<1>2. Following => StageFollowsCrm
  BY DEF Following, StageFollowsCrm
<1>3. QED
  BY <1>1, <1>2, LastMovesNext, FollowingNext, TypeCorrect, PTL DEF Spec

-----------------------------------------------------------------------------
(* Who is subscribed *)

\* Subscriptions stored, or in the hands of a handler.
RowsAround == subs \cup UNION {req[h].rows : h \in Handlers}

\* A row keeps its browser; ids are not given twice; what is about to be pruned
\* is of browsers that are gone.
IdsSound ==
  /\ \A s \in RowsAround : s.id <= subscribes
  /\ \A s, t \in RowsAround : s.id = t.id => s.endpoint = t.endpoint
  /\ \A h \in Handlers : req[h].at = "subscribe" =>
       /\ req[h].id <= subscribes
       /\ \A s \in RowsAround : s.id # req[h].id
       /\ \A s \in req[h].rows : s.endpoint = req[h].endpoint
       /\ \A g \in Handlers : (req[g].at = "subscribe" /\ req[g].id = req[h].id) => g = h
  /\ \A h \in Handlers : req[h].at = "prune" => \A s \in req[h].rows : s.endpoint \in gone

\* Steps that bring no new id.
LEMMA IdsKept ==
  ASSUME Typed, IdsSound,
         subscribes' = subscribes \/ subscribes' = subscribes + 1,
         \A s \in RowsAround' : \E t \in RowsAround : t.id = s.id /\ t.endpoint = s.endpoint,
         \A g \in Handlers : req'[g].at = "subscribe" => req'[g] = req[g],
         \A g \in Handlers : req'[g].at = "prune" =>
           \A s \in req'[g].rows : s.endpoint \in gone'
  PROVE  IdsSound'
<1>a. RowsAround \subseteq Sub /\ subscribes \in Nat
      /\ \A h \in Handlers : req[h].id \in Nat
  BY DEF RowsAround, Typed, TablesTyped, SlotsTyped, Slot
<1>b. \A n \in Nat : n <= subscribes => n <= subscribes'
  BY <1>a
<1>1. \A s \in RowsAround' : s.id <= subscribes'
  <2> SUFFICES ASSUME NEW s \in RowsAround' PROVE s.id <= subscribes'
    OBVIOUS
  <2>1. PICK t \in RowsAround : t.id = s.id
    OBVIOUS
  <2>2. t.id \in Nat /\ t.id <= subscribes
    BY <1>a DEF IdsSound, Sub
  <2>3. QED
    BY <1>b, <2>1, <2>2
<1>2. \A s, t \in RowsAround' : s.id = t.id => s.endpoint = t.endpoint
  BY DEF IdsSound
<1>3. ASSUME NEW h \in Handlers, req'[h].at = "subscribe"
      PROVE  /\ req'[h].id <= subscribes'
             /\ \A s \in RowsAround' : s.id # req'[h].id
             /\ \A s \in req'[h].rows : s.endpoint = req'[h].endpoint
             /\ \A g \in Handlers : (req'[g].at = "subscribe" /\ req'[g].id = req'[h].id) => g = h
  <2>1. req'[h] = req[h]
    BY <1>3
  <2>2. /\ req[h].id <= subscribes
        /\ \A s \in RowsAround : s.id # req[h].id
        /\ \A s \in req[h].rows : s.endpoint = req[h].endpoint
    BY <1>3, <2>1 DEF IdsSound
  <2>3. \A g \in Handlers : (req'[g].at = "subscribe" /\ req'[g].id = req'[h].id) => g = h
    BY <1>3, <2>1 DEF IdsSound
  <2>4. req'[h].id <= subscribes'
    <3>1. req[h].id \in Nat
      BY <1>a
    <3>2. QED
      BY <1>b, <2>1, <2>2, <3>1
  <2>5. ASSUME NEW s \in RowsAround' PROVE s.id # req'[h].id
    <3>1. PICK t \in RowsAround : t.id = s.id
      OBVIOUS
    <3>2. t.id # req[h].id
      BY <2>2
    <3>3. QED
      BY <2>1, <3>1, <3>2
  <2>6. \A s \in req'[h].rows : s.endpoint = req'[h].endpoint
    BY <2>1, <2>2
  <2>7. QED
    BY <2>3, <2>4, <2>5, <2>6
<1>4. \A h \in Handlers : req'[h].at = "subscribe" =>
        /\ req'[h].id <= subscribes'
        /\ \A s \in RowsAround' : s.id # req'[h].id
        /\ \A s \in req'[h].rows : s.endpoint = req'[h].endpoint
        /\ \A g \in Handlers : (req'[g].at = "subscribe" /\ req'[g].id = req'[h].id) => g = h
  BY <1>3
<1>5. QED
  BY <1>1, <1>2, <1>4 DEF IdsSound

\* The rows around after a handler's step.
LEMMA RowsNow ==
  ASSUME Typed, NEW h \in Handlers, NEW r, Now(h, r)
  PROVE  /\ \A s \in RowsAround' : s \in subs' \/ s \in RowsAround \/ s \in r.rows
         /\ subs \subseteq RowsAround /\ req[h].rows \subseteq RowsAround
<1>1. req'[h] = r /\ \A g \in Handlers : g # h => req'[g] = req[g]
  BY NowSlots
<1>2. QED
  BY <1>1 DEF RowsAround

\* What the commit of subscribe does to the table.
LEMMA Committed ==
  ASSUME Typed, IdsSound, NEW h \in Handlers, StoreSubscription(h)
  PROVE  \E a \in Agents, e \in Endpoints, n \in Nat :
           /\ req[h].at = "subscribe"
           /\ a = req[h].agent /\ e = req[h].endpoint /\ n = req[h].id
           /\ wants' = [wants EXCEPT ![e] = a]
           /\ raced' = IF AtEndpoint(e) = {h} THEN raced ELSE raced \cup {e}
           /\ UNCHANGED <<subscribes, gone>>
           /\ \/ /\ req[h].rows # {}
                 /\ subs' = (subs \ {s \in subs : \E f \in req[h].rows : f.id = s.id /\ f.agent # a})
                            \cup {Moved(s, a) : s \in
                                   {t \in subs : \E f \in req[h].rows : f.id = t.id /\ f.agent # a}}
              \/ req[h].rows = {} /\ subs' = subs \cup {[id |-> n, agent |-> a, endpoint |-> e]}
              \/ req[h].rows = {} /\ subs' = subs /\ \E s \in subs : s.endpoint = e
<1>1. req[h] \in Slot /\ Placed(req[h]) /\ req[h].at = "subscribe"
  BY DEF StoreSubscription, Typed, SlotsTyped
<1>2. PICK a \in Agents, e \in Endpoints, n \in Nat :
        a = req[h].agent /\ e = req[h].endpoint /\ n = req[h].id
  BY <1>1 DEF Slot, Placed
<1>3. QED
  BY <1>1, <1>2 DEF StoreSubscription

\* Every step keeps the rows with their browsers.
LEMMA IdsNext == Typed /\ IdsSound /\ [Next]_vars => IdsSound'
<1> SUFFICES ASSUME Typed, IdsSound, [Next]_vars PROVE IdsSound'
  OBVIOUS
<1>a. /\ \A h \in Handlers : req[h].rows \subseteq RowsAround
      /\ subs \subseteq RowsAround /\ RowsAround \subseteq Sub /\ subscribes \in Nat
  BY DEF RowsAround, Typed, TablesTyped, SlotsTyped, Slot
<1>b. /\ \A s \in RowsAround : s.id <= subscribes
      /\ \A s, t \in RowsAround : s.id = t.id => s.endpoint = t.endpoint
  BY DEF IdsSound
<1>1. ASSUME NEW h \in Handlers, NEW r, Now(h, r), r.at \notin {"subscribe", "prune"},
             r.rows \subseteq RowsAround, subs' \subseteq subs, UNCHANGED <<subscribes, gone>>
      PROVE  IdsSound'
  <2>1. req'[h] = r /\ \A g \in Handlers : g # h => req'[g] = req[g]
    BY <1>1, NowSlots
  <2>2. \A s \in RowsAround' : s \in RowsAround
    BY <1>1, <1>a, RowsNow
  <2>3. \A g \in Handlers : req'[g].at = "subscribe" => req'[g] = req[g]
    BY <1>1, <2>1
  <2>4. \A g \in Handlers : req'[g].at = "prune" => \A s \in req'[g].rows : s.endpoint \in gone'
    BY <1>1, <2>1 DEF IdsSound
  <2>5. QED
    BY <1>1, <2>2, <2>3, <2>4, IdsKept
<1>2. ASSUME NEW h \in Handlers,
             \/ \E i \in DOMAIN moves : LoadApplication(h, i)
             \/ \E a \in Agents, t \in RewardTypes : LoadAgent(h, a, t)
             \/ StoreStage(h) \/ Email(h) \/ SelectSubscriptions(h) \/ Telegram(h)
             \/ HandlerDies(h) \/ Prune(h)
      PROVE  IdsSound'
  <2>1. PICK r : Now(h, r) /\ r.at \notin {"subscribe", "prune"} /\ r.rows \subseteq RowsAround
    BY <1>2, <1>a, IdleSlot, LoadApplicationSlot, LoadAgentSlot, StoreStageSlot, EmailSlot,
       SelectSlot, FreedSlot, PruneSlot
  <2>2. subs' \subseteq subs /\ UNCHANGED <<subscribes, gone>>
    BY <1>2 DEF LoadApplication, LoadAgent, StoreStage, Email, SelectSubscriptions, Telegram,
                HandlerDies, Prune, subVars
  <2>3. QED
    BY <1>1, <2>1, <2>2
<1>3. ASSUME NEW h \in Handlers, Push(h)
      PROVE  IdsSound'
  <2>1. PICK r : /\ Now(h, r) /\ r.at \in {"telegram", "prune"} /\ r.rows \subseteq req[h].rows
                 /\ r.at = "prune" => \A s \in r.rows : s.endpoint \in gone
    BY <1>3, PushSlot
  <2>2. req'[h] = r /\ \A g \in Handlers : g # h => req'[g] = req[g]
    BY <2>1, NowSlots
  <2>3. UNCHANGED <<subs, subscribes, gone>>
    BY <1>3 DEF Push, subVars
  <2>4. \A s \in RowsAround' : s \in RowsAround
    BY <1>a, <2>1, <2>3, RowsNow
  <2>5. \A g \in Handlers : req'[g].at = "subscribe" => req'[g] = req[g]
    BY <2>1, <2>2
  <2>6. \A g \in Handlers : req'[g].at = "prune" => \A s \in req'[g].rows : s.endpoint \in gone'
    BY <2>1, <2>2, <2>3 DEF IdsSound
  <2>7. QED
    BY <2>3, <2>4, <2>5, <2>6, IdsKept
<1>4. ASSUME NEW h \in Handlers, NEW a \in Agents, NEW e \in Endpoints, FindSubscription(h, a, e)
      PROVE  IdsSound'
  <2>1. PICK r : /\ Now(h, r) /\ r.at = "subscribe" /\ r.endpoint = e /\ r.id = subscribes + 1
                 /\ \/ r.rows = {}
                    \/ \E s \in subs : s.endpoint = e /\ r.rows = {s}
    BY <1>4, FindSlot
  <2>2. req'[h] = r /\ \A g \in Handlers : g # h => req'[g] = req[g]
    BY <2>1, NowSlots
  <2>3. subscribes' = subscribes + 1 /\ UNCHANGED <<subs, gone>>
    BY <1>4 DEF FindSubscription
  <2>4. r.rows \subseteq subs /\ \A s \in r.rows : s.endpoint = r.endpoint
    BY <2>1
  <2>5. \A s \in RowsAround' : s \in RowsAround
    BY <1>a, <2>1, <2>3, <2>4, RowsNow
  <2>6. \A s \in RowsAround : s.id \in Nat /\ s.id <= subscribes
    BY <1>a, <1>b DEF Sub
  <2>7. \A s \in RowsAround' : s.id <= subscribes' /\ s.id # r.id
    BY <1>a, <2>1, <2>3, <2>5, <2>6
  <2>8. \A g \in Handlers : req[g].at = "subscribe" =>
          req[g].id \in Nat /\ req[g].id <= subscribes /\ req[g].id # r.id
              /\ req[g].id <= subscribes'
    <3>1. \A g \in Handlers : req[g].id \in Nat
      BY DEF Typed, SlotsTyped, Slot
    <3>2. \A g \in Handlers : req[g].at = "subscribe" => req[g].id <= subscribes
      BY DEF IdsSound
    <3>3. QED
      BY <1>a, <2>1, <2>3, <3>1, <3>2
  <2>9. ASSUME NEW k \in Handlers, req'[k].at = "subscribe"
        PROVE  /\ req'[k].id <= subscribes'
               /\ \A s \in RowsAround' : s.id # req'[k].id
               /\ \A s \in req'[k].rows : s.endpoint = req'[k].endpoint
               /\ \A g \in Handlers :
                    (req'[g].at = "subscribe" /\ req'[g].id = req'[k].id) => g = k
    <3>1. CASE k = h
      <4>1. subscribes + 1 <= subscribes'
        BY <1>a, <2>3
      <4>2. QED
        BY <2>1, <2>2, <2>4, <2>7, <2>8, <3>1, <4>1
    <3>2. CASE k # h
      BY <2>2, <2>5, <2>8, <2>9, <3>2 DEF IdsSound
    <3>3. QED
      BY <3>1, <3>2
  <2>10. \A k \in Handlers : req'[k].at = "prune" => \A s \in req'[k].rows : s.endpoint \in gone'
    BY <2>1, <2>2, <2>3 DEF IdsSound
  <2>11. \A s, t \in RowsAround' : s.id = t.id => s.endpoint = t.endpoint
    BY <1>b, <2>5
  <2>12. QED
    BY <2>7, <2>9, <2>10, <2>11 DEF IdsSound
<1>5. ASSUME NEW h \in Handlers, StoreSubscription(h)
      PROVE  IdsSound'
  <2>1. PICK a \in Agents, e \in Endpoints, n \in Nat :
           /\ req[h].at = "subscribe"
           /\ a = req[h].agent /\ e = req[h].endpoint /\ n = req[h].id
           /\ UNCHANGED <<subscribes, gone>>
           /\ subs' \subseteq subs \cup {Moved(s, a) : s \in subs}
                           \cup {[id |-> n, agent |-> a, endpoint |-> e]}
    <3>1. PICK a \in Agents, e \in Endpoints, n \in Nat :
           /\ req[h].at = "subscribe"
           /\ a = req[h].agent /\ e = req[h].endpoint /\ n = req[h].id
           /\ UNCHANGED <<subscribes, gone>>
           /\ \/ /\ req[h].rows # {}
                 /\ subs' = (subs \ {s \in subs : \E f \in req[h].rows : f.id = s.id /\ f.agent # a})
                            \cup {Moved(s, a) : s \in
                                   {t \in subs : \E f \in req[h].rows : f.id = t.id /\ f.agent # a}}
              \/ req[h].rows = {} /\ subs' = subs \cup {[id |-> n, agent |-> a, endpoint |-> e]}
              \/ req[h].rows = {} /\ subs' = subs /\ \E s \in subs : s.endpoint = e
      BY <1>5, Committed
    <3>2. QED
      BY <3>1
  <2>2. Now(h, Idle) /\ Idle.at = "idle" /\ Idle.rows = {}
    BY <1>5, FreedSlot, IdleSlot
  <2> HIDE DEF Idle
  <2>3. req'[h] = Idle /\ \A g \in Handlers : g # h => req'[g] = req[g]
    BY <2>2, NowSlots
  <2>0. PICK new : new = [id |-> n, agent |-> a, endpoint |-> e]
    OBVIOUS
  <2>4. new \in Sub /\ new.id = n /\ new.endpoint = e
    BY <2>0 DEF Sub
  <2>5. \A s \in subs : Moved(s, a).id = s.id /\ Moved(s, a).endpoint = s.endpoint
    BY <1>a DEF Moved, Sub
  <2>6. \A s \in RowsAround' : \/ \E t \in RowsAround : t.id = s.id /\ t.endpoint = s.endpoint
                               \/ s = new
    <3> SUFFICES ASSUME NEW s \in RowsAround', s # new
                 PROVE  \E t \in RowsAround : t.id = s.id /\ t.endpoint = s.endpoint
      OBVIOUS
    <3>1. s \in subs' \/ s \in RowsAround
      BY <2>2, RowsNow
    <3>2. CASE s \in RowsAround
      BY <3>2
    <3>3. CASE s \in subs'
      <4>1. s \in subs \/ \E t \in subs : s = Moved(t, a)
        BY <2>0, <2>1, <3>3
      <4>2. QED
        BY <1>a, <2>5, <4>1
    <3>4. QED
      BY <3>1, <3>2, <3>3
  <2>7. n <= subscribes /\ \A s \in RowsAround : s.id # n
    BY <2>1 DEF IdsSound
  <2>8. \A s \in RowsAround' : s.id <= subscribes'
    BY <1>b, <2>1, <2>4, <2>6, <2>7
  <2>9. \A s, t \in RowsAround' : s.id = t.id => s.endpoint = t.endpoint
    BY <1>b, <2>4, <2>6, <2>7
  <2>10. ASSUME NEW k \in Handlers, req'[k].at = "subscribe"
         PROVE  /\ req'[k].id <= subscribes'
                /\ \A s \in RowsAround' : s.id # req'[k].id
                /\ \A s \in req'[k].rows : s.endpoint = req'[k].endpoint
                /\ \A g \in Handlers :
                     (req'[g].at = "subscribe" /\ req'[g].id = req'[k].id) => g = k
    <3>1. k # h /\ req'[k] = req[k]
      BY <2>2, <2>3, <2>10
    <3>2. /\ req[k].id <= subscribes
          /\ \A s \in RowsAround : s.id # req[k].id
          /\ \A s \in req[k].rows : s.endpoint = req[k].endpoint
      BY <2>1, <2>10, <3>1 DEF IdsSound
    <3>3. \A s \in RowsAround' : s.id # req'[k].id
      <4>1. req[k].id # n
        BY <2>1, <2>10, <3>1 DEF IdsSound
      <4>2. QED
        BY <2>4, <2>6, <3>1, <3>2, <4>1
    <3>4. \A g \in Handlers : (req'[g].at = "subscribe" /\ req'[g].id = req'[k].id) => g = k
      BY <2>2, <2>3, <2>10, <3>1 DEF IdsSound
    <3>5. req'[k].id <= subscribes'
      BY <2>1, <3>1, <3>2
    <3>6. \A s \in req'[k].rows : s.endpoint = req'[k].endpoint
      BY <3>1, <3>2
    <3>7. QED
      BY <3>3, <3>4, <3>5, <3>6
  <2>11. \A k \in Handlers : req'[k].at = "prune" => \A s \in req'[k].rows : s.endpoint \in gone'
    BY <2>1, <2>2, <2>3 DEF IdsSound
  <2>12. QED
    BY <2>8, <2>9, <2>10, <2>11 DEF IdsSound
<1>6. CASE /\ UNCHANGED req /\ subs' \subseteq subs /\ gone \subseteq gone'
           /\ subscribes' = subscribes \/ subscribes' = subscribes + 1
  <2>1. \A s \in RowsAround' : s \in RowsAround
    BY <1>6 DEF RowsAround
  <2>2. \A g \in Handlers : req'[g].at = "prune" => \A s \in req'[g].rows : s.endpoint \in gone'
    BY <1>6 DEF IdsSound
  <2>3. QED
    BY <1>6, <2>1, <2>2, IdsKept
<1>7. CASE UNCHANGED vars \/ (\E s \in Stages : CrmMove(s))
           \/ (\E e \in Endpoints : GoesAway(e) \/ \E a \in Agents : Unsubscribe(a, e))
           \/ (\E t \in RewardTypes : IgnoreReward(t))
  BY <1>6, <1>7 DEF vars, CrmMove, GoesAway, Unsubscribe, IgnoreReward, subVars
<1>8. QED
  BY <1>2, <1>3, <1>4, <1>5, <1>7 DEF Next, HandlerStep

\* The subscriptions of a browser.
Here(e) == {t \in subs : t.endpoint = e}

\* One browser: one subscription at most, of the partner who wants it, and the
\* handlers on it have found just that.
HearsAt(e) ==
  /\ \A t \in Here(e) : t.agent = wants[e]
  /\ wants[e] # NoAgent => Here(e) # {}
  /\ \A s, t \in Here(e) : s = t
  /\ \A h \in AtEndpoint(e) : req[h].rows = Here(e)

Hearing == \A e \in Endpoints \ (gone \cup raced) : HearsAt(e)

\* A browser whose subscriptions stay as they are.
LEMMA HearsKept ==
  ASSUME NEW e \in Endpoints, HearsAt(e), Here(e)' = Here(e), wants'[e] = wants[e],
         \A g \in AtEndpoint(e)' : g \in AtEndpoint(e) /\ req'[g].rows = req[g].rows
  PROVE  HearsAt(e)'
<1>1. PICK R : R = Here(e)
  OBVIOUS
<1>2. /\ \A t \in R : t.agent = wants[e]
      /\ wants[e] # NoAgent => R # {}
      /\ \A s, t \in R : s = t
      /\ \A h \in AtEndpoint(e) : req[h].rows = R
  BY <1>1 DEF HearsAt
<1>3. /\ Here(e)' = R
      /\ \A t \in R : t.agent = wants'[e]
      /\ wants'[e] # NoAgent => R # {}
      /\ \A h \in AtEndpoint(e)' : req'[h].rows = R
  BY <1>1, <1>2
<1>4. QED
  BY <1>2, <1>3 DEF HearsAt

\* A handler's step that is no subscription leaves the handlers at a browser.
LEMMA AtKept ==
  ASSUME Typed, NEW h \in Handlers, NEW r, Now(h, r), NEW e \in Endpoints,
         r.at # "subscribe" \/ r.endpoint # e
  PROVE  /\ AtEndpoint(e)' = AtEndpoint(e) \ {h}
         /\ \A g \in AtEndpoint(e)' : g \in AtEndpoint(e) /\ req'[g].rows = req[g].rows
<1>1. req'[h] = r /\ \A g \in Handlers : g # h => req'[g] = req[g]
  BY NowSlots
<1>2. QED
  BY <1>1 DEF AtEndpoint

\* Only dead browsers lose subscriptions to the handlers of notices.
LEMMA PruneHears ==
  ASSUME Typed, IdsSound, NEW h \in Handlers, Prune(h), NEW e \in Endpoints \ gone
  PROVE  Here(e)' = Here(e)
<1>1. /\ subs' = {s \in subs : s.id \notin {d.id : d \in req[h].rows}}
      /\ \A d \in req[h].rows : d.endpoint \in gone
  BY DEF Prune, IdsSound
<1>2. \A s, t \in RowsAround : s.id = t.id => s.endpoint = t.endpoint
  BY DEF IdsSound
<1>3. subs \subseteq RowsAround /\ req[h].rows \subseteq RowsAround
  BY DEF RowsAround
<1>4. \A s \in subs : s.endpoint = e => s \in subs'
  BY <1>1, <1>2, <1>3
<1>5. QED
  BY <1>1, <1>4 DEF Here

\* A browser the commit of another one is about.
LEMMA StoreElsewhere ==
  ASSUME Typed, IdsSound, NEW h \in Handlers, StoreSubscription(h),
         NEW e \in Endpoints, e # req[h].endpoint
  PROVE  Here(e)' = Here(e) /\ wants'[e] = wants[e]
<1>1. PICK a \in Agents, b \in Endpoints, n \in Nat :
           /\ req[h].at = "subscribe"
           /\ a = req[h].agent /\ b = req[h].endpoint /\ n = req[h].id
           /\ wants' = [wants EXCEPT ![b] = a]
           /\ \/ /\ req[h].rows # {}
                 /\ subs' = (subs \ {s \in subs : \E f \in req[h].rows : f.id = s.id /\ f.agent # a})
                            \cup {Moved(s, a) : s \in
                                   {t \in subs : \E f \in req[h].rows : f.id = t.id /\ f.agent # a}}
              \/ req[h].rows = {} /\ subs' = subs \cup {[id |-> n, agent |-> a, endpoint |-> b]}
              \/ req[h].rows = {} /\ subs' = subs /\ \E s \in subs : s.endpoint = b
  BY Committed
<1>2. wants'[e] = wants[e]
  BY <1>1 DEF Typed, TablesTyped
<1>3. subs \subseteq Sub /\ subs \subseteq RowsAround /\ req[h].rows \subseteq RowsAround
  BY DEF Typed, TablesTyped, RowsAround
<1>4. \A f \in req[h].rows : f.endpoint = b
  BY <1>1 DEF IdsSound
<1>5. \A s \in subs, f \in req[h].rows : f.id = s.id => s.endpoint = b
  BY <1>3, <1>4 DEF IdsSound
<1>6. \A s \in subs : Moved(s, a).endpoint = s.endpoint
  BY <1>3 DEF Moved, Sub
<1>7. CASE req[h].rows # {}
  <2> DEFINE M == {s \in subs : \E f \in req[h].rows : f.id = s.id /\ f.agent # a}
  <2>1. subs' = (subs \ M) \cup {Moved(s, a) : s \in M}
    BY <1>1, <1>7
  <2>2. \A s \in M : s.endpoint = b /\ Moved(s, a).endpoint = b
    BY <1>5, <1>6
  <2> HIDE DEF M
  <2>3. b # e
    BY <1>1
  <2>4. QED
    BY <1>2, <2>1, <2>2, <2>3 DEF Here
<1>8. CASE req[h].rows = {} /\ subs' = subs \cup {[id |-> n, agent |-> a, endpoint |-> b]}
  BY <1>1, <1>2, <1>8 DEF Here
<1>9. CASE subs' = subs
  BY <1>2, <1>9 DEF Here
<1>10. QED
  BY <1>1, <1>7, <1>8, <1>9

\* The browser the commit is about, if nothing else is under way there.
LEMMA StoreHere ==
  ASSUME Typed, IdsSound, NEW h \in Handlers, StoreSubscription(h),
         NEW e \in Endpoints, e = req[h].endpoint, HearsAt(e), AtEndpoint(e) = {h}
  PROVE  HearsAt(e)'
<1>1. PICK a \in Agents, b \in Endpoints, n \in Nat :
           /\ req[h].at = "subscribe"
           /\ a = req[h].agent /\ b = req[h].endpoint /\ n = req[h].id
           /\ wants' = [wants EXCEPT ![b] = a]
           /\ \/ /\ req[h].rows # {}
                 /\ subs' = (subs \ {s \in subs : \E f \in req[h].rows : f.id = s.id /\ f.agent # a})
                            \cup {Moved(s, a) : s \in
                                   {t \in subs : \E f \in req[h].rows : f.id = t.id /\ f.agent # a}}
              \/ req[h].rows = {} /\ subs' = subs \cup {[id |-> n, agent |-> a, endpoint |-> b]}
              \/ req[h].rows = {} /\ subs' = subs /\ \E s \in subs : s.endpoint = b
  BY Committed
<1>2. wants'[e] = a /\ a # NoAgent /\ b = e
  BY <1>1, NoticesAssumption DEF Typed, TablesTyped
<1>3. req[h].rows = Here(e) /\ \A s, t \in Here(e) : s = t
  BY DEF HearsAt
<1>4. AtEndpoint(e)' = {}
  <2>1. Now(h, Idle) /\ Idle.at # "subscribe"
    BY FreedSlot, IdleSlot
  <2>2. AtEndpoint(e)' = AtEndpoint(e) \ {h}
    BY <2>1, AtKept
  <2>3. QED
    BY <2>2
<1>5. \E x : Here(e)' = {x} /\ x.agent = a
  <2>1. CASE Here(e) # {}
    <3>1. PICK x \in subs : x.endpoint = e /\ Here(e) = {x}
      BY <1>3, <2>1 DEF Here
    <3>2. x \in Sub
      BY <3>1 DEF Typed, TablesTyped
    <3>3. PICK y : y = Moved(x, a)
      OBVIOUS
    <3>4. y.agent = a /\ y.endpoint = e
      BY <3>1, <3>2, <3>3 DEF Moved, Sub
    <3>5. \A s \in subs : s.id = x.id => s = x
      <4>1. subs \subseteq RowsAround
        BY DEF RowsAround
      <4>2. \A s \in subs : s.id = x.id => s.endpoint = e
        BY <3>1, <4>1 DEF IdsSound
      <4>3. QED
        BY <3>1, <4>2 DEF Here
    <3>6. subs' = (subs \ {s \in subs : x.id = s.id /\ x.agent # a})
                  \cup {Moved(s, a) : s \in {t \in subs : x.id = t.id /\ x.agent # a}}
      <4>1. req[h].rows = {x}
        BY <1>3, <3>1
      <4>2. subs' = (subs \ {s \in subs : \E f \in {x} : f.id = s.id /\ f.agent # a})
                    \cup {Moved(s, a) : s \in
                           {t \in subs : \E f \in {x} : f.id = t.id /\ f.agent # a}}
        BY <1>1, <4>1
      <4>3. QED
        BY <4>2
    <3>7. CASE x.agent = a
      <4>1. subs' = subs
        BY <3>6, <3>7
      <4>2. QED
        BY <3>1, <3>7, <4>1 DEF Here
    <3>8. CASE x.agent # a
      <4>1. {t \in subs : x.id = t.id /\ x.agent # a} = {x}
        BY <3>1, <3>5, <3>8
      <4>2. subs' = (subs \ {x}) \cup {y}
        BY <3>3, <3>6, <4>1
      <4>3. Here(e)' = {y}
        BY <3>1, <3>4, <4>2 DEF Here
      <4>4. QED
        BY <3>4, <4>3
    <3>9. QED
      BY <3>7, <3>8
  <2>2. CASE Here(e) = {}
    <3>1. PICK new : new = [id |-> n, agent |-> a, endpoint |-> b]
      OBVIOUS
    <3>2. subs' = subs \cup {new}
      BY <1>1, <1>2, <1>3, <2>2, <3>1 DEF Here
    <3>3. new.agent = a /\ new.endpoint = e
      BY <1>2, <3>1
    <3>4. Here(e)' = {new}
      BY <2>2, <3>2, <3>3 DEF Here
    <3>5. QED
      BY <3>3, <3>4
  <2>3. QED
    BY <2>1, <2>2
<1>6. QED
  BY <1>2, <1>4, <1>5 DEF HearsAt

\* Every step keeps what the quiet browsers hear.
LEMMA HearingNext == Typed /\ IdsSound /\ Hearing /\ [Next]_vars => Hearing'
<1> SUFFICES ASSUME Typed, IdsSound, Hearing, [Next]_vars,
                    NEW e \in Endpoints, e \notin gone' \cup raced'
             PROVE  HearsAt(e)'
  BY DEF Hearing, HearsAt, Here, AtEndpoint
<1>a. ASSUME e \notin gone \cup raced PROVE HearsAt(e)
  BY <1>a DEF Hearing
<1>1. ASSUME NEW h \in Handlers,
             \/ \E i \in DOMAIN moves : LoadApplication(h, i)
             \/ \E a \in Agents, t \in RewardTypes : LoadAgent(h, a, t)
             \/ StoreStage(h) \/ Email(h) \/ SelectSubscriptions(h) \/ Push(h) \/ Telegram(h)
             \/ HandlerDies(h) \/ Prune(h)
      PROVE  HearsAt(e)'
  <2>1. PICK r : Now(h, r) /\ r.at # "subscribe"
    BY <1>1, IdleSlot, LoadApplicationSlot, LoadAgentSlot, StoreStageSlot, EmailSlot,
       SelectSlot, PushSlot, FreedSlot, PruneSlot
  <2>2. UNCHANGED <<wants, gone, raced>> /\ (UNCHANGED subs \/ Prune(h))
    BY <1>1 DEF LoadApplication, LoadAgent, StoreStage, Email, SelectSubscriptions, Push,
                Telegram, HandlerDies, Prune, subVars
  <2>3. HearsAt(e) /\ e \notin gone
    BY <1>a, <2>2
  <2>4. Here(e)' = Here(e)
    <3>1. CASE UNCHANGED subs
      BY <3>1 DEF Here
    <3>2. CASE Prune(h)
      BY <2>3, <3>2, PruneHears
    <3>3. QED
      BY <2>2, <3>1, <3>2
  <2>5. \A g \in AtEndpoint(e)' : g \in AtEndpoint(e) /\ req'[g].rows = req[g].rows
    BY <2>1, AtKept
  <2>6. QED
    BY <2>2, <2>3, <2>4, <2>5, HearsKept
<1>2. ASSUME NEW h \in Handlers, NEW a \in Agents, NEW b \in Endpoints, FindSubscription(h, a, b)
      PROVE  HearsAt(e)'
  <2>1. PICK r : /\ Now(h, r) /\ r.at = "subscribe" /\ r.endpoint = b
                 /\ \/ r.rows = {} /\ {s \in subs : s.endpoint = b} = {}
                    \/ \E s \in subs : s.endpoint = b /\ r.rows = {s}
    BY <1>2, FindSlot
  <2>2. UNCHANGED <<subs, wants, gone, raced>>
    BY <1>2 DEF FindSubscription
  <2>3. HearsAt(e) /\ Here(e)' = Here(e)
    BY <1>a, <2>2 DEF Here
  <2>4. CASE b # e
    BY <2>1, <2>2, <2>3, <2>4, AtKept, HearsKept
  <2>5. CASE b = e
    <3>1. r.rows = Here(e)
      BY <2>1, <2>3, <2>5 DEF HearsAt, Here
    <3>2. req'[h] = r /\ \A g \in Handlers : g # h => req'[g] = req[g]
      BY <2>1, NowSlots
    <3>3. \A g \in AtEndpoint(e)' : req'[g].rows = Here(e)
      <4>1. \A g \in AtEndpoint(e) : req[g].rows = Here(e)
        BY <2>3 DEF HearsAt
      <4>2. \A g \in AtEndpoint(e)' : g = h \/ (g \in AtEndpoint(e) /\ req'[g] = req[g])
        BY <3>2 DEF AtEndpoint
      <4>3. QED
        BY <3>1, <3>2, <4>1, <4>2
    <3>4. QED
      BY <2>2, <2>3, <3>3 DEF HearsAt
  <2>6. QED
    BY <2>4, <2>5
<1>3. ASSUME NEW h \in Handlers, StoreSubscription(h)
      PROVE  HearsAt(e)'
  <2>1. /\ gone' = gone
        /\ raced' = IF AtEndpoint(req[h].endpoint) = {h} THEN raced
                    ELSE raced \cup {req[h].endpoint}
    BY <1>3 DEF StoreSubscription
  <2>2. HearsAt(e)
    BY <1>a, <2>1
  <2>3. CASE e = req[h].endpoint
    <3>1. AtEndpoint(e) = {h}
      BY <2>1, <2>3
    <3>2. QED
      BY <1>3, <2>2, <2>3, <3>1, StoreHere
  <2>4. CASE e # req[h].endpoint
    <3>1. Now(h, Idle) /\ Idle.at # "subscribe"
      BY <1>3, FreedSlot, IdleSlot
    <3>2. Here(e)' = Here(e) /\ wants'[e] = wants[e]
      BY <1>3, <2>4, StoreElsewhere
    <3>3. QED
      BY <2>2, <3>1, <3>2, AtKept, HearsKept
  <2>5. QED
    BY <2>3, <2>4
<1>4. ASSUME NEW b \in Endpoints, NEW a \in Agents, Unsubscribe(a, b)
      PROVE  HearsAt(e)'
  <2>1. /\ subs' = {s \in subs : s.endpoint # b \/ s.agent # a}
        /\ wants' = [wants EXCEPT ![b] = IF @ = a THEN NoAgent ELSE @]
        /\ raced' = IF AtEndpoint(b) = {} THEN raced ELSE raced \cup {b}
        /\ UNCHANGED <<req, gone>>
    BY <1>4 DEF Unsubscribe
  <2>2. HearsAt(e) /\ AtEndpoint(e)' = AtEndpoint(e)
    BY <1>a, <2>1 DEF AtEndpoint
  <2>3. wants \in [Endpoints -> Agents \cup {NoAgent}] /\ subs \subseteq Sub
    BY DEF Typed, TablesTyped
  <2>4. CASE b # e
    <3>1. Here(e)' = Here(e) /\ wants'[e] = wants[e]
      BY <2>1, <2>3, <2>4 DEF Here
    <3>2. QED
      BY <2>1, <2>2, <3>1, HearsKept
  <2>5. CASE b = e /\ wants[e] # a
    <3>1. \A t \in Here(e) : t.agent # a
      BY <2>2, <2>5 DEF HearsAt
    <3>2. Here(e)' = Here(e)
      BY <2>1, <2>5, <3>1 DEF Here
    <3>3. wants'[e] = wants[e]
      BY <2>1, <2>3, <2>5
    <3>4. QED
      BY <2>1, <2>2, <3>2, <3>3, HearsKept
  <2>6. CASE b = e /\ wants[e] = a
    <3>1. \A t \in Here(e) : t.agent = a
      BY <2>2, <2>6 DEF HearsAt
    <3>2. Here(e)' = {}
      BY <2>1, <2>6, <3>1 DEF Here
    <3>3. wants'[e] = NoAgent
      BY <2>1, <2>3, <2>6
    <3>4. AtEndpoint(e)' = {}
      BY <2>1, <2>2, <2>6
    <3>5. QED
      BY <3>2, <3>3, <3>4 DEF HearsAt
  <2>7. QED
    BY <2>4, <2>5, <2>6
<1>5. CASE UNCHANGED <<subs, wants, raced, req>> /\ gone \subseteq gone'
  <2>1. HearsAt(e)
    BY <1>a, <1>5
  <2>2. QED
    BY <1>5, <2>1 DEF HearsAt, Here, AtEndpoint
<1>6. CASE UNCHANGED vars \/ (\E s \in Stages : CrmMove(s)) \/ (\E b \in Endpoints : GoesAway(b))
           \/ (\E t \in RewardTypes : IgnoreReward(t))
  BY <1>5, <1>6 DEF vars, CrmMove, GoesAway, IgnoreReward, subVars
<1>7. QED
  BY <1>1, <1>2, <1>3, <1>4, <1>6 DEF Next, HandlerStep

\* At a browser where no requests overlapped, the partner who subscribed last
\* is the one subscribed, however many partners and notices there are.
THEOREM SubscribedCorrect == Spec => []SubscribedHears
<1>1. Init => IdsSound /\ Hearing
  <2> SUFFICES ASSUME Init PROVE IdsSound /\ Hearing
    OBVIOUS
  <2>1. /\ subs = {} /\ \A e \in Endpoints : wants[e] = NoAgent
        /\ \A h \in Handlers : req[h].at = "idle" /\ req[h].rows = {}
    BY IdleSlot DEF Init
  <2>2. RowsAround = {}
    BY <2>1 DEF RowsAround
  <2>3. QED
    BY <2>1, <2>2 DEF IdsSound, Hearing, HearsAt, Here, AtEndpoint
<1>2. Typed /\ Hearing => SubscribedHears
  <2> SUFFICES ASSUME Typed, Hearing, NEW e \in Endpoints \ (gone \cup raced)
               PROVE  {s.agent : s \in {t \in subs : t.endpoint = e}} =
                        IF wants[e] = NoAgent THEN {} ELSE {wants[e]}
    BY DEF SubscribedHears
  <2>1. HearsAt(e) /\ Here(e) = {t \in subs : t.endpoint = e}
    BY DEF Hearing, Here
  <2>2. \A t \in Here(e) : t.agent = wants[e] /\ t.agent \in Agents
    BY <2>1 DEF HearsAt, Here, Typed, TablesTyped, Sub
  <2>3. wants[e] # NoAgent => Here(e) # {}
    BY <2>1 DEF HearsAt
  <2>4. QED
    BY <2>1, <2>2, <2>3, NoticesAssumption
<1>3. QED
  BY <1>1, <1>2, IdsNext, HearingNext, TypeCorrect, PTL DEF Spec

=============================================================================
