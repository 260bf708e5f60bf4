-------------------------- MODULE BackOfficeProofs --------------------------
(***************************************************************************)
(* What TLAPS proves of the back office: of Cabinet for any tables, of     *)
(* Listing for any entries and page size, of Faq for any items and texts   *)
(* of one admin, of AdminForms for any number of forms open at once,       *)
(* managers, reasons and rates.                                            *)
(***************************************************************************)
EXTENDS MCBackOffice, FiniteSetTheorems, TLAPS

-----------------------------------------------------------------------------
(* Induction over finite sets, and sums *)

\* A family that holds the empty set, and a set when it holds all that lack one
\* of its elements, holds every finite set.
LEMMA SetInduction ==
  ASSUME NEW S, IsFiniteSet(S), NEW Good, {} \in Good,
         \A T \in SUBSET S : T # {} /\ (\A x \in T : T \ {x} \in Good) => T \in Good
  PROVE  \A T \in SUBSET S : T \in Good
<1> DEFINE Bad == (SUBSET S) \ Good
<1> SUFFICES ASSUME Bad # {} PROVE FALSE
  OBVIOUS
<1>1. /\ \A T \in SUBSET S : T \in Bad \/ T \in Good
      /\ \A T \in Bad : T \in SUBSET S /\ T \notin Good
  OBVIOUS
<1>2. IsWellFoundedOn(StrictSubsetOrdering(S), FiniteSubsetsOf(S))
  BY FS_StrictSubsetOrderingWellFounded
<1>3. Bad \subseteq FiniteSubsetsOf(S)
  BY FS_FiniteSubsetsOfFinite
<1> HIDE DEF Bad
<1>4. \E T \in Bad : \A U \in Bad : ~(<<U, T>> \in StrictSubsetOrdering(S))
  BY <1>2, <1>3, WFMin
<1>5. PICK T \in Bad : \A U \in Bad : ~(<<U, T>> \in StrictSubsetOrdering(S))
  BY <1>4
<1>6. ASSUME NEW x \in T PROVE T \ {x} \in Good
  <2>1. T \ {x} \subseteq T /\ T \ {x} # T /\ T \ {x} \in SUBSET S
    BY <1>6, <1>1
  <2>2. <<T \ {x}, T>> \in StrictSubsetOrdering(S)
    BY <2>1, <1>1 DEF StrictSubsetOrdering
  <2>3. QED
    BY <2>1, <2>2, <1>5, <1>1
<1>7. T # {} /\ T \in SUBSET S /\ T \notin Good
  BY <1>1
<1>8. QED
  BY <1>7, <1>6

\* The units an amount is made of.
Units(table, S, m) == {p \in S \X (1..m) : p[2] <= table[p[1]].amount}

\* Units of a set with one element taken out, and of disjoint sets.
LEMMA UnitsSplit ==
  ASSUME NEW table, NEW m \in Nat, NEW S, NEW T, IsFiniteSet(S), IsFiniteSet(T), S \cap T = {}
  PROVE  /\ IsFiniteSet(Units(table, S, m))
         /\ Cardinality(Units(table, S, m)) \in Nat
         /\ Cardinality(Units(table, S \cup T, m))
              = Cardinality(Units(table, S, m)) + Cardinality(Units(table, T, m))
<1>1. IsFiniteSet(1..m)
  BY FS_Interval
<1>2. IsFiniteSet(S \X (1..m)) /\ IsFiniteSet(T \X (1..m))
  BY <1>1, FS_Product
<1>3. IsFiniteSet(Units(table, S, m)) /\ IsFiniteSet(Units(table, T, m))
  BY <1>2, FS_Subset DEF Units
<1>4. /\ Units(table, S \cup T, m) = Units(table, S, m) \cup Units(table, T, m)
      /\ Units(table, S, m) \cap Units(table, T, m) = {}
  BY DEF Units
<1>5. Cardinality({}) = 0
  BY FS_EmptySet
<1>6. /\ Cardinality(Units(table, S, m)) \in Nat /\ Cardinality(Units(table, T, m)) \in Nat
  BY <1>3, FS_CardinalityType
<1>7. Cardinality(Units(table, S, m) \cup Units(table, T, m))
        = Cardinality(Units(table, S, m)) + Cardinality(Units(table, T, m))
            - Cardinality(Units(table, S, m) \cap Units(table, T, m))
  BY <1>3, FS_Union
<1>8. Cardinality(Units(table, S \cup T, m))
        = Cardinality(Units(table, S, m)) + Cardinality(Units(table, T, m)) - 0
  BY <1>4, <1>5, <1>7
<1>9. QED
  BY <1>3, <1>6, <1>8

\* One element has as many units as its amount.
LEMMA UnitsOfOne ==
  ASSUME NEW table, NEW m \in Nat, NEW r, table[r].amount \in 0..m
  PROVE  Cardinality(Units(table, {r}, m)) = table[r].amount
<1> DEFINE n == table[r].amount
           f == [k \in 1..n |-> <<r, k>>]
<1>1. f \in Bijection(1..n, Units(table, {r}, m))
  <2>1. \A p \in Units(table, {r}, m) : p[2] \in 1..n /\ p = <<r, p[2]>>
    BY DEF Units
  <2>2. \A k \in 1..n : <<r, k>> \in Units(table, {r}, m)
    BY DEF Units
  <2>3. f \in Injection(1..n, Units(table, {r}, m))
    BY <2>2 DEF Injection, IsInjective
  <2>4. f \in Surjection(1..n, Units(table, {r}, m))
    BY <2>1, <2>2 DEF Surjection
  <2>5. QED
    BY <2>3, <2>4 DEF Bijection
<1>2. ExistsBijection(1..n, Units(table, {r}, m))
  BY <1>1 DEF ExistsBijection
<1>3. n \in Nat
  OBVIOUS
<1>4. QED
  BY <1>2, <1>3, FS_CountingElements

\* What the fold of AmountOf computes.
LEMMA AmountIsUnits ==
  ASSUME NEW table, NEW m \in Nat, NEW S, IsFiniteSet(S),
         \A r \in S : table[r].amount \in 0..m
  PROVE  AmountOf(table, S) = Cardinality(Units(table, S, m))
<1> DEFINE Pick(s) == CHOOSE x \in s : TRUE
           Folds(iter) == iter = [s \in SUBSET S |->
             IF s = {} THEN 0 ELSE iter[s \ {Pick(s)}] + table[Pick(s)].amount]
           count == [s \in SUBSET S |-> Cardinality(Units(table, s, m))]
           total == CHOOSE iter : Folds(iter)
<1>1. AmountOf(table, S) = total[S]
  BY DEF AmountOf, FoldSet, MapThenFoldSet
<1>2. Cardinality(Units(table, {}, m)) = 0
  BY FS_EmptySet DEF Units
<1>3. ASSUME NEW s \in SUBSET S, s # {}
      PROVE  /\ Pick(s) \in s
             /\ s \ {Pick(s)} \in SUBSET S
             /\ count[s] = count[s \ {Pick(s)}] + table[Pick(s)].amount
  <2>1. Pick(s) \in s
    BY <1>3
  <2> HIDE DEF Pick
  <2>2. IsFiniteSet(s \ {Pick(s)}) /\ IsFiniteSet({Pick(s)})
    BY FS_Subset, FS_Singleton
  <2>3. (s \ {Pick(s)}) \cup {Pick(s)} = s
    BY <2>1
  <2>4. Cardinality(Units(table, s, m))
          = Cardinality(Units(table, s \ {Pick(s)}, m)) + Cardinality(Units(table, {Pick(s)}, m))
    BY <2>2, <2>3, UnitsSplit
  <2>5. Cardinality(Units(table, {Pick(s)}, m)) = table[Pick(s)].amount
    BY <2>1, UnitsOfOne
  <2>6. QED
    BY <2>1, <2>4, <2>5
<1> HIDE DEF Pick
<1>4. Folds(count)
  BY <1>2, <1>3
<1>5. Folds(total)
  <2> HIDE DEF Folds
  <2>1. QED
    BY <1>4
<1>6. /\ total[{}] = 0
      /\ \A s \in SUBSET S : s # {} =>
           total[s] = total[s \ {Pick(s)}] + table[Pick(s)].amount
  BY <1>5
<1> HIDE DEF total, Folds
<1>7. \A T \in SUBSET S : T \in {s \in SUBSET S : total[s] = count[s]}
  <2> DEFINE Good == {s \in SUBSET S : total[s] = count[s]}
  <2>1. {} \in Good
    BY <1>2, <1>6
  <2>2. ASSUME NEW T \in SUBSET S, T # {}, \A x \in T : T \ {x} \in Good
        PROVE  T \in Good
    BY <1>3, <1>6, <2>2
  <2> HIDE DEF Good
  <2>3. \A T \in SUBSET S : T \in Good
    BY <2>1, <2>2, SetInduction
  <2>4. QED
    BY <2>3 DEF Good
<1>8. QED
  BY <1>1, <1>7

\* Sums of amounts, over nothing and over disjoint sets.
LEMMA AmountsAdd ==
  ASSUME NEW table, NEW S, NEW T, IsFiniteSet(S), IsFiniteSet(T), S \cap T = {},
         \A r \in S \cup T : table[r].amount \in 0..2
  PROVE  /\ AmountOf(table, S) \in Nat
         /\ AmountOf(table, S \cup T) = AmountOf(table, S) + AmountOf(table, T)
<1>1. IsFiniteSet(S \cup T)
  BY FS_Union
<1>2. /\ AmountOf(table, S) = Cardinality(Units(table, S, 2))
      /\ AmountOf(table, T) = Cardinality(Units(table, T, 2))
      /\ AmountOf(table, S \cup T) = Cardinality(Units(table, S \cup T, 2))
  BY <1>1, AmountIsUnits
<1>3. /\ Cardinality(Units(table, S, 2)) \in Nat
      /\ Cardinality(Units(table, S \cup T, 2))
           = Cardinality(Units(table, S, 2)) + Cardinality(Units(table, T, 2))
  BY UnitsSplit
<1>4. QED
  BY <1>2, <1>3
-----------------------------------------------------------------------------
(* The tables *)

RewardRecords ==
  [agent : Agents, app : Apps \cup {0}, type : Types,
   status : {"PENDING", "APPROVED", "REJECTED"}, amount : 0..2, decided : Nat, paid : Nat]

\* Only approved rewards are paid.
RewardOK(reward) ==
  reward \in RewardRecords /\ (reward.paid # 0 => reward.status = "APPROVED")

\* The tables are finite, and their rows as the services store them.
TablesOK ==
  /\ day \in Nat \ {0}
  /\ brought \in [Apps -> Agents \cup {0}]
  /\ IsFiniteSet({i \in Apps : brought[i] # 0})
  /\ IsFiniteSet(DOMAIN rewards)
  /\ rewards = [r \in DOMAIN rewards |-> rewards[r]]
  /\ \A r \in DOMAIN rewards : RewardOK(rewards[r])

\* Rewards stay, with their agent and client, and days only pass.
Kept ==
  /\ day <= day'
  /\ \A r \in DOMAIN rewards :
       /\ r \in DOMAIN rewards'
       /\ rewards'[r].agent = rewards[r].agent
       /\ rewards'[r].app = rewards[r].app

\* The actions that change tables, and those that read them for a page.
Changes ==
  \/ \E a \in Agents :
       \/ \E i \in Apps : NewApplication(i, a)
       \/ \E r \in Rewards, t \in Types, i \in Apps \cup {0} : CreateReward(r, t, a, i)
  \/ \E i \in Apps, s \in Stages : MoveStage(i, s)
  \/ \E r \in DOMAIN rewards :
       \/ PriceReward(r)
       \/ \E s \in {"APPROVED", "REJECTED"} : DecideReward(r, s)
       \/ MarkPaid(r)
  \/ NextDay

Reads ==
  \/ \E a \in Viewers :
       \/ OpenCabinet(a)
       \/ \E f \in {"", "scheduled", "analysis"} : OpenPayouts(a, f)
  \/ \E f \in {"", "scheduled", "overdue"} : OpenCalendar(f)
  \/ ReadDirect
  \/ ReadRewards
  \/ ReadStages
  \/ ReadOverdue

LEMMA NextSplits == Next <=> Changes \/ Reads
  BY DEF Next, Changes, Reads

\* The tables are sound at first.
LEMMA InitTables == Init => TablesOK
<1> SUFFICES ASSUME Init PROVE TablesOK
  OBVIOUS
<1>1. /\ day = 1 /\ brought = [i \in Apps |-> 0] /\ rewards = [r \in {} |-> 0]
  BY DEF Init, NoRewards
<1>2. {i \in Apps : brought[i] # 0} = {} /\ DOMAIN rewards = {}
  BY <1>1
<1>3. QED
  BY <1>1, <1>2, FS_EmptySet DEF TablesOK

\* A reward whose columns one change sets, the agent and the client not among them.
LEMMA RewardChanged ==
  ASSUME TablesOK, NEW r \in DOMAIN rewards, NEW x, RewardOK(x),
         x.agent = rewards[r].agent, x.app = rewards[r].app,
         rewards' = [rewards EXCEPT ![r] = x], UNCHANGED <<day, brought>>
  PROVE  TablesOK' /\ Kept
<1>1. DOMAIN rewards' = DOMAIN rewards /\ rewards' = [s \in DOMAIN rewards |-> rewards'[s]]
  BY DEF TablesOK
<1>2. \A s \in DOMAIN rewards : rewards'[s] = IF s = r THEN x ELSE rewards[s]
  BY DEF TablesOK
<1>3. \A s \in DOMAIN rewards' : RewardOK(rewards'[s])
  BY <1>1, <1>2 DEF TablesOK
<1>4. TablesOK'
  BY <1>1, <1>3 DEF TablesOK, RewardOK
<1>5. Kept
  BY <1>1, <1>2 DEF TablesOK, Kept
<1>6. QED
  BY <1>4, <1>5

\* Every change keeps the tables sound.
LEMMA ChangesKeep == TablesOK /\ Changes => TablesOK' /\ Kept
<1> SUFFICES ASSUME TablesOK, Changes PROVE TablesOK' /\ Kept
  OBVIOUS
<1>0. Agents \subseteq Nat \ {0}
  BY CabinetAssumption DEF CabinetAssumption
<1>1. ASSUME NEW a \in Agents, NEW i \in Apps, NewApplication(i, a)
      PROVE  TablesOK' /\ Kept
  <2>1. /\ brought' = [brought EXCEPT ![i] = a] /\ UNCHANGED <<day, rewards>>
    BY <1>1 DEF NewApplication, Change
  <2>2. {j \in Apps : brought'[j] # 0} = {j \in Apps : brought[j] # 0} \cup {i}
    BY <2>1, <1>0 DEF TablesOK
  <2>3. IsFiniteSet({j \in Apps : brought[j] # 0})
    BY DEF TablesOK
  <2>4. IsFiniteSet({j \in Apps : brought'[j] # 0})
    BY <2>2, <2>3, FS_AddElement
  <2>5. QED
    BY <2>1, <2>4 DEF TablesOK, Kept, RewardOK
<1>2. ASSUME NEW a \in Agents, NEW r \in Rewards, NEW t \in Types, NEW i \in Apps \cup {0},
             CreateReward(r, t, a, i)
      PROVE  TablesOK' /\ Kept
  <2>1. PICK x : x = [agent |-> a, app |-> i, type |-> t, status |-> "PENDING",
                      amount |-> IF t = "MAIN" THEN 0 ELSE 1, decided |-> 0, paid |-> 0]
    OBVIOUS
  <2>2. RewardOK(x)
    BY <2>1 DEF RewardOK, RewardRecords
  <2>3. /\ rewards' = [s \in DOMAIN rewards \cup {r} |-> IF s = r THEN x ELSE rewards[s]]
        /\ r \notin DOMAIN rewards /\ UNCHANGED <<day, brought>>
    BY <1>2, <2>1 DEF CreateReward, Change
  <2>4. IsFiniteSet(DOMAIN rewards')
    BY <2>3, FS_AddElement DEF TablesOK
  <2>5. \A s \in DOMAIN rewards' : RewardOK(rewards'[s])
    BY <2>2, <2>3 DEF TablesOK
  <2>6. rewards' = [s \in DOMAIN rewards' |-> rewards'[s]]
    BY <2>3
  <2>7. TablesOK'
    BY <2>3, <2>4, <2>5, <2>6 DEF TablesOK, RewardOK
  <2>8. Kept
    BY <2>3 DEF TablesOK, Kept
  <2>9. QED
    BY <2>7, <2>8
<1>3. ASSUME NEW i \in Apps, NEW s \in Stages, MoveStage(i, s)
      PROVE  TablesOK' /\ Kept
  <2>1. UNCHANGED <<day, brought, rewards>>
    BY <1>3 DEF MoveStage, Change
  <2>2. QED
    BY <2>1 DEF TablesOK, Kept, RewardOK
<1>4. ASSUME NEW r \in DOMAIN rewards, PriceReward(r)
      PROVE  TablesOK' /\ Kept
  <2>1. PICK x : x = [rewards[r] EXCEPT !.amount = 2]
    OBVIOUS
  <2>2. RewardOK(x) /\ x.agent = rewards[r].agent /\ x.app = rewards[r].app
    BY <2>1 DEF TablesOK, RewardOK, RewardRecords
  <2>3. rewards' = [rewards EXCEPT ![r] = x] /\ UNCHANGED <<day, brought>>
    BY <1>4, <2>1 DEF PriceReward, Change
  <2>4. QED
    BY <2>2, <2>3, RewardChanged
<1>5. ASSUME NEW r \in DOMAIN rewards, NEW s \in {"APPROVED", "REJECTED"}, DecideReward(r, s)
      PROVE  TablesOK' /\ Kept
  <2>1. PICK x : x = [rewards[r] EXCEPT !.status = s, !.decided = day]
    OBVIOUS
  <2>2. RewardOK(x) /\ x.agent = rewards[r].agent /\ x.app = rewards[r].app
    BY <1>5, <2>1 DEF TablesOK, RewardOK, RewardRecords, DecideReward
  <2>3. rewards' = [rewards EXCEPT ![r] = x] /\ UNCHANGED <<day, brought>>
    BY <1>5, <2>1 DEF DecideReward, Change
  <2>4. QED
    BY <2>2, <2>3, RewardChanged
<1>6. ASSUME NEW r \in DOMAIN rewards, MarkPaid(r)
      PROVE  TablesOK' /\ Kept
  <2>1. PICK x : x = [rewards[r] EXCEPT !.paid = day]
    OBVIOUS
  <2>2. RewardOK(x) /\ x.agent = rewards[r].agent /\ x.app = rewards[r].app
    BY <1>6, <2>1 DEF TablesOK, RewardOK, RewardRecords, MarkPaid, Payable
  <2>3. rewards' = [rewards EXCEPT ![r] = x] /\ UNCHANGED <<day, brought>>
    BY <1>6, <2>1 DEF MarkPaid, Change
  <2>4. QED
    BY <2>2, <2>3, RewardChanged
<1>7. ASSUME NextDay PROVE TablesOK' /\ Kept
  BY <1>7 DEF NextDay, tables, TablesOK, Kept, RewardOK
<1>8. QED
  BY <1>1, <1>2, <1>3, <1>4, <1>5, <1>6, <1>7 DEF Changes

\* A page being read changes no table.
LEMMA ReadsKeep == TablesOK /\ Reads => TablesOK' /\ Kept /\ UNCHANGED <<day, brought, rewards>>
<1>1. Reads => UNCHANGED <<day, brought, rewards>>
  BY DEF Reads, OpenCabinet, OpenPayouts, OpenCalendar, ReadDirect, ReadRewards, ReadStages,
         ReadOverdue, tables
<1>2. QED
  BY <1>1 DEF TablesOK, Kept, RewardOK
-----------------------------------------------------------------------------
(* The page in the making *)

PageFields ==
  {"kind", "at", "agent", "filter", "today", "first", "again", "direct", "own", "since"}

\* Rewards a session holds, of the agent whose page it is.
OfAgent ==
  \A r \in DOMAIN page.first : r \in DOMAIN rewards /\ rewards[r].agent = page.agent

AllSound(table) == \A r \in DOMAIN table : RewardOK(table[r])

CabinetPage ==
  /\ page.kind = "cabinet" /\ page.at \in {"direct", "rewards", "done"}
  /\ page.agent \in Agents
  /\ OfAgent
  /\ IsFiniteSet(DOMAIN page.first) /\ AllSound(page.first)
  /\ page.direct \subseteq Apps /\ IsFiniteSet(page.direct)
  /\ page.at = "done" =>
       /\ IsFiniteSet(DOMAIN page.again) /\ AllSound(page.again)
       /\ \A r \in DOMAIN page.first :
            r \in DOMAIN page.again /\ page.again[r] = page.first[r]

PayoutsPage ==
  /\ page.kind = "payouts" /\ page.at \in {"stages", "done"}
  /\ OfAgent
  /\ \A r \in DOMAIN page.first : rewards[r].app = page.first[r].app
  /\ page.at = "done" => PayoutsCoverClients

\* A reward overdue by today.
Late(reward) ==
  Slug(reward) = "scheduled" /\ reward.decided # 0 /\ reward.decided + Delay < day

CalendarPage ==
  /\ page.kind = "calendar" /\ page.at \in {"overdue", "done"}
  /\ AllSound(page.first)
  /\ page.at = "done" =>
       \A r \in DOMAIN page.again :
         /\ RewardOK(page.again[r]) /\ Late(page.again[r])
         /\ r \in DOMAIN page.first => page.again[r] = page.first[r]

PageInv ==
  /\ DOMAIN page = PageFields
  /\ (page.kind = "none" /\ page.at = "idle") \/ CabinetPage \/ PayoutsPage \/ CalendarPage

LEMMA InitPage == Init => PageInv
<1>1. DOMAIN NoPage = PageFields /\ NoPage.kind = "none" /\ NoPage.at = "idle"
  BY DEF NoPage, PageFields
<1>2. QED
  BY <1>1 DEF Init, PageInv

\* A change of the tables keeps what the page relies on.
LEMMA ChangesKeepPage ==
  TablesOK /\ PageInv /\ Changes => PageInv'
<1> SUFFICES ASSUME TablesOK, PageInv, Changes PROVE PageInv'
  OBVIOUS
<1>1. page' = page /\ page.at # "done"
  BY DEF Changes, NewApplication, CreateReward, MoveStage, PriceReward, DecideReward, MarkPaid,
         NextDay, Change
<1>2. Kept
  BY ChangesKeep
<1>3. DOMAIN page' = PageFields
  BY <1>1 DEF PageInv
<1>4. ASSUME OfAgent PROVE OfAgent'
  BY <1>1, <1>2, <1>4 DEF OfAgent, Kept
<1>5. CASE page.kind = "none" /\ page.at = "idle"
  BY <1>1, <1>3, <1>5 DEF PageInv
<1>6. CASE CabinetPage
  <2>1. CabinetPage'
    BY <1>1, <1>4, <1>6 DEF CabinetPage, AllSound, RewardOK
  <2>2. QED
    BY <1>3, <2>1 DEF PageInv
<1>7. CASE PayoutsPage
  <2>1. \A r \in DOMAIN page'.first : rewards'[r].app = page'.first[r].app
    BY <1>1, <1>2, <1>7 DEF PayoutsPage, OfAgent, Kept
  <2>2. PayoutsPage'
    BY <1>1, <1>4, <1>7, <2>1 DEF PayoutsPage
  <2>3. QED
    BY <1>3, <2>2 DEF PageInv
<1>8. CASE CalendarPage
  <2>1. CalendarPage'
    BY <1>1, <1>8 DEF CalendarPage, AllSound, RewardOK
  <2>2. QED
    BY <1>3, <2>1 DEF PageInv
<1>9. QED
  BY <1>5, <1>6, <1>7, <1>8 DEF PageInv

\* A page opened.
LEMMA OpeningKeeps ==
  ASSUME TablesOK, PageInv, UNCHANGED <<day, brought, rewards>>,
         \/ \E a \in Viewers :
              \/ OpenCabinet(a)
              \/ \E f \in {"", "scheduled", "analysis"} : OpenPayouts(a, f)
         \/ \E f \in {"", "scheduled", "overdue"} : OpenCalendar(f)
  PROVE  PageInv'
<1>1. ASSUME NEW a \in Viewers, OpenCabinet(a) PROVE PageInv'
  <2>1. page' = [NoPage EXCEPT !.kind = "cabinet", !.at = "direct", !.agent = a,
                               !.first = Snapshot(Own(a))]
    BY <1>1 DEF OpenCabinet
  <2>2. /\ DOMAIN page' = PageFields /\ page'.kind = "cabinet" /\ page'.at = "direct"
        /\ page'.agent = a /\ page'.first = Snapshot(Own(a)) /\ page'.direct = {}
    BY <2>1 DEF NoPage, PageFields
  <2>3. IsFiniteSet(Own(a)) /\ IsFiniteSet({})
    BY FS_Subset, FS_EmptySet DEF Own, TablesOK
  <2>4. IsFiniteSet(DOMAIN page'.first) /\ IsFiniteSet(page'.direct)
    BY <2>2, <2>3 DEF Snapshot
  <2>5. OfAgent'
    BY <2>2 DEF OfAgent, Snapshot, Own
  <2>7. \A r \in DOMAIN page'.first : RewardOK(page'.first[r])
    BY <2>2 DEF Snapshot, Own, TablesOK
  <2>6. page'.agent \in Agents
    BY <2>2, CabinetAssumption DEF CabinetAssumption
  <2>8. CabinetPage'
    BY <2>2, <2>4, <2>6, <2>5, <2>7 DEF CabinetPage, AllSound, RewardOK
  <2>9. QED
    BY <2>2, <2>8 DEF PageInv
<1>2. ASSUME NEW a \in Viewers, NEW f \in {"", "scheduled", "analysis"}, OpenPayouts(a, f)
      PROVE  PageInv'
  <2>1. page' = [NoPage EXCEPT !.kind = "payouts", !.at = "stages", !.agent = a,
                               !.filter = f, !.first = Snapshot(Own(a))]
    BY <1>2 DEF OpenPayouts
  <2>2. /\ DOMAIN page' = PageFields /\ page'.kind = "payouts" /\ page'.at = "stages"
        /\ page'.agent = a /\ page'.first = Snapshot(Own(a))
    BY <2>1 DEF NoPage, PageFields
  <2>3. OfAgent' /\ \A r \in DOMAIN page'.first : rewards'[r].app = page'.first[r].app
    BY <2>2 DEF OfAgent, Snapshot, Own
  <2>4. PayoutsPage'
    BY <2>2, <2>3 DEF PayoutsPage
  <2>5. QED
    BY <2>2, <2>4 DEF PageInv
<1>3. ASSUME NEW f \in {"", "scheduled", "overdue"}, OpenCalendar(f) PROVE PageInv'
  <2> DEFINE shown == {r \in DOMAIN rewards : Shows(f, AdminSlug(rewards[r], day))}
             late == {r \in DOMAIN rewards : AdminSlug(rewards[r], day) = "overdue"}
  <2>1. /\ DOMAIN page' = PageFields /\ page'.kind = "calendar"
        /\ page'.at = IF f = "overdue" THEN "done" ELSE "overdue"
        /\ page'.first = Snapshot(shown)
        /\ f = "overdue" => page'.again = Snapshot(late)
    BY <1>3 DEF OpenCalendar, NoPage, PageFields
  <2>2. \A r \in DOMAIN page'.first : r \in DOMAIN rewards /\ page'.first[r] = rewards[r]
    BY <2>1 DEF Snapshot
  <2>3. \A r \in DOMAIN page'.first : RewardOK(page'.first[r])
    BY <2>2 DEF TablesOK
  <2>4. ASSUME f = "overdue", NEW r \in DOMAIN page'.again
        PROVE  /\ RewardOK(page'.again[r]) /\ Late(page'.again[r])
               /\ r \in DOMAIN page'.first => page'.again[r] = page'.first[r]
    <3>1. r \in late /\ page'.again[r] = rewards[r]
      BY <2>1, <2>4 DEF Snapshot
    <3>2. Late(rewards[r])
      BY <3>1 DEF AdminSlug, Late, Slug
    <3>3. QED
      BY <3>1, <3>2, <2>2 DEF TablesOK
  <2>5. CalendarPage'
    BY <2>1, <2>3, <2>4 DEF CalendarPage, AllSound, RewardOK, Late
  <2>6. QED
    BY <2>1, <2>5 DEF PageInv
<1>4. QED
  BY <1>1, <1>2, <1>3

\* The cabinet's later SELECTs.
LEMMA CabinetReadsKeep ==
  ASSUME TablesOK, PageInv, UNCHANGED <<day, brought, rewards>>, ReadDirect \/ ReadRewards
  PROVE  PageInv'
<1>1. CASE ReadDirect
  <2>1. CabinetPage /\ DOMAIN page = PageFields
    BY <1>1 DEF ReadDirect, PageInv, CabinetPage, PayoutsPage, CalendarPage
  <2>2. /\ DOMAIN page' = PageFields /\ page'.kind = "cabinet" /\ page'.at = "rewards"
        /\ page'.agent = page.agent /\ page'.first = page.first
        /\ page'.direct = {i \in Apps : brought[i] = page.agent}
    BY <1>1, <2>1 DEF ReadDirect, PageFields, CabinetPage
  <2>3. page'.direct \subseteq {i \in Apps : brought[i] # 0}
    BY <2>1, <2>2, CabinetAssumption DEF CabinetAssumption, CabinetPage
  <2>4. IsFiniteSet(page'.direct)
    BY <2>3, FS_Subset DEF TablesOK
  <2>5. CabinetPage'
    BY <2>1, <2>2, <2>4 DEF CabinetPage, OfAgent, AllSound, RewardOK
  <2>6. QED
    BY <2>2, <2>5 DEF PageInv
<1>2. CASE ReadRewards
  <2>1. CabinetPage /\ DOMAIN page = PageFields
    BY <1>2 DEF ReadRewards, PageInv, CabinetPage, PayoutsPage, CalendarPage
  <2>2. /\ DOMAIN page' = PageFields /\ page'.kind = "cabinet" /\ page'.at = "done"
        /\ page'.agent = page.agent /\ page'.first = page.first /\ page'.direct = page.direct
        /\ page'.again = SelectAgain(Own(page.agent), page.first)
    BY <1>2, <2>1 DEF ReadRewards, PageFields, CabinetPage
  <2>3. IsFiniteSet(DOMAIN page'.again)
    <3>1. IsFiniteSet(Own(page.agent))
      BY FS_Subset DEF Own, TablesOK
    <3>2. QED
      BY <2>2, <3>1 DEF SelectAgain
  <2>4. \A r \in DOMAIN page'.again : RewardOK(page'.again[r])
    BY <2>1, <2>2 DEF SelectAgain, Own, CabinetPage, AllSound, TablesOK
  <2>5. \A r \in DOMAIN page'.first : r \in DOMAIN page'.again /\ page'.again[r] = page'.first[r]
    BY <2>1, <2>2 DEF SelectAgain, Own, CabinetPage, OfAgent
  <2>6. CabinetPage'
    BY <2>1, <2>2, <2>3, <2>4, <2>5 DEF CabinetPage, OfAgent, AllSound, RewardOK
  <2>7. QED
    BY <2>2, <2>6 DEF PageInv
<1>3. QED
  BY <1>1, <1>2

\* The second SELECT of the payouts page.
LEMMA StagesKeep ==
  ASSUME PageInv, UNCHANGED <<day, brought, rewards>>, ReadStages
  PROVE  PageInv'
<1>1. PayoutsPage /\ DOMAIN page = PageFields
  BY DEF ReadStages, PageInv, CabinetPage, PayoutsPage, CalendarPage
<1> DEFINE rewarded == {page.first[r].app : r \in DOMAIN page.first}
<1>2. /\ DOMAIN page' = PageFields /\ page'.kind = "payouts" /\ page'.at = "done"
      /\ page'.agent = page.agent /\ page'.first = page.first /\ page'.filter = page.filter
      /\ page'.direct = {i \in Rewardless(page.agent) : Shows(page.filter, StageSlug(stage[i]))}
      /\ page'.own = {i \in Apps : brought[i] = page.agent}
      /\ page'.since = {rewards[r].app : r \in Own(page.agent) \ DOMAIN page.first}
  BY <1>1 DEF ReadStages, PageFields, PayoutsPage
<1>3. \A r \in DOMAIN page.first : r \in Own(page.agent) /\ rewards[r].app = page.first[r].app
  BY <1>1 DEF PayoutsPage, OfAgent, Own
<1>4. page'.direct \cap rewarded = {}
  BY <1>2, <1>3 DEF Rewardless
<1>5. ASSUME page.filter = "" PROVE page'.own \ (page'.direct \cup rewarded) \subseteq page'.since
  <2>1. SUFFICES ASSUME NEW i \in Apps, brought[i] = page.agent, i \notin page'.direct,
                        i \notin rewarded
                 PROVE  i \in page'.since
    BY <1>2
  <2>2. i \notin Rewardless(page.agent)
    BY <1>2, <1>5, <2>1 DEF Shows
  <2>3. PICK r \in Own(page.agent) : rewards[r].app = i
    BY <2>1, <2>2 DEF Rewardless
  <2>4. r \notin DOMAIN page.first
    BY <1>3, <2>1, <2>3
  <2>5. QED
    BY <1>2, <2>3, <2>4
<1>6. PayoutsCoverClients'
  <2>1. {page'.first[r].app : r \in DOMAIN page'.first} = rewarded
    BY <1>2
  <2> HIDE DEF rewarded
  <2>2. QED
    BY <1>2, <1>4, <1>5, <2>1 DEF PayoutsCoverClients
<1>7. PayoutsPage'
  BY <1>1, <1>2, <1>6 DEF PayoutsPage, OfAgent
<1>8. QED
  BY <1>2, <1>7 DEF PageInv

\* The second SELECT of the calendar.
LEMMA OverdueKeeps ==
  ASSUME TablesOK, PageInv, UNCHANGED <<day, brought, rewards>>, ReadOverdue
  PROVE  PageInv'
<1>1. CalendarPage /\ DOMAIN page = PageFields
  BY DEF ReadOverdue, PageInv, CabinetPage, PayoutsPage, CalendarPage
<1> DEFINE table == SelectAgain(DOMAIN rewards, page.first)
<1>2. /\ DOMAIN page' = PageFields /\ page'.kind = "calendar" /\ page'.at = "done"
      /\ page'.first = page.first
      /\ page'.again = [r \in {x \in DOMAIN table : AdminSlug(table[x], day) = "overdue"} |-> table[r]]
  BY <1>1 DEF ReadOverdue, PageFields, CalendarPage
<1>3. ASSUME NEW r \in DOMAIN table
      PROVE  RewardOK(table[r]) /\ (r \in DOMAIN page.first => table[r] = page.first[r])
  BY <1>1 DEF SelectAgain, CalendarPage, AllSound, TablesOK
<1> HIDE DEF table
<1>4. ASSUME NEW r \in DOMAIN page'.again
      PROVE  /\ RewardOK(page'.again[r]) /\ Late(page'.again[r])
             /\ r \in DOMAIN page'.first => page'.again[r] = page'.first[r]
  <2>1. r \in DOMAIN table /\ page'.again[r] = table[r] /\ AdminSlug(table[r], day) = "overdue"
    BY <1>2
  <2>2. Late(table[r])
    BY <2>1 DEF AdminSlug, Late, Slug
  <2>3. QED
    BY <1>2, <1>3, <2>1, <2>2
<1>5. CalendarPage'
  BY <1>1, <1>2, <1>4 DEF CalendarPage, AllSound, RewardOK, Late
<1>6. QED
  BY <1>2, <1>5 DEF PageInv

CabinetInv == TablesOK /\ PageInv

\* In every state the tables are sound, and what a page in the making has read by one
\* SELECT fits what the next will read (cabinet, get_payout_rows, list_payout_rows).
THEOREM CabinetSound == Spec => []CabinetInv
<1>1. Init => CabinetInv
  BY InitTables, InitPage DEF CabinetInv
<1>2. CabinetInv /\ [Next]_vars => CabinetInv'
  <2> SUFFICES ASSUME CabinetInv, [Next]_vars PROVE CabinetInv'
    OBVIOUS
  <2>1. CASE Changes
    BY <2>1, ChangesKeep, ChangesKeepPage DEF CabinetInv
  <2>2. CASE Reads
    <3>1. TablesOK' /\ UNCHANGED <<day, brought, rewards>>
      BY <2>2, ReadsKeep DEF CabinetInv
    <3>2. PageInv'
      BY <2>2, <3>1, OpeningKeeps, CabinetReadsKeep, StagesKeep, OverdueKeeps DEF CabinetInv, Reads
    <3>3. QED
      BY <3>1, <3>2 DEF CabinetInv
  <2>3. CASE UNCHANGED vars
    <3>1. day' = day /\ brought' = brought /\ rewards' = rewards /\ page' = page
      BY <2>3 DEF vars
    <3>2. TablesOK'
      BY <3>1 DEF CabinetInv, TablesOK, RewardOK
    <3>3. /\ CabinetPage => CabinetPage'
          /\ PayoutsPage => PayoutsPage'
          /\ CalendarPage => CalendarPage'
      BY <3>1 DEF CabinetPage, PayoutsPage, CalendarPage, AllSound, OfAgent, RewardOK, Late,
                  PayoutsCoverClients, Done
    <3>4. PageInv'
      <4>1. /\ DOMAIN page = PageFields
            /\ \/ page.kind = "none" /\ page.at = "idle"
               \/ CabinetPage \/ PayoutsPage \/ CalendarPage
        BY DEF CabinetInv, PageInv
      <4>2. CASE CabinetPage \/ PayoutsPage \/ CalendarPage
        <5>1. CabinetPage' \/ PayoutsPage' \/ CalendarPage'
          BY <3>3, <4>2
        <5>2. DOMAIN page' = PageFields
          BY <3>1, <4>1
        <5>3. QED
          BY <5>1, <5>2 DEF PageInv
      <4>3. CASE page.kind = "none" /\ page.at = "idle"
        BY <3>1, <4>1, <4>3 DEF PageInv
      <4>4. QED
        BY <4>1, <4>2, <4>3
    <3>5. QED
      BY <3>2, <3>4 DEF CabinetInv
  <2>4. QED
    BY <2>1, <2>2, <2>3, NextSplits
<1>3. QED
  BY <1>1, <1>2, PTL DEF Spec

\* Every client of the partner is on his payouts page once, by rewards or by stage,
\* unless his first reward came between the two SELECTs (get_payout_rows).
THEOREM PayoutsCoverClientsAlways == Spec => []PayoutsCoverClients
<1>1. CabinetInv => PayoutsCoverClients
  BY DEF CabinetInv, PageInv, CabinetPage, PayoutsPage, CalendarPage, PayoutsCoverClients, Done
<1>2. QED
  BY <1>1, CabinetSound, PTL

\* The calendar's buttons are for what mark_paid accepts, and its overdue list fits
\* its days, over midnight too (list_payout_rows, build_calendar, _entry).
THEOREM CalendarAgreesAlways == Spec => []CalendarAgrees
<1>1. ASSUME CabinetInv PROVE CalendarAgrees
  <2>1. SUFFICES ASSUME Done("calendar") PROVE CalendarAgrees
    BY DEF CalendarAgrees
  <2>2. CalendarPage /\ page.at = "done" /\ day \in Nat
    BY <1>1, <2>1 DEF CabinetInv, TablesOK, PageInv, CabinetPage, PayoutsPage, Done
  <2>3. ASSUME NEW r \in DOMAIN page.first PROVE Button(r) <=> Payable(page.first[r])
    BY <2>2 DEF CalendarPage, AllSound, RewardOK, RewardRecords, Button, Payable, AdminSlug, Slug
  <2>4. ASSUME NEW r \in DOMAIN page.again
        PROVE  /\ TargetDate(page.again[r]) \in 1..(day - 1)
               /\ r \in DOMAIN page.first =>
                    r \in EntriesOn(TargetDate(page.again[r])) /\ Button(r)
    <3> DEFINE late == page.again[r]
    <3>1. /\ late.decided \in Nat /\ late.paid \in Nat /\ Late(late)
          /\ r \in DOMAIN page.first => page.first[r] = late
      BY <2>2, <2>4 DEF CalendarPage, RewardOK, RewardRecords
    <3>2. Delay \in Nat
      BY CabinetAssumption DEF CabinetAssumption
    <3> HIDE DEF late
    <3>3. TargetDate(late) \in 1..(day - 1)
      BY <2>2, <3>1, <3>2 DEF TargetDate, Late, Slug
    <3>4. ASSUME r \in DOMAIN page.first
          PROVE  r \in EntriesOn(TargetDate(late)) /\ Button(r)
      BY <3>1, <3>3, <3>4 DEF EntriesOn, Button, AdminSlug, Late
    <3>5. QED
      BY <3>3, <3>4 DEF late
  <2>5. QED
    BY <2>3, <2>4 DEF CalendarAgrees
<1>2. QED
  BY <1>1, CabinetSound, PTL
-----------------------------------------------------------------------------
(* The cabinet adds up *)

\* A sum is the same in tables that agree on its rewards.
LEMMA AmountsAgree ==
  ASSUME NEW t1, NEW t2, NEW S, IsFiniteSet(S),
         \A r \in S : t1[r].amount \in 0..2 /\ t2[r].amount = t1[r].amount
  PROVE  AmountOf(t1, S) = AmountOf(t2, S)
<1>1. Units(t1, S, 2) = Units(t2, S, 2)
  BY DEF Units
<1>2. AmountOf(t1, S) = Cardinality(Units(t1, S, 2))
  BY AmountIsUnits
<1>3. AmountOf(t2, S) = Cardinality(Units(t2, S, 2))
  BY AmountIsUnits
<1>4. QED
  BY <1>1, <1>2, <1>3

\* The totals of no reward, and of disjoint sets of rewards.
LEMMA TotalsAdd ==
  ASSUME NEW table, NEW S, NEW T, IsFiniteSet(S), IsFiniteSet(T), S \cap T = {},
         \A r \in S \cup T : RewardOK(table[r])
  PROVE  /\ RewardTotals(table, S).paid \in Nat /\ RewardTotals(table, S).expected \in Nat
         /\ RewardTotals(table, S \cup T)
              = Plus(RewardTotals(table, S), RewardTotals(table, T))
<1> DEFINE Paid(X) == {r \in X : Slug(table[r]) = "paid"}
           Expected(X) == {r \in X : Slug(table[r]) \in {"pending", "scheduled"}}
<1>1. /\ IsFiniteSet(Paid(S)) /\ IsFiniteSet(Paid(T))
      /\ IsFiniteSet(Expected(S)) /\ IsFiniteSet(Expected(T))
  BY FS_Subset
<1>2. \A r \in S \cup T : table[r].amount \in 0..2
  BY DEF RewardOK, RewardRecords
<1>3. /\ Paid(S) \cap Paid(T) = {} /\ Paid(S) \cup Paid(T) = Paid(S \cup T)
      /\ Expected(S) \cap Expected(T) = {} /\ Expected(S) \cup Expected(T) = Expected(S \cup T)
  OBVIOUS
<1>4. /\ \A r \in Paid(S) \cup Paid(T) : table[r].amount \in 0..2
      /\ \A r \in Expected(S) \cup Expected(T) : table[r].amount \in 0..2
  BY <1>2
<1>5. /\ RewardTotals(table, S)
           = [paid |-> AmountOf(table, Paid(S)), expected |-> AmountOf(table, Expected(S))]
      /\ RewardTotals(table, T)
           = [paid |-> AmountOf(table, Paid(T)), expected |-> AmountOf(table, Expected(T))]
      /\ RewardTotals(table, S \cup T)
           = [paid |-> AmountOf(table, Paid(S \cup T)),
              expected |-> AmountOf(table, Expected(S \cup T))]
  BY DEF RewardTotals
<1> HIDE DEF Paid, Expected
<1>6. /\ AmountOf(table, Paid(S)) \in Nat
      /\ AmountOf(table, Paid(S) \cup Paid(T))
           = AmountOf(table, Paid(S)) + AmountOf(table, Paid(T))
  BY <1>1, <1>3, <1>4, AmountsAdd
<1>7. /\ AmountOf(table, Expected(S)) \in Nat
      /\ AmountOf(table, Expected(S) \cup Expected(T))
           = AmountOf(table, Expected(S)) + AmountOf(table, Expected(T))
  BY <1>1, <1>3, <1>4, AmountsAdd
<1>8. /\ RewardTotals(table, S).paid = AmountOf(table, Paid(S))
      /\ RewardTotals(table, S).expected = AmountOf(table, Expected(S))
      /\ RewardTotals(table, T).paid = AmountOf(table, Paid(T))
      /\ RewardTotals(table, T).expected = AmountOf(table, Expected(T))
  BY <1>5
<1>9. RewardTotals(table, S \cup T)
        = [paid |-> AmountOf(table, Paid(S)) + AmountOf(table, Paid(T)),
           expected |-> AmountOf(table, Expected(S)) + AmountOf(table, Expected(T))]
  BY <1>3, <1>5, <1>6, <1>7
<1>10. QED
  BY <1>6, <1>7, <1>8, <1>9 DEF Plus

\* Of sound rewards the finance block and the client rows sum the same.
LEMMA FinanceIsTotals ==
  ASSUME NEW table, AllSound(table)
  PROVE  Finance(table) = RewardTotals(table, DOMAIN table)
<1>1. \A r \in DOMAIN table :
        /\ table[r].paid # 0 <=> Slug(table[r]) = "paid"
        /\ (table[r].paid = 0 /\ Slug(table[r]) \in {"pending", "scheduled"})
             <=> Slug(table[r]) \in {"pending", "scheduled"}
  BY DEF AllSound, RewardOK, RewardRecords, Slug
<1>2. /\ {r \in DOMAIN table : table[r].paid # 0} = {r \in DOMAIN table : Slug(table[r]) = "paid"}
      /\ {r \in DOMAIN table : table[r].paid = 0 /\ Slug(table[r]) \in {"pending", "scheduled"}}
           = {r \in DOMAIN table : Slug(table[r]) \in {"pending", "scheduled"}}
  BY <1>1
<1>3. QED
  BY <1>2 DEF Finance, RewardTotals

\* The rewards of clients, and the fold over the rows of the cabinet.
RewardsOfAll(T) == {r \in DOMAIN page.again : page.again[r].app \in T}

LEMMA RowsSum ==
  ASSUME IsFiniteSet(DOMAIN page.again), AllSound(page.again), IsFiniteSet(ClientRows)
  PROVE  SumOfRows = RewardTotals(page.again, RewardsOfAll(ClientRows))
<1> DEFINE Pick(s) == CHOOSE x \in s : TRUE
           zero == [paid |-> 0, expected |-> 0]
           totals == [i \in ClientRows |-> RewardTotals(page.again, RewardsOf(i))]
           Folds(iter) == iter = [s \in SUBSET ClientRows |->
             IF s = {} THEN [paid |-> 0, expected |-> 0]
             ELSE Plus(iter[s \ {Pick(s)}], RewardTotals(page.again, RewardsOf(Pick(s))))]
           count == [s \in SUBSET ClientRows |-> RewardTotals(page.again, RewardsOfAll(s))]
           total == CHOOSE iter : Folds(iter)
<1>1. SumOfRows = total[ClientRows]
  BY DEF SumOfRows, FoldSet, MapThenFoldSet
<1>2. RewardTotals(page.again, RewardsOfAll({})) = zero
  <2>1. RewardsOfAll({}) = {}
    BY DEF RewardsOfAll
  <2>2. AmountOf(page.again, {}) = 0
    <3>1. Units(page.again, {}, 2) = {} /\ IsFiniteSet({}) /\ Cardinality({}) = 0
      BY FS_EmptySet DEF Units
    <3>2. \A r \in {} : page.again[r].amount \in 0..2
      OBVIOUS
    <3>3. AmountOf(page.again, {}) = Cardinality(Units(page.again, {}, 2))
      BY <3>1, <3>2, AmountIsUnits
    <3>4. QED
      BY <3>1, <3>3
  <2>3. RewardTotals(page.again, {}) = zero
    BY <2>2 DEF RewardTotals
  <2>4. QED
    BY <2>1, <2>3
<1>3. ASSUME NEW s \in SUBSET ClientRows, s # {}
      PROVE  /\ Pick(s) \in s
             /\ s \ {Pick(s)} \in SUBSET ClientRows
             /\ count[s] = Plus(count[s \ {Pick(s)}],
                                RewardTotals(page.again, RewardsOf(Pick(s))))
  <2>1. Pick(s) \in s
    BY <1>3
  <2> HIDE DEF Pick
  <2>2. /\ RewardsOfAll(s) = RewardsOfAll(s \ {Pick(s)}) \cup RewardsOf(Pick(s))
        /\ RewardsOfAll(s \ {Pick(s)}) \cap RewardsOf(Pick(s)) = {}
        /\ RewardsOfAll(s) \subseteq DOMAIN page.again
    BY <2>1 DEF RewardsOfAll, RewardsOf
  <2>3. IsFiniteSet(RewardsOfAll(s \ {Pick(s)})) /\ IsFiniteSet(RewardsOf(Pick(s)))
    BY FS_Subset DEF RewardsOfAll, RewardsOf
  <2>4. \A r \in RewardsOfAll(s \ {Pick(s)}) \cup RewardsOf(Pick(s)) : RewardOK(page.again[r])
    BY <2>2 DEF AllSound
  <2>5. RewardTotals(page.again, RewardsOfAll(s \ {Pick(s)}) \cup RewardsOf(Pick(s)))
          = Plus(RewardTotals(page.again, RewardsOfAll(s \ {Pick(s)})),
                 RewardTotals(page.again, RewardsOf(Pick(s))))
    BY <2>2, <2>3, <2>4, TotalsAdd
  <2>6. QED
    BY <2>1, <2>2, <2>5
<1> HIDE DEF Pick
<1>4. Folds(count)
  BY <1>2, <1>3
<1>5. Folds(total)
  <2> HIDE DEF Folds
  <2>1. QED
    BY <1>4
<1>6. /\ total[{}] = zero
      /\ \A s \in SUBSET ClientRows : s # {} =>
           total[s] = Plus(total[s \ {Pick(s)}], RewardTotals(page.again, RewardsOf(Pick(s))))
  BY <1>5
<1> HIDE DEF total, Folds, zero
<1>7. \A T \in SUBSET ClientRows : total[T] = RewardTotals(page.again, RewardsOfAll(T))
  <2> DEFINE Good == {s \in SUBSET ClientRows : total[s] = count[s]}
  <2>1. {} \in Good
    BY <1>2, <1>6
  <2>2. ASSUME NEW T \in SUBSET ClientRows, T # {}, \A x \in T : T \ {x} \in Good
        PROVE  T \in Good
    BY <1>3, <1>6, <2>2
  <2> HIDE DEF Good
  <2>3. \A T \in SUBSET ClientRows : T \in Good
    BY <2>1, <2>2, SetInduction
  <2>4. QED
    BY <2>3 DEF Good
<1>8. QED
  BY <1>1, <1>7

\* The clients' totals and the bonuses make the sums of the finance block and those
\* of rewards created meanwhile, for any tables, clients and changes between the
\* SELECTs (build_finance_summary, get_network_client_rows).
THEOREM CabinetAddsUpAlways == Spec => []CabinetAddsUp
<1>1. ASSUME CabinetInv PROVE CabinetAddsUp
  <2> DEFINE first == page.first
             again == page.again
             created == DOMAIN again \ DOMAIN first
             fresh == [r \in created |-> again[r]]
  <2>1. SUFFICES ASSUME Done("cabinet")
                 PROVE  Plus(SumOfRows, RewardTotals(again, RewardsOf(0)))
                          = Plus(Finance(first), Finance(fresh))
    BY DEF CabinetAddsUp
  <2>2. CabinetPage /\ page.at = "done"
    BY <1>1, <2>1 DEF CabinetInv, PageInv, PayoutsPage, CalendarPage, Done
  <2>3. /\ IsFiniteSet(DOMAIN first) /\ AllSound(first)
        /\ IsFiniteSet(DOMAIN again) /\ AllSound(again)
        /\ \A r \in DOMAIN first : r \in DOMAIN again /\ again[r] = first[r]
        /\ page.direct \subseteq Apps /\ IsFiniteSet(page.direct)
    BY <2>2 DEF CabinetPage
  <2>4. IsFiniteSet(ClientRows) /\ 0 \notin ClientRows
    <3>1. IsFiniteSet({again[r].app : r \in DOMAIN again})
      <4> DEFINE client == [r \in DOMAIN again |-> again[r].app]
      <4>1. client \in Surjection(DOMAIN again, {again[r].app : r \in DOMAIN again})
        BY DEF Surjection
      <4>2. QED
        BY <2>3, <4>1, FS_Surjection
    <3>2. IsFiniteSet({again[r].app : r \in DOMAIN again} \ {0})
      BY <3>1, FS_Subset
    <3>3. IsFiniteSet(page.direct \cup ({again[r].app : r \in DOMAIN again} \ {0}))
      BY <2>3, <3>2, FS_Union
    <3>4. 0 \notin Apps
      BY CabinetAssumption DEF CabinetAssumption
    <3>5. QED
      BY <2>3, <3>3, <3>4 DEF ClientRows
  <2>5. SumOfRows = RewardTotals(again, RewardsOfAll(ClientRows))
    BY <2>3, <2>4, RowsSum
  <2>6. /\ RewardsOfAll(ClientRows) \cup RewardsOf(0) = DOMAIN again
        /\ RewardsOfAll(ClientRows) \cap RewardsOf(0) = {}
    BY <2>4 DEF RewardsOfAll, RewardsOf, ClientRows
  <2>7. Plus(SumOfRows, RewardTotals(again, RewardsOf(0))) = RewardTotals(again, DOMAIN again)
    <3>1. IsFiniteSet(RewardsOfAll(ClientRows)) /\ IsFiniteSet(RewardsOf(0))
      BY <2>3, <2>6, FS_Subset
    <3>2. \A r \in RewardsOfAll(ClientRows) \cup RewardsOf(0) : RewardOK(again[r])
      BY <2>3, <2>6 DEF AllSound
    <3>3. RewardTotals(again, RewardsOfAll(ClientRows) \cup RewardsOf(0))
            = Plus(RewardTotals(again, RewardsOfAll(ClientRows)), RewardTotals(again, RewardsOf(0)))
      BY <2>6, <3>1, <3>2, TotalsAdd
    <3>4. QED
      BY <2>5, <2>6, <3>3
  <2>8. Finance(first) = RewardTotals(first, DOMAIN first)
    BY <2>3, FinanceIsTotals
  <2>9. Finance(fresh) = RewardTotals(fresh, created)
    <3>1. DOMAIN fresh = created /\ \A r \in created : fresh[r] = again[r]
      OBVIOUS
    <3>2. AllSound(fresh)
      BY <2>3, <3>1 DEF AllSound
    <3>3. QED
      BY <3>1, <3>2, FinanceIsTotals
  <2>10. /\ RewardTotals(first, DOMAIN first) = RewardTotals(again, DOMAIN first)
         /\ RewardTotals(fresh, created) = RewardTotals(again, created)
    <3>1. ASSUME NEW t, NEW S \in SUBSET DOMAIN again, \A r \in S : t[r] = again[r]
          PROVE  RewardTotals(t, S) = RewardTotals(again, S)
      <4> DEFINE Paid(u) == {r \in S : Slug(u[r]) = "paid"}
                 Expected(u) == {r \in S : Slug(u[r]) \in {"pending", "scheduled"}}
      <4>1. Paid(t) = Paid(again) /\ Expected(t) = Expected(again)
        BY <3>1
      <4>2. IsFiniteSet(Paid(again)) /\ IsFiniteSet(Expected(again))
        BY <2>3, FS_Subset
      <4>3. \A r \in S : again[r].amount \in 0..2 /\ t[r].amount = again[r].amount
        BY <2>3, <3>1 DEF AllSound, RewardOK, RewardRecords
      <4>4. AmountOf(again, Paid(again)) = AmountOf(t, Paid(again))
        BY <4>2, <4>3, AmountsAgree
      <4>5. AmountOf(again, Expected(again)) = AmountOf(t, Expected(again))
        BY <4>2, <4>3, AmountsAgree
      <4>6. QED
        BY <4>1, <4>4, <4>5 DEF RewardTotals
    <3>2. DOMAIN first \in SUBSET DOMAIN again /\ \A r \in DOMAIN first : first[r] = again[r]
      BY <2>3
    <3>3. created \in SUBSET DOMAIN again /\ \A r \in created : fresh[r] = again[r]
      OBVIOUS
    <3>4. QED
      BY <3>1, <3>2, <3>3
  <2>11. RewardTotals(again, DOMAIN again)
           = Plus(RewardTotals(again, DOMAIN first), RewardTotals(again, created))
    <3>1. DOMAIN first \cup created = DOMAIN again /\ DOMAIN first \cap created = {}
      BY <2>3
    <3>2. IsFiniteSet(created)
      BY <2>3, FS_Subset
    <3>3. \A r \in DOMAIN first \cup created : RewardOK(again[r])
      BY <2>3, <3>1 DEF AllSound
    <3>4. RewardTotals(again, DOMAIN first \cup created)
            = Plus(RewardTotals(again, DOMAIN first), RewardTotals(again, created))
      BY <2>3, <3>1, <3>2, <3>3, TotalsAdd
    <3>5. QED
      BY <3>1, <3>4
  <2>12. QED
    BY <2>7, <2>8, <2>9, <2>10, <2>11
<1>2. QED
  BY <1>1, CabinetSound, PTL
-----------------------------------------------------------------------------
(* The level track *)

LEMMA LevelIs ==
  ASSUME NEW n \in Nat
  PROVE  LevelForContracts(n) = IF n <= 1 THEN 1 ELSE IF n <= 3 THEN 2 ELSE IF n <= 5 THEN 3 ELSE 4
<1> DEFINE passed == {k \in DOMAIN UpperBounds : n > UpperBounds[k]}
<1>1. DOMAIN UpperBounds = 1..3 /\ UpperBounds[1] = 1 /\ UpperBounds[2] = 3 /\ UpperBounds[3] = 5
  BY DEF UpperBounds
<1>2. passed = IF n <= 1 THEN 1..0 ELSE IF n <= 3 THEN 1..1 ELSE IF n <= 5 THEN 1..2 ELSE 1..3
  BY <1>1
<1>3. /\ Cardinality(1..0) = 0 /\ Cardinality(1..1) = 1
      /\ Cardinality(1..2) = 2 /\ Cardinality(1..3) = 3
  <2>1. \A b \in 0..3 : Cardinality(1..b) = IF 1 > b THEN 0 ELSE b - 1 + 1
    BY FS_Interval
  <2>2. QED
    BY <2>1
<1>4. LevelForContracts(n) = 1 + Cardinality(passed)
  BY DEF LevelForContracts
<1> HIDE DEF passed
<1>5. QED
  BY <1>2, <1>3, <1>4

\* A segment of the track is full when its two contracts are there.
LEMMA FillIs ==
  ASSUME NEW n \in Nat, NEW k \in 1..3
  PROVE  (LevelProgress(n, 0).fills[k] = 100) = (n >= 2 * k)
<1> DEFINE x == n - 2 * (k - 1)
<1>1. LevelMinimum[k] = 2 * (k - 1) /\ LevelMinimum[k + 1] = 2 * k
  BY DEF LevelMinimum
<1>2. LevelProgress(n, 0).fills[k] = Clamp(10 * ((10 * x) \div (2 * k - 2 * (k - 1))))
  BY <1>1 DEF LevelProgress
<1>3. 2 * k - 2 * (k - 1) = 2 /\ x \in Int
  OBVIOUS
<1>4. (10 * x) \div 2 = 5 * x
  BY <1>3
<1>5. LevelProgress(n, 0).fills[k] = Clamp(10 * (5 * x))
  BY <1>2, <1>3, <1>4
<1>6. (Clamp(10 * (5 * x)) = 100) = (x >= 2)
  BY <1>3 DEF Clamp
<1>7. QED
  BY <1>5, <1>6

\* For any number of contracts, a segment of the track is full when its level is
\* reached, and the contracts said to be missing lead to the next level, no fewer
\* (build_level_progress, level_for_contracts).
THEOREM TrackAgreesAlways == Spec => []TrackAgrees
<1>1. ASSUME NEW n \in 0..MaxContracts, NEW l \in 0..4
      PROVE  LET shown == LevelProgress(n, l) IN
             /\ \A k \in 1..3 : (shown.fills[k] = 100) = (shown.level > k)
             /\ l = 0 /\ shown.level < 4 =>
                  /\ LevelForContracts(n + shown.toNext) = shown.level + 1
                  /\ LevelForContracts(n + shown.toNext - 1) = shown.level
  <2> DEFINE shown == LevelProgress(n, l)
  <2>0. n \in Nat
    BY CabinetAssumption DEF CabinetAssumption
  <2>1. CASE l = 0
    <3>1. shown.level = LevelForContracts(n)
      BY <2>1 DEF LevelProgress
    <3>2. \A k \in 1..3 : (shown.fills[k] = 100) = (n >= 2 * k)
      BY <2>0, <2>1, FillIs
    <3>3. \A k \in 1..3 : (LevelForContracts(n) > k) = (n >= 2 * k)
      BY <2>0, LevelIs
    <3>4. shown.level < 4 => shown.toNext = 2 * shown.level - n
      <4>1. shown.toNext = IF shown.level = 4 THEN 0 ELSE LevelMinimum[shown.level + 1] - n
        BY <2>1 DEF LevelProgress
      <4>2. shown.level \in 1..4
        BY <2>0, <3>1, LevelIs
      <4>3. \A k \in 1..3 : LevelMinimum[k + 1] = 2 * k
        BY DEF LevelMinimum
      <4> HIDE DEF shown
      <4>4. QED
        BY <4>1, <4>2, <4>3
    <3> HIDE DEF shown
    <3>5. ASSUME shown.level < 4
          PROVE  /\ LevelForContracts(n + shown.toNext) = shown.level + 1
                 /\ LevelForContracts(n + shown.toNext - 1) = shown.level
      <4>1. shown.level \in 1..3
        BY <2>0, <3>1, <3>5, LevelIs
      <4>2. n + shown.toNext = 2 * shown.level /\ n + shown.toNext - 1 = 2 * shown.level - 1
        BY <2>0, <3>4, <3>5, <4>1
      <4>3. \A k \in 1..3 : LevelForContracts(2 * k) = k + 1 /\ LevelForContracts(2 * k - 1) = k
        BY LevelIs
      <4>4. QED
        BY <4>1, <4>2, <4>3
    <3>6. QED
      BY <3>1, <3>2, <3>3, <3>5 DEF shown
  <2>2. CASE l # 0
    <3>1. shown.level = l /\ \A k \in 1..3 : shown.fills[k] = IF k < l THEN 100 ELSE 0
      BY <2>2 DEF LevelProgress
    <3>2. \A k \in 1..3 : (shown.fills[k] = 100) = (shown.level > k)
      BY <3>1
    <3>3. QED
      BY <2>2, <3>2
  <2>3. QED
    BY <2>1, <2>2
<1>2. TrackFits
  BY <1>1 DEF TrackFits
<1>3. \A a \in Viewers, l \in 1..4 : CurrentProgress(a, l).level = l
  BY DEF CurrentProgress, LevelProgress
<1>4. TrackAgrees
  BY <1>2, <1>3 DEF TrackAgrees
<1>5. QED
  BY <1>4, PTL
-----------------------------------------------------------------------------
(* Orders of finite sets *)

\* R orders S strictly and totally.
Orders(R, S) ==
  /\ \A x \in S : <<x, x>> \notin R
  /\ \A x, y \in S : x # y => <<x, y>> \in R \/ <<y, x>> \in R
  /\ \A x, y, z \in S : <<x, y>> \in R /\ <<y, z>> \in R => <<x, z>> \in R

Rank(R, S, x) == Cardinality({y \in S : <<y, x>> \in R})

\* The ranks number the set from 0 on.
LEMMA RanksNumber ==
  ASSUME NEW S, IsFiniteSet(S), NEW R, Orders(R, S)
  PROVE  /\ Cardinality(S) \in Nat
         /\ \A x \in S : Rank(R, S, x) \in 0..(Cardinality(S) - 1)
         /\ \A x, z \in S : <<x, z>> \in R => Rank(R, S, x) < Rank(R, S, z)
         /\ \A k \in 0..(Cardinality(S) - 1) : \E x \in S : Rank(R, S, x) = k
<1> DEFINE before(x) == {y \in S : <<y, x>> \in R}
           rank == [x \in S |-> Rank(R, S, x)]
           places == 0..(Cardinality(S) - 1)
<1>1. Cardinality(S) \in Nat
  BY FS_CardinalityType
<1>2. ASSUME NEW x \in S
      PROVE  /\ before(x) \in SUBSET (S \ {x}) /\ IsFiniteSet(before(x))
             /\ Cardinality(before(x)) \in places /\ Cardinality(before(x)) \in Nat
  <2>1. before(x) \in SUBSET (S \ {x})
    BY DEF Orders
  <2>2. IsFiniteSet(S \ {x}) /\ Cardinality(S \ {x}) = Cardinality(S) - 1
    BY FS_RemoveElement
  <2> HIDE DEF before
  <2>3. IsFiniteSet(before(x)) /\ Cardinality(before(x)) <= Cardinality(S \ {x})
    BY <2>1, <2>2, FS_Subset
  <2>4. Cardinality(before(x)) \in Nat
    BY <2>3, FS_CardinalityType
  <2>5. QED
    BY <1>1, <2>1, <2>2, <2>3, <2>4
<1>3. ASSUME NEW x \in S, NEW z \in S, <<x, z>> \in R
      PROVE  Cardinality(before(x)) < Cardinality(before(z))
  <2>1. \A y \in S : <<y, x>> \in R => <<y, z>> \in R
    BY <1>3 DEF Orders
  <2>2. before(x) \in SUBSET before(z) /\ x \in before(z)
    BY <1>3, <2>1
  <2>3. x \notin before(x)
    BY DEF Orders
  <2>4. /\ IsFiniteSet(before(z))
        /\ Cardinality(before(x)) \in Nat /\ Cardinality(before(z)) \in Nat
    BY <1>2
  <2> HIDE DEF before
  <2>5. /\ Cardinality(before(x)) <= Cardinality(before(z))
        /\ Cardinality(before(z)) = Cardinality(before(x)) => before(z) = before(x)
    BY <2>2, <2>4, FS_Subset
  <2>6. QED
    BY <2>2, <2>3, <2>4, <2>5
<1>4. \A x \in S : Rank(R, S, x) = Cardinality(before(x))
  BY DEF Rank
<1>5. rank \in Injection(S, places)
  <2>1. \A x \in S : rank[x] = Cardinality(before(x))
    BY <1>4
  <2> HIDE DEF before
  <2>2. ASSUME NEW x \in S, NEW z \in S, x # z PROVE rank[x] # rank[z]
    <3>1. <<x, z>> \in R \/ <<z, x>> \in R
      BY <2>2 DEF Orders
    <3>2. rank[x] = Cardinality(before(x)) /\ rank[z] = Cardinality(before(z))
      BY <2>1
    <3>3. Cardinality(before(x)) \in Nat /\ Cardinality(before(z)) \in Nat
      BY <1>2
    <3> HIDE DEF rank
    <3>4. CASE <<x, z>> \in R
      <4>1. Cardinality(before(x)) < Cardinality(before(z))
        BY <1>3, <3>4
      <4>2. QED
        BY <3>2, <3>3, <4>1
    <3>5. CASE <<z, x>> \in R
      <4>1. Cardinality(before(z)) < Cardinality(before(x))
        BY <1>3, <3>5
      <4>2. QED
        BY <3>2, <3>3, <4>1
    <3>6. QED
      BY <3>1, <3>4, <3>5
  <2>3. rank \in [S -> places]
    BY <1>2, <1>4
  <2>4. QED
    BY <2>2, <2>3 DEF Injection, IsInjective
<1>6. IsFiniteSet(places) /\ Cardinality(places) = Cardinality(S)
  <2>1. Cardinality(S) - 1 \in Int
    BY <1>1
  <2>2. /\ IsFiniteSet(places)
        /\ Cardinality(places) = IF 0 > Cardinality(S) - 1 THEN 0 ELSE Cardinality(S) - 1 - 0 + 1
    BY <2>1, FS_Interval
  <2> HIDE DEF places
  <2>3. QED
    BY <1>1, <2>2
<1>7. rank \in Surjection(S, places)
  BY <1>5, <1>6, FS_Injection
<1>8. \A k \in places : \E x \in S : rank[x] = k
  BY <1>7 DEF Surjection
<1> HIDE DEF before
<1>9. QED
  BY <1>1, <1>2, <1>3, <1>4, <1>8

\* A finite set, from the first to the last.
Enumerates(q, R, S) ==
  /\ q \in [1..Cardinality(S) -> S]
  /\ \A m, n \in 1..Cardinality(S) : m < n => <<q[m], q[n]>> \in R

\* Everything is enumerated, at its rank.
LEMMA EnumerationRanks ==
  ASSUME NEW S, IsFiniteSet(S), NEW R, Orders(R, S), NEW q, Enumerates(q, R, S)
  PROVE  /\ \A x \in S : \E m \in 1..Cardinality(S) : q[m] = x
         /\ \A m, n \in 1..Cardinality(S) : q[m] = q[n] => m = n
         /\ \A m \in 1..Cardinality(S) : Rank(R, S, q[m]) = m - 1
<1> DEFINE size == Cardinality(S)
<1>1. size \in Nat /\ IsFiniteSet(1..size) /\ Cardinality(1..size) = size
  <2>1. size \in Nat
    BY FS_CardinalityType
  <2> HIDE DEF size
  <2>2. IsFiniteSet(1..size) /\ Cardinality(1..size) = IF 1 > size THEN 0 ELSE size - 1 + 1
    BY <2>1, FS_Interval
  <2>3. QED
    BY <2>1, <2>2
<1>2. q \in [1..size -> S] /\ \A m, n \in 1..size : m < n => <<q[m], q[n]>> \in R
  BY DEF Enumerates
<1>3. \A m, n \in 1..size : q[m] = q[n] => m = n
  <2>1. SUFFICES ASSUME NEW m \in 1..size, NEW n \in 1..size, m < n PROVE q[m] # q[n]
    BY <1>1
  <2>2. <<q[m], q[n]>> \in R
    BY <1>2, <2>1
  <2>3. q[m] \in S
    BY <1>2
  <2>4. QED
    BY <2>2, <2>3 DEF Orders
<1>4. q \in Injection(1..size, S)
  BY <1>2, <1>3 DEF Injection, IsInjective
<1>5. q \in Surjection(1..size, S)
  BY <1>1, <1>4, FS_Injection
<1>6. \A x \in S : \E m \in 1..size : q[m] = x
  BY <1>5 DEF Surjection
<1>7. ASSUME NEW n \in 1..size PROVE Rank(R, S, q[n]) = n - 1
  <2> DEFINE before == {y \in S : <<y, q[n]>> \in R}
             f == [m \in 1..(n - 1) |-> q[m]]
  <2>1. ASSUME NEW m \in 1..size PROVE <<q[m], q[n]>> \in R <=> m < n
    <3>1. q[m] \in S /\ q[n] \in S
      BY <1>2
    <3>2. CASE m < n
      BY <1>2, <3>2
    <3>3. CASE m = n
      BY <3>1, <3>3 DEF Orders
    <3>4. CASE n < m
      <4>1. <<q[n], q[m]>> \in R
        BY <1>2, <3>4
      <4>2. <<q[m], q[n]>> \notin R
        BY <3>1, <4>1 DEF Orders
      <4>3. QED
        BY <1>1, <3>4, <4>2
    <3>5. QED
      BY <1>1, <3>2, <3>3, <3>4
  <2>2. \A m \in 1..(n - 1) : m \in 1..size /\ m < n
    BY <1>1
  <2>3. f \in [1..(n - 1) -> before]
    BY <1>2, <2>1, <2>2
  <2>4. \A a, b \in 1..(n - 1) : f[a] = f[b] => a = b
    BY <1>3, <2>2
  <2>5. \A y \in before : \E m \in 1..(n - 1) : f[m] = y
    <3>1. SUFFICES ASSUME NEW y \in before PROVE \E m \in 1..(n - 1) : f[m] = y
      OBVIOUS
    <3>2. PICK m \in 1..size : q[m] = y
      BY <1>6
    <3>3. m \in 1..(n - 1)
      BY <1>1, <2>1, <3>2
    <3>4. QED
      BY <3>2, <3>3
  <2> HIDE DEF f, before
  <2>6. f \in Bijection(1..(n - 1), before)
    BY <2>3, <2>4, <2>5 DEF Bijection, Injection, Surjection, IsInjective
  <2>7. ExistsBijection(1..(n - 1), before) /\ n - 1 \in Nat
    BY <1>1, <2>6 DEF ExistsBijection
  <2>8. Cardinality(before) = n - 1
    BY <2>7, FS_CountingElements
  <2>9. QED
    BY <2>8 DEF Rank, before
<1>8. QED
  BY <1>3, <1>6, <1>7

\* There is one enumeration, and no other.
LEMMA EnumerationIs ==
  ASSUME NEW S, IsFiniteSet(S), NEW R, Orders(R, S)
  PROVE  /\ \E q : Enumerates(q, R, S)
         /\ \A p, q : Enumerates(p, R, S) /\ Enumerates(q, R, S) => p = q
<1> DEFINE size == Cardinality(S)
           at == [m \in 1..size |-> CHOOSE x \in S : Rank(R, S, x) = m - 1]
<1>1. /\ size \in Nat
      /\ \A x \in S : Rank(R, S, x) \in Nat
      /\ \A x, z \in S : <<x, z>> \in R => Rank(R, S, x) < Rank(R, S, z)
      /\ \A k \in 0..(size - 1) : \E x \in S : Rank(R, S, x) = k
  BY RanksNumber
<1>2. Enumerates(at, R, S)
  <2>1. ASSUME NEW m \in 1..size PROVE at[m] \in S /\ Rank(R, S, at[m]) = m - 1
    <3>1. m - 1 \in 0..(size - 1)
      BY <1>1
    <3>2. \E x \in S : Rank(R, S, x) = m - 1
      BY <1>1, <3>1
    <3>3. QED
      BY <3>2
  <2>2. at \in [1..size -> S]
    BY <2>1
  <2> HIDE DEF at
  <2>3. ASSUME NEW m \in 1..size, NEW n \in 1..size, m < n PROVE <<at[m], at[n]>> \in R
    <3>1. /\ at[m] \in S /\ Rank(R, S, at[m]) = m - 1
          /\ at[n] \in S /\ Rank(R, S, at[n]) = n - 1
      BY <2>1
    <3>2. ~(n - 1 < m - 1) /\ m - 1 # n - 1
      BY <1>1, <2>3
    <3>3. at[m] # at[n] /\ <<at[n], at[m]>> \notin R
      BY <1>1, <3>1, <3>2
    <3>4. QED
      BY <3>1, <3>3 DEF Orders
  <2>4. QED
    BY <2>2, <2>3 DEF Enumerates
<1>3. ASSUME NEW p, NEW q, Enumerates(p, R, S), Enumerates(q, R, S) PROVE p = q
  <2>1. p \in [1..size -> S] /\ q \in [1..size -> S]
    BY <1>3 DEF Enumerates
  <2>2. ASSUME NEW m \in 1..size PROVE p[m] = q[m]
    <3>1. Rank(R, S, p[m]) = m - 1 /\ Rank(R, S, q[m]) = m - 1
      BY <1>3, EnumerationRanks
    <3>2. p[m] \in S /\ q[m] \in S
      BY <2>1
    <3>3. <<p[m], q[m]>> \notin R /\ <<q[m], p[m]>> \notin R
      BY <1>1, <3>1, <3>2
    <3>4. QED
      BY <3>2, <3>3 DEF Orders
  <2> HIDE DEF size
  <2>3. p = [m \in 1..size |-> p[m]] /\ q = [m \in 1..size |-> q[m]]
    BY <2>1, Zenon
  <2>4. [m \in 1..size |-> p[m]] = [m \in 1..size |-> q[m]]
    BY <2>2, Zenon
  <2>5. QED
    BY <2>3, <2>4, Zenon
<1>4. QED
  BY <1>2, <1>3
-----------------------------------------------------------------------------
(* The lists *)

\* The larger and the smaller of two.
LEMMA MaxMinOfTwo ==
  ASSUME NEW a \in Int, NEW b \in Int
  PROVE  /\ Lists!Max({a, b}) = IF a >= b THEN a ELSE b
         /\ Lists!Min({a, b}) = IF a <= b THEN a ELSE b
  BY DEF Lists!Max, Lists!Min

\* The lists count entries as sets are counted.
LEMMA SameSizes ==
  ASSUME NEW S
  PROVE  (Lists!IsFiniteSet(S) <=> IsFiniteSet(S)) /\ Lists!Cardinality(S) = Cardinality(S)
  BY DEF Lists!IsFiniteSet, Lists!Cardinality, IsFiniteSet, Cardinality

\* Division, by what it leaves.
LEMMA Division ==
  ASSUME NEW a \in Nat, NEW p \in Nat \ {0}
  PROVE  /\ a \div p \in Nat
         /\ (a \div p) * p <= a
         /\ a < (a \div p) * p + p
  OBVIOUS

\* Where pages begin and end.
LEMMA PageEnds ==
  ASSUME NEW a \in Nat, NEW b \in Nat
  PROVE  /\ PageSize \in Nat \ {0}
         /\ a * PageSize \in Nat /\ b * PageSize \in Nat
         /\ a <= b => a * PageSize <= b * PageSize
         /\ a * PageSize < b * PageSize => a < b
         /\ a > 0 => a - 1 \in Nat /\ (a - 1) * PageSize = a * PageSize - PageSize
         /\ 0 * PageSize = 0
  BY ListingAssumption DEF Lists!ListingConstants

\* The pages counted hold the entries, the last one at least one of them.
LEMMA PagesHold ==
  ASSUME NEW total \in Nat
  PROVE  /\ Lists!TotalPages(total) \in Nat \ {0}
         /\ total <= Lists!TotalPages(total) * PageSize
         /\ total = 0 \/ (Lists!TotalPages(total) - 1) * PageSize < total
<1> DEFINE up == total + PageSize - 1
           q == up \div PageSize
<1>1. PageSize \in Nat \ {0} /\ up \in Nat
  BY PageEnds
<1>2. q \in Nat /\ q * PageSize <= up /\ up < q * PageSize + PageSize
  BY <1>1, Division
<1>3. Lists!TotalPages(total) = IF q >= 1 THEN q ELSE 1
  BY <1>2, MaxMinOfTwo DEF Lists!TotalPages
<1> HIDE DEF q
<1>4. q * PageSize \in Nat /\ (q > 0 => (q - 1) * PageSize = q * PageSize - PageSize)
  BY <1>2, PageEnds
<1>5. CASE q = 0
  <2>1. q * PageSize = 0
    BY <1>5, PageEnds
  <2>2. total = 0
    BY <1>1, <1>2, <2>1
  <2>3. QED
    BY <1>1, <1>3, <1>5, <2>2
<1>6. CASE q # 0
  BY <1>1, <1>2, <1>3, <1>4, <1>6
<1>7. QED
  BY <1>5, <1>6

\* The page shown is one of those, and not after the one asked for.
LEMMA PageShown ==
  ASSUME NEW m \in Nat, NEW total \in Nat
  PROVE  /\ Lists!ShownPage(m, total) \in 1..Lists!TotalPages(total)
         /\ m >= 1 => Lists!ShownPage(m, total) <= m
         /\ m <= 1 => Lists!ShownPage(m, total) = 1
<1>1. Lists!TotalPages(total) \in Nat \ {0}
  BY PagesHold
<1>2. Lists!Max({m, 1}) = IF m >= 1 THEN m ELSE 1
  BY MaxMinOfTwo
<1>3. PICK asked \in Nat \ {0}, pages \in Nat \ {0} :
        /\ asked = Lists!Max({m, 1}) /\ asked = (IF m >= 1 THEN m ELSE 1)
        /\ pages = Lists!TotalPages(total)
  BY <1>1, <1>2
<1>4. Lists!Min({asked, pages}) = IF asked <= pages THEN asked ELSE pages
  BY MaxMinOfTwo
<1>5. Lists!ShownPage(m, total) = IF asked <= pages THEN asked ELSE pages
  BY <1>3, <1>4 DEF Lists!ShownPage
<1>6. QED
  BY <1>3, <1>5

\* The entries listed that are newer than one.
Newer(r) == {s \in listed : Created[s] > Created[r]}
Above(r) == Cardinality(Newer(r))

\* Sets of entries have a size, and a part is not larger than the whole.
LEMMA EntriesCount ==
  ASSUME NEW S, S \subseteq Entries, NEW T, T \subseteq S
  PROVE  /\ IsFiniteSet(S) /\ IsFiniteSet(T)
         /\ Cardinality(S) \in Nat /\ Cardinality(T) \in Nat
         /\ Cardinality(T) <= Cardinality(S)
         /\ Cardinality(T) = Cardinality(S) => S = T
         /\ \A r \in S \ T : Cardinality(T) < Cardinality(S)
<1>1. IsFiniteSet(S)
  <2>1. IsFiniteSet(Entries) /\ S \in SUBSET Entries
    BY ListingAssumption, SameSizes DEF Lists!ListingConstants
  <2>2. QED
    BY <2>1, FS_Subset
<1>2. /\ IsFiniteSet(T) /\ Cardinality(T) <= Cardinality(S)
      /\ Cardinality(T) = Cardinality(S) => S = T
  <2>1. T \in SUBSET S
    OBVIOUS
  <2>2. QED
    BY <1>1, <2>1, FS_Subset
<1>3. Cardinality(S) \in Nat /\ Cardinality(T) \in Nat
  BY <1>1, <1>2, FS_CardinalityType
<1>4. ASSUME NEW r \in S \ T PROVE Cardinality(T) < Cardinality(S)
  <2>1. S # T
    BY <1>4
  <2>2. QED
    BY <1>2, <1>3, <2>1
<1>5. QED
  BY <1>1, <1>2, <1>3, <1>4

\* So many rows there are among the first n.
LEMMA FirstRowsCount ==
  ASSUME NEW S, NEW n \in Nat, Cardinality(S) \in Nat, NEW K \in Lists!FirstRows(S, n)
  PROVE  Cardinality(K) = IF n <= Cardinality(S) THEN n ELSE Cardinality(S)
<1>1. Lists!Cardinality(K) = Lists!Min({n, Lists!Cardinality(S)})
  BY DEF Lists!FirstRows
<1>2. PICK c \in Nat : c = Cardinality(S)
  OBVIOUS
<1>3. Cardinality(K) = Lists!Min({n, c})
  <2>1. Lists!Cardinality(S) = c /\ Lists!Cardinality(K) = Cardinality(K)
    BY <1>2, SameSizes, Zenon
  <2>2. QED
    BY <1>1, <2>1, Zenon
<1>4. Lists!Min({n, c}) = IF n <= c THEN n ELSE c
  BY MaxMinOfTwo
<1>5. QED
  BY <1>2, <1>3, <1>4

\* An entry that shares its created_at with no other is among the first n rows if
\* fewer than n are newer.
LEMMA PlaceOf ==
  ASSUME NEW n \in Nat, listed \subseteq Entries, NEW K \in Lists!FirstRows(listed, n),
         NEW r \in listed, \A s \in listed \ {r} : Created[s] # Created[r]
  PROVE  r \in K <=> Above(r) < n
<1>1. /\ K \subseteq listed
      /\ \A x \in K, s \in listed \ K : Created[x] >= Created[s]
  BY DEF Lists!FirstRows
<1>2. Cardinality(listed) \in Nat /\ Cardinality(K) \in Nat
  BY <1>1, EntriesCount
<1>3. Cardinality(K) = IF n <= Cardinality(listed) THEN n ELSE Cardinality(listed)
  BY <1>2, FirstRowsCount
<1>4. \A s \in listed : Created[s] \in Nat
  BY ListingAssumption DEF Lists!ListingConstants
<1>5. r \notin Newer(r) /\ Newer(r) \subseteq listed
  BY <1>4 DEF Newer
<1>6. CASE r \in K
  <2>1. Newer(r) \subseteq K
    <3>1. ASSUME NEW s \in Newer(r), s \notin K PROVE FALSE
      <4>1. s \in listed \ K /\ Created[s] > Created[r]
        BY <3>1 DEF Newer
      <4>2. QED
        BY <1>1, <1>4, <1>6, <4>1
    <3>2. QED
      BY <3>1
  <2>2. Above(r) < Cardinality(K) /\ Above(r) \in Nat
    BY <1>1, <1>5, <1>6, <2>1, EntriesCount DEF Above
  <2>3. QED
    BY <1>2, <1>3, <1>6, <2>2
<1>7. CASE r \notin K
  <2>1. K \subseteq Newer(r)
    <3>1. ASSUME NEW x \in K PROVE x \in Newer(r)
      <4>1. x \in listed \ {r} /\ Created[x] >= Created[r] /\ Created[x] # Created[r]
        BY <1>1, <1>7, <3>1
      <4>2. QED
        BY <1>4, <4>1 DEF Newer
    <3>2. QED
      BY <3>1
  <2>2. Cardinality(K) <= Above(r) /\ Above(r) \in Nat /\ Above(r) < Cardinality(listed)
    BY <1>5, <2>1, EntriesCount DEF Above
  <2>3. QED
    BY <1>2, <1>3, <1>7, <2>2
<1>8. QED
  BY <1>6, <1>7

\* Shapes of the lists' state.
Views ==
  [at : {"none", "counted", "done"}, n : Nat \ {0}, pages : Nat, total : Nat, size : Nat,
   rows : SUBSET Entries, again : SUBSET Entries]

Walks ==
  [from : SUBSET Entries, on : [Entries -> Nat], came : SUBSET Entries,
   gone : SUBSET Entries, late : SUBSET Entries]

ListTypes ==
  listed \subseteq Entries /\ view \in Views /\ walk \in Walks
  /\ walk.from \ walk.gone \subseteq listed

\* What may hide an entry from a walk, and what may show it again.
Lost(r) == Lists!AsNew(walk.gone, r) \/ Lists!Tied(r)
Passed(r) == Lists!AsNew(walk.came, r) \/ Lists!Tied(r)

\* An entry not seen so far has all the entries seen above it,
UnseenBelow ==
  \A r \in walk.from \ walk.gone :
    walk.on[r] = 0 /\ ~Lost(r) =>
      /\ view.at = "counted" => (view.n - 1) * PageSize <= Above(r)
      /\ view.at = "done" => view.n * PageSize <= Above(r)

\* and one seen has no more above it than came to the end of its page.
SeenAbove ==
  \A r \in Entries :
    walk.on[r] # 0 /\ ~Passed(r) => Above(r) < walk.on[r] * PageSize

\* The last page counted holds all that was there.
LastHolds ==
  view.at = "counted" /\ view.n = view.pages =>
    \A r \in walk.from \ walk.gone :
      ~Lists!AsNew(walk.late, r) => Above(r) < view.n * PageSize

\* A page counted begins among the entries counted.
PageBegins ==
  view.at # "none" => view.total = 0 \/ (view.n - 1) * PageSize < view.total

ListInv ==
  ListTypes /\ UnseenBelow /\ SeenAbove /\ LastHolds /\ PageBegins /\ ListsComplete

LEMMA ListInit == Lists!Init => ListInv
<1> SUFFICES ASSUME Lists!Init PROVE ListInv
  OBVIOUS
<1>1. ListTypes
  BY ListingAssumption
     DEF Lists!Init, ListTypes, Views, Walks, Lists!NoView, Lists!WalkOver, Lists!ListingConstants
<1>2. view.at = "none" /\ walk.from = {} /\ \A r \in Entries : walk.on[r] = 0
  BY DEF Lists!Init, Lists!NoView, Lists!WalkOver
<1>3. QED
  BY <1>1, <1>2
     DEF ListInv, UnseenBelow, SeenAbove, LastHolds, PageBegins, ListsComplete, Lists!ListsComplete

\* The entries above one are as many as before unless a newer one comes or goes.
LEMMA AboveKept ==
  ASSUME ListTypes, listed' \subseteq Entries, NEW r \in Entries
  PROVE  /\ Above(r) \in Nat /\ Above(r)' \in Nat
         /\ listed \subseteq listed' => Above(r) <= Above(r)'
         /\ listed' \subseteq listed => Above(r)' <= Above(r)
         /\ (\A s \in listed' \ listed : ~(Created[s] > Created[r])) => Above(r)' <= Above(r)
         /\ (\A s \in listed \ listed' : ~(Created[s] > Created[r])) => Above(r) <= Above(r)'
<1> DEFINE N == Newer(r)
           M == {s \in listed' : Created[s] > Created[r]}
<1>1. Above(r) = Cardinality(N) /\ Above(r)' = Cardinality(M)
  BY DEF Above, Newer
<1>2. N \subseteq Entries /\ M \subseteq Entries
  BY DEF Newer, ListTypes
<1>3. Cardinality(N) \in Nat /\ Cardinality(M) \in Nat
  BY <1>2, EntriesCount
<1>4. /\ listed \subseteq listed' => N \subseteq M
      /\ listed' \subseteq listed => M \subseteq N
      /\ (\A s \in listed' \ listed : ~(Created[s] > Created[r])) => M \subseteq N
      /\ (\A s \in listed \ listed' : ~(Created[s] > Created[r])) => N \subseteq M
  BY DEF Newer
<1>5. /\ N \subseteq M => Cardinality(N) <= Cardinality(M)
      /\ M \subseteq N => Cardinality(M) <= Cardinality(N)
  BY <1>2, EntriesCount
<1> HIDE DEF N, M
<1>6. QED
  BY <1>1, <1>3, <1>4, <1>5

\* Entries as new as one, of the times entries have.
LEMMA AsNewIs ==
  ASSUME NEW S, S \subseteq Entries, NEW r \in Entries
  PROVE  /\ ~Lists!AsNew(S, r) => \A s \in S : s = r \/ ~(Created[s] > Created[r])
         /\ ~Lists!AsNew(S, r) => \A s \in S : ~(Created[s] > Created[r])
<1>1. \A s \in Entries : Created[s] \in Nat
  BY ListingAssumption DEF Lists!ListingConstants
<1>2. QED
  BY <1>1 DEF Lists!AsNew

\* An entry that comes.
LEMMA ListCome ==
  ASSUME ListInv, NEW e \in Entries, Lists!Come(e)
  PROVE  ListInv'
<1>1. /\ ListTypes /\ listed' = listed \cup {e} /\ view' = view
      /\ walk' = [walk EXCEPT !.came = @ \cup {e}, !.late = @ \cup {e}]
  BY DEF ListInv, Lists!Come
<1>2. /\ walk' \in Walks /\ walk'.from = walk.from /\ walk'.on = walk.on
      /\ walk'.gone = walk.gone /\ walk'.came = walk.came \cup {e}
      /\ walk'.late = walk.late \cup {e}
  BY <1>1 DEF ListTypes, Walks
<1>3. ListTypes'
  BY <1>1, <1>2 DEF ListTypes
<1>4. /\ walk.from \subseteq Entries /\ walk.came \subseteq Entries /\ walk.late \subseteq Entries
      /\ \A r \in Entries : Above(r) \in Nat /\ Above(r)' \in Nat /\ Above(r) <= Above(r)'
  BY <1>1, <1>3, AboveKept DEF ListTypes, Walks
<1>5. /\ \A r : Lists!Tied(r) => Lists!Tied(r)'
      /\ \A r : Lists!AsNew(walk.gone, r)' <=> Lists!AsNew(walk.gone, r)
      /\ \A r : Lists!AsNew(walk.came, r) => Lists!AsNew(walk.came, r)'
      /\ \A r : Lists!AsNew(walk.late, r) => Lists!AsNew(walk.late, r)'
  BY <1>1, <1>2 DEF Lists!Tied, Lists!AsNew
<1>6. ASSUME NEW r \in Entries, ~Lists!AsNew(walk'.came, r) \/ ~Lists!AsNew(walk'.late, r)
      PROVE  Above(r)' <= Above(r)
  <2>1. ~(Created[e] > Created[r])
    BY <1>2, <1>4, <1>6, AsNewIs
  <2>2. QED
    BY <1>1, <1>3, <2>1, AboveKept DEF ListTypes
<1>7. /\ \A r : Lists!AsNew(walk.came, r)' <=> Lists!AsNew(walk'.came, r)
      /\ \A r : Lists!AsNew(walk.late, r)' <=> Lists!AsNew(walk'.late, r)
  BY DEF Lists!AsNew
<1>8. view.n \in Nat \ {0} /\ (view.n - 1) * PageSize \in Nat /\ view.n * PageSize \in Nat
  BY <1>1, PageEnds DEF ListTypes, Views
<1>9. UnseenBelow'
  BY <1>1, <1>2, <1>4, <1>5, <1>8 DEF ListInv, UnseenBelow, Lost
<1>10. SeenAbove'
  <2>1. \A r \in Entries : walk.on[r] * PageSize \in Nat
    <3>1. \A r \in Entries : walk.on[r] \in Nat
      BY <1>1 DEF ListTypes, Walks
    <3>2. QED
      BY <3>1, PageEnds
  <2>2. ASSUME NEW r \in Entries, walk'.on[r] # 0, ~Passed(r)'
        PROVE  Above(r)' < walk'.on[r] * PageSize
    <3>1. walk.on[r] # 0 /\ ~Passed(r) /\ ~Lists!AsNew(walk'.came, r)
      BY <1>2, <1>5, <1>7, <2>2 DEF Passed
    <3>2. Above(r) < walk.on[r] * PageSize /\ Above(r)' <= Above(r)
      BY <1>6, <3>1 DEF ListInv, SeenAbove
    <3>3. QED
      BY <1>2, <1>4, <2>1, <3>2
  <2>3. QED
    BY <2>2 DEF SeenAbove
<1>11. LastHolds'
  <2>1. ASSUME NEW r \in walk.from \ walk.gone, ~Lists!AsNew(walk'.late, r),
               Above(r) < view.n * PageSize
        PROVE  Above(r)' < view.n * PageSize
    BY <1>4, <1>6, <1>8, <2>1
  <2>2. QED
    BY <1>1, <1>2, <1>5, <1>7, <2>1 DEF ListInv, LastHolds
<1>12. PageBegins'
  BY <1>1 DEF ListInv, PageBegins
<1>13. ListsComplete'
  BY <1>1, <1>2, <1>5 DEF ListInv, ListsComplete, Lists!ListsComplete
<1>14. QED
  BY <1>3, <1>9, <1>10, <1>11, <1>12, <1>13 DEF ListInv

\* An entry that goes.
LEMMA ListGo ==
  ASSUME ListInv, NEW e \in Entries, Lists!Go(e)
  PROVE  ListInv'
<1>1. /\ ListTypes /\ e \in listed /\ listed' = listed \ {e} /\ view' = view
      /\ walk' = [walk EXCEPT !.gone = @ \cup {e}]
  BY DEF ListInv, Lists!Go
<1>2. /\ walk' \in Walks /\ walk'.from = walk.from /\ walk'.on = walk.on
      /\ walk'.gone = walk.gone \cup {e} /\ walk'.came = walk.came /\ walk'.late = walk.late
  BY <1>1 DEF ListTypes, Walks
<1>3. ListTypes'
  BY <1>1, <1>2 DEF ListTypes
<1>4. /\ walk.from \subseteq Entries /\ walk'.gone \subseteq Entries
      /\ \A r \in Entries : Above(r) \in Nat /\ Above(r)' \in Nat /\ Above(r)' <= Above(r)
  BY <1>1, <1>2, <1>3, AboveKept DEF ListTypes, Walks
<1>5. /\ \A r : Lists!Tied(r)' <=> Lists!Tied(r)
      /\ \A r : Lists!AsNew(walk.gone, r) => Lists!AsNew(walk.gone, r)'
      /\ \A r : Lists!AsNew(walk.came, r)' <=> Lists!AsNew(walk.came, r)
      /\ \A r : Lists!AsNew(walk.late, r)' <=> Lists!AsNew(walk.late, r)
  <2>1. listed' \cup walk'.gone = listed \cup walk.gone
    BY <1>1, <1>2
  <2>2. QED
    BY <1>2, <2>1 DEF Lists!Tied, Lists!AsNew
<1>6. ASSUME NEW r \in Entries, ~Lists!AsNew(walk'.gone, r)
      PROVE  Above(r) <= Above(r)'
  <2>1. ~(Created[e] > Created[r])
    BY <1>2, <1>4, <1>6, AsNewIs
  <2>2. QED
    BY <1>1, <1>3, <2>1, AboveKept DEF ListTypes
<1>7. \A r : Lists!AsNew(walk.gone, r)' <=> Lists!AsNew(walk'.gone, r)
  BY DEF Lists!AsNew
<1>8. view.n \in Nat \ {0} /\ (view.n - 1) * PageSize \in Nat /\ view.n * PageSize \in Nat
  BY <1>1, PageEnds DEF ListTypes, Views
<1>9. UnseenBelow'
  <2>1. ASSUME NEW r \in walk'.from \ walk'.gone, walk'.on[r] = 0, ~Lost(r)'
        PROVE  /\ view.at = "counted" => (view.n - 1) * PageSize <= Above(r)'
               /\ view.at = "done" => view.n * PageSize <= Above(r)'
    <3>1. r \in walk.from \ walk.gone /\ walk.on[r] = 0 /\ r \in Entries
      BY <1>2, <1>4, <2>1
    <3>2. ~Lost(r) /\ ~Lists!AsNew(walk'.gone, r)
      BY <1>5, <1>7, <2>1 DEF Lost
    <3>3. Above(r) <= Above(r)' /\ Above(r) \in Nat /\ Above(r)' \in Nat
      BY <1>4, <1>6, <3>1, <3>2
    <3>4. /\ view.at = "counted" => (view.n - 1) * PageSize <= Above(r)
          /\ view.at = "done" => view.n * PageSize <= Above(r)
      BY <3>1, <3>2 DEF ListInv, UnseenBelow
    <3>5. QED
      BY <1>8, <3>3, <3>4
  <2>2. QED
    BY <1>1, <2>1 DEF UnseenBelow
<1>10. SeenAbove'
  <2>1. \A r \in Entries : walk.on[r] * PageSize \in Nat
    <3>1. \A r \in Entries : walk.on[r] \in Nat
      BY <1>1 DEF ListTypes, Walks
    <3>2. QED
      BY <3>1, PageEnds
  <2>2. QED
    BY <1>2, <1>4, <1>5, <2>1 DEF ListInv, SeenAbove, Passed
<1>11. LastHolds'
  BY <1>1, <1>2, <1>4, <1>5, <1>8 DEF ListInv, LastHolds
<1>12. PageBegins'
  BY <1>1 DEF ListInv, PageBegins
<1>13. ListsComplete'
  BY <1>1, <1>2, <1>5 DEF ListInv, ListsComplete, Lists!ListsComplete
<1>14. QED
  BY <1>3, <1>9, <1>10, <1>11, <1>12, <1>13 DEF ListInv

\* The count of a page.
LEMMA ListCount ==
  ASSUME ListInv, NEW m \in Nat, Lists!CountEntries(m)
  PROVE  ListInv'
<1> DEFINE total == Lists!Cardinality(listed)
           n == Lists!ShownPage(m, total)
           pages == Lists!TotalPages(total)
<1>1. ListTypes /\ listed' = listed
  BY DEF ListInv, Lists!CountEntries
<1>2. total = Cardinality(listed) /\ total \in Nat
  BY <1>1, EntriesCount, SameSizes DEF ListTypes
<1>3. n \in 1..pages /\ (m >= 1 => n <= m) /\ (m <= 1 => n = 1)
  BY <1>2, PageShown
<1>4. pages \in Nat \ {0} /\ total <= pages * PageSize /\ (total = 0 \/ (pages - 1) * PageSize < total)
  BY <1>2, PagesHold
<1>5. view' = [Lists!NoView EXCEPT !.at = "counted", !.n = n, !.pages = pages, !.total = total]
  BY DEF Lists!CountEntries
<1> HIDE DEF n, pages, total
<1>6. /\ view' \in Views /\ view'.at = "counted" /\ view'.n = n /\ view'.pages = pages
      /\ view'.total = total /\ n \in Nat /\ pages \in Nat
  <2>1. n \in Nat \ {0} /\ pages \in Nat
    BY <1>3, <1>4
  <2>2. view' = [at |-> "counted", n |-> n, pages |-> pages, total |-> total, size |-> 0,
                 rows |-> {}, again |-> {}]
    BY <1>5 DEF Lists!NoView
  <2>3. QED
    BY <1>2, <2>1, <2>2 DEF Views
<1>7. /\ (n - 1) * PageSize \in Nat /\ n * PageSize \in Nat
      /\ (n - 1) * PageSize <= (pages - 1) * PageSize
      /\ (pages - 1) * PageSize \in Nat /\ pages * PageSize \in Nat
  BY <1>3, <1>4, <1>6, PageEnds
<1>8. PageBegins'
  BY <1>2, <1>4, <1>6, <1>7 DEF PageBegins
<1>9. ListsComplete'
  BY <1>6 DEF ListsComplete, Lists!ListsComplete
<1>10. \A r : Above(r)' = Above(r)
  BY <1>1 DEF Above, Newer
<1>11. ASSUME NEW r \in listed, n = pages
       PROVE  Above(r) < n * PageSize
  <2>1. Newer(r) \subseteq listed /\ r \notin Newer(r) /\ listed \subseteq Entries
    BY <1>1, ListingAssumption DEF Newer, ListTypes, Lists!ListingConstants
  <2>2. Above(r) \in Nat /\ Above(r) < total
    BY <1>2, <1>11, <2>1, EntriesCount DEF Above
  <2>3. QED
    BY <1>2, <1>4, <1>7, <1>11, <2>2
<1>12. CASE Lists!Following(m)
  <2>1. walk' = [walk EXCEPT !.late = {}] /\ view.at = "done" /\ m = view.n + 1
    BY <1>12 DEF Lists!CountEntries, Lists!Following
  <2>2. /\ walk' \in Walks /\ walk'.from = walk.from /\ walk'.on = walk.on
        /\ walk'.gone = walk.gone /\ walk'.came = walk.came
    BY <1>1, <2>1 DEF ListTypes, Walks
  <2>3. ListTypes'
    BY <1>1, <1>6, <2>2 DEF ListTypes
  <2>4. \A r : (Lost(r)' <=> Lost(r)) /\ (Passed(r)' <=> Passed(r))
    BY <1>1, <2>2 DEF Lost, Passed, Lists!Tied, Lists!AsNew
  <2>5. LastHolds'
    BY <1>1, <1>6, <1>10, <1>11, <2>2 DEF LastHolds, ListTypes
  <2>6. SeenAbove'
    BY <1>10, <2>2, <2>4 DEF ListInv, SeenAbove
  <2>7. view.n \in Nat /\ view.n * PageSize \in Nat /\ (n - 1) * PageSize <= view.n * PageSize
    <3>1. view.n \in Nat \ {0} /\ n - 1 <= view.n /\ n - 1 \in Nat
      BY <1>1, <1>3, <1>6, <2>1 DEF ListTypes, Views
    <3>2. QED
      BY <3>1, PageEnds
  <2>8. UnseenBelow'
    <3>1. ASSUME NEW r \in walk.from \ walk.gone, walk.on[r] = 0, ~Lost(r)
          PROVE  (n - 1) * PageSize <= Above(r)
      <4>1. view.n * PageSize <= Above(r)
        BY <2>1, <3>1 DEF ListInv, UnseenBelow
      <4>2. Above(r) \in Nat
        BY <1>1, <3>1, AboveKept DEF ListTypes, Walks
      <4>3. QED
        BY <1>7, <2>7, <4>1, <4>2
    <3>2. QED
      BY <1>6, <1>10, <2>2, <2>4, <3>1 DEF UnseenBelow
  <2>9. QED
    BY <1>8, <1>9, <2>3, <2>5, <2>6, <2>8 DEF ListInv
<1>13. CASE ~Lists!Following(m)
  <2>1. walk' = Lists!WalkOver(IF m <= 1 THEN listed ELSE {})
    BY <1>13 DEF Lists!CountEntries
  <2>2. /\ walk' \in Walks /\ walk'.from \subseteq listed /\ (walk'.from # {} => n = 1)
        /\ walk'.gone = {} /\ \A r \in Entries : walk'.on[r] = 0
    BY <1>1, <1>3, <2>1 DEF Lists!WalkOver, Walks, ListTypes
  <2>3. ListTypes'
    BY <1>1, <1>6, <2>2 DEF ListTypes
  <2>4. LastHolds'
    BY <1>6, <1>10, <1>11, <2>2 DEF LastHolds
  <2>5. SeenAbove'
    BY <2>2 DEF SeenAbove
  <2>6. UnseenBelow'
    <3>1. ASSUME NEW r \in walk'.from
          PROVE  (n - 1) * PageSize <= Above(r)
      <4>1. n = 1 /\ Above(r) \in Nat
        BY <1>1, <2>2, <3>1, AboveKept DEF ListTypes
      <4>2. QED
        BY <4>1, PageEnds
    <3>2. QED
      BY <1>6, <1>10, <3>1 DEF UnseenBelow
  <2>7. QED
    BY <1>8, <1>9, <2>3, <2>4, <2>5, <2>6 DEF ListInv
<1>14. QED
  BY <1>12, <1>13

\* The rows of a page.
LEMMA ListRead ==
  ASSUME ListInv, Lists!ReadRows
  PROVE  ListInv'
<1>1. ListTypes /\ listed' = listed /\ view.at = "counted"
  BY DEF ListInv, Lists!ReadRows
<1>2. PICK n \in Nat \ {0} : n = view.n
  BY <1>1 DEF ListTypes, Views
<1>3. PICK K \in Lists!FirstRows(listed, (view.n - 1) * PageSize),
           J \in Lists!FirstRows(listed, view.n * PageSize) :
        /\ K \subseteq J
        /\ view' = [view EXCEPT !.at = "done", !.rows = J \ K, !.size = Lists!Cardinality(listed),
                                !.again = {r \in J \ K : walk.on[r] \in 1..(view.n - 1)}]
        /\ walk' = [walk EXCEPT !.on = [r \in Entries |->
                      IF r \in J \ K /\ @[r] = 0 THEN view.n ELSE @[r]]]
  BY Zenon DEF Lists!ReadRows
<1>4. J \subseteq listed /\ K \subseteq listed /\ listed \subseteq Entries
  BY <1>1 DEF Lists!FirstRows, ListTypes
<1>5. /\ view' \in Views /\ view'.at = "done" /\ view'.n = n /\ view'.pages = view.pages
      /\ view'.total = view.total /\ view'.size = Cardinality(listed) /\ view'.rows = J \ K
      /\ view'.again = {r \in J \ K : walk.on[r] \in 1..(n - 1)}
  <2>1. Cardinality(listed) \in Nat /\ Cardinality(listed) = Lists!Cardinality(listed)
    BY <1>4, EntriesCount, SameSizes
  <2>2. QED
    BY <1>1, <1>2, <1>3, <1>4, <2>1 DEF ListTypes, Views
<1>6. PICK on \in [Entries -> Nat] :
        on = [r \in Entries |-> IF r \in J \ K /\ walk.on[r] = 0 THEN n ELSE walk.on[r]]
  BY <1>1 DEF ListTypes, Walks
<1>7. /\ walk' \in Walks /\ walk'.on = on /\ walk'.from = walk.from /\ walk'.came = walk.came
      /\ walk'.gone = walk.gone /\ walk'.late = walk.late
  <2>1. walk' = [walk EXCEPT !.on = on]
    BY <1>2, <1>3, <1>6
  <2>2. QED
    BY <1>1, <2>1 DEF ListTypes, Walks
<1>8. ListTypes'
  BY <1>1, <1>5, <1>7 DEF ListTypes
<1>9. /\ (n - 1) * PageSize \in Nat /\ n * PageSize \in Nat
      /\ PageSize \in Nat \ {0} /\ (n - 1) * PageSize = n * PageSize - PageSize
  BY PageEnds
<1>10. ASSUME NEW r \in listed, ~Lists!Tied(r)
       PROVE  r \in J \ K <=> (n - 1) * PageSize <= Above(r) /\ Above(r) < n * PageSize
  <2>1. \A s \in listed \ {r} : Created[s] # Created[r]
    BY <1>10 DEF Lists!Tied
  <2>2. /\ K \in Lists!FirstRows(listed, (n - 1) * PageSize)
        /\ J \in Lists!FirstRows(listed, n * PageSize)
    BY <1>2
  <2>3. /\ r \in K <=> Above(r) < (n - 1) * PageSize
        /\ r \in J <=> Above(r) < n * PageSize
    BY <1>4, <1>9, <2>1, <2>2, PlaceOf
  <2>4. Above(r) \in Nat
    BY <1>1, <1>4, AboveKept
  <2>5. QED
    BY <1>9, <2>2, <2>3, <2>4
<1>11. /\ \A r : Above(r)' = Above(r)
       /\ \A r : (Lists!Tied(r)' <=> Lists!Tied(r)) /\ (Lost(r)' <=> Lost(r)) /\ (Passed(r)' <=> Passed(r))
       /\ \A r : Lists!AsNew(walk.late, r)' <=> Lists!AsNew(walk.late, r)
       /\ \A r : Lists!AsNew(walk.gone, r)' <=> Lists!AsNew(walk.gone, r)
       /\ \A r : Lists!AsNew(walk.came, r)' <=> Lists!AsNew(walk.came, r)
  BY <1>1, <1>7 DEF Above, Newer, Lost, Passed, Lists!Tied, Lists!AsNew
<1>12. \A r \in Entries : Above(r) \in Nat
  BY <1>1, <1>4, AboveKept
<1>13. ASSUME NEW r \in walk.from \ walk.gone, on[r] = 0, ~Lost(r)
       PROVE  n * PageSize <= Above(r)
  <2>1. r \in listed /\ ~Lists!Tied(r) /\ walk.on[r] = 0 /\ r \notin J \ K
    BY <1>1, <1>2, <1>4, <1>6, <1>13 DEF ListTypes, Lost
  <2>2. (n - 1) * PageSize <= Above(r)
    BY <1>1, <1>2, <1>13, <2>1 DEF ListInv, UnseenBelow
  <2>3. QED
    BY <1>4, <1>9, <1>10, <1>12, <2>1, <2>2
<1>14. UnseenBelow'
  BY <1>5, <1>7, <1>11, <1>13 DEF UnseenBelow
<1>15. SeenAbove'
  <2>1. ASSUME NEW r \in Entries, on[r] # 0, ~Passed(r)
        PROVE  Above(r) < on[r] * PageSize
    <3>1. CASE walk.on[r] # 0
      BY <1>6, <2>1, <3>1 DEF ListInv, SeenAbove
    <3>2. CASE walk.on[r] = 0
      <4>1. r \in J \ K /\ on[r] = n /\ ~Lists!Tied(r)
        BY <1>6, <2>1, <3>2 DEF Passed
      <4>2. QED
        BY <1>4, <1>10, <4>1
    <3>3. QED
      BY <3>1, <3>2
  <2>2. QED
    BY <1>7, <1>11, <2>1 DEF SeenAbove
<1>16. LastHolds' /\ PageBegins'
  BY <1>1, <1>2, <1>5 DEF ListInv, LastHolds, PageBegins
<1>17. ASSUME n = view.pages, NEW r \in walk.from \ walk.gone, on[r] = 0
       PROVE  Lists!AsNew(walk.gone, r) \/ Lists!AsNew(walk.late, r) \/ Lists!Tied(r)
  <2>1. CASE Lost(r)
    BY <2>1 DEF Lost
  <2>2. CASE ~Lost(r) /\ ~Lists!AsNew(walk.late, r)
    <3>1. Above(r) < n * PageSize
      BY <1>1, <1>2, <1>17, <2>2 DEF ListInv, LastHolds
    <3>2. n * PageSize <= Above(r) /\ Above(r) \in Nat
      BY <1>4, <1>1, <1>12, <1>13, <1>17, <2>2 DEF ListTypes
    <3>3. QED
      BY <1>9, <3>1, <3>2
  <2>3. QED
    BY <2>1, <2>2
<1>18. ASSUME NEW r \in view'.again
       PROVE  Lists!AsNew(walk.came, r) \/ Lists!Tied(r)
  <2>1. r \in J \ K /\ walk.on[r] \in 1..(n - 1) /\ r \in listed /\ r \in Entries
    BY <1>4, <1>5, <1>18
  <2>2. CASE ~Passed(r)
    <3>1. Above(r) < walk.on[r] * PageSize
      BY <2>1, <2>2 DEF ListInv, SeenAbove
    <3>2. walk.on[r] * PageSize \in Nat /\ walk.on[r] * PageSize <= (n - 1) * PageSize
      BY <2>1, PageEnds
    <3>3. (n - 1) * PageSize <= Above(r)
      BY <1>10, <2>1, <2>2 DEF Passed
    <3>4. QED
      BY <1>9, <1>12, <2>1, <3>1, <3>2, <3>3
  <2>3. QED
    BY <2>2 DEF Passed
<1>19. ASSUME J \ K = {}
       PROVE  view.total = 0 \/ Cardinality(listed) < view.total
  <2>1. J = K
    BY <1>3, <1>19
  <2>2. Cardinality(listed) \in Nat
    BY <1>4, EntriesCount
  <2>3. /\ Cardinality(J) = IF n * PageSize <= Cardinality(listed) THEN n * PageSize
                            ELSE Cardinality(listed)
        /\ Cardinality(K) = IF (n - 1) * PageSize <= Cardinality(listed) THEN (n - 1) * PageSize
                            ELSE Cardinality(listed)
    BY <1>2, <1>9, <2>2, FirstRowsCount
  <2>4. Cardinality(listed) <= (n - 1) * PageSize
    BY <1>9, <2>1, <2>2, <2>3
  <2>5. view.total = 0 \/ (n - 1) * PageSize < view.total
    BY <1>1, <1>2 DEF ListInv, PageBegins
  <2>6. view.total \in Nat
    BY <1>1 DEF ListTypes, Views
  <2>7. QED
    BY <1>9, <2>2, <2>4, <2>5, <2>6
<1>20. ListsComplete'
  BY <1>5, <1>7, <1>11, <1>17, <1>18, <1>19 DEF ListsComplete, Lists!ListsComplete
<1>21. QED
  BY <1>8, <1>14, <1>15, <1>16, <1>20 DEF ListInv

LEMMA ListNext == ListInv /\ [Lists!Next]_(Lists!vars) => ListInv'
<1> SUFFICES ASSUME ListInv, [Lists!Next]_(Lists!vars) PROVE ListInv'
  OBVIOUS
<1>1. CASE Lists!Next
  <2>1. \A m \in 0..MaxPage : m \in Nat
    OBVIOUS
  <2>2. QED
    BY <1>1, <2>1, ListCome, ListGo, ListCount, ListRead DEF Lists!Next
<1>2. CASE UNCHANGED Lists!vars
  BY <1>2 DEF Lists!vars, ListInv, ListTypes, UnseenBelow, SeenAbove, LastHolds, PageBegins,
     ListsComplete, Lists!ListsComplete, Lost, Passed, Above, Newer, Lists!Tied, Lists!AsNew
<1>3. QED
  BY <1>1, <1>2

-----------------------------------------------------------------------------
(* The FAQ table and its list *)

\* Rows that no two positions tie in.
Positioned(t) ==
  /\ IsFiniteSet(DOMAIN t) /\ DOMAIN t \subseteq Nat
  /\ t \in [DOMAIN t -> [text : Texts, position : Nat]]
  /\ \A i, j \in DOMAIN t : t[i].position = t[j].position => i = j

ByPosition(t) ==
  {e \in (DOMAIN t) \X (DOMAIN t) : t[e[1]].position < t[e[2]].position}

Show(t) ==
  [m \in 1..Cardinality(DOMAIN t) |-> [id |-> F!Listed(t)[m], text |-> t[F!Listed(t)[m]].text]]

LEMMA PositionsOrder ==
  ASSUME NEW t, Positioned(t)
  PROVE  Orders(ByPosition(t), DOMAIN t)
<1>1. \A i \in DOMAIN t : t[i].position \in Nat
  BY DEF Positioned
<1>2. \A i, j : <<i, j>> \in ByPosition(t)
               <=> i \in DOMAIN t /\ j \in DOMAIN t /\ t[i].position < t[j].position
  BY DEF ByPosition
<1>3. \A i, j \in DOMAIN t : t[i].position = t[j].position => i = j
  BY DEF Positioned
<1> HIDE DEF ByPosition
<1>4. QED
  BY <1>1, <1>2, <1>3 DEF Orders

\* ORDER BY position, id lists the rows by their positions, in the one way there is.
LEMMA ListedIs ==
  ASSUME NEW t, Positioned(t)
  PROVE  /\ Enumerates(F!Listed(t), ByPosition(t), DOMAIN t)
         /\ \A q : Enumerates(q, ByPosition(t), DOMAIN t) => q = F!Listed(t)
<1> DEFINE size == Cardinality(DOMAIN t)
           InOrder(q) == \A m, n \in DOMAIN q : m < n => F!Before(t, q[m], q[n])
<1>1. \A i, j \in DOMAIN t : i # j => (F!Before(t, i, j) <=> <<i, j>> \in ByPosition(t))
  BY DEF F!Before, Positioned, ByPosition
<1>2. \A i \in DOMAIN t : ~F!Before(t, i, i)
  BY DEF F!Before, Positioned
<1>3. \A i \in DOMAIN t : <<i, i>> \notin ByPosition(t)
  BY PositionsOrder DEF Orders
<1>4. ASSUME NEW q \in [1..size -> DOMAIN t]
      PROVE  InOrder(q) <=> Enumerates(q, ByPosition(t), DOMAIN t)
  <2>1. DOMAIN q = 1..size /\ \A m \in 1..size : q[m] \in DOMAIN t
    OBVIOUS
  <2>2. \A m, n \in 1..size : F!Before(t, q[m], q[n]) <=> <<q[m], q[n]>> \in ByPosition(t)
    BY <1>1, <1>2, <1>3, <2>1
  <2>3. QED
    BY <2>1, <2>2 DEF Enumerates
<1>5. F!Listed(t) = CHOOSE q \in [1..size -> DOMAIN t] : InOrder(q)
  BY DEF F!Listed, F!Cardinality, Cardinality
<1>6. IsFiniteSet(DOMAIN t) /\ Orders(ByPosition(t), DOMAIN t)
  BY PositionsOrder DEF Positioned
<1>7. PICK p : Enumerates(p, ByPosition(t), DOMAIN t)
  BY <1>6, EnumerationIs
<1>8. p \in [1..size -> DOMAIN t]
  BY <1>7 DEF Enumerates
<1>9. F!Listed(t) \in [1..size -> DOMAIN t] /\ InOrder(F!Listed(t))
  <2>1. \E q \in [1..size -> DOMAIN t] : InOrder(q)
    BY <1>4, <1>7, <1>8
  <2> HIDE DEF size, InOrder
  <2>2. QED
    BY <1>5, <2>1
<1>10. Enumerates(F!Listed(t), ByPosition(t), DOMAIN t)
  BY <1>4, <1>9
<1>11. QED
  BY <1>6, <1>10, EnumerationIs

\* What one needs to know of the list.
LEMMA ListedKnown ==
  ASSUME NEW t, Positioned(t)
  PROVE  /\ Cardinality(DOMAIN t) \in Nat
         /\ F!Listed(t) \in [1..Cardinality(DOMAIN t) -> DOMAIN t]
         /\ \A m, n \in 1..Cardinality(DOMAIN t) :
              m < n => t[F!Listed(t)[m]].position < t[F!Listed(t)[n]].position
         /\ \A m, n \in 1..Cardinality(DOMAIN t) : F!Listed(t)[m] = F!Listed(t)[n] => m = n
         /\ \A i \in DOMAIN t : \E m \in 1..Cardinality(DOMAIN t) : F!Listed(t)[m] = i
<1>1. IsFiniteSet(DOMAIN t) /\ Orders(ByPosition(t), DOMAIN t)
  BY PositionsOrder DEF Positioned
<1>2. Enumerates(F!Listed(t), ByPosition(t), DOMAIN t)
  BY ListedIs
<1>3. \A i, j : <<i, j>> \in ByPosition(t) => t[i].position < t[j].position
  BY DEF ByPosition
<1>4. Cardinality(DOMAIN t) \in Nat
  BY <1>1, FS_CardinalityType
<1>5. /\ F!Listed(t) \in [1..Cardinality(DOMAIN t) -> DOMAIN t]
      /\ \A m, n \in 1..Cardinality(DOMAIN t) :
           m < n => <<F!Listed(t)[m], F!Listed(t)[n]>> \in ByPosition(t)
  BY <1>2 DEF Enumerates
<1>6. /\ \A m, n \in 1..Cardinality(DOMAIN t) : F!Listed(t)[m] = F!Listed(t)[n] => m = n
      /\ \A i \in DOMAIN t : \E m \in 1..Cardinality(DOMAIN t) : F!Listed(t)[m] = i
  <2> DEFINE S == DOMAIN t
             R == ByPosition(t)
             q == F!Listed(t)
  <2>1. IsFiniteSet(S) /\ Orders(R, S) /\ Enumerates(q, R, S)
    BY <1>1, <1>2
  <2> HIDE DEF S, R, q
  <2>2. /\ \A m, n \in 1..Cardinality(S) : q[m] = q[n] => m = n
        /\ \A i \in S : \E m \in 1..Cardinality(S) : q[m] = i
    BY <2>1, EnumerationRanks
  <2>3. QED
    BY <2>2 DEF S, q
<1>7. QED
  BY <1>3, <1>4, <1>5, <1>6

\* A list of all rows by rising positions is the one shown.
LEMMA ListedAs ==
  ASSUME NEW t, Positioned(t), NEW q \in [1..Cardinality(DOMAIN t) -> DOMAIN t],
         \A m, n \in 1..Cardinality(DOMAIN t) : m < n => t[q[m]].position < t[q[n]].position
  PROVE  F!Listed(t) = q
<1>1. \A m, n \in 1..Cardinality(DOMAIN t) : m < n => <<q[m], q[n]>> \in ByPosition(t)
  BY DEF ByPosition
<1>2. Enumerates(q, ByPosition(t), DOMAIN t)
  BY <1>1 DEF Enumerates
<1>3. QED
  BY <1>2, ListedIs

LEMMA ShownIs ==
  ASSUME NEW t, Positioned(t), items = t
  PROVE  F!Shown = Show(t)
<1>1. DOMAIN F!Listed(t) = 1..Cardinality(DOMAIN t)
  BY ListedKnown
<1>2. QED
  BY <1>1 DEF F!Shown, Show

\* The greatest position is that of the row shown last.
LEMMA NextPositionIs ==
  ASSUME NEW t, Positioned(t)
  PROVE  /\ F!NextPosition(t) \in Nat
         /\ \A i \in DOMAIN t : t[i].position < F!NextPosition(t)
<1> DEFINE size == Cardinality(DOMAIN t)
           places == {t[i].position : i \in DOMAIN t} \cup {0}
<1>1. /\ size \in Nat /\ F!Listed(t) \in [1..size -> DOMAIN t]
      /\ \A m, n \in 1..size : m < n => t[F!Listed(t)[m]].position < t[F!Listed(t)[n]].position
      /\ \A i \in DOMAIN t : \E m \in 1..size : F!Listed(t)[m] = i
  BY ListedKnown
<1>2. places \subseteq Nat
  BY DEF Positioned
<1>3. \E x \in places : \A y \in places : x >= y
  <2>1. CASE size = 0
    <3>1. DOMAIN t = {}
      BY <1>1, <2>1
    <3>2. places = {0}
      BY <3>1
    <3>3. QED
      BY <3>2
  <2>2. CASE size # 0
    <3>1. size \in 1..size
      BY <1>1, <2>2
    <3>2. F!Listed(t)[size] \in DOMAIN t
      BY <1>1, <3>1
    <3>3. t[F!Listed(t)[size]].position \in places
      BY <3>2
    <3>4. ASSUME NEW i \in DOMAIN t PROVE t[F!Listed(t)[size]].position >= t[i].position
      <4>1. PICK m \in 1..size : F!Listed(t)[m] = i
        BY <1>1
      <4>2. m = size \/ m < size
        BY <1>1
      <4>3. t[F!Listed(t)[size]].position \in Nat /\ t[i].position \in Nat
        BY <3>2 DEF Positioned
      <4>4. QED
        BY <1>1, <3>1, <4>1, <4>2, <4>3
    <3>5. t[F!Listed(t)[size]].position >= 0
      BY <1>2, <3>3
    <3>6. QED
      BY <3>3, <3>4, <3>5
  <2>3. QED
    BY <2>1, <2>2
<1>4. F!NextPosition(t) = F!Max(places) + 1
  BY DEF F!NextPosition
<1>5. \A i \in DOMAIN t : t[i].position \in places
  OBVIOUS
<1> HIDE DEF places
<1>6. F!Max(places) \in places /\ \A y \in places : F!Max(places) >= y
  BY <1>3 DEF F!Max
<1>7. F!Max(places) \in Nat /\ \A i \in DOMAIN t : F!Max(places) >= t[i].position
  BY <1>2, <1>5, <1>6
<1>8. \A i \in DOMAIN t : t[i].position \in Nat
  BY <1>2, <1>5
<1> HIDE DEF size
<1>9. QED
  BY <1>4, <1>7, <1>8

LEMMA SameFunction ==
  ASSUME NEW n, NEW X, NEW Y, NEW p \in [1..n -> X], NEW q \in [1..n -> Y],
         \A m \in 1..n : p[m] = q[m]
  PROVE  p = q
<1>1. p = [m \in 1..n |-> p[m]] /\ q = [m \in 1..n |-> q[m]]
  BY Zenon
<1>2. QED
  BY <1>1, Zenon

LEMMA SeqIs ==
  ASSUME NEW X, NEW n, NEW s \in Seq(X), Len(s) = n
  PROVE  s = [m \in 1..n |-> s[m]]
<1>1. s \in [1..Len(s) -> X]
  OBVIOUS
<1>2. s \in [1..n -> X]
  BY <1>1, Zenon
<1>3. QED
  BY <1>2, Zenon

LEMMA AppendIs ==
  ASSUME NEW n \in Nat, NEW X, NEW s \in [1..n -> X], NEW e
  PROVE  Append(s, e) = [m \in 1..(n + 1) |-> IF m = n + 1 THEN e ELSE s[m]]
<1> DEFINE Y == X \cup {e}
<1>1. s \in Seq(Y) /\ Len(s) = n /\ e \in Y
  OBVIOUS
<1>2. Append(s, e) \in Seq(Y) /\ Len(Append(s, e)) = n + 1
  BY <1>1
<1>4. \A m \in 1..(n + 1) : Append(s, e)[m] = IF m = n + 1 THEN e ELSE s[m]
  BY <1>1
<1> HIDE DEF Y
<1>5. Append(s, e) = [m \in 1..(n + 1) |-> Append(s, e)[m]]
  BY <1>2, SeqIs
<1>6. QED
  BY <1>4, <1>5, Zenon

LEMMA RemoveAtIs ==
  ASSUME NEW n \in Nat, NEW X, NEW s \in [1..n -> X], NEW k \in 1..n
  PROVE  F!List!RemoveAt(s, k) = [m \in 1..(n - 1) |-> IF m < k THEN s[m] ELSE s[m + 1]]
<1> DEFINE l == SubSeq(s, 1, k - 1)
           r == SubSeq(s, k + 1, n)
<1>1. s \in Seq(X) /\ Len(s) = n
  OBVIOUS
<1>2. F!List!RemoveAt(s, k) = l \o r
  BY <1>1 DEF F!List!RemoveAt
<1>3. l \in Seq(X) /\ Len(l) = k - 1 /\ \A m \in 1..(k - 1) : l[m] = s[m]
  <2>1. Len(l) = k - 1 /\ \A m \in 1..(k - 1) : l[m] = s[m]
    BY <1>1
  <2>2. l \in Seq(X)
    BY <1>1
  <2>3. QED
    BY <2>1, <2>2
<1>4. r \in Seq(X) /\ Len(r) = n - k /\ \A m \in 1..(n - k) : r[m] = s[m + k]
  <2>1. Len(r) = n - k /\ \A m \in 1..(n - k) : r[m] = s[m + k]
    BY <1>1
  <2>2. r \in Seq(X)
    BY <1>1
  <2>3. QED
    BY <2>1, <2>2
<1> HIDE DEF l, r
<1>5. l \o r \in Seq(X)
  BY <1>3, <1>4
<1>6. Len(l \o r) = n - 1
  <2>1. Len(l \o r) = Len(l) + Len(r)
    BY <1>3, <1>4
  <2>2. (k - 1) + (n - k) = n - 1
    OBVIOUS
  <2>3. QED
    BY <1>3, <1>4, <2>1, <2>2
<1>7. \A m \in 1..(n - 1) : (l \o r)[m] = IF m < k THEN s[m] ELSE s[m + 1]
  BY <1>3, <1>4
<1>8. l \o r = [m \in 1..(n - 1) |-> (l \o r)[m]]
  BY <1>5, <1>6, SeqIs
<1>9. QED
  BY <1>2, <1>7, <1>8, Zenon

\* The entries shown.
LEMMA ShowKnown ==
  ASSUME NEW t, Positioned(t)
  PROVE  /\ Show(t) \in [1..Cardinality(DOMAIN t) -> [id : DOMAIN t, text : Texts]]
         /\ \A m \in 1..Cardinality(DOMAIN t) :
              /\ Show(t)[m].id = F!Listed(t)[m]
              /\ Show(t)[m].text = t[F!Listed(t)[m]].text
<1>1. \A m \in 1..Cardinality(DOMAIN t) : F!Listed(t)[m] \in DOMAIN t
  BY ListedKnown
<1>2. \A i \in DOMAIN t : t[i].text \in Texts
  BY DEF Positioned
<1>3. QED
  BY <1>1, <1>2 DEF Show

\* A table with one more row, and a table with another text in a row.
Added(t, u, k, x, p) ==
  /\ DOMAIN u = DOMAIN t \cup {k}
  /\ u = [i \in DOMAIN u |-> u[i]]
  /\ u[k].text = x /\ u[k].position = p /\ u[k] \in [text : Texts, position : Nat]
  /\ \A i \in DOMAIN t : u[i] = t[i]

Edited(t, u, k, x) ==
  /\ u \in [DOMAIN t -> [text : Texts, position : Nat]]
  /\ \A i \in DOMAIN t : u[i].position = t[i].position
  /\ \A i \in DOMAIN t : u[i].text = IF i = k THEN x ELSE t[i].text

\* A row behind all others comes last.
LEMMA RowAdded ==
  ASSUME NEW t, Positioned(t), NEW k \in Nat, k \notin DOMAIN t, NEW x \in Texts,
         NEW p \in Nat, \A i \in DOMAIN t : t[i].position < p, NEW u, Added(t, u, k, x, p)
  PROVE  Positioned(u) /\ Show(u) = Append(Show(t), [id |-> k, text |-> x])
<1> DEFINE size == Cardinality(DOMAIN t)
           entry == [id |-> k, text |-> x]
           q == [m \in 1..(size + 1) |-> IF m = size + 1 THEN k ELSE F!Listed(t)[m]]
<1>1. /\ DOMAIN u = DOMAIN t \cup {k} /\ u = [i \in DOMAIN u |-> u[i]]
      /\ u[k].text = x /\ u[k].position = p /\ u[k] \in [text : Texts, position : Nat]
      /\ \A i \in DOMAIN t : u[i] = t[i]
  BY DEF Added
<1>2. \A i \in DOMAIN t : t[i] \in [text : Texts, position : Nat]
  BY DEF Positioned
<1>3. \A i \in DOMAIN t : t[i].position \in Nat /\ t[i].position < p
  BY <1>2
<1>4. IsFiniteSet(DOMAIN u) /\ DOMAIN u \subseteq Nat /\ Cardinality(DOMAIN u) = size + 1
  <2>1. IsFiniteSet(DOMAIN t) /\ DOMAIN t \subseteq Nat
    BY DEF Positioned
  <2>2. IsFiniteSet(DOMAIN t \cup {k}) /\ Cardinality(DOMAIN t \cup {k}) = size + 1
    BY <2>1, FS_AddElement
  <2>3. QED
    BY <1>1, <2>1, <2>2
<1>5. u \in [DOMAIN u -> [text : Texts, position : Nat]]
  BY <1>1, <1>2
<1>6. \A i, j \in DOMAIN u : u[i].position = u[j].position => i = j
  <2>1. \A i, j \in DOMAIN t : t[i].position = t[j].position => i = j
    BY DEF Positioned
  <2>2. \A i \in DOMAIN t : u[i].position = t[i].position
    BY <1>1
  <2>3. QED
    BY <1>1, <1>3, <2>1, <2>2
<1>7. Positioned(u)
  BY <1>4, <1>5, <1>6 DEF Positioned
<1>8. /\ size \in Nat
      /\ F!Listed(t) \in [1..size -> DOMAIN t]
      /\ \A m, n \in 1..size :
           m < n => t[F!Listed(t)[m]].position < t[F!Listed(t)[n]].position
  BY ListedKnown
<1>9. F!Listed(u) = q
  <2>1. \A m \in 1..(size + 1) : m = size + 1 \/ (m \in 1..size /\ m # size + 1)
    BY <1>8
  <2>2. q \in [1..(size + 1) -> DOMAIN u]
    BY <1>1, <1>8, <2>1
  <2>3. ASSUME NEW m \in 1..(size + 1), NEW n \in 1..(size + 1), m < n
        PROVE  u[q[m]].position < u[q[n]].position
    <3>1. m \in 1..size /\ q[m] = F!Listed(t)[m] /\ F!Listed(t)[m] \in DOMAIN t
      BY <1>8, <2>3
    <3>2. u[q[m]] = t[F!Listed(t)[m]]
      BY <1>1, <3>1
    <3>3. CASE n = size + 1
      BY <1>1, <1>3, <3>1, <3>2, <3>3
    <3>4. CASE n \in 1..size /\ n # size + 1
      <4>1. q[n] = F!Listed(t)[n] /\ F!Listed(t)[n] \in DOMAIN t
        BY <1>8, <3>4
      <4>2. u[q[n]] = t[F!Listed(t)[n]]
        BY <1>1, <4>1
      <4>3. QED
        BY <1>8, <2>3, <3>1, <3>2, <3>4, <4>2
    <3>5. QED
      BY <2>1, <3>3, <3>4
  <2> HIDE DEF q
  <2>4. QED
    BY <1>4, <1>7, <2>2, <2>3, ListedAs
<1>10. Show(u) = Append(Show(t), entry)
  <2>1. /\ Show(t) \in [1..size -> [id : DOMAIN t, text : Texts]]
        /\ \A m \in 1..size : Show(t)[m] = [id |-> F!Listed(t)[m], text |-> t[F!Listed(t)[m]].text]
    BY ShowKnown DEF Show
  <2>2. Append(Show(t), entry) = [m \in 1..(size + 1) |-> IF m = size + 1 THEN entry ELSE Show(t)[m]]
    BY <1>8, <2>1, AppendIs
  <2>3. Show(u) = [m \in 1..(size + 1) |-> [id |-> q[m], text |-> u[q[m]].text]]
    BY <1>4, <1>9 DEF Show
  <2>4. ASSUME NEW m \in 1..(size + 1)
        PROVE  [id |-> q[m], text |-> u[q[m]].text] = IF m = size + 1 THEN entry ELSE Show(t)[m]
    <3>1. CASE m = size + 1
      BY <1>1, <3>1
    <3>2. CASE m # size + 1
      <4>1. m \in 1..size /\ q[m] = F!Listed(t)[m] /\ F!Listed(t)[m] \in DOMAIN t
        BY <1>8, <3>2
      <4>2. u[q[m]] = t[F!Listed(t)[m]]
        BY <1>1, <4>1
      <4>3. QED
        BY <2>1, <3>2, <4>1, <4>2
    <3>3. QED
      BY <3>1, <3>2
  <2> HIDE DEF q, entry
  <2>5. [m \in 1..(size + 1) |-> [id |-> q[m], text |-> u[q[m]].text]]
        = [m \in 1..(size + 1) |-> IF m = size + 1 THEN entry ELSE Show(t)[m]]
    BY <2>4, Zenon
  <2>6. QED
    BY <2>2, <2>3, <2>5, Zenon
<1>11. QED
  BY <1>7, <1>10

\* Tables of the same ids and positions are listed alike.
LEMMA ListedAlike ==
  ASSUME NEW t, Positioned(t), NEW u, Positioned(u), DOMAIN u = DOMAIN t,
         \A i \in DOMAIN t : u[i].position = t[i].position
  PROVE  F!Listed(u) = F!Listed(t)
<1>1. /\ F!Listed(t) \in [1..Cardinality(DOMAIN u) -> DOMAIN u]
      /\ \A m, n \in 1..Cardinality(DOMAIN u) :
           m < n => t[F!Listed(t)[m]].position < t[F!Listed(t)[n]].position
  BY ListedKnown
<1>2. \A m \in 1..Cardinality(DOMAIN u) : F!Listed(t)[m] \in DOMAIN t
  BY <1>1
<1>3. \A m, n \in 1..Cardinality(DOMAIN u) :
        m < n => u[F!Listed(t)[m]].position < u[F!Listed(t)[n]].position
  BY <1>1, <1>2
<1>4. QED
  BY <1>1, <1>3, ListedAs

\* A list with another text.
Retold(s, v, k, x) == \E m \in DOMAIN s : s[m].id = k /\ v = [s EXCEPT ![m].text = x]

\* A row of another text keeps its place.
LEMMA RowEdited ==
  ASSUME NEW t, Positioned(t), NEW k \in DOMAIN t, NEW x \in Texts,
         NEW u, Edited(t, u, k, x)
  PROVE  Positioned(u) /\ Retold(Show(t), Show(u), k, x)
<1> DEFINE size == Cardinality(DOMAIN t)
<1>1. \A i \in DOMAIN t : t[i] \in [text : Texts, position : Nat]
  BY DEF Positioned
<1>2. /\ DOMAIN u = DOMAIN t
      /\ u \in [DOMAIN t -> [text : Texts, position : Nat]]
      /\ \A i \in DOMAIN t : u[i].position = t[i].position
      /\ \A i \in DOMAIN t : u[i].text = IF i = k THEN x ELSE t[i].text
  BY DEF Edited
<1>3. Positioned(u)
  BY <1>2 DEF Positioned
<1>4. /\ size \in Nat
      /\ F!Listed(t) \in [1..size -> DOMAIN t]
      /\ \A m, n \in 1..size :
           m < n => t[F!Listed(t)[m]].position < t[F!Listed(t)[n]].position
      /\ \A m, n \in 1..size : F!Listed(t)[m] = F!Listed(t)[n] => m = n
      /\ \A i \in DOMAIN t : \E m \in 1..size : F!Listed(t)[m] = i
  BY ListedKnown
<1>5. F!Listed(u) = F!Listed(t)
  BY <1>2, <1>3, ListedAlike, Zenon
<1>6. PICK m \in 1..size : F!Listed(t)[m] = k
  BY <1>4
<1>7. Show(u) = [Show(t) EXCEPT ![m].text = x]
  <2>1. Show(t) = [n \in 1..size |-> [id |-> F!Listed(t)[n], text |-> t[F!Listed(t)[n]].text]]
    BY DEF Show
  <2>2. Show(u) = [n \in 1..size |-> [id |-> F!Listed(t)[n], text |-> u[F!Listed(t)[n]].text]]
    BY <1>2, <1>5 DEF Show
  <2>3. [Show(t) EXCEPT ![m].text = x]
        = [n \in 1..size |-> IF n = m THEN [Show(t)[m] EXCEPT !.text = x] ELSE Show(t)[n]]
    BY <2>1
  <2>4. ASSUME NEW n \in 1..size
        PROVE  [id |-> F!Listed(t)[n], text |-> u[F!Listed(t)[n]].text]
               = IF n = m THEN [Show(t)[m] EXCEPT !.text = x] ELSE Show(t)[n]
    <3>1. F!Listed(t)[n] \in DOMAIN t /\ (n = m <=> F!Listed(t)[n] = k)
      BY <1>4, <1>6
    <3>2. Show(t)[n] = [id |-> F!Listed(t)[n], text |-> t[F!Listed(t)[n]].text]
      BY <2>1
    <3>3. QED
      BY <1>2, <3>1, <3>2
  <2>5. QED
    BY <2>2, <2>3, <2>4, Zenon
<1>8. Show(t)[m].id = k
  BY <1>6, ShowKnown
<1>9. m \in DOMAIN Show(t)
  BY DEF Show
<1>10. Retold(Show(t), Show(u), k, x)
  BY <1>7, <1>8, <1>9, Zenon DEF Retold
<1>11. QED
  BY <1>3, <1>10

\* The others close up when a row goes.
LEMMA RowDropped ==
  ASSUME NEW t, Positioned(t), NEW k \in DOMAIN t,
         NEW u, u = [i \in (DOMAIN t) \ {k} |-> t[i]]
  PROVE  /\ Positioned(u)
         /\ \E m \in 1..Cardinality(DOMAIN t) :
              Show(t)[m].id = k /\ Show(u) = F!List!RemoveAt(Show(t), m)
<1> DEFINE size == Cardinality(DOMAIN t)
<1>1. /\ DOMAIN u = (DOMAIN t) \ {k}
      /\ \A i \in DOMAIN u : i \in DOMAIN t /\ u[i] = t[i]
  OBVIOUS
<1>2. IsFiniteSet(DOMAIN u) /\ DOMAIN u \subseteq Nat /\ Cardinality(DOMAIN u) = size - 1
  BY <1>1, FS_RemoveElement DEF Positioned
<1>3. Positioned(u)
  <2>1. u = [i \in DOMAIN u |-> u[i]]
    BY <1>1
  <2>2. \A i \in DOMAIN t : t[i] \in [text : Texts, position : Nat]
    BY DEF Positioned
  <2>3. u \in [DOMAIN u -> [text : Texts, position : Nat]]
    BY <1>1, <2>1, <2>2
  <2>4. \A i, j \in DOMAIN u : u[i].position = u[j].position => i = j
    BY <1>1 DEF Positioned
  <2>5. QED
    BY <1>2, <2>3, <2>4 DEF Positioned
<1>4. /\ size \in Nat
      /\ F!Listed(t) \in [1..size -> DOMAIN t]
      /\ \A m, n \in 1..size :
           m < n => t[F!Listed(t)[m]].position < t[F!Listed(t)[n]].position
      /\ \A m, n \in 1..size : F!Listed(t)[m] = F!Listed(t)[n] => m = n
      /\ \A i \in DOMAIN t : \E m \in 1..size : F!Listed(t)[m] = i
  BY ListedKnown
<1>5. PICK at \in 1..size : F!Listed(t)[at] = k
  BY <1>4
<1> DEFINE from(m) == IF m < at THEN m ELSE m + 1
           q == [m \in 1..(size - 1) |-> F!Listed(t)[from(m)]]
<1>6. \A m \in 1..(size - 1) : from(m) \in 1..size /\ from(m) # at
  BY <1>4
<1>7. \A m, n \in 1..(size - 1) : m < n => from(m) < from(n)
  BY <1>4
<1> HIDE DEF from
<1>8. \A m \in 1..(size - 1) :
        /\ q[m] = F!Listed(t)[from(m)]
        /\ q[m] \in DOMAIN u /\ u[q[m]] = t[q[m]]
  BY <1>1, <1>4, <1>5, <1>6
<1>9. F!Listed(u) = q
  <2>1. q \in [1..(size - 1) -> DOMAIN u]
    BY <1>8
  <2> HIDE DEF q
  <2>2. ASSUME NEW m \in 1..(size - 1), NEW n \in 1..(size - 1), m < n
        PROVE  u[q[m]].position < u[q[n]].position
    <3>1. from(m) \in 1..size /\ from(n) \in 1..size /\ from(m) < from(n)
      BY <1>6, <1>7, <2>2
    <3>2. t[F!Listed(t)[from(m)]].position < t[F!Listed(t)[from(n)]].position
      BY <1>4, <3>1
    <3>3. u[q[m]] = t[F!Listed(t)[from(m)]] /\ u[q[n]] = t[F!Listed(t)[from(n)]]
      BY <1>8
    <3>4. QED
      BY <3>2, <3>3
  <2>3. QED
    BY <1>2, <1>3, <2>1, <2>2, ListedAs
<1>10. Show(u) = F!List!RemoveAt(Show(t), at)
  <2>1. /\ Show(t) \in [1..size -> [id : DOMAIN t, text : Texts]]
        /\ \A m \in 1..size : Show(t)[m] = [id |-> F!Listed(t)[m], text |-> t[F!Listed(t)[m]].text]
    BY ShowKnown DEF Show
  <2>2. F!List!RemoveAt(Show(t), at)
        = [m \in 1..(size - 1) |-> IF m < at THEN Show(t)[m] ELSE Show(t)[m + 1]]
    <3> DEFINE s == Show(t)
               X == [id : DOMAIN t, text : Texts]
    <3>1. s \in [1..size -> X] /\ size \in Nat /\ at \in 1..size
      BY <1>4, <2>1
    <3> HIDE DEF s, X, size
    <3>2. F!List!RemoveAt(s, at) = [m \in 1..(size - 1) |-> IF m < at THEN s[m] ELSE s[m + 1]]
      BY <3>1, RemoveAtIs
    <3>3. QED
      BY <3>2 DEF s
  <2>3. Show(u) = [m \in 1..(size - 1) |-> [id |-> q[m], text |-> u[q[m]].text]]
    BY <1>2, <1>9 DEF Show
  <2> HIDE DEF q
  <2>4. ASSUME NEW m \in 1..(size - 1)
        PROVE  [id |-> q[m], text |-> u[q[m]].text]
               = IF m < at THEN Show(t)[m] ELSE Show(t)[m + 1]
    <3>1. [id |-> q[m], text |-> u[q[m]].text] = Show(t)[from(m)]
      BY <1>6, <1>8, <2>1
    <3>2. QED
      BY <3>1 DEF from
  <2>5. [m \in 1..(size - 1) |-> [id |-> q[m], text |-> u[q[m]].text]]
        = [m \in 1..(size - 1) |-> IF m < at THEN Show(t)[m] ELSE Show(t)[m + 1]]
    BY <2>4, Zenon
  <2>6. QED
    BY <2>2, <2>3, <2>5, Zenon
<1>11. Show(t)[at].id = k
  BY <1>5, ShowKnown
<1>12. QED
  BY <1>3, <1>10, <1>11

\* Two rows that take each other's position.
Swapped(t, u, k, w) ==
  /\ u \in [DOMAIN t -> [text : Texts, position : Nat]]
  /\ u[k].position = t[w].position /\ u[w].position = t[k].position
  /\ \A i \in DOMAIN t : i # k /\ i # w => u[i].position = t[i].position
  /\ \A i \in DOMAIN t : u[i].text = t[i].text

LEMMA SwappedIs ==
  ASSUME NEW t, Positioned(t), NEW k \in DOMAIN t, NEW w \in DOMAIN t, k # w,
         NEW u, u = [t EXCEPT ![k].position = t[w].position, ![w].position = t[k].position]
  PROVE  Swapped(t, u, k, w)
<1> DEFINE half == [t EXCEPT ![k].position = t[w].position]
<1>1. \A i \in DOMAIN t : t[i] \in [text : Texts, position : Nat]
  BY DEF Positioned
<1>2. /\ half \in [DOMAIN t -> [text : Texts, position : Nat]]
      /\ half[k].position = t[w].position
      /\ \A i \in DOMAIN t : i # k => half[i] = t[i]
      /\ \A i \in DOMAIN t : half[i].text = t[i].text
  BY <1>1 DEF Positioned
<1>3. u = [half EXCEPT ![w].position = t[k].position]
  BY Zenon
<1>4. t[k].position \in Nat
  BY <1>1
<1> HIDE DEF half
<1>5. QED
  BY <1>2, <1>3, <1>4 DEF Swapped

\* They take each other's place.
LEMMA RowsSwapped ==
  ASSUME NEW t, Positioned(t), NEW m \in 1..Cardinality(DOMAIN t),
         NEW n \in 1..Cardinality(DOMAIN t), m # n, NEW k, k = F!Listed(t)[m],
         NEW w, w = F!Listed(t)[n], NEW u, Swapped(t, u, k, w)
  PROVE  /\ Positioned(u)
         /\ Show(t)[m].id = k /\ Show(u)[m].id = w /\ k # w
         /\ Show(u) = [Show(t) EXCEPT ![m] = Show(t)[n], ![n] = Show(t)[m]]
<1> DEFINE size == Cardinality(DOMAIN t)
           to(l) == IF l = m THEN n ELSE IF l = n THEN m ELSE l
           q == [l \in 1..size |-> F!Listed(t)[to(l)]]
<1>1. /\ size \in Nat
      /\ F!Listed(t) \in [1..size -> DOMAIN t]
      /\ \A i, j \in 1..size :
           i < j => t[F!Listed(t)[i]].position < t[F!Listed(t)[j]].position
      /\ \A i, j \in 1..size : F!Listed(t)[i] = F!Listed(t)[j] => i = j
  BY ListedKnown
<1>2. k \in DOMAIN t /\ w \in DOMAIN t /\ k # w
  BY <1>1
<1>3. \A i \in DOMAIN t : t[i] \in [text : Texts, position : Nat]
  BY DEF Positioned
<1>4. /\ DOMAIN u = DOMAIN t
      /\ u \in [DOMAIN t -> [text : Texts, position : Nat]]
      /\ u[k].position = t[w].position /\ u[w].position = t[k].position
      /\ \A i \in DOMAIN t : i # k /\ i # w => u[i].position = t[i].position
      /\ \A i \in DOMAIN t : u[i].text = t[i].text
  BY DEF Swapped
<1>5. Positioned(u)
  <2>1. \A i, j \in DOMAIN t : t[i].position = t[j].position => i = j
    BY DEF Positioned
  <2>2. \A i, j \in DOMAIN t : u[i].position = u[j].position => i = j
    BY <1>2, <1>4, <2>1
  <2>3. QED
    BY <1>4, <2>2 DEF Positioned
<1>6. \A l \in 1..size : to(l) \in 1..size
  OBVIOUS
<1>7. \A l \in 1..size : q[l] \in DOMAIN t /\ u[q[l]].position = t[F!Listed(t)[l]].position
  <2>1. SUFFICES ASSUME NEW l \in 1..size
                 PROVE  q[l] \in DOMAIN t /\ u[q[l]].position = t[F!Listed(t)[l]].position
    OBVIOUS
  <2>2. q[l] = F!Listed(t)[to(l)] /\ q[l] \in DOMAIN t
    BY <1>1, <1>6
  <2>3. CASE l = m
    BY <1>4, <2>2, <2>3
  <2>4. CASE l = n
    BY <1>4, <2>2, <2>4
  <2>5. CASE l # m /\ l # n
    <3>1. q[l] = F!Listed(t)[l] /\ q[l] # k /\ q[l] # w
      BY <1>1, <2>2, <2>5
    <3>2. QED
      BY <1>4, <2>2, <3>1
  <2>6. QED
    BY <2>3, <2>4, <2>5
<1>8. F!Listed(u) = q
  <2>1. q \in [1..Cardinality(DOMAIN u) -> DOMAIN u]
    BY <1>4, <1>7
  <2> HIDE DEF q
  <2>2. ASSUME NEW i \in 1..Cardinality(DOMAIN u), NEW j \in 1..Cardinality(DOMAIN u), i < j
        PROVE  u[q[i]].position < u[q[j]].position
    <3>1. t[F!Listed(t)[i]].position < t[F!Listed(t)[j]].position
      BY <1>1, <1>4, <2>2
    <3>2. /\ u[q[i]].position = t[F!Listed(t)[i]].position
          /\ u[q[j]].position = t[F!Listed(t)[j]].position
      BY <1>4, <1>7
    <3>3. QED
      BY <3>1, <3>2
  <2>3. QED
    BY <1>5, <2>1, <2>2, ListedAs
<1>9. Show(t) \in [1..size -> [id : DOMAIN t, text : Texts]]
  BY ShowKnown
<1>10. \A l \in 1..size : Show(u)[l] = Show(t)[to(l)]
  <2>1. \A l \in 1..size : Show(u)[l] = [id |-> q[l], text |-> u[q[l]].text]
    BY <1>4, <1>8 DEF Show
  <2>2. \A l \in 1..size : Show(t)[l] = [id |-> F!Listed(t)[l], text |-> t[F!Listed(t)[l]].text]
    BY DEF Show
  <2>3. \A l \in 1..size : q[l] = F!Listed(t)[to(l)] /\ u[q[l]].text = t[q[l]].text
    BY <1>4, <1>7
  <2> HIDE DEF q, to
  <2>4. ASSUME NEW l \in 1..size PROVE Show(u)[l] = Show(t)[to(l)]
    <3>1. Show(u)[l] = [id |-> F!Listed(t)[to(l)], text |-> t[F!Listed(t)[to(l)]].text]
      BY <2>1, <2>3
    <3>2. QED
      BY <1>6, <2>2, <3>1
  <2>5. QED
    BY <2>4
<1>11. Show(u) = [Show(t) EXCEPT ![m] = Show(t)[n], ![n] = Show(t)[m]]
  <2> DEFINE v == [Show(t) EXCEPT ![m] = Show(t)[n], ![n] = Show(t)[m]]
  <2>1. v \in [1..size -> [id : DOMAIN t, text : Texts]]
    BY <1>9
  <2>2. \A l \in 1..size : v[l] = Show(t)[to(l)]
    BY <1>9
  <2>3. Show(u) \in [1..size -> [id : DOMAIN u, text : Texts]]
    BY <1>4, <1>5, ShowKnown
  <2> HIDE DEF v, to
  <2>4. \A l \in 1..size : Show(u)[l] = v[l]
    BY <1>10, <2>2
  <2>5. Show(u) = [l \in 1..size |-> Show(u)[l]] /\ v = [l \in 1..size |-> v[l]]
    BY <2>1, <2>3, Zenon
  <2>6. [l \in 1..size |-> Show(u)[l]] = [l \in 1..size |-> v[l]]
    BY <2>4, Zenon
  <2>7. Show(u) = v
    BY <2>5, <2>6, Zenon
  <2>8. QED
    BY <2>7 DEF v
<1>12. Show(t)[m].id = k
  BY ShowKnown
<1>13. Show(u)[m].id = w
  <2>1. Show(u)[m] = Show(t)[n]
    BY <1>10
  <2>2. Show(t)[n].id = w
    BY ShowKnown
  <2>3. QED
    BY <2>1, <2>2
<1>14. QED
  BY <1>2, <1>5, <1>11, <1>12, <1>13

\* What the one admin's request has read is in the table still.
FaqRequest(r) ==
  \/ r = F!Idle
  \/ r.at = "create" /\ r.text \in Texts /\ r.read = items
  \/ r.at = "update" /\ r.text \in Texts /\ r.id \in DOMAIN items
  \/ r.at = "delete" /\ r.id \in DOMAIN items
  \/ /\ r.at = "move" /\ r.read = items
     /\ \E m, n \in 1..Cardinality(DOMAIN items) :
          n \in {m - 1, m + 1} /\ r.id = F!Listed(items)[m] /\ r.with = F!Listed(items)[n]

FaqInv ==
  /\ used \in Nat /\ DOMAIN items \subseteq Ids \cap 1..used
  /\ Positioned(items)
  /\ req = [a \in Admins |-> req[a]]
  /\ \A a \in Admins : FaqRequest(req[a])

LEMMA FaqInit == F!Init => FaqInv /\ F!List!Init
<1> SUFFICES ASSUME F!Init PROVE FaqInv /\ F!List!Init
  OBVIOUS
<1>1. DOMAIN items = {} /\ items = [i \in {} |-> 0] /\ used = 0
  BY DEF F!Init, F!NoItems
<1>2. IsFiniteSet(DOMAIN items) /\ Cardinality(DOMAIN items) = 0
  BY <1>1, FS_EmptySet
<1>3. Positioned(items)
  BY <1>1, <1>2 DEF Positioned
<1>4. FaqInv
  BY <1>1, <1>3 DEF F!Init, FaqInv, FaqRequest
<1>5. Show(items) = <<>>
  <2>1. Show(items) = [m \in 1..0 |-> [id |-> F!Listed(items)[m], text |-> items[F!Listed(items)[m]].text]]
    BY <1>2 DEF Show
  <2>2. 1..0 = {}
    OBVIOUS
  <2>3. QED
    BY <2>1, <2>2
<1>6. F!Shown = <<>>
  BY <1>3, <1>5, ShownIs
<1>7. QED
  BY <1>4, <1>6 DEF F!List!Init

\* A request that opens leaves the list as it is.
LEMMA FaqBegins ==
  ASSUME NEW h, Admins = {h}, FaqInv, NEW at, NEW id, NEW x, NEW w, F!Begin(h, at, id, x, w),
         FaqRequest([at |-> at, id |-> id, text |-> x, read |-> items, with |-> w])
  PROVE  FaqInv' /\ items' = items
<1> DEFINE r == [at |-> at, id |-> id, text |-> x, read |-> items, with |-> w]
<1>1. items' = items /\ used' = used /\ req' = [req EXCEPT ![h] = r]
  BY DEF F!Begin
<1>2. req = [a \in Admins |-> req[a]]
  BY DEF FaqInv
<1>3. req' = [a \in Admins |-> r]
  BY <1>1, <1>2
<1>4. \A s : FaqRequest(s) => FaqRequest(s)'
  BY <1>1 DEF FaqRequest
<1>5. QED
  BY <1>1, <1>3, <1>4 DEF FaqInv

\* A request that ends leaves none open.
LEMMA FaqEnds ==
  ASSUME NEW h, Admins = {h}, FaqInv, req' = [req EXCEPT ![h] = F!Idle],
         Positioned(items'), used' \in Nat, DOMAIN items' \subseteq Ids \cap 1..used'
  PROVE  FaqInv'
<1>1. req = [a \in Admins |-> req[a]]
  BY DEF FaqInv
<1>2. req' = [a \in Admins |-> F!Idle]
  BY <1>1
<1>3. FaqRequest(F!Idle)'
  BY DEF FaqRequest
<1>4. QED
  BY <1>2, <1>3 DEF FaqInv

LEMMA ShownNow ==
  ASSUME Positioned(items), Positioned(items)'
  PROVE  F!Shown = Show(items) /\ F!Shown' = Show(items')
<1>1. \A t : Positioned(t) => (items = t => F!Shown = Show(t))
  BY ShownIs
<1>2. DOMAIN F!Listed(items') = 1..Cardinality(DOMAIN items')
  BY ListedKnown
<1>3. F!Shown' = Show(items')
  BY <1>2 DEF F!Shown, Show
<1>4. QED
  BY <1>1, <1>3

\* What a step of the one admin does to the list.
ListStep ==
  /\ FaqInv'
  /\ items' = items \/ F!List!Next

LEMMA FaqCreates ==
  ASSUME NEW h, Admins = {h}, FaqInv, F!Create(h)
  PROVE  ListStep
<1> DEFINE k == used + 1
           x == req[h].text
           p == F!NextPosition(items)
<1>1. /\ req[h].at = "create" /\ k \in Ids
      /\ used' = k
      /\ items' = [i \in DOMAIN items \cup {k} |->
                     IF i = k THEN [text |-> x, position |-> F!NextPosition(req[h].read)]
                     ELSE items[i]]
      /\ req' = [req EXCEPT ![h] = F!Idle]
  BY DEF F!Create, F!Stored
<1>2. FaqRequest(req[h]) /\ req[h] # F!Idle
  BY <1>1 DEF FaqInv, F!Idle
<1>3. x \in Texts /\ req[h].read = items
  BY <1>1, <1>2 DEF FaqRequest
<1>4. Positioned(items) /\ used \in Nat /\ DOMAIN items \subseteq Ids \cap 1..used
  BY DEF FaqInv
<1>5. k \in Nat /\ k \notin DOMAIN items
  BY <1>4
<1>6. p \in Nat /\ \A i \in DOMAIN items : items[i].position < p
  BY <1>4, NextPositionIs
<1>7. items' = [i \in DOMAIN items \cup {k} |->
                  IF i = k THEN [text |-> x, position |-> p] ELSE items[i]]
  BY <1>1, <1>3
<1> HIDE DEF k, x, p
<1>8. Positioned(items') /\ Show(items') = Append(Show(items), [id |-> k, text |-> x])
  <2> DEFINE t == items
             u == items'
  <2>1. /\ Positioned(t) /\ k \in Nat /\ k \notin DOMAIN t /\ x \in Texts /\ p \in Nat
        /\ \A i \in DOMAIN t : t[i].position < p
    BY <1>3, <1>4, <1>5, <1>6
  <2>2. Added(t, u, k, x, p)
    <3>1. [text |-> x, position |-> p] \in [text : Texts, position : Nat]
      BY <2>1
    <3>2. QED
      BY <1>5, <1>7, <3>1 DEF Added
  <2> HIDE DEF t, u
  <2>3. Positioned(u) /\ Show(u) = Append(Show(t), [id |-> k, text |-> x])
    BY <2>1, <2>2, RowAdded
  <2>4. QED
    BY <2>3 DEF t, u
<1>9. FaqInv'
  <2>1. DOMAIN items' \subseteq Ids \cap 1..used'
    BY <1>1, <1>4, <1>7 DEF k
  <2>2. QED
    BY <1>1, <1>5, <1>8, <2>1, FaqEnds
<1>10. F!List!Add(k, x)
  <2>1. F!Shown = Show(items) /\ F!Shown' = Show(items')
    BY <1>4, <1>8, ShownNow
  <2>2. /\ DOMAIN Show(items) = 1..Cardinality(DOMAIN items)
        /\ \A m \in 1..Cardinality(DOMAIN items) : Show(items)[m].id \in DOMAIN items
    BY <1>4, ShowKnown
  <2>3. F!List!Place(k) = {}
    BY <1>5, <2>1, <2>2 DEF F!List!Place
  <2>4. QED
    BY <1>8, <2>1, <2>3 DEF F!List!Add
<1>11. QED
  BY <1>1, <1>3, <1>9, <1>10 DEF ListStep, F!List!Next

LEMMA FaqUpdates ==
  ASSUME NEW h, Admins = {h}, FaqInv, F!Update(h)
  PROVE  ListStep
<1> DEFINE k == req[h].id
           x == req[h].text
<1>1. /\ req[h].at = "update" /\ used' = used
      /\ k \in DOMAIN items => items' = [items EXCEPT ![k].text = x]
      /\ req' = [req EXCEPT ![h] = F!Idle]
  BY Zenon DEF F!Update, F!Stored
<1>2. FaqRequest(req[h]) /\ req[h] # F!Idle
  <2>1. FaqRequest(req[h]) /\ req[h].at = "update"
    BY <1>1 DEF FaqInv
  <2>2. QED
    BY <2>1 DEF F!Idle
<1>3. x \in Texts /\ k \in DOMAIN items
  <2>1. req[h].at = "update"
    BY <1>1
  <2>2. QED
    BY <1>2, <2>1 DEF FaqRequest
<1>4. Positioned(items) /\ used \in Nat /\ DOMAIN items \subseteq Ids \cap 1..used
  BY DEF FaqInv
<1> HIDE DEF k, x
<1>5. items' = [items EXCEPT ![k].text = x]
  BY <1>1, <1>3, Zenon
<1>6. DOMAIN items' = DOMAIN items
  BY <1>5, Zenon
<1>7. Edited(items, items', k, x)
  <2>1. \A i \in DOMAIN items : items[i] \in [text : Texts, position : Nat]
    BY <1>4 DEF Positioned
  <2>2. items = [i \in DOMAIN items |-> items[i]]
    BY <1>4 DEF Positioned
  <2>3. QED
    BY <1>3, <1>5, <2>1, <2>2 DEF Edited
<1>8. Positioned(items') /\ Retold(Show(items), Show(items'), k, x)
  BY <1>3, <1>4, <1>7, RowEdited
<1>9. FaqInv'
  <2>1. DOMAIN items' \subseteq Ids \cap 1..used' /\ used' \in Nat
    BY <1>1, <1>4, <1>6, Zenon
  <2>2. req' = [req EXCEPT ![h] = F!Idle]
    BY <1>1, Zenon
  <2>3. QED
    BY <1>8, <2>1, <2>2, FaqEnds
<1>10. F!List!Edit(k, x)
  <2>1. F!Shown = Show(items) /\ F!Shown' = Show(items')
    BY <1>4, <1>8, ShownNow, Zenon
  <2>2. Retold(F!Shown, F!Shown', k, x)
    BY <1>8, <2>1, Zenon
  <2>3. QED
    BY <2>2, Zenon DEF Retold, F!List!Edit, F!List!Place
<1>11. k \in Ids
  BY <1>3, <1>4
<1>12. QED
  BY <1>3, <1>9, <1>10, <1>11 DEF ListStep, F!List!Next

LEMMA FaqDeletes ==
  ASSUME NEW h, Admins = {h}, FaqInv, F!Delete(h)
  PROVE  ListStep
<1> DEFINE k == req[h].id
<1>1. /\ req[h].at = "delete" /\ used' = used
      /\ items' = [i \in (DOMAIN items) \ {k} |-> items[i]]
      /\ req' = [req EXCEPT ![h] = F!Idle]
  BY DEF F!Delete, F!Stored
<1>2. k \in DOMAIN items
  BY <1>1 DEF FaqInv, FaqRequest, F!Idle
<1>3. Positioned(items) /\ used \in Nat /\ DOMAIN items \subseteq Ids \cap 1..used
  BY DEF FaqInv
<1> HIDE DEF k
<1>4. /\ Positioned(items')
      /\ \E m \in 1..Cardinality(DOMAIN items) :
           Show(items)[m].id = k /\ Show(items') = F!List!RemoveAt(Show(items), m)
  BY <1>1, <1>2, <1>3, RowDropped
<1>5. FaqInv'
  <2>1. DOMAIN items' \subseteq Ids \cap 1..used' /\ used' \in Nat
    BY <1>1, <1>3
  <2>2. QED
    BY <1>1, <1>4, <2>1, FaqEnds
<1>6. F!List!Drop(k)
  <2>1. F!Shown = Show(items) /\ F!Shown' = Show(items')
    BY <1>3, <1>4, ShownNow
  <2>2. DOMAIN Show(items) = 1..Cardinality(DOMAIN items)
    BY <1>3, ShowKnown
  <2>3. PICK m \in 1..Cardinality(DOMAIN items) :
          Show(items)[m].id = k /\ Show(items') = F!List!RemoveAt(Show(items), m)
    BY <1>4
  <2>4. m \in F!List!Place(k)
    BY <2>1, <2>2, <2>3 DEF F!List!Place
  <2>5. F!Shown' = F!List!RemoveAt(F!Shown, m)
    BY <2>1, <2>3
  <2>6. QED
    BY <2>4, <2>5 DEF F!List!Drop
<1>7. k \in Ids
  BY <1>2, <1>3
<1>8. QED
  BY <1>5, <1>6, <1>7 DEF ListStep, F!List!Next

LEMMA FaqMoves ==
  ASSUME NEW h, Admins = {h}, FaqInv, F!Move(h)
  PROVE  ListStep /\ F!Shown' # F!Shown
<1> DEFINE k == req[h].id
           w == req[h].with
<1>1. /\ req[h].at = "move" /\ used' = used
      /\ {k, w} \subseteq DOMAIN items =>
           items' = [items EXCEPT ![k].position = req[h].read[w].position,
                                  ![w].position = req[h].read[k].position]
      /\ req' = [req EXCEPT ![h] = F!Idle]
  BY Zenon DEF F!Move, F!Stored
<1>2. FaqRequest(req[h]) /\ req[h].at = "move"
  BY <1>1, Zenon DEF FaqInv
<1>3. req[h] # F!Idle
  BY <1>2 DEF F!Idle
<1>4. /\ req[h].read = items
      /\ \E m, n \in 1..Cardinality(DOMAIN items) :
           n \in {m - 1, m + 1} /\ k = F!Listed(items)[m] /\ w = F!Listed(items)[n]
  BY <1>2, <1>3 DEF FaqRequest
<1>5. PICK m, n \in 1..Cardinality(DOMAIN items) :
        n \in {m - 1, m + 1} /\ k = F!Listed(items)[m] /\ w = F!Listed(items)[n]
  BY <1>4
<1>6. Positioned(items) /\ used \in Nat /\ DOMAIN items \subseteq Ids \cap 1..used
  BY DEF FaqInv
<1> HIDE DEF k, w
<1>7. m # n /\ k \in DOMAIN items /\ w \in DOMAIN items /\ k # w
  BY <1>5, <1>6, ListedKnown
<1>8. items' = [items EXCEPT ![k].position = items[w].position,
                             ![w].position = items[k].position]
  BY <1>1, <1>4, <1>7, Zenon
<1>9. Swapped(items, items', k, w)
  BY <1>6, <1>7, <1>8, SwappedIs, Zenon
<1>10. DOMAIN items' = DOMAIN items
  BY <1>9 DEF Swapped
<1>11. /\ Positioned(items')
       /\ Show(items)[m].id = k /\ Show(items')[m].id = w
       /\ Show(items') = [Show(items) EXCEPT ![m] = Show(items)[n], ![n] = Show(items)[m]]
  <2> DEFINE t == items
             u == items'
  <2>1. /\ Positioned(t) /\ m \in 1..Cardinality(DOMAIN t) /\ n \in 1..Cardinality(DOMAIN t)
        /\ m # n /\ k = F!Listed(t)[m] /\ w = F!Listed(t)[n] /\ Swapped(t, u, k, w)
    BY <1>5, <1>6, <1>7, <1>9
  <2> HIDE DEF t, u
  <2>2. /\ Positioned(u)
        /\ Show(t)[m].id = k /\ Show(u)[m].id = w
        /\ Show(u) = [Show(t) EXCEPT ![m] = Show(t)[n], ![n] = Show(t)[m]]
    BY <2>1, RowsSwapped
  <2>3. QED
    BY <2>2 DEF t, u
<1>12. FaqInv'
  <2>1. DOMAIN items' \subseteq Ids \cap 1..used' /\ used' \in Nat
    BY <1>1, <1>6, <1>10, Zenon
  <2>2. req' = [req EXCEPT ![h] = F!Idle]
    BY <1>1, Zenon
  <2>3. QED
    BY <1>11, <2>1, <2>2, FaqEnds, Zenon
<1>13. F!Shown = Show(items) /\ F!Shown' = Show(items')
  BY <1>6, <1>11, ShownNow, Zenon
<1>14. F!List!Move(k)
  <2>1. DOMAIN Show(items) = 1..Cardinality(DOMAIN items)
    BY <1>6, ShowKnown
  <2>2. m \in F!List!Place(k) /\ n \in DOMAIN F!Shown
    BY <1>11, <1>13, <2>1, Zenon DEF F!List!Place
  <2>3. F!Shown' = [F!Shown EXCEPT ![m] = F!Shown[n], ![n] = F!Shown[m]]
    BY <1>11, <1>13, Zenon
  <2>4. QED
    BY <1>5, <2>2, <2>3, Zenon DEF F!List!Move
<1>15. k \in Ids
  BY <1>6, <1>7
<1>16. F!Shown' # F!Shown
  BY <1>7, <1>11, <1>13, Zenon
<1>17. QED
  BY <1>12, <1>14, <1>15, <1>16 DEF ListStep, F!List!Next

\* The steps that open a request leave the list; the others are steps of it, and
\* every move shows.
LEMMA FaqNext ==
  ASSUME NEW h, Admins = {h}, FaqInv, [F!Next]_(F!vars)
  PROVE  /\ FaqInv'
         /\ [F!List!Next]_(F!Shown)
         /\ F!MoveShows
<1>1. (items' = items) => F!Shown' = F!Shown
  BY DEF F!Shown
<1>2. F!Move(h) => ListStep /\ F!Shown' # F!Shown
  BY FaqMoves
<1>3. ListStep
  <2>1. CASE UNCHANGED F!vars
    BY <2>1 DEF ListStep, FaqInv, FaqRequest, F!vars
  <2>2. CASE F!Next
    <3>1. PICK a \in Admins :
            \/ \E t \in Texts : F!BeginCreate(a, t) \/ \E id \in Ids : F!BeginUpdate(a, id, t)
            \/ \E id \in Ids :
                 \/ F!BeginDelete(a, id)
                 \/ \E step \in {-1, 1} : F!BeginMove(a, id, step)
            \/ F!Create(a)
            \/ F!Update(a)
            \/ F!Delete(a)
            \/ F!Move(a)
      BY <2>2 DEF F!Next
    <3>2. a = h
      OBVIOUS
    <3>3. ASSUME NEW t \in Texts, F!BeginCreate(h, t) PROVE ListStep
      <4>1. FaqRequest([at |-> "create", id |-> 0, text |-> t, read |-> items, with |-> 0])
        BY DEF FaqRequest
      <4>2. QED
        BY <3>3, <4>1, FaqBegins DEF F!BeginCreate, ListStep
    <3>4. ASSUME NEW t \in Texts, NEW id \in Ids, F!BeginUpdate(h, id, t) PROVE ListStep
      <4>1. FaqRequest([at |-> "update", id |-> id, text |-> t, read |-> items, with |-> 0])
        BY <3>4 DEF FaqRequest, F!BeginUpdate, F!Stored
      <4>2. QED
        BY <3>4, <4>1, FaqBegins DEF F!BeginUpdate, ListStep
    <3>5. ASSUME NEW id \in Ids, F!BeginDelete(h, id) PROVE ListStep
      <4>1. FaqRequest([at |-> "delete", id |-> id, text |-> "none", read |-> items, with |-> 0])
        BY <3>5 DEF FaqRequest, F!BeginDelete, F!Stored
      <4>2. QED
        BY <3>5, <4>1, FaqBegins DEF F!BeginDelete, ListStep
    <3>6. ASSUME NEW id \in Ids, NEW step \in {-1, 1}, F!BeginMove(h, id, step) PROVE ListStep
      <4> DEFINE order == F!Listed(items)
      <4>1. PICK i \in DOMAIN order :
              /\ order[i] = id
              /\ i + step \in DOMAIN order
              /\ F!Begin(h, "move", id, "none", order[i + step])
        BY <3>6 DEF F!BeginMove
      <4>2. DOMAIN order = 1..Cardinality(DOMAIN items)
        BY ListedKnown DEF FaqInv
      <4>3. i + step \in {i - 1, i + 1}
        BY <4>2
      <4>4. FaqRequest([at |-> "move", id |-> id, text |-> "none", read |-> items,
                        with |-> order[i + step]])
        BY <4>1, <4>2, <4>3 DEF FaqRequest
      <4>5. QED
        BY <4>1, <4>4, FaqBegins DEF ListStep
    <3>7. F!Create(h) => ListStep
      BY FaqCreates
    <3>8. F!Update(h) => ListStep
      BY FaqUpdates
    <3>9. F!Delete(h) => ListStep
      BY FaqDeletes
    <3>10. QED
      BY <1>2, <3>1, <3>2, <3>3, <3>4, <3>5, <3>6, <3>7, <3>8, <3>9
  <2>3. QED
    BY <2>1, <2>2
<1>4. QED
  BY <1>1, <1>2, <1>3 DEF ListStep, F!MoveShows

\* The FAQ of one admin is a list to him: an item is added at its end, every move
\* moves it by one place, and the others keep their order when one goes
\* (create_faq_item, update_faq_item, move_faq_item, delete_faq_item).
THEOREM FaqImplementsList ==
  ASSUME NEW h, Admins = {h}
  PROVE  BackOfficeSpec => ImplementsList
<1>1. BackOfficeInit => F!Init
  BY DEF BackOfficeInit
<1>2. [BackOfficeNext]_<<vars, listVars, faqVars, formVars, part>> => [F!Next]_(F!vars)
  BY DEF BackOfficeNext, faqVars, F!vars
<1>3. F!Init => FaqInv /\ F!List!Init
  BY FaqInit
<1>4. FaqInv /\ [F!Next]_(F!vars) => FaqInv'
  BY FaqNext
<1>5. FaqInv /\ [F!Next]_(F!vars) => [F!List!Next]_(F!Shown)
  BY FaqNext
<1>6. FaqInv /\ [F!Next]_(F!vars) => [F!MoveShows]_(F!vars)
  BY FaqNext
<1>7. BackOfficeSpec => F!Init /\ [][F!Next]_(F!vars)
  BY <1>1, <1>2, PTL DEF BackOfficeSpec
<1>8. F!Init /\ [][F!Next]_(F!vars) => []FaqInv
  BY <1>3, <1>4, PTL
<1>9. F!Init /\ [][F!Next]_(F!vars) => F!List!Init /\ [][F!List!Next]_(F!Shown)
  BY <1>3, <1>5, <1>8, PTL
<1>10. F!Init /\ [][F!Next]_(F!vars) => F!EveryMoveShows
  BY <1>6, <1>8, PTL DEF F!EveryMoveShows
<1>11. F!List!Init /\ [][F!List!Next]_(F!Shown) => F!List!Spec
  BY PTL DEF F!List!Spec
<1>12. QED
  BY <1>7, <1>9, <1>10, <1>11, PTL DEF ImplementsList, F!ImplementsList
-----------------------------------------------------------------------------
(* Forms and rows *)

\* The columns of the three tables.
LEMMA ColumnsAre ==
  A!Columns = {"is_active", "blocked_reason", "admin_note", "processing_status",
             "assigned_manager_id", "amount_1", "amount_2", "amount_3"}
  BY DEF A!Columns, A!FirstRow

BlockColumns == {"is_active", "blocked_reason"}

\* What a block or an unblock gives goes together, and no other form touches it.
BlockTogether(f) ==
  \/ BlockColumns \cap DOMAIN f = {}
  \/ /\ BlockColumns \subseteq DOMAIN f
     /\ f["is_active"] <=> f["blocked_reason"] = A!Null

\* A form assigns columns of the tables.
LEMMA FormsAre ==
  ASSUME NEW f \in A!Forms
  PROVE  DOMAIN f \subseteq A!Columns /\ BlockTogether(f)
<1>1. ASSUME NEW r \in Reasons, f = A!Block(r)
      PROVE  DOMAIN f \subseteq A!Columns /\ BlockTogether(f)
  <2>1. DOMAIN f = BlockColumns /\ f["is_active"] = FALSE /\ f["blocked_reason"] = <<r>>
    BY <1>1 DEF A!Block, BlockColumns
  <2>2. <<r>> # A!Null
    BY DEF A!Null
  <2>3. QED
    BY <2>1, <2>2, ColumnsAre DEF BlockTogether, BlockColumns
<1>2. ASSUME f = A!Unblock
      PROVE  DOMAIN f \subseteq A!Columns /\ BlockTogether(f)
  <2>1. DOMAIN f = BlockColumns /\ f["is_active"] = TRUE /\ f["blocked_reason"] = A!Null
    BY <1>2 DEF A!Unblock, BlockColumns
  <2>2. QED
    BY <2>1, ColumnsAre DEF BlockTogether, BlockColumns
<1>3. ASSUME \/ \E n \in Notes : f = A!SaveNote(n)
             \/ \E s \in Statuses : f = A!SetStatus(s)
             \/ \E m : f = A!SetManager(m)
             \/ \E x, y, z \in A!ParsedAmounts : f = A!SaveRates(x, y, z)
      PROVE  DOMAIN f \subseteq A!Columns /\ BlockTogether(f)
  <2>1. \/ DOMAIN f = {"admin_note"}
        \/ DOMAIN f = {"processing_status"}
        \/ DOMAIN f = {"assigned_manager_id"}
        \/ DOMAIN f = {"amount_1", "amount_2", "amount_3"}
    BY <1>3 DEF A!SaveNote, A!SetStatus, A!SetManager, A!SaveRates
  <2>2. QED
    BY <2>1, ColumnsAre DEF BlockTogether, BlockColumns
<1>4. QED
  BY <1>1, <1>2, <1>3 DEF A!Forms

-----------------------------------------------------------------------------
(* Handlers *)

SlotFields == {"at", "form", "loaded", "stale"}

\* A row is of all columns, and a handler at work has a form.
SlotsOK ==
  /\ DOMAIN row = A!Columns /\ DOMAIN last = A!Columns
  /\ open = [h \in Senders |-> open[h]]
  /\ \A h \in Senders :
       /\ DOMAIN open[h] = SlotFields
       /\ open[h].at # "idle" => open[h].at = "commit" /\ open[h].form \in A!Forms

\* What a handler loaded of its columns is in the table still, unless another
\* form for them was committed.
Fresh ==
  \A h \in Senders : open[h].at = "commit" =>
    \A c \in DOMAIN open[h].form \ open[h].stale : open[h].loaded[c] = row[c]

\* The block and the reason answered last go together.
LastTogether == last["is_active"] <=> last["blocked_reason"] = A!Null

FormsInv == SlotsOK /\ Fresh /\ A!AnswersHold /\ LastTogether

\* A free slot.
LEMMA IdleIs == DOMAIN A!Idle = SlotFields /\ A!Idle.at = "idle"
  BY DEF A!Idle, SlotFields

\* Nothing has been sent at first.
LEMMA InitForms == A!Init => FormsInv
<1> SUFFICES ASSUME A!Init PROVE FormsInv
  OBVIOUS
<1>1. /\ row = A!FirstRow /\ last = A!FirstRow /\ contested = {}
      /\ \A h \in Senders : open[h] = A!Idle
      /\ open = [h \in Senders |-> open[h]]
  BY DEF A!Init
<1>2. SlotsOK
  BY <1>1, IdleIs DEF SlotsOK, A!Columns
<1>3. A!FirstRow["is_active"] = TRUE /\ A!FirstRow["blocked_reason"] = A!Null
  BY DEF A!FirstRow
<1>4. QED
  BY <1>1, <1>2, <1>3, IdleIs DEF FormsInv, Fresh, A!AnswersHold, LastTogether

\* What the commit of a form leaves behind.
LEMMA Committed ==
  ASSUME FormsInv, NEW h \in Senders, A!Commit(h), NEW f, f = open[h].form
  PROVE  /\ f \in A!Forms /\ open[h].at = "commit"
         /\ \A c \in A!Columns : last'[c] = IF c \in DOMAIN f THEN f[c] ELSE last[c]
         /\ \A c \in A!Columns \ DOMAIN f : row'[c] = row[c]
         /\ \A c \in DOMAIN f \ open[h].stale : row'[c] = f[c]
         /\ contested' = (contested \ DOMAIN f) \cup (DOMAIN f \cap open[h].stale)
         /\ DOMAIN row' = A!Columns /\ DOMAIN last' = A!Columns
<1>1. f \in A!Forms /\ open[h].at = "commit" /\ DOMAIN row = A!Columns
  BY DEF FormsInv, SlotsOK, A!Commit
<1>2. DOMAIN f \subseteq A!Columns
  BY <1>1, FormsAre
<1>3. row' = [c \in A!Columns |-> IF c \in DOMAIN f /\ f[c] # open[h].loaded[c] THEN f[c] ELSE row[c]]
  BY <1>1 DEF A!Commit, A!Written
<1>4. last' = [c \in A!Columns |-> IF c \in DOMAIN f THEN f[c] ELSE last[c]]
  BY DEF A!Commit
<1>5. \A c \in DOMAIN f \ open[h].stale : open[h].loaded[c] = row[c]
  BY <1>1 DEF FormsInv, Fresh
<1>6. QED
  BY <1>1, <1>2, <1>3, <1>4, <1>5 DEF A!Commit

\* The slots after the commit of a form.
LEMMA CommittedSlots ==
  ASSUME FormsInv, NEW h \in Senders, A!Commit(h), NEW f, f = open[h].form, NEW g \in Senders
  PROVE  /\ open' = [k \in Senders |-> open'[k]]
         /\ \/ open'[g] = A!Idle
            \/ /\ g # h /\ open[g].at = "commit" /\ DOMAIN open'[g] = SlotFields
               /\ open'[g].at = "commit" /\ open'[g].form = open[g].form
               /\ open'[g].loaded = open[g].loaded
               /\ open'[g].stale = open[g].stale \cup DOMAIN f
<1>1. open' = [k \in Senders |-> IF k = h \/ open[k].at = "idle" THEN A!Idle
                                 ELSE [open[k] EXCEPT !.stale = @ \cup DOMAIN f]]
  BY DEF A!Commit
<1>2. DOMAIN open[g] = SlotFields /\ (open[g].at # "idle" => open[g].at = "commit")
  BY DEF FormsInv, SlotsOK
<1>3. CASE g = h \/ open[g].at = "idle"
  BY <1>1, <1>3
<1>4. CASE g # h /\ open[g].at # "idle"
  <2>1. open'[g] = [open[g] EXCEPT !.stale = @ \cup DOMAIN f]
    BY <1>1, <1>4
  <2>2. QED
    BY <1>1, <1>2, <1>4, <2>1 DEF SlotFields
<1>5. QED
  BY <1>3, <1>4

\* Every step keeps the invariant.
LEMMA NextForms == FormsInv /\ [A!Next]_(A!vars) => FormsInv'
<1> SUFFICES ASSUME FormsInv, [A!Next]_(A!vars) PROVE FormsInv'
  OBVIOUS
<1>a. SlotsOK /\ Fresh /\ A!AnswersHold /\ LastTogether
  BY DEF FormsInv
<1>1. ASSUME NEW h \in Senders, NEW f \in A!Forms, A!Load(h, f)
      PROVE  FormsInv'
  <2>1. PICK r : r = [at |-> "commit", form |-> f, loaded |-> row, stale |-> {}]
    OBVIOUS
  <2>2. DOMAIN r = SlotFields /\ r.at = "commit" /\ r.form = f /\ r.loaded = row
    BY <2>1 DEF SlotFields
  <2>3. open' = [open EXCEPT ![h] = r] /\ UNCHANGED <<row, last, contested>>
    BY <1>1, <2>1 DEF A!Load
  <2>4. /\ open' = [g \in Senders |-> open'[g]]
        /\ open'[h] = r /\ \A g \in Senders : g # h => open'[g] = open[g]
    BY <1>a, <2>3 DEF SlotsOK
  <2>5. SlotsOK'
    BY <1>a, <2>2, <2>3, <2>4 DEF SlotsOK
  <2>6. Fresh'
    BY <1>a, <2>2, <2>3, <2>4 DEF Fresh
  <2>7. QED
    BY <1>a, <2>3, <2>5, <2>6 DEF FormsInv, A!AnswersHold, LastTogether
<1>2. ASSUME NEW h \in Senders, A!Commit(h)
      PROVE  FormsInv'
  <2>1. PICK f : f = open[h].form
    OBVIOUS
  <2>2. /\ f \in A!Forms
        /\ \A c \in A!Columns : last'[c] = IF c \in DOMAIN f THEN f[c] ELSE last[c]
        /\ \A c \in A!Columns \ DOMAIN f : row'[c] = row[c]
        /\ \A c \in DOMAIN f \ open[h].stale : row'[c] = f[c]
        /\ contested' = (contested \ DOMAIN f) \cup (DOMAIN f \cap open[h].stale)
        /\ DOMAIN row' = A!Columns /\ DOMAIN last' = A!Columns
    BY <1>2, <2>1, Committed
  <2>3. DOMAIN f \subseteq A!Columns /\ BlockTogether(f)
    BY <2>2, FormsAre
  <2>4. \A g \in Senders :
          \/ open'[g] = A!Idle
          \/ /\ g # h /\ open[g].at = "commit" /\ DOMAIN open'[g] = SlotFields
             /\ open'[g].at = "commit" /\ open'[g].form = open[g].form
             /\ open'[g].loaded = open[g].loaded
             /\ open'[g].stale = open[g].stale \cup DOMAIN f
    BY <1>2, <2>1, CommittedSlots
  <2>5. SlotsOK'
    <3>1. open' = [k \in Senders |-> open'[k]]
      BY <1>2 DEF A!Commit
    <3>2. \A g \in Senders : open[g].at # "idle" => open[g].form \in A!Forms
      BY <1>a DEF SlotsOK
    <3>3. ASSUME NEW g \in Senders
          PROVE  /\ DOMAIN open'[g] = SlotFields
                 /\ open'[g].at # "idle" => open'[g].at = "commit" /\ open'[g].form \in A!Forms
      BY <2>4, <3>2, IdleIs
    <3>4. QED
      BY <2>2, <3>1, <3>3 DEF SlotsOK
  <2>6. Fresh'
    <3> SUFFICES ASSUME NEW g \in Senders, open'[g].at = "commit",
                        NEW c \in DOMAIN open'[g].form \ open'[g].stale
                 PROVE  open'[g].loaded[c] = row'[c]
      BY DEF Fresh
    <3>1. /\ open[g].at = "commit" /\ open'[g].form = open[g].form
          /\ open'[g].loaded = open[g].loaded
          /\ open'[g].stale = open[g].stale \cup DOMAIN f
      BY <2>4, IdleIs
    <3>2. c \notin DOMAIN f /\ c \in DOMAIN open[g].form \ open[g].stale
      BY <3>1
    <3>3. open[g].loaded[c] = row[c]
      BY <1>a, <3>1, <3>2 DEF Fresh
    <3>4. c \in A!Columns
      BY <1>a, <3>1, <3>2, FormsAre DEF SlotsOK
    <3>5. QED
      BY <2>2, <3>1, <3>2, <3>3, <3>4
  <2>7. A!AnswersHold'
    <3> SUFFICES ASSUME NEW c \in A!Columns, c \notin contested'
                 PROVE  row'[c] = last'[c]
      BY DEF A!AnswersHold
    <3>1. CASE c \in DOMAIN f
      BY <2>2, <3>1
    <3>2. CASE c \notin DOMAIN f
      BY <1>a, <2>2, <3>2 DEF A!AnswersHold
    <3>3. QED
      BY <3>1, <3>2
  <2>8. LastTogether'
    <3>1. BlockColumns \subseteq A!Columns
      BY ColumnsAre DEF BlockColumns
    <3>2. CASE BlockColumns \cap DOMAIN f = {}
      <4>1. last'["is_active"] = last["is_active"] /\ last'["blocked_reason"] = last["blocked_reason"]
        BY <2>2, <3>1, <3>2 DEF BlockColumns
      <4>2. QED
        BY <1>a, <4>1 DEF LastTogether
    <3>3. CASE BlockColumns \subseteq DOMAIN f /\ (f["is_active"] <=> f["blocked_reason"] = A!Null)
      <4>1. last'["is_active"] = f["is_active"] /\ last'["blocked_reason"] = f["blocked_reason"]
        BY <2>2, <3>1, <3>3 DEF BlockColumns
      <4>2. QED
        BY <3>3, <4>1 DEF LastTogether
    <3>4. QED
      BY <2>3, <3>2, <3>3 DEF BlockTogether
  <2>9. QED
    BY <2>5, <2>6, <2>7, <2>8 DEF FormsInv
<1>3. ASSUME NEW h \in Senders, A!RollBack(h)
      PROVE  FormsInv'
  <2>1. open' = [open EXCEPT ![h] = A!Idle] /\ UNCHANGED <<row, last, contested>>
    BY <1>3 DEF A!RollBack
  <2>2. /\ open' = [g \in Senders |-> open'[g]]
        /\ open'[h] = A!Idle /\ \A g \in Senders : g # h => open'[g] = open[g]
    BY <1>a, <2>1 DEF SlotsOK
  <2>3. SlotsOK' /\ Fresh'
    BY <1>a, <2>1, <2>2, IdleIs DEF SlotsOK, Fresh
  <2>4. QED
    BY <1>a, <2>1, <2>3 DEF FormsInv, A!AnswersHold, LastTogether
<1>4. CASE UNCHANGED A!vars
  BY <1>4 DEF A!vars, FormsInv, SlotsOK, Fresh, A!AnswersHold, LastTogether
<1>5. QED
  BY <1>1, <1>2, <1>3, <1>4 DEF A!Next

-----------------------------------------------------------------------------
(* The four parts of the back office *)

\* To each part the steps of the others are stuttering.
LEMMA PartsApart == BackOfficeSpec => Spec /\ Lists!Spec /\ A!Spec
<1>1. BackOfficeInit => Init /\ Lists!Init /\ A!Init
  BY DEF BackOfficeInit
<1>2. [BackOfficeNext]_<<vars, listVars, faqVars, formVars, part>>
        => [Next]_vars /\ [Lists!Next]_(Lists!vars) /\ [A!Next]_(A!vars)
  BY DEF BackOfficeNext, listVars, formVars, Lists!vars, A!vars
<1>3. QED
  BY <1>1, <1>2, PTL DEF BackOfficeSpec, Spec, Lists!Spec, A!Spec

\* However many entries come and go between the SELECTs of a page and between
\* the pages, a walk misses or repeats an entry only for those reasons
\* ListsComplete names (list_partners, list_applications).
THEOREM ListsCompleteAlways == BackOfficeSpec => []ListsComplete
<1>1. Lists!Spec => []ListInv
  BY ListInit, ListNext, PTL DEF Lists!Spec
<1>2. ListInv => ListsComplete
  BY DEF ListInv
<1>3. QED
  BY <1>1, <1>2, PartsApart, PTL

\* The invariant of the forms holds of every behaviour.
LEMMA FormsInvariant == A!Spec => []FormsInv
  BY InitForms, NextForms, PTL DEF A!Spec

\* However many administrators send forms at once, what was answered last is in
\* the table, unless a form for the same columns overlapped.
THEOREM AnswersHoldAlways == BackOfficeSpec => []AnswersHold
<1>1. FormsInv => AnswersHold
  BY DEF FormsInv, AnswersHold
<1>2. QED
  BY <1>1, FormsInvariant, PartsApart, PTL

\* A partner is blocked with a reason or active without one, whatever other
\* columns are written meanwhile, unless a block and an unblock overlapped.
THEOREM BlocksCorrect == BackOfficeSpec => []A!ReasonWithBlock
<1>1. FormsInv => A!ReasonWithBlock
  <2> SUFFICES ASSUME FormsInv, BlockColumns \cap contested = {}
               PROVE  row["is_active"] <=> row["blocked_reason"] = A!Null
    BY DEF A!ReasonWithBlock, BlockColumns
  <2>1. BlockColumns \subseteq A!Columns
    BY ColumnsAre DEF BlockColumns
  <2>2. row["is_active"] = last["is_active"] /\ row["blocked_reason"] = last["blocked_reason"]
    BY <2>1 DEF FormsInv, A!AnswersHold, BlockColumns
  <2>3. QED
    BY <2>2 DEF FormsInv, LastTogether
<1>2. QED
  BY <1>1, FormsInvariant, PartsApart, PTL

=============================================================================
