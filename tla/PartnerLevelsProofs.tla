------------------------ MODULE PartnerLevelsProofs ------------------------
(***************************************************************************)
(* The properties of the monthly close hold for every set of partners,     *)
(* deals, levels with a rate, threshold and history.  The months, runs and *)
(* edits are bounded by MaxMonth, MaxRuns and MaxEdits, of any size.       *)
(*                                                                         *)
(* Four parts rest on the types: who may write a row (HandInv), what a     *)
(* close has flushed or has still to visit (CloseInv), what the pricing of *)
(* the MAIN rewards holds (PricingInv, CountedInv, WaitingInv), and whom a *)
(* run still owes a bonus (BonusInv).                                      *)
(***************************************************************************)
EXTENDS PartnerLevels, FiniteSetTheorems, TLAPS

-----------------------------------------------------------------------------
(* Rows and contracts *)

\* What a row of partner_level_months is.
LEMMA Rows ==
  /\ NoRow \in Row /\ NoRow.level = "none" /\ ~NoRow.manual
  /\ \A row \in Row : row.manual \in BOOLEAN
  /\ \A row \in Row : row # NoRow => row.level \in Levels /\ row.manual \in BOOLEAN
  /\ \A l \in Levels : [level |-> l, manual |-> TRUE] \in Row
  /\ \A l \in Levels, k \in BOOLEAN : [level |-> l, manual |-> k] \in Row
  /\ "none" \notin Levels
<1>1. NoRow.level = "none" /\ ~NoRow.manual /\ NoRow.manual \in BOOLEAN
  BY DEF NoRow
<1> HIDE DEF NoRow
<1>2. QED
  BY <1>1 DEF Row, Levels

\* Every number of contracts has a level.
LEMMA ContractLevel == \A n \in Nat : LevelForContracts(n) \in Levels
  BY DEF LevelForContracts, Levels

\* A number of contracts is positive when there is a contract.
LEMMA ContractsCounted ==
  ASSUME NEW a, NEW first, NEW last
  PROVE  /\ Contracts(a, first, last) \in Nat
         /\ Contracts(a, first, last) > 0 <=>
              \E d \in Deals \ rejected : Owner[d] = a /\ signed[d] \in first..last
<1> DEFINE D == {d \in Deals \ rejected : Owner[d] = a /\ signed[d] \in first..last}
<1>1. IsFiniteSet(Deals) /\ D \subseteq Deals
  BY PartnerLevelsAssumption
<1> HIDE DEF D
<1>2. IsFiniteSet(D) /\ Cardinality(D) \in Nat
  BY <1>1, FS_Subset, FS_CardinalityType
<1>3. Cardinality(D) = 0 <=> D = {}
  BY <1>2, FS_EmptySet
<1>4. Contracts(a, first, last) = Cardinality(D)
  BY DEF Contracts, D
<1>5. Contracts(a, first, last) > 0 <=> D # {}
  BY <1>2, <1>3, <1>4
<1>6. QED
  BY <1>2, <1>4, <1>5 DEF D

\* Contracts are counted for every partner.
LEMMA CountsTyped ==
  ASSUME NEW first, NEW last
  PROVE  CountsOf(first, last) \in [Agents -> Nat]
  BY ContractsCounted DEF CountsOf

\* The values of nobody.
LEMMA Empty == NoCounts \in [Agents -> Nat] /\ NoWrites \in [Agents -> Levels \cup {"none"}]
  BY DEF NoCounts, NoWrites

-----------------------------------------------------------------------------
(* Types *)

TablesOK ==
  /\ month \in Months
  /\ signed \in [Deals -> Months \cup {0}]
  /\ rejected \subseteq Deals
  /\ main \in [Deals -> Levels \cup {"absent", "unpriced"}]
  /\ rows \in [Agents -> [Months -> Row]]
  /\ bonus \in [Agents -> [ClosingMonths -> Nat]]

JobOK ==
  /\ jpc \in JobStates
  /\ jmonth \in Months \cup {0}
  /\ jpc # "idle" => jmonth \in Months
  /\ counts \in [Agents -> Nat]
  /\ todo \subseteq Agents
  /\ cur \subseteq Agents
  /\ read \in Row
  /\ writes \in [Agents -> Levels \cup {"none"}]
  /\ mains \subseteq Deals

HistoryOK ==
  /\ runs \in Nat
  /\ edits \in Nat
  /\ closings \in [Months -> Nat]
  /\ closedOn \in [Months -> [Agents -> Nat]]
  /\ filled \subseteq Months
  /\ earned \subseteq PartnerMonths
  /\ settled \subseteq PartnerMonths
  /\ hasty \subseteq Agents \X Months

\* Where the job keeps what, and what it works on is over.
JobShape ==
  /\ jpc # "idle" => jmonth < month
  /\ jpc # "close" => cur = {}
  /\ jpc \notin {"close", "price"} => writes = NoWrites
  /\ jpc = "bonus" => jmonth \in ClosingMonths
  /\ \A d \in mains : jpc = "price" /\ signed[d] = jmonth

TableShape ==
  /\ \A m \in Months : closings[m] > 0 => m < month
  /\ \A m \in filled : closings[m] > 0
  /\ jpc \in {"mains", "price", "quarter", "bonus"} => closings[jmonth] > 0
  /\ \A d \in Deals : main[d] # "absent" => signed[d] # 0

Typed == TablesOK /\ JobOK /\ HistoryOK /\ JobShape /\ TableShape

\* The strengthened types include the ones checked.
LEMMA TypedIsTypeOK == Typed => TypeOK
  BY DEF Typed, TablesOK, JobOK, HistoryOK, TypeOK

\* Months are positive numbers in a row.
LEMMA MonthsNumbers ==
  /\ Months \subseteq Nat \ {0} /\ ClosingMonths \subseteq Months /\ FirstMonth \in Months
  /\ \A m \in Months : m > FirstMonth => m - 1 \in Months
  /\ \A m \in Months : m < MaxMonth => m + 1 \in Months
  BY PartnerLevelsAssumption DEF Months, ClosingMonths

\* The types hold in the initial state.
LEMMA InitTyped == Init => Typed
<1> SUFFICES ASSUME Init PROVE Typed
  OBVIOUS
<1>1. TablesOK
  BY MonthsNumbers, Rows DEF Init, TablesOK
<1>2. JobOK
  BY Empty, Rows DEF Init, JobOK, JobStates
<1>3. HistoryOK
  BY Empty DEF Init, HistoryOK
<1>4. JobShape /\ TableShape
  BY DEF Init, JobShape, TableShape
<1>5. QED
  BY <1>1, <1>2, <1>3, <1>4 DEF Typed

\* What a run has flushed are levels.
LEMMA FlushedTyped ==
  ASSUME JobOK
  PROVE  Flushed \in [Agents -> Levels \cup {"none"}]
  BY ContractLevel DEF JobOK, Flushed

\* A run that ends leaves nothing behind.
LEMMA EndTyped ==
  ASSUME Typed, EndJob, UNCHANGED <<month, tables, closings, filled>>
  PROVE  JobOK' /\ JobShape' /\ TableShape'
<1>1. JobOK'
  BY Empty, Rows DEF EndJob, JobOK, JobStates
<1>2. JobShape' /\ TableShape'
  BY DEF EndJob, JobShape, TableShape, Typed, tables
<1>3. QED
  BY <1>1, <1>2

\* Every step keeps the types.
LEMMA NextTyped == Typed /\ [Next]_vars => Typed'
<1> SUFFICES ASSUME Typed, [Next]_vars
             PROVE  TablesOK' /\ JobOK' /\ HistoryOK' /\ JobShape' /\ TableShape'
  BY DEF Typed
<1> USE DEF Typed
<1>1. ASSUME NEW d \in Deals, SignContract(d)
      PROVE  TablesOK' /\ JobOK' /\ HistoryOK' /\ JobShape' /\ TableShape'
  <2>1. TablesOK' /\ TableShape'
    BY <1>1, MonthsNumbers DEF SignContract, TablesOK, TableShape, history, jobVars
  <2>2. JobOK' /\ HistoryOK'
    BY <1>1 DEF SignContract, JobOK, HistoryOK, history, jobVars
  <2>3. \A e \in mains : signed[e] \in Months /\ signed[e] # 0
    BY MonthsNumbers DEF JobShape, JobOK
  <2>4. signed[d] = 0 /\ signed' = [signed EXCEPT ![d] = month] /\ signed \in [Deals -> Months \cup {0}]
    BY <1>1 DEF SignContract, TablesOK
  <2>5. \A e \in mains : signed'[e] = signed[e]
    BY <2>3, <2>4
  <2>6. JobShape'
    BY <1>1, <2>5 DEF SignContract, JobShape, jobVars
  <2>7. QED
    BY <2>1, <2>2, <2>6
<1>2. ASSUME NEW d \in Deals, RejectAdvance(d)
      PROVE  TablesOK' /\ JobOK' /\ HistoryOK' /\ JobShape' /\ TableShape'
  <2>1. TablesOK' /\ TableShape'
    BY <1>2 DEF RejectAdvance, TablesOK, TableShape, history, jobVars
  <2>2. JobOK' /\ HistoryOK' /\ JobShape'
    BY <1>2 DEF RejectAdvance, JobOK, HistoryOK, JobShape, history, jobVars
  <2>3. QED
    BY <2>1, <2>2
<1>3. ASSUME NEW d \in Deals, CreateMain(d)
      PROVE  TablesOK' /\ JobOK' /\ HistoryOK' /\ JobShape' /\ TableShape'
  <2>1. TablesOK'
    BY <1>3, PartnerLevelsAssumption DEF CreateMain, TablesOK
  <2>2. TableShape'
    BY <1>3 DEF CreateMain, TablesOK, TableShape, history, jobVars
  <2>3. JobOK' /\ HistoryOK' /\ JobShape'
    BY <1>3 DEF CreateMain, JobOK, HistoryOK, JobShape, history, jobVars
  <2>4. QED
    BY <2>1, <2>2, <2>3
<1>4. ASSUME NEW a \in Agents, NEW m \in Months, NEW l \in HandLevels, SetLevelByHand(a, m, l)
      PROVE  TablesOK' /\ JobOK' /\ HistoryOK' /\ JobShape' /\ TableShape'
  <2>1. TablesOK'
    <3>1. l \in Levels
      BY PartnerLevelsAssumption
    <3>2. [level |-> l, manual |-> TRUE] \in Row
      BY <3>1, Rows
    <3>3. QED
      BY <1>4, <3>2 DEF SetLevelByHand, TablesOK
  <2>2. TableShape' /\ JobOK' /\ JobShape'
    BY <1>4 DEF SetLevelByHand, JobOK, JobShape, TableShape, jobVars
  <2>3. HistoryOK'
    BY <1>4 DEF SetLevelByHand, HistoryOK
  <2>4. QED
    BY <2>1, <2>2, <2>3
<1>5. CASE NextMonth
  <2>1. TablesOK'
    BY <1>5, MonthsNumbers DEF NextMonth, TablesOK, tables
  <2>2. month \in Nat /\ month' = month + 1 /\ UNCHANGED <<jmonth, jpc, closings>>
    BY <1>5, MonthsNumbers DEF NextMonth, TablesOK, jobVars, history
  <2>3. TableShape' /\ JobShape'
    <3>1. \A m \in Nat : m < month => m < month'
      BY <2>2
    <3>2. UNCHANGED <<main, signed, filled, cur, writes, mains>>
      BY <1>5 DEF NextMonth, tables, jobVars, history
    <3>3. jpc # "idle" => jmonth < month'
      BY <2>2, <3>1, MonthsNumbers DEF JobShape, JobOK
    <3>4. \A m \in Months : closings[m] > 0 => m < month'
      BY <3>1, MonthsNumbers DEF TableShape
    <3>5. JobShape'
      BY <2>2, <3>2, <3>3 DEF JobShape
    <3>6. QED
      BY <2>2, <3>2, <3>4, <3>5 DEF TableShape
  <2>4. JobOK' /\ HistoryOK'
    BY <1>5 DEF NextMonth, JobOK, HistoryOK, jobVars, history
  <2>5. QED
    BY <2>1, <2>3, <2>4
<1>6. CASE StartJob
  <2>1. TablesOK' /\ HistoryOK'
    BY <1>6 DEF StartJob, TablesOK, HistoryOK, tables
  <2>2. month - 1 \in Months /\ month \in Nat
    BY <1>6, MonthsNumbers DEF StartJob, TablesOK
  <2>3. JobOK'
    BY <1>6, <2>2, CountsTyped DEF StartJob, PreviousMonth, JobOK, JobStates
  <2>4. JobShape' /\ TableShape'
    BY <1>6, <2>2 DEF StartJob, PreviousMonth, JobShape, TableShape, tables
  <2>5. QED
    BY <2>1, <2>3, <2>4
<1>7. ASSUME NEW a \in Agents, VisitAgent(a)
      PROVE  TablesOK' /\ JobOK' /\ HistoryOK' /\ JobShape' /\ TableShape'
  <2>1. TablesOK' /\ HistoryOK' /\ TableShape'
    BY <1>7 DEF VisitAgent, TablesOK, HistoryOK, TableShape, tables, history
  <2>2. jmonth \in Months /\ rows[a][jmonth] \in Row
    BY <1>7 DEF VisitAgent, JobOK, TablesOK
  <2>3. JobOK'
    BY <1>7, <2>2, FlushedTyped, Rows DEF VisitAgent, JobOK
  <2>4. JobShape'
    BY <1>7 DEF VisitAgent, JobShape
  <2>5. QED
    BY <2>1, <2>3, <2>4
<1>8. CASE CommitClose
  <2>1. jmonth \in Months /\ jmonth \in Nat /\ month \in Nat /\ Flushed \in [Agents -> Levels \cup {"none"}]
    BY <1>8, FlushedTyped, MonthsNumbers DEF CommitClose, JobOK, TablesOK
  <2>2. TablesOK'
    <3>1. ASSUME NEW a \in Agents, NEW m \in Months
          PROVE  rows'[a][m] \in Row /\ rows' = [b \in Agents |-> rows'[b]]
                 /\ rows'[a] = [n \in Months |-> rows'[a][n]]
      <4>1. rows[a][m] \in Row
        BY DEF TablesOK
      <4>2. rows[a][m].manual \in BOOLEAN
        BY <4>1, Rows
      <4>3. Flushed[a] # "none" => [level |-> Flushed[a], manual |-> rows[a][m].manual] \in Row
        BY <2>1, <4>2, Rows
      <4> HIDE DEF Flushed
      <4>4. QED
        BY <1>8, <4>1, <4>3 DEF CommitClose
    <3>2. rows' \in [Agents -> [Months -> Row]]
      <4> DEFINE new(a, m) == IF m = jmonth /\ Flushed[a] # "none"
                              THEN [level |-> Flushed[a], manual |-> rows[a][m].manual]
                              ELSE rows[a][m]
      <4>1. rows' = [a \in Agents |-> [m \in Months |-> new(a, m)]]
        BY <1>8 DEF CommitClose
      <4>2. \A a \in Agents, m \in Months : rows'[a][m] = new(a, m)
        BY <4>1
      <4>3. \A a \in Agents, m \in Months : new(a, m) \in Row
        BY <3>1, <4>2
      <4> HIDE DEF new
      <4>4. QED
        BY <4>1, <4>3
    <3>3. QED
      BY <1>8, <3>2 DEF CommitClose, TablesOK
  <2>3. HistoryOK'
    BY <1>8, <2>1 DEF CommitClose, HistoryOK, JobOK
  <2>4. JobOK'
    BY <1>8, Empty, Rows DEF CommitClose, JobOK, JobStates
  <2>5. JobShape'
    BY <1>8 DEF CommitClose, JobShape
  <2>6. TableShape'
    <3>1. closings' = [closings EXCEPT ![jmonth] = closings[jmonth] + 1] /\ closings \in [Months -> Nat]
      BY <1>8 DEF CommitClose, HistoryOK
    <3>2. closings'[jmonth] > 0 /\ \A m \in Months : m # jmonth => closings'[m] = closings[m]
      BY <2>1, <3>1
    <3>3. jmonth < month
      BY <1>8 DEF CommitClose, JobShape
    <3>4. filled \subseteq Months /\ UNCHANGED <<filled, month, main, signed, jmonth>>
      BY <1>8 DEF CommitClose, HistoryOK
    <3>5. QED
      BY <3>2, <3>3, <3>4 DEF TableShape
  <2>7. QED
    BY <2>2, <2>3, <2>4, <2>5, <2>6
<1>9. CASE ReadMains
  <2>1. TablesOK' /\ HistoryOK'
    BY <1>9 DEF ReadMains, TablesOK, HistoryOK, tables, history
  <2>2. JobOK'
    BY <1>9, PartnerLevelsAssumption DEF ReadMains, JobOK, JobStates
  <2>3. JobShape' /\ TableShape'
    BY <1>9 DEF ReadMains, BackfillDue, JobShape, TableShape, tables, history
  <2>4. QED
    BY <2>1, <2>2, <2>3
<1>10. ASSUME NEW a \in Agents, PriceAgent(a)
       PROVE  TablesOK' /\ JobOK' /\ HistoryOK' /\ JobShape' /\ TableShape'
  <2>1. TablesOK' /\ HistoryOK' /\ TableShape'
    BY <1>10 DEF PriceAgent, TablesOK, HistoryOK, TableShape, tables, history
  <2>2. JobOK'
    BY <1>10, PartnerLevelsAssumption DEF PriceAgent, JobOK
  <2>3. JobShape'
    BY <1>10 DEF PriceAgent, JobShape, tables
  <2>4. QED
    BY <2>1, <2>2, <2>3
<1>11. CASE CommitMains
  <2>1. TablesOK'
    BY <1>11, PartnerLevelsAssumption DEF CommitMains, TablesOK, JobOK
  <2>2. HistoryOK'
    BY <1>11 DEF CommitMains, HistoryOK, JobOK
  <2>3. JobOK' /\ JobShape'
    BY <1>11, Empty DEF CommitMains, JobOK, JobShape, JobStates
  <2>4. TableShape'
    <3>1. closings[jmonth] > 0 /\ UNCHANGED <<closings, month, jmonth, signed>>
      BY <1>11 DEF CommitMains, TableShape
    <3>2. ASSUME NEW d \in Deals, main'[d] # "absent" PROVE signed[d] # 0
      <4>1. main[d] # "absent" \/ d \in mains
        BY <1>11, <3>2 DEF CommitMains
      <4>2. d \in mains => signed[d] \in Months
        BY <1>11 DEF CommitMains, JobShape, JobOK
      <4>3. QED
        BY <4>1, <4>2, MonthsNumbers DEF TableShape
    <3>3. QED
      BY <1>11, <3>1, <3>2 DEF CommitMains, TableShape
  <2>5. QED
    BY <2>1, <2>2, <2>3, <2>4
<1>12. CASE SkipQuarter \/ JobFails
  <2>1. TablesOK' /\ HistoryOK'
    BY <1>12 DEF SkipQuarter, JobFails, TablesOK, HistoryOK, tables, history
  <2>2. QED
    BY <1>12, <2>1, EndTyped DEF SkipQuarter, JobFails, history
<1>13. CASE ReadQuarter
  <2>1. TablesOK' /\ TableShape'
    BY <1>13 DEF ReadQuarter, TablesOK, TableShape, tables
  <2>2. HistoryOK'
    BY <1>13 DEF ReadQuarter, HistoryOK, PartnerMonths
  <2>3. JobOK' /\ JobShape'
    BY <1>13, CountsTyped DEF ReadQuarter, JobOK, JobShape, JobStates
  <2>4. QED
    BY <2>1, <2>2, <2>3
<1>14. ASSUME NEW a \in Agents, CreateBonus(a)
       PROVE  TablesOK' /\ JobOK' /\ HistoryOK' /\ JobShape' /\ TableShape'
  <2>1. TablesOK'
    <3>1. bonus' \in [Agents -> [ClosingMonths -> Nat]]
      BY <1>14 DEF CreateBonus, TablesOK, BonusStored
    <3>2. QED
      BY <1>14, <3>1 DEF CreateBonus, TablesOK
  <2>2. HistoryOK' /\ TableShape'
    BY <1>14 DEF CreateBonus, HistoryOK, TableShape, history
  <2>3. JobOK' /\ JobShape'
    BY <1>14 DEF CreateBonus, JobOK, JobShape
  <2>4. QED
    BY <2>1, <2>2, <2>3
<1>15. CASE FinishQuarter
  <2>1. TablesOK'
    BY <1>15 DEF FinishQuarter, TablesOK, tables
  <2>2. HistoryOK'
    BY <1>15 DEF FinishQuarter, HistoryOK, PartnerMonths, JobShape
  <2>3. QED
    BY <1>15, <2>1, <2>2, EndTyped DEF FinishQuarter
<1>16. CASE UNCHANGED vars
  BY <1>16 DEF vars, tables, jobVars, history, TablesOK, JobOK, HistoryOK, JobShape, TableShape
<1>17. QED
  BY <1>1, <1>2, <1>3, <1>4, <1>5, <1>6, <1>7, <1>8, <1>9, <1>10, <1>11, <1>12, <1>13, <1>14,
     <1>15, <1>16 DEF Next, JobStep

\* The types hold always.
LEMMA TypedInvariant == Spec => []Typed
<1>1. QED
  BY InitTyped, NextTyped, PTL DEF Spec

\* Every table, job and history variable keeps its shape.
THEOREM TypeCorrect == Spec => []TypeOK
<1>1. QED
  BY TypedInvariant, TypedIsTypeOK, PTL

-----------------------------------------------------------------------------
(* Who writes the rows *)

\* Steps that leave the rows and the job's run through them alone.
LEMMA CloseSteps ==
  ASSUME [Next]_vars
  PROVE  \/ \E a \in Agents, m \in Months, l \in HandLevels : SetLevelByHand(a, m, l)
         \/ StartJob
         \/ \E a \in Agents : VisitAgent(a)
         \/ CommitClose
         \/ /\ UNCHANGED <<rows, edits, closings, closedOn, hasty>>
            /\ \/ jpc' # "close"
               \/ jpc = "close" /\ UNCHANGED <<jpc, jmonth, counts, todo, cur, read, writes>>
  BY DEF Next, JobStep, vars, tables, jobVars, history, SignContract, RejectAdvance, CreateMain,
         NextMonth, ReadMains, PriceAgent, CommitMains, SkipQuarter, ReadQuarter, CreateBonus,
         FinishQuarter, JobFails, EndJob

\* What a record of a level and a mark reads as.
LEMMA RowRead ==
  ASSUME NEW row, NEW l, NEW k, row = [level |-> l, manual |-> k]
  PROVE  row.manual = k
  BY Zenon

\* The new rows of a close.
LEMMA ClosedRows ==
  ASSUME Typed, CommitClose, NEW a \in Agents, NEW m \in Months
  PROVE  /\ (m # jmonth \/ Flushed[a] = "none") => rows'[a][m] = rows[a][m]
         /\ (m = jmonth /\ Flushed[a] # "none") =>
              /\ rows'[a][m].level = Flushed[a]
              /\ rows'[a][m].manual = rows[a][m].manual
              /\ rows'[a][m] # NoRow
<1> HIDE DEF Flushed
<1>1. Flushed \in [Agents -> Levels \cup {"none"}]
  BY FlushedTyped DEF Typed
<1>2. rows'[a][m] = IF m = jmonth /\ Flushed[a] # "none"
                    THEN [level |-> Flushed[a], manual |-> rows[a][m].manual]
                    ELSE rows[a][m]
  BY DEF CommitClose
<1>3. CASE m = jmonth /\ Flushed[a] # "none"
  <2>1. rows'[a][m].level = Flushed[a] /\ Flushed[a] \in Levels
    BY <1>1, <1>2, <1>3
  <2>2. rows'[a][m].manual = rows[a][m].manual
    <3>1. rows'[a][m] = [level |-> Flushed[a], manual |-> rows[a][m].manual]
      BY <1>2, <1>3
    <3>2. QED
      BY <3>1, RowRead
  <2>3. rows'[a][m] # NoRow
    BY <2>1, Rows
  <2>4. QED
    BY <1>3, <2>1, <2>2, <2>3
<1>4. QED
  BY <1>2, <1>3

\* A row that the run is about to write, or has flushed, has not been set by
\* hand, unless after the run read it.
HandInv ==
  jpc = "close" =>
    \A a \in Agents :
      ((a \in cur \/ writes[a] # "none") /\ rows[a][jmonth].manual) => <<a, jmonth>> \in hasty

\* Every step keeps the corrected rows out of the run, or marked.
LEMMA HandNext == Typed /\ HandInv /\ [Next]_vars => HandInv'
<1> SUFFICES ASSUME Typed, HandInv, [Next]_vars, jpc' = "close"
             PROVE  \A a \in Agents :
                      ((a \in cur' \/ writes'[a] # "none") /\ rows'[a][jmonth'].manual)
                        => <<a, jmonth'>> \in hasty'
  BY DEF HandInv
<1>1. ASSUME NEW a \in Agents, NEW m \in Months, NEW l \in HandLevels, SetLevelByHand(a, m, l)
      PROVE  \A b \in Agents :
               ((b \in cur' \/ writes'[b] # "none") /\ rows'[b][jmonth'].manual)
                 => <<b, jmonth'>> \in hasty'
  <2>1. jpc = "close" /\ UNCHANGED <<cur, writes, jmonth>>
    BY <1>1 DEF SetLevelByHand, jobVars
  <2>2. \A b \in Agents : (b # a \/ jmonth # m) => rows'[b][jmonth] = rows[b][jmonth]
    BY <1>1, <2>1 DEF SetLevelByHand, Typed, TablesOK, JobOK
  <2>3. hasty \subseteq hasty'
    BY <1>1 DEF SetLevelByHand
  <2>4. jmonth = m => writes[a] = "none" /\ (a \in cur => <<a, m>> \in hasty')
    BY <1>1, <2>1 DEF SetLevelByHand
  <2>5. QED
    BY <2>1, <2>2, <2>3, <2>4 DEF HandInv
<1>2. CASE StartJob
  BY <1>2, Zenon DEF StartJob, Typed, JobShape, NoWrites
<1>3. ASSUME NEW a \in Agents, VisitAgent(a)
      PROVE  \A b \in Agents :
               ((b \in cur' \/ writes'[b] # "none") /\ rows'[b][jmonth'].manual)
                 => <<b, jmonth'>> \in hasty'
  <2>1. jpc = "close" /\ UNCHANGED <<rows, jmonth, hasty>>
    BY <1>3 DEF VisitAgent, tables, history
  <2>2. \A b \in Agents : writes'[b] # "none" => b \in cur \/ writes[b] # "none"
    BY <1>3 DEF VisitAgent, Flushed
  <2>3. \A b \in cur' : b = a /\ ~rows[a][jmonth].manual
    BY <1>3 DEF VisitAgent, Takes
  <2>4. QED
    BY <2>1, <2>2, <2>3 DEF HandInv
<1>4. CASE CommitClose
  BY <1>4 DEF CommitClose
<1>5. CASE /\ UNCHANGED <<rows, hasty>>
           /\ jpc = "close" /\ UNCHANGED <<jmonth, cur, writes>>
  BY <1>5 DEF HandInv
<1>6. QED
  BY <1>1, <1>2, <1>3, <1>4, <1>5, CloseSteps

\* A correction is lost in the race with a run only, and goes on counting.
LEMMA CorrectionStep ==
  ASSUME Typed, HandInv, [Next]_vars, NEW a \in Agents, NEW m \in Months, rows[a][m].manual
  PROVE  /\ rows'[a][m].manual
         /\ \/ rows'[a][m] = rows[a][m]
            \/ \E l \in HandLevels : SetLevelByHand(a, m, l)
            \/ <<a, m>> \in hasty
<1>1. ASSUME NEW b \in Agents, NEW n \in Months, NEW l \in HandLevels, SetLevelByHand(b, n, l)
      PROVE  rows'[a][m].manual /\ (rows'[a][m] = rows[a][m] \/ SetLevelByHand(a, m, l))
  <2>1. CASE a = b /\ m = n
    BY <1>1, <2>1 DEF SetLevelByHand, Typed, TablesOK
  <2>2. CASE a # b \/ m # n
    BY <1>1, <2>2 DEF SetLevelByHand, Typed, TablesOK
  <2>3. QED
    BY <1>1, <2>1, <2>2
<1>2. CASE CommitClose
  <2>1. CASE m = jmonth /\ Flushed[a] # "none"
    <3>1. a \in cur \/ writes[a] # "none"
      BY <2>1 DEF Flushed
    <3>2. <<a, m>> \in hasty
      BY <1>2, <2>1, <3>1 DEF CommitClose, HandInv
    <3>3. rows'[a][m].manual
      BY <1>2, <2>1, ClosedRows
    <3>4. QED
      BY <3>2, <3>3
  <2>2. CASE ~(m = jmonth /\ Flushed[a] # "none")
    BY <1>2, <2>2, ClosedRows
  <2>3. QED
    BY <2>1, <2>2
<1>3. CASE UNCHANGED rows
  BY <1>3
<1>4. UNCHANGED rows \/ CommitClose
      \/ \E b \in Agents, n \in Months, l \in HandLevels : SetLevelByHand(b, n, l)
  BY CloseSteps DEF StartJob, VisitAgent, tables
<1>5. QED
  BY <1>1, <1>2, <1>3, <1>4

\* A row the run is about to write has not been corrected, or in a race.
LEMMA HandInvariant == Spec => []HandInv
<1>1. Init => HandInv
  BY DEF Init, HandInv
<1>2. QED
  BY <1>1, HandNext, TypedInvariant, PTL DEF Spec

\* Whatever was corrected before a run came to it survives every re-run.
THEOREM CorrectionsKept == Spec => CorrectionsLostInRaceOnly
<1>1. Typed /\ HandInv /\ [Next]_vars =>
        [\A a \in Agents, m \in Months :
           rows[a][m].manual =>
             /\ rows'[a][m].manual
             /\ \/ rows'[a][m] = rows[a][m]
                \/ \E l \in HandLevels : SetLevelByHand(a, m, l)
                \/ <<a, m>> \in hasty]_vars
  BY CorrectionStep
<1>2. QED
  BY <1>1, HandInvariant, TypedInvariant, PTL DEF Spec, CorrectionsLostInRaceOnly

-----------------------------------------------------------------------------
(* What a close leaves *)

\* A row fits the contracts counted for its partner, or was set by hand.
Fits(row, n) == row # NoRow /\ (row.manual \/ row.level = LevelForContracts(n))

\* While a run closes its month, what it flushed are the levels it counted, the
\* row it holds is as it was read or set by hand, and a partner it is done
\* with has a row that fits.
CloseInv ==
  jpc = "close" =>
    \A a \in Agents :
      /\ writes[a] # "none" => writes[a] = LevelForContracts(counts[a])
      /\ a \in cur => rows[a][jmonth] = read \/ rows[a][jmonth].manual
      /\ counts[a] > 0 =>
           a \in todo \/ a \in cur \/ writes[a] # "none" \/ Fits(rows[a][jmonth], counts[a])

\* After the flush, a partner held or flushed is flushed or has a row that fits.
LEMMA FlushFits ==
  ASSUME Typed, CloseInv, jpc = "close", NEW a \in Agents
  PROVE  /\ Flushed[a] # "none" => Flushed[a] = LevelForContracts(counts[a])
         /\ a \in cur \/ writes[a] # "none" =>
              Flushed[a] # "none" \/ Fits(rows[a][jmonth], counts[a])
<1>1. counts[a] \in Nat /\ LevelForContracts(counts[a]) \in Levels
  BY ContractLevel DEF Typed, JobOK
<1> DEFINE L == LevelForContracts(counts[a])
<1>2. Flushed[a] = IF a \in cur /\ L # read.level THEN L ELSE writes[a]
  BY DEF Flushed
<1>3. L \in Levels /\ L # "none"
  BY <1>1, Rows
<1>4. /\ writes[a] # "none" => writes[a] = L
      /\ a \in cur => rows[a][jmonth] = read \/ rows[a][jmonth].manual
  BY DEF CloseInv
<1> HIDE DEF L
<1>5. Flushed[a] # "none" => Flushed[a] = L
  BY <1>2, <1>4
<1>6. ASSUME a \in cur, L = read.level PROVE Fits(rows[a][jmonth], counts[a])
  <2>1. CASE rows[a][jmonth] = read
    <3>1. read # NoRow
      BY <1>3, <1>6, Rows
    <3>2. QED
      BY <1>6, <2>1, <3>1 DEF Fits, L
  <2>2. CASE rows[a][jmonth].manual
    BY <2>2, Rows DEF Fits
  <2>3. QED
    BY <1>4, <1>6, <2>1, <2>2
<1>7. QED
  BY <1>2, <1>3, <1>5, <1>6 DEF L

\* Every step of a close keeps its levels at what it counted.
LEMMA CloseNext == Typed /\ CloseInv /\ [Next]_vars => CloseInv'
<1> SUFFICES ASSUME Typed, CloseInv, [Next]_vars, jpc' = "close", NEW b \in Agents
             PROVE  /\ writes'[b] # "none" => writes'[b] = LevelForContracts(counts'[b])
                    /\ b \in cur' => rows'[b][jmonth'] = read' \/ rows'[b][jmonth'].manual
                    /\ counts'[b] > 0 =>
                         \/ b \in todo' \/ b \in cur' \/ writes'[b] # "none"
                         \/ Fits(rows'[b][jmonth'], counts'[b])
  BY DEF CloseInv, Fits
<1> DEFINE Goal == /\ writes'[b] # "none" => writes'[b] = LevelForContracts(counts'[b])
                   /\ b \in cur' => rows'[b][jmonth'] = read' \/ rows'[b][jmonth'].manual
                   /\ counts'[b] > 0 =>
                        \/ b \in todo' \/ b \in cur' \/ writes'[b] # "none"
                        \/ Fits(rows'[b][jmonth'], counts'[b])
<1>1. ASSUME NEW a \in Agents, NEW m \in Months, NEW l \in HandLevels, SetLevelByHand(a, m, l)
      PROVE  Goal
  <2>1. jpc = "close" /\ UNCHANGED <<cur, writes, jmonth, counts, todo, read>>
    BY <1>1 DEF SetLevelByHand, jobVars
  <2>2. CASE b = a /\ jmonth = m
    <3>1. rows'[b][jmonth].manual
      BY <1>1, <2>1, <2>2 DEF SetLevelByHand, Typed, TablesOK
    <3>2. Fits(rows'[b][jmonth], counts[b])
      BY <3>1, Rows DEF Fits
    <3>3. QED
      BY <2>1, <3>1, <3>2 DEF CloseInv
  <2>3. CASE b # a \/ jmonth # m
    <3>1. rows'[b][jmonth] = rows[b][jmonth]
      BY <1>1, <2>1, <2>3 DEF SetLevelByHand, Typed, TablesOK, JobOK
    <3>2. QED
      BY <2>1, <3>1 DEF CloseInv
  <2>4. QED
    BY <2>2, <2>3
<1>2. CASE StartJob
  <2>1. cur = {} /\ writes = NoWrites /\ UNCHANGED <<cur, writes>>
    BY <1>2 DEF StartJob, Typed, JobShape
  <2>2. counts'[b] > 0 => b \in todo'
    BY <1>2 DEF StartJob, CountsOf
  <2>3. writes'[b] = "none"
    BY <2>1 DEF NoWrites
  <2>4. QED
    BY <2>1, <2>2, <2>3
<1>3. ASSUME NEW a \in Agents, VisitAgent(a)
      PROVE  Goal
  <2>1. /\ jpc = "close" /\ UNCHANGED <<rows, jmonth, counts>>
        /\ writes' = Flushed /\ todo' = todo \ {a}
    BY <1>3 DEF VisitAgent, tables
  <2>2. /\ Flushed[b] # "none" => Flushed[b] = LevelForContracts(counts[b])
        /\ b \in cur \/ writes[b] # "none" =>
              Flushed[b] # "none" \/ Fits(rows[b][jmonth], counts[b])
    BY <2>1, FlushFits
  <2>3. b \in cur' => rows[b][jmonth] = read'
    BY <1>3 DEF VisitAgent
  <2>4. b = a => b \in cur' \/ Fits(rows[b][jmonth], counts[b])
    <3>1. CASE Takes(rows[a][jmonth])
      BY <1>3, <3>1 DEF VisitAgent
    <3>2. CASE ~Takes(rows[a][jmonth])
      BY <3>2, Rows DEF Takes, Fits
    <3>3. QED
      BY <3>1, <3>2
  <2>5. counts[b] > 0 =>
          b \in todo \/ b \in cur \/ writes[b] # "none" \/ Fits(rows[b][jmonth], counts[b])
    BY <2>1 DEF CloseInv
  <2>6. QED
    BY <2>1, <2>2, <2>3, <2>4, <2>5
<1>4. CASE CommitClose
  BY <1>4 DEF CommitClose
<1>5. CASE /\ UNCHANGED rows
           /\ jpc = "close" /\ UNCHANGED <<jmonth, cur, writes, counts, todo, read>>
  BY <1>5 DEF CloseInv
<1>6. QED
  BY <1>1, <1>2, <1>3, <1>4, <1>5, CloseSteps

\* Every step keeps the rows of a closed month at what was counted.
LEMMA ClosedNext ==
  Typed /\ CloseInv /\ ClosedLevelsMatchContracts /\ [Next]_vars => ClosedLevelsMatchContracts'
<1> SUFFICES ASSUME Typed, CloseInv, ClosedLevelsMatchContracts, [Next]_vars,
                    NEW n \in Months, NEW b \in Agents, closedOn'[n][b] > 0
             PROVE  Fits(rows'[b][n], closedOn'[n][b])
  BY DEF ClosedLevelsMatchContracts, Fits
<1>a. closedOn[n][b] > 0 => Fits(rows[b][n], closedOn[n][b])
  BY DEF ClosedLevelsMatchContracts, Fits
<1>1. ASSUME NEW a \in Agents, NEW m \in Months, NEW l \in HandLevels, SetLevelByHand(a, m, l)
      PROVE  Fits(rows'[b][n], closedOn'[n][b])
  <2>1. closedOn' = closedOn
    BY <1>1 DEF SetLevelByHand
  <2>2. rows'[b][n] = rows[b][n] \/ rows'[b][n].manual
    BY <1>1 DEF SetLevelByHand, Typed, TablesOK
  <2>3. QED
    BY <1>a, <2>1, <2>2, Rows DEF Fits
<1>2. CASE CommitClose
  <2>1. jpc = "close" /\ todo = {} /\ closedOn' = [closedOn EXCEPT ![jmonth] = counts]
    BY <1>2 DEF CommitClose
  <2>2. CASE n = jmonth
    <3>1. closedOn'[n][b] = counts[b]
      BY <2>1, <2>2 DEF Typed, HistoryOK
    <3>2. b \in cur \/ writes[b] # "none" \/ Fits(rows[b][jmonth], counts[b])
      BY <2>1, <3>1 DEF CloseInv
    <3>3. /\ Flushed[b] # "none" => Flushed[b] = LevelForContracts(counts[b])
          /\ Flushed[b] = "none" => Fits(rows[b][jmonth], counts[b])
      BY <2>1, <3>2, FlushFits
    <3>4. QED
      BY <1>2, <2>2, <3>1, <3>3, ClosedRows DEF Fits
  <2>3. CASE n # jmonth
    BY <1>2, <1>a, <2>1, <2>3, ClosedRows
  <2>4. QED
    BY <2>2, <2>3
<1>3. CASE UNCHANGED <<rows, closedOn>>
  BY <1>3, <1>a
<1>4. QED
  BY <1>1, <1>2, <1>3, CloseSteps DEF StartJob, VisitAgent, tables, history

ClosedInv == CloseInv /\ ClosedLevelsMatchContracts

\* What a run closes, and what is closed, fits the contracts.
LEMMA ClosedInvariant == Spec => []ClosedInv
<1>1. Init => ClosedInv
  BY DEF Init, ClosedInv, CloseInv, ClosedLevelsMatchContracts, NoCounts
<1>2. QED
  BY <1>1, CloseNext, ClosedNext, TypedInvariant, PTL DEF Spec, ClosedInv

\* A committed close leaves every partner it counted with a row that fits.
THEOREM ClosedCorrect == Spec => []ClosedLevelsMatchContracts
<1>1. ClosedInv => ClosedLevelsMatchContracts
  BY DEF ClosedInv
<1>2. QED
  BY <1>1, ClosedInvariant, PTL

-----------------------------------------------------------------------------
(* The quarterly bonus *)

\* While a run pays the bonuses of a quarter, whoever it is still to pay was
\* seen at the threshold, and whoever it counted at it is to be paid or has it.
BonusInv ==
  jpc = "bonus" =>
    \A a \in Agents :
      /\ a \in todo => <<a, jmonth>> \in earned
      /\ counts[a] >= BonusThreshold => a \in todo \/ bonus[a][jmonth] = 1

\* Steps that leave the bonuses and the job's run through them alone.
LEMMA BonusSteps ==
  ASSUME [Next]_vars
  PROVE  \/ ReadQuarter
         \/ \E a \in Agents : CreateBonus(a)
         \/ FinishQuarter
         \/ /\ UNCHANGED <<bonus, earned, settled>>
            /\ \/ jpc' # "bonus"
               \/ jpc = "bonus" /\ UNCHANGED <<jpc, jmonth, counts, todo>>
  BY DEF Next, JobStep, vars, tables, jobVars, history, SignContract, RejectAdvance, CreateMain,
         SetLevelByHand, NextMonth, StartJob, VisitAgent, CommitClose, ReadMains, PriceAgent,
         CommitMains, SkipQuarter, JobFails, EndJob

\* A bonus that is paid changes nothing but that partner's bonus of the quarter.
LEMMA BonusPaid ==
  ASSUME Typed, NEW a \in Agents, CreateBonus(a), QuarterBonusSettled
  PROVE  /\ bonus'[a][jmonth] = 1
         /\ \A b \in Agents, m \in ClosingMonths :
              (b # a \/ m # jmonth) => bonus'[b][m] = bonus[b][m]
<1>1. jmonth \in ClosingMonths /\ bonus \in [Agents -> [ClosingMonths -> Nat]]
  BY DEF CreateBonus, Typed, JobShape, TablesOK
<1>2. bonus[a][jmonth] = 0 \/ bonus[a][jmonth] = 1
  <2>1. bonus[a][jmonth] \in Nat
    BY <1>1
  <2>2. bonus[a][jmonth] <= 1
    BY <1>1 DEF QuarterBonusSettled
  <2>3. QED
    BY <2>1, <2>2
<1>3. BonusStored(bonus[a][jmonth]) = 1
  BY <1>2 DEF BonusStored
<1>4. bonus' = [bonus EXCEPT ![a][jmonth] = BonusStored(bonus[a][jmonth])]
  BY DEF CreateBonus
<1>5. QED
  BY <1>1, <1>3, <1>4

\* Every step keeps what a run in its last phase knows.
LEMMA BonusNext == Typed /\ BonusInv /\ QuarterBonusSettled /\ [Next]_vars => BonusInv'
<1> SUFFICES ASSUME Typed, BonusInv, QuarterBonusSettled, [Next]_vars, jpc' = "bonus",
                    NEW b \in Agents
             PROVE  /\ b \in todo' => <<b, jmonth'>> \in earned'
                    /\ counts'[b] >= BonusThreshold => b \in todo' \/ bonus'[b][jmonth'] = 1
  BY DEF BonusInv
<1>1. CASE ReadQuarter
  BY <1>1 DEF ReadQuarter, EarnsBonus, CountsOf
<1>2. ASSUME NEW a \in Agents, CreateBonus(a)
      PROVE  /\ b \in todo' => <<b, jmonth'>> \in earned'
             /\ counts'[b] >= BonusThreshold => b \in todo' \/ bonus'[b][jmonth'] = 1
  <2>1. /\ jpc = "bonus" /\ todo' = todo \ {a} /\ UNCHANGED <<jmonth, counts, earned>>
        /\ jmonth \in ClosingMonths
    BY <1>2 DEF CreateBonus, history, Typed, JobShape
  <2>2. /\ bonus'[a][jmonth] = 1
        /\ b # a => bonus'[b][jmonth] = bonus[b][jmonth]
    BY <1>2, <2>1, BonusPaid
  <2>3. QED
    BY <2>1, <2>2 DEF BonusInv
<1>3. CASE FinishQuarter
  BY <1>3 DEF FinishQuarter, EndJob
<1>4. CASE UNCHANGED <<bonus, earned>> /\ jpc = "bonus" /\ UNCHANGED <<jmonth, counts, todo>>
  BY <1>4 DEF BonusInv
<1>5. QED
  BY <1>1, <1>2, <1>3, <1>4, BonusSteps

\* Every step keeps the bonuses as they are owed.
LEMMA SettledNext ==
  Typed /\ BonusInv /\ QuarterBonusSettled /\ [Next]_vars => QuarterBonusSettled'
<1> SUFFICES ASSUME Typed, BonusInv, QuarterBonusSettled, [Next]_vars,
                    NEW b \in Agents, NEW m \in ClosingMonths
             PROVE  /\ bonus'[b][m] <= 1
                    /\ bonus'[b][m] = 1 => <<b, m>> \in earned'
                    /\ <<b, m>> \in settled' => bonus'[b][m] = 1
  BY DEF QuarterBonusSettled
<1>a. /\ bonus[b][m] <= 1
      /\ bonus[b][m] = 1 => <<b, m>> \in earned
      /\ <<b, m>> \in settled => bonus[b][m] = 1
  BY DEF QuarterBonusSettled
<1>1. CASE ReadQuarter
  <2>1. UNCHANGED <<bonus, settled>> /\ earned \subseteq earned'
    BY <1>1 DEF ReadQuarter, tables
  <2>2. QED
    BY <1>a, <2>1
<1>2. ASSUME NEW a \in Agents, CreateBonus(a)
      PROVE  /\ bonus'[b][m] <= 1
             /\ bonus'[b][m] = 1 => <<b, m>> \in earned'
             /\ <<b, m>> \in settled' => bonus'[b][m] = 1
  <2>1. UNCHANGED <<earned, settled>> /\ <<a, jmonth>> \in earned
    BY <1>2 DEF CreateBonus, history, BonusInv
  <2>2. /\ bonus'[a][jmonth] = 1
        /\ (b # a \/ m # jmonth) => bonus'[b][m] = bonus[b][m]
    BY <1>2, BonusPaid
  <2>3. CASE b = a /\ m = jmonth
    BY <2>1, <2>2, <2>3
  <2>4. CASE b # a \/ m # jmonth
    BY <1>a, <2>1, <2>2, <2>4
  <2>5. QED
    BY <2>3, <2>4
<1>3. CASE FinishQuarter
  <2>1. /\ UNCHANGED <<bonus, earned>> /\ jpc = "bonus" /\ todo = {}
        /\ settled' = settled \cup
             {<<a, jmonth>> : a \in {c \in Agents : counts[c] >= BonusThreshold}}
    BY <1>3 DEF FinishQuarter, tables
  <2>2. <<b, m>> \in settled' => <<b, m>> \in settled \/ (m = jmonth /\ counts[b] >= BonusThreshold)
    BY <2>1
  <2>3. QED
    BY <1>a, <2>1, <2>2 DEF BonusInv
<1>4. CASE UNCHANGED <<bonus, earned, settled>>
  BY <1>4, <1>a
<1>5. QED
  BY <1>1, <1>2, <1>3, <1>4, BonusSteps

\* However often the job is run again or cut off, a partner gets at most one
\* bonus for a quarter, only if seen at the threshold, and has it once a run
\* that saw so is complete.
THEOREM BonusCorrect == Spec => []QuarterBonusSettled
<1>1. Init => BonusInv /\ QuarterBonusSettled
  BY DEF Init, BonusInv, QuarterBonusSettled
<1>2. QED
  BY <1>1, BonusNext, SettledNext, TypedInvariant, PTL DEF Spec

-----------------------------------------------------------------------------
(* What the MAIN rewards are priced at *)

\* With no level set by hand, a row comes from a committed close, and what a
\* run is pricing with is the level of the partner's row.
PricingInv ==
  edits = 0 =>
    \A a \in Agents :
      /\ \A m \in Months : rows[a][m] # NoRow => closings[m] > 0
      /\ (jpc = "price" /\ writes[a] # "none") =>
           rows[a][jmonth] # NoRow /\ writes[a] = rows[a][jmonth].level

\* Steps that leave the rows, the rewards and the run's pricing alone.
LEMMA PriceSteps ==
  ASSUME [Next]_vars
  PROVE  \/ \E d \in Deals : SignContract(d) \/ CreateMain(d)
         \/ \E a \in Agents, m \in Months, l \in HandLevels : SetLevelByHand(a, m, l)
         \/ CommitClose
         \/ ReadMains
         \/ \E a \in Agents : PriceAgent(a)
         \/ CommitMains
         \/ /\ UNCHANGED <<rows, signed, main, edits, closings, closedOn, filled>>
            /\ rejected \subseteq rejected'
            /\ \/ jpc' # "price"
               \/ jpc = "price" /\ UNCHANGED <<jpc, jmonth, todo, writes, mains>>
  BY DEF Next, JobStep, vars, tables, jobVars, history, RejectAdvance, NextMonth, StartJob,
         VisitAgent, SkipQuarter, ReadQuarter, CreateBonus, FinishQuarter, JobFails, EndJob

\* Every step keeps the source of the rows and of the levels in use.
LEMMA PricingNext == Typed /\ PricingInv /\ [Next]_vars => PricingInv'
<1> SUFFICES ASSUME Typed, PricingInv, [Next]_vars, edits' = 0, NEW b \in Agents
             PROVE  /\ \A m \in Months : rows'[b][m] # NoRow => closings'[m] > 0
                    /\ (jpc' = "price" /\ writes'[b] # "none") =>
                         rows'[b][jmonth'] # NoRow /\ writes'[b] = rows'[b][jmonth'].level
  BY DEF PricingInv, NoRow
<1>a. ASSUME edits = 0
      PROVE  /\ \A m \in Months : rows[b][m] # NoRow => closings[m] > 0
             /\ (jpc = "price" /\ writes[b] # "none") =>
                  rows[b][jmonth] # NoRow /\ writes[b] = rows[b][jmonth].level
  BY <1>a DEF PricingInv
<1>1. ASSUME NEW d \in Deals, SignContract(d) \/ CreateMain(d)
      PROVE  UNCHANGED <<edits, rows, closings, jpc, jmonth, writes>>
  BY <1>1 DEF SignContract, CreateMain, jobVars, history
<1>2. ASSUME NEW a \in Agents, NEW m \in Months, NEW l \in HandLevels, SetLevelByHand(a, m, l)
      PROVE  FALSE
  <2>1. edits' = edits + 1 /\ edits \in Nat
    BY <1>2 DEF SetLevelByHand, Typed, HistoryOK
  <2>2. QED
    BY <2>1
<1>3. CASE CommitClose
  <2>1. /\ closings' = [closings EXCEPT ![jmonth] = closings[jmonth] + 1]
        /\ closings \in [Months -> Nat] /\ jmonth \in Months
        /\ jpc' = "mains" /\ edits' = edits
    BY <1>3 DEF CommitClose, Typed, HistoryOK, JobOK
  <2>2. closings'[jmonth] > 0 /\ \A m \in Months : m # jmonth => closings'[m] = closings[m]
    BY <2>1
  <2>3. \A m \in Months : m # jmonth => rows'[b][m] = rows[b][m]
    BY <1>3, ClosedRows
  <2>4. QED
    BY <1>a, <2>1, <2>2, <2>3
<1>4. CASE ReadMains
  <2>1. writes' = NoWrites /\ UNCHANGED <<edits, rows, closings>>
    BY <1>4 DEF ReadMains, tables, history, Typed, JobShape
  <2>2. writes'[b] = "none"
    BY <2>1 DEF NoWrites
  <2>3. QED
    BY <1>a, <2>1, <2>2
<1>5. ASSUME NEW a \in Agents, PriceAgent(a)
      PROVE  /\ \A m \in Months : rows'[b][m] # NoRow => closings'[m] > 0
             /\ (jpc' = "price" /\ writes'[b] # "none") =>
                  rows'[b][jmonth'] # NoRow /\ writes'[b] = rows'[b][jmonth'].level
  <2>1. /\ jpc = "price" /\ UNCHANGED <<edits, rows, closings, jmonth>>
        /\ writes' = [writes EXCEPT ![a] =
             IF rows[a][jmonth].level \in Priced THEN rows[a][jmonth].level ELSE "none"]
    BY <1>5 DEF PriceAgent, tables, history
  <2>2. CASE b = a
    <3>1. writes'[b] # "none" =>
            writes'[b] = rows[b][jmonth].level /\ rows[b][jmonth].level \in Levels
      BY <2>1, <2>2, PartnerLevelsAssumption DEF Typed, JobOK
    <3>2. rows[b][jmonth].level \in Levels => rows[b][jmonth] # NoRow
      BY Rows
    <3>3. QED
      BY <1>a, <2>1, <3>1, <3>2
  <2>3. CASE b # a
    <3>1. writes'[b] = writes[b]
      BY <2>1, <2>3 DEF Typed, JobOK
    <3>2. QED
      BY <1>a, <2>1, <3>1
  <2>4. QED
    BY <2>2, <2>3
<1>6. CASE CommitMains
  <2>1. jpc' # "price" /\ UNCHANGED <<edits, rows, closings>>
    BY <1>6 DEF CommitMains
  <2>2. QED
    BY <1>a, <2>1
<1>7. CASE /\ UNCHANGED <<rows, edits, closings>>
           /\ \/ jpc' # "price"
              \/ jpc = "price" /\ UNCHANGED <<jmonth, writes>>
  BY <1>7, <1>a
<1>8. QED
  BY <1>1, <1>2, <1>3, <1>4, <1>5, <1>6, <1>7, <1>a, PriceSteps

\* Every step keeps the rewards of a month closed once at the level of its row.
LEMMA PricedNext ==
  Typed /\ PricingInv /\ MainsPricedByClosedLevel /\ [Next]_vars => MainsPricedByClosedLevel'
<1> SUFFICES ASSUME Typed, PricingInv, MainsPricedByClosedLevel, [Next]_vars, NEW e \in Deals,
                    main'[e] \in Levels, edits' = 0, closings'[signed'[e]] <= 1
             PROVE  /\ closings'[signed'[e]] = 1
                    /\ main'[e] = LevelOfRow(rows'[Owner[e]][signed'[e]])
  BY DEF MainsPricedByClosedLevel, LevelOfRow
<1>a. ASSUME main[e] \in Levels, edits = 0, closings[signed[e]] <= 1
      PROVE  /\ closings[signed[e]] = 1
             /\ main[e] = LevelOfRow(rows[Owner[e]][signed[e]])
  BY <1>a DEF MainsPricedByClosedLevel
<1>b. Owner[e] \in Agents /\ closings \in [Months -> Nat] /\ "absent" \notin Levels
      /\ "unpriced" \notin Levels
  BY PartnerLevelsAssumption DEF Typed, HistoryOK, Levels
<1>c. main[e] \in Levels => signed[e] \in Months
  <2>1. signed[e] \in Months \cup {0}
    BY DEF Typed, TablesOK
  <2>2. main[e] # "absent" => signed[e] # 0
    BY DEF Typed, TableShape
  <2>3. QED
    BY <1>b, <2>1, <2>2
<1>1. ASSUME NEW d \in Deals, SignContract(d)
      PROVE  /\ closings'[signed'[e]] = 1
             /\ main'[e] = LevelOfRow(rows'[Owner[e]][signed'[e]])
  <2>1. /\ signed[d] = 0 /\ signed' = [signed EXCEPT ![d] = month]
        /\ UNCHANGED <<main, rows, closings, edits>>
    BY <1>1 DEF SignContract, history
  <2>2. signed[e] # 0
    BY <1>c, <2>1, MonthsNumbers
  <2>3. signed'[e] = signed[e]
    BY <2>1, <2>2 DEF Typed, TablesOK
  <2>4. QED
    BY <1>a, <2>1, <2>3
<1>2. ASSUME NEW d \in Deals, CreateMain(d)
      PROVE  /\ closings'[signed'[e]] = 1
             /\ main'[e] = LevelOfRow(rows'[Owner[e]][signed'[e]])
  <2>1. UNCHANGED <<signed, rows, closings, edits>>
    BY <1>2 DEF CreateMain, history
  <2>2. CASE e # d
    <3>1. main'[e] = main[e]
      BY <1>2, <2>2 DEF CreateMain, Typed, TablesOK
    <3>2. QED
      BY <1>a, <2>1, <3>1
  <2>3. CASE e = d
    <3> DEFINE row == rows[Owner[e]][signed[e]]
               known == row # NoRow \/ closings[signed[e]] > 0
    <3>1. /\ signed[e] # 0
          /\ main' = [main EXCEPT ![e] =
               IF known /\ LevelOfRow(row) \in Priced THEN LevelOfRow(row) ELSE "unpriced"]
      BY <1>2, <2>3 DEF CreateMain
    <3>2. main'[e] = IF known /\ LevelOfRow(row) \in Priced THEN LevelOfRow(row) ELSE "unpriced"
      BY <3>1 DEF Typed, TablesOK
    <3>3. known /\ main'[e] = LevelOfRow(row)
      BY <1>b, <3>2
    <3>4. signed[e] \in Months
      BY <3>1 DEF Typed, TablesOK
    <3>5. closings[signed[e]] > 0
      BY <1>b, <2>1, <3>3, <3>4 DEF PricingInv
    <3>6. closings[signed[e]] = 1
      BY <1>b, <2>1, <3>4, <3>5
    <3>7. QED
      BY <2>1, <3>3, <3>6
  <2>4. QED
    BY <2>2, <2>3
<1>3. ASSUME NEW a \in Agents, NEW m \in Months, NEW l \in HandLevels, SetLevelByHand(a, m, l)
      PROVE  FALSE
  <2>1. edits' = edits + 1 /\ edits \in Nat
    BY <1>3 DEF SetLevelByHand, Typed, HistoryOK
  <2>2. QED
    BY <2>1
<1>4. CASE CommitClose
  <2>1. /\ closings' = [closings EXCEPT ![jmonth] = closings[jmonth] + 1]
        /\ jmonth \in Months /\ UNCHANGED <<main, signed, edits>>
    BY <1>4 DEF CommitClose, Typed, JobOK
  <2>2. CASE signed[e] = jmonth
    <3>1. closings[jmonth] \in Nat /\ closings'[jmonth] = closings[jmonth] + 1
      BY <1>b, <2>1
    <3>2. closings[signed[e]] = 0
      BY <2>1, <2>2, <3>1
    <3>3. QED
      BY <1>a, <2>1, <3>2
  <2>3. CASE signed[e] # jmonth
    <3>1. signed[e] \in Months
      BY <1>c, <2>1
    <3>2. closings'[signed[e]] = closings[signed[e]]
      BY <1>b, <2>1, <2>3, <3>1
    <3>3. rows'[Owner[e]][signed[e]] = rows[Owner[e]][signed[e]]
      BY <1>4, <1>b, <2>3, <3>1, ClosedRows
    <3>4. QED
      BY <1>a, <2>1, <3>2, <3>3
  <2>4. QED
    BY <2>2, <2>3
<1>5. CASE CommitMains
  <2>1. /\ main'[e] = IF e \in mains /\ writes[Owner[e]] # "none" THEN writes[Owner[e]] ELSE main[e]
        /\ jpc = "price" /\ UNCHANGED <<signed, rows, closings, edits>>
    BY <1>5 DEF CommitMains
  <2>2. CASE e \in mains /\ writes[Owner[e]] # "none"
    <3>1. signed[e] = jmonth /\ closings[jmonth] > 0 /\ jmonth \in Months
      BY <2>1, <2>2 DEF Typed, JobShape, TableShape, JobOK
    <3>2. closings[jmonth] = 1
      BY <1>b, <2>1, <3>1
    <3>3. rows[Owner[e]][jmonth] # NoRow /\ writes[Owner[e]] = rows[Owner[e]][jmonth].level
      BY <1>b, <2>1, <2>2 DEF PricingInv
    <3>4. QED
      BY <2>1, <2>2, <3>1, <3>2, <3>3 DEF LevelOfRow
  <2>3. CASE ~(e \in mains /\ writes[Owner[e]] # "none")
    BY <1>a, <2>1, <2>3
  <2>4. QED
    BY <2>2, <2>3
<1>6. CASE UNCHANGED <<rows, signed, main, edits, closings>>
  BY <1>6, <1>a
<1>7. QED
  BY <1>1, <1>2, <1>3, <1>4, <1>5, <1>6, PriceSteps DEF ReadMains, PriceAgent, tables, history

\* A month closed once and not edited by hand prices all MAIN rewards of a
\* partner alike, at its level, and never before it is closed.
THEOREM MainsCorrect == Spec => []MainsPricedByClosedLevel
<1>1. Init => PricingInv /\ MainsPricedByClosedLevel
  BY DEF Init, PricingInv, MainsPricedByClosedLevel, Levels, NoWrites
<1>2. QED
  BY <1>1, PricingNext, PricedNext, TypedInvariant, PTL DEF Spec

-----------------------------------------------------------------------------
(* Who is priced *)

\* A deal that counts for month m.
CountsIn(d, m) == d \notin rejected /\ signed[d] = m

\* Whoever brought a contract that counts is counted by the run on, and has been
\* by every close of that month; a run counts nobody an earlier one did not.
CountedInv ==
  /\ \A m \in Months, d \in Deals :
       (closings[m] > 0 /\ CountsIn(d, m)) => closedOn[m][Owner[d]] > 0
  /\ jpc = "close" =>
       /\ \A d \in Deals : CountsIn(d, jmonth) => counts[Owner[d]] > 0
       /\ closings[jmonth] > 0 => \A a \in Agents : counts[a] > 0 => closedOn[jmonth][a] > 0

\* Every step keeps what the closes and the run on have counted.
LEMMA CountedNext == Typed /\ CountedInv /\ [Next]_vars => CountedInv'
<1> SUFFICES ASSUME Typed, CountedInv, [Next]_vars
             PROVE  CountedInv'
  OBVIOUS
<1>a. /\ month \in Months /\ month \in Nat /\ closings \in [Months -> Nat]
      /\ signed \in [Deals -> Months \cup {0}] /\ Owner \in [Deals -> Agents]
      /\ \A m \in Months : closings[m] > 0 => m < month
      /\ jpc # "idle" => jmonth \in Months /\ jmonth < month
  BY PartnerLevelsAssumption, MonthsNumbers
     DEF Typed, TablesOK, HistoryOK, TableShape, JobOK, JobShape
<1>1. ASSUME NEW e \in Deals, SignContract(e)
      PROVE  CountedInv'
  <2>1. /\ signed' = [signed EXCEPT ![e] = month]
        /\ UNCHANGED <<rejected, closings, closedOn, jpc, jmonth, counts>>
    BY <1>1 DEF SignContract, jobVars, history
  <2>2. \A d \in Deals, m \in Months : (m < month /\ CountsIn(d, m)') => CountsIn(d, m)
    BY <1>a, <2>1 DEF CountsIn
  <2>3. QED
    BY <1>a, <2>1, <2>2 DEF CountedInv
<1>2. ASSUME NEW e \in Deals, RejectAdvance(e)
      PROVE  CountedInv'
  BY <1>2 DEF RejectAdvance, jobVars, history, CountedInv, CountsIn
<1>3. CASE StartJob
  <2>1. /\ jmonth' = month - 1 /\ month - 1 \in Months
        /\ counts' = CountsOf(month - 1, month - 1)
        /\ UNCHANGED <<rejected, signed, closings, closedOn>>
    BY <1>3, <1>a, MonthsNumbers DEF StartJob, PreviousMonth, tables
  <2>2. \A a \in Agents : counts'[a] > 0 <=>
          \E d \in Deals \ rejected : Owner[d] = a /\ signed[d] \in jmonth'..jmonth'
    BY <2>1, ContractsCounted DEF CountsOf
  <2>3. jmonth' \in Nat /\ \A d \in Deals : signed[d] \in jmonth'..jmonth' <=> signed[d] = jmonth'
    BY <1>a, <2>1, MonthsNumbers
  <2>4. \A a \in Agents : counts'[a] > 0 <=> \E d \in Deals : CountsIn(d, jmonth') /\ Owner[d] = a
    BY <2>2, <2>3 DEF CountsIn
  <2>5. \A m \in Months, d \in Deals : CountsIn(d, m)' <=> CountsIn(d, m)
    BY <2>1 DEF CountsIn
  <2>6. \A d \in Deals : CountsIn(d, jmonth)' <=> CountsIn(d, jmonth')
    BY <2>1 DEF CountsIn
  <2>7. \A d \in Deals : CountsIn(d, jmonth)' => counts'[Owner[d]] > 0
    BY <1>a, <2>4, <2>6
  <2>8. closings[jmonth'] > 0 => \A a \in Agents : counts'[a] > 0 => closedOn[jmonth'][a] > 0
    BY <2>1, <2>4 DEF CountedInv
  <2>9. \A m \in Months, d \in Deals :
          (closings'[m] > 0 /\ CountsIn(d, m)') => closedOn'[m][Owner[d]] > 0
    BY <2>1, <2>5 DEF CountedInv
  <2>10. QED
    BY <2>1, <2>7, <2>8, <2>9 DEF CountedInv
<1>4. CASE CommitClose
  <2>1. /\ jpc = "close" /\ jpc' = "mains" /\ jmonth \in Months
        /\ closings' = [closings EXCEPT ![jmonth] = closings[jmonth] + 1]
        /\ closedOn' = [closedOn EXCEPT ![jmonth] = counts]
        /\ UNCHANGED <<signed, rejected>>
    BY <1>4, <1>a DEF CommitClose
  <2>2. closedOn \in [Months -> [Agents -> Nat]]
    BY DEF Typed, HistoryOK
  <2>3. ASSUME NEW m \in Months, NEW d \in Deals, closings'[m] > 0, CountsIn(d, m)
        PROVE  closedOn'[m][Owner[d]] > 0
    <3>1. CASE m = jmonth
      BY <2>1, <2>2, <2>3, <3>1 DEF CountedInv
    <3>2. CASE m # jmonth
      BY <1>a, <2>1, <2>2, <2>3, <3>2 DEF CountedInv
    <3>3. QED
      BY <3>1, <3>2
  <2>4. QED
    BY <2>1, <2>3 DEF CountedInv, CountsIn
<1>5. CASE /\ UNCHANGED <<signed, rejected, closings, closedOn>>
           /\ \/ jpc' # "close"
              \/ jpc = "close" /\ UNCHANGED <<jmonth, counts>>
  BY <1>5 DEF CountedInv, CountsIn
<1>6. \/ \E d \in Deals : SignContract(d) \/ RejectAdvance(d)
      \/ StartJob
      \/ CommitClose
      \/ /\ UNCHANGED <<signed, rejected, closings, closedOn>>
         /\ \/ jpc' # "close"
            \/ jpc = "close" /\ UNCHANGED <<jmonth, counts>>
  BY DEF Next, JobStep, vars, tables, jobVars, history, CreateMain, SetLevelByHand, NextMonth,
         VisitAgent, ReadMains, PriceAgent, CommitMains, SkipQuarter, ReadQuarter, CreateBonus,
         FinishQuarter, JobFails, EndJob
<1>7. QED
  BY <1>1, <1>2, <1>3, <1>4, <1>5, <1>6

\* A reward of a counted partner in month m that has no amount.
Waits(d, m) == signed[d] = m /\ closedOn[m][Owner[d]] > 0 /\ main[d] = "unpriced"

\* A run that prices holds every reward that waits, with its partner still to be
\* visited or with a level.
WaitingInv ==
  (Levels \subseteq Priced /\ jpc = "price") =>
    \A d \in Deals :
      Waits(d, jmonth) => d \in mains /\ (Owner[d] \in todo \/ writes[Owner[d]] # "none")

\* A reward created for a counted partner has its amount at once.
LEMMA CreatedPriced ==
  ASSUME Typed, ClosedLevelsMatchContracts, Levels \subseteq Priced, NEW e \in Deals, CreateMain(e)
  PROVE  \A d \in Deals, m \in Months : Waits(d, m)' => Waits(d, m)
<1> SUFFICES ASSUME NEW d \in Deals, NEW m \in Months, Waits(d, m)'
             PROVE  Waits(d, m)
  OBVIOUS
<1>1. UNCHANGED <<signed, closedOn, rows>> /\ Owner[d] \in Agents
  BY PartnerLevelsAssumption DEF CreateMain, history
<1>2. signed[d] = m /\ closedOn[m][Owner[d]] > 0 /\ main'[d] = "unpriced"
  BY <1>1 DEF Waits
<1>3. rows[Owner[d]][m] # NoRow /\ rows[Owner[d]][m] \in Row
  BY <1>1, <1>2 DEF ClosedLevelsMatchContracts, Typed, TablesOK
<1>4. LevelOfRow(rows[Owner[d]][m]) \in Levels
  BY <1>3, Rows DEF LevelOfRow
<1> DEFINE row == rows[Owner[d]][m]
<1>5. d = e => main'[d] = LevelOfRow(row)
  BY <1>2, <1>3, <1>4 DEF CreateMain, Typed, TablesOK
<1>6. d # e
  BY <1>2, <1>4, <1>5 DEF Levels
<1>7. main'[d] = main[d]
  BY <1>6 DEF CreateMain, Typed, TablesOK
<1>8. QED
  BY <1>2, <1>7 DEF Waits

\* Every step of a run keeps hold of the rewards that wait.
LEMMA WaitingNext ==
  Typed /\ ClosedLevelsMatchContracts /\ WaitingInv /\ [Next]_vars => WaitingInv'
<1> SUFFICES ASSUME Typed, ClosedLevelsMatchContracts, WaitingInv, [Next]_vars,
                    Levels \subseteq Priced, jpc' = "price", NEW d \in Deals, Waits(d, jmonth)'
             PROVE  d \in mains' /\ (Owner[d] \in todo' \/ writes'[Owner[d]] # "none")
  BY DEF WaitingInv
<1>a. Owner[d] \in Agents /\ (jpc # "idle" => jmonth \in Months)
      /\ (jpc # "idle" => jmonth < month)
  BY PartnerLevelsAssumption DEF Typed, JobOK, JobShape
<1>1. ASSUME NEW e \in Deals, SignContract(e)
      PROVE  d \in mains' /\ (Owner[d] \in todo' \/ writes'[Owner[d]] # "none")
  <2>1. /\ signed' = [signed EXCEPT ![e] = month]
        /\ UNCHANGED <<main, closedOn, jpc, jmonth, mains, todo, writes>>
    BY <1>1 DEF SignContract, jobVars, history
  <2>2. jmonth # month
    <3>1. jmonth \in Nat /\ month \in Nat /\ jmonth < month
      BY <1>a, <2>1, MonthsNumbers DEF Typed, TablesOK
    <3>2. QED
      BY <3>1
  <2>3. signed'[d] = jmonth
    BY <2>1 DEF Waits
  <2>4. signed[d] = jmonth
    BY <2>1, <2>2, <2>3 DEF Typed, TablesOK
  <2>5. Waits(d, jmonth)
    BY <2>1, <2>4 DEF Waits
  <2>6. QED
    BY <2>1, <2>5 DEF WaitingInv
<1>2. ASSUME NEW e \in Deals, CreateMain(e)
      PROVE  d \in mains' /\ (Owner[d] \in todo' \/ writes'[Owner[d]] # "none")
  <2>1. UNCHANGED <<jpc, jmonth, mains, todo, writes, signed, closedOn>>
    BY <1>2 DEF CreateMain, jobVars, history
  <2>2. jmonth \in Months
    BY <1>a, <2>1
  <2>3. signed'[d] = jmonth /\ closedOn'[jmonth][Owner[d]] > 0 /\ main'[d] = "unpriced"
    BY <2>1 DEF Waits
  <2>4. Waits(d, jmonth)
    <3> DEFINE m == jmonth
    <3>1. PICK n \in Months : n = jmonth
      BY <2>2
    <3>2. Waits(d, n)'
      BY <2>3, <3>1, <2>1 DEF Waits
    <3>3. QED
      BY <1>2, <3>1, <3>2, CreatedPriced
  <2>5. QED
    BY <2>1, <2>4 DEF WaitingInv
<1>3. ASSUME NEW a \in Agents, NEW m \in Months, NEW l \in HandLevels, SetLevelByHand(a, m, l)
      PROVE  d \in mains' /\ (Owner[d] \in todo' \/ writes'[Owner[d]] # "none")
  <2>1. UNCHANGED <<jpc, jmonth, mains, todo, writes, signed, closedOn, main>>
    BY <1>3 DEF SetLevelByHand, jobVars
  <2>2. QED
    BY <2>1 DEF WaitingInv, Waits
<1>4. CASE ReadMains
  <2>1. /\ mains' = {e \in Deals : main[e] = "unpriced" /\ signed[e] = jmonth}
        /\ todo' = {Owner[e] : e \in mains'}
        /\ UNCHANGED <<signed, main, jmonth>>
    BY <1>4 DEF ReadMains, BackfillDue, tables
  <2>2. d \in mains'
    BY <2>1 DEF Waits
  <2>3. QED
    BY <2>1, <2>2
<1>5. ASSUME NEW a \in Agents, PriceAgent(a)
      PROVE  d \in mains' /\ (Owner[d] \in todo' \/ writes'[Owner[d]] # "none")
  <2>1. /\ jpc = "price" /\ todo' = todo \ {a}
        /\ UNCHANGED <<jmonth, mains, signed, closedOn, main, rows>>
        /\ writes' = [writes EXCEPT ![a] =
             IF rows[a][jmonth].level \in Priced THEN rows[a][jmonth].level ELSE "none"]
    BY <1>5 DEF PriceAgent, tables, history
  <2>2. Waits(d, jmonth) /\ d \in mains
    BY <2>1 DEF Waits, WaitingInv
  <2>3. Owner[d] \in todo \/ writes[Owner[d]] # "none"
    BY <2>1, <2>2 DEF WaitingInv
  <2>4. CASE Owner[d] = a
    <3>1. rows[a][jmonth] # NoRow /\ rows[a][jmonth] \in Row
      BY <1>a, <2>1, <2>2, <2>4 DEF Waits, ClosedLevelsMatchContracts, Typed, TablesOK
    <3>2. rows[a][jmonth].level \in Priced /\ rows[a][jmonth].level # "none"
      BY <3>1, Rows
    <3>3. writes'[a] # "none"
      BY <2>1, <3>2 DEF Typed, JobOK
    <3>4. QED
      BY <2>1, <2>2, <2>4, <3>3
  <2>5. CASE Owner[d] # a
    <3>1. writes'[Owner[d]] = writes[Owner[d]]
      BY <1>a, <2>1, <2>5 DEF Typed, JobOK
    <3>2. QED
      BY <1>a, <2>1, <2>2, <2>3, <2>5, <3>1
  <2>6. QED
    BY <2>4, <2>5
<1>6. CASE CommitClose \/ CommitMains
  BY <1>6 DEF CommitClose, CommitMains
<1>7. CASE /\ UNCHANGED <<signed, main, closedOn>>
           /\ jpc = "price" /\ UNCHANGED <<jmonth, todo, writes, mains>>
  BY <1>7 DEF WaitingInv, Waits
<1>8. QED
  BY <1>1, <1>2, <1>3, <1>4, <1>5, <1>6, <1>7, PriceSteps

\* In a month that was priced since a close, no reward waits.
LEMMA FilledNext ==
  Typed /\ ClosedLevelsMatchContracts /\ CountedInv /\ WaitingInv /\ CountedPartnersPriced
    /\ [Next]_vars => CountedPartnersPriced'
<1> SUFFICES ASSUME Typed, ClosedLevelsMatchContracts, CountedInv, WaitingInv,
                    CountedPartnersPriced, [Next]_vars, Levels \subseteq Priced,
                    NEW d \in Deals, NEW n, n = signed'[d], n \in filled',
                    closedOn'[n][Owner[d]] > 0, main'[d] = "unpriced"
             PROVE  FALSE
  BY DEF CountedPartnersPriced
<1>a. /\ filled \subseteq Months /\ Owner[d] \in Agents
      /\ \A m \in filled : closings[m] > 0 /\ m < month
      /\ jpc # "idle" => jmonth \in Months
  BY PartnerLevelsAssumption DEF Typed, HistoryOK, TableShape, JobOK
<1>b. \A m \in filled : ~Waits(d, m)
  BY DEF CountedPartnersPriced, Waits
<1>1. ASSUME NEW e \in Deals, SignContract(e)
      PROVE  FALSE
  <2>1. /\ signed' = [signed EXCEPT ![e] = month]
        /\ UNCHANGED <<main, closedOn, filled>>
    BY <1>1 DEF SignContract, history
  <2>2. n # month
    <3>1. n \in Nat /\ month \in Nat /\ n < month
      BY <1>a, <2>1, MonthsNumbers DEF Typed, TablesOK
    <3>2. QED
      BY <3>1
  <2>3. signed[d] = n
    BY <2>1, <2>2 DEF Typed, TablesOK
  <2>4. QED
    BY <1>b, <2>1, <2>3 DEF Waits
<1>2. ASSUME NEW e \in Deals, CreateMain(e)
      PROVE  FALSE
  <2>1. UNCHANGED <<signed, closedOn, filled>>
    BY <1>2 DEF CreateMain, history
  <2>2. PICK m \in Months : m = n
    BY <1>a, <2>1
  <2>3. Waits(d, m)'
    BY <2>2 DEF Waits
  <2>4. Waits(d, m)
    BY <1>2, <2>3, CreatedPriced
  <2>5. QED
    BY <1>b, <2>1, <2>2, <2>4
<1>3. CASE CommitClose
  <2>1. /\ jpc = "close" /\ closedOn' = [closedOn EXCEPT ![jmonth] = counts]
        /\ UNCHANGED <<signed, main, filled>> /\ closedOn \in [Months -> [Agents -> Nat]]
    BY <1>3 DEF CommitClose, Typed, HistoryOK
  <2>2. closedOn[n][Owner[d]] > 0
    <3>1. CASE n = jmonth
      <4>1. counts[Owner[d]] > 0
        BY <1>a, <2>1, <3>1
      <4>2. closings[jmonth] > 0
        BY <1>a, <2>1, <3>1
      <4>3. QED
        BY <1>a, <2>1, <3>1, <4>1, <4>2 DEF CountedInv
    <3>2. CASE n # jmonth
      BY <1>a, <2>1, <3>2
    <3>3. QED
      BY <3>1, <3>2
  <2>3. QED
    BY <1>b, <2>1, <2>2 DEF Waits
<1>4. CASE CommitMains
  <2>1. /\ jpc = "price" /\ todo = {} /\ filled' = filled \cup {jmonth}
        /\ main'[d] = IF d \in mains /\ writes[Owner[d]] # "none" THEN writes[Owner[d]] ELSE main[d]
        /\ UNCHANGED <<signed, closedOn>>
    BY <1>4 DEF CommitMains
  <2>2. writes[Owner[d]] # "none" => writes[Owner[d]] \in Levels /\ writes[Owner[d]] # "unpriced"
    BY <1>a DEF Typed, JobOK, Levels
  <2>3. main[d] = "unpriced" /\ ~(d \in mains /\ writes[Owner[d]] # "none")
    BY <2>1, <2>2
  <2>4. Waits(d, n)
    BY <2>1, <2>3 DEF Waits
  <2>5. n = jmonth => d \in mains /\ writes[Owner[d]] # "none"
    BY <2>1, <2>4 DEF WaitingInv
  <2>6. QED
    BY <1>b, <2>1, <2>3, <2>4, <2>5
<1>5. CASE UNCHANGED <<signed, main, closedOn, filled>>
  BY <1>5, <1>b DEF Waits
<1>6. QED
  BY <1>1, <1>2, <1>3, <1>4, <1>5, PriceSteps
     DEF SetLevelByHand, ReadMains, PriceAgent, tables, history

\* Once a month is closed and priced, no MAIN reward of a partner with a counted
\* contract of that month waits for its amount any longer.
THEOREM PartnersCorrect == Spec => []CountedPartnersPriced
<1>1. Init => CountedInv /\ WaitingInv /\ CountedPartnersPriced
  BY DEF Init, CountedInv, WaitingInv, CountedPartnersPriced
<1>2. QED
  BY <1>1, CountedNext, WaitingNext, FilledNext, ClosedCorrect, TypedInvariant, PTL DEF Spec

=============================================================================
