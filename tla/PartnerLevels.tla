--------------------------- MODULE PartnerLevels ---------------------------
(***************************************************************************)
(* The monthly close of the partner levels: the job fixes every partner's  *)
(* level of the month just ended, prices the MAIN rewards that waited for  *)
(* it and pays the quarterly bonus.  While it runs, the bounty service     *)
(* goes on creating and rejecting rewards and editing levels by hand.      *)
(*                                                                         *)
(* One database session serves the whole run.  It flushes a pending write  *)
(* before its next SELECT, so a row is written one statement after it was  *)
(* read; a flushed row is locked, and seen by others, only at the commit.  *)
(***************************************************************************)
EXTENDS Integers, FiniteSets

CONSTANTS
  Agents,
  Deals,          \* deals that may bring an ADVANCE and a MAIN reward
  Owner,          \* the partner of each deal
  Priced,         \* levels that have a MAIN rate (RewardStageRate)
  BonusThreshold, \* QUARTERLY_BONUS_THRESHOLD
  FirstMonth,     \* the month the history starts in
  MaxMonth,       \* bound: the last month
  MaxRuns,        \* bound: runs of the job
  HandLevels,     \* levels an admin picks when setting one by hand
  MaxEdits        \* bound: levels set by hand

Levels == {"START", "ACTIVE", "PRO", "EXPERT"}
Months == FirstMonth..MaxMonth
ClosingMonths == {m \in Months : m % 3 = 0}   \* QUARTER_FOR_CLOSING_MONTH

ASSUME PartnerLevelsAssumption ==
  /\ Owner \in [Deals -> Agents]
  /\ IsFiniteSet(Deals)
  /\ Priced \subseteq Levels
  /\ BonusThreshold \in Nat \ {0}
  /\ FirstMonth \in Nat \ {0}
  /\ MaxMonth \in Nat
  /\ FirstMonth <= MaxMonth
  /\ MaxRuns \in Nat
  /\ HandLevels \subseteq Levels
  /\ MaxEdits \in Nat

VARIABLES
  month,     \* the current month
  signed,    \* month of a deal's ADVANCE reward (0 when there is none)
  rejected,  \* deals whose ADVANCE reward was rejected
  main,      \* a deal's MAIN reward: absent, without amount, or at a level's rate
  rows,      \* table partner_level_months, by partner and month
  bonus,     \* quarterly bonus rewards, by partner and closing month
  jpc, jmonth,   \* where the job stands, and the month it closes
  counts,    \* the job: contracts per partner, read once per phase
  todo,      \* the job: partners still to visit in this phase
  cur,       \* the job: partner whose write is not flushed yet (a set, at most one)
  read,      \* the job: the row read for that partner
  writes,    \* the job: flushed levels, not committed ("none" when none)
  mains,     \* the job: the MAIN rewards it is pricing
  runs, edits,
  closings,  \* history: committed closes of each month
  closedOn,  \* history: contracts the last committed close counted
  filled,    \* history: months whose MAIN rewards were priced since a close
  earned,    \* history: <<partner, month>> seen at or over the threshold
  settled,   \* history: <<partner, month>> a completed run owed a bonus
  hasty      \* history: rows set by hand while the run on had read them

tables == <<signed, rejected, main, rows, bonus>>
jobVars == <<jpc, jmonth, counts, todo, cur, read, writes, mains>>
history == <<closings, closedOn, filled, earned, settled, hasty>>
vars == <<month, tables, jobVars, runs, edits, history>>

NoRow == [level |-> "none", manual |-> FALSE]
Row == [level : Levels, manual : BOOLEAN] \cup {NoRow}
NoCounts == [a \in Agents |-> 0]
NoWrites == [a \in Agents |-> "none"]

-----------------------------------------------------------------------------
(* Levels and contracts *)

LevelForContracts(n) ==
  CASE n <= 1 -> "START" [] n <= 3 -> "ACTIVE" [] n <= 5 -> "PRO" [] OTHER -> "EXPERT"

\* Non-rejected ADVANCE rewards of a partner created in the given months.
Contracts(a, first, last) ==
  Cardinality({d \in Deals \ rejected : Owner[d] = a /\ signed[d] \in first..last})

CountsOf(first, last) == [a \in Agents |-> Contracts(a, first, last)]

-----------------------------------------------------------------------------

Init ==
  /\ month = FirstMonth
  /\ signed = [d \in Deals |-> 0]
  /\ rejected = {}
  /\ main = [d \in Deals |-> "absent"]
  /\ rows = [a \in Agents |-> [m \in Months |-> NoRow]]
  /\ bonus = [a \in Agents |-> [m \in ClosingMonths |-> 0]]
  /\ jpc = "idle"
  /\ jmonth = 0
  /\ counts = NoCounts
  /\ todo = {}
  /\ cur = {}
  /\ read = NoRow
  /\ writes = NoWrites
  /\ mains = {}
  /\ runs = 0
  /\ edits = 0
  /\ closings = [m \in Months |-> 0]
  /\ closedOn = [m \in Months |-> NoCounts]
  /\ filled = {}
  /\ earned = {}
  /\ settled = {}
  /\ hasty = {}

-----------------------------------------------------------------------------
(* The bounty service and the calendar *)

SignContract(d) ==
  /\ signed[d] = 0
  /\ signed' = [signed EXCEPT ![d] = month]
  /\ UNCHANGED <<month, rejected, main, rows, bonus, jobVars, runs, edits, history>>

RejectAdvance(d) ==
  /\ signed[d] # 0
  /\ d \notin rejected
  /\ rejected' = rejected \cup {d}
  /\ UNCHANGED <<month, signed, main, rows, bonus, jobVars, runs, edits, history>>

LevelOfRow(row) == IF row = NoRow THEN "START" ELSE row.level

\* The amount of a MAIN reward is unknown until its contract's month closes.
CreateMain(d) ==
  /\ signed[d] # 0
  /\ main[d] = "absent"
  /\ LET row == rows[Owner[d]][signed[d]]
         known == row # NoRow \/ closings[signed[d]] > 0
     IN main' = [main EXCEPT ![d] =
          IF known /\ LevelOfRow(row) \in Priced THEN LevelOfRow(row) ELSE "unpriced"]
  /\ UNCHANGED <<month, signed, rejected, rows, bonus, jobVars, runs, edits, history>>

\* An admin sets a level at /admin/partner-levels; a row the job has flushed
\* is locked until the job commits or rolls back.
SetLevelByHand(a, m, l) ==
  /\ edits < MaxEdits
  /\ m <= month
  /\ m < MaxMonth   \* bound: the last month is never closed
  /\ ~(jpc = "close" /\ jmonth = m /\ writes[a] # "none")
  /\ edits' = edits + 1
  /\ rows' = [rows EXCEPT ![a][m] = [level |-> l, manual |-> TRUE]]
  /\ hasty' = IF a \in cur /\ m = jmonth THEN hasty \cup {<<a, m>>} ELSE hasty
  /\ UNCHANGED <<month, signed, rejected, main, bonus, jobVars, runs,
                 closings, closedOn, filled, earned, settled>>

NextMonth ==
  /\ month < MaxMonth
  /\ month' = month + 1
  /\ UNCHANGED <<tables, jobVars, runs, edits, history>>

-----------------------------------------------------------------------------
(* _close_month *)

PreviousMonth == month - 1

\* The job starts in some month and closes the one before it (previous_month).
\* Nothing makes it start: a process that is down at 06:30 on the first, or for
\* an hour after it, misses the month.
StartJob ==
  /\ jpc = "idle"
  /\ runs < MaxRuns
  /\ month > FirstMonth
  /\ runs' = runs + 1
  /\ jmonth' = PreviousMonth
  /\ counts' = CountsOf(PreviousMonth, PreviousMonth)
  /\ todo' = {a \in Agents : Contracts(a, PreviousMonth, PreviousMonth) > 0}
  /\ jpc' = "close"
  /\ hasty' = {}
  /\ UNCHANGED <<month, tables, cur, read, writes, mains, edits, closings,
                 closedOn, filled, earned, settled>>

\* The row a pending INSERT is for exists by now: IntegrityError.
InsertConflict ==
  \E a \in cur : read = NoRow /\ rows[a][jmonth] # NoRow

\* Mutated: a row that exists keeps its level.
FlushedNew ==
  [a \in Agents |->
    IF a \in cur /\ read = NoRow THEN LevelForContracts(counts[a]) ELSE writes[a]]

\* The writes after the pending one is flushed.  An UPDATE names the columns
\* that changed since the row was read.
Flushed ==
  [a \in Agents |->
    IF a \in cur /\ LevelForContracts(counts[a]) # read.level
    THEN LevelForContracts(counts[a]) ELSE writes[a]]

\* Mutated: a row set by hand is taken like any other.
TakesAny(row) == TRUE

Takes(row) == ~row.manual

\* One iteration of the loop: flush, SELECT the partner's row, and take it
\* unless it was set by hand.
VisitAgent(a) ==
  /\ jpc = "close"
  /\ a \in todo
  /\ ~InsertConflict
  /\ writes' = Flushed
  /\ todo' = todo \ {a}
  /\ IF Takes(rows[a][jmonth])
     THEN cur' = {a} /\ read' = rows[a][jmonth]
     ELSE cur' = {} /\ read' = NoRow
  /\ UNCHANGED <<month, tables, jpc, jmonth, counts, mains, runs, edits, history>>

CommitClose ==
  /\ jpc = "close"
  /\ todo = {}
  /\ ~InsertConflict
  /\ rows' = [a \in Agents |-> [m \in Months |->
       IF m = jmonth /\ Flushed[a] # "none"
       THEN [level |-> Flushed[a], manual |-> rows[a][m].manual]
       ELSE rows[a][m]]]
  /\ closings' = [closings EXCEPT ![jmonth] = @ + 1]
  /\ closedOn' = [closedOn EXCEPT ![jmonth] = counts]
  /\ jpc' = "mains"
  /\ counts' = NoCounts
  /\ cur' = {}
  /\ read' = NoRow
  /\ writes' = NoWrites
  /\ UNCHANGED <<month, signed, rejected, main, bonus, jmonth, todo,
                 mains, runs, edits, filled, earned, settled, hasty>>

-----------------------------------------------------------------------------
(* _backfill_main_rewards *)

\* Mutated: only rewards whose advance still counts are backfilled.
BackfillDueCounted(d) ==
  main[d] = "unpriced" /\ signed[d] = jmonth /\ d \notin rejected

\* Mutated: the month of the contract is not looked at.
BackfillDueAnyMonth(d) == main[d] = "unpriced" /\ signed[d] # 0

BackfillDue(d) == main[d] = "unpriced" /\ signed[d] = jmonth

ReadMains ==
  /\ jpc = "mains"
  /\ mains' = {d \in Deals : BackfillDue(d)}
  /\ todo' = {Owner[d] : d \in mains'}
  /\ jpc' = "price"
  /\ UNCHANGED <<month, tables, jmonth, counts, cur, read, writes, runs, edits, history>>

\* The partner's row is read (once: later SELECTs return the same object); no
\* row, or no rate for its level, leaves the partner's rewards as they are.
PriceAgent(a) ==
  /\ jpc = "price"
  /\ a \in todo
  /\ todo' = todo \ {a}
  /\ writes' = [writes EXCEPT ![a] =
       IF rows[a][jmonth].level \in Priced THEN rows[a][jmonth].level ELSE "none"]
  /\ UNCHANGED <<month, tables, jpc, jmonth, counts, cur, read, mains, runs, edits, history>>

CommitMains ==
  /\ jpc = "price"
  /\ todo = {}
  /\ main' = [d \in Deals |->
       IF d \in mains /\ writes[Owner[d]] # "none" THEN writes[Owner[d]] ELSE main[d]]
  /\ filled' = filled \cup {jmonth}
  /\ writes' = NoWrites
  /\ mains' = {}
  /\ jpc' = "quarter"
  /\ UNCHANGED <<month, signed, rejected, rows, bonus, jmonth, counts, todo,
                 cur, read, runs, edits, closings, closedOn, earned, settled, hasty>>

-----------------------------------------------------------------------------
(* _close_quarter_if_due *)

EndJob ==
  /\ jpc' = "idle"
  /\ jmonth' = 0
  /\ counts' = NoCounts
  /\ todo' = {}
  /\ cur' = {}
  /\ read' = NoRow
  /\ writes' = NoWrites
  /\ mains' = {}

\* Mutated: the bonus is due past the threshold only.
EarnsBonusPast(n) == n > BonusThreshold

EarnsBonus(n) == n >= BonusThreshold

SkipQuarter ==
  /\ jpc = "quarter"
  /\ jmonth \notin ClosingMonths
  /\ EndJob
  /\ UNCHANGED <<month, tables, runs, edits, history>>

ReadQuarter ==
  /\ jpc = "quarter"
  /\ jmonth \in ClosingMonths
  /\ counts' = CountsOf(jmonth - 2, jmonth)
  /\ todo' = {a \in Agents : EarnsBonus(Contracts(a, jmonth - 2, jmonth))}
  /\ earned' = earned \cup
       {<<a, jmonth>> : a \in {b \in Agents : Contracts(b, jmonth - 2, jmonth) >= BonusThreshold}}
  /\ jpc' = "bonus"
  /\ UNCHANGED <<month, tables, jmonth, cur, read, writes, mains, runs, edits,
                 closings, closedOn, filled, settled, hasty>>

\* The reward's unique key lets one bonus of a partner and quarter in; a
\* second INSERT raises IntegrityError and is rolled back.
BonusStored(n) == IF n = 0 THEN 1 ELSE n

CreateBonus(a) ==
  /\ jpc = "bonus"
  /\ a \in todo
  /\ bonus' = [bonus EXCEPT ![a][jmonth] = BonusStored(@)]
  /\ todo' = todo \ {a}
  /\ UNCHANGED <<month, signed, rejected, main, rows, jpc, jmonth, counts, cur,
                 read, writes, mains, runs, edits, history>>

FinishQuarter ==
  /\ jpc = "bonus"
  /\ todo = {}
  /\ settled' = settled \cup
       {<<a, jmonth>> : a \in {b \in Agents : counts[b] >= BonusThreshold}}
  /\ EndJob
  /\ UNCHANGED <<month, tables, runs, edits, closings, closedOn, filled, earned, hasty>>

-----------------------------------------------------------------------------
(* The run ends early: the INSERT of a row fails, any other exception is    *)
(* raised, or the process stops.  What is not committed is rolled back; the *)
(* admin notice of run_monthly_level_close changes nothing here.            *)

JobFails ==
  /\ jpc # "idle"
  /\ EndJob
  /\ UNCHANGED <<month, tables, runs, edits, history>>

JobStep ==
  \/ \E a \in Agents : VisitAgent(a) \/ PriceAgent(a) \/ CreateBonus(a)
  \/ CommitClose
  \/ ReadMains
  \/ CommitMains
  \/ SkipQuarter
  \/ ReadQuarter
  \/ FinishQuarter
  \/ JobFails

Next ==
  \/ \E d \in Deals : SignContract(d) \/ RejectAdvance(d) \/ CreateMain(d)
  \/ \E a \in Agents, m \in Months, l \in HandLevels : SetLevelByHand(a, m, l)
  \/ NextMonth
  \/ StartJob
  \/ JobStep

Spec == Init /\ [][Next]_vars

-----------------------------------------------------------------------------
(* Properties *)

JobStates == {"idle", "close", "mains", "price", "quarter", "bonus"}
PartnerMonths == Agents \X ClosingMonths

\* Every table, job and history variable keeps its shape, and a run that is on
\* closes a month of the history.
TypeOK ==
  /\ month \in Months
  /\ signed \in [Deals -> Months \cup {0}]
  /\ rejected \subseteq Deals
  /\ main \in [Deals -> Levels \cup {"absent", "unpriced"}]
  /\ rows \in [Agents -> [Months -> Row]]
  /\ bonus \in [Agents -> [ClosingMonths -> Nat]]
  /\ jpc \in JobStates
  /\ jmonth \in Months \cup {0}
  /\ jpc # "idle" => jmonth \in Months
  /\ counts \in [Agents -> Nat]
  /\ todo \subseteq Agents
  /\ cur \subseteq Agents
  /\ read \in Row
  /\ writes \in [Agents -> Levels \cup {"none"}]
  /\ mains \subseteq Deals
  /\ runs \in Nat
  /\ edits \in Nat
  /\ closings \in [Months -> Nat]
  /\ closedOn \in [Months -> [Agents -> Nat]]
  /\ filled \subseteq Months
  /\ earned \subseteq PartnerMonths
  /\ settled \subseteq PartnerMonths
  /\ hasty \subseteq Agents \X Months

\* A committed close leaves every partner it counted contracts for with a row:
\* of the level the contracts give, or set by hand (_close_month).
ClosedLevelsMatchContracts ==
  \A m \in Months, a \in Agents :
    closedOn[m][a] > 0 =>
      /\ rows[a][m] # NoRow
      /\ rows[a][m].manual \/ rows[a][m].level = LevelForContracts(closedOn[m][a])

\* Once a month is closed and backfilled, no MAIN reward of a partner with a
\* counted contract of that month waits for its amount any longer, whichever
\* run it was created before, between or after (_backfill_main_rewards).
CountedPartnersPriced ==
  (Levels \subseteq Priced) =>
    \A d \in Deals :
      (signed[d] \in filled /\ closedOn[signed[d]][Owner[d]] > 0) => main[d] # "unpriced"

\* A month closed once and not edited by hand prices all MAIN rewards of a
\* partner alike, at its level, and never before it is closed.
MainsPricedByClosedLevel ==
  \A d \in Deals :
    (main[d] \in Levels /\ edits = 0 /\ closings[signed[d]] <= 1) =>
      /\ closings[signed[d]] = 1
      /\ main[d] = LevelOfRow(rows[Owner[d]][signed[d]])

\* However often the job is run again or cut off, a partner gets at most one
\* bonus for a quarter, only if seen at the threshold, and has it once a run
\* that saw so is complete (_close_quarter_if_due).
QuarterBonusSettled ==
  \A a \in Agents, m \in ClosingMonths :
    /\ bonus[a][m] <= 1
    /\ bonus[a][m] = 1 => <<a, m>> \in earned
    /\ <<a, m>> \in settled => bonus[a][m] = 1

\* A correction is lost in one way only: it was made between the SELECT and the
\* UPDATE of the row by a run; and even then the row goes on counting as set by
\* hand.  Whatever was corrected before a run came to it survives every re-run.
CorrectionsLostInRaceOnly ==
  [][\A a \in Agents, m \in Months :
       rows[a][m].manual =>
         /\ rows'[a][m].manual
         /\ \/ rows'[a][m] = rows[a][m]
            \/ \E l \in HandLevels : SetLevelByHand(a, m, l)
            \/ <<a, m>> \in hasty]_vars

=============================================================================
