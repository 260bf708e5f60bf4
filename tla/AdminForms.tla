---------------------------- MODULE AdminForms ----------------------------
(***************************************************************************)
(* What administrators change by hand, several of them at once: whether a  *)
(* partner is blocked and why, the note about the partner, the processing  *)
(* and the manager of an application, and the override rates.              *)
(*                                                                         *)
(* Every form loads the row, assigns some columns and commits.  The UPDATE *)
(* names only the columns whose value differs from the one loaded, so a    *)
(* form that changes nothing it has seen writes nothing, whatever is in    *)
(* the table by then.  One partner, one application and the one table of   *)
(* rates stand for all: rows do not touch each other.                      *)
(***************************************************************************)
EXTENDS Integers

CONSTANTS
  Reasons,   \* what may stand in the field of the reason
  Notes,
  Blank,     \* nothing but spaces, which are stripped
  Statuses,  \* ProcessingStatus
  New,
  Agents,    \* who may be asked for as a manager
  Admins,
  Amounts,   \* what may be entered as a rate
  FirstRate,
  Handlers,
  MaxForms   \* bound: forms sent

VARIABLES
  row,        \* the columns, as committed
  req,        \* the form in each slot
  forms,      \* number of forms sent
  last,       \* history: for each column, what the form answered last put there
  contested   \* history: columns another form wrote while that one was open

vars == <<row, req, forms, last, contested>>

\* A column that may be empty holds Null or <<value>>.
Null == <<>>

FirstRow ==
  [is_active |-> TRUE, blocked_reason |-> Null, admin_note |-> Null,
   processing_status |-> New, assigned_manager_id |-> Null,
   amount_1 |-> FirstRate, amount_2 |-> FirstRate, amount_3 |-> FirstRate]

Columns == DOMAIN FirstRow

NoForm == [c \in {} |-> Null]

Idle == [at |-> "idle", form |-> NoForm, loaded |-> NoForm, stale |-> {}]

Init ==
  /\ row = FirstRow
  /\ req = [h \in Handlers |-> Idle]
  /\ forms = 0
  /\ last = FirstRow
  /\ contested = {}

-----------------------------------------------------------------------------
(* The forms: the columns they assign *)

Block(reason) == [is_active |-> FALSE, blocked_reason |-> <<reason>>]

Unblock == [is_active |-> TRUE, blocked_reason |-> Null]

SaveNote(note) == [admin_note |-> IF note = Blank THEN Null ELSE <<note>>]

SetStatus(status) == [processing_status |-> status]

SetManager(manager) == [assigned_manager_id |-> manager]

\* list_managers, against which a manager asked for is tested.
Managers == {<<a>> : a \in Admins}

SaveRates(one, two, three) ==
  [amount_1 |-> one, amount_2 |-> two, amount_3 |-> three]

\* _parse_amount: one that is refused ends the request before anything is loaded.
ParsedAmounts == {n \in Amounts : n >= 0}

\* The forms that are not refused; blocking wants a reason.
Forms ==
  {Block(r) : r \in Reasons \ {Blank}} \cup {Unblock}
    \cup {SaveNote(n) : n \in Notes}
    \cup {SetStatus(s) : s \in Statuses}
    \cup {SetManager(m) : m \in {<<a>> : a \in Agents} \cap Managers} \cup {SetManager(Null)}
    \cup {SaveRates(x, y, z) : x, y, z \in ParsedAmounts}

-----------------------------------------------------------------------------
(* Load and commit *)

\* session.get, or the SELECT of the rates.
Load(h, f) ==
  /\ req[h].at = "idle"
  /\ forms < MaxForms
  /\ forms' = forms + 1
  /\ req' = [req EXCEPT ![h] = [at |-> "commit", form |-> f, loaded |-> row, stale |-> {}]]
  /\ UNCHANGED <<row, last, contested>>

\* Mutated: the row is written as it was loaded, with the form's columns.
WrittenWhole(now, seen, f) ==
  [c \in DOMAIN now |-> IF c \in DOMAIN f THEN f[c] ELSE seen[c]]

\* UPDATE sets the columns that differ from those loaded.
Written(now, seen, f) ==
  [c \in DOMAIN now |-> IF c \in DOMAIN f /\ f[c] # seen[c] THEN f[c] ELSE now[c]]

Commit(h) ==
  LET r == req[h]
      assigned == DOMAIN r.form IN
  /\ r.at = "commit"
  /\ row' = Written(row, r.loaded, r.form)
  /\ last' = [c \in Columns |-> IF c \in assigned THEN r.form[c] ELSE last[c]]
  /\ contested' = (contested \ assigned) \cup (assigned \cap r.stale)
  /\ req' = [g \in Handlers |->
               IF g = h \/ req[g].at = "idle" THEN Idle
               ELSE [req[g] EXCEPT !.stale = @ \cup assigned]]
  /\ UNCHANGED forms

\* The request is cut off and its transaction rolled back.
RollBack(h) ==
  /\ req[h].at = "commit"
  /\ req' = [req EXCEPT ![h] = Idle]
  /\ UNCHANGED <<row, forms, last, contested>>

Next ==
  \E h \in Handlers :
    \/ \E f \in Forms : Load(h, f)
    \/ Commit(h)
    \/ RollBack(h)

Spec == Init /\ [][Next]_vars

-----------------------------------------------------------------------------
(* Properties *)

\* A form answered OK is what the table holds, though it writes only what differs
\* from the row loaded and others write the row's other columns meanwhile: only a
\* form for the same columns, committed while it was open, may undo it.
AnswersHold == \A c \in Columns \ contested : row[c] = last[c]

\* A partner is blocked with a reason, or active without one, unless a block and
\* an unblock overlapped (block, unblock; the login page gives the reason).
ReasonWithBlock ==
  {"is_active", "blocked_reason"} \cap contested = {} =>
    (row.is_active <=> row.blocked_reason = Null)

=============================================================================
