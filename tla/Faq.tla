-------------------------------- MODULE Faq --------------------------------
(***************************************************************************)
(* The FAQ an admin edits.  The table keeps a position for every item, the *)
(* pages show them by position and id.  A request reads in one statement   *)
(* and writes in another; with several Admins they interleave, and then    *)
(* positions may tie.  Blank texts and unknown ids are refused before.     *)
(***************************************************************************)
EXTENDS Integers, FiniteSets, FiniteSetsExt

CONSTANTS
  Admins,
  Ids,       \* ids of items, in the order they are given out: 1..N
  Texts

VARIABLES
  items,     \* table faq_items: text and position by id
  used,      \* the last id given out
  req        \* the request each admin has open

vars == <<items, used, req>>

NoItems == [i \in {} |-> 0]
Idle == [at |-> "idle", id |-> 0, text |-> "none", read |-> NoItems, with |-> 0]
Stored == DOMAIN items

Init ==
  /\ items = NoItems
  /\ used = 0
  /\ req = [h \in Admins |-> Idle]

\* ORDER BY position, id
Before(table, i, j) ==
  \/ table[i].position < table[j].position
  \/ table[i].position = table[j].position /\ i < j

\* list_faq_items
Listed(table) ==
  CHOOSE order \in [1..Cardinality(DOMAIN table) -> DOMAIN table] :
    \A m, n \in DOMAIN order : m < n => Before(table, order[m], order[n])

Begin(h, at, id, t, with) ==
  /\ req[h] = Idle
  /\ req' = [req EXCEPT ![h] =
       [at |-> at, id |-> id, text |-> t, read |-> items, with |-> with]]
  /\ UNCHANGED <<items, used>>

\* create_faq_item reads the greatest position, and puts the item after it.
BeginCreate(h, t) == Begin(h, "create", 0, t, 0)

\* Mutated: the number of items instead of the greatest position.
NextByCount(table) == Cardinality(DOMAIN table) + 1

NextPosition(table) == Max({table[i].position : i \in DOMAIN table} \cup {0}) + 1

Create(h) ==
  /\ req[h].at = "create"
  /\ used + 1 \in Ids
  /\ used' = used + 1
  /\ items' = [i \in Stored \cup {used'} |->
       IF i = used' THEN [text |-> req[h].text, position |-> NextPosition(req[h].read)]
       ELSE items[i]]
  /\ req' = [req EXCEPT ![h] = Idle]

\* The other requests load the item first, or the list.
BeginUpdate(h, id, t) == id \in Stored /\ Begin(h, "update", id, t, 0)
BeginDelete(h, id) == id \in Stored /\ Begin(h, "delete", id, "none", 0)

\* Writing to a row deleted meanwhile fails and changes nothing.
Update(h) ==
  LET r == req[h] IN
  /\ r.at = "update"
  /\ items' = IF r.id \in Stored THEN [items EXCEPT ![r.id].text = r.text] ELSE items
  /\ req' = [req EXCEPT ![h] = Idle]
  /\ UNCHANGED used

Delete(h) ==
  /\ req[h].at = "delete"
  /\ items' = [i \in Stored \ {req[h].id} |-> items[i]]
  /\ req' = [req EXCEPT ![h] = Idle]
  /\ UNCHANGED used

\* move_faq_item: the neighbour in the list read, if there is one.
BeginMove(h, id, step) ==
  LET order == Listed(items) IN
  \E i \in DOMAIN order :
    /\ order[i] = id
    /\ i + step \in DOMAIN order
    /\ Begin(h, "move", id, "none", order[i + step])

\* Both rows take each other's position as it was read.
Move(h) ==
  LET r == req[h] IN
  /\ r.at = "move"
  /\ items' = IF {r.id, r.with} \subseteq Stored
              THEN [items EXCEPT ![r.id].position = r.read[r.with].position,
                                 ![r.with].position = r.read[r.id].position]
              ELSE items
  /\ req' = [req EXCEPT ![h] = Idle]
  /\ UNCHANGED used

Next ==
  \E h \in Admins :
    \/ \E t \in Texts : BeginCreate(h, t) \/ \E id \in Ids : BeginUpdate(h, id, t)
    \/ \E id \in Ids :
         \/ BeginDelete(h, id)
         \/ \E step \in {-1, 1} : BeginMove(h, id, step)
    \/ Create(h)
    \/ Update(h)
    \/ Delete(h)
    \/ Move(h)

Spec == Init /\ [][Next]_vars

\* The FAQ page.
Shown == LET order == Listed(items) IN
  [i \in DOMAIN order |-> [id |-> order[i], text |-> items[order[i]].text]]

List == INSTANCE FaqList WITH list <- Shown

MoveShows ==
  \A h \in Admins :
    Move(h) /\ {req[h].id, req[h].with} \subseteq Stored => Shown' # Shown

EveryMoveShows == [][MoveShows]_vars

\* With one admin at work the positions stand for a list: an item is added at
\* its end, every move moves it by one place, and it stays where it is when
\* others go (create_faq_item, move_faq_item, list_faq_items).
ImplementsList == List!Spec /\ EveryMoveShows

=============================================================================
