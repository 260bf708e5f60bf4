------------------------------ MODULE Listing ------------------------------
(***************************************************************************)
(* The lists of partners and of applications in the back office, cut into  *)
(* pages, the newest first.  A page takes two SELECTs, one that counts and *)
(* one that reads the rows; entries come and go between them and between   *)
(* the pages, and those of one created_at stand in any order.              *)
(*                                                                         *)
(* Of an entry the list knows its created_at, fixed for ever, and whether  *)
(* it is stored and passes the search and the status filter.  The columns  *)
(* shown with a row are left out.                                          *)
(***************************************************************************)
EXTENDS Integers, FiniteSets, FiniteSetsExt

CONSTANTS
  Entries,
  Created,    \* created_at of each entry
  Starting,   \* entries listed from the start
  PageSize,
  MaxPage,    \* bound: pages asked for
  MaxEdits    \* bound: entries that come or go

\* What the constants are, for the module that gives them values.
ListingConstants ==
  /\ IsFiniteSet(Entries)
  /\ Created \in [Entries -> Nat]
  /\ Starting \subseteq Entries
  /\ PageSize \in Nat \ {0}

VARIABLES
  listed,   \* entries stored that pass the filter
  edits,
  view,     \* the page in the making, or the last one made
  walk      \* history: an admin's way through the pages, from the first on

vars == <<listed, edits, view, walk>>

NoView == [at |-> "none", n |-> 1, pages |-> 1, total |-> 0, size |-> 0,
           rows |-> {}, again |-> {}]

\* A walk over the entries of from: the page each entry was first shown on (0 for
\* none), and the entries that came and went since the walk began, and those that
\* came since the last count.
WalkOver(S) ==
  [from |-> S, on |-> [r \in Entries |-> 0], came |-> {}, gone |-> {}, late |-> {}]

Init ==
  /\ listed = Starting
  /\ edits = 0
  /\ view = NoView
  /\ walk = WalkOver({})

\* An entry is created, or comes to pass the filter: an unblocked partner, an
\* application sent.
Come(r) ==
  /\ edits < MaxEdits
  /\ r \notin listed
  /\ listed' = listed \cup {r}
  /\ edits' = edits + 1
  /\ walk' = [walk EXCEPT !.came = @ \cup {r}, !.late = @ \cup {r}]
  /\ UNCHANGED view

Go(r) ==
  /\ edits < MaxEdits
  /\ r \in listed
  /\ listed' = listed \ {r}
  /\ edits' = edits + 1
  /\ walk' = [walk EXCEPT !.gone = @ \cup {r}]
  /\ UNCHANGED view

\* Mutated: a last page that is not full is left out.
TotalPagesFull(total) == Max({total \div PageSize, 1})

TotalPages(total) == Max({(total + PageSize - 1) \div PageSize, 1})

\* The page asked for, cut to those there are.
ShownPage(m, total) == Min({Max({m, 1}), TotalPages(total)})

\* The page offered after the one shown, if there is one.
Following(m) == view.at = "done" /\ view.n < view.pages /\ m = view.n + 1

\* The first SELECT of a page; the first page begins a walk, the one offered next
\* continues it.
CountEntries(m) ==
  LET total == Cardinality(listed) IN
  /\ view.at \in {"none", "done"}
  /\ view' = [NoView EXCEPT !.at = "counted", !.n = ShownPage(m, total),
                            !.pages = TotalPages(total), !.total = total]
  /\ walk' = IF Following(m) THEN [walk EXCEPT !.late = {}]
             ELSE WalkOver(IF m <= 1 THEN listed ELSE {})
  /\ UNCHANGED <<listed, edits>>

\* What the first n rows may be, ordered by created_at DESC alone.
FirstRows(S, n) ==
  {K \in SUBSET S : /\ Cardinality(K) = Min({n, Cardinality(S)})
                    /\ \A r \in K, s \in S \ K : Created[r] >= Created[s]}

\* The second SELECT, with OFFSET and LIMIT.
ReadRows ==
  /\ view.at = "counted"
  /\ \E K \in FirstRows(listed, (view.n - 1) * PageSize),
        L \in FirstRows(listed, view.n * PageSize) :
       /\ K \subseteq L
       /\ view' = [view EXCEPT !.at = "done", !.rows = L \ K, !.size = Cardinality(listed),
                               !.again = {r \in L \ K : walk.on[r] \in 1..(view.n - 1)}]
       /\ walk' = [walk EXCEPT !.on = [r \in Entries |->
                     IF r \in L \ K /\ @[r] = 0 THEN view.n ELSE @[r]]]
  /\ UNCHANGED <<listed, edits>>

Next ==
  \/ \E r \in Entries : Come(r) \/ Go(r)
  \/ \E m \in 0..MaxPage : CountEntries(m)
  \/ ReadRows

Spec == Init /\ [][Next]_vars

-----------------------------------------------------------------------------
(* Properties *)

\* An entry as new as r or newer is among S.
AsNew(S, r) == \E s \in S \ {r} : Created[s] >= Created[r]

\* Another entry of the walk has the created_at of r.
Tied(r) == \E s \in (listed \cup walk.gone) \ {r} : Created[s] = Created[r]

\* Who goes through the pages from the first to the last sees each entry that is
\* there all the time, but for one that has the created_at of another, or that
\* moved up because one at least as new went, or down because one at least as new
\* came between the two SELECTs of the last page; he sees one on two pages only
\* where created_at is the same or one at least as new came; and a page is empty
\* only if the list is, or is shorter than it was counted (list_partners,
\* list_applications).
ListsComplete ==
  view.at = "done" =>
    /\ view.n = view.pages =>
         \A r \in walk.from \ walk.gone :
           walk.on[r] = 0 => AsNew(walk.gone, r) \/ AsNew(walk.late, r) \/ Tied(r)
    /\ \A r \in view.again : AsNew(walk.came, r) \/ Tied(r)
    /\ view.rows = {} => view.total = 0 \/ view.size < view.total

=============================================================================
