------------------------- MODULE FixationRefinement -------------------------
(* Submissions one after another implement the fixation of clients. *)
EXTENDS Referrals

\* The youngest application of a phone; serial submissions leave no ties.
Current(p) == CHOOSE i \in OfPhone(p) : \A j \in OfPhone(p) : j <= i

FixationOf(p) ==
  IF OfPhone(p) = {}
  THEN [agent |-> "none", since |-> 0]
  ELSE [agent |-> apps[Current(p)].agent, since |-> apps[Current(p)].created]

Paid == {p \in Phones : OfPhone(p) # {} /\ Current(p) \in rewarded}

\* A claim is open from the fixation test to the insert.
Claimed == {p \in Phones : \E r \in Requests : pc[r] = "insert" /\ form[r].phone = p}

FixationTable == [p \in Phones |-> FixationOf(p)]

Fixations == INSTANCE ClientFixation WITH
  fixation <- FixationTable, paid <- Paid, claimed <- Claimed

\* "A client stays fixed to their agent forever once they've paid [...]
\* otherwise the fixation rots 180 days after the first application": handled
\* one after another, submissions read, test, insert and fail so that each
\* client has one fixation, claimed only after the current one was found
\* expired and unpaid, and no claim stays open (create_first_application).
ImplementsFixation == Fixations!Promise

=============================================================================
