--------------------------- MODULE ClientFixation ---------------------------
(***************************************************************************)
(* What a submission promises about a client, with no tables and no        *)
(* handlers: a client, known by phone, is fixed to one partner.  Another   *)
(* submission may claim the client once the fixation is found unpaid and   *)
(* older than ExpiryDays; the claim is then granted, or given up and the   *)
(* fixation stays.                                                         *)
(***************************************************************************)
EXTENDS Integers

CONSTANTS Agents, Phones, ExpiryDays

VARIABLES
  day,
  fixation,   \* for each client, the partner and the day of the claim
  paid,       \* clients with a reward on their fixation
  claimed     \* clients found free, whose new fixation is not yet stored

vars == <<day, fixation, paid, claimed>>

NoFixation == [agent |-> "none", since |-> 0]

Fixed(p) == fixation[p].agent # "none"

Init ==
  /\ day = 0
  /\ fixation = [p \in Phones |-> NoFixation]
  /\ paid = {}
  /\ claimed = {}

Expired(p) == p \notin paid /\ day - fixation[p].since > ExpiryDays

\* A submission finds the client free to claim.
Claim(p) ==
  /\ p \notin claimed
  /\ Fixed(p) => Expired(p)
  /\ claimed' = claimed \cup {p}
  /\ UNCHANGED <<day, fixation, paid>>

\* The client is fixed anew, from today.
Grant(p, a) ==
  /\ p \in claimed
  /\ fixation' = [fixation EXCEPT ![p] = [agent |-> a, since |-> day]]
  /\ paid' = paid \ {p}
  /\ claimed' = claimed \ {p}
  /\ UNCHANGED day

GiveUp(p) ==
  /\ p \in claimed
  /\ claimed' = claimed \ {p}
  /\ UNCHANGED <<day, fixation, paid>>

\* The client pays: a claim already found free is not stopped by it.
Pay(p) ==
  /\ Fixed(p)
  /\ paid' = paid \cup {p}
  /\ UNCHANGED <<day, fixation, claimed>>

NextDay ==
  /\ day' = day + 1
  /\ UNCHANGED <<fixation, paid, claimed>>

Next ==
  \/ \E p \in Phones :
       \/ Claim(p)
       \/ \E a \in Agents : Grant(p, a)
       \/ GiveUp(p)
       \/ Pay(p)
  \/ NextDay

Spec == Init /\ [][Next]_vars

\* A claim does not stay open.
ClaimsEnd == \A p \in Phones : p \in claimed ~> p \notin claimed

Promise == Spec /\ ClaimsEnd

=============================================================================
