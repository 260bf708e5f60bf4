------------------------------ MODULE FaqList ------------------------------
(* What the FAQ page promises its admin: a list one may edit. *)
EXTENDS Integers, Sequences, SequencesExt

CONSTANTS Ids, Texts

VARIABLE list  \* of [id, text]

Place(id) == {i \in DOMAIN list : list[i].id = id}

Init == list = <<>>

Add(id, t) ==
  /\ Place(id) = {}
  /\ list' = Append(list, [id |-> id, text |-> t])

Edit(id, t) ==
  \E i \in Place(id) : list' = [list EXCEPT ![i].text = t]

Drop(id) ==
  \E i \in Place(id) : list' = RemoveAt(list, i)

\* Up or down by one place.
Move(id) ==
  \E i \in Place(id), j \in DOMAIN list :
    /\ j \in {i - 1, i + 1}
    /\ list' = [list EXCEPT ![i] = list[j], ![j] = list[i]]

Next ==
  \E id \in Ids :
    \/ \E t \in Texts : Add(id, t) \/ Edit(id, t)
    \/ Drop(id)
    \/ Move(id)

Spec == Init /\ [][Next]_list

=============================================================================
