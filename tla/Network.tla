------------------------------ MODULE Network ------------------------------
(***************************************************************************)
(* Partners' profiles and the invite chain they form.  A partner who gives *)
(* a phone that once came in as a client's is put under the partner who    *)
(* brought that client.  Handlers work on the agent loaded at their start  *)
(* and, at the commit, write the columns that differ from what they loaded;*)
(* other handlers, imports of legacy clients and submissions of the form   *)
(* come in between.                                                        *)
(*                                                                         *)
(* Names, payout details and mails about a change are left out.  The       *)
(* schema is taken not to make phones unique: the code tests them itself.  *)
(***************************************************************************)
EXTENDS Integers, Sequences, FiniteSets

CONSTANTS
  Agents,       \* ids of the table agents
  Starting,     \* agents there from the start
  Registered,   \* those who registered by themselves, with a format
  NoAgent,
  Phones, NoPhone,
  Clients,      \* legacy clients
  Handlers,
  MaxApplications,  \* bound: submissions of the form
  MaxUpdates        \* bound: profile forms and imports

Formats == {"individual", "self_employed", "entrepreneur"}
NoFormat == "none"

ASSUME NetworkAssumption ==
  /\ Starting \subseteq Agents
  /\ Registered \subseteq Starting
  /\ NoAgent \notin Agents
  /\ NoPhone \notin Phones
  /\ IsFiniteSet(Agents)
  /\ IsFiniteSet(Handlers)
  /\ MaxApplications \in Nat
  /\ MaxUpdates \in Nat

VARIABLES
  known,     \* agents stored
  row,       \* columns of each agent: phone, upline (invited_by), format, inn
  legacy,    \* legacy_client_id of each agent, or "none"
  apps,      \* table referral_applications, by created_at
  req,       \* the handler in each slot
  updates,
  contested, \* history: phones that two forms were past the test for at once, or
             \* that an import gave to one agent while another claimed them
  mixed      \* history: agents last saved over columns the handler had not seen

vars == <<known, row, legacy, apps, req, updates, contested, mixed>>

Columns == [phone : Phones \cup {NoPhone}, upline : Agents \cup {NoAgent},
            format : Formats \cup {NoFormat}, inn : BOOLEAN]
NewAgent == [phone |-> NoPhone, upline |-> NoAgent, format |-> NoFormat, inn |-> FALSE]
Idle == [at |-> "idle", agent |-> NoAgent, seen |-> NewAgent, new |-> NewAgent,
         client |-> "none", read |-> 0]

Init ==
  /\ known = Starting
  /\ \E f \in Formats : row = [a \in Agents |->
       IF a \in Registered THEN [NewAgent EXCEPT !.format = f, !.inn = (f # "individual")]
       ELSE NewAgent]
  /\ legacy = [a \in Agents |-> "none"]
  /\ apps = <<>>
  /\ req = [h \in Handlers |-> Idle]
  /\ updates = 0
  /\ contested = {}
  /\ mixed = {}

-----------------------------------------------------------------------------
(* The profile form and the choice of a format *)

\* Mutated: an INN is kept whatever the format.
InnAlways(format) == TRUE

\* validate_inn: an INN for every format but the individual's; a form without
\* it is refused.
HasInn(format) == format # "individual"

\* A phone left empty, or the same, is no change.
Changed(seen, p) == p \notin {NoPhone, seen.phone}

\* update_profile up to its first statement; phone p is NoPhone when left empty.
OpenProfile(h, a, p, f) ==
  LET seen == row[a]
      changes == Changed(seen, p) IN
  /\ req[h] = Idle
  /\ a \in known
  /\ seen.format # NoFormat
  /\ updates < MaxUpdates
  /\ updates' = updates + 1
  /\ req' = [req EXCEPT ![h] =
       [at |-> IF changes THEN "test" ELSE "save", agent |-> a, seen |-> seen,
        new |-> [seen EXCEPT !.phone = IF changes THEN p ELSE @,
                             !.format = f, !.inn = HasInn(f)],
        client |-> "none", read |-> 0]]
  /\ UNCHANGED <<known, row, legacy, apps, contested, mixed>>

\* choose_format.  A partner with all of format, INN, name and payout details is
\* sent on instead; the last two are not in the model, so any partner may be let in.
OpenOnboarding(h, a, f) ==
  /\ req[h] = Idle
  /\ a \in known
  /\ updates < MaxUpdates
  /\ updates' = updates + 1
  /\ req' = [req EXCEPT ![h] =
       [at |-> "save", agent |-> a, seen |-> row[a],
        new |-> [row[a] EXCEPT !.format = f, !.inn = HasInn(f)], client |-> "none",
        read |-> 0]]
  /\ UNCHANGED <<known, row, legacy, apps, contested, mixed>>

Owners(p) == {a \in known : row[a].phone = p}

\* Agents whose form is past the test for p.
Saving(p) ==
  {req[h].agent : h \in {g \in Handlers : /\ req[g].at \in {"link", "save"}
                                          /\ req[g].new.phone = p
                                          /\ req[g].seen.phone # p}}

Claimants(p) == Owners(p) \cup Saving(p)

\* Mutated: the agents tested are those with an upline.
OthersUnder(p, a) == {b \in Owners(p) \ {a} : row[b].upline # NoAgent}

Others(p, a) == Owners(p) \ {a}

\* A phone of another agent is refused.
TestPhone(h) ==
  LET r == req[h]
      p == r.new.phone IN
  /\ r.at = "test"
  /\ IF Others(p, r.agent) = {}
     THEN /\ req' = [req EXCEPT ![h].at = "link"]
          /\ contested' = IF Saving(p) \ {r.agent} = {} THEN contested
                          ELSE contested \cup {p}
     ELSE /\ req' = [req EXCEPT ![h] = Idle]
          /\ UNCHANGED contested
  /\ UNCHANGED <<known, row, legacy, apps, updates, mixed>>

\* The agent of the latest application of a phone.
Referrer(p) ==
  LET mine == {i \in DOMAIN apps : apps[i].phone = p} IN
  IF mine = {} THEN NoAgent
  ELSE apps[CHOOSE i \in mine : \A j \in mine : j <= i].agent

\* Mutated: an upline that is there is replaced.
LinkAnew(a, columns) ==
  IF Referrer(columns.phone) \in {NoAgent, a} THEN columns.upline
  ELSE Referrer(columns.phone)

Link(a, columns) ==
  IF columns.upline # NoAgent \/ Referrer(columns.phone) \in {NoAgent, a}
  THEN columns.upline ELSE Referrer(columns.phone)

Linked(r) ==
  [r EXCEPT !.at = "save", !.read = Len(apps),
            !.new = [@ EXCEPT !.upline = Link(r.agent, r.new)]]

\* link_agent_to_referrer, for a form with a new phone; the applications it has
\* read are noted as history.
FindReferrer(h) ==
  /\ req[h].at = "link"
  /\ req' = [req EXCEPT ![h] = Linked(req[h])]
  /\ UNCHANGED <<known, row, legacy, apps, updates, contested, mixed>>

\* UPDATE sets the columns that changed since they were loaded.
Written(now, seen, new) ==
  [c \in DOMAIN now |-> IF new[c] = seen[c] THEN now[c] ELSE new[c]]

Save(h) ==
  LET r == req[h]
      a == r.agent
      stale == row[a].format # r.seen.format \/ row[a].inn # r.seen.inn IN
  /\ r.at = "save"
  /\ row' = [row EXCEPT ![a] = Written(@, r.seen, r.new)]
  /\ mixed' = IF stale THEN mixed \cup {a} ELSE mixed \ {a}
  /\ req' = [req EXCEPT ![h] = Idle]
  /\ UNCHANGED <<known, legacy, apps, updates, contested>>

-----------------------------------------------------------------------------
(* ensure_legacy_client_agent, called when a legacy client is created *)

Matches(c, p) ==
  {a \in known : legacy[a] = c \/ (p # NoPhone /\ row[a].phone = p)}

NoteImport(a, p) ==
  contested' = IF p # NoPhone /\ row[a].phone = NoPhone /\ Claimants(p) # {}
               THEN contested \cup {p} ELSE contested

\* A match is locked, filled in where it is empty, and takes the client's id
\* unless its owner registered by himself.
ImportClient(h, c, p) ==
  /\ req[h] = Idle
  /\ updates < MaxUpdates
  /\ updates' = updates + 1
  /\ IF Matches(c, p) = {}
     THEN /\ req' = [req EXCEPT ![h] =
               [Idle EXCEPT !.at = "create", !.new.phone = p, !.client = c]]
          /\ UNCHANGED <<row, legacy, contested>>
     ELSE \E a \in Matches(c, p) :
          /\ row' = [row EXCEPT ![a].phone = IF @ = NoPhone THEN p ELSE @]
          /\ legacy' = [legacy EXCEPT ![a] = IF a \in Registered THEN @ ELSE c]
          /\ NoteImport(a, p)
          /\ UNCHANGED req
  /\ UNCHANGED <<known, apps, mixed>>

CreateImported(h) ==
  LET r == req[h] IN
  /\ r.at = "create"
  /\ \E a \in Agents \ known :
       /\ known' = known \cup {a}
       /\ row' = [row EXCEPT ![a] = r.new]
       /\ legacy' = [legacy EXCEPT ![a] = r.client]
       /\ NoteImport(a, r.new.phone)
  /\ req' = [req EXCEPT ![h] = Idle]
  /\ UNCHANGED <<apps, updates, mixed>>

\* A client's form, stored under a partner's link.
Submit(a, p) ==
  /\ a \in known
  /\ Len(apps) < MaxApplications
  /\ apps' = Append(apps, [agent |-> a, phone |-> p])
  /\ UNCHANGED <<known, row, legacy, req, updates, contested, mixed>>

-----------------------------------------------------------------------------
(* The tree of an agent's downline *)

Below(S) == {a \in known : row[a].upline \in S}

\* The recursive query: level n holds those n invitations below the root.
Levels(root) ==
  LET level[n \in 0..Cardinality(Agents)] ==
        IF n = 0 THEN {root} ELSE Below(level[n - 1])
  IN level

\* With no level left empty the query runs for ever (UNION ALL, no cycle test).
Ends(root) == Levels(root)[Cardinality(Agents)] = {}

RootRow(root) == [id |-> root, depth |-> 0, parent |-> NoAgent]

DescendantRows(root) ==
  {RootRow(root)} \cup
  UNION {{[id |-> a, depth |-> n, parent |-> row[a].upline] : a \in Levels(root)[n]} :
         n \in 1..Cardinality(Agents)}

\* Mutated: children hang below the root whatever their parent.
ChildrenFlat(rows, id) ==
  {r.id : r \in {s \in rows : s.parent = id /\ s.depth = 1}}

\* build_network_tree
Children(rows, id) == {r.id : r \in {s \in rows : s.parent = id}}

ChildPairs(rows) ==
  UNION {{<<id, child>> : child \in Children(rows, id)} : id \in {r.id : r \in rows}}

-----------------------------------------------------------------------------

Next ==
  \/ \E h \in Handlers :
       \/ \E a \in Agents, f \in Formats :
            \/ \E p \in Phones \cup {NoPhone} : OpenProfile(h, a, p, f)
            \/ OpenOnboarding(h, a, f)
       \/ TestPhone(h)
       \/ FindReferrer(h)
       \/ Save(h)
       \/ \E c \in Clients, p \in Phones \cup {NoPhone} : ImportClient(h, c, p)
       \/ CreateImported(h)
  \/ \E a \in Agents, p \in Phones : Submit(a, p)

Spec == Init /\ [][Next]_vars

-----------------------------------------------------------------------------
(* Properties *)

Requests ==
  [at : {"idle", "test", "link", "save", "create"}, agent : Agents \cup {NoAgent},
   seen : Columns, new : Columns, client : Clients \cup {"none"}, read : Nat]

\* Tables and handlers keep their shape; a handler that tests, links or saves
\* has an agent in hand, and one that tests a phone.
TypeOK ==
  /\ known \subseteq Agents
  /\ row \in [Agents -> Columns]
  /\ legacy \in [Agents -> Clients \cup {"none"}]
  /\ apps \in Seq([agent : Agents, phone : Phones])
  /\ req \in [Handlers -> Requests]
  /\ \A h \in Handlers : req[h].at \in {"test", "link", "save"} => req[h].agent \in known
  /\ \A h \in Handlers : req[h].at = "test" => req[h].new.phone \in Phones
  /\ updates \in Nat
  /\ contested \subseteq Phones
  /\ mixed \subseteq Agents

\* A phone belongs to one partner, and no second one is past the test for it,
\* unless two forms passed the test at once or an import, which does not test,
\* gave it away (update_profile, ensure_legacy_client_agent).
PhoneOwnedOnce ==
  \A p \in Phones \ contested : \A a, b \in Claimants(p) : a = b

\* A partner who has chosen a format other than the individual's has an INN and
\* an individual has none, unless the last form was saved over columns another
\* one had changed since it was loaded (validate_inn, update_profile).
InnFollowsFormat ==
  \A a \in known \ mixed :
    row[a].format # NoFormat => row[a].inn = (row[a].format # "individual")

\* Of the first n applications, the last one with phone p is partner b's.
BroughtLast(b, p, n) ==
  \E i \in 1..n :
    /\ apps[i] = [agent |-> b, phone |-> p]
    /\ \A j \in (i + 1)..n : apps[j].phone # p

\* An upline comes from a form that had loaded none, and is the partner, not
\* oneself, who brought the phone given last of the applications the form has
\* read; every such form whose phone another partner brought last gives that
\* upline (link_agent_to_referrer, "Only fires once").  The docstring has the
\* first who brought the client, and no reassignment: the code takes the last,
\* and a form that loaded the partner before there was an upline replaces it.
UplineKept ==
  [][/\ \A a \in Agents :
          row'[a].upline # row[a].upline =>
            \E h \in Handlers :
              /\ req[h].agent = a
              /\ req[h].seen.upline = NoAgent
              /\ row'[a].upline # a
              /\ BroughtLast(row'[a].upline, req[h].new.phone, req[h].read)
     /\ \A h \in Handlers :
          LET r == req[h] IN
          (/\ r.at = "save" /\ req'[h] = Idle
           /\ r.new.phone # r.seen.phone
           /\ r.seen.upline = NoAgent) =>
            \A b \in Agents \ {r.agent} :
              BroughtLast(b, r.new.phone, r.read) => row'[r.agent].upline = b]_vars

\* Following uplines from an agent leads to the root.
LeadsTo(a, root) ==
  LET up[n \in 0..Cardinality(Agents)] ==
        IF n = 0 THEN a ELSE IF up[n - 1] = NoAgent THEN NoAgent ELSE row[up[n - 1]].upline
  IN \E n \in 0..Cardinality(Agents) : up[n] = root

\* Where the downline ends, its tree shows everyone whose chain of uplines leads
\* to the root, each once and under his upline (get_descendant_tree,
\* build_network_tree).
TreeShowsDownline ==
  \A root \in {a \in known : Ends(a)} :
    LET rows == DescendantRows(root)
        shown == {r.id : r \in rows}
    IN /\ shown = {a \in known : LeadsTo(a, root)}
       /\ Cardinality(rows) = Cardinality(shown)
       /\ ChildPairs(rows) = {<<row[a].upline, a>> : a \in shown \ {root}}

\* "Everyone under root_agent_id in the invite chain, root first": the query
\* comes to an end.  Fails where partners were each other's clients.
DownlineEnds == \A root \in known : Ends(root)

=============================================================================
