--------------------------- MODULE NetworkProofs ---------------------------
(***************************************************************************)
(* What TLAPS proves of Network for every number of partners, phones,      *)
(* legacy clients, handlers and submissions.                               *)
(***************************************************************************)
EXTENDS Network, WellFoundedInduction, FiniteSetTheorems, FunctionTheorems, TLAPS

-----------------------------------------------------------------------------
(* Lemmas about the operators *)

\* A non-empty set of indices has a last one.
LEMMA LastIndex ==
  ASSUME NEW n \in Nat, NEW S \in SUBSET (1..n), S # {}
  PROVE  \E i \in S : \A j \in S : j <= i
<1> DEFINE R == {ss \in Nat \X Nat : ss[1] < ss[2]}
           T == {n - i : i \in S}
<1>1. IsWellFoundedOn(R, Nat)
  BY NatLessThanWellFounded DEF OpToRel
<1>2. T \subseteq Nat
  <2>1. \A i \in 1..n : n - i \in Nat
    OBVIOUS
  <2>2. QED
    BY <2>1, Zenon
<1>3. T # {}
  <2>1. PICK i \in S : TRUE
    OBVIOUS
  <2>2. n - i \in T
    BY Zenon
  <2>3. QED
    BY <2>2, Zenon
<1>4. \E x \in T : \A y \in T : ~ (<<y, x>> \in R)
  <2> HIDE DEF R, T
  <2>1. QED
    BY <1>1, <1>2, <1>3, WFMin, Zenon
<1>5. PICK i \in S : \A j \in S : ~ (<<n - j, n - i>> \in R)
  BY <1>4
<1>6. ASSUME NEW j \in S
      PROVE  j <= i
  <2>1. <<n - j, n - i>> \in Nat \X Nat
    OBVIOUS
  <2>2. ~ (n - j < n - i)
    BY <1>5, <2>1
  <2>3. QED
    BY <2>2
<1>7. QED
  BY <1>6

\* What a sequence holds at an index is of its set.
LEMMA ElementOfSeq ==
  ASSUME NEW S, NEW s \in Seq(S), NEW i \in 1..Len(s)
  PROVE  s[i] \in S
  OBVIOUS

\* An UPDATE sets each column that changed and leaves the others.
LEMMA WrittenColumns ==
  ASSUME NEW old \in Columns, NEW seen \in Columns, NEW new \in Columns
  PROVE  /\ Written(old, seen, new) \in Columns
         /\ \A c \in {"phone", "upline", "format", "inn"} :
              Written(old, seen, new)[c] = IF new[c] = seen[c] THEN old[c] ELSE new[c]
<1>1. DOMAIN old = {"phone", "upline", "format", "inn"}
  BY DEF Columns
<1>2. Written(old, seen, new) =
        [phone |-> IF new.phone = seen.phone THEN old.phone ELSE new.phone,
         upline |-> IF new.upline = seen.upline THEN old.upline ELSE new.upline,
         format |-> IF new.format = seen.format THEN old.format ELSE new.format,
         inn |-> IF new.inn = seen.inn THEN old.inn ELSE new.inn]
  BY <1>1 DEF Written, Columns
<1>3. QED
  BY <1>2 DEF Columns

\* A referrer is the agent of the latest application of the phone, and nobody
\* else is.
LEMMA ReferrerBrought ==
  ASSUME TypeOK, NEW p
  PROVE  /\ Referrer(p) # NoAgent =>
              Referrer(p) \in Agents /\ BroughtLast(Referrer(p), p, Len(apps))
         /\ \A b \in Agents : BroughtLast(b, p, Len(apps)) => Referrer(p) = b
<1> DEFINE mine == {i \in DOMAIN apps : apps[i].phone = p}
           last == CHOOSE i \in mine : \A j \in mine : j <= i
<1>1. apps \in Seq([agent : Agents, phone : Phones])
  BY DEF TypeOK
<1>2. DOMAIN apps = 1..Len(apps) /\ Len(apps) \in Nat
  BY <1>1
<1>3. CASE mine = {}
  <2>1. Referrer(p) = NoAgent
    BY <1>3 DEF Referrer
  <2>2. \A b : ~BroughtLast(b, p, Len(apps))
    BY <1>2, <1>3 DEF BroughtLast
  <2>3. QED
    BY <2>1, <2>2
<1>4. CASE mine # {}
  <2>1. Referrer(p) = apps[last].agent
    BY <1>4 DEF Referrer
  <2>2. \E i \in mine : \A j \in mine : j <= i
    BY <1>2, <1>4, LastIndex
  <2>3. last \in mine /\ \A j \in mine : j <= last
    BY <2>2
  <2>4. last \in 1..Len(apps) /\ apps[last].phone = p
    BY <1>2, <2>3
  <2>5. \A j \in 1..Len(apps) : apps[j].phone = p => j <= last
    BY <1>2, <2>3
  <2> HIDE DEF last, mine
  <2>6. apps[last] \in [agent : Agents, phone : Phones]
    BY <1>1, <2>4, ElementOfSeq, Zenon
  <2>7. apps[last] = [agent |-> apps[last].agent, phone |-> p]
    BY <2>4, <2>6
  <2>8. \A j \in (last + 1)..Len(apps) : apps[j].phone # p
    BY <1>2, <2>4, <2>5
  <2>9. BroughtLast(apps[last].agent, p, Len(apps))
    BY <2>4, <2>7, <2>8 DEF BroughtLast
  <2>10. ASSUME NEW b \in Agents, BroughtLast(b, p, Len(apps))
         PROVE  b = apps[last].agent
    <3>1. PICK i \in 1..Len(apps) : /\ apps[i] = [agent |-> b, phone |-> p]
                                    /\ \A j \in (i + 1)..Len(apps) : apps[j].phone # p
      BY <2>10 DEF BroughtLast
    <3>2. apps[i].phone = p /\ apps[i].agent = b
      BY <3>1
    <3>3. i <= last
      BY <2>5, <3>2
    <3>4. ~(i < last)
      BY <1>2, <2>4, <3>1
    <3>5. i = last
      BY <2>4, <3>3, <3>4
    <3>6. QED
      BY <3>2, <3>5
  <2>11. QED
    BY <2>1, <2>6, <2>9, <2>10
<1>5. QED
  BY <1>3, <1>4

\* What link_agent_to_referrer makes of an upline.
LEMMA LinkResult ==
  ASSUME TypeOK, NEW a \in Agents, NEW new \in Columns
  PROVE  /\ Link(a, new) \in Agents \cup {NoAgent}
         /\ Link(a, new) # new.upline =>
              /\ new.upline = NoAgent
              /\ Link(a, new) \notin {NoAgent, a}
              /\ BroughtLast(Link(a, new), new.phone, Len(apps))
         /\ new.upline = NoAgent =>
              \A b \in Agents \ {a} :
                BroughtLast(b, new.phone, Len(apps)) => Link(a, new) = b
<1>1. CASE new.upline # NoAgent
  BY <1>1 DEF Link, Columns
<1>2. CASE new.upline = NoAgent
  <2>1. CASE Referrer(new.phone) \in {NoAgent, a}
    <3>1. Link(a, new) = NoAgent
      BY <1>2, <2>1 DEF Link
    <3>2. \A b \in Agents \ {a} : ~BroughtLast(b, new.phone, Len(apps))
      BY <2>1, ReferrerBrought, NetworkAssumption
    <3>3. QED
      BY <1>2, <3>1, <3>2
  <2>2. CASE Referrer(new.phone) \notin {NoAgent, a}
    <3>1. Link(a, new) = Referrer(new.phone)
      BY <1>2, <2>2 DEF Link
    <3>2. QED
      BY <1>2, <2>2, <3>1, ReferrerBrought
  <2>3. QED
    BY <2>1, <2>2
<1>3. QED
  BY <1>1, <1>2

\* What FindReferrer leaves of a form.
LEMMA LinkedForm ==
  ASSUME TypeOK, NEW r \in Requests, r.agent \in Agents
  PROVE  /\ Linked(r) \in Requests
         /\ Linked(r).at = "save" /\ Linked(r).agent = r.agent /\ Linked(r).seen = r.seen
         /\ Linked(r).read = Len(apps)
         /\ Linked(r).new.phone = r.new.phone
         /\ Linked(r).new.format = r.new.format
         /\ Linked(r).new.inn = r.new.inn
         /\ Linked(r).new.upline = Link(r.agent, r.new)
<1>1. r.new \in Columns /\ Len(apps) \in Nat
  BY DEF TypeOK, Requests
<1>2. PICK u \in Agents \cup {NoAgent} : u = Link(r.agent, r.new)
  BY <1>1, LinkResult
<1>3. PICK n : n = [r.new EXCEPT !.upline = u]
  OBVIOUS
<1>4. /\ n \in Columns /\ n.phone = r.new.phone /\ n.format = r.new.format
      /\ n.inn = r.new.inn /\ n.upline = u
  BY <1>1, <1>3 DEF Columns
<1>5. Linked(r) = [r EXCEPT !.at = "save", !.read = Len(apps), !.new = n]
  BY <1>2, <1>3 DEF Linked
<1>6. QED
  BY <1>1, <1>2, <1>4, <1>5 DEF Requests

-----------------------------------------------------------------------------
(* Type correctness *)

\* The initial state is well typed.
LEMMA InitTyped == Init => TypeOK
<1> SUFFICES ASSUME Init PROVE TypeOK
  OBVIOUS
<1> USE NetworkAssumption
<1>1. NewAgent \in Columns
  BY DEF NewAgent, Columns
<1>2. row \in [Agents -> Columns]
  <2>1. PICK f \in Formats : row = [a \in Agents |->
          IF a \in Registered THEN [NewAgent EXCEPT !.format = f, !.inn = (f # "individual")]
          ELSE NewAgent]
    BY DEF Init
  <2>2. [NewAgent EXCEPT !.format = f, !.inn = (f # "individual")] \in Columns
    BY DEF NewAgent, Columns
  <2>3. QED
    BY <1>1, <2>1, <2>2
<1>3. Idle \in Requests
  BY <1>1 DEF Idle, Requests
<1>4. QED
  BY <1>2, <1>3 DEF Init, TypeOK, Idle

\* Every step keeps the types.
LEMMA NextTyped == TypeOK /\ [Next]_vars => TypeOK'
<1> SUFFICES ASSUME TypeOK, [Next]_vars PROVE TypeOK'
  OBVIOUS
<1> USE NetworkAssumption
<1>1. NewAgent \in Columns /\ Idle \in Requests /\ Idle.at = "idle"
  BY DEF NewAgent, Columns, Idle, Requests
<1>2. ASSUME NEW h \in Handlers, NEW a \in Agents, NEW p \in Phones \cup {NoPhone},
             NEW f \in Formats, OpenProfile(h, a, p, f)
      PROVE  TypeOK'
  <2> DEFINE changes == Changed(row[a], p)
             new == [row[a] EXCEPT !.phone = IF changes THEN p ELSE @,
                                   !.format = f, !.inn = HasInn(f)]
             r == [at |-> IF changes THEN "test" ELSE "save", agent |-> a,
                   seen |-> row[a], new |-> new, client |-> "none",
                   read |-> 0]
  <2>1. row[a] \in Columns /\ a \in known
    BY <1>2 DEF TypeOK, OpenProfile
  <2>2. new \in Columns /\ (changes => new.phone \in Phones)
    BY <2>1 DEF Columns, HasInn, Changed
  <2>3. r \in Requests
    BY <2>1, <2>2 DEF Requests
  <2>4. /\ req' = [req EXCEPT ![h] = r]
        /\ updates' = updates + 1
        /\ UNCHANGED <<known, row, legacy, apps, contested, mixed>>
    BY <1>2 DEF OpenProfile
  <2>5. r.agent = a /\ r.new = new /\ (r.at = "test" => changes)
    OBVIOUS
  <2> HIDE DEF r, new, changes
  <2>6. QED
    BY <2>1, <2>2, <2>3, <2>4, <2>5 DEF TypeOK
<1>3. ASSUME NEW h \in Handlers, NEW a \in Agents, NEW f \in Formats,
             OpenOnboarding(h, a, f)
      PROVE  TypeOK'
  <2> DEFINE new == [row[a] EXCEPT !.format = f, !.inn = HasInn(f)]
             r == [at |-> "save", agent |-> a, seen |-> row[a], new |-> new,
                   client |-> "none", read |-> 0]
  <2>1. row[a] \in Columns /\ a \in known
    BY <1>3 DEF TypeOK, OpenOnboarding
  <2>2. r \in Requests /\ r.at = "save" /\ r.agent = a
    BY <2>1 DEF Columns, HasInn, Requests
  <2>3. /\ req' = [req EXCEPT ![h] = r]
        /\ updates' = updates + 1
        /\ UNCHANGED <<known, row, legacy, apps, contested, mixed>>
    BY <1>3 DEF OpenOnboarding
  <2> HIDE DEF r
  <2>4. QED
    BY <2>1, <2>2, <2>3 DEF TypeOK
<1>4. ASSUME NEW h \in Handlers, TestPhone(h)
      PROVE  TypeOK'
  <2>1. req[h] \in Requests /\ req[h].new.phone \in Phones /\ req[h].agent \in known
    BY <1>4 DEF TypeOK, TestPhone
  <2>2. [req[h] EXCEPT !.at = "link"] \in Requests
    BY <2>1 DEF Requests
  <2>3. contested' \subseteq Phones
    BY <1>4, <2>1 DEF TestPhone, TypeOK
  <2>4. req' \in [Handlers -> Requests]
    BY <1>1, <1>4, <2>1, <2>2 DEF TestPhone, TypeOK
  <2>5. \A g \in Handlers : req'[g].at \in {"test", "link", "save"} =>
          req[g].at \in {"test", "link", "save"} /\ req'[g].agent = req[g].agent
    BY <1>1, <1>4, <2>1 DEF TestPhone, TypeOK, Requests
  <2>6. \A g \in Handlers : req'[g].at = "test" => req'[g] = req[g]
    BY <1>1, <1>4, <2>1 DEF TestPhone, TypeOK, Requests
  <2>7. UNCHANGED <<known, row, legacy, apps, updates, mixed>>
    BY <1>4 DEF TestPhone
  <2>8. QED
    BY <2>3, <2>4, <2>5, <2>6, <2>7 DEF TypeOK
<1>5. ASSUME NEW h \in Handlers, FindReferrer(h)
       PROVE  TypeOK'
  <2>1. req[h] \in Requests /\ req[h].agent \in known /\ req[h].agent \in Agents
    BY <1>5 DEF TypeOK, FindReferrer
  <2>2. PICK r \in Requests : r = Linked(req[h]) /\ r.at = "save" /\ r.agent = req[h].agent
    BY <2>1, LinkedForm
  <2>3. /\ req' = [req EXCEPT ![h] = r]
        /\ UNCHANGED <<known, row, legacy, apps, updates, contested, mixed>>
    BY <1>5, <2>2 DEF FindReferrer
  <2>4. QED
    BY <2>1, <2>2, <2>3 DEF TypeOK
<1>6. ASSUME NEW h \in Handlers, Save(h)
      PROVE  TypeOK'
  <2>1. req[h] \in Requests /\ req[h].agent \in known /\ req[h].agent \in Agents
    BY <1>6 DEF TypeOK, Save
  <2>2. Written(row[req[h].agent], req[h].seen, req[h].new) \in Columns
    BY <2>1, WrittenColumns DEF TypeOK, Requests
  <2>3. row' \in [Agents -> Columns]
    BY <1>6, <2>2 DEF Save, TypeOK
  <2>4. req' = [req EXCEPT ![h] = Idle]
    BY <1>6 DEF Save
  <2>5. mixed' \subseteq Agents
    BY <1>6, <2>1 DEF Save, TypeOK
  <2>6. UNCHANGED <<known, legacy, apps, updates, contested>>
    BY <1>6 DEF Save
  <2>7. QED
    BY <1>1, <2>3, <2>4, <2>5, <2>6 DEF TypeOK
<1>7. ASSUME NEW h \in Handlers, NEW c \in Clients, NEW p \in Phones \cup {NoPhone},
             ImportClient(h, c, p)
      PROVE  TypeOK'
  <2>1. updates' = updates + 1 /\ UNCHANGED <<known, apps, mixed>>
    BY <1>7 DEF ImportClient
  <2>2. CASE Matches(c, p) = {}
    <3> DEFINE r == [Idle EXCEPT !.at = "create", !.new.phone = p, !.client = c]
    <3>1. r \in Requests /\ r.at = "create"
      BY DEF Idle, NewAgent, Requests, Columns
    <3>2. req' = [req EXCEPT ![h] = r] /\ UNCHANGED <<row, legacy, contested>>
      BY <1>7, <2>2 DEF ImportClient
    <3> HIDE DEF r
    <3>3. QED
      BY <2>1, <3>1, <3>2 DEF TypeOK
  <2>3. CASE Matches(c, p) # {}
    <3>1. PICK a \in Matches(c, p) :
            /\ row' = [row EXCEPT ![a].phone = IF @ = NoPhone THEN p ELSE @]
            /\ legacy' = [legacy EXCEPT ![a] = IF a \in Registered THEN @ ELSE c]
            /\ NoteImport(a, p)
            /\ UNCHANGED req
      BY <1>7, <2>3 DEF ImportClient
    <3>2. a \in Agents /\ row[a] \in Columns
      BY DEF Matches, TypeOK
    <3>3. row' \in [Agents -> Columns]
      BY <3>1, <3>2 DEF TypeOK, Columns
    <3>4. contested' \subseteq Phones
      BY <3>1 DEF NoteImport, TypeOK
    <3>5. QED
      BY <2>1, <3>1, <3>2, <3>3, <3>4 DEF TypeOK
  <2>4. QED
    BY <2>2, <2>3
<1>8. ASSUME NEW h \in Handlers, CreateImported(h)
      PROVE  TypeOK'
  <2>1. PICK a \in Agents \ known :
          /\ known' = known \cup {a}
          /\ row' = [row EXCEPT ![a] = req[h].new]
          /\ legacy' = [legacy EXCEPT ![a] = req[h].client]
          /\ NoteImport(a, req[h].new.phone)
    BY <1>8 DEF CreateImported
  <2>2. req[h].new \in Columns /\ req[h].client \in Clients \cup {"none"}
    BY DEF TypeOK, Requests
  <2>3. contested' \subseteq Phones
    BY <2>1, <2>2 DEF NoteImport, TypeOK, Columns
  <2>4. req' = [req EXCEPT ![h] = Idle] /\ UNCHANGED <<apps, updates, mixed>>
    BY <1>8 DEF CreateImported
  <2>5. QED
    BY <1>1, <2>1, <2>2, <2>3, <2>4 DEF TypeOK
<1>9. ASSUME NEW a \in Agents, NEW p \in Phones, Submit(a, p)
      PROVE  TypeOK'
  BY <1>9 DEF Submit, TypeOK
<1>10. CASE UNCHANGED vars
  BY <1>10 DEF vars, TypeOK
<1>11. QED
  BY <1>2, <1>3, <1>4, <1>5, <1>6, <1>7, <1>8, <1>9, <1>10 DEF Next

\* Tables and handlers keep their shape in every behaviour.
THEOREM TypeCorrect == Spec => []TypeOK
  BY InitTyped, NextTyped, PTL DEF Spec

-----------------------------------------------------------------------------
(* Formats and uplines *)

\* A form that tests, links or saves is filled with a format and the INN that
\* goes with it, and until it links with the upline that was loaded; an import
\* creates an empty agent.
RequestSound(h) ==
  LET r == req[h] IN
  /\ r.at \in {"test", "link"} => r.new.upline = r.seen.upline
  /\ r.at \in {"test", "link", "save"} =>
       /\ r.new.format # NoFormat
       /\ r.new.inn = (r.new.format # "individual")
  /\ r.at = "create" =>
       r.new.upline = NoAgent /\ r.new.format = NoFormat /\ r.new.inn = FALSE

\* Ids not given out yet have no data.
UnknownEmpty == \A a \in Agents \ known : row[a] = NewAgent

RequestsSound == \A h \in Handlers : RequestSound(h)

FormatInv == RequestsSound /\ UnknownEmpty /\ InnFollowsFormat

\* A handler that ends is sound.
LEMMA IdleSound ==
  ASSUME TypeOK, RequestsSound, NEW h \in Handlers, req' = [req EXCEPT ![h] = Idle]
  PROVE  RequestsSound'
<1>1. ASSUME NEW g \in Handlers
      PROVE  RequestSound(g)'
  <2>1. CASE g = h
    BY <2>1 DEF RequestSound, Idle, TypeOK
  <2>2. CASE g # h
    BY <2>2 DEF RequestsSound, RequestSound, TypeOK
  <2>3. QED
    BY <2>1, <2>2
<1>2. QED
  BY <1>1 DEF RequestsSound

\* So is one that starts with a sound request.
LEMMA StartSound ==
  ASSUME TypeOK, RequestsSound, NEW h \in Handlers, NEW r \in Requests,
         req' = [req EXCEPT ![h] = r],
         r.at \in {"test", "link"} => r.new.upline = r.seen.upline,
         r.at \in {"test", "link", "save"} =>
           /\ r.new.format # NoFormat
           /\ r.new.inn = (r.new.format # "individual"),
         r.at = "create" =>
           r.new.upline = NoAgent /\ r.new.format = NoFormat /\ r.new.inn = FALSE
  PROVE  RequestsSound'
<1>1. ASSUME NEW g \in Handlers
      PROVE  RequestSound(g)'
  <2>1. CASE g = h
    BY <2>1 DEF RequestSound, TypeOK
  <2>2. CASE g # h
    BY <2>2 DEF RequestsSound, RequestSound, TypeOK
  <2>3. QED
    BY <2>1, <2>2
<1>2. QED
  BY <1>1 DEF RequestsSound

\* Every step keeps formats and INNs together.
LEMMA FormatNext == TypeOK /\ FormatInv /\ [Next]_vars => FormatInv'
<1> SUFFICES ASSUME TypeOK, RequestsSound, UnknownEmpty, InnFollowsFormat, [Next]_vars
             PROVE  RequestsSound' /\ UnknownEmpty' /\ InnFollowsFormat'
  BY DEF FormatInv
<1> USE NetworkAssumption
<1>1. ASSUME UNCHANGED <<known, row, mixed>>
      PROVE  UnknownEmpty' /\ InnFollowsFormat'
  BY <1>1 DEF UnknownEmpty, InnFollowsFormat
<1>2. ASSUME NEW h \in Handlers, NEW a \in Agents, NEW p \in Phones \cup {NoPhone},
             NEW f \in Formats, OpenProfile(h, a, p, f)
      PROVE  RequestsSound' /\ UnknownEmpty' /\ InnFollowsFormat'
  <2> DEFINE changes == Changed(row[a], p)
             new == [row[a] EXCEPT !.phone = IF changes THEN p ELSE @,
                                   !.format = f, !.inn = HasInn(f)]
             r == [at |-> IF changes THEN "test" ELSE "save", agent |-> a,
                   seen |-> row[a], new |-> new, client |-> "none",
                   read |-> 0]
  <2>1. row[a] \in Columns
    BY DEF TypeOK
  <2>2. /\ new.upline = row[a].upline
        /\ new.format = f /\ f # NoFormat
        /\ new.inn = (f # "individual")
        /\ new \in Columns
    BY <2>1 DEF Columns, HasInn, Formats, NoFormat, Changed
  <2>3. r \in Requests /\ r.new = new /\ r.seen = row[a] /\ r.at # "create"
    BY <2>1, <2>2 DEF Requests
  <2>4. req' = [req EXCEPT ![h] = r]
    BY <1>2 DEF OpenProfile
  <2> HIDE DEF r, new
  <2>5. RequestsSound'
    BY <2>2, <2>3, <2>4, StartSound
  <2>6. QED
    BY <1>1, <1>2, <2>5 DEF OpenProfile
<1>3. ASSUME NEW h \in Handlers, NEW a \in Agents, NEW f \in Formats,
             OpenOnboarding(h, a, f)
      PROVE  RequestsSound' /\ UnknownEmpty' /\ InnFollowsFormat'
  <2> DEFINE new == [row[a] EXCEPT !.format = f, !.inn = HasInn(f)]
             r == [at |-> "save", agent |-> a, seen |-> row[a], new |-> new,
                   client |-> "none", read |-> 0]
  <2>1. row[a] \in Columns
    BY DEF TypeOK
  <2>2. /\ new.upline = row[a].upline
        /\ new.format = f /\ f # NoFormat
        /\ new.inn = (f # "individual")
        /\ new \in Columns
    BY <2>1 DEF Columns, HasInn, Formats, NoFormat
  <2>3. r \in Requests /\ r.new = new /\ r.seen = row[a] /\ r.at # "create"
    BY <2>1, <2>2 DEF Requests
  <2>4. req' = [req EXCEPT ![h] = r]
    BY <1>3 DEF OpenOnboarding
  <2> HIDE DEF r, new
  <2>5. RequestsSound'
    BY <2>2, <2>3, <2>4, StartSound
  <2>6. QED
    BY <1>1, <1>3, <2>5 DEF OpenOnboarding
<1>4. ASSUME NEW h \in Handlers, TestPhone(h)
      PROVE  RequestsSound' /\ UnknownEmpty' /\ InnFollowsFormat'
  <2>1. UnknownEmpty' /\ InnFollowsFormat'
    BY <1>1, <1>4 DEF TestPhone
  <2>2. CASE req' = [req EXCEPT ![h] = Idle]
    BY <2>1, <2>2, IdleSound
  <2>3. CASE req' = [req EXCEPT ![h].at = "link"]
    <3>1. req[h].at = "test" /\ req[h] \in Requests
      BY <1>4 DEF TestPhone, TypeOK
    <3>2. ASSUME NEW g \in Handlers
          PROVE  RequestSound(g)'
      BY <2>3, <3>1 DEF RequestsSound, RequestSound, TypeOK, Requests
    <3>3. QED
      BY <2>1, <3>2 DEF RequestsSound
  <2>4. QED
    BY <1>4, <2>2, <2>3 DEF TestPhone
<1>5. ASSUME NEW h \in Handlers, FindReferrer(h)
       PROVE  RequestsSound' /\ UnknownEmpty' /\ InnFollowsFormat'
  <2>1. req[h] \in Requests /\ req[h].agent \in Agents /\ req[h].at = "link"
    BY <1>5 DEF TypeOK, FindReferrer
  <2>2. PICK r \in Requests : /\ r = Linked(req[h]) /\ r.at = "save"
                              /\ r.new.format = req[h].new.format
                              /\ r.new.inn = req[h].new.inn
    BY <2>1, LinkedForm
  <2>3. r.new.format # NoFormat /\ r.new.inn = (r.new.format # "individual")
    BY <2>1, <2>2 DEF RequestsSound, RequestSound
  <2>4. req' = [req EXCEPT ![h] = r] /\ UNCHANGED <<known, row, mixed>>
    BY <1>5, <2>2 DEF FindReferrer
  <2>5. RequestsSound'
    BY <2>2, <2>3, <2>4, StartSound
  <2>6. QED
    BY <1>1, <2>4, <2>5
<1>6. ASSUME NEW h \in Handlers, Save(h)
      PROVE  RequestsSound' /\ UnknownEmpty' /\ InnFollowsFormat'
  <2>1. PICK a \in Agents : a = req[h].agent /\ a \in known
    BY <1>6 DEF Save, TypeOK
  <2> DEFINE seen == req[h].seen
             saved == req[h].new
  <2>2. /\ req[h].at = "save"
        /\ row' = [row EXCEPT ![a] = Written(row[a], seen, saved)]
        /\ mixed' = IF row[a].format # seen.format \/ row[a].inn # seen.inn
                     THEN mixed \cup {a} ELSE mixed \ {a}
        /\ req' = [req EXCEPT ![h] = Idle]
        /\ known' = known
    BY <1>6, <2>1 DEF Save
  <2>3. RequestsSound'
    BY <2>2, IdleSound
  <2>4. UnknownEmpty'
    BY <2>1, <2>2 DEF UnknownEmpty, TypeOK
  <2>5. /\ row[a] \in Columns /\ seen \in Columns /\ saved \in Columns
        /\ saved.format = req[h].new.format
        /\ saved.inn = req[h].new.inn
    BY <2>1 DEF TypeOK, Requests
  <2>6. saved.format # NoFormat /\ saved.inn = (saved.format # "individual")
    BY <2>2, <2>5 DEF RequestsSound, RequestSound
  <2>7. row'[a] = Written(row[a], seen, saved)
    BY <2>2 DEF TypeOK
  <2> HIDE DEF saved, seen
  <2>8. /\ row'[a].format = IF saved.format = seen.format THEN row[a].format ELSE saved.format
        /\ row'[a].inn = IF saved.inn = seen.inn THEN row[a].inn ELSE saved.inn
    <3>1. row[a] \in Columns /\ seen \in Columns /\ saved \in Columns
      BY <2>5
    <3>2. QED
      BY <2>7, <3>1, WrittenColumns
  <2>9. a \notin mixed' => row'[a].inn = (row'[a].format # "individual")
    BY <2>2, <2>6, <2>8
  <2>10. InnFollowsFormat'
    <3>1. ASSUME NEW b \in known' \ mixed', row'[b].format # NoFormat
          PROVE  row'[b].inn = (row'[b].format # "individual")
      <4>1. CASE b = a
        BY <2>9, <4>1
      <4>2. CASE b # a
        <5>1. row'[b] = row[b] /\ b \in known \ mixed
          BY <2>2, <4>2 DEF TypeOK
        <5>2. QED
          BY <3>1, <5>1 DEF InnFollowsFormat
      <4>3. QED
        BY <4>1, <4>2
    <3>2. QED
      BY <3>1 DEF InnFollowsFormat
  <2>11. QED
    BY <2>3, <2>4, <2>10
<1>7. ASSUME NEW h \in Handlers, NEW c \in Clients, NEW p \in Phones \cup {NoPhone},
             ImportClient(h, c, p)
      PROVE  RequestsSound' /\ UnknownEmpty' /\ InnFollowsFormat'
  <2>1. UNCHANGED <<known, mixed>>
    BY <1>7 DEF ImportClient
  <2>2. CASE Matches(c, p) = {}
    <3> DEFINE r == [Idle EXCEPT !.at = "create", !.new.phone = p, !.client = c]
    <3>1. /\ r \in Requests /\ r.at = "create" /\ r.new.upline = NoAgent
          /\ r.new.format = NoFormat /\ r.new.inn = FALSE
      BY DEF Idle, NewAgent, Requests, Columns
    <3>2. req' = [req EXCEPT ![h] = r] /\ UNCHANGED row
      BY <1>7, <2>2 DEF ImportClient
    <3> HIDE DEF r
    <3>3. RequestsSound'
      BY <3>1, <3>2, StartSound
    <3>4. QED
      BY <1>1, <2>1, <3>2, <3>3
  <2>3. CASE Matches(c, p) # {}
    <3>1. PICK a \in Matches(c, p) :
            row' = [row EXCEPT ![a].phone = IF @ = NoPhone THEN p ELSE @]
      BY <1>7, <2>3 DEF ImportClient
    <3>2. UNCHANGED req
      BY <1>7, <2>3 DEF ImportClient
    <3>3. a \in known /\ a \in Agents
      BY DEF Matches, TypeOK
    <3>4. \A b \in Agents : /\ row'[b].format = row[b].format /\ row'[b].inn = row[b].inn
                            /\ b # a => row'[b] = row[b]
      BY <3>1, <3>3 DEF TypeOK, Columns
    <3>5. RequestsSound'
      BY <3>2 DEF RequestsSound, RequestSound
    <3>6. UnknownEmpty'
      BY <2>1, <3>3, <3>4 DEF UnknownEmpty
    <3>7. InnFollowsFormat'
      BY <2>1, <3>4 DEF InnFollowsFormat, TypeOK
    <3>8. QED
      BY <3>5, <3>6, <3>7
  <2>4. QED
    BY <2>2, <2>3
<1>8. ASSUME NEW h \in Handlers, CreateImported(h)
      PROVE  RequestsSound' /\ UnknownEmpty' /\ InnFollowsFormat'
  <2>1. PICK a \in Agents \ known :
          /\ known' = known \cup {a}
          /\ row' = [row EXCEPT ![a] = req[h].new]
    BY <1>8 DEF CreateImported
  <2>2. /\ req' = [req EXCEPT ![h] = Idle]
        /\ mixed' = mixed
        /\ req[h].at = "create"
    BY <1>8 DEF CreateImported
  <2>3. req[h].new.format = NoFormat
    BY <2>2 DEF RequestsSound, RequestSound
  <2>4. row'[a] = req[h].new /\ \A b \in Agents \ {a} : row'[b] = row[b]
    BY <2>1 DEF TypeOK
  <2>5. UnknownEmpty'
    BY <2>1, <2>4 DEF UnknownEmpty
  <2>6. InnFollowsFormat'
    BY <2>1, <2>2, <2>3, <2>4 DEF InnFollowsFormat, TypeOK
  <2>7. QED
    BY <2>2, <2>5, <2>6, IdleSound
<1>9. ASSUME NEW a \in Agents, NEW p \in Phones, Submit(a, p)
      PROVE  RequestsSound' /\ UnknownEmpty' /\ InnFollowsFormat'
  BY <1>1, <1>9 DEF Submit, RequestsSound, RequestSound
<1>10. CASE UNCHANGED vars
  BY <1>1, <1>10 DEF vars, RequestsSound, RequestSound
<1>11. QED
  BY <1>2, <1>3, <1>4, <1>5, <1>6, <1>7, <1>8, <1>9, <1>10 DEF Next

\* At the start agents who registered have a format with its INN.
LEMMA FormatInit == Init => FormatInv
<1> SUFFICES ASSUME Init PROVE FormatInv
  OBVIOUS
<1> USE NetworkAssumption
<1>1. PICK f \in Formats : row = [a \in Agents |->
        IF a \in Registered THEN [NewAgent EXCEPT !.format = f, !.inn = (f # "individual")]
        ELSE NewAgent]
  BY DEF Init
<1>2. RequestsSound
  BY DEF Init, RequestsSound, RequestSound, Idle
<1>3. UnknownEmpty
  BY <1>1 DEF Init, UnknownEmpty
<1>4. InnFollowsFormat
  BY <1>1 DEF Init, InnFollowsFormat, NewAgent
<1>5. QED
  BY <1>2, <1>3, <1>4 DEF FormatInv

\* Whoever has a format has the INN that goes with it, unless a form was saved
\* over columns changed meanwhile (validate_inn, update_profile).
THEOREM InnsCorrect == Spec => []InnFollowsFormat
<1>1. FormatInv => InnFollowsFormat
  BY DEF FormatInv
<1>2. QED
  BY <1>1, FormatInit, FormatNext, TypeCorrect, PTL DEF Spec

-----------------------------------------------------------------------------
(* Phones *)

\* Agent b claims phone p through the form in slot g.
ClaimsBy(g, b, p) ==
  /\ req[g].agent = b
  /\ req[g].at \in {"link", "save"}
  /\ req[g].new.phone = p
  /\ req[g].seen.phone # p

\* The claimants of a phone, before and after a step, one by one.
LEMMA ClaimantsAre ==
  ASSUME NEW p, NEW b
  PROVE  /\ b \in Claimants(p) <=>
              (b \in known /\ row[b].phone = p) \/ \E g \in Handlers : ClaimsBy(g, b, p)
         /\ b \in Claimants(p)' <=>
              (b \in known' /\ row'[b].phone = p) \/ \E g \in Handlers : ClaimsBy(g, b, p)'
<1>1. b \in Claimants(p) <=>
        (b \in known /\ row[b].phone = p) \/ \E g \in Handlers : ClaimsBy(g, b, p)
  BY DEF Claimants, Owners, Saving, ClaimsBy
<1>2. b \in Claimants(p)' <=>
        (b \in known' /\ row'[b].phone = p) \/ \E g \in Handlers : ClaimsBy(g, b, p)'
  BY DEF Claimants, Owners, Saving, ClaimsBy
<1>3. QED
  BY <1>1, <1>2

\* A step that adds no claimant to a phone, or leaves it one, keeps the owners.
LEMMA OwnersKept ==
  ASSUME PhoneOwnedOnce, contested \subseteq contested',
         \A p \in Phones \ contested' :
           \/ Claimants(p)' \subseteq Claimants(p)
           \/ \E a \in Agents : Claimants(p)' \subseteq {a}
  PROVE  PhoneOwnedOnce'
<1>1. ASSUME NEW p \in Phones \ contested', NEW a \in Claimants(p)', NEW b \in Claimants(p)'
      PROVE  a = b
  <2>1. CASE Claimants(p)' \subseteq Claimants(p)
    <3>1. p \in Phones \ contested /\ a \in Claimants(p) /\ b \in Claimants(p)
      BY <1>1, <2>1
    <3>2. QED
      BY <3>1 DEF PhoneOwnedOnce
  <2>2. CASE \E c \in Agents : Claimants(p)' \subseteq {c}
    BY <2>2
  <2>3. QED
    BY <1>1, <2>1, <2>2
<1>2. QED
  BY <1>1 DEF PhoneOwnedOnce

\* A form newly opened claims nothing: one with a new phone has it to test.
LEMMA OpeningClaimsNothing ==
  ASSUME TypeOK, PhoneOwnedOnce, NEW h \in Handlers, NEW r,
         req' = [req EXCEPT ![h] = r],
         r.at \in {"link", "save"} => r.new.phone = r.seen.phone,
         UNCHANGED <<known, row, contested>>
  PROVE  PhoneOwnedOnce'
<1>1. ASSUME NEW p \in Phones, NEW b \in Claimants(p)'
      PROVE  b \in Claimants(p)
  <2>1. ASSUME NEW g \in Handlers, ClaimsBy(g, b, p)'
        PROVE  ClaimsBy(g, b, p)
    <3>1. g # h
      BY <2>1 DEF ClaimsBy, TypeOK
    <3>2. QED
      BY <2>1, <3>1 DEF ClaimsBy, TypeOK
  <2>2. QED
    BY <1>1, <2>1, ClaimantsAre
<1>2. QED
  BY <1>1, OwnersKept

\* An import that gives agent a, without a phone so far, phone p leaves p
\* contested or claimed by a alone, and the other phones as they are.
LEMMA ImportedClaims ==
  ASSUME TypeOK, PhoneOwnedOnce, NEW a \in Agents, NEW p \in Phones \cup {NoPhone},
         NoteImport(a, p),
         known' \subseteq known \cup {a},
         a \in known \/ row[a].phone = NoPhone,
         row'[a].phone = IF row[a].phone = NoPhone THEN p ELSE row[a].phone,
         \A b \in Agents \ {a} : row'[b] = row[b],
         \A g \in Handlers : req'[g].at \in {"link", "save"} => req'[g] = req[g]
  PROVE  PhoneOwnedOnce'
<1>1. contested \subseteq contested'
  BY DEF NoteImport
<1>2. \A q, b : \A g \in Handlers : ClaimsBy(g, b, q)' => ClaimsBy(g, b, q)
  BY DEF ClaimsBy
<1>3. known' \subseteq Agents /\ known \subseteq Agents
  BY DEF TypeOK
<1>4. ASSUME NEW q \in Phones \ contested', q = p, row[a].phone = NoPhone
      PROVE  Claimants(q)' \subseteq {a}
  <2>1. Claimants(q) = {}
    BY <1>4, NetworkAssumption DEF NoteImport
  <2>2. ASSUME NEW b \in Claimants(q)', b # a
        PROVE  b \in Claimants(q)
    <3>1. CASE b \in known' /\ row'[b].phone = q
      <4>1. b \in known /\ row[b].phone = q
        BY <1>3, <2>2, <3>1
      <4>2. QED
        BY <4>1, ClaimantsAre
    <3>2. CASE \E g \in Handlers : ClaimsBy(g, b, q)'
      BY <1>2, <3>2, ClaimantsAre
    <3>3. QED
      BY <2>2, <3>1, <3>2, ClaimantsAre
  <2>3. QED
    BY <2>1, <2>2
<1>5. ASSUME NEW q \in Phones \ contested', q # p \/ row[a].phone # NoPhone
      PROVE  Claimants(q)' \subseteq Claimants(q)
  <2>1. ASSUME NEW b \in Claimants(q)'
        PROVE  b \in Claimants(q)
    <3>1. CASE b \in known' /\ row'[b].phone = q
      <4>1. b \in known /\ row[b].phone = q
        <5>1. CASE b = a
          BY <1>5, <3>1, <5>1, NetworkAssumption
        <5>2. CASE b # a
          BY <1>3, <3>1, <5>2
        <5>3. QED
          BY <5>1, <5>2
      <4>2. QED
        BY <4>1, ClaimantsAre
    <3>2. CASE \E g \in Handlers : ClaimsBy(g, b, q)'
      BY <1>2, <3>2, ClaimantsAre
    <3>3. QED
      BY <2>1, <3>1, <3>2, ClaimantsAre
  <2>2. QED
    BY <2>1
<1>6. \A q \in Phones \ contested' : \/ Claimants(q)' \subseteq Claimants(q)
                                     \/ \E c \in Agents : Claimants(q)' \subseteq {c}
  BY <1>4, <1>5
<1>7. QED
  BY <1>1, <1>6, OwnersKept

\* Every step keeps a phone with one claimant, contested ones apart.
LEMMA PhoneNext ==
  TypeOK /\ UnknownEmpty /\ PhoneOwnedOnce /\ [Next]_vars => PhoneOwnedOnce'
<1> SUFFICES ASSUME TypeOK, UnknownEmpty, PhoneOwnedOnce, [Next]_vars
             PROVE  PhoneOwnedOnce'
  OBVIOUS
<1>1. ASSUME UNCHANGED <<known, row, req, contested>>
      PROVE  PhoneOwnedOnce'
  BY <1>1 DEF PhoneOwnedOnce, Claimants, Owners, Saving
<1>2. ASSUME NEW h \in Handlers, NEW a \in Agents, NEW p \in Phones \cup {NoPhone},
             NEW f \in Formats, OpenProfile(h, a, p, f)
      PROVE  PhoneOwnedOnce'
  <2> DEFINE changes == Changed(row[a], p)
             new == [row[a] EXCEPT !.phone = IF changes THEN p ELSE @,
                                   !.format = f, !.inn = HasInn(f)]
             r == [at |-> IF changes THEN "test" ELSE "save", agent |-> a,
                   seen |-> row[a], new |-> new, client |-> "none",
                   read |-> 0]
  <2>1. row[a] \in Columns
    BY DEF TypeOK
  <2>2. r.at \in {"link", "save"} => r.new.phone = r.seen.phone
    BY <2>1 DEF Columns
  <2>3. req' = [req EXCEPT ![h] = r] /\ UNCHANGED <<known, row, contested>>
    BY <1>2 DEF OpenProfile
  <2> HIDE DEF r
  <2>4. QED
    BY <2>2, <2>3, OpeningClaimsNothing
<1>3. ASSUME NEW h \in Handlers, NEW a \in Agents, NEW f \in Formats,
             OpenOnboarding(h, a, f)
      PROVE  PhoneOwnedOnce'
  <2> DEFINE new == [row[a] EXCEPT !.format = f, !.inn = HasInn(f)]
             r == [at |-> "save", agent |-> a, seen |-> row[a], new |-> new,
                   client |-> "none", read |-> 0]
  <2>1. row[a] \in Columns
    BY DEF TypeOK
  <2>2. r.new.phone = r.seen.phone
    BY <2>1 DEF Columns
  <2>3. req' = [req EXCEPT ![h] = r] /\ UNCHANGED <<known, row, contested>>
    BY <1>3 DEF OpenOnboarding
  <2> HIDE DEF r
  <2>4. QED
    BY <2>2, <2>3, OpeningClaimsNothing
<1>4. ASSUME NEW h \in Handlers, TestPhone(h)
      PROVE  PhoneOwnedOnce'
  <2>1. UNCHANGED <<known, row>> /\ contested \subseteq contested'
    BY <1>4 DEF TestPhone
  <2>2. req[h] \in Requests /\ req[h].agent \in Agents
    BY <1>4 DEF TestPhone, TypeOK
  <2>3. ASSUME NEW p \in Phones \ contested'
        PROVE  \/ Claimants(p)' \subseteq Claimants(p)
               \/ Claimants(p)' \subseteq {req[h].agent}
    <3>1. ASSUME NEW g \in Handlers, NEW b, ClaimsBy(g, b, p)'
          PROVE  \/ ClaimsBy(g, b, p)
                 \/ /\ g = h /\ b = req[h].agent /\ p = req[h].new.phone
                    /\ Others(p, b) = {}
      <4>1. g = h => /\ req' = [req EXCEPT ![h].at = "link"]
                     /\ Others(req[h].new.phone, req[h].agent) = {}
        BY <1>4, <3>1 DEF TestPhone, ClaimsBy, Idle, TypeOK
      <4>2. g # h => req'[g] = req[g]
        BY <1>4 DEF TestPhone, TypeOK
      <4>3. CASE g = h
        <5>1. /\ req'[h].agent = req[h].agent
              /\ req'[h].new = req[h].new
          BY <2>2, <4>1, <4>3 DEF TypeOK, Requests
        <5>2. QED
          BY <3>1, <4>1, <4>3, <5>1 DEF ClaimsBy
      <4>4. CASE g # h
        BY <3>1, <4>2, <4>4 DEF ClaimsBy
      <4>5. QED
        BY <4>3, <4>4
    <3>2. CASE p = req[h].new.phone /\ Others(p, req[h].agent) = {}
      <4>1. Saving(p) \subseteq {req[h].agent} /\ Owners(p) \subseteq {req[h].agent}
        BY <1>4, <3>2 DEF TestPhone, Others
      <4>2. Claimants(p) \subseteq {req[h].agent}
        BY <4>1 DEF Claimants
      <4>3. ASSUME NEW b \in Claimants(p)'
            PROVE  b = req[h].agent
        BY <2>1, <3>1, <4>2, <4>3, ClaimantsAre
      <4>4. QED
        BY <4>3
    <3>3. CASE ~(p = req[h].new.phone /\ Others(p, req[h].agent) = {})
      <4>1. ASSUME NEW b \in Claimants(p)'
            PROVE  b \in Claimants(p)
        BY <2>1, <3>1, <3>3, <4>1, ClaimantsAre
      <4>2. QED
        BY <4>1
    <3>4. QED
      BY <3>2, <3>3
  <2>4. QED
    BY <2>1, <2>2, <2>3, OwnersKept
<1>5. ASSUME NEW h \in Handlers, FindReferrer(h)
       PROVE  PhoneOwnedOnce'
  <2>1. req[h] \in Requests /\ req[h].agent \in Agents /\ req[h].at = "link"
    BY <1>5 DEF TypeOK, FindReferrer
  <2>2. PICK r \in Requests : /\ r = Linked(req[h]) /\ r.agent = req[h].agent
                              /\ r.seen = req[h].seen /\ r.new.phone = req[h].new.phone
    BY <2>1, LinkedForm
  <2>3. req' = [req EXCEPT ![h] = r] /\ UNCHANGED <<known, row, contested>>
    BY <1>5, <2>2 DEF FindReferrer
  <2>4. ASSUME NEW p, NEW b, NEW g \in Handlers, ClaimsBy(g, b, p)'
        PROVE  ClaimsBy(g, b, p)
    <3>1. CASE g = h
      BY <2>1, <2>2, <2>3, <2>4, <3>1 DEF ClaimsBy, TypeOK
    <3>2. CASE g # h
      BY <2>3, <2>4, <3>2 DEF ClaimsBy, TypeOK
    <3>3. QED
      BY <3>1, <3>2
  <2>5. ASSUME NEW p \in Phones, NEW b \in Claimants(p)'
        PROVE  b \in Claimants(p)
    BY <2>3, <2>4, <2>5, ClaimantsAre
  <2>6. QED
    BY <2>3, <2>5, OwnersKept
<1>6. ASSUME NEW h \in Handlers, Save(h)
      PROVE  PhoneOwnedOnce'
  <2>1. PICK a \in Agents : a = req[h].agent /\ a \in known
    BY <1>6 DEF Save, TypeOK
  <2> DEFINE seen == req[h].seen
             saved == req[h].new
  <2>2. /\ req[h].at = "save"
        /\ row' = [row EXCEPT ![a] = Written(row[a], seen, saved)]
        /\ req' = [req EXCEPT ![h] = Idle]
        /\ UNCHANGED <<known, contested>>
    BY <1>6, <2>1 DEF Save
  <2>3. /\ row[a] \in Columns /\ seen \in Columns /\ saved \in Columns
        /\ saved.phone = req[h].new.phone
    BY <2>1 DEF TypeOK, Requests
  <2>4. row'[a] = Written(row[a], seen, saved)
    BY <2>2 DEF TypeOK
  <2>5. row'[a].phone = IF saved.phone = seen.phone THEN row[a].phone ELSE saved.phone
    <3> HIDE DEF saved, seen
    <3>1. QED
      BY <2>3, <2>4, WrittenColumns
  <2>6. ASSUME NEW p \in Phones, NEW b \in Claimants(p)'
        PROVE  b \in Claimants(p)
    <3>1. \A g \in Handlers : ClaimsBy(g, b, p)' => ClaimsBy(g, b, p)
      BY <2>2 DEF ClaimsBy, TypeOK, Idle
    <3>2. CASE b \in known /\ row'[b].phone = p
      <4>1. CASE b = a
        <5>1. row[a].phone = p \/ ClaimsBy(h, a, p)
          BY <2>1, <2>2, <2>3, <2>5, <3>2, <4>1 DEF ClaimsBy
        <5>2. QED
          BY <3>2, <4>1, <5>1, ClaimantsAre
      <4>2. CASE b # a
        BY <2>2, <3>2, <4>2, ClaimantsAre DEF TypeOK
      <4>3. QED
        BY <4>1, <4>2
    <3>3. QED
      BY <2>2, <2>6, <3>1, <3>2, ClaimantsAre
  <2>7. QED
    BY <2>2, <2>6, OwnersKept
<1>7. ASSUME NEW h \in Handlers, NEW c \in Clients, NEW p \in Phones \cup {NoPhone},
             ImportClient(h, c, p)
      PROVE  PhoneOwnedOnce'
  <2>1. known' = known
    BY <1>7 DEF ImportClient
  <2>2. CASE Matches(c, p) = {}
    <3> DEFINE r == [Idle EXCEPT !.at = "create", !.new.phone = p, !.client = c]
    <3>1. r.at = "create"
      BY DEF Idle
    <3>2. req' = [req EXCEPT ![h] = r] /\ UNCHANGED <<row, contested>>
      BY <1>7, <2>2 DEF ImportClient
    <3> HIDE DEF r
    <3>3. QED
      BY <2>1, <3>1, <3>2, OpeningClaimsNothing
  <2>3. CASE Matches(c, p) # {}
    <3>1. PICK a \in Matches(c, p) :
            /\ row' = [row EXCEPT ![a].phone = IF @ = NoPhone THEN p ELSE @]
            /\ NoteImport(a, p)
            /\ UNCHANGED req
      BY <1>7, <2>3 DEF ImportClient
    <3>2. a \in known /\ a \in Agents
      BY DEF Matches, TypeOK
    <3>3. row'[a].phone = IF row[a].phone = NoPhone THEN p ELSE row[a].phone
      BY <3>1, <3>2 DEF TypeOK, Columns
    <3>4. \A b \in Agents \ {a} : row'[b] = row[b]
      BY <3>1 DEF TypeOK
    <3>5. QED
      BY <2>1, <3>1, <3>2, <3>3, <3>4, ImportedClaims
  <2>4. QED
    BY <2>2, <2>3
<1>8. ASSUME NEW h \in Handlers, CreateImported(h)
      PROVE  PhoneOwnedOnce'
  <2>1. PICK a \in Agents \ known :
          /\ known' = known \cup {a}
          /\ row' = [row EXCEPT ![a] = req[h].new]
          /\ NoteImport(a, req[h].new.phone)
    BY <1>8 DEF CreateImported
  <2>2. PICK p \in Phones \cup {NoPhone} : p = req[h].new.phone
    BY DEF TypeOK, Requests, Columns
  <2>3. row[a].phone = NoPhone
    BY DEF UnknownEmpty, NewAgent
  <2>4. row'[a].phone = p /\ \A b \in Agents \ {a} : row'[b] = row[b]
    BY <2>1, <2>2 DEF TypeOK
  <2>5. \A g \in Handlers : req'[g].at \in {"link", "save"} => req'[g] = req[g]
    BY <1>8 DEF CreateImported, Idle, TypeOK
  <2>6. NoteImport(a, p)
    BY <2>1, <2>2
  <2>7. QED
    BY <2>1, <2>3, <2>4, <2>5, <2>6, ImportedClaims
<1>9. ASSUME NEW a \in Agents, NEW p \in Phones, Submit(a, p)
      PROVE  PhoneOwnedOnce'
  BY <1>1, <1>9 DEF Submit
<1>10. CASE UNCHANGED vars
  BY <1>1, <1>10 DEF vars
<1>11. QED
  BY <1>2, <1>3, <1>4, <1>5, <1>6, <1>7, <1>8, <1>9, <1>10 DEF Next

\* Nobody has a phone at the start.
LEMMA PhoneInit == Init => PhoneOwnedOnce
<1> SUFFICES ASSUME Init, NEW p \in Phones
             PROVE  Claimants(p) = {}
  BY DEF PhoneOwnedOnce
<1>1. PICK f \in Formats : row = [a \in Agents |->
        IF a \in Registered THEN [NewAgent EXCEPT !.format = f, !.inn = (f # "individual")]
        ELSE NewAgent]
  BY DEF Init
<1>2. \A a \in Agents : row[a].phone = NoPhone
  BY <1>1 DEF NewAgent
<1>3. Owners(p) = {}
  BY <1>2, NetworkAssumption DEF Owners, Init
<1>4. Saving(p) = {}
  BY DEF Saving, Init, Idle
<1>5. QED
  BY <1>3, <1>4 DEF Claimants

\* A phone has one partner unless two forms passed the test for it at once or
\* an import gave it away (update_profile, ensure_legacy_client_agent).
THEOREM PhonesCorrect == Spec => []PhoneOwnedOnce
<1>1. FormatInv => UnknownEmpty
  BY DEF FormatInv
<1>2. QED
  BY <1>1, FormatInit, FormatNext, PhoneInit, PhoneNext, TypeCorrect, PTL DEF Spec

-----------------------------------------------------------------------------
(* Uplines *)

\* What a form that saves has made of its upline.
LinkedWell(r) ==
  /\ r.new.upline # r.seen.upline =>
       /\ r.seen.upline = NoAgent
       /\ r.new.upline \notin {NoAgent, r.agent}
       /\ BroughtLast(r.new.upline, r.new.phone, r.read)
  /\ (r.new.phone # r.seen.phone /\ r.seen.upline = NoAgent) =>
       \A b \in Agents \ {r.agent} :
         BroughtLast(b, r.new.phone, r.read) => r.new.upline = b

LinksSound ==
  \A h \in Handlers :
    /\ req[h].read <= Len(apps)
    /\ req[h].at = "save" => LinkedWell(req[h])

\* No form is there at the start.
LEMMA LinksInit == Init => LinksSound
  BY DEF Init, LinksSound, Idle

\* A step of one handler, which leaves it no form to save or a well linked one.
LEMMA LinksStart ==
  ASSUME TypeOK, LinksSound, NEW h \in Handlers, NEW r, req' = [req EXCEPT ![h] = r],
         UNCHANGED apps, r.read <= Len(apps), r.at = "save" => LinkedWell(r)
  PROVE  LinksSound'
<1>1. \A q : LinkedWell(q) => LinkedWell(q)'
  BY DEF LinkedWell, BroughtLast
<1>2. req'[h] = r /\ \A g \in Handlers : g # h => req'[g] = req[g]
  BY DEF TypeOK
<1>3. ASSUME NEW g \in Handlers
      PROVE  req'[g].read <= Len(apps) /\ (req'[g].at = "save" => LinkedWell(req'[g]))
  BY <1>2 DEF LinksSound
<1>4. ASSUME NEW g \in Handlers
      PROVE  req'[g].read <= Len(apps)' /\ (req'[g].at = "save" => LinkedWell(req[g])')
  <2>1. LinkedWell(req[g])' <=> LinkedWell(req'[g])
    BY DEF LinkedWell, BroughtLast
  <2>2. QED
    BY <1>3, <2>1
<1>5. QED
  BY <1>4 DEF LinksSound

\* Every step keeps the links sound: an application that comes in later is not
\* among those a form has read.
LEMMA LinksNext == TypeOK /\ FormatInv /\ LinksSound /\ [Next]_vars => LinksSound'
<1> SUFFICES ASSUME TypeOK, RequestsSound, LinksSound, [Next]_vars PROVE LinksSound'
  BY DEF FormatInv
<1>1. Idle.read = 0 /\ 0 <= Len(apps)
  BY DEF Idle, TypeOK
<1>2. ASSUME NEW h \in Handlers, NEW r, req' = [req EXCEPT ![h] = r], UNCHANGED apps,
             r.at # "save", r.read <= Len(apps)
      PROVE  LinksSound'
  BY <1>2, LinksStart
<1>3. ASSUME NEW h \in Handlers, NEW a \in Agents, NEW p \in Phones \cup {NoPhone},
             NEW f \in Formats, OpenProfile(h, a, p, f)
      PROVE  LinksSound'
  <2> DEFINE changes == Changed(row[a], p)
             new == [row[a] EXCEPT !.phone = IF changes THEN p ELSE @,
                                   !.format = f, !.inn = HasInn(f)]
             r == [at |-> IF changes THEN "test" ELSE "save", agent |-> a,
                   seen |-> row[a], new |-> new, client |-> "none", read |-> 0]
  <2>1. row[a] \in Columns /\ Len(apps) \in Nat
    BY DEF TypeOK
  <2>2. /\ r.at = "save" => r.new.upline = r.seen.upline /\ r.new.phone = r.seen.phone
        /\ r.read = 0
    BY <2>1 DEF Columns
  <2>3. req' = [req EXCEPT ![h] = r] /\ UNCHANGED apps
    BY <1>3 DEF OpenProfile
  <2> HIDE DEF r
  <2>4. QED
    BY <1>1, <2>2, <2>3, LinksStart DEF LinkedWell
<1>4. ASSUME NEW h \in Handlers, NEW a \in Agents, NEW f \in Formats,
             OpenOnboarding(h, a, f)
      PROVE  LinksSound'
  <2> DEFINE new == [row[a] EXCEPT !.format = f, !.inn = HasInn(f)]
             r == [at |-> "save", agent |-> a, seen |-> row[a], new |-> new,
                   client |-> "none", read |-> 0]
  <2>1. row[a] \in Columns /\ Len(apps) \in Nat
    BY DEF TypeOK
  <2>2. r.new.upline = r.seen.upline /\ r.new.phone = r.seen.phone /\ r.read = 0
    BY <2>1 DEF Columns
  <2>3. req' = [req EXCEPT ![h] = r] /\ UNCHANGED apps
    BY <1>4 DEF OpenOnboarding
  <2> HIDE DEF r
  <2>4. QED
    BY <1>1, <2>2, <2>3, LinksStart DEF LinkedWell
<1>5. ASSUME NEW h \in Handlers, TestPhone(h)
      PROVE  LinksSound'
  <2>1. PICK r : req' = [req EXCEPT ![h] = r] /\ r.at # "save" /\ r.read <= Len(apps)
    <3>1. CASE req' = [req EXCEPT ![h] = Idle]
      BY <1>1, <3>1 DEF Idle
    <3>2. CASE req' = [req EXCEPT ![h].at = "link"]
      <4>1. req[h] \in Requests
        BY DEF TypeOK
      <4>2. PICK r : r = [req[h] EXCEPT !.at = "link"]
        OBVIOUS
      <4>3. r.at = "link" /\ r.read <= Len(apps)
        BY <4>1, <4>2 DEF Requests, LinksSound
      <4>4. req' = [req EXCEPT ![h] = r]
        BY <3>2, <4>2
      <4>5. QED
        BY <4>3, <4>4
    <3>3. QED
      BY <1>5, <3>1, <3>2 DEF TestPhone
  <2>2. QED
    BY <1>2, <1>5, <2>1 DEF TestPhone
<1>6. ASSUME NEW h \in Handlers, FindReferrer(h)
      PROVE  LinksSound'
  <2>1. req[h] \in Requests /\ req[h].agent \in Agents /\ req[h].at = "link"
    BY <1>6 DEF TypeOK, FindReferrer
  <2>2. req[h].new.upline = req[h].seen.upline /\ req[h].new \in Columns
    BY <2>1 DEF RequestsSound, RequestSound, Requests
  <2>3. PICK r : /\ r = Linked(req[h])
                 /\ r.agent = req[h].agent /\ r.seen = req[h].seen
                 /\ r.read = Len(apps) /\ r.new.phone = req[h].new.phone
                 /\ r.new.upline = Link(req[h].agent, req[h].new)
    BY <2>1, LinkedForm
  <2>4. LinkedWell(r)
    BY <2>1, <2>2, <2>3, LinkResult DEF LinkedWell
  <2>5. req' = [req EXCEPT ![h] = r] /\ UNCHANGED apps
    BY <1>6, <2>3 DEF FindReferrer
  <2>6. r.read <= Len(apps)
    BY <2>3 DEF TypeOK
  <2>7. QED
    BY <2>4, <2>5, <2>6, LinksStart
<1>7. ASSUME NEW h \in Handlers, Save(h) \/ CreateImported(h)
      PROVE  LinksSound'
  <2>1. /\ req' = [req EXCEPT ![h] = Idle] /\ UNCHANGED apps
        /\ Idle.at # "save" /\ Idle.read <= Len(apps)
    BY <1>1, <1>7 DEF Save, CreateImported, Idle
  <2>2. QED
    BY <1>2, <2>1
<1>8. CASE UNCHANGED <<req, apps>>
  BY <1>8 DEF LinksSound, LinkedWell, BroughtLast
<1>9. ASSUME NEW h \in Handlers, NEW c \in Clients, NEW p \in Phones \cup {NoPhone},
             ImportClient(h, c, p)
      PROVE  LinksSound'
  <2>1. UNCHANGED apps
    BY <1>9 DEF ImportClient
  <2>2. CASE Matches(c, p) = {}
    <3>1. PICK r : r = [Idle EXCEPT !.at = "create", !.new.phone = p, !.client = c]
      OBVIOUS
    <3>2. r.at # "save" /\ r.read <= Len(apps)
      BY <1>1, <3>1 DEF Idle
    <3>3. req' = [req EXCEPT ![h] = r]
      BY <1>9, <2>2, <3>1 DEF ImportClient
    <3>4. QED
      BY <1>2, <2>1, <3>2, <3>3
  <2>3. CASE Matches(c, p) # {}
    BY <1>8, <1>9, <2>1, <2>3 DEF ImportClient
  <2>4. QED
    BY <2>2, <2>3
<1>10. ASSUME NEW a \in Agents, NEW p \in Phones, Submit(a, p)
      PROVE  LinksSound'
  <2>1. /\ req' = req /\ Len(apps') = Len(apps) + 1 /\ Len(apps) \in Nat
        /\ \A i \in 1..Len(apps) : apps'[i] = apps[i]
    BY <1>10 DEF Submit, TypeOK
  <2>2. ASSUME NEW b, NEW q, NEW n \in Nat, n <= Len(apps)
        PROVE  BroughtLast(b, q, n)' <=> BroughtLast(b, q, n)
    BY <2>1, <2>2 DEF BroughtLast
  <2>3. ASSUME NEW h \in Handlers, req[h].at = "save"
        PROVE  LinkedWell(req[h])'
    <3>1. req[h].read \in Nat /\ req[h].read <= Len(apps) /\ LinkedWell(req[h])
      BY <2>3 DEF LinksSound, TypeOK, Requests
    <3>2. PICK r : r = req[h]
      OBVIOUS
    <3>3. LinkedWell(r)'
      BY <2>2, <3>1, <3>2 DEF LinkedWell
    <3>4. LinkedWell(req[h])'
      BY <2>1, <3>2, <3>3 DEF LinkedWell, BroughtLast
    <3>5. QED
      BY <3>4
  <2>4. \A h \in Handlers : req[h].read <= Len(apps')
    BY <2>1 DEF LinksSound, TypeOK, Requests
  <2>5. QED
    BY <2>1, <2>3, <2>4 DEF LinksSound
<1>11. CASE UNCHANGED vars
  BY <1>8, <1>11 DEF vars
<1>12. QED
  BY <1>3, <1>4, <1>5, <1>6, <1>7, <1>9, <1>10, <1>11 DEF Next

\* What UplineKept says of a step: whence an upline comes, and that none is lost.
UplineStep ==
  \A a \in Agents :
    row'[a].upline # row[a].upline =>
      \E h \in Handlers :
        /\ req[h].agent = a
        /\ req[h].seen.upline = NoAgent
        /\ row'[a].upline # a
        /\ BroughtLast(row'[a].upline, req[h].new.phone, req[h].read)

LinkStep ==
  \A h \in Handlers :
    LET r == req[h] IN
    (/\ r.at = "save" /\ req'[h] = Idle
     /\ r.new.phone # r.seen.phone
     /\ r.seen.upline = NoAgent) =>
      \A b \in Agents \ {r.agent} :
        BroughtLast(b, r.new.phone, r.read) => row'[r.agent].upline = b

\* What a save makes of the upline of its agent.
LEMMA SavedUpline ==
  ASSUME TypeOK, NEW h \in Handlers, Save(h), NEW a \in Agents, a = req[h].agent
  PROVE  /\ row'[a].upline = IF req[h].new.upline = req[h].seen.upline
                             THEN row[a].upline ELSE req[h].new.upline
         /\ \A b \in Agents \ {a} : row'[b] = row[b]
<1> DEFINE seen == req[h].seen
           new == req[h].new
<1>1. row' = [row EXCEPT ![a] = Written(row[a], seen, new)]
  BY DEF Save
<1>2. row[a] \in Columns /\ seen \in Columns /\ new \in Columns
  BY DEF TypeOK, Requests
<1>3. row'[a] = Written(row[a], seen, new) /\ \A b \in Agents \ {a} : row'[b] = row[b]
  BY <1>1 DEF TypeOK
<1> HIDE DEF seen, new
<1>4. row'[a].upline = IF new.upline = seen.upline THEN row[a].upline ELSE new.upline
  BY <1>2, <1>3, WrittenColumns
<1>5. QED
  BY <1>3, <1>4 DEF seen, new

\* A form past its test ends by its save.
LEMMA OnlySaveEnds ==
  ASSUME TypeOK, [Next]_vars, NEW h \in Handlers, req[h].at = "save", req'[h].at = "idle"
  PROVE  Save(h)
<1>1. \A g \in Handlers : g # h => \A r : [req EXCEPT ![g] = r][h] = req[h]
  BY DEF TypeOK
<1>2. req[h] # Idle
  BY DEF Idle
<1>3. ASSUME NEW g \in Handlers, g # h, NEW r, req' = [req EXCEPT ![g] = r]
      PROVE  FALSE
  BY <1>1, <1>3
<1>4. CASE req' = req
  BY <1>4
<1>5. ASSUME NEW g \in Handlers, NEW a \in Agents, NEW p \in Phones \cup {NoPhone},
             NEW f \in Formats, OpenProfile(g, a, p, f) \/ OpenOnboarding(g, a, f)
      PROVE  FALSE
  BY <1>2, <1>3, <1>5 DEF OpenProfile, OpenOnboarding
<1>6. ASSUME NEW g \in Handlers, TestPhone(g)
      PROVE  FALSE
  <2>1. g # h
    BY <1>6 DEF TestPhone
  <2>2. CASE req' = [req EXCEPT ![g] = Idle]
    BY <1>3, <2>1, <2>2
  <2>3. CASE req' = [req EXCEPT ![g].at = "link"]
    BY <2>1, <2>3 DEF TypeOK
  <2>4. QED
    BY <1>6, <2>2, <2>3 DEF TestPhone
<1>7. ASSUME NEW g \in Handlers, FindReferrer(g) \/ CreateImported(g)
      PROVE  FALSE
  BY <1>3, <1>7 DEF FindReferrer, CreateImported
<1>8. ASSUME NEW g \in Handlers, Save(g)
      PROVE  g = h
  BY <1>3, <1>8 DEF Save
<1>9. ASSUME NEW g \in Handlers, NEW c \in Clients, NEW p \in Phones \cup {NoPhone},
             ImportClient(g, c, p)
      PROVE  FALSE
  <2>1. g # h
    BY <1>2, <1>9 DEF ImportClient
  <2>2. CASE Matches(c, p) = {}
    <3>1. PICK r : r = [Idle EXCEPT !.at = "create", !.new.phone = p, !.client = c]
      OBVIOUS
    <3>2. req' = [req EXCEPT ![g] = r]
      BY <1>9, <2>2, <3>1 DEF ImportClient
    <3>3. QED
      BY <1>3, <2>1, <3>2
  <2>3. CASE Matches(c, p) # {}
    BY <1>4, <1>9, <2>3 DEF ImportClient
  <2>4. QED
    BY <2>2, <2>3
<1>10. ASSUME NEW a \in Agents, NEW p \in Phones, Submit(a, p)
       PROVE  FALSE
  BY <1>4, <1>10 DEF Submit
<1>11. CASE UNCHANGED vars
  BY <1>4, <1>11 DEF vars
<1>12. QED
  BY <1>5, <1>6, <1>7, <1>8, <1>9, <1>10, <1>11 DEF Next

\* A form that has loaded no upline and found the referrer of its phone saves it.
LEMMA LinkNext == TypeOK /\ LinksSound /\ [Next]_vars => LinkStep
<1> SUFFICES ASSUME TypeOK, LinksSound, [Next]_vars,
                    NEW h \in Handlers, req[h].at = "save", req'[h] = Idle,
                    req[h].new.phone # req[h].seen.phone, req[h].seen.upline = NoAgent,
                    NEW b \in Agents \ {req[h].agent},
                    BroughtLast(b, req[h].new.phone, req[h].read)
             PROVE  row'[req[h].agent].upline = b
  BY DEF LinkStep
<1>1. Idle.at = "idle"
  BY DEF Idle
<1>2. Save(h)
  BY <1>1, OnlySaveEnds
<1>3. PICK a \in Agents : a = req[h].agent
  BY DEF TypeOK
<1>4. req[h].new.upline = b /\ b # NoAgent
  BY NetworkAssumption DEF LinksSound, LinkedWell
<1>5. QED
  BY <1>2, <1>3, <1>4, SavedUpline

\* Only a form that is saved changes an upline, and it takes the referrer found.
LEMMA UplineNext == TypeOK /\ FormatInv /\ LinksSound /\ [Next]_vars => UplineStep
<1> SUFFICES ASSUME TypeOK, RequestsSound, UnknownEmpty, LinksSound, [Next]_vars
             PROVE  UplineStep
  BY DEF FormatInv
<1>1. ASSUME \A a \in Agents : row'[a].upline = row[a].upline
      PROVE  UplineStep
  BY <1>1 DEF UplineStep
<1>2. ASSUME UNCHANGED row
      PROVE  UplineStep
  BY <1>1, <1>2
<1>3. ASSUME NEW h \in Handlers, NEW a \in Agents, NEW p \in Phones \cup {NoPhone},
             NEW f \in Formats, OpenProfile(h, a, p, f) \/ OpenOnboarding(h, a, f)
      PROVE  UplineStep
  BY <1>2, <1>3 DEF OpenProfile, OpenOnboarding
<1>4. ASSUME NEW h \in Handlers, TestPhone(h) \/ FindReferrer(h)
      PROVE  UplineStep
  BY <1>2, <1>4 DEF TestPhone, FindReferrer
<1>5. ASSUME NEW h \in Handlers, Save(h)
      PROVE  UplineStep
  <2>1. PICK a \in Agents : a = req[h].agent
    BY <1>5 DEF Save, TypeOK
  <2>2. ASSUME row'[a].upline # row[a].upline
        PROVE  /\ req[h].seen.upline = NoAgent
               /\ row'[a].upline # a
               /\ BroughtLast(row'[a].upline, req[h].new.phone, req[h].read)
    <3>1. LinkedWell(req[h])
      BY <1>5 DEF Save, LinksSound
    <3>2. /\ row'[a].upline = req[h].new.upline
          /\ req[h].new.upline # req[h].seen.upline
      BY <1>5, <2>1, <2>2, SavedUpline
    <3>3. QED
      BY <2>1, <3>1, <3>2 DEF LinkedWell
  <2>3. \A b \in Agents \ {a} : row'[b] = row[b]
    BY <1>5, <2>1, SavedUpline
  <2>4. QED
    BY <2>1, <2>2, <2>3 DEF UplineStep
<1>6. ASSUME NEW h \in Handlers, NEW c \in Clients, NEW p \in Phones \cup {NoPhone},
             ImportClient(h, c, p)
      PROVE  UplineStep
  <2>1. CASE Matches(c, p) = {}
    BY <1>2, <1>6, <2>1 DEF ImportClient
  <2>2. CASE Matches(c, p) # {}
    <3>1. PICK a \in Matches(c, p) :
            row' = [row EXCEPT ![a].phone = IF @ = NoPhone THEN p ELSE @]
      BY <1>6, <2>2 DEF ImportClient
    <3>2. \A b \in Agents : row'[b].upline = row[b].upline
      BY <3>1 DEF TypeOK, Columns
    <3>3. QED
      BY <1>1, <3>2
  <2>3. QED
    BY <2>1, <2>2
<1>7. ASSUME NEW h \in Handlers, CreateImported(h)
      PROVE  UplineStep
  <2>1. PICK a \in Agents \ known : row' = [row EXCEPT ![a] = req[h].new]
    BY <1>7 DEF CreateImported
  <2>2. req[h].new.upline = NoAgent /\ row[a].upline = NoAgent
    BY <1>7 DEF CreateImported, RequestsSound, RequestSound, UnknownEmpty, NewAgent
  <2>3. \A b \in Agents : row'[b].upline = row[b].upline
    BY <2>1, <2>2 DEF TypeOK
  <2>4. QED
    BY <1>1, <2>3
<1>8. ASSUME NEW a \in Agents, NEW p \in Phones, Submit(a, p)
      PROVE  UplineStep
  BY <1>2, <1>8 DEF Submit
<1>9. CASE UNCHANGED vars
  BY <1>2, <1>9 DEF vars
<1>10. QED
  BY <1>3, <1>4, <1>5, <1>6, <1>7, <1>8, <1>9 DEF Next

\* An upline is the partner who brought the phone given last of the applications
\* read, is set by forms that had loaded none only, and by each of these that
\* has found one, for any number of partners, forms and submissions
\* (link_agent_to_referrer: "Only fires once").
THEOREM UplinesKept == Spec => UplineKept
<1>1. TypeOK /\ FormatInv /\ LinksSound /\ [Next]_vars => [UplineStep /\ LinkStep]_vars
  BY UplineNext, LinkNext
<1>2. QED
  BY <1>1, FormatInit, FormatNext, LinksInit, LinksNext, TypeCorrect, PTL
     DEF Spec, UplineKept, UplineStep, LinkStep

-----------------------------------------------------------------------------
(* The tree *)

\* A non-empty set of naturals has a least element.
LEMMA LeastNat ==
  ASSUME NEW S \in SUBSET Nat, S # {}
  PROVE  \E n \in S : \A m \in S : n <= m
<1> DEFINE R == OpToRel(<, Nat)
<1>1. IsWellFoundedOn(R, Nat)
  BY NatLessThanWellFounded
<1>2. \A x, y \in Nat : <<x, y>> \in R <=> x < y
  BY DEF OpToRel
<1> HIDE DEF R
<1>3. \E x \in S : \A y \in S : ~(<<y, x>> \in R)
  BY <1>1, WFMin
<1>4. PICK n \in S : \A y \in S : ~(<<y, n>> \in R)
  BY <1>3
<1>5. \A y \in S : ~(y < n)
  BY <1>2, <1>4
<1>6. QED
  BY <1>5

\* What holds of 0, and of a number when of the one before, holds up to n.
LEMMA UpTo ==
  ASSUME NEW n \in Nat, NEW Good, 0 \in Good,
         \A k \in 0..n : k < n /\ k \in Good => k + 1 \in Good
  PROVE  \A k \in 0..n : k \in Good
<1> SUFFICES ASSUME NEW j \in 0..n, j \notin Good PROVE FALSE
  OBVIOUS
<1> DEFINE Bad == {k \in 0..n : k \notin Good}
<1>1. Bad \in SUBSET Nat /\ Bad # {}
  OBVIOUS
<1>2. PICK k \in Bad : \A m \in Bad : k <= m
  BY <1>1, LeastNat
<1>3. k \in 0..n /\ k \notin Good /\ k # 0
  BY <1>2
<1>4. k - 1 \in 0..n /\ k - 1 \in Good
  BY <1>2, <1>3
<1>5. k - 1 + 1 \in Good
  BY <1>3, <1>4
<1>6. QED
  BY <1>3, <1>5

\* A function may be applied again and again.
Iterates(f, F, X, x, n) ==
  f \in [0..n -> X] /\ f[0] = x /\ \A k \in 1..n : f[k] = F[f[k - 1]]

LEMMA Iteration ==
  ASSUME NEW n \in Nat, NEW X, NEW x \in X, NEW F \in [X -> X]
  PROVE  \E f : Iterates(f, F, X, x, n)
<1> DEFINE Applied(f, k) == f[0] = x /\ \A i \in 1..k : f[i] = F[f[i - 1]]
           Good == {k \in 0..n : \E f \in [0..k -> X] : Applied(f, k)}
<1>1. 0 \in Good
  <2> DEFINE g == [i \in 0..0 |-> x]
  <2>1. g \in [0..0 -> X] /\ g[0] = x
    OBVIOUS
  <2> HIDE DEF g
  <2>2. \E f \in [0..0 -> X] : Applied(f, 0)
    BY <2>1
  <2>3. 0 \in 0..n
    OBVIOUS
  <2> HIDE DEF Applied
  <2>4. QED
    BY <2>2, <2>3
<1>2. ASSUME NEW k \in 0..n, k < n, k \in Good PROVE k + 1 \in Good
  <2>1. PICK f \in [0..k -> X] : Applied(f, k)
    BY <1>2
  <2> DEFINE g == [i \in 0..(k + 1) |-> IF i = k + 1 THEN F[f[k]] ELSE f[i]]
  <2>2. F[f[k]] \in X
    OBVIOUS
  <2>3. g \in [0..(k + 1) -> X]
    BY <2>2
  <2>4. g[0] = x
    BY <2>1
  <2>5. ASSUME NEW i \in 1..(k + 1) PROVE g[i] = F[g[i - 1]]
    <3>1. i - 1 \in 0..(k + 1) /\ i - 1 # k + 1 /\ g[i - 1] = f[i - 1]
      OBVIOUS
    <3>2. CASE i = k + 1
      BY <3>1, <3>2
    <3>3. CASE i # k + 1
      BY <2>1, <3>1, <3>3
    <3>4. QED
      BY <3>2, <3>3
  <2> HIDE DEF g
  <2>6. \E h \in [0..(k + 1) -> X] : Applied(h, k + 1)
    BY <2>3, <2>4, <2>5
  <2> HIDE DEF Applied
  <2>7. k + 1 \in 0..n
    BY <1>2
  <2>8. QED
    BY <2>6, <2>7
<1> HIDE DEF Good
<1>3. n \in Good
  BY <1>1, <1>2, UpTo
<1>4. QED
  BY <1>3 DEF Good, Iterates

\* No chain is longer than there are agents.
Size == Cardinality(Agents)

\* The levels the recursive query goes through.
LEMMA LevelsAre ==
  ASSUME NEW root \in known
  PROVE  /\ Size \in Nat
         /\ Levels(root)[0] = {root}
         /\ \A n \in 1..Size : Levels(root)[n] = Below(Levels(root)[n - 1])
         /\ \A n \in 0..Size : Levels(root)[n] \subseteq known
<1>1. Size \in Nat
  BY NetworkAssumption, FS_CardinalityType DEF Size
<1> DEFINE F == [S \in SUBSET known |-> Below(S)]
           Solves(level) == level = [n \in 0..Cardinality(Agents) |->
             IF n = 0 THEN {root} ELSE Below(level[n - 1])]
<1>2. /\ {root} \in SUBSET known /\ F \in [SUBSET known -> SUBSET known]
      /\ \A S \in SUBSET known : F[S] = Below(S)
  BY DEF Below
<1> HIDE DEF F
<1>3. PICK f : Iterates(f, F, SUBSET known, {root}, Size)
  BY <1>1, <1>2, Iteration
<1>4. Solves(f)
  <2>1. \A n \in 1..Size : n - 1 \in 0..Size /\ f[n] = Below(f[n - 1])
    BY <1>1, <1>2, <1>3 DEF Iterates
  <2>2. f = [n \in 0..Size |-> IF n = 0 THEN {root} ELSE Below(f[n - 1])]
    BY <1>1, <1>3, <2>1 DEF Iterates
  <2>3. QED
    BY <2>2 DEF Size
<1>5. Levels(root) = CHOOSE level : Solves(level)
  BY DEF Levels
<1>6. Solves(Levels(root))
  <2> HIDE DEF Solves
  <2>1. QED
    BY <1>4, <1>5
<1>7. /\ Levels(root)[0] = {root}
      /\ \A n \in 1..Size : Levels(root)[n] = Below(Levels(root)[n - 1])
  <2>1. Levels(root) = [n \in 0..Size |-> IF n = 0 THEN {root} ELSE Below(Levels(root)[n - 1])]
    BY <1>6 DEF Size
  <2>2. 0 \in 0..Size /\ \A n \in 1..Size : n \in 0..Size /\ n # 0
    BY <1>1
  <2>3. QED
    BY <2>1, <2>2
<1>8. \A n \in 0..Size : Levels(root)[n] \subseteq known
  BY <1>1, <1>7 DEF Below
<1>9. QED
  BY <1>1, <1>7, <1>8

\* The upline of an agent, if any, and the chain from an agent upwards.
Upline(b) == IF b = NoAgent THEN NoAgent ELSE row[b].upline

Chain(a) ==
  LET up[n \in 0..Cardinality(Agents)] ==
        IF n = 0 THEN a ELSE IF up[n - 1] = NoAgent THEN NoAgent ELSE row[up[n - 1]].upline
  IN up

LEMMA ChainIs ==
  ASSUME TypeOK, NEW a \in Agents
  PROVE  /\ Chain(a)[0] = a
         /\ \A n \in 1..Size : Chain(a)[n] = Upline(Chain(a)[n - 1])
         /\ \A root : LeadsTo(a, root) <=> \E n \in 0..Size : Chain(a)[n] = root
<1>1. Size \in Nat
  BY NetworkAssumption, FS_CardinalityType DEF Size
<1> DEFINE X == Agents \cup {NoAgent}
           F == [b \in X |-> Upline(b)]
           Solves(up) == up = [n \in 0..Cardinality(Agents) |->
             IF n = 0 THEN a ELSE IF up[n - 1] = NoAgent THEN NoAgent ELSE row[up[n - 1]].upline]
<1>2. a \in X /\ F \in [X -> X] /\ \A b \in X : F[b] = Upline(b)
  BY DEF Upline, TypeOK, Columns
<1> HIDE DEF X, F
<1>3. PICK f : Iterates(f, F, X, a, Size)
  BY <1>1, <1>2, Iteration
<1>4. Solves(f)
  <2>1. \A n \in 1..Size : n - 1 \in 0..Size /\ f[n] = Upline(f[n - 1])
    BY <1>1, <1>2, <1>3 DEF Iterates
  <2>2. f = [n \in 0..Size |->
          IF n = 0 THEN a ELSE IF f[n - 1] = NoAgent THEN NoAgent ELSE row[f[n - 1]].upline]
    BY <1>1, <1>3, <2>1 DEF Upline, Iterates
  <2>3. QED
    BY <2>2 DEF Size
<1>5. Chain(a) = CHOOSE up : Solves(up)
  BY DEF Chain
<1>6. Solves(Chain(a))
  <2> HIDE DEF Solves
  <2>1. QED
    BY <1>4, <1>5
<1>7. Chain(a) = [n \in 0..Size |->
        IF n = 0 THEN a
        ELSE IF Chain(a)[n - 1] = NoAgent THEN NoAgent ELSE row[Chain(a)[n - 1]].upline]
  BY <1>6 DEF Size
<1>8. \A root : LeadsTo(a, root) <=> \E n \in 0..Size : Chain(a)[n] = root
  BY DEF LeadsTo, Chain, Size
<1>9. QED
  BY <1>1, <1>7, <1>8 DEF Upline

\* The chain of an agent goes on with the chain of the upline, or ends.
LEMMA ChainGoesOn ==
  ASSUME TypeOK, NEW a \in Agents, NEW n \in 0..Size, n < Size
  PROVE  Chain(a)[n + 1] = IF row[a].upline = NoAgent THEN NoAgent ELSE Chain(row[a].upline)[n]
<1>1. Size \in Nat
  BY NetworkAssumption, FS_CardinalityType DEF Size
<1> DEFINE b == row[a].upline
           rest(k) == IF b = NoAgent THEN NoAgent ELSE Chain(b)[k]
           Good == {k \in 0..Size : k < Size => Chain(a)[k + 1] = rest(k)}
<1>2. /\ Chain(a)[0] = a
      /\ \A k \in 1..Size : Chain(a)[k] = Upline(Chain(a)[k - 1])
  BY ChainIs
<1>3. b \in Agents \cup {NoAgent} /\ a # NoAgent
  BY NetworkAssumption DEF TypeOK, Columns
<1>4. b # NoAgent =>
        Chain(b)[0] = b /\ \A k \in 1..Size : Chain(b)[k] = Upline(Chain(b)[k - 1])
  BY <1>3, ChainIs
<1>5. 0 \in Good
  <2>1. ASSUME 0 < Size PROVE Chain(a)[1] = rest(0)
    <3>1. 1 \in 1..Size
      BY <1>1, <2>1
    <3>2. Chain(a)[1] = Upline(Chain(a)[1 - 1])
      BY <1>2, <3>1
    <3>3. Chain(a)[1] = Upline(a)
      BY <1>2, <3>2
    <3>4. QED
      BY <1>3, <1>4, <3>3 DEF Upline
  <2>2. 0 \in 0..Size
    BY <1>1
  <2> HIDE DEF rest
  <2>3. QED
    BY <2>1, <2>2
<1>6. ASSUME NEW k \in 0..Size, k < Size, k \in Good PROVE k + 1 \in Good
  <2>1. k + 1 \in 0..Size /\ k + 1 \in 1..Size /\ k + 1 - 1 = k
    BY <1>1, <1>6
  <2>2. ASSUME k + 1 < Size PROVE Chain(a)[k + 1 + 1] = rest(k + 1)
    <3>1. k + 1 + 1 \in 1..Size /\ k + 1 + 1 - 1 = k + 1
      BY <1>1, <2>2
    <3>2. Chain(a)[k + 1 + 1] = Upline(Chain(a)[k + 1])
      BY <1>2, <3>1
    <3>3. Chain(a)[k + 1] = rest(k)
      BY <1>6
    <3>4. Upline(rest(k)) = rest(k + 1)
      BY <1>4, <2>1 DEF Upline
    <3>5. QED
      BY <3>2, <3>3, <3>4
  <2> HIDE DEF rest
  <2>3. QED
    BY <2>1, <2>2
<1> HIDE DEF Good
<1>7. n \in Good
  BY <1>1, <1>5, <1>6, UpTo
<1>8. QED
  BY <1>7 DEF Good

\* Uplines and referrers are stored agents.
UplinesStored ==
  /\ \A a \in Agents : row[a].upline \in known \cup {NoAgent}
  /\ \A i \in DOMAIN apps : apps[i].agent \in known

LEMMA UplinesStoredInit == Init => UplinesStored
  BY DEF Init, UplinesStored, NewAgent

LEMMA UplinesStoredNext ==
  TypeOK /\ FormatInv /\ LinksSound /\ UplinesStored /\ [Next]_vars => UplinesStored'
<1> SUFFICES ASSUME TypeOK, FormatInv, LinksSound, UplinesStored, [Next]_vars
             PROVE  UplinesStored'
  OBVIOUS
<1>1. UplineStep
  BY UplineNext
<1>2. known \subseteq known'
  BY DEF Next, vars, OpenProfile, OpenOnboarding, TestPhone, FindReferrer, Save, ImportClient, CreateImported,
         Submit
<1>3. \A a \in Agents : row'[a].upline \in known' \cup {NoAgent}
  <2>1. SUFFICES ASSUME NEW a \in Agents PROVE row'[a].upline \in known' \cup {NoAgent}
    OBVIOUS
  <2>2. CASE row'[a].upline = row[a].upline
    BY <1>2, <2>2 DEF UplinesStored
  <2>3. CASE row'[a].upline # row[a].upline
    <3>1. PICK h \in Handlers : BroughtLast(row'[a].upline, req[h].new.phone, req[h].read)
      BY <1>1, <2>3 DEF UplineStep
    <3>2. req[h].read \in Nat /\ req[h].read <= Len(apps)
      BY DEF LinksSound, TypeOK, Requests
    <3>3. PICK i \in 1..req[h].read :
            apps[i] = [agent |-> row'[a].upline, phone |-> req[h].new.phone]
      BY <3>1 DEF BroughtLast
    <3>4. i \in DOMAIN apps /\ apps[i].agent = row'[a].upline
      BY <3>2, <3>3 DEF TypeOK
    <3>5. QED
      BY <1>2, <3>4 DEF UplinesStored
  <2>4. QED
    BY <2>2, <2>3
<1>4. \A i \in DOMAIN apps' : apps'[i].agent \in known'
  <2>1. CASE UNCHANGED apps
    BY <1>2, <2>1 DEF UplinesStored
  <2>2. ASSUME NEW a \in Agents, NEW p \in Phones, Submit(a, p)
        PROVE  \A i \in DOMAIN apps' : apps'[i].agent \in known'
    <3>1. a \in known /\ apps' = Append(apps, [agent |-> a, phone |-> p])
      BY <2>2 DEF Submit
    <3>2. \A i \in DOMAIN apps' : (i \in DOMAIN apps /\ apps'[i] = apps[i]) \/ apps'[i].agent = a
      BY <3>1 DEF TypeOK
    <3>3. QED
      BY <1>2, <3>1, <3>2 DEF UplinesStored
  <2>3. UNCHANGED apps \/ \E a \in Agents, p \in Phones : Submit(a, p)
    BY DEF Next, vars, OpenProfile, OpenOnboarding, TestPhone, FindReferrer, Save, ImportClient, CreateImported
  <2>4. QED
    BY <2>1, <2>2, <2>3
<1>5. QED
  BY <1>3, <1>4 DEF UplinesStored

\* On a level of the downline are those whose chain reaches the root there.
LEMMA LevelsAreChains ==
  ASSUME TypeOK, UplinesStored, NEW root \in known, NEW n \in 0..Size, NEW a \in known
  PROVE  a \in Levels(root)[n] <=> Chain(a)[n] = root
<1> DEFINE Good == {k \in 0..Size : \A b \in known : b \in Levels(root)[k] <=> Chain(b)[k] = root}
<1>1. /\ Size \in Nat /\ Levels(root)[0] = {root}
      /\ \A k \in 1..Size : Levels(root)[k] = Below(Levels(root)[k - 1])
      /\ known \subseteq Agents /\ NoAgent \notin Agents
  BY LevelsAre, NetworkAssumption DEF TypeOK
<1>2. 0 \in Good
  <2>1. \A b \in known : Chain(b)[0] = b
    BY <1>1, ChainIs
  <2>2. QED
    BY <1>1, <2>1
<1>3. ASSUME NEW k \in 0..Size, k < Size, k \in Good PROVE k + 1 \in Good
  <2>1. k + 1 \in 0..Size /\ k + 1 \in 1..Size /\ k + 1 - 1 = k
    BY <1>1, <1>3
  <2>2. Levels(root)[k + 1] = Below(Levels(root)[k])
    BY <1>1, <2>1
  <2>3. ASSUME NEW b \in known PROVE b \in Levels(root)[k + 1] <=> Chain(b)[k + 1] = root
    <3>1. Chain(b)[k + 1] = IF row[b].upline = NoAgent THEN NoAgent ELSE Chain(row[b].upline)[k]
      BY <1>1, <1>3, ChainGoesOn
    <3>2. row[b].upline \in known \cup {NoAgent}
      BY <1>1 DEF UplinesStored
    <3>3. b \in Levels(root)[k + 1] <=> row[b].upline \in Levels(root)[k]
      BY <2>2 DEF Below
    <3>4. CASE row[b].upline = NoAgent
      <4>1. NoAgent \notin Levels(root)[k]
        BY <1>1, LevelsAre
      <4>2. QED
        BY <1>1, <3>1, <3>3, <3>4, <4>1
    <3>5. CASE row[b].upline \in known
      BY <1>1, <1>3, <3>1, <3>3, <3>5
    <3>6. QED
      BY <3>2, <3>4, <3>5
  <2>4. QED
    BY <2>1, <2>3
<1> HIDE DEF Good
<1>4. n \in Good
  BY <1>1, <1>2, <1>3, UpTo
<1>5. QED
  BY <1>4 DEF Good

\* A downline that ends does not come back to its root.
LEMMA RootNotBelow ==
  ASSUME NEW root \in known, Ends(root), NEW d \in 1..Size
  PROVE  root \notin Levels(root)[d]
<1> SUFFICES ASSUME root \in Levels(root)[d] PROVE FALSE
  OBVIOUS
<1> DEFINE L == Levels(root)
           Empty == {k \in 0..Size : L[k] = {}}
<1>1. /\ Size \in Nat /\ L[0] = {root} /\ L[Size] = {}
      /\ \A k \in 1..Size : L[k] = Below(L[k - 1])
  BY LevelsAre DEF Ends, Size
<1> HIDE DEF L
<1>2. \A k \in 0..(Size - d) : L[k] \subseteq L[k + d]
  <2> DEFINE Good == {k \in 0..(Size - d) : L[k] \subseteq L[k + d]}
  <2>1. 0 \in Good
    BY <1>1 DEF L
  <2>2. ASSUME NEW k \in 0..(Size - d), k < Size - d, k \in Good PROVE k + 1 \in Good
    <3>1. k + 1 \in 1..Size /\ k + 1 + d \in 1..Size /\ k + 1 - 1 = k /\ k + 1 + d - 1 = k + d
      BY <1>1, <2>2
    <3>2. L[k + 1] = Below(L[k]) /\ L[k + 1 + d] = Below(L[k + d])
      BY <1>1, <3>1
    <3>3. L[k + 1] \subseteq L[k + 1 + d]
      BY <2>2, <3>2 DEF Below
    <3>4. k + 1 \in 0..(Size - d)
      BY <1>1, <2>2
    <3>5. QED
      BY <3>3, <3>4
  <2>3. Size - d \in Nat
    BY <1>1
  <2> HIDE DEF Good
  <2>4. \A k \in 0..(Size - d) : k \in Good
    BY <2>1, <2>2, <2>3, UpTo
  <2>5. QED
    BY <2>4 DEF Good
<1>3. Empty \in SUBSET Nat /\ Size \in Empty
  BY <1>1
<1>4. PICK k \in Empty : \A j \in Empty : k <= j
  BY <1>3, LeastNat
<1>5. k \in 1..Size /\ L[k] = {} /\ k - 1 \notin Empty
  BY <1>1, <1>4
<1>6. \A i \in 0..(Size - k) : L[k + i] = {}
  <2> DEFINE Good == {i \in 0..(Size - k) : L[k + i] = {}}
  <2>1. 0 \in Good
    BY <1>1, <1>5
  <2>2. ASSUME NEW i \in 0..(Size - k), i < Size - k, i \in Good PROVE i + 1 \in Good
    <3>1. k + (i + 1) \in 1..Size /\ k + (i + 1) - 1 = k + i
      BY <1>1, <1>5, <2>2
    <3>2. L[k + (i + 1)] = Below(L[k + i])
      BY <1>1, <3>1
    <3>3. L[k + (i + 1)] = {}
      BY <2>2, <3>2 DEF Below
    <3>4. i + 1 \in 0..(Size - k)
      BY <1>1, <1>5, <2>2
    <3>5. QED
      BY <3>3, <3>4
  <2>3. Size - k \in Nat
    BY <1>1, <1>5
  <2> HIDE DEF Good
  <2>4. \A i \in 0..(Size - k) : i \in Good
    BY <2>1, <2>2, <2>3, UpTo
  <2>5. QED
    BY <2>4 DEF Good
<1>7. Size - d \in Empty
  <2>1. Size - d \in 0..(Size - d) /\ Size - d + d = Size /\ Size - d \in 0..Size
    BY <1>1
  <2>2. L[Size - d] \subseteq L[Size]
    BY <1>2, <2>1
  <2>3. QED
    BY <1>1, <2>1, <2>2
<1>8. k <= Size - d
  BY <1>4, <1>7
<1>9. L[k - 1] \subseteq L[k - 1 + d]
  BY <1>1, <1>2, <1>5, <1>8
<1>10. d - 1 \in 0..(Size - k) /\ k + (d - 1) = k - 1 + d
  BY <1>1, <1>5, <1>8
<1>11. L[k - 1 + d] = {}
  BY <1>6, <1>10
<1>12. k - 1 \in Empty
  BY <1>1, <1>5, <1>9, <1>11
<1>13. QED
  BY <1>5, <1>12

\* Below a root that is not among his own downline nobody is on two levels.
LEMMA LevelsApart ==
  ASSUME NEW root \in known, \A j \in 1..Size : root \notin Levels(root)[j],
         NEW n \in 0..Size, NEW m \in 0..Size, n < m
  PROVE  Levels(root)[n] \cap Levels(root)[m] = {}
<1> DEFINE L == Levels(root)
           Good == {k \in 0..Size : \A j \in 0..Size : k < j => L[k] \cap L[j] = {}}
<1>1. /\ Size \in Nat /\ L[0] = {root}
      /\ \A k \in 1..Size : L[k] = Below(L[k - 1])
  BY LevelsAre
<1>2. \A j \in 1..Size : root \notin L[j]
  OBVIOUS
<1> HIDE DEF L
<1>3. 0 \in Good
  BY <1>1, <1>2
<1>4. ASSUME NEW k \in 0..Size, k < Size, k \in Good PROVE k + 1 \in Good
  <2>1. k + 1 \in 0..Size /\ k + 1 \in 1..Size /\ k + 1 - 1 = k
    BY <1>1, <1>4
  <2>2. ASSUME NEW j \in 0..Size, k + 1 < j PROVE L[k + 1] \cap L[j] = {}
    <3>1. j - 1 \in 0..Size /\ k < j - 1 /\ j \in 1..Size
      BY <1>1, <2>2
    <3>2. L[k] \cap L[j - 1] = {}
      BY <1>4, <3>1
    <3>3. L[k + 1] = Below(L[k]) /\ L[j] = Below(L[j - 1])
      BY <1>1, <2>1, <3>1
    <3>4. QED
      BY <3>2, <3>3 DEF Below
  <2>3. QED
    BY <2>1, <2>2
<1> HIDE DEF Good
<1>5. n \in Good
  BY <1>1, <1>3, <1>4, UpTo
<1>6. QED
  BY <1>5 DEF Good, L

\* The tree of a downline that ends is the downline.
LEMMA TreeIsDownline ==
  ASSUME TypeOK, UplinesStored, NEW root \in known, Ends(root)
  PROVE  LET rows == DescendantRows(root)
             shown == {r.id : r \in rows}
         IN /\ shown = {a \in known : LeadsTo(a, root)}
            /\ Cardinality(rows) = Cardinality(shown)
            /\ ChildPairs(rows) = {<<row[a].upline, a>> : a \in shown \ {root}}
<1> DEFINE L == Levels(root)
           RowAt(a, n) == [id |-> a, depth |-> n, parent |-> row[a].upline]
           rows == DescendantRows(root)
           shown == {r.id : r \in rows}
<1>1. /\ Size \in Nat /\ L[0] = {root}
      /\ \A k \in 1..Size : L[k] = Below(L[k - 1])
      /\ \A k \in 0..Size : L[k] \subseteq known
      /\ known \subseteq Agents /\ NoAgent \notin Agents
  BY LevelsAre, NetworkAssumption DEF TypeOK
<1>2. rows = {RootRow(root)} \cup UNION {{RowAt(a, n) : a \in L[n]} : n \in 1..Size}
  BY DEF DescendantRows, Size
<1>3. \A r : r \in rows <=> r = RootRow(root) \/ \E n \in 1..Size : \E a \in L[n] : r = RowAt(a, n)
  BY <1>2
<1>4. \A n, m \in 0..Size : n < m => L[n] \cap L[m] = {}
  BY RootNotBelow, LevelsApart
<1> HIDE DEF L, rows
<1>5. RootRow(root).id = root /\ RootRow(root).parent = NoAgent
  BY DEF RootRow
<1>6. \A a : a \in shown <=> \E n \in 0..Size : a \in L[n]
  <2>1. \A a : a \in shown <=> a = root \/ \E n \in 1..Size : a \in L[n]
    <3>1. ASSUME NEW a, a \in shown PROVE a = root \/ \E n \in 1..Size : a \in L[n]
      BY <1>3, <1>5, <3>1
    <3>2. root \in shown
      BY <1>3, <1>5
    <3>3. ASSUME NEW a, NEW n \in 1..Size, a \in L[n] PROVE a \in shown
      <4>1. RowAt(a, n) \in rows /\ RowAt(a, n).id = a
        BY <1>3, <3>3
      <4>2. QED
        BY <4>1
    <3>4. QED
      BY <3>1, <3>2, <3>3
  <2>2. \A a : a \in L[0] <=> a = root
    BY <1>1
  <2>3. 0 \in 0..Size /\ \A n \in 0..Size : n = 0 \/ n \in 1..Size
    BY <1>1
  <2>4. \A n \in 1..Size : n \in 0..Size
    BY <1>1
  <2> HIDE DEF shown
  <2>5. QED
    BY <2>1, <2>2, <2>3, <2>4
<1>7. shown = {a \in known : LeadsTo(a, root)}
  <2>1. ASSUME NEW a \in known
        PROVE  LeadsTo(a, root) <=> \E n \in 0..Size : a \in L[n]
    <3>1. LeadsTo(a, root) <=> \E n \in 0..Size : Chain(a)[n] = root
      BY <1>1, ChainIs
    <3>2. \A n \in 0..Size : a \in L[n] <=> Chain(a)[n] = root
      BY LevelsAreChains DEF L
    <3>3. QED
      BY <3>1, <3>2
  <2> HIDE DEF shown
  <2>2. \A a : a \in shown => a \in known
    BY <1>1, <1>6
  <2>3. QED
    BY <1>6, <2>1, <2>2
<1>8. Cardinality(rows) = Cardinality(shown)
  <2> DEFINE f == [r \in rows |-> r.id]
  <2>1. f \in Surjection(rows, shown)
    BY DEF Surjection
  <2>2. ASSUME NEW r \in rows, NEW s \in rows, r.id = s.id PROVE r = s
    <3>1. ASSUME NEW n \in 1..Size, NEW a \in L[n] PROVE a # root /\ RowAt(a, n).id = a
      <4>1. L[0] \cap L[n] = {}
        BY <1>1, <1>4
      <4>2. QED
        BY <1>1, <4>1
    <3>2. CASE r = RootRow(root) \/ s = RootRow(root)
      BY <1>3, <1>5, <2>2, <3>1, <3>2
    <3>3. CASE r # RootRow(root) /\ s # RootRow(root)
      <4>1. PICK n \in 1..Size : \E a \in L[n] : r = RowAt(a, n)
        BY <1>3, <3>3
      <4>2. PICK m \in 1..Size : \E a \in L[m] : s = RowAt(a, m)
        BY <1>3, <3>3
      <4>3. PICK a \in L[n] : r = RowAt(a, n)
        BY <4>1
      <4>4. PICK b \in L[m] : s = RowAt(b, m)
        BY <4>2
      <4>5. a = b
        BY <2>2, <3>1, <4>3, <4>4
      <4>6. n = m
        <5>1. n \in 0..Size /\ m \in 0..Size /\ n \in Int /\ m \in Int
          BY <1>1
        <5>2. a \in L[n] \cap L[m]
          BY <4>5
        <5>3. ~(n < m) /\ ~(m < n)
          BY <1>4, <5>1, <5>2
        <5>4. QED
          BY <5>1, <5>3
      <4>7. QED
        BY <4>3, <4>4, <4>5, <4>6
    <3>4. QED
      BY <3>2, <3>3
  <2>3. ExistsBijection(shown, rows)
    <3>1. f \in Bijection(rows, shown)
      BY <2>1, <2>2 DEF Bijection, Injection, IsInjective, Surjection
    <3>2. ExistsBijection(rows, shown)
      BY <3>1 DEF ExistsBijection
    <3>3. QED
      BY <3>2, Fun_ExistsBijSymmetric
  <2>4. IsFiniteSet(shown)
    <3>1. shown \in SUBSET Agents
      BY <1>1, <1>7
    <3>2. QED
      BY <3>1, FS_Subset, NetworkAssumption
  <2> HIDE DEF shown
  <2>5. QED
    BY <2>3, <2>4, FS_Bijection
<1>9. ChildPairs(rows) = {<<row[a].upline, a>> : a \in shown \ {root}}
  <2>1. \A q : q \in ChildPairs(rows) <=>
          \E r \in rows, s \in rows : s.parent = r.id /\ q = <<r.id, s.id>>
    BY DEF ChildPairs, Children
  <2>2. ASSUME NEW r \in rows, NEW s \in rows, s.parent = r.id
        PROVE  s.id \in shown \ {root} /\ r.id = row[s.id].upline
    <3>1. r.id \in Agents
      BY <1>1, <1>6
    <3>2. s # RootRow(root)
      BY <1>1, <1>5, <2>2, <3>1
    <3>3. PICK n \in 1..Size : \E a \in L[n] : s = RowAt(a, n)
      BY <1>3, <3>2
    <3>4. PICK a \in L[n] : s = RowAt(a, n)
      BY <3>3
    <3>5. L[0] \cap L[n] = {}
      BY <1>1, <1>4
    <3>6. QED
      BY <1>1, <2>2, <3>4, <3>5
  <2>3. ASSUME NEW a \in shown, a # root
        PROVE  \E r \in rows, s \in rows : s.parent = r.id /\ r.id = row[a].upline /\ s.id = a
    <3>1. PICK n \in 0..Size : a \in L[n]
      BY <1>6
    <3>2. n \in 1..Size /\ n - 1 \in 0..Size
      BY <1>1, <2>3, <3>1
    <3>3. RowAt(a, n) \in rows /\ RowAt(a, n).id = a /\ RowAt(a, n).parent = row[a].upline
      BY <1>3, <3>1, <3>2
    <3>4. row[a].upline \in L[n - 1]
      BY <1>1, <3>1, <3>2 DEF Below
    <3>5. row[a].upline \in shown
      BY <1>6, <3>2, <3>4
    <3>6. PICK r \in rows : r.id = row[a].upline
      BY <3>5
    <3>7. QED
      BY <3>3, <3>6
  <2>4. \A q : q \in ChildPairs(rows) <=> \E a \in shown \ {root} : q = <<row[a].upline, a>>
    <3>1. ASSUME NEW q, q \in ChildPairs(rows)
          PROVE  \E a \in shown \ {root} : q = <<row[a].upline, a>>
      BY <2>1, <2>2, <3>1
    <3>2. ASSUME NEW a \in shown \ {root}
          PROVE  <<row[a].upline, a>> \in ChildPairs(rows)
      <4>1. PICK r \in rows, s \in rows : s.parent = r.id /\ r.id = row[a].upline /\ s.id = a
        BY <2>3
      <4>2. QED
        BY <2>1, <4>1
    <3>3. QED
      BY <3>1, <3>2
  <2> HIDE DEF shown
  <2>5. QED
    BY <2>4
<1>10. QED
  BY <1>7, <1>8, <1>9 DEF rows

\* Where the downline ends, its tree shows everyone whose chain of uplines leads
\* to the root, each once and under his upline (get_descendant_tree,
\* build_network_tree).
THEOREM TreesCorrect == Spec => []TreeShowsDownline
<1>1. TypeOK /\ UplinesStored => TreeShowsDownline
  BY TreeIsDownline DEF TreeShowsDownline
<1>2. QED
  BY <1>1, FormatInit, FormatNext, LinksInit, LinksNext, UplinesStoredInit, UplinesStoredNext, TypeCorrect, PTL DEF Spec

\* The partner is in his own downline.
OwnUpline(root) == \E n \in 1..Size : root \in Levels(root)[n]

\* More levels than partners need a partner on two of them.
LEMMA EndsOutsideCycles ==
  ASSUME TypeOK, NEW root \in known
  PROVE  Ends(root) <=> ~OwnUpline(root)
<1> DEFINE L == Levels(root)
<1>1. Ends(root) => ~OwnUpline(root)
  BY RootNotBelow DEF OwnUpline
<1>2. ASSUME ~OwnUpline(root), ~Ends(root) PROVE FALSE
  <2>1. /\ Size \in Nat /\ L[0] = {root} /\ L[Size] # {}
        /\ \A k \in 1..Size : L[k] = Below(L[k - 1])
        /\ \A k \in 0..Size : L[k] \subseteq Agents
        /\ IsFiniteSet(Agents)
    BY <1>2, LevelsAre, NetworkAssumption DEF Ends, Size, TypeOK
  <2>2. \A n, m \in 0..Size : n < m => L[n] \cap L[m] = {}
    BY <1>2, LevelsApart DEF OwnUpline
  <2> HIDE DEF L
  <2>3. \A k \in 0..Size : L[k] # {}
    <3> DEFINE Good == {k \in 0..Size : L[Size - k] # {}}
    <3>1. 0 \in Good
      BY <2>1
    <3>2. ASSUME NEW k \in 0..Size, k < Size, k \in Good PROVE k + 1 \in Good
      <4>1. Size - k \in 1..Size /\ Size - k - 1 = Size - (k + 1) /\ k + 1 \in 0..Size
        BY <2>1, <3>2
      <4>2. L[Size - k] = Below(L[Size - (k + 1)])
        BY <2>1, <4>1
      <4>3. L[Size - (k + 1)] # {}
        BY <3>2, <4>2 DEF Below
      <4>4. QED
        BY <4>1, <4>3
    <3> HIDE DEF Good
    <3>3. \A k \in 0..Size : k \in Good
      BY <2>1, <3>1, <3>2, UpTo
    <3>4. \A k \in 0..Size : Size - k \in 0..Size /\ Size - (Size - k) = k
      BY <2>1
    <3>5. QED
      BY <3>3, <3>4 DEF Good
  <2> DEFINE f == [k \in 0..Size |-> CHOOSE a \in Agents : a \in L[k]]
  <2>4. \A k \in 0..Size : f[k] \in Agents /\ f[k] \in L[k]
    BY <2>1, <2>3
  <2>5. f \in [0..Size -> Agents]
    BY <2>4
  <2> HIDE DEF f
  <2>6. IsFiniteSet(0..Size) /\ Cardinality(0..Size) = Size + 1
    <3>1. IsFiniteSet(0..Size) /\ Cardinality(0..Size) = IF 0 > Size THEN 0 ELSE Size - 0 + 1
      BY <2>1, FS_Interval
    <3>2. QED
      BY <2>1, <3>1
  <2>7. Cardinality(Agents) < Cardinality(0..Size)
    BY <2>1, <2>6 DEF Size
  <2>8. PICK n, m \in 0..Size : n # m /\ f[n] = f[m]
    BY <2>1, <2>5, <2>6, <2>7, FS_PigeonHole
  <2>9. n < m \/ m < n
    BY <2>1, <2>8
  <2>10. QED
    BY <2>2, <2>4, <2>8, <2>9
<1>3. QED
  BY <1>1, <1>2

\* The recursive query runs for ever for those only who are in their own downline:
\* no network is too deep for it (get_descendant_tree).
THEOREM QueryEnds == Spec => [](\A root \in known : Ends(root) <=> ~OwnUpline(root))
<1>1. TypeOK => \A root \in known : Ends(root) <=> ~OwnUpline(root)
  BY EndsOutsideCycles
<1>2. QED
  BY <1>1, TypeCorrect, PTL

=============================================================================
