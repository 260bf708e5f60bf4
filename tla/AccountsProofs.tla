--------------------------- MODULE AccountsProofs ---------------------------
(***************************************************************************)
(* What TLAPS proves of Accounts for every number of browsers, addresses,  *)
(* social accounts, agents and codes.                                      *)
(***************************************************************************)
EXTENDS Accounts, SequenceTheorems, TLAPS

-----------------------------------------------------------------------------
(* Shapes *)

Addresses == Emails \cup {NoEmail}

AgentRows == [email : Addresses, admin : BOOLEAN]

\* A registration belongs to no agent yet, a reset to one of the agents.
CodeRows(I) ==
  {c \in [kind : Kinds, email : Emails, agent : I \cup {0}, tries : Nat, saw : Nat] :
     (c.kind = "register") <=> (c.agent = 0)}

Sessions(I, T) ==
  {c \in [agent : I \cup {0}, admin : I \cup {0}, register : T \cup {0},
          reset : T \cup {0}, change : [email : Addresses, tries : Nat, expired : BOOLEAN]] :
     0 \in {c.agent, c.admin}}

CodeSteps == {"delete", "insert", "mail"}
SocialSteps == {"social", "identity", "link"}

RequestsOf(I, T) ==
  {r \in [at : {"idle"} \cup CodeSteps \cup SocialSteps, kind : Kinds \cup {"none"},
          email : Addresses, agent : I \cup {0}, subject : Subjects \cup {"none"},
          doomed : SUBSET T, saw : T \cup {0}] :
     /\ r.at \in CodeSteps => /\ r.kind \in Kinds /\ r.email \in Emails
                              /\ (r.kind = "register") <=> (r.agent = 0)
     /\ r.at \in SocialSteps => r.subject \in Subjects
     /\ r.at = "link" => r.agent # 0
     /\ r.at = "mail" => r.saw # 0}

TablesOK ==
  /\ agents \in Seq(AgentRows)
  /\ passwords \in Seq(Tokens \cup {0}) /\ Len(passwords) = Len(agents)
  /\ identities \in [Subjects -> Ids \cup {0}]
  /\ blocked \subseteq Ids

CodesOK ==
  /\ codes \in Seq(CodeRows(Ids))
  /\ accepted \in Seq(Nat) /\ Len(accepted) = Len(codes)
  /\ live \subseteq Tokens
  /\ expired \subseteq Tokens

\* The code of a reset in a cookie is a reset's.
CookiesOK ==
  /\ cookie \in [Browsers -> Sessions(Ids, Tokens)]
  /\ \A b \in Browsers : cookie[b].reset # 0 => codes[cookie[b].reset].kind = "reset"

RequestsOK ==
  /\ req \in [Browsers -> RequestsOf(Ids, Tokens)]
  /\ \A b \in Browsers : req[b].at = "mail" => codes[req[b].saw].kind = req[b].kind

Typed == TablesOK /\ CodesOK /\ CookiesOK /\ RequestsOK

\* The shapes imply the type invariant.
LEMMA TypedImpliesTypeOK == Typed => TypeOK
<1> SUFFICES ASSUME Typed PROVE TypeOK
  OBVIOUS
<1>1. agents \in Seq([email : Emails \cup {NoEmail}, admin : BOOLEAN])
  BY DEF Typed, TablesOK, AgentRows, Addresses
<1>2. Ids = 1..Len(agents)
  BY <1>1, LenProperties DEF Ids
<1>3. passwords \in [Ids -> Tokens \cup {0}]
  BY <1>2, LenProperties, ElementOfSeq DEF Typed, TablesOK
<1>4. \A b \in Browsers : cookie[b] \in Sessions(Ids, Tokens)
  BY DEF Typed, CookiesOK
<1>5. \A b \in Browsers :
        /\ cookie[b].agent \in Ids \cup {0}
        /\ cookie[b].admin \in Ids \cup {0}
        /\ 0 \in {cookie[b].agent, cookie[b].admin}
        /\ {cookie[b].register, cookie[b].reset} \subseteq Tokens \cup {0}
  BY <1>4 DEF Sessions
<1>6. QED
  BY <1>1, <1>3, <1>5 DEF Typed, TablesOK, CodesOK, TypeOK

\* Ids and tokens in use are numbers from one on.
LEMMA Numbers ==
  ASSUME TablesOK, CodesOK
  PROVE  /\ Len(agents) \in Nat /\ Ids = 1..Len(agents)
         /\ Len(codes) \in Nat /\ Tokens = 1..Len(codes)
         /\ \A a \in Ids : agents[a] \in AgentRows /\ passwords[a] \in Tokens \cup {0}
         /\ \A t \in Tokens : codes[t] \in CodeRows(Ids) /\ accepted[t] \in Nat
<1>1. /\ Len(agents) \in Nat /\ Ids = 1..Len(agents)
      /\ \A a \in Ids : agents[a] \in AgentRows
  BY LenProperties, ElementOfSeq DEF TablesOK, Ids
<1>2. /\ Len(codes) \in Nat /\ Tokens = 1..Len(codes)
      /\ \A t \in Tokens : codes[t] \in CodeRows(Ids)
  BY LenProperties, ElementOfSeq DEF CodesOK, Tokens
<1>3. \A a \in Ids : passwords[a] \in Tokens \cup {0}
  BY <1>1, LenProperties, ElementOfSeq DEF TablesOK
<1>4. \A t \in Tokens : accepted[t] \in Nat
  BY <1>2, LenProperties, ElementOfSeq DEF CodesOK
<1>5. QED
  BY <1>1, <1>2, <1>3, <1>4

\* The sessions and requests of nobody.
LEMMA EmptyShapes ==
  ASSUME NEW I, NEW T
  PROVE  /\ NoChange \in [email : Addresses, tries : Nat, expired : BOOLEAN]
         /\ SignedOut \in Sessions(I, T)
         /\ SignedOut.agent = 0 /\ SignedOut.admin = 0
         /\ SignedOut.register = 0 /\ SignedOut.reset = 0
         /\ Idle \in RequestsOf(I, T)
         /\ Idle.at = "idle" /\ Idle.agent = 0
<1>1. NoChange \in [email : Addresses, tries : Nat, expired : BOOLEAN]
  BY DEF NoChange, Addresses
<1> HIDE DEF NoChange
<1>2. /\ SignedOut \in Sessions(I, T)
      /\ SignedOut.agent = 0 /\ SignedOut.admin = 0
      /\ SignedOut.register = 0 /\ SignedOut.reset = 0
  BY <1>1 DEF SignedOut, Sessions
<1>3. /\ Idle \in RequestsOf(I, T)
      /\ Idle.at = "idle" /\ Idle.agent = 0
  BY DEF Idle, RequestsOf, CodeSteps, SocialSteps, Addresses
<1>4. QED
  BY <1>1, <1>2, <1>3

\* The initial state has the shapes.
LEMMA InitTyped == Init => Typed
<1> SUFFICES ASSUME Init PROVE Typed
  OBVIOUS
<1>1. TablesOK
  BY DEF Init, TablesOK, Ids, Tokens
<1>2. CodesOK
  BY DEF Init, CodesOK, Ids, Tokens
<1>3. CookiesOK
  BY EmptyShapes DEF Init, CookiesOK
<1>4. RequestsOK
  BY EmptyShapes DEF Init, RequestsOK
<1>5. QED
  BY <1>1, <1>2, <1>3, <1>4 DEF Typed

-----------------------------------------------------------------------------
(* What a step may change *)

\* Agents and codes are never taken away, and a code keeps its kind.
Grows ==
  /\ Ids \subseteq Ids' /\ Tokens \subseteq Tokens'
  /\ \A t \in Tokens : codes'[t].kind = codes[t].kind

\* What fits few agents and codes fits more.
LEMMA ShapesGrow ==
  ASSUME NEW I, NEW J, I \subseteq J, NEW T, NEW U, T \subseteq U
  PROVE  /\ CodeRows(I) \subseteq CodeRows(J)
         /\ Sessions(I, T) \subseteq Sessions(J, U)
         /\ RequestsOf(I, T) \subseteq RequestsOf(J, U)
<1>1. CodeRows(I) \subseteq CodeRows(J)
  BY DEF CodeRows
<1>2. Sessions(I, T) \subseteq Sessions(J, U)
  BY DEF Sessions
<1>3. RequestsOf(I, T) \subseteq RequestsOf(J, U)
  BY DEF RequestsOf
<1>4. QED
  BY <1>1, <1>2, <1>3

\* Cookies that no step writes.
LEMMA CookiesKept ==
  ASSUME CookiesOK, Grows, UNCHANGED cookie
  PROVE  CookiesOK'
<1>1. Sessions(Ids, Tokens) \subseteq Sessions(Ids', Tokens')
  BY ShapesGrow DEF Grows
<1>2. cookie' \in [Browsers -> Sessions(Ids', Tokens')]
  BY <1>1 DEF CookiesOK
<1>3. \A b \in Browsers : cookie[b].reset \in Tokens \cup {0}
  BY DEF CookiesOK, Sessions
<1>4. QED
  BY <1>2, <1>3 DEF CookiesOK, Grows

\* One browser gets another session.
LEMMA CookieSet ==
  ASSUME CookiesOK, Grows, NEW b \in Browsers, NEW c \in Sessions(Ids', Tokens'),
         c.reset # 0 => codes'[c.reset].kind = "reset",
         cookie' = [cookie EXCEPT ![b] = c]
  PROVE  CookiesOK'
<1>1. Sessions(Ids, Tokens) \subseteq Sessions(Ids', Tokens')
  BY ShapesGrow DEF Grows
<1>2. cookie' \in [Browsers -> Sessions(Ids', Tokens')]
  BY <1>1 DEF CookiesOK
<1>3. \A d \in Browsers : cookie[d].reset \in Tokens \cup {0}
  BY DEF CookiesOK, Sessions
<1>4. ASSUME NEW d \in Browsers, cookie'[d].reset # 0
      PROVE  codes'[cookie'[d].reset].kind = "reset"
  <2>1. CASE d = b
    BY <1>4, <2>1 DEF CookiesOK
  <2>2. CASE d # b
    BY <1>3, <1>4, <2>2 DEF CookiesOK, Grows
  <2>3. QED
    BY <2>1, <2>2
<1>5. QED
  BY <1>2, <1>4 DEF CookiesOK

\* Requests that no step writes.
LEMMA RequestsKept ==
  ASSUME RequestsOK, Grows, UNCHANGED req
  PROVE  RequestsOK'
<1>1. RequestsOf(Ids, Tokens) \subseteq RequestsOf(Ids', Tokens')
  BY ShapesGrow DEF Grows
<1>2. req' \in [Browsers -> RequestsOf(Ids', Tokens')]
  BY <1>1 DEF RequestsOK
<1>3. \A b \in Browsers : req[b].at = "mail" => req[b].saw \in Tokens
  BY DEF RequestsOK, RequestsOf
<1>4. QED
  BY <1>2, <1>3 DEF RequestsOK, Grows

\* One browser's request moves on, is opened or answered.
LEMMA RequestSet ==
  ASSUME RequestsOK, Grows, NEW b \in Browsers, NEW r \in RequestsOf(Ids', Tokens'),
         r.at = "mail" => codes'[r.saw].kind = r.kind,
         req' = [req EXCEPT ![b] = r]
  PROVE  RequestsOK'
<1>1. RequestsOf(Ids, Tokens) \subseteq RequestsOf(Ids', Tokens')
  BY ShapesGrow DEF Grows
<1>2. req' \in [Browsers -> RequestsOf(Ids', Tokens')]
  BY <1>1 DEF RequestsOK
<1>3. \A d \in Browsers : req[d].at = "mail" => req[d].saw \in Tokens
  BY DEF RequestsOK, RequestsOf
<1>4. ASSUME NEW d \in Browsers, req'[d].at = "mail"
      PROVE  codes'[req'[d].saw].kind = req'[d].kind
  <2>1. CASE d = b
    BY <1>4, <2>1 DEF RequestsOK
  <2>2. CASE d # b
    BY <1>3, <1>4, <2>2 DEF RequestsOK, Grows
  <2>3. QED
    BY <2>1, <2>2
<1>5. QED
  BY <1>2, <1>4 DEF RequestsOK

\* An answered browser has no request.
LEMMA Answered ==
  ASSUME RequestsOK, Grows, NEW b \in Browsers, Answer(b)
  PROVE  RequestsOK'
  BY EmptyShapes, RequestSet DEF Answer

\* A login clears the session first.
LEMMA LoggedIn ==
  ASSUME CookiesOK, Grows, NEW b \in Browsers, NEW a \in Ids',
         LogIn(b, a) \/ Enter(b, a) \/ cookie' = [cookie EXCEPT ![b] = SignedOut]
  PROVE  CookiesOK'
<1> DEFINE partner == [SignedOut EXCEPT !.agent = a]
           half == [SignedOut EXCEPT !.admin = a]
<1>1. SignedOut \in Sessions(Ids', Tokens') /\ SignedOut.reset = 0
      /\ SignedOut.agent = 0 /\ SignedOut.admin = 0
  BY EmptyShapes
<1>2. partner \in Sessions(Ids', Tokens') /\ partner.reset = 0
  BY <1>1 DEF Sessions
<1>3. half \in Sessions(Ids', Tokens') /\ half.reset = 0
  BY <1>1 DEF Sessions
<1>4. \/ cookie' = [cookie EXCEPT ![b] = partner]
      \/ cookie' = [cookie EXCEPT ![b] = half]
      \/ cookie' = [cookie EXCEPT ![b] = SignedOut]
  BY DEF LogIn, Enter, NextAfterLogin
<1> HIDE DEF partner, half
<1>5. QED
  BY <1>1, <1>2, <1>3, <1>4, CookieSet

\* Steps that write neither agents nor codes.
LEMMA TablesStill ==
  ASSUME TablesOK, CodesOK, UNCHANGED <<agents, passwords, identities, codes, accepted>>,
         blocked' \subseteq Ids, live' \subseteq Tokens, expired' \subseteq Tokens
  PROVE  TablesOK' /\ CodesOK' /\ Grows
  BY DEF TablesOK, CodesOK, Grows, Ids, Tokens

\* Logging in and out.
LEMMA LoginTyped ==
  ASSUME Typed, NEW b \in Browsers,
         \/ \E a \in Ids : Login(b, a)
         \/ Logout(b) \/ Visit(b)
  PROVE  Typed'
<1>1. TablesOK' /\ CodesOK' /\ Grows
  <2>1. UNCHANGED <<agents, passwords, identities, blocked, codes, live, expired, accepted>>
    BY DEF Login, Logout, Visit
  <2>2. QED
    BY <2>1, TablesStill DEF Typed, TablesOK, CodesOK
<1>2. RequestsOK'
  BY <1>1, RequestsKept DEF Typed, Login, Logout, Visit
<1>3. CookiesOK'
  <2>1. ASSUME NEW a \in Ids, Login(b, a) PROVE CookiesOK'
    BY <1>1, <2>1, LoggedIn DEF Typed, Login, Grows
  <2>2. CASE cookie' = [cookie EXCEPT ![b] = SignedOut]
    BY <1>1, <2>2, EmptyShapes, CookieSet DEF Typed
  <2>3. QED
    BY <2>1, <2>2 DEF Logout, Visit
<1>4. QED
  BY <1>1, <1>2, <1>3 DEF Typed

\* Beginning a registration, a reset or a change of the e-mail.
LEMMA BeginTyped ==
  ASSUME Typed, NEW b \in Browsers, NEW e \in Emails,
         BeginRegistration(b, e) \/ BeginReset(b, e) \/ BeginEmailChange(b, e)
  PROVE  Typed'
<1>1. UNCHANGED <<agents, passwords, identities, blocked, codes, live, expired, accepted>>
  BY DEF BeginRegistration, BeginReset, BeginEmailChange
<1>2. TablesOK' /\ CodesOK' /\ Grows
  BY <1>1, TablesStill DEF Typed, TablesOK, CodesOK
<1>3. cookie[b] \in Sessions(Ids', Tokens')
  BY <1>2, ShapesGrow DEF Typed, CookiesOK, Grows
<1>4. cookie[b].reset # 0 => codes'[cookie[b].reset].kind = "reset"
  BY <1>1 DEF Typed, CookiesOK
<1>5. CookiesOK'
  <2>1. CASE UNCHANGED cookie
    BY <1>2, <2>1, CookiesKept DEF Typed
  <2>2. CASE cookie' = [cookie EXCEPT ![b].register = 0]
    <3> DEFINE c == [cookie[b] EXCEPT !.register = 0]
    <3>1. c \in Sessions(Ids', Tokens') /\ c.reset = cookie[b].reset
      BY <1>3 DEF Sessions
    <3>2. cookie' = [cookie EXCEPT ![b] = c]
      BY <2>2
    <3> HIDE DEF c
    <3>3. QED
      BY <1>2, <1>4, <3>1, <3>2, CookieSet DEF Typed
  <2>3. CASE cookie' = [cookie EXCEPT ![b].reset = 0]
    <3> DEFINE c == [cookie[b] EXCEPT !.reset = 0]
    <3>1. c \in Sessions(Ids', Tokens') /\ c.reset = 0
      BY <1>3 DEF Sessions
    <3>2. cookie' = [cookie EXCEPT ![b] = c]
      BY <2>3
    <3> HIDE DEF c
    <3>3. QED
      BY <1>2, <3>1, <3>2, CookieSet DEF Typed
  <2>4. CASE cookie' = [cookie EXCEPT ![b].change = [NoChange EXCEPT !.email = e]]
    <3> DEFINE n == [NoChange EXCEPT !.email = e]
               c == [cookie[b] EXCEPT !.change = n]
    <3>1. n \in [email : Addresses, tries : Nat, expired : BOOLEAN]
      BY EmptyShapes DEF Addresses
    <3> HIDE DEF n
    <3>2. c \in Sessions(Ids', Tokens') /\ c.reset = cookie[b].reset
      BY <1>3, <3>1 DEF Sessions
    <3>3. cookie' = [cookie EXCEPT ![b] = c]
      BY <2>4 DEF n
    <3> HIDE DEF c
    <3>4. QED
      BY <1>2, <1>4, <3>2, <3>3, CookieSet DEF Typed
  <2>5. QED
    BY <2>1, <2>2, <2>3, <2>4 DEF BeginRegistration, BeginReset, BeginEmailChange
<1>6. RequestsOK'
  <2>1. CASE UNCHANGED req
    BY <1>2, <2>1, RequestsKept DEF Typed
  <2>2. Idle \in RequestsOf(Ids', Tokens') /\ Idle.agent = 0
    BY EmptyShapes
  <2>3. CASE req' = [req EXCEPT ![b] =
               [Idle EXCEPT !.at = "delete", !.kind = "register", !.email = e]]
    <3> DEFINE r == [Idle EXCEPT !.at = "delete", !.kind = "register", !.email = e]
    <3>1. r \in RequestsOf(Ids', Tokens') /\ r.at = "delete"
      BY <2>2 DEF RequestsOf, CodeSteps, SocialSteps, Addresses, Kinds
    <3> HIDE DEF r
    <3>2. req' = [req EXCEPT ![b] = r]
      BY <2>3 DEF r
    <3>3. QED
      BY <1>2, <3>1, <3>2, RequestSet DEF Typed
  <2>4. ASSUME NEW a \in Holders(e),
               req' = [req EXCEPT ![b] =
                 [Idle EXCEPT !.at = "delete", !.kind = "reset", !.email = e, !.agent = a]]
        PROVE  RequestsOK'
    <3> DEFINE r == [Idle EXCEPT !.at = "delete", !.kind = "reset", !.email = e, !.agent = a]
    <3>1. a \in Ids' /\ a # 0
      BY <1>2, Numbers DEF Holders, Typed, Grows
    <3>2. r \in RequestsOf(Ids', Tokens') /\ r.at = "delete"
      BY <2>2, <3>1 DEF RequestsOf, CodeSteps, SocialSteps, Addresses, Kinds
    <3> HIDE DEF r
    <3>3. req' = [req EXCEPT ![b] = r]
      BY <2>4 DEF r
    <3>4. QED
      BY <1>2, <3>2, <3>3, RequestSet DEF Typed
  <2>5. QED
    BY <2>1, <2>3, <2>4 DEF BeginRegistration, BeginReset, BeginEmailChange
<1>7. QED
  BY <1>2, <1>5, <1>6 DEF Typed

\* Deleting the old codes and mailing the new one.
LEMMA CodeStepTyped ==
  ASSUME Typed, NEW b \in Browsers, DeleteOld(b) \/ MailCode(b)
  PROVE  Typed'
<1>1. UNCHANGED <<agents, passwords, identities, blocked, codes, live, expired, accepted>>
  BY DEF DeleteOld, MailCode
<1>2. TablesOK' /\ CodesOK' /\ Grows
  BY <1>1, TablesStill DEF Typed, TablesOK, CodesOK
<1>3. Ids' = Ids /\ Tokens' = Tokens
  BY <1>1 DEF Ids, Tokens
<1>4. req[b] \in RequestsOf(Ids, Tokens)
  BY DEF Typed, RequestsOK
<1>5. CASE DeleteOld(b)
  <2> DEFINE D == {t \in live : Replaced(t, req[b])}
             r == [req[b] EXCEPT !.at = "insert", !.saw = Len(codes), !.doomed = D]
  <2>1. D \subseteq Tokens /\ Len(codes) \in Tokens \cup {0}
    BY Numbers DEF Typed, CodesOK
  <2>2. req[b].at = "delete"
    BY <1>5 DEF DeleteOld
  <2>3. req' = [req EXCEPT ![b] = r]
    BY <1>5 DEF DeleteOld
  <2> HIDE DEF D
  <2>4. r \in RequestsOf(Ids, Tokens) /\ r.at = "insert"
    BY <1>4, <2>1, <2>2 DEF RequestsOf, CodeSteps, SocialSteps
  <2> HIDE DEF r
  <2>5. RequestsOK'
    BY <1>2, <1>3, <2>3, <2>4, RequestSet DEF Typed
  <2>6. CookiesOK'
    BY <1>2, <1>5, CookiesKept DEF Typed, DeleteOld
  <2>7. QED
    BY <1>2, <2>5, <2>6 DEF Typed
<1>6. CASE MailCode(b)
  <2>1. RequestsOK'
    BY <1>2, <1>6, Answered DEF Typed, MailCode
  <2>2. /\ req[b].saw \in Tokens
        /\ codes[req[b].saw].kind = req[b].kind
        /\ req[b].kind \in Kinds
    BY <1>4, <1>6 DEF MailCode, Typed, RequestsOK, RequestsOf, CodeSteps
  <2>3. cookie[b] \in Sessions(Ids, Tokens)
    BY DEF Typed, CookiesOK
  <2>4. CookiesOK'
    <3>1. CASE UNCHANGED cookie
      BY <1>2, <3>1, CookiesKept DEF Typed
    <3>2. CASE req[b].kind = "register" /\ cookie' = [cookie EXCEPT ![b].register = req[b].saw]
      <4> DEFINE c == [cookie[b] EXCEPT !.register = req[b].saw]
      <4>1. c \in Sessions(Ids, Tokens) /\ c.reset = cookie[b].reset
        BY <2>2, <2>3 DEF Sessions
      <4>2. cookie' = [cookie EXCEPT ![b] = c]
        BY <3>2
      <4> HIDE DEF c
      <4>3. c.reset # 0 => codes'[c.reset].kind = "reset"
        BY <1>1, <4>1 DEF Typed, CookiesOK
      <4>4. QED
        BY <1>2, <1>3, <4>1, <4>2, <4>3, CookieSet DEF Typed
    <3>3. CASE req[b].kind # "register" /\ cookie' = [cookie EXCEPT ![b].reset = req[b].saw]
      <4> DEFINE c == [cookie[b] EXCEPT !.reset = req[b].saw]
      <4>1. c \in Sessions(Ids, Tokens) /\ c.reset = req[b].saw
        BY <2>2, <2>3 DEF Sessions
      <4>2. cookie' = [cookie EXCEPT ![b] = c]
        BY <3>3
      <4> HIDE DEF c
      <4>3. codes'[c.reset].kind = "reset"
        BY <1>1, <2>2, <3>3, <4>1 DEF Kinds
      <4>4. QED
        BY <1>2, <1>3, <4>1, <4>2, <4>3, CookieSet DEF Typed
    <3>4. QED
      BY <1>6, <3>1, <3>2, <3>3 DEF MailCode
  <2>5. QED
    BY <1>2, <2>1, <2>4 DEF Typed
<1>7. QED
  BY <1>5, <1>6

\* The row a request stores is that of a code.
LEMMA NewRow ==
  ASSUME Typed, NEW b \in Browsers, req[b].at = "insert"
  PROVE  [kind |-> req[b].kind, email |-> req[b].email, agent |-> req[b].agent,
          tries |-> 0, saw |-> req[b].saw] \in CodeRows(Ids)
<1>1. req[b] \in RequestsOf(Ids, Tokens)
  BY DEF Typed, RequestsOK
<1>2. /\ req[b].kind \in Kinds /\ req[b].email \in Emails /\ req[b].agent \in Ids \cup {0}
      /\ req[b].saw \in Tokens \cup {0}
      /\ (req[b].kind = "register") <=> (req[b].agent = 0)
  BY <1>1 DEF RequestsOf, CodeSteps
<1>3. req[b].saw \in Nat
  BY <1>2, Numbers DEF Typed
<1>4. QED
  BY <1>2, <1>3 DEF CodeRows

\* Storing a code.
LEMMA InsertTyped ==
  ASSUME Typed, NEW b \in Browsers, InsertCode(b)
  PROVE  Typed'
<1> DEFINE row == [kind |-> req[b].kind, email |-> req[b].email,
                   agent |-> req[b].agent, tries |-> 0, saw |-> req[b].saw]
           n == Len(codes) + 1
<1>1. req[b] \in RequestsOf(Ids, Tokens) /\ req[b].at = "insert"
  BY DEF InsertCode, Typed, RequestsOK
<1>2. /\ Len(codes) \in Nat /\ Tokens = 1..Len(codes)
      /\ \A t \in Tokens : codes[t] \in CodeRows(Ids)
  BY Numbers DEF Typed
<1>3. row \in CodeRows(Ids)
  BY <1>1, NewRow
<1>4. row.kind = req[b].kind
  OBVIOUS
<1>5. codes' = Append(codes, row)
  BY DEF InsertCode
<1> HIDE DEF row
<1>6. /\ codes' \in Seq(CodeRows(Ids)) /\ Len(codes') = n
      /\ \A t \in Tokens : codes'[t] = codes[t]
      /\ codes'[n] = row
  BY <1>2, <1>3, <1>5, AppendProperties DEF Typed, CodesOK
<1>7. Tokens' = Tokens \cup {n} /\ Ids' = Ids
  <2>1. Tokens' = 1..n
    BY <1>6, LenProperties DEF Tokens
  <2>2. QED
    BY <1>2, <2>1 DEF InsertCode, Ids
<1>8. Grows
  BY <1>6, <1>7 DEF Grows
<1>9. CodesOK'
  <2>1. accepted' \in Seq(Nat) /\ Len(accepted') = n
    BY AppendProperties DEF InsertCode, Typed, CodesOK
  <2>2. live' \subseteq Tokens' /\ expired' \subseteq Tokens'
    BY <1>7 DEF InsertCode, Typed, CodesOK
  <2>3. QED
    BY <1>6, <1>7, <2>1, <2>2 DEF CodesOK
<1>10. TablesOK'
  <2>1. passwords \in Seq(Tokens \cup {0}) /\ Tokens \cup {0} \subseteq Tokens' \cup {0}
    BY <1>7 DEF Typed, TablesOK
  <2>2. passwords \in Seq(Tokens' \cup {0})
    BY <2>1, SeqMonotonic
  <2>3. UNCHANGED <<agents, passwords, identities, blocked>>
    BY DEF InsertCode
  <2>4. QED
    BY <1>7, <2>2, <2>3 DEF Typed, TablesOK
<1>11. CookiesOK'
  BY <1>8, CookiesKept DEF Typed, InsertCode
<1>12. RequestsOK'
  <2> DEFINE r == [req[b] EXCEPT !.at = "mail", !.saw = n]
  <2>1. RequestsOf(Ids, Tokens) \subseteq RequestsOf(Ids', Tokens')
    BY <1>8, ShapesGrow DEF Grows
  <2>2. req[b] \in RequestsOf(Ids', Tokens')
    BY <1>1, <2>1
  <2>3. n \in Tokens' /\ n # 0
    BY <1>2, <1>7
  <2>4. req' = [req EXCEPT ![b] = r]
    BY DEF InsertCode
  <2> HIDE DEF n
  <2>5. r \in RequestsOf(Ids', Tokens') /\ r.saw = n /\ r.kind = req[b].kind
    BY <1>1, <2>2, <2>3 DEF RequestsOf, CodeSteps, SocialSteps
  <2> HIDE DEF r
  <2>6. QED
    BY <1>4, <1>6, <1>8, <2>4, <2>5, RequestSet DEF Typed, n
<1>13. QED
  BY <1>9, <1>10, <1>11, <1>12 DEF Typed

\* A wrong code.
LEMMA WrongTyped ==
  ASSUME Typed, NEW b \in Browsers, NEW t \in Tokens, WrongCode(b, t)
  PROVE  Typed'
<1> DEFINE row == [codes[t] EXCEPT !.tries = @ + 1]
<1>1. /\ Len(codes) \in Nat /\ Tokens = 1..Len(codes)
      /\ codes \in Seq(CodeRows(Ids)) /\ codes[t] \in CodeRows(Ids)
  BY Numbers DEF Typed, CodesOK
<1>2. row \in CodeRows(Ids) /\ row.kind = codes[t].kind
  <2> DEFINE k == codes[t].tries + 1
  <2>1. k \in Nat
    BY <1>1 DEF CodeRows
  <2> HIDE DEF k
  <2>2. [codes[t] EXCEPT !.tries = k] \in CodeRows(Ids)
    BY <1>1, <2>1 DEF CodeRows
  <2>3. [codes[t] EXCEPT !.tries = k].kind = codes[t].kind
    BY <1>1 DEF CodeRows
  <2>4. QED
    BY <2>2, <2>3 DEF k
<1>3. codes' = [codes EXCEPT ![t] = row]
  BY DEF WrongCode
<1> HIDE DEF row
<1>4. /\ codes' \in Seq(CodeRows(Ids)) /\ Len(codes') = Len(codes)
      /\ \A u \in Tokens : codes'[u] = IF u = t THEN row ELSE codes[u]
  BY <1>1, <1>2, <1>3, ExceptSeq
<1>5. Tokens' = Tokens /\ Ids' = Ids
  BY <1>3 DEF WrongCode, Tokens, Ids
<1>6. Grows
  BY <1>2, <1>4, <1>5 DEF Grows
<1>7. UNCHANGED <<agents, passwords, identities, blocked, live, expired, cookie, req, accepted>>
  BY DEF WrongCode
<1>8. TablesOK' /\ CodesOK'
  BY <1>4, <1>5, <1>7 DEF Typed, TablesOK, CodesOK
<1>9. QED
  BY <1>6, <1>7, <1>8, CookiesKept, RequestsKept DEF Typed

\* Accepting a code keeps the shapes of the codes.
LEMMA AcceptTyped ==
  ASSUME CodesOK, NEW t \in Tokens, Accept(t), codes' = codes, expired' = expired,
         Ids \subseteq Ids'
  PROVE  CodesOK'
<1>1. /\ Len(codes) \in Nat /\ Tokens = 1..Len(codes)
      /\ accepted \in Seq(Nat) /\ Len(accepted) = Len(codes)
  BY LenProperties DEF CodesOK, Tokens
<1>2. accepted[t] + 1 \in Nat
  BY <1>1, ElementOfSeq
<1>3. accepted' \in Seq(Nat) /\ Len(accepted') = Len(codes)
  BY <1>1, <1>2, ExceptSeq DEF Accept
<1>4. CodeRows(Ids) \subseteq CodeRows(Ids')
  BY ShapesGrow
<1>5. codes' \in Seq(CodeRows(Ids'))
  BY <1>4, SeqMonotonic DEF CodesOK
<1>6. Tokens' = Tokens
  BY DEF Tokens
<1>7. QED
  BY <1>3, <1>5, <1>6 DEF CodesOK, Accept

\* A registration confirmed.
LEMMA RegisteredTyped ==
  ASSUME Typed, NEW b \in Browsers, ConfirmRegistration(b)
  PROVE  Typed'
<1>1. PICK t \in Tokens : t = cookie[b].register
  BY DEF ConfirmRegistration, Confirming
<1> DEFINE row == [email |-> codes[t].email, admin |-> codes[t].email \in AdminEmails]
           n == Len(agents) + 1
<1>2. Len(agents) \in Nat /\ Ids = 1..Len(agents) /\ codes[t] \in CodeRows(Ids)
  BY Numbers DEF Typed
<1>3. row \in AgentRows
  BY <1>2 DEF CodeRows, AgentRows, Addresses
<1>4. agents' = Append(agents, row)
  BY <1>1 DEF ConfirmRegistration
<1> HIDE DEF row
<1>5. agents' \in Seq(AgentRows) /\ Len(agents') = n
  BY <1>3, <1>4, AppendProperties DEF Typed, TablesOK
<1>6. Ids' = Ids \cup {n} /\ n \in Ids' /\ Tokens' = Tokens
  <2>1. Ids' = 1..n
    BY <1>5, LenProperties DEF Ids
  <2>2. QED
    BY <1>2, <2>1 DEF ConfirmRegistration, Tokens
<1>7. Grows
  BY <1>6 DEF ConfirmRegistration, Grows
<1>8. CodesOK'
  BY <1>1, <1>6, AcceptTyped DEF ConfirmRegistration, Typed
<1>9. TablesOK'
  <2>1. passwords' \in Seq(Tokens \cup {0}) /\ Len(passwords') = n
    BY <1>1, AppendProperties DEF ConfirmRegistration, Typed, TablesOK
  <2>2. UNCHANGED <<identities, blocked>>
    BY DEF ConfirmRegistration
  <2>3. QED
    BY <1>5, <1>6, <2>1, <2>2 DEF Typed, TablesOK
<1>10. CookiesOK'
  BY <1>6, <1>7, LoggedIn DEF ConfirmRegistration, Typed
<1>11. RequestsOK'
  BY <1>7, RequestsKept DEF ConfirmRegistration, Typed
<1>12. QED
  BY <1>8, <1>9, <1>10, <1>11 DEF Typed

\* A reset confirmed.
LEMMA ResetTyped ==
  ASSUME Typed, NEW b \in Browsers, ConfirmReset(b)
  PROVE  Typed'
<1>1. PICK t \in Tokens : t = cookie[b].reset
  BY DEF ConfirmReset, Confirming
<1>2. /\ Len(agents) \in Nat /\ Ids = 1..Len(agents) /\ codes[t] \in CodeRows(Ids)
      /\ t # 0
  BY Numbers DEF Typed
<1>3. codes[t].kind = "reset"
  BY <1>1, <1>2 DEF Typed, CookiesOK
<1>4. PICK a \in Ids : a = codes[t].agent
  BY <1>2, <1>3 DEF CodeRows
<1>5. Ids' = Ids /\ Tokens' = Tokens /\ Grows
  BY DEF ConfirmReset, Ids, Tokens, Grows
<1>6. CodesOK'
  BY <1>1, <1>5, AcceptTyped DEF ConfirmReset, Typed
<1>7. TablesOK'
  <2>1. passwords \in Seq(Tokens \cup {0}) /\ Len(passwords) = Len(agents)
    BY DEF Typed, TablesOK
  <2>2. passwords' = [passwords EXCEPT ![a] = t]
    BY <1>1, <1>4 DEF ConfirmReset
  <2>3. passwords' \in Seq(Tokens \cup {0}) /\ Len(passwords') = Len(agents)
    BY <1>2, <2>1, <2>2, ExceptSeq
  <2>4. UNCHANGED <<agents, identities, blocked>>
    BY DEF ConfirmReset
  <2>5. QED
    BY <1>5, <2>3, <2>4 DEF Typed, TablesOK
<1>8. CookiesOK'
  BY <1>1, <1>4, <1>5, LoggedIn DEF ConfirmReset, Typed
<1>9. RequestsOK'
  BY <1>5, RequestsKept DEF ConfirmReset, Typed
<1>10. QED
  BY <1>6, <1>7, <1>8, <1>9 DEF Typed

\* The reads of social logins and links.
LEMMA SocialStepTyped ==
  ASSUME Typed, NEW b \in Browsers,
         \/ FindByEmail(b)
         \/ \E s \in Subjects : SocialLogin(b, s) \/ LinkSocial(b, s)
  PROVE  Typed'
<1>1. UNCHANGED <<agents, passwords, identities, blocked, codes, live, expired, accepted>>
  BY DEF FindByEmail, SocialLogin, LinkSocial
<1>2. TablesOK' /\ CodesOK' /\ Grows /\ Ids' = Ids /\ Tokens' = Tokens
  BY <1>1, TablesStill DEF Typed, TablesOK, CodesOK, Ids, Tokens
<1>3. Idle \in RequestsOf(Ids, Tokens) /\ Idle.agent = 0
  BY EmptyShapes
<1>4. req[b] \in RequestsOf(Ids, Tokens) /\ cookie[b] \in Sessions(Ids, Tokens)
  BY DEF Typed, RequestsOK, CookiesOK
<1>5. CASE FindByEmail(b)
  <2>1. PICK a \in Ids \cup {0} : req' = [req EXCEPT ![b] = [@ EXCEPT !.at = "identity", !.agent = a]]
    <3>1. \A e : Holders(e) \subseteq Ids
      BY DEF Holders
    <3>2. QED
      BY <1>5, <3>1 DEF FindByEmail
  <2> DEFINE r == [req[b] EXCEPT !.at = "identity", !.agent = a]
  <2>2. req[b].at = "social"
    BY <1>5 DEF FindByEmail
  <2>3. r \in RequestsOf(Ids, Tokens) /\ r.at = "identity"
    BY <1>4, <2>2 DEF RequestsOf, CodeSteps, SocialSteps
  <2>4. req' = [req EXCEPT ![b] = r]
    BY <2>1
  <2> HIDE DEF r
  <2>5. RequestsOK'
    BY <1>2, <2>3, <2>4, RequestSet DEF Typed
  <2>6. CookiesOK'
    BY <1>2, <1>5, CookiesKept DEF FindByEmail, Typed
  <2>7. QED
    BY <1>2, <2>5, <2>6 DEF Typed
<1>6. ASSUME NEW s \in Subjects, SocialLogin(b, s)
      PROVE  Typed'
  <2>1. CASE identities[s] # 0
    <3>1. PICK a \in Ids : a = identities[s]
      BY <2>1 DEF Typed, TablesOK
    <3>2. LogIn(b, a) /\ UNCHANGED req
      BY <1>6, <2>1, <3>1 DEF SocialLogin
    <3>3. QED
      BY <1>2, <3>2, LoggedIn, RequestsKept DEF Typed
  <2>2. CASE identities[s] = 0
    <3> DEFINE r == [Idle EXCEPT !.at = "social", !.subject = s]
    <3>1. r \in RequestsOf(Ids, Tokens) /\ r.at = "social"
      BY <1>3 DEF RequestsOf, CodeSteps, SocialSteps
    <3>2. req' = [req EXCEPT ![b] = r] /\ UNCHANGED cookie
      BY <1>6, <2>2 DEF SocialLogin
    <3> HIDE DEF r
    <3>3. RequestsOK' /\ CookiesOK'
      BY <1>2, <3>1, <3>2, RequestSet, CookiesKept DEF Typed
    <3>4. QED
      BY <1>2, <3>3 DEF Typed
  <2>3. QED
    BY <2>1, <2>2
<1>7. ASSUME NEW s \in Subjects, LinkSocial(b, s)
      PROVE  Typed'
  <2>1. PICK a \in Ids : a = cookie[b].agent /\ a # 0
    BY <1>4, <1>7 DEF LinkSocial, Sessions
  <2> DEFINE r == [Idle EXCEPT !.at = "link", !.subject = s, !.agent = a]
  <2>2. r \in RequestsOf(Ids, Tokens) /\ r.at = "link"
    BY <1>3, <2>1 DEF RequestsOf, CodeSteps, SocialSteps
  <2>3. req' = [req EXCEPT ![b] = r] /\ UNCHANGED cookie
    BY <1>7, <2>1 DEF LinkSocial
  <2> HIDE DEF r
  <2>4. RequestsOK' /\ CookiesOK'
    BY <1>2, <2>2, <2>3, RequestSet, CookiesKept DEF Typed
  <2>5. QED
    BY <1>2, <2>4 DEF Typed
<1>8. QED
  BY <1>5, <1>6, <1>7

\* What the commit of a first social login stores.
LEMMA SocialTables ==
  ASSUME Typed, NEW b \in Browsers, StoreSocial(b), NEW id,
         id = IF req[b].agent = 0 THEN Len(agents) + 1 ELSE req[b].agent
  PROVE  /\ req[b].subject \in Subjects
         /\ agents' \in Seq(AgentRows)
         /\ Ids \subseteq Ids' /\ \A a \in Ids' : a \in Ids \/ a = id
         /\ \A a \in Ids' \ Ids : ~Refused(req[b])
         /\ ~Refused(req[b]) => id \in Ids'
         /\ passwords' \in Seq(Tokens \cup {0}) /\ Len(passwords') = Len(agents')
         /\ \A a \in Ids : passwords'[a] = passwords[a]
<1> DEFINE r == req[b]
           row == [email |-> EmailOf[r.subject], admin |-> FALSE]
           n == Len(agents) + 1
<1>1. r \in RequestsOf(Ids, Tokens) /\ r.at = "identity"
  BY DEF StoreSocial, Typed, RequestsOK
<1>2. r.subject \in Subjects /\ r.agent \in Ids \cup {0}
  BY <1>1 DEF RequestsOf, SocialSteps
<1>3. /\ Len(agents) \in Nat /\ Ids = 1..Len(agents)
      /\ agents \in Seq(AgentRows)
      /\ \A a \in Ids : passwords[a] \in Tokens \cup {0}
  BY Numbers DEF Typed, TablesOK
<1>4. row \in AgentRows
  BY <1>2, AccountsAssumption DEF AgentRows, Addresses
<1>5. agents' = IF r.agent = 0 /\ ~Refused(r) THEN Append(agents, row) ELSE agents
  BY DEF StoreSocial, AgentsWith
<1> HIDE DEF row
<1>6. /\ agents' \in Seq(AgentRows)
      /\ Ids \subseteq Ids' /\ \A a \in Ids' : a \in Ids \/ a = id
      /\ \A a \in Ids' \ Ids : ~Refused(r)
      /\ ~Refused(r) => id \in Ids'
  <2>1. CASE r.agent = 0 /\ ~Refused(r)
    <3>1. agents' \in Seq(AgentRows) /\ Len(agents') = n
      BY <1>3, <1>4, <1>5, <2>1, AppendProperties
    <3>2. Ids' = 1..n /\ id = n
      BY <2>1, <3>1, LenProperties DEF Ids
    <3>3. Ids' = Ids \cup {id}
      BY <1>3, <3>2
    <3>4. QED
      BY <2>1, <3>1, <3>3
  <2>2. CASE ~(r.agent = 0 /\ ~Refused(r))
    <3>1. agents' = agents /\ Ids' = Ids
      BY <1>5, <2>2 DEF Ids
    <3>2. ~Refused(r) => id \in Ids
      BY <1>2, <2>2
    <3>3. QED
      BY <1>3, <3>1, <3>2
  <2>3. QED
    BY <2>1, <2>2
<1>7. /\ passwords' \in Seq(Tokens \cup {0}) /\ Len(passwords') = Len(agents')
      /\ \A a \in Ids : passwords'[a] = passwords[a]
  <2>1. Len(agents') \in Nat /\ Ids' = 1..Len(agents')
    BY <1>6, LenProperties DEF Ids
  <2>2. passwords' = [a \in Ids' |-> IF a \in Ids THEN passwords[a] ELSE 0]
    BY DEF StoreSocial, Ids
  <2>3. passwords' \in [1..Len(agents') -> Tokens \cup {0}]
    BY <1>3, <2>1, <2>2
  <2>4. passwords' \in Seq(Tokens \cup {0}) /\ Len(passwords') = Len(agents')
    BY <2>1, <2>3
  <2>5. QED
    BY <1>6, <2>2, <2>4
<1>8. QED
  BY <1>2, <1>6, <1>7

\* The commit of a social login.
LEMMA StoreSocialTyped ==
  ASSUME Typed, NEW b \in Browsers, StoreSocial(b)
  PROVE  Typed'
<1> DEFINE r == req[b]
<1>1. PICK id : id = IF r.agent = 0 THEN Len(agents) + 1 ELSE r.agent
  OBVIOUS
<1>2. /\ r.subject \in Subjects
      /\ agents' \in Seq(AgentRows)
      /\ Ids \subseteq Ids'
      /\ ~Refused(r) => id \in Ids'
      /\ passwords' \in Seq(Tokens \cup {0}) /\ Len(passwords') = Len(agents')
  BY <1>1, SocialTables
<1>3. UNCHANGED <<blocked, codes, live, expired, accepted>> /\ Tokens' = Tokens
  BY DEF StoreSocial, Tokens
<1>4. Grows
  BY <1>2, <1>3 DEF Grows
<1>5. \/ UNCHANGED <<identities, cookie>>
      \/ /\ id \in Ids'
         /\ identities' = [identities EXCEPT ![r.subject] = id]
         /\ LogIn(b, id)
  BY <1>1, <1>2 DEF StoreSocial
<1>6. identities' \in [Subjects -> Ids' \cup {0}]
  <2>1. identities \in [Subjects -> Ids' \cup {0}]
    BY <1>2 DEF Typed, TablesOK
  <2>2. QED
    BY <1>5, <2>1
<1>7. TablesOK'
  BY <1>2, <1>3, <1>6 DEF Typed, TablesOK
<1>8. CodesOK'
  <2>1. CodeRows(Ids) \subseteq CodeRows(Ids')
    BY <1>2, ShapesGrow
  <2>2. codes \in Seq(CodeRows(Ids'))
    BY <2>1, SeqMonotonic DEF Typed, CodesOK
  <2>3. QED
    BY <1>3, <2>2 DEF Typed, CodesOK
<1>9. CookiesOK'
  BY <1>4, <1>5, CookiesKept, LoggedIn DEF Typed
<1>10. RequestsOK'
  BY <1>4, Answered DEF StoreSocial, Typed
<1>11. QED
  BY <1>7, <1>8, <1>9, <1>10 DEF Typed

\* The commit of a link.
LEMMA StoreLinkTyped ==
  ASSUME Typed, NEW b \in Browsers, StoreLink(b)
  PROVE  Typed'
<1>1. UNCHANGED <<agents, passwords, blocked, codes, live, expired, cookie, accepted>>
  BY DEF StoreLink
<1>2. Ids' = Ids /\ Tokens' = Tokens /\ Grows
  BY <1>1 DEF Ids, Tokens, Grows
<1>3. req[b].agent \in Ids
  <2>1. req[b] \in RequestsOf(Ids, Tokens) /\ req[b].at = "link"
    BY DEF StoreLink, Typed, RequestsOK
  <2>2. QED
    BY <2>1 DEF RequestsOf
<1>4. TablesOK'
  <2>1. identities' = identities \/ identities' = [identities EXCEPT ![req[b].subject] = req[b].agent]
    BY DEF StoreLink
  <2>2. identities' \in [Subjects -> Ids \cup {0}]
    BY <1>3, <2>1 DEF Typed, TablesOK
  <2>3. QED
    BY <1>1, <1>2, <2>2 DEF Typed, TablesOK
<1>5. CodesOK'
  BY <1>1, <1>2 DEF Typed, CodesOK
<1>6. CookiesOK' /\ RequestsOK'
  BY <1>1, <1>2, CookiesKept, Answered DEF StoreLink, Typed
<1>7. QED
  BY <1>4, <1>5, <1>6 DEF Typed

\* A change of what the cookie keeps of a new e-mail.
LEMMA ChangeSet ==
  ASSUME CookiesOK, Grows, NEW b \in Browsers,
         NEW n \in [email : Addresses, tries : Nat, expired : BOOLEAN],
         cookie' = [cookie EXCEPT ![b].change = n]
  PROVE  CookiesOK'
<1> DEFINE c == [cookie[b] EXCEPT !.change = n]
<1>1. cookie[b] \in Sessions(Ids, Tokens)
  BY DEF CookiesOK
<1>2. cookie[b] \in Sessions(Ids', Tokens')
  BY <1>1, ShapesGrow DEF Grows
<1>3. c \in Sessions(Ids', Tokens') /\ c.reset = cookie[b].reset
  BY <1>2 DEF Sessions
<1>4. cookie' = [cookie EXCEPT ![b] = c]
  OBVIOUS
<1> HIDE DEF c
<1>5. cookie[b].reset # 0 => codes'[cookie[b].reset].kind = "reset"
  BY <1>1 DEF CookiesOK, Grows, Sessions
<1>6. QED
  BY <1>3, <1>4, <1>5, CookieSet

\* A change of the e-mail confirmed, dropped or mistyped.
LEMMA ConfirmChangeTyped ==
  ASSUME Typed, NEW b \in Browsers, ConfirmEmailChange(b)
  PROVE  Typed'
<1>1. UNCHANGED <<passwords, identities, blocked, codes, live, expired, req, accepted>>
  BY DEF ConfirmEmailChange
<1>2. cookie[b] \in Sessions(Ids, Tokens)
  BY DEF Typed, CookiesOK
<1> DEFINE a == cookie[b].agent
           c == cookie[b].change
<1>3. a \in Ids
  BY DEF ConfirmEmailChange
<1>4. c \in [email : Addresses, tries : Nat, expired : BOOLEAN]
  BY <1>2 DEF Sessions
<1>5. agents' \in Seq(AgentRows) /\ Len(agents') = Len(agents)
  <2> DEFINE row == [agents[a] EXCEPT !.email = c.email]
  <2>1. agents \in Seq(AgentRows) /\ a \in 1..Len(agents) /\ agents[a] \in AgentRows
    BY <1>3, Numbers DEF Typed, TablesOK
  <2>2. row \in AgentRows
    BY <1>4, <2>1 DEF AgentRows
  <2>3. agents' = agents \/ agents' = [agents EXCEPT ![a] = row]
    BY DEF ConfirmEmailChange
  <2> HIDE DEF row
  <2>4. QED
    BY <2>1, <2>2, <2>3, ExceptSeq
<1>6. Ids' = Ids /\ Tokens' = Tokens /\ Grows
  BY <1>1, <1>5, LenProperties DEF Ids, Tokens, Grows, Typed, TablesOK
<1>7. TablesOK' /\ CodesOK'
  BY <1>1, <1>5, <1>6 DEF Typed, TablesOK, CodesOK
<1>8. CookiesOK'
  <2>1. CASE cookie' = [cookie EXCEPT ![b].change = NoChange]
    BY <1>6, <2>1, EmptyShapes, ChangeSet DEF Typed
  <2>2. CASE cookie' = [cookie EXCEPT ![b].change.tries = @ + 1]
    <3> DEFINE k == c.tries + 1
               n == [c EXCEPT !.tries = k]
    <3>1. k \in Nat
      BY <1>4
    <3>2. cookie' = [cookie EXCEPT ![b].change = n]
      BY <2>2
    <3> HIDE DEF k
    <3>3. n \in [email : Addresses, tries : Nat, expired : BOOLEAN]
      BY <1>4, <3>1
    <3> HIDE DEF n
    <3>4. QED
      BY <1>6, <3>2, <3>3, ChangeSet DEF Typed
  <2>3. QED
    BY <2>1, <2>2 DEF ConfirmEmailChange
<1>9. RequestsOK'
  BY <1>1, <1>6, RequestsKept DEF Typed
<1>10. QED
  BY <1>7, <1>8, <1>9 DEF Typed

\* Time passing.
LEMMA ExpireTyped ==
  ASSUME Typed, Expire
  PROVE  Typed'
<1>1. UNCHANGED <<agents, passwords, identities, blocked, codes, live, req, accepted>>
  BY DEF Expire
<1>2. TablesOK' /\ CodesOK' /\ Grows
  <2>1. expired' \subseteq Tokens
    BY DEF Expire, Typed, CodesOK
  <2>2. QED
    BY <1>1, <2>1, TablesStill DEF Typed, TablesOK, CodesOK
<1>3. CookiesOK'
  <2>1. CASE UNCHANGED cookie
    BY <1>2, <2>1, CookiesKept DEF Typed
  <2>2. ASSUME NEW b \in Browsers, cookie' = [cookie EXCEPT ![b].change.expired = TRUE]
        PROVE  CookiesOK'
    <3> DEFINE n == [cookie[b].change EXCEPT !.expired = TRUE]
    <3>1. cookie[b].change \in [email : Addresses, tries : Nat, expired : BOOLEAN]
      BY DEF Typed, CookiesOK, Sessions
    <3>2. n \in [email : Addresses, tries : Nat, expired : BOOLEAN]
      BY <3>1
    <3>3. cookie' = [cookie EXCEPT ![b].change = n]
      BY <2>2
    <3> HIDE DEF n
    <3>4. QED
      BY <1>2, <3>2, <3>3, ChangeSet DEF Typed
  <2>3. QED
    BY <2>1, <2>2 DEF Expire
<1>4. RequestsOK'
  BY <1>1, <1>2, RequestsKept DEF Typed
<1>5. QED
  BY <1>2, <1>3, <1>4 DEF Typed

\* Every step keeps the shapes.
LEMMA NextTyped == Typed /\ [Next]_vars => Typed'
<1> SUFFICES ASSUME Typed, [Next]_vars PROVE Typed'
  OBVIOUS
<1>1. ASSUME NEW a \in Ids, SetBlocked(a) PROVE Typed'
  <2>1. UNCHANGED <<agents, passwords, identities, codes, live, expired, cookie, req, accepted>>
        /\ blocked' \subseteq Ids
    BY <1>1 DEF SetBlocked, Typed, TablesOK
  <2>2. TablesOK' /\ CodesOK' /\ Grows
    BY <2>1, TablesStill DEF Typed, CodesOK
  <2>3. QED
    BY <2>1, <2>2, CookiesKept, RequestsKept DEF Typed
<1>2. CASE UNCHANGED vars
  <2>1. UNCHANGED <<agents, passwords, identities, blocked, codes, live, expired, cookie, req, accepted>>
    BY <1>2 DEF vars
  <2>2. TablesOK' /\ CodesOK' /\ Grows
    BY <2>1, TablesStill DEF Typed, TablesOK, CodesOK
  <2>3. QED
    BY <2>1, <2>2, CookiesKept, RequestsKept DEF Typed
<1>3. ASSUME NEW b \in Browsers,
             \/ \E a \in Ids : Login(b, a)
             \/ Logout(b) \/ Visit(b)
             \/ \E e \in Emails :
                  BeginRegistration(b, e) \/ BeginReset(b, e) \/ BeginEmailChange(b, e)
             \/ DeleteOld(b) \/ InsertCode(b) \/ MailCode(b)
             \/ \E t \in Tokens : WrongCode(b, t)
             \/ ConfirmRegistration(b) \/ ConfirmReset(b)
             \/ \E s \in Subjects : SocialLogin(b, s) \/ LinkSocial(b, s)
             \/ FindByEmail(b) \/ StoreSocial(b) \/ StoreLink(b)
             \/ ConfirmEmailChange(b)
      PROVE  Typed'
  BY <1>3, LoginTyped, BeginTyped, CodeStepTyped, InsertTyped, WrongTyped, RegisteredTyped,
     ResetTyped, SocialStepTyped, StoreSocialTyped, StoreLinkTyped, ConfirmChangeTyped
<1>4. QED
  BY <1>1, <1>2, <1>3, ExpireTyped DEF Next

\* The shapes hold always.
LEMMA TypedInvariant == Spec => []Typed
<1>1. QED
  BY InitTyped, NextTyped, PTL DEF Spec

\* Tables, cookies and requests keep their shapes.
THEOREM TypeCorrect == Spec => []TypeOK
<1>1. QED
  BY TypedInvariant, TypedImpliesTypeOK, PTL

-----------------------------------------------------------------------------
(* Identities and agents *)

\* What each step does to identities.
LEMMA IdentitySteps ==
  ASSUME Typed, [Next]_vars
  PROVE  \/ UNCHANGED identities
         \/ \E b \in Browsers : StoreSocial(b) \/ StoreLink(b)
  BY DEF Next, vars, Login, Logout, Visit, BeginRegistration, BeginReset, BeginEmailChange,
         DeleteOld, InsertCode, MailCode, WrongCode, ConfirmRegistration, ConfirmReset,
         SocialLogin, LinkSocial, FindByEmail, ConfirmEmailChange, Expire, SetBlocked

\* A stored identity stays with its agent.
LEMMA IdentityStep ==
  ASSUME Typed, [Next]_vars, NEW s \in Subjects, identities[s] # 0
  PROVE  identities'[s] = identities[s]
<1>1. identities \in [Subjects -> Ids \cup {0}]
  BY DEF Typed, TablesOK
<1>2. ASSUME NEW b \in Browsers, NEW id,
             identities' = [identities EXCEPT ![req[b].subject] = id],
             identities[req[b].subject] = 0
      PROVE  identities'[s] = identities[s]
  BY <1>1, <1>2
<1>3. ASSUME NEW b \in Browsers, StoreSocial(b)
      PROVE  identities'[s] = identities[s]
  <2>1. \/ UNCHANGED identities
        \/ /\ ~Refused(req[b])
           /\ \E id : identities' = [identities EXCEPT ![req[b].subject] = id]
    BY <1>3 DEF StoreSocial
  <2>2. QED
    BY <1>2, <2>1 DEF Refused
<1>4. ASSUME NEW b \in Browsers, StoreLink(b)
      PROVE  identities'[s] = identities[s]
  <2>1. \/ UNCHANGED identities
        \/ /\ ~Refused(req[b])
           /\ \E id : identities' = [identities EXCEPT ![req[b].subject] = id]
    BY <1>4 DEF StoreLink
  <2>2. QED
    BY <1>2, <2>1 DEF Refused
<1>5. QED
  BY <1>3, <1>4, IdentitySteps

\* Whoever comes in through a social account reaches the same agent ever after.
THEOREM IdentityCorrect == Spec => IdentityKept
<1>1. Typed /\ [Next]_vars => [\A s \in Subjects : identities[s] # 0 => identities'[s] = identities[s]]_vars
  BY IdentityStep
<1>2. QED
  BY <1>1, TypedInvariant, PTL DEF Spec, IdentityKept

\* Agents that existed keep a password that they had, and new ones come with a
\* password or an identity.
LEMMA StrandedStep ==
  ASSUME Typed, Typed', NoStrandedAgents, [Next]_vars
  PROVE  NoStrandedAgents'
<1>a. /\ Len(agents) \in Nat /\ Ids = 1..Len(agents)
      /\ Tokens = 1..Len(codes) /\ Len(codes) \in Nat
      /\ \A t \in Tokens : codes[t] \in CodeRows(Ids)
      /\ passwords \in Seq(Tokens \cup {0}) /\ Len(passwords) = Len(agents)
  BY Numbers DEF Typed, TablesOK
<1>b. \A s \in Subjects : identities[s] # 0 => identities'[s] = identities[s]
  BY IdentityStep
<1>1. ASSUME Ids' = Ids, \A a \in Ids : passwords[a] # 0 => passwords'[a] # 0
      PROVE  NoStrandedAgents'
  <2> SUFFICES ASSUME NEW a \in Ids PROVE passwords'[a] # 0 \/ \E s \in Subjects : identities'[s] = a
    BY <1>1 DEF NoStrandedAgents
  <2>1. CASE passwords[a] # 0
    BY <1>1, <2>1
  <2>2. ASSUME NEW s \in Subjects, identities[s] = a PROVE identities'[s] = a
    BY <1>a, <1>b, <2>2
  <2>3. QED
    BY <2>1, <2>2 DEF NoStrandedAgents
<1>2. ASSUME NEW b \in Browsers, StoreSocial(b) PROVE NoStrandedAgents'
  <2>1. PICK id : id = IF req[b].agent = 0 THEN Len(agents) + 1 ELSE req[b].agent
    OBVIOUS
  <2>2. /\ req[b].subject \in Subjects
        /\ Ids \subseteq Ids' /\ \A a \in Ids' : a \in Ids \/ a = id
        /\ \A a \in Ids' \ Ids : ~Refused(req[b])
        /\ \A a \in Ids : passwords'[a] = passwords[a]
    BY <1>2, <2>1, SocialTables
  <2>3. ~Refused(req[b]) => identities'[req[b].subject] = id
    BY <1>2, <2>1, <2>2 DEF StoreSocial, Typed, TablesOK
  <2> SUFFICES ASSUME NEW a \in Ids' PROVE passwords'[a] # 0 \/ \E s \in Subjects : identities'[s] = a
    BY DEF NoStrandedAgents
  <2>4. CASE a \notin Ids
    BY <2>2, <2>3, <2>4
  <2>5. CASE a \in Ids
    <3>1. CASE passwords[a] # 0
      BY <2>2, <2>5, <3>1
    <3>2. ASSUME NEW s \in Subjects, identities[s] = a PROVE identities'[s] = a
      BY <1>a, <1>b, <2>5, <3>2
    <3>3. QED
      BY <2>5, <3>1, <3>2 DEF NoStrandedAgents
  <2>6. QED
    BY <2>4, <2>5
<1>3. ASSUME NEW b \in Browsers, ConfirmRegistration(b) PROVE NoStrandedAgents'
  <2>1. PICK t \in Tokens : t = cookie[b].register /\ t # 0
    BY <1>3, <1>a DEF ConfirmRegistration, Confirming
  <2>2. passwords' = Append(passwords, t) /\ UNCHANGED identities
    BY <1>3, <2>1 DEF ConfirmRegistration
  <2>3. /\ \A a \in Ids : passwords'[a] = passwords[a]
        /\ passwords'[Len(agents) + 1] = t
    BY <1>a, <2>1, <2>2, AppendProperties
  <2>4. Ids' = 1..(Len(agents) + 1)
    <3>1. Len(passwords') = Len(agents) + 1
      BY <1>a, <2>1, <2>2, AppendProperties
    <3>2. Len(agents') = Len(agents) + 1
      BY <3>1 DEF Typed, TablesOK
    <3>3. QED
      BY <3>2, LenProperties DEF Typed, TablesOK, Ids
  <2>5. \A a \in Ids' : a \in Ids \/ a = Len(agents) + 1
    BY <1>a, <2>4
  <2>6. QED
    BY <2>1, <2>2, <2>3, <2>5 DEF NoStrandedAgents
<1>4. ASSUME NEW b \in Browsers, ConfirmReset(b) PROVE NoStrandedAgents'
  <2>1. cookie[b].reset \in Tokens /\ cookie[b].reset # 0
    BY <1>4, <1>a DEF ConfirmReset, Confirming
  <2>2. Ids' = Ids /\ passwords' = [passwords EXCEPT ![codes[cookie[b].reset].agent] = cookie[b].reset]
    BY <1>4 DEF ConfirmReset, Ids
  <2>3. \A a \in Ids : a \in DOMAIN passwords
    BY <1>a, LenProperties
  <2>4. \A a \in Ids : passwords[a] # 0 => passwords'[a] # 0
    BY <2>1, <2>2, <2>3
  <2>5. QED
    BY <1>1, <2>2, <2>4
<1>5. ASSUME NEW b \in Browsers, ConfirmEmailChange(b) PROVE NoStrandedAgents'
  <2>1. Ids' = Ids /\ passwords' = passwords
    BY <1>5 DEF ConfirmEmailChange, Ids
  <2>2. QED
    BY <1>1, <2>1
<1>6. CASE UNCHANGED <<agents, passwords>>
  BY <1>1, <1>6 DEF Ids
<1>7. \/ UNCHANGED <<agents, passwords>>
      \/ \E b \in Browsers : \/ StoreSocial(b) \/ ConfirmRegistration(b)
                             \/ ConfirmReset(b) \/ ConfirmEmailChange(b)
  BY DEF Next, vars, Login, Logout, Visit, BeginRegistration, BeginReset, BeginEmailChange,
         DeleteOld, InsertCode, MailCode, WrongCode,
         SocialLogin, LinkSocial, FindByEmail, StoreLink, Expire, SetBlocked
<1>8. QED
  BY <1>2, <1>3, <1>4, <1>5, <1>6, <1>7

\* Every agent can be reached by its owner.
THEOREM AgentsReachable == Spec => []NoStrandedAgents
<1>1. Init => NoStrandedAgents
  BY DEF Init, NoStrandedAgents, Ids
<1>2. QED
  BY <1>1, StrandedStep, TypedInvariant, PTL DEF Spec

-----------------------------------------------------------------------------
(* Codes *)

\* What a request that is about to store a code has found: the tokens it
\* deletes are those of its address that it saw.
Deleting(b) ==
  req[b].at = "insert" =>
    /\ req[b].saw <= Len(codes)
    /\ \A t \in req[b].doomed : t <= req[b].saw /\ Replaced(t, req[b])
    /\ \A t \in live : (t <= req[b].saw /\ Replaced(t, req[b])) => t \in req[b].doomed

Unspent == \A t \in live : accepted[t] = 0

SpentOnce ==
  \A t \in Tokens :
    /\ codes[t].tries <= CodeTries
    /\ accepted[t] <= 1
    /\ accepted[t] = 1 => t \notin live

CodeInv ==
  /\ \A b \in Browsers : Deleting(b)
  /\ Unspent
  /\ SpentOnce
  /\ CodesReplacedByNewer

\* The steps that neither issue, try nor accept a code and keep what stores one.
LEMMA CodeKept ==
  ASSUME Typed, CodeInv, UNCHANGED <<codes, live, accepted>>,
         \A b \in Browsers : req'[b].at = "insert" => req'[b] = req[b]
  PROVE  CodeInv'
<1>1. Unspent' /\ SpentOnce' /\ CodesReplacedByNewer'
  BY DEF CodeInv, Unspent, SpentOnce, CodesReplacedByNewer, Tokens, SameOwner
<1>2. ASSUME NEW b \in Browsers PROVE Deleting(b)'
  BY <1>2 DEF CodeInv, Deleting, Replaced
<1>3. QED
  BY <1>1, <1>2 DEF CodeInv

\* Two codes have the same owner when one replaces what the other's request does.
LEMMA Owners ==
  ASSUME Typed, NEW b \in Browsers, req[b].at = "insert", NEW t \in Tokens,
         NEW kind, NEW agent, NEW email,
         kind = req[b].kind, agent = req[b].agent, email = req[b].email
  PROVE  Replaced(t, req[b]) <=>
           /\ codes[t].kind = kind
           /\ codes[t].agent = agent
           /\ codes[t].kind = "register" => codes[t].email = email
<1>1. codes[t] \in CodeRows(Ids)
  BY Numbers DEF Typed
<1>2. req[b] \in RequestsOf(Ids, Tokens)
  BY DEF Typed, RequestsOK
<1>3. (codes[t].kind = "register") <=> (codes[t].agent = 0)
  BY <1>1 DEF CodeRows
<1>4. (req[b].kind = "register") <=> (req[b].agent = 0)
  BY <1>2 DEF RequestsOf, CodeSteps
<1>5. QED
  BY <1>3, <1>4 DEF Replaced

\* A request that looks for the codes to replace finds all it sees.
LEMMA DeleteKeeps ==
  ASSUME Typed, CodeInv, NEW b \in Browsers, DeleteOld(b)
  PROVE  CodeInv'
<1>1. UNCHANGED <<codes, live, accepted>>
  BY DEF DeleteOld
<1>2. Unspent' /\ SpentOnce' /\ CodesReplacedByNewer'
  BY <1>1 DEF CodeInv, Unspent, SpentOnce, CodesReplacedByNewer, Tokens, SameOwner
<1>3. ASSUME NEW d \in Browsers PROVE Deleting(d)'
  <2>1. CASE d = b
    <3> DEFINE D == {t \in live : Replaced(t, req[b])}
    <3>1. req[b] \in RequestsOf(Ids, Tokens)
      BY DEF Typed, RequestsOK
    <3>2. req' = [req EXCEPT ![b] = [req[b] EXCEPT !.at = "insert", !.saw = Len(codes), !.doomed = D]]
      BY DEF DeleteOld
    <3> HIDE DEF D
    <3>3. /\ req'[b].saw = Len(codes) /\ req'[b].doomed = D
          /\ req'[b].kind = req[b].kind /\ req'[b].email = req[b].email
          /\ req'[b].agent = req[b].agent
      BY <3>1, <3>2 DEF RequestsOf, Typed, RequestsOK
    <3>4. \A t : Replaced(t, req[b])' <=> Replaced(t, req[b])
      BY <1>1, <3>3 DEF Replaced
    <3>5. Len(codes) \in Nat /\ \A t \in live : t \in Nat /\ t <= Len(codes)
      BY Numbers DEF Typed, CodesOK
    <3>6. QED
      BY <1>1, <2>1, <3>3, <3>4, <3>5 DEF Deleting, D
  <2>2. CASE d # b
    <3>1. req'[d] = req[d]
      BY <2>2 DEF DeleteOld, Typed, RequestsOK
    <3>2. QED
      BY <1>1, <3>1 DEF CodeInv, Deleting, Replaced
  <2>3. QED
    BY <2>1, <2>2
<1>4. QED
  BY <1>2, <1>3 DEF CodeInv

\* Storing a code retires those found and no others.
LEMMA InsertKeeps ==
  ASSUME Typed, CodeInv, NEW b \in Browsers, InsertCode(b)
  PROVE  CodeInv'
<1> DEFINE row == [kind |-> req[b].kind, email |-> req[b].email,
                   agent |-> req[b].agent, tries |-> 0, saw |-> req[b].saw]
<1>1. PICK n : n = Len(codes) + 1
  OBVIOUS
<1>2. /\ Len(codes) \in Nat /\ Tokens = 1..Len(codes) /\ live \subseteq Tokens
      /\ \A t \in Tokens : codes[t] \in CodeRows(Ids) /\ accepted[t] \in Nat
  BY Numbers DEF Typed, CodesOK
<1>3. req[b] \in RequestsOf(Ids, Tokens) /\ req[b].at = "insert"
  BY DEF InsertCode, Typed, RequestsOK
<1>4. req[b].doomed \subseteq Tokens /\ req[b].saw \in Nat
  BY <1>2, <1>3 DEF RequestsOf
<1>5. /\ row.kind = req[b].kind /\ row.agent = req[b].agent /\ row.email = req[b].email
      /\ row.saw = req[b].saw /\ row.tries = 0
  OBVIOUS
<1>6. codes' = Append(codes, row)
  BY DEF InsertCode
<1> HIDE DEF row
<1>7. /\ codes'[n] = row /\ \A t \in Tokens : codes'[t] = codes[t]
      /\ accepted'[n] = 0 /\ \A t \in Tokens : accepted'[t] = accepted[t]
      /\ Tokens' = Tokens \cup {n} /\ n \in Nat /\ \A t \in Tokens : t < n
  <2>1. /\ codes'[n] = row /\ \A t \in Tokens : codes'[t] = codes[t]
        /\ Len(codes') = n
    <3>1. codes \in Seq(CodeRows(Ids)) /\ row \in CodeRows(Ids)
      BY <1>3, NewRow DEF Typed, CodesOK, row
    <3>2. QED
      BY <1>1, <1>2, <1>6, <3>1, AppendProperties
  <2>2. accepted'[n] = 0 /\ \A t \in Tokens : accepted'[t] = accepted[t]
    BY <1>1, <1>2, AppendProperties DEF InsertCode, Typed, CodesOK
  <2>3. Tokens' = 1..n
    <3>1. n = Len(accepted')
      BY <1>1, AppendProperties DEF InsertCode, Typed, CodesOK
    <3>2. DOMAIN codes' = 1..n
      BY <1>1, <1>2, <1>6, <2>1
    <3>3. QED
      BY <3>2 DEF Tokens
  <2>4. QED
    BY <1>1, <1>2, <2>1, <2>2, <2>3
<1>8. live' = (live \ req[b].doomed) \cup {n}
  BY <1>1 DEF InsertCode
<1>9. ASSUME NEW d \in Browsers PROVE Deleting(d)'
  <2>1. CASE d = b
    <3>1. req'[d].at = "mail"
      BY <1>3, <2>1 DEF InsertCode, Typed, RequestsOK, RequestsOf
    <3>2. QED
      BY <3>1 DEF Deleting
  <2>2. CASE d # b
    <3>1. req'[d] = req[d]
      BY <2>2 DEF InsertCode, Typed, RequestsOK
    <3> SUFFICES ASSUME req[d].at = "insert"
                 PROVE  /\ req[d].saw <= Len(codes')
                        /\ \A t \in req[d].doomed : t <= req[d].saw /\ Replaced(t, req[d])'
                        /\ \A t \in live' : (t <= req[d].saw /\ Replaced(t, req[d])') => t \in req[d].doomed
      BY <3>1 DEF Deleting
    <3>2. req[d].doomed \subseteq Tokens /\ req[d].saw \in Nat
      BY <1>2 DEF Typed, RequestsOK, RequestsOf
    <3>3. Deleting(d)
      BY DEF CodeInv
    <3>4. \A t \in Tokens : Replaced(t, req[d])' <=> Replaced(t, req[d])
      BY <1>7, <3>1 DEF Replaced
    <3>5. ASSUME NEW t \in live', t <= req[d].saw, Replaced(t, req[d])' PROVE t \in req[d].doomed
      <4>1. t # n
        BY <1>1, <1>2, <3>2, <3>3, <3>5 DEF Deleting
      <4>2. t \in live /\ t \in Tokens
        BY <1>2, <1>8, <4>1
      <4>3. QED
        BY <3>3, <3>4, <3>5, <4>2 DEF Deleting
    <3>6. req[d].saw <= Len(codes')
      <4>1. Len(codes') = n
        BY <1>1, <1>2, <1>6
      <4>2. QED
        BY <1>1, <1>2, <3>2, <3>3, <4>1 DEF Deleting
    <3>7. QED
      BY <3>2, <3>3, <3>4, <3>5, <3>6 DEF Deleting
  <2>3. QED
    BY <2>1, <2>2
<1>10. Unspent'
  BY <1>2, <1>7, <1>8 DEF CodeInv, Unspent
<1>11. SpentOnce'
  <2> SUFFICES ASSUME NEW t \in Tokens'
               PROVE  /\ codes'[t].tries <= CodeTries
                      /\ accepted'[t] <= 1
                      /\ accepted'[t] = 1 => t \notin live'
    BY DEF SpentOnce
  <2>1. CASE t = n
    BY <1>5, <1>7, <2>1, AccountsAssumption
  <2>2. CASE t \in Tokens
    <3>1. t # n
      BY <1>1, <1>2, <2>2
    <3>2. QED
      BY <1>7, <1>8, <2>2, <3>1 DEF CodeInv, SpentOnce
  <2>3. QED
    BY <1>7, <2>1, <2>2
<1>12. CodesReplacedByNewer'
  <2>1. ASSUME NEW t \in Tokens
        PROVE  SameOwner(t, n)' <=> Replaced(t, req[b])
    BY <1>3, <1>5, <1>7, Owners DEF SameOwner
  <2>2. ASSUME NEW t \in Tokens, NEW u \in Tokens
        PROVE  SameOwner(t, u)' <=> SameOwner(t, u)
    BY <1>7 DEF SameOwner
  <2>3. Deleting(b) /\ CodesReplacedByNewer
    BY DEF CodeInv
  <2>4. ASSUME NEW t \in Tokens', NEW u \in live', t \in live', t < u, SameOwner(t, u)'
        PROVE  codes'[u].saw < t
    <3>1. t # n /\ t \in live /\ t \in Tokens /\ t \notin req[b].doomed
      <4>1. u \in Tokens'
        BY <1>2, <1>7, <1>8
      <4>2. t # n
        BY <1>1, <1>2, <1>7, <2>4, <4>1
      <4>3. QED
        BY <1>2, <1>8, <2>4, <4>2
    <3>2. CASE u = n
      <4>1. Replaced(t, req[b])
        BY <2>1, <2>4, <3>1, <3>2
      <4>2. ~(t <= req[b].saw)
        BY <1>3, <2>3, <3>1, <4>1 DEF Deleting
      <4>3. QED
        BY <1>2, <1>4, <1>5, <1>7, <3>1, <3>2, <4>2
    <3>3. CASE u # n
      <4>1. u \in live /\ u \in Tokens
        BY <1>2, <1>8, <3>3
      <4>2. QED
        BY <1>7, <2>2, <2>3, <2>4, <3>1, <4>1 DEF CodesReplacedByNewer
    <3>4. QED
      BY <3>2, <3>3
  <2>5. ASSUME NEW t \in Tokens', t \notin live', accepted'[t] = 0
        PROVE  \E u \in Tokens' : t < u /\ SameOwner(t, u)' /\ codes'[u].saw >= t
    <3>1. t # n /\ t \in Tokens
      BY <1>7, <1>8, <2>5
    <3>2. CASE t \in live
      <4>1. t \in req[b].doomed
        BY <1>8, <2>5, <3>2
      <4>2. t <= req[b].saw /\ Replaced(t, req[b])
        BY <1>3, <2>3, <4>1 DEF Deleting
      <4>3. n \in Tokens' /\ t < n /\ SameOwner(t, n)' /\ codes'[n].saw >= t
        BY <1>2, <1>4, <1>5, <1>7, <2>1, <3>1, <4>2
      <4>4. QED
        BY <4>3
    <3>3. CASE t \notin live
      <4>1. PICK u \in Tokens : t < u /\ SameOwner(t, u) /\ codes[u].saw >= t
        BY <1>7, <2>3, <2>5, <3>1, <3>3 DEF CodesReplacedByNewer
      <4>2. u \in Tokens' /\ SameOwner(t, u)' /\ codes'[u].saw >= t
        BY <1>7, <2>2, <3>1, <4>1
      <4>3. QED
        BY <4>1, <4>2
    <3>4. QED
      BY <3>2, <3>3
  <2>6. QED
    BY <2>4, <2>5 DEF CodesReplacedByNewer
<1>13. QED
  BY <1>9, <1>10, <1>11, <1>12 DEF CodeInv

\* A wrong code counts towards the limit and changes no owner.
LEMMA WrongKeeps ==
  ASSUME Typed, CodeInv, NEW b \in Browsers, NEW t \in Tokens, WrongCode(b, t)
  PROVE  CodeInv'
<1>1. /\ Tokens = 1..Len(codes) /\ codes \in Seq(CodeRows(Ids)) /\ codes[t] \in CodeRows(Ids)
      /\ \A u \in Tokens : codes[u] \in CodeRows(Ids)
  BY Numbers DEF Typed, CodesOK
<1>2. UNCHANGED <<live, accepted, req>> /\ Tokens' = Tokens
  BY DEF WrongCode, Tokens
<1>3. codes' = [codes EXCEPT ![t].tries = @ + 1]
  BY DEF WrongCode
<1>4. \A u \in Tokens : u # t => codes'[u] = codes[u]
  BY <1>1, <1>3
<1>5. /\ codes'[t].kind = codes[t].kind /\ codes'[t].agent = codes[t].agent
      /\ codes'[t].email = codes[t].email /\ codes'[t].saw = codes[t].saw
      /\ codes'[t].tries = codes[t].tries + 1
  BY <1>1, <1>3 DEF CodeRows
<1>6. codes[t].tries \in Nat /\ codes[t].tries < CodeTries
  BY <1>1 DEF WrongCode, Confirming, Usable, CodeRows
<1>7. ASSUME NEW d \in Browsers PROVE Deleting(d)'
  <2>1. ASSUME NEW u \in Tokens PROVE Replaced(u, req[d])' <=> Replaced(u, req[d])
    BY <1>2, <1>4, <1>5 DEF Replaced
  <2>2. Len(codes') = Len(codes)
    BY <1>1, <1>3
  <2>3. live \subseteq Tokens /\ req[d].doomed \subseteq Tokens
    BY DEF Typed, CodesOK, RequestsOK, RequestsOf
  <2>4. Deleting(d)
    BY DEF CodeInv
  <2>5. QED
    BY <1>2, <2>1, <2>2, <2>3, <2>4 DEF Deleting
<1>8. Unspent'
  BY <1>2 DEF CodeInv, Unspent
<1>9. SpentOnce'
  <2> SUFFICES ASSUME NEW u \in Tokens
               PROVE  /\ codes'[u].tries <= CodeTries
                      /\ accepted'[u] <= 1
                      /\ accepted'[u] = 1 => u \notin live'
    BY <1>2 DEF SpentOnce
  <2>1. codes'[u].tries <= CodeTries
    <3>1. CASE u = t
      BY <1>5, <1>6, <3>1, AccountsAssumption
    <3>2. CASE u # t
      BY <1>4, <3>2 DEF CodeInv, SpentOnce
    <3>3. QED
      BY <3>1, <3>2
  <2>2. QED
    BY <1>2, <2>1 DEF CodeInv, SpentOnce
<1>10. CodesReplacedByNewer'
  <2>1. ASSUME NEW u \in Tokens, NEW v \in Tokens
        PROVE  (SameOwner(u, v)' <=> SameOwner(u, v)) /\ codes'[v].saw = codes[v].saw
    BY <1>4, <1>5 DEF SameOwner
  <2>2. live \subseteq Tokens
    BY DEF Typed, CodesOK
  <2>3. QED
    BY <1>2, <2>1, <2>2 DEF CodeInv, CodesReplacedByNewer
<1>11. QED
  BY <1>7, <1>8, <1>9, <1>10 DEF CodeInv

\* A code that could be used is accepted for the first time and leaves.
LEMMA AcceptKeeps ==
  ASSUME Typed, CodeInv, NEW t \in live, Accept(t), UNCHANGED <<codes, req>>
  PROVE  CodeInv'
<1>1. /\ t \in Tokens /\ Tokens' = Tokens /\ live' = live \ {t}
      /\ Tokens = 1..Len(codes) /\ accepted \in Seq(Nat) /\ Len(accepted) = Len(codes)
  BY Numbers DEF Accept, Typed, CodesOK, Tokens
<1>2. accepted[t] = 0
  BY DEF CodeInv, Unspent
<1>3. accepted'[t] = 1 /\ \A u \in Tokens : u # t => accepted'[u] = accepted[u]
  BY <1>1, <1>2 DEF Accept
<1>4. ASSUME NEW d \in Browsers PROVE Deleting(d)'
  BY <1>1 DEF CodeInv, Deleting, Replaced
<1>5. Unspent'
  <2>1. live \subseteq Tokens
    BY DEF Typed, CodesOK
  <2>2. QED
    BY <1>1, <1>3, <2>1 DEF CodeInv, Unspent
<1>6. SpentOnce'
  BY <1>1, <1>3 DEF CodeInv, SpentOnce
<1>7. CodesReplacedByNewer'
  <2>1. \A u, v : SameOwner(u, v)' <=> SameOwner(u, v)
    BY DEF SameOwner
  <2>2. QED
    BY <1>1, <1>3, <2>1 DEF CodeInv, CodesReplacedByNewer
<1>8. QED
  BY <1>4, <1>5, <1>6, <1>7 DEF CodeInv

\* Every step keeps what is said of codes.
LEMMA CodeNext == Typed /\ CodeInv /\ [Next]_vars => CodeInv'
<1> SUFFICES ASSUME Typed, CodeInv, [Next]_vars PROVE CodeInv'
  OBVIOUS
<1>a. req \in [Browsers -> RequestsOf(Ids, Tokens)] /\ Idle.at = "idle"
  BY EmptyShapes DEF Typed, RequestsOK
<1>1. ASSUME NEW b \in Browsers, ConfirmRegistration(b) \/ ConfirmReset(b) PROVE CodeInv'
  BY <1>1, AcceptKeeps DEF ConfirmRegistration, ConfirmReset, Confirming, Usable
<1>2. ASSUME NEW b \in Browsers, NEW r, r.at # "insert",
             UNCHANGED <<codes, live, accepted>>,
             UNCHANGED req \/ req' = [req EXCEPT ![b] = r]
      PROVE  CodeInv'
  BY <1>a, <1>2, CodeKept
<1>3. ASSUME NEW b \in Browsers, MailCode(b) \/ StoreSocial(b) \/ StoreLink(b)
      PROVE  CodeInv'
  BY <1>a, <1>2, <1>3 DEF MailCode, StoreSocial, StoreLink, Answer
<1>4. ASSUME NEW b \in Browsers, NEW e \in Emails, BeginRegistration(b, e) \/ BeginReset(b, e)
      PROVE  CodeInv'
  <2>1. /\ UNCHANGED <<codes, live, accepted>>
        /\ UNCHANGED req \/ \E r : r.at = "delete" /\ req' = [req EXCEPT ![b] = r]
    BY <1>4 DEF BeginRegistration, BeginReset, Idle
  <2>2. QED
    BY <1>a, <2>1, CodeKept
<1>5. ASSUME NEW b \in Browsers, NEW s \in Subjects, SocialLogin(b, s) \/ LinkSocial(b, s)
      PROVE  CodeInv'
  <2>1. UNCHANGED <<codes, live, accepted>>
    BY <1>5 DEF SocialLogin, LinkSocial
  <2>2. CASE UNCHANGED req
    BY <2>1, <2>2, CodeKept
  <2>3. CASE req' = [req EXCEPT ![b] = [Idle EXCEPT !.at = "social", !.subject = s]]
    <3>1. req'[b].at = "social"
      BY <1>a, <2>3 DEF Idle
    <3>2. \A d \in Browsers : d # b => req'[d] = req[d]
      BY <1>a, <2>3
    <3>3. QED
      BY <2>1, <3>1, <3>2, CodeKept
  <2>4. CASE req' = [req EXCEPT ![b] =
               [Idle EXCEPT !.at = "link", !.subject = s, !.agent = cookie[b].agent]]
    <3>1. req'[b].at = "link"
      BY <1>a, <2>4 DEF Idle
    <3>2. \A d \in Browsers : d # b => req'[d] = req[d]
      BY <1>a, <2>4
    <3>3. QED
      BY <2>1, <3>1, <3>2, CodeKept
  <2>5. QED
    BY <1>5, <2>2, <2>3, <2>4 DEF SocialLogin, LinkSocial
<1>6. ASSUME NEW b \in Browsers, FindByEmail(b) PROVE CodeInv'
  <2>1. PICK a : req' = [req EXCEPT ![b] = [@ EXCEPT !.at = "identity", !.agent = a]]
    BY <1>6 DEF FindByEmail
  <2>2. req'[b].at = "identity" /\ \A d \in Browsers : d # b => req'[d] = req[d]
    BY <1>a, <2>1 DEF RequestsOf
  <2>3. QED
    BY <1>6, <2>2, CodeKept DEF FindByEmail
<1>7. CASE UNCHANGED <<codes, live, accepted, req>>
  BY <1>7, CodeKept
<1>8. \/ UNCHANGED <<codes, live, accepted, req>>
      \/ \E b \in Browsers :
           \/ DeleteOld(b) \/ InsertCode(b) \/ MailCode(b)
           \/ \E e \in Emails : BeginRegistration(b, e) \/ BeginReset(b, e)
           \/ \E t \in Tokens : WrongCode(b, t)
           \/ ConfirmRegistration(b) \/ ConfirmReset(b)
           \/ \E s \in Subjects : SocialLogin(b, s) \/ LinkSocial(b, s)
           \/ FindByEmail(b) \/ StoreSocial(b) \/ StoreLink(b)
  BY DEF Next, vars, Login, Logout, Visit, BeginEmailChange, ConfirmEmailChange, Expire, SetBlocked
<1>9. QED
  BY <1>1, <1>3, <1>4, <1>5, <1>6, <1>7, <1>8, DeleteKeeps, InsertKeeps, WrongKeeps

\* What is said of codes holds always.
LEMMA CodeInvariant == Spec => []CodeInv
<1>1. Init => CodeInv
  BY DEF Init, CodeInv, Deleting, Unspent, SpentOnce, CodesReplacedByNewer, Tokens, Idle
<1>2. QED
  BY <1>1, CodeNext, TypedInvariant, PTL DEF Spec

\* What was accepted had not expired and had entries left.
AcceptedInTime ==
  \A t \in Tokens : accepted[t] = 1 => t \notin expired /\ codes[t].tries < CodeTries

\* Only live codes expire or are tried, and only usable ones are accepted.
LEMMA InTimeNext == Typed /\ CodeInv /\ AcceptedInTime /\ [Next]_vars => AcceptedInTime'
<1> SUFFICES ASSUME Typed, CodeInv, AcceptedInTime, [Next]_vars PROVE AcceptedInTime'
  OBVIOUS
<1>a. /\ live \subseteq Tokens /\ \A t \in live : accepted[t] = 0
      /\ Tokens = 1..Len(codes) /\ Len(codes) \in Nat
      /\ accepted \in Seq(Nat) /\ Len(accepted) = Len(codes)
      /\ codes \in Seq(CodeRows(Ids)) /\ \A t \in Tokens : codes[t] \in CodeRows(Ids)
  BY Numbers DEF CodeInv, Unspent, Typed, CodesOK, Tokens
<1>1. ASSUME NEW b \in Browsers, InsertCode(b) PROVE AcceptedInTime'
  <2>1. PICK row : codes' = Append(codes, row)
    BY <1>1 DEF InsertCode
  <2>2. accepted' = Append(accepted, 0) /\ UNCHANGED expired
    BY <1>1 DEF InsertCode
  <2>3. PICK n : n = Len(codes) + 1
    OBVIOUS
  <2>4. accepted'[n] = 0 /\ \A t \in Tokens : accepted'[t] = accepted[t]
    BY <1>a, <2>2, <2>3
  <2>5. DOMAIN codes' = 1..n /\ \A t \in Tokens : codes'[t] = codes[t]
    BY <1>a, <2>1, <2>3
  <2>6. \A t \in Tokens' : t \in Tokens \/ t = n
    BY <1>a, <2>3, <2>5 DEF Tokens
  <2>7. ASSUME NEW t \in Tokens', accepted'[t] = 1
        PROVE  t \notin expired' /\ codes'[t].tries < CodeTries
    <3>1. t # n /\ 0 # 1
      BY <2>4, <2>7
    <3>2. t \in Tokens
      BY <2>6, <3>1
    <3>3. t \notin expired /\ codes[t].tries < CodeTries
      BY <2>4, <2>7, <3>2 DEF AcceptedInTime
    <3>4. QED
      BY <2>2, <2>5, <3>2, <3>3
  <2>8. QED
    BY <2>7 DEF AcceptedInTime
<1>2. ASSUME NEW b \in Browsers, NEW t \in Tokens, WrongCode(b, t) PROVE AcceptedInTime'
  <2>1. t \in live /\ UNCHANGED <<accepted, expired>>
    BY <1>2 DEF WrongCode, Confirming, Usable
  <2>2. Tokens' = Tokens /\ \A u \in Tokens : u # t => codes'[u] = codes[u]
    BY <1>2, <1>a DEF WrongCode, Tokens
  <2>3. QED
    BY <1>a, <2>1, <2>2 DEF AcceptedInTime
<1>3. ASSUME NEW b \in Browsers, ConfirmRegistration(b) \/ ConfirmReset(b)
      PROVE  AcceptedInTime'
  <2>1. PICK t \in Tokens : Usable(t) /\ Accept(t) /\ UNCHANGED <<codes, expired>>
    BY <1>3 DEF ConfirmRegistration, ConfirmReset, Confirming
  <2>2. Tokens' = Tokens /\ \A u \in Tokens : u # t => accepted'[u] = accepted[u]
    BY <1>a, <2>1 DEF Accept, Tokens
  <2>3. QED
    BY <2>1, <2>2 DEF AcceptedInTime, Usable
<1>4. CASE Expire
  <2>1. /\ UNCHANGED <<codes, accepted>>
        /\ expired' = expired \/ \E t \in live : expired' = expired \cup {t}
    BY <1>4 DEF Expire
  <2>2. QED
    BY <1>a, <2>1 DEF AcceptedInTime, Tokens
<1>5. CASE UNCHANGED <<codes, accepted, expired>>
  BY <1>5 DEF AcceptedInTime, Tokens
<1>6. QED
  BY <1>1, <1>2, <1>3, <1>4, <1>5
  DEF Next, vars, Login, Logout, Visit, BeginRegistration, BeginReset, BeginEmailChange,
      ConfirmEmailChange, DeleteOld, MailCode, SocialLogin, LinkSocial, FindByEmail,
      StoreSocial, StoreLink, SetBlocked

\* A code opens one account or sets one password, once, while it has neither
\* expired nor met the limit of wrong entries.
THEOREM CodesCorrect == Spec => []CodesSpentOnce
<1>1. Init => AcceptedInTime
  BY DEF Init, AcceptedInTime, Tokens
<1>2. CodeInv /\ AcceptedInTime => CodesSpentOnce
  BY DEF CodeInv, SpentOnce, AcceptedInTime, CodesSpentOnce
<1>3. QED
  BY <1>1, <1>2, CodeInvariant, InTimeNext, TypedInvariant, PTL DEF Spec

\* A new code retires the earlier ones of its address and nothing else does.
THEOREM ReplacedCorrect == Spec => []CodesReplacedByNewer
<1>1. CodeInv => CodesReplacedByNewer
  BY DEF CodeInv
<1>2. QED
  BY <1>1, CodeInvariant, PTL

=============================================================================
