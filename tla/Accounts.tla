------------------------------ MODULE Accounts ------------------------------
(***************************************************************************)
(* Partner accounts: registration and password reset by a mailed code,     *)
(* password and social logins, linked identities, a changed e-mail.        *)
(*                                                                         *)
(* A browser has one request open at a time and keeps its session in a     *)
(* signed cookie, which changes with the answer.  Requests of different    *)
(* browsers interleave between database statements.  A confirmation locks  *)
(* the row of its code from the first statement to the commit, so it is    *)
(* one action.  Requests refused before they touch anything (limits, CSRF, *)
(* invalid fields) and answers that change nothing are not represented.    *)
(***************************************************************************)
EXTENDS Integers, Sequences, FiniteSets

CONSTANTS
  Browsers,
  Emails,
  NoEmail,
  AdminEmails,  \* admin_email_set
  Subjects,     \* accounts at Yandex (Telegram's have no e-mail and are not linked)
  EmailOf,      \* default e-mail of each, or NoEmail
  CodeTries,    \* wrong codes after which a code is dead (5)
  MaxAgents,    \* bound: agents
  MaxCodes      \* bound: codes issued

ASSUME AccountsAssumption ==
  /\ NoEmail \notin Emails
  /\ AdminEmails \subseteq Emails
  /\ EmailOf \in [Subjects -> Emails \cup {NoEmail}]
  /\ CodeTries \in Nat \ {0}
  /\ MaxAgents \in Nat
  /\ MaxCodes \in Nat

VARIABLES
  agents,      \* table agents, by id
  passwords,   \* table agent_credentials: the code that set it (0: no row)
  identities,  \* table agent_identities: the agent of each subject (0: no row)
  blocked,     \* agents whose is_active is off
  codes,       \* codes issued, by token, in the order of their commits
  live,        \* tokens in the tables of pending registrations and resets
  expired,     \* tokens past expires_at
  cookie,      \* session of each browser
  req,         \* the request each browser has open
  accepted     \* history: how often each code was accepted

vars == <<agents, passwords, identities, blocked, codes, live, expired, cookie,
          req, accepted>>

Kinds == {"register", "reset"}
Ids == DOMAIN agents
Tokens == DOMAIN codes
AgentIds == 0..MaxAgents
NoChange == [email |-> NoEmail, tries |-> 0, expired |-> FALSE]
SignedOut ==
  [agent |-> 0, admin |-> 0, register |-> 0, reset |-> 0, change |-> NoChange]
Idle == [at |-> "idle", kind |-> "none", email |-> NoEmail, agent |-> 0,
         subject |-> "none", doomed |-> {}, saw |-> 0]

Holders(e) == {a \in Ids : agents[a].email = e}
Taken(e) == e # NoEmail /\ Holders(e) # {}

Init ==
  /\ agents = <<>>
  /\ passwords = <<>>
  /\ identities = [s \in Subjects |-> 0]
  /\ blocked = {}
  /\ codes = <<>>
  /\ live = {}
  /\ expired = {}
  /\ cookie = [b \in Browsers |-> SignedOut]
  /\ req = [b \in Browsers |-> Idle]
  /\ accepted = <<>>

-----------------------------------------------------------------------------
(* Sessions *)

\* session.clear(), then the agent, or the administrator's pending second step.
NextAfterLogin(session, a) ==
  IF agents'[a].admin THEN [SignedOut EXCEPT !.admin = a]
                      ELSE [SignedOut EXCEPT !.agent = a]

Enter(b, a) == cookie' = [cookie EXCEPT ![b] = NextAfterLogin(cookie[b], a)]

\* Social logins go straight in, whatever the role.
LogIn(b, a) == cookie' = [cookie EXCEPT ![b] = [SignedOut EXCEPT !.agent = a]]

Waiting(b) == req[b] = Idle
Answer(b) == req' = [req EXCEPT ![b] = Idle]

\* The right password; a wrong one changes nothing.
Login(b, a) ==
  /\ Waiting(b)
  /\ agents[a].email # NoEmail
  /\ passwords[a] # 0
  /\ a \notin blocked
  /\ UNCHANGED <<agents, passwords, identities, blocked, codes, live, expired,
                 req, accepted>>
  /\ Enter(b, a)

Logout(b) ==
  /\ Waiting(b)
  /\ cookie' = [cookie EXCEPT ![b] = SignedOut]
  /\ UNCHANGED <<agents, passwords, identities, blocked, codes, live, expired,
                 req, accepted>>

\* Any request of a blocked agent's session ends the session.
Visit(b) ==
  /\ Waiting(b)
  /\ cookie[b].agent \in blocked
  /\ cookie' = [cookie EXCEPT ![b] = SignedOut]
  /\ UNCHANGED <<agents, passwords, identities, blocked, codes, live, expired,
                 req, accepted>>

-----------------------------------------------------------------------------
(* begin_registration and begin_password_reset *)

\* A taken address is answered like a free one, but ends the registration the
\* browser may have begun before.
BeginRegistration(b, e) ==
  /\ Waiting(b)
  /\ Len(codes) < MaxCodes
  /\ IF Taken(e)
     THEN /\ cookie' = [cookie EXCEPT ![b].register = 0]
          /\ UNCHANGED req
     ELSE /\ req' = [req EXCEPT ![b] =
               [Idle EXCEPT !.at = "delete", !.kind = "register", !.email = e]]
          /\ UNCHANGED cookie
  /\ UNCHANGED <<agents, passwords, identities, blocked, codes, live, expired, accepted>>

BeginReset(b, e) ==
  /\ Waiting(b)
  /\ Len(codes) < MaxCodes
  /\ IF Taken(e)
     THEN /\ \E a \in Holders(e) : req' = [req EXCEPT ![b] =
               [Idle EXCEPT !.at = "delete", !.kind = "reset", !.email = e, !.agent = a]]
          /\ UNCHANGED cookie
     ELSE /\ cookie' = [cookie EXCEPT ![b].reset = 0]
          /\ UNCHANGED req
  /\ UNCHANGED <<agents, passwords, identities, blocked, codes, live, expired, accepted>>

\* Mutated: the rows of other addresses go too.
AnyOfKind(t, r) == codes[t].kind = r.kind

\* Registrations are keyed by the address, resets by the agent.
Replaced(t, r) ==
  /\ codes[t].kind = r.kind
  /\ IF r.kind = "register" THEN codes[t].email = r.email ELSE codes[t].agent = r.agent

DeleteOld(b) ==
  /\ req[b].at = "delete"
  /\ req' = [req EXCEPT ![b] =
       [@ EXCEPT !.at = "insert", !.saw = Len(codes),
                 !.doomed = {t \in live : Replaced(t, req[b])}]]
  /\ UNCHANGED <<agents, passwords, identities, blocked, codes, live, expired,
                 cookie, accepted>>

\* INSERT and commit, which also makes the deletion visible.
InsertCode(b) ==
  /\ req[b].at = "insert"
  /\ Len(codes) < MaxCodes
  /\ codes' = Append(codes, [kind |-> req[b].kind, email |-> req[b].email,
                             agent |-> req[b].agent, tries |-> 0, saw |-> req[b].saw])
  /\ live' = (live \ req[b].doomed) \cup {Len(codes) + 1}
  /\ accepted' = Append(accepted, 0)
  /\ req' = [req EXCEPT ![b] = [@ EXCEPT !.at = "mail", !.saw = Len(codes) + 1]]
  /\ UNCHANGED <<agents, passwords, identities, blocked, expired, cookie>>

\* send_code works and the answer stores the token; or it fails, and the cookie
\* stays as it was, while the row stays in the table.
MailCode(b) ==
  /\ req[b].at = "mail"
  /\ \/ cookie' = [cookie EXCEPT ![b] =
          IF req[b].kind = "register" THEN [@ EXCEPT !.register = req[b].saw]
                                      ELSE [@ EXCEPT !.reset = req[b].saw]]
     \/ UNCHANGED cookie
  /\ Answer(b)
  /\ UNCHANGED <<agents, passwords, identities, blocked, codes, live, expired, accepted>>

-----------------------------------------------------------------------------
(* confirm_registration and confirm_password_reset *)

\* Mutated: one try too many.
UsableLonger(t) == t \in live /\ t \notin expired /\ codes[t].tries <= CodeTries

Usable(t) == t \in live /\ t \notin expired /\ codes[t].tries < CodeTries

\* SELECT ... FOR UPDATE waits for a transaction that has deleted the row.
Unlocked(t) == \A b \in Browsers : req[b].at = "insert" => t \notin req[b].doomed

\* The confirmation in a browser reaches a code that can be used.
Confirming(b, t) ==
  /\ Waiting(b)
  /\ t \in Tokens
  /\ Unlocked(t)
  /\ Usable(t)

WrongCode(b, t) ==
  /\ t \in {cookie[b].register, cookie[b].reset}
  /\ Confirming(b, t)
  /\ codes' = [codes EXCEPT ![t].tries = @ + 1]
  /\ UNCHANGED <<agents, passwords, identities, blocked, live, expired, cookie,
                 req, accepted>>

Accept(t) ==
  /\ live' = live \ {t}
  /\ accepted' = [accepted EXCEPT ![t] = @ + 1]

\* The address is not tested again: the unique key refuses a taken one, and the
\* transaction is rolled back.
ConfirmRegistration(b) ==
  LET t == cookie[b].register IN
  /\ Confirming(b, t)
  /\ ~Taken(codes[t].email)
  /\ Len(agents) < MaxAgents
  /\ agents' = Append(agents, [email |-> codes[t].email,
                               admin |-> codes[t].email \in AdminEmails])
  /\ passwords' = Append(passwords, t)
  /\ Accept(t)
  /\ Enter(b, Len(agents) + 1)
  /\ UNCHANGED <<identities, blocked, codes, expired, req>>

\* An agent without a credential is an error and keeps the code.
ConfirmReset(b) ==
  LET t == cookie[b].reset IN
  /\ Confirming(b, t)
  /\ passwords[codes[t].agent] # 0
  /\ passwords' = [passwords EXCEPT ![codes[t].agent] = t]
  /\ Accept(t)
  /\ UNCHANGED agents
  /\ Enter(b, codes[t].agent)
  /\ UNCHANGED <<identities, blocked, codes, expired, req>>

-----------------------------------------------------------------------------
(* login_social_agent and link_social_identity *)

SocialLogin(b, s) ==
  /\ Waiting(b)
  /\ IF identities[s] # 0
     THEN LogIn(b, identities[s]) /\ UNCHANGED req
     ELSE /\ req' = [req EXCEPT ![b] = [Idle EXCEPT !.at = "social", !.subject = s]]
          /\ UNCHANGED cookie
  /\ UNCHANGED <<agents, passwords, identities, blocked, codes, live, expired, accepted>>

\* The agent of the profile's e-mail, if there is one.
FindByEmail(b) ==
  /\ req[b].at = "social"
  /\ \E a \in IF Taken(EmailOf[req[b].subject])
              THEN Holders(EmailOf[req[b].subject]) ELSE {0} :
       req' = [req EXCEPT ![b] = [@ EXCEPT !.at = "identity", !.agent = a]]
  /\ UNCHANGED <<agents, passwords, identities, blocked, codes, live, expired,
                 cookie, accepted>>

\* Mutated: the identity found missing is not expected to appear meanwhile.
RefusedByEmail(r) == r.agent = 0 /\ Taken(EmailOf[r.subject])

\* The unique keys of e-mails and identities.
Refused(r) ==
  \/ identities[r.subject] # 0
  \/ r.agent = 0 /\ Taken(EmailOf[r.subject])

\* Mutated: the new agent is committed before its identity.
AgentsAfter(r) ==
  IF r.agent = 0 /\ ~Taken(EmailOf[r.subject])
  THEN Append(agents, [email |-> EmailOf[r.subject], admin |-> FALSE]) ELSE agents

\* New agents and their identity are stored together or not at all.
AgentsWith(r) ==
  IF r.agent = 0 /\ ~Refused(r)
  THEN Append(agents, [email |-> EmailOf[r.subject], admin |-> FALSE]) ELSE agents

\* The commit of a first social login: a new agent, or one matched by e-mail,
\* gets the identity; otherwise the login fails.
StoreSocial(b) ==
  LET r == req[b]
      id == IF r.agent = 0 THEN Len(agents) + 1 ELSE r.agent IN
  /\ r.at = "identity"
  /\ id <= MaxAgents
  /\ agents' = AgentsWith(r)
  /\ passwords' = [a \in DOMAIN agents' |-> IF a \in Ids THEN passwords[a] ELSE 0]
  /\ IF Refused(r)
     THEN UNCHANGED <<identities, cookie>>
     ELSE /\ identities' = [identities EXCEPT ![r.subject] = id]
          /\ LogIn(b, id)
  /\ Answer(b)
  /\ UNCHANGED <<blocked, codes, live, expired, accepted>>

LinkSocial(b, s) ==
  /\ Waiting(b)
  /\ cookie[b].agent # 0
  /\ identities[s] = 0
  /\ req' = [req EXCEPT ![b] =
       [Idle EXCEPT !.at = "link", !.subject = s, !.agent = cookie[b].agent]]
  /\ UNCHANGED <<agents, passwords, identities, blocked, codes, live, expired,
                 cookie, accepted>>

StoreLink(b) ==
  LET r == req[b] IN
  /\ r.at = "link"
  /\ identities' = IF Refused(r) THEN identities
                   ELSE [identities EXCEPT ![r.subject] = r.agent]
  /\ Answer(b)
  /\ UNCHANGED <<agents, passwords, blocked, codes, live, expired, cookie, accepted>>

-----------------------------------------------------------------------------
(* The change of the e-mail, which keeps its code in the cookie *)

BeginEmailChange(b, e) ==
  LET a == cookie[b].agent IN
  /\ Waiting(b)
  /\ a \in Ids \ blocked
  /\ passwords[a] # 0
  /\ ~Taken(e)
  /\ cookie' = [cookie EXCEPT ![b].change = [NoChange EXCEPT !.email = e]]
  /\ UNCHANGED <<agents, passwords, identities, blocked, codes, live, expired,
                 req, accepted>>

\* A dead request is dropped, a wrong code counted; a taken address drops the
\* request, or, taken since it was tested, fails the commit and keeps it.
ConfirmEmailChange(b) ==
  LET a == cookie[b].agent
      c == cookie[b].change
      dead == c.expired \/ c.tries >= CodeTries IN
  /\ Waiting(b)
  /\ a \in Ids \ blocked
  /\ c # NoChange
  /\ \/ /\ dead \/ Taken(c.email)
        /\ cookie' = [cookie EXCEPT ![b].change = NoChange]
        /\ UNCHANGED agents
     \/ /\ ~dead
        /\ cookie' = [cookie EXCEPT ![b].change.tries = @ + 1]
        /\ UNCHANGED agents
     \/ /\ ~dead
        /\ ~Taken(c.email)
        /\ agents' = [agents EXCEPT ![a].email = c.email]
        /\ cookie' = [cookie EXCEPT ![b].change = NoChange]
  /\ UNCHANGED <<passwords, identities, blocked, codes, live, expired, req, accepted>>

-----------------------------------------------------------------------------

Expire ==
  /\ \/ \E t \in live \ expired : expired' = expired \cup {t} /\ UNCHANGED cookie
     \/ \E b \in Browsers :
          /\ cookie[b].change # NoChange
          /\ ~cookie[b].change.expired
          /\ cookie' = [cookie EXCEPT ![b].change.expired = TRUE]
          /\ UNCHANGED expired
  /\ UNCHANGED <<agents, passwords, identities, blocked, codes, live, req, accepted>>

\* An administrator blocks a partner, or lets one in again.
SetBlocked(a) ==
  /\ ~agents[a].admin
  /\ blocked' = IF a \in blocked THEN blocked \ {a} ELSE blocked \cup {a}
  /\ UNCHANGED <<agents, passwords, identities, codes, live, expired, cookie,
                 req, accepted>>

Next ==
  \/ \E b \in Browsers :
       \/ \E a \in Ids : Login(b, a)
       \/ Logout(b)
       \/ Visit(b)
       \/ \E e \in Emails :
            BeginRegistration(b, e) \/ BeginReset(b, e) \/ BeginEmailChange(b, e)
       \/ DeleteOld(b)
       \/ InsertCode(b)
       \/ MailCode(b)
       \/ \E t \in Tokens : WrongCode(b, t)
       \/ ConfirmRegistration(b)
       \/ ConfirmReset(b)
       \/ \E s \in Subjects : SocialLogin(b, s) \/ LinkSocial(b, s)
       \/ FindByEmail(b)
       \/ StoreSocial(b)
       \/ StoreLink(b)
       \/ ConfirmEmailChange(b)
  \/ Expire
  \/ \E a \in Ids : SetBlocked(a)

Spec == Init /\ [][Next]_vars

-----------------------------------------------------------------------------
(* Properties *)

\* Tables, cookies and requests keep their shape; ids and tokens that cookies
\* and rows hold exist, and no session is both a partner's and an
\* administrator's half way through the login.
TypeOK ==
  /\ agents \in Seq([email : Emails \cup {NoEmail}, admin : BOOLEAN])
  /\ passwords \in [Ids -> Tokens \cup {0}]
  /\ identities \in [Subjects -> Ids \cup {0}]
  /\ blocked \subseteq Ids
  /\ live \subseteq Tokens /\ expired \subseteq Tokens
  /\ Len(accepted) = Len(codes)
  /\ \A b \in Browsers :
       /\ cookie[b].agent \in Ids \cup {0}
       /\ cookie[b].admin \in Ids \cup {0}
       /\ 0 \in {cookie[b].agent, cookie[b].admin}
       /\ {cookie[b].register, cookie[b].reset} \subseteq Tokens \cup {0}

\* A code opens one account or sets one password, once, in time and with fewer
\* than CodeTries wrong entries before, and is gone then, in whatever order
\* browsers confirm, begin again and block each other on its row
\* (confirm_registration, confirm_password_reset).
CodesSpentOnce ==
  \A t \in Tokens :
    /\ codes[t].tries <= CodeTries
    /\ accepted[t] <= 1
    /\ accepted[t] = 1 => t \notin live \cup expired /\ codes[t].tries < CodeTries

SameOwner(t, u) ==
  /\ codes[t].kind = codes[u].kind
  /\ codes[t].agent = codes[u].agent
  /\ codes[t].kind = "register" => codes[t].email = codes[u].email

\* A new code retires the earlier ones of its address and nothing else does:
\* two codes of an address live side by side only where the later one deleted
\* before the earlier one was committed, and a code that is gone unused was
\* replaced by a later one of its address (begin_registration,
\* begin_password_reset).
CodesReplacedByNewer ==
  \A t \in Tokens :
    /\ \A u \in live : (t \in live /\ t < u /\ SameOwner(t, u)) => codes[u].saw < t
    /\ (t \notin live /\ accepted[t] = 0) =>
         \E u \in Tokens : t < u /\ SameOwner(t, u) /\ codes[u].saw >= t

\* Whoever comes in through a social account reaches the same agent ever after:
\* an identity is never moved, neither by two first logins at once nor by a
\* link racing a login (login_social_agent, link_social_identity).
IdentityKept ==
  [][\A s \in Subjects : identities[s] # 0 => identities'[s] = identities[s]]_vars

\* Every agent can be reached by its owner, with a password or through an
\* identity: a login that loses a race leaves no agent behind
\* (login_social_agent, confirm_registration).
NoStrandedAgents ==
  \A a \in Ids : passwords[a] # 0 \/ \E s \in Subjects : identities[s] = a

=============================================================================
