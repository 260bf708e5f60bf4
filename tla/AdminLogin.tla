----------------------------- MODULE AdminLogin -----------------------------
(***************************************************************************)
(* How administrators come in.  After the password a session holds         *)
(* pending_admin_id only; the one-time code of the administrator's secret  *)
(* makes it a full session.  A social login gives a full session at once,  *)
(* whatever the role.  Several browsers of one administrator may be at     *)
(* these steps at once; a handler loads the administrator, works on what   *)
(* it loaded, and commits.  Wrong and right codes are limited together,    *)
(* per administrator (the keys of the limiter).                            *)
(***************************************************************************)
EXTENDS RateLimiter

CONSTANTS
  Tabs,        \* browsers
  Nobody,
  MaxSecrets   \* bound: secrets generated

ASSUME AdminLoginAssumption ==
  /\ Nobody \notin Keys
  /\ IsFiniteSet(Tabs)
  /\ MaxSecrets \in Nat

Admins == Keys

VARIABLES
  secret,   \* totp_secret of each administrator (0 when NULL)
  enabled,  \* administrators with totp_enabled
  session,  \* pending_admin_id and agent_id of each browser
  req,      \* the handler of each browser that waits for its commit
  made,     \* secrets generated so far
  writes,   \* history: secrets stored, by administrator
  proven,   \* history: secrets a set-up code was right for
  pass      \* history: how each browser came in, and the code if by one

loginVars == <<secret, enabled, session, req, made, writes, proven, pass>>
vars == <<now, limiterVars, loginVars>>

SignedOut == [pending |-> Nobody, agent |-> Nobody]
Idle == [at |-> "idle", secret |-> 0]
NoPass == [by |-> "none", admin |-> Nobody, secret |-> 0, step |-> 0, time |-> 0]

Init ==
  /\ LimiterInit
  /\ secret = [a \in Admins |-> 0]
  /\ enabled = {}
  /\ session = [t \in Tabs |-> SignedOut]
  /\ req = [t \in Tabs |-> Idle]
  /\ made = 0
  /\ writes = [a \in Admins |-> 0]
  /\ proven = [a \in Admins |-> {}]
  /\ pass = [t \in Tabs |-> NoPass]

Pending(t) == session[t].pending

\* ApiPendingAdmin lets the request in.
Asking(t) == req[t] = Idle /\ Pending(t) # Nobody

\* The password is right: _next_after_login clears the session first.
GivePassword(t, a) ==
  /\ req[t] = Idle
  /\ session' = [session EXCEPT ![t] = [SignedOut EXCEPT !.pending = a]]
  /\ UNCHANGED <<now, limiterVars, secret, enabled, req, made, writes, proven, pass>>

Logout(t) ==
  /\ req[t] = Idle
  /\ session' = [session EXCEPT ![t] = SignedOut]
  /\ UNCHANGED <<now, limiterVars, secret, enabled, req, made, writes, proven, pass>>

\* The pass of who came in by an identity at Telegram or Yandex.
SocialPass(a) == [NoPass EXCEPT !.by = "social", !.admin = a]

\* telegram_callback, yandex_callback: login_social_agent has found the agent,
\* and _log_in opens the session for an administrator as for anyone.
SocialLogin(t, a) ==
  /\ req[t] = Idle
  /\ session' = [session EXCEPT ![t] = [SignedOut EXCEPT !.agent = a]]
  /\ pass' = [pass EXCEPT ![t] = SocialPass(a)]
  /\ UNCHANGED <<now, limiterVars, secret, enabled, req, made, writes, proven>>

-----------------------------------------------------------------------------
(* get_or_create_totp_secret, for the set-up page and its image *)

\* Mutated: a secret is generated every time.
NeedsAlways(s) == TRUE

NeedsSecret(s) == s = 0

\* A secret that is there is shown as it is, which changes nothing here.
GenerateSecret(t) ==
  /\ Asking(t)
  /\ NeedsSecret(secret[Pending(t)])
  /\ made < MaxSecrets
  /\ made' = made + 1
  /\ req' = [req EXCEPT ![t] = [at |-> "store", secret |-> made + 1]]
  /\ UNCHANGED <<now, limiterVars, secret, enabled, session, writes, proven, pass>>

StoreSecret(t) ==
  /\ req[t].at = "store"
  /\ secret' = [secret EXCEPT ![Pending(t)] = req[t].secret]
  /\ writes' = [writes EXCEPT ![Pending(t)] = @ + 1]
  /\ req' = [req EXCEPT ![t] = Idle]
  /\ UNCHANGED <<now, limiterVars, enabled, session, made, proven, pass>>

-----------------------------------------------------------------------------
(* The code *)

\* A code is made for a secret and a period; secret 0 stands for a wrong code.
Codes == [secret : 0..made, step : 0..(now + 1)]

\* Mutated: the period of the code is not looked at.
RightAnytime(s, c) == s # 0 /\ c.secret = s

\* verify_totp: the period before, this one and the next.
Right(s, c) == s # 0 /\ c.secret = s /\ c.step \in (now - 1)..(now + 1)

\* Refused by the limiter: the window alone moves on.
RefuseCode(t) ==
  /\ Asking(t)
  /\ Refuse(Pending(t))
  /\ UNCHANGED <<now, loginVars>>

WrongCode(t, c) ==
  /\ Asking(t)
  /\ ~Right(secret[Pending(t)], c)
  /\ Allow(Pending(t))
  /\ UNCHANGED <<now, loginVars>>

PassOf(a, c) ==
  [by |-> "code", admin |-> a, secret |-> c.secret, step |-> c.step, time |-> now]

\* Mutated: the set-up takes a code without testing it.
SetupUntested(s, c) == TRUE

SetupRight(s, c) == Right(s, c)

\* setup: the code is right for the secret that was loaded.
ConfirmSetup(t, c) ==
  LET a == Pending(t) IN
  /\ Asking(t)
  /\ a \notin enabled
  /\ SetupRight(secret[a], c)
  /\ Allow(a)
  /\ req' = [req EXCEPT ![t] = [at |-> "enable", secret |-> secret[a]]]
  /\ pass' = [pass EXCEPT ![t] = PassOf(a, c)]
  /\ UNCHANGED <<now, secret, enabled, session, made, writes, proven>>

Enter(t) ==
  session' = [session EXCEPT ![t] = [SignedOut EXCEPT !.agent = Pending(t)]]

\* UPDATE agents SET totp_enabled, the commit, and the full session.
EnableTotp(t) ==
  /\ req[t].at = "enable"
  /\ enabled' = enabled \cup {Pending(t)}
  /\ proven' = [proven EXCEPT ![Pending(t)] = @ \cup {pass[t].secret}]
  /\ Enter(t)
  /\ req' = [req EXCEPT ![t] = Idle]
  /\ UNCHANGED <<now, limiterVars, secret, made, writes, pass>>

Verify(t, c) ==
  LET a == Pending(t) IN
  /\ Asking(t)
  /\ a \in enabled
  /\ Right(secret[a], c)
  /\ Allow(a)
  /\ pass' = [pass EXCEPT ![t] = PassOf(a, c)]
  /\ Enter(t)
  /\ UNCHANGED <<now, secret, enabled, req, made, writes, proven>>

NextPeriod == Tick /\ UNCHANGED <<limiterVars, loginVars>>

Next ==
  \/ \E t \in Tabs :
       \/ \E a \in Admins : GivePassword(t, a) \/ SocialLogin(t, a)
       \/ Logout(t)
       \/ GenerateSecret(t)
       \/ StoreSecret(t)
       \/ RefuseCode(t)
       \/ \E c \in Codes : WrongCode(t, c) \/ ConfirmSetup(t, c) \/ Verify(t, c)
       \/ EnableTotp(t)
  \/ NextPeriod

Spec == Init /\ [][Next]_vars

-----------------------------------------------------------------------------
(* Properties *)

Passes == [by : {"none", "code", "social"}, admin : Admins \cup {Nobody},
           secret : Nat, step : Nat, time : Nat]

LoginTypes ==
  /\ secret \in [Admins -> Nat]
  /\ enabled \subseteq Admins
  /\ session \in [Tabs -> [pending : Admins \cup {Nobody}, agent : Admins \cup {Nobody}]]
  /\ req \in [Tabs -> [at : {"idle", "store", "enable"}, secret : Nat]]
  /\ \A t \in Tabs : req[t].at # "idle" => Pending(t) \in Admins
  /\ made \in Nat
  /\ writes \in [Admins -> Nat]
  /\ proven \in [Admins -> SUBSET Nat]
  /\ pass \in [Tabs -> Passes]

\* The limiter, the administrators' columns, sessions and handlers keep their
\* shape, and a handler that waits for a commit has an administrator.
TypeOK == LimiterTypes /\ LoginTypes

\* A code of a secret of the administrator, made for a period next to the one
\* it was entered in; the factor is on from then on.
CameByCode(t, a) ==
  /\ a \in enabled
  /\ pass[t].by = "code"
  /\ pass[t].admin = a
  /\ pass[t].secret # 0
  /\ pass[t].step \in (pass[t].time - 1)..(pass[t].time + 1)

\* No session is opened by the password alone: a full one was opened by its
\* administrator's right code, in time, or by a social login of the same
\* administrator, and a session half way in is not a full one, however
\* passwords, codes and social logins follow each other in a browser
\* (_next_after_login, _complete_login, _log_in).
SessionsProven ==
  \A t \in Tabs :
    LET a == session[t].agent IN
    a # Nobody =>
      /\ Pending(t) = Nobody
      /\ CameByCode(t, a) \/ pass[t] = SocialPass(a)

Storing(a) == {t \in Tabs : req[t].at = "store" /\ Pending(t) = a}

\* A secret is replaced only by browsers that asked for the set-up page before
\* the first one was stored: there are no more secrets than browsers, and one
\* browser at a time never sees its secret change (get_or_create_totp_secret).
SecretWritesBounded ==
  \A a \in Admins : writes[a] + Cardinality(Storing(a)) <= Cardinality(Tabs)

\* The secret the factor is enabled with is one its administrator has entered a
\* code for, unless set-up pages raced and one replaced it.
EnabledIsProven ==
  \A a \in enabled : writes[a] <= 1 => secret[a] \in proven[a]

=============================================================================
