-------------------------- MODULE AdminLoginProofs --------------------------
(***************************************************************************)
(* What TLAPS proves of AdminLogin and RateLimiter for every limit, window *)
(* and clock, and every number of browsers, administrators and secrets.    *)
(***************************************************************************)
EXTENDS AdminLogin, FiniteSetTheorems, TLAPS

-----------------------------------------------------------------------------
(* Type correctness *)

\* The passes of who has not come in, and of who came by a social login.
LEMMA PassesMade == NoPass \in Passes /\ \A a \in Admins : SocialPass(a) \in Passes
<1>1. NoPass \in Passes
  BY DEF NoPass, Passes
<1>2. \A a \in Admins : SocialPass(a) \in Passes
  BY DEF SocialPass, NoPass, Passes
<1>3. QED
  BY <1>1, <1>2

\* The pass of who came by a code.
LEMMA CodePass ==
  ASSUME LimiterTypes, LoginTypes, NEW a \in Admins, NEW c \in Codes
  PROVE  PassOf(a, c) \in Passes
<1>1. c.secret \in Nat /\ c.step \in Nat
  BY DEF Codes, LoginTypes, LimiterTypes
<1>2. QED
  BY <1>1 DEF PassOf, Passes, LimiterTypes

\* The initial state is well typed.
LEMMA InitTyped == Init => TypeOK
  BY AdminLoginAssumption, PassesMade
  DEF Init, LimiterInit, TypeOK, LimiterTypes, LoginTypes, Admins, SignedOut, Idle, Pending

\* The limiter keeps its types, whether it admits a hit or refuses it.
LEMMA LimiterTyped ==
  ASSUME LimiterTypes, NEW k \in Keys, Allow(k) \/ Refuse(k), UNCHANGED now
  PROVE  LimiterTypes'
<1>1. Kept(k) \subseteq hits[k] /\ hits[k] \subseteq 1..Len(times[k])
  BY DEF Kept, LimiterTypes
<1>2. CASE Allow(k)
  <2>1. times' = [times EXCEPT ![k] = Append(times[k], now)]
    BY <1>2 DEF Allow
  <2>2. Append(times[k], now) \in Seq(Nat)
    BY DEF LimiterTypes
  <2>3. hits' = [hits EXCEPT ![k] = Kept(k) \cup {Len(times[k]) + 1}]
    BY <1>2 DEF Allow
  <2>4. Kept(k) \cup {Len(times[k]) + 1} \subseteq DOMAIN Append(times[k], now)
    BY <1>1, <2>2 DEF LimiterTypes
  <2>5. Kept(k) \cup {Len(times[k]) + 1} \in SUBSET Nat
    BY <1>1 DEF LimiterTypes
  <2>6. QED
    BY <2>1, <2>2, <2>3, <2>4, <2>5 DEF LimiterTypes
<1>3. CASE Refuse(k)
  BY <1>1, <1>3 DEF Refuse, LimiterTypes
<1>4. QED
  BY <1>2, <1>3

\* Every step keeps the types.
LEMMA NextTyped == TypeOK /\ [Next]_vars => TypeOK'
<1> SUFFICES ASSUME LimiterTypes, LoginTypes, [Next]_vars
             PROVE  LimiterTypes' /\ LoginTypes'
  BY DEF TypeOK
<1> USE AdminLoginAssumption DEF Admins, SignedOut, Idle, Pending
<1>1. ASSUME NEW t \in Tabs, NEW a \in Admins, GivePassword(t, a)
      PROVE  LimiterTypes' /\ LoginTypes'
  BY <1>1 DEF GivePassword, limiterVars, LimiterTypes, LoginTypes
<1>2. ASSUME NEW t \in Tabs, Logout(t)
      PROVE  LimiterTypes' /\ LoginTypes'
  BY <1>2 DEF Logout, limiterVars, LimiterTypes, LoginTypes
<1>3. ASSUME NEW t \in Tabs, GenerateSecret(t)
      PROVE  LimiterTypes' /\ LoginTypes'
  BY <1>3 DEF GenerateSecret, Asking, limiterVars, LimiterTypes, LoginTypes
<1>4. ASSUME NEW t \in Tabs, StoreSecret(t)
      PROVE  LimiterTypes' /\ LoginTypes'
  BY <1>4 DEF StoreSecret, limiterVars, LimiterTypes, LoginTypes
<1>5. ASSUME NEW t \in Tabs, RefuseCode(t)
      PROVE  LimiterTypes' /\ LoginTypes'
  <2>1. Pending(t) \in Keys
    BY <1>5 DEF RefuseCode, Asking, LoginTypes
  <2>2. LimiterTypes'
    BY <1>5, <2>1, LimiterTyped DEF RefuseCode
  <2>3. QED
    BY <1>5, <2>2 DEF RefuseCode, loginVars, LoginTypes
<1>6. ASSUME NEW t \in Tabs, NEW c \in Codes, WrongCode(t, c)
      PROVE  LimiterTypes' /\ LoginTypes'
  <2>1. Pending(t) \in Keys
    BY <1>6 DEF WrongCode, Asking, LoginTypes
  <2>2. LimiterTypes'
    BY <1>6, <2>1, LimiterTyped DEF WrongCode
  <2>3. QED
    BY <1>6, <2>2 DEF WrongCode, loginVars, LoginTypes
<1>7. ASSUME NEW t \in Tabs, NEW c \in Codes, ConfirmSetup(t, c)
      PROVE  LimiterTypes' /\ LoginTypes'
  <2>1. Pending(t) \in Keys
    BY <1>7 DEF ConfirmSetup, Asking, LoginTypes
  <2>2. LimiterTypes'
    BY <1>7, <2>1, LimiterTyped DEF ConfirmSetup
  <2>3. PassOf(Pending(t), c) \in Passes
    BY <2>1, CodePass
  <2>4. QED
    BY <1>7, <2>1, <2>2, <2>3 DEF ConfirmSetup, LoginTypes
<1>8. ASSUME NEW t \in Tabs, NEW c \in Codes, Verify(t, c)
      PROVE  LimiterTypes' /\ LoginTypes'
  <2>1. Pending(t) \in Keys
    BY <1>8 DEF Verify, Asking, LoginTypes
  <2>2. LimiterTypes'
    BY <1>8, <2>1, LimiterTyped DEF Verify
  <2>4. PassOf(Pending(t), c) \in Passes
    BY <2>1, CodePass
  <2>5. pass' \in [Tabs -> Passes]
    BY <1>8, <2>4 DEF Verify, LoginTypes
  <2>6. session' \in [Tabs -> [pending : Admins \cup {Nobody}, agent : Admins \cup {Nobody}]]
    BY <1>8, <2>1 DEF Verify, Enter, LoginTypes
  <2>7. req[t] = Idle
    BY <1>8 DEF Verify, Asking
  <2>8. \A u \in Tabs : req'[u].at # "idle" => Pending(u)' \in Admins
    BY <1>8, <2>7 DEF Verify, Enter, LoginTypes
  <2>9. QED
    BY <1>8, <2>2, <2>5, <2>6, <2>8 DEF Verify, LoginTypes
<1>9. ASSUME NEW t \in Tabs, EnableTotp(t)
      PROVE  LimiterTypes' /\ LoginTypes'
  <2>1. Pending(t) \in Keys
    BY <1>9 DEF EnableTotp, LoginTypes
  <2>2. LimiterTypes'
    BY <1>9 DEF EnableTotp, limiterVars, LimiterTypes
  <2>3. proven' \in [Admins -> SUBSET Nat]
    <3>1. pass[t].secret \in Nat
      BY DEF LoginTypes, Passes
    <3>2. proven' = [proven EXCEPT ![Pending(t)] = @ \cup {pass[t].secret}]
      BY <1>9 DEF EnableTotp
    <3>3. QED
      BY <2>1, <3>1, <3>2 DEF LoginTypes
  <2>4. QED
    BY <1>9, <2>1, <2>2, <2>3 DEF EnableTotp, Enter, LoginTypes
<1>10. CASE NextPeriod
  BY <1>10 DEF NextPeriod, Tick, limiterVars, loginVars, LimiterTypes, LoginTypes
<1>11. CASE UNCHANGED vars
  BY <1>11 DEF vars, limiterVars, loginVars, LimiterTypes, LoginTypes
<1>12. ASSUME NEW t \in Tabs, NEW a \in Admins, SocialLogin(t, a)
       PROVE  LimiterTypes' /\ LoginTypes'
  <2>1. SocialPass(a) \in Passes
    BY PassesMade
  <2>2. QED
    BY <1>12, <2>1 DEF SocialLogin, limiterVars, LimiterTypes, LoginTypes
<1>13. QED
  BY <1>1, <1>2, <1>3, <1>4, <1>5, <1>6, <1>7, <1>8, <1>9, <1>10, <1>11, <1>12 DEF Next

\* The limiter, the administrators' columns, the sessions and the handlers keep
\* their shape in every behaviour.
THEOREM TypeCorrect == Spec => []TypeOK
  BY InitTyped, NextTyped, PTL DEF Spec

-----------------------------------------------------------------------------
(* The limiter *)

\* A hit is not of the future, and is forgotten only when it is older than the
\* window.
Forgotten ==
  \A k \in Keys : \A i \in DOMAIN times[k] :
    /\ times[k][i] <= now
    /\ i \in hits[k] \/ times[k][i] < now - Window

WindowInv == Forgotten /\ AtMostLimit

\* The hits of a key are finitely many.
LEMMA HitsFinite ==
  ASSUME LimiterTypes, NEW k \in Keys
  PROVE  IsFiniteSet(DOMAIN times[k]) /\ IsFiniteSet(Kept(k))
<1>1. DOMAIN times[k] = 1..Len(times[k]) /\ Len(times[k]) \in Nat
  BY DEF LimiterTypes
<1>2. IsFiniteSet(1..Len(times[k]))
  BY <1>1, FS_Interval
<1>3. Kept(k) \subseteq 1..Len(times[k])
  BY <1>1 DEF Kept, LimiterTypes
<1>4. QED
  BY <1>1, <1>2, <1>3, FS_Subset

\* Hits that are dropped are older than the window.
LEMMA DroppedOld ==
  ASSUME LimiterTypes, NEW k \in Keys, NEW i \in hits[k], i \notin Kept(k)
  PROVE  times[k][i] < now - Window
<1>1. i \in Nat
  BY DEF LimiterTypes
<1>2. Old(times[k][i])
  BY <1>1 DEF Kept
<1>3. QED
  BY <1>2 DEF Old

\* Admitting or refusing a hit keeps what the limiter promises.
LEMMA LimiterStep ==
  ASSUME LimiterTypes, WindowInv, NEW k \in Keys, Allow(k) \/ Refuse(k), UNCHANGED now
  PROVE  WindowInv'
<1> USE RateLimiterAssumption
<1>1. \A i \in hits[k] \ Kept(k) : times[k][i] < now - Window
  BY DroppedOld
<1>2. CASE Refuse(k)
  <2>1. Forgotten'
    BY <1>1, <1>2 DEF Refuse, WindowInv, Forgotten, LimiterTypes
  <2>2. AtMostLimit'
    BY <1>2 DEF Refuse, WindowInv, AtMostLimit, Within
  <2>3. QED
    BY <2>1, <2>2 DEF WindowInv
<1>3. CASE Allow(k)
  <2> DEFINE last == Len(times[k]) + 1
  <2>1. /\ times' = [times EXCEPT ![k] = Append(times[k], now)]
        /\ hits' = [hits EXCEPT ![k] = Kept(k) \cup {last}]
        /\ Cardinality(Kept(k)) < Limit
    BY <1>3 DEF Allow
  <2>2. /\ times'[k] = Append(times[k], now)
        /\ DOMAIN times'[k] = DOMAIN times[k] \cup {last}
        /\ times'[k][last] = now
        /\ \A i \in DOMAIN times[k] : i # last /\ times'[k][i] = times[k][i]
    BY <2>1 DEF LimiterTypes
  <2>3. hits'[k] = Kept(k) \cup {last}
    BY <2>1 DEF LimiterTypes
  <2>4. \A j \in Keys \ {k} : times'[j] = times[j] /\ hits'[j] = hits[j]
    BY <2>1 DEF LimiterTypes
  <2>5. Forgotten'
    <3>1. \A i \in DOMAIN times[k] :
            times[k][i] <= now /\ (i \in Kept(k) \/ times[k][i] < now - Window)
      BY <1>1 DEF WindowInv, Forgotten
    <3>2. now <= now
      BY DEF LimiterTypes
    <3>3. \A i \in DOMAIN times'[k] :
            times'[k][i] <= now /\ (i \in hits'[k] \/ times'[k][i] < now - Window)
      BY <2>2, <2>3, <3>1, <3>2
    <3>4. QED
      BY <2>4, <3>3 DEF WindowInv, Forgotten
  <2>6. ASSUME NEW s \in 0..now
        PROVE  Cardinality(Within(k, s)') <= Limit
    <3>1. CASE s + Window >= now
      <4>1. ASSUME NEW i \in DOMAIN times[k], times[k][i] \in s..(s + Window)
            PROVE  i \in Kept(k)
        <5>1. times[k][i] >= now - Window \/ times[k][i] >= s
          BY <4>1
        <5>2. i \in Nat /\ times[k][i] \in Nat
          BY DEF LimiterTypes
        <5>3. CASE times[k][i] >= now - Window
          <6>1. i \in hits[k]
            BY <5>2, <5>3 DEF WindowInv, Forgotten, LimiterTypes
          <6>2. QED
            BY <1>1, <5>2, <5>3, <6>1 DEF LimiterTypes
        <5>4. s >= now - Window
          BY <3>1 DEF LimiterTypes
        <5>5. QED
          BY <4>1, <5>2, <5>3, <5>4 DEF LimiterTypes
      <4>2. Within(k, s)' \subseteq Kept(k) \cup {last}
        BY <2>2, <4>1 DEF Within
      <4>3. IsFiniteSet(Kept(k)) /\ Cardinality(Kept(k)) \in Nat
        BY HitsFinite, FS_CardinalityType
      <4>4. /\ IsFiniteSet(Kept(k) \cup {last})
            /\ Cardinality(Kept(k) \cup {last}) <= Cardinality(Kept(k)) + 1
        <5>1. /\ IsFiniteSet(Kept(k) \cup {last})
              /\ \/ Cardinality(Kept(k) \cup {last}) = Cardinality(Kept(k))
                 \/ Cardinality(Kept(k) \cup {last}) = Cardinality(Kept(k)) + 1
          BY <4>3, FS_AddElement, Zenon
        <5>2. QED
          BY <4>3, <5>1
      <4>5. /\ Cardinality(Within(k, s)') <= Cardinality(Kept(k) \cup {last})
            /\ Cardinality(Within(k, s)') \in Nat
            /\ Cardinality(Kept(k) \cup {last}) \in Nat
        BY <4>2, <4>4, FS_Subset, FS_CardinalityType
      <4>6. QED
        BY <2>1, <4>3, <4>4, <4>5
    <3>2. CASE s + Window < now
      <4>1. Within(k, s)' = Within(k, s)
        BY <2>2, <3>2 DEF Within
      <4>2. QED
        BY <4>1 DEF WindowInv, AtMostLimit
    <3>3. QED
      BY <3>1, <3>2 DEF LimiterTypes
  <2>7. \A j \in Keys \ {k}, s \in 0..now : Cardinality(Within(j, s)') <= Limit
    BY <2>4 DEF WindowInv, AtMostLimit, Within
  <2>8. AtMostLimit'
    BY <2>6, <2>7 DEF AtMostLimit
  <2>9. QED
    BY <2>5, <2>8 DEF WindowInv
<1>4. QED
  BY <1>2, <1>3

\* Time passing keeps it too: no hit lies in a window that starts later.
LEMMA TickStep ==
  ASSUME LimiterTypes, WindowInv, Tick, UNCHANGED limiterVars
  PROVE  WindowInv'
<1> USE RateLimiterAssumption
<1>1. now' = now + 1 /\ times' = times /\ hits' = hits
  BY DEF Tick, limiterVars
<1>2. Forgotten'
  BY <1>1 DEF WindowInv, Forgotten, LimiterTypes
<1>3. ASSUME NEW k \in Keys, NEW s \in 0..(now + 1)
      PROVE  Cardinality(Within(k, s)') <= Limit
  <2>1. Within(k, s)' = Within(k, s)
    BY <1>1 DEF Within
  <2>2. CASE s \in 0..now
    BY <2>1, <2>2 DEF WindowInv, AtMostLimit
  <2>3. CASE s = now + 1
    <3>1. \A i \in DOMAIN times[k] : times[k][i] \in Nat /\ times[k][i] <= now
      BY DEF WindowInv, Forgotten, LimiterTypes
    <3>2. Within(k, s) = {}
      BY <2>3, <3>1 DEF Within, LimiterTypes
    <3>3. QED
      BY <2>1, <3>2, FS_EmptySet
  <2>4. QED
    BY <2>2, <2>3 DEF LimiterTypes
<1>4. QED
  BY <1>1, <1>2, <1>3 DEF WindowInv, AtMostLimit

\* Every step of the second factor keeps what the limiter promises.
LEMMA WindowNext == TypeOK /\ WindowInv /\ [Next]_vars => WindowInv'
<1> SUFFICES ASSUME LimiterTypes, LoginTypes, WindowInv, [Next]_vars
             PROVE  WindowInv'
  BY DEF TypeOK
<1>1. ASSUME UNCHANGED <<now, limiterVars>>
      PROVE  WindowInv'
  BY <1>1 DEF limiterVars, WindowInv, Forgotten, AtMostLimit, Within
<1>2. ASSUME NEW k \in Keys, Allow(k) \/ Refuse(k), UNCHANGED now
      PROVE  WindowInv'
  BY <1>2, LimiterStep
<1>3. ASSUME NEW t \in Tabs, Asking(t)
      PROVE  Pending(t) \in Keys
  BY <1>3 DEF Asking, Pending, LoginTypes, Admins
<1>4. ASSUME NEW t \in Tabs, RefuseCode(t)
      PROVE  WindowInv'
  BY <1>2, <1>3, <1>4 DEF RefuseCode
<1>5. ASSUME NEW t \in Tabs, NEW c \in Codes, WrongCode(t, c) \/ ConfirmSetup(t, c)
      PROVE  WindowInv'
  BY <1>2, <1>3, <1>5 DEF WrongCode, ConfirmSetup
<1>6. ASSUME NEW t \in Tabs, NEW c \in Codes, Verify(t, c)
      PROVE  WindowInv'
  BY <1>2, <1>3, <1>6 DEF Verify
<1>7. ASSUME NEW t \in Tabs, NEW a \in Admins, GivePassword(t, a) \/ SocialLogin(t, a)
      PROVE  WindowInv'
  BY <1>1, <1>7 DEF GivePassword, SocialLogin
<1>8. ASSUME NEW t \in Tabs, Logout(t) \/ GenerateSecret(t) \/ StoreSecret(t) \/ EnableTotp(t)
      PROVE  WindowInv'
  BY <1>1, <1>8 DEF Logout, GenerateSecret, StoreSecret, EnableTotp
<1>9. CASE NextPeriod
  BY <1>9, TickStep DEF NextPeriod
<1>10. CASE UNCHANGED vars
  BY <1>1, <1>10 DEF vars
<1>11. QED
  BY <1>4, <1>5, <1>6, <1>7, <1>8, <1>9, <1>10 DEF Next

\* In any window of Window periods, its ends included, a key has at most Limit
\* hits admitted (InMemoryRateLimiter.allow).
THEOREM WindowsBounded == Spec => []AtMostLimit
<1>1. Init => WindowInv
  <2> SUFFICES ASSUME Init PROVE WindowInv
    OBVIOUS
  <2>1. \A k \in Keys : times[k] = <<>> /\ DOMAIN times[k] = {}
    BY DEF Init, LimiterInit
  <2>2. \A k \in Keys, s \in 0..now : Within(k, s) = {}
    BY <2>1 DEF Within
  <2>3. Forgotten
    BY <2>1 DEF Forgotten
  <2>4. Cardinality({}) <= Limit
    BY FS_EmptySet, RateLimiterAssumption
  <2>5. QED
    BY <2>2, <2>3, <2>4 DEF WindowInv, AtMostLimit
<1>2. WindowInv => AtMostLimit
  BY DEF WindowInv
<1>3. QED
  BY <1>1, <1>2, TypeCorrect, WindowNext, PTL DEF Spec

-----------------------------------------------------------------------------
(* Sessions and secrets *)

\* The code a browser came in with was right when it was entered.
RightPass(t, a) ==
  /\ pass[t].by = "code"
  /\ pass[t].admin = a
  /\ pass[t].secret # 0
  /\ pass[t].step \in (pass[t].time - 1)..(pass[t].time + 1)

\* A browser at the second step has no full session, and one that waits for the
\* set-up to be committed has entered a right code; who did not come by a code
\* came by a social login.
SessionInv ==
  /\ \A t \in Tabs : Nobody \in {session[t].pending, session[t].agent}
  /\ \A t \in Tabs : req[t].at = "enable" => RightPass(t, Pending(t))
  /\ \A t \in Tabs : session[t].agent # Nobody =>
       \/ session[t].agent \in enabled /\ RightPass(t, session[t].agent)
       \/ pass[t] = SocialPass(session[t].agent)

\* A right code comes from a stored secret, for a period next to this one.
LEMMA RightCode ==
  ASSUME TypeOK, NEW t \in Tabs, NEW c \in Codes, Asking(t), Right(secret[Pending(t)], c),
         pass' = [pass EXCEPT ![t] = PassOf(Pending(t), c)]
  PROVE  /\ pass'[t].by = "code"
         /\ pass'[t].admin = Pending(t)
         /\ pass'[t].secret = secret[Pending(t)]
         /\ pass'[t].secret # 0
         /\ pass'[t].step \in (pass'[t].time - 1)..(pass'[t].time + 1)
<1>1. pass'[t] = PassOf(Pending(t), c)
  BY DEF TypeOK, LoginTypes
<1>2. QED
  BY <1>1 DEF PassOf, Right

\* Every step keeps sessions proven.
LEMMA SessionNext == TypeOK /\ SessionInv /\ [Next]_vars => SessionInv'
<1> SUFFICES ASSUME TypeOK, LoginTypes, SessionInv, [Next]_vars
             PROVE  SessionInv'
  BY DEF TypeOK
<1> USE AdminLoginAssumption DEF Admins, SignedOut, Idle, Pending, SessionInv, RightPass
<1>1. ASSUME NEW t \in Tabs, NEW a \in Admins, GivePassword(t, a)
      PROVE  SessionInv'
  BY <1>1 DEF GivePassword, LoginTypes
<1>2. ASSUME NEW t \in Tabs, Logout(t)
      PROVE  SessionInv'
  BY <1>2 DEF Logout, LoginTypes
<1>3. ASSUME NEW t \in Tabs, GenerateSecret(t)
      PROVE  SessionInv'
  BY <1>3 DEF GenerateSecret, LoginTypes
<1>4. ASSUME NEW t \in Tabs, StoreSecret(t)
      PROVE  SessionInv'
  BY <1>4 DEF StoreSecret, LoginTypes
<1>5. ASSUME NEW t \in Tabs, NEW c \in Codes, ConfirmSetup(t, c)
      PROVE  SessionInv'
  <2>1. /\ Asking(t)
        /\ Right(secret[Pending(t)], c)
        /\ pass' = [pass EXCEPT ![t] = PassOf(Pending(t), c)]
    BY <1>5 DEF ConfirmSetup, SetupRight
  <2>2. RightPass(t, Pending(t))'
    BY <1>5, <2>1, RightCode DEF ConfirmSetup
  <2>3. session[t].agent = Nobody
    BY <2>1 DEF Asking
  <2>4. \A u \in Tabs \ {t} : pass'[u] = pass[u] /\ req'[u] = req[u]
    BY <1>5, <2>1 DEF ConfirmSetup, LoginTypes
  <2>5. QED
    BY <1>5, <2>2, <2>3, <2>4 DEF ConfirmSetup
<1>6. ASSUME NEW t \in Tabs, NEW c \in Codes, Verify(t, c)
      PROVE  SessionInv'
  <2>1. /\ Asking(t)
        /\ Pending(t) \in enabled
        /\ Right(secret[Pending(t)], c)
        /\ pass' = [pass EXCEPT ![t] = PassOf(Pending(t), c)]
    BY <1>6 DEF Verify
  <2>2. session'[t].agent = Pending(t) /\ session'[t].pending = Nobody
    BY <1>6 DEF Verify, Enter, LoginTypes
  <2>3. RightPass(t, session[t].agent)'
    BY <2>1, <2>2, RightCode
  <2>4. \A u \in Tabs \ {t} : pass'[u] = pass[u] /\ session'[u] = session[u]
    BY <1>6, <2>1 DEF Verify, Enter, LoginTypes
  <2>5. req' = req /\ enabled' = enabled /\ req[t].at = "idle"
    BY <1>6, <2>1 DEF Verify, Asking
  <2>6. QED
    BY <2>1, <2>2, <2>3, <2>4, <2>5
<1>7. ASSUME NEW t \in Tabs, EnableTotp(t)
      PROVE  SessionInv'
  <2>1. session'[t].agent = Pending(t) /\ session'[t].pending = Nobody
    BY <1>7 DEF EnableTotp, Enter, LoginTypes
  <2>2. \A u \in Tabs \ {t} : session'[u] = session[u] /\ req'[u] = req[u]
    BY <1>7 DEF EnableTotp, Enter, LoginTypes
  <2>3. req'[t].at = "idle"
    BY <1>7 DEF EnableTotp, LoginTypes
  <2>4. /\ req[t].at = "enable"
        /\ pass' = pass
        /\ enabled' = enabled \cup {Pending(t)}
    BY <1>7 DEF EnableTotp
  <2>5. QED
    BY <2>1, <2>2, <2>3, <2>4
<1>8. CASE UNCHANGED loginVars
  BY <1>8 DEF loginVars
<1>9. ASSUME NEW t \in Tabs, NEW a \in Admins, SocialLogin(t, a)
      PROVE  SessionInv'
  <2>1. /\ session'[t].pending = Nobody /\ session'[t].agent = a
        /\ pass'[t] = SocialPass(a)
        /\ req' = req /\ enabled' = enabled /\ req[t].at = "idle"
    BY <1>9 DEF SocialLogin, LoginTypes
  <2>2. \A u \in Tabs \ {t} : session'[u] = session[u] /\ pass'[u] = pass[u]
    BY <1>9 DEF SocialLogin, LoginTypes
  <2>3. QED
    BY <2>1, <2>2
<1>10. QED
  BY <1>1, <1>2, <1>3, <1>4, <1>5, <1>6, <1>7, <1>8, <1>9
  DEF Next, RefuseCode, WrongCode, NextPeriod, vars

\* A full session of an administrator was opened with a right code, the factor
\* being on, or by a social login, never by the password alone
\* (_next_after_login, setup, verify, _log_in).
THEOREM SessionsCorrect == Spec => []SessionsProven
<1>1. Init => SessionInv
  BY AdminLoginAssumption
  DEF Init, SessionInv, SignedOut, Idle, Pending, Admins
<1>2. SessionInv => SessionsProven
  BY DEF SessionInv, SessionsProven, CameByCode, RightPass, Pending
<1>3. QED
  BY <1>1, <1>2, TypeCorrect, SessionNext, PTL DEF Spec

\* An administrator has a secret once one was written; a browser that waits to
\* enable the factor entered a code for the secret there, unless pages raced.
SecretInv ==
  /\ SecretWritesBounded
  /\ EnabledIsProven
  /\ \A a \in Admins : secret[a] = 0 <=> writes[a] = 0
  /\ \A a \in enabled : secret[a] # 0
  /\ \A t \in Tabs : req[t].at = "store" => req[t].secret # 0
  /\ \A t \in Tabs : req[t].at = "enable" =>
       /\ secret[Pending(t)] # 0
       /\ writes[Pending(t)] <= 1 => secret[Pending(t)] = pass[t].secret

\* Where neither columns nor handlers change, the bound stays.
LEMMA StoringKept ==
  ASSUME SecretWritesBounded, UNCHANGED writes,
         \A a \in Admins : Storing(a)' = Storing(a)
  PROVE  SecretWritesBounded'
  BY DEF SecretWritesBounded

\* Every step keeps the bound on secrets and the proof of the one enabled.
LEMMA SecretNext == TypeOK /\ SecretInv /\ [Next]_vars => SecretInv'
<1> SUFFICES ASSUME LoginTypes, LimiterTypes, TypeOK, SecretInv, [Next]_vars
             PROVE  SecretInv'
  BY DEF TypeOK
<1> USE AdminLoginAssumption DEF Admins
<1> DEFINE Rest ==
      /\ EnabledIsProven
      /\ \A a \in Admins : secret[a] = 0 <=> writes[a] = 0
      /\ \A a \in enabled : secret[a] # 0
      /\ \A t \in Tabs : req[t].at = "store" => req[t].secret # 0
      /\ \A t \in Tabs : req[t].at = "enable" =>
           /\ secret[Pending(t)] # 0
           /\ writes[Pending(t)] <= 1 => secret[Pending(t)] = pass[t].secret
<1>0. SecretInv = (SecretWritesBounded /\ Rest) /\ SecretInv' = (SecretWritesBounded' /\ Rest')
  BY Zenon DEF SecretInv
<1>1. ASSUME NEW t \in Tabs, NEW b \in Admins, GivePassword(t, b)
      PROVE  SecretInv'
  <2>1. \A u \in Tabs \ {t} : session'[u] = session[u]
    BY <1>1 DEF GivePassword, LoginTypes
  <2>2. req[t].at = "idle" /\ req' = req
    BY <1>1 DEF GivePassword, Idle
  <2>3. \A a \in Admins : Storing(a)' = Storing(a)
    BY <2>1, <2>2 DEF Storing, Pending
  <2>4. SecretWritesBounded'
    BY <1>1, <2>3, StoringKept DEF SecretInv, GivePassword
  <2>5. Rest'
    BY <1>1, <2>1, <2>2 DEF SecretInv, GivePassword, EnabledIsProven, Pending
  <2>6. QED
    BY <1>0, <2>4, <2>5
<1>2. ASSUME NEW t \in Tabs, Logout(t)
      PROVE  SecretInv'
  <2>1. \A u \in Tabs \ {t} : session'[u] = session[u]
    BY <1>2 DEF Logout, LoginTypes
  <2>2. req[t].at = "idle" /\ req' = req
    BY <1>2 DEF Logout, Idle
  <2>3. \A a \in Admins : Storing(a)' = Storing(a)
    BY <2>1, <2>2 DEF Storing, Pending
  <2>4. SecretWritesBounded'
    BY <1>2, <2>3, StoringKept DEF SecretInv, Logout
  <2>5. Rest'
    BY <1>2, <2>1, <2>2 DEF SecretInv, Logout, EnabledIsProven, Pending
  <2>6. QED
    BY <1>0, <2>4, <2>5
<1>3. ASSUME NEW t \in Tabs, GenerateSecret(t)
      PROVE  SecretInv'
  <2>0. PICK b \in Admins : b = Pending(t)
    BY <1>3 DEF GenerateSecret, Asking, Pending, LoginTypes
  <2>1. /\ secret[b] = 0
        /\ req' = [req EXCEPT ![t] = [at |-> "store", secret |-> made + 1]]
        /\ UNCHANGED <<secret, enabled, session, writes, proven, pass>>
    BY <1>3, <2>0 DEF GenerateSecret, NeedsSecret
  <2>2. SecretWritesBounded'
    <3>1. ASSUME NEW a \in Admins, a # b
          PROVE  Storing(a)' = Storing(a)
      BY <2>0, <2>1, <3>1 DEF Storing, Pending, LoginTypes
    <3>2. writes[b] = 0
      BY <2>1 DEF SecretInv
    <3>3. \A S \in SUBSET Tabs : Cardinality(S) <= Cardinality(Tabs)
      BY FS_Subset
    <3>4. Storing(b)' \subseteq Tabs
      BY DEF Storing
    <3>5. Cardinality(Storing(b)') \in Nat
      BY <3>4, FS_Subset, FS_CardinalityType
    <3>6. writes[b] + Cardinality(Storing(b)') <= Cardinality(Tabs)
      BY <3>2, <3>3, <3>4, <3>5
    <3>7. ASSUME NEW a \in Admins
          PROVE  writes'[a] + Cardinality(Storing(a)') <= Cardinality(Tabs)
      <4>1. CASE a = b
        BY <2>1, <3>6, <4>1
      <4>2. CASE a # b
        BY <2>1, <3>1, <4>2 DEF SecretInv, SecretWritesBounded
      <4>3. QED
        BY <4>1, <4>2
    <3>8. QED
      BY <3>7 DEF SecretWritesBounded
  <2>3. Rest'
    BY <2>0, <2>1 DEF SecretInv, EnabledIsProven, Pending, LoginTypes
  <2>4. QED
    BY <1>0, <2>2, <2>3
<1>4. ASSUME NEW t \in Tabs, StoreSecret(t)
      PROVE  SecretInv'
  <2>0. PICK b \in Admins : b = Pending(t)
    BY <1>4 DEF StoreSecret, LoginTypes
  <2>1. /\ req[t].at = "store"
        /\ secret' = [secret EXCEPT ![b] = req[t].secret]
        /\ writes' = [writes EXCEPT ![b] = @ + 1]
        /\ req' = [req EXCEPT ![t] = Idle]
        /\ UNCHANGED <<enabled, session, made, proven, pass>>
    BY <1>4, <2>0 DEF StoreSecret
  <2>2. SecretWritesBounded'
    <3>1. Storing(b)' = Storing(b) \ {t} /\ t \in Storing(b)
      BY <2>0, <2>1 DEF Storing, Pending, LoginTypes, Idle
    <3>2. ASSUME NEW a \in Admins, a # b
          PROVE  Storing(a)' = Storing(a)
      BY <2>0, <2>1, <3>2 DEF Storing, Pending, LoginTypes, Idle
    <3>3. IsFiniteSet(Storing(b)) /\ Cardinality(Storing(b)) \in Nat
      BY FS_Subset, FS_CardinalityType DEF Storing
    <3>4. Cardinality(Storing(b)') = Cardinality(Storing(b)) - 1
      BY <3>1, <3>3, FS_RemoveElement
    <3>5. ASSUME NEW a \in Admins
          PROVE  writes'[a] + Cardinality(Storing(a)') <= Cardinality(Tabs)
      <4>0. writes[a] + Cardinality(Storing(a)) <= Cardinality(Tabs) /\ writes[a] \in Nat
        BY DEF SecretInv, SecretWritesBounded, LoginTypes
      <4>1. CASE a = b
        <5>1. writes'[a] = writes[a] + 1
          BY <2>1, <4>1 DEF LoginTypes
        <5>2. Cardinality(Storing(a)') = Cardinality(Storing(a)) - 1
          BY <3>4, <4>1
        <5>3. Cardinality(Storing(a)) \in Nat
          BY <3>3, <4>1
        <5>4. QED
          BY <4>0, <5>1, <5>2, <5>3
      <4>2. CASE a # b
        BY <2>1, <3>2, <4>0, <4>2 DEF LoginTypes
      <4>3. QED
        BY <4>1, <4>2
    <3>6. QED
      BY <3>5 DEF SecretWritesBounded
  <2>3. req[t].secret # 0 /\ req[t].secret \in Nat
    BY <2>1 DEF SecretInv, LoginTypes
  <2>4. \A a \in Admins : secret'[a] = 0 <=> writes'[a] = 0
    BY <2>1, <2>3 DEF SecretInv, LoginTypes
  <2>5. \A a \in enabled' : secret'[a] # 0
    BY <2>1, <2>3 DEF SecretInv, LoginTypes
  <2>6. \A a \in Admins : a # b => secret'[a] = secret[a] /\ writes'[a] = writes[a]
    BY <2>1 DEF LoginTypes
  <2>7. secret[b] # 0 => writes'[b] > 1
    BY <2>1 DEF SecretInv, LoginTypes
  <2>8. EnabledIsProven'
    BY <2>1, <2>6, <2>7 DEF SecretInv, EnabledIsProven, LoginTypes
  <2>9. \A u \in Tabs : req'[u].at # "idle" => u # t /\ req'[u] = req[u]
    BY <2>1 DEF LoginTypes, Idle
  <2>10. \A u \in Tabs : req'[u].at = "store" => req'[u].secret # 0
    BY <2>9 DEF SecretInv
  <2>11. ASSUME NEW u \in Tabs, req'[u].at = "enable"
         PROVE  /\ secret'[Pending(u)'] # 0
                /\ writes'[Pending(u)'] <= 1 => secret'[Pending(u)'] = pass'[u].secret
    <3>1. Pending(u)' = Pending(u) /\ pass' = pass
      BY <2>1 DEF Pending
    <3>2. req[u].at = "enable"
      BY <2>9, <2>11
    <3>3. /\ secret[Pending(u)] # 0
          /\ writes[Pending(u)] <= 1 => secret[Pending(u)] = pass[u].secret
          /\ Pending(u) \in Admins
      BY <3>2 DEF SecretInv, LoginTypes
    <3>4. CASE Pending(u) = b
      <4>1. writes'[b] \in Nat /\ writes'[b] > 1
        BY <2>1, <2>7, <3>3, <3>4 DEF LoginTypes
      <4>2. secret'[b] # 0
        BY <2>1, <2>3 DEF LoginTypes
      <4>3. QED
        BY <3>1, <3>4, <4>1, <4>2
    <3>5. CASE Pending(u) # b
      BY <2>6, <3>1, <3>3, <3>5
    <3>6. QED
      BY <3>4, <3>5
  <2>12. Rest'
    BY <2>4, <2>5, <2>8, <2>10, <2>11
  <2>13. QED
    BY <1>0, <2>2, <2>12
<1>5. ASSUME NEW t \in Tabs, NEW c \in Codes, ConfirmSetup(t, c)
      PROVE  SecretInv'
  <2>1. /\ Asking(t)
        /\ Right(secret[Pending(t)], c)
        /\ req' = [req EXCEPT ![t] = [at |-> "enable", secret |-> secret[Pending(t)]]]
        /\ pass' = [pass EXCEPT ![t] = PassOf(Pending(t), c)]
        /\ UNCHANGED <<secret, enabled, session, writes, proven>>
    BY <1>5 DEF ConfirmSetup, SetupRight
  <2>2. pass'[t].secret = secret[Pending(t)] /\ secret[Pending(t)] # 0
    BY <2>1, RightCode DEF Right
  <2>3. req[t].at = "idle" /\ req'[t].at = "enable"
    BY <2>1 DEF Asking, Idle, LoginTypes
  <2>4. \A u \in Tabs \ {t} : req'[u] = req[u] /\ pass'[u] = pass[u]
    BY <2>1 DEF LoginTypes
  <2>5. \A a \in Admins : Storing(a)' = Storing(a)
    BY <2>1, <2>3, <2>4 DEF Storing, Pending
  <2>6. SecretWritesBounded'
    BY <2>1, <2>5, StoringKept DEF SecretInv
  <2>7. Rest'
    BY <2>1, <2>2, <2>3, <2>4 DEF SecretInv, EnabledIsProven, Pending
  <2>8. QED
    BY <1>0, <2>6, <2>7
<1>6. ASSUME NEW t \in Tabs, NEW c \in Codes, Verify(t, c)
      PROVE  SecretInv'
  <2>1. /\ Asking(t)
        /\ session' = [session EXCEPT ![t] = [SignedOut EXCEPT !.agent = Pending(t)]]
        /\ pass' = [pass EXCEPT ![t] = PassOf(Pending(t), c)]
        /\ UNCHANGED <<secret, enabled, req, writes, proven>>
    BY <1>6 DEF Verify, Enter
  <2>2. req[t].at = "idle"
    BY <2>1 DEF Asking, Idle
  <2>3. \A u \in Tabs \ {t} : session'[u] = session[u] /\ pass'[u] = pass[u]
    BY <2>1 DEF LoginTypes
  <2>4. \A a \in Admins : Storing(a)' = Storing(a)
    BY <2>1, <2>2, <2>3 DEF Storing, Pending
  <2>5. SecretWritesBounded'
    BY <2>1, <2>4, StoringKept DEF SecretInv
  <2>6. Rest'
    BY <2>1, <2>2, <2>3 DEF SecretInv, EnabledIsProven, Pending
  <2>7. QED
    BY <1>0, <2>5, <2>6
<1>7. ASSUME NEW t \in Tabs, EnableTotp(t)
      PROVE  SecretInv'
  <2> DEFINE b == Pending(t)
  <2>1. /\ req[t].at = "enable"
        /\ b \in Admins
        /\ enabled' = enabled \cup {b}
        /\ proven' = [proven EXCEPT ![b] = @ \cup {pass[t].secret}]
        /\ session' = [session EXCEPT ![t] = [SignedOut EXCEPT !.agent = b]]
        /\ req' = [req EXCEPT ![t] = Idle]
        /\ UNCHANGED <<secret, writes, pass>>
    BY <1>7 DEF EnableTotp, Enter, LoginTypes
  <2>2. \A u \in Tabs \ {t} : session'[u] = session[u] /\ req'[u] = req[u]
    BY <2>1 DEF LoginTypes
  <2>3. req'[t].at = "idle"
    BY <2>1 DEF LoginTypes, Idle
  <2>4. \A a \in Admins : Storing(a)' = Storing(a)
    BY <2>1, <2>2, <2>3 DEF Storing, Pending
  <2>5. SecretWritesBounded'
    BY <2>1, <2>4, StoringKept DEF SecretInv
  <2>6. secret[b] # 0 /\ (writes[b] <= 1 => secret[b] = pass[t].secret)
    BY <2>1 DEF SecretInv
  <2>7. EnabledIsProven'
    <3>1. ASSUME NEW a \in enabled', writes[a] <= 1
          PROVE  secret[a] \in proven'[a]
      <4>1. a \in Admins /\ proven'[b] = proven[b] \cup {pass[t].secret}
        BY <2>1 DEF LoginTypes
      <4>2. CASE a = b
        BY <2>6, <3>1, <4>1, <4>2
      <4>3. CASE a # b
        <5>1. a \in enabled /\ proven'[a] = proven[a]
          BY <2>1, <4>1, <4>3 DEF LoginTypes
        <5>2. QED
          BY <3>1, <5>1 DEF SecretInv, EnabledIsProven
      <4>4. QED
        BY <4>2, <4>3
    <3>2. QED
      BY <2>1, <3>1 DEF EnabledIsProven
  <2>8. Rest'
    BY <2>1, <2>2, <2>3, <2>6, <2>7 DEF SecretInv, Pending
  <2>9. QED
    BY <1>0, <2>5, <2>8
<1>8. CASE UNCHANGED loginVars
  BY <1>8 DEF loginVars, SecretInv, SecretWritesBounded, EnabledIsProven, Storing, Pending
<1>9. ASSUME NEW t \in Tabs, NEW b \in Admins, SocialLogin(t, b)
      PROVE  SecretInv'
  <2>1. \A u \in Tabs \ {t} : session'[u] = session[u] /\ pass'[u] = pass[u]
    BY <1>9 DEF SocialLogin, LoginTypes
  <2>2. req[t].at = "idle" /\ req' = req
    BY <1>9 DEF SocialLogin, Idle
  <2>3. \A a \in Admins : Storing(a)' = Storing(a)
    BY <2>1, <2>2 DEF Storing, Pending
  <2>4. SecretWritesBounded'
    BY <1>9, <2>3, StoringKept DEF SecretInv, SocialLogin
  <2>5. Rest'
    BY <1>9, <2>1, <2>2 DEF SecretInv, SocialLogin, EnabledIsProven, Pending
  <2>6. QED
    BY <1>0, <2>4, <2>5
<1>10. QED
  BY <1>1, <1>2, <1>3, <1>4, <1>5, <1>6, <1>7, <1>8, <1>9
  DEF Next, RefuseCode, WrongCode, NextPeriod, vars

\* The invariant holds at the start, when nobody has a secret.
LEMMA SecretInit == Init => SecretInv
<1> SUFFICES ASSUME Init PROVE SecretInv
  OBVIOUS
<1>1. \A a \in Admins : Storing(a) = {} /\ writes[a] = 0
  BY DEF Init, Storing, Idle
<1>2. Cardinality({}) = 0 /\ Cardinality(Tabs) \in Nat
  BY FS_EmptySet, FS_CardinalityType, AdminLoginAssumption
<1>3. SecretWritesBounded
  BY <1>1, <1>2 DEF SecretWritesBounded
<1>4. QED
  BY <1>3 DEF Init, SecretInv, EnabledIsProven, Idle

\* Secrets are stored at most once per browser (get_or_create_totp_secret).
THEOREM SecretsBounded == Spec => []SecretWritesBounded
<1>1. SecretInv => SecretWritesBounded
  BY DEF SecretInv
<1>2. QED
  BY <1>1, SecretInit, TypeCorrect, SecretNext, PTL DEF Spec

\* The secret of an enabled factor is one a code was entered for, unless
\* set-up pages raced (confirm_totp_setup).
THEOREM EnabledCorrect == Spec => []EnabledIsProven
<1>1. SecretInv => EnabledIsProven
  BY DEF SecretInv
<1>2. QED
  BY <1>1, SecretInit, TypeCorrect, SecretNext, PTL DEF Spec

=============================================================================
