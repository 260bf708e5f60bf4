----------------------------- MODULE RateLimiter -----------------------------
(***************************************************************************)
(* InMemoryRateLimiter: a sliding window of hits for every key.  allow     *)
(* reads the clock and works under a lock without waiting for anything     *)
(* else, so a call is one step of whoever makes it.                        *)
(***************************************************************************)
EXTENDS Integers, Sequences, FiniteSets

CONSTANTS
  Keys,
  Limit,
  Window,
  MaxTime,   \* bound: the clock
  MaxHits    \* bound: hits admitted for a key

ASSUME RateLimiterAssumption ==
  /\ Limit \in Nat
  /\ Window \in Nat
  /\ MaxTime \in Nat
  /\ MaxHits \in Nat

VARIABLES
  now,    \* time.monotonic(), in periods of the one-time codes
  times,  \* history: when each hit of a key was admitted
  hits    \* the deque of a key: indices into times

limiterVars == <<times, hits>>

LimiterInit ==
  /\ now = 0
  /\ times = [k \in Keys |-> <<>>]
  /\ hits = [k \in Keys |-> {}]

\* Mutated: a hit as old as the window is dropped already.
OldAtBoundary(t) == t <= now - Window

Old(t) == t < now - Window

\* The loop drops hits from the left up to the first that is not old.
Kept(k) == {i \in hits[k] : \E j \in hits[k] : j <= i /\ ~Old(times[k][j])}

Allow(k) ==
  /\ Cardinality(Kept(k)) < Limit
  /\ Len(times[k]) < MaxHits
  /\ times' = [times EXCEPT ![k] = Append(@, now)]
  /\ hits' = [hits EXCEPT ![k] = Kept(k) \cup {Len(times[k]) + 1}]

Refuse(k) ==
  /\ Cardinality(Kept(k)) >= Limit
  /\ hits' = [hits EXCEPT ![k] = Kept(k)]
  /\ UNCHANGED times

Tick ==
  /\ now < MaxTime
  /\ now' = now + 1

LimiterTypes ==
  /\ now \in Nat
  /\ times \in [Keys -> Seq(Nat)]
  /\ hits \in [Keys -> SUBSET Nat]
  /\ \A k \in Keys : hits[k] \subseteq DOMAIN times[k]

\* Hits of a key admitted from time s to time s + Window.
Within(k, s) == {i \in DOMAIN times[k] : times[k][i] \in s..(s + Window)}

\* Wherever a window of Window seconds is laid, both its ends included, it
\* holds at most Limit admitted hits of a key (InMemoryRateLimiter.allow).
AtMostLimit ==
  \A k \in Keys : \A s \in 0..now : Cardinality(Within(k, s)) <= Limit

=============================================================================
