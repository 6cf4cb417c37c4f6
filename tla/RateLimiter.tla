----------------------------- MODULE RateLimiter -----------------------------
(***************************************************************************)
(* The sliding window of backend/ratelimit.py.  Its callers are            *)
(* synchronous dependencies, which the server runs on a pool of threads:   *)
(* a check reads the clock first and takes the lock afterwards, so checks  *)
(* may enter the table in another order than they read the clock.          *)
(***************************************************************************)
EXTENDS Naturals, Sequences, FiniteSets, FiniteSetsExt

CONSTANTS
  Threads, Keys,
  WindowSeconds, \* WINDOW_SECONDS, in ticks of the clock
  Limit,         \* requests a key may make in a window
  MaxTime,       \* bound: the last tick
  MaxHits,       \* bound: requests a key makes
  None

ASSUME LimitIsPositive ==
  WindowSeconds \in Nat \ {0} /\ Limit \in Nat \ {0} /\ MaxTime \in Nat

VARIABLES
  clock,
  check,         \* the check a thread has begun: its key and the time it read
  hits,          \* _hits: which requests of each key are recorded, {} for no entry
  admitted,      \* history: the times of all the requests let through
  refused,       \* history: the last request turned away, and what it was counted against
  lastNow,       \* history: the latest time a check entered with
  inOrder        \* history: the checks took the lock in the order of their times

limiterVars == <<clock, check, hits, admitted, refused, lastNow, inOrder>>

Times == 0..MaxTime

\* A hit is the number of the request in admitted: the code's list of times is
\* [admitted[k][i] : i in hits[k]], in the order of the numbers.

\* The hits of s that a check at time now still counts.
\* Mutant: a hit exactly as old as the window is counted.
CountedClosed(k, s, now) == {i \in s : now <= admitted[k][i] + WindowSeconds}
Counted(k, s, now) == {i \in s : now < admitted[k][i] + WindowSeconds}

LimiterInit ==
  /\ clock = 0
  /\ check = [p \in Threads |-> None]
  /\ hits = [k \in Keys |-> {}]
  /\ admitted = [k \in Keys |-> <<>>]
  /\ refused = None
  /\ lastNow = 0
  /\ inOrder = TRUE

Tick ==
  /\ clock < MaxTime
  /\ clock' = clock + 1
  /\ UNCHANGED <<check, hits, admitted, refused, lastNow, inOrder>>

\* now = self._clock(), outside the lock.
Begin(p, k) ==
  /\ check[p] = None
  /\ Len(admitted[k]) < MaxHits
  /\ check' = [check EXCEPT ![p] = [key |-> k, now |-> clock]]
  /\ UNCHANGED <<clock, hits, admitted, refused, lastNow, inOrder>>

\* Mutant: a key is judged by its first hit.
IdleByFirst(k, now) == hits[k] = {} \/ admitted[k][Min(hits[k])] + WindowSeconds <= now
\* _prune_idle() judges a key by its last recorded hit.
Idle(k, now) == hits[k] = {} \/ admitted[k][Max(hits[k])] + WindowSeconds <= now

Pruned(now) == [k \in Keys |-> IF Idle(k, now) THEN {} ELSE hits[k]]

Room(s) == Cardinality(s) < Limit

\* The locked part of allow(): prune, count, record.  A refusal writes nothing but
\* the pruning.
Enter(p) ==
  LET k == check[p].key
      now == check[p].now
      counted == Counted(k, Pruned(now)[k], now)
  IN /\ check[p] # None
     /\ \/ /\ Room(counted)
           /\ hits' = [Pruned(now) EXCEPT ![k] = counted \union {Len(admitted[k]) + 1}]
           /\ admitted' = [admitted EXCEPT ![k] = Append(@, now)]
           /\ UNCHANGED refused
        \/ /\ ~Room(counted)
           /\ hits' = Pruned(now)
           /\ refused' = [key |-> k, now |-> now, of |-> admitted[k]]
           /\ UNCHANGED admitted
     /\ check' = [check EXCEPT ![p] = None]
     /\ lastNow' = Max({lastNow, now})
     /\ inOrder' = (inOrder /\ lastNow <= now)
     /\ UNCHANGED clock

LimiterNext ==
  \/ Tick
  \/ \E p \in Threads : Enter(p) \/ \E k \in Keys : Begin(p, k)

LimiterSpec == LimiterInit /\ [][LimiterNext]_limiterVars

-----------------------------------------------------------------------------
\* The requests of k let through in the window that ends at time t.
InWindow(s, t) == {i \in DOMAIN s : s[i] <= t /\ t < s[i] + WindowSeconds}

Limited == \A k \in Keys : \A t \in Times : Cardinality(InWindow(admitted[k], t)) <= Limit

\* As long as checks take the lock in the order they read the clock, no key gets
\* more than Limit requests through in any window, whatever other keys' checks prune.
InOrderIsLimited == inOrder => Limited

\* A request is turned away only if Limit requests of its own key, not older than
\* the window, were let through before it: another key's burst costs it nothing.
RefusedIsOverLimit ==
  refused # None =>
    Cardinality({i \in DOMAIN refused.of : refused.now < refused.of[i] + WindowSeconds}) >= Limit
=============================================================================
