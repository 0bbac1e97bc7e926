----------------------------- MODULE RateLimiter -----------------------------
(***************************************************************************)
(* The fixed-window rate limiter of app/rate_limiter.py: the Lua script    *)
(* that Redis runs for every limited request, and what the enforcing       *)
(* dependencies do with its answer or with its absence.                    *)
(*                                                                         *)
(* Redis runs the script atomically, so calls interleave only between      *)
(* scripts.  Time passes in ticks of half a second: the TTL command rounds *)
(* the remaining time to whole seconds.                                    *)
(*                                                                         *)
(* Operators whose names end in "Slip" are plausible mistakes in the       *)
(* definition that follows them; the specification does not use them.      *)
(***************************************************************************)
EXTENDS Integers

CONSTANTS
  AuthKeys,   \* keys of login and registration attempts: fail closed
  WriteKeys,  \* keys of authenticated writes: fail open
  Limit,      \* requests per window
  Seconds,    \* length of a window
  MaxLosses,  \* bound: how often a key loses its expiry
  MaxRestarts \* bound: restarts of Redis in the time of one window

ASSUME RateLimiterAssumption ==
  /\ Limit \in Nat \ {0}
  /\ Seconds \in Nat \ {0}
  /\ MaxLosses \in Nat
  /\ MaxRestarts \in Nat
  /\ AuthKeys \cap WriteKeys = {}

Keys == AuthKeys \cup WriteKeys

\* The length of a window in ticks.  A key with no time left still exists.
Window == 2 * Seconds
NoExpiry == -1
NoPromise == -1

\* Bound: requests let through in one tick are counted up to here, above all that
\* the properties compare their sums with.
Many(k) == IF k \in WriteKeys THEN Limit ELSE (2 + MaxRestarts) * Limit

VARIABLES
  count,      \* key -> its counter, 0 if there is no such key; above Limit all alike
  ttl,        \* key -> ticks until it expires, NoExpiry if it has no expiry or is absent
  passed,     \* history: key -> age in ticks -> requests let through then
  restarted,  \* history: age in ticks -> restarts of Redis then
  due,        \* key -> ticks left of what a refused client of this counter was told
  losses      \* how often an expiry was lost

vars == <<count, ttl, passed, restarted, due, losses>>

\* Age -> how many of a tally are that old or younger.
Totals(tally) ==
  LET sum[age \in 0..Window] == IF age = 0 THEN tally[0] ELSE sum[age - 1] + tally[age]
  IN  sum

\* Half a second later; the oldest tally leaves the window.
Aged(tally) == [age \in 0..Window |-> IF age = 0 THEN 0 ELSE tally[age - 1]]

-----------------------------------------------------------------------------
(* FIXED_WINDOW_LUA.                                                       *)

\* INCR
Incremented(n) == IF n > Limit THEN n ELSE n + 1

\* EXPIRE for a new counter and for one without expiry.
ExpiryAfterEveryCallSlip(k) == Window
ExpiryAfterNoRepairSlip(k) == IF count[k] = 0 THEN Window ELSE ttl[k]
ExpiryAfterLongSlip(k) == IF Incremented(count[k]) = 1 \/ ttl[k] < 0 THEN Window + 1 ELSE ttl[k]

ExpiryAfter(k) == IF Incremented(count[k]) = 1 \/ ttl[k] < 0 THEN Window ELSE ttl[k]

Script(k) ==
  /\ count' = [count EXCEPT ![k] = Incremented(@)]
  /\ ttl' = [ttl EXCEPT ![k] = ExpiryAfter(k)]
  /\ UNCHANGED <<restarted, losses>>

\* TTL, in whole seconds.
TTL(ticks) == (ticks + 1) \div 2

-----------------------------------------------------------------------------
(* check_key and the enforcing dependencies.                               *)

AllowedSlip(n) == n < Limit
Allowed(n) == n <= Limit

RetryAfter(ticks) == IF TTL(ticks) < 1 THEN 1 ELSE TTL(ticks)

LetThrough(k) ==
  passed' = [passed EXCEPT ![k][0] = IF @ < Many(k) THEN @ + 1 ELSE @]

Sooner(a, b) == IF a = NoPromise \/ b < a THEN b ELSE a

\* 429 with Retry-After: half a second later at most the counter is gone.
Refuse(k) ==
  /\ due' = [due EXCEPT ![k] = Sooner(@, 2 * RetryAfter(ttl'[k]) + 1)]
  /\ UNCHANGED passed

\* A RedisError: 503 for authentication, the request proceeds for a write.
FailurePolicySlip(k) == LetThrough(k) /\ UNCHANGED due

FailurePolicy(k) ==
  /\ IF k \in WriteKeys THEN LetThrough(k) ELSE UNCHANGED passed
  /\ UNCHANGED due

\* The script runs and its answer arrives.
Answered(k) ==
  /\ Script(k)
  /\ IF Allowed(count'[k]) THEN LetThrough(k) /\ UNCHANGED due ELSE Refuse(k)

\* The script runs but the answer is lost or comes after the socket timeout.
Unanswered(k) == Script(k) /\ FailurePolicy(k)

\* Redis cannot be reached.
Unreachable(k) == FailurePolicy(k) /\ UNCHANGED <<count, ttl, restarted, losses>>

-----------------------------------------------------------------------------
(* Redis and the clock.                                                    *)

Left(n) == IF n > 0 THEN n - 1 ELSE NoExpiry
Expires(k) == count[k] > 0 /\ ttl[k] = 0

Tick ==
  /\ count' = [k \in Keys |-> IF Expires(k) THEN 0 ELSE count[k]]
  /\ ttl' = [k \in Keys |-> Left(ttl[k])]
  /\ passed' = [k \in Keys |-> Aged(passed[k])]
  /\ restarted' = Aged(restarted)
  /\ due' = [k \in Keys |-> IF Expires(k) \/ due[k] <= 0 THEN NoPromise ELSE due[k] - 1]
  /\ UNCHANGED losses

\* Redis keeps nothing on disk: a restart forgets every counter, not what they
\* have let through.
Restart ==
  /\ Totals(restarted)[Window] < MaxRestarts
  /\ count' = [k \in Keys |-> 0]
  /\ ttl' = [k \in Keys |-> NoExpiry]
  /\ restarted' = [restarted EXCEPT ![0] = @ + 1]
  /\ due' = [k \in Keys |-> NoPromise]
  /\ UNCHANGED <<passed, losses>>

\* Something else than the script leaves a counter without expiry.
LoseExpiry(k) ==
  /\ losses < MaxLosses
  /\ count[k] > 0
  /\ losses' = losses + 1
  /\ ttl' = [ttl EXCEPT ![k] = NoExpiry]
  /\ due' = [due EXCEPT ![k] = NoPromise]
  /\ UNCHANGED <<count, passed, restarted>>

-----------------------------------------------------------------------------
Init ==
  /\ count = [k \in Keys |-> 0]
  /\ ttl = [k \in Keys |-> NoExpiry]
  /\ passed = [k \in Keys |-> [age \in 0..Window |-> 0]]
  /\ restarted = [age \in 0..Window |-> 0]
  /\ due = [k \in Keys |-> NoPromise]
  /\ losses = 0

Next ==
  \/ \E k \in Keys :
       \/ Answered(k)
       \/ Unanswered(k)
       \/ Unreachable(k)
       \/ LoseExpiry(k)
  \/ Tick
  \/ Restart

Spec == Init /\ [][Next]_vars

\* Time passes, and clients keep trying and reach Redis.
RetryingSpec == Spec /\ WF_vars(Tick) /\ \A k \in Keys : WF_vars(Answered(k))

-----------------------------------------------------------------------------
(* Properties.                                                             *)

\* Counters, expiries and promises are in range; an absent counter has no expiry.
TypeOK ==
  /\ count \in [Keys -> 0..(Limit + 1)]
  /\ ttl \in [Keys -> {NoExpiry} \cup 0..Window]
  /\ passed \in [Keys -> [0..Window -> Nat]]
  /\ \A k \in Keys, age \in 0..Window : passed[k][age] <= Many(k)
  /\ restarted \in [0..Window -> Nat]
  /\ Totals(restarted)[Window] <= MaxRestarts
  /\ due \in [Keys -> {NoPromise} \cup 0..(Window + 2)]
  /\ losses \in 0..MaxLosses
  /\ \A k \in Keys : count[k] = 0 => ttl[k] = NoExpiry

InWindow(k) == Totals(passed[k])[Window]

\* Whatever Redis answers, loses or fails to answer, no interval as long as a
\* window lets through more logins or registrations of one key than the boundary
\* burst of the fixed window, "nearly twice the configured limit", and Limit more
\* for each time that Redis restarted in it without its counters.
BoundaryBurst ==
  \A k \in AuthKeys : InWindow(k) <= (2 + Totals(restarted)[Window]) * Limit - 1

\* A write is refused only when its user has really had Limit writes let through
\* in the last window: lost answers count, but their writes proceeded.
RefusalIsEarned ==
  \A k \in WriteKeys : (due[k] # NoPromise /\ losses = 0) => InWindow(k) >= Limit

\* Retry-After never promises too little by more than the half second TTL rounds
\* away: calls that are refused meanwhile do not prolong the window.
PromiseKept == \A k \in Keys : due[k] # NoPromise => ttl[k] <= due[k]

\* A client that keeps trying is not refused for ever, even if its counter once
\* lost its expiry.
BlockedKeysRecover == \A k \in Keys : count[k] > Limit ~> count[k] <= Limit
=============================================================================
