---------------------------- MODULE LoginLimiter ----------------------------
(***************************************************************************)
(* The limit of login attempts from one address                            *)
(* (services/rate_limit_service.py): a sliding window, in Redis when the   *)
(* process found it at its start, in the memory of the process otherwise.  *)
(* The time of an attempt is read before its turn to be counted comes.     *)
(* Redis counts every attempt, the memory those it let in.                 *)
(***************************************************************************)
EXTENDS Integers, FiniteSetsExt

CONSTANTS Workers,        \* backend processes
          Redis,          \* the store they share
          Attempts,       \* requests in progress
          MaxRequests,    \* attempts let in per window
          Window,         \* length of the window
          MaxTick,        \* bound: time stops there
          MaxTried        \* bound: attempts counted by a store

ASSUME RedisAssumption  == Redis \notin Workers
ASSUME WindowAssumption == MaxRequests \in Nat \ {0} /\ Window \in Nat \ {0} /\ MaxTick \in Nat

VARIABLES
  tick,     \* time.time()
  store,    \* store[w]: where process w counts, Redis or its own memory
  stamps,   \* stamps[s][i]: attempts of time i that store s keeps
  try,      \* try[a]: progress of an attempt
  tried,    \* tried[s][i]: attempts of time i that s has counted or refused (history)
  passed,   \* passed[s][i]: attempts of time i that s has let in (history)
  newest,   \* newest[s]: latest time that s has looked at (history)
  overtaken \* s has looked at an attempt after a later one (history)

limiterVars == <<tick, store, stamps, try, tried, passed, newest, overtaken>>

Stores == Workers \cup {Redis}
Ticks  == 0 .. MaxTick
NoStamps == [i \in Ticks |-> 0]
NoTry   == [step |-> "idle"]

LimiterInit ==
  /\ tick = 0
  /\ store \in {f \in [Workers -> Stores] : \A w \in Workers : f[w] \in {w, Redis}}
  /\ stamps = [s \in Stores |-> NoStamps]
  /\ try = [a \in Attempts |-> NoTry]
  /\ tried = [s \in Stores |-> NoStamps] /\ passed = [s \in Stores |-> NoStamps]
  /\ newest = [s \in Stores |-> 0] /\ overtaken = [s \in Stores |-> FALSE]

Total(count)        == MapThenSumSet(LAMBDA i : count[i], Ticks)
InWindow(count, at) == MapThenSumSet(LAMBDA i : count[i], {i \in Ticks : at - Window < i /\ i <= at})

\* zremrangebyscore, and the comprehension of _memory_check: nothing above the window goes.
Remaining(count, at) == [i \in Ticks |-> IF i <= at - Window THEN 0 ELSE count[i]]
Plus(count, i)  == [count EXCEPT ![i] = @ + 1]

\* _check_rate_limit: /login asks, /token does not.
Stamp(a, w) ==
  /\ try[a].step = "idle"
  /\ try' = [try EXCEPT ![a] = [step |-> "stamped", at |-> tick, by |-> w, in |-> store[w]]]
  /\ UNCHANGED <<tick, store, stamps, tried, passed, newest, overtaken>>

----------------------------------------------------------------------------
(* The two stores.  A definition named ..._Faulty is the one after it with a *)
(* plausible mistake; no formula uses it.                                   *)

\* One transaction of Redis: what is left in the window is counted, then the attempt is
\* added whatever the count.
_redis_check_Faulty(s, at) ==
  LET kept == Remaining(stamps[s], at)
  IN [stamps |-> Plus(kept, at), allowed |-> Total(kept) <= MaxRequests]
_redis_check(s, at) ==
  LET kept == Remaining(stamps[s], at)
  IN [stamps |-> Plus(kept, at), allowed |-> Total(kept) < MaxRequests]

\* Under the lock: only an attempt that is let in is added.
_memory_check(s, at) ==
  LET kept == Remaining(stamps[s], at)
  IN IF Total(kept) >= MaxRequests THEN [stamps |-> kept, allowed |-> FALSE]
     ELSE [stamps |-> Plus(kept, at), allowed |-> TRUE]

is_allowed(a) ==
  /\ try[a].step = "stamped"
  /\ LET s   == try[a].in
         at  == try[a].at
         out == IF s = Redis THEN _redis_check(s, at) ELSE _memory_check(s, at)
     IN /\ Total(tried[s]) < MaxTried
        /\ stamps' = [stamps EXCEPT ![s] = out.stamps]
        /\ tried' = [tried EXCEPT ![s] = Plus(@, at)]
        /\ passed' = IF out.allowed THEN [passed EXCEPT ![s] = Plus(@, at)] ELSE passed
        /\ newest' = IF at > newest[s] THEN [newest EXCEPT ![s] = at] ELSE newest
        /\ overtaken' = IF at < newest[s] THEN [overtaken EXCEPT ![s] = TRUE] ELSE overtaken
        /\ try' = [try EXCEPT ![a].step = IF out.allowed THEN "allowed" ELSE "refused"]
  /\ UNCHANGED <<tick, store>>

Leave(a) ==
  /\ try[a].step \in {"allowed", "refused"}
  /\ try' = [try EXCEPT ![a] = NoTry]
  /\ UNCHANGED <<tick, store, stamps, tried, passed, newest, overtaken>>

\* A process ends, with its attempts and its memory, and starts again with or without Redis.
Restart(w, s) ==
  /\ s \in {w, Redis}
  /\ store' = [store EXCEPT ![w] = s]
  /\ stamps' = [stamps EXCEPT ![w] = NoStamps]
  /\ tried' = [tried EXCEPT ![w] = NoStamps] /\ passed' = [passed EXCEPT ![w] = NoStamps]
  /\ newest' = [newest EXCEPT ![w] = 0] /\ overtaken' = [overtaken EXCEPT ![w] = FALSE]
  /\ try' = [a \in Attempts |-> IF try[a].step # "idle" /\ try[a].by = w THEN NoTry ELSE try[a]]
  /\ UNCHANGED tick

Tick == tick < MaxTick /\ tick' = tick + 1
        /\ UNCHANGED <<store, stamps, try, tried, passed, newest, overtaken>>

LimiterNext ==
  \/ \E a \in Attempts : (\E w \in Workers : Stamp(a, w)) \/ is_allowed(a) \/ Leave(a)
  \/ \E w \in Workers, s \in Stores : Restart(w, s)
  \/ Tick

LimiterSpec == LimiterInit /\ [][LimiterNext]_limiterVars

----------------------------------------------------------------------------
(* Properties *)

\* While attempts are counted in the order of their times, a store lets in at most
\* MaxRequests of them in any window, those of all processes together in Redis and those of
\* its own process in a memory; and it turns an attempt away only when the window is full,
\* of attempts it let in for a memory, of attempts of any kind for Redis, where an address
\* that keeps trying keeps itself out (rate_limit_service.py:25-46).  An attempt that is
\* counted after a later one escapes the bound: the later one has dropped what the window
\* of the earlier still holds.
AttemptsBounded ==
  \A s \in Stores : ~overtaken[s] =>
    /\ \A at \in Ticks : InWindow(passed[s], at) <= MaxRequests
    /\ \A a \in Attempts : try[a].step = "refused" /\ try[a].in = s =>
         InWindow(IF s = Redis THEN tried[s] ELSE passed[s], try[a].at)
           >= MaxRequests + (IF s = Redis THEN 1 ELSE 0)
=============================================================================
