--------------------------- MODULE RedisSemaphore ---------------------------
(***************************************************************************)
(* RedisSemaphore of worker-core: a sorted set of lease tokens scored by   *)
(* the time of their acquisition, as the client's clock gave it.  A token  *)
(* is fresh for each lease; here it is the call that took it.  The key's   *)
(* own expiry is left out: by then a prune would drop every entry anyway.  *)
(***************************************************************************)
EXTENDS Integers, FiniteSets

CONSTANTS Calls,   \* the calls that may take a lease, each at most once
          Limit,   \* FIRECRAWL_CONCURRENCY
          TtlMs    \* a lease's time to live

ASSUME SemaphoreAssumption == Limit \in Nat \ {0} /\ TtlMs \in Nat

VARIABLE slots     \* the sorted set: pairs <<token, score>>

SemaphoreTypeOK == slots \subseteq (Calls \X Nat)

SemaphoreInit == slots = {}

Holds(c) == \E e \in slots : e[1] = c

\* ZREMRANGEBYSCORE key -inf now-ttl.
Pruned(now) == {e \in slots : e[2] > now - TtlMs}

\* A count that lets one more in.
HasRoom_offByOne(now) == Cardinality(Pruned(now)) <= Limit

\* ACQUIRE_LUA at client time now: prune, then count.
HasRoom(now) == Cardinality(Pruned(now)) < Limit

TakeSlot(c, now) == HasRoom(now) /\ slots' = Pruned(now) \cup {<<c, now>>}

NoSlot(now) == ~HasRoom(now) /\ slots' = Pruned(now)

\* A release that deletes the key.
ReleaseSlot_all(c) == slots' = {}

\* RELEASE_LUA: ZREM of the lease's own token, if it is still there.
ReleaseSlot(c) == slots' = {e \in slots : e[1] # c}

\* Redis itself never holds more leases than the limit (semaphore.ts:60).
WithinLimit == Cardinality(slots) <= Limit
=============================================================================
