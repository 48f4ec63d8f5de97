---------------------------- MODULE CrawlerProofs ----------------------------
(***************************************************************************)
(* What holds of Crawler for any number of calls, hosts and workers, any   *)
(* limits and times to live, and any lag and number of crashes.            *)
(***************************************************************************)
EXTENDS Crawler, FiniteSetTheorems, TLAPS

USE BreakerAssumption, SemaphoreAssumption, LimiterAssumption, CrawlerAssumption

------------------------------------------------------------------------------
(* The breaker.                                                            *)

BreakerInv == BreakerTypeOK /\ ClosedBelowThreshold

LEMMA BreakerInitially == BreakerInit => BreakerInv
  BY DEF BreakerInit, BreakerInv, BreakerTypeOK, ClosedBelowThreshold, CircuitState

LEMMA BreakerExec ==
  ASSUME NEW w \in Workers, NEW t \in Nat, BreakerInv, FailFast(w, t) \/ LetThrough(w, t)
  PROVE  BreakerInv'
<1> USE DEF BreakerInv, BreakerTypeOK, ClosedBelowThreshold, CircuitState
<1>1. CASE FailFast(w, t)
  BY <1>1 DEF FailFast, breakerVars
<1>2. CASE LetThrough(w, t)
  BY <1>2 DEF LetThrough, GetState
<1>3. QED
  BY <1>1, <1>2

LEMMA BreakerSuccess ==
  ASSUME NEW w \in Workers, BreakerInv, OnSuccess(w)
  PROVE  BreakerInv'
  BY DEF BreakerInv, BreakerTypeOK, ClosedBelowThreshold, CircuitState, OnSuccess

LEMMA BreakerFailure ==
  ASSUME NEW w \in Workers, NEW t \in Nat, BreakerInv, OnFailure(w, t)
  PROVE  BreakerInv'
<1> USE DEF BreakerInv, BreakerTypeOK, ClosedBelowThreshold, CircuitState, OnFailure
<1>1. CASE Trips(w)
  BY <1>1 DEF Trips
<1>2. CASE ~Trips(w)
  BY <1>2 DEF Trips
<1>3. QED
  BY <1>1, <1>2

LEMMA BreakerReset ==
  ASSUME NEW w \in Workers, BreakerInv, ResetBreaker(w)
  PROVE  BreakerInv'
  BY DEF BreakerInv, BreakerTypeOK, ClosedBelowThreshold, CircuitState, ResetBreaker

LEMMA BreakerStutters ==
  ASSUME BreakerInv, UNCHANGED breakerVars
  PROVE  BreakerInv'
  BY DEF BreakerInv, BreakerTypeOK, ClosedBelowThreshold, breakerVars

\* An answer of scrape, whichever request it is to.
LEMMA BreakerReplies ==
  ASSUME NEW c \in Calls, now \in Nat, BreakerInv,
         BasicReplies(c) \/ StealthReplies(c) \/ RetryReplies(c)
  PROVE  BreakerInv'
<1>1. Home[c] \in Workers
  OBVIOUS
<1>2. ASSUME NEW page, ScrapeReturns(c, page) PROVE BreakerInv'
  BY <1>1, <1>2, BreakerSuccess DEF ScrapeReturns
<1>3. ASSUME ScrapeThrows(c) PROVE BreakerInv'
  BY <1>1, <1>3, BreakerFailure DEF ScrapeThrows
<1>4. ASSUME NEW where, ScrapeGoesOn(c, where) PROVE BreakerInv'
  BY <1>4, BreakerStutters DEF ScrapeGoesOn
<1>5. QED
  BY <1>2, <1>3, <1>4 DEF BasicReplies, StealthReplies, RetryReplies, Reply

CircuitInv == now \in Nat /\ BreakerInv

LEMMA BreakerNext == CircuitInv /\ [Next]_vars => CircuitInv'
<1> SUFFICES ASSUME now \in Nat, BreakerInv, [Next]_vars
             PROVE  now' \in Nat /\ BreakerInv'
  BY DEF CircuitInv
<1>1. CASE \E c \in Calls : CallStep(c)
  <2> PICK c \in Calls : CallStep(c)
    BY <1>1
  <2>1. CASE \/ RejectInput(c) \/ Begin(c) \/ GetToken(c) \/ AwaitToken(c) \/ LimiterFails(c)
             \/ GetSlot(c) \/ AwaitSlot(c) \/ SlotFails(c) \/ Release(c)
    BY <2>1, BreakerStutters
       DEF RejectInput, Begin, GetToken, AwaitToken, LimiterFails, GetSlot, AwaitSlot, SlotFails,
           Release
  <2>2. CASE Exec(c)
    <3>1. FailFast(Home[c], now) \/ LetThrough(Home[c], now)
      BY <2>2 DEF Exec
    <3>2. Home[c] \in Workers /\ now' = now
      BY <2>2 DEF Exec
    <3>3. QED
      BY <3>1, <3>2, BreakerExec
  <2>3. CASE BasicReplies(c) \/ StealthReplies(c) \/ RetryReplies(c)
    <3>1. now' = now
      BY <2>3 DEF BasicReplies, StealthReplies, RetryReplies
    <3>2. QED
      BY <2>3, <3>1, BreakerReplies
  <2>4. QED
    BY <2>1, <2>2, <2>3 DEF CallStep
<1>2. CASE \E w \in Workers : Crash(w)
  BY <1>2, BreakerReset DEF Crash
<1>3. CASE Tick
  BY <1>3, BreakerStutters DEF Tick
<1>4. CASE UNCHANGED vars
  BY <1>4, BreakerStutters DEF vars
<1>5. QED
  BY <1>1, <1>2, <1>3, <1>4 DEF Next

\* In every run the circuit of every worker is closed exactly while the failures in a
\* row are below the threshold, in whatever order overlapping calls end
\* (circuit-breaker.ts:54-81).
THEOREM CircuitFollowsCounter == Spec => []ClosedBelowThreshold
<1>1. Init => CircuitInv
  BY BreakerInitially DEF Init, CircuitInv
<1>2. CircuitInv => ClosedBelowThreshold
  BY DEF CircuitInv, BreakerInv
<1>3. QED
  BY <1>1, <1>2, BreakerNext, PTL DEF Spec

------------------------------------------------------------------------------
(* The semaphore.  A lease whose TTL is not over is in the sorted set with *)
(* the timestamp its holder remembers: what any client prunes is older     *)
(* than TtlMs by that client's clock, so all the more by the true one.     *)

LeaseKept == \A c \in Calls : LiveHolder(c) => <<c, since[c]>> \in slots

LeaseInv ==
    /\ now \in Nat
    /\ since \in [Calls -> Nat]
    /\ pc \in [Calls -> CallState]
    /\ slots \subseteq (Calls \X Nat)
    /\ IsFiniteSet(slots)
    /\ WithinLimit
    /\ LeaseKept

LEMMA LeaseInitially == Init => LeaseInv
<1> SUFFICES ASSUME Init PROVE LeaseInv
  OBVIOUS
<1>1. IsFiniteSet(slots) /\ WithinLimit
  BY FS_EmptySet DEF Init, SemaphoreInit, WithinLimit
<1>2. LeaseKept
  BY DEF Init, LeaseKept, LiveHolder, Scraping
<1>3. QED
  BY <1>1, <1>2 DEF Init, SemaphoreInit, LeaseInv, CallState

\* Steps that neither touch the sorted set nor give a call a lease.
LEMMA LeaseUntouched ==
  ASSUME LeaseInv, slots' = slots, now' \in Nat, now' >= now,
         since' \in [Calls -> Nat], pc' \in [Calls -> CallState],
         \A c \in Calls : LiveHolder(c)' => LiveHolder(c) /\ since'[c] = since[c]
  PROVE  LeaseInv'
  BY DEF LeaseInv, LeaseKept, WithinLimit

\* Pruning drops only leases whose TTL is over.
LEMMA PrunedKeepsLive ==
  ASSUME LeaseInv, NEW t \in Nat, t <= now
  PROVE  /\ Pruned(t) \subseteq slots /\ IsFiniteSet(Pruned(t))
         /\ Cardinality(Pruned(t)) <= Cardinality(slots)
         /\ \A c \in Calls : LiveHolder(c) => <<c, since[c]>> \in Pruned(t)
<1>1. Pruned(t) \in SUBSET slots
  BY DEF Pruned
<1>2. ASSUME NEW c \in Calls, LiveHolder(c) PROVE <<c, since[c]>> \in Pruned(t)
  BY <1>2 DEF Pruned, LeaseInv, LeaseKept, LiveHolder
<1>3. QED
  BY <1>1, <1>2, FS_Subset DEF LeaseInv

\* Every timestamp a script may carry is one the clock has reached.
LEMMA StampsPast ==
  ASSUME LeaseInv, NEW t \in Stamps
  PROVE  t \in Nat /\ t <= now
  BY DEF Stamps, LeaseInv

\* A script that prunes and may add an entry keeps the live leases and the limit.
LEMMA ScriptKeepsLeases ==
  ASSUME LeaseInv, NEW c \in Calls, NEW t \in Stamps, TakeSlot(c, t) \/ NoSlot(t)
  PROVE  /\ slots' \subseteq (Calls \X Nat) /\ IsFiniteSet(slots') /\ Cardinality(slots') <= Limit
         /\ \A d \in Calls : LiveHolder(d) => <<d, since[d]>> \in slots'
<1>1. t \in Nat /\ t <= now
  BY StampsPast
<1>2. /\ Pruned(t) \subseteq slots /\ IsFiniteSet(Pruned(t))
      /\ Cardinality(Pruned(t)) <= Cardinality(slots)
      /\ \A d \in Calls : LiveHolder(d) => <<d, since[d]>> \in Pruned(t)
  BY <1>1, PrunedKeepsLive
<1>3. Cardinality(slots) \in Nat /\ Cardinality(Pruned(t)) \in Nat
  BY <1>2, FS_CardinalityType DEF LeaseInv
<1>4. CASE NoSlot(t)
  BY <1>2, <1>3, <1>4 DEF NoSlot, LeaseInv, WithinLimit
<1>5. CASE TakeSlot(c, t)
  <2>1. slots' = Pruned(t) \cup {<<c, t>>} /\ Cardinality(Pruned(t)) < Limit
    BY <1>5 DEF TakeSlot, HasRoom
  <2>2. /\ IsFiniteSet(Pruned(t) \cup {<<c, t>>})
        /\ Cardinality(Pruned(t) \cup {<<c, t>>}) <= Cardinality(Pruned(t)) + 1
    <3> DEFINE S == Pruned(t)
               x == <<c, t>>
    <3>1. IsFiniteSet(S) /\ Cardinality(S) \in Nat
      BY <1>2, <1>3
    <3> HIDE DEF S, x
    <3>2. /\ IsFiniteSet(S \cup {x})
          /\ Cardinality(S \cup {x}) = IF x \in S THEN Cardinality(S) ELSE Cardinality(S) + 1
      BY <3>1, FS_AddElement
    <3>3. Cardinality(S \cup {x}) <= Cardinality(S) + 1
      BY <3>1, <3>2
    <3>4. QED
      BY <3>2, <3>3 DEF S, x
  <2>3. Cardinality(Pruned(t) \cup {<<c, t>>}) \in Nat
    BY <2>2, FS_CardinalityType
  <2>4. slots' \subseteq (Calls \X Nat)
    BY <1>1, <1>2, <2>1 DEF LeaseInv
  <2>5. QED
    BY <1>2, <1>3, <2>1, <2>2, <2>3, <2>4
<1>6. QED
  BY <1>4, <1>5

LEMMA GetSlotKeepsLeases ==
  ASSUME LeaseInv, NEW c \in Calls, GetSlot(c)
  PROVE  LeaseInv'
<1>1. PICK t \in Stamps : TakeSlot(c, t) /\ since' = [since EXCEPT ![c] = t]
  BY DEF GetSlot
<1>2. t \in Nat /\ t <= now
  BY StampsPast
<1>3. slots' = Pruned(t) \cup {<<c, t>>}
  BY <1>1 DEF TakeSlot
<1>4. /\ slots' \subseteq (Calls \X Nat) /\ IsFiniteSet(slots') /\ Cardinality(slots') <= Limit
      /\ \A d \in Calls : LiveHolder(d) => <<d, since[d]>> \in slots'
  BY <1>1, ScriptKeepsLeases
<1>5. now' = now /\ since' \in [Calls -> Nat] /\ pc' \in [Calls -> CallState]
  BY <1>1, <1>2 DEF GetSlot, Goto, LeaseInv, CallState
<1>6. ASSUME NEW d \in Calls, LiveHolder(d)' PROVE <<d, since'[d]>> \in slots'
  <2>1. CASE d = c
    BY <1>1, <1>3, <2>1 DEF LeaseInv
  <2>2. CASE d # c
    <3>1. since'[d] = since[d] /\ pc'[d] = pc[d]
      BY <1>1, <2>2 DEF GetSlot, Goto, LeaseInv
    <3>2. LiveHolder(d)
      BY <1>5, <1>6, <3>1 DEF LiveHolder
    <3>3. QED
      BY <1>4, <3>1, <3>2
  <2>3. QED
    BY <2>1, <2>2
<1>7. QED
  BY <1>4, <1>5, <1>6 DEF LeaseInv, LeaseKept, WithinLimit

LEMMA NoLeaseKeepsLeases ==
  ASSUME LeaseInv, NEW c \in Calls, AwaitSlot(c) \/ SlotFails(c)
  PROVE  LeaseInv'
<1>1. /\ slots' \subseteq (Calls \X Nat) /\ IsFiniteSet(slots') /\ Cardinality(slots') <= Limit
      /\ \A d \in Calls : LiveHolder(d) => <<d, since[d]>> \in slots'
  <2>1. CASE \E t \in Stamps : TakeSlot(c, t) \/ NoSlot(t)
    BY <2>1, ScriptKeepsLeases
  <2>2. CASE slots' = slots
    BY <2>2 DEF LeaseInv, LeaseKept, WithinLimit
  <2>3. QED
    BY <2>1, <2>2 DEF AwaitSlot, SlotFails
<1>2. now' = now /\ since' = since /\ pc' \in [Calls -> CallState]
  BY DEF AwaitSlot, SlotFails, Goto, LeaseInv, CallState, callVars
<1>3. \A d \in Calls : LiveHolder(d)' => LiveHolder(d)
  BY <1>2 DEF AwaitSlot, SlotFails, Goto, LeaseInv, LiveHolder, Scraping
<1>4. QED
  BY <1>1, <1>2, <1>3 DEF LeaseInv, LeaseKept, WithinLimit

LEMMA ReleaseKeepsLeases ==
  ASSUME LeaseInv, NEW c \in Calls, Release(c)
  PROVE  LeaseInv'
<1>1. /\ now' = now /\ since' = since /\ pc' = [pc EXCEPT ![c] = "answered"]
      /\ pc' \in [Calls -> CallState]
  BY DEF Release, Goto, LeaseInv, CallState, callVars
<1>2. \A d \in Calls : LiveHolder(d)' => LiveHolder(d) /\ d # c
  BY <1>1 DEF LiveHolder, Scraping, LeaseInv
<1>3. CASE slots' = slots
  BY <1>1, <1>2, <1>3, LeaseUntouched DEF LeaseInv
<1>4. CASE ReleaseSlot(c)
  <2>1. slots' \in SUBSET slots /\ \A e \in slots : e[1] # c => e \in slots'
    BY <1>4 DEF ReleaseSlot
  <2>2. IsFiniteSet(slots') /\ Cardinality(slots') <= Cardinality(slots)
    BY <2>1, FS_Subset DEF LeaseInv
  <2>3. Cardinality(slots) \in Nat /\ Cardinality(slots') \in Nat
    BY <2>2, FS_CardinalityType DEF LeaseInv
  <2>4. ASSUME NEW d \in Calls, LiveHolder(d)' PROVE <<d, since'[d]>> \in slots'
    <3>1. <<d, since[d]>> \in slots /\ <<d, since[d]>>[1] # c
      BY <1>2, <2>4 DEF LeaseInv, LeaseKept
    <3>2. QED
      BY <1>1, <2>1, <3>1
  <2>5. QED
    BY <1>1, <2>1, <2>2, <2>3, <2>4 DEF LeaseInv, LeaseKept, WithinLimit
<1>5. QED
  BY <1>3, <1>4 DEF Release

LEMMA CallKeepsLeases ==
  ASSUME LeaseInv, NEW c \in Calls, CallStep(c)
  PROVE  LeaseInv'
<1>1. CASE RejectInput(c) \/ Begin(c) \/ GetToken(c) \/ AwaitToken(c) \/ LimiterFails(c)
  <2>1. /\ slots' = slots /\ now' = now /\ since' \in [Calls -> Nat]
        /\ pc' \in [Calls -> CallState]
    BY <1>1 DEF RejectInput, Begin, GetToken, AwaitToken, LimiterFails, Goto, LeaseInv, CallState, callVars
  <2>2. \A d \in Calls : LiveHolder(d)' => LiveHolder(d) /\ since'[d] = since[d]
    BY <1>1, <2>1 DEF RejectInput, Begin, GetToken, AwaitToken, LimiterFails, Goto, LeaseInv, callVars,
                      LiveHolder, Scraping
  <2>3. QED
    BY <2>1, <2>2, LeaseUntouched DEF LeaseInv
<1>2. CASE Exec(c) \/ BasicReplies(c) \/ StealthReplies(c) \/ RetryReplies(c)
  <2> DEFINE Leased == {"call", "release"} \cup Scraping
  <2>1. slots' = slots /\ now' = now /\ since' = since /\ pc[c] \in Leased
    BY <1>2 DEF Exec, BasicReplies, StealthReplies, RetryReplies, callVars, Scraping
  <2>2. \E where \in Leased : Goto(c, where)
    BY <1>2 DEF Exec, BasicReplies, StealthReplies, RetryReplies, Scraping,
                ScrapeReturns, ScrapeThrows, ScrapeGoesOn
  <2>3. pc' \in [Calls -> CallState]
    BY <2>2 DEF Goto, LeaseInv, CallState, Scraping
  <2>4. \A d \in Calls : LiveHolder(d)' => LiveHolder(d)
    BY <2>1, <2>2 DEF Goto, LeaseInv, LiveHolder
  <2>5. QED
    BY <2>1, <2>3, <2>4, LeaseUntouched DEF LeaseInv
<1>3. QED
  BY <1>1, <1>2, GetSlotKeepsLeases, NoLeaseKeepsLeases, ReleaseKeepsLeases DEF CallStep

LEMMA LeaseNext == LeaseInv /\ [Next]_vars => LeaseInv'
<1> SUFFICES ASSUME LeaseInv, [Next]_vars PROVE LeaseInv'
  OBVIOUS
<1>1. CASE \E c \in Calls : CallStep(c)
  BY <1>1, CallKeepsLeases
<1>2. CASE \E w \in Workers : Crash(w)
  <2>1. slots' = slots /\ now' = now /\ since' = since
    BY <1>2 DEF Crash, callVars
  <2>2. /\ pc' \in [Calls -> CallState]
        /\ \A d \in Calls : pc'[d] \in {pc[d], "dead"}
    BY <1>2 DEF Crash, LeaseInv, CallState
  <2>3. \A d \in Calls : LiveHolder(d)' => LiveHolder(d)
    BY <2>1, <2>2 DEF LiveHolder, Scraping
  <2>4. QED
    BY <2>1, <2>2, <2>3, LeaseUntouched DEF LeaseInv
<1>3. CASE Tick \/ UNCHANGED vars
  <2>1. slots' = slots /\ since' = since /\ pc' = pc /\ now' \in Nat /\ now' >= now
    BY <1>3 DEF Tick, vars, callVars, LeaseInv
  <2>2. \A d \in Calls : LiveHolder(d)' => LiveHolder(d)
    BY <2>1 DEF LiveHolder, LeaseInv
  <2>3. QED
    BY <2>1, <2>2, LeaseUntouched DEF LeaseInv
<1>4. QED
  BY <1>1, <1>2, <1>3 DEF Next

\* Live holders are no more than the entries of the sorted set.
LEMMA LiveAreCounted == LeaseInv => HoldersBounded
<1> SUFFICES ASSUME LeaseInv PROVE HoldersBounded
  OBVIOUS
<1> DEFINE Live == {c \in Calls : LiveHolder(c)}
           Lease == [c \in Live |-> <<c, since[c]>>]
<1>1. \A c \in Live : <<c, since[c]>> \in slots
  BY DEF LeaseInv, LeaseKept
<1>2. Lease \in [Live -> slots]
  BY <1>1
<1>3. \A c, d \in Live : Lease[c] = Lease[d] => c = d
  OBVIOUS
<1>4. Lease \in Injection(Live, slots)
  BY <1>2, <1>3 DEF Injection, IsInjective
<1>5. IsFiniteSet(slots) /\ Cardinality(slots) <= Limit /\ Cardinality(slots) \in Nat
  BY FS_CardinalityType DEF LeaseInv, WithinLimit
<1>6. IsFiniteSet(Live) /\ Cardinality(Live) <= Cardinality(slots)
  BY <1>4, <1>5, FS_Injection
<1>7. Cardinality(Live) \in Nat
  BY <1>6, FS_CardinalityType
<1>8. QED
  BY <1>5, <1>6, <1>7 DEF HoldersBounded

\* However many calls and processes there are, and whatever crashes, failed releases and
\* late timestamps a run has, the calls whose lease has not expired never exceed Limit.
THEOREM LeasesAreExclusive == Spec => []HoldersBounded
  BY LeaseInitially, LeaseNext, LiveAreCounted, PTL DEF Spec

------------------------------------------------------------------------------
(* Types.                                                                  *)

LEMMA RefilledType ==
  ASSUME LimiterTypeOK, NEW h \in Hosts, NEW t \in Nat
  PROVE  Refilled(h, t) \in 0..(Capacity * Token)
<1>1. tokens[h] \in Nat /\ ts[h] \in Nat /\ Elapsed(h, t) \in Nat
  BY DEF LimiterTypeOK, Elapsed
<1>2. \A x, y \in Nat : x * y \in Nat
  OBVIOUS
<1>3. Elapsed(h, t) * PerTick \in Nat /\ Capacity * Token \in Nat
  BY <1>1, <1>2
<1> QED
  BY <1>1, <1>3 DEF Refilled, AtMost

LEMMA StoreKeepsType ==
  ASSUME LimiterTypeOK, NEW h \in Hosts, NEW t \in Nat, NEW left \in 0..(Capacity * Token),
         Store(h, t, left)
  PROVE  LimiterTypeOK'
<1>1. ts[h] \in Nat /\ setBack[h] \in Nat
  BY DEF LimiterTypeOK
<1>2. setBack[h] + (IF t < ts[h] THEN ts[h] - t ELSE 0) \in Nat
  BY <1>1
<1> QED
  BY <1>2 DEF Store, LimiterTypeOK

LEMMA LimiterKeepsType ==
  ASSUME LimiterTypeOK, NEW h \in Hosts, NEW t \in Nat,
         ConsumeToken(h, t) \/ LackToken(h, t)
  PROVE  LimiterTypeOK'
<1>1. Refilled(h, t) \in 0..(Capacity * Token)
  BY RefilledType
<1>2. Capacity * Token \in Nat
  <2>1. \A x, y \in Nat : x * y \in Nat
    OBVIOUS
  <2> QED
    BY <2>1
<1>3. CASE ConsumeToken(h, t)
  <2>1. Refilled(h, t) - Token \in 0..(Capacity * Token)
    BY <1>1, <1>2, <1>3 DEF ConsumeToken
  <2> QED
    BY <1>3, <2>1, StoreKeepsType DEF ConsumeToken
<1>4. CASE LackToken(h, t)
  BY <1>1, <1>4, StoreKeepsType DEF LackToken
<1> QED
  BY <1>3, <1>4

\* A call that lacks a token sleeps for a whole number of ticks.
LEMMA WaitType ==
  ASSUME LimiterTypeOK, NEW h \in Hosts, NEW t \in Nat, LackToken(h, t)
  PROVE  WaitMs(h, t) \in Nat
<1>1. Refilled(h, t) \in Nat /\ Refilled(h, t) < Token
  BY RefilledType DEF LackToken
<1>2. Token - Refilled(h, t) + PerTick - 1 \in Nat
  BY <1>1
<1>3. \A x \in Nat, y \in Nat \ {0} : x \div y \in Nat
  OBVIOUS
<1> QED
  BY <1>2, <1>3 DEF WaitMs

LEMMA CallType ==
  ASSUME TypeOK, NEW c \in Calls, CallStep(c)
  PROVE  TypeOK'
<1> USE DEF TypeOK, CallState, Goto
<1>0. /\ HostOf[c] \in Hosts /\ Home[c] \in Workers /\ now \in Nat
      /\ \A t \in Stamps : t \in Nat /\ t \in 0..MaxTime
  BY DEF Stamps
<1>1. CASE RejectInput(c) \/ Begin(c)
  <2>1. BreakerTypeOK' /\ SemaphoreTypeOK' /\ LimiterTypeOK'
    BY <1>1 DEF RejectInput, Begin, breakerVars, limiterVars, BreakerTypeOK, SemaphoreTypeOK,
                LimiterTypeOK
  <2> QED
    BY <1>1, <2>1 DEF RejectInput, Begin, callVars, rateVars
<1>2. CASE GetToken(c)
  <2>1. LimiterTypeOK'
    BY <1>0, <1>2, LimiterKeepsType DEF GetToken
  <2>2. BreakerTypeOK' /\ SemaphoreTypeOK'
    BY <1>2 DEF GetToken, breakerVars, BreakerTypeOK, SemaphoreTypeOK
  <2>3. earned' \in [Calls -> Nat] /\ back' \in [Calls -> Nat]
    <3>1. ts'[HostOf[c]] \in Nat /\ setBack'[HostOf[c]] \in Nat
      BY <1>0, <2>1 DEF LimiterTypeOK
    <3> QED
      BY <1>2, <3>1 DEF GetToken
  <2> QED
    BY <1>2, <2>1, <2>2, <2>3 DEF GetToken, Never
<1>3. CASE AwaitToken(c)
  <2>1. LimiterTypeOK'
    BY <1>0, <1>3, LimiterKeepsType DEF AwaitToken
  <2>2. BreakerTypeOK' /\ SemaphoreTypeOK'
    BY <1>3 DEF AwaitToken, breakerVars, BreakerTypeOK, SemaphoreTypeOK
  <2>3. wake' \in [Calls -> Nat] /\ pc' \in [Calls -> CallState]
    <3>1. PICK t \in Stamps :
             LET wait == WaitMs(HostOf[c], t) IN
             /\ LackToken(HostOf[c], t)
             /\ IF now + wait > since[c] + LimiterWait
                THEN Goto(c, "answered") /\ UNCHANGED wake
                ELSE wake' = [wake EXCEPT ![c] = now + wait] /\ UNCHANGED pc
      BY <1>3 DEF AwaitToken
    <3>2. WaitMs(HostOf[c], t) \in Nat
      BY <1>0, <3>1, WaitType
    <3> QED
      BY <1>0, <3>1, <3>2
  <2> QED
    BY <1>3, <2>1, <2>2, <2>3 DEF AwaitToken, rateVars
<1>4. CASE GetSlot(c)
  <2>1. BreakerTypeOK' /\ LimiterTypeOK'
    BY <1>4 DEF GetSlot, breakerVars, limiterVars, BreakerTypeOK, LimiterTypeOK
  <2>2. SemaphoreTypeOK' /\ since' \in [Calls -> 0..MaxTime]
    BY <1>0, <1>4 DEF GetSlot, TakeSlot, Pruned, SemaphoreTypeOK
  <2> QED
    BY <1>4, <2>1, <2>2 DEF GetSlot, rateVars
<1>5. CASE AwaitSlot(c)
  <2>1. BreakerTypeOK' /\ LimiterTypeOK'
    BY <1>5 DEF AwaitSlot, breakerVars, limiterVars, BreakerTypeOK, LimiterTypeOK
  <2>2. SemaphoreTypeOK'
    BY <1>5 DEF AwaitSlot, NoSlot, Pruned, SemaphoreTypeOK
  <2> QED
    BY <1>5, <2>1, <2>2 DEF AwaitSlot, callVars, rateVars
<1>6. CASE Exec(c)
  <2>1. LimiterTypeOK' /\ SemaphoreTypeOK'
    BY <1>6 DEF Exec, limiterVars, LimiterTypeOK, SemaphoreTypeOK
  <2>2. BreakerTypeOK'
    BY <1>0, <1>6 DEF Exec, FailFast, LetThrough, GetState, BreakerTypeOK, CircuitState, breakerVars
  <2> QED
    BY <1>6, <2>1, <2>2 DEF Exec, rateVars
<1>7. CASE BasicReplies(c) \/ StealthReplies(c) \/ RetryReplies(c)
  <2>1. LimiterTypeOK' /\ SemaphoreTypeOK'
    BY <1>7 DEF BasicReplies, StealthReplies, RetryReplies, limiterVars, LimiterTypeOK,
                SemaphoreTypeOK
  <2>2. BreakerTypeOK' /\ pc' \in [Calls -> CallState] /\ trapped' \subseteq Calls
    <3>1. ASSUME NEW page, ScrapeReturns(c, page)
          PROVE  BreakerTypeOK' /\ pc' \in [Calls -> CallState] /\ trapped' \subseteq Calls
      BY <1>0, <3>1 DEF ScrapeReturns, OnSuccess, BreakerTypeOK, CircuitState
    <3>2. ASSUME ScrapeThrows(c)
          PROVE  BreakerTypeOK' /\ pc' \in [Calls -> CallState] /\ trapped' \subseteq Calls
      BY <1>0, <3>2 DEF ScrapeThrows, OnFailure, BreakerTypeOK, CircuitState
    <3>3. ASSUME NEW where \in {"retry", "stealth"}, ScrapeGoesOn(c, where)
          PROVE  BreakerTypeOK' /\ pc' \in [Calls -> CallState] /\ trapped' \subseteq Calls
      BY <3>3 DEF ScrapeGoesOn, BreakerTypeOK, breakerVars
    <3> QED
      BY <1>7, <3>1, <3>2, <3>3 DEF BasicReplies, StealthReplies, RetryReplies, Reply
  <2> QED
    BY <1>7, <2>1, <2>2 DEF BasicReplies, StealthReplies, RetryReplies, callVars, rateVars
<1>8. CASE Release(c)
  <2>1. LimiterTypeOK' /\ BreakerTypeOK'
    BY <1>8 DEF Release, limiterVars, breakerVars, LimiterTypeOK, BreakerTypeOK
  <2>2. SemaphoreTypeOK'
    BY <1>8 DEF Release, ReleaseSlot, SemaphoreTypeOK
  <2> QED
    BY <1>8, <2>1, <2>2 DEF Release, callVars, rateVars
<1>9. CASE LimiterFails(c)
  <2>1. LimiterTypeOK'
    <3>1. CASE UNCHANGED limiterVars
      BY <3>1 DEF limiterVars, LimiterTypeOK
    <3> QED
      BY <1>0, <1>9, <3>1, LimiterKeepsType DEF LimiterFails
  <2>2. BreakerTypeOK' /\ SemaphoreTypeOK'
    BY <1>9 DEF LimiterFails, breakerVars, BreakerTypeOK, SemaphoreTypeOK
  <2> QED
    BY <1>9, <2>1, <2>2 DEF LimiterFails, callVars, rateVars
<1>10. CASE SlotFails(c)
  <2>1. BreakerTypeOK' /\ LimiterTypeOK'
    BY <1>10 DEF SlotFails, breakerVars, limiterVars, BreakerTypeOK, LimiterTypeOK
  <2>2. SemaphoreTypeOK' /\ leaked' \subseteq Calls
    BY <1>0, <1>10 DEF SlotFails, TakeSlot, NoSlot, Pruned, SemaphoreTypeOK
  <2> QED
    BY <1>10, <2>1, <2>2 DEF SlotFails, callVars, rateVars
<1> QED
  BY <1>1, <1>2, <1>3, <1>4, <1>5, <1>6, <1>7, <1>8, <1>9, <1>10 DEF CallStep

LEMMA InitiallyTyped == Init => TypeOK
<1> SUFFICES ASSUME Init PROVE TypeOK
  OBVIOUS
<1>1. BreakerTypeOK
  BY BreakerInitially DEF Init, BreakerInv
<1>2. LimiterTypeOK
  <2>1. \A x, y \in Nat : x * y \in Nat
    OBVIOUS
  <2>2. Capacity * Token \in 0..(Capacity * Token)
    BY <2>1
  <2> QED
    BY <2>2 DEF Init, LimiterInit, LimiterTypeOK
<1> QED
  BY <1>1, <1>2 DEF Init, TypeOK, SemaphoreInit, SemaphoreTypeOK, CallState, Never

LEMMA StepsTyped == TypeOK /\ [Next]_vars => TypeOK'
<1> SUFFICES ASSUME TypeOK, [Next]_vars PROVE TypeOK'
  OBVIOUS
<1> DEFINE Parts == BreakerTypeOK /\ SemaphoreTypeOK /\ LimiterTypeOK
<1>1. ASSUME NEW c \in Calls, CallStep(c) PROVE TypeOK'
  BY <1>1, CallType
<1>2. ASSUME NEW w \in Workers, Crash(w) PROVE TypeOK'
  <2>1. Parts'
    BY <1>2 DEF Crash, ResetBreaker, limiterVars, TypeOK, BreakerTypeOK, SemaphoreTypeOK,
                LimiterTypeOK, CircuitState
  <2>2. pc' \in [Calls -> CallState]
    BY <1>2 DEF Crash, TypeOK, CallState
  <2> QED
    BY <1>2, <2>1, <2>2 DEF Crash, TypeOK, callVars, rateVars
<1>3. CASE Tick \/ UNCHANGED vars
  <2>1. Parts'
    BY <1>3 DEF Tick, vars, breakerVars, limiterVars, TypeOK, BreakerTypeOK, SemaphoreTypeOK,
                LimiterTypeOK
  <2> QED
    BY <1>3, <2>1 DEF Tick, vars, TypeOK, callVars, rateVars
<1> QED
  BY <1>1, <1>2, <1>3 DEF Next

\* Type correctness: the clock's readings stay within its bound, a bucket between empty
\* and full, and what a call waits for is a time.
THEOREM CallsTyped == Spec => []TypeOK
  BY InitiallyTyped, StepsTyped, PTL DEF Spec
------------------------------------------------------------------------------
(* The slot and the order of a call's steps.                               *)

\* Only a call on its way with a lease, one whose release failed, or a dead one may have
\* an entry in the sorted set.
NoEarlySlot == \A c \in Calls : pc[c] \in {"new", "limiter", "slot"} => ~Holds(c)

SlotInv == TypeOK /\ NoEarlySlot /\ SlotReturned

\* A step of call c whose script at most drops entries of others and adds c's own.
LEMMA OthersSlots ==
  ASSUME SlotInv, NEW c \in Calls, NEW where, Goto(c, where), leaked \subseteq leaked',
         \A e \in slots' : e \in slots \/ e[1] = c
  PROVE  \A d \in Calls \ {c} :
            /\ pc'[d] \in {"new", "limiter", "slot"} => ~Holds(d)'
            /\ pc'[d] = "answered" /\ d \notin leaked' => ~Holds(d)'
<1> SUFFICES ASSUME NEW d \in Calls \ {c} PROVE pc'[d] = pc[d] /\ (Holds(d)' => Holds(d))
  BY DEF SlotInv, NoEarlySlot, SlotReturned
<1> QED
  BY DEF Goto, Holds, SlotInv, TypeOK

LEMMA SlotCall ==
  ASSUME SlotInv, TypeOK', NEW c \in Calls, CallStep(c)
  PROVE  SlotInv'
<1> DEFINE Fine(d) == /\ pc[d] \in {"new", "limiter", "slot"} => ~Holds(d)
                      /\ pc[d] = "answered" /\ d \notin leaked => ~Holds(d)
           Before == {"new", "limiter", "slot"}
<1>1. (\A d \in Calls : Fine(d)') => SlotInv'
  BY DEF SlotInv, NoEarlySlot, SlotReturned
<1>2. ASSUME \/ RejectInput(c) \/ Begin(c) \/ GetToken(c) \/ AwaitToken(c) \/ LimiterFails(c) \/ AwaitSlot(c)
      PROVE  SlotInv'
  <2>1. slots' \subseteq slots /\ leaked' = leaked
    BY <1>2 DEF RejectInput, Begin, GetToken, AwaitToken, LimiterFails, AwaitSlot, NoSlot, Pruned
  <2>2. pc[c] \in Before /\ \A d \in Calls : d # c => pc'[d] = pc[d]
    BY <1>2 DEF RejectInput, Begin, GetToken, AwaitToken, LimiterFails, AwaitSlot, Goto, SlotInv, TypeOK
  <2>3. ~Holds(c) /\ \A d \in Calls : Holds(d)' => Holds(d)
    BY <2>1, <2>2 DEF SlotInv, NoEarlySlot, Holds
  <2> QED
    BY <1>1, <2>1, <2>2, <2>3 DEF SlotInv, NoEarlySlot, SlotReturned
<1>3. CASE GetSlot(c)
  <2>1. \A e \in slots' : e \in slots \/ e[1] = c
    BY <1>3 DEF GetSlot, TakeSlot, Pruned
  <2>2. Goto(c, "call") /\ leaked' = leaked /\ pc'[c] = "call"
    BY <1>3 DEF GetSlot, Goto, SlotInv, TypeOK
  <2> QED
    BY <1>1, <2>1, <2>2, OthersSlots
<1>4. CASE Exec(c) \/ BasicReplies(c) \/ StealthReplies(c) \/ RetryReplies(c)
  <2>1. slots' = slots /\ leaked' = leaked
    BY <1>4 DEF Exec, BasicReplies, StealthReplies, RetryReplies
  <2>2. \E where \in {"release"} \cup Scraping : Goto(c, where)
    BY <1>4 DEF Exec, BasicReplies, StealthReplies, RetryReplies, Scraping,
                ScrapeReturns, ScrapeThrows, ScrapeGoesOn
  <2>3. pc'[c] \in {"release"} \cup Scraping
    BY <2>2 DEF Goto, SlotInv, TypeOK
  <2> QED
    BY <1>1, <2>1, <2>2, <2>3, OthersSlots DEF Scraping
<1>5. CASE Release(c)
  <2>1. Goto(c, "answered") /\ pc'[c] = "answered"
    BY <1>5 DEF Release, Goto, SlotInv, TypeOK
  <2>2. CASE ReleaseSlot(c) /\ leaked' = leaked
    <3>1. \A e \in slots' : e \in slots /\ e[1] # c
      BY <2>2 DEF ReleaseSlot
    <3>2. ~Holds(c)'
      BY <3>1 DEF Holds
    <3> QED
      BY <1>1, <2>1, <2>2, <3>1, <3>2, OthersSlots
  <2>3. CASE leaked' = leaked \cup {c} /\ slots' = slots
    BY <2>1, <2>3 DEF Goto, Holds, SlotInv, NoEarlySlot, SlotReturned, TypeOK
  <2> QED
    BY <1>5, <2>2, <2>3 DEF Release
<1>6. CASE SlotFails(c)
  <2>1. Goto(c, "answered") /\ pc'[c] = "answered" /\ ~Holds(c)
    BY <1>6 DEF SlotFails, Goto, SlotInv, TypeOK, NoEarlySlot
  <2>2. /\ \A e \in slots' : e \in slots \/ e[1] = c
        /\ leaked \subseteq leaked'
    BY <1>6 DEF SlotFails, TakeSlot, NoSlot, Pruned
  <2>3. c \in leaked' \/ slots' \subseteq slots
    BY <1>6 DEF SlotFails, NoSlot, Pruned
  <2>4. c \in leaked' \/ ~Holds(c)'
    BY <2>1, <2>3 DEF Holds
  <2> QED
    BY <1>1, <2>1, <2>2, <2>4, OthersSlots
<1> QED
  BY <1>2, <1>3, <1>4, <1>5, <1>6 DEF CallStep

LEMMA SlotNext == SlotInv /\ [Next]_vars => SlotInv'
<1> SUFFICES ASSUME SlotInv, [Next]_vars PROVE SlotInv'
  OBVIOUS
<1>0. TypeOK'
  BY StepsTyped DEF SlotInv
<1>1. ASSUME NEW c \in Calls, CallStep(c) PROVE SlotInv'
  BY <1>0, <1>1, SlotCall
<1>2. ASSUME NEW w \in Workers, Crash(w) PROVE SlotInv'
  <2>1. slots' = slots /\ leaked' = leaked /\ \A c \in Calls : pc'[c] \in {pc[c], "dead"}
    BY <1>2 DEF Crash
  <2> QED
    BY <1>0, <2>1 DEF SlotInv, NoEarlySlot, SlotReturned, Holds
<1>3. CASE Tick \/ UNCHANGED vars
  BY <1>0, <1>3 DEF Tick, vars, SlotInv, NoEarlySlot, SlotReturned, Holds
<1> QED
  BY <1>1, <1>2, <1>3 DEF Next

\* An answered call has given its slot back, whichever way it took through
\* crawlAndAnalyze: only a release that Redis refused, or a death, leaves one behind.
THEOREM SlotsComeBack == Spec => []SlotReturned
<1>1. Init => SlotInv
  BY InitiallyTyped DEF Init, SlotInv, NoEarlySlot, SlotReturned, SemaphoreInit, Holds
<1>2. SlotInv => SlotReturned
  BY DEF SlotInv
<1> QED
  BY <1>1, <1>2, SlotNext, PTL DEF Spec

\* Whoever is past the limiter has its token's time.
TokenFirst == \A c \in Calls : pc[c] \in {"slot", "call", "release"} \cup Scraping => granted[c] <= now

LEMMA TokenFirstNext == TypeOK /\ TokenFirst /\ [Next]_vars => TokenFirst'
<1> SUFFICES ASSUME TypeOK, TokenFirst, [Next]_vars PROVE TokenFirst'
  OBVIOUS
<1> DEFINE Past == {"slot", "call", "release"} \cup Scraping
<1>1. ASSUME NEW c \in Calls, CallStep(c) PROVE TokenFirst'
  <2>1. CASE GetToken(c)
    BY <1>1, <2>1 DEF GetToken, Goto, TypeOK, TokenFirst
  <2>2. ASSUME ~GetToken(c)
        PROVE  /\ granted' = granted /\ now' = now
               /\ \A d \in Calls : pc'[d] \in Past => pc[d] \in Past
    <3>1. CASE RejectInput(c) \/ Begin(c) \/ AwaitToken(c) \/ LimiterFails(c)
      BY <3>1 DEF RejectInput, Begin, AwaitToken, LimiterFails, Goto, TypeOK, callVars, rateVars,
               Scraping
    <3>2. CASE GetSlot(c) \/ AwaitSlot(c) \/ SlotFails(c) \/ Release(c) \/ Exec(c)
      BY <3>2 DEF GetSlot, AwaitSlot, SlotFails, Release, Exec, Goto, TypeOK, callVars, rateVars,
               Scraping
    <3>3. CASE BasicReplies(c) \/ StealthReplies(c) \/ RetryReplies(c)
      BY <3>3 DEF BasicReplies, StealthReplies, RetryReplies, ScrapeReturns, ScrapeThrows,
                  ScrapeGoesOn, Goto, TypeOK, callVars, rateVars, Scraping
    <3> QED
      BY <1>1, <2>2, <3>1, <3>2, <3>3 DEF CallStep
  <2> QED
    BY <2>1, <2>2 DEF TokenFirst
<1>2. ASSUME NEW w \in Workers, Crash(w) PROVE TokenFirst'
  <2>1. granted' = granted /\ now' = now /\ \A c \in Calls : pc'[c] \in {pc[c], "dead"}
    BY <1>2 DEF Crash, callVars, rateVars
  <2> QED
    BY <2>1 DEF TokenFirst, Scraping
<1>3. CASE Tick \/ UNCHANGED vars
  BY <1>3 DEF Tick, vars, callVars, rateVars, TypeOK, TokenFirst, Never
<1> QED
  BY <1>1, <1>2, <1>3 DEF Next

\* Nothing is scraped for a call before it has its host's token, nor outside its lease
\* but when that lease's TTL is over: the order of the concurrency contract.
THEOREM ContractIsKept == Spec => []ContractOrder
<1>1. Init => TokenFirst
  BY DEF Init, TokenFirst, Scraping
<1>2. ASSUME LeaseInv, TokenFirst PROVE ContractOrder
  <2> SUFFICES ASSUME NEW c \in Calls, pc[c] \in {"call", "release"} \cup Scraping
               PROVE  granted[c] <= now /\ (Holds(c) \/ now - since[c] >= TtlMs)
    BY DEF ContractOrder
  <2>1. granted[c] <= now
    BY <1>2 DEF TokenFirst
  <2>2. now \in Nat /\ since[c] \in Nat
    BY <1>2 DEF LeaseInv
  <2>3. CASE now - since[c] < TtlMs
    <3>1. <<c, since[c]>> \in slots
      BY <1>2, <2>3 DEF LeaseInv, LeaseKept, LiveHolder
    <3> QED
      BY <2>1, <3>1 DEF Holds
  <2>4. CASE ~(now - since[c] < TtlMs)
    BY <2>1, <2>2, <2>4
  <2> QED
    BY <2>3, <2>4
<1> QED
  BY <1>1, <1>2, InitiallyTyped, StepsTyped, TokenFirstNext, LeaseInitially, LeaseNext, PTL
     DEF Spec
------------------------------------------------------------------------------
(* The rate of calls to a host, whatever the lag of the scripts.  A bucket *)
(* has a time of its own, ts + setBack: a script moves it by exactly the   *)
(* time it refills.  In that time it is a token bucket like any other: all *)
(* that was granted since a, and what is left, is at most the burst and    *)
(* the refill since a.  A grant's place in it is its timestamp, at most    *)
(* MaxLag behind the clock, and the set-backs before it.                   *)

BucketTime(h) == ts[h] + setBack[h]

Granted == {c \in Calls : granted[c] # Never}
GrantedSince(h, a) == {c \in Granted : HostOf[c] = h /\ earned[c] >= a}
GrantedUntil(h, a, b) == {c \in GrantedSince(h, a) : earned[c] <= b}
Allowed(d) == Capacity * Token + d * PerTick

BucketInv ==
    \A h \in Hosts : \A a \in Int : a <= BucketTime(h) =>
        Cardinality(GrantedSince(h, a)) * Token + tokens[h] <= Allowed(BucketTime(h) - a)

StretchInv ==
    \A h \in Hosts : \A a, b \in Int : a <= b =>
        Cardinality(GrantedUntil(h, a, b)) * Token <= Allowed(b - a)

GrantInv ==
    \A c \in Calls :
        /\ pc[c] \in {"new", "limiter"} => granted[c] = Never
        /\ granted[c] # Never =>
              /\ earned[c] <= BucketTime(HostOf[c])
              /\ earned[c] - back[c] \in (granted[c] - MaxLag)..granted[c]

RateInv == TypeOK /\ IsFiniteSet(Granted) /\ GrantInv /\ BucketInv /\ StretchInv

LEMMA Products ==
  /\ \A x, y \in Nat : x * y \in Nat
  /\ \A x \in Int : x * PerTick \in Int /\ x * Token \in Int
  /\ \A x, y \in Int : (x + y) * PerTick = x * PerTick + y * PerTick
  /\ \A x, y \in Int : x <= y => x * PerTick <= y * PerTick
  /\ \A x, y \in Int : x <= y => x * Token <= y * Token
  /\ \A x \in Int : (x + 1) * Token = x * Token + Token
  /\ 0 * PerTick = 0 /\ 0 * Token = 0
<1>1. \A p \in Nat, x, y \in Int : x <= y => x * p <= y * p
  OBVIOUS
<1>2. \A p \in Nat, x, y \in Int : (x + y) * p = x * p + y * p /\ x * p \in Int
  OBVIOUS
<1>3. /\ \A x, y \in Nat : x * y \in Nat
      /\ \A x \in Int : (x + 1) * Token = x * Token + Token
      /\ 0 * PerTick = 0 /\ 0 * Token = 0
  OBVIOUS
<1> QED
  BY <1>1, <1>2, <1>3

LEMMA AllowedGrows ==
  /\ \A d \in Int : Allowed(d) \in Int
  /\ \A d \in Nat : Capacity * Token <= Allowed(d) /\ 0 <= Allowed(d)
  /\ \A d, e \in Int : Allowed(d + e) = Allowed(d) + e * PerTick
  /\ \A d, e \in Int : d <= e => Allowed(d) <= Allowed(e)
<1>1. PICK full \in Nat : full = Capacity * Token
  BY Products
<1>2. \A d \in Int : d * PerTick \in Int /\ Allowed(d) = full + d * PerTick
  BY <1>1, Products DEF Allowed
<1>3. \A d \in Nat : 0 <= d * PerTick
  BY Products
<1>4. \A d, e \in Int : (d + e) * PerTick = d * PerTick + e * PerTick
  BY Products
<1>5. \A d, e \in Int : d <= e => d * PerTick <= e * PerTick
  BY Products
<1> HIDE DEF Allowed
<1>6. \A d \in Nat : Capacity * Token <= Allowed(d) /\ 0 <= Allowed(d)
  BY <1>1, <1>2, <1>3
<1>7. \A d, e \in Int : Allowed(d + e) = Allowed(d) + e * PerTick
  BY <1>2, <1>4
<1>8. \A d, e \in Int : d <= e => Allowed(d) <= Allowed(e)
  BY <1>2, <1>5
<1> QED
  BY <1>2, <1>6, <1>7, <1>8

LEMMA GrantedFinite ==
  ASSUME IsFiniteSet(Granted), NEW h, NEW a \in Int
  PROVE  /\ IsFiniteSet(GrantedSince(h, a)) /\ Cardinality(GrantedSince(h, a)) \in Nat
         /\ \A b \in Int : /\ IsFiniteSet(GrantedUntil(h, a, b))
                           /\ Cardinality(GrantedUntil(h, a, b)) \in Nat
<1>1. GrantedSince(h, a) \in SUBSET Granted
      /\ \A b \in Int : GrantedUntil(h, a, b) \in SUBSET Granted
  BY DEF GrantedSince, GrantedUntil
<1> QED
  BY <1>1, FS_Subset, FS_CardinalityType

LEMMA BucketTimeType ==
  ASSUME LimiterTypeOK, NEW h \in Hosts
  PROVE  BucketTime(h) \in Nat /\ tokens[h] \in Nat /\ tokens[h] <= Capacity * Token
<1>1. Capacity * Token \in Nat
  BY Products
<1> QED
  BY <1>1 DEF BucketTime, LimiterTypeOK

\* What a script does to its bucket: it moves the time by what it refills.
LEMMA StoreMoves ==
  ASSUME LimiterTypeOK, NEW h \in Hosts, NEW t \in Nat, NEW left \in 0..(Capacity * Token),
         Store(h, t, left)
  PROVE  /\ BucketTime(h)' = BucketTime(h) + Elapsed(h, t) /\ tokens'[h] = left
         /\ \A g \in Hosts \ {h} : BucketTime(g)' = BucketTime(g) /\ tokens'[g] = tokens[g]
<1>1. ts[h] \in Nat /\ setBack[h] \in Nat
  BY DEF LimiterTypeOK
<1>2. /\ ts'[h] = t /\ tokens'[h] = left
      /\ setBack'[h] = setBack[h] + (IF t < ts[h] THEN ts[h] - t ELSE 0)
      /\ \A g \in Hosts \ {h} : ts'[g] = ts[g] /\ setBack'[g] = setBack[g] /\ tokens'[g] = tokens[g]
  BY DEF Store, LimiterTypeOK
<1>3. t + (setBack[h] + (IF t < ts[h] THEN ts[h] - t ELSE 0))
        = ts[h] + setBack[h] + (IF t >= ts[h] THEN t - ts[h] ELSE 0)
  BY <1>1
<1> QED
  BY <1>2, <1>3 DEF BucketTime, Elapsed

\* Once a script has refilled the bucket, and before it takes a token out, what is there
\* and what was granted are within the refill since any time.
LEMMA RefillIsEarned ==
  ASSUME RateInv, NEW h \in Hosts, NEW t \in Nat, NEW a \in Int,
         a <= BucketTime(h) + Elapsed(h, t)
  PROVE  /\ Cardinality(GrantedSince(h, a)) * Token + Refilled(h, t)
               <= Allowed((BucketTime(h) + Elapsed(h, t)) - a)
         /\ a > BucketTime(h) => GrantedSince(h, a) = {}
<1>1. LimiterTypeOK /\ IsFiniteSet(Granted)
  BY DEF RateInv, TypeOK
<1>2. /\ BucketTime(h) \in Nat /\ tokens[h] \in Nat /\ Refilled(h, t) \in Nat
      /\ Elapsed(h, t) \in Nat /\ Capacity * Token \in Nat
  <2>1. Capacity * Token \in Nat
    BY Products
  <2> QED
    BY <1>1, <2>1, BucketTimeType, RefilledType DEF Elapsed, LimiterTypeOK
<1>3. a > BucketTime(h) => GrantedSince(h, a) = {}
  BY <1>2 DEF GrantedSince, Granted, RateInv, GrantInv, TypeOK
<1>4. /\ Refilled(h, t) <= Capacity * Token
      /\ Refilled(h, t) <= tokens[h] + Elapsed(h, t) * PerTick
  <2>1. Elapsed(h, t) * PerTick \in Nat
    BY <1>2, Products
  <2> QED
    BY <1>2, <2>1 DEF Refilled, AtMost
<1>5. Elapsed(h, t) * PerTick \in Int
  BY <1>2, Products
<1>6. CASE a <= BucketTime(h)
  <2>1. Cardinality(GrantedSince(h, a)) * Token + tokens[h] <= Allowed(BucketTime(h) - a)
    BY <1>6 DEF RateInv, BucketInv
  <2>2. Allowed(BucketTime(h) - a + Elapsed(h, t))
          = Allowed(BucketTime(h) - a) + Elapsed(h, t) * PerTick
    <3>1. BucketTime(h) - a \in Int /\ Elapsed(h, t) \in Int
      BY <1>2
    <3>2. \A d, e \in Int : Allowed(d + e) = Allowed(d) + e * PerTick
      BY AllowedGrows
    <3> QED
      BY <3>1, <3>2
  <2>3. BucketTime(h) - a + Elapsed(h, t) = (BucketTime(h) + Elapsed(h, t)) - a
    BY <1>2
  <2>4. Allowed(BucketTime(h) - a) \in Int /\ Cardinality(GrantedSince(h, a)) * Token \in Int
    <3>1. Cardinality(GrantedSince(h, a)) \in Nat
      BY <1>1, GrantedFinite
    <3> QED
      BY <1>2, <3>1, AllowedGrows, Products
  <2> QED
    BY <1>2, <1>3, <1>4, <1>5, <1>6, <2>1, <2>2, <2>3, <2>4
<1>7. CASE a > BucketTime(h)
  <2>1. Cardinality(GrantedSince(h, a)) * Token = 0
    BY <1>3, <1>7, FS_EmptySet, Products
  <2>2. Capacity * Token <= Allowed((BucketTime(h) + Elapsed(h, t)) - a)
    BY <1>2, AllowedGrows
  <2>3. Allowed((BucketTime(h) + Elapsed(h, t)) - a) \in Int
    BY <1>2, AllowedGrows
  <2> QED
    BY <1>2, <1>3, <1>4, <1>7, <2>1, <2>2, <2>3
<1> QED
  BY <1>2, <1>6, <1>7

\* Steps that grant nothing and leave no bucket more than its refill.
LEMMA RateKept ==
  ASSUME RateInv, TypeOK', UNCHANGED rateVars,
         \A c \in Calls : pc'[c] \in {"new", "limiter"} => pc[c] \in {"new", "limiter"},
         \A h \in Hosts :
            \/ BucketTime(h)' = BucketTime(h) /\ tokens'[h] = tokens[h]
            \/ \E t \in Nat : /\ BucketTime(h)' = BucketTime(h) + Elapsed(h, t)
                              /\ tokens'[h] <= Refilled(h, t)
  PROVE  RateInv'
<1>1. /\ \A h, a : GrantedSince(h, a)' = GrantedSince(h, a)
      /\ \A h, a, b : GrantedUntil(h, a, b)' = GrantedUntil(h, a, b)
      /\ Granted' = Granted
  BY DEF GrantedSince, GrantedUntil, Granted, rateVars
<1>2. LimiterTypeOK /\ LimiterTypeOK' /\ IsFiniteSet(Granted)
  BY DEF RateInv, TypeOK
<1>3. ASSUME NEW h \in Hosts
      PROVE  /\ BucketTime(h) \in Nat /\ BucketTime(h)' \in Nat /\ BucketTime(h) <= BucketTime(h)'
             /\ tokens'[h] \in Nat /\ \A t \in Nat : Elapsed(h, t) \in Nat /\ Refilled(h, t) \in Nat
  <2>1. BucketTime(h) \in Nat /\ \A t \in Nat : Elapsed(h, t) \in Nat /\ Refilled(h, t) \in Nat
    <3>1. Capacity * Token \in Nat
      BY Products
    <3> QED
      BY <1>2, <3>1, BucketTimeType, RefilledType DEF Elapsed, LimiterTypeOK
  <2>2. tokens'[h] \in Nat
    <3>1. Capacity * Token \in Nat
      BY Products
    <3> QED
      BY <1>2, <3>1 DEF LimiterTypeOK
  <2> QED
    BY <2>1, <2>2
<1>4. ASSUME NEW h \in Hosts, NEW a \in Int, a <= BucketTime(h)'
      PROVE  (Cardinality(GrantedSince(h, a)) * Token)' + tokens'[h]
                 <= Allowed(BucketTime(h) - a)'
  <2>1. (Cardinality(GrantedSince(h, a)) * Token)' = Cardinality(GrantedSince(h, a)) * Token
        /\ Allowed(BucketTime(h) - a)' = Allowed(BucketTime(h)' - a)
    BY <1>1 DEF Allowed
  <2>2. Cardinality(GrantedSince(h, a)) * Token \in Int /\ Allowed(BucketTime(h)' - a) \in Int
    <3>1. Cardinality(GrantedSince(h, a)) \in Nat
      BY <1>2, GrantedFinite
    <3> QED
      BY <1>3, <3>1, AllowedGrows, Products
  <2>3. CASE BucketTime(h)' = BucketTime(h) /\ tokens'[h] = tokens[h]
    BY <1>4, <2>1, <2>3 DEF RateInv, BucketInv
  <2>4. ASSUME NEW t \in Nat, BucketTime(h)' = BucketTime(h) + Elapsed(h, t),
               tokens'[h] <= Refilled(h, t)
        PROVE  Cardinality(GrantedSince(h, a)) * Token + tokens'[h] <= Allowed(BucketTime(h)' - a)
    <3>1. Cardinality(GrantedSince(h, a)) * Token + Refilled(h, t)
             <= Allowed((BucketTime(h) + Elapsed(h, t)) - a)
      BY <1>4, <2>4, RefillIsEarned
    <3> QED
      BY <1>3, <2>2, <2>4, <3>1
  <2> QED
    BY <2>1, <2>3, <2>4
<1>5. BucketInv'
  BY <1>4 DEF BucketInv
<1>6. StretchInv'
  BY <1>1 DEF RateInv, StretchInv, Allowed
<1>7. GrantInv'
  <2>1. ASSUME NEW c \in Calls, granted[c] # Never
        PROVE  earned[c] <= BucketTime(HostOf[c])'
    <3>1. HostOf[c] \in Hosts /\ earned[c] \in Nat
      BY DEF RateInv, TypeOK
    <3> QED
      BY <1>3, <2>1, <3>1 DEF RateInv, GrantInv
  <2> QED
    BY <2>1 DEF RateInv, GrantInv, rateVars
<1> QED
  BY <1>1, <1>2, <1>5, <1>6, <1>7 DEF RateInv

\* The script that grants a token takes out of the bucket what its grant adds.
LEMMA RateGrant ==
  ASSUME RateInv, TypeOK', NEW c \in Calls, GetToken(c)
  PROVE  RateInv'
<1>0. PICK h \in Hosts : h = HostOf[c]
  OBVIOUS
<1>1. PICK t \in Stamps : ConsumeToken(h, t)
  BY <1>0 DEF GetToken
<1>2. /\ h \in Hosts /\ now \in Nat /\ t \in Nat /\ t <= now /\ now - t <= MaxLag /\ now < Never
      /\ LimiterTypeOK /\ LimiterTypeOK' /\ IsFiniteSet(Granted)
  BY DEF Stamps, RateInv, TypeOK, Never
<1>3. /\ granted[c] = Never /\ granted \in [Calls -> 0..Never] /\ back \in [Calls -> Nat]
      /\ earned \in [Calls -> Nat]
  BY DEF GetToken, RateInv, GrantInv, TypeOK
<1>4. /\ granted' = [granted EXCEPT ![c] = now]
      /\ back' = [back EXCEPT ![c] = setBack'[h]]
      /\ earned' = [earned EXCEPT ![c] = BucketTime(h)']
      /\ pc' = [pc EXCEPT ![c] = "slot"]
  BY <1>0 DEF GetToken, Goto, BucketTime
<1>5. Refilled(h, t) \in 0..(Capacity * Token) /\ Capacity * Token \in Nat
  BY <1>2, RefilledType, Products
<1>6. PICK left \in 0..(Capacity * Token) : left = Refilled(h, t) - Token /\ Store(h, t, left)
  BY <1>1, <1>5 DEF ConsumeToken
<1>7. /\ BucketTime(h)' = BucketTime(h) + Elapsed(h, t) /\ tokens'[h] = Refilled(h, t) - Token
      /\ \A g \in Hosts \ {h} : BucketTime(g)' = BucketTime(g) /\ tokens'[g] = tokens[g]
  BY <1>2, <1>6, StoreMoves
<1>8. /\ Elapsed(h, t) \in Nat
      /\ \A g \in Hosts : BucketTime(g) \in Nat /\ BucketTime(g)' \in Nat
  BY <1>2, BucketTimeType DEF Elapsed, LimiterTypeOK, BucketTime
<1>9. /\ Granted' = Granted \cup {c} /\ c \notin Granted
      /\ \A d \in Granted : earned'[d] = earned[d]
      /\ earned'[c] = BucketTime(h)'
  BY <1>2, <1>3, <1>4 DEF Granted
<1>10. ASSUME NEW g \in Hosts, NEW a \in Int
       PROVE  /\ g # h \/ a > BucketTime(h)' => GrantedSince(g, a)' = GrantedSince(g, a)
              /\ g = h /\ a <= BucketTime(h)' =>
                    GrantedSince(g, a)' = GrantedSince(g, a) \cup {c} /\ c \notin GrantedSince(g, a)
  <2>1. \A d \in Granted : HostOf[d] = g /\ earned'[d] >= a <=> HostOf[d] = g /\ earned[d] >= a
    BY <1>9
  <2>2. c \in Calls /\ HostOf[c] = h
    BY <1>0
  <2>3. a > BucketTime(h)' => ~(BucketTime(h)' >= a)
    BY <1>2, <1>8
  <2>4. a <= BucketTime(h)' => BucketTime(h)' >= a
    BY <1>2, <1>8
  <2>5. GrantedSince(g, a)' = {d \in Granted \cup {c} : HostOf[d] = g /\ earned'[d] >= a}
    BY <1>9 DEF GrantedSince
  <2> QED
    BY <1>9, <2>1, <2>2, <2>3, <2>4, <2>5 DEF GrantedSince
<1>11. ASSUME NEW g \in Hosts, NEW a \in Int, a <= BucketTime(g)'
       PROVE  Cardinality(GrantedSince(g, a)') * Token + tokens'[g] <= Allowed(BucketTime(g)' - a)
  <2>1. ASSUME a <= BucketTime(h)'
        PROVE  Cardinality(GrantedSince(h, a)') * Token + tokens'[h] <= Allowed(BucketTime(h)' - a)
    <3>1. /\ IsFiniteSet(GrantedSince(h, a)) /\ Cardinality(GrantedSince(h, a)) \in Nat
      BY <1>2, GrantedFinite
    <3>2. Cardinality(GrantedSince(h, a)') = Cardinality(GrantedSince(h, a)) + 1
      BY <1>2, <1>10, <2>1, <3>1, FS_AddElement
    <3>3. (Cardinality(GrantedSince(h, a)) + 1) * Token = Cardinality(GrantedSince(h, a)) * Token + Token
          /\ Cardinality(GrantedSince(h, a)) * Token \in Int
      BY <3>1, Products
    <3>4. Cardinality(GrantedSince(h, a)) * Token + Refilled(h, t)
             <= Allowed((BucketTime(h) + Elapsed(h, t)) - a)
      BY <1>2, <1>7, <2>1, RefillIsEarned
    <3>5. Allowed((BucketTime(h) + Elapsed(h, t)) - a) \in Int
      <4>1. (BucketTime(h) + Elapsed(h, t)) - a \in Int
        BY <1>2, <1>8
      <4> QED
        BY <4>1, AllowedGrows
    <3> DEFINE before == Cardinality(GrantedSince(h, a)) * Token
               bound == Allowed((BucketTime(h) + Elapsed(h, t)) - a)
               there == Refilled(h, t)
    <3>6. before + there <= bound /\ before \in Int /\ there \in Int /\ bound \in Int
      BY <1>5, <3>3, <3>4, <3>5
    <3> HIDE DEF before, bound, there
    <3>7. before + Token + (there - Token) <= bound
      BY <3>6
    <3>8. Cardinality(GrantedSince(h, a)') * Token = before + Token
      BY <3>2, <3>3 DEF before
    <3>9. tokens'[h] = there - Token
      BY <1>7 DEF there
    <3>10. Allowed(BucketTime(h)' - a) = bound
      BY <1>7 DEF bound
    <3> QED
      BY <3>7, <3>8, <3>9, <3>10
  <2>2. CASE g # h
    BY <1>7, <1>10, <1>11, <2>2 DEF RateInv, BucketInv
  <2> QED
    BY <1>11, <2>1, <2>2
<1>12. BucketInv'
  <2>1. \A x : Allowed(x)' = Allowed(x')
    BY DEF Allowed
  <2>2. \A g \in Hosts, a \in Int :
            (Cardinality(GrantedSince(g, a)) * Token)' = Cardinality(GrantedSince(g, a)') * Token
    OBVIOUS
  <2> QED
    BY <1>11 DEF BucketInv, Allowed
<1>13. GrantInv'
  <2>1. /\ earned'[c] - back'[c] \in (granted'[c] - MaxLag)..granted'[c]
        /\ earned'[c] <= BucketTime(h)'
    <3>1. earned'[c] = BucketTime(h)' /\ back'[c] = setBack'[h] /\ granted'[c] = now
      BY <1>3, <1>4
    <3>2. BucketTime(h)' = t + setBack'[h] /\ setBack'[h] \in Nat
      BY <1>2, <1>6 DEF Store, BucketTime, LimiterTypeOK
    <3> QED
      BY <1>2, <1>8, <3>1, <3>2
  <2>2. ASSUME NEW d \in Calls \ {c}, granted[d] # Never
        PROVE  earned[d] <= BucketTime(HostOf[d])'
    <3>1. HostOf[d] \in Hosts /\ earned[d] \in Nat /\ earned[d] <= BucketTime(HostOf[d])
      BY <1>3, <2>2 DEF RateInv, GrantInv
    <3>2. BucketTime(HostOf[d])' >= BucketTime(HostOf[d])
      BY <1>2, <1>7, <1>8, <3>1
    <3> QED
      BY <1>8, <3>1, <3>2
  <2>3. \A d \in Calls \ {c} : /\ pc'[d] = pc[d] /\ granted'[d] = granted[d]
                               /\ earned'[d] = earned[d] /\ back'[d] = back[d]
    BY <1>3, <1>4
  <2>4. pc'[c] = "slot"
    BY <1>4 DEF RateInv, TypeOK
  <2> QED
    BY <1>0, <2>1, <2>2, <2>3, <2>4 DEF RateInv, GrantInv
<1>14. ASSUME NEW g \in Hosts, NEW a \in Int, NEW b \in Int, a <= b
       PROVE  Cardinality(GrantedUntil(g, a, b)') * Token <= Allowed(b - a)
  <2>1. CASE g # h \/ b < BucketTime(h)'
    <3>1. GrantedUntil(g, a, b)' = GrantedUntil(g, a, b)
      BY <1>2, <1>0, <1>8, <1>9, <2>1 DEF GrantedUntil, GrantedSince
    <3> QED
      BY <1>14, <3>1 DEF RateInv, StretchInv
  <2>2. CASE g = h /\ b >= BucketTime(h)'
    <3>1. GrantedUntil(g, a, b)' \in SUBSET (GrantedSince(g, a)')
      BY DEF GrantedUntil
    <3>2. IsFiniteSet(Granted') /\ \A d \in Granted' : HostOf[d] = h => earned'[d] <= BucketTime(h)'
      <4>1. IsFiniteSet(Granted')
        BY <1>2, <1>9, FS_AddElement
      <4>2. \A d \in Granted' : HostOf[d] = h => earned'[d] <= BucketTime(h)'
        BY <1>13 DEF GrantInv, Granted
      <4> QED
        BY <4>1, <4>2
    <3>3. GrantedSince(g, a)' \in SUBSET (Granted')
      BY DEF GrantedSince
    <3>4. /\ IsFiniteSet(GrantedSince(g, a)') /\ Cardinality(GrantedUntil(g, a, b)') \in Nat
          /\ Cardinality(GrantedSince(g, a)') \in Nat
          /\ Cardinality(GrantedUntil(g, a, b)') <= Cardinality(GrantedSince(g, a)')
      BY <3>1, <3>2, <3>3, FS_Subset, FS_CardinalityType
    <3>5. /\ Cardinality(GrantedUntil(g, a, b)') * Token <= Cardinality(GrantedSince(g, a)') * Token
          /\ Cardinality(GrantedSince(g, a)') * Token \in Int
          /\ Cardinality(GrantedUntil(g, a, b)') * Token \in Int
      BY <3>4, Products
    <3>6. CASE a <= BucketTime(h)'
      <4>1. Cardinality(GrantedSince(g, a)') * Token + tokens'[g] <= Allowed(BucketTime(h)' - a)
        BY <1>11, <2>2, <3>6
      <4>2. tokens'[g] \in Nat /\ BucketTime(h)' \in Int
        BY <1>5, <1>6, <1>7, <1>8, <2>2
      <4>3. /\ Allowed(BucketTime(h)' - a) <= Allowed(b - a)
            /\ Allowed(BucketTime(h)' - a) \in Int /\ Allowed(b - a) \in Int
        <5>1. BucketTime(h)' - a \in Int /\ b - a \in Int /\ BucketTime(h)' - a <= b - a
          BY <2>2, <4>2
        <5> QED
          BY <5>1, AllowedGrows
      <4> QED
        BY <3>5, <4>1, <4>2, <4>3
    <3>7. CASE a > BucketTime(h)'
      <4>1. GrantedUntil(g, a, b)' = {}
        BY <1>3, <1>4, <1>8, <2>2, <3>2, <3>7 DEF GrantedUntil, GrantedSince, Granted
      <4>2. Cardinality(GrantedUntil(g, a, b)') * Token = 0
        BY <4>1, FS_EmptySet, Products
      <4>3. 0 <= Allowed(b - a)
        BY <1>14, AllowedGrows
      <4> QED
        BY <4>2, <4>3
    <3> QED
      BY <1>8, <2>2, <3>6, <3>7
  <2> QED
    BY <1>2, <1>8, <2>1, <2>2
<1>15. StretchInv'
  BY <1>14 DEF StretchInv, Allowed
<1>16. IsFiniteSet(Granted')
  BY <1>2, <1>9, FS_AddElement
<1> QED
  BY <1>12, <1>13, <1>15, <1>16 DEF RateInv

LEMMA RateNext == RateInv /\ [Next]_vars => RateInv'
<1> SUFFICES ASSUME RateInv, [Next]_vars PROVE RateInv'
  OBVIOUS
<1>1. TypeOK' /\ LimiterTypeOK
  BY StepsTyped DEF RateInv, TypeOK
<1>2. ASSUME limiterVars' = limiterVars, UNCHANGED rateVars,
             \A d \in Calls : pc'[d] \in {"new", "limiter"} => pc[d] \in {"new", "limiter"}
      PROVE  RateInv'
  <2>1. \A h \in Hosts : BucketTime(h)' = BucketTime(h) /\ tokens'[h] = tokens[h]
    BY <1>2 DEF BucketTime, limiterVars
  <2> QED
    BY <1>1, <1>2, <2>1, RateKept
<1>3. ASSUME NEW c \in Calls, AwaitToken(c) \/ LimiterFails(c) PROVE RateInv'
  <2>1. /\ UNCHANGED rateVars
        /\ \A d \in Calls : pc'[d] \in {"new", "limiter"} => pc[d] \in {"new", "limiter"}
    BY <1>3 DEF AwaitToken, LimiterFails, Goto, RateInv, TypeOK, callVars
  <2>2. CASE UNCHANGED limiterVars
    BY <1>2, <2>1, <2>2
  <2>3. ASSUME NEW t \in Nat, ConsumeToken(HostOf[c], t) \/ LackToken(HostOf[c], t) PROVE RateInv'
    <3>1. Refilled(HostOf[c], t) \in 0..(Capacity * Token) /\ HostOf[c] \in Hosts
      BY <1>1, RefilledType
    <3>2. PICK left \in 0..(Capacity * Token) :
             left <= Refilled(HostOf[c], t) /\ Store(HostOf[c], t, left)
      <4>1. Capacity * Token \in Nat
        BY Products
      <4>2. CASE ConsumeToken(HostOf[c], t)
        <5>1. /\ Refilled(HostOf[c], t) - Token \in 0..(Capacity * Token)
              /\ Refilled(HostOf[c], t) - Token <= Refilled(HostOf[c], t)
          BY <3>1, <4>1, <4>2 DEF ConsumeToken
        <5> QED
          BY <4>2, <5>1 DEF ConsumeToken
      <4>3. CASE LackToken(HostOf[c], t)
        BY <3>1, <4>1, <4>3 DEF LackToken
      <4> QED
        BY <2>3, <4>2, <4>3
    <3>3. /\ BucketTime(HostOf[c])' = BucketTime(HostOf[c]) + Elapsed(HostOf[c], t)
          /\ tokens'[HostOf[c]] <= Refilled(HostOf[c], t)
          /\ \A g \in Hosts \ {HostOf[c]} : BucketTime(g)' = BucketTime(g) /\ tokens'[g] = tokens[g]
      BY <1>1, <3>1, <3>2, StoreMoves
    <3> QED
      BY <1>1, <2>1, <3>3, RateKept
  <2>4. \A t \in Stamps : t \in Nat
    BY DEF Stamps, RateInv, TypeOK
  <2> QED
    BY <1>3, <2>2, <2>3, <2>4 DEF AwaitToken, LimiterFails
<1>4. ASSUME NEW c \in Calls, CallStep(c) PROVE RateInv'
  <2>1. CASE RejectInput(c) \/ Begin(c)
    BY <1>2, <2>1 DEF RejectInput, Begin, Goto, RateInv, TypeOK, callVars
  <2>2. CASE GetSlot(c) \/ AwaitSlot(c) \/ SlotFails(c) \/ Release(c) \/ Exec(c)
    BY <1>2, <2>2 DEF GetSlot, AwaitSlot, SlotFails, Release, Exec, Goto, RateInv, TypeOK, callVars
  <2>3. CASE BasicReplies(c) \/ StealthReplies(c) \/ RetryReplies(c)
    BY <1>2, <2>3 DEF BasicReplies, StealthReplies, RetryReplies, ScrapeReturns, ScrapeThrows,
                      ScrapeGoesOn, Goto, RateInv, TypeOK, callVars
  <2> QED
    BY <1>1, <1>3, <1>4, <2>1, <2>2, <2>3, RateGrant DEF CallStep
<1>5. ASSUME NEW w \in Workers, Crash(w) PROVE RateInv'
  BY <1>2, <1>5 DEF Crash, callVars
<1>6. CASE Tick \/ UNCHANGED vars
  BY <1>2, <1>6 DEF Tick, vars, callVars
<1> QED
  BY <1>4, <1>5, <1>6 DEF Next

LEMMA RateInitially == Init => RateInv
<1> SUFFICES ASSUME Init PROVE RateInv
  OBVIOUS
<1>1. TypeOK
  BY InitiallyTyped
<1>2. Granted = {} /\ \A h, a, b : GrantedSince(h, a) = {} /\ GrantedUntil(h, a, b) = {}
  BY DEF Init, Granted, GrantedSince, GrantedUntil
<1>3. \A h \in Hosts : BucketTime(h) = 0 /\ tokens[h] = Capacity * Token
  BY DEF Init, LimiterInit, BucketTime
<1>4. Cardinality({}) * Token = 0 /\ Capacity * Token \in Nat
  BY FS_EmptySet, Products
<1>5. BucketInv
  <2> SUFFICES ASSUME NEW a \in Int, a <= 0 PROVE Capacity * Token <= Allowed(0 - a)
    BY <1>2, <1>3, <1>4 DEF BucketInv
  <2>1. 0 - a \in Nat
    OBVIOUS
  <2> QED
    BY <2>1, AllowedGrows
<1>6. StretchInv
  <2> SUFFICES ASSUME NEW a \in Int, NEW b \in Int, a <= b PROVE 0 <= Allowed(b - a)
    BY <1>2, <1>4 DEF StretchInv
  <2>1. b - a \in Nat
    OBVIOUS
  <2> QED
    BY <2>1, AllowedGrows
<1>7. GrantInv
  BY DEF Init, GrantInv
<1> QED
  BY <1>1, <1>2, <1>5, <1>6, <1>7, FS_EmptySet DEF RateInv

\* Every grant between two of the same host lies in the stretch of the bucket's time from
\* the earliest the first may stand for to the latest the second may.
LEMMA StretchCoversRate == RateInv => RateBound
<1> SUFFICES ASSUME RateInv, NEW c \in Calls, NEW d \in Calls,
                    HostOf[c] = HostOf[d], granted[d] # Never,
                    granted[c] <= granted[d], back[c] <= back[d]
             PROVE  Cardinality(GrantedBetween(c, d)) * Token <= Capacity * Token
                       + (granted[d] - granted[c] + MaxLag + back[d] - back[c]) * PerTick
  BY DEF RateBound
<1>1. /\ granted \in [Calls -> 0..Never] /\ back \in [Calls -> Nat] /\ earned \in [Calls -> Nat]
      /\ IsFiniteSet(Granted) /\ HostOf[c] \in Hosts
  BY DEF RateInv, TypeOK
<1>2. granted[c] \in Nat /\ granted[d] \in Nat /\ back[c] \in Nat /\ back[d] \in Nat /\ MaxLag \in Nat
      /\ granted[d] < Never
  BY <1>1 DEF Never
<1> DEFINE lo == granted[c] - MaxLag + back[c]
           hi == granted[d] + back[d]
<1>3. /\ lo \in Int /\ hi \in Int /\ lo <= hi
      /\ hi - lo = granted[d] - granted[c] + MaxLag + back[d] - back[c]
  BY <1>2
<1>4. ASSUME NEW e \in GrantedBetween(c, d)
      PROVE  e \in GrantedUntil(HostOf[c], lo, hi)
  <2>1. /\ e \in Calls /\ HostOf[e] = HostOf[c]
        /\ granted[e] \in granted[c]..granted[d] /\ back[e] \in back[c]..back[d]
    BY DEF GrantedBetween
  <2>2. granted[e] # Never
    BY <1>2, <2>1
  <2>3. earned[e] - back[e] \in (granted[e] - MaxLag)..granted[e] /\ earned[e] \in Nat
    BY <1>1, <2>1, <2>2 DEF RateInv, GrantInv
  <2>4. earned[e] >= lo /\ earned[e] <= hi
    BY <1>2, <2>1, <2>3
  <2> QED
    BY <2>1, <2>2, <2>4 DEF GrantedUntil, GrantedSince, Granted
<1>5. /\ IsFiniteSet(GrantedUntil(HostOf[c], lo, hi))
      /\ Cardinality(GrantedUntil(HostOf[c], lo, hi)) * Token <= Allowed(hi - lo)
  BY <1>1, <1>3, GrantedFinite DEF RateInv, StretchInv
<1>6. /\ Cardinality(GrantedBetween(c, d)) \in Nat
      /\ Cardinality(GrantedUntil(HostOf[c], lo, hi)) \in Nat
      /\ Cardinality(GrantedBetween(c, d)) <= Cardinality(GrantedUntil(HostOf[c], lo, hi))
  <2>1. GrantedBetween(c, d) \in SUBSET GrantedUntil(HostOf[c], lo, hi)
    BY <1>4
  <2> QED
    BY <1>5, <2>1, FS_Subset, FS_CardinalityType
<1> HIDE DEF lo, hi
<1>7. /\ Cardinality(GrantedBetween(c, d)) * Token
            <= Cardinality(GrantedUntil(HostOf[c], lo, hi)) * Token
      /\ Cardinality(GrantedBetween(c, d)) * Token \in Int
      /\ Cardinality(GrantedUntil(HostOf[c], lo, hi)) * Token \in Int
  BY <1>6, Products
<1>8. Allowed(hi - lo) \in Int
  BY <1>3, AllowedGrows
<1>9. Cardinality(GrantedBetween(c, d)) * Token <= Allowed(hi - lo)
  BY <1>5, <1>7, <1>8
<1> QED
  BY <1>3, <1>9 DEF Allowed

\* However far behind the scripts' timestamps are, no more calls are granted between two
\* of a host than the burst and the refill of the time between them, of that lag and of
\* what stale scripts set back: in any interleaving of the replicas' calls, whichever
\* crash, fail or give up.
THEOREM RateIsBounded == Spec => []RateBound
<1>1. RateInv /\ [Next]_vars => RateInv'
  BY RateNext
<1> QED
  BY <1>1, RateInitially, StretchCoversRate, PTL DEF Spec
==============================================================================
