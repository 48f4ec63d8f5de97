------------------------------- MODULE Crawler -------------------------------
(***************************************************************************)
(* CrawlerService.crawlAndAnalyze with everything it goes through: the     *)
(* per-host rate limiter, the cluster-wide semaphore, the breaker of its   *)
(* worker process, and FirecrawlProvider.scrape with its stealth retries.  *)
(* A call is one crawlAndAnalyze; the calls of one process interleave at   *)
(* its awaits.                                                             *)
(*                                                                         *)
(* Time counts in ticks of the fastest replica's clock.  The Date.now() a  *)
(* script carries is up to MaxLag ticks behind it when Redis runs it: its  *)
(* own replica's clock is slower, or the script was on its way that long.  *)
(***************************************************************************)
EXTENDS CircuitBreaker, RedisSemaphore, DomainRateLimiter

CONSTANTS Home,         \* Home[c]: the worker process of call c
          HostOf,       \* HostOf[c]: the donor host call c is for
          LimiterWait,  \* consume's maxWaitMs
          SlotWait,     \* acquire's maxWaitMs
          MaxLag,       \* how far a script's timestamp may be behind the clock
          MaxCrashes,   \* bound on process crashes
          MaxTime       \* bound on the clock

ASSUME CrawlerAssumption ==
    /\ Home \in [Calls -> Workers] /\ HostOf \in [Calls -> Hosts]
    /\ LimiterWait \in Nat /\ SlotWait \in Nat /\ MaxLag \in Nat
    /\ MaxCrashes \in Nat /\ MaxTime \in Nat

VARIABLES now,      \* the clock
          pc,       \* pc[c]: where call c stands
          since,    \* since[c]: when its wait began, then its lease's timestamp
          wake,     \* wake[c]: when its sleep in the limiter ends
          trapped,  \* calls that handed a bot-trap page to the parser (history)
          granted,  \* granted[c]: when it got its host token, or Never (history)
          earned,   \* earned[c]: the refill time its host had seen by then (history)
          back,     \* back[c]: how far its host's ts had been set back by then (history)
          trial,    \* calls let through in HALF_OPEN (history)
          leaked,   \* calls whose release failed, or whose acquire's reply was lost (history)
          crashes   \* crashes so far

rateVars == <<granted, earned, back>>
callVars == <<since, wake, rateVars, trial>>
vars == <<breakerVars, slots, limiterVars, now, pc, callVars, trapped, leaked, crashes>>

Never == MaxTime + 1
CallState == {"new", "limiter", "slot", "call", "basic", "stealth", "retry",
              "release", "answered", "dead"}
Scraping == {"basic", "stealth", "retry"}

\* What a scrape request may come to: a page with anchors, a bot-trap page, an answer
\* with success=false (or, before the first, an SDK that does not load), a throw.
Reply == {"page", "trap", "refused", "throws"}

Init ==
    /\ BreakerInit /\ SemaphoreInit /\ LimiterInit
    /\ now = 0
    /\ pc = [c \in Calls |-> "new"]
    /\ since = [c \in Calls |-> 0]
    /\ wake = [c \in Calls |-> 0]
    /\ granted = [c \in Calls |-> Never]
    /\ earned = [c \in Calls |-> 0] /\ back = [c \in Calls |-> 0]
    /\ trapped = {} /\ trial = {} /\ leaked = {} /\ crashes = 0

Goto(c, where) == pc' = [pc EXCEPT ![c] = where]

\* The timestamps a script run now may carry.
Stamps == {t \in 0..now : now - t <= MaxLag}

------------------------------------------------------------------------------
(* crawlAndAnalyze up to the lease.                                        *)

\* The acceptor or the donor URL does not parse: answered at once.
RejectInput(c) ==
    /\ pc[c] = "new"
    /\ Goto(c, "answered")
    /\ UNCHANGED <<breakerVars, slots, limiterVars, now, callVars, trapped, leaked, crashes>>

Begin(c) ==
    /\ pc[c] = "new"
    /\ Goto(c, "limiter")
    /\ since' = [since EXCEPT ![c] = now]
    /\ wake' = [wake EXCEPT ![c] = now]
    /\ UNCHANGED <<breakerVars, slots, limiterVars, now, rateVars, trial, trapped, leaked, crashes>>

\* DomainRateLimiter.consume: the script granted a token.
GetToken(c) ==
    /\ pc[c] = "limiter" /\ now >= wake[c]
    /\ \E t \in Stamps : ConsumeToken(HostOf[c], t)
    /\ Goto(c, "slot")
    /\ since' = [since EXCEPT ![c] = now]
    /\ granted' = [granted EXCEPT ![c] = now]
    /\ back' = [back EXCEPT ![c] = setBack'[HostOf[c]]]
    /\ earned' = [earned EXCEPT ![c] = ts'[HostOf[c]] + setBack'[HostOf[c]]]
    /\ UNCHANGED <<breakerVars, slots, now, wake, trial, trapped, leaked, crashes>>

\* It did not: sleep as long as it says, or give up if that is past the deadline.
AwaitToken(c) ==
    /\ pc[c] = "limiter" /\ now >= wake[c]
    /\ \E t \in Stamps :
          LET wait == WaitMs(HostOf[c], t) IN
          /\ LackToken(HostOf[c], t)
          /\ IF now + wait > since[c] + LimiterWait
             THEN Goto(c, "answered") /\ UNCHANGED wake
             ELSE wake' = [wake EXCEPT ![c] = now + wait] /\ UNCHANGED pc
    /\ UNCHANGED <<breakerVars, slots, now, since, rateVars, trial, trapped, leaked, crashes>>

\* consume rejects with an error of Redis, whether the script did not run or its reply
\* was lost: what it took stays taken, and the call is answered without a token.
LimiterFails(c) ==
    /\ pc[c] = "limiter" /\ now >= wake[c]
    /\ \/ UNCHANGED limiterVars
       \/ \E t \in Stamps : ConsumeToken(HostOf[c], t) \/ LackToken(HostOf[c], t)
    /\ Goto(c, "answered")
    /\ UNCHANGED <<breakerVars, slots, now, callVars, trapped, leaked, crashes>>

\* RedisSemaphore.acquire: one poll that succeeds.
GetSlot(c) ==
    /\ pc[c] = "slot"
    /\ \E t \in Stamps : TakeSlot(c, t) /\ since' = [since EXCEPT ![c] = t]
    /\ Goto(c, "call")
    /\ UNCHANGED <<breakerVars, limiterVars, now, wake, rateVars, trial, trapped, leaked, crashes>>

\* One that does not: poll again, or time out.
AwaitSlot(c) ==
    /\ pc[c] = "slot"
    /\ \E t \in Stamps : NoSlot(t)
    /\ IF now >= since[c] + SlotWait THEN Goto(c, "answered") ELSE UNCHANGED pc
    /\ UNCHANGED <<breakerVars, limiterVars, now, callVars, trapped, leaked, crashes>>

\* acquire rejects with an error of Redis: a slot whose grant was lost on the way is no
\* one's to release.
SlotFails(c) ==
    /\ pc[c] = "slot"
    /\ \/ UNCHANGED <<slots, leaked>>
       \/ \E t \in Stamps : NoSlot(t) /\ UNCHANGED leaked
       \/ \E t \in Stamps : TakeSlot(c, t) /\ leaked' = leaked \cup {c}
    /\ Goto(c, "answered")
    /\ UNCHANGED <<breakerVars, limiterVars, now, callVars, trapped, crashes>>

------------------------------------------------------------------------------
(* breaker.exec around FirecrawlProvider.scrape.                           *)

Exec(c) ==
    LET w == Home[c] IN
    /\ pc[c] = "call"
    /\ \/ FailFast(w, now) /\ Goto(c, "release") /\ UNCHANGED trial
       \/ /\ LetThrough(w, now) /\ Goto(c, "basic")
          /\ trial' = IF GetState(w, now) = "HALF_OPEN" THEN trial \cup {c} ELSE trial
    /\ UNCHANGED <<slots, limiterVars, now, since, wake, rateVars, trapped, leaked, crashes>>

\* scrape returned: the breaker sees a success, then the page is
\* parsed; a parse error is answered, and changes nothing else.
ScrapeReturns(c, page) ==
    /\ OnSuccess(Home[c])
    /\ Goto(c, "release")
    /\ trapped' = IF page = "trap" THEN trapped \cup {c} ELSE trapped

\* A scrape error that skips the finally block.
ScrapeThrows_noFinally(c) ==
    OnFailure(Home[c], now) /\ Goto(c, "answered") /\ UNCHANGED trapped

ScrapeThrows(c) == OnFailure(Home[c], now) /\ Goto(c, "release") /\ UNCHANGED trapped

ScrapeGoesOn(c, where) == Goto(c, where) /\ UNCHANGED <<breakerVars, trapped>>

\* The basic proxy: a throw and a bot-trap each lead to a stealth request.
BasicReplies(c) ==
    /\ pc[c] = "basic"
    /\ \E reply \in Reply :
          \/ reply = "page" /\ ScrapeReturns(c, reply)
          \/ reply = "trap" /\ ScrapeGoesOn(c, "retry")
          \/ reply = "refused" /\ ScrapeThrows(c)
          \/ reply = "throws" /\ ScrapeGoesOn(c, "stealth")
    /\ UNCHANGED <<slots, limiterVars, now, callVars, leaked, crashes>>

\* The stealth proxy after a throw: its page is not looked at again (usedStealth).
StealthReplies(c) ==
    /\ pc[c] = "stealth"
    /\ \E reply \in Reply :
          IF reply \in {"page", "trap"} THEN ScrapeReturns(c, reply) ELSE ScrapeThrows(c)
    /\ UNCHANGED <<slots, limiterVars, now, callVars, leaked, crashes>>

\* The stealth proxy after a bot-trap: whichever page is adopted is checked again.
RetryReplies(c) ==
    /\ pc[c] = "retry"
    /\ \E reply \in Reply :
          IF reply = "page" THEN ScrapeReturns(c, "page") ELSE ScrapeThrows(c)
    /\ UNCHANGED <<slots, limiterVars, now, callVars, leaked, crashes>>

\* finally: release the lease; an error is logged, and the TTL has to free the slot.
Release(c) ==
    /\ pc[c] = "release"
    /\ \/ ReleaseSlot(c) /\ UNCHANGED leaked
       \/ leaked' = leaked \cup {c} /\ UNCHANGED slots
    /\ Goto(c, "answered")
    /\ UNCHANGED <<breakerVars, limiterVars, now, callVars, trapped, crashes>>

------------------------------------------------------------------------------
\* A worker process dies with its calls; its successor starts with a new breaker.
Crash(w) ==
    /\ crashes < MaxCrashes
    /\ crashes' = crashes + 1
    /\ pc' = [c \in Calls |-> IF Home[c] = w /\ pc[c] \notin {"new", "answered"}
                              THEN "dead" ELSE pc[c]]
    /\ ResetBreaker(w)
    /\ UNCHANGED <<slots, limiterVars, now, callVars, trapped, leaked>>

Tick ==
    /\ now < MaxTime
    /\ now' = now + 1
    /\ UNCHANGED <<breakerVars, slots, limiterVars, pc, callVars, trapped, leaked, crashes>>

CallStep(c) ==
    \/ RejectInput(c) \/ Begin(c)
    \/ GetToken(c) \/ AwaitToken(c) \/ LimiterFails(c)
    \/ GetSlot(c) \/ AwaitSlot(c) \/ SlotFails(c)
    \/ Exec(c) \/ BasicReplies(c) \/ StealthReplies(c) \/ RetryReplies(c)
    \/ Release(c)

Next ==
    \/ \E c \in Calls : CallStep(c)
    \/ \E w \in Workers : Crash(w)
    \/ Tick

Spec == Init /\ [][Next]_vars

------------------------------------------------------------------------------
(* Properties.                                                             *)

\* Every variable stays in its type.
TypeOK ==
    /\ BreakerTypeOK /\ SemaphoreTypeOK /\ LimiterTypeOK
    /\ now \in 0..MaxTime
    /\ pc \in [Calls -> CallState]
    /\ since \in [Calls -> 0..MaxTime]
    /\ wake \in [Calls -> Nat]
    /\ granted \in [Calls -> 0..Never] /\ earned \in [Calls -> Nat] /\ back \in [Calls -> Nat]
    /\ trapped \subseteq Calls /\ trial \subseteq Calls /\ leaked \subseteq Calls
    /\ crashes \in 0..MaxCrashes

\* Call c is between acquire and release, and its lease has not outlived its TTL.
LiveHolder(c) == /\ pc[c] \in {"call", "release"} \cup Scraping
                 /\ now - since[c] < TtlMs

\* At most Limit calls of the whole cluster use Firecrawl at a time, as long as each is
\* done within its lease's TTL: whatever process crashed, release failed or timestamp
\* came late, no other client's pruning evicts a live lease (semaphore.ts:19-36).
HoldersBounded == Cardinality({c \in Calls : LiveHolder(c)}) <= Limit

\* A call that has answered keeps no slot, on every path of crawlAndAnalyze (breaker
\* open, scrape or parse error, success), unless a Redis error kept it from releasing
\* the slot or from learning that it had one.
SlotReturned == \A c \in Calls : pc[c] = "answered" /\ c \notin leaked => ~Holds(c)

\* The calls granted for c's host from the grant of c to that of d.
GrantedBetween(c, d) ==
    {e \in Calls : /\ HostOf[e] = HostOf[c]
                   /\ granted[e] \in granted[c]..granted[d] /\ back[e] \in back[c]..back[d]}

\* Between any two grants of one host no more calls are let through than the burst and
\* the refill of the time between them, the lag of the timestamps, and the time by which
\* stale scripts set the bucket back meanwhile: that stretch is refilled twice, and
\* nothing else of waiting, retrying, failing and giving up adds to the host's load
\* (domain-rate-limiter.ts:4-16, 18-49).
RateBound ==
    \A c, d \in Calls :
        LET stretch == granted[d] - granted[c] + MaxLag + back[d] - back[c] IN
        /\ HostOf[c] = HostOf[d] /\ granted[d] # Never
        /\ granted[c] <= granted[d] /\ back[c] <= back[d]
        => Cardinality(GrantedBetween(c, d)) * Token <= Capacity * Token + stretch * PerTick

\* domain-rate-limiter.ts:4-5: "no more than N requests per second to a given donor host",
\* in every window, with the burst and the timestamps' lag allowed for.
PlainRate ==
    \A h \in Hosts : \A a \in 0..now : \A b \in a..now :
        Cardinality({c \in Calls : HostOf[c] = h /\ granted[c] \in a..b}) * Token
            <= Capacity * Token + (b - a + MaxLag) * PerTick

\* A page is scraped on behalf of a call only in the order of the concurrency contract
\* (crawler.service.ts:30-35): it has its host token, and its lease unless that expired.
ContractOrder ==
    \A c \in Calls : pc[c] \in {"call", "release"} \cup Scraping =>
        granted[c] <= now /\ (Holds(c) \/ now - since[c] >= TtlMs)

\* firecrawl.ts:15-18: a bot-trap page is never passed on as a result, or the link would
\* "show up ... silently as linkFound=false".
NoSilentTrap == trapped = {}

\* circuit-breaker.ts:8: in HALF_OPEN there is "one trial call in flight".
OneTrialCall ==
    \A w \in Workers : state[w] = "HALF_OPEN" =>
        Cardinality({c \in trial : Home[c] = w /\ pc[c] \in Scraping}) <= 1

\* README.md:61: scrapes in flight in the whole cluster stay below the cap.
CapRespected == Cardinality({c \in Calls : pc[c] \in Scraping}) <= Limit
=============================================================================
