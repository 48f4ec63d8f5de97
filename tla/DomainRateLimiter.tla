-------------------------- MODULE DomainRateLimiter --------------------------
(***************************************************************************)
(* DomainRateLimiter of worker-core: a token bucket per donor host.  A     *)
(* token is Token units and a tick of the clock refills PerTick of them,   *)
(* so that the fractions of the Lua script stay whole numbers.  The key's  *)
(* expiry is left out: a bucket that old is full, like an absent one.      *)
(***************************************************************************)
EXTENDS Integers

CONSTANTS Hosts,     \* donor hosts
          Capacity,  \* tokens of a full bucket
          Token,     \* units of one token
          PerTick    \* units refilled per tick

ASSUME LimiterAssumption ==
    Capacity \in Nat \ {0} /\ Token \in Nat \ {0} /\ PerTick \in Nat \ {0}

VARIABLES tokens,    \* tokens[h], in units
          ts,        \* ts[h]: client time of the last script run on h
          setBack    \* setBack[h]: by how much scripts have set ts[h] back so far (history)

limiterVars == <<tokens, ts, setBack>>

LimiterTypeOK ==
    tokens \in [Hosts -> 0..(Capacity * Token)] /\ ts \in [Hosts -> Nat] /\ setBack \in [Hosts -> Nat]

LimiterInit ==
    /\ tokens = [h \in Hosts |-> Capacity * Token]
    /\ ts = [h \in Hosts |-> 0] /\ setBack = [h \in Hosts |-> 0]

AtMost(a, b) == IF a <= b THEN a ELSE b

\* A bug: an older time than the stored one takes tokens back.
Elapsed_signed(h, now) == now - ts[h]

\* The refill of CONSUME_LUA at client time now: negative time counts as none.
Elapsed(h, now) == IF now >= ts[h] THEN now - ts[h] ELSE 0

Refilled(h, now) == AtMost(Capacity * Token, tokens[h] + Elapsed(h, now) * PerTick)

\* HMSET: the time the script carries is stored, even when it is older than the one there.
Store(h, now, left) ==
    /\ tokens' = [tokens EXCEPT ![h] = left]
    /\ ts' = [ts EXCEPT ![h] = now]
    /\ setBack' = [setBack EXCEPT ![h] = @ + (IF now < ts[h] THEN ts[h] - now ELSE 0)]

\* A grant that does not store the time of the refill.
ConsumeToken_keepsTs(h, now) ==
    /\ Refilled(h, now) >= Token
    /\ Store(h, ts[h], Refilled(h, now) - Token)

\* A token is there: consume it.
ConsumeToken(h, now) ==
    /\ Refilled(h, now) >= Token
    /\ Store(h, now, Refilled(h, now) - Token)

\* None is there: the script still stores the refill, and answers how long to wait.
LackToken(h, now) == Refilled(h, now) < Token /\ Store(h, now, Refilled(h, now))

WaitMs(h, now) == (Token - Refilled(h, now) + PerTick - 1) \div PerTick
=============================================================================
