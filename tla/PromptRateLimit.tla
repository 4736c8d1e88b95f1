--------------------------- MODULE PromptRateLimit ---------------------------
(***************************************************************************)
(* RateLimitInterceptor (internal/server/observability.go 88-121): one     *)
(* token bucket per org, found or made under a mutex, then asked for a     *)
(* token outside of it by calls that run at the same time.                 *)
(*                                                                         *)
(* The bucket is golang.org/x/time/rate, external: it refills when it is   *)
(* asked, for the time since it was last asked, up to the burst.           *)
(***************************************************************************)
EXTENDS Integers, Sequences

CONSTANTS
    Org,            \* the scopes of the callers, "" (administrator) like any other
    Call,           \* handler goroutines
    ScopeOf,        \* the org of each call's credential
    Rate, Unit,     \* -rate-limit: Rate / Unit tokens per tick, a second
    RateBurst,      \* -rate-burst
    MaxTime         \* bound on the clock

VARIABLES
    now,
    limiters,   \* the map: the bucket (index in buckets) of each org, 0: none
    buckets,    \* every rate.Limiter made: what it held (Units) when it was last asked
    lim,        \* the bucket each call is about to ask, 0: not in the interceptor
    admitted,   \* how many calls of each org were let through
    before      \* how many of them before each tick so far

limiterVars == <<now, limiters, buckets, lim, admitted, before>>

ASSUME LimiterAssumption ==
    /\ ScopeOf \in [Call -> Org]
    /\ Rate \in Nat \ {0} /\ Unit \in Nat \ {0} /\ RateBurst \in Nat /\ MaxTime \in Nat

(* observability.go 96-101: the default is a second's worth, at least one. *)
Burst == IF RateBurst > 0 THEN RateBurst
         ELSE IF Rate < Unit THEN 1 ELSE Rate \div Unit

Full == Burst * Unit

Bucket == [units : 0 .. Full, at : 0 .. MaxTime]

LimiterInit ==
    /\ now = 0
    /\ limiters = [o \in Org |-> 0]
    /\ buckets = <<>>
    /\ lim = [c \in Call |-> 0]
    /\ admitted = [o \in Org |-> 0]
    /\ before = [o \in Org |-> <<0>>]

(* What a bucket holds now.  *)
RefillsWithoutCap(b) == b.units + Rate * (now - b.at)     \* mutation: credit without limit
Holds(b) == LET u == b.units + Rate * (now - b.at) IN IF u > Full THEN Full ELSE u

(* observability.go 105-113, under the mutex.  *)
OneForAll(c) == CHOOSE o \in Org : TRUE         \* mutation: one bucket for everybody
Key(c) == ScopeOf[c]

Stores(o, i) == limiters' = [limiters EXCEPT ![o] = i]

FindsUnlocked(c) ==     \* mutation: no mutex, what the map held may be out of date
    LET o == Key(c)
        i == Len(buckets) + 1
    IN  /\ lim[c] = 0
        /\ limiters[o] = 0 \/ \E d \in Call : lim[d] = limiters[o]
        /\ buckets' = Append(buckets, [units |-> Full, at |-> now])
        /\ Stores(o, i)
        /\ lim' = [lim EXCEPT ![c] = i]
        /\ UNCHANGED <<now, admitted, before>>

FindLimiter(c) ==
    LET o == Key(c)
        i == Len(buckets) + 1
    IN  /\ lim[c] = 0
        /\ \/ /\ limiters[o] # 0
              /\ lim' = [lim EXCEPT ![c] = limiters[o]]
              /\ UNCHANGED <<limiters, buckets>>
           \/ /\ limiters[o] = 0
              /\ buckets' = Append(buckets, [units |-> Full, at |-> now])
              /\ Stores(o, i)
              /\ lim' = [lim EXCEPT ![c] = i]
        /\ UNCHANGED <<now, admitted, before>>

(* observability.go 114-117, Allow.  *)
Admit(c) ==
    LET b == buckets[lim[c]]
        o == ScopeOf[c]
    IN  /\ lim[c] # 0
        /\ Holds(b) >= Unit
        /\ buckets' = [buckets EXCEPT ![lim[c]] = [units |-> Holds(b) - Unit, at |-> now]]
        /\ lim' = [lim EXCEPT ![c] = 0]
        /\ admitted' = [admitted EXCEPT ![o] = @ + 1]
        /\ UNCHANGED <<now, limiters, before>>

Refuse(c) ==
    /\ lim[c] # 0
    /\ Holds(buckets[lim[c]]) < Unit
    /\ lim' = [lim EXCEPT ![c] = 0]
    /\ UNCHANGED <<now, limiters, buckets, admitted, before>>

Tick ==
    /\ now < MaxTime
    /\ now' = now + 1
    /\ before' = [o \in Org |-> Append(before[o], admitted[o])]
    /\ UNCHANGED <<limiters, buckets, lim, admitted>>

LimiterNext == Tick \/ \E c \in Call : FindLimiter(c) \/ Admit(c) \/ Refuse(c)

LimiterSpec == LimiterInit /\ [][LimiterNext]_limiterVars

-----------------------------------------------------------------------------

(* The calls of an org let through since tick s began.  *)
Since(o, s) == admitted[o] - before[o][s + 1]

(* observability.go 88, README.md 814: in no stretch of time does an org   *)
(* get more calls through than the burst and what the rate adds in it,     *)
(* however its calls interleave in the interceptor.                        *)
WithinBudget ==
    \A o \in Org : \A s \in 0 .. now : Since(o, s) * Unit <= Full + Rate * (now - s)

(* observability.go 88 and 103-108: a call is refused only when its own    *)
(* org has used its budget up, never for what other orgs do.               *)
UsedUp(o) == \E s \in 0 .. now : (Since(o, s) + 1) * Unit > Full + Rate * (now - s)

RefusedForItsOwn ==
    [][\A c \in Call : Refuse(c) => UsedUp(ScopeOf[c])]_limiterVars
=============================================================================
