-------------------------- MODULE PromptTimedServer --------------------------
(***************************************************************************)
(* PromptServer with the cache as cache.go and redis_cache.go have it: an  *)
(* entry carries an expiry, set when it is put and looked at when it is    *)
(* got, and time passes.  PromptServer lets an entry vanish whenever it    *)
(* likes; here it is a miss exactly when its time to live has passed, and  *)
(* how long a replaced version can still be served becomes a matter of the *)
(* TTL and of how long a reader takes from Store.Get to Cache.Put.         *)
(***************************************************************************)
EXTENDS Integers, Sequences

CONSTANTS
    Version, Branch, NoPrompt, Malformed, Unclassified, NoRequest, Worker, Node, NodeOf,
    CacheHost, Job, Fault, Initial, Loadable, MaxWrites, MaxCrashes,    \* see PromptServer
    TTL,        \* -cache-ttl, in ticks of the clock
    MaxDelay    \* bound on the ticks a reader takes from Store.Get to Cache.Put

VARIABLES
    commits, refs, rows, events, pc, req, asOf, tip, source, against, done, reply,
    emptied, owed, writes, crashes,     \* see PromptServer
    entry,      \* the cache entry: the row it was read from and the ticks it has left
    waited,     \* ticks since the Store.Get of each reader about to put
    since       \* ticks since each row was replaced, counted up to LongAgo

NoEntry == [row |-> 0, left |-> 0, delay |-> 0]

(* cacheEntry, and how long its reader took to put it, for a property.  A  *)
(* Redis key that is set without an expiry (go-redis: a TTL of 0) is never *)
(* removed; the in-process cache is not created for such a TTL.            *)
NeverLooksAtExpiry(e) == e.row # 0      \* mutation: Get does not look at the expiry
OnlyAfterExpiry(e) == e.row # 0 /\ e.left = 0      \* mutation: the comparison the wrong way round
Live(e) == e.left > 0 \/ (e.row # 0 /\ TTL = 0)

(* What Cache.Get would find.  *)
Cached == IF Live(entry) THEN entry.row ELSE 0

S == INSTANCE PromptServerProperties WITH cached <- Cached

storeVars == <<commits, refs, rows>>
localVars == <<pc, req, asOf, tip, source, against, done, reply>>
boundVars == <<writes, crashes>>
serverVars == <<storeVars, events, localVars, emptied, owed, boundVars>>
timeVars == <<entry, waited, since>>
vars == <<serverVars, timeVars>>

ASSUME TimedAssumption ==
    /\ S!ServerAssumption
    /\ TTL \in Nat /\ MaxDelay \in Nat
    /\ CacheHost # "redis" => TTL > 0

LongAgo == TTL + MaxDelay + 1

-----------------------------------------------------------------------------

Init ==
    /\ entry = NoEntry
    /\ S!Init
    /\ waited = [w \in Worker |-> 0]
    /\ since = [i \in 1 .. Len(rows) |-> 0]

RedisFails == CacheHost = "redis" /\ "redis" \in Fault

(* What a step other than the clock's means for the ages.  *)
Observe ==
    /\ waited' = [w \in Worker |-> IF pc'[w] = "fill" THEN waited[w] ELSE 0]
    /\ since' = [i \in 1 .. Len(rows') |-> IF i <= Len(since) THEN since[i] ELSE 0]

(* Cache.Put: the expiry counts from now, whatever the row's age.  *)
KeepExpiry(w) ==            \* mutation: a new entry inherits what the old one had left
    [row |-> asOf[w], left |-> IF entry.left > 0 THEN entry.left + 1 ELSE TTL, delay |-> waited[w]]
Fresh(w) == [row |-> asOf[w], left |-> TTL, delay |-> waited[w]]

Fill(w) ==
    /\ pc[w] = "fill"
    /\ entry' = Fresh(w) \/ (RedisFails /\ entry' = entry)
    /\ S!Answer(w, "OK")
    /\ UNCHANGED <<storeVars, emptied, owed, events, boundVars>>
    /\ Observe

(* Cache.Invalidate deletes the entry, expired or not.  *)
Clear(w) ==
    /\ entry' = NoEntry \/ (RedisFails /\ entry' = entry)
    /\ S!Clear(w)
    /\ Observe

(* The calls that leave the cache alone.  *)
Elsewhere(w) ==
    /\ pc[w] \notin {"fill", "clear"}
    /\ entry' = entry
    /\ S!Start(w) \/ S!Step(w)
    /\ Observe

Step(w) == Fill(w) \/ Clear(w) \/ (Elsewhere(w) /\ pc[w] # "idle")

RestoreRow == entry' = entry /\ S!RestoreRow /\ Observe

Crash(n) ==
    /\ entry' = IF CacheHost = n THEN NoEntry ELSE entry
    /\ S!Crash(n)
    /\ Observe

(* The clock: entries and readers grow older.  An entry that expires with  *)
(* this tick is a miss from now on.                                        *)
Older(n) == IF n < LongAgo THEN n + 1 ELSE n

Tick ==
    /\ \A w \in Worker : pc[w] = "fill" => waited[w] < MaxDelay
    /\ entry' = [entry EXCEPT !.left = IF @ > 0 THEN @ - 1 ELSE 0]
    /\ waited' = [w \in Worker |-> IF pc[w] = "fill" THEN waited[w] + 1 ELSE 0]
    /\ since' = [i \in 1 .. Len(rows) |-> IF i < Len(rows) THEN Older(since[i]) ELSE 0]
    /\ IF Cached # 0 /\ Cached' = 0 THEN emptied' = Len(rows) /\ owed' = {}
                                     ELSE UNCHANGED <<emptied, owed>>
    /\ UNCHANGED <<storeVars, events, localVars, boundVars>>

Next ==
    \/ \E w \in Worker : Fill(w) \/ Clear(w) \/ Elsewhere(w)
    \/ RestoreRow
    \/ \E n \in Node : Crash(n)
    \/ Tick

Spec == Init /\ [][Next]_vars

(* Time passes and started handlers run; see PromptServer for the rest.  *)
Fairness == WF_vars(Tick) /\ \A w \in Worker : WF_vars(Step(w))

FairSpec == Spec /\ Fairness

-----------------------------------------------------------------------------

(* cache.go 12-13, 46-52 and 56-60: with its clock the server is still the *)
(* server of PromptServer, whose entry may vanish at any time: an entry is *)
(* got as long as its reader's row may be, and never after its time.       *)
Untimed == S!Spec

(* cache.go 12-13, "TTL is the convergence mechanism": a reader is served  *)
(* a row that was replaced for no longer than the TTL and the time the     *)
(* reader who put it took to do so.                                        *)
StaleForAtMostTTL == TTL > 0 /\ S!Stale => since[Cached] < TTL + entry.delay

(* cache.go 12-13, pubsub.go 5: after the last write the cache ends up     *)
(* with the served version for good, however it got there.                 *)
CacheConverges == <>[]~S!Stale

(* main.go 123, "L2 server cache TTL; 0 disables": with a TTL of 0 every   *)
(* reader gets the served version, for want of a cache.                    *)
ZeroDisables == TTL = 0 => ~S!Stale
=============================================================================
