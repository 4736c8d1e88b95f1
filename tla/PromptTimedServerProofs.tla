----------------------- MODULE PromptTimedServerProofs -----------------------
(***************************************************************************)
(* Theorems about the server with its clock, for every TTL, any number of  *)
(* workers and nodes, any requests and any faults.                         *)
(***************************************************************************)
EXTENDS PromptTimedServer, TLAPS

(* What is proved of the server without the clock.  *)
P == INSTANCE PromptServerCacheProofs WITH cached <- Cached

LEMMA SameAssumption == P!ServerAssumption
  BY TimedAssumption
     DEF TimedAssumption, S!ServerAssumption, P!ServerAssumption, S!Request, P!Request,
         S!RPCs, P!RPCs

(* S and P are two instances of one specification: all that is used of it  *)
(* is expanded.                                                            *)
LEMMA SameServer == (S!Init => P!Init) /\ ([S!Next]_(S!vars) => [P!Next]_(P!vars))
  BY DEF S!H!Empty, P!H!Empty, S!H!Holding, P!H!Holding, S!H!PointTo, P!H!PointTo,
         S!H!PointAt, P!H!PointAt, S!H!Fork, P!H!Fork, S!H!LoadRow, P!H!LoadRow,
         S!storeVars, P!storeVars, S!localVars, P!localVars, S!cacheVars, P!cacheVars,
         S!boundVars, P!boundVars, S!vars, P!vars, S!RPCs, P!RPCs, S!Writers, P!Writers,
         S!Init, P!Init, S!Latest, P!Latest, S!Served, P!Served, S!Read, P!Read,
         S!Verdicts, P!Verdicts, S!StoreError, P!StoreError, S!Goto, P!Goto,
         S!StoreFailures, P!StoreFailures, S!Answer, P!Answer,
         S!AnswerFailure, P!AnswerFailure, S!WriteFails, P!WriteFails, S!FirstCall, P!FirstCall, S!Start, P!Start,
         S!HeadRead, P!HeadRead, S!SeesHead, P!SeesHead, S!Republish, P!Republish,
         S!PublishReadsHead, P!PublishReadsHead, S!MergeReadsHead, P!MergeReadsHead,
         S!RollbackReadsHead, P!RollbackReadsHead, S!PutReadsHead, P!PutReadsHead,
         S!SeedReadsHead, P!SeedReadsHead, S!Compare, P!Compare, S!ReadTip, P!ReadTip,
         S!Landed, P!Landed, S!NotWritten, P!NotWritten, S!Unmoved, P!Unmoved,
         S!Swap, P!Swap, S!Move, P!Move, S!CreateBranch, P!CreateBranch,
         S!EmptyCache, P!EmptyCache, S!ClearFails, P!ClearFails,
         S!FailsAtOnce, P!FailsAtOnce, S!Clear, P!Clear, S!Publish, P!Publish,
         S!Notify, P!Notify, S!Servable, P!Servable, S!Lookup, P!Lookup, S!Load, P!Load,
         S!Fill, P!Fill, S!Expire, P!Expire, S!RestoreRow, P!RestoreRow, S!Crash, P!Crash,
         S!Step, P!Step, S!Next, P!Next

-----------------------------------------------------------------------------

LEMMA Ticks == Tick => S!Expire \/ UNCHANGED S!vars
  <1> SUFFICES ASSUME Tick PROVE S!Expire \/ UNCHANGED S!vars
    OBVIOUS
  <1>1. /\ UNCHANGED <<storeVars, events, localVars, boundVars>>
        /\ IF Cached # 0 /\ Cached' = 0 THEN emptied' = Len(rows) /\ owed' = {}
                                        ELSE UNCHANGED <<emptied, owed>>
    BY DEF Tick
  <1>2. CASE Cached # 0 /\ Cached' = 0
    BY <1>1, <1>2 DEF S!Expire, S!EmptyCache, S!Latest, S!storeVars, S!localVars, S!boundVars,
                      storeVars, localVars, boundVars
  <1>3. CASE Cached' = Cached
    BY <1>1, <1>3 DEF S!vars, S!storeVars, S!cacheVars, S!localVars, S!boundVars,
                      storeVars, localVars, boundVars
  <1>4. entry'.row = entry.row
    BY DEF Tick
  <1> QED
    BY <1>2, <1>3, <1>4 DEF Tick, Cached, Live

(* A put is a fill of the untimed server: the entry it leaves is found     *)
(* until its time has passed.                                              *)
LEMMA Fills ==
    ASSUME NEW w \in Worker, Fill(w)
    PROVE  S!Fill(w)
  <1>1. /\ pc[w] = "fill" /\ S!Answer(w, "OK")
        /\ UNCHANGED <<storeVars, emptied, owed, events, boundVars>>
        /\ entry' = Fresh(w) \/ (RedisFails /\ entry' = entry)
    BY DEF Fill
  <1>2. entry' = Fresh(w) => Cached' = asOf[w]
    BY TimedAssumption DEF TimedAssumption, Fresh, Cached, Live
  <1>3. entry' = entry => Cached' = Cached
    BY DEF Cached, Live
  <1> QED
    BY <1>1, <1>2, <1>3 DEF S!Fill, RedisFails, S!storeVars, S!boundVars, storeVars, boundVars

LEMMA Simulates == Next => S!Next \/ UNCHANGED S!vars
  <1> SUFFICES ASSUME Next PROVE S!Next \/ UNCHANGED S!vars
    OBVIOUS
  <1>1. ASSUME NEW w \in Worker, Fill(w) \/ Clear(w) \/ Elsewhere(w)
        PROVE  S!Start(w) \/ S!Step(w)
    BY <1>1, Fills DEF Clear, Elsewhere, S!Step
  <1> QED
    BY <1>1, Ticks DEF Next, RestoreRow, Crash, S!Next

LEMMA SimulatesAlways == [Next]_vars => [S!Next]_(S!vars)
  <1>1. UNCHANGED vars => UNCHANGED S!vars
    BY DEF vars, timeVars, serverVars, storeVars, localVars, boundVars, Cached, Live,
           S!vars, S!storeVars, S!cacheVars, S!localVars, S!boundVars
  <1> QED
    BY <1>1, Simulates

(* cache.go 46-68 and redis_cache.go 50-74: whatever the TTL, and however  *)
(* time passes, the server with expiring entries is the server whose entry *)
(* may vanish at any time.                                                 *)
THEOREM ImplementsUntimed == Spec => Untimed
  <1>1. Init => S!Init
    BY DEF Init
  <1> QED
    BY <1>1, SimulatesAlways, PTL DEF Spec, Untimed, S!Spec

-----------------------------------------------------------------------------

(* The untimed server's invariants, of this one's.  *)
ServerInv == P!Inv /\ P!CacheInv

LEMMA InitServerInv == Init => ServerInv
  BY SameAssumption, SameServer, P!InitInv, P!InitCacheInv DEF Init, ServerInv

LEMMA NextServerInv ==
    ServerInv /\ [Next]_vars => ServerInv' /\ P!Grows /\ [P!Next]_(P!vars)
  <1>1. [Next]_vars => [P!Next]_(P!vars)
    BY SimulatesAlways, SameServer
  <1> QED
    BY <1>1, SameAssumption, P!NextInv, P!NextCacheInv DEF ServerInv

(* How old a reader's row, and the entry it puts, may be: no row in the    *)
(* cache was replaced longer ago than its reader took and it has been      *)
(* there, and the TTL is what it has been there for and has left.          *)
AgeInv ==
    /\ since \in [1 .. Len(rows) -> Nat]
    /\ since[Len(rows)] = 0
    /\ waited \in [Worker -> 0 .. MaxDelay]
    /\ entry \in [row : Nat, left : 0 .. TTL, delay : Nat]
    /\ \A w \in Worker : pc[w] = "fill" => since[asOf[w]] <= waited[w]
    /\ entry.left > 0 => /\ entry.row \in 1 .. Len(rows)
                         /\ since[entry.row] + entry.left <= entry.delay + TTL

LEMMA InitAgeInv == Init => AgeInv
  <1> SUFFICES ASSUME Init PROVE AgeInv
    OBVIOUS
  <1>1. P!Inv /\ Len(rows) = 1
    <2>1. P!Init
      BY SameServer DEF Init
    <2> QED
      BY <2>1, SameAssumption, P!InitInv, P!InitStore
  <1>2. \A w \in Worker : pc[w] = "idle"
    BY DEF Init, S!Init
  <1> QED
    BY <1>1, <1>2, TimedAssumption DEF Init, NoEntry, TimedAssumption, AgeInv

(* What the steps that take no time do to the ages: nothing.  *)
LEMMA ObserveKeeps ==
    ASSUME ServerInv, AgeInv, [Next]_vars, Observe
    PROVE  /\ since' \in [1 .. Len(rows') -> Nat] /\ since'[Len(rows')] = 0
           /\ \A i \in 1 .. Len(rows) : i \in 1 .. Len(rows') /\ since'[i] = since[i]
           /\ waited' \in [Worker -> 0 .. MaxDelay]
           /\ \A w \in Worker : pc'[w] = "fill" => since'[asOf'[w]] <= waited'[w]
  <1>1. ServerInv' /\ P!Grows /\ [P!Next]_(P!vars)
    BY NextServerInv
  <1>2. Len(rows) \in Nat \ {0} /\ Len(rows') \in Nat \ {0} /\ Len(rows) <= Len(rows')
    BY <1>1, P!RowType DEF ServerInv, P!Grows, P!Latest, P!Inv, P!TypeOK, P!H!HistoryTypeOK
  <1>3. Len(since) = Len(rows)
    BY <1>2 DEF AgeInv
  <1>4. /\ since' = [i \in 1 .. Len(rows') |-> IF i <= Len(rows) THEN since[i] ELSE 0]
        /\ waited' = [w \in Worker |-> IF pc'[w] = "fill" THEN waited[w] ELSE 0]
    BY <1>3 DEF Observe
  <1>5. \A i \in 1 .. Len(rows) : i \in 1 .. Len(rows') /\ since'[i] = since[i]
    BY <1>2, <1>4
  <1>6. since' \in [1 .. Len(rows') -> Nat] /\ since'[Len(rows')] = 0
    BY <1>2, <1>4 DEF AgeInv
  <1>7. waited' \in [Worker -> 0 .. MaxDelay]
    BY <1>4, TimedAssumption DEF AgeInv, TimedAssumption
  <1>8. ASSUME NEW w \in Worker, pc'[w] = "fill"
        PROVE  since'[asOf'[w]] <= waited'[w]
    <2>1. waited'[w] = waited[w] /\ waited[w] \in Nat
      BY <1>4, <1>8 DEF AgeInv
    <2>2. CASE pc[w] = "fill" /\ asOf'[w] = asOf[w]
      <3>1. asOf[w] \in 1 .. Len(rows) /\ since[asOf[w]] <= waited[w]
        BY <2>2 DEF ServerInv, P!CacheInv, P!Cacheable, P!Latest, AgeInv
      <3> QED
        BY <1>5, <2>1, <2>2, <3>1
    <2>3. CASE asOf'[w] = P!Latest /\ P!Latest' = P!Latest
      BY <1>6, <2>1, <2>3 DEF P!Latest
    <2> QED
      BY <1>1, <1>8, <2>2, <2>3, SameAssumption, P!FillsWhatItRead DEF ServerInv
  <1> QED
    BY <1>5, <1>6, <1>7, <1>8

(* The entry after a step that takes no time: the one there was, none, or  *)
(* that of a reader.                                                       *)
LEMMA EntryKeeps ==
    ASSUME ServerInv, AgeInv, [Next]_vars, Observe,
           \/ entry' \in {entry, NoEntry}
           \/ \E w \in Worker : pc[w] = "fill" /\ entry' = Fresh(w)
    PROVE  AgeInv'
  <1>1. /\ since' \in [1 .. Len(rows') -> Nat] /\ since'[Len(rows')] = 0
        /\ \A i \in 1 .. Len(rows) : i \in 1 .. Len(rows') /\ since'[i] = since[i]
        /\ waited' \in [Worker -> 0 .. MaxDelay]
        /\ \A w \in Worker : pc'[w] = "fill" => since'[asOf'[w]] <= waited'[w]
    BY ObserveKeeps
  <1>2. TTL \in Nat /\ MaxDelay \in Nat
    BY TimedAssumption DEF TimedAssumption
  <1>3. CASE entry' = NoEntry
    BY <1>1, <1>2, <1>3 DEF AgeInv, NoEntry
  <1>4. CASE entry' = entry
    BY <1>1, <1>4 DEF AgeInv
  <1>5. ASSUME NEW w \in Worker, pc[w] = "fill", entry' = Fresh(w) PROVE AgeInv'
    <2>1. asOf[w] \in 1 .. Len(rows) /\ since[asOf[w]] <= waited[w] /\ waited[w] \in Nat
      BY <1>5 DEF ServerInv, P!CacheInv, P!Cacheable, P!Latest, AgeInv
    <2>2. entry' = [row |-> asOf[w], left |-> TTL, delay |-> waited[w]]
      BY <1>5 DEF Fresh
    <2>3. P!Latest \in Nat
      BY SameAssumption, P!RowType DEF ServerInv, P!Inv, P!TypeOK
    <2>4. entry' \in [row : Nat, left : 0 .. TTL, delay : Nat]
      BY <1>2, <2>1, <2>2, <2>3 DEF P!Latest
    <2>5. asOf[w] \in 1 .. Len(rows') /\ since'[asOf[w]] + TTL <= waited[w] + TTL
      BY <1>1, <1>2, <2>1
    <2> QED
      BY <1>1, <2>2, <2>4, <2>5 DEF AgeInv
  <1> QED
    BY <1>3, <1>4, <1>5

LEMMA TickAges ==
    ASSUME ServerInv, AgeInv, Tick
    PROVE  AgeInv'
  <1>1. TTL \in Nat /\ MaxDelay \in Nat /\ LongAgo \in Nat
    BY TimedAssumption DEF TimedAssumption, LongAgo
  <1>2. P!Latest \in Nat \ {0}
    BY SameAssumption, P!RowType DEF ServerInv, P!Inv, P!TypeOK
  <1>3. Len(rows) \in Nat \ {0}
    BY <1>2 DEF P!Latest
  <1>4. /\ \A w \in Worker : pc[w] = "fill" => waited[w] < MaxDelay
        /\ entry' = [entry EXCEPT !.left = IF @ > 0 THEN @ - 1 ELSE 0]
        /\ waited' = [w \in Worker |-> IF pc[w] = "fill" THEN waited[w] + 1 ELSE 0]
        /\ since' = [i \in 1 .. Len(rows) |-> IF i < Len(rows) THEN Older(since[i]) ELSE 0]
        /\ rows' = rows /\ pc' = pc /\ asOf' = asOf
    BY DEF Tick, storeVars, localVars
  <1>5. \A n \in Nat : Older(n) \in Nat /\ Older(n) <= n + 1
    BY <1>1 DEF Older
  <1>6. \A i \in 1 .. Len(rows) : since[i] \in Nat /\ since'[i] \in Nat /\ since'[i] <= since[i] + 1
    BY <1>3, <1>4, <1>5 DEF AgeInv
  <1>7. since' \in [1 .. Len(rows') -> Nat] /\ since'[Len(rows')] = 0
    BY <1>3, <1>4, <1>5 DEF AgeInv
  <1>8. waited' \in [Worker -> 0 .. MaxDelay]
    BY <1>1, <1>4 DEF AgeInv
  <1>9. ASSUME NEW w \in Worker, pc'[w] = "fill" PROVE since'[asOf'[w]] <= waited'[w]
    <2>1. asOf[w] \in 1 .. Len(rows)
      BY <1>4, <1>9 DEF ServerInv, P!CacheInv, P!Cacheable, P!Latest
    <2>2. since[asOf[w]] <= waited[w] /\ waited[w] \in Nat
      BY <1>4, <1>9 DEF AgeInv
    <2> QED
      BY <1>4, <1>6, <1>9, <2>1, <2>2
  <1>10. /\ entry' \in [row : Nat, left : 0 .. TTL, delay : Nat]
         /\ entry'.row = entry.row /\ entry'.delay = entry.delay
         /\ entry'.left > 0 => entry.left > 0 /\ entry'.left = entry.left - 1
    <2>1. entry \in [row : Nat, left : 0 .. TTL, delay : Nat]
      BY DEF AgeInv
    <2>2. entry' = [row |-> entry.row, left |-> IF entry.left > 0 THEN entry.left - 1 ELSE 0,
                    delay |-> entry.delay]
      BY <1>4, <2>1
    <2>3. (IF entry.left > 0 THEN entry.left - 1 ELSE 0) \in 0 .. TTL
      BY <1>1, <2>1
    <2> QED
      BY <2>1, <2>2, <2>3
  <1>11. ASSUME entry'.left > 0
         PROVE  /\ entry'.row \in 1 .. Len(rows')
                /\ since'[entry'.row] + entry'.left <= entry'.delay + TTL
    <2>1. /\ entry.row \in 1 .. Len(rows)
          /\ since[entry.row] + entry.left <= entry.delay + TTL
          /\ entry.delay \in Nat /\ entry.left \in Nat
      BY <1>10, <1>11 DEF AgeInv
    <2>2. /\ since[entry.row] \in Nat /\ since'[entry.row] \in Nat
          /\ since'[entry.row] <= since[entry.row] + 1
      BY <1>6, <2>1
    <2>3. since'[entry.row] + (entry.left - 1) <= entry.delay + TTL
      BY <1>1, <2>1, <2>2
    <2> QED
      BY <1>4, <1>10, <1>11, <2>1, <2>3
  <1> QED
    BY <1>7, <1>8, <1>9, <1>10, <1>11 DEF AgeInv

LEMMA NextAgeInv == ServerInv /\ AgeInv /\ [Next]_vars => AgeInv'
  <1> SUFFICES ASSUME ServerInv, AgeInv, [Next]_vars PROVE AgeInv'
    OBVIOUS
  <1>1. ASSUME NEW w \in Worker, Fill(w) PROVE AgeInv'
    BY <1>1, EntryKeeps DEF Fill
  <1>2. ASSUME NEW w \in Worker, Clear(w) \/ Elsewhere(w) PROVE AgeInv'
    BY <1>2, EntryKeeps DEF Clear, Elsewhere
  <1>3. CASE RestoreRow \/ \E n \in Node : Crash(n)
    BY <1>3, EntryKeeps DEF RestoreRow, Crash
  <1>4. CASE UNCHANGED vars
    BY <1>4 DEF vars, serverVars, timeVars, storeVars, localVars, AgeInv
  <1> QED
    BY <1>1, <1>2, <1>3, <1>4, TickAges DEF Next

(* cache.go 12-13, "a republish is reflected within ttl": for every TTL    *)
(* above 0, no reader is served a row that was replaced longer ago than    *)
(* the TTL and the time its reader took to put it.                         *)
THEOREM StaleWithinTTL == Spec => []StaleForAtMostTTL
  <1>1. ServerInv /\ AgeInv => StaleForAtMostTTL
    <2> SUFFICES ASSUME AgeInv, TTL > 0, Cached # 0 PROVE since[Cached] < TTL + entry.delay
      BY DEF StaleForAtMostTTL, S!Stale
    <2>1. entry.left > 0 /\ Cached = entry.row /\ TTL \in Nat
      BY TimedAssumption DEF TimedAssumption, Cached, Live
    <2>2. /\ since[entry.row] + entry.left <= entry.delay + TTL /\ since[entry.row] \in Nat
          /\ entry.left \in Nat /\ entry.delay \in Nat
      BY <2>1 DEF AgeInv
    <2> QED
      BY <2>1, <2>2
  <1> QED
    BY <1>1, InitServerInv, InitAgeInv, NextServerInv, NextAgeInv, PTL DEF Spec
=============================================================================
