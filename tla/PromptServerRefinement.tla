----------------------- MODULE PromptServerRefinement -----------------------
(***************************************************************************)
(* Theorems about what callers and subscribers of PromptServer can rely    *)
(* on: the store's history is the atomic one of PromptHistory, a confirmed *)
(* publish took effect, a change is announced, what events say is so, and  *)
(* so is what the publish command says of them.                            *)
(***************************************************************************)
EXTENDS PromptServerProofs, PromptPublishCommand

(* The store is empty, or holds a version that may be there.  *)
LEMMA InitHistory == Init => H!Init
  BY ServerAssumption DEF Init, H!Init

(* A compare-and-swap that succeeds is a whole commit, or a whole merge.   *)
LEMMA SwapHistory ==
    ASSUME Inv, NEW w \in Worker, Swap(w)
    PROVE  H!Next \/ UNCHANGED storeVars
  <1> DEFINE b == req[w].branch
             v == IF source[w] # 0 THEN commits[source[w]].version ELSE req[w].version
  <1>1. /\ pc[w] = "swap" /\ b \in Branch /\ req[w].version \in Version
        /\ source[w] \in 0 .. Len(commits)
        /\ source[w] # 0 => tip[w] # 0
    BY HandlerFacts DEF Swap, HandlerOK
  <1>2. CASE UNCHANGED storeVars
    BY <1>2
  <1>3. CASE /\ Unmoved(w)
             /\ commits' = Append(commits, [version |-> v, parent |-> tip[w],
                                            parent2 |-> source[w]])
             /\ H!PointTo(b, Len(commits) + 1)
    <2>1. refs[b] = tip[w]
      BY <1>3 DEF Unmoved
    <2>2. CASE source[w] = 0
      <3>1. H!Record(b, req[w].version)
        BY <1>3, <2>1, <2>2 DEF H!Record
      <3> QED
        BY <1>1, <3>1 DEF H!Next
    <2>3. CASE source[w] # 0
      <3>1. H!MergeIn(b, source[w]) /\ source[w] \in 1 .. Len(commits)
        BY <1>1, <1>3, <2>1, <2>3 DEF H!MergeIn
      <3> QED
        BY <1>1, <3>1 DEF H!Next
    <2> QED
      BY <2>2, <2>3
  <1> QED
    BY <1>2, <1>3 DEF Swap, NotWritten, WriteFails

LEMMA MoveHistory ==
    ASSUME Inv, NEW w \in Worker, Move(w)
    PROVE  H!Next \/ UNCHANGED storeVars
  <1>1. req[w].branch \in Branch
    BY HandlerFacts DEF Move
  <1>2. CASE H!PointAt(req[w].branch, req[w].commit)
    <2>1. req[w].commit \in 1 .. Len(commits)
      BY <1>2 DEF H!PointAt
    <2> QED
      BY <1>1, <1>2, <2>1 DEF H!Next
  <1>3. CASE UNCHANGED storeVars
    BY <1>3
  <1> QED
    BY <1>2, <1>3 DEF Move, NotWritten, WriteFails

LEMMA CreateBranchHistory ==
    ASSUME Inv, NEW w \in Worker, CreateBranch(w)
    PROVE  H!Next \/ UNCHANGED storeVars
  <1>1. req[w].branch \in Branch /\ req[w].from \in Branch
    BY HandlerFacts DEF CreateBranch
  <1> QED
    BY <1>1 DEF CreateBranch, NotWritten, WriteFails, H!Next

(* Every other call leaves the store alone.  *)
LEMMA OtherHistory ==
    ASSUME NEW w \in Worker,
           \/ Start(w) \/ PublishReadsHead(w) \/ MergeReadsHead(w) \/ RollbackReadsHead(w)
           \/ PutReadsHead(w) \/ SeedReadsHead(w) \/ Compare(w) \/ ReadTip(w)
           \/ Clear(w) \/ Notify(w) \/ Lookup(w) \/ Load(w) \/ Fill(w)
    PROVE  UNCHANGED storeVars
  BY DEF Start, PublishReadsHead, MergeReadsHead, RollbackReadsHead, PutReadsHead, SeedReadsHead,
         Compare, ReadTip, Clear, Notify, Lookup, Load, Fill

LEMMA NextHistory ==
    ASSUME Inv, [Next]_vars
    PROVE  H!Next \/ UNCHANGED storeVars
  <1>1. ASSUME NEW w \in Worker, Start(w) \/ Step(w) PROVE H!Next \/ UNCHANGED storeVars
    BY <1>1, SwapHistory, MoveHistory, CreateBranchHistory, OtherHistory DEF Step
  <1>2. CASE RestoreRow
    BY <1>2, ServerAssumption DEF RestoreRow, H!Next
  <1>3. CASE Expire \/ (\E n \in Node : Crash(n)) \/ UNCHANGED vars
    BY <1>3 DEF Expire, Crash, vars
  <1> QED
    BY <1>1, <1>2, <1>3 DEF Next

(* README.md 264-269, server.go 88-94: every step is one atomic operation  *)
(* of the store's history or leaves it alone, so concurrent writers lose   *)
(* nothing: a commit's parent is the tip it replaced.                      *)
THEOREM ImplementsHistory == Spec => History
  <1>1. Inv /\ [Next]_vars => [H!Next]_(H!historyVars)
    <2>1. UNCHANGED storeVars => UNCHANGED H!historyVars
      BY DEF storeVars, H!historyVars
    <2> QED
      BY <2>1, NextHistory
  <1> QED
    BY <1>1, InitHistory, Invariance, PTL DEF Spec, History, H!Spec

-----------------------------------------------------------------------------
(* What a caller that is answered can rely on.                             *)

(* A status is given by a call of the handler itself: not by a crash, and  *)
(* not by a step of anybody else.                                          *)
LEMMA AnswersBySteps ==
    ASSUME Inv, [Next]_vars, NEW w \in Worker, Answers(w)
    PROVE  Step(w)
  <1>1. pc[w] # "idle" /\ pc'[w] = "idle" /\ reply'[w] # "none"
    BY DEF Answers
  <1>2. ASSUME NEW u \in Worker, Start(u) \/ Step(u) PROVE Step(w)
    <2>1. OthersStay(u)
      BY <1>2, StartInv, StepInv
    <2>2. u = w
      BY <1>1, <2>1 DEF OthersStay, Stays
    <2> QED
      BY <1>1, <1>2, <2>2 DEF Start
  <1>3. ~(Expire \/ RestoreRow \/ UNCHANGED vars)
    BY <1>1 DEF Expire, RestoreRow, vars
  <1>4. ASSUME NEW n \in Node PROVE ~Crash(n)
    BY <1>1 DEF Crash
  <1> QED
    BY <1>2, <1>3, <1>4 DEF Next

(* The calls a publish to main, or a rollback past its write, can answer   *)
(* from.                                                                   *)
LEMMA Reply ==
    ASSUME Inv, NEW w \in Worker, NEW s \in Status, Answer(w, s)
    PROVE  pc'[w] = "idle" /\ reply'[w] = s
  BY HandlerFacts, AnswerType

LEMMA ConfirmingStep ==
    ASSUME Inv, NEW w \in Worker, Step(w), Confirms(w),
           req[w].op = "publish", req[w].branch = "main"
    PROVE  \/ Clear(w) /\ EmptyCache /\ done[w] = 0
           \/ Notify(w) /\ reply[w] = "OK"
  <1>1. pc'[w] = "idle" /\ reply'[w] = "OK" /\ pc[w] # "idle" /\ req[w].op = "publish"
    BY DEF Confirms, Answers
  <1>2. /\ pc[w] # "compare" /\ pc[w] \notin {"lookup", "load", "fill", "move"}
        /\ HandlerOK(w) /\ reply[w] \in Status /\ pc[w] \in Call
    BY <1>1, HandlerFacts DEF HandlerOK
  <1>3. ~PublishReadsHead(w)
    <2>1. PublishReadsHead(w) => Goto(w, "clear") \/ Goto(w, "tip")
      BY DEF PublishReadsHead, Republish
    <2>2. Goto(w, "clear") \/ Goto(w, "tip") => pc'[w] # "idle"
      BY HandlerFacts, GotoType DEF Call
    <2> QED
      BY <1>1, <2>1, <2>2
  <1>4. ~MergeReadsHead(w) /\ ~RollbackReadsHead(w) /\ ~PutReadsHead(w) /\ ~SeedReadsHead(w)
    BY <1>1 DEF MergeReadsHead, RollbackReadsHead, PutReadsHead, SeedReadsHead, HeadRead
  <1>5. ~Compare(w) /\ ~Lookup(w) /\ ~Load(w) /\ ~Fill(w) /\ ~Move(w)
    BY <1>2 DEF Compare, Lookup, Load, Fill, Move
  <1>6. ~ReadTip(w)
    <2>1. ReadTip(w) => Goto(w, "swap") \/ \E s \in Refusal : Answer(w, s)
      BY Refusals DEF ReadTip
    <2>2. Goto(w, "swap") => pc'[w] # "idle"
      BY HandlerFacts, GotoType DEF Call
    <2>3. \A s \in Refusal : Answer(w, s) => reply'[w] # "OK"
      BY Reply DEF Refusal
    <2> QED
      BY <1>1, <2>1, <2>2, <2>3
  <1>7. ~Swap(w)
    <2>1. Swap(w) => Landed(w) \/ \E s \in Refusal : Answer(w, s)
      BY Refusals DEF Swap, NotWritten
    <2>2. Landed(w) => Goto(w, "clear") \/ \E s \in Refusal : Answer(w, s)
      BY <1>1, Refusals DEF Landed, RPCs
    <2>3. Goto(w, "clear") => pc'[w] # "idle"
      BY HandlerFacts, GotoType DEF Call
    <2>4. \A s \in Refusal : Answer(w, s) => reply'[w] # "OK"
      BY Reply DEF Refusal
    <2> QED
      BY <1>1, <2>1, <2>2, <2>3, <2>4
  <1>8. ~CreateBranch(w)
    BY <1>2 DEF CreateBranch, HandlerOK
  <1>9. CASE Clear(w)
    <2>1. Goto(w, "notify") => pc'[w] # "idle"
      BY HandlerFacts, GotoType DEF Call
    <2>2. Answer(w, "Unavailable") => reply'[w] # "OK"
      BY Reply DEF Status
    <2> QED
      BY <1>1, <1>9, <2>1, <2>2 DEF Clear
  <1>10. CASE Notify(w)
    <2>1. Answer(w, reply[w])
      BY <1>10 DEF Notify
    <2> QED
      BY <1>1, <1>2, <1>10, <2>1, Reply
  <1> QED
    BY <1>3, <1>4, <1>5, <1>6, <1>7, <1>8, <1>9, <1>10 DEF Step

(* server.go 72-77 and 98-100: a publish to main is only confirmed once    *)
(* its content has been served and the cache emptied since.                *)
THEOREM PublishesAreConfirmed == Spec => ConfirmedPublishTookEffect
  <1> DEFINE TookEffect ==
        \A w \in Worker :
          Confirms(w) /\ req[w].op = "publish" /\ req[w].branch = "main" =>
              LET i == IF done[w] # 0 THEN done[w] ELSE asOf[w]
              IN  i # 0 /\ rows[i].version = req[w].version /\ i <= emptied'
  <1>1. Inv /\ [Next]_vars => TookEffect
    <2> SUFFICES ASSUME Inv, [Next]_vars, NEW w \in Worker, Confirms(w),
                        req[w].op = "publish", req[w].branch = "main"
                 PROVE  LET i == IF done[w] # 0 THEN done[w] ELSE asOf[w]
                        IN  i # 0 /\ rows[i].version = req[w].version /\ i <= emptied'
      OBVIOUS
    <2>1. Step(w)
      BY AnswersBySteps DEF Confirms
    <2>2. CASE Clear(w) /\ EmptyCache /\ done[w] = 0
      BY <2>2, HandlerFacts DEF Clear, EmptyCache, HandlerOK
    <2>3. CASE Notify(w) /\ reply[w] = "OK"
      BY <2>3, HandlerFacts DEF Notify, HandlerOK, cacheVars
    <2> QED
      BY <2>1, <2>2, <2>3, ConfirmingStep
  <1>2. Inv /\ [Next]_vars => [TookEffect]_vars
    BY <1>1
  <1> QED
    BY <1>2, Invariance, PTL DEF Spec, ConfirmedPublishTookEffect

LEMMA Published ==
    ASSUME Inv, NEW w \in Worker, NEW v, NEW old, Publish(v, old, w)
    PROVE  \E i \in 1 .. Len(events') : events'[i].change = done[w]
  <1>1. events \in Seq(Event) /\ events' = Append(events, [version |-> v, against |-> old,
                                                           change |-> done[w]])
    BY DEF Publish, Inv, TypeOK
  <1>2. Len(events') = Len(events) + 1 /\ Len(events) \in Nat
    BY <1>1
  <1>3. events'[Len(events) + 1].change = done[w]
    BY <1>1
  <1> QED
    BY <1>2, <1>3

(* A handler that has written and answers has had its event sent.  *)
LEMMA AnswersAfterItsEvent ==
    ASSUME Inv, [Next]_vars, NEW w \in Worker, done[w] # 0, Answers(w),
           \/ req[w].op = "publish"
           \/ req[w].op = "rollback" /\ reply'[w] = "OK"
    PROVE  \E i \in 1 .. Len(events') : events'[i].change = done[w]
  <1>1. Step(w) /\ pc[w] \in {"clear", "notify"} /\ pc'[w] = "idle"
    BY AnswersBySteps, HandlerFacts DEF Answers
  <1>2. Clear(w) \/ Notify(w)
    BY <1>1 DEF Step, PublishReadsHead, MergeReadsHead, RollbackReadsHead, PutReadsHead,
       SeedReadsHead, HeadRead, Compare, ReadTip, Swap, Move, CreateBranch, Lookup, Load, Fill
  <1>3. ~Clear(w)
    <2>1. Clear(w) => Goto(w, "notify")
                      \/ (req[w].op = "rollback" /\ Answer(w, "Unavailable"))
      BY DEF Clear, FailsAtOnce
    <2>2. Goto(w, "notify") => pc'[w] # "idle"
      BY HandlerFacts, GotoType DEF Call
    <2>3. Answer(w, "Unavailable") => reply'[w] = "Unavailable"
      BY Reply DEF Status
    <2> QED
      BY <1>1, <2>1, <2>2, <2>3
  <1> QED
    BY <1>2, <1>3, Published DEF Notify

(* server.go 103-108 and 379-381: a publish whose write is known to have   *)
(* landed answers nothing before its event is out, nor does a rollback     *)
(* answer OK.                                                              *)
THEOREM ChangesAnnounced == Spec => ChangesAreAnnounced
  <1> DEFINE Announced ==
        \A w \in Worker :
          /\ done[w] # 0
          /\ \/ req[w].op = "publish" /\ Answers(w)
             \/ req[w].op = "rollback" /\ Confirms(w)
          => \E i \in 1 .. Len(events') : events'[i].change = done[w]
  <1>1. Inv /\ [Next]_vars => Announced
    BY AnswersAfterItsEvent DEF Confirms
  <1>2. Inv /\ [Next]_vars => [Announced]_vars
    BY <1>1
  <1> QED
    BY <1>2, Invariance, PTL DEF Spec, ChangesAreAnnounced

-----------------------------------------------------------------------------
(* What subscribers are told.  *)

(* A verdict a handler already has compares with the row it read, and that *)
(* row is older than its own.                                              *)
VerdictOK(w) ==
    /\ against[w] # Unclassified =>
          /\ pc[w] \in {"tip", "swap", "clear", "notify"}
          /\ asOf[w] # 0 /\ rows[asOf[w]].version = against[w]
    /\ done[w] # 0 => asOf[w] < done[w] /\ done[w] >= 2

(* No event tells of row d.  *)
Untold(d) == \A i \in 1 .. Len(events) : events[i].change # d

(* An event is sent once because a row has one writer, and none before its *)
(* writer told of it.                                                      *)
EventInv ==
    /\ \A w \in Worker : VerdictOK(w) /\ (done[w] # 0 => Untold(done[w]))
    /\ \A u, w \in Worker : done[w] # 0 /\ done[u] = done[w] => u = w
    /\ EventsAreOfTheHistory

LEMMA EventRange ==
    ASSUME Inv, EventInv
    PROVE  /\ events \in Seq(Event) /\ Len(events) \in Nat /\ Latest \in Nat \ {0}
           /\ \A i \in 1 .. Len(events) :
                 events[i].change \in 1 .. Latest /\ events[i].change # 0
  BY RowType DEF Inv, TypeOK, EventInv, EventsAreOfTheHistory

(* Rows that are added make no event wrong.  *)
LEMMA EventsStay ==
    ASSUME Inv, EventInv, Grows, events' = events
    PROVE  EventsAreOfTheHistory'
  <1>1. Latest \in Nat /\ Latest' \in Nat /\ Latest <= Latest'
    BY EventRange DEF Grows
  <1>2. ASSUME NEW i \in 1 .. Len(events)
        PROVE  LET e == events[i]
               IN  /\ e.change \in 2 .. Latest'
                   /\ e.version = rows'[e.change].version
                   /\ \/ e.against = Unclassified
                      \/ \E k \in 1 .. e.change - 1 : rows'[k].version = e.against
    <2> DEFINE e == events[i]
    <2>1. /\ e.change \in 2 .. Latest /\ e.version = rows[e.change].version
          /\ \/ e.against = Unclassified
             \/ \E k \in 1 .. e.change - 1 : rows[k].version = e.against
      BY DEF EventInv, EventsAreOfTheHistory
    <2> HIDE DEF e
    <2>2. \A k \in 1 .. e.change : rows'[k] = rows[k]
      BY <1>1, <2>1 DEF Grows
    <2>3. e.change \in 2 .. Latest' /\ e.version = rows'[e.change].version
      BY <1>1, <2>1, <2>2
    <2>4. e.against = Unclassified \/ \E k \in 1 .. e.change - 1 : rows'[k].version = e.against
      BY <1>1, <2>1, <2>2
    <2> QED
      BY <2>3, <2>4 DEF e
  <1> QED
    BY <1>2 DEF EventInv, EventsAreOfTheHistory

LEMMA VerdictStays ==
    ASSUME Inv, EventInv, Grows, NEW u \in Worker, Stays(u)
    PROVE  VerdictOK(u)'
  <1>1. VerdictOK(u) /\ asOf[u] \in Nat /\ asOf[u] <= Latest /\ Latest \in Nat
    BY HandlerFacts DEF EventInv, HandlerOK
  <1>2. asOf[u] # 0 => rows'[asOf[u]] = rows[asOf[u]]
    BY <1>1 DEF Grows
  <1> QED
    BY <1>1, <1>2 DEF VerdictOK, Stays

(* A step that tells nobody: its handler keeps its row, forgets it, or has *)
(* just written a new one.                                                 *)
LEMMA SilentStep ==
    ASSUME Inv, EventInv, Grows, events' = events, NEW w \in Worker, OthersStay(w),
           VerdictOK(w)', done'[w] \in {0, done[w]} \/ done'[w] > Latest
    PROVE  EventInv'
  <1>1. \A u \in Worker : VerdictOK(u)'
    BY VerdictStays DEF OthersStay
  <1>2. \A u \in Worker : done[u] \in Nat /\ done[u] <= Latest /\ Latest \in Nat
    BY HandlerFacts DEF HandlerOK
  <1>3. \A u \in Worker \ {w} : done'[u] = done[u]
    BY DEF OthersStay, Stays
  <1>4. ASSUME NEW d \in Nat, d > Latest PROVE Untold(d)
    BY <1>2, <1>4, EventRange DEF Untold
  <1>5. ASSUME NEW u \in Worker, done'[u] # 0 PROVE Untold(done'[u])
    <2>1. CASE done'[u] = done[u]
      BY <1>5, <2>1 DEF EventInv
    <2>2. CASE done'[u] # done[u]
      <3>1. u = w /\ done'[w] > Latest
        BY <1>3, <1>5, <2>2
      <3> QED
        BY <1>2, <3>1, EventRange DEF Untold
    <2> QED
      BY <2>1, <2>2
  <1>6. ASSUME NEW u \in Worker, NEW x \in Worker, done'[x] # 0, done'[u] = done'[x]
        PROVE  u = x
    BY <1>2, <1>3, <1>6 DEF EventInv
  <1> QED
    BY <1>1, <1>5, <1>6, EventsStay DEF EventInv, Untold

LEMMA AnswerVerdict ==
    ASSUME Inv, NEW w \in Worker, NEW s \in Status, Answer(w, s)
    PROVE  VerdictOK(w)' /\ done'[w] = 0
  BY HandlerFacts, AnswerType DEF VerdictOK

(* A handler that goes on with its verdict, or has none.  *)
LEMMA GoOnVerdict ==
    ASSUME Inv, EventInv, rows' = rows, NEW w \in Worker, NEW l \in Call, Goto(w, l),
           UNCHANGED <<against, done>>,
           \/ l \in {"tip", "swap", "clear", "notify"} /\ asOf' = asOf
           \/ against[w] = Unclassified /\ done[w] = 0
    PROVE  VerdictOK(w)' /\ done'[w] = done[w]
  <1>1. pc'[w] = l /\ VerdictOK(w)
    BY HandlerFacts, GotoType DEF EventInv
  <1> QED
    BY <1>1 DEF VerdictOK

(* The calls that write nothing and tell nobody.  *)
LEMMA QuietVerdict ==
    ASSUME Inv, EventInv, NEW w \in Worker,
           \/ MergeReadsHead(w) \/ RollbackReadsHead(w) \/ PutReadsHead(w) \/ SeedReadsHead(w)
           \/ Compare(w) \/ ReadTip(w) \/ Clear(w) \/ Lookup(w) \/ Load(w) \/ Fill(w)
    PROVE  VerdictOK(w)' /\ done'[w] \in {0, done[w]} /\ events' = events
  <1>1. VerdictOK(w) /\ (pc[w] \notin {"clear", "notify"} => done[w] = 0)
    BY HandlerFacts DEF EventInv
  <1>2. pc[w] \notin {"tip", "swap", "clear", "notify"} =>
            against[w] = Unclassified /\ done[w] = 0
    BY <1>1 DEF VerdictOK
  <1>3. events' = events /\ rows' = rows
    BY DEF MergeReadsHead, RollbackReadsHead, PutReadsHead, SeedReadsHead, Compare, ReadTip,
           Clear, Lookup, Load, Fill, storeVars
  <1>4. \/ \E s \in Status : Answer(w, s)
        \/ \E l \in {"tip", "swap", "notify"} : Goto(w, l) /\ UNCHANGED <<asOf, against, done>>
        \/ /\ pc[w] \notin {"tip", "swap", "clear", "notify"}
           /\ \E l \in Call : Goto(w, l)
           /\ UNCHANGED <<against, done>>
    <2>1. CASE ReadTip(w) \/ Clear(w)
      BY <2>1, Refusals DEF ReadTip, Clear, Status, localVars
    <2>2. CASE MergeReadsHead(w) \/ RollbackReadsHead(w) \/ PutReadsHead(w) \/ SeedReadsHead(w)
      BY <2>2, Refusals DEF MergeReadsHead, RollbackReadsHead, PutReadsHead, SeedReadsHead,
                            HeadRead, Call, localVars
    <2>3. CASE Compare(w) \/ Lookup(w) \/ Load(w) \/ Fill(w)
      BY <2>3, Refusals DEF Compare, Lookup, Load, Fill, Call, localVars
    <2> QED
      BY <2>1, <2>2, <2>3
  <1>5. {"tip", "swap", "notify"} \subseteq Call
    BY DEF Call
  <1> QED
    BY <1>2, <1>3, <1>4, <1>5, AnswerVerdict, GoOnVerdict

(* A publish has read the row its verdict compares with.  *)
LEMMA PublishVerdict ==
    ASSUME Inv, EventInv, NEW w \in Worker, PublishReadsHead(w)
    PROVE  VerdictOK(w)' /\ done'[w] \in {0, done[w]} /\ events' = events
  <1>1. /\ pc[w] = "head" /\ events' = events /\ rows' = rows /\ done' = done
        /\ LocalTypeOK /\ Latest \in Nat \ {0} /\ done[w] = 0
    BY HandlerFacts DEF PublishReadsHead, HeadRead, Republish, storeVars
  <1>2. against[w] = Unclassified
    BY <1>1 DEF EventInv, VerdictOK
  <1>3. Goto(w, "clear") \/ Goto(w, "tip")
    BY DEF PublishReadsHead, Republish
  <1>4. pc'[w] \in {"clear", "tip"}
    BY <1>1, <1>3, GotoType DEF Call
  <1>5. \/ against' = against
        \/ against' = [against EXCEPT ![w] = Unclassified]
        \/ SeesHead(w) /\ against' = [against EXCEPT ![w] = Served]
    <2>1. \A v \in Verdicts(Served) : v \in {Unclassified, Served}
      BY DEF Verdicts
    <2> QED
      BY <2>1 DEF PublishReadsHead, Republish
  <1>6. against'[w] # Unclassified => asOf'[w] = Latest /\ against'[w] = rows[Latest].version
    BY <1>1, <1>2, <1>5 DEF LocalTypeOK, SeesHead, Served
  <1> QED
    BY <1>1, <1>4, <1>6 DEF VerdictOK

(* A write to main has made a row of its own, newer than any it has seen.  *)
LEMMA LandedVerdict ==
    ASSUME Inv, EventInv, Grows, NEW w \in Worker, pc[w] \in {"swap", "move", "fork"}, Landed(w),
           req[w].branch = "main" => Latest' = Latest + 1
    PROVE  VerdictOK(w)' /\ (done'[w] = 0 \/ done'[w] > Latest)
  <1>1. /\ VerdictOK(w) /\ asOf[w] \in Nat /\ asOf[w] <= Latest /\ Latest \in Nat \ {0}
        /\ LocalTypeOK
    BY HandlerFacts DEF EventInv, HandlerOK
  <1>2. CASE \E s \in Status : Answer(w, s)
    BY <1>2, AnswerVerdict
  <1>3. CASE /\ req[w].branch = "main"
             /\ done' = [done EXCEPT ![w] = Latest']
             /\ Goto(w, "clear")
             /\ UNCHANGED <<asOf, against>>
    <2>1. pc'[w] = "clear" /\ done'[w] = Latest + 1
      BY <1>1, <1>3, GotoType DEF Call, LocalTypeOK
    <2>2. asOf[w] # 0 => rows'[asOf[w]] = rows[asOf[w]]
      BY <1>1 DEF Grows
    <2> QED
      BY <1>1, <1>3, <2>1, <2>2 DEF VerdictOK
  <1> QED
    BY <1>2, <1>3, Refusals DEF Landed

LEMMA WriteVerdict ==
    ASSUME Inv, EventInv, Grows, NEW w \in Worker, Swap(w) \/ Move(w) \/ CreateBranch(w)
    PROVE  VerdictOK(w)' /\ (done'[w] = 0 \/ done'[w] > Latest) /\ events' = events
  <1>1. events' = events /\ pc[w] \in {"swap", "move", "fork"}
    BY DEF Swap, Move, CreateBranch
  <1>2. \/ \E s \in Status : Answer(w, s)
        \/ /\ Landed(w)
           /\ pc[w] = "fork" \/ \E c : H!PointTo(req[w].branch, c)
    BY Refusals DEF Swap, Move, CreateBranch, NotWritten, H!PointAt
  <1>3. CASE \E s \in Status : Answer(w, s)
    BY <1>1, <1>3, AnswerVerdict
  <1>4. CASE Landed(w) /\ (pc[w] = "fork" \/ \E c : H!PointTo(req[w].branch, c))
    <2>1. ASSUME req[w].branch = "main" PROVE Latest' = Latest + 1
      <3>1. pc[w] # "fork"
        BY <1>1, <2>1, HandlerFacts DEF HandlerOK
      <3>2. PICK row : rows' = Append(rows, row)
        BY <1>4, <2>1, <3>1 DEF H!PointTo
      <3>3. rows \in Seq(H!Row)
        BY HandlerFacts DEF H!HistoryTypeOK
      <3> QED
        BY <3>2, <3>3 DEF Latest
    <2> QED
      BY <1>1, <1>4, <2>1, LandedVerdict
  <1> QED
    BY <1>2, <1>3, <1>4

(* The event of a notification is one of its handler's row, which nobody   *)
(* told of before.                                                         *)
LEMMA NotifyStep ==
    ASSUME Inv, EventInv, Grows, NEW w \in Worker, OthersStay(w), Notify(w)
    PROVE  EventInv'
  <1> DEFINE d == done[w]
  <1>1. /\ d \in Nat /\ d # 0 /\ d <= Latest /\ VerdictOK(w) /\ Untold(d)
        /\ asOf[w] \in Nat /\ Latest \in Nat /\ rows' = rows /\ Latest' = Latest
        /\ \E s \in Status : Answer(w, s)
    BY HandlerFacts DEF Notify, HandlerOK, EventInv, storeVars, Latest
  <1>2. VerdictOK(w)' /\ done'[w] = 0
    BY <1>1, AnswerVerdict
  <1>3. CASE events' = events
    BY <1>2, <1>3, SilentStep
  <1>4. CASE \E old : /\ Publish(rows[d].version, old, w)
                      /\ old = Unclassified
                         \/ (asOf[w] # 0 /\ rows[asOf[w]].version = old)
    <2>1. PICK old : /\ Publish(rows[d].version, old, w)
                     /\ old = Unclassified \/ (asOf[w] # 0 /\ rows[asOf[w]].version = old)
      BY <1>4
    <2> DEFINE e == [version |-> rows[d].version, against |-> old, change |-> d]
               n == Len(events)
    <2>2. d \in 2 .. Latest /\ asOf[w] < d
      BY <1>1 DEF VerdictOK
    <2>3. old = Unclassified \/ \E k \in 1 .. d - 1 : rows[k].version = old
      BY <1>1, <2>1, <2>2
    <2>4. events \in Seq(Event) /\ n \in Nat /\ events' = Append(events, e)
      BY <2>1, EventRange DEF Publish
    <2> HIDE DEF e
    <2>5. /\ Len(events') = n + 1 /\ events'[n + 1] = e
          /\ \A i \in 1 .. n : events'[i] = events[i]
      BY <2>4
    <2>6. e.change = d /\ e.version = rows[d].version /\ e.against = old
      BY DEF e
    <2>7. \A i \in 1 .. n + 1 : i # n + 1 => i \in 1 .. n
      BY <2>4
    <2>8. EventsAreOfTheHistory'
      <3>1. ASSUME NEW i \in 1 .. n + 1
            PROVE  /\ events'[i].change \in 2 .. Latest'
                   /\ events'[i].version = rows'[events'[i].change].version
                   /\ \/ events'[i].against = Unclassified
                      \/ \E k \in 1 .. events'[i].change - 1 :
                             rows'[k].version = events'[i].against
        <4>1. CASE i = n + 1
          BY <1>1, <2>2, <2>3, <2>5, <2>6, <4>1
        <4>2. CASE i \in 1 .. n
          BY <1>1, <2>5, <4>2 DEF EventInv, EventsAreOfTheHistory
        <4> QED
          BY <2>7, <4>1, <4>2
      <3>2. ASSUME NEW i \in 1 .. n + 1, NEW j \in 1 .. n + 1,
                   events'[i].change = events'[j].change
            PROVE  i = j
        <4>1. CASE i \in 1 .. n /\ j \in 1 .. n
          BY <2>5, <3>2, <4>1 DEF EventInv, EventsAreOfTheHistory
        <4>2. \A k \in 1 .. n : events'[k].change # events'[n + 1].change
          BY <1>1, <2>5, <2>6 DEF Untold
        <4> QED
          BY <2>7, <3>2, <4>1, <4>2
      <3> QED
        BY <2>5, <3>1, <3>2 DEF EventsAreOfTheHistory
    <2>9. \A u \in Worker : VerdictOK(u)'
      BY <1>2, VerdictStays DEF OthersStay
    <2>10. \A u \in Worker \ {w} : done'[u] = done[u]
      BY DEF OthersStay, Stays
    <2>11. \A u, x \in Worker : done'[x] # 0 /\ done'[u] = done'[x] => u = x
      BY <1>2, <2>10 DEF EventInv
    <2>12. ASSUME NEW u \in Worker, done'[u] # 0 PROVE Untold(done[u])' /\ done'[u] = done[u]
      <3>1. u # w /\ done'[u] = done[u] /\ done[u] # d
        BY <1>1, <1>2, <2>10, <2>12 DEF EventInv
      <3>2. Untold(done[u])
        BY <2>12, <3>1 DEF EventInv
      <3> QED
        BY <2>5, <2>6, <2>7, <3>1, <3>2 DEF Untold
    <2> QED
      BY <2>8, <2>9, <2>11, <2>12 DEF EventInv, Untold
  <1>5. CASE \E old \in Verdicts(Read(w)) : Publish(rows[d].version, old, w)
    <2>1. \A old \in Verdicts(Read(w)) :
              old = Unclassified \/ (asOf[w] # 0 /\ rows[asOf[w]].version = old)
      BY DEF Verdicts, Read
    <2> QED
      BY <1>4, <1>5, <2>1
  <1>6. CASE Publish(rows[d].version, against[w], w)
    BY <1>1, <1>4, <1>6 DEF VerdictOK
  <1> QED
    BY <1>3, <1>5, <1>6 DEF Notify

(* Handlers that a crash stops have told nobody and will not.  *)
LEMMA CrashStep ==
    ASSUME Inv, EventInv, Grows, NEW n \in Node, Crash(n)
    PROVE  EventInv'
  <1>1. events' = events
    BY DEF Crash
  <1>2. ASSUME NEW u \in Worker
        PROVE  Stays(u) \/ (against'[u] = Unclassified /\ done'[u] = 0)
    BY DEF Crash, Stays
  <1>3. \A u \in Worker : VerdictOK(u)' /\ done'[u] \in {0, done[u]}
    BY <1>2, VerdictStays DEF VerdictOK, Stays
  <1>4. \A u, x \in Worker : done'[x] # 0 /\ done'[u] = done'[x] => u = x
    BY <1>3 DEF EventInv
  <1>5. \A u \in Worker : done'[u] # 0 => Untold(done'[u])
    BY <1>3 DEF EventInv
  <1> QED
    BY <1>1, <1>3, <1>4, <1>5, EventsStay DEF EventInv, Untold

(* The steps that move no handler.  *)
LEMMA IdleStep ==
    ASSUME Inv, EventInv, Grows, events' = events, UNCHANGED <<pc, req, localVars, reply>>
    PROVE  EventInv'
  <1>1. \A u \in Worker : Stays(u)
    BY DEF Stays, localVars
  <1>2. \A u \in Worker : VerdictOK(u)'
    BY <1>1, VerdictStays
  <1> QED
    BY <1>2, EventsStay DEF EventInv, Untold, localVars

LEMMA EventStep == Inv /\ EventInv /\ [Next]_vars => EventInv'
  <1> SUFFICES ASSUME Inv, EventInv, [Next]_vars PROVE EventInv'
    OBVIOUS
  <1>1. Grows
    BY NextInv
  <1>2. ASSUME NEW w \in Worker, Start(w) PROVE EventInv'
    <2>1. OthersStay(w)
      BY <1>2, StartInv
    <2>2. pc[w] = "idle" /\ events' = events /\ against' = against /\ done' = done
      BY <1>2 DEF Start, localVars
    <2>3. against[w] = Unclassified /\ done[w] = 0
      BY <2>2, HandlerFacts DEF EventInv, VerdictOK
    <2> QED
      BY <1>1, <2>1, <2>2, <2>3, SilentStep DEF VerdictOK
  <1>3. ASSUME NEW w \in Worker, Step(w) PROVE EventInv'
    <2>1. OthersStay(w)
      BY <1>3, StepInv
    <2>2. CASE Notify(w)
      BY <1>1, <2>1, <2>2, NotifyStep
    <2>3. CASE Swap(w) \/ Move(w) \/ CreateBranch(w)
      BY <1>1, <2>1, <2>3, WriteVerdict, SilentStep
    <2>4. CASE PublishReadsHead(w)
      BY <1>1, <2>1, <2>4, PublishVerdict, SilentStep
    <2>5. CASE \/ MergeReadsHead(w) \/ RollbackReadsHead(w) \/ PutReadsHead(w)
               \/ SeedReadsHead(w) \/ Compare(w) \/ ReadTip(w) \/ Clear(w)
               \/ Lookup(w) \/ Load(w) \/ Fill(w)
      BY <1>1, <2>1, <2>5, QuietVerdict, SilentStep
    <2> QED
      BY <1>3, <2>2, <2>3, <2>4, <2>5 DEF Step
  <1>4. CASE Expire \/ RestoreRow \/ UNCHANGED vars
    BY <1>1, <1>4, IdleStep DEF Expire, RestoreRow, vars
  <1> QED
    BY <1>1, <1>2, <1>3, <1>4, CrashStep DEF Next

LEMMA InitEventInv == Init => EventInv
  BY DEF Init, EventInv, VerdictOK, EventsAreOfTheHistory

LEMMA EventInvariance == Spec => []EventInv
  <1> QED
    BY InitEventInv, EventStep, Invariance, PTL DEF Spec

(* pubsub.go 260-261, server.go 379-381: whatever the interleaving and the *)
(* faults, no change is told of twice, no event mixes a row with the       *)
(* verdict of another, and none compares with what came later.             *)
THEOREM EventsTellTheHistory == Spec => []EventsAreOfTheHistory
  <1>1. EventInv => EventsAreOfTheHistory
    BY DEF EventInv
  <1> QED
    BY <1>1, EventInvariance, PTL

-----------------------------------------------------------------------------
(* One caller at a time: the row a notifier compares with is the one its   *)
(* own replaced.                                                           *)
LEMMA VerdictStep ==
    ASSUME Inv, EventInv, ReadsInv, VerdictIsOfTheChange, [Next]_vars
    PROVE  VerdictIsOfTheChange'
  <1>1. Grows
    BY NextInv
  <1>2. /\ events \in Seq(Event) /\ Len(events) \in Nat /\ Latest \in Nat \ {0}
        /\ \A i \in 1 .. Len(events) : events[i].change \in 2 .. Latest
    BY EventRange DEF EventInv, EventsAreOfTheHistory
  <1>3. ASSUME NEW i \in 1 .. Len(events)
        PROVE  events[i].against \in {Unclassified, rows'[events[i].change - 1].version}
    <2>1. PICK k \in Nat : k = events[i].change - 1 /\ k \in 1 .. Latest
      BY <1>2
    <2>2. rows'[k] = rows[k]
      BY <1>1, <2>1 DEF Grows
    <2> QED
      BY <2>1, <2>2 DEF VerdictIsOfTheChange
  <1>4. CASE events' = events
    BY <1>3, <1>4 DEF VerdictIsOfTheChange
  <1>5. ASSUME NEW w \in Worker, Notify(w), events' # events PROVE VerdictIsOfTheChange'
    <2>1. PICK old :
             /\ Publish(rows[done[w]].version, old, w)
             /\ old = against[w] \/ old \in Verdicts(Read(w))
      BY <1>5 DEF Notify
    <2>2. PICK d \in Nat : d = done[w] /\ d # 0 /\ d <= Latest
      BY <1>5, HandlerFacts DEF Notify, HandlerOK
    <2>3. old = Unclassified \/ (asOf[w] # 0 /\ old = rows[asOf[w]].version)
      BY <2>1 DEF Verdicts, Read, EventInv, VerdictOK
    <2>4. asOf[w] # 0 => asOf[w] = d - 1
      BY <2>2 DEF ReadsInv, ReadsLatest
    <2>5. rows' = rows
      BY <1>5 DEF Notify, storeVars
    <2>6. old \in {Unclassified, rows'[d - 1].version}
      BY <2>3, <2>4, <2>5
    <2> DEFINE e == [version |-> rows[done[w]].version, against |-> old, change |-> d]
    <2>7. events' = Append(events, e)
      BY <2>1, <2>2 DEF Publish
    <2>8. e.against = old /\ e.change = d
      OBVIOUS
    <2> HIDE DEF e
    <2>9. /\ Len(events') = Len(events) + 1 /\ events'[Len(events) + 1] = e
          /\ \A i \in 1 .. Len(events) : events'[i] = events[i]
      BY <1>2, <2>7
    <2>10. ASSUME NEW i \in 1 .. Len(events) + 1
           PROVE  events'[i].against \in {Unclassified, rows'[events'[i].change - 1].version}
      <3>1. CASE i = Len(events) + 1
        BY <2>6, <2>8, <2>9, <3>1
      <3>2. CASE i \in 1 .. Len(events)
        BY <1>3, <2>9, <3>2
      <3> QED
        BY <1>2, <3>1, <3>2
    <2> QED
      BY <2>9, <2>10 DEF VerdictIsOfTheChange
  <1>6. ASSUME events' # events PROVE \E w \in Worker : Notify(w)
    BY <1>6 DEF Next, Start, Step, PublishReadsHead, MergeReadsHead, RollbackReadsHead,
       PutReadsHead, SeedReadsHead, Compare, ReadTip, Swap, Move, CreateBranch, Clear,
       Lookup, Load, Fill, Expire, RestoreRow, Crash, vars
  <1> QED
    BY <1>4, <1>5, <1>6

(* pubsub.go 260-261 and server.go 61: as long as requests do not overlap, *)
(* the verdict of an event is that of the change it announces, not of an   *)
(* older one or of several at once.                                        *)
THEOREM VerdictsOfTheChange == Spec /\ OneByOne => []VerdictIsOfTheChange
  <1>1. Init => VerdictIsOfTheChange
    BY DEF Init, VerdictIsOfTheChange
  <1> QED
    BY <1>1, VerdictStep, EventInvariance, ReadsInvariance, PTL DEF Spec

(* The case of a single caller, when nothing is restored.  *)
THEOREM VerdictsForOneCaller ==
    ASSUME \A u, w \in Worker : u = w, Loadable = {}
    PROVE  Spec => []VerdictIsOfTheChange
  BY OneCaller, VerdictsOfTheChange, PTL

(* A merge that ends well past its write compares its content with that    *)
(* of the row before its own.                                              *)
LEMMA MergeTells ==
    ASSUME Inv, ReadsInv, [Next]_vars, "store" \notin Fault, NEW w \in Worker,
           Confirms(w), req[w].op = "merge", done[w] # 0,
           rows[done[w]].version # rows[done[w] - 1].version
    PROVE  \E i \in 1 .. Len(events') : events'[i].change = done[w]
  <1>1. Step(w) /\ pc[w] \in {"clear", "notify"} /\ pc'[w] = "idle"
    BY AnswersBySteps, HandlerFacts DEF Confirms, Answers
  <1>2. Clear(w) \/ Notify(w)
    BY <1>1 DEF Step, PublishReadsHead, MergeReadsHead, RollbackReadsHead, PutReadsHead,
       SeedReadsHead, HeadRead, Compare, ReadTip, Swap, Move, CreateBranch, Lookup, Load, Fill
  <1>3. ~Clear(w)
    <2>1. Clear(w) => Goto(w, "notify")
      BY DEF Clear, FailsAtOnce
    <2> QED
      BY <1>1, <2>1, HandlerFacts, GotoType DEF Call
  <1>4. rows[done[w]].version # Read(w)
    <2>1. rows[done[w]].version # NoPrompt
      BY HandlerFacts, ServerAssumption DEF HandlerOK
    <2>2. asOf[w] # 0 => asOf[w] = done[w] - 1
      BY DEF ReadsInv, ReadsLatest
    <2> QED
      BY <2>1, <2>2 DEF Read
  <1> QED
    BY <1>2, <1>3, <1>4, Published DEF Notify

(* server.go 311-312: merges that run one by one against a store that      *)
(* answers announce every change of content; it takes a concurrent writer, *)
(* or a read the store refused, to make one silent.                        *)
THEOREM MergesAreAnnounced ==
    ASSUME "store" \notin Fault
    PROVE  Spec /\ OneByOne => MergeAnnounces
  <1> DEFINE Announced ==
        \A w \in Worker :
          /\ Confirms(w) /\ req[w].op = "merge" /\ done[w] # 0
          /\ rows[done[w]].version # rows[done[w] - 1].version
          => \E i \in 1 .. Len(events') : events'[i].change = done[w]
  <1>1. Inv /\ ReadsInv /\ [Next]_vars => [Announced]_vars
    BY MergeTells
  <1> QED
    BY <1>1, ReadsInvariance, PTL DEF Spec, MergeAnnounces

-----------------------------------------------------------------------------
(* The publish command, beside any other callers.  *)

(* A handler that has not read the served row remembers none.  *)
UnreadInv == \A w \in Worker : pc[w] \in {"idle", "head"} => asOf[w] = 0

LEMMA UnreadStep ==
    ASSUME Inv, UnreadInv, [Next]_vars
    PROVE  UnreadInv'
  <1>1. ASSUME NEW w \in Worker, Start(w) PROVE UnreadInv'
    <2>1. OthersStay(w) /\ pc[w] = "idle" /\ asOf' = asOf
      BY <1>1, StartInv DEF Start, localVars
    <2> QED
      BY <2>1 DEF UnreadInv, OthersStay, Stays
  <1>2. ASSUME NEW w \in Worker, Step(w) PROVE UnreadInv'
    <2>1. OthersStay(w)
      BY <1>2, StepInv
    <2>2. Ending(w) \/ GoingOn(w) \/ Writing(w)
      BY <1>2, CallsEndOrGoOn, WritesEndOrGoOn DEF Step
    <2> QED
      BY <2>1, <2>2 DEF UnreadInv, OthersStay, Stays, Ending, GoingOn, Writing
  <1>3. ASSUME NEW n \in Node, Crash(n) PROVE UnreadInv'
    BY <1>3 DEF Crash, UnreadInv
  <1>4. CASE Expire \/ RestoreRow \/ UNCHANGED vars
    BY <1>4 DEF Expire, RestoreRow, vars, localVars, UnreadInv
  <1> QED
    BY <1>1, <1>2, <1>3, <1>4 DEF Next

(* What the command's publish will find, as long as nothing came between   *)
(* the version it compares with and the one its publish reads: content     *)
(* that is not the served one is written, content that is makes no row.    *)
WillTell ==
    /\ pc[Server] = "head" => before = Served
    /\ pc[Server] \in {"tip", "swap"} /\ asOf[Server] # 0 => before # req[Server].version
    /\ pc[Server] \in {"clear", "notify"} /\ asOf[Server] # 0 =>
          (done[Server] = 0 <=> before = req[Server].version)

ReportInv ==
    /\ stage = "reading" => pc[Server] \in {"lookup", "load", "fill"}
    /\ stage = "read" /\ steady => before = Served
    /\ stage = "publishing" =>
          /\ pc[Server] # "idle" /\ req[Server].op = "publish" /\ req[Server].branch = "main"
          /\ steady => WillTell

(* A worker moves by a request, a call or a crash of its own.  *)
LEMMA MovesItself ==
    ASSUME Inv, [Next]_vars, NEW w \in Worker
    PROVE  Stays(w) \/ Start(w) \/ Step(w) \/ (pc[w] # "idle" /\ pc'[w] = "idle" /\ rows' = rows)
  <1>1. ASSUME NEW u \in Worker, Start(u) \/ Step(u) PROVE Stays(w) \/ Start(w) \/ Step(w)
    <2>1. OthersStay(u)
      BY <1>1, StartInv, StepInv
    <2> QED
      BY <1>1, <2>1 DEF OthersStay
  <1>2. ASSUME NEW n \in Node, Crash(n)
        PROVE  Stays(w) \/ (pc[w] # "idle" /\ pc'[w] = "idle" /\ rows' = rows)
    BY <1>2 DEF Crash, Stays, storeVars
  <1>3. CASE Expire \/ RestoreRow \/ UNCHANGED vars
    BY <1>3 DEF Expire, RestoreRow, vars, localVars, Stays
  <1> QED
    BY <1>1, <1>2, <1>3 DEF Next

(* A reader's calls.  *)
LEMMA ReaderStep ==
    ASSUME Inv, NEW w \in Worker, Step(w), pc[w] \in {"lookup", "load", "fill"}
    PROVE  rows' = rows /\ pc'[w] \in {"idle", "load", "fill"}
  <1>1. Lookup(w) \/ Load(w) \/ Fill(w)
    BY DEF Step, PublishReadsHead, MergeReadsHead, RollbackReadsHead, PutReadsHead,
       SeedReadsHead, HeadRead, Compare, ReadTip, Swap, Move, CreateBranch, Clear, Notify
  <1>2. rows' = rows
    BY <1>1 DEF Lookup, Load, Fill, storeVars
  <1>3. \/ \E s \in Status : Answer(w, s)
        \/ \E l \in {"load", "fill"} : Goto(w, l)
    BY <1>1, Refusals DEF Lookup, Load, Fill
  <1>4. \A l \in {"load", "fill"} : Goto(w, l) => pc'[w] = l
    BY HandlerFacts, GotoType DEF Call
  <1> QED
    BY <1>2, <1>3, <1>4, Reply

(* The calls of a publish to main: what it found settles whether it writes.*)
LEMMA PublisherStep ==
    ASSUME Inv, UnreadInv, NEW w \in Worker, Step(w),
           req[w].op = "publish", req[w].branch = "main", pc'[w] # "idle"
    PROVE  /\ req' = req
           /\ \/ /\ pc[w] = "head" /\ done'[w] = 0
                 /\ \/ pc'[w] = "clear" /\ Served = req[w].version
                    \/ pc'[w] = "tip" /\ (asOf'[w] = 0 \/ Served # req[w].version)
              \/ /\ asOf' = asOf
                 /\ \/ pc[w] = "tip" /\ pc'[w] = "swap"
                    \/ pc[w] = "swap" /\ pc'[w] = "clear" /\ done'[w] # 0
                    \/ pc[w] = "clear" /\ pc'[w] = "notify" /\ done'[w] = done[w]
  <1>1. /\ LocalTypeOK /\ HandlerOK(w) /\ pc[w] \in Call
        /\ pc[w] \notin {"clear", "notify"} => done[w] = 0
        /\ \A s \in Status : ~Answer(w, s)
        /\ \A l \in Call : Goto(w, l) => pc'[w] = l
        /\ reply[w] \in Status
        /\ pc[w] # "idle" => req[w].version \in Version
    BY HandlerFacts, Reply, GotoType
  <1>2. ~MergeReadsHead(w) /\ ~RollbackReadsHead(w) /\ ~PutReadsHead(w) /\ ~SeedReadsHead(w)
    BY DEF MergeReadsHead, RollbackReadsHead, PutReadsHead, SeedReadsHead, HeadRead
  <1>3. ~Compare(w) /\ ~Move(w) /\ ~CreateBranch(w) /\ ~Lookup(w) /\ ~Load(w) /\ ~Fill(w)
    BY <1>1 DEF HandlerOK, Compare, Move, CreateBranch, Lookup, Load, Fill
  <1>4. ~Notify(w)
    BY <1>1 DEF Notify
  <1>5. CASE PublishReadsHead(w)
    <2>1. pc[w] = "head" /\ req' = req /\ done' = done
      BY <1>5 DEF PublishReadsHead, HeadRead, Republish
    <2>2. \/ Goto(w, "clear") /\ Served = req[w].version
          \/ Goto(w, "tip") /\ (asOf' = asOf \/ Served = NoPrompt \/ Served # req[w].version)
      BY <1>5 DEF PublishReadsHead, Republish
    <2>3. req[w].version # NoPrompt
      BY <1>1, <2>1, ServerAssumption
    <2>4. asOf[w] = 0
      BY <2>1 DEF UnreadInv
    <2> QED
      BY <1>1, <2>1, <2>2, <2>3, <2>4 DEF Call
  <1>6. CASE ReadTip(w)
    BY <1>1, <1>6, Refusals DEF ReadTip, Call
  <1>7. CASE Swap(w)
    <2>1. pc[w] = "swap" /\ (Landed(w) \/ \E s \in Status : Answer(w, s))
      BY <1>7, Refusals DEF Swap, NotWritten
    <2>2. Goto(w, "clear") /\ done' = [done EXCEPT ![w] = Latest'] /\ req' = req /\ asOf' = asOf
      BY <1>1, <2>1, Refusals DEF Landed, RPCs
    <2>3. Latest' \in Nat \ {0}
      BY StepInv, HandlerFacts DEF Grows
    <2> QED
      BY <1>1, <2>1, <2>2, <2>3 DEF Call, LocalTypeOK
  <1>8. CASE Clear(w)
    BY <1>1, <1>8 DEF Clear, Status, Call, localVars
  <1> QED
    BY <1>2, <1>3, <1>4, <1>5, <1>6, <1>7, <1>8 DEF Step

(* A request that is not refused is at its first call.  *)
LEMMA CommandStart ==
    ASSUME Inv, NEW w \in Worker, Start(w), req'[w] # NoRequest
    PROVE  /\ pc[w] = "idle" /\ rows' = rows
           /\ req'[w].op = "get" => pc'[w] = "lookup"
           /\ req'[w].op = "publish" /\ req'[w].branch = "main" => pc'[w] = "head"
  <1> DEFINE refused(r) == r.op \in {"publish", "put", "import"} /\ r.version \in Malformed
  <1>1. PICK r \in Job[w], c \in Nat :
            /\ req' = [req EXCEPT ![w] = IF refused(r) THEN NoRequest ELSE [r EXCEPT !.commit = c]]
            /\ pc' = [pc EXCEPT ![w] = IF refused(r) THEN "idle" ELSE FirstCall(r)]
    <2>1. PICK r \in Job[w] :
            \E c \in IF r.op = "rollback" THEN 0 .. Len(commits) ELSE {0} :
              /\ req' = [req EXCEPT ![w] = IF refused(r) THEN NoRequest ELSE [r EXCEPT !.commit = c]]
              /\ pc' = [pc EXCEPT ![w] = IF refused(r) THEN "idle" ELSE FirstCall(r)]
      BY DEF Start
    <2>2. (IF r.op = "rollback" THEN 0 .. Len(commits) ELSE {0}) \subseteq Nat
      BY HandlerFacts
    <2> QED
      BY <2>1, <2>2
  <1>2. PICK q \in BOOLEAN :
            /\ req' = [req EXCEPT ![w] = IF q THEN NoRequest ELSE [r EXCEPT !.commit = c]]
            /\ pc' = [pc EXCEPT ![w] = IF q THEN "idle" ELSE FirstCall(r)]
    <2>1. refused(r) \in BOOLEAN
      OBVIOUS
    <2> QED
      BY <1>1, <2>1
  <1>3. pc[w] = "idle" /\ rows' = rows /\ LocalTypeOK /\ r \in Request
    BY HandlerFacts, ServerAssumption DEF Start, storeVars
  <1>4. q = FALSE /\ req'[w] = [r EXCEPT !.commit = c] /\ pc'[w] = FirstCall(r)
    BY <1>2, <1>3 DEF LocalTypeOK
  <1>5. req'[w].op = r.op /\ req'[w].branch = r.branch
    BY <1>3, <1>4 DEF Request
  <1>6. (r.op = "get" => FirstCall(r) = "lookup")
        /\ (r.op = "publish" /\ r.branch = "main" => FirstCall(r) = "head")
    BY DEF FirstCall
  <1> QED
    BY <1>3, <1>4, <1>5, <1>6

(* Whatever the others do, the command's publish tells what it will tell.  *)
LEMMA WillTellStep ==
    ASSUME Inv, UnreadInv, [Next]_vars, WillTell,
           pc[Server] # "idle", req[Server].op = "publish", req[Server].branch = "main",
           pc'[Server] # "idle", pc[Server] # "head" \/ Served' = Served, before' = before
    PROVE  WillTell' /\ req'[Server].op = "publish" /\ req'[Server].branch = "main"
  <1>1. Server \in Worker
    BY CommandAssumption
  <1>2. CASE Stays(Server)
    BY <1>2 DEF Stays, WillTell
  <1>3. CASE Step(Server)
    BY <1>1, <1>3, PublisherStep, HandlerFacts DEF WillTell
  <1>4. ~Start(Server)
    BY DEF Start
  <1> QED
    BY <1>1, <1>2, <1>3, <1>4, MovesItself

LEMMA ReportStep ==
    ASSUME Inv, UnreadInv, ReportInv, [CommandNext]_compositionVars
    PROVE  ReportInv' /\ [Next]_vars
  <1>1. Server \in Worker
    BY CommandAssumption
  <1>2. [Next]_vars
    BY <1>1 DEF CommandNext, GetStarts, GetEnds, PublishStarts, PublishEnds, Others, Next,
                compositionVars
  <1>3. CASE GetStarts
    <2>1. pc'[Server] = "lookup" /\ stage' = "reading"
      BY <1>1, <1>3, CommandStart DEF GetStarts
    <2> QED
      BY <1>2, <2>1 DEF ReportInv
  <1>4. CASE GetEnds
    <2>1. stage' = "read" /\ (steady' <=> before' = Served)
      BY <1>4 DEF GetEnds
    <2>2. pc[Server] \in {"lookup", "load", "fill"} /\ pc'[Server] = "idle"
      BY <1>4 DEF GetEnds, Ends, ReportInv
    <2>3. rows' = rows
      BY <1>1, <1>2, <2>2, MovesItself, ReaderStep DEF Stays, Start
    <2>4. Served' = Served
      BY <2>3 DEF Served, Latest
    <2> QED
      BY <1>2, <2>1, <2>4 DEF ReportInv
  <1>5. CASE PublishStarts
    <2>1. /\ stage' = "publishing" /\ pc'[Server] = "head" /\ rows' = rows
          /\ req'[Server].op = "publish" /\ req'[Server].branch = "main"
          /\ before' = before /\ steady' = steady
      BY <1>1, <1>5, CommandStart DEF PublishStarts
    <2>2. Served' = Served
      BY <2>1 DEF Served, Latest
    <2>3. steady => before = Served
      BY <1>5 DEF PublishStarts, ReportInv
    <2> QED
      BY <1>2, <2>1, <2>2, <2>3 DEF ReportInv, WillTell
  <1>6. CASE PublishEnds
    BY <1>2, <1>6 DEF PublishEnds, ReportInv
  <1>7. CASE Others
    <2>1. /\ stage' = stage /\ before' = before
          /\ steady' => steady /\ (ReadYet \/ Served' = Served)
          /\ stage \in {"reading", "publishing"} => ~Ends
      BY <1>7 DEF Others
    <2>2. CASE stage = "reading"
      <3>1. pc'[Server] \in {"lookup", "load", "fill"}
        BY <1>1, <1>2, <2>1, <2>2, MovesItself, ReaderStep DEF Ends, Stays, Start, ReportInv
      <3> QED
        BY <1>2, <2>1, <2>2, <3>1 DEF ReportInv
    <2>3. CASE stage = "publishing"
      <3>1. pc[Server] # "idle" /\ pc'[Server] # "idle"
        BY <2>1, <2>3 DEF Ends, ReportInv
      <3>2. req'[Server].op = "publish" /\ req'[Server].branch = "main"
        BY <1>1, <1>2, <2>3, <3>1, MovesItself, PublisherStep DEF Stays, Start, ReportInv
      <3>3. steady' => WillTell'
        BY <1>2, <2>1, <2>3, <3>1, WillTellStep DEF ReadYet, ReportInv
      <3> QED
        BY <1>2, <2>1, <2>3, <3>1, <3>2, <3>3 DEF ReportInv
    <2>4. CASE stage \notin {"reading", "publishing"}
      BY <1>2, <2>1, <2>4 DEF ReadYet, ReportInv
    <2> QED
      BY <2>2, <2>3, <2>4
  <1>8. CASE UNCHANGED compositionVars
    <2>1. UNCHANGED <<pc, req, asOf, done, rows, Served, stage, before, steady>>
      BY <1>8 DEF compositionVars, commandVars, vars, localVars, storeVars, Served, Latest
    <2> QED
      BY <1>2, <2>1 DEF ReportInv, WillTell
  <1> QED
    BY <1>3, <1>4, <1>5, <1>6, <1>7, <1>8 DEF CommandNext

(* What the command says when its publish ends.  *)
LEMMA SaysWhatHappened ==
    ASSUME Inv, UnreadInv, EventInv, ReportInv, [CommandNext]_compositionVars,
           stage = "publishing", stage' = "none", said' # "error", steady, asOf[Server] # 0
    PROVE  said' = "subscribers notified"
               <=> \E i \in 1 .. Len(events') : events'[i].change = done[Server]
  <1>1. Server \in Worker /\ [Next]_vars
    BY CommandAssumption, ReportStep
  <1>2. said' = IF Confirms(Server) THEN Claim(req[Server].version) ELSE "error"
    BY DEF CommandNext, GetStarts, GetEnds, PublishStarts, PublishEnds, Others,
           compositionVars, commandVars
  <1>3. Confirms(Server) /\ (said' = "subscribers notified" <=> before # req[Server].version)
    BY <1>2 DEF Claim
  <1>4. /\ req[Server].op = "publish" /\ req[Server].branch = "main"
        /\ pc[Server] \in {"clear", "notify"} =>
              (done[Server] = 0 <=> before = req[Server].version)
    BY DEF ReportInv, WillTell
  <1>5. Step(Server)
    BY <1>1, <1>3, AnswersBySteps DEF Confirms
  <1>6. CASE Clear(Server) /\ done[Server] = 0
    <2>1. events' = events /\ before = req[Server].version
      BY <1>4, <1>6 DEF Clear
    <2> QED
      BY <1>3, <1>6, <2>1, EventRange
  <1>7. CASE Notify(Server)
    <2>1. done[Server] # 0 /\ before # req[Server].version
      BY <1>1, <1>4, <1>7, HandlerFacts DEF Notify, HandlerOK
    <2> QED
      BY <1>1, <1>3, <1>4, <2>1, AnswersAfterItsEvent DEF Confirms
  <1> QED
    BY <1>1, <1>3, <1>4, <1>5, <1>6, <1>7, ConfirmingStep

(* main.go 618-621 and publish_test.go 24-25: beside any number of other   *)
(* callers, whatever fails and whatever crashes, what the command says of  *)
(* the event is so, when the version it compares with was the served one   *)
(* until its publish read it.                                              *)
THEOREM ReportsAreTrue == CommandSpec => ReportIsTrue
  <1> DEFINE Together == Inv /\ UnreadInv /\ EventInv /\ ReportInv
  <1>1. CommandInit => Together
    <2>1. CommandInit => Init /\ UnreadInv /\ ReportInv
      BY DEF CommandInit, Init, UnreadInv, ReportInv
    <2> QED
      BY <2>1, InitInv, InitEventInv
  <1>2. Together /\ [CommandNext]_compositionVars => Together'
    BY ReportStep, NextInv, UnreadStep, EventStep
  <1>3. Together /\ [CommandNext]_compositionVars
            => [stage = "publishing" /\ stage' = "none" /\ said' # "error" /\ steady
                    /\ asOf[Server] # 0 =>
                  (said' = "subscribers notified"
                     <=> \E i \in 1 .. Len(events') : events'[i].change = done[Server])
               ]_compositionVars
    BY SaysWhatHappened
  <1> HIDE DEF Together
  <1> QED
    BY <1>1, <1>2, <1>3, PTL DEF CommandSpec, ReportIsTrue
=============================================================================
