----------------------- MODULE PromptRateLimitProofs ------------------------
(***************************************************************************)
(* Theorems about the rate limiter, for any orgs, calls, rate and burst.   *)
(***************************************************************************)
EXTENDS PromptRateLimit, TLAPS

Held == [units : Nat, at : Nat]

TypeInv ==
    /\ now \in Nat
    /\ limiters \in [Org -> Nat]
    /\ buckets \in Seq(Held)
    /\ lim \in [Call -> Nat]
    /\ admitted \in [Org -> Nat]
    /\ before \in [Org -> Seq(Nat)]
    /\ \A o \in Org : limiters[o] <= Len(buckets) /\ Len(before[o]) = now + 1
    /\ \A i \in 1 .. Len(buckets) : buckets[i].units <= Full /\ buckets[i].at <= now

(* Every call asks its org's bucket, which no other org has.  *)
KeyInv ==
    /\ \A c \in Call : lim[c] # 0 => lim[c] = limiters[ScopeOf[c]]
    /\ \A o, p \in Org : limiters[o] # 0 /\ limiters[o] = limiters[p] => o = p

(* What an org has got through since any tick, with what its bucket holds, *)
(* is at most the budget, and since some tick exactly that.                *)
Books(o, h) ==
    /\ \A s \in 0 .. now : Since(o, s) * Unit + h <= Full + Rate * (now - s)
    /\ \E s \in 0 .. now : Since(o, s) * Unit + h >= Full + Rate * (now - s)

BooksInv ==
    \A o \in Org :
        IF limiters[o] = 0 THEN \A s \in 0 .. now : Since(o, s) = 0
        ELSE Books(o, Holds(buckets[limiters[o]]))

Inv == TypeInv /\ KeyInv /\ BooksInv

-----------------------------------------------------------------------------

LEMMA FullNat == Full \in Nat /\ Rate \in Nat /\ Unit \in Nat /\ Unit > 0
  <1>1. Rate \in Nat /\ Unit \in Nat /\ Unit > 0 /\ RateBurst \in Nat
    BY LimiterAssumption
  <1>2. Rate \div Unit \in Nat
    BY <1>1
  <1>3. Burst \in Nat
    BY <1>1, <1>2 DEF Burst
  <1> QED
    BY <1>1, <1>3 DEF Full

LEMMA HoldsType ==
    ASSUME NEW b \in Held, b.units <= Full, b.at <= now, now \in Nat
    PROVE  /\ Holds(b) \in Nat /\ Holds(b) <= Full
           /\ b.at = now => Holds(b) = b.units
  <1>1. Rate * (now - b.at) \in Nat
    BY FullNat DEF Held
  <1>2. b.at = now => Rate * (now - b.at) = 0
    BY FullNat DEF Held
  <1> QED
    BY <1>1, <1>2, FullNat DEF Holds, Held

LEMMA InitInv == LimiterInit => Inv
  <1> SUFFICES ASSUME LimiterInit PROVE Inv
    OBVIOUS
  <1>1. TypeInv
    BY DEF LimiterInit, TypeInv
  <1>2. BooksInv
    <2>1. \A o \in Org : limiters[o] = 0 /\ admitted[o] = 0 /\ before[o] = <<0>>
      BY DEF LimiterInit
    <2>2. \A o \in Org, i \in 0 .. now : admitted[o] - before[o][i + 1] = 0
      BY <2>1 DEF LimiterInit
    <2> QED
      BY <2>1, <2>2 DEF BooksInv, Since
  <1> QED
    BY <1>1, <1>2 DEF LimiterInit, KeyInv, Inv

LEMMA BucketType ==
    ASSUME TypeInv, NEW i \in 1 .. Len(buckets)
    PROVE  /\ buckets[i] \in Held
           /\ buckets[i].units <= Full /\ buckets[i].at <= now /\ now \in Nat
  <1>1. buckets \in Seq(Held) /\ now \in Nat
    BY DEF TypeInv
  <1>2. buckets[i] \in Held
    BY <1>1
  <1> QED
    BY <1>1, <1>2 DEF TypeInv

LEMMA SinceType ==
    ASSUME TypeInv, NEW o \in Org, NEW s \in 0 .. now
    PROVE  Since(o, s) \in Int /\ s + 1 \in 1 .. Len(before[o]) /\ before[o] \in Seq(Nat)
  <1>1. before[o] \in Seq(Nat) /\ Len(before[o]) = now + 1 /\ now \in Nat /\ admitted[o] \in Nat
    BY DEF TypeInv
  <1>2. s + 1 \in 1 .. Len(before[o])
    BY <1>1
  <1>3. before[o][s + 1] \in Nat
    BY <1>1, <1>2
  <1> QED
    BY <1>1, <1>2, <1>3 DEF Since

(* The bucket of a call in the interceptor.  *)
LEMMA AskedBucket ==
    ASSUME Inv, NEW c \in Call, lim[c] # 0
    PROVE  /\ ScopeOf[c] \in Org /\ lim[c] = limiters[ScopeOf[c]] /\ lim[c] \in 1 .. Len(buckets)
           /\ buckets[lim[c]] \in Held
           /\ Holds(buckets[lim[c]]) \in Nat /\ Holds(buckets[lim[c]]) <= Full
           /\ Books(ScopeOf[c], Holds(buckets[lim[c]]))
  <1>1. ScopeOf[c] \in Org
    BY LimiterAssumption
  <1>2. lim[c] = limiters[ScopeOf[c]] /\ lim[c] \in Nat /\ lim[c] <= Len(buckets)
    BY <1>1 DEF Inv, TypeInv, KeyInv
  <1>3. lim[c] \in 1 .. Len(buckets)
    BY <1>2 DEF Inv, TypeInv
  <1>4. buckets[lim[c]] \in Held /\ buckets[lim[c]].units <= Full
        /\ buckets[lim[c]].at <= now /\ now \in Nat
    BY <1>3, BucketType DEF Inv
  <1> QED
    BY <1>1, <1>2, <1>3, <1>4, HoldsType DEF Inv, BooksInv

(* A new bucket is full, and its org has got nothing through.  *)
LEMMA NewBooks ==
    ASSUME TypeInv, NEW o \in Org, \A s \in 0 .. now : Since(o, s) = 0
    PROVE  Books(o, Full)
  <1>1. now \in Nat /\ now \in 0 .. now
    BY DEF TypeInv
  <1>2. \A s \in 0 .. now : Rate * (now - s) \in Nat
    BY <1>1, FullNat
  <1>3. Rate * (now - now) = 0
    BY <1>1, FullNat
  <1>4. \A s \in 0 .. now : Since(o, s) * Unit = 0
    BY FullNat
  <1> QED
    BY <1>1, <1>2, <1>3, <1>4, FullNat DEF Books

LEMMA FindInv ==
    ASSUME Inv, NEW c \in Call, FindLimiter(c)
    PROVE  Inv'
  <1> DEFINE o == ScopeOf[c]
             i == Len(buckets) + 1
  <1>1. o \in Org /\ Len(buckets) \in Nat /\ UNCHANGED <<now, admitted, before>>
    BY LimiterAssumption DEF FindLimiter, Inv, TypeInv
  <1>2. \A p \in Org, s \in 0 .. now : Since(p, s)' = Since(p, s)
    BY <1>1 DEF Since
  <1>3. CASE limiters[o] # 0 /\ lim' = [lim EXCEPT ![c] = limiters[o]]
             /\ UNCHANGED <<limiters, buckets>>
    BY <1>1, <1>2, <1>3 DEF Inv, TypeInv, KeyInv, BooksInv, Books, Holds, Since
  <1>4. CASE /\ limiters[o] = 0 /\ buckets' = Append(buckets, [units |-> Full, at |-> now])
             /\ limiters' = [limiters EXCEPT ![o] = i]
             /\ lim' = [lim EXCEPT ![c] = i]
    <2>1. TypeInv /\ KeyInv /\ now \in Nat
      BY DEF Inv, TypeInv
    <2>2. /\ Len(buckets') = i /\ buckets'[i] = [units |-> Full, at |-> now]
          /\ \A k \in 1 .. Len(buckets) : buckets'[k] = buckets[k]
      BY <1>1, <1>4, <2>1 DEF TypeInv
    <2>3. TypeInv'
      <3>1. [units |-> Full, at |-> now] \in Held
        BY <2>1, FullNat DEF Held
      <3>2. buckets' \in Seq(Held)
        BY <1>4, <2>1, <3>1 DEF TypeInv
      <3>3. \A k \in 1 .. Len(buckets') : buckets'[k].units <= Full /\ buckets'[k].at <= now'
        <4> SUFFICES ASSUME NEW k \in 1 .. Len(buckets')
                     PROVE  buckets'[k].units <= Full /\ buckets'[k].at <= now'
          OBVIOUS
        <4>1. CASE k = i
          BY <1>1, <2>1, <2>2, <4>1, FullNat
        <4>2. CASE k # i
          <5>1. k \in 1 .. Len(buckets) /\ buckets'[k] = buckets[k]
            BY <1>1, <2>2, <4>2
          <5> QED
            BY <1>1, <2>1, <5>1, BucketType
        <4> QED
          BY <4>1, <4>2
      <3>4. limiters' \in [Org -> Nat] /\ \A p \in Org : limiters'[p] <= Len(buckets')
        BY <1>1, <1>4, <2>1, <2>2 DEF TypeInv
      <3>5. lim' \in [Call -> Nat]
        BY <1>1, <1>4, <2>1 DEF TypeInv
      <3> QED
        BY <1>1, <2>1, <3>2, <3>3, <3>4, <3>5 DEF TypeInv
    <2>4. \A p \in Org : limiters[p] # i /\ limiters[p] \in Nat
      BY <1>1, <2>1 DEF TypeInv
    <2>5. KeyInv'
      BY <1>1, <1>4, <2>1, <2>4, LimiterAssumption DEF TypeInv, KeyInv
    <2>6. ASSUME NEW p \in Org, p # o
          PROVE  IF limiters'[p] = 0 THEN \A s \in 0 .. now' : Since(p, s)' = 0
                 ELSE Books(p, Holds(buckets[limiters[p]]))'
      <3>1. limiters'[p] = limiters[p] /\ limiters[p] \in Nat /\ limiters[p] <= Len(buckets)
        BY <1>1, <1>4, <2>1, <2>6 DEF TypeInv
      <3>2. limiters[p] # 0 => buckets'[limiters[p]] = buckets[limiters[p]]
        BY <1>1, <2>2, <3>1
      <3> QED
        BY <1>1, <1>2, <3>1, <3>2 DEF Inv, BooksInv, Books, Holds
    <2>7. Books(o, Full)'
      <3>1. Books(o, Full)
        BY <1>1, <1>4, <2>1, NewBooks DEF Inv, BooksInv
      <3> QED
        BY <1>1, <1>2, <3>1 DEF Books
    <2>8. Holds([units |-> Full, at |-> now])' = Full
      <3>1. Rate * (now - now) = 0
        BY <2>1, FullNat
      <3>2. Full + Rate * (now - now) = Full
        BY <3>1, FullNat
      <3> QED
        BY <1>1, <3>2 DEF Holds
    <2>9. BooksInv'
      <3>1. limiters'[o] = i /\ i # 0
        BY <1>1, <1>4, <2>1 DEF TypeInv
      <3>2. Books(o, Holds(buckets[limiters[o]]))'
        BY <1>1, <2>2, <2>7, <2>8, <3>1
      <3> QED
        BY <2>6, <3>1, <3>2 DEF BooksInv
    <2> QED
      BY <2>3, <2>5, <2>9 DEF Inv
  <1> QED
    BY <1>1, <1>3, <1>4 DEF FindLimiter, Key, Stores

(* Another org's bucket and books are left alone.  *)
LEMMA OthersBooks ==
    ASSUME Inv, NEW p \in Org, UNCHANGED <<now, limiters, before>>, admitted'[p] = admitted[p],
           limiters[p] # 0 => buckets'[limiters[p]] = buckets[limiters[p]]
    PROVE  IF limiters'[p] = 0 THEN \A s \in 0 .. now' : Since(p, s)' = 0
           ELSE Books(p, Holds(buckets[limiters[p]]))'
  BY DEF Inv, BooksInv, Books, Holds, Since

LEMMA AdmitStep ==
    ASSUME Inv, NEW c \in Call, Admit(c), NEW o \in Org, o = ScopeOf[c],
           NEW i \in Nat, i = lim[c], NEW h \in Nat, h = Holds(buckets[i])
    PROVE  Inv'
  <1>1. /\ i # 0 /\ h >= Unit
        /\ buckets' = [buckets EXCEPT ![i] = [units |-> h - Unit, at |-> now]]
        /\ lim' = [lim EXCEPT ![c] = 0]
        /\ admitted' = [admitted EXCEPT ![o] = @ + 1]
        /\ UNCHANGED <<now, limiters, before>>
    BY DEF Admit
  <1>2. /\ i = limiters[o] /\ i \in 1 .. Len(buckets)
        /\ h <= Full /\ Books(o, h)
    BY <1>1, AskedBucket
  <1>3. TypeInv /\ KeyInv /\ now \in Nat /\ buckets \in Seq(Held)
    BY DEF Inv, TypeInv
  <1>4. /\ Len(buckets') = Len(buckets) /\ buckets'[i] = [units |-> h - Unit, at |-> now]
        /\ \A k \in 1 .. Len(buckets) : k # i => buckets'[k] = buckets[k]
    BY <1>1, <1>2, <1>3
  <1>5. h - Unit \in Nat /\ h - Unit <= Full
    BY <1>1, <1>2, FullNat
  <1>6. TypeInv'
    <2>1. [units |-> h - Unit, at |-> now] \in Held
      BY <1>3, <1>5 DEF Held
    <2>2. buckets' \in Seq(Held)
      BY <1>1, <1>2, <1>3, <2>1
    <2>3. ASSUME NEW k \in 1 .. Len(buckets') PROVE buckets'[k].units <= Full /\ buckets'[k].at <= now'
      <3>1. CASE k = i
        BY <1>1, <1>3, <1>4, <1>5, <3>1
      <3>2. CASE k # i
        BY <1>1, <1>3, <1>4, <3>2, BucketType
      <3> QED
        BY <3>1, <3>2
    <2>4. admitted' \in [Org -> Nat] /\ lim' \in [Call -> Nat]
      BY <1>1, <1>2, <1>3 DEF TypeInv
    <2> QED
      BY <1>1, <1>3, <1>4, <2>2, <2>3, <2>4 DEF TypeInv
  <1>7. KeyInv'
    BY <1>1, <1>3 DEF KeyInv, TypeInv
  <1>8. ASSUME NEW p \in Org, p # o
        PROVE  IF limiters'[p] = 0 THEN \A s \in 0 .. now' : Since(p, s)' = 0
               ELSE Books(p, Holds(buckets[limiters[p]]))'
    <2>1. admitted'[p] = admitted[p]
      BY <1>1, <1>3, <1>8 DEF TypeInv
    <2>2. limiters[p] # 0 => limiters[p] \in 1 .. Len(buckets) /\ limiters[p] # i
      BY <1>2, <1>3, <1>8 DEF TypeInv, KeyInv
    <2> QED
      BY <1>1, <1>4, <1>8, <2>1, <2>2, OthersBooks
  <1>9. Holds([units |-> h - Unit, at |-> now])' = h - Unit
    <2>1. Rate * (now - now) = 0
      BY <1>3, FullNat
    <2>2. h - Unit + Rate * (now - now) = h - Unit
      BY <1>5, <2>1
    <2> QED
      BY <1>1, <1>5, <2>2, FullNat DEF Holds
  <1>10. Books(o, h - Unit)'
    <2>1. \A s \in 0 .. now : Since(o, s) \in Int /\ Since(o, s)' = Since(o, s) + 1
      <3> SUFFICES ASSUME NEW s \in 0 .. now
                   PROVE  Since(o, s) \in Int /\ Since(o, s)' = Since(o, s) + 1
        OBVIOUS
      <3>1. /\ admitted[o] \in Nat /\ admitted'[o] = admitted[o] + 1
            /\ before[o] \in Seq(Nat) /\ s + 1 \in 1 .. Len(before[o])
        BY <1>1, <1>2, <1>3, SinceType DEF TypeInv
      <3>2. PICK x \in Nat : x = before[o][s + 1]
        BY <3>1
      <3>3. before'[o][s + 1] = x
        BY <1>1, <3>2
      <3>4. Since(o, s) = admitted[o] - x /\ Since(o, s)' = admitted'[o] - x
        BY <3>2, <3>3 DEF Since
      <3> QED
        BY <3>1, <3>4
    <2>2. \A s \in 0 .. now : Since(o, s)' * Unit + (h - Unit) = Since(o, s) * Unit + h
      <3> SUFFICES ASSUME NEW s \in 0 .. now
                   PROVE  Since(o, s)' * Unit + (h - Unit) = Since(o, s) * Unit + h
        OBVIOUS
      <3>1. PICK n \in Int : n = Since(o, s) /\ Since(o, s)' = n + 1
        BY <2>1
      <3>2. (n + 1) * Unit + (h - Unit) = n * Unit + h
        BY <1>2, FullNat
      <3> QED
        BY <3>1, <3>2
    <2> QED
      BY <1>1, <1>2, <2>2 DEF Books
  <1>11. BooksInv'
    <2>1. Books(o, Holds(buckets[limiters[o]]))' /\ limiters'[o] # 0
      BY <1>1, <1>2, <1>4, <1>9, <1>10
    <2> QED
      BY <1>8, <2>1 DEF BooksInv
  <1> QED
    BY <1>6, <1>7, <1>11 DEF Inv

LEMMA AdmitInv ==
    ASSUME Inv, NEW c \in Call, Admit(c)
    PROVE  Inv'
  BY AskedBucket, AdmitStep DEF Admit, Inv, TypeInv

LEMMA RefuseInv ==
    ASSUME Inv, NEW c \in Call, Refuse(c)
    PROVE  Inv'
  <1>1. lim' = [lim EXCEPT ![c] = 0] /\ UNCHANGED <<now, limiters, buckets, admitted, before>>
    BY DEF Refuse
  <1>2. TypeInv' /\ KeyInv'
    BY <1>1 DEF Inv, TypeInv, KeyInv
  <1>3. BooksInv'
    BY <1>1 DEF Inv, BooksInv, Books, Holds, Since
  <1> QED
    BY <1>2, <1>3 DEF Inv

(* With a tick a bucket gains what the rate adds, or is full.  *)
LEMMA Refills ==
    ASSUME TypeInv, now' = now + 1, NEW b \in Held, b.units <= Full, b.at <= now
    PROVE  /\ Holds(b) \in Nat /\ Holds(b)' \in Nat /\ Holds(b)' <= Full
           /\ Holds(b)' <= Holds(b) + Rate
           /\ Holds(b)' = Full \/ Holds(b)' = Holds(b) + Rate
  <1>1. now \in Nat /\ b.units \in Nat /\ b.at \in Nat
    BY DEF TypeInv, Held
  <1>2. Rate * (now' - b.at) = Rate * (now - b.at) + Rate /\ Rate * (now - b.at) \in Nat
    BY <1>1, FullNat
  <1> QED
    BY <1>1, <1>2, FullNat DEF Holds

LEMMA TickInv ==
    ASSUME Inv, Tick
    PROVE  Inv'
  <1>1. /\ now' = now + 1 /\ before' = [o \in Org |-> Append(before[o], admitted[o])]
        /\ UNCHANGED <<limiters, buckets, lim, admitted>>
    BY DEF Tick
  <1>2. TypeInv /\ KeyInv /\ BooksInv /\ now \in Nat
    BY DEF Inv, TypeInv
  <1>3. \A o \in Org : /\ before[o] \in Seq(Nat) /\ Len(before[o]) = now + 1 /\ admitted[o] \in Nat
                       /\ before'[o] = Append(before[o], admitted[o])
    BY <1>1, <1>2 DEF TypeInv
  <1>4. TypeInv'
    <2>1. \A o \in Org : before'[o] \in Seq(Nat) /\ Len(before'[o]) = now' + 1
      BY <1>1, <1>2, <1>3
    <2>2. \A i \in 1 .. Len(buckets) : buckets'[i].units <= Full /\ buckets'[i].at <= now'
      <3> SUFFICES ASSUME NEW i \in 1 .. Len(buckets)
                   PROVE  buckets'[i].units <= Full /\ buckets'[i].at <= now'
        OBVIOUS
      <3>1. buckets[i] \in Held /\ buckets[i].units <= Full /\ buckets[i].at <= now
        BY <1>2, BucketType
      <3> QED
        BY <1>1, <1>2, <3>1 DEF Held
    <2> QED
      BY <1>1, <1>2, <2>1, <2>2 DEF TypeInv
  <1>5. KeyInv'
    BY <1>1, <1>2 DEF KeyInv
  <1>. PICK t \in Nat : t = now + 1
    BY <1>2
  <1>6. ASSUME NEW o \in Org
        PROVE  /\ \A s \in 0 .. now : Since(o, s)' = Since(o, s) /\ Since(o, s) \in Int
               /\ Since(o, t)' = 0
    <2>1. \A s \in 0 .. now : before'[o][s + 1] = before[o][s + 1]
      BY <1>2, <1>3
    <2>2. before'[o][t + 1] = admitted[o]
      BY <1>2, <1>3
    <2>3. ASSUME NEW s \in 0 .. now PROVE Since(o, s)' = Since(o, s)
      BY <1>1, <2>1 DEF Since
    <2>4. Since(o, t)' = admitted[o] - admitted[o]
      BY <1>1, <2>2 DEF Since
    <2> QED
      BY <1>2, <1>3, <2>3, <2>4, SinceType
  <1>7. ASSUME NEW o \in Org, limiters[o] # 0, NEW b \in Held, b = buckets[limiters[o]],
               b.units <= Full, b.at <= now
        PROVE  Books(o, Holds(b))'
    <2>1. Books(o, Holds(b))
      BY <1>2, <1>7 DEF BooksInv
    <2>2. PICK h \in Nat : h = Holds(b)
      BY <1>1, <1>2, <1>7, Refills
    <2>3. PICK g \in Nat : g = Holds(b)' /\ g <= Full /\ g <= h + Rate /\ (g = Full \/ g = h + Rate)
      BY <1>1, <1>2, <1>7, <2>2, Refills
    <2>4. \A s \in 0 .. now : Rate * (now' - s) = Rate * (now - s) + Rate
      BY <1>1, <1>2, FullNat
    <2>5. Rate * (now' - t) = 0
      BY <1>1, <1>2, FullNat
    <2>6. \A s \in 0 .. now' : Since(o, s)' * Unit + g <= Full + Rate * (now' - s)
      <3> SUFFICES ASSUME NEW s \in 0 .. now'
                   PROVE  Since(o, s)' * Unit + g <= Full + Rate * (now' - s)
        OBVIOUS
      <3>1. CASE s = t
        <4>1. Since(o, s)' = 0
          BY <1>6, <3>1
        <4>2. 0 * Unit + g <= Full + Rate * (now' - s)
          BY <2>3, <2>5, <3>1, FullNat
        <4> QED
          BY <4>1, <4>2
      <3>2. CASE s \in 0 .. now
        <4>1. Since(o, s) * Unit + h <= Full + Rate * (now - s)
          BY <2>1, <2>2, <3>2 DEF Books
        <4>2. PICK n \in Int : n = Since(o, s) /\ n = Since(o, s)'
          BY <1>6, <3>2
        <4>3. n * Unit \in Int /\ Rate * (now - s) \in Int
          BY <1>2, FullNat
        <4> QED
          BY <2>3, <2>4, <3>2, <4>1, <4>2, <4>3, FullNat
      <3> QED
        BY <1>1, <1>2, <3>1, <3>2
    <2>7. \E s \in 0 .. now' : Since(o, s)' * Unit + g >= Full + Rate * (now' - s)
      <3>1. CASE g = Full
        <4>1. Since(o, t)' = 0 /\ t \in 0 .. now'
          BY <1>1, <1>2, <1>6
        <4>2. 0 * Unit + g >= Full + Rate * (now' - t)
          BY <2>3, <2>5, <3>1, FullNat
        <4> QED
          BY <4>1, <4>2
      <3>2. CASE g = h + Rate
        <4>1. PICK s \in 0 .. now : Since(o, s) * Unit + h >= Full + Rate * (now - s)
          BY <2>1, <2>2 DEF Books
        <4>2. PICK n \in Int : n = Since(o, s) /\ n = Since(o, s)'
          BY <1>6
        <4>3. n * Unit \in Int /\ Rate * (now - s) \in Int
          BY <1>2, FullNat
        <4>4. Since(o, s)' * Unit + g >= Full + Rate * (now' - s)
          BY <2>4, <3>2, <4>1, <4>2, <4>3, FullNat
        <4> QED
          BY <1>1, <1>2, <4>4
      <3> QED
        BY <2>3, <3>1, <3>2
    <2> QED
      BY <2>3, <2>6, <2>7 DEF Books
  <1>8. BooksInv'
    <2> SUFFICES ASSUME NEW o \in Org
                 PROVE  IF limiters'[o] = 0 THEN \A s \in 0 .. now' : Since(o, s)' = 0
                        ELSE Books(o, Holds(buckets[limiters[o]]))'
      BY DEF BooksInv
    <2>1. CASE limiters[o] = 0
      <3>1. \A s \in 0 .. now' : s \in 0 .. now \/ s = t
        BY <1>1, <1>2
      <3>2. \A s \in 0 .. now' : Since(o, s)' = 0
        BY <1>2, <1>6, <2>1, <3>1 DEF BooksInv
      <3> QED
        BY <1>1, <2>1, <3>2
    <2>2. CASE limiters[o] # 0
      <3>1. limiters[o] \in 1 .. Len(buckets)
        BY <1>2, <2>2 DEF TypeInv
      <3>2. PICK b \in Held : b = buckets[limiters[o]] /\ b.units <= Full /\ b.at <= now
        BY <1>2, <3>1, BucketType
      <3>3. Books(o, Holds(b))'
        BY <1>7, <2>2, <3>2
      <3>4. b = buckets'[limiters'[o]]
        BY <1>1, <3>2
      <3> QED
        BY <1>1, <2>2, <3>3, <3>4
    <2> QED
      BY <2>1, <2>2
  <1> QED
    BY <1>4, <1>5, <1>8 DEF Inv

LEMMA NextInv == Inv /\ [LimiterNext]_limiterVars => Inv'
  <1>1. Inv /\ UNCHANGED limiterVars => Inv'
    BY DEF limiterVars, Inv, TypeInv, KeyInv, BooksInv, Books, Holds, Since
  <1> QED
    BY <1>1, TickInv, FindInv, AdmitInv, RefuseInv DEF LimiterNext

LEMMA Invariance == LimiterSpec => []Inv
  <1> QED
    BY InitInv, NextInv, PTL DEF LimiterSpec

(* README.md 814, observability.go 88: however many calls interleave, an   *)
(* org gets no more through in any stretch of time than its budget.        *)
THEOREM BudgetKept == LimiterSpec => []WithinBudget
  <1>1. Inv => WithinBudget
    <2> SUFFICES ASSUME Inv, NEW o \in Org, NEW s \in 0 .. now
                 PROVE  Since(o, s) * Unit <= Full + Rate * (now - s)
      BY DEF WithinBudget
    <2>1. now \in Nat /\ TypeInv
      BY DEF Inv, TypeInv
    <2>2. PICK n \in Int : n = Since(o, s)
      BY <2>1, SinceType
    <2>3. Rate * (now - s) \in Nat /\ n * Unit \in Int
      BY <2>1, FullNat
    <2>4. CASE limiters[o] = 0
      <3>1. n = 0
        BY <2>2, <2>4 DEF Inv, BooksInv
      <3> QED
        BY <2>2, <2>3, <3>1, FullNat
    <2>5. CASE limiters[o] # 0
      <3>1. limiters[o] \in 1 .. Len(buckets)
        BY <2>1, <2>5 DEF TypeInv
      <3>2. PICK h \in Nat : h = Holds(buckets[limiters[o]])
        BY <2>1, <3>1, BucketType, HoldsType
      <3>3. n * Unit + h <= Full + Rate * (now - s)
        BY <2>2, <2>5, <3>2 DEF Inv, BooksInv, Books
      <3> QED
        BY <2>2, <2>3, <3>3, FullNat
    <2> QED
      BY <2>4, <2>5
  <1> QED
    BY <1>1, Invariance, PTL

(* observability.go 103-108: no org's calls are refused for another's.  *)
THEOREM NoneRefusedForOthers == LimiterSpec => RefusedForItsOwn
  <1>1. ASSUME Inv, NEW c \in Call, Refuse(c) PROVE UsedUp(ScopeOf[c])
    <2>1. /\ ScopeOf[c] \in Org /\ Books(ScopeOf[c], Holds(buckets[lim[c]]))
          /\ Holds(buckets[lim[c]]) \in Nat /\ Holds(buckets[lim[c]]) < Unit
      BY <1>1, AskedBucket DEF Refuse
    <2>2. PICK h \in Nat : h = Holds(buckets[lim[c]])
      BY <2>1
    <2>3. PICK s \in 0 .. now : Since(ScopeOf[c], s) * Unit + h >= Full + Rate * (now - s)
      BY <2>1, <2>2 DEF Books
    <2>4. now \in Nat /\ TypeInv
      BY <1>1 DEF Inv, TypeInv
    <2>5. PICK n \in Int : n = Since(ScopeOf[c], s)
      BY <2>1, <2>4, SinceType
    <2>6. Rate * (now - s) \in Int /\ n * Unit \in Int /\ (n + 1) * Unit = n * Unit + Unit
      BY <2>4, FullNat
    <2>7. (Since(ScopeOf[c], s) + 1) * Unit > Full + Rate * (now - s)
      BY <2>1, <2>2, <2>3, <2>5, <2>6, FullNat
    <2> QED
      BY <2>7 DEF UsedUp
  <1>2. Inv /\ [LimiterNext]_limiterVars
          => [\A c \in Call : Refuse(c) => UsedUp(ScopeOf[c])]_limiterVars
    BY <1>1
  <1> QED
    BY <1>2, Invariance, PTL DEF LimiterSpec, RefusedForItsOwn
=============================================================================
