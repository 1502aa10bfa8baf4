-------------------------- MODULE RateLimitProofs --------------------------
(***************************************************************************)
(* Proofs about RateLimit, for any capacity, period and lifetime of keys,  *)
(* and any number of requests, as far as they are not delayed longer than  *)
(* an empty bucket takes to fill.                                          *)
(***************************************************************************)
EXTENDS RateLimit, TLAPS

(* A request's reading is at most MaxDelay old.                            *)
ReadingsOK ==
  \A r \in Request :
    reading[r] # Idle => reading[r] <= clock /\ clock <= reading[r] + MaxDelay

(* A key lives until its bucket would have been filled twice; without one  *)
(* the bucket is full.                                                     *)
BucketOK ==
  /\ bucket.exists => bucket.updatedAt <= clock /\ bucket.updatedAt + TTL <= bucket.expiresAt
  /\ ~bucket.exists => bucket = NoBucket

(* The accounts begin with the first reading.                              *)
AccountsOK ==
  /\ since = Never => spent = 0 /\ regained = 0 /\ ~bucket.exists
  /\ since # Never => since <= clock

IInv == TypeOK /\ ReadingsOK /\ BucketOK /\ AccountsOK /\ NoFreeTokens /\ WaitIsEnough

---------------------------------------------------------------------------
(* Dividing and multiplying again loses less than the divisor.             *)
LEMMA Division ==
  ASSUME NEW n \in Nat, NEW d \in Nat \ {0}
  PROVE  /\ n \div d \in Nat
         /\ d * (n \div d + 1) \in Nat
         /\ n < d * (n \div d + 1)
OBVIOUS

(* What the rules and the lifetime of a key come to.                       *)
LEMMA Constants ==
  /\ Period \in Nat \ {0}
  /\ Full \in Nat
  /\ Period <= Full
  /\ MaxDelay \in Nat
  /\ MaxDelay <= Full
  /\ TTL \in Nat
  /\ 2 * Full < TTL
  /\ MaxTime \in Nat
<1>1. Capacity \in Nat \ {0} /\ Period \in Nat \ {0} /\ Second \in Nat \ {0} /\ MinTTL \in Nat
      /\ MaxTime \in Nat /\ MaxDelay \in 0..Full
  BY RateAssumption DEF RuleFits, Full
<1>2. Full \in Nat /\ Period <= Full
  BY <1>1 DEF Full
<1>3. 2 * Full \in Nat
  BY <1>2
<1>4. WholeTTL \in Nat /\ Second * WholeTTL \in Nat /\ 2 * Full < Second * WholeTTL
  BY <1>1, <1>3, Division DEF WholeTTL
<1>5. CASE WholeTTL < MinTTL
  <2>1. Second * WholeTTL <= Second * MinTTL /\ Second * MinTTL \in Nat
    BY <1>1, <1>4, <1>5
  <2> QED
    BY <1>1, <1>2, <1>4, <1>5, <2>1 DEF TTL
<1>6. CASE ~(WholeTTL < MinTTL)
  BY <1>1, <1>2, <1>4, <1>6 DEF TTL
<1> QED
  BY <1>5, <1>6

(* The header is cut to whole seconds, so that one second more is enough.  *)
LEMMA HeaderIsShort ==
  ASSUME NEW n \in Nat
  PROVE  Second * (HeaderSeconds(n) + 1) \in Nat /\ n <= Second * (HeaderSeconds(n) + 1)
<1>1. Second \in Nat \ {0}
  BY RateAssumption
<1>2. n \div Second \in Nat /\ Second * (n \div Second + 1) \in Nat
      /\ n < Second * (n \div Second + 1)
  BY <1>1, Division
<1>3. CASE n \div Second <= 0
  <2>1. n \div Second = 0 /\ HeaderSeconds(n) = 1
    BY <1>2, <1>3 DEF HeaderSeconds
  <2> QED
    BY <1>1, <1>2, <2>1
<1>4. CASE ~(n \div Second <= 0)
  BY <1>2, <1>4 DEF HeaderSeconds
<1> QED
  BY <1>3, <1>4

---------------------------------------------------------------------------
(* The script *)

(* What a bucket that exists or not gives at a reading of the clock.       *)
LEMMA Script ==
  ASSUME TypeOK, NEW now \in Nat
  PROVE  /\ Elapsed(now) \in Nat
         /\ Refilled(now) \in 0..Full
         /\ Refilled(now) <= bucket.tokens + Elapsed(now)
         /\ Left(now) \in 0..Full
         /\ Allowed(now) => Left(now) + Period = Refilled(now)
         /\ ~Allowed(now) => Left(now) = Refilled(now) /\ Refilled(now) < Period
         /\ ~Allowed(now) => Refilled(now) = bucket.tokens + Elapsed(now)
<1>1. bucket.tokens \in 0..Full /\ bucket.updatedAt \in Nat /\ bucket.exists \in BOOLEAN
  BY Constants DEF TypeOK, Time
<1>2. Elapsed(now) \in Nat
  BY <1>1 DEF Elapsed
<1> QED
  BY <1>1, <1>2, Constants DEF Refilled, Allowed, Left

LEMMA InitIInv == Init => IInv
<1> SUFFICES ASSUME Init PROVE IInv
  OBVIOUS
<1>1. TypeOK
  BY Constants DEF Init, TypeOK, NoBucket, Time, Idle, Never
<1> QED
  BY <1>1 DEF Init, IInv, ReadingsOK, BucketOK, AccountsOK, NoFreeTokens, WaitIsEnough,
              NoBucket, Idle, Never

(* Taking keeps the types.                                                 *)
LEMMA TakeTypes ==
  ASSUME IInv, NEW r \in Request, Take(r)
  PROVE  TypeOK'
<1> DEFINE now == reading[r]
<1>1. now \in Time /\ now \in Nat /\ now # Idle /\ clock \in Time /\ TypeOK
  BY Constants DEF IInv, TypeOK, Take, Time, Idle
<1> HIDE DEF now
<1>2. bucket' = [exists |-> TRUE, tokens |-> Left(now), updatedAt |-> now,
                 expiresAt |-> clock + TTL]
      /\ Book(now) /\ reading' = [reading EXCEPT ![r] = Idle] /\ clock' = clock
  BY DEF Take, Stamp, now
<1>3. bucket' \in [exists : BOOLEAN, tokens : 0..Full, updatedAt : Time,
                   expiresAt : 0..MaxTime + TTL]
  BY <1>1, <1>2, Script, Constants DEF Time
<1>4. reading' \in [Request -> Time \cup {Idle}]
  BY <1>1, <1>2 DEF TypeOK
<1>5. since' \in Time \cup {Never} /\ spent' \in Nat
  BY <1>1, <1>2 DEF Book, TypeOK
<1>6. regained' \in Nat
  <2>1. bucket.updatedAt \in Nat /\ regained \in Nat
    BY <1>1, Constants DEF TypeOK, Time
  <2> QED
    BY <1>1, <1>2, <2>1 DEF Book
<1>7. promise' \in Nat \cup {Never}
  <2>1. promise \in Nat \cup {Never}
    BY <1>1 DEF TypeOK
  <2>2. CASE Allowed(now)
    BY <1>2, <2>2 DEF Book
  <2>3. CASE ~Allowed(now)
    <3> DEFINE again == now + Second * (HeaderSeconds(RetryAfter(now)) + 1)
    <3>1. RetryAfter(now) \in Nat
      BY <1>1, <2>3, Script, Constants DEF RetryAfter
    <3>2. again \in Nat
      BY <1>1, <3>1, HeaderIsShort
    <3>3. promise' = promise \/ promise' = again
      BY <1>2, <2>3 DEF Book
    <3> QED
      BY <2>1, <3>2, <3>3
  <2> QED
    BY <2>2, <2>3
<1> QED
  BY <1>1, <1>2, <1>3, <1>4, <1>5, <1>6, <1>7 DEF TypeOK

(* The ledger at a script's run.                                           *)
LEMMA TakeLedger ==
  ASSUME IInv, NEW r \in Request, Take(r)
  PROVE  NoFreeTokens' /\ AccountsOK'
<1> DEFINE now == reading[r]
<1>1. /\ now \in Nat /\ now # Idle /\ clock \in Nat /\ TypeOK
      /\ now <= clock /\ clock <= now + MaxDelay
  BY Constants DEF IInv, TypeOK, ReadingsOK, Take, Time, Idle
<1> HIDE DEF now
<1>2. /\ bucket'.exists /\ bucket'.tokens = Left(now) /\ bucket'.updatedAt = now
      /\ Book(now) /\ clock' = clock
  BY DEF Take, Stamp, now
<1>3. /\ spent \in Nat /\ regained \in Nat /\ bucket.tokens \in Nat
      /\ bucket.updatedAt \in Nat /\ bucket.exists \in BOOLEAN /\ since \in Nat \cup {Never}
  BY <1>1, Constants DEF TypeOK, Time
<1>4. /\ since' = IF since = Never THEN now ELSE since
      /\ regained' = regained + (IF bucket.exists /\ now < bucket.updatedAt
                                   THEN bucket.updatedAt - now ELSE 0)
      /\ spent' = IF Allowed(now) THEN spent + 1 ELSE spent
  BY <1>2 DEF Book
<1>5. Period * spent' + Left(now) = Period * spent + Refilled(now)
  <2>1. Period * (spent + 1) = Period * spent + Period
    BY <1>3, Constants
  <2>2. Period * spent \in Nat
    BY <1>3, Constants
  <2>3. Left(now) \in Nat /\ Refilled(now) \in Nat
    BY <1>1, Script, Constants
  <2>4. CASE Allowed(now)
    BY <1>1, <1>4, <2>1, <2>2, <2>3, <2>4, Script, Constants
  <2>5. CASE ~Allowed(now)
    BY <1>1, <1>4, <2>2, <2>3, <2>5, Script, Constants
  <2> QED
    BY <2>4, <2>5
<1>6. since' # Never /\ since' \in Nat /\ since' <= clock'
  BY <1>1, <1>2, <1>3, <1>4 DEF IInv, AccountsOK, Never
<1>7. Period * spent + Refilled(now) <= Full + (now - since') + regained'
  <2> DEFINE ps == Period * spent
  <2>1. ps \in Nat
    BY <1>3, Constants
  <2>2. Refilled(now) \in 0..Full /\ Refilled(now) <= bucket.tokens + Elapsed(now)
    BY <1>1, Script
  <2>3. CASE ~bucket.exists /\ since = Never
    <3>1. ps = 0 /\ regained = 0
      BY <2>3, Constants DEF IInv, AccountsOK
    <3> QED
      BY <1>1, <1>4, <2>2, <2>3, <3>1, Constants
  <2>4. CASE ~bucket.exists /\ since # Never
    <3>1. ps <= (clock - MaxDelay - since) + regained
      BY <2>4 DEF IInv, NoFreeTokens
    <3> HIDE DEF ps
    <3>2. ps + Refilled(now) <= Full + (now - since') + regained'
      BY <1>1, <1>3, <1>4, <2>1, <2>2, <2>4, <3>1, Constants
    <3> QED
      BY <3>2 DEF ps
  <2>5. CASE bucket.exists
    <3>1. since # Never
      BY <2>5 DEF IInv, AccountsOK
    <3>2. ps + bucket.tokens <= Full + (bucket.updatedAt - since) + regained
      BY <2>5, <3>1 DEF IInv, NoFreeTokens
    <3>3. Elapsed(now) = IF bucket.updatedAt < now THEN now - bucket.updatedAt ELSE 0
      BY <2>5 DEF Elapsed
    <3> HIDE DEF ps
    <3>4. ps + Refilled(now) <= Full + (now - since') + regained'
      BY <1>1, <1>3, <1>4, <2>1, <2>2, <2>5, <3>1, <3>2, <3>3, Constants
    <3> QED
      BY <3>4 DEF ps
  <2> QED
    BY <2>3, <2>4, <2>5, <1>3
<1>8. NoFreeTokens'
  BY <1>2, <1>5, <1>6, <1>7 DEF NoFreeTokens
<1>9. AccountsOK'
  BY <1>2, <1>6 DEF AccountsOK
<1> QED
  BY <1>8, <1>9

(* A promise made before or now is kept after the script's run.            *)
LEMMA TakePromise ==
  ASSUME IInv, NEW r \in Request, Take(r)
  PROVE  WaitIsEnough'
<1> DEFINE now == reading[r]
<1>1. now \in Nat /\ now # Idle /\ TypeOK
  BY Constants DEF IInv, TypeOK, ReadingsOK, Take, Time, Idle
<1> HIDE DEF now
<1>2. /\ bucket'.exists /\ bucket'.tokens = Left(now) /\ bucket'.updatedAt = now /\ Book(now)
  BY DEF Take, Stamp, now
<1>3. CASE Allowed(now)
  <2>1. promise' = Never
    BY <1>2, <1>3 DEF Book
  <2> QED
    BY <2>1 DEF WaitIsEnough
<1>4. CASE ~Allowed(now)
  <2> DEFINE wait == Second * (HeaderSeconds(RetryAfter(now)) + 1)
             again == now + wait
  <2>1. /\ bucket.tokens \in Nat /\ bucket.updatedAt \in Nat /\ bucket.exists \in BOOLEAN
        /\ promise \in Nat \cup {Never}
    BY <1>1, Constants DEF TypeOK, Time
  <2>2. /\ Refilled(now) \in Nat /\ Refilled(now) < Period /\ Left(now) = Refilled(now)
        /\ Refilled(now) = bucket.tokens + Elapsed(now) /\ RetryAfter(now) \in Nat
    BY <1>1, <1>4, Script, Constants DEF RetryAfter
  <2>3. wait \in Nat /\ Period - Refilled(now) <= wait
    BY <2>2, HeaderIsShort DEF RetryAfter
  <2>4. promise' = IF promise = Never \/ again < promise THEN again ELSE promise
    BY <1>2, <1>4 DEF Book
  <2> HIDE DEF wait
  <2>5. Allowed(promise)' <=>
          LET refilled == Left(now) + (IF now < promise' THEN promise' - now ELSE 0)
          IN  (IF refilled < Full THEN refilled ELSE Full) >= Period
    BY <1>2 DEF Allowed, Refilled, Elapsed
  <2>6. ASSUME promise' = again PROVE Allowed(promise)'
    BY <1>1, <2>1, <2>2, <2>3, <2>5, <2>6, Constants
  <2>7. ASSUME promise' = promise, promise # Never PROVE Allowed(promise)'
    <3>1. Allowed(promise)
      BY <2>7 DEF IInv, WaitIsEnough
    <3>2. bucket.tokens + Elapsed(promise) >= Period
      BY <2>1, <2>7, <1>1, <3>1, Script, Constants DEF Allowed, Refilled
    <3> QED
      BY <1>1, <2>1, <2>2, <2>5, <2>7, <3>2, Constants DEF Elapsed
  <2> QED
    BY <2>4, <2>6, <2>7 DEF WaitIsEnough
<1> QED
  BY <1>3, <1>4

---------------------------------------------------------------------------
LEMMA StepIInv == IInv /\ [Next]_vars => IInv'
<1> SUFFICES ASSUME IInv, [Next]_vars PROVE IInv'
  OBVIOUS
<1> USE DEF IInv
<1>1. ASSUME NEW r \in Request, Send(r) PROVE IInv'
  <2>1. clock \in Time /\ clock \in Nat /\ reading \in [Request -> Time \cup {Idle}]
    BY Constants DEF TypeOK, Time
  <2>2. reading' = [reading EXCEPT ![r] = clock]
        /\ UNCHANGED <<clock, bucket, spent, since, regained, promise>>
    BY <1>1 DEF Send
  <2>3. TypeOK'
    BY <2>1, <2>2 DEF TypeOK
  <2>4. ReadingsOK'
    BY <2>1, <2>2, Constants DEF ReadingsOK
  <2>5. BucketOK' /\ AccountsOK'
    BY <2>2 DEF BucketOK, AccountsOK
  <2>6. NoFreeTokens' /\ WaitIsEnough'
    BY <2>2 DEF NoFreeTokens, WaitIsEnough, Allowed, Refilled, Elapsed
  <2> QED
    BY <2>3, <2>4, <2>5, <2>6
<1>2. ASSUME NEW r \in Request, Take(r) PROVE IInv'
  <2>1. reading' = [reading EXCEPT ![r] = Idle] /\ clock' = clock
    BY <1>2 DEF Take
  <2>2. ReadingsOK'
    BY <2>1 DEF ReadingsOK, TypeOK
  <2>3. BucketOK'
    <3>1. /\ reading[r] \in Nat /\ clock \in Nat
          /\ reading[r] <= clock
      BY <1>2, Constants DEF Take, ReadingsOK, TypeOK, Time, Idle
    <3>2. /\ bucket'.exists /\ bucket'.updatedAt = reading[r]
          /\ bucket'.expiresAt = clock + TTL
      BY <1>2 DEF Take, Stamp
    <3> QED
      BY <2>1, <3>1, <3>2, Constants DEF BucketOK
  <2> QED
    BY <1>2, <2>2, <2>3, TakeTypes, TakeLedger, TakePromise
<1>3. ASSUME NEW r \in Request, Unavailable(r) PROVE IInv'
  <2>1. reading' = [reading EXCEPT ![r] = Idle]
        /\ UNCHANGED <<clock, bucket, spent, since, regained, promise>>
    BY <1>3 DEF Unavailable
  <2>2. TypeOK' /\ ReadingsOK'
    BY <2>1 DEF TypeOK, ReadingsOK
  <2>3. BucketOK' /\ AccountsOK' /\ NoFreeTokens' /\ WaitIsEnough'
    BY <2>1 DEF BucketOK, AccountsOK, NoFreeTokens, WaitIsEnough, Allowed, Refilled, Elapsed
  <2> QED
    BY <2>2, <2>3
<1>4. ASSUME Expire PROVE IInv'
  <2>1. /\ bucket.exists /\ bucket.expiresAt <= clock /\ bucket' = NoBucket
        /\ promise' = Never /\ UNCHANGED <<clock, reading, spent, since, regained>>
    BY <1>4 DEF Expire
  <2>2. TypeOK'
    BY <2>1, Constants DEF TypeOK, NoBucket, Time
  <2>3. ReadingsOK' /\ BucketOK' /\ AccountsOK' /\ WaitIsEnough'
    BY <2>1 DEF ReadingsOK, BucketOK, AccountsOK, WaitIsEnough, NoBucket
  <2>4. NoFreeTokens'
    <3> DEFINE ps == Period * spent
    <3>1. /\ spent \in Nat /\ regained \in Nat /\ bucket.tokens \in Nat /\ clock \in Nat
          /\ bucket.updatedAt \in Nat /\ bucket.expiresAt \in Nat /\ since \in Nat \cup {Never}
      BY Constants DEF TypeOK, Time
    <3>2. ps \in Nat
      BY <3>1, Constants
    <3>3. bucket.updatedAt + TTL <= clock
      BY <2>1, <3>1, Constants DEF BucketOK
    <3>4. since # Never => ps + bucket.tokens <= Full + (bucket.updatedAt - since) + regained
      BY <2>1 DEF NoFreeTokens
    <3> HIDE DEF ps
    <3>5. since # Never => ps <= (clock - MaxDelay - since) + regained
      BY <3>1, <3>2, <3>3, <3>4, Constants
    <3> QED
      BY <2>1, <3>5 DEF NoFreeTokens, NoBucket, ps
  <2> QED
    BY <2>2, <2>3, <2>4
<1>5. ASSUME Reset PROVE IInv'
  <2>1. /\ bucket' = NoBucket /\ spent' = 0 /\ since' = Never /\ regained' = 0
        /\ promise' = Never /\ UNCHANGED <<clock, reading>>
    BY <1>5 DEF Reset
  <2>2. TypeOK'
    BY <2>1, Constants DEF TypeOK, NoBucket, Time
  <2> QED
    BY <2>1, <2>2 DEF ReadingsOK, BucketOK, AccountsOK, WaitIsEnough, NoFreeTokens, NoBucket
<1>6. ASSUME Tick PROVE IInv'
  <2>1. /\ clock < MaxTime /\ clock' = clock + 1
        /\ \A r \in Request : reading[r] # Idle => clock < reading[r] + MaxDelay
        /\ UNCHANGED <<bucket, reading, spent, since, regained, promise>>
    BY <1>6 DEF Tick
  <2>2. clock \in Nat /\ clock' \in Nat
    BY <2>1, Constants DEF TypeOK, Time
  <2>3. TypeOK'
    BY <2>1, <2>2, Constants DEF TypeOK, Time
  <2>4. ReadingsOK'
    <3> SUFFICES ASSUME NEW r \in Request, reading[r] # Idle
                 PROVE  reading[r] <= clock + 1 /\ clock + 1 <= reading[r] + MaxDelay
      BY <2>1 DEF ReadingsOK
    <3>1. reading[r] \in Nat
      BY Constants DEF TypeOK, Time
    <3> QED
      BY <2>1, <2>2, <3>1, Constants DEF ReadingsOK
  <2>5. BucketOK' /\ AccountsOK'
    <3>1. bucket.updatedAt \in Nat /\ since \in Nat \cup {Never}
      BY Constants DEF TypeOK, Time
    <3> QED
      BY <2>1, <2>2, <3>1 DEF BucketOK, AccountsOK
  <2>6. WaitIsEnough'
    BY <2>1 DEF WaitIsEnough, Allowed, Refilled, Elapsed
  <2>7. NoFreeTokens'
    <3> DEFINE ps == Period * spent
    <3>1. spent \in Nat /\ regained \in Nat /\ since \in Nat \cup {Never} /\ ps \in Nat
      BY Constants DEF TypeOK, Time
    <3>2. CASE bucket.exists
      BY <2>1, <3>2 DEF NoFreeTokens
    <3>3. CASE ~bucket.exists /\ since # Never
      <4>1. ps <= (clock - MaxDelay - since) + regained
        BY <3>3 DEF NoFreeTokens
      <4> HIDE DEF ps
      <4>2. ps <= (clock' - MaxDelay - since) + regained
        BY <2>1, <2>2, <3>1, <3>3, <4>1, Constants
      <4> QED
        BY <2>1, <3>3, <4>2 DEF NoFreeTokens, ps
    <3> QED
      BY <2>1, <3>2, <3>3 DEF NoFreeTokens
  <2> QED
    BY <2>3, <2>4, <2>5, <2>6, <2>7
<1>7. CASE UNCHANGED vars
  <2>1. UNCHANGED <<clock, bucket, reading, spent, since, regained, promise>>
    BY <1>7 DEF vars
  <2> QED
    BY <2>1 DEF TypeOK, ReadingsOK, BucketOK, AccountsOK, NoFreeTokens, WaitIsEnough,
                Allowed, Refilled, Elapsed
<1> QED
  BY <1>1, <1>2, <1>3, <1>4, <1>5, <1>6, <1>7 DEF Next

(* The inductive invariant: how old a reading in flight may be, how long a *)
(* key lives, and what the accounts begin with, besides the properties.    *)
THEOREM Invariance == Spec => []IInv
BY InitIInv, StepIInv, PTL DEF Spec

(* The bucket and the accounts keep their types; the script never leaves   *)
(* a bucket above its capacity or in debt.                                 *)
THEOREM TypeCorrect == Spec => []TypeOK
BY Invariance, PTL DEF IInv

(* The token bucket pays for every token: at no rate, capacity or delay up *)
(* to the time of a refill do readings that overtake each other or a key   *)
(* that expires give away more than "regained" says.                       *)
THEOREM TokensArePaidFor == Spec => []NoFreeTokens
BY Invariance, PTL DEF IInv

(* Who waits one second longer than Retry-After is let in, unless the      *)
(* token was taken by another request.                                     *)
THEOREM WaitingSuffices == Spec => []WaitIsEnough
BY Invariance, PTL DEF IInv
============================================================================
