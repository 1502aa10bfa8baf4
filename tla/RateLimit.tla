----------------------------- MODULE RateLimit -----------------------------
(***************************************************************************)
(* One token bucket of the rate limiter: a hash in Redis with the tokens   *)
(* left and the time of the last request, and the requests that use it.    *)
(*                                                                         *)
(* RateLimitMiddleware reads the clock in the server, and the Lua script   *)
(* that refills, takes and stores runs in Redis some time later, so that   *)
(* requests overtake each other on the way.  The script itself is atomic.  *)
(*                                                                         *)
(* Time is counted in ticks (milliseconds in the code) and so are tokens:  *)
(* a token is worth the Period ticks in which it is refilled, 1/rate.      *)
(***************************************************************************)
EXTENDS Integers

CONSTANTS
  Request,   \* requests that can be in flight at once
  Capacity,  \* tokens of a full bucket
  Period,    \* ticks in which one token is refilled
  Second,    \* ticks of a second
  MinTTL,    \* seconds the key is kept at least
  MaxDelay,  \* ticks between a request's clock reading and its script
  MaxTime    \* bound on the clock

Full == Capacity * Period

RuleFits(capacity, period, delay) ==
  /\ capacity \in Nat \ {0}
  /\ period \in Nat \ {0}
  /\ delay \in 0..capacity * period

ASSUME RateAssumption ==
  /\ RuleFits(Capacity, Period, MaxDelay)
  /\ Second \in Nat \ {0}
  /\ MinTTL \in Nat
  /\ MaxTime \in Nat

(* rateLimitRule: who a rule counts by, its capacity and its period in     *)
(* milliseconds; every period is a whole number of them.                   *)
Rules ==
  [public_read    |-> [by |-> "ip",    capacity |-> 120, period |-> 500],
   auth_ip        |-> [by |-> "ip",    capacity |-> 5,   period |-> 120000],
   refresh        |-> [by |-> "ip",    capacity |-> 30,  period |-> 20000],
   user           |-> [by |-> "user",  capacity |-> 30,  period |-> 2000],
   search         |-> [by |-> "actor", capacity |-> 30,  period |-> 2000],
   event          |-> [by |-> "actor", capacity |-> 60,  period |-> 1000],
   recommendation |-> [by |-> "actor", capacity |-> 20,  period |-> 3000],
   modal          |-> [by |-> "actor", capacity |-> 20,  period |-> 3000],
   admin          |-> [by |-> "admin", capacity |-> 60,  period |-> 1000],
   admin_batch    |-> [by |-> "admin", capacity |-> 3,   period |-> 1200000]]

VARIABLES
  clock,
  bucket,   \* the hash: tokens (in ticks), updated_at and when it expires
  reading,  \* the clock reading of each request in flight, or Idle
  spent,    \* history: tokens taken since the bucket was new or reset
  since,    \* history: the first clock reading since then
  regained, \* history: how far updated_at was set back since then
  promise   \* history: when a refused client that waits a second longer
            \* than it was told comes again, or Never
vars == <<clock, bucket, reading, spent, since, regained, promise>>

Time == 0..MaxTime
Idle == -1
Never == -1
NoBucket == [exists |-> FALSE, tokens |-> Full, updatedAt |-> 0, expiresAt |-> 0]

(* tokenBucketTTL: whole seconds, twice the time to refill and one more.   *)
WholeTTL == (2 * Full) \div Second + 1
TTL == Second * (IF WholeTTL < MinTTL THEN MinTTL ELSE WholeTTL)

Init ==
  /\ clock = 0
  /\ bucket = NoBucket
  /\ reading = [r \in Request |-> Idle]
  /\ spent = 0
  /\ since = Never
  /\ regained = 0
  /\ promise = Never

(* The middleware finds the rule and its key, and reads the clock; a       *)
(* request that has no such key (nobody logged in, no guest) is refused    *)
(* before and never gets here.                                             *)
Send(r) ==
  /\ reading[r] = Idle
  /\ reading' = [reading EXCEPT ![r] = clock]
  /\ UNCHANGED <<clock, bucket, spent, since, regained, promise>>

---------------------------------------------------------------------------
(* The script.                                                             *)

(* Not the code: the time between two requests may be negative.            *)
ElapsedSigned(now) == IF bucket.exists THEN now - bucket.updatedAt ELSE 0

Elapsed(now) ==
  IF bucket.exists /\ bucket.updatedAt < now THEN now - bucket.updatedAt ELSE 0

Refilled(now) ==
  IF bucket.tokens + Elapsed(now) < Full THEN bucket.tokens + Elapsed(now) ELSE Full

Allowed(now) == Refilled(now) >= Period

(* Not the code: a refused client loses what was refilled for it.          *)
LeftNothing(now) == IF Allowed(now) THEN Refilled(now) - Period ELSE 0

Left(now) == IF Allowed(now) THEN Refilled(now) - Period ELSE Refilled(now)

(* Not the code: updated_at is kept when the request is refused.           *)
StampIfAllowed(now) ==
  IF Allowed(now) \/ ~bucket.exists THEN now ELSE bucket.updatedAt

Stamp(now) == now

RetryAfter(now) == Period - Refilled(now)

(* setRateLimitHeaders: Retry-After in whole seconds, at least one.        *)
HeaderSeconds(ticks) == IF ticks \div Second <= 0 THEN 1 ELSE ticks \div Second

(* What the histories say of a token taken or refused at reading "now".    *)
Book(now) ==
  /\ since' = IF since = Never THEN now ELSE since
  /\ regained' = regained + (IF bucket.exists /\ now < bucket.updatedAt
                               THEN bucket.updatedAt - now ELSE 0)
  /\ IF Allowed(now)
       THEN spent' = spent + 1 /\ promise' = Never
       ELSE LET again == now + Second * (HeaderSeconds(RetryAfter(now)) + 1)
            IN  /\ promise' = IF promise = Never \/ again < promise THEN again ELSE promise
                /\ UNCHANGED spent

(* Take, whether or not its answer reaches the server: without it the      *)
(* client gets a 503, and a token may be gone all the same.                *)
Take(r) ==
  /\ reading[r] # Idle
  /\ bucket' = [exists |-> TRUE, tokens |-> Left(reading[r]),
                updatedAt |-> Stamp(reading[r]), expiresAt |-> clock + TTL]
  /\ Book(reading[r])
  /\ reading' = [reading EXCEPT ![r] = Idle]
  /\ UNCHANGED clock

(* Redis cannot be reached: the request is answered with 503.              *)
Unavailable(r) ==
  /\ reading[r] # Idle
  /\ reading' = [reading EXCEPT ![r] = Idle]
  /\ UNCHANGED <<clock, bucket, spent, since, regained, promise>>

Expire ==
  /\ bucket.exists
  /\ bucket.expiresAt <= clock
  /\ bucket' = NoBucket
  /\ promise' = Never
  /\ UNCHANGED <<clock, reading, spent, since, regained>>

(* An administrator deletes the key, and the accounts start again.  The    *)
(* audit log is left out.                                                  *)
Reset ==
  /\ bucket' = NoBucket
  /\ spent' = 0
  /\ since' = Never
  /\ regained' = 0
  /\ promise' = Never
  /\ UNCHANGED <<clock, reading>>

Tick ==
  /\ clock < MaxTime
  /\ \A r \in Request : reading[r] # Idle => clock < reading[r] + MaxDelay
  /\ clock' = clock + 1
  /\ UNCHANGED <<bucket, reading, spent, since, regained, promise>>

Next ==
  \/ \E r \in Request : Send(r) \/ Take(r) \/ Unavailable(r)
  \/ Expire \/ Reset
  \/ Tick

Spec == Init /\ [][Next]_vars

---------------------------------------------------------------------------
(* The types; a bucket is never above its capacity nor in debt.            *)
TypeOK ==
  /\ clock \in Time
  /\ bucket \in [exists : BOOLEAN, tokens : 0..Full, updatedAt : Time, expiresAt : 0..MaxTime + TTL]
  /\ reading \in [Request -> Time \cup {Idle}]
  /\ spent \in Nat
  /\ since \in Time \cup {Never}
  /\ regained \in Nat
  /\ promise \in Nat \cup {Never}

(* No tokens out of nothing: those taken and those left were there at the  *)
(* start, or are paid for by the time that passed or by the set-backs of   *)
(* updated_at (each of them is refilled a second time: the only leak).     *)
(* The ledger goes on when the key expires, whose tokens must not come     *)
(* back any sooner than by refilling; a request that is still on its way   *)
(* may read MaxDelay less than the clock.                                  *)
NoFreeTokens ==
  since # Never =>
    IF bucket.exists
      THEN Period * spent + bucket.tokens <= Full + (bucket.updatedAt - since) + regained
      ELSE Period * spent <= (clock - MaxDelay - since) + regained

(* A refused client that comes again a second later than Retry-After says  *)
(* (the header is cut to whole seconds) is let in, unless somebody took    *)
(* the token before: other refusals, late requests and an expiry do not    *)
(* put it off.                                                             *)
WaitIsEnough ==
  promise # Never => Allowed(promise)
============================================================================
