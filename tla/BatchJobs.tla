------------------------------ MODULE BatchJobs -------------------------------
(***************************************************************************)
(* The ranking and the interest batch of backend/usecase/batch.go, under   *)
(* the Redis lock of repository/redis_repository.go, and the seed of every *)
(* start of a server, which writes the same tables without a lock.  A run  *)
(* is one call of Recalculate: by the daily scheduler, with an owner of    *)
(* its own, or by an administrator, whose page gives every run the owner   *)
(* manual_admin (frontend/src/api/client.ts).  Nothing extends a lock      *)
(* while its run goes on, and a run may take any time: a statement may     *)
(* wait, a process may be paused, and the scheduler's own deadline (30     *)
(* minutes) is longer than the lock's (10 minutes).                        *)
(***************************************************************************)
EXTENDS Naturals

CONSTANTS
  Run,          \* calls of Recalculate that got the lock
  Start,        \* starts of a server
  NoRun,
  OwnerOf,      \* OwnerOf[r]: BatchInput.Owner of run r
  NoOwner,
  Item,         \* rank targets (ranking), (actor, dimension, value) (interest)
  Seeded,       \* the items that the seed writes
  LockTTL,      \* BatchInput.LockTTL, in clock ticks
  ProfileTTL,   \* INTEREST_PROFILE_TTL
  SeedTTL,      \* the lifetime of a profile that the seed wrote
  MaxStart,     \* bound: last instant at which a run may start
  MaxTime       \* bound: last instant of the clock

ASSUME BatchAssumption ==
  /\ NoRun \notin Run \cup Start /\ Run \cap Start = {}
  /\ Seeded \subseteq Item
  /\ \A r \in Run : OwnerOf[r] # NoOwner
  /\ LockTTL \in Nat \ {0} /\ ProfileTTL \in Nat /\ SeedTTL \in Nat
  /\ MaxStart \in Nat /\ MaxTime \in Nat

Job == {"ranking", "interest"}
Owner == {OwnerOf[r] : r \in Run}
Writer == Run \cup Start

VARIABLES
  now,        \* time.Now(), and the clock of Redis
  lock,       \* lock[j]: the key batch:j, when it expires and (history) whose
              \* Acquire wrote it
  status,     \* batch_runs.status; "none" while the run has no row
  at,         \* at[w]: now of run or seed w: period_end, calculated_at
  metrics,    \* metrics[i]: the run or the seed that wrote content_metrics row i
  profiles,   \* profiles[i]: interest_profiles rows for i
  nextId,     \* interest_profiles.id sequence
  pc,         \* pc[w]: where run or seed w is
  job,        \* job[r]: JobName
  leaseEnd,   \* leaseEnd[r]: when the lock r acquired expires
  todo,       \* todo[w]: items w has not stored yet
  found,      \* found[w]: the profile row w has looked up to write it
  late,       \* history: runs that stored something after their lock expired,
              \* and seeds that went on at the same time as a run or a seed
  robbed      \* history: whose key was deleted by whom, and whether that one
              \* was within its own lock's time

runVars == <<pc, job, leaseEnd, todo, found, late, robbed>>
vars == <<now, lock, status, at, metrics, profiles, nextId, runVars>>

-----------------------------------------------------------------------------

Lock == [owner: Owner \cup {NoOwner}, until: Nat, by: Run \cup {NoRun}]
NoLock == [owner |-> NoOwner, until |-> 0, by |-> NoRun]
ProfileRow == [id: Nat \ {0}, by: Writer]
NothingFound == [item |-> NoRun, id |-> 0]   \* id 0: no row matched

Executing(r) == pc[r] \in {"acquired", "created", "storing", "failing", "releasing"}
Seeding(s) == pc[s] \in {"seed_metrics", "seed_profiles"}

Leased(r) == Executing(r) /\ now < leaseEnd[r]

TypeOK ==
  /\ now \in Nat
  /\ lock \in [Job -> Lock]
  /\ status \in [Run -> {"none", "running", "success", "failed"}]
  /\ at \in [Writer -> Nat]
  /\ metrics \in [Item -> Writer \cup {NoRun}]
  /\ profiles \in [Item -> SUBSET ProfileRow]
  /\ nextId \in Nat \ {0}
  /\ pc \in [Writer -> {"idle", "acquired", "created", "storing", "failing", "releasing",
                        "seed_metrics", "seed_profiles", "done"}]
  /\ job \in [Run -> Job]
  /\ leaseEnd \in [Run -> Nat]
  /\ todo \in [Writer -> SUBSET Item]
  /\ found \in [Writer -> [item: Item \cup {NoRun}, id: Nat]]
  /\ late \subseteq Writer
  /\ robbed \subseteq [run: Run, by: Run, leased: BOOLEAN]

Init ==
  /\ now = 0
  /\ lock = [j \in Job |-> NoLock]
  /\ status = [r \in Run |-> "none"]
  /\ at = [w \in Writer |-> 0]
  /\ metrics = [i \in Item |-> NoRun]
  /\ profiles = [i \in Item |-> {}]
  /\ nextId = 1
  /\ pc = [w \in Writer |-> "idle"]
  /\ job = [r \in Run |-> "ranking"]
  /\ leaseEnd = [r \in Run |-> 0]
  /\ todo = [w \in Writer |-> {}]
  /\ found = [w \in Writer |-> NothingFound]
  /\ late = {} /\ robbed = {}

Move(w, to) == pc' = [pc EXCEPT ![w] = to]

(* The call is over, and with it what it kept in memory. *)
Over(r) ==
  /\ Move(r, "done")
  /\ job' = [job EXCEPT ![r] = "ranking"]
  /\ leaseEnd' = [leaseEnd EXCEPT ![r] = 0]
  /\ todo' = [todo EXCEPT ![r] = {}]
  /\ found' = [found EXCEPT ![r] = NothingFound]

-----------------------------------------------------------------------------
(* The lock *)

(* The key exists: Redis drops it when its TTL is over. *)
Locked(j) == lock[j].owner # NoOwner /\ now < lock[j].until

(* Mutant: SET instead of SET NX. *)
AlwaysFree(j) == TRUE

SetNX(j) == ~Locked(j)

(* Mutant: the key is written without a TTL. *)
NoExpiry(t) == MaxTime + 1

(* When a key written at t expires. *)
Expiry(t) == t + LockTTL

(* Acquire.  A run that finds the key ends with ErrBatchAlreadyRunning and *)
(* changes nothing.  When Redis did set the key and its answer is lost,    *)
(* Recalculate returns the error and never releases it.                    *)
Acquire(r, j) ==
  /\ pc[r] = "idle" /\ SetNX(j)
  /\ now <= MaxStart
  /\ lock' = [lock EXCEPT ![j] = [owner |-> OwnerOf[r], until |-> Expiry(now), by |-> r]]
  /\ \/ /\ Move(r, "acquired")
        /\ job' = [job EXCEPT ![r] = j]
        /\ leaseEnd' = [leaseEnd EXCEPT ![r] = Expiry(now)]
        /\ late' = late \cup {s \in Start : Seeding(s)}
        /\ UNCHANGED <<todo, found>>
     \/ Over(r) /\ UNCHANGED late
  /\ UNCHANGED <<now, status, at, metrics, profiles, nextId, robbed>>

(* Mutant: DEL without the test of the owner. *)
AnyOwner(r) == TRUE

(* GET key == owner, in releaseLockScript. *)
Owns(r) == Locked(job[r]) /\ lock[job[r]].owner = OwnerOf[r]

(* The deferred Release, with a context of its own; its error is dropped,  *)
(* so a failed call leaves the key to expire.  The key it deletes may be   *)
(* one that another run of the same owner has written since.               *)
Release(r) ==
  /\ pc[r] = "releasing"
  /\ \/ /\ Owns(r)
        /\ lock' = [lock EXCEPT ![job[r]] = NoLock]
        /\ robbed' = robbed \cup {b \in {[run |-> lock[job[r]].by, by |-> r, leased |-> Leased(r)]} :
                                  b.run \notin {r, NoRun}}
     \/ UNCHANGED <<lock, robbed>>
  /\ Over(r)
  /\ UNCHANGED <<now, status, at, metrics, profiles, nextId, late>>

-----------------------------------------------------------------------------
(* The run *)

(* time.Now() and runs.Create; an error returns and releases the lock. *)
CreateRun(r) ==
  /\ pc[r] = "acquired"
  /\ \/ /\ at' = [at EXCEPT ![r] = now]
        /\ status' = [status EXCEPT ![r] = "running"]
        /\ Move(r, "created")
     \/ Move(r, "releasing") /\ UNCHANGED <<at, status>>
  /\ UNCHANGED <<now, lock, metrics, profiles, nextId, job, leaseEnd, todo, found, late, robbed>>

(* AggregateContentMetrics, or AggregateUserInterest and                   *)
(* AggregateGuestInterest for every actor of the input: the items that had *)
(* events in the period.                                                   *)
Aggregate(r) ==
  /\ pc[r] = "created"
  /\ \E S \in SUBSET Item : todo' = [todo EXCEPT ![r] = S]
  /\ Move(r, "storing")
  /\ UNCHANGED <<now, lock, status, at, metrics, profiles, nextId, job, leaseEnd, found, late, robbed>>

(* Mutant: MarkSuccess outside the transaction, lost with a crash. *)
MarkNothing(r) == status

(* Mutant: a status that entity.BatchStatus does not have. *)
MarkFinished(r) == [status EXCEPT ![r] = "finished"]

MarkSuccess(r) == [status EXCEPT ![r] = "success"]

NowLate(r) == late' = IF now < leaseEnd[r] THEN late ELSE late \cup {r}

(* The transaction of the ranking batch commits: BulkUpsert, MarkSuccess.  *)
(* If the acknowledgement is lost, the run goes on as failed.              *)
CommitMetrics(r) ==
  /\ pc[r] = "storing" /\ job[r] = "ranking"
  /\ metrics' = [i \in Item |-> IF i \in todo[r] THEN r ELSE metrics[i]]
  /\ status' = MarkSuccess(r)
  /\ todo' = [todo EXCEPT ![r] = {}]
  /\ NowLate(r)
  /\ Move(r, "releasing") \/ Move(r, "failing")
  /\ UNCHANGED <<now, lock, at, profiles, nextId, job, leaseEnd, found, robbed>>

(* The row FirstOrCreate reads: the item's smallest id, 0 if it has none.   *)
IsFirst(i, id) ==
  LET ids == {p.id : p \in profiles[i]}
  IN  IF ids = {} THEN id = 0 ELSE id \in ids /\ \A x \in ids : id <= x

(* First of FirstOrCreate and of upsertUserInterestProfile. *)
FindProfile(w) ==
  /\ \/ w \in Run /\ pc[w] = "storing" /\ job[w] = "interest"
     \/ w \in Start /\ pc[w] = "seed_profiles"
  /\ found[w] = NothingFound
  /\ \E i \in todo[w], id \in 0 .. nextId :
       IsFirst(i, id) /\ found' = [found EXCEPT ![w] = [item |-> i, id |-> id]]
  /\ UNCHANGED <<now, lock, status, at, metrics, profiles, nextId, pc, job, leaseEnd, todo, late, robbed>>

(* FirstOrCreate writes: it inserts a row if it read none, and otherwise   *)
(* updates the row it read, without looking at the number of rows it hit.  *)
StoreProfile(r) ==
  /\ pc[r] = "storing" /\ found[r] # NothingFound
  /\ LET i == found[r].item
         id == found[r].id
     IN  /\ IF id = 0
            THEN /\ profiles' = [profiles EXCEPT ![i] = @ \cup {[id |-> nextId, by |-> r]}]
                 /\ nextId' = nextId + 1
            ELSE /\ profiles' = [profiles EXCEPT ![i] =
                                   {IF p.id = id THEN [p EXCEPT !.by = r] ELSE p : p \in @}]
                 /\ UNCHANGED nextId
         /\ todo' = [todo EXCEPT ![r] = @ \ {i}]
  /\ found' = [found EXCEPT ![r] = NothingFound]
  /\ NowLate(r)
  /\ UNCHANGED <<now, lock, status, at, metrics, pc, job, leaseEnd, robbed>>

(* MarkSuccess of the interest batch, a statement of its own. *)
FinishInterest(r) ==
  /\ pc[r] = "storing" /\ job[r] = "interest"
  /\ todo[r] = {} /\ found[r] = NothingFound
  /\ status' = MarkSuccess(r)
  /\ Move(r, "releasing")
  /\ UNCHANGED <<now, lock, at, metrics, profiles, nextId, job, leaseEnd, todo, found, late, robbed>>

(* An aggregation, a store or a MarkSuccess fails, or its context has been *)
(* cancelled: what the interest batch stored so far stays.                 *)
Fail(r) ==
  /\ pc[r] \in {"created", "storing"}
  /\ Move(r, "failing")
  /\ todo' = [todo EXCEPT ![r] = {}]
  /\ found' = [found EXCEPT ![r] = NothingFound]
  /\ UNCHANGED <<now, lock, status, at, metrics, profiles, nextId, job, leaseEnd, late, robbed>>

(* MarkFailed, whose own error is dropped: with the same cancelled context *)
(* it fails too, and the row keeps its status.                             *)
MarkFailed(r) ==
  /\ pc[r] = "failing"
  /\ status' = [status EXCEPT ![r] = "failed"] \/ UNCHANGED status
  /\ Move(r, "releasing")
  /\ UNCHANGED <<now, lock, at, metrics, profiles, nextId, job, leaseEnd, todo, found, late, robbed>>

(* The server process dies, or shuts down without waiting for the run.     *)
(* Nothing repairs the row or the lock when it starts again (SeedContent). *)
Crash(r) ==
  /\ Executing(r)
  /\ Over(r)
  /\ UNCHANGED <<now, lock, status, at, metrics, profiles, nextId, late, robbed>>

-----------------------------------------------------------------------------
(* The seed of a starting server: no lock, no transaction, each statement  *)
(* on its own, while other servers may be running batches.                 *)

(* SeedContent reads the clock. *)
SeedContent(s) ==
  /\ pc[s] = "idle"
  /\ at' = [at EXCEPT ![s] = now]
  /\ todo' = [todo EXCEPT ![s] = Seeded]
  /\ late' = late \cup {t \in {s} : \E w \in Writer : Executing(w) \/ Seeding(w)}
  /\ Move(s, "seed_metrics")
  /\ UNCHANGED <<now, lock, status, metrics, profiles, nextId, job, leaseEnd, found, robbed>>

(* upsertContentMetric: INSERT ... ON CONFLICT (rank_target_id) DO UPDATE. *)
SeedMetric(s) ==
  /\ pc[s] = "seed_metrics"
  /\ \E i \in todo[s] : /\ metrics' = [metrics EXCEPT ![i] = s]
                        /\ todo' = [todo EXCEPT ![s] = @ \ {i}]
  /\ UNCHANGED <<now, lock, status, at, profiles, nextId, pc, job, leaseEnd, found, late, robbed>>

(* seedAdminInterestProfiles, if there is an administrator to seed. *)
SeedProfiles(s) ==
  /\ pc[s] = "seed_metrics" /\ todo[s] = {}
  /\ todo' = [todo EXCEPT ![s] = Seeded]
  /\ Move(s, "seed_profiles")
  /\ UNCHANGED <<now, lock, status, at, metrics, profiles, nextId, job, leaseEnd, found, late, robbed>>

(* Create, or Save of the row that First read: if it is gone meanwhile,    *)
(* Save inserts it again under its id.                                     *)
SaveProfile(s) ==
  /\ pc[s] = "seed_profiles" /\ found[s] # NothingFound
  /\ LET i == found[s].item
         id == IF found[s].id = 0 THEN nextId ELSE found[s].id
     IN  /\ profiles' = [profiles EXCEPT ![i] =
                           {p \in @ : p.id # id} \cup {[id |-> id, by |-> s]}]
         /\ nextId' = IF found[s].id = 0 THEN nextId + 1 ELSE nextId
         /\ todo' = [todo EXCEPT ![s] = @ \ {i}]
  /\ found' = [found EXCEPT ![s] = NothingFound]
  /\ UNCHANGED <<now, lock, status, at, metrics, pc, job, leaseEnd, late, robbed>>

(* The seed is through, or a statement fails and the process ends.         *)
SeedOver(s) ==
  /\ Seeding(s)
  /\ Move(s, "done")
  /\ todo' = [todo EXCEPT ![s] = {}]
  /\ found' = [found EXCEPT ![s] = NothingFound]
  /\ UNCHANGED <<now, lock, status, at, metrics, profiles, nextId, job, leaseEnd, late, robbed>>

-----------------------------------------------------------------------------

Tick ==
  /\ now < MaxTime
  /\ now' = now + 1
  /\ UNCHANGED <<lock, status, at, metrics, profiles, nextId, runVars>>

(* How long a profile lives that w has written. *)
Lifetime(w) == IF w \in Start THEN SeedTTL ELSE ProfileTTL

(* CleanupUsecase.DeleteExpired on interest_profiles. *)
DeleteExpiredProfiles ==
  LET kept(i) == {p \in profiles[i] : at[p.by] + Lifetime(p.by) >= now}
  IN  /\ \E i \in Item : kept(i) # profiles[i]
      /\ profiles' = [i \in Item |-> kept(i)]
      /\ UNCHANGED <<now, lock, status, at, metrics, nextId, runVars>>

Step(r) ==
  \/ CreateRun(r) \/ Aggregate(r) \/ CommitMetrics(r)
  \/ FindProfile(r) \/ StoreProfile(r) \/ FinishInterest(r)
  \/ MarkFailed(r) \/ Release(r)

Seed(s) ==
  \/ SeedContent(s) \/ SeedMetric(s) \/ SeedProfiles(s)
  \/ FindProfile(s) \/ SaveProfile(s) \/ SeedOver(s)

Next ==
  \/ \E r \in Run : \/ \E j \in Job : Acquire(r, j)
                    \/ Step(r) \/ Fail(r) \/ Crash(r)
  \/ \E s \in Start : Seed(s)
  \/ Tick
  \/ DeleteExpiredProfiles

Spec == Init /\ [][Next]_vars

(* Time goes on.  A run owes no progress: it may be stuck for ever. *)
FairSpec == Spec /\ WF_vars(Tick)

-----------------------------------------------------------------------------
(* Properties *)

(* The runs whose key the Release of another run deleted. *)
Robbed == {b.run : b \in robbed}

(* Two runs of one job both execute within the time their lock was granted *)
(* for only if one of them was robbed of its key (Acquire, Release); and   *)
(* only a run of the same owner name takes another's key away, one that    *)
(* has outlived its own lock or was robbed of it before.  So a run whose   *)
(* owner is its own, as the scheduler's are, never loses its lock, and     *)
(* while every run ends in time none does, whatever the owners are.        *)
LeaseExclusive ==
  /\ \A r, s \in Run :
       Leased(r) /\ Leased(s) /\ job[r] = job[s] => r = s \/ {r, s} \cap Robbed # {}
  /\ \A b \in robbed : /\ b.by # b.run /\ OwnerOf[b.by] = OwnerOf[b.run]
                       /\ b.leased => b.by \in Robbed

(* Every run has stored within its lock's time, none was robbed of it, and *)
(* no seed went on at the same time as a run or another seed.              *)
InTurn == late = {} /\ robbed = {}

(* As long as the runs and the seeds write in turn, the metrics of a       *)
(* target are never replaced by those of an earlier period (Recalculate,   *)
(* seedContentMetrics).                                                    *)
MetricsMoveForward ==
  [][InTurn' =>
       \A i \in Item : metrics[i] # NoRun => at[metrics[i]] <= at'[metrics'[i]]]_vars

(* "The metrics are updated and the run is still running" never happens,   *)
(* not even after a crash or a commit whose acknowledgement was lost.      *)
MetricsOfFinishedRun ==
  \A i \in Item : metrics[i] \in Run => status[metrics[i]] \in {"success", "failed"}

(* As long as the runs and the seeds write in turn, an actor has one       *)
(* profile row for a dimension and value: FirstOrCreate and the seed, with *)
(* no unique index behind them, depend on it.                              *)
OneProfilePerItem ==
  InTurn => \A i \in Item : \A p, q \in profiles[i] : p = q

(* Whatever becomes of the run that took it, stuck, crashed, answer lost,  *)
(* a lock is free again some day, so that the job can run.                 *)
LockRecovers == \A j \in Job : Locked(j) ~> ~Locked(j)
==============================================================================
