--------------------------- MODULE BatchJobsProofs ----------------------------
(***************************************************************************)
(* Proofs about BatchJobs, for any number of runs, starts and items, any   *)
(* times, and whoever shares an owner with whom.                           *)
(***************************************************************************)
EXTENDS BatchJobs, TLAPS

-----------------------------------------------------------------------------
(* The inductive invariant *)

(* What a run is doing is never what a seed is doing. *)
Kinds ==
  /\ \A r \in Run : pc[r] \notin {"seed_metrics", "seed_profiles"}
  /\ \A s \in Start : pc[s] \in {"idle", "seed_metrics", "seed_profiles", "done"}

(* A key names the owner of the run that wrote it. *)
KeyOwners == \A j \in Job : lock[j].by \in Run => lock[j].owner = OwnerOf[lock[j].by]

(* A run that executes within its lock's time is the one that wrote the    *)
(* key, unless it was robbed of it.                                        *)
LockHeld ==
  \A r \in Run :
    Leased(r) /\ r \notin Robbed
      => lock[job[r]] = [owner |-> OwnerOf[r], until |-> leaseEnd[r], by |-> r]

(* Who robs. *)
RobberyOK ==
  \A b \in robbed : /\ b.by # b.run /\ OwnerOf[b.by] = OwnerOf[b.run]
                    /\ b.leased => b.by \in Robbed

LockOK == KeyOwners /\ LockHeld /\ RobberyOK

(* A run has a row in batch_runs once it is past CreateRun, not before. *)
RowsOK == \A r \in Run : pc[r] \in {"idle", "acquired"} => status[r] = "none"

(* A seed that has stored metrics has started. *)
SeedRows == \A i \in Item : metrics[i] \in Start => pc[metrics[i]] # "idle"

AtPast == \A w \in Writer : at[w] <= now

(* While the runs and the seeds write in turn, a seed is alone. *)
SeedsAlone ==
  late = {} => \A s \in Start : Seeding(s) =>
                 /\ \A r \in Run : ~Executing(r)
                 /\ \A t \in Start : Seeding(t) => t = s

(* Who may still store metrics: a run in its lock's time, or a seed. *)
Ranks(w) ==
  \/ w \in Run /\ Leased(w) /\ job[w] = "ranking" /\ pc[w] \in {"created", "storing"}
  \/ w \in Start /\ pc[w] = "seed_metrics"

(* What it has aggregated is at least as recent as every metric stored.    *)
MetricsOrdered ==
  InTurn => \A i \in Item, w \in Writer :
              metrics[i] # NoRun /\ Ranks(w) => at[metrics[i]] <= at[w]

IInv ==
  TypeOK /\ Kinds /\ LockOK /\ RowsOK /\ SeedRows /\ MetricsOfFinishedRun /\ AtPast
  /\ SeedsAlone /\ MetricsOrdered

LEMMA InitIInv == Init => IInv
<1> SUFFICES ASSUME Init PROVE IInv
  OBVIOUS
<1>1. TypeOK
  BY BatchAssumption DEF Init, TypeOK, NoLock, Lock, NothingFound, Job, Owner
<1>2. Kinds /\ RowsOK
  BY DEF Init, Kinds, RowsOK, Writer
<1>3. LockOK
  BY BatchAssumption DEF Init, LockOK, KeyOwners, LockHeld, RobberyOK, Leased, Executing,
                         NoLock, Writer
<1>4. SeedRows /\ MetricsOfFinishedRun /\ MetricsOrdered
  BY BatchAssumption DEF Init, SeedRows, MetricsOfFinishedRun, MetricsOrdered
<1>5. AtPast /\ SeedsAlone
  BY DEF Init, AtPast, SeedsAlone, Seeding, Writer
<1> QED
  BY <1>1, <1>2, <1>3, <1>4, <1>5 DEF IInv

-----------------------------------------------------------------------------
(* Type correctness *)

LEMMA OverTypes ==
  ASSUME TypeOK, NEW r \in Run, Over(r)
  PROVE  /\ pc' \in [Writer -> {"idle", "acquired", "created", "storing", "failing", "releasing",
                                "seed_metrics", "seed_profiles", "done"}]
         /\ job' \in [Run -> Job]
         /\ leaseEnd' \in [Run -> Nat]
         /\ todo' \in [Writer -> SUBSET Item]
         /\ found' \in [Writer -> [item: Item \cup {NoRun}, id: Nat]]
BY DEF Over, Move, TypeOK, Job, NothingFound

LEMMA StoreTypes ==
  ASSUME TypeOK, NEW r \in Run, StoreProfile(r)
  PROVE  profiles' \in [Item -> SUBSET ProfileRow] /\ nextId' \in Nat \ {0}
<1> DEFINE i == found[r].item
           id == found[r].id
           inserted == profiles[i] \cup {[id |-> nextId, by |-> r]}
           updated == {IF p.id = id THEN [p EXCEPT !.by = r] ELSE p : p \in profiles[i]}
<1>0. r \in Writer
  BY DEF Writer
<1>1. i \in Item => inserted \in SUBSET ProfileRow
  BY <1>0 DEF TypeOK, ProfileRow
<1>2. i \in Item => updated \in SUBSET ProfileRow
  BY <1>0 DEF TypeOK, ProfileRow
<1>3. \/ profiles' = [profiles EXCEPT ![i] = inserted] /\ nextId' = nextId + 1
      \/ profiles' = [profiles EXCEPT ![i] = updated] /\ nextId' = nextId
  BY DEF StoreProfile
<1> HIDE DEF inserted, updated, i, id
<1>4. profiles \in [Item -> SUBSET ProfileRow] /\ nextId \in Nat \ {0}
  BY DEF TypeOK
<1>5. CASE i \in Item
  BY <1>1, <1>2, <1>3, <1>4, <1>5
<1>6. CASE i \notin Item
  BY <1>3, <1>4, <1>6
<1> QED
  BY <1>5, <1>6

LEMMA SaveTypes ==
  ASSUME TypeOK, NEW s \in Start, SaveProfile(s)
  PROVE  profiles' \in [Item -> SUBSET ProfileRow] /\ nextId' \in Nat \ {0}
<1> DEFINE i == found[s].item
           id == IF found[s].id = 0 THEN nextId ELSE found[s].id
           saved == {p \in profiles[i] : p.id # id} \cup {[id |-> id, by |-> s]}
<1>1. s \in Writer /\ id \in Nat \ {0}
  BY DEF Writer, TypeOK
<1>2. profiles' = [profiles EXCEPT ![i] = saved]
      /\ nextId' = IF found[s].id = 0 THEN nextId + 1 ELSE nextId
  BY DEF SaveProfile
<1> HIDE DEF id
<1>3. i \in Item => saved \in SUBSET ProfileRow
  BY <1>1 DEF TypeOK, ProfileRow
<1> HIDE DEF saved, i
<1>4. nextId' \in Nat \ {0}
  BY <1>2 DEF TypeOK
<1>5. profiles' \in [Item -> SUBSET ProfileRow]
  BY <1>2, <1>3 DEF TypeOK
<1> QED
  BY <1>4, <1>5

LEMMA NextType == TypeOK /\ [Next]_vars => TypeOK'
<1> SUFFICES ASSUME TypeOK, [Next]_vars PROVE TypeOK'
  OBVIOUS
<1>0. Run \subseteq Writer /\ Start \subseteq Writer
  BY DEF Writer
<1>1. ASSUME NEW r \in Run, NEW j \in Job, Acquire(r, j) PROVE TypeOK'
  <2>1. [owner |-> OwnerOf[r], until |-> Expiry(now), by |-> r] \in Lock
    BY BatchAssumption DEF Expiry, TypeOK, Owner, Lock
  <2>2. lock' \in [Job -> Lock] /\ late' \subseteq Writer
    BY <1>0, <1>1, <2>1 DEF Acquire, TypeOK
  <2>3. CASE Over(r)
    BY <1>1, <2>2, <2>3, OverTypes DEF Acquire, TypeOK
  <2>4. CASE ~Over(r)
    <3>1. pc' = [pc EXCEPT ![r] = "acquired"] /\ job' = [job EXCEPT ![r] = j]
          /\ leaseEnd' = [leaseEnd EXCEPT ![r] = now + LockTTL]
          /\ UNCHANGED <<now, status, at, metrics, profiles, nextId, todo, found, robbed>>
      BY <1>1, <2>4 DEF Acquire, Expiry, Move
    <3>2. now + LockTTL \in Nat
      BY BatchAssumption DEF TypeOK
    <3> QED
      BY <2>2, <3>1, <3>2 DEF TypeOK
  <2> QED
    BY <2>3, <2>4
<1>2. ASSUME NEW r \in Run, CreateRun(r) \/ Aggregate(r) PROVE TypeOK'
  <2>1. CASE CreateRun(r)
    <3>1. \/ /\ at' = [at EXCEPT ![r] = now]
             /\ status' = [status EXCEPT ![r] = "running"]
             /\ pc' = [pc EXCEPT ![r] = "created"]
          \/ /\ at' = at /\ status' = status
             /\ pc' = [pc EXCEPT ![r] = "releasing"]
      BY <2>1 DEF CreateRun, Move
    <3>2. UNCHANGED <<now, lock, metrics, profiles, nextId, job, leaseEnd, todo, found, late, robbed>>
      BY <2>1 DEF CreateRun
    <3>3. at' \in [Writer -> Nat]
      BY <3>1 DEF TypeOK
    <3>4. status' \in [Run -> {"none", "running", "success", "failed"}]
      BY <3>1 DEF TypeOK
    <3>5. pc' \in [Writer -> {"idle", "acquired", "created", "storing", "failing", "releasing",
                              "seed_metrics", "seed_profiles", "done"}]
      BY <3>1 DEF TypeOK
    <3> QED
      BY <3>2, <3>3, <3>4, <3>5 DEF TypeOK
  <2>2. CASE Aggregate(r)
    BY <2>2 DEF Aggregate, Move, TypeOK
  <2> QED
    BY <1>2, <2>1, <2>2
<1>3. ASSUME NEW r \in Run, CommitMetrics(r) PROVE TypeOK'
  <2>1. metrics' \in [Item -> Writer \cup {NoRun}]
    BY <1>0, <1>3 DEF CommitMetrics, TypeOK
  <2>2. late' \subseteq Writer /\ status' \in [Run -> {"none", "running", "success", "failed"}]
    BY <1>0, <1>3 DEF CommitMetrics, NowLate, MarkSuccess, TypeOK
  <2> QED
    BY <1>3, <2>1, <2>2 DEF CommitMetrics, Move, TypeOK
<1>4. ASSUME NEW w \in Writer, FindProfile(w) PROVE TypeOK'
  BY <1>4 DEF FindProfile, TypeOK
<1>5. ASSUME NEW r \in Run, StoreProfile(r) PROVE TypeOK'
  <2>1. profiles' \in [Item -> SUBSET ProfileRow] /\ nextId' \in Nat \ {0}
    BY <1>5, StoreTypes
  <2>2. found' = [found EXCEPT ![r] = NothingFound]
        /\ todo' = [todo EXCEPT ![r] = @ \ {found[r].item}]
        /\ (late' = late \/ late' = late \cup {r})
        /\ UNCHANGED <<now, lock, status, at, metrics, pc, job, leaseEnd, robbed>>
    BY <1>5 DEF StoreProfile, NowLate
  <2> QED
    BY <1>0, <2>1, <2>2 DEF TypeOK, NothingFound
<1>6. ASSUME NEW r \in Run, FinishInterest(r) \/ Fail(r) \/ MarkFailed(r) PROVE TypeOK'
  <2>1. CASE FinishInterest(r)
    BY <2>1 DEF FinishInterest, MarkSuccess, Move, TypeOK
  <2>2. CASE Fail(r)
    BY <2>2 DEF Fail, Move, TypeOK, NothingFound
  <2>3. CASE MarkFailed(r)
    BY <2>3 DEF MarkFailed, Move, TypeOK
  <2> QED
    BY <1>6, <2>1, <2>2, <2>3
<1>7. ASSUME NEW r \in Run, Release(r) PROVE TypeOK'
  <2>1. lock' \in [Job -> Lock]
    BY <1>7 DEF Release, NoLock, Lock, TypeOK
  <2>2. robbed' \subseteq [run: Run, by: Run, leased: BOOLEAN]
    <3>1. CASE robbed' = robbed
      BY <3>1 DEF TypeOK
    <3>2. CASE robbed' # robbed
      <4> DEFINE b == [run |-> lock[job[r]].by, by |-> r, leased |-> Leased(r)]
      <4>1. robbed' = robbed \cup {c \in {b} : c.run \notin {r, NoRun}}
        BY <1>7, <3>2 DEF Release
      <4>2. lock[job[r]].by \in Run \cup {NoRun}
        BY DEF TypeOK, Lock
      <4>3. Leased(r) \in BOOLEAN
        BY DEF Leased, Executing
      <4>4. b.run # NoRun => b \in [run: Run, by: Run, leased: BOOLEAN]
        BY <4>2, <4>3
      <4> HIDE DEF b
      <4> QED
        BY <4>1, <4>4 DEF TypeOK
    <3> QED
      BY <3>1, <3>2
  <2> QED
    BY <1>7, <2>1, <2>2, OverTypes DEF Release, TypeOK
<1>8. ASSUME NEW r \in Run, Crash(r) PROVE TypeOK'
  BY <1>8, OverTypes DEF Crash, TypeOK
<1>9. ASSUME NEW s \in Start, SeedContent(s) PROVE TypeOK'
  <2>1. at' \in [Writer -> Nat] /\ late' \subseteq Writer
    BY <1>0, <1>9 DEF SeedContent, TypeOK
  <2>2. todo' \in [Writer -> SUBSET Item]
    BY <1>9, BatchAssumption DEF SeedContent, TypeOK
  <2> QED
    BY <1>9, <2>1, <2>2 DEF SeedContent, Move, TypeOK
<1>10. ASSUME NEW s \in Start, SeedMetric(s) \/ SeedProfiles(s) PROVE TypeOK'
  <2>1. CASE SeedMetric(s)
    BY <1>0, <2>1 DEF SeedMetric, TypeOK
  <2>2. CASE SeedProfiles(s)
    BY <2>2, BatchAssumption DEF SeedProfiles, Move, TypeOK
  <2> QED
    BY <1>10, <2>1, <2>2
<1>11. ASSUME NEW s \in Start, SaveProfile(s) PROVE TypeOK'
  <2>1. profiles' \in [Item -> SUBSET ProfileRow] /\ nextId' \in Nat \ {0}
    BY <1>11, SaveTypes
  <2>2. found' = [found EXCEPT ![s] = NothingFound]
        /\ todo' = [todo EXCEPT ![s] = @ \ {found[s].item}]
        /\ UNCHANGED <<now, lock, status, at, metrics, pc, job, leaseEnd, late, robbed>>
    BY <1>11 DEF SaveProfile
  <2> QED
    BY <2>1, <2>2 DEF TypeOK, NothingFound
<1>12. ASSUME NEW s \in Start, SeedOver(s) PROVE TypeOK'
  BY <1>12 DEF SeedOver, Move, TypeOK, NothingFound
<1>13. CASE Tick
  BY <1>13 DEF Tick, runVars, TypeOK
<1>14. CASE DeleteExpiredProfiles
  BY <1>14 DEF DeleteExpiredProfiles, runVars, TypeOK
<1>15. CASE UNCHANGED vars
  BY <1>15 DEF vars, runVars, TypeOK
<1> QED
  BY <1>0, <1>1, <1>2, <1>3, <1>4, <1>5, <1>6, <1>7, <1>8, <1>9, <1>10, <1>11, <1>12, <1>13,
     <1>14, <1>15 DEF Next, Step, Seed

(* What each step does to whom: runs stay runs and seeds stay seeds. *)
LEMMA NextKinds == TypeOK /\ Kinds /\ [Next]_vars => Kinds'
<1> SUFFICES ASSUME TypeOK, Kinds, [Next]_vars PROVE Kinds'
  OBVIOUS
<1> USE DEF Kinds, TypeOK, Move, Over
<1>0. Run \cap Start = {} /\ Run \subseteq Writer /\ Start \subseteq Writer
  BY BatchAssumption DEF Writer
<1>1. ASSUME NEW r \in Run,
             (\E j \in Job : Acquire(r, j)) \/ CreateRun(r) \/ Aggregate(r) \/ CommitMetrics(r)
      PROVE  Kinds'
  BY <1>0, <1>1, ZenonT(60) DEF Acquire, CreateRun, Aggregate, CommitMetrics
<1>2. ASSUME NEW r \in Run,
             StoreProfile(r) \/ FinishInterest(r) \/ MarkFailed(r) \/ Release(r) \/ Fail(r) \/ Crash(r)
      PROVE  Kinds'
  BY <1>0, <1>2 DEF StoreProfile, FinishInterest, MarkFailed, Release, Fail, Crash
<1>3. ASSUME NEW s \in Start,
             SeedContent(s) \/ SeedMetric(s) \/ SeedProfiles(s) \/ SaveProfile(s) \/ SeedOver(s)
      PROVE  Kinds'
  BY <1>0, <1>3 DEF SeedContent, SeedMetric, SeedProfiles, SaveProfile, SeedOver
<1>4. ASSUME NEW w \in Writer, FindProfile(w) PROVE Kinds'
  BY <1>4 DEF FindProfile
<1>5. CASE Tick \/ DeleteExpiredProfiles \/ UNCHANGED vars
  BY <1>5 DEF Tick, DeleteExpiredProfiles, vars, runVars
<1> QED
  BY <1>0, <1>1, <1>2, <1>3, <1>4, <1>5 DEF Next, Step, Seed

-----------------------------------------------------------------------------
(* The lock *)

(* Two runs of a job in their locks' time would both have written its key. *)
LEMMA LeaseExclusion == LockOK => LeaseExclusive
<1> SUFFICES ASSUME LockOK PROVE LeaseExclusive
  OBVIOUS
<1>1. ASSUME NEW r \in Run, NEW s \in Run, Leased(r), Leased(s), job[r] = job[s],
             r \notin Robbed, s \notin Robbed
      PROVE  r = s
  <2>1. lock[job[r]] = [owner |-> OwnerOf[r], until |-> leaseEnd[r], by |-> r]
    BY <1>1 DEF LockOK, LockHeld
  <2>2. lock[job[s]] = [owner |-> OwnerOf[s], until |-> leaseEnd[s], by |-> s]
    BY <1>1 DEF LockOK, LockHeld
  <2> QED
    BY <1>1, <2>1, <2>2
<1> QED
  BY <1>1 DEF LeaseExclusive, LockOK, RobberyOK

(* A step that changes neither the keys nor who executes a lease. *)
LEMMA LockFrame ==
  ASSUME LockOK, lock' = lock, robbed' = robbed,
         \A r \in Run : Leased(r)' => /\ Leased(r) /\ job'[r] = job[r]
                                      /\ leaseEnd'[r] = leaseEnd[r]
  PROVE  LockOK'
<1>1. Robbed' = Robbed
  BY DEF Robbed
<1>2. KeyOwners' /\ RobberyOK'
  BY <1>1 DEF LockOK, KeyOwners, RobberyOK
<1>3. LockHeld'
  BY <1>1 DEF LockOK, LockHeld
<1> QED
  BY <1>2, <1>3 DEF LockOK

LEMMA AcquireLock ==
  ASSUME TypeOK, LockOK, NEW r \in Run, NEW j \in Job, Acquire(r, j)
  PROVE  LockOK'
<1>1. lock' = [lock EXCEPT ![j] = [owner |-> OwnerOf[r], until |-> Expiry(now), by |-> r]]
      /\ now' = now /\ robbed' = robbed /\ ~Locked(j) /\ pc[r] = "idle"
  BY DEF Acquire, SetNX
<1>2. Robbed' = Robbed
  BY <1>1 DEF Robbed
<1>3. \A s \in Run \ {r} : pc'[s] = pc[s] /\ job'[s] = job[s] /\ leaseEnd'[s] = leaseEnd[s]
  BY DEF Acquire, Over, Move, TypeOK, Writer
<1>4. \/ pc'[r] = "acquired" /\ job'[r] = j /\ leaseEnd'[r] = Expiry(now)
      \/ pc'[r] = "done"
  BY DEF Acquire, Over, Move, TypeOK, Writer
<1>5. ASSUME NEW s \in Run, Leased(s)', s \notin Robbed'
      PROVE  lock'[job'[s]] = [owner |-> OwnerOf[s], until |-> leaseEnd'[s], by |-> s]
  <2>1. CASE s = r
    BY <1>1, <1>4, <1>5, <2>1 DEF Leased, Executing, TypeOK
  <2>2. CASE s # r
    <3>1. Leased(s) /\ s \notin Robbed
      BY <1>1, <1>2, <1>3, <1>5, <2>2 DEF Leased, Executing
    <3>2. lock[job[s]] = [owner |-> OwnerOf[s], until |-> leaseEnd[s], by |-> s]
      BY <3>1 DEF LockOK, LockHeld
    <3>3. job[s] # j
      BY <1>1, <3>1, <3>2, BatchAssumption DEF Locked, Leased
    <3> QED
      BY <1>1, <1>3, <2>2, <3>2, <3>3 DEF TypeOK
  <2> QED
    BY <2>1, <2>2
<1>6. LockHeld'
  BY <1>5 DEF LockHeld
<1>7. KeyOwners'
  BY <1>1 DEF LockOK, KeyOwners, TypeOK
<1>8. RobberyOK'
  BY <1>1, <1>2 DEF LockOK, RobberyOK
<1> QED
  BY <1>6, <1>7, <1>8 DEF LockOK

(* Release deletes a key only under the owner's name, and remembers whose. *)
LEMMA ReleaseLock ==
  ASSUME TypeOK, LockOK, NEW r \in Run, Release(r)
  PROVE  LockOK'
<1> DEFINE key == lock[job[r]]
           robbery == [run |-> key.by, by |-> r, leased |-> Leased(r)]
<1>1. /\ now' = now /\ pc'[r] = "done" /\ Executing(r)
      /\ \A s \in Run \ {r} : pc'[s] = pc[s] /\ job'[s] = job[s] /\ leaseEnd'[s] = leaseEnd[s]
  BY DEF Release, Over, Move, Executing, TypeOK, Writer
<1>2. job[r] \in Job /\ key.by \in Run \cup {NoRun}
  BY DEF TypeOK, Lock
<1>3. CASE lock' = lock /\ robbed' = robbed
  BY <1>1, <1>3, LockFrame DEF Leased, Executing
<1>4. CASE /\ Owns(r) /\ lock' = [lock EXCEPT ![job[r]] = NoLock]
           /\ robbed' = robbed \cup {b \in {robbery} : b.run \notin {r, NoRun}}
  <2>1. robbed \subseteq robbed' /\ Robbed \subseteq Robbed'
    BY <1>4 DEF Robbed
  <2>2. key.by \in Run \ {r} => key.by \in Robbed'
    BY <1>4, BatchAssumption DEF Robbed
  <2>3. ASSUME NEW s \in Run, Leased(s)', s \notin Robbed'
        PROVE  lock'[job'[s]] = [owner |-> OwnerOf[s], until |-> leaseEnd'[s], by |-> s]
    <3>1. s # r /\ Leased(s) /\ s \notin Robbed
      BY <1>1, <2>1, <2>3 DEF Leased, Executing
    <3>2. lock[job[s]] = [owner |-> OwnerOf[s], until |-> leaseEnd[s], by |-> s]
      BY <3>1 DEF LockOK, LockHeld
    <3>3. job[s] # job[r]
      BY <2>2, <2>3, <3>1, <3>2
    <3> QED
      BY <1>1, <1>4, <3>1, <3>2, <3>3 DEF TypeOK
  <2>4. LockHeld'
    BY <2>3 DEF LockHeld
  <2>5. KeyOwners'
    BY <1>4, BatchAssumption DEF LockOK, KeyOwners, NoLock, TypeOK
  <2>6. ASSUME NEW b \in robbed'
        PROVE  b.by # b.run /\ OwnerOf[b.by] = OwnerOf[b.run] /\ (b.leased => b.by \in Robbed')
    <3>1. CASE b \in robbed
      BY <2>1, <3>1 DEF LockOK, RobberyOK
    <3>2. CASE b \notin robbed
      <4>1. b = robbery /\ b.run \notin {r, NoRun}
        BY <1>4, <2>6, <3>2
      <4>2. b.run = key.by /\ b.by = r /\ b.leased = Leased(r) /\ key.by \in Run \ {r}
        BY <1>2, <4>1
      <4>3. OwnerOf[key.by] = OwnerOf[r]
        BY <1>2, <1>4, <4>2 DEF LockOK, KeyOwners, Owns
      <4>4. ASSUME Leased(r), r \notin Robbed PROVE FALSE
        <5>1. lock[job[r]] = [owner |-> OwnerOf[r], until |-> leaseEnd[r], by |-> r]
          BY <4>4 DEF LockOK, LockHeld
        <5> QED
          BY <4>2, <5>1
      <4> QED
        BY <2>1, <4>2, <4>3, <4>4
    <3> QED
      BY <3>1, <3>2
  <2>7. RobberyOK'
    BY <2>6 DEF RobberyOK
  <2> QED
    BY <2>4, <2>5, <2>7 DEF LockOK
<1> QED
  BY <1>3, <1>4 DEF Release

LEMMA NextLock == TypeOK /\ Kinds /\ LockOK /\ [Next]_vars => LockOK'
<1> SUFFICES ASSUME TypeOK, Kinds, LockOK, [Next]_vars PROVE LockOK'
  OBVIOUS
<1>0. Run \cap Start = {} /\ Run \subseteq Writer /\ Start \subseteq Writer
  BY BatchAssumption DEF Writer
<1>1. ASSUME NEW r \in Run, NEW j \in Job, Acquire(r, j) PROVE LockOK'
  BY <1>1, AcquireLock
<1>2. ASSUME NEW r \in Run, Release(r) PROVE LockOK'
  BY <1>2, ReleaseLock
<1>3. ASSUME NEW r \in Run,
             CreateRun(r) \/ Aggregate(r) \/ CommitMetrics(r)
             \/ StoreProfile(r) \/ FinishInterest(r) \/ MarkFailed(r) \/ Fail(r)
      PROVE  LockOK'
  <2>1. UNCHANGED <<now, lock, job, leaseEnd, robbed>>
    BY <1>3 DEF CreateRun, Aggregate, CommitMetrics, StoreProfile, FinishInterest, MarkFailed, Fail
  <2>2. \A s \in Run : Executing(s)' => Executing(s)
    BY <1>0, <1>3 DEF CreateRun, Aggregate, CommitMetrics, StoreProfile, FinishInterest,
                      MarkFailed, Fail, Move, Executing, TypeOK
  <2> QED
    BY <2>1, <2>2, LockFrame DEF Leased
<1>4. ASSUME NEW r \in Run, Crash(r) PROVE LockOK'
  <2>1. /\ UNCHANGED <<now, lock, robbed>> /\ pc'[r] = "done"
        /\ \A s \in Run \ {r} : pc'[s] = pc[s] /\ job'[s] = job[s] /\ leaseEnd'[s] = leaseEnd[s]
    BY <1>0, <1>4 DEF Crash, Over, Move, TypeOK
  <2> QED
    BY <2>1, LockFrame DEF Leased, Executing
<1>5. ASSUME NEW s \in Start,
             SeedContent(s) \/ SeedMetric(s) \/ SeedProfiles(s) \/ SaveProfile(s) \/ SeedOver(s)
      PROVE  LockOK'
  <2>1. /\ UNCHANGED <<now, lock, job, leaseEnd, robbed>> /\ \A r \in Run : pc'[r] = pc[r]
    BY <1>0, <1>5 DEF SeedContent, SeedMetric, SeedProfiles, SaveProfile, SeedOver, Move, TypeOK
  <2> QED
    BY <2>1, LockFrame DEF Leased, Executing
<1>6. CASE Tick
  BY <1>6, LockFrame DEF Tick, runVars, Leased, Executing, TypeOK
<1>7. CASE DeleteExpiredProfiles \/ UNCHANGED vars \/ \E w \in Writer : FindProfile(w)
  <2>1. UNCHANGED <<now, lock, pc, job, leaseEnd, robbed>>
    BY <1>7 DEF DeleteExpiredProfiles, FindProfile, runVars, vars
  <2> QED
    BY <2>1, LockFrame DEF Leased, Executing
<1> QED
  BY <1>0, <1>1, <1>2, <1>3, <1>4, <1>5, <1>6, <1>7 DEF Next, Step, Seed

-----------------------------------------------------------------------------
(* Metrics *)

(* RowsOK and MetricsOfFinishedRun need each other: a run cannot have      *)
(* stored metrics before CreateRun gives it its row.                       *)
LEMMA NextRows ==
  TypeOK /\ Kinds /\ RowsOK /\ MetricsOfFinishedRun /\ [Next]_vars
    => RowsOK' /\ MetricsOfFinishedRun'
<1> SUFFICES ASSUME TypeOK, Kinds, RowsOK, MetricsOfFinishedRun, [Next]_vars
             PROVE  RowsOK' /\ MetricsOfFinishedRun'
  OBVIOUS
<1>0. Run \cap Start = {} /\ Run \subseteq Writer /\ Start \subseteq Writer
  BY BatchAssumption DEF Writer
<1>1. ASSUME NEW r \in Run, CreateRun(r) PROVE RowsOK' /\ MetricsOfFinishedRun'
  <2>1. /\ metrics' = metrics /\ status[r] = "none"
        /\ \A s \in Run \ {r} : pc'[s] = pc[s] /\ status'[s] = status[s]
        /\ pc'[r] \notin {"idle", "acquired"}
    BY <1>0, <1>1 DEF CreateRun, Move, TypeOK, RowsOK
  <2>2. \A i \in Item : metrics[i] \in Run => metrics[i] \in Run \ {r}
    BY <2>1 DEF TypeOK, MetricsOfFinishedRun
  <2>3. MetricsOfFinishedRun'
    BY <2>1, <2>2 DEF MetricsOfFinishedRun
  <2>4. RowsOK'
    BY <2>1 DEF RowsOK
  <2> QED
    BY <2>3, <2>4
<1>2. ASSUME NEW r \in Run, CommitMetrics(r) PROVE RowsOK' /\ MetricsOfFinishedRun'
  <2>1. /\ metrics' = [i \in Item |-> IF i \in todo[r] THEN r ELSE metrics[i]]
        /\ status' = [status EXCEPT ![r] = "success"]
        /\ pc'[r] \notin {"idle", "acquired"}
        /\ \A s \in Run \ {r} : pc'[s] = pc[s]
    BY <1>0, <1>2 DEF CommitMetrics, MarkSuccess, Move, TypeOK
  <2> QED
    BY <2>1 DEF TypeOK, RowsOK, MetricsOfFinishedRun
<1>3. ASSUME NEW r \in Run, FinishInterest(r) \/ MarkFailed(r)
      PROVE  RowsOK' /\ MetricsOfFinishedRun'
  <2>1. /\ metrics' = metrics
        /\ status'[r] \in {"success", "failed"} \/ status' = status
        /\ \A s \in Run \ {r} : pc'[s] = pc[s] /\ status'[s] = status[s]
        /\ pc'[r] \notin {"idle", "acquired"}
    BY <1>0, <1>3 DEF FinishInterest, MarkFailed, MarkSuccess, Move, TypeOK
  <2>2. MetricsOfFinishedRun'
    BY <2>1 DEF TypeOK, MetricsOfFinishedRun
  <2>3. RowsOK'
    BY <2>1 DEF RowsOK
  <2> QED
    BY <2>2, <2>3
<1>4. ASSUME status' = status, \A i \in Item : metrics'[i] \in Run => metrics'[i] = metrics[i],
             \A s \in Run : pc'[s] \in {"idle", "acquired"} => pc[s] \in {"idle", "acquired"}
      PROVE  RowsOK' /\ MetricsOfFinishedRun'
  BY <1>4 DEF RowsOK, MetricsOfFinishedRun
<1>5. ASSUME NEW r \in Run,
             (\E j \in Job : Acquire(r, j)) \/ Aggregate(r)
             \/ StoreProfile(r) \/ Release(r) \/ Fail(r) \/ Crash(r)
      PROVE  RowsOK' /\ MetricsOfFinishedRun'
  <2>1. UNCHANGED <<status, metrics>>
    BY <1>5 DEF Acquire, Aggregate, StoreProfile, Release, Fail, Crash
  <2>2. \A s \in Run : pc'[s] \in {"idle", "acquired"} => pc[s] \in {"idle", "acquired"}
    BY <1>0, <1>5 DEF Acquire, Aggregate, StoreProfile, Release, Fail, Crash, Over, Move, TypeOK
  <2> QED
    BY <1>4, <2>1, <2>2
<1>6. ASSUME NEW s \in Start,
             SeedContent(s) \/ SeedMetric(s) \/ SeedProfiles(s) \/ SaveProfile(s) \/ SeedOver(s)
      PROVE  RowsOK' /\ MetricsOfFinishedRun'
  <2>1. status' = status /\ \A r \in Run : pc'[r] = pc[r]
    BY <1>0, <1>6 DEF SeedContent, SeedMetric, SeedProfiles, SaveProfile, SeedOver, Move, TypeOK
  <2>2. metrics' = metrics \/ \E i \in Item : metrics' = [metrics EXCEPT ![i] = s]
    BY <1>6 DEF SeedContent, SeedMetric, SeedProfiles, SaveProfile, SeedOver, TypeOK
  <2>3. \A i \in Item : metrics'[i] \in Run => metrics'[i] = metrics[i]
    BY <1>0, <2>2 DEF TypeOK
  <2> QED
    BY <1>4, <2>1, <2>3
<1>7. CASE Tick \/ DeleteExpiredProfiles \/ UNCHANGED vars \/ \E w \in Writer : FindProfile(w)
  <2>1. UNCHANGED <<status, metrics, pc>>
    BY <1>7 DEF Tick, DeleteExpiredProfiles, FindProfile, runVars, vars
  <2> QED
    BY <1>4, <2>1
<1> QED
  BY <1>0, <1>1, <1>2, <1>3, <1>5, <1>6, <1>7 DEF Next, Step, Seed

(* The instants: read from the clock, once.                                 *)
LEMMA NextPast ==
  TypeOK /\ Kinds /\ SeedRows /\ AtPast /\ [Next]_vars => SeedRows' /\ AtPast'
<1> SUFFICES ASSUME TypeOK, Kinds, SeedRows, AtPast, [Next]_vars PROVE SeedRows' /\ AtPast'
  OBVIOUS
<1>0. Run \cap Start = {} /\ Run \subseteq Writer /\ Start \subseteq Writer
  BY BatchAssumption DEF Writer
<1>1. ASSUME now' = now \/ now' = now + 1,
             \A w \in Writer : at'[w] = at[w] \/ at'[w] = now
      PROVE  AtPast'
  BY <1>1, SMTT(30) DEF AtPast, TypeOK
<1>2. ASSUME \A s \in Start : pc'[s] = "idle" => pc[s] = "idle",
             \A i \in Item : metrics'[i] \in Start => metrics'[i] = metrics[i] \/ pc'[metrics'[i]] # "idle"
      PROVE  SeedRows'
  BY <1>2 DEF SeedRows
<1>3. ASSUME NEW r \in Run,
             (\E j \in Job : Acquire(r, j)) \/ CreateRun(r) \/ Aggregate(r) \/ CommitMetrics(r)
      PROVE  SeedRows' /\ AtPast'
  <2>1. now' = now /\ \A w \in Writer : at'[w] = at[w] \/ at'[w] = now
    BY <1>3 DEF Acquire, CreateRun, Aggregate, CommitMetrics, TypeOK
  <2>2. \A s \in Start : pc'[s] = pc[s]
    BY <1>0, <1>3 DEF Acquire, CreateRun, Aggregate, CommitMetrics, Over, Move, TypeOK
  <2>3. \A i \in Item : metrics'[i] \in Start => metrics'[i] = metrics[i]
    BY <1>0, <1>3 DEF Acquire, CreateRun, Aggregate, CommitMetrics, TypeOK
  <2> QED
    BY <1>1, <1>2, <2>1, <2>2, <2>3
<1>4. ASSUME NEW r \in Run,
             StoreProfile(r) \/ FinishInterest(r) \/ MarkFailed(r) \/ Release(r) \/ Fail(r) \/ Crash(r)
      PROVE  SeedRows' /\ AtPast'
  <2>1. UNCHANGED <<now, at, metrics>>
    BY <1>4 DEF StoreProfile, FinishInterest, MarkFailed, Release, Fail, Crash
  <2>2. \A s \in Start : pc'[s] = pc[s]
    BY <1>0, <1>4 DEF StoreProfile, FinishInterest, MarkFailed, Release, Fail, Crash, Over, Move, TypeOK
  <2> QED
    BY <1>1, <1>2, <2>1, <2>2
<1>5. ASSUME NEW s \in Start,
             SeedContent(s) \/ SeedMetric(s) \/ SeedProfiles(s) \/ SaveProfile(s) \/ SeedOver(s)
      PROVE  SeedRows' /\ AtPast'
  <2>1. now' = now /\ \A w \in Writer : at'[w] = at[w] \/ at'[w] = now
    BY <1>5 DEF SeedContent, SeedMetric, SeedProfiles, SaveProfile, SeedOver, TypeOK
  <2>2. \A t \in Start : pc'[t] = "idle" => pc[t] = "idle"
    BY <1>0, <1>5 DEF SeedContent, SeedMetric, SeedProfiles, SaveProfile, SeedOver, Move, TypeOK
  <2>3. \A i \in Item : metrics'[i] \in Start => metrics'[i] = metrics[i] \/ pc'[metrics'[i]] # "idle"
    BY <1>0, <1>5 DEF SeedContent, SeedMetric, SeedProfiles, SaveProfile, SeedOver, Move, TypeOK
  <2> QED
    BY <1>1, <1>2, <2>1, <2>2, <2>3
<1>6. CASE Tick \/ DeleteExpiredProfiles \/ UNCHANGED vars \/ \E w \in Writer : FindProfile(w)
  <2>1. UNCHANGED <<at, metrics, pc>> /\ (now' = now \/ now' = now + 1)
    BY <1>6 DEF Tick, DeleteExpiredProfiles, FindProfile, runVars, vars
  <2> QED
    BY <1>1, <1>2, <2>1
<1> QED
  BY <1>0, <1>3, <1>4, <1>5, <1>6 DEF Next, Step, Seed

(* Nobody forgets who was late or robbed. *)
LEMMA Grows == [Next]_vars => late \subseteq late' /\ robbed \subseteq robbed'
BY DEF Next, Step, Seed, Acquire, CreateRun, Aggregate, CommitMetrics, FindProfile, StoreProfile,
       FinishInterest, MarkFailed, Release, Fail, Crash, SeedContent, SeedMetric, SeedProfiles,
       SaveProfile, SeedOver, Tick, DeleteExpiredProfiles, NowLate, vars, runVars

LEMMA NextAlone == TypeOK /\ Kinds /\ SeedsAlone /\ [Next]_vars => SeedsAlone'
<1> SUFFICES ASSUME TypeOK, Kinds, SeedsAlone, [Next]_vars, late' = {}
             PROVE  \A s \in Start : Seeding(s)' => /\ \A r \in Run : ~Executing(r)'
                                                    /\ \A t \in Start : Seeding(t)' => t = s
  BY DEF SeedsAlone
<1>0. Run \cap Start = {} /\ Run \subseteq Writer /\ Start \subseteq Writer
  BY BatchAssumption DEF Writer
<1>1. late = {}
  BY Grows
<1>2. ASSUME \A s \in Start : Seeding(s)' => Seeding(s),
             \A r \in Run : Executing(r)' => Executing(r)
      PROVE  \A s \in Start : Seeding(s)' => /\ \A r \in Run : ~Executing(r)'
                                             /\ \A t \in Start : Seeding(t)' => t = s
  BY <1>1, <1>2 DEF SeedsAlone
<1>3. ASSUME NEW r \in Run, NEW j \in Job, Acquire(r, j)
      PROVE  \A s \in Start : Seeding(s)' => /\ \A q \in Run : ~Executing(q)'
                                             /\ \A t \in Start : Seeding(t)' => t = s
  <2>1. \A s \in Start : pc'[s] = pc[s]
    BY <1>0, <1>3 DEF Acquire, Over, Move, TypeOK
  <2>2. CASE late' = late \cup {s \in Start : Seeding(s)}
    <3>1. \A s \in Start : ~Seeding(s)
      BY <2>2
    <3> QED
      BY <2>1, <3>1 DEF Seeding
  <2>3. CASE Over(r)
    <3>1. \A q \in Run : Executing(q)' => Executing(q)
      BY <1>0, <2>3 DEF Over, Move, Executing, TypeOK
    <3> QED
      BY <1>2, <2>1, <3>1 DEF Seeding
  <2> QED
    BY <1>3, <2>2, <2>3 DEF Acquire
<1>4. ASSUME NEW s \in Start, SeedContent(s)
      PROVE  \A t \in Start : Seeding(t)' => /\ \A r \in Run : ~Executing(r)'
                                             /\ \A u \in Start : Seeding(u)' => u = t
  <2>1. \A w \in Writer : ~Executing(w) /\ ~Seeding(w)
    BY <1>4 DEF SeedContent
  <2>2. \A w \in Writer \ {s} : pc'[w] = pc[w]
    BY <1>0, <1>4 DEF SeedContent, Move, TypeOK
  <2> QED
    BY <1>0, <2>1, <2>2 DEF Executing, Seeding
<1>5. ASSUME NEW r \in Run,
             CreateRun(r) \/ Aggregate(r) \/ CommitMetrics(r) \/ StoreProfile(r) \/ FinishInterest(r)
             \/ MarkFailed(r) \/ Release(r) \/ Fail(r) \/ Crash(r)
      PROVE  (\A s \in Start : Seeding(s)' => Seeding(s)) /\ \A q \in Run : Executing(q)' => Executing(q)
  <2>1. Executing(r) /\ \A w \in Writer \ {r} : pc'[w] = pc[w]
    BY <1>0, <1>5 DEF CreateRun, Aggregate, CommitMetrics, StoreProfile, FinishInterest,
                      MarkFailed, Release, Fail, Crash, Over, Move, Executing, TypeOK
  <2> QED
    BY <1>0, <2>1 DEF Executing, Seeding
<1>6. ASSUME NEW s \in Start,
             SeedMetric(s) \/ SeedProfiles(s) \/ SaveProfile(s) \/ SeedOver(s)
      PROVE  (\A t \in Start : Seeding(t)' => Seeding(t)) /\ \A q \in Run : Executing(q)' => Executing(q)
  <2>1. Seeding(s) /\ \A w \in Writer \ {s} : pc'[w] = pc[w]
    BY <1>0, <1>6 DEF SeedMetric, SeedProfiles, SaveProfile, SeedOver, Move, Seeding, TypeOK
  <2> QED
    BY <1>0, <2>1 DEF Executing, Seeding
<1>7. CASE Tick \/ DeleteExpiredProfiles \/ UNCHANGED vars \/ \E w \in Writer : FindProfile(w)
  <2>1. pc' = pc
    BY <1>7 DEF Tick, DeleteExpiredProfiles, FindProfile, runVars, vars
  <2> QED
    BY <1>2, <2>1 DEF Executing, Seeding
<1> QED
  BY <1>0, <1>2, <1>3, <1>4, <1>5, <1>6, <1>7 DEF Next, Step, Seed

LEMMA TurnBefore == [Next]_vars /\ InTurn' => InTurn
BY Grows DEF InTurn

(* While nobody was robbed, one run executes a job's lease. *)
LEMMA OneLease ==
  ASSUME LockOK, InTurn, NEW r \in Run, NEW s \in Run, Leased(r), Leased(s), job[r] = job[s]
  PROVE  r = s
BY LeaseExclusion DEF LeaseExclusive, InTurn, Robbed

(* A step that stores no metrics and gives nobody who stores an instant.   *)
LEMMA OrderFrame ==
  ASSUME TypeOK, MetricsOrdered, InTurn' => InTurn, metrics' = metrics,
         \A i \in Item : metrics[i] # NoRun => at'[metrics[i]] = at[metrics[i]],
         \A w \in Writer : Ranks(w)' => Ranks(w) /\ at'[w] = at[w]
  PROVE  MetricsOrdered'
BY DEF TypeOK, MetricsOrdered

(* A run or a seed takes its instant: it has stored nothing so far.        *)
LEMMA BeginOrder ==
  ASSUME IInv, NEW w \in Writer, InTurn' => InTurn,
         metrics' = metrics, \A i \in Item : metrics[i] # w,
         at' = [at EXCEPT ![w] = now],
         \A x \in Writer \ {w} : Ranks(x)' => Ranks(x)
  PROVE  MetricsOrdered'
<1> USE DEF IInv
<1>1. \A i \in Item : metrics[i] # NoRun => metrics[i] \in Writer \ {w}
  BY DEF TypeOK
<1>2. \A i \in Item : metrics[i] # NoRun => at'[metrics[i]] = at[metrics[i]]
  BY <1>1 DEF TypeOK
<1>3. \A i \in Item : metrics[i] # NoRun => at[metrics[i]] <= now
  BY <1>1 DEF AtPast
<1>4. at'[w] = now /\ \A x \in Writer \ {w} : at'[x] = at[x]
  BY DEF TypeOK
<1> QED
  BY <1>2, <1>3, <1>4 DEF MetricsOrdered

(* w stores metrics, and nobody else may. *)
LEMMA WriteOrder ==
  ASSUME TypeOK, MetricsOrdered, InTurn' => InTurn, NEW w \in Writer, at' = at,
         \A i \in Item : metrics'[i] \in {w, metrics[i]},
         InTurn' => \A x \in Writer : Ranks(x)' => Ranks(x) /\ x = w
  PROVE  MetricsOrdered'
<1> SUFFICES ASSUME InTurn', NEW i \in Item, NEW x \in Writer, metrics'[i] # NoRun, Ranks(x)'
             PROVE  at'[metrics'[i]] <= at'[x]
  BY DEF MetricsOrdered
<1>1. x = w /\ Ranks(w) /\ InTurn
  OBVIOUS
<1>2. CASE metrics'[i] = w
  BY <1>1, <1>2 DEF TypeOK
<1>3. CASE metrics'[i] = metrics[i]
  BY <1>1, <1>3 DEF MetricsOrdered
<1> QED
  BY <1>2, <1>3

LEMMA NextOrdered == IInv /\ [Next]_vars => MetricsOrdered'
<1> SUFFICES ASSUME IInv, [Next]_vars PROVE MetricsOrdered'
  OBVIOUS
<1> USE DEF IInv
<1>0. Run \cap Start = {} /\ Run \subseteq Writer /\ Start \subseteq Writer
  BY BatchAssumption DEF Writer
<1>a. InTurn' => InTurn
  BY TurnBefore
<1>1. ASSUME NEW r \in Run, CreateRun(r) PROVE MetricsOrdered'
  <2>1. /\ UNCHANGED <<now, metrics, job, leaseEnd>>
        /\ \A w \in Writer \ {r} : pc'[w] = pc[w]
        /\ \/ at' = [at EXCEPT ![r] = now]
           \/ at' = at /\ pc'[r] = "releasing"
    BY <1>0, <1>1 DEF CreateRun, Move, TypeOK
  <2>2. \A i \in Item : metrics[i] # r
    BY <1>1, BatchAssumption DEF CreateRun, RowsOK, MetricsOfFinishedRun
  <2>3. \A x \in Writer \ {r} : Ranks(x)' => Ranks(x)
    BY <2>1 DEF Ranks, Leased, Executing
  <2>4. CASE at' = [at EXCEPT ![r] = now]
    BY <1>0, <1>a, <2>1, <2>2, <2>3, <2>4, BeginOrder
  <2>5. CASE at' = at /\ pc'[r] = "releasing"
    <3>1. ~Ranks(r)'
      BY <1>0, <2>5 DEF Ranks
    <3> QED
      BY <1>a, <2>1, <2>3, <2>5, <3>1, OrderFrame
  <2> QED
    BY <2>1, <2>4, <2>5
<1>2. ASSUME NEW r \in Run, CommitMetrics(r) PROVE MetricsOrdered'
  <2>1. /\ UNCHANGED <<now, at, job, leaseEnd>> /\ job[r] = "ranking" /\ Executing(r)
        /\ \A i \in Item : metrics'[i] \in {r, metrics[i]}
        /\ \A w \in Writer \ {r} : pc'[w] = pc[w]
        /\ pc'[r] \in {"releasing", "failing"}
    BY <1>0, <1>2 DEF CommitMetrics, Move, Executing, TypeOK
  <2>2. ~Ranks(r)' /\ \A x \in Writer \ {r} : Ranks(x)' => Ranks(x)
    BY <1>0, <2>1 DEF Ranks, Leased, Executing
  <2>3. ASSUME InTurn', NEW x \in Writer, Ranks(x)' PROVE FALSE
    <3>1. Ranks(x) /\ x # r /\ InTurn
      BY <1>a, <2>2, <2>3
    <3>2. Leased(r)
      BY <1>2, <2>1, <2>3 DEF CommitMetrics, NowLate, Leased, InTurn, TypeOK
    <3>3. ASSUME x \in Run PROVE FALSE
      <4>1. Leased(x) /\ job[x] = "ranking"
        BY <1>0, <3>1, <3>3 DEF Ranks
      <4>2. LockOK
        OBVIOUS
      <4> QED
        BY <2>1, <3>1, <3>2, <3>3, <4>1, <4>2, OneLease
    <3>4. x \in Start /\ Seeding(x)
      BY <3>1, <3>3 DEF Ranks, Seeding
    <3> QED
      BY <2>1, <3>1, <3>4 DEF SeedsAlone, InTurn
  <2> QED
    BY <1>0, <1>a, <2>1, <2>3, WriteOrder
<1>3. ASSUME NEW r \in Run,
             (\E j \in Job : Acquire(r, j)) \/ Aggregate(r) \/ StoreProfile(r) \/ FinishInterest(r)
             \/ MarkFailed(r) \/ Release(r) \/ Fail(r) \/ Crash(r)
      PROVE  MetricsOrdered'
  <2>1. /\ UNCHANGED <<now, metrics, at>>
        /\ \A w \in Writer \ {r} : pc'[w] = pc[w]
        /\ \A q \in Run \ {r} : job'[q] = job[q] /\ leaseEnd'[q] = leaseEnd[q]
    BY <1>0, <1>3 DEF Acquire, Aggregate, StoreProfile, FinishInterest, MarkFailed, Release, Fail,
                      Crash, Over, Move, TypeOK
  <2>2. \/ pc'[r] \notin {"created", "storing"}
        \/ pc[r] \in {"created", "storing"} /\ UNCHANGED <<job, leaseEnd>>
    BY <1>0, <1>3 DEF Acquire, Aggregate, StoreProfile, FinishInterest, MarkFailed, Release, Fail,
                      Crash, Over, Move, TypeOK
  <2>3. \A x \in Writer : Ranks(x)' => Ranks(x)
    BY <1>0, <2>1, <2>2 DEF Ranks, Leased, Executing
  <2> QED
    BY <1>a, <2>1, <2>3, OrderFrame
<1>4. ASSUME NEW s \in Start, SeedContent(s) PROVE MetricsOrdered'
  <2>1. /\ UNCHANGED <<now, metrics, job, leaseEnd>> /\ at' = [at EXCEPT ![s] = now]
        /\ \A w \in Writer \ {s} : pc'[w] = pc[w]
    BY <1>0, <1>4 DEF SeedContent, Move, TypeOK
  <2>2. \A i \in Item : metrics[i] # s
    BY <1>4 DEF SeedContent, SeedRows
  <2>3. \A x \in Writer \ {s} : Ranks(x)' => Ranks(x)
    BY <1>0, <2>1 DEF Ranks, Leased, Executing
  <2> QED
    BY <1>0, <1>a, <2>1, <2>2, <2>3, BeginOrder
<1>5. ASSUME NEW s \in Start, SeedMetric(s) PROVE MetricsOrdered'
  <2>1. /\ UNCHANGED <<now, at, pc, job, leaseEnd>> /\ Seeding(s)
        /\ \A i \in Item : metrics'[i] \in {s, metrics[i]}
    BY <1>5 DEF SeedMetric, Seeding, TypeOK
  <2>2. ASSUME InTurn', NEW x \in Writer, Ranks(x)' PROVE Ranks(x) /\ x = s
    <3>1. Ranks(x) /\ InTurn
      BY <1>a, <2>1, <2>2 DEF Ranks, Leased, Executing
    <3>2. x \in Run => Executing(x)
      BY <3>1, <1>0 DEF Ranks, Leased
    <3>3. x \in Start => Seeding(x)
      BY <3>1, <1>0 DEF Ranks, Seeding
    <3>4. x = s
      BY <2>1, <3>1, <3>2, <3>3 DEF SeedsAlone, InTurn, Writer
    <3> QED
      BY <3>1, <3>4
  <2> QED
    BY <1>0, <1>a, <2>1, <2>2, WriteOrder
<1>6. ASSUME NEW s \in Start, SeedProfiles(s) \/ SaveProfile(s) \/ SeedOver(s)
      PROVE  MetricsOrdered'
  <2>1. /\ UNCHANGED <<now, metrics, at, job, leaseEnd>>
        /\ \A w \in Writer \ {s} : pc'[w] = pc[w]
        /\ pc'[s] = "seed_metrics" => pc[s] = "seed_metrics"
    BY <1>0, <1>6 DEF SeedProfiles, SaveProfile, SeedOver, Move, TypeOK
  <2>2. \A x \in Writer : Ranks(x)' => Ranks(x)
    BY <1>0, <2>1 DEF Ranks, Leased, Executing
  <2> QED
    BY <1>a, <2>1, <2>2, OrderFrame
<1>7. CASE Tick \/ DeleteExpiredProfiles \/ UNCHANGED vars \/ \E w \in Writer : FindProfile(w)
  <2>1. UNCHANGED <<metrics, at, pc, job, leaseEnd>> /\ (now' = now \/ now' = now + 1)
    BY <1>7 DEF Tick, DeleteExpiredProfiles, FindProfile, runVars, vars
  <2>2. \A x \in Writer : Ranks(x)' => Ranks(x)
    BY <2>1 DEF Ranks, Leased, Executing, TypeOK
  <2> QED
    BY <1>a, <2>1, <2>2, OrderFrame
<1> QED
  BY <1>0, <1>1, <1>2, <1>3, <1>4, <1>5, <1>6, <1>7 DEF Next, Step, Seed

-----------------------------------------------------------------------------
(* One profile row for an item *)

(* Who may still store profiles: a run in its lock's time, or a seed. *)
Profiles(w) ==
  \/ w \in Run /\ Leased(w) /\ job[w] = "interest" /\ pc[w] = "storing"
  \/ w \in Start /\ pc[w] = "seed_profiles"

(* A run or a seed between its look-up and its write is storing profiles;  *)
(* what it read is all that there still is, if everyone writes in turn.    *)
ProfilesOK ==
  /\ \A w \in Writer : found[w] # NothingFound =>
       /\ found[w].item \in Item
       /\ w \in Run => job[w] = "interest" /\ pc[w] = "storing"
       /\ w \in Start => pc[w] = "seed_profiles"
  /\ OneProfilePerItem
  /\ InTurn => \A w \in Writer :
       Profiles(w) /\ found[w] # NothingFound =>
         \A p \in profiles[found[w].item] : p.id = found[w].id

(* A step that stores no profile and looks none up. *)
LEMMA ProfilesFrame ==
  ASSUME ProfilesOK, InTurn' => InTurn,
         \A i \in Item : profiles'[i] \subseteq profiles[i],
         \A w \in Writer : found'[w] # NothingFound =>
           /\ found'[w] = found[w] /\ pc'[w] = pc[w]
           /\ w \in Run => job'[w] = job[w]
           /\ Profiles(w)' => Profiles(w)
  PROVE  ProfilesOK'
<1>1. OneProfilePerItem'
  BY DEF ProfilesOK, OneProfilePerItem
<1>2. ASSUME NEW w \in Writer, found'[w] # NothingFound
      PROVE  /\ found'[w].item \in Item
             /\ w \in Run => job'[w] = "interest" /\ pc'[w] = "storing"
             /\ w \in Start => pc'[w] = "seed_profiles"
  BY <1>2 DEF ProfilesOK
<1>3. ASSUME InTurn', NEW w \in Writer, Profiles(w)', found'[w] # NothingFound,
             NEW p \in profiles'[found'[w].item]
      PROVE  p.id = found'[w].id
  <2>1. found'[w] = found[w] /\ Profiles(w) /\ InTurn
    BY <1>3
  <2>2. found[w].item \in Item
    BY <1>3, <2>1 DEF ProfilesOK
  <2>3. p \in profiles[found[w].item]
    BY <1>3, <2>1, <2>2
  <2> QED
    BY <1>3, <2>1, <2>3 DEF ProfilesOK
<1> QED
  BY <1>1, <1>2, <1>3 DEF ProfilesOK

LEMMA FindProfileOK ==
  ASSUME TypeOK, Kinds, ProfilesOK, NEW w \in Writer, FindProfile(w)
  PROVE  ProfilesOK'
<1>0. Run \cap Start = {} /\ Writer = Run \cup Start
  BY BatchAssumption DEF Writer
<1>1. PICK i \in todo[w], id \in 0 .. nextId :
        IsFirst(i, id) /\ found' = [found EXCEPT ![w] = [item |-> i, id |-> id]]
  BY DEF FindProfile
<1>2. /\ w \in Run => pc[w] = "storing" /\ job[w] = "interest"
      /\ w \in Start => pc[w] = "seed_profiles"
      /\ UNCHANGED <<now, late, robbed, profiles, pc, job, leaseEnd>>
  BY <1>0 DEF FindProfile
<1>3. i \in Item /\ found'[w] = [item |-> i, id |-> id]
      /\ \A x \in Writer \ {w} : found'[x] = found[x]
  BY <1>1 DEF TypeOK
<1>4. ASSUME InTurn, NEW p \in profiles[i] PROVE p.id = id
  <2>1. \A q \in profiles[i] : q = p
    BY <1>3, <1>4 DEF ProfilesOK, OneProfilePerItem
  <2>2. id \in {q.id : q \in profiles[i]}
    BY <1>1, <1>4 DEF IsFirst
  <2> QED
    BY <2>1, <2>2
<1>5. InTurn' <=> InTurn
  BY <1>2 DEF InTurn
<1>6. \A x \in Writer : Profiles(x)' <=> Profiles(x)
  BY <1>2 DEF Profiles, Leased, Executing
<1>7. OneProfilePerItem'
  BY <1>2, <1>5 DEF ProfilesOK, OneProfilePerItem
<1>8. \A x \in Writer : found'[x] # NothingFound =>
        /\ found'[x].item \in Item
        /\ x \in Run => job'[x] = "interest" /\ pc'[x] = "storing"
        /\ x \in Start => pc'[x] = "seed_profiles"
  BY <1>2, <1>3 DEF ProfilesOK
<1>9. ASSUME InTurn', NEW x \in Writer, Profiles(x)', found'[x] # NothingFound,
             NEW p \in profiles'[found'[x].item]
      PROVE  p.id = found'[x].id
  <2>1. CASE x = w
    BY <1>2, <1>3, <1>4, <1>5, <1>9, <2>1
  <2>2. CASE x # w
    BY <1>2, <1>3, <1>5, <1>6, <1>9, <2>2 DEF ProfilesOK
  <2> QED
    BY <2>1, <2>2
<1> QED
  BY <1>7, <1>8, <1>9 DEF ProfilesOK

(* w writes the profile it looked up, and nobody else is storing any.      *)
LEMMA WriteProfileOK ==
  ASSUME TypeOK, ProfilesOK, NEW w \in Writer, found[w] # NothingFound,
         InTurn' => InTurn /\ Profiles(w),
         InTurn' => \A x \in Writer : Profiles(x)' => x = w,
         UNCHANGED <<now, pc, job>>,
         found' = [found EXCEPT ![w] = NothingFound],
         NEW P, profiles' = [profiles EXCEPT ![found[w].item] = P],
         (\A p \in profiles[found[w].item] : p.id = found[w].id) => \A p, q \in P : p = q
  PROVE  ProfilesOK'
<1>1. found[w].item \in Item /\ (InTurn' => \A p \in profiles[found[w].item] : p.id = found[w].id)
  BY DEF ProfilesOK
<1>2. OneProfilePerItem'
  BY <1>1 DEF ProfilesOK, OneProfilePerItem, TypeOK
<1>3. found'[w] = NothingFound /\ \A x \in Writer \ {w} : found'[x] = found[x]
  BY DEF TypeOK
<1>4. \A x \in Writer : found'[x] # NothingFound =>
        /\ found'[x].item \in Item
        /\ x \in Run => job'[x] = "interest" /\ pc'[x] = "storing"
        /\ x \in Start => pc'[x] = "seed_profiles"
  BY <1>3 DEF ProfilesOK
<1>5. InTurn' => \A x \in Writer : ~(Profiles(x)' /\ found'[x] # NothingFound)
  BY <1>3
<1> QED
  BY <1>2, <1>4, <1>5 DEF ProfilesOK

(* While everyone writes in turn, one stores profiles at a time. *)
LEMMA OneStores ==
  ASSUME IInv, InTurn, NEW w \in Writer, NEW x \in Writer, Profiles(w), Profiles(x)
  PROVE  x = w
<1> USE DEF IInv
<1>1. Run \cap Start = {} /\ Writer = Run \cup Start
  BY BatchAssumption DEF Writer
<1>2. CASE w \in Run /\ x \in Run
  <2>1. Leased(w) /\ Leased(x) /\ job[w] = job[x] /\ LockOK
    BY <1>1, <1>2 DEF Profiles
  <2> QED
    BY <1>2, <2>1, OneLease
<1>3. CASE w \in Start
  <2>1. Seeding(w) /\ (x \in Start => Seeding(x)) /\ (x \in Run => Executing(x))
    BY <1>1, <1>3 DEF Profiles, Seeding, Leased
  <2> QED
    BY <1>1, <1>3, <2>1 DEF SeedsAlone, InTurn
<1>4. CASE x \in Start
  <2>1. Seeding(x) /\ (w \in Start => Seeding(w)) /\ (w \in Run => Executing(w))
    BY <1>1, <1>4 DEF Profiles, Seeding, Leased
  <2> QED
    BY <1>1, <1>4, <2>1 DEF SeedsAlone, InTurn
<1> QED
  BY <1>1, <1>2, <1>3, <1>4

LEMMA StoreProfileOK ==
  ASSUME IInv, ProfilesOK, [Next]_vars, NEW r \in Run, StoreProfile(r)
  PROVE  ProfilesOK'
<1> DEFINE i == found[r].item
           id == found[r].id
           P == IF id = 0 THEN profiles[i] \cup {[id |-> nextId, by |-> r]}
                ELSE {IF p.id = id THEN [p EXCEPT !.by = r] ELSE p : p \in profiles[i]}
<1>1. /\ r \in Writer /\ pc[r] = "storing" /\ job[r] = "interest" /\ found[r] # NothingFound
      /\ UNCHANGED <<now, pc, job, leaseEnd>>
      /\ found' = [found EXCEPT ![r] = NothingFound]
  BY DEF StoreProfile, ProfilesOK, Writer
<1>2. profiles' = [profiles EXCEPT ![i] = P]
  BY DEF StoreProfile
<1>3. \A x \in Writer : Profiles(x)' <=> Profiles(x)
  BY <1>1 DEF Profiles, Leased, Executing
<1>4. InTurn' => InTurn /\ Profiles(r)
  <2>1. InTurn' => InTurn
    BY TurnBefore
  <2>2. InTurn' => now < leaseEnd[r]
    BY DEF StoreProfile, NowLate, InTurn
  <2> QED
    BY <1>1, <2>1, <2>2 DEF Profiles, Leased, Executing
<1>5. InTurn' => \A x \in Writer : Profiles(x)' => x = r
  BY <1>1, <1>3, <1>4, OneStores
<1>6. ASSUME \A p \in profiles[i] : p.id = id, NEW p \in P, NEW q \in P PROVE p = q
  <2>1. i \in Item /\ profiles[i] \subseteq ProfileRow
    BY <1>1 DEF ProfilesOK, IInv, TypeOK
  <2>2. CASE id = 0
    <3>1. profiles[i] = {}
      BY <1>6, <2>1, <2>2 DEF ProfileRow
    <3> QED
      BY <1>6, <2>2, <3>1
  <2>3. CASE id # 0
    <3>1. PICK a \in profiles[i] : p = [a EXCEPT !.by = r]
      BY <1>6, <2>3
    <3>2. PICK b \in profiles[i] : q = [b EXCEPT !.by = r]
      BY <1>6, <2>3
    <3>3. a.id = id /\ b.id = id /\ a \in ProfileRow /\ b \in ProfileRow
      BY <1>6, <2>1
    <3>4. p = [id |-> id, by |-> r] /\ q = [id |-> id, by |-> r]
      BY <3>1, <3>2, <3>3 DEF ProfileRow
    <3> QED
      BY <3>4
  <2> QED
    BY <2>2, <2>3
<1> HIDE DEF P
<1> QED
  BY <1>1, <1>2, <1>4, <1>5, <1>6, WriteProfileOK DEF IInv

LEMMA SaveProfileOK ==
  ASSUME IInv, ProfilesOK, [Next]_vars, NEW s \in Start, SaveProfile(s)
  PROVE  ProfilesOK'
<1> DEFINE i == found[s].item
           id == IF found[s].id = 0 THEN nextId ELSE found[s].id
           P == {p \in profiles[i] : p.id # id} \cup {[id |-> id, by |-> s]}
<1>1. /\ s \in Writer /\ pc[s] = "seed_profiles" /\ found[s] # NothingFound
      /\ UNCHANGED <<now, pc, job, leaseEnd>>
      /\ found' = [found EXCEPT ![s] = NothingFound]
  BY DEF SaveProfile, Writer
<1>2. profiles' = [profiles EXCEPT ![i] = P]
  BY DEF SaveProfile
<1>3. \A x \in Writer : Profiles(x)' <=> Profiles(x)
  BY <1>1 DEF Profiles, Leased, Executing
<1>4. InTurn' => InTurn /\ Profiles(s)
  BY <1>1, TurnBefore DEF Profiles
<1>5. InTurn' => \A x \in Writer : Profiles(x)' => x = s
  BY <1>1, <1>3, <1>4, OneStores
<1>6. ASSUME \A p \in profiles[i] : p.id = found[s].id, NEW p \in P, NEW q \in P PROVE p = q
  <2>1. i \in Item /\ profiles[i] \subseteq ProfileRow
    BY <1>1 DEF ProfilesOK, IInv, TypeOK
  <2>2. {o \in profiles[i] : o.id # id} = {}
    BY <1>6, <2>1 DEF ProfileRow
  <2> QED
    BY <1>6, <2>2
<1> HIDE DEF P
<1> QED
  BY <1>1, <1>2, <1>4, <1>5, <1>6, WriteProfileOK DEF IInv

LEMMA NextProfiles ==
  ASSUME IInv, ProfilesOK, [Next]_vars
  PROVE  ProfilesOK'
<1> USE DEF IInv
<1>0. Run \cap Start = {} /\ Writer = Run \cup Start
  BY BatchAssumption DEF Writer
<1>a. InTurn' => InTurn
  BY TurnBefore
<1>1. ASSUME NEW w \in Writer, FindProfile(w) PROVE ProfilesOK'
  BY <1>1, FindProfileOK
<1>2. ASSUME NEW r \in Run, StoreProfile(r) PROVE ProfilesOK'
  BY <1>2, StoreProfileOK
<1>3. ASSUME NEW s \in Start, SaveProfile(s) PROVE ProfilesOK'
  BY <1>3, SaveProfileOK
<1>4. ASSUME NEW r \in Run, (\E j \in Job : Acquire(r, j)) \/ Release(r) \/ Fail(r) \/ Crash(r)
      PROVE  ProfilesOK'
  <2>1. /\ UNCHANGED <<now, profiles>> /\ found'[r] = NothingFound
        /\ \A w \in Writer \ {r} : pc'[w] = pc[w] /\ found'[w] = found[w]
        /\ \A q \in Run \ {r} : job'[q] = job[q] /\ leaseEnd'[q] = leaseEnd[q]
    BY <1>0, <1>4 DEF Acquire, Release, Fail, Crash, Over, Move, TypeOK, ProfilesOK
  <2>2. \A w \in Writer \ {r} : Profiles(w)' => Profiles(w)
    BY <1>0, <2>1 DEF Profiles, Leased, Executing
  <2> QED
    BY <1>0, <1>a, <2>1, <2>2, ProfilesFrame
<1>5. ASSUME NEW r \in Run,
             CreateRun(r) \/ Aggregate(r) \/ CommitMetrics(r) \/ FinishInterest(r) \/ MarkFailed(r)
      PROVE  ProfilesOK'
  <2>1. found[r] = NothingFound
    BY <1>0, <1>5 DEF CreateRun, Aggregate, CommitMetrics, FinishInterest, MarkFailed, ProfilesOK
  <2>2. /\ UNCHANGED <<now, profiles, job, leaseEnd, found>>
        /\ \A w \in Writer \ {r} : pc'[w] = pc[w]
    BY <1>0, <1>5 DEF CreateRun, Aggregate, CommitMetrics, FinishInterest, MarkFailed, Move, TypeOK
  <2>3. \A w \in Writer \ {r} : Profiles(w)' => Profiles(w)
    BY <1>0, <2>2 DEF Profiles, Leased, Executing
  <2> QED
    BY <1>0, <1>a, <2>1, <2>2, <2>3, ProfilesFrame
<1>6. ASSUME NEW s \in Start, SeedContent(s) \/ SeedMetric(s) \/ SeedProfiles(s) \/ SeedOver(s)
      PROVE  ProfilesOK'
  <2>1. /\ UNCHANGED <<now, profiles, job, leaseEnd>> /\ found'[s] = NothingFound
        /\ \A w \in Writer \ {s} : pc'[w] = pc[w] /\ found'[w] = found[w]
    BY <1>0, <1>6 DEF SeedContent, SeedMetric, SeedProfiles, SeedOver, Move, TypeOK, ProfilesOK
  <2>2. \A w \in Writer \ {s} : Profiles(w)' => Profiles(w)
    BY <1>0, <2>1 DEF Profiles, Leased, Executing
  <2> QED
    BY <1>0, <1>a, <2>1, <2>2, ProfilesFrame
<1>7. CASE Tick \/ DeleteExpiredProfiles \/ UNCHANGED vars
  <2>1. /\ UNCHANGED <<pc, job, leaseEnd, found>> /\ (now' = now \/ now' = now + 1)
        /\ \A i \in Item : profiles'[i] \subseteq profiles[i]
    BY <1>7 DEF Tick, DeleteExpiredProfiles, runVars, vars
  <2>2. \A w \in Writer : Profiles(w)' => Profiles(w)
    BY <2>1 DEF Profiles, Leased, Executing, TypeOK
  <2> QED
    BY <1>a, <2>1, <2>2, ProfilesFrame
<1> QED
  BY <1>0, <1>1, <1>2, <1>3, <1>4, <1>5, <1>6, <1>7 DEF Next, Step, Seed

-----------------------------------------------------------------------------
(* The theorems *)

LEMMA NextIInv == IInv /\ [Next]_vars => IInv'
BY NextType, NextKinds, NextLock, NextRows, NextPast, NextAlone, NextOrdered DEF IInv

(* The inductive invariant holds in every reachable state. *)
THEOREM Invariance == Spec => []IInv
<1>1. IInv /\ [Next]_vars => IInv'
  BY NextIInv
<1> QED
  BY <1>1, InitIInv, PTL DEF Spec

(* Every reachable state is well typed. *)
THEOREM TypeCorrect == Spec => []TypeOK
<1>1. IInv => TypeOK
  BY DEF IInv
<1> QED
  BY <1>1, Invariance, PTL

(* Whoever shares an owner with whom: two runs of a job execute within the *)
(* time their lock was granted for only if one was robbed of its key, by a *)
(* run of the same owner that had outlived its own lock or was robbed too. *)
THEOREM LeaseIsExclusive == Spec => []LeaseExclusive
<1>1. IInv => LeaseExclusive
  BY LeaseExclusion DEF IInv
<1> QED
  BY <1>1, Invariance, PTL

(* A run whose owner is its own never loses its lock to another run.       *)
THEOREM OwnOwnerKeepsLock ==
  ASSUME NEW r \in Run, \A s \in Run : OwnerOf[s] = OwnerOf[r] => s = r
  PROVE  Spec => [](r \notin Robbed)
<1>1. IInv => r \notin Robbed
  <2> SUFFICES ASSUME IInv, NEW b \in robbed, b.run = r PROVE FALSE
    BY DEF Robbed
  <2>1. b.by \in Run
    BY DEF IInv, TypeOK
  <2>2. b.by # b.run /\ OwnerOf[b.by] = OwnerOf[b.run]
    BY DEF IInv, LockOK, RobberyOK
  <2> QED
    BY <2>1, <2>2
<1> QED
  BY <1>1, Invariance, PTL

(* Metrics are only ever those of a seed or of a run that batch_runs calls *)
(* finished, whatever the owners are and however late the runs.            *)
THEOREM MetricsFinished == Spec => []MetricsOfFinishedRun
<1>1. IInv => MetricsOfFinishedRun
  BY DEF IInv
<1> QED
  BY <1>1, Invariance, PTL

(* While runs and seeds write in turn, metrics of an earlier period never  *)
(* replace those of a later one.                                           *)
THEOREM MetricsAdvance == Spec => MetricsMoveForward
<1> DEFINE Forward ==
      InTurn' =>
        \A i \in Item : metrics[i] # NoRun => at[metrics[i]] <= at'[metrics'[i]]
<1>1. IInv /\ IInv' /\ [Next]_vars => [Forward]_vars
  <2> SUFFICES ASSUME IInv, IInv', [Next]_vars, InTurn',
                      NEW i \in Item, metrics[i] # NoRun
               PROVE  at[metrics[i]] <= at'[metrics'[i]]
    OBVIOUS
  <2> USE DEF IInv
  <2>0. Run \cap Start = {} /\ Run \subseteq Writer /\ Start \subseteq Writer /\ metrics[i] \in Writer
    BY BatchAssumption DEF Writer, TypeOK
  <2>a. InTurn
    BY TurnBefore
  <2>1. CASE metrics'[i] = metrics[i]
    <3>1. at'[metrics[i]] = at[metrics[i]]
      <4>1. ASSUME NEW r \in Run, CreateRun(r) PROVE at'[metrics[i]] = at[metrics[i]]
        <5>1. metrics[i] # r
          BY <4>1 DEF CreateRun, RowsOK, MetricsOfFinishedRun
        <5> QED
          BY <2>0, <4>1, <5>1 DEF CreateRun, TypeOK
      <4>2. ASSUME NEW s \in Start, SeedContent(s) PROVE at'[metrics[i]] = at[metrics[i]]
        <5>1. metrics[i] # s
          BY <4>2 DEF SeedContent, SeedRows
        <5> QED
          BY <2>0, <4>2, <5>1 DEF SeedContent, TypeOK
      <4>3. CASE /\ ~\E r \in Run : CreateRun(r)
                 /\ ~\E s \in Start : SeedContent(s)
        BY <4>3 DEF Next, Step, Seed, Acquire, Aggregate, CommitMetrics, FindProfile, StoreProfile,
                    FinishInterest, MarkFailed, Release, Fail, Crash, SeedMetric, SeedProfiles,
                    SaveProfile, SeedOver, Tick, DeleteExpiredProfiles, runVars, vars
      <4> QED
        BY <4>1, <4>2, <4>3
    <3> QED
      BY <2>0, <2>1, <3>1 DEF TypeOK
  <2>2. CASE metrics'[i] # metrics[i]
    <3>1. (\E r \in Run : CommitMetrics(r)) \/ \E s \in Start : SeedMetric(s)
      BY <2>2 DEF Next, Step, Seed, Acquire, CreateRun, Aggregate, FindProfile, StoreProfile,
                  FinishInterest, MarkFailed, Release, Fail, Crash, SeedContent, SeedProfiles,
                  SaveProfile, SeedOver, Tick, DeleteExpiredProfiles, runVars, vars
    <3>2. ASSUME NEW r \in Run, CommitMetrics(r) PROVE at[metrics[i]] <= at'[metrics'[i]]
      <4>1. metrics'[i] = r /\ at' = at /\ job[r] = "ranking" /\ pc[r] = "storing"
        BY <2>2, <3>2 DEF CommitMetrics, TypeOK
      <4>2. Leased(r)
        BY <3>2 DEF CommitMetrics, NowLate, Leased, Executing, InTurn, TypeOK
      <4> QED
        BY <2>0, <2>a, <4>1, <4>2 DEF MetricsOrdered, Ranks
    <3>3. ASSUME NEW s \in Start, SeedMetric(s) PROVE at[metrics[i]] <= at'[metrics'[i]]
      <4>1. metrics'[i] = s /\ at' = at /\ pc[s] = "seed_metrics"
        BY <2>2, <3>3 DEF SeedMetric, TypeOK
      <4> QED
        BY <2>0, <2>a, <4>1 DEF MetricsOrdered, Ranks
    <3> QED
      BY <3>1, <3>2, <3>3
  <2> QED
    BY <2>1, <2>2
<1>2. Spec => [][Forward]_vars
  BY <1>1, Invariance, PTL DEF Spec
<1> QED
  BY <1>2 DEF MetricsMoveForward

(* While runs and seeds write in turn, an item has one profile row: that   *)
(* makes up for the missing unique index.                                  *)
THEOREM OneProfile == Spec => []OneProfilePerItem
<1>1. Init => ProfilesOK
  BY DEF Init, ProfilesOK, OneProfilePerItem
<1>2. IInv /\ ProfilesOK /\ [Next]_vars => ProfilesOK'
  BY NextProfiles
<1>3. ProfilesOK => OneProfilePerItem
  BY DEF ProfilesOK
<1> QED
  BY <1>1, <1>2, <1>3, Invariance, PTL DEF Spec
==============================================================================
