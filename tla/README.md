# Coffee Ranker: specifications, model checks and proofs

Coffee Ranker ranks coffee beans and articles from what visitors do with them.
`backend/` is a Go service (echo, GORM on PostgreSQL, Redis), `frontend/` a
React page. This directory holds TLA+ modules of the parts of it whose
correctness depends on the order of steps: concurrent requests over shared
tables, locks that expire, transactions that fail, processes that die. TLC
checks the modules on small instances; TLAPS proves every safety property and both
refinements for every value of the constants. `PROJECT.json` lists runs, mutants (a broken
variant of a definition for every property, which TLC must refute), the map from
definitions to source lines, hazards, findings and theorems.

## 1. The system

Layers: `router` -> `middleware` -> `controller` -> `usecase` -> `repository`
(PostgreSQL, Redis). All lasting state is in PostgreSQL (isolation level READ
COMMITTED: `db/db.go` opens it with an empty `gorm.Config`) and Redis; requests
run in a goroutine each and share nothing else. A use case that needs several
statements to be one runs them in `ITxManager.WithinTx`; many do not.

| Component | State it keeps | Operations | Hard because | What makes it correct |
|---|---|---|---|---|
| Authentication and sessions (`usecase/auth.go`, `repository/refresh_token_repository.go`, `auth_dependencies.go`) | `refresh_tokens` (used_at, revoked_at, replaced_by_token_id, family_id, expires_at), `users.token_version`, `users.status`; signed access tokens and cookies at clients | Login, Refresh (rotation, reuse detection), LogoutCurrentFamily, LogoutAllDevices, ValidateAccessToken, DeleteExpired, UpdateStatus, SeedAdmin at every start | refreshes, logouts and logins overlap; a client retries a refresh whose answer it lost; UPDATEs wait for row locks and look at a snapshot; deadlocks | one live token per family, one chain of rotations, closed sessions stay closed, what ends access tokens ends them for good unless a seed undoes it, every request ends |
| Batches (`usecase/batch.go`, `batch_scheduler.go`, `repository/redis_repository.go`) | Redis key `batch:<job>`, `batch_runs`, `content_metrics`, `interest_profiles` | RankingBatch.Recalculate, InterestBatch.Recalculate, Acquire, Release, the daily timer, manual runs | the lock expires under a running job; the page's runs share an owner and can delete each other's key; crashes; lost answers; cancelled contexts; a store without unique index; a seed that writes the same tables without the lock | leases are exclusive for whoever was not robbed of the key, metrics belong to finished runs and do not go back in time while runs and seeds write in turn, a lock is always free again |
| Publication (`usecase/admin_content.go`, `migrate/seed.go`, `AdminPage.tsx`) | `beans`, `articles` (is_published), `rank_targets` (is_active), edit forms in browsers | Create, Update, Publish, Unpublish, Seed at every start | two tables change together; stale forms; a seed without transaction | nothing is ranked that is not published, no half publication is seen |
| Relations (`AdminRelationUsecase`) | `bean_articles` (unique bean, article; display order) | Create, Delete, ReplaceByBeanID | DELETE and INSERT of two replacements interleave | no article twice, nobody told that he removed what he did not, a replacement exact about what it found, every request ends |
| Saved items and ratings (`usecase/saved_rating.go`) | `saved_items`, `ratings` | Save, Remove, Rate, Delete | check then act; upsert then read | undisturbed, a handler answers with what is stored |
| Events (`usecase/event.go`) | `action_events`, Redis dedup keys | Record | key set before the row is stored | an event is stored at most once in the life of its key, and what is dropped was sent before (which it is not: section 5) |
| Modal (`usecase/modal.go`) | `modal_display_logs`, `modal_block_logs`, Redis suppression keys | Show, Click, Close | count then create; ignored Redis errors | limits for Shows that do not overlap; the whole cooldown; one click and one close counted |
| Ranking, recommendation, search | none of its own | lists and filters | offset before filters; zero denominators | nothing hidden, saved or viewed is offered; pages do not skip; a surplus fills them |
| Guest sessions (`usecase/guest_session.go`, `middleware/guest_session.go`) | `guest_sessions`, cookie | GetOrCreate, Touch, DeleteExpired | expiry checked before Touch, cleanup in between | a visitor who keeps coming back stays the same guest; no handler works for a deleted session |
| Rate limiting (`middleware/rate_limit.go`, Lua script) | Redis buckets | Take, Reset | request clocks are not monotonic; key expiry | never more than capacity + rate * time, as its clock readings count it; who waits is let in |
| CSRF, request middleware, validators | none | filters of one request | nothing concurrent | - |
| Cleanup, audit logs (`admin_audit_cleanup_rate.go`) | rows of others | DeleteExpired, lists | runs against requests in flight | deletes nothing in use |
| Frontend (`client.ts`, `useAuthState.ts`, `useFeedData.ts`, `App.tsx`) | access token, feed, forms | login state, feed queries | tabs share a cookie; answers out of order | no tab logs out another |
| Start-up (`main.go`, `seed.go`) | - | AutoMigrate, Seed, scheduler, shutdown | runs again at every start, while other instances serve | see authentication, publication and batches |

How they interact: publication decides which `rank_targets` are active, and with
that what may be saved, rated, counted, shown in the modal and recommended;
events, saves and ratings feed the batches; the batches write the metrics and
profiles that ranking and recommendation read; the cleanup deletes rows of
sessions, guests and profiles; authentication stands before all user and
administrator operations; the page holds copies (forms, tokens, feed) that may
be stale when they come back.

## 2. The modules

### AuthTokens (abstract specification: SessionFamilies)

A request is a slot `p` of `Proc`; `pc[p]` says between which database
statements of its handler it is, `req[p]` what it has read, `todo[p]` which rows
its UPDATE has still to lock, `held[p]` which row locks its transaction holds.
`rows` is the committed content of `refresh_tokens`.

| Actions | Code |
|---|---|
| `LoginFindUser`, `LoginCreate`, `LoginIssue` | `Login`: three statements without a transaction; the user row is a snapshot from the first |
| `RefreshBegin`; `RefreshReject`, `RefreshDetectReuse`, `RefreshLock`; `RefreshCommit` | `Refresh`: clock read; SELECT ... FOR UPDATE and the checks; insert, MarkUsed, sign, commit |
| `LogoutFindToken`, `LogoutAllBegin` | `LogoutCurrentFamily` (unlocked read), `LogoutAllDevices` |
| `RevokeStart`, `RevokeRow`, `RevokeCommit` | the UPDATE of `RevokeByFamilyID`/`RevokeByUserID`: snapshot, one lock and re-test of WHERE per row, commit (with `IncrementTokenVersion`) |
| `Abort` | any statement, signing or the context fails: rollback |
| `DeleteExpired`, `UpdateStatus`, `Tick` | cleanup; an operator's change of status, either way (no handler calls it); time |
| `SeedRead`, `SeedSave` | `SeedAdmin` of a starting server: it reads the admin's row and saves the whole of it, status active and `token_version` as read |

Statements that a transaction runs while it holds the only row they touch are one
step with its commit: nobody can tell. The family name is random in the code and
here the id of the login's token; hashes are the token they are a hash of.
`seed` is what a starting server has read, `starts` counts, and `setBack` is a history:
the users whose `token_version` a `SeedSave` made smaller.
`SessionFamilies` is the promise without rows and locks: a family is opened once,
continued while open, closed for good. The refinement maps a family to "open" if
it has a live token, and its generation to the number of its tokens.

### BatchJobs

One module for both batches: they differ in how they store. `lock[j]` is the Redis
key with its expiry and, as a history, the run that wrote it (`by`); `leaseEnd[r]` when
the lock that run `r` acquired ends; `metrics` and `profiles` the rows, each with the run
or seed that wrote it. `OwnerOf[r]` is the owner a run is given, and owners may be the
same: the page calls all its runs `manual_admin`. Two more histories: `late`, the runs
that stored something after their lease and the seeds that overlapped a run or another
seed; `robbed`, whose key was deleted by which run's `Release`, and whether that one was
within its own lease.

| Actions | Code |
|---|---|
| `Acquire`, `Release` | SETNX with TTL; the deferred compare-and-delete, which also deletes the key of another run with the same owner; either answer may be lost |
| `CreateRun`, `Aggregate` | the `batch_runs` row, the aggregation (any set of items) |
| `CommitMetrics` | ranking: all metrics and MarkSuccess in one transaction; its acknowledgement may be lost |
| `FindProfile`, `StoreProfile`, `FinishInterest` | interest: FirstOrCreate row by row (SELECT, then INSERT or UPDATE), MarkSuccess apart |
| `Fail`, `MarkFailed` | an error, and the record of it, which may fail too |
| `Crash`, `Tick`, `DeleteExpiredProfiles` | the process dies or shuts down; time; cleanup |
| `SeedContent`, `SeedMetric`, `SeedProfiles`, `FindProfile`, `SaveProfile`, `SeedOver` | the seed of a starting server: metrics and profiles row by row, without lock or transaction |

Nothing bounds how long a run takes: a statement may wait, the process may be
paused, and the scheduler's own deadline is three times the lock's TTL.

### Publication (abstract specification: Catalogue)

`content[c]` and `target[c]` are the committed rows. `UpdatePublished` is the first
statement of a Publish or Unpublish: it takes the content's row lock, and what the
transaction does after it is one step with the commit (`Publish`, `Unpublish`) or
is undone (`Rollback`). `SubmitForm` is `Update` with the flag the form was filled
with by `OpenForm`; GORM's `Updates(struct)` leaves a false flag out. `SeedContent`,
`SeedTarget`, `SeedPhaseOver` and `Restart` are the seed, which republishes its
contents at every start. Beans and articles have the same handlers, so a content is
either. A seeded content is found by its name or slug; an administrator who renames
it turns it, in the model, into a content that is not seeded. `Catalogue` says what visitors may see: a content enters and leaves the ranking
in one step.

### BeanArticles

The relations of one bean; beans do not interact, since the unique index covers bean
and article. A request is one transaction and each is made once: `pc[r]` says whether
it is before its statements (`start`, or `checked` once Delete's Exists has answered),
in them (`open`) or over (`ok` committed, `failed` undone). `rows` holds every version
with the request that inserted it, `deleted[r]` what `r` deleted; what others see
(`Visible`) follows from who has committed. `snapshot[r]` is what `r`'s DELETE found,
`todo[r]` what it has still to lock.

| Actions | Code |
|---|---|
| `ReplaceByBeanID`, `Create`, `Delete`, `Refuse`, `DeleteStart` | the three handlers up to their first writing statement, with their checks; refusals |
| `DeleteRow` | one row of a DELETE: wait for its deleter, pass it over if that one committed |
| `InsertRow`, `InsertConflict` | one row of an INSERT: wait for who decides about its key, or ErrConflict |
| `Commit`, `NothingDeleted`, `Abort`, `BreakDeadlock` | the end of `WithinTx`; a Delete without rows; failures; PostgreSQL's deadlock victim |

### GuestSessions

One browser, its cookie and its rows of `guest_sessions`. `pc[r]` is the place of
a request between two statements, `req[r]` what it knows: the key of its cookie,
the expiry it read, the clock reading it will count a new one from. `cleanup` is
the reading of a cleanup in progress.

| Actions | Code |
|---|---|
| `Send`, `OptionalAuth` | a request on an actor route or POST /guest-session; with a token it is a user's and has no guest |
| `FindSession`, `CheckSession`, `Touch`, `Create` | `GetOrCreateGuestSession`: SELECT, comparison, UPDATE or INSERT; for an expired row the middleware clears the cookie and asks again without a key |
| `Answer`, `LoseAnswer`, `Fail` | Set-Cookie or its removal; a lost answer; status 500 |
| `StartCleanup`, `DeleteExpired`, `AbortCleanup`, `Tick` | the cleanup's reading, its DELETE, its failure before; time |

No request takes longer than `MaxDuration`, which is assumed to be half a session's
lifetime at most (`GuestAssumption`; a session lives 7 days).

### RateLimit

One token bucket. Time and tokens are counted in ticks: a token is worth the
`Period` in which it is refilled, so that the script's division is none.

| Actions | Code |
|---|---|
| `Send` | the middleware reads the clock; the script may run up to `MaxDelay` later, so requests overtake each other |
| `Take` | the Lua script: refill, take, store, EXPIRE; with or without its answer |
| `Unavailable`, `Expire`, `Reset`, `Tick` | Redis out of reach; the key's TTL; an administrator; time |

`spent`, `since`, `regained` and `promise` are histories for the properties.
`MCRateLimit` also has TLC evaluate that the ten rules of `rate_limit.go` satisfy
what is assumed of a rule.

### Engagement

Saves, ratings and events, statement by statement; none of the handlers has a
transaction. `req[r]` holds what was asked, where the handler is and what it
answered; `given` says whether the optional field was sent: the dedup key of an
impression or a view (without one nothing is deduplicated; such a view stands for a
click and a stay too, which are handled the same way), the previous conditions of a
repeated search (without them the visitor's last search is looked up). Such a search may
have a rank target, which must then be active. `dated` is what was stored when the event
got its time; `alone` and `before` are histories. The deduplicated kinds are the constant
`ViewKind`.

| Actions | Code |
|---|---|
| `Send`, `CheckTarget` | the routes' and validators' conditions; `ensureActiveRankTarget` |
| `SaveOrRestore`, `Remove`, `Upsert`, `Delete`, `Look`, `Reread` | the statements of `saved_items` and `ratings`; upserts read the row again |
| `SetIfNotExists`, `LoseSetAnswer`, `ExpireKey` | the dedup key: set, set with the answer lost, over |
| `FindLastSearchHash`, `CreateEvent`, `Fail` | the previous search, unless it was sent; the event's INSERT, failures |
| `Publication` | Publish and Unpublish of section Publication, as far as they change what is active |

### Modal

One visitor's displays and suppression keys and the handlers called from several
tabs. A display is known by the Show that made it. Whether a candidate is active or
saved may change at any time, so those checks may pass or fail; the checks of the
keys may not.

| Actions | Code |
|---|---|
| `SendShow`, `CountShownOnPage`, `CountShownInSession`, `SelectCandidate`, `CheckShown`, `CheckClosed`, `CreateDisplay` | `Show`: the two counts, `selectCandidate`, `validateCandidate` (for a selected candidate once more), the INSERT |
| `SendAction`, `Mark` | `Click`, `Close`: the row, and the conditional UPDATE |
| `SetFlag`, `CreateEvent` | `SetShown` or `SetClosed`, whose error is dropped; the event, whose error is dropped too |
| `Fail`, `Tick` | the database fails; time |

### Recommendation

One visitor who reads the ranking or the recommendations page by page, each
statement in a world of its own. A page is a set, ordered by score and id.

| Actions | Code |
|---|---|
| `Send`, `SendNext` | the first page, the page after (offset and limit of the validator) |
| `LoadInterestProfiles`, `ListRanking`, `FilterSaved`, `FilterViewed`, `Build` | the statements of `RankingUsecase.List` and `RecommendationUsecase`: profiles, `recommendationFetchLimit` and the metrics, the two filters, boost, sort, trim |
| `CommitMetrics`, `Publication`, `SaveOrRemove`, `CreateEvent`, `StoreProfile` | what other requests and batches change meanwhile |
| `Fail` | a statement fails and the page is asked for again |

### Proof modules

`AuthTokensProofs`, `BatchJobsProofs`, `BeanArticlesProofs`, `RateLimitProofs`,
`ModalProofs`, `GuestSessionsProofs` and `EngagementProofs` extend the module they
are about; `VisitorProofs` extends `Recommendation` and `Publication`, what visitors
are shown and what there is to show, which is why the latter names its
`PublicationInit`, `PublicationNext`, `PublicationSpec` and `PublicationTypeOK` for
itself. `MC*` modules only add symmetry sets, the owner
function, attributes and the lists that clients send.

## 3. The runs

| Run | Instance | Question and result |
|---|---|---|
| `auth_safety` | 1 user, 2 requests, 3 tokens, clock 0..2, TTLs 1, no seed | types, one live token per family, locked tokens stay live, one chain per family; refinement of SessionFamilies |
| `auth_starts` | 1 user, the seed's admin, 2 requests, 2 tokens, clock 0..1, 1 start | every request ends; access tokens that expired or were revoked are never current again, unless the seed set `token_version` back |
| `batch_safety` | 3 runs, one with an owner of its own and two with the page's, 1 item, TTL 2, clock 0..2, runs start until 2, no seed, profiles do not expire | a lease is exclusive but for who was robbed of the key, which takes the same owner; stored metrics are of finished runs |
| `batch_recovery` | 2 runs (one of each sort) that start at 0, 1 start of a server at any time, 1 seeded item, TTL 2, clock 0..2, profiles expire | types; one profile per item and metrics never older, while runs and seeds write in turn; a lock is always free again |
| `publication` | 2 contents (one seeded), 2 requests, 2 forms, clients may send any flag | both safety properties and the refinement hold; no deadlock |
| `relations` | 2 articles, any initial list, 3 requests of any kind with lists of up to 2 articles | the safety properties hold, a replacement swaps what it found for what it was sent, every request ends |
| `engagement` | a user, a guest, 1 target, 3 requests of any kind, one of them the guest's at most, one deduplicated kind | an event is stored once per life of its key; what an undisturbed visitor is told is what is stored |
| `event_dedup` | the same with 2 requests, both deduplicated kinds | **violated**: an event is dropped that its visitor never sent before |
| `modal` | 3 requests, 2 targets, 2 pages, 1 display per page and 2 per session, cooldown 1, clock 0..2 | limits of Shows that follow each other, suppression and single counting hold |
| `guests` | 2 requests, 2 sessions, TTL 7, requests of up to 2, clock 0..3, returning or new visitor | no handler without a session; the cookie is live and honoured |
| `rate_limit` | 3 requests, 2 tokens of 3 ticks, delays of up to 2, clock 0..15 | no free tokens; who waits a second longer than told is let in |
| `recommendation` | 3 contents with 2 attributes, pages of 1, at most 2 fetched, 1 change of the world while a page is read | nothing unwanted, no page skips, a surplus fills, interest never sets a content back |

Why the bounds are enough. A race on tokens is between two requests; three tokens
give a login and two rotations, so a spent token, its spent successor and a live
one exist at once, or two families. One user: users share no row. `auth_starts` needs a
token to lose and a request to revoke it between the seed's reading and its Save; families
and chains are none of the seed's business, so `auth_safety` has none. Clock 0..2 with
TTL 1 lets tokens expire under a request and the cleanup (`expires_at < now`) delete
them. Three runs are what the lock hazards need: one that
overstays, one that takes over, one that comes third; two of them share an owner, so the
first of these may delete the key of the second, and the third, with an owner of its own,
get the lock or be the one nobody robs. Items are written independently, so one shows the
order of writes. In `batch_recovery` two runs of one job are at most in turn within the
clock if nobody released early, and the seed comes before, between or after them, or
overlaps one. In `publication` two contents
distinguish a seeded one from one that only administrators touch. In `relations`
two articles are what a circle of waiting inserts needs, and three requests let one
delete, one wait for it and one add what neither found; display orders are those of
the lists, a Create sends 0.
In `engagement` three requests let a key be set, lost and set again, or two tabs
disturb a third; visitors share only dedup keys, so one of each sort is enough, and
no key is shared by two kinds, so one of the two deduplicated kinds is. A guest can do nothing that a
user cannot, and is there to be another visitor: one request of his. In
`modal` a third request sees what two left, or two act on the display of the first;
the session's limit is 2 where the code has 1, so that page and session differ. In
`guests` a request may be as old as another's whole life (2), an initial expiry of
anything from 1 to 7 stands for the time before, and clock 0..3 lets rows expire
under a request and be deleted. In `rate_limit` a bucket can be emptied, refilled and
expire (its TTL is 7 seconds of 2 ticks) within the clock, with two requests
overtaking a third. In `recommendation` pages of one content out of three make every
boundary of a page one between contents; the visitor's history before is any.
Each bound is a constant (`MaxTokens`, `MaxSessions`, `MaxTime`, `MaxStart`, `MaxStarts`,
`MaxChanges`, `MaxGuest`) and appears in a
guard: a request inserts only while a token id is left (`Room`), runs start until
`MaxStart`, `Tick` stops at `MaxTime`. `CHECK_DEADLOCK FALSE` stands where these
bounds, or runs that are all over, stop the system; `publication` never stops.

Fairness. `AuthTokens!FairSpec`: strong fairness of each request's steps (net/http
runs each goroutine; PostgreSQL queues the waiters of a row, so a row that is free
again and again is obtained) and weak fairness of the deadlock detector's choice
of a victim (`BreakDeadlock`). No fairness of failures, clients or time.
`BeanArticles!FairSpec` is the same with weak fairness: each request is made once, so
a row or key is in the end free for good.
`BatchJobs!FairSpec`: only time goes on. A run owes no progress, which is why
`LockRecovers` rests on the TTL alone.

## 4. What is proved

Every invariant and every action property of the runs, and both refinements, for
any number of users, requests, tokens, runs, contents, forms, articles, sessions,
targets, profiles and pages, and any durations. The assumptions are the named ones
of each module (`AuthAssumption`, `BatchAssumption`, `PublicationAssumption`,
`BeanArticlesAssumption`, `RateAssumption`, `ModalAssumption`, `GuestAssumption`,
`RecommendationAssumption`, `ViewKindAssumption`; `EngagementAssumption` is not needed).

* **AuthTokens**, first invariant: types; `SingleLiveToken`; `LockedTokenStaysLive`.
  The two are not inductive: a commit adds a live token, and only because the old one
  was live, the only one of its family, and locked. `IInv` therefore adds `ReqOK` (a
  handler past its first read names a user and, once it goes for a row lock, a token),
  `RowsOK` (every row belongs to a user and its family is named after a token that was
  inserted) and `LocksOK` (row locks exclude each other, and a refresh past its
  checks holds its token, which is still live).
* **AuthTokens**, second invariant: `LinearRotation`; the action property
  `AccessRevocation`; and `Implementation`, that the module implements
  `SessionFamilies`. They are about the past of a row, so `HInv` says what a row keeps
  of it. `ChainOK`: ids are given out in order, a token is used exactly when it names a
  successor, and nobody else has that one; a predecessor expires no later than its
  successor (`Follows`), or the cleanup could cut a chain in the middle. `FamiliesOK`:
  the token a family is named after is one of the family, so a login opens a new one.
  `DatesOK` is what makes the order of expiries hold: a refresh dates its token from the
  reading of the clock it began with, and what it replaces was issued before that. `VersionsOK`: no
  request carries a `token_version` the user does not have yet, so the one a logout
  makes is new to every access token, signed or still to be signed. It is said of users
  whose version no seed's Save has set back (`setBack`), and versions only grow but for
  that (`OneWay`); a change of status does not touch them. The refinement
  (`StepSessions`) goes by action: a step that neither inserts nor ends a live token
  stutters, a rotation advances its family by one, a revocation or the cleanup closes
  the families whose live token it takes, and a login opens one.
* **BatchJobs**: types; `LeaseExclusive`; `MetricsOfFinishedRun`; `OneProfilePerItem`;
  and the action property `MetricsMoveForward`. Nothing is assumed about owners: that two
  runs share one is what `robbed` is about. The invariant's core is `LockHeld`: while a
  run's lease lasts and nobody robbed it, the key holds what its `Acquire` wrote, expiry
  included. From it follow that no second `Acquire` succeeds, and that a `Release` which
  deletes the key of another run is by one that overstayed or was robbed itself
  (`RobberyOK`; `KeyOwners`, who can have written a key). `OwnOwnerKeepsLock`: a run with
  an owner of its own, as the scheduler's, is never robbed. `MetricsOrdered` then orders
  the stored metrics before every lease still running, and before every seed under way,
  as long as runs and seeds wrote in turn (a seed is then alone: `SeedsAlone`); `ProfilesOK`
  says that what a run within its lease, or a seed, has found or not found is still all
  there is, since only somebody out of turn could have inserted more.
* **Publication** (in `VisitorProofs`): types; `RankedIsPublished`; and
  `PublicationImplements`, that the module implements `Catalogue` (initial states map,
  and `StepMaps` shows each action to be one step of `Catalogue` or none). The invariant
  adds that a request past its first statement works on a content that exists, that a
  form is of one too, and that the seed activates rank targets after all contents are
  published.
* **Recommendation** (in `VisitorProofs`): types; `NothingUnwanted`;
  `PagesSkipNothing`; `SurplusSuffices`; `BetterIsNotLeftOut`. The invariant follows a
  page through its statements: `UnwantedOK` says what each of them has left out of it,
  whatever changes meanwhile; `CalmOK` what the page is in a world that stands still, the
  candidates of its offset less what is saved and viewed; `ShownOK` what the pages up to
  this one have shown. The rest is arithmetic of ranks: ranks in a finite set are
  distinct and begin at 0 without gaps (`AtMost`, `AtLeast`, `Exactly`), so a fetch of
  two pages or more loses no more than a page to what is left out (`PageSuffices`), and
  of what comes from the offset on fewer than a page are above a content of this page
  (`FewAbove`). The boost is a sum over a set, a fold of the community modules, and
  must be monotone (`SumMonotone`); that needs induction over finite sets, which is done
  by a minimal counterexample (`Minimal`, from `WFMin` for sizes), without the
  induction theorems.
* **Engagement**: types; `StoredOncePerLife`; `AloneAnswers`. `ClaimsOK` takes the
  events still to be inserted together with those that are stored: each has set its key
  and is the only one of the key's life to have done so. `AloneOK` says that a request
  which is alone shares its visitor with no other one under way, and what it has read so
  far, the last search included, is what its visitor's rows say (`ReadsOK`); another
  visitor's step leaves those rows alone (`OthersUndisturbed`).
* **BeanArticles**: types; `NoArticleTwice`; `RemovedOnce`; and the action property
  `ReplaceSwaps`. The unique index speaks of what is visible only once everybody has
  committed; the invariant says it of all versions (`KeysOK`): of two rows with one
  key, one is gone or was deleted by the request that inserted the other. `DeletedOK`
  (only committed rows are found, and each is deleted by one request) and
  `RequestsOK` (what was found is still to be locked, deleted by the request, or gone)
  give what a replacement has done when it commits; `DeletesOK` (what a Delete found is
  of its article, and it commits only if it deleted some of it) gives `RemovedOnce`.
* **RateLimit**: types; `NoFreeTokens`; `WaitIsEnough`. The ledger alone is not
  inductive, since it must survive the key's expiry: the invariant adds that a
  reading is at most `MaxDelay` old, and that a key lives until its bucket would have
  been filled twice, so that an expired key gives nothing away. `MaxDelay` is assumed
  to be no longer than an empty bucket takes to fill.
* **Modal**: types; `LimitsHold`; `SuppressionHolds`; `CountedOnce`. The invariant
  says for each place of a Show what its checks have established: the displays it
  knew were counted and are within the limits, and the keys it passed were not set
  for as long as `until` says (`quiet` is never beyond a key's expiry). A pending
  click or close belongs to one request (`Unique`), and an unmarked display has no
  event.
* **GuestSessions**: types; `HandledRequestHasSession`; `CookieIsLive`;
  `CookieHonoured`. Touch writes an expiry counted from a reading that may be
  `MaxDuration` old, so an older request can shorten what a younger one wrote. The
  invariant bounds by how much: the row a handler works on expires at most one
  `MaxDuration` before its request's TTL is over, the row of the cookie at most two
  before the cookie, and then the cleanup cannot take either in time.

Model-checked only: the liveness properties `RequestsEnd` (of `AuthTokens` and of
`BeanArticles`) and `LockRecovers`. They rest on fairness and ENABLED, which TLAPS does
not treat here, and on the detector of deadlocks choosing a victim each time.

## 5. What the checks found

`event_dedup`: the page's dedup keys name a content and not the visitor
(`App.tsx:287`, `App.tsx:461`), and the server uses them as they are
(`event.go:87`). Within the hour of a key, the impressions and views of all other
visitors are dropped as duplicates and answered with success, so the ranking counts
one visitor per content and hour. The same happens to a retry after the first insert
failed.

Places where a comment promises more than the code does, met while modelling; the
properties say what does hold:

* A revocation revokes the rows of its UPDATE's snapshot
  (`refresh_token_repository.go:112`: all tokens of the user). A refresh that holds
  the old token's row inserts its new token after that snapshot, and it stays live
  after a logout on all devices, a logout, or a detected reuse.
* `SeedAdmin` reads the admin's row and saves the whole of it at every start
  (`seed.go:59`), although its comment says that it aligns role, status and password only
  (`seed.go:39`). A logout on all devices or a detected reuse that commits in between is
  undone: the access tokens it ended are accepted again. An admin who was suspended is
  active again after any start, and his unexpired tokens with him, as they are when an
  operator reactivates a user. `AccessRevocation` says that what expiry, a logout on all
  devices or a detected reuse ended comes back in no other way than by that Save.
* `Release` compares the owner (`redis_repository.go:288`), but the page sends
  `manual_admin` for every run (`client.ts:631`, `:640`): a manual run that outlives
  its lock deletes the next manual one's, and a third can then start within the second's
  lease, store older metrics over newer ones or insert a second profile row.
  `LeaseExclusive` says who can be robbed and by whom; `MetricsMoveForward` and
  `OneProfilePerItem` hold for as long as nobody has been, and nobody was late.
* The seed writes metrics and profiles without the batches' lock (`seed.go:105`): on a
  server that starts while another one's batch runs it replaces newer metrics by older
  ones, or is the second to insert a profile.
* The lock lasts 10 minutes, nobody extends it, and a scheduled run may take 30
  (`batch_scheduler.go:70`): two runs can execute at once, against `batch.go:91`.
* `Update` writes a true `is_published` and leaves the rank target alone
  (`admin_content.go:156`): a form opened before an Unpublish and submitted after it
  leaves a content published and not ranked, against `admin_content.go:175`.
* Two replacements of a bean's articles that overlap, with nothing in common, both
  succeed and leave both lists (`admin_content.go:503`: replaced as a whole).
* `SaveOrRestore` upserts and reads the row again in another statement
  (`action_event_saved_rating_repository.go:348`): with a Remove in between a save that
  worked is answered with the removed row. `AloneAnswers` says that it takes a second
  request of the same user.
* Shows that overlap exceed the limits of the modal (`modal.go:108`): each counts
  before the other inserts.
* A request that arrives late sets `updated_at` of its bucket back, and the time in
  between is refilled twice (`redis_repository.go:422`): `regained` in
  `NoFreeTokens` is that leak.
* With interest profiles the pages of recommendations skip and repeat contents: the
  surplus is sorted by boosted score within the page and cut, while the next page
  starts at its offset in the ranking. Without profiles a user's pages may repeat
  (twice the page is fetched), and a guest's fall short by what was viewed.

Met while reading, and not checked by a run: `Create` with `is_published` true
makes a content without a rank target, whose Unpublish then always fails
(`admin_content.go:234`) and which the page can only repair by Publish; seeded
contents that were unpublished are public again after a restart (`seed.go:692`,
admitted by the repository's README); the page's interest batch sends no user, so it
processes none; a target without events in the window keeps its old metrics; the
recent events that hide viewed contents count all kinds, so 200 impressions push the
views out; the page sends a repeated search without a rank target, which the server
would allow, and without one it is never aggregated, so its penalty never applies;
`ListTopByUser` does not ask whether a profile has expired; the click rate may exceed
one.

## 6. Not modelled, and why

Signup (one insert behind a unique index), Me, searches, lists and details of
contents, lists of saved items, ratings, runs and users (single reads); CSRF,
headers, body limits, request ids, validators (functions of one request); audit logs
and modal block logs (written best effort, never read by the logic); AutoMigrate and
configuration (run before anything else); passwords, hashes and signatures
(taken to be what they are for: equal tokens have equal hashes and nobody forges a
signature); the arithmetic of rates and scores (a row at a time, guarded against
zero; `Recommendation` takes any score); the page's own state, its feed and its
login state (display: whichever answer comes last is shown, and what goes back to
the server is modelled where it arrives).

Open: liveness for all constants; a composition of `Publication` with `Recommendation`, whose rank targets change
freely instead.
