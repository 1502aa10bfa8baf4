----------------------------- MODULE AuthTokens ------------------------------
(***************************************************************************)
(* Login, refresh-token rotation, reuse detection, logout and cleanup of   *)
(* backend/usecase/auth.go over the refresh_tokens and users tables.       *)
(*                                                                         *)
(* A request is a slot of Proc that runs one handler at the granularity of *)
(* its database statements.  A transaction's writes become visible at its  *)
(* commit; the row locks it takes (SELECT ... FOR UPDATE, UPDATE) are held *)
(* until then.  The isolation level is PostgreSQL's default, READ          *)
(* COMMITTED (db/db.go opens the database with an empty gorm.Config): an   *)
(* UPDATE finds its rows in the snapshot taken when the statement starts,  *)
(* waits for the lock of each, and tests WHERE again on the row it then    *)
(* sees; a row inserted after the snapshot is not found.                   *)
(***************************************************************************)
EXTENDS Naturals, FiniteSets

CONSTANTS
  User,          \* rows of users
  NoUser,        \* no user
  Admin,         \* the user of SEED_ADMIN_EMAIL, or NoUser
  Proc,          \* request slots served concurrently
  MaxTokens,     \* bound: refresh tokens ever inserted
  MaxTime,       \* bound: last instant of the clock
  MaxStarts,     \* bound: starts of a server that read the admin
  RefreshTTL,    \* REFRESH_TOKEN_TTL, in clock ticks
  AccessTTL      \* ACCESS_TOKEN_TTL, in clock ticks

ASSUME AuthAssumption ==
  /\ NoUser \notin User /\ Admin \in User \cup {NoUser}
  /\ MaxTokens \in Nat /\ MaxTime \in Nat /\ MaxStarts \in Nat
  /\ RefreshTTL \in Nat \ {0} /\ AccessTTL \in Nat \ {0}

TokenId == 1 .. MaxTokens     \* refresh_tokens.id, from the sequence
NoToken == 0                  \* NULL

VARIABLES
  now,        \* time.Now()
  status,     \* users.status
  version,    \* users.token_version
  rows,       \* refresh_tokens; family_id is the id of the login's token
  access,     \* access tokens signed so far
  cookies,    \* refresh tokens sent to a client in a successful response
  pc,         \* pc[p]: where request p is in its handler
  req,        \* req[p]: what p was called with and has read
  todo,       \* todo[p]: rows of p's UPDATE snapshot still to be locked
  held,       \* held[p]: rows p's transaction has locked
  seed,       \* {v}: a starting server has read the admin with token_version v
  starts,     \* starts so far
  setBack     \* history: the users whose token_version a Save made smaller

dbVars   == <<now, status, version, rows, access, cookies>>
reqVars  == <<pc, req, todo, held>>
seedVars == <<seed, starts, setBack>>
vars     == <<dbVars, reqVars, seedVars>>

-----------------------------------------------------------------------------
(* Types *)

Row == [state: {"absent", "stored", "deleted"}, user: User \cup {NoUser},
        family: TokenId \cup {NoToken}, used: BOOLEAN, revoked: BOOLEAN,
        replacedBy: TokenId \cup {NoToken}, expiresAt: Nat]

NoRow == [state |-> "absent", user |-> NoUser, family |-> NoToken,
          used |-> FALSE, revoked |-> FALSE, replacedBy |-> NoToken,
          expiresAt |-> 0]

(* accessTokenClaims; the role never changes and is left out *)
Access == [user: User, version: Nat, exp: Nat]

Handler == {"idle", "login_create", "login_issue", "refresh_lock",
            "refresh_commit", "revoke", "revoke_rows"}

(* kind tells whose UPDATE a revocation runs: RevokeByUserID ("user"),     *)
(* RevokeByFamilyID of a logout ("family") or of a reuse ("reuse").        *)
Request == [kind: {"none", "user", "family", "reuse"}, user: User \cup {NoUser},
            token: TokenId \cup {NoToken}, at: Nat, version: Nat]

NoRequest == [kind |-> "none", user |-> NoUser, token |-> NoToken,
              at |-> 0, version |-> 0]

TypeOK ==
  /\ now \in Nat
  /\ status \in [User -> {"active", "suspended"}]
  /\ version \in [User -> Nat]
  /\ rows \in [TokenId -> Row]
  /\ access \subseteq Access
  /\ cookies \subseteq TokenId
  /\ pc \in [Proc -> Handler]
  /\ req \in [Proc -> Request]
  /\ todo \in [Proc -> SUBSET TokenId]
  /\ held \in [Proc -> SUBSET TokenId]
  /\ seed \subseteq Nat /\ (seed # {} => Admin \in User)
  /\ starts \in Nat
  /\ setBack \subseteq User

Init ==
  /\ now = 0
  /\ status = [u \in User |-> "active"]
  /\ version = [u \in User |-> 0]
  /\ rows = [t \in TokenId |-> NoRow]
  /\ access = {}
  /\ cookies = {}
  /\ pc = [p \in Proc |-> "idle"]
  /\ req = [p \in Proc |-> NoRequest]
  /\ todo = [p \in Proc |-> {}]
  /\ held = [p \in Proc |-> {}]
  /\ seed = {} /\ starts = 0 /\ setBack = {}

-----------------------------------------------------------------------------
(* The tables *)

Stored(t) == rows[t].state = "stored"

(* used_at IS NULL AND revoked_at IS NULL *)
Live(t) == Stored(t) /\ ~rows[t].used /\ ~rows[t].revoked

(* The next value of the id sequence. *)
IsNextId(t) ==
  /\ rows[t].state = "absent"
  /\ \A s \in TokenId : s < t => rows[s].state # "absent"

(* Mutant: the expiry lies before the creation. *)
NewRowExpired(u, f, at) ==
  [state |-> "stored", user |-> u, family |-> f, used |-> FALSE,
   revoked |-> FALSE, replacedBy |-> NoToken, expiresAt |-> at - RefreshTTL]

NewRow(u, f, at) ==
  [state |-> "stored", user |-> u, family |-> f, used |-> FALSE,
   revoked |-> FALSE, replacedBy |-> NoToken, expiresAt |-> at + RefreshTTL]

(* Mutant: the rotation inserts the new token and forgets MarkUsed. *)
RotatedWithoutMarkUsed(old, new, at) ==
  [rows EXCEPT ![new] = NewRow(rows[old].user, rows[old].family, at)]

(* Mutant: MarkUsed stores used_at and not replaced_by_token_id. *)
RotatedWithoutReplacedBy(old, new, at) ==
  [rows EXCEPT ![old].used = TRUE,
               ![new] = NewRow(rows[old].user, rows[old].family, at)]

(* Create(newToken) and MarkUsed(token.ID, now, newToken.ID). *)
Rotated(old, new, at) ==
  [rows EXCEPT ![old].used = TRUE, ![old].replacedBy = new,
               ![new] = NewRow(rows[old].user, rows[old].family, at)]

(* WHERE of RevokeByUserID and RevokeByFamilyID, for request p. *)
Matches(p, t) ==
  /\ Stored(t) /\ ~rows[t].revoked
  /\ IF req[p].kind = "user"
     THEN rows[t].user = req[p].user
     ELSE rows[t].family = rows[req[p].token].family

(* Mutant: SELECT without FOR UPDATE, UPDATE that waits for nobody. *)
NoRowLocks(p, t) == TRUE

(* No other transaction holds row t. *)
LockFree(p, t) == \A q \in Proc \ {p} : t \notin held[q]

(* Neither expired nor signed with another token_version than the user's.  *)
Current(a) == a.exp > now /\ a.version = version[a.user]

(* ValidateAccessToken *)
Accepts(a) == Current(a) /\ status[a.user] = "active"

AccessToken(u, ver, at) == [user |-> u, version |-> ver, exp |-> at + AccessTTL]

-----------------------------------------------------------------------------
(* Bookkeeping of a request *)

(* Mutant: the failed transaction is not rolled back. *)
EndKeepingLocks(p) ==
  /\ pc' = [pc EXCEPT ![p] = "idle"]
  /\ req' = [req EXCEPT ![p] = NoRequest]
  /\ todo' = [todo EXCEPT ![p] = {}]
  /\ UNCHANGED held

(* The handler returns; its transaction, if any, has ended. *)
End(p) ==
  /\ pc' = [pc EXCEPT ![p] = "idle"]
  /\ req' = [req EXCEPT ![p] = NoRequest]
  /\ todo' = [todo EXCEPT ![p] = {}]
  /\ held' = [held EXCEPT ![p] = {}]

(* Bound: a request goes on to insert a token only if MaxTokens leaves room *)
(* for it and for every request already on its way to insert one.           *)
Room ==
  Cardinality({p \in Proc : pc[p] \in {"login_create", "refresh_commit"}})
    < Cardinality({t \in TokenId : rows[t].state = "absent"})

-----------------------------------------------------------------------------
(* Login: three statements, no transaction *)

(* FindByEmail, ensureActiveUser, Compare: the user row is a snapshot from *)
(* here on.                                                                *)
LoginFindUser(p, u) ==
  /\ pc[p] = "idle" /\ Room
  /\ status[u] = "active"
  /\ pc' = [pc EXCEPT ![p] = "login_create"]
  /\ req' = [req EXCEPT ![p] = [NoRequest EXCEPT !.user = u, !.version = version[u]]]
  /\ UNCHANGED <<dbVars, todo, held, seedVars>>

(* Mutant: NewFamilyID returns the family the user already has. *)
FamilyPerUser(u, t) ==
  IF \E s \in TokenId : rows[s].user = u
  THEN rows[CHOOSE s \in TokenId : rows[s].user = u].family
  ELSE t

(* NewFamilyID: a fresh random name, here the id of the family's first     *)
(* token.                                                                  *)
NewFamilyID(u, t) == t

(* refreshTokens.Create, with the clock read just before it. *)
LoginCreate(p) ==
  /\ pc[p] = "login_create"
  /\ \E t \in TokenId :
       /\ IsNextId(t)
       /\ rows' = [rows EXCEPT ![t] = NewRow(req[p].user, NewFamilyID(req[p].user, t), now)]
       /\ req' = [req EXCEPT ![p].token = t, ![p].at = now]
  /\ pc' = [pc EXCEPT ![p] = "login_issue"]
  /\ UNCHANGED <<now, status, version, access, cookies, todo, held, seedVars>>

(* IssueAccessToken from the snapshot of the user, and the response. *)
LoginIssue(p) ==
  /\ pc[p] = "login_issue"
  /\ access' = access \cup {AccessToken(req[p].user, req[p].version, req[p].at)}
  /\ cookies' = cookies \cup {req[p].token}
  /\ End(p)
  /\ UNCHANGED <<now, status, version, rows, seedVars>>

-----------------------------------------------------------------------------
(* Refresh: one transaction *)

(* The clock is read before the transaction and its wait for the row. *)
RefreshBegin(p, t) ==
  /\ pc[p] = "idle"
  /\ t \in cookies
  /\ pc' = [pc EXCEPT ![p] = "refresh_lock"]
  /\ req' = [req EXCEPT ![p] = [NoRequest EXCEPT !.token = t, !.at = now]]
  /\ UNCHANGED <<dbVars, todo, held, seedVars>>

(* FindByTokenHashWithUserForUpdate returns: request p has row t. *)
RowRead(p, t) ==
  /\ pc[p] = "refresh_lock"
  /\ t = req[p].token
  /\ LockFree(p, t)

(* The checks before UsedAt: found, user active, not expired, not revoked. *)
Refreshable(t, at) ==
  /\ Stored(t)
  /\ status[rows[t].user] = "active"
  /\ rows[t].expiresAt > at
  /\ ~rows[t].revoked

(* An early return of the transaction: rolled back, nothing written.  At   *)
(* the bound the insert is taken to fail.                                  *)
RefreshReject(p, t) ==
  /\ RowRead(p, t)
  /\ ~Refreshable(t, req[p].at) \/ (~rows[t].used /\ ~Room)
  /\ End(p)
  /\ UNCHANGED <<dbVars, seedVars>>

(* token.UsedAt != nil: go on to revoke the family, keeping the lock. *)
RefreshDetectReuse(p, t) ==
  /\ RowRead(p, t)
  /\ Refreshable(t, req[p].at)
  /\ rows[t].used
  /\ pc' = [pc EXCEPT ![p] = "revoke"]
  /\ req' = [req EXCEPT ![p].kind = "reuse", ![p].user = rows[t].user]
  /\ held' = [held EXCEPT ![p] = {t}]
  /\ UNCHANGED <<dbVars, todo, seedVars>>

(* The token is good: rotation goes on under the row lock. *)
RefreshLock(p, t) ==
  /\ RowRead(p, t)
  /\ Refreshable(t, req[p].at)
  /\ ~rows[t].used /\ Room
  /\ pc' = [pc EXCEPT ![p] = "refresh_commit"]
  /\ req' = [req EXCEPT ![p].user = rows[t].user,
                        ![p].version = version[rows[t].user]]
  /\ held' = [held EXCEPT ![p] = {t}]
  /\ UNCHANGED <<dbVars, todo, seedVars>>

(* Create, MarkUsed (its WHERE is Live), IssueAccessToken, commit. *)
RefreshCommit(p) ==
  /\ pc[p] = "refresh_commit"
  /\ Live(req[p].token)
  /\ \E t \in TokenId :
       /\ IsNextId(t)
       /\ rows' = Rotated(req[p].token, t, req[p].at)
       /\ cookies' = cookies \cup {t}
  /\ access' = access \cup {AccessToken(req[p].user, req[p].version, req[p].at)}
  /\ End(p)
  /\ UNCHANGED <<now, status, version, seedVars>>

-----------------------------------------------------------------------------
(* Logout *)

(* Both routes sit behind AuthMiddleware. *)
Authenticated(u) == \E a \in access : a.user = u /\ Accepts(a)

(* LogoutCurrentFamily: the token is read without a lock and passes every  *)
(* early return; the others end the request with nothing changed.          *)
LogoutFindToken(p, u, t) ==
  /\ pc[p] = "idle"
  /\ Authenticated(u)
  /\ t \in cookies
  /\ Live(t) /\ rows[t].user = u /\ rows[t].expiresAt > now
  /\ pc' = [pc EXCEPT ![p] = "revoke"]
  /\ req' = [req EXCEPT ![p] = [NoRequest EXCEPT !.kind = "family", !.user = u,
                                                 !.token = t]]
  /\ UNCHANGED <<dbVars, todo, held, seedVars>>

(* LogoutAllDevices enters its transaction. *)
LogoutAllBegin(p, u) ==
  /\ pc[p] = "idle"
  /\ Authenticated(u)
  /\ pc' = [pc EXCEPT ![p] = "revoke"]
  /\ req' = [req EXCEPT ![p] = [NoRequest EXCEPT !.kind = "user", !.user = u]]
  /\ UNCHANGED <<dbVars, todo, held, seedVars>>

(* The UPDATE takes its snapshot: the rows it will ever look at. *)
RevokeStart(p) ==
  /\ pc[p] = "revoke"
  /\ todo' = [todo EXCEPT ![p] = {t \in TokenId : Matches(p, t)}]
  /\ pc' = [pc EXCEPT ![p] = "revoke_rows"]
  /\ UNCHANGED <<dbVars, req, held, seedVars>>

(* The UPDATE locks one row and tests its WHERE again. *)
RevokeRow(p, t) ==
  /\ pc[p] = "revoke_rows"
  /\ t \in todo[p] /\ LockFree(p, t)
  /\ todo' = [todo EXCEPT ![p] = @ \ {t}]
  /\ held' = [held EXCEPT ![p] = IF Matches(p, t) THEN @ \cup {t} ELSE @]
  /\ UNCHANGED <<dbVars, pc, req, seedVars>>

(* Mutant: UpdateTokenVersion with a fixed value. *)
VersionReset(u) == [version EXCEPT ![u] = 1]

IncrementTokenVersion(u) == [version EXCEPT ![u] = @ + 1]

(* Commit: the locked rows are revoked; a logout on all devices and a      *)
(* reuse also advance token_version.                                       *)
RevokeCommit(p) ==
  /\ pc[p] = "revoke_rows" /\ todo[p] = {}
  /\ rows' = [t \in TokenId |->
                IF t \in held[p] THEN [rows[t] EXCEPT !.revoked = TRUE] ELSE rows[t]]
  /\ version' = IF req[p].kind = "family" THEN version
                ELSE IncrementTokenVersion(req[p].user)
  /\ End(p)
  /\ UNCHANGED <<now, status, access, cookies, seedVars>>

-----------------------------------------------------------------------------
(* Failures, the clock, cleanup, and an operator of the database *)

(* A statement fails (database error, cancelled context, IssueAccessToken, *)
(* deadlock victim): the open transaction rolls back.  A login's row, not  *)
(* in a transaction, stays.                                                *)
Abort(p) ==
  /\ pc[p] # "idle"
  /\ End(p)
  /\ UNCHANGED <<dbVars, seedVars>>

Tick ==
  /\ now < MaxTime
  /\ now' = now + 1
  /\ UNCHANGED <<status, version, rows, access, cookies, reqVars, seedVars>>

(* UpdateStatus: no handler calls it, an operator does, either way;        *)
(* "suspended" stands for deleted too.                                     *)
UpdateStatus(u, s) ==
  /\ status[u] # s
  /\ status' = [status EXCEPT ![u] = s]
  /\ UNCHANGED <<now, version, rows, access, cookies, reqVars, seedVars>>

(* DELETE WHERE expires_at < now, when no transaction holds such a row;    *)
(* replaced_by_token_id of a kept row is set to NULL if it named one.      *)
DeleteExpired ==
  LET gone == {t \in TokenId : Stored(t) /\ rows[t].expiresAt < now}
  IN  /\ gone # {}
      /\ \A p \in Proc : held[p] \cap gone = {}
      /\ rows' = [t \in TokenId |->
                    IF t \in gone THEN [rows[t] EXCEPT !.state = "deleted"]
                    ELSE IF Stored(t) /\ rows[t].replacedBy \in gone
                         THEN [rows[t] EXCEPT !.replacedBy = NoToken]
                         ELSE rows[t]]
      /\ UNCHANGED <<now, status, version, access, cookies, reqVars, seedVars>>

-----------------------------------------------------------------------------
(* SeedAdmin, at every start of a server: other servers may be serving, or *)
(* a COMMIT of the one before be on its way.  A start may end before Save. *)

(* First reads the whole row of the admin. *)
SeedRead ==
  /\ Admin \in User /\ starts < MaxStarts
  /\ starts' = starts + 1
  /\ seed' = {version[Admin]}
  /\ UNCHANGED <<dbVars, reqVars, setBack>>

(* Save writes the whole row: the status as the seed has it, token_version *)
(* as it was read.                                                         *)
SeedSave ==
  \E v \in seed :
    /\ status' = [status EXCEPT ![Admin] = "active"]
    /\ version' = [version EXCEPT ![Admin] = v]
    /\ setBack' = setBack \cup {u \in {Admin} : v < version[u]}
    /\ seed' = {}
    /\ UNCHANGED <<now, rows, access, cookies, reqVars, starts>>

-----------------------------------------------------------------------------

Step(p) ==
  \/ LoginCreate(p) \/ LoginIssue(p)
  \/ \E t \in TokenId : RefreshReject(p, t) \/ RefreshDetectReuse(p, t) \/ RefreshLock(p, t)
  \/ RefreshCommit(p)
  \/ RevokeStart(p) \/ RevokeCommit(p)
  \/ \E t \in TokenId : RevokeRow(p, t)

Start(p) ==
  \/ \E u \in User : LoginFindUser(p, u) \/ LogoutAllBegin(p, u)
  \/ \E t \in TokenId : RefreshBegin(p, t)
  \/ \E u \in User, t \in TokenId : LogoutFindToken(p, u, t)

Next ==
  \/ \E p \in Proc : Start(p) \/ Step(p) \/ Abort(p)
  \/ Tick
  \/ \E u \in User, s \in {"active", "suspended"} : UpdateStatus(u, s)
  \/ DeleteExpired
  \/ SeedRead \/ SeedSave

Spec == Init /\ [][Next]_vars

(* The rows request p waits for: every row it could lock next is taken. *)
Awaited(p) ==
  IF pc[p] = "refresh_lock" THEN {req[p].token}
  ELSE IF pc[p] = "revoke_rows" THEN todo[p] ELSE {}

Blocked(p) == Awaited(p) # {} /\ \A t \in Awaited(p) : ~LockFree(p, t)

(* A set of requests each of which waits for another of the set. *)
Deadlocked(p) ==
  \E D \in SUBSET Proc :
    /\ p \in D
    /\ \A q \in D : /\ Blocked(q)
                    /\ \E t \in Awaited(q) : \E r \in D \ {q} : t \in held[r]

(* PostgreSQL's deadlock detector picks a victim. *)
BreakDeadlock(p) == Deadlocked(p) /\ Abort(p)

(* net/http runs each request's goroutine, PostgreSQL serves the queue of  *)
(* requests waiting for a row (strong fairness: a row may be taken and     *)
(* released many times meanwhile) and breaks deadlocks.                    *)
Fairness ==
  \A p \in Proc : SF_vars(Step(p)) /\ WF_vars(BreakDeadlock(p))

FairSpec == Spec /\ Fairness

-----------------------------------------------------------------------------
(* Properties *)

(* A family never has two tokens that could both be refreshed, whatever    *)
(* logins, refreshes, logouts, failures and cleanups overlap (Refresh,     *)
(* MarkUsed).                                                              *)
SingleLiveToken ==
  \A s, t \in TokenId : Live(s) /\ Live(t) /\ rows[s].family = rows[t].family => s = t

(* Once the checks of a refresh have passed under the row lock, nothing    *)
(* spends, revokes or deletes its token before the commit, so MarkUsed     *)
(* never reports ErrNoRowsAffected.                                        *)
LockedTokenStaysLive ==
  \A p \in Proc : pc[p] = "refresh_commit" => Live(req[p].token)

(* The tokens of a family form one chain: each token but the login's was   *)
(* made by exactly one rotation of a token of the same family and user     *)
(* (whose row may be gone by cleanup), and a used token names its          *)
(* successor.                                                              *)
LinearRotation ==
  /\ \A t \in TokenId : Stored(t) /\ rows[t].used =>
       LET n == rows[t].replacedBy
       IN  /\ n \in TokenId /\ n > t /\ rows[n].state # "absent"
           /\ rows[n].family = rows[t].family /\ rows[n].user = rows[t].user
  /\ \A n \in TokenId : rows[n].state # "absent" /\ rows[n].family # n =>
       Cardinality({t \in TokenId : rows[t].replacedBy = n}) = 1

(* Request q is going to sign an access token of user u. *)
Signs(q, u) ==
  pc[q] \in {"login_create", "login_issue", "refresh_commit"} /\ req[q].user = u

(* An access token that has expired or whose version is no longer the      *)
(* user's never becomes current again, so a rejected one is accepted again *)
(* only because the user was made active again; and a logout on all        *)
(* devices or a detected reuse leaves the user no current access token,    *)
(* and no request that will sign one.  Both are lost to a user whose       *)
(* version the Save of a seed has set back, and to no other                *)
(* (ValidateAccessToken, IncrementTokenVersion, SeedAdmin).                *)
AccessRevocation ==
  [][/\ \A a \in access : a.user \notin setBack' /\ ~Current(a) => ~Current(a)'
     /\ \A p \in Proc :
          RevokeCommit(p) /\ req[p].kind # "family" /\ req[p].user \notin setBack =>
            /\ \A a \in access : a.user = req[p].user => ~Current(a)'
            /\ \A q \in Proc : Signs(q, req[p].user) => req[q].version < version'[req[q].user]]_vars

(* Every request ends: no wait for a row lock lasts for ever.              *)
RequestsEnd == \A p \in Proc : pc[p] # "idle" ~> pc[p] = "idle"

(* What the families of SessionFamilies are here. *)
Members(f) == {t \in TokenId : rows[t].family = f}

SessionOf(f) ==
  IF rows[f].family # f THEN "none"
  ELSE IF \E t \in TokenId : rows[t].family = f /\ Live(t) THEN "open" ELSE "closed"

Sessions == INSTANCE SessionFamilies WITH
              Family <- TokenId,
              session <- [f \in TokenId |-> SessionOf(f)],
              generation <- [f \in TokenId |-> Cardinality(Members(f))]

(* A login opens a session, only a refresh of its live token continues it, *)
(* and a session once closed is never continued: the handlers implement    *)
(* SessionFamilies.                                                        *)
ImplementsSessions == Sessions!Spec
==============================================================================
