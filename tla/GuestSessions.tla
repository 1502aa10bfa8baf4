--------------------------- MODULE GuestSessions ---------------------------
(***************************************************************************)
(* The guest session of one browser: table guest_sessions, the cookie the  *)
(* browser holds of it, requests that overlap (several tabs, several       *)
(* calls of one page) and the cleanup of expired rows.                     *)
(*                                                                         *)
(* A request goes through OptionalAuth and GuestSessionMiddleware to its   *)
(* handler (route "actor"), or is POST /guest-session itself (route        *)
(* "session").  Both end in GetOrCreateGuestSession: SELECT by the hash of *)
(* the key, a comparison with the clock, UPDATE of the expiry, or INSERT;  *)
(* nothing makes these one transaction.  A key is the id of its row.       *)
(***************************************************************************)
EXTENDS Naturals

CONSTANTS
  Request,      \* requests of the browser that can be in flight at once
  MaxSessions,  \* bound on the rows ever inserted
  MaxTime,      \* bound on the clock
  SessionTTL,   \* GUEST_SESSION_TTL: lifetime of a row and of the cookie
  MaxDuration   \* no request takes longer, from sending to its answer

ASSUME GuestAssumption ==
  /\ MaxSessions \in Nat \ {0}
  /\ MaxTime \in Nat
  /\ SessionTTL \in Nat
  /\ MaxDuration \in Nat
  /\ 2 * MaxDuration <= SessionTTL

VARIABLES
  clock,
  rows,       \* ids of the rows of guest_sessions
  expiresAt,  \* [SessionId -> time], of rows that were inserted
  created,    \* how many rows were ever inserted
  cookie,     \* what the browser holds: a key and when it forgets it
  pc,         \* where each request is
  req,        \* what each request knows
  cleanup     \* the "now" of a cleanup in progress, or Idle

vars == <<clock, rows, expiresAt, created, cookie, pc, req, cleanup>>

SessionId == 1..MaxSessions
NoKey == 0
Time == 0..(MaxTime + SessionTTL)
Idle == MaxTime + 1

Place == {"idle", "auth", "find", "check", "touch", "create", "handle", "refused", "failed"}

Locals == [route : {"actor", "session"},
           key : {NoKey} \cup SessionId,  \* what the cookie of the request says
           id : {NoKey} \cup SessionId,   \* the session it is handled for
           read : Time,                   \* the row's expiry when it was read
           now : Time,                    \* the request's reading of the clock
           clears : BOOLEAN,              \* its answer takes the cookie away
           sentAt : Time, left : Time]    \* history: when it was sent, and how
                                          \* long the cookie would still have lived

NoLocals == [route |-> "actor", key |-> NoKey, id |-> NoKey, read |-> 0, now |-> 0,
             clears |-> FALSE, sentAt |-> 0, left |-> 0]

NoCookie == [key |-> NoKey, until |-> 0]

NewVisitor ==
  /\ rows = {}
  /\ expiresAt = [id \in SessionId |-> 0]
  /\ created = 0
  /\ cookie = NoCookie

(* A visitor who was here before, whose last answer came "late" after the  *)
(* request had read its clock.                                             *)
ReturningVisitor(left, late) ==
  /\ rows = {1}
  /\ expiresAt = [id \in SessionId |-> IF id = 1 THEN left ELSE 0]
  /\ created = 1
  /\ cookie = [key |-> 1, until |-> left + late]

Init ==
  /\ clock = 0
  /\ \/ NewVisitor
     \/ \E left \in 1..SessionTTL, late \in 0..MaxDuration :
          left + late <= SessionTTL /\ ReturningVisitor(left, late)
  /\ pc = [r \in Request |-> "idle"]
  /\ req = [r \in Request |-> NoLocals]
  /\ cleanup = Idle

Goto(r, place) == pc' = [pc EXCEPT ![r] = place]

---------------------------------------------------------------------------
(* The browser sends a request with the cookie it still holds; the page    *)
(* does not use the header that POST /guest-session would prefer.          *)
SentKey == IF clock < cookie.until THEN cookie.key ELSE NoKey

Send(r, route) ==
  /\ pc[r] = "idle"
  /\ Goto(r, IF route = "actor" THEN "auth" ELSE "find")
  /\ req' = [req EXCEPT ![r] =
              [NoLocals EXCEPT !.route = route, !.key = SentKey, !.sentAt = clock,
                               !.left = IF SentKey = NoKey THEN 0 ELSE cookie.until - clock]]
  /\ UNCHANGED <<clock, rows, expiresAt, created, cookie, cleanup>>

(* OptionalAuth lets a request without a token pass on as a guest's.  With *)
(* one it is a user's, or refused, and has no guest session either way.    *)
OptionalAuth(r) ==
  /\ pc[r] = "auth"
  /\ \/ Goto(r, "find") /\ UNCHANGED req
     \/ Goto(r, "idle") /\ req' = [req EXCEPT ![r] = NoLocals]
  /\ UNCHANGED <<clock, rows, expiresAt, created, cookie, cleanup>>

(* FindBySessionKeyHash.  Without a key, or without a row of it, a session *)
(* will be created; the creation reads its clock now.                      *)
FindSession(r) ==
  /\ pc[r] = "find"
  /\ IF req[r].key \in rows
       THEN /\ Goto(r, "check")
            /\ req' = [req EXCEPT ![r].read = expiresAt[req[r].key]]
       ELSE /\ Goto(r, "create")
            /\ req' = [req EXCEPT ![r].now = clock]
  /\ UNCHANGED <<clock, rows, expiresAt, created, cookie, cleanup>>

(* Not the code: the expiry is compared with the one a touch would write.  *)
ExpiredEarly(read) == read < clock + SessionTTL

Expired(read) == read <= clock

(* touchValidSession up to its UPDATE.  For an expired row the middleware  *)
(* clears the cookie and asks again without a key; POST /guest-session     *)
(* answers that there is no such session.                                  *)
CheckSession(r) ==
  /\ pc[r] = "check"
  /\ Goto(r, CASE ~Expired(req[r].read) -> "touch"
               [] Expired(req[r].read) /\ req[r].route = "actor" -> "create"
               [] OTHER -> "refused")
  /\ req' = [req EXCEPT ![r].read = 0, ![r].now = clock,
                        ![r].clears = Expired(req[r].read)]
  /\ UNCHANGED <<clock, rows, expiresAt, created, cookie, cleanup>>

(* Not the code: every touch leaves the expiry, or adds to it.             *)
ExtendedByNothing(old, now) == old
ExtendedFromExpiry(old, now) == old + SessionTTL

Extended(old, now) == now + SessionTTL

(* Touch: the UPDATE by id.  If the cleanup deleted the row meanwhile, the *)
(* error is none that the middleware tries again after.                    *)
Touch(r) ==
  /\ pc[r] = "touch"
  /\ IF req[r].key \in rows
       THEN /\ expiresAt' = [expiresAt EXCEPT ![req[r].key] = Extended(@, req[r].now)]
            /\ req' = [req EXCEPT ![r].id = req[r].key, ![r].now = 0]
            /\ Goto(r, "handle")
       ELSE /\ Goto(r, "refused")
            /\ UNCHANGED <<expiresAt, req>>
  /\ UNCHANGED <<clock, rows, created, cookie, cleanup>>

Create(r) ==
  /\ pc[r] = "create"
  /\ created < MaxSessions
  /\ created' = created + 1
  /\ rows' = rows \cup {created'}
  /\ expiresAt' = [expiresAt EXCEPT ![created'] = req[r].now + SessionTTL]
  /\ req' = [req EXCEPT ![r].id = created', ![r].now = 0]
  /\ Goto(r, "handle")
  /\ UNCHANGED <<clock, cookie, cleanup>>

(* The database fails, or the random key cannot be made: status 500.       *)
Fail(r) ==
  /\ pc[r] \in {"find", "touch", "create"}
  /\ Goto(r, "failed")
  /\ UNCHANGED <<clock, rows, expiresAt, created, cookie, req, cleanup>>

(* The handler ends and its answer arrives.  It carries the cookie for     *)
(* another SessionTTL; of the errors only one after an expired row takes   *)
(* the cookie away.                                                        *)
Answer(r) ==
  /\ pc[r] \in {"handle", "refused", "failed"}
  /\ cookie' = CASE pc[r] = "handle" -> [key |-> req[r].id, until |-> clock + SessionTTL]
                 [] pc[r] = "failed" /\ req[r].clears -> NoCookie
                 [] OTHER -> cookie
  /\ Goto(r, "idle")
  /\ req' = [req EXCEPT ![r] = NoLocals]
  /\ UNCHANGED <<clock, rows, expiresAt, created, cleanup>>

(* The answer is lost on its way.                                          *)
LoseAnswer(r) ==
  /\ pc[r] \in {"handle", "refused", "failed"}
  /\ Goto(r, "idle")
  /\ req' = [req EXCEPT ![r] = NoLocals]
  /\ UNCHANGED <<clock, rows, expiresAt, created, cookie, cleanup>>

---------------------------------------------------------------------------
(* CleanupUsecase.DeleteExpired reads its clock, deletes refresh tokens    *)
(* first (which may fail and end it), and then the guest sessions.         *)
StartCleanup ==
  /\ cleanup = Idle
  /\ cleanup' = clock
  /\ UNCHANGED <<clock, rows, expiresAt, created, cookie, pc, req>>

(* Not the code: the cleanup goes by last_seen_at.                         *)
DeletableBySeen(expiry, now) == expiry < now + SessionTTL

Deletable(expiry, now) == expiry < now

DeleteExpired ==
  /\ cleanup # Idle
  /\ rows' = {id \in rows : ~Deletable(expiresAt[id], cleanup)}
  /\ expiresAt' = [id \in SessionId |-> IF id \in rows' THEN expiresAt[id] ELSE 0]
  /\ cleanup' = Idle
  /\ UNCHANGED <<clock, created, cookie, pc, req>>

AbortCleanup ==
  /\ cleanup # Idle
  /\ cleanup' = Idle
  /\ UNCHANGED <<clock, rows, expiresAt, created, cookie, pc, req>>

Tick ==
  /\ clock < MaxTime
  /\ \A r \in Request : pc[r] # "idle" => clock < req[r].sentAt + MaxDuration
  /\ clock' = clock + 1
  /\ UNCHANGED <<rows, expiresAt, created, cookie, pc, req, cleanup>>

Next ==
  \/ \E r \in Request :
       \/ \E route \in {"actor", "session"} : Send(r, route)
       \/ OptionalAuth(r) \/ FindSession(r) \/ CheckSession(r) \/ Touch(r) \/ Create(r)
       \/ Fail(r) \/ Answer(r) \/ LoseAnswer(r)
  \/ StartCleanup \/ DeleteExpired \/ AbortCleanup
  \/ Tick

Spec == Init /\ [][Next]_vars

---------------------------------------------------------------------------
(* The types of the table, the cookie and the requests.                    *)
TypeOK ==
  /\ clock \in 0..MaxTime
  /\ rows \subseteq SessionId
  /\ expiresAt \in [SessionId -> Time]
  /\ created \in 0..MaxSessions
  /\ cookie \in [key : {NoKey} \cup SessionId, until : Time]
  /\ pc \in [Request -> Place]
  /\ req \in [Request -> Locals]
  /\ cleanup \in 0..Idle

(* While a handler runs for a guest, the guest's row is there: what it     *)
(* inserts with guest_session_id (events, displays) has its foreign key.   *)
(* Touch is unconditional, so an older request may shorten what a younger  *)
(* one extended, and the cleanup runs with a clock of its own.             *)
HandledRequestHasSession ==
  \A r \in Request : pc[r] = "handle" => req[r].id \in rows

(* The cookie and the row agree on when the session ends, up to twice the  *)
(* longest request: a browser does not hold the key of a session that is   *)
(* gone, except in that last moment.                                       *)
CookieIsLive ==
  cookie.key # NoKey /\ clock + 2 * MaxDuration < cookie.until =>
    cookie.key \in rows /\ clock < expiresAt[cookie.key]

(* A guest whose cookie has more than that left is served as the same      *)
(* guest: not as a new one, and not refused because the cleanup or another *)
(* request came between the statements of GetOrCreateGuestSession.         *)
CookieHonoured ==
  \A r \in Request : req[r].left > 3 * MaxDuration =>
    /\ pc[r] # "refused"
    /\ pc[r] = "handle" => req[r].id = req[r].key
============================================================================
