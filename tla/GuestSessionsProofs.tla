------------------------ MODULE GuestSessionsProofs ------------------------
(***************************************************************************)
(* Proofs about GuestSessions, for any number of requests and sessions and *)
(* any durations with 2 * MaxDuration <= SessionTTL.                       *)
(*                                                                         *)
(* Touch writes an expiry counted from a clock reading that may be a whole *)
(* MaxDuration old, so an older request can shorten what a younger one     *)
(* wrote.  The invariant bounds by how much: a row that a handler works on *)
(* expires at most one MaxDuration before its request's SessionTTL is over *)
(* and a row whose key the browser holds at most two before the cookie.    *)
(***************************************************************************)
EXTENDS GuestSessions, TLAPS

(* A request in flight started at most MaxDuration ago, and the reading it *)
(* will write an expiry from is no older than that.                        *)
InTime(r) ==
  /\ pc[r] = "idle" => req[r].left = 0
  /\ pc[r] # "idle" => /\ req[r].sentAt <= clock
                       /\ clock <= req[r].sentAt + MaxDuration
                       /\ req[r].left <= SessionTTL
  /\ pc[r] \in {"touch", "create"} => /\ req[r].sentAt <= req[r].now
                                      /\ req[r].now <= clock

(* What a handler works on is there and will be for a while.               *)
HandlerOK(r) ==
  pc[r] = "handle" =>
    /\ req[r].id \in rows
    /\ req[r].sentAt + SessionTTL <= expiresAt[req[r].id] + MaxDuration

(* A request whose cookie has long enough to live finds and keeps its row. *)
HonouredOK(r) ==
  req[r].left > 3 * MaxDuration =>
    /\ pc[r] \notin {"idle", "create", "refused"}
    /\ req[r].key \in rows
    /\ req[r].sentAt + req[r].left <= expiresAt[req[r].key] + 2 * MaxDuration
    /\ pc[r] = "check" => req[r].sentAt + req[r].left <= req[r].read + 2 * MaxDuration
    /\ pc[r] = "handle" => req[r].id = req[r].key

RequestOK(r) == InTime(r) /\ HandlerOK(r) /\ HonouredOK(r)

CookieOK ==
  /\ cookie.until <= clock + SessionTTL
  /\ cookie.key # NoKey /\ clock + 2 * MaxDuration < cookie.until =>
       /\ cookie.key \in rows
       /\ cookie.until <= expiresAt[cookie.key] + 2 * MaxDuration

RowsOK ==
  /\ \A id \in rows : id <= created
  /\ \A id \in SessionId : expiresAt[id] <= clock + SessionTTL
  /\ cleanup = Idle \/ cleanup <= clock

IInv ==
  /\ TypeOK
  /\ RowsOK
  /\ CookieOK
  /\ \A r \in Request : RequestOK(r)

(* What a step may do to the rows that have not expired: leave them, or    *)
(* extend them from a reading that is at most MaxDuration old.             *)
Kept ==
  \A id \in rows : clock <= expiresAt[id] =>
    /\ id \in rows'
    /\ expiresAt'[id] = expiresAt[id] \/ clock + SessionTTL <= expiresAt'[id] + MaxDuration

---------------------------------------------------------------------------
(* The constants as numbers.                                               *)
LEMMA Constants ==
  /\ MaxSessions \in Nat /\ MaxSessions >= 1 /\ MaxTime \in Nat
  /\ SessionTTL \in Nat /\ MaxDuration \in Nat /\ 2 * MaxDuration <= SessionTTL
<1> QED
  BY GuestAssumption

(* The state as numbers.                                                   *)
LEMMA Numbers ==
  ASSUME TypeOK
  PROVE  /\ clock \in Nat /\ clock <= MaxTime
         /\ \A id \in rows : id \in SessionId
         /\ \A id \in SessionId : expiresAt[id] \in Nat /\ id \in Nat /\ id # NoKey
         /\ cookie.key \in {NoKey} \cup SessionId /\ cookie.until \in Nat
         /\ cleanup \in Nat
         /\ \A r \in Request :
              /\ req[r] \in Locals /\ pc[r] \in Place
              /\ req[r].route \in {"actor", "session"} /\ req[r].clears \in BOOLEAN
              /\ req[r].key \in {NoKey} \cup SessionId /\ req[r].id \in {NoKey} \cup SessionId
              /\ req[r].read \in Nat /\ req[r].now \in Nat
              /\ req[r].sentAt \in Nat /\ req[r].left \in Nat
              /\ req[r].read \in Time
<1> QED
  BY Constants DEF TypeOK, Locals, Time, SessionId, NoKey, Idle

(* A request that a step leaves alone stays in order as long as the rows   *)
(* are kept.                                                               *)
LEMMA OtherRequest ==
  ASSUME IInv, TypeOK', Kept, clock' = clock,
         NEW r \in Request, pc'[r] = pc[r], req'[r] = req[r]
  PROVE  RequestOK(r)'
<1>1. RequestOK(r) /\ TypeOK
  BY DEF IInv
<1>2. InTime(r)'
  BY <1>1 DEF RequestOK, InTime
<1>3. \A id \in SessionId : expiresAt[id] \in Nat /\ expiresAt'[id] \in Nat
  BY <1>1, Constants DEF TypeOK, Time
<1>4. HandlerOK(r)'
  <2> SUFFICES ASSUME pc[r] = "handle"
               PROVE  /\ req[r].id \in rows'
                      /\ req[r].sentAt + SessionTTL <= expiresAt'[req[r].id] + MaxDuration
    BY DEF HandlerOK
  <2> DEFINE e == expiresAt[req[r].id]
             f == expiresAt'[req[r].id]
  <2>1. /\ req[r].id \in rows
        /\ req[r].sentAt + SessionTTL <= e + MaxDuration
        /\ req[r].sentAt <= clock /\ clock <= req[r].sentAt + MaxDuration
    BY <1>1 DEF RequestOK, HandlerOK, InTime
  <2>2. e \in Nat /\ f \in Nat /\ clock \in Nat /\ req[r].sentAt \in Nat
    BY <1>1, <1>3, <2>1, Numbers
  <2>3. clock <= e
    BY <2>1, <2>2, Constants
  <2>4. req[r].id \in rows' /\ (f = e \/ clock + SessionTTL <= f + MaxDuration)
    BY <2>1, <2>3 DEF Kept
  <2> QED
    BY <2>1, <2>2, <2>4, Constants
<1>5. HonouredOK(r)'
  <2> SUFFICES ASSUME req[r].left > 3 * MaxDuration
               PROVE  /\ req[r].key \in rows'
                      /\ req[r].sentAt + req[r].left <= expiresAt'[req[r].key] + 2 * MaxDuration
    BY <1>1 DEF RequestOK, HonouredOK
  <2> DEFINE e == expiresAt[req[r].key]
             f == expiresAt'[req[r].key]
  <2>1. /\ req[r].key \in rows /\ pc[r] # "idle"
        /\ req[r].sentAt + req[r].left <= e + 2 * MaxDuration
        /\ req[r].sentAt <= clock /\ clock <= req[r].sentAt + MaxDuration
        /\ req[r].left <= SessionTTL
    BY <1>1 DEF RequestOK, HonouredOK, InTime
  <2>2. /\ e \in Nat /\ f \in Nat /\ clock \in Nat /\ req[r].sentAt \in Nat
        /\ req[r].left \in Nat
    BY <1>1, <1>3, <2>1, Numbers
  <2>3. clock <= e
    BY <2>1, <2>2, Constants
  <2>4. req[r].key \in rows' /\ (f = e \/ clock + SessionTTL <= f + MaxDuration)
    BY <2>1, <2>3 DEF Kept
  <2> QED
    BY <2>1, <2>2, <2>4, Constants
<1> QED
  BY <1>2, <1>4, <1>5 DEF RequestOK

(* So does the cookie.                                                     *)
LEMMA SameCookie ==
  ASSUME IInv, TypeOK', Kept, clock' = clock, cookie' = cookie
  PROVE  CookieOK'
<1>1. CookieOK /\ TypeOK
  BY DEF IInv
<1>2. SUFFICES ASSUME cookie.key # NoKey, clock + 2 * MaxDuration < cookie.until
               PROVE  /\ cookie.key \in rows'
                      /\ cookie.until <= expiresAt'[cookie.key] + 2 * MaxDuration
  BY <1>1 DEF CookieOK
<1> DEFINE e == expiresAt[cookie.key]
           f == expiresAt'[cookie.key]
<1>3. /\ cookie.key \in rows /\ cookie.until <= e + 2 * MaxDuration
      /\ cookie.until <= clock + SessionTTL
  BY <1>1, <1>2 DEF CookieOK
<1>4. e \in Nat /\ f \in Nat /\ clock \in Nat /\ cookie.until \in Nat
  BY <1>1, <1>3, Constants, Numbers DEF TypeOK, Time
<1>5. clock <= e
  BY <1>2, <1>3, <1>4, Constants
<1>6. cookie.key \in rows' /\ (f = e \/ clock + SessionTTL <= f + MaxDuration)
  BY <1>3, <1>5 DEF Kept
<1> QED
  BY <1>3, <1>4, <1>6, Constants

(* A step of one request, or of the cleanup, preserves the invariant if it *)
(* keeps the rows and that request is in order afterwards.                 *)
LEMMA RequestStep ==
  ASSUME IInv, TypeOK', Kept, clock' = clock, RowsOK', CookieOK',
         NEW r \in Request, RequestOK(r)',
         \A s \in Request : s # r => pc'[s] = pc[s] /\ req'[s] = req[s]
  PROVE  IInv'
<1>1. ASSUME NEW s \in Request PROVE RequestOK(s)'
  <2>1. CASE s = r
    BY <2>1
  <2>2. CASE s # r
    BY <2>2, OtherRequest
  <2> QED
    BY <2>1, <2>2
<1> QED
  BY <1>1 DEF IInv

(* A step that leaves the table, the clock and the cookie alone.           *)
LEMMA QuietStep ==
  ASSUME IInv, UNCHANGED <<clock, rows, expiresAt, created, cookie, cleanup>>,
         NEW r \in Request, NEW place \in Place, NEW next \in Locals,
         pc' = [pc EXCEPT ![r] = place],
         req' = [req EXCEPT ![r] = next],
         RequestOK(r)'
  PROVE  IInv'
<1>1. TypeOK /\ RowsOK
  BY DEF IInv
<1>2. TypeOK'
  BY <1>1 DEF TypeOK
<1>3. Kept
  BY DEF Kept
<1>4. RowsOK'
  BY <1>1 DEF RowsOK
<1>5. CookieOK'
  BY <1>2, <1>3, SameCookie
<1>6. \A s \in Request : s # r => pc'[s] = pc[s] /\ req'[s] = req[s]
  BY <1>1 DEF TypeOK
<1> QED
  BY <1>2, <1>3, <1>4, <1>5, <1>6, RequestStep

(* What the fields of the request are after it.                            *)
LEMMA Chosen ==
  ASSUME TypeOK, NEW r \in Request, NEW place, NEW next,
         pc' = [pc EXCEPT ![r] = place], req' = [req EXCEPT ![r] = next]
  PROVE  pc'[r] = place /\ req'[r] = next
<1> QED
  BY DEF TypeOK

(* A request that is over.                                                 *)
LEMMA IdleRequest ==
  /\ NoLocals \in Locals
  /\ \A r \in Request : pc'[r] = "idle" /\ req'[r] = NoLocals => RequestOK(r)'
<1>1. NoLocals \in Locals
  BY Constants DEF NoLocals, Locals, Time, NoKey
<1>2. ASSUME NEW r \in Request, pc'[r] = "idle", req'[r] = NoLocals
      PROVE  RequestOK(r)'
  <2>1. req'[r].left = 0
    BY <1>2 DEF NoLocals
  <2>2. ~(req'[r].left > 3 * MaxDuration)
    BY <2>1, Constants
  <2> QED
    BY <1>2, <2>1, <2>2 DEF RequestOK, InTime, HandlerOK, HonouredOK
<1> QED
  BY <1>1, <1>2

---------------------------------------------------------------------------
LEMMA InitStep == Init => IInv
<1> SUFFICES ASSUME Init PROVE IInv
  OBVIOUS
<1>1. \A r \in Request : pc[r] = "idle" /\ req[r] = NoLocals
  BY DEF Init
<1>2. NoLocals \in Locals
  BY IdleRequest
<1>3. /\ clock = 0 /\ clock \in Nat /\ rows \subseteq SessionId /\ rows \subseteq 1..created
      /\ created \in 0..MaxSessions /\ cleanup = Idle /\ Idle \in Nat
  BY Constants DEF Init, NewVisitor, ReturningVisitor, SessionId, Idle
<1>4. /\ expiresAt \in [SessionId -> Time]
      /\ \A id \in SessionId : expiresAt[id] <= SessionTTL
      /\ cookie \in [key : {NoKey} \cup SessionId, until : Time]
      /\ cookie.until <= SessionTTL
      /\ cookie.key # NoKey =>
           cookie.key \in rows /\ cookie.until <= expiresAt[cookie.key] + 2 * MaxDuration
  <2>1. CASE NewVisitor
    <3>1. /\ cookie.key = NoKey /\ cookie.until = 0
          /\ expiresAt = [id \in SessionId |-> 0]
          /\ cookie = [key |-> NoKey, until |-> 0]
      BY <2>1 DEF NewVisitor, NoCookie
    <3>2. 0 \in Time
      BY Constants DEF Time
    <3> QED
      BY <3>1, <3>2, Constants
  <2>2. ASSUME NEW left \in 1..SessionTTL, NEW late \in 0..MaxDuration,
               left + late <= SessionTTL, ReturningVisitor(left, late)
        PROVE  <1>4
    <3>1. /\ rows = {1} /\ expiresAt = [id \in SessionId |-> IF id = 1 THEN left ELSE 0]
          /\ cookie = [key |-> 1, until |-> left + late]
          /\ cookie.key = 1 /\ cookie.until = left + late
      BY <2>2 DEF ReturningVisitor
    <3>2. 1 \in SessionId /\ 0 \in Time /\ left \in Time /\ left + late \in Time
      BY <2>2, Constants DEF SessionId, Time
    <3> QED
      BY <2>2, <3>1, <3>2, Constants
  <2> QED
    BY <2>1, <2>2 DEF Init
<1>5. TypeOK
  <2>1. req \in [Request -> Locals]
    BY <1>2 DEF Init
  <2>2. pc \in [Request -> Place]
    BY DEF Init, Place
  <2> QED
    BY <1>3, <1>4, <2>1, <2>2, Constants DEF TypeOK, Idle
<1>6. RowsOK /\ CookieOK
  BY <1>3, <1>4, Constants DEF RowsOK, CookieOK, SessionId
<1>7. ASSUME NEW r \in Request PROVE RequestOK(r)
  <2>1. req[r].left = 0 /\ pc[r] = "idle"
    BY <1>1 DEF NoLocals
  <2>2. ~(req[r].left > 3 * MaxDuration)
    BY <2>1, Constants
  <2> QED
    BY <2>1, <2>2 DEF RequestOK, InTime, HandlerOK, HonouredOK
<1> QED
  BY <1>5, <1>6, <1>7 DEF IInv

(* A request takes with it how long its cookie still lives, and that is    *)
(* all that HonouredOK starts from.                                        *)
LEMMA SendStep ==
  ASSUME IInv, NEW r \in Request, NEW route \in {"actor", "session"}, Send(r, route)
  PROVE  IInv'
<1> DEFINE place == IF route = "actor" THEN "auth" ELSE "find"
           left == IF SentKey = NoKey THEN 0 ELSE cookie.until - clock
           next == [NoLocals EXCEPT !.route = route, !.key = SentKey, !.sentAt = clock,
                                    !.left = left]
<1>1. /\ pc' = [pc EXCEPT ![r] = place] /\ req' = [req EXCEPT ![r] = next]
      /\ UNCHANGED <<clock, rows, expiresAt, created, cookie, cleanup>>
  BY DEF Send, Goto
<1>2. TypeOK /\ CookieOK
  BY DEF IInv
<1>3. /\ SentKey \in {NoKey} \cup SessionId
      /\ left \in Nat /\ left <= SessionTTL
      /\ SentKey # NoKey => SentKey = cookie.key /\ left = cookie.until - clock
  BY <1>2, Constants, Numbers DEF SentKey, CookieOK
<1>4. next \in Locals
  <2>1. clock \in Time /\ left \in Time
    BY <1>2, <1>3, Constants, Numbers DEF Time
  <2> QED
    BY <1>3, <2>1, IdleRequest DEF Locals
<1>5. /\ next.key = SentKey /\ next.sentAt = clock /\ next.left = left
      /\ place \in {"auth", "find"}
  BY DEF NoLocals
<1> HIDE DEF place, next, left
<1>6. pc'[r] = place /\ req'[r] = next
  BY <1>1, <1>2, Chosen
<1>7. InTime(r)' /\ HandlerOK(r)'
  BY <1>1, <1>2, <1>3, <1>5, <1>6, Constants, Numbers DEF InTime, HandlerOK
<1>8. HonouredOK(r)'
  <2> SUFFICES ASSUME left > 3 * MaxDuration
               PROVE  /\ SentKey \in rows
                      /\ clock + left <= expiresAt[SentKey] + 2 * MaxDuration
    BY <1>1, <1>5, <1>6 DEF HonouredOK
  <2>1. SentKey # NoKey
    BY <1>3, Constants DEF left
  <2>2. cookie.until = clock + left /\ clock + 2 * MaxDuration < cookie.until
    BY <1>2, <1>3, <2>1, Constants, Numbers
  <2> QED
    BY <1>2, <1>3, <2>1, <2>2 DEF CookieOK
<1>9. RequestOK(r)' /\ place \in Place
  BY <1>5, <1>7, <1>8 DEF RequestOK, Place
<1> QED
  BY <1>1, <1>4, <1>9, QuietStep

LEMMA OptionalAuthStep ==
  ASSUME IInv, NEW r \in Request, OptionalAuth(r)
  PROVE  IInv'
<1>1. /\ pc[r] = "auth" /\ TypeOK /\ RequestOK(r)
      /\ UNCHANGED <<clock, rows, expiresAt, created, cookie, cleanup>>
  BY DEF OptionalAuth, IInv
<1>2. CASE Goto(r, "find") /\ UNCHANGED req
  <2>1. /\ pc' = [pc EXCEPT ![r] = "find"] /\ req' = [req EXCEPT ![r] = req[r]]
        /\ req[r] \in Locals
    BY <1>1, <1>2 DEF Goto, TypeOK
  <2>2. pc'[r] = "find" /\ req'[r] = req[r]
    BY <1>1, <2>1, Chosen
  <2>3. RequestOK(r)'
    BY <1>1, <2>2 DEF RequestOK, InTime, HandlerOK, HonouredOK
  <2> QED
    BY <1>1, <2>1, <2>3, QuietStep DEF Place
<1>3. CASE Goto(r, "idle") /\ req' = [req EXCEPT ![r] = NoLocals]
  <2>1. pc' = [pc EXCEPT ![r] = "idle"]
    BY <1>3 DEF Goto
  <2>2. RequestOK(r)'
    BY <1>1, <1>3, <2>1, Chosen, IdleRequest
  <2> QED
    BY <1>1, <1>3, <2>1, <2>2, IdleRequest, QuietStep DEF Place
<1> QED
  BY <1>2, <1>3 DEF OptionalAuth

(* The expiry that is read is the row's.                                   *)
LEMMA FindSessionStep ==
  ASSUME IInv, NEW r \in Request, FindSession(r)
  PROVE  IInv'
<1>1. /\ pc[r] = "find" /\ TypeOK /\ RequestOK(r)
      /\ UNCHANGED <<clock, rows, expiresAt, created, cookie, cleanup>>
  BY DEF FindSession, IInv
<1>2. CASE req[r].key \in rows
  <2> DEFINE next == [req[r] EXCEPT !.read = expiresAt[req[r].key]]
  <2>1. pc' = [pc EXCEPT ![r] = "check"] /\ req' = [req EXCEPT ![r] = next]
    BY <1>1, <1>2 DEF FindSession, Goto
  <2>2. expiresAt[req[r].key] \in Time
    BY <1>1, <1>2 DEF TypeOK
  <2>3. /\ next \in Locals /\ next.read = expiresAt[req[r].key] /\ next.key = req[r].key
        /\ next.left = req[r].left /\ next.sentAt = req[r].sentAt /\ next.id = req[r].id
    BY <1>1, <2>2, Numbers DEF Locals
  <2> HIDE DEF next
  <2>4. pc'[r] = "check" /\ req'[r] = next
    BY <1>1, <2>1, Chosen
  <2>5. RequestOK(r)'
    BY <1>1, <2>3, <2>4 DEF RequestOK, InTime, HandlerOK, HonouredOK
  <2> QED
    BY <1>1, <2>1, <2>3, <2>5, QuietStep DEF Place
<1>3. CASE req[r].key \notin rows
  <2> DEFINE next == [req[r] EXCEPT !.now = clock]
  <2>1. pc' = [pc EXCEPT ![r] = "create"] /\ req' = [req EXCEPT ![r] = next]
    BY <1>1, <1>3 DEF FindSession, Goto
  <2>2. clock \in Time
    BY <1>1, Constants, Numbers DEF Time
  <2>3. /\ next \in Locals /\ next.now = clock /\ next.key = req[r].key
        /\ next.left = req[r].left /\ next.sentAt = req[r].sentAt /\ next.id = req[r].id
    BY <1>1, <2>2, Numbers DEF Locals
  <2> HIDE DEF next
  <2>4. pc'[r] = "create" /\ req'[r] = next
    BY <1>1, <2>1, Chosen
  <2>5. ~(req[r].left > 3 * MaxDuration)
    BY <1>1, <1>3 DEF RequestOK, HonouredOK
  <2>6. RequestOK(r)'
    BY <1>1, <2>3, <2>4, <2>5, Numbers DEF RequestOK, InTime, HandlerOK, HonouredOK
  <2> QED
    BY <1>1, <2>1, <2>3, <2>6, QuietStep DEF Place
<1> QED
  BY <1>2, <1>3

(* A row that is good for long enough has not expired when it is read.     *)
LEMMA CheckSessionStep ==
  ASSUME IInv, NEW r \in Request, CheckSession(r)
  PROVE  IInv'
<1> DEFINE place == CASE ~Expired(req[r].read) -> "touch"
                      [] Expired(req[r].read) /\ req[r].route = "actor" -> "create"
                      [] OTHER -> "refused"
           clears == Expired(req[r].read)
           next == [req[r] EXCEPT !.read = 0, !.now = clock, !.clears = clears]
<1>1. /\ pc[r] = "check" /\ TypeOK /\ RequestOK(r)
      /\ pc' = [pc EXCEPT ![r] = place] /\ req' = [req EXCEPT ![r] = next]
      /\ UNCHANGED <<clock, rows, expiresAt, created, cookie, cleanup>>
  BY DEF CheckSession, Goto, IInv
<1>2. clock \in Time /\ 0 \in Time
  BY <1>1, Constants, Numbers DEF Time
<1>3. /\ next \in Locals /\ next.now = clock /\ next.key = req[r].key
      /\ next.left = req[r].left /\ next.sentAt = req[r].sentAt /\ next.id = req[r].id
  <2>1. clears \in BOOLEAN
    BY DEF Expired
  <2> HIDE DEF clears
  <2> QED
    BY <1>1, <1>2, <2>1, Numbers DEF Locals
<1>4. /\ place \in {"touch", "create", "refused"}
      /\ req[r].left > 3 * MaxDuration => place = "touch"
  <2>1. place \in {"touch", "create", "refused"}
    OBVIOUS
  <2>2. ASSUME req[r].left > 3 * MaxDuration PROVE place = "touch"
    <3>1. /\ req[r].sentAt + req[r].left <= req[r].read + 2 * MaxDuration
          /\ clock <= req[r].sentAt + MaxDuration
      BY <1>1, <2>2 DEF RequestOK, HonouredOK, InTime
    <3>2. clock < req[r].read
      BY <1>1, <2>2, <3>1, Constants, Numbers
    <3>3. ~Expired(req[r].read)
      BY <1>1, <3>2, Numbers DEF Expired
    <3> QED
      BY <3>3
  <2> QED
    BY <2>1, <2>2
<1> HIDE DEF place, next
<1>5. pc'[r] = place /\ req'[r] = next
  BY <1>1, Chosen
<1>6. RequestOK(r)'
  BY <1>1, <1>3, <1>4, <1>5, Constants, Numbers DEF RequestOK, InTime, HandlerOK, HonouredOK
<1> QED
  BY <1>1, <1>3, <1>4, <1>6, QuietStep DEF Place

(* Touch writes what is no more than MaxDuration short of a new lifetime.  *)
LEMMA TouchStep ==
  ASSUME IInv, NEW r \in Request, Touch(r)
  PROVE  IInv'
<1>1. /\ pc[r] = "touch" /\ TypeOK /\ RowsOK /\ RequestOK(r)
      /\ UNCHANGED <<clock, rows, created, cookie, cleanup>>
  BY DEF Touch, IInv
<1>2. CASE req[r].key \notin rows
  <2>1. /\ pc' = [pc EXCEPT ![r] = "refused"] /\ req' = [req EXCEPT ![r] = req[r]]
        /\ req[r] \in Locals /\ UNCHANGED expiresAt
    BY <1>1, <1>2 DEF Touch, Goto, TypeOK
  <2>2. pc'[r] = "refused" /\ req'[r] = req[r]
    BY <1>1, <2>1, Chosen
  <2>3. ~(req[r].left > 3 * MaxDuration)
    BY <1>1, <1>2 DEF RequestOK, HonouredOK
  <2>4. RequestOK(r)'
    BY <1>1, <2>2, <2>3 DEF RequestOK, InTime, HandlerOK, HonouredOK
  <2> QED
    BY <1>1, <2>1, <2>4, QuietStep DEF Place
<1>3. CASE req[r].key \in rows
  <2> DEFINE k == req[r].key
             e == req[r].now + SessionTTL
             next == [req[r] EXCEPT !.id = k, !.now = 0]
  <2>1. /\ pc' = [pc EXCEPT ![r] = "handle"] /\ req' = [req EXCEPT ![r] = next]
        /\ expiresAt' = [expiresAt EXCEPT ![k] = e]
    BY <1>1, <1>3 DEF Touch, Goto, Extended
  <2>2. /\ req[r].sentAt <= req[r].now /\ req[r].now <= clock
        /\ req[r].sentAt <= clock /\ clock <= req[r].sentAt + MaxDuration
        /\ req[r].left <= SessionTTL
    BY <1>1 DEF RequestOK, InTime
  <2>3. /\ e \in Nat /\ e <= clock + SessionTTL /\ clock + SessionTTL <= e + MaxDuration
        /\ req[r].sentAt + SessionTTL <= e + MaxDuration
        /\ req[r].sentAt + SessionTTL <= e
        /\ e \in Time /\ 0 \in Time
    BY <1>1, <2>2, Constants, Numbers DEF Time
  <2>4. /\ next \in Locals /\ next.id = k /\ next.key = k
        /\ next.left = req[r].left /\ next.sentAt = req[r].sentAt
    BY <1>1, <2>3, Numbers DEF Locals
  <2> HIDE DEF next, e
  <2>5. pc'[r] = "handle" /\ req'[r] = next
    BY <1>1, <2>1, Chosen
  <2>6. /\ k \in SessionId /\ expiresAt'[k] = e
        /\ \A id \in SessionId : id # k => expiresAt'[id] = expiresAt[id]
    BY <1>1, <1>3, <2>1, Numbers DEF TypeOK
  <2>7. TypeOK'
    <3>1. expiresAt' \in [SessionId -> Time] /\ req' \in [Request -> Locals]
          /\ pc' \in [Request -> Place]
      BY <1>1, <2>1, <2>3, <2>4 DEF TypeOK, Place
    <3> QED
      BY <1>1, <3>1 DEF TypeOK
  <2>8. Kept
    BY <1>1, <2>3, <2>6, Numbers DEF Kept
  <2>9. RowsOK'
    BY <1>1, <2>3, <2>6 DEF RowsOK
  <2>10. CookieOK'
    BY <1>1, <2>7, <2>8, SameCookie
  <2>11. RequestOK(r)'
    <3>1. InTime(r)'
      BY <1>1, <2>2, <2>4, <2>5 DEF InTime
    <3>2. HandlerOK(r)'
      BY <1>1, <1>3, <2>3, <2>4, <2>5, <2>6 DEF HandlerOK
    <3>3. req[r].sentAt + req[r].left <= e + 2 * MaxDuration
      BY <1>1, <2>2, <2>3, Constants, Numbers
    <3>4. HonouredOK(r)'
      BY <1>1, <1>3, <2>4, <2>5, <2>6, <3>3 DEF HonouredOK
    <3> QED
      BY <3>1, <3>2, <3>4 DEF RequestOK
  <2>12. \A s \in Request : s # r => pc'[s] = pc[s] /\ req'[s] = req[s]
    BY <1>1, <2>1 DEF TypeOK
  <2> QED
    BY <1>1, <2>7, <2>8, <2>9, <2>10, <2>11, <2>12, RequestStep
<1> QED
  BY <1>2, <1>3

LEMMA CreateStep ==
  ASSUME IInv, NEW r \in Request, Create(r)
  PROVE  IInv'
<1> DEFINE k == created + 1
           e == req[r].now + SessionTTL
           next == [req[r] EXCEPT !.id = k, !.now = 0]
<1>1. /\ pc[r] = "create" /\ TypeOK /\ RowsOK /\ RequestOK(r) /\ created < MaxSessions
      /\ created' = k /\ rows' = rows \cup {k}
      /\ expiresAt' = [expiresAt EXCEPT ![k] = e]
      /\ pc' = [pc EXCEPT ![r] = "handle"] /\ req' = [req EXCEPT ![r] = next]
      /\ UNCHANGED <<clock, cookie, cleanup>>
  BY DEF Create, Goto, IInv
<1>2. /\ req[r].sentAt <= req[r].now /\ req[r].now <= clock
      /\ req[r].sentAt <= clock /\ clock <= req[r].sentAt + MaxDuration
      /\ req[r].left <= SessionTTL
  BY <1>1 DEF RequestOK, InTime
<1>3. /\ e \in Nat /\ e <= clock + SessionTTL
      /\ req[r].sentAt + SessionTTL <= e + MaxDuration
      /\ e \in Time /\ 0 \in Time
  BY <1>1, <1>2, Constants, Numbers DEF Time
<1>4. /\ k \in SessionId /\ k \in 0..MaxSessions /\ k \notin rows
      /\ \A id \in rows : id <= k
  BY <1>1, Constants, Numbers, SMTT(30) DEF SessionId, TypeOK, RowsOK
<1>5. /\ next \in Locals /\ next.id = k /\ next.key = req[r].key
      /\ next.left = req[r].left /\ next.sentAt = req[r].sentAt
  BY <1>1, <1>3, <1>4, Numbers DEF Locals
<1> HIDE DEF next, e, k
<1>6. pc'[r] = "handle" /\ req'[r] = next
  BY <1>1, Chosen
<1>7. /\ expiresAt'[k] = e
      /\ \A id \in SessionId : id # k => expiresAt'[id] = expiresAt[id]
  BY <1>1, <1>4 DEF TypeOK
<1>8. TypeOK'
  <2>1. expiresAt' \in [SessionId -> Time] /\ req' \in [Request -> Locals]
        /\ pc' \in [Request -> Place]
    BY <1>1, <1>3, <1>5 DEF TypeOK, Place
  <2> QED
    BY <1>1, <1>4, <2>1 DEF TypeOK
<1>9. Kept
  BY <1>1, <1>4, <1>7, Numbers DEF Kept
<1>10. RowsOK'
  <2>1. k <= k
    BY <1>4
  <2> QED
    BY <1>1, <1>3, <1>4, <1>7, <2>1 DEF RowsOK
<1>11. CookieOK'
  BY <1>1, <1>8, <1>9, SameCookie
<1>12. RequestOK(r)'
  <2>1. ~(req[r].left > 3 * MaxDuration)
    BY <1>1 DEF RequestOK, HonouredOK
  <2> QED
    BY <1>1, <1>2, <1>3, <1>5, <1>6, <1>7, <2>1 DEF RequestOK, InTime, HandlerOK, HonouredOK
<1>13. \A s \in Request : s # r => pc'[s] = pc[s] /\ req'[s] = req[s]
  BY <1>1 DEF TypeOK
<1> QED
  BY <1>1, <1>8, <1>9, <1>10, <1>11, <1>12, <1>13, RequestStep

LEMMA FailStep ==
  ASSUME IInv, NEW r \in Request, Fail(r)
  PROVE  IInv'
<1>1. /\ TypeOK /\ RequestOK(r) /\ pc[r] \in {"find", "touch", "create"}
      /\ pc' = [pc EXCEPT ![r] = "failed"] /\ req' = [req EXCEPT ![r] = req[r]]
      /\ req[r] \in Locals
      /\ UNCHANGED <<clock, rows, expiresAt, created, cookie, cleanup>>
  BY DEF Fail, Goto, IInv, TypeOK
<1>2. pc'[r] = "failed" /\ req'[r] = req[r]
  BY <1>1, Chosen
<1>3. RequestOK(r)'
  BY <1>1, <1>2 DEF RequestOK, InTime, HandlerOK, HonouredOK
<1> QED
  BY <1>1, <1>3, QuietStep DEF Place

(* The cookie that comes with an answer is good as long as the row of the  *)
(* session it names, up to twice MaxDuration.                              *)
LEMMA AnswerStep ==
  ASSUME IInv, NEW r \in Request, Answer(r)
  PROVE  IInv'
<1>1. /\ TypeOK /\ RowsOK /\ CookieOK /\ RequestOK(r)
      /\ pc[r] \in {"handle", "refused", "failed"}
      /\ pc' = [pc EXCEPT ![r] = "idle"] /\ req' = [req EXCEPT ![r] = NoLocals]
      /\ UNCHANGED <<clock, rows, expiresAt, created, cleanup>>
      /\ \/ /\ pc[r] = "handle"
            /\ cookie' = [key |-> req[r].id, until |-> clock + SessionTTL]
         \/ cookie' = NoCookie
         \/ cookie' = cookie
  BY DEF Answer, Goto, IInv
<1>2. CookieOK' /\ cookie' \in [key : {NoKey} \cup SessionId, until : Time]
  <2>1. CASE pc[r] = "handle" /\ cookie' = [key |-> req[r].id, until |-> clock + SessionTTL]
    <3>1. /\ req[r].id \in rows
          /\ req[r].sentAt + SessionTTL <= expiresAt[req[r].id] + MaxDuration
          /\ clock <= req[r].sentAt + MaxDuration
      BY <1>1, <2>1 DEF RequestOK, HandlerOK, InTime
    <3>2. clock + SessionTTL <= expiresAt[req[r].id] + 2 * MaxDuration
      BY <1>1, <3>1, Constants, Numbers
    <3>3. clock + SessionTTL \in Time
      BY <1>1, Constants, Numbers DEF Time
    <3>4. cookie'.key = req[r].id /\ cookie'.until = clock + SessionTTL
      BY <2>1
    <3>5. CookieOK'
      BY <1>1, <3>1, <3>2, <3>4, Constants, Numbers DEF CookieOK
    <3> QED
      BY <1>1, <2>1, <3>3, <3>5, Numbers
  <2>2. CASE cookie' = NoCookie
    <3>1. 0 \in Time /\ 0 <= clock + SessionTTL
      BY <1>1, Constants, Numbers DEF Time
    <3> QED
      BY <1>1, <2>2, <3>1 DEF CookieOK, NoCookie
  <2>3. CASE cookie' = cookie
    BY <1>1, <2>3 DEF CookieOK, TypeOK
  <2> QED
    BY <1>1, <2>1, <2>2, <2>3
<1>3. pc'[r] = "idle" /\ req'[r] = NoLocals
  BY <1>1, Chosen
<1>4. RequestOK(r)'
  BY <1>3, IdleRequest
<1>5. TypeOK'
  <2>1. req' \in [Request -> Locals] /\ pc' \in [Request -> Place]
    BY <1>1, IdleRequest DEF TypeOK, Place
  <2> QED
    BY <1>1, <1>2, <2>1 DEF TypeOK
<1>6. Kept /\ RowsOK'
  BY <1>1 DEF Kept, RowsOK
<1>7. \A s \in Request : s # r => pc'[s] = pc[s] /\ req'[s] = req[s]
  BY <1>1 DEF TypeOK
<1> QED
  BY <1>1, <1>2, <1>4, <1>5, <1>6, <1>7, RequestStep

LEMMA LoseAnswerStep ==
  ASSUME IInv, NEW r \in Request, LoseAnswer(r)
  PROVE  IInv'
<1>1. /\ TypeOK
      /\ pc' = [pc EXCEPT ![r] = "idle"] /\ req' = [req EXCEPT ![r] = NoLocals]
      /\ UNCHANGED <<clock, rows, expiresAt, created, cookie, cleanup>>
  BY DEF LoseAnswer, Goto, IInv
<1>2. RequestOK(r)'
  BY <1>1, Chosen, IdleRequest
<1> QED
  BY <1>1, <1>2, IdleRequest, QuietStep DEF Place

---------------------------------------------------------------------------
(* A step of the cleanup: the requests and the cookie are left alone.      *)
LEMMA CleanupStep ==
  ASSUME IInv, UNCHANGED <<clock, created, cookie, pc, req>>, TypeOK', RowsOK', Kept
  PROVE  IInv'
<1>1. CookieOK'
  BY SameCookie
<1>2. \A r \in Request : RequestOK(r)'
  BY OtherRequest
<1> QED
  BY <1>1, <1>2 DEF IInv

(* Only what expired before the cleanup began is deleted.                  *)
LEMMA DeleteExpiredStep ==
  ASSUME IInv, DeleteExpired
  PROVE  IInv'
<1>1. /\ TypeOK /\ RowsOK /\ cleanup # Idle /\ cleanup' = Idle
      /\ rows' = {id \in rows : ~(expiresAt[id] < cleanup)}
      /\ expiresAt' = [id \in SessionId |-> IF id \in rows' THEN expiresAt[id] ELSE 0]
      /\ UNCHANGED <<clock, created, cookie, pc, req>>
  BY DEF DeleteExpired, Deletable, IInv
<1>2. cleanup <= clock /\ cleanup \in Nat /\ clock \in Nat
  BY <1>1, Numbers DEF RowsOK
<1>3. 0 \in Time /\ Idle \in 0..Idle
  BY Constants DEF Time, Idle
<1>4. TypeOK'
  <2>1. expiresAt' \in [SessionId -> Time]
    BY <1>1, <1>3 DEF TypeOK
  <2> QED
    BY <1>1, <1>3, <2>1 DEF TypeOK
<1>5. Kept
  <2> SUFFICES ASSUME NEW id \in rows, clock <= expiresAt[id]
               PROVE  id \in rows' /\ expiresAt'[id] = expiresAt[id]
    BY DEF Kept
  <2>1. id \in SessionId /\ expiresAt[id] \in Nat
    BY <1>1, Numbers
  <2>2. ~(expiresAt[id] < cleanup)
    BY <1>2, <2>1
  <2> QED
    BY <1>1, <2>1, <2>2
<1>6. RowsOK'
  <2>1. \A id \in SessionId : expiresAt'[id] <= clock + SessionTTL
    BY <1>1, <1>2, Constants, Numbers DEF RowsOK
  <2> QED
    BY <1>1, <2>1 DEF RowsOK
<1> QED
  BY <1>1, <1>4, <1>5, <1>6, CleanupStep

LEMMA OtherCleanupStep ==
  ASSUME IInv, StartCleanup \/ AbortCleanup
  PROVE  IInv'
<1>1. /\ TypeOK /\ RowsOK /\ (cleanup' = clock \/ cleanup' = Idle)
      /\ UNCHANGED <<clock, rows, expiresAt, created, cookie, pc, req>>
  BY DEF StartCleanup, AbortCleanup, IInv
<1>2. cleanup' \in 0..Idle /\ (cleanup' = Idle \/ cleanup' <= clock)
  BY <1>1, Constants, Numbers DEF Idle
<1>3. TypeOK' /\ RowsOK' /\ Kept
  BY <1>1, <1>2 DEF TypeOK, RowsOK, Kept
<1> QED
  BY <1>1, <1>3, CleanupStep

(* No request is kept waiting beyond its MaxDuration.                      *)
LEMMA TickStep ==
  ASSUME IInv, Tick
  PROVE  IInv'
<1>1. /\ TypeOK /\ RowsOK /\ CookieOK /\ clock' = clock + 1 /\ clock < MaxTime
      /\ \A r \in Request : RequestOK(r)
      /\ \A r \in Request : pc[r] # "idle" => clock < req[r].sentAt + MaxDuration
      /\ UNCHANGED <<rows, expiresAt, created, cookie, pc, req, cleanup>>
  BY DEF Tick, IInv
<1>2. TypeOK'
  <2>1. clock' \in 0..MaxTime
    BY <1>1, Constants, Numbers
  <2> QED
    BY <1>1, <2>1 DEF TypeOK
<1>3. RowsOK'
  <2>1. \A id \in SessionId : expiresAt[id] <= clock' + SessionTTL
    BY <1>1, Constants, Numbers DEF RowsOK
  <2>2. cleanup = Idle \/ cleanup <= clock'
    BY <1>1, Numbers DEF RowsOK
  <2> QED
    BY <1>1, <2>1, <2>2 DEF RowsOK
<1>4. CookieOK'
  <2>1. cookie.until <= clock' + SessionTTL
        /\ (clock' + 2 * MaxDuration < cookie.until => clock + 2 * MaxDuration < cookie.until)
    BY <1>1, Constants, Numbers DEF CookieOK
  <2> QED
    BY <1>1, <2>1 DEF CookieOK
<1>5. ASSUME NEW r \in Request PROVE RequestOK(r)'
  <2>1. InTime(r)'
    BY <1>1, Constants, Numbers DEF RequestOK, InTime
  <2>2. HandlerOK(r)' /\ HonouredOK(r)'
    BY <1>1 DEF RequestOK, HandlerOK, HonouredOK
  <2> QED
    BY <2>1, <2>2 DEF RequestOK
<1> QED
  BY <1>2, <1>3, <1>4, <1>5 DEF IInv

---------------------------------------------------------------------------
LEMMA NextStep == IInv /\ [Next]_vars => IInv'
<1> SUFFICES ASSUME IInv, [Next]_vars PROVE IInv'
  OBVIOUS
<1>1. ASSUME NEW r \in Request, NEW route \in {"actor", "session"}, Send(r, route) PROVE IInv'
  BY <1>1, SendStep
<1>2. ASSUME NEW r \in Request, OptionalAuth(r) PROVE IInv'
  BY <1>2, OptionalAuthStep
<1>3. ASSUME NEW r \in Request, FindSession(r) PROVE IInv'
  BY <1>3, FindSessionStep
<1>4. ASSUME NEW r \in Request, CheckSession(r) PROVE IInv'
  BY <1>4, CheckSessionStep
<1>5. ASSUME NEW r \in Request, Touch(r) PROVE IInv'
  BY <1>5, TouchStep
<1>6. ASSUME NEW r \in Request, Create(r) PROVE IInv'
  BY <1>6, CreateStep
<1>7. ASSUME NEW r \in Request, Fail(r) PROVE IInv'
  BY <1>7, FailStep
<1>8. ASSUME NEW r \in Request, Answer(r) PROVE IInv'
  BY <1>8, AnswerStep
<1>9. ASSUME NEW r \in Request, LoseAnswer(r) PROVE IInv'
  BY <1>9, LoseAnswerStep
<1>10. CASE DeleteExpired
  BY <1>10, DeleteExpiredStep
<1>11. CASE StartCleanup \/ AbortCleanup
  BY <1>11, OtherCleanupStep
<1>12. CASE Tick
  BY <1>12, TickStep
<1>13. CASE UNCHANGED vars
  <2>1. /\ TypeOK /\ RowsOK /\ CookieOK /\ \A r \in Request : RequestOK(r)
        /\ UNCHANGED <<clock, rows, expiresAt, created, cookie, pc, req, cleanup>>
    BY <1>13 DEF IInv, vars
  <2>2. TypeOK' /\ RowsOK' /\ CookieOK'
    BY <2>1 DEF TypeOK, RowsOK, CookieOK
  <2>3. \A r \in Request : RequestOK(r)'
    BY <2>1 DEF RequestOK, InTime, HandlerOK, HonouredOK
  <2> QED
    BY <2>2, <2>3 DEF IInv
<1> QED
  BY <1>1, <1>2, <1>3, <1>4, <1>5, <1>6, <1>7, <1>8, <1>9, <1>10, <1>11, <1>12, <1>13 DEF Next

(* The inductive invariant: how old readings of the clock are, how long    *)
(* rows in use still live, and what the browser's cookie names.            *)
THEOREM Invariance == Spec => []IInv
<1> QED
  BY InitStep, NextStep, PTL DEF Spec

(* The table, the cookie and the requests keep their types.                *)
THEOREM TypeCorrect == Spec => []TypeOK
<1>1. IInv => TypeOK
  BY DEF IInv
<1> QED
  BY <1>1, Invariance, PTL

(* No handler works for a guest whose session is gone: what it inserts has *)
(* its foreign key, although the touch and the cleanup each go by a clock  *)
(* reading of their own and an older request may touch last.               *)
THEOREM HandlersHaveSessions == Spec => []HandledRequestHasSession
<1>1. IInv => HandledRequestHasSession
  BY DEF IInv, RequestOK, HandlerOK, HandledRequestHasSession
<1> QED
  BY <1>1, Invariance, PTL

(* A browser does not hold the key of a session that is gone, except in    *)
(* the last two MaxDurations of the cookie.                                *)
THEOREM CookiesAreLive == Spec => []CookieIsLive
<1>1. ASSUME IInv PROVE CookieIsLive
  <2> SUFFICES ASSUME cookie.key # NoKey, clock + 2 * MaxDuration < cookie.until
               PROVE  cookie.key \in rows /\ clock < expiresAt[cookie.key]
    BY DEF CookieIsLive
  <2>1. cookie.key \in rows /\ cookie.until <= expiresAt[cookie.key] + 2 * MaxDuration
    BY <1>1 DEF IInv, CookieOK
  <2>2. expiresAt[cookie.key] \in Nat /\ clock \in Nat /\ cookie.until \in Nat
    BY <1>1, <2>1, Numbers DEF IInv
  <2> QED
    BY <2>1, <2>2, Constants
<1> QED
  BY <1>1, Invariance, PTL

(* A guest whose cookie has more than three MaxDurations left is served as *)
(* the same guest, whatever the cleanup and other requests do meanwhile.   *)
THEOREM CookiesAreHonoured == Spec => []CookieHonoured
<1>1. IInv => CookieHonoured
  BY DEF IInv, RequestOK, HonouredOK, CookieHonoured
<1> QED
  BY <1>1, Invariance, PTL
============================================================================
