---------------------------- MODULE ModalProofs ----------------------------
(***************************************************************************)
(* Proofs about Modal, for any limits and cooldown and any number of       *)
(* requests, targets and pages.                                            *)
(***************************************************************************)
EXTENDS Modal, FiniteSetTheorems, TLAPS

Showing == {"page", "session", "select", "shown", "closed", "create"}

(* The displays that limit the one a Show is about to make.                *)
Before(r) == {e \in req[r].known : displays[e].shownAt + Cooldown >= req[r].now}
BeforeOnPage(r) == {e \in Before(r) : displays[e].page = req[r].page}

(* A Show has no display yet and knows displays that exist; a Click and a  *)
(* Close are about one that exists.                                        *)
PlaceOK(r) ==
  /\ req[r].phase \in Showing \cup {"unsent"} => r \notin DOMAIN displays
  /\ req[r].phase \in Showing =>
       req[r].kind = "show" /\ req[r].page \in Page /\ req[r].known \subseteq DOMAIN displays
  /\ req[r].phase \in {"shown", "closed", "create", "mark", "flag"} => req[r].target \in Target
  /\ req[r].phase = "mark" => req[r].kind \in {"click", "close"}
  /\ req[r].phase = "flag" => req[r].kind # "click"
  /\ req[r].phase \in {"mark", "flag", "event"} /\ req[r].kind # "show" =>
       req[r].display \in DOMAIN displays

(* Past its counts a Show has room.                                        *)
LimitOK(r) ==
  /\ req[r].phase \in Showing \ {"page"} => Cardinality(BeforeOnPage(r)) < MaxModalPerPage
  /\ req[r].phase \in Showing \ {"page", "session"} =>
       Cardinality(Before(r)) < MaxModalPerSession

(* What suppressed a target when the Show was sent is a key still, or over *)
(* once the key was looked at.                                             *)
QuietOK(r) ==
  LET until == req[r].until
      t == req[r].target
  IN  /\ req[r].phase \in Showing =>
           \A u \in Target : until[u] <= keys["shown"][u] \/ until[u] <= keys["closed"][u]
      /\ req[r].phase = "closed" => until[t] <= clock \/ until[t] <= keys["closed"][t]
      /\ req[r].phase = "create" => until[t] <= clock

(* A click (or close) that was marked and whose event is still to come.    *)
Pending(r, kind) ==
  /\ req[r].kind = kind
  /\ req[r].phase \in (IF kind = "click" THEN {"event"} ELSE {"flag", "event"})

PendingOK(r) ==
  LET d == req[r].display
  IN  /\ Pending(r, "click") => displays[d].clicked /\ displays[d].clickEvents = 0
      /\ Pending(r, "close") => displays[d].closed /\ displays[d].closeEvents = 0

(* One request marks a display.                                            *)
Unique ==
  \A r, s \in Request, kind \in {"click", "close"} :
    Pending(r, kind) /\ Pending(s, kind) /\ req[r].display = req[s].display => r = s

KeysOK ==
  /\ \A kind \in KeyKind, t \in Target : keys[kind][t] <= clock + Cooldown
  /\ \A t \in Target : quiet[t] <= keys["shown"][t] \/ quiet[t] <= keys["closed"][t]

DisplaysOK ==
  \A d \in DOMAIN displays :
    /\ displays[d].known \subseteq DOMAIN displays
    /\ ~displays[d].clicked => displays[d].clickEvents = 0
    /\ ~displays[d].closed => displays[d].closeEvents = 0

RequestOK(r) == PlaceOK(r) /\ LimitOK(r) /\ QuietOK(r) /\ PendingOK(r)

IInv ==
  /\ TypeOK
  /\ \A r \in Request : RequestOK(r)
  /\ Unique /\ KeysOK /\ DisplaysOK
  /\ LimitsHold /\ SuppressionHolds /\ CountedOnce

---------------------------------------------------------------------------
RequestType ==
  [kind : {"show", "click", "close"}, phase : Phase, now : Time, page : Page \cup {None},
   target : Target \cup {None}, todo : SUBSET Target, selected : BOOLEAN,
   display : Request \cup {None}, known : SUBSET Request, until : [Target -> Nat]]

LEMMA IdleType == Idle \in RequestType
BY ModalAssumption DEF Idle, RequestType, Phase, Time

(* A set of displays is finite, and so is a part of it, which has no more. *)
LEMMA Fewer ==
  ASSUME NEW S \in SUBSET Request, NEW T \in SUBSET S, NEW n \in Nat, Cardinality(S) < n
  PROVE  Cardinality(T) < n
<1>1. IsFiniteSet(S) /\ IsFiniteSet(T)
  BY ModalAssumption, FS_Subset
<1>2. Cardinality(T) <= Cardinality(S) /\ Cardinality(T) \in Nat /\ Cardinality(S) \in Nat
  BY <1>1, FS_Subset, FS_CardinalityType
<1> QED
  BY <1>2

(* A step that changes one request and nothing else.                       *)
LEMMA OneRequest ==
  ASSUME IInv, NEW r \in Request, NEW next \in RequestType,
         req' = [req EXCEPT ![r] = next], UNCHANGED <<clock, displays, keys, quiet>>,
         RequestOK(r)',
         next.kind # "show" => next.phase \notin {"flag", "event"}
  PROVE  IInv'
<1> USE DEF IInv
<1>1. req \in [Request -> RequestType]
  BY DEF TypeOK, RequestType
<1>2. TypeOK'
  BY <1>1 DEF TypeOK, RequestType
<1>3. ASSUME NEW s \in Request PROVE RequestOK(s)'
  <2>1. CASE s = r
    BY <2>1
  <2>2. CASE s # r
    <3>1. req'[s] = req[s]
      BY <1>1, <2>2
    <3>0. PlaceOK(s) /\ LimitOK(s) /\ QuietOK(s) /\ PendingOK(s)
      BY DEF RequestOK
    <3>2. PlaceOK(s)' /\ QuietOK(s)' /\ PendingOK(s)'
      <4>1. PlaceOK(s)'
        BY <3>0, <3>1 DEF PlaceOK
      <4>2. QuietOK(s)'
        BY <3>0, <3>1 DEF QuietOK
      <4>3. PendingOK(s)'
        BY <3>0, <3>1 DEF PendingOK, Pending
      <4> QED
        BY <4>1, <4>2, <4>3
    <3>3. Before(s)' = Before(s) /\ BeforeOnPage(s)' = BeforeOnPage(s)
      BY <3>1 DEF Before, BeforeOnPage
    <3>4. LimitOK(s)'
      BY <3>0, <3>1, <3>3 DEF LimitOK
    <3> QED
      BY <3>2, <3>4 DEF RequestOK
  <2> QED
    BY <2>1, <2>2
<1>4. Unique'
  <2>1. \A s \in Request : s # r => req'[s] = req[s]
    BY <1>1
  <2>2. req'[r] = next
    BY <1>1
  <2>3. \A kind \in {"click", "close"} : ~Pending(r, kind)'
    BY <2>2 DEF Pending
  <2>4. \A s \in Request, kind \in {"click", "close"} :
          Pending(s, kind)' => Pending(s, kind) /\ req'[s].display = req[s].display
    BY <2>1, <2>3 DEF Pending
  <2> QED
    BY <2>4 DEF Unique
<1>5. KeysOK' /\ DisplaysOK' /\ LimitsHold' /\ SuppressionHolds' /\ CountedOnce'
  BY DEF KeysOK, DisplaysOK, LimitsHold, SuppressionHolds, CountedOnce
<1> QED
  BY <1>2, <1>3, <1>4, <1>5

(* A handler that ends, or that goes on to another place.                  *)
LEMMA Finished ==
  ASSUME IInv, NEW r \in Request, Finish(r), UNCHANGED <<clock, displays, keys, quiet>>
  PROVE  IInv'
<1> DEFINE next == [Idle EXCEPT !.phase = "done"]
<1>1. next \in RequestType /\ next.kind = "show" /\ next.phase = "done"
  <2>1. next \in RequestType /\ next.phase = "done" /\ next.kind = Idle.kind
    BY IdleType DEF RequestType, Phase
  <2> QED
    BY <2>1 DEF Idle
<1>2. req' = [req EXCEPT ![r] = next] /\ req'[r] = next
  BY DEF Finish, IInv, TypeOK
<1> HIDE DEF next
<1>3. RequestOK(r)'
  BY <1>1, <1>2 DEF RequestOK, PlaceOK, LimitOK, QuietOK, PendingOK, Pending, Showing
<1> QED
  BY <1>1, <1>2, <1>3, OneRequest

LEMMA Going ==
  ASSUME IInv, NEW r \in Request, NEW next \in RequestType,
         req' = [req EXCEPT ![r] = next], UNCHANGED <<clock, displays, keys, quiet>>,
         req[r].phase \in Showing, next.phase \in Showing \ {"page", "session"},
         next.kind = req[r].kind, next.page = req[r].page, next.now = req[r].now,
         next.known = req[r].known, next.until = req[r].until,
         next.phase \in {"shown", "closed", "create"} => next.target \in Target,
         LimitOK(r)', QuietOK(r)'
  PROVE  IInv'
<1>1. req'[r] = next
  BY DEF IInv, TypeOK
<1>2. PlaceOK(r)'
  BY <1>1 DEF IInv, RequestOK, PlaceOK, Showing
<1>3. next.kind = "show"
  BY DEF IInv, RequestOK, PlaceOK
<1>4. PendingOK(r)'
  BY <1>1, <1>3 DEF PendingOK, Pending
<1> QED
  BY <1>2, <1>3, <1>4, OneRequest DEF RequestOK

(* A step of another request or of the clock: flags live longer, displays  *)
(* stay, and one that is added is not s's.                                 *)
LEMMA OtherRequest ==
  ASSUME IInv, NEW s \in Request, req'[s] = req[s],
         TypeOK', clock <= clock',
         \A kind \in KeyKind, t \in Target : keys[kind][t] <= keys'[kind][t],
         DOMAIN displays \subseteq DOMAIN displays',
         s \notin DOMAIN displays => s \notin DOMAIN displays',
         \A e \in DOMAIN displays : /\ displays'[e].shownAt = displays[e].shownAt
                                   /\ displays'[e].page = displays[e].page
  PROVE  PlaceOK(s)' /\ LimitOK(s)' /\ QuietOK(s)'
<1>1. PlaceOK(s) /\ LimitOK(s) /\ QuietOK(s) /\ TypeOK
  BY DEF IInv, RequestOK
<1>2. PlaceOK(s)'
  BY <1>1 DEF PlaceOK
<1>3. LimitOK(s)'
  <2>1. req[s].phase \in Showing => Before(s)' = Before(s)
    BY <1>1 DEF PlaceOK, Before
  <2>2. req[s].phase \in Showing => BeforeOnPage(s)' = BeforeOnPage(s)
    BY <1>1, <2>1 DEF PlaceOK, Before, BeforeOnPage
  <2> QED
    BY <1>1, <2>1, <2>2 DEF LimitOK
<1>4. QuietOK(s)'
  <2>1. /\ clock \in Nat /\ clock' \in Nat
        /\ \A kind \in KeyKind, t \in Target : keys[kind][t] \in Nat /\ keys'[kind][t] \in Nat
    BY <1>1, ModalAssumption DEF TypeOK, Time
  <2>2. req[s].until \in [Target -> Nat]
    BY <1>1 DEF TypeOK
  <2>3. req[s].phase \in {"closed", "create"} => req[s].target \in Target
    BY <1>1 DEF PlaceOK
  <2> QED
    BY <1>1, <2>1, <2>2, <2>3 DEF QuietOK, KeyKind
<1> QED
  BY <1>2, <1>3, <1>4

LEMMA InitIInv == Init => IInv
<1> SUFFICES ASSUME Init PROVE IInv
  OBVIOUS
<1>1. Idle.phase = "unsent" /\ Idle.kind = "show"
  BY DEF Idle
<1>2. DOMAIN displays = {}
  BY DEF Init
<1>3. TypeOK
  BY <1>2, ModalAssumption, IdleType DEF Init, TypeOK, Time, KeyKind, RequestType
<1>4. \A r \in Request : req[r].phase = "unsent" /\ req[r].kind = "show"
  BY <1>1 DEF Init
<1>5. \A r \in Request : RequestOK(r)
  BY <1>2, <1>4 DEF RequestOK, PlaceOK, LimitOK, QuietOK, PendingOK, Pending, Showing
<1>6. Unique
  BY <1>4 DEF Unique, Pending
<1>7. KeysOK
  BY ModalAssumption DEF Init, KeysOK, KeyKind
<1>8. DisplaysOK /\ LimitsHold /\ SuppressionHolds /\ CountedOnce
  BY <1>2 DEF DisplaysOK, LimitsHold, SuppressionHolds, CountedOnce
<1> QED
  BY <1>3, <1>5, <1>6, <1>7, <1>8 DEF IInv

---------------------------------------------------------------------------
(* The steps of Show *)

LEMMA SendShowStep ==
  ASSUME IInv, NEW r \in Request, NEW page \in Page, NEW candidate \in Target \cup {None},
         SendShow(r, page, candidate)
  PROVE  IInv'
<1> DEFINE next == [Idle EXCEPT !.phase = "page", !.now = clock, !.page = page,
                                !.target = candidate, !.known = DOMAIN displays,
                                !.until = quiet]
<1>1. /\ req[r].phase = "unsent" /\ req' = [req EXCEPT ![r] = next]
      /\ UNCHANGED <<clock, displays, keys, quiet>>
  BY DEF SendShow
<1>2. clock \in Time /\ DOMAIN displays \in SUBSET Request /\ quiet \in [Target -> Nat]
      /\ req \in [Request -> RequestType]
  BY DEF IInv, TypeOK, RequestType
<1>3. next \in RequestType
  BY <1>2, IdleType DEF RequestType, Phase
<1>4. /\ next.phase = "page" /\ next.kind = "show" /\ next.page = page
      /\ next.known = DOMAIN displays /\ next.until = quiet
  BY DEF Idle
<1> HIDE DEF next
<1>5. req'[r] = next
  BY <1>1, <1>2
<1>6. r \notin DOMAIN displays
  BY <1>1 DEF IInv, RequestOK, PlaceOK
<1>7. PlaceOK(r)'
  BY <1>1, <1>4, <1>5, <1>6 DEF PlaceOK
<1>8. LimitOK(r)' /\ PendingOK(r)'
  BY <1>4, <1>5 DEF LimitOK, PendingOK, Pending, Showing
<1>9. QuietOK(r)'
  BY <1>1, <1>4, <1>5 DEF IInv, KeysOK, QuietOK
<1> QED
  BY <1>1, <1>3, <1>4, <1>7, <1>8, <1>9, OneRequest DEF RequestOK

(* A Show that goes on: nothing that its limits and flags depend on moves. *)
LEMMA SameShow ==
  ASSUME IInv, NEW r \in Request, UNCHANGED <<clock, displays, keys, quiet>>,
         req'[r].page = req[r].page, req'[r].now = req[r].now, req'[r].known = req[r].known
  PROVE  Before(r)' = Before(r) /\ BeforeOnPage(r)' = BeforeOnPage(r)
BY DEF Before, BeforeOnPage

(* What was displayed within the cooldown is what the counts look at.      *)
LEMMA RecentCoversBefore ==
  ASSUME IInv, NEW r \in Request, req[r].phase \in Showing
  PROVE  /\ Before(r) \subseteq Recent(req[r].now)
         /\ BeforeOnPage(r) \subseteq {d \in Recent(req[r].now) : displays[d].page = req[r].page}
         /\ Recent(req[r].now) \subseteq Request
<1>1. req[r].known \subseteq DOMAIN displays /\ req[r].now \in Nat
      /\ DOMAIN displays \subseteq Request
  BY ModalAssumption DEF IInv, RequestOK, PlaceOK, TypeOK, Time
<1>2. \A e \in DOMAIN displays : displays[e].shownAt \in Nat
  BY ModalAssumption DEF IInv, TypeOK, Row, Time
<1>3. ASSUME NEW e \in Before(r) PROVE e \in Recent(req[r].now)
  BY <1>1, <1>2, ModalAssumption DEF Before, Recent, Since
<1> QED
  BY <1>1, <1>3 DEF Recent, BeforeOnPage

LEMMA CountShownOnPageStep ==
  ASSUME IInv, NEW r \in Request, CountShownOnPage(r)
  PROVE  IInv'
<1> DEFINE counted == {d \in Recent(req[r].now) : displays[d].page = req[r].page}
           next == [req[r] EXCEPT !.phase = "session"]
<1>1. req[r].phase = "page" /\ UNCHANGED <<clock, displays, keys, quiet>>
  BY DEF CountShownOnPage
<1>2. CASE Cardinality(counted) >= MaxModalPerPage
  BY <1>1, <1>2, Finished DEF CountShownOnPage
<1>3. CASE ~(Cardinality(counted) >= MaxModalPerPage)
  <2>1. req' = [req EXCEPT ![r] = next] /\ req \in [Request -> RequestType]
    BY <1>3 DEF CountShownOnPage, Go, IInv, TypeOK, RequestType
  <2>2. next \in RequestType /\ req'[r] = next
    BY <2>1 DEF RequestType, Phase
  <2>3. /\ next.phase = "session" /\ next.kind = req[r].kind /\ next.page = req[r].page
        /\ next.now = req[r].now /\ next.known = req[r].known /\ next.until = req[r].until
    BY <2>1 DEF RequestType
  <2> HIDE DEF next
  <2>4. PlaceOK(r)' /\ QuietOK(r)'
    BY <1>1, <2>2, <2>3 DEF IInv, RequestOK, PlaceOK, QuietOK, Showing
  <2>5. Cardinality(BeforeOnPage(r)) < MaxModalPerPage
    <3>1. counted \in SUBSET Request /\ BeforeOnPage(r) \in SUBSET counted
      BY <1>1, RecentCoversBefore DEF Showing
    <3>2. Cardinality(counted) \in Nat
      BY <3>1, ModalAssumption, FS_Subset, FS_CardinalityType
    <3> HIDE DEF counted
    <3> QED
      BY <1>3, <3>1, <3>2, ModalAssumption, Fewer
  <2>6. LimitOK(r)'
    BY <1>1, <2>2, <2>3, <2>5, SameShow DEF LimitOK
  <2>7. next.kind = "show"
    BY <1>1, <2>3 DEF IInv, RequestOK, PlaceOK, Showing
  <2>8. PendingOK(r)'
    BY <2>2, <2>7 DEF PendingOK, Pending
  <2> QED
    BY <1>1, <2>1, <2>2, <2>4, <2>6, <2>7, <2>8, OneRequest DEF RequestOK
<1> QED
  BY <1>2, <1>3

LEMMA CountShownInSessionStep ==
  ASSUME IInv, NEW r \in Request, CountShownInSession(r)
  PROVE  IInv'
<1> DEFINE counted == Recent(req[r].now)
           phase == IF req[r].target = None THEN "select" ELSE "shown"
           next == [req[r] EXCEPT !.phase = phase]
<1>1. req[r].phase = "session" /\ UNCHANGED <<clock, displays, keys, quiet>>
  BY DEF CountShownInSession
<1>2. CASE Cardinality(counted) >= MaxModalPerSession
  BY <1>1, <1>2, Finished DEF CountShownInSession
<1>3. CASE ~(Cardinality(counted) >= MaxModalPerSession)
  <2>1. req' = [req EXCEPT ![r] = next] /\ req \in [Request -> RequestType]
    BY <1>3 DEF CountShownInSession, Go, IInv, TypeOK, RequestType
  <2>2. next \in RequestType /\ req'[r] = next
    BY <2>1 DEF RequestType, Phase
  <2>3. /\ next.phase \in {"select", "shown"} /\ next.kind = req[r].kind
        /\ next.page = req[r].page /\ next.target = req[r].target
        /\ next.now = req[r].now /\ next.known = req[r].known /\ next.until = req[r].until
        /\ next.phase = "shown" => next.target \in Target
    BY <2>1 DEF RequestType
  <2> HIDE DEF next
  <2>4. QuietOK(r)'
    BY <1>1, <2>2, <2>3 DEF IInv, RequestOK, QuietOK, Showing
  <2>5. Cardinality(Before(r)) < MaxModalPerSession
    <3>1. counted \in SUBSET Request /\ Before(r) \in SUBSET counted
      BY <1>1, RecentCoversBefore DEF Showing
    <3>2. Cardinality(counted) \in Nat
      BY <3>1, ModalAssumption, FS_Subset, FS_CardinalityType
    <3> HIDE DEF counted
    <3> QED
      BY <1>3, <3>1, <3>2, ModalAssumption, Fewer
  <2>6. LimitOK(r)'
    BY <1>1, <2>2, <2>3, <2>5, SameShow DEF LimitOK, IInv, RequestOK, Showing
  <2> QED
    BY <1>1, <2>1, <2>2, <2>3, <2>4, <2>6, Going DEF Showing
<1> QED
  BY <1>2, <1>3

(* A candidate that is passed over for the next one, or for none.          *)
LEMMA RejectStep ==
  ASSUME IInv, NEW r \in Request, req[r].phase \in {"shown", "closed"}, Reject(r),
         UNCHANGED <<clock, displays, keys, quiet>>
  PROVE  IInv'
<1>1. CASE Finish(r)
  BY <1>1, Finished
<1>2. CASE \E t \in req[r].todo :
             req' = [req EXCEPT ![r].phase = "shown", ![r].target = t, ![r].todo = @ \ {t}]
  <2>1. PICK t \in req[r].todo :
          req' = [req EXCEPT ![r].phase = "shown", ![r].target = t, ![r].todo = @ \ {t}]
    BY <1>2
  <2> DEFINE next == [req[r] EXCEPT !.phase = "shown", !.target = t, !.todo = @ \ {t}]
  <2>2. req \in [Request -> RequestType]
    BY DEF IInv, TypeOK, RequestType
  <2>3. t \in Target /\ req' = [req EXCEPT ![r] = next]
    BY <2>1, <2>2 DEF RequestType
  <2>4. next \in RequestType /\ req'[r] = next
    BY <2>2, <2>3, ZenonT(60) DEF RequestType, Phase
  <2>5. /\ next.phase = "shown" /\ next.target = t /\ next.kind = req[r].kind
        /\ next.page = req[r].page /\ next.now = req[r].now
        /\ next.known = req[r].known /\ next.until = req[r].until
    BY <2>2 DEF RequestType
  <2> HIDE DEF next
  <2>6. QuietOK(r)' /\ LimitOK(r)'
    BY <2>4, <2>5, SameShow DEF IInv, RequestOK, QuietOK, LimitOK, Showing
  <2> QED
    BY <2>3, <2>4, <2>5, <2>6, Going DEF Showing
<1> QED
  BY <1>1, <1>2 DEF Reject

LEMMA ChosenTypes ==
  ASSUME NEW q \in RequestType, NEW phase \in Phase, NEW todo \in SUBSET Target,
         NEW target \in Target, NEW selected \in BOOLEAN
  PROVE  /\ [q EXCEPT !.phase = phase, !.target = target, !.todo = todo,
                      !.selected = selected] \in RequestType
         /\ [q EXCEPT !.phase = phase, !.selected = selected, !.todo = todo] \in RequestType
BY DEF RequestType

LEMMA SelectCandidateStep ==
  ASSUME IInv, NEW r \in Request, SelectCandidate(r)
  PROVE  IInv'
<1>1. req[r].phase = "select" /\ UNCHANGED <<clock, displays, keys, quiet>>
  BY DEF SelectCandidate
<1>2. CASE Finish(r)
  BY <1>1, <1>2, Finished
<1>3. ASSUME NEW list \in SUBSET Target, NEW t \in list,
             req' = [req EXCEPT ![r].phase = "shown", ![r].target = t,
                                ![r].todo = list \ {t}, ![r].selected = TRUE]
      PROVE  IInv'
  <2> DEFINE next == [req[r] EXCEPT !.phase = "shown", !.target = t, !.todo = list \ {t},
                                    !.selected = TRUE]
  <2>1. req \in [Request -> RequestType]
    BY DEF IInv, TypeOK, RequestType
  <2>2. t \in Target /\ req' = [req EXCEPT ![r] = next]
    BY <1>3, <2>1 DEF RequestType
  <2>3. next \in RequestType /\ req'[r] = next
    <3>1. "shown" \in Phase /\ TRUE \in BOOLEAN /\ list \ {t} \in SUBSET Target
      BY DEF Phase
    <3> QED
      BY <2>1, <2>2, <3>1, ChosenTypes
  <2>4. /\ next.phase = "shown" /\ next.target = t /\ next.kind = req[r].kind
        /\ next.page = req[r].page /\ next.now = req[r].now
        /\ next.known = req[r].known /\ next.until = req[r].until
    BY <2>1 DEF RequestType
  <2> HIDE DEF next
  <2>5. QuietOK(r)' /\ LimitOK(r)'
    BY <1>1, <2>3, <2>4, SameShow DEF IInv, RequestOK, QuietOK, LimitOK, Showing
  <2> QED
    BY <1>1, <2>2, <2>3, <2>4, <2>5, Going DEF Showing
<1> QED
  BY <1>2, <1>3 DEF SelectCandidate

(* A flag that was looked at and is not set is over, whatever it was set   *)
(* to when the Show was sent.                                              *)
LEMMA CheckShownStep ==
  ASSUME IInv, NEW r \in Request, CheckShown(r)
  PROVE  IInv'
<1>1. req[r].phase = "shown" /\ UNCHANGED <<clock, displays, keys, quiet>>
  BY DEF CheckShown
<1>2. CASE Reject(r)
  BY <1>1, <1>2, RejectStep
<1>3. CASE ~Alive("shown", req[r].target) /\ Go(r, "closed")
  <2> DEFINE next == [req[r] EXCEPT !.phase = "closed"]
             t == req[r].target
  <2>1. req \in [Request -> RequestType] /\ req' = [req EXCEPT ![r] = next]
    BY <1>3 DEF IInv, TypeOK, RequestType, Go
  <2>2. next \in RequestType /\ req'[r] = next
    BY <2>1 DEF RequestType, Phase
  <2>3. /\ next.phase = "closed" /\ next.target = t /\ next.kind = req[r].kind
        /\ next.page = req[r].page /\ next.now = req[r].now
        /\ next.known = req[r].known /\ next.until = req[r].until
    BY <2>1 DEF RequestType
  <2>4. /\ t \in Target /\ clock \in Nat /\ req[r].until[t] \in Nat
        /\ keys["shown"][t] \in Nat /\ keys["closed"][t] \in Nat
    BY <1>1, <2>1, ModalAssumption
    DEF IInv, RequestOK, PlaceOK, TypeOK, RequestType, Time, KeyKind
  <2>5. req[r].until[t] <= keys["shown"][t] \/ req[r].until[t] <= keys["closed"][t]
    BY <1>1, <2>4 DEF IInv, RequestOK, QuietOK, Showing
  <2>6. req[r].until[t] <= clock \/ req[r].until[t] <= keys["closed"][t]
    BY <1>3, <2>4, <2>5 DEF Alive
  <2> HIDE DEF next
  <2>7. QuietOK(r)'
    BY <1>1, <2>2, <2>3, <2>6 DEF IInv, RequestOK, QuietOK, Showing
  <2>8. LimitOK(r)'
    BY <1>1, <2>2, <2>3, SameShow DEF IInv, RequestOK, LimitOK, Showing
  <2> QED
    BY <1>1, <2>1, <2>2, <2>3, <2>4, <2>7, <2>8, Going DEF Showing
<1> QED
  BY <1>2, <1>3 DEF CheckShown

LEMMA CheckClosedStep ==
  ASSUME IInv, NEW r \in Request, CheckClosed(r)
  PROVE  IInv'
<1> DEFINE phase == IF req[r].selected THEN "shown" ELSE "create"
           next == [req[r] EXCEPT !.phase = phase, !.selected = FALSE, !.todo = {}]
           t == req[r].target
<1>1. req[r].phase = "closed" /\ UNCHANGED <<clock, displays, keys, quiet>>
  BY DEF CheckClosed
<1>2. CASE Reject(r)
  BY <1>1, <1>2, RejectStep
<1>3. CASE /\ ~Alive("closed", t)
           /\ req' = [req EXCEPT ![r].phase = phase, ![r].selected = FALSE, ![r].todo = {}]
  <2>1. req \in [Request -> RequestType] /\ req' = [req EXCEPT ![r] = next]
    BY <1>3 DEF IInv, TypeOK, RequestType
  <2>2. next \in RequestType /\ req'[r] = next
    <3>1. phase \in Phase /\ FALSE \in BOOLEAN /\ {} \in SUBSET Target
      BY DEF Phase
    <3>2. t \in Target
      BY <1>1 DEF IInv, RequestOK, PlaceOK
    <3> HIDE DEF phase
    <3> QED
      BY <2>1, <3>1, <3>2, ChosenTypes
  <2>3. /\ next.phase \in {"shown", "create"} /\ next.target = t /\ next.kind = req[r].kind
        /\ next.page = req[r].page /\ next.now = req[r].now
        /\ next.known = req[r].known /\ next.until = req[r].until
    BY <2>1 DEF RequestType
  <2>4. /\ t \in Target /\ clock \in Nat /\ req[r].until[t] \in Nat
        /\ keys["closed"][t] \in Nat
    BY <1>1, <2>1, ModalAssumption
    DEF IInv, RequestOK, PlaceOK, TypeOK, RequestType, Time, KeyKind
  <2>5. req[r].until[t] <= clock \/ req[r].until[t] <= keys["closed"][t]
    BY <1>1 DEF IInv, RequestOK, QuietOK
  <2>6. req[r].until[t] <= clock
    BY <1>3, <2>4, <2>5 DEF Alive
  <2> HIDE DEF next
  <2>7. QuietOK(r)'
    BY <1>1, <2>2, <2>3, <2>6 DEF IInv, RequestOK, QuietOK, Showing
  <2>8. LimitOK(r)'
    BY <1>1, <2>2, <2>3, SameShow DEF IInv, RequestOK, LimitOK, Showing
  <2> QED
    BY <1>1, <2>1, <2>2, <2>3, <2>4, <2>7, <2>8, Going DEF Showing
<1> QED
  BY <1>2, <1>3 DEF CheckClosed

LEMMA CreateDisplayStep ==
  ASSUME IInv, NEW r \in Request, CreateDisplay(r)
  PROVE  IInv'
<1> DEFINE q == req[r]
           row == [target |-> q.target, page |-> q.page, shownAt |-> q.now,
                   clicked |-> FALSE, closed |-> FALSE, clickEvents |-> 0, closeEvents |-> 0,
                   createdAt |-> clock, known |-> q.known, until |-> q.until[q.target]]
           next == [Idle EXCEPT !.phase = "flag", !.target = q.target]
           D == DOMAIN displays
<1>1. /\ q.phase = "create" /\ UNCHANGED <<clock, keys, quiet>>
      /\ displays' = [d \in D \cup {r} |-> IF d # r THEN displays[d] ELSE row]
      /\ req' = [req EXCEPT ![r] = next]
  BY DEF CreateDisplay
<1>2. /\ req \in [Request -> RequestType] /\ D \subseteq Request /\ clock \in Time
      /\ \A d \in D : displays[d] \in Row
  BY DEF IInv, TypeOK, RequestType
<1>3. /\ r \notin D /\ q.known \subseteq D /\ q.page \in Page /\ q.target \in Target
      /\ q.until[q.target] <= clock /\ q.now \in Time /\ q.until \in [Target -> Nat]
  BY <1>1, <1>2 DEF IInv, RequestOK, PlaceOK, QuietOK, Showing, RequestType
<1>4. next \in RequestType /\ next.phase = "flag" /\ next.target = q.target /\ next.kind = "show"
  <2>1. /\ next \in RequestType /\ next.phase = "flag" /\ next.target = q.target
        /\ next.kind = Idle.kind
    BY <1>3, IdleType DEF RequestType, Phase
  <2> QED
    BY <2>1 DEF Idle
<1>5. row \in Row
  <2>1. 0 \in Nat /\ FALSE \in BOOLEAN /\ q.known \in SUBSET Request /\ q.until[q.target] \in Nat
    BY <1>2, <1>3
  <2> HIDE DEF q
  <2> QED
    BY <1>2, <1>3, <2>1 DEF Row
<1>6. /\ row.known = q.known /\ row.shownAt = q.now /\ row.page = q.page
      /\ ~row.clicked /\ ~row.closed /\ row.clickEvents = 0 /\ row.closeEvents = 0
      /\ row.createdAt = clock /\ row.until = q.until[q.target]
  OBVIOUS
<1> HIDE DEF row, next
<1>7. /\ DOMAIN displays' = D \cup {r} /\ displays'[r] = row
      /\ \A d \in D : displays'[d] = displays[d]
  BY <1>1, <1>3
<1>8. req'[r] = next /\ \A s \in Request : s # r => req'[s] = req[s]
  BY <1>1, <1>2
<1>9. TypeOK'
  <2>1. req' \in [Request -> RequestType]
    BY <1>1, <1>2, <1>4
  <2>2. DOMAIN displays' \subseteq Request /\ \A d \in DOMAIN displays' : displays'[d] \in Row
    BY <1>2, <1>5, <1>7
  <2> QED
    BY <1>1, <2>1, <2>2 DEF IInv, TypeOK, RequestType
<1>10. ASSUME NEW s \in Request PROVE RequestOK(s)'
  <2>1. CASE s = r
    <3>1. PlaceOK(r)'
      BY <1>3, <1>4, <1>8 DEF PlaceOK, Showing
    <3>2. LimitOK(r)' /\ QuietOK(r)' /\ PendingOK(r)'
      BY <1>4, <1>8 DEF LimitOK, QuietOK, PendingOK, Pending, Showing
    <3> QED
      BY <2>1, <3>1, <3>2 DEF RequestOK
  <2>2. CASE s # r
    <3>1. req'[s] = req[s]
      BY <1>8, <2>2
    <3>2. \A kind \in KeyKind, t \in Target : keys[kind][t] <= keys'[kind][t]
      BY <1>1 DEF IInv, TypeOK
    <3>3. clock <= clock'
      BY <1>1, <1>2, ModalAssumption DEF Time
    <3>4. PlaceOK(s)' /\ LimitOK(s)' /\ QuietOK(s)'
      BY <1>7, <1>9, <2>2, <3>1, <3>2, <3>3, OtherRequest
    <3>5. PendingOK(s)'
      <4>1. PendingOK(s) /\ PlaceOK(s)
        BY DEF IInv, RequestOK
      <4>2. Pending(s, "click") \/ Pending(s, "close") => req[s].display \in D
        BY <4>1 DEF PlaceOK, Pending
      <4> QED
        BY <1>7, <3>1, <4>1, <4>2 DEF PendingOK, Pending
    <3> QED
      BY <3>4, <3>5 DEF RequestOK
  <2> QED
    BY <2>1, <2>2
<1>11. Unique'
  <2>1. \A kind \in {"click", "close"} : ~Pending(r, kind)'
    BY <1>4, <1>8 DEF Pending
  <2>2. \A s \in Request, kind \in {"click", "close"} :
          Pending(s, kind)' => Pending(s, kind) /\ req'[s].display = req[s].display
    BY <1>8, <2>1 DEF Pending
  <2> QED
    BY <2>2 DEF IInv, Unique
<1>12. KeysOK'
  BY <1>1 DEF IInv, KeysOK
<1>13. DisplaysOK' /\ CountedOnce' /\ SuppressionHolds'
  <2>1. DisplaysOK'
    BY <1>3, <1>6, <1>7 DEF IInv, DisplaysOK
  <2>2. CountedOnce'
    BY <1>6, <1>7 DEF IInv, CountedOnce
  <2>3. SuppressionHolds'
    <3>1. row.createdAt >= row.until
      BY <1>2, <1>3, <1>6, ModalAssumption DEF Time
    <3> QED
      BY <1>7, <3>1 DEF IInv, SuppressionHolds
  <2> QED
    BY <2>1, <2>2, <2>3
<1>14. LimitsHold'
  <2>1. ASSUME NEW d \in D
        PROVE  {e \in displays'[d].known : displays'[e].shownAt + Cooldown >= displays'[d].shownAt}
                 = {e \in displays[d].known : displays[e].shownAt + Cooldown >= displays[d].shownAt}
               /\ \A e \in displays[d].known : displays'[e].page = displays[e].page
    BY <1>7 DEF IInv, DisplaysOK
  <2>2. {e \in row.known : displays'[e].shownAt + Cooldown >= row.shownAt} = Before(r)
    BY <1>3, <1>6, <1>7 DEF Before
  <2>3. {e \in Before(r) : displays'[e].page = row.page} = BeforeOnPage(r)
    BY <1>3, <1>6, <1>7 DEF Before, BeforeOnPage
  <2>4. Cardinality(Before(r)) < MaxModalPerSession
        /\ Cardinality(BeforeOnPage(r)) < MaxModalPerPage
    BY <1>1 DEF IInv, RequestOK, LimitOK, Showing
  <2>5. ASSUME NEW d \in D
        PROVE  LET before == {e \in displays'[d].known :
                                displays'[e].shownAt + Cooldown >= displays'[d].shownAt}
               IN  /\ Cardinality(before) < MaxModalPerSession
                   /\ Cardinality({e \in before : displays'[e].page = displays'[d].page})
                        < MaxModalPerPage
    <3> DEFINE before == {e \in displays[d].known :
                            displays[e].shownAt + Cooldown >= displays[d].shownAt}
    <3>1. /\ Cardinality(before) < MaxModalPerSession
          /\ Cardinality({e \in before : displays[e].page = displays[d].page}) < MaxModalPerPage
      BY DEF IInv, LimitsHold
    <3>2. {e \in before : displays'[e].page = displays'[d].page}
            = {e \in before : displays[e].page = displays[d].page}
      BY <1>7, <2>1
    <3> QED
      BY <2>1, <3>1, <3>2
  <2> QED
    BY <1>7, <2>2, <2>3, <2>4, <2>5 DEF LimitsHold
<1> QED
  BY <1>9, <1>10, <1>11, <1>12, <1>13, <1>14 DEF IInv

---------------------------------------------------------------------------
(* The steps of Click and Close, the flags and the clock                   *)

LEMMA SendActionStep ==
  ASSUME IInv, NEW r \in Request, NEW kind \in {"click", "close"}, NEW d \in Request,
         SendAction(r, kind, d)
  PROVE  IInv'
<1> DEFINE next == [Idle EXCEPT !.kind = kind, !.phase = "mark", !.display = d,
                                !.target = displays[d].target]
<1>1. /\ req[r].phase = "unsent" /\ d \in DOMAIN displays /\ req' = [req EXCEPT ![r] = next]
      /\ UNCHANGED <<clock, displays, keys, quiet>>
  BY DEF SendAction
<1>2. displays[d].target \in Target /\ req \in [Request -> RequestType]
  BY <1>1 DEF IInv, TypeOK, Row, RequestType
<1>3. /\ next \in RequestType /\ next.phase = "mark" /\ next.kind = kind /\ next.display = d
      /\ next.target = displays[d].target
  BY <1>1, <1>2, IdleType DEF RequestType, Phase
<1> HIDE DEF next
<1>4. req'[r] = next
  BY <1>1, <1>2
<1>5. PlaceOK(r)'
  BY <1>1, <1>2, <1>3, <1>4 DEF PlaceOK, Showing
<1>6. LimitOK(r)' /\ QuietOK(r)' /\ PendingOK(r)'
  BY <1>3, <1>4 DEF LimitOK, QuietOK, PendingOK, Pending, Showing
<1> QED
  BY <1>1, <1>3, <1>5, <1>6, OneRequest DEF RequestOK

(* Click and Close change two columns of a display that was there, and no  *)
(* more: nothing that Shows count moves.                                   *)
LEMMA DisplayMarked ==
  ASSUME IInv, NEW d \in DOMAIN displays, NEW row \in Row,
         UNCHANGED <<clock, keys, quiet>>,
         displays' = [displays EXCEPT ![d] = row],
         row.shownAt = displays[d].shownAt, row.page = displays[d].page,
         row.known = displays[d].known, row.createdAt = displays[d].createdAt,
         row.until = displays[d].until
  PROVE  /\ DOMAIN displays' = DOMAIN displays
         /\ \A e \in DOMAIN displays : /\ displays'[e].shownAt = displays[e].shownAt
                                       /\ displays'[e].page = displays[e].page
                                       /\ displays'[e].known = displays[e].known
         /\ \A e \in DOMAIN displays : displays'[e] \in Row
         /\ LimitsHold' /\ SuppressionHolds' /\ KeysOK'
<1>1. /\ DOMAIN displays' = DOMAIN displays /\ displays'[d] = row
      /\ \A e \in DOMAIN displays : e # d => displays'[e] = displays[e]
  OBVIOUS
<1>2. \A e \in DOMAIN displays : /\ displays'[e].shownAt = displays[e].shownAt
                                 /\ displays'[e].page = displays[e].page
                                 /\ displays'[e].known = displays[e].known
                                 /\ displays'[e].createdAt = displays[e].createdAt
                                 /\ displays'[e].until = displays[e].until
  BY <1>1
<1>3. \A e \in DOMAIN displays : displays'[e] \in Row
  BY <1>1 DEF IInv, TypeOK
<1>4. LimitsHold'
  <2>1. SUFFICES ASSUME NEW e \in DOMAIN displays
        PROVE  LET before == {f \in displays'[e].known :
                                displays'[f].shownAt + Cooldown >= displays'[e].shownAt}
               IN  /\ Cardinality(before) < MaxModalPerSession
                   /\ Cardinality({f \in before : displays'[f].page = displays'[e].page})
                        < MaxModalPerPage
    BY <1>1 DEF LimitsHold
  <2> DEFINE before == {f \in displays[e].known :
                          displays[f].shownAt + Cooldown >= displays[e].shownAt}
  <2>2. /\ Cardinality(before) < MaxModalPerSession
        /\ Cardinality({f \in before : displays[f].page = displays[e].page}) < MaxModalPerPage
    BY DEF IInv, LimitsHold
  <2>3. displays[e].known \subseteq DOMAIN displays
    BY DEF IInv, DisplaysOK
  <2>4. {f \in displays'[e].known : displays'[f].shownAt + Cooldown >= displays'[e].shownAt} = before
    BY <1>2, <2>3
  <2>5. {f \in before : displays'[f].page = displays'[e].page}
          = {f \in before : displays[f].page = displays[e].page}
    BY <1>2, <2>3
  <2> QED
    BY <2>2, <2>4, <2>5
<1>5. SuppressionHolds' /\ KeysOK'
  BY <1>1, <1>2 DEF IInv, SuppressionHolds, KeysOK
<1> QED
  BY <1>1, <1>2, <1>3, <1>4, <1>5

(* A step on a display by the request that marks or has marked it: what is *)
(* to be shown of the display and of the others that wait to log an event. *)
LEMMA MarkingStep ==
  ASSUME IInv, NEW r \in Request, NEW d \in DOMAIN displays, NEW row \in Row,
         NEW next \in RequestType,
         UNCHANGED <<clock, keys, quiet>>,
         displays' = [displays EXCEPT ![d] = row],
         row.shownAt = displays[d].shownAt, row.page = displays[d].page,
         row.known = displays[d].known, row.createdAt = displays[d].createdAt,
         row.until = displays[d].until,
         req' = [req EXCEPT ![r] = next],
         RequestOK(r)', Unique', row.clickEvents <= 1, row.closeEvents <= 1,
         ~row.clicked => row.clickEvents = 0, ~row.closed => row.closeEvents = 0,
         \A s \in Request : s # r => PendingOK(s)'
  PROVE  IInv'
<1>1. req \in [Request -> RequestType]
  BY DEF IInv, TypeOK, RequestType
<1>2. /\ DOMAIN displays' = DOMAIN displays /\ displays'[d] = row
      /\ \A e \in DOMAIN displays : e # d => displays'[e] = displays[e]
  OBVIOUS
<1>3. /\ \A e \in DOMAIN displays : /\ displays'[e].shownAt = displays[e].shownAt
                                    /\ displays'[e].page = displays[e].page
                                    /\ displays'[e].known = displays[e].known
                                    /\ displays'[e] \in Row
      /\ LimitsHold' /\ SuppressionHolds' /\ KeysOK'
  BY DisplayMarked
<1>4. TypeOK'
  <2>1. req' \in [Request -> RequestType]
    BY <1>1
  <2> QED
    BY <1>2, <1>3, <2>1 DEF IInv, TypeOK, RequestType
<1>5. ASSUME NEW s \in Request PROVE RequestOK(s)'
  <2>1. CASE s = r
    BY <2>1
  <2>2. CASE s # r
    <3>1. req'[s] = req[s]
      BY <1>1, <2>2
    <3>2. clock <= clock' /\ \A kind \in KeyKind, t \in Target : keys[kind][t] <= keys'[kind][t]
      BY ModalAssumption DEF IInv, TypeOK, Time
    <3>3. PlaceOK(s)' /\ LimitOK(s)' /\ QuietOK(s)'
      BY <1>2, <1>3, <1>4, <3>1, <3>2, OtherRequest
    <3> QED
      BY <2>2, <3>3 DEF RequestOK
  <2> QED
    BY <2>1, <2>2
<1>6. DisplaysOK' /\ CountedOnce'
  BY <1>2, <1>3 DEF IInv, DisplaysOK, CountedOnce
<1> QED
  BY <1>3, <1>4, <1>5, <1>6 DEF IInv

LEMMA MarkStep ==
  ASSUME IInv, NEW r \in Request, Mark(r)
  PROVE  IInv'
<1> DEFINE d == req[r].display
<1>1. req[r].phase = "mark" /\ UNCHANGED <<clock, keys, quiet>>
      /\ req \in [Request -> RequestType] /\ d \in DOMAIN displays /\ displays[d] \in Row
  BY DEF Mark, IInv, RequestOK, PlaceOK, TypeOK, RequestType
<1>2. CASE Finish(r) /\ UNCHANGED displays
  BY <1>1, <1>2, Finished
<1>3. CASE /\ req[r].kind = "click" /\ Unmarked(displays[d].clicked)
           /\ displays' = [displays EXCEPT ![d].clicked = TRUE] /\ Go(r, "event")
  <2> DEFINE row == [displays[d] EXCEPT !.clicked = TRUE]
             next == [req[r] EXCEPT !.phase = "event"]
  <2>1. displays' = [displays EXCEPT ![d] = row] /\ req' = [req EXCEPT ![r] = next]
    BY <1>3 DEF Go
  <2>2. next \in RequestType /\ next.phase = "event" /\ next.kind = "click" /\ next.display = d
    BY <1>1, <1>3 DEF RequestType, Phase
  <2>3. row \in Row
    BY <1>1 DEF Row
  <2>4. /\ row.shownAt = displays[d].shownAt /\ row.page = displays[d].page
        /\ row.known = displays[d].known /\ row.createdAt = displays[d].createdAt
        /\ row.until = displays[d].until /\ row.clicked /\ row.closed = displays[d].closed
        /\ row.clickEvents = displays[d].clickEvents /\ row.closeEvents = displays[d].closeEvents
    BY <1>1 DEF Row
  <2>5. ~displays[d].clicked /\ displays[d].clickEvents = 0 /\ displays[d].closeEvents <= 1
        /\ (~displays[d].closed => displays[d].closeEvents = 0)
    BY <1>1, <1>3 DEF Unmarked, IInv, DisplaysOK, CountedOnce
  <2> HIDE DEF row, next, d
  <2>6. /\ DOMAIN displays' = DOMAIN displays /\ displays'[d] = row
        /\ \A e \in DOMAIN displays : e # d => displays'[e] = displays[e]
        /\ req'[r] = next /\ \A s \in Request : s # r => req'[s] = req[s]
    BY <1>1, <2>1
  <2>7. RequestOK(r)'
    <3>1. PlaceOK(r)'
      BY <1>1, <2>2, <2>6 DEF PlaceOK, Showing
    <3>2. LimitOK(r)' /\ QuietOK(r)'
      BY <2>2, <2>6 DEF LimitOK, QuietOK, Showing
    <3>3. PendingOK(r)'
      BY <2>2, <2>4, <2>5, <2>6 DEF PendingOK, Pending
    <3> QED
      BY <3>1, <3>2, <3>3 DEF RequestOK
  <2>8. ASSUME NEW s \in Request, s # r PROVE PendingOK(s)' /\ ~(Pending(s, "click") /\ req[s].display = d)
    <3>1. PendingOK(s) /\ PlaceOK(s)
      BY DEF IInv, RequestOK
    <3>2. ~(Pending(s, "click") /\ req[s].display = d)
      BY <2>5, <3>1 DEF PendingOK
    <3>3. Pending(s, "click") \/ Pending(s, "close") => req[s].display \in DOMAIN displays
      BY <3>1 DEF PlaceOK, Pending
    <3>4. PendingOK(s)'
      BY <2>4, <2>6, <2>8, <3>1, <3>2, <3>3 DEF PendingOK, Pending
    <3> QED
      BY <3>2, <3>4
  <2>9. Unique'
    <3>1. \A s \in Request, kind \in {"click", "close"} :
            s # r /\ Pending(s, kind)' => Pending(s, kind) /\ req'[s].display = req[s].display
      BY <2>6 DEF Pending
    <3>2. \A kind \in {"click", "close"} :
            Pending(r, kind)' => kind = "click" /\ req'[r].display = d
      BY <2>2, <2>6 DEF Pending
    <3> QED
      BY <2>8, <3>1, <3>2 DEF IInv, Unique
  <2>10. row.clickEvents <= 1 /\ row.closeEvents <= 1 /\ (~row.clicked => row.clickEvents = 0)
         /\ (~row.closed => row.closeEvents = 0)
    BY <2>4, <2>5
  <2> QED
    BY <1>1, <2>1, <2>2, <2>3, <2>4, <2>7, <2>8, <2>9, <2>10, MarkingStep
<1>4. CASE /\ req[r].kind = "close" /\ Unmarked(displays[d].closed)
           /\ displays' = [displays EXCEPT ![d].closed = TRUE] /\ Go(r, "flag")
  <2> DEFINE row == [displays[d] EXCEPT !.closed = TRUE]
             next == [req[r] EXCEPT !.phase = "flag"]
  <2>1. displays' = [displays EXCEPT ![d] = row] /\ req' = [req EXCEPT ![r] = next]
    BY <1>4 DEF Go
  <2>2. next \in RequestType /\ next.phase = "flag" /\ next.kind = "close" /\ next.display = d
        /\ next.target = req[r].target
    BY <1>1, <1>4 DEF RequestType, Phase
  <2>3. row \in Row
    BY <1>1 DEF Row
  <2>4. /\ row.shownAt = displays[d].shownAt /\ row.page = displays[d].page
        /\ row.known = displays[d].known /\ row.createdAt = displays[d].createdAt
        /\ row.until = displays[d].until /\ row.closed /\ row.clicked = displays[d].clicked
        /\ row.clickEvents = displays[d].clickEvents /\ row.closeEvents = displays[d].closeEvents
    BY <1>1 DEF Row
  <2>5. ~displays[d].closed /\ displays[d].closeEvents = 0 /\ displays[d].clickEvents <= 1
        /\ (~displays[d].clicked => displays[d].clickEvents = 0)
    BY <1>1, <1>4 DEF Unmarked, IInv, DisplaysOK, CountedOnce
  <2> HIDE DEF row, next, d
  <2>6. /\ DOMAIN displays' = DOMAIN displays /\ displays'[d] = row
        /\ \A e \in DOMAIN displays : e # d => displays'[e] = displays[e]
        /\ req'[r] = next /\ \A s \in Request : s # r => req'[s] = req[s]
    BY <1>1, <2>1
  <2>7. RequestOK(r)'
    <3>1. req[r].target \in Target
      BY <1>1 DEF IInv, RequestOK, PlaceOK
    <3>2. PlaceOK(r)'
      BY <1>1, <2>2, <2>6, <3>1 DEF PlaceOK, Showing
    <3>3. LimitOK(r)' /\ QuietOK(r)'
      BY <2>2, <2>6 DEF LimitOK, QuietOK, Showing
    <3>4. PendingOK(r)'
      BY <2>2, <2>4, <2>5, <2>6 DEF PendingOK, Pending
    <3> QED
      BY <3>2, <3>3, <3>4 DEF RequestOK
  <2>8. ASSUME NEW s \in Request, s # r PROVE PendingOK(s)' /\ ~(Pending(s, "close") /\ req[s].display = d)
    <3>1. PendingOK(s) /\ PlaceOK(s)
      BY DEF IInv, RequestOK
    <3>2. ~(Pending(s, "close") /\ req[s].display = d)
      BY <2>5, <3>1 DEF PendingOK
    <3>3. Pending(s, "click") \/ Pending(s, "close") => req[s].display \in DOMAIN displays
      BY <3>1 DEF PlaceOK, Pending
    <3>4. PendingOK(s)'
      BY <2>4, <2>6, <2>8, <3>1, <3>2, <3>3 DEF PendingOK, Pending
    <3> QED
      BY <3>2, <3>4
  <2>9. Unique'
    <3>1. \A s \in Request, kind \in {"click", "close"} :
            s # r /\ Pending(s, kind)' => Pending(s, kind) /\ req'[s].display = req[s].display
      BY <2>6 DEF Pending
    <3>2. \A kind \in {"click", "close"} :
            Pending(r, kind)' => kind = "close" /\ req'[r].display = d
      BY <2>2, <2>6 DEF Pending
    <3> QED
      BY <2>8, <3>1, <3>2 DEF IInv, Unique
  <2>10. row.clickEvents <= 1 /\ row.closeEvents <= 1 /\ (~row.clicked => row.clickEvents = 0)
         /\ (~row.closed => row.closeEvents = 0)
    BY <2>4, <2>5
  <2> QED
    BY <1>1, <2>1, <2>2, <2>3, <2>4, <2>7, <2>8, <2>9, <2>10, MarkingStep
<1> QED
  BY <1>2, <1>3, <1>4 DEF Mark

LEMMA SetFlagStep ==
  ASSUME IInv, NEW r \in Request, SetFlag(r)
  PROVE  IInv'
<1> DEFINE kind == IF req[r].kind = "show" THEN "shown" ELSE "closed"
           t == req[r].target
           next == [req[r] EXCEPT !.phase = "event"]
<1>1. /\ req[r].phase = "flag" /\ UNCHANGED <<clock, displays>>
      /\ req' = [req EXCEPT ![r] = next]
      /\ \/ /\ keys' = [keys EXCEPT ![kind][t] = clock + Cooldown]
            /\ quiet' = [quiet EXCEPT ![t] = clock + Cooldown]
         \/ UNCHANGED <<keys, quiet>>
  BY DEF SetFlag, Go, Expiry
<1>2. /\ req \in [Request -> RequestType] /\ clock \in Nat /\ kind \in KeyKind
      /\ keys \in [KeyKind -> [Target -> Nat]] /\ quiet \in [Target -> Nat]
      /\ Cooldown \in Nat /\ t \in Target
  BY <1>1, ModalAssumption DEF IInv, RequestOK, PlaceOK, TypeOK, RequestType, Time, KeyKind
<1>3. /\ next \in RequestType /\ next.phase = "event" /\ next.kind = req[r].kind
      /\ next.display = req[r].display
  BY <1>2 DEF RequestType, Phase
<1> HIDE DEF next, kind, t
<1>4. req'[r] = next /\ \A s \in Request : s # r => req'[s] = req[s]
  BY <1>1, <1>2
<1>5. keys' \in [KeyKind -> [Target -> Nat]] /\ quiet' \in [Target -> Nat]
  <2>1. CASE UNCHANGED <<keys, quiet>>
    BY <1>2, <2>1
  <2>2. CASE /\ keys' = [keys EXCEPT ![kind][t] = clock + Cooldown]
             /\ quiet' = [quiet EXCEPT ![t] = clock + Cooldown]
    <3>1. clock + Cooldown \in Nat
      BY <1>2
    <3>2. [keys[kind] EXCEPT ![t] = clock + Cooldown] \in [Target -> Nat]
      BY <1>2, <3>1
    <3>3. keys' = [keys EXCEPT ![kind] = [keys[kind] EXCEPT ![t] = clock + Cooldown]]
      BY <2>2
    <3>4. keys' \in [KeyKind -> [Target -> Nat]]
      BY <1>2, <3>2, <3>3
    <3> QED
      BY <1>2, <2>2, <3>1, <3>4
  <2> QED
    BY <1>1, <2>1, <2>2
<1>6. TypeOK'
  <2>1. req' \in [Request -> RequestType]
    BY <1>1, <1>2, <1>3
  <2> QED
    BY <1>1, <1>5, <2>1 DEF IInv, TypeOK, RequestType
<1>7. \A k \in KeyKind, u \in Target : keys[k][u] <= keys'[k][u]
  <2>1. \A k \in KeyKind, u \in Target : keys[k][u] <= clock + Cooldown
    BY DEF IInv, KeysOK
  <2> QED
    BY <1>1, <1>2, <2>1
<1>8. KeysOK'
  <2>1. KeysOK
    BY DEF IInv
  <2>2. \A k \in KeyKind, u \in Target : keys'[k][u] <= clock' + Cooldown
    BY <1>1, <1>2, <2>1 DEF KeysOK
  <2>3. ASSUME NEW u \in Target PROVE quiet'[u] <= keys'["shown"][u] \/ quiet'[u] <= keys'["closed"][u]
    <3>1. CASE quiet'[u] = quiet[u]
      BY <1>2, <1>5, <1>7, <2>1, <3>1 DEF KeysOK, KeyKind
    <3>2. CASE quiet'[u] # quiet[u]
      <4>1. u = t /\ quiet'[u] = clock + Cooldown /\ keys'[kind][u] = clock + Cooldown
        BY <1>1, <1>2, <3>2
      <4> QED
        BY <1>2, <4>1 DEF KeyKind
    <3> QED
      BY <3>1, <3>2
  <2> QED
    BY <2>2, <2>3 DEF KeysOK
<1>9. ASSUME NEW s \in Request PROVE RequestOK(s)'
  <2>1. PlaceOK(s) /\ PendingOK(s)
    BY DEF IInv, RequestOK
  <2>2. CASE s = r
    <3>1. req[r].kind # "click"
      BY <1>1, <2>1, <2>2 DEF PlaceOK
    <3>2. PlaceOK(r)'
      BY <1>1, <1>3, <1>4, <2>1, <2>2 DEF PlaceOK, Showing
    <3>3. LimitOK(r)' /\ QuietOK(r)'
      BY <1>3, <1>4 DEF LimitOK, QuietOK, Showing
    <3>4. PendingOK(r)'
      BY <1>1, <1>3, <1>4, <2>1, <2>2, <3>1 DEF PendingOK, Pending
    <3> QED
      BY <2>2, <3>2, <3>3, <3>4 DEF RequestOK
  <2>3. CASE s # r
    <3>1. req'[s] = req[s]
      BY <1>4, <2>3
    <3>2. PlaceOK(s)' /\ LimitOK(s)' /\ QuietOK(s)'
      BY <1>1, <1>2, <1>6, <1>7, <3>1, OtherRequest
    <3>3. PendingOK(s)'
      BY <1>1, <2>1, <3>1 DEF PendingOK, Pending
    <3> QED
      BY <3>2, <3>3 DEF RequestOK
  <2> QED
    BY <2>2, <2>3
<1>10. Unique'
  <2>1. req[r].kind # "click"
    BY <1>1 DEF IInv, RequestOK, PlaceOK
  <2>2. \A s \in Request, k \in {"click", "close"} :
          Pending(s, k)' => Pending(s, k) /\ req'[s].display = req[s].display
    BY <1>1, <1>3, <1>4, <2>1 DEF Pending
  <2> QED
    BY <2>2 DEF IInv, Unique
<1>11. DisplaysOK' /\ LimitsHold' /\ SuppressionHolds' /\ CountedOnce'
  BY <1>1 DEF IInv, DisplaysOK, LimitsHold, SuppressionHolds, CountedOnce
<1> QED
  BY <1>6, <1>8, <1>9, <1>10, <1>11 DEF IInv

(* The event of a display that is marked: it is the first, and no other    *)
(* request waits to log one.                                               *)
LEMMA CreateEventStep ==
  ASSUME IInv, NEW r \in Request, CreateEvent(r)
  PROVE  IInv'
<1> DEFINE d == req[r].display
           next == [Idle EXCEPT !.phase = "done"]
           row == IF req[r].kind = "click" THEN [displays[d] EXCEPT !.clickEvents = @ + 1]
                                           ELSE [displays[d] EXCEPT !.closeEvents = @ + 1]
<1>1. /\ req[r].phase = "event" /\ UNCHANGED <<clock, keys, quiet>> /\ Finish(r)
      /\ req' = [req EXCEPT ![r] = next]
  BY DEF CreateEvent, Finish
<1>2. CASE UNCHANGED displays
  BY <1>1, <1>2, Finished
<1>3. CASE req[r].kind # "show" /\ displays' = [displays EXCEPT ![d] = row]
  <2>1. /\ req \in [Request -> RequestType] /\ d \in DOMAIN displays /\ displays[d] \in Row
        /\ req[r].kind \in {"click", "close"}
    BY <1>1, <1>3 DEF IInv, RequestOK, PlaceOK, TypeOK, RequestType
  <2>2. /\ displays[d].clickEvents \in Nat /\ displays[d].closeEvents \in Nat
        /\ displays[d].clickEvents <= 1 /\ displays[d].closeEvents <= 1
        /\ req[r].kind = "click" => displays[d].clicked /\ displays[d].clickEvents = 0
        /\ req[r].kind = "close" => displays[d].closed /\ displays[d].closeEvents = 0
        /\ ~displays[d].clicked => displays[d].clickEvents = 0
        /\ ~displays[d].closed => displays[d].closeEvents = 0
    BY <1>1, <2>1 DEF IInv, RequestOK, PendingOK, Pending, DisplaysOK, CountedOnce, Row
  <2>3. row \in Row
    BY <2>1, <2>2 DEF Row
  <2>4. /\ row.shownAt = displays[d].shownAt /\ row.page = displays[d].page
        /\ row.known = displays[d].known /\ row.createdAt = displays[d].createdAt
        /\ row.until = displays[d].until
        /\ row.closed = displays[d].closed /\ row.clicked = displays[d].clicked
        /\ req[r].kind = "click" => row.clickEvents = 1 /\ row.closeEvents = displays[d].closeEvents
        /\ req[r].kind = "close" => row.closeEvents = 1 /\ row.clickEvents = displays[d].clickEvents
    BY <2>1, <2>2 DEF Row
  <2>5. next \in RequestType /\ next.phase = "done" /\ next.kind = "show"
    <3>1. next \in RequestType /\ next.phase = "done" /\ next.kind = Idle.kind
      BY IdleType DEF RequestType, Phase
    <3> QED
      BY <3>1 DEF Idle
  <2> HIDE DEF row, next, d
  <2>6. /\ DOMAIN displays' = DOMAIN displays /\ displays'[d] = row
        /\ \A e \in DOMAIN displays : e # d => displays'[e] = displays[e]
        /\ req'[r] = next /\ \A s \in Request : s # r => req'[s] = req[s]
    BY <1>1, <1>3, <2>1
  <2>7. RequestOK(r)'
    BY <2>5, <2>6 DEF RequestOK, PlaceOK, LimitOK, QuietOK, PendingOK, Pending, Showing
  <2>8. Unique'
    <3>1. \A k \in {"click", "close"} : ~Pending(r, k)'
      BY <2>5, <2>6 DEF Pending
    <3>2. \A s \in Request, k \in {"click", "close"} :
            Pending(s, k)' => Pending(s, k) /\ req'[s].display = req[s].display
      BY <2>6, <3>1 DEF Pending
    <3> QED
      BY <3>2 DEF IInv, Unique
  <2>9. ASSUME NEW s \in Request, s # r PROVE PendingOK(s)'
    <3>1. PendingOK(s) /\ PlaceOK(s)
      BY DEF IInv, RequestOK
    <3>2. Pending(r, req[r].kind)
      BY <1>1, <2>1 DEF Pending
    <3>3. ~(Pending(s, req[r].kind) /\ req[s].display = d)
      BY <2>1, <2>9, <3>2 DEF IInv, Unique, d
    <3>4. Pending(s, "click") \/ Pending(s, "close") => req[s].display \in DOMAIN displays
      BY <3>1 DEF PlaceOK, Pending
    <3>5. Pending(s, "click")' = Pending(s, "click") /\ Pending(s, "close")' = Pending(s, "close")
          /\ req'[s] = req[s]
      BY <2>6, <2>9 DEF Pending
    <3>6. CASE req[s].display # d
      BY <2>6, <3>1, <3>4, <3>5, <3>6 DEF PendingOK
    <3>7. CASE req[s].display = d
      BY <2>1, <2>4, <2>6, <3>1, <3>3, <3>5, <3>7 DEF PendingOK
    <3> QED
      BY <3>6, <3>7
  <2>10. row.clickEvents <= 1 /\ row.closeEvents <= 1 /\ (~row.clicked => row.clickEvents = 0)
         /\ (~row.closed => row.closeEvents = 0)
    BY <2>1, <2>2, <2>4
  <2> QED
    BY <1>1, <1>3, <2>1, <2>3, <2>4, <2>5, <2>7, <2>8, <2>9, <2>10, MarkingStep
<1> QED
  <2>1. req[r].kind \in {"show", "click", "close"}
    BY DEF IInv, TypeOK
  <2> QED
    BY <1>2, <1>3, <2>1 DEF CreateEvent

LEMMA TickStep == ASSUME IInv, Tick PROVE IInv'
<1>1. clock' = clock + 1 /\ clock < MaxTime /\ UNCHANGED <<displays, keys, quiet, req>>
  BY DEF Tick
<1>2. clock \in Nat /\ TypeOK'
  BY <1>1, ModalAssumption DEF IInv, TypeOK, Time
<1>3. ASSUME NEW s \in Request PROVE RequestOK(s)'
  <2>1. \A kind \in KeyKind, t \in Target : keys[kind][t] <= keys'[kind][t]
    BY <1>1 DEF IInv, TypeOK
  <2>2. PlaceOK(s)' /\ LimitOK(s)' /\ QuietOK(s)'
    BY <1>1, <1>2, <2>1, OtherRequest
  <2>3. PendingOK(s)'
    BY <1>1 DEF IInv, RequestOK, PendingOK, Pending
  <2> QED
    BY <2>2, <2>3 DEF RequestOK
<1>4. KeysOK'
  <2>1. \A kind \in KeyKind, t \in Target : keys[kind][t] \in Nat
    BY DEF IInv, TypeOK
  <2> QED
    BY <1>1, <1>2, <2>1, ModalAssumption DEF IInv, KeysOK
<1>5. Unique'
  BY <1>1 DEF IInv, Unique, Pending
<1>6. DisplaysOK' /\ LimitsHold' /\ SuppressionHolds' /\ CountedOnce'
  BY <1>1 DEF IInv, DisplaysOK, LimitsHold, SuppressionHolds, CountedOnce
<1> QED
  BY <1>2, <1>3, <1>4, <1>5, <1>6 DEF IInv

LEMMA StepIInv == IInv /\ [Next]_vars => IInv'
<1> SUFFICES ASSUME IInv, [Next]_vars PROVE IInv'
  OBVIOUS
<1>1. ASSUME NEW r \in Request, Fail(r) PROVE IInv'
  BY <1>1, Finished DEF Fail
<1>2. CASE UNCHANGED vars
  <2>1. UNCHANGED <<clock, displays, keys, quiet, req>>
    BY <1>2 DEF vars
  <2>2. \A r \in Request : RequestOK(r)'
    <3> TAKE r \in Request
    <3>1. RequestOK(r) /\ Before(r)' = Before(r) /\ BeforeOnPage(r)' = BeforeOnPage(r)
      BY <2>1 DEF IInv, Before, BeforeOnPage
    <3> QED
      BY <2>1, <3>1 DEF RequestOK, PlaceOK, LimitOK, QuietOK, PendingOK, Pending
  <2> QED
    BY <2>1, <2>2, ZenonT(60) DEF IInv, TypeOK, Unique, Pending, KeysOK, DisplaysOK, LimitsHold,
                      SuppressionHolds, CountedOnce
<1> QED
  BY <1>1, <1>2, SendShowStep, CountShownOnPageStep, CountShownInSessionStep,
     SelectCandidateStep, CheckShownStep, CheckClosedStep, CreateDisplayStep,
     SendActionStep, MarkStep, SetFlagStep, CreateEventStep, TickStep DEF Next

(* The inductive invariant: where a request is in its handler, what its    *)
(* counts and its looks at the keys have established, and that whoever     *)
(* logs the event of a click or a close is the one that marked it.         *)
THEOREM Invariance == Spec => []IInv
BY InitIInv, StepIInv, PTL DEF Spec

(* The table, the keys and the requests keep their types.                  *)
THEOREM TypeCorrect == Spec => []TypeOK
BY Invariance, PTL DEF IInv

(* Shows that do not overlap keep to both limits, however many pages and   *)
(* requests there are and whatever fails.                                  *)
THEOREM LimitsAreKept == Spec => []LimitsHold
BY Invariance, PTL DEF IInv

(* A suppression that Redis took lasts the whole cooldown for every Show   *)
(* that is sent after it.                                                  *)
THEOREM SuppressionLasts == Spec => []SuppressionHolds
BY Invariance, PTL DEF IInv

(* One click and one close are counted of a display, from however many     *)
(* tabs they come.                                                         *)
THEOREM CountedAtMostOnce == Spec => []CountedOnce
BY Invariance, PTL DEF IInv
============================================================================
