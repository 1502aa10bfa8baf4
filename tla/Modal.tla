------------------------------- MODULE Modal -------------------------------
(***************************************************************************)
(* The recommendation modal of one visitor (a user or a guest): table      *)
(* modal_display_logs, the suppression keys in Redis, and the handlers     *)
(* Show, Click and Close of ModalUsecase, called from several tabs.        *)
(*                                                                         *)
(* The limits are counted in the table and the display is inserted later,  *)
(* in another statement; the keys are set after that, and their errors     *)
(* are dropped.  Whether a rank target is active and whether the visitor   *)
(* has saved it changes at any time, so what the database says of it is    *)
(* left open.                                                              *)
(***************************************************************************)
EXTENDS Naturals, FiniteSets

CONSTANTS
  Request,             \* the requests of a behaviour, each sent at most once
  Target,              \* rank targets
  Page,                \* page paths
  MaxModalPerPage,     \* displays on one page within the cooldown
  MaxModalPerSession,  \* displays to the visitor within the cooldown
  Cooldown,            \* ModalCooldownHours
  MaxTime              \* bound on the clock

ASSUME ModalAssumption ==
  /\ IsFiniteSet(Request)
  /\ MaxModalPerPage \in Nat \ {0}
  /\ MaxModalPerSession \in Nat \ {0}
  /\ Cooldown \in Nat \ {0}
  /\ MaxTime \in Nat

VARIABLES
  clock,
  displays,  \* the rows of modal_display_logs, each known by its Show
  keys,      \* per kind and target: when its suppression key expires
  quiet,     \* history: until when a target should not be displayed
  req        \* what each request asks for and where it is

vars == <<clock, displays, keys, quiet, req>>

None == "none"
KeyKind == {"shown", "closed"}
Time == 0..MaxTime

Phase == {"unsent", "page", "session", "select", "shown", "closed", "create", "flag",
          "mark", "event", "done"}

Row == [target : Target, page : Page, shownAt : Time,
        clicked : BOOLEAN, closed : BOOLEAN,
        clickEvents : Nat, closeEvents : Nat,  \* the events stored of it
        createdAt : Time,                      \* history: when it was inserted,
        known : SUBSET Request,                \* and what was there, and quiet,
        until : Nat]                           \* when its Show was sent

Idle == [kind |-> "show", phase |-> "unsent", now |-> 0, page |-> None,
         target |-> None, todo |-> {}, selected |-> FALSE, display |-> None,
         known |-> {}, until |-> [t \in Target |-> 0]]

Init ==
  /\ clock = 0
  /\ displays = [r \in {} |-> None]
  /\ keys = [kind \in KeyKind |-> [t \in Target |-> 0]]
  /\ quiet = [t \in Target |-> 0]
  /\ req = [r \in Request |-> Idle]

Alive(kind, t) == clock < keys[kind][t]

Go(r, phase) == req' = [req EXCEPT ![r].phase = phase]

(* The handler ends: a display, an error, or no candidate.  The reason for *)
(* the last goes to modal_block_logs, which nothing reads.                 *)
Finish(r) == req' = [req EXCEPT ![r] = [Idle EXCEPT !.phase = "done"]]

---------------------------------------------------------------------------
(* Show is sent for a page, with a candidate of the page's or with none,   *)
(* and reads its clock.                                                    *)
SendShow(r, page, candidate) ==
  /\ req[r].phase = "unsent"
  /\ req' = [req EXCEPT ![r] =
       [Idle EXCEPT !.phase = "page", !.now = clock, !.page = page,
                    !.target = candidate, !.known = DOMAIN displays, !.until = quiet]]
  /\ UNCHANGED <<clock, displays, keys, quiet>>

(* Not the code: the window is counted from the last midnight.             *)
SinceToday(now) == now

Since(now) == IF now < Cooldown THEN 0 ELSE now - Cooldown

Recent(now) == {d \in DOMAIN displays : displays[d].shownAt >= Since(now)}

CountShownOnPage(r) ==
  /\ req[r].phase = "page"
  /\ IF Cardinality({d \in Recent(req[r].now) : displays[d].page = req[r].page}) >= MaxModalPerPage
       THEN Finish(r)
       ELSE Go(r, "session")
  /\ UNCHANGED <<clock, displays, keys, quiet>>

CountShownInSession(r) ==
  /\ req[r].phase = "session"
  /\ IF Cardinality(Recent(req[r].now)) >= MaxModalPerSession
       THEN Finish(r)
       ELSE Go(r, IF req[r].target = None THEN "select" ELSE "shown")
  /\ UNCHANGED <<clock, displays, keys, quiet>>

(* modalCandidateIDs: the ranking's targets or, without a ranking, all the *)
(* active ones, but never the content that is being read; selectCandidate  *)
(* takes them one by one.                                                  *)
SelectCandidate(r) ==
  /\ req[r].phase = "select"
  /\ \E list \in SUBSET Target :
       IF list = {}
         THEN Finish(r)
         ELSE \E t \in list :
                req' = [req EXCEPT ![r].phase = "shown", ![r].target = t,
                                   ![r].todo = list \ {t}, ![r].selected = TRUE]
  /\ UNCHANGED <<clock, displays, keys, quiet>>

(* A candidate that fails: selectCandidate tries the next one, and Show    *)
(* itself, which checks the selected one again, does not.                  *)
Reject(r) ==
  IF ~req[r].selected
    THEN Finish(r)
    ELSE IF req[r].todo = {}
      THEN Finish(r)
      ELSE \E t \in req[r].todo :
             req' = [req EXCEPT ![r].phase = "shown", ![r].target = t, ![r].todo = @ \ {t}]

(* validateCandidate up to WasShown: the target may not be active or may   *)
(* be saved, and the check itself may fail.                                *)
CheckShown(r) ==
  /\ req[r].phase = "shown"
  /\ \/ Reject(r)
     \/ ~Alive("shown", req[r].target) /\ Go(r, "closed")
  /\ UNCHANGED <<clock, displays, keys, quiet>>

(* WasClosed.  A selected candidate now goes through the checks of Show.   *)
CheckClosed(r) ==
  /\ req[r].phase = "closed"
  /\ \/ Reject(r)
     \/ /\ ~Alive("closed", req[r].target)
        /\ req' = [req EXCEPT ![r].phase = IF req[r].selected THEN "shown" ELSE "create",
                              ![r].selected = FALSE, ![r].todo = {}]
  /\ UNCHANGED <<clock, displays, keys, quiet>>

(* displays.Create, with the clock reading of the start.                   *)
CreateDisplay(r) ==
  /\ req[r].phase = "create"
  /\ displays' = [d \in DOMAIN displays \cup {r} |->
       IF d # r THEN displays[d]
       ELSE [target |-> req[r].target, page |-> req[r].page, shownAt |-> req[r].now,
             clicked |-> FALSE, closed |-> FALSE, clickEvents |-> 0, closeEvents |-> 0,
             createdAt |-> clock, known |-> req[r].known,
             until |-> req[r].until[req[r].target]]]
  /\ req' = [req EXCEPT ![r] = [Idle EXCEPT !.phase = "flag", !.target = req[r].target]]
  /\ UNCHANGED <<clock, keys, quiet>>

---------------------------------------------------------------------------
(* Click and Close of a display that the visitor was shown.                *)
SendAction(r, kind, d) ==
  /\ req[r].phase = "unsent"
  /\ d \in DOMAIN displays
  /\ req' = [req EXCEPT ![r] = [Idle EXCEPT !.kind = kind, !.phase = "mark", !.display = d,
                                            !.target = displays[d].target]]
  /\ UNCHANGED <<clock, displays, keys, quiet>>

(* Not the code: the update does not ask whether it was marked before.     *)
MarkAgain(marked) == TRUE

Unmarked(marked) == ~marked

(* FindByIDForActor finds the row, which nothing deletes, and MarkClicked  *)
(* or MarkClosed hits it if it is not marked yet; otherwise 500.           *)
Mark(r) ==
  LET d == req[r].display
  IN  /\ req[r].phase = "mark"
      /\ \/ /\ req[r].kind = "click" /\ Unmarked(displays[d].clicked)
            /\ displays' = [displays EXCEPT ![d].clicked = TRUE]
            /\ Go(r, "event")
         \/ /\ req[r].kind = "close" /\ Unmarked(displays[d].closed)
            /\ displays' = [displays EXCEPT ![d].closed = TRUE]
            /\ Go(r, "flag")
         \/ /\ IF req[r].kind = "click" THEN ~Unmarked(displays[d].clicked)
                                        ELSE ~Unmarked(displays[d].closed)
            /\ Finish(r)
            /\ UNCHANGED displays
      /\ UNCHANGED <<clock, keys, quiet>>

(* Not the code: the key lives for what is left of the day, or as long as  *)
(* the window that the displays are counted in.                            *)
ExpiryToday(now) == now
ExpirySince(now) == now - Cooldown

Expiry(now) == now + Cooldown

(* SetShown and SetClosed: if Redis fails, nobody is told.                 *)
SetFlag(r) ==
  LET kind == IF req[r].kind = "show" THEN "shown" ELSE "closed"
      t == req[r].target
  IN  /\ req[r].phase = "flag"
      /\ \/ /\ keys' = [keys EXCEPT ![kind][t] = Expiry(clock)]
            /\ quiet' = [quiet EXCEPT ![t] = clock + Cooldown]
         \/ UNCHANGED <<keys, quiet>>
      /\ Go(r, "event")
      /\ UNCHANGED <<clock, displays>>

(* The event of a display, a click or a close, and the answer; nobody is   *)
(* told of an event that is lost either.                                   *)
CreateEvent(r) ==
  LET d == req[r].display
  IN  /\ req[r].phase = "event"
      /\ \/ displays' = CASE req[r].kind = "click" -> [displays EXCEPT ![d].clickEvents = @ + 1]
                          [] req[r].kind = "close" -> [displays EXCEPT ![d].closeEvents = @ + 1]
                          [] OTHER -> displays
         \/ UNCHANGED displays
      /\ Finish(r)
      /\ UNCHANGED <<clock, keys, quiet>>

(* The database fails where the handler gives up.                          *)
Fail(r) ==
  /\ req[r].phase \in {"page", "session", "select", "create", "mark"}
  /\ Finish(r)
  /\ UNCHANGED <<clock, displays, keys, quiet>>

Tick ==
  /\ clock < MaxTime
  /\ clock' = clock + 1
  /\ UNCHANGED <<displays, keys, quiet, req>>

Next ==
  \/ \E r \in Request :
       \/ \E page \in Page, candidate \in Target \cup {None} : SendShow(r, page, candidate)
       \/ CountShownOnPage(r) \/ CountShownInSession(r) \/ SelectCandidate(r)
       \/ CheckShown(r) \/ CheckClosed(r) \/ CreateDisplay(r)
       \/ \E kind \in {"click", "close"}, d \in Request : SendAction(r, kind, d)
       \/ Mark(r) \/ SetFlag(r) \/ CreateEvent(r) \/ Fail(r)
  \/ Tick

Spec == Init /\ [][Next]_vars

---------------------------------------------------------------------------
(* The types of the table, the keys and the requests.                      *)
TypeOK ==
  /\ clock \in Time
  /\ DOMAIN displays \subseteq Request
  /\ \A d \in DOMAIN displays : displays[d] \in Row
  /\ keys \in [KeyKind -> [Target -> Nat]]
  /\ quiet \in [Target -> Nat]
  /\ req \in [Request ->
       [kind : {"show", "click", "close"}, phase : Phase, now : Time, page : Page \cup {None},
        target : Target \cup {None}, todo : SUBSET Target, selected : BOOLEAN,
        display : Request \cup {None}, known : SUBSET Request,
        until : [Target -> Nat]]]

(* The limits hold for Shows that do not overlap: of the displays a        *)
(* visitor had already seen when a Show was sent, fewer than the limit are *)
(* within the cooldown of the one it makes, on its page and altogether.    *)
LimitsHold ==
  \A d \in DOMAIN displays :
    LET before == {e \in displays[d].known :
                     displays[e].shownAt + Cooldown >= displays[d].shownAt}
    IN  /\ Cardinality(before) < MaxModalPerSession
        /\ Cardinality({e \in before : displays[e].page = displays[d].page}) < MaxModalPerPage

(* A target that was displayed or closed, and whose suppression Redis      *)
(* took, is not displayed by a Show sent later before the whole cooldown   *)
(* is over, whether the page names it or the server selects it.            *)
SuppressionHolds ==
  \A d \in DOMAIN displays : displays[d].createdAt >= displays[d].until

(* However often it is clicked and closed, a display counts one click and  *)
(* one close at most in the metrics.                                       *)
CountedOnce ==
  \A d \in DOMAIN displays :
    displays[d].clickEvents <= 1 /\ displays[d].closeEvents <= 1
============================================================================
