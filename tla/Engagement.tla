---------------------------- MODULE Engagement ----------------------------
(***************************************************************************)
(* What visitors do with ranked contents: tables saved_items, ratings and  *)
(* action_events, and the dedup keys in Redis.                             *)
(*                                                                         *)
(* A request is a handler of SavedItemUsecase, RatingUsecase or            *)
(* EventUsecase.  None of them uses a transaction: each statement is an    *)
(* action of its own and requests of several tabs come in between.  One    *)
(* UPDATE, upsert or DELETE of one row acts as one step at READ COMMITTED, *)
(* because PostgreSQL evaluates its condition again after a wait.          *)
(***************************************************************************)
EXTENDS Naturals, FiniteSets

CONSTANTS
  Request,  \* the requests of a behaviour, each sent at most once
  User,     \* visitors that are logged in
  Guest,    \* visitors that are not
  Target,   \* rank targets
  ViewKind, \* the events that are deduplicated: "impression" and "content_view"
  MaxGuest  \* bound: requests of guests

ASSUME EngagementAssumption == User \cap Guest = {}

VARIABLES
  active,   \* rank targets that are active
  saved,    \* per user and target: the row of saved_items and its removed_at
  rating,   \* per user and target: the row of ratings and its score
  life,     \* per kind and target: how often its dedup key was set
  keys,     \* the dedup keys that are set
  lastHash, \* per visitor: the latest re_search event that is stored
  req       \* what each request asks for, where it is, and its answer

vars == <<active, saved, rating, life, keys, lastHash, req>>

Actor == User \cup Guest
Good == "good"
Bad == "bad"
Score == {Good, Bad}
NoOne == "none"

(* The hash of the previous conditions that a search was sent with.        *)
Sent == "sent"

SavedState == {"none", "saved", "removed"}
RatingState == Score \cup {"none"}

(* What is asked for.  A view that is sent without a dedup key stands for  *)
(* a click and a stay too, which have none and are handled the same way.   *)
SavedKind == {"save", "remove", "exists"}
RatingKind == {"rate_good", "rate_bad", "unrate", "get"}
UserKind == SavedKind \cup RatingKind
EventKind == ViewKind \cup {"re_search"}
Kind == UserKind \cup EventKind

ASSUME ViewKindAssumption == ViewKind \cap (UserKind \cup {"re_search"}) = {}

(* The page builds the key of an impression or a view from the kind and    *)
(* the content; who sends it is not part of it.                            *)
DedupKey == ViewKind \X Target
KeyOf(q) == <<q.kind, q.target>>

Phase == {"unsent", "check", "dedup", "previous", "write", "reread", "event", "done"}
Answer == SavedState \cup RatingState \cup
            {"pending", "done", "error", "unsure", "notfound", "stored", "dropped"}

(* Not the code: the event's name goes into the column of the score.       *)
ScoreRaw(kind) == kind

ScoreOf(kind) == IF kind = "rate_good" THEN Good ELSE Bad

Unsent == [kind |-> "save", actor |-> NoOne, target |-> NoOne, phase |-> "unsent",
           given |-> FALSE, answer |-> "pending", life |-> 0, previous |-> NoOne,
           dated |-> NoOne, alone |-> TRUE, before |-> "none"]

Init ==
  /\ active \in SUBSET Target
  /\ saved = [p \in User \X Target |-> "none"]
  /\ rating = [p \in User \X Target |-> "none"]
  /\ life = [k \in DedupKey |-> 0]
  /\ keys = {}
  /\ lastHash = [a \in Actor |-> NoOne]
  /\ req = [r \in Request |-> Unsent]

(* History: the request is no longer the only one of its visitor.          *)
Disturbed(q) == [q EXCEPT !.alone = FALSE, !.before = "none"]

InFlight(r) == req[r].phase \notin {"unsent", "done"}

Is(r, kinds, phase) == req[r].kind \in kinds /\ req[r].phase = phase

Go(r, phase) == req' = [req EXCEPT ![r].phase = phase]

Finish(r, answer) == req' = [req EXCEPT ![r].phase = "done", ![r].answer = answer]

(* The database did it, but its answer may be lost: then the client is     *)
(* told of an error.                                                       *)
Acknowledge(r, answer) == Finish(r, answer) \/ Finish(r, "unsure")

---------------------------------------------------------------------------
(* What follows the check of the target.  An impression or a view goes     *)
(* through its dedup key if it has one.                                    *)
NextPhase(kind, given) ==
  CASE kind \in ViewKind -> IF given THEN "dedup" ELSE "event"
    [] kind = "re_search" -> "previous"
    [] OTHER -> "write"

(* Save, Rate and Record check the target first, if there is one; the      *)
(* other handlers go to their row directly.                                *)
Checking == {"save", "rate_good", "rate_bad"} \cup EventKind

FirstPhase(kind, target, given) ==
  IF kind \in Checking /\ target # NoOne THEN "check" ELSE NextPhase(kind, given)

(* History: what the sender would see of its own rows now, and whether its *)
(* other requests or a publication come in between (for AloneAnswers).     *)
Missing(target) == target # NoOne /\ target \notin active

Seen(kind, actor, target, given) ==
  CASE kind \in {"remove", "exists"} -> saved[actor, target]
    [] kind \in {"unrate", "get"} -> rating[actor, target]
    [] kind \in Checking /\ Missing(target) -> "notfound"
    [] kind = "re_search" /\ ~Missing(target) -> IF given THEN Sent ELSE lastHash[actor]
    [] OTHER -> "done"
Tracked == UserKind \cup {"re_search"}

(* The routes of saved items and ratings are for users, events come from   *)
(* both.                                                                   *)
Permitted(kind, actor) == kind \in UserKind => actor \in User

(* The event validator asks for a target, except of a re_search, which has *)
(* the hash of its conditions and may have a target all the same.  Two     *)
(* fields are optional: the dedup key of an impression or a view, and the  *)
(* previous conditions of a re_search.                                     *)
WellFormed(kind, target, given) ==
  /\ target = NoOne => kind = "re_search"
  /\ given => kind \in ViewKind \cup {"re_search"}

GuestRoom(actor) ==
  actor \in Guest => Cardinality({s \in Request : req[s].actor \in Guest}) < MaxGuest

Send(r, kind, actor, target, given) ==
  LET rivals == {s \in Request : InFlight(s) /\ req[s].actor = actor}
      alone == kind \in Tracked /\ rivals = {}
  IN  /\ req[r].phase = "unsent"
      /\ Permitted(kind, actor) /\ GuestRoom(actor)
      /\ WellFormed(kind, target, given)
      /\ req' = [s \in Request |->
                  CASE s = r ->
                         [Unsent EXCEPT !.kind = kind, !.actor = actor, !.target = target,
                                        !.given = given, !.phase = FirstPhase(kind, target, given),
                                        !.previous = IF kind = "re_search" /\ given THEN Sent ELSE NoOne,
                                        !.alone = alone,
                                        !.before = IF alone THEN Seen(kind, actor, target, given)
                                                            ELSE "none"]
                    [] s \in rivals -> Disturbed(req[s])
                    [] OTHER -> req[s]]
      /\ UNCHANGED <<active, saved, rating, life, keys, lastHash>>

(* ensureActiveRankTarget, ExistsActiveByID.                               *)
CheckTarget(r) ==
  /\ req[r].phase = "check"
  /\ IF req[r].target \in active
       THEN Go(r, NextPhase(req[r].kind, req[r].given))
       ELSE Finish(r, "notfound")
  /\ UNCHANGED <<active, saved, rating, life, keys, lastHash>>

(* Not the code: the upsert leaves removed_at as it is.                    *)
RestoredLazily(old) == IF old = "removed" THEN "removed" ELSE "saved"

Restored(old) == "saved"

(* SaveOrRestore up to its upsert.                                         *)
SaveOrRestore(r) ==
  /\ Is(r, {"save"}, "write")
  /\ saved' = [saved EXCEPT ![<<req[r].actor, req[r].target>>] = Restored(@)]
  /\ Go(r, "reread")
  /\ UNCHANGED <<active, rating, life, keys, lastHash>>

(* Remove: no row with removed_at NULL is an error, answered with 500.     *)
Remove(r) ==
  /\ Is(r, {"remove"}, "write")
  /\ IF saved[req[r].actor, req[r].target] = "saved"
       THEN /\ saved' = [saved EXCEPT ![<<req[r].actor, req[r].target>>] = "removed"]
            /\ Acknowledge(r, "done")
       ELSE Finish(r, "error") /\ UNCHANGED saved
  /\ UNCHANGED <<active, rating, life, keys, lastHash>>

(* Upsert up to its upsert.                                                *)
Upsert(r) ==
  /\ Is(r, {"rate_good", "rate_bad"}, "write")
  /\ rating' = [rating EXCEPT ![<<req[r].actor, req[r].target>>] = ScoreOf(req[r].kind)]
  /\ Go(r, "reread")
  /\ UNCHANGED <<active, saved, life, keys, lastHash>>

Delete(r) ==
  /\ Is(r, {"unrate"}, "write")
  /\ IF rating[req[r].actor, req[r].target] # "none"
       THEN /\ rating' = [rating EXCEPT ![<<req[r].actor, req[r].target>>] = "none"]
            /\ Acknowledge(r, "done")
       ELSE Finish(r, "error") /\ UNCHANGED rating
  /\ UNCHANGED <<active, saved, life, keys, lastHash>>

(* Exists and List of saved items, Get and List of ratings.                *)
Look(r) ==
  /\ \/ Is(r, {"exists"}, "write") /\ Finish(r, saved[req[r].actor, req[r].target])
     \/ Is(r, {"get"}, "write") /\ Finish(r, rating[req[r].actor, req[r].target])
  /\ UNCHANGED <<active, saved, rating, life, keys, lastHash>>

(* FindByUserAndTarget after an upsert.  The row read is the answer, and   *)
(* without one the handler ends with 404 and no event.                     *)
Reread(r) ==
  LET row == IF req[r].kind = "save" THEN saved[req[r].actor, req[r].target]
                                     ELSE rating[req[r].actor, req[r].target]
  IN  /\ req[r].phase = "reread"
      /\ IF row = "none"
           THEN Finish(r, "notfound")
           ELSE req' = [req EXCEPT ![r].phase = "event", ![r].answer = row]
      /\ UNCHANGED <<active, saved, rating, life, keys, lastHash>>

(* Not the code: the key is written whether or not it is there.            *)
AnyKey(k) == TRUE

KeyIsFree(k) == k \notin keys

(* SetIfNotExists: whoever does not set the key is answered with 204.      *)
SetIfNotExists(r) ==
  LET k == KeyOf(req[r])
  IN  /\ req[r].phase = "dedup"
      /\ IF KeyIsFree(k)
           THEN /\ keys' = keys \cup {k}
                /\ life' = [life EXCEPT ![k] = IF k \in keys THEN @ ELSE @ + 1]
                /\ req' = [req EXCEPT ![r].phase = "event", ![r].life = life'[k]]
           ELSE /\ req' = [req EXCEPT ![r].phase = "done", ![r].answer = "dropped",
                                      ![r].life = life[k]]
                /\ UNCHANGED <<keys, life>>
      /\ UNCHANGED <<active, saved, rating, lastHash>>

(* FindLastSearchHash, unless the sender gave the previous conditions, and *)
(* the event is dated.                                                     *)
FindLastSearchHash(r) ==
  /\ req[r].phase = "previous"
  /\ req' = [req EXCEPT ![r].phase = "event",
                        ![r].previous = IF req[r].given THEN @ ELSE lastHash[req[r].actor],
                        ![r].dated = lastHash[req[r].actor]]
  /\ UNCHANGED <<active, saved, rating, life, keys, lastHash>>

(* The event is stored; of searches that overlap, the one dated last wins, *)
(* whichever that is.  An event that accompanies a save or a rating may be *)
(* lost without a word, and the answer was settled before.                 *)
CreateEvent(r) ==
  /\ req[r].phase = "event"
  /\ IF req[r].kind = "re_search"
       THEN \/ lastHash' = [lastHash EXCEPT ![req[r].actor] = r]
            \/ req[r].dated # lastHash[req[r].actor] /\ UNCHANGED lastHash
       ELSE UNCHANGED lastHash
  /\ IF req[r].kind \in EventKind THEN Acknowledge(r, "stored") ELSE Finish(r, req[r].answer)
  /\ UNCHANGED <<active, saved, rating, life, keys>>

(* A statement fails and changes nothing.                                  *)
Fail(r) ==
  /\ InFlight(r)
  /\ Finish(r, IF req[r].phase = "event" /\ req[r].kind \in UserKind
                 THEN req[r].answer ELSE "error")
  /\ UNCHANGED <<active, saved, rating, life, keys, lastHash>>

(* A dedup key is set and the answer of Redis is lost.                     *)
LoseSetAnswer(r) ==
  LET k == KeyOf(req[r])
  IN  /\ req[r].phase = "dedup"
      /\ KeyIsFree(k)
      /\ keys' = keys \cup {k}
      /\ life' = [life EXCEPT ![k] = @ + 1]
      /\ req' = [req EXCEPT ![r].phase = "done", ![r].answer = "error", ![r].life = life'[k]]
      /\ UNCHANGED <<active, saved, rating, lastHash>>

---------------------------------------------------------------------------
(* The TTL of a dedup key is over.                                         *)
ExpireKey(k) ==
  /\ k \in keys
  /\ keys' = keys \ {k}
  /\ UNCHANGED <<active, saved, rating, life, lastHash, req>>

(* Publish or Unpublish commits.                                           *)
Publication(t) ==
  /\ active' = IF t \in active THEN active \ {t} ELSE active \cup {t}
  /\ req' = [s \in Request |-> IF InFlight(s) /\ req[s].target = t
                                 THEN Disturbed(req[s]) ELSE req[s]]
  /\ UNCHANGED <<saved, rating, life, keys, lastHash>>

Next ==
  \/ \E r \in Request :
       \/ \E kind \in Kind, actor \in Actor, target \in Target \cup {NoOne},
             given \in BOOLEAN : Send(r, kind, actor, target, given)
       \/ CheckTarget(r) \/ SaveOrRestore(r) \/ Remove(r) \/ Upsert(r) \/ Delete(r)
       \/ Look(r) \/ Reread(r) \/ SetIfNotExists(r) \/ FindLastSearchHash(r)
       \/ CreateEvent(r) \/ Fail(r) \/ LoseSetAnswer(r)
  \/ \E k \in DedupKey : ExpireKey(k)
  \/ \E t \in Target : Publication(t)

Spec == Init /\ [][Next]_vars

---------------------------------------------------------------------------
(* The types of the tables, the keys and the requests.                     *)
TypeOK ==
  /\ active \subseteq Target
  /\ saved \in [User \X Target -> SavedState]
  /\ rating \in [User \X Target -> RatingState]
  /\ life \in [DedupKey -> Nat]
  /\ keys \subseteq DedupKey
  /\ lastHash \in [Actor -> Request \cup {NoOne}]
  /\ req \in [Request ->
       [kind : Kind, actor : Actor \cup {NoOne}, target : Target \cup {NoOne}, given : BOOLEAN,
        phase : Phase, answer : Answer, life : Nat, previous : Request \cup {NoOne, Sent},
        dated : Request \cup {NoOne}, alone : BOOLEAN,
        before : Answer \cup Request \cup {NoOne, Sent}]]

(* Impressions and views count once: of the requests with one dedup key at *)
(* most one is stored while the key lives, whatever overlaps.              *)
StoredOncePerLife ==
  \A r, s \in Request :
    /\ req[r].kind \in ViewKind /\ KeyOf(req[r]) = KeyOf(req[s]) /\ req[r].given /\ req[s].given
    /\ req[r].life = req[s].life
    /\ {req[r].answer, req[s].answer} \subseteq {"stored", "unsure"}
    => r = s

(* What a handler answers a visitor without other tabs, when no            *)
(* publication comes in between, is what the visitor's own rows said when  *)
(* the request was sent: only overlapping requests are told of rows that   *)
(* were changed between two statements of theirs.  A search is stored with *)
(* the previous conditions it was sent with, or else those of the          *)
(* visitor's own last search, and only if its target, if any, is active.   *)
Told(q) == IF q.kind = "re_search" /\ q.answer = "stored" THEN q.previous ELSE q.answer

Expected(q) ==
  CASE q.kind = "save" -> IF q.before = "done" THEN "saved" ELSE q.before
    [] q.kind \in {"rate_good", "rate_bad"} ->
         IF q.before = "done" THEN ScoreOf(q.kind) ELSE q.before
    [] q.kind = "remove" -> IF q.before = "saved" THEN "done" ELSE "error"
    [] q.kind = "unrate" -> IF q.before = "none" THEN "error" ELSE "done"
    [] OTHER -> q.before

AloneAnswers ==
  \A r \in Request :
    req[r].phase = "done" /\ req[r].alone /\ req[r].answer \notin {"error", "unsure"} =>
      Told(req[r]) = Expected(req[r])

---------------------------------------------------------------------------
(* What the comments call a duplicate: an event that is dropped is one of  *)
(* the same visitor that is stored, or about to be.  The code does not     *)
(* keep this.                                                              *)
DroppedWasSent ==
  \A r \in Request : req[r].answer = "dropped" =>
    \E s \in Request :
      /\ req[s].actor = req[r].actor
      /\ KeyOf(req[s]) = KeyOf(req[r]) /\ req[s].life = req[r].life
      /\ req[s].phase = "event" \/ req[s].answer \in {"stored", "unsure"}
============================================================================
