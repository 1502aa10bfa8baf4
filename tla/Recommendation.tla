--------------------------- MODULE Recommendation ---------------------------
(***************************************************************************)
(* What a visitor is offered: the ranking and the recommendations, page by *)
(* page, read from content_metrics, rank_targets, interest_profiles,       *)
(* saved_items and action_events.                                          *)
(*                                                                         *)
(* Every statement of the two handlers sees a world of its own: batches    *)
(* commit, contents are published and the visitor's other tabs save and    *)
(* view in between.  A page is a set here: its order is that of the score  *)
(* and, among equals, of the id of the rank target.                        *)
(***************************************************************************)
EXTENDS Integers, Sequences, FiniteSets, FiniteSetsExt

CONSTANTS
  MaxTarget,      \* the rank targets are 1..MaxTarget
  Attribute,      \* what interest profiles and contents are compared by
  Attrs,          \* the attributes of each content
  MaxScore,       \* bound on the scores of metrics
  MaxInterest,    \* bound on the score of a profile
  Limit,          \* contents per page, at most 50
  MaxOffset,      \* the validator refuses pages beyond it (500)
  MaxFetch,       \* recommendationMaxFetchLimit (100)
  InterestLimit,  \* recommendationInterestLimit (20)
  RecentLimit,    \* recommendationRecentEventLimit (200)
  MaxChanges      \* bound on the changes while the visitor reads

Target == 1..MaxTarget

ASSUME RecommendationAssumption ==
  /\ MaxTarget \in Nat
  /\ IsFiniteSet(Attribute)
  /\ Attrs \in [Target -> SUBSET Attribute]
  /\ {MaxScore, MaxOffset, RecentLimit, InterestLimit, MaxInterest} \subseteq Nat
  /\ Limit \in Nat \ {0}
  /\ MaxFetch \in Nat
  /\ 2 * Limit <= MaxFetch

VARIABLES
  score,    \* of each target the score of its metric, or NoMetric
  active,   \* rank targets that are active
  saved,    \* what the visitor has saved
  log,      \* the visitor's events, the latest first: a view, or Other
            \* for an event of another kind and for none
  profile,  \* the visitor's interest profile; 0 is no row
  changes,  \* how often the world changed
  req       \* the page being read

vars == <<score, active, saved, log, profile, changes, req>>

NoMetric == -1
Other == 0
Event == Target \cup {Other}
Score == 0..MaxScore

Kind == {"ranking", "user", "guest"}
Phase == {"unsent", "profiles", "ranking", "saved", "viewed", "build", "done"}

Unsent == [kind |-> "ranking", phase |-> "unsent", offset |-> 0,
           interest |-> [a \in {} |-> 0], base |-> [t \in {} |-> 0], page |-> {},
           calm |-> TRUE, shown |-> {}, repeated |-> {},
           hidden |-> {}, saved |-> {}, viewed |-> {}]

---------------------------------------------------------------------------
(* ORDER BY score DESC, rank_target_id DESC.                               *)
Above(s, t, u) == s[t] > s[u] \/ (s[t] = s[u] /\ t > u)

Rank(s, S, t) == Cardinality({u \in S : Above(s, u, t)})

(* Not the code: inactive targets are listed too.                          *)
RankedAll == {t \in Target : score[t] # NoMetric}

Ranked == {t \in active : score[t] # NoMetric}

(* ListRanking: LIMIT and OFFSET of the active targets that have a metric. *)
Fetched(limit, offset) ==
  {t \in Ranked : Rank(score, Ranked, t) \in offset .. offset + limit - 1}

(* Not the code: nothing is fetched to make up for what is left out, or    *)
(* everybody gets what is fetched for a user.                              *)
FetchPage(kind, hasProfiles) == Limit
FetchTwice(kind, hasProfiles) == 2 * Limit

FetchLimit(kind, hasProfiles) ==
  LET wanted == CASE kind = "ranking" -> Limit
                  [] kind # "ranking" /\ hasProfiles -> 4 * Limit
                  [] kind = "user" /\ ~hasProfiles -> 2 * Limit
                  [] OTHER -> Limit
  IN  IF wanted > MaxFetch THEN MaxFetch ELSE wanted

(* Not the code: events of other kinds are not told from views.            *)
ViewedOrOther == {log[i] : i \in {j \in DOMAIN log : j <= RecentLimit}}

(* FindRecentByActor counts events of every kind; views and clicks matter. *)
Viewed == {log[i] : i \in {j \in DOMAIN log : j <= RecentLimit}} \ {Other}

Rows == {a \in Attribute : profile[a] > 0}

(* ListTopByUser, ListTopByGuest: of equal scores any may come first.      *)
IsTop(P) ==
  /\ P \subseteq Rows
  /\ Cardinality(P) <= InterestLimit
  /\ P # Rows => Cardinality(P) = InterestLimit
  /\ \A a \in P, b \in Rows \ P : profile[a] >= profile[b]

(* Not the code: the reasons are subtracted.                               *)
InterestAgainst(interest, t) ==
  0 - MapThenSumSet(LAMBDA a : interest[a], Attrs[t] \cap DOMAIN interest)

(* The reasons for a candidate are the profiles that match its content.    *)
Interest(interest, t) ==
  MapThenSumSet(LAMBDA a : interest[a], Attrs[t] \cap DOMAIN interest)

(* Sorted and trimmed.                                                     *)
Best(s, S) == {t \in S : Rank(s, S, t) < Limit}

---------------------------------------------------------------------------
(* The world before the visitor comes: a guest has saved nothing, and for  *)
(* the ranking, which is the same for all, nobody has done anything.  What *)
(* was unpublished since the last batch is left to Publication.            *)
Init ==
  /\ score \in [Target -> Score \cup {NoMetric}]
  /\ active = {t \in Target : score[t] # NoMetric}
  /\ saved \in SUBSET Target
  /\ log \in [1..RecentLimit -> Event]
  /\ profile \in [Attribute -> 0..MaxInterest]
  /\ changes = 0
  /\ \E kind \in Kind : req = [Unsent EXCEPT !.kind = kind]
  /\ req.kind # "user" => saved = {}
  /\ req.kind = "ranking" => Viewed = {} /\ Rows = {}

(* History: "hidden", "saved" and "viewed" keep what stays so till the end *)
(* of the page.                                                            *)
Ask(offset) ==
  [req EXCEPT !.offset = offset,
              !.phase = IF req.kind = "ranking" THEN "ranking" ELSE "profiles",
              !.interest = [a \in {} |-> 0], !.base = [t \in {} |-> 0], !.page = {},
              !.hidden = Target \ active,
              !.saved = IF req.kind = "user" THEN saved ELSE {},
              !.viewed = IF req.kind = "ranking" THEN {} ELSE Viewed]

(* The first page of the ranking, or of the recommendations to somebody    *)
(* logged in or not.                                                       *)
Send ==
  /\ req.phase = "unsent"
  /\ req' = Ask(0)
  /\ UNCHANGED <<score, active, saved, log, profile, changes>>

(* The page after the one that was read.                                   *)
SendNext ==
  /\ req.phase = "done"
  /\ req.offset + Limit <= MaxOffset
  /\ req' = Ask(req.offset + Limit)
  /\ UNCHANGED <<score, active, saved, log, profile, changes>>

LoadInterestProfiles ==
  /\ req.phase = "profiles"
  /\ \E P \in SUBSET Rows :
       /\ IsTop(P)
       /\ req' = [req EXCEPT !.phase = "ranking", !.interest = [a \in P |-> profile[a]]]
  /\ UNCHANGED <<score, active, saved, log, profile, changes>>

ListRanking ==
  /\ req.phase = "ranking"
  /\ LET page == Fetched(FetchLimit(req.kind, DOMAIN req.interest # {}), req.offset)
     IN  req' = [req EXCEPT !.base = [t \in page |-> score[t]], !.page = page,
                            !.phase = CASE req.kind = "user" -> "saved"
                                        [] req.kind = "guest" -> "viewed"
                                        [] OTHER -> "build"]
  /\ UNCHANGED <<score, active, saved, log, profile, changes>>

FilterSaved ==
  /\ req.phase = "saved"
  /\ req' = [req EXCEPT !.phase = "viewed", !.page = @ \ saved]
  /\ UNCHANGED <<score, active, saved, log, profile, changes>>

FilterViewed ==
  /\ req.phase = "viewed"
  /\ req' = [req EXCEPT !.phase = "build", !.page = @ \ Viewed]
  /\ UNCHANGED <<score, active, saved, log, profile, changes>>

(* buildRecommendationItems, the sort by the boosted score, the trimming   *)
(* and the answer.  For the ranking nothing is boosted nor trimmed.        *)
Build ==
  /\ req.phase = "build"
  /\ LET boosted == [t \in req.page |-> req.base[t] + Interest(req.interest, t)]
         answer == IF req.kind = "ranking" THEN req.page ELSE Best(boosted, req.page)
     IN  req' = [req EXCEPT !.phase = "done", !.page = answer,
                            !.base = [t \in {} |-> 0], !.interest = [a \in {} |-> 0],
                            !.shown = IF req.calm THEN @ \cup answer ELSE {},
                            !.repeated = IF req.calm THEN @ \cup (req.shown \cap answer) ELSE {}]
  /\ UNCHANGED <<score, active, saved, log, profile, changes>>

(* A statement fails, and the page is asked for again.                     *)
Fail ==
  /\ req.phase \notin {"unsent", "done"}
  /\ req' = Ask(req.offset)
  /\ UNCHANGED <<score, active, saved, log, profile, changes>>

---------------------------------------------------------------------------
(* The world changes, and the reader's pages no longer belong together.    *)
(* What changes between two pages may as well change when the second one   *)
(* is asked for.                                                           *)
Change ==
  /\ req.phase \notin {"unsent", "done"}
  /\ changes < MaxChanges
  /\ changes' = changes + 1
  /\ req' = [req EXCEPT !.calm = FALSE, !.shown = {}, !.repeated = {},
                        !.hidden = @ \ active', !.saved = @ \cap saved', !.viewed = @ \cap Viewed']

(* A ranking batch commits: metrics appear and change, and none goes.      *)
CommitMetrics ==
  /\ score' \in [Target -> Score \cup {NoMetric}]
  /\ \A t \in Target : score'[t] = NoMetric => score[t] = NoMetric
  /\ UNCHANGED <<active, saved, log, profile>>
  /\ Change

Publication(t) ==
  /\ active' = IF t \in active THEN active \ {t} ELSE active \cup {t}
  /\ UNCHANGED <<score, saved, log, profile>>
  /\ Change

SaveOrRemove(t) ==
  /\ req.kind = "user"
  /\ saved' = IF t \in saved THEN saved \ {t} ELSE saved \cup {t}
  /\ UNCHANGED <<score, active, log, profile>>
  /\ Change

CreateEvent(e) ==
  /\ log' = <<e>> \o log
  /\ UNCHANGED <<score, active, saved, profile>>
  /\ Change

(* The interest batch stores a profile, or the cleanup deletes it.         *)
StoreProfile(a, n) ==
  /\ profile' = [profile EXCEPT ![a] = n]
  /\ UNCHANGED <<score, active, saved, log>>
  /\ Change

Next ==
  \/ Send \/ SendNext
  \/ LoadInterestProfiles \/ ListRanking \/ FilterSaved \/ FilterViewed \/ Build
  \/ Fail
  \/ CommitMetrics
  \/ \E t \in Target : Publication(t) \/ SaveOrRemove(t)
  \/ \E e \in Event : CreateEvent(e)
  \/ \E a \in Attribute, n \in 0..MaxInterest : StoreProfile(a, n)

Spec == Init /\ [][Next]_vars

---------------------------------------------------------------------------
(* The types of the tables and of the page.                                *)
TypeOK ==
  /\ score \in [Target -> Score \cup {NoMetric}]
  /\ active \subseteq Target
  /\ saved \subseteq Target
  /\ log \in Seq(Event)
  /\ profile \in [Attribute -> 0..MaxInterest]
  /\ changes \in Nat
  /\ req.kind \in Kind /\ req.phase \in Phase /\ req.offset \in Nat /\ req.calm \in BOOLEAN
  /\ {req.page, req.shown, req.repeated, req.hidden, req.saved, req.viewed} \subseteq SUBSET Target
  /\ \E P \in SUBSET Attribute : req.interest \in [P -> 1..MaxInterest]
  /\ \E S \in SUBSET Target : req.base \in [S -> Score]

(* A page offers nothing that was hidden, or saved by the visitor, or one  *)
(* of the latest things viewed, all the time it was read, whatever batches *)
(* and other tabs did between the statements.                              *)
NothingUnwanted ==
  req.phase = "done" => req.page \cap (req.hidden \cup req.saved \cup req.viewed) = {}

(* In a world that stands still: what the visitor could be offered.        *)
Wanted ==
  Ranked \ (CASE req.kind = "user" -> saved \cup Viewed
              [] req.kind = "guest" -> Viewed
              [] OTHER -> {})

Undisturbed == req.phase = "done" /\ req.calm

(* Without a profile the pages skip nothing: whatever can be offered and   *)
(* is ranked before the end of this page has been shown by now.  Those of  *)
(* the ranking, and those of a guest, show nothing twice.                  *)
PagesSkipNothing ==
  Undisturbed /\ (Rows = {} \/ req.kind = "ranking") =>
    /\ \A t \in Wanted : Rank(score, Ranked, t) < req.offset + Limit => t \in req.shown
    /\ req.kind # "user" => req.repeated = {}

(* The surplus: what a user has saved and viewed does not shorten a page,  *)
(* as long as it is no more than a page itself.                            *)
SurplusSuffices ==
  LET after == {t \in Ranked : Rank(score, Ranked, t) >= req.offset}
  IN  Undisturbed /\ req.kind = "user"
      /\ Cardinality(after \ Wanted) <= Limit /\ Cardinality(after \cap Wanted) >= Limit
        => Cardinality(req.page) = Limit

(* Interest never sets a content back: of two that can be offered on this  *)
(* page, one that ranks higher and has all the attributes of the other is  *)
(* not left out for it.                                                    *)
BetterIsNotLeftOut ==
  Undisturbed =>
    \A t \in req.page, u \in Wanted :
      /\ Rank(score, Ranked, u) >= req.offset
      /\ Above(score, u, t)
      /\ Attrs[t] \subseteq Attrs[u]
      => u \in req.page
============================================================================
