-------------------------- MODULE EngagementProofs ---------------------------
(***************************************************************************)
(* Proofs about Engagement, for any number of requests, visitors and       *)
(* targets.                                                                *)
(***************************************************************************)
EXTENDS Engagement, TLAPS

-----------------------------------------------------------------------------
(* The inductive invariant *)

Req == [kind : Kind, actor : Actor \cup {NoOne}, target : Target \cup {NoOne}, given : BOOLEAN,
        phase : Phase, answer : Answer, life : Nat, previous : Request \cup {NoOne, Sent},
        dated : Request \cup {NoOne}, alone : BOOLEAN,
        before : Answer \cup Request \cup {NoOne, Sent}]

TableTypes ==
  /\ active \subseteq Target
  /\ saved \in [User \X Target -> SavedState]
  /\ rating \in [User \X Target -> RatingState]
  /\ life \in [DedupKey -> Nat]
  /\ keys \subseteq DedupKey
  /\ lastHash \in [Actor -> Request \cup {NoOne}]

(* The statements that save and rate have in common. *)
Upserting == {"save", "rate_good", "rate_bad"}

(* Which statements a handler of each kind has, and who may ask for it. *)
PhaseOK(q) ==
  /\ q.phase = "check" => q.kind \in Upserting \cup EventKind
  /\ q.phase = "dedup" => q.kind \in ViewKind /\ q.given
  /\ q.phase = "previous" => q.kind = "re_search"
  /\ q.phase = "write" => q.kind \in UserKind
  /\ q.phase = "reread" => q.kind \in Upserting
  /\ q.phase = "event" => q.kind \in Upserting \cup EventKind
  /\ q.phase \notin {"unsent", "done"} =>
       /\ q.actor \in Actor
       /\ q.kind \in UserKind => q.actor \in User
       /\ q.kind # "re_search" => q.target \in Target
       /\ q.kind = "re_search" /\ q.given => q.previous = Sent

PhasesOK == \A r \in Request : PhaseOK(req[r])

(* An impression or view has set its dedup key and is stored or may be.    *)
Claims(q) ==
  /\ q.kind \in ViewKind /\ q.given
  /\ q.phase = "event" \/ q.answer \in {"stored", "unsure"}

(* A claim is to one life of the key, which has begun, and is the only one. *)
ClaimsOK ==
  /\ \A r \in Request : Claims(req[r]) =>
       KeyOf(req[r]) \in DedupKey /\ req[r].life <= life[KeyOf(req[r])]
  /\ \A r, s \in Request :
       /\ Claims(req[r]) /\ Claims(req[s])
       /\ KeyOf(req[r]) = KeyOf(req[s]) /\ req[r].life = req[s].life
       => r = s
  /\ \A r \in Request : req[r].phase = "unsent" => req[r].answer = "pending"

(* What an undisturbed request has read and written so far is what its     *)
(* visitor saw when it was sent.                                           *)
ReadsOK(r) ==
  LET q == req[r]
  IN  /\ q.kind \in Tracked
      /\ q.kind \in Upserting =>
           /\ q.before = IF q.phase = "check" /\ q.target \notin active THEN "notfound" ELSE "done"
           /\ q.phase = "reread" =>
                Expected(q) = IF q.kind = "save" THEN saved[q.actor, q.target]
                                                 ELSE rating[q.actor, q.target]
           /\ q.phase = "event" => q.answer = Expected(q)
      /\ q.kind \in {"remove", "exists"} => q.before = saved[q.actor, q.target]
      /\ q.kind \in {"unrate", "get"} => q.before = rating[q.actor, q.target]
      /\ q.kind = "re_search" =>
           q.before = IF q.phase = "check" /\ q.target \notin active THEN "notfound"
                      ELSE IF q.phase = "event" \/ q.given THEN q.previous
                      ELSE lastHash[q.actor]

(* Nobody else of the same visitor is under way, and the reads are right.  *)
AloneOK ==
  /\ \A r, s \in Request :
       InFlight(r) /\ InFlight(s) /\ req[r].actor = req[s].actor /\ req[r].alone => r = s
  /\ \A r \in Request : InFlight(r) /\ req[r].alone => ReadsOK(r)

(* AloneAnswers says this of every request.                                *)
AnswerOK(r) ==
  req[r].phase = "done" /\ req[r].alone /\ req[r].answer \notin {"error", "unsure"} =>
    Told(req[r]) = Expected(req[r])

IInv == TypeOK /\ PhasesOK /\ ClaimsOK /\ AloneOK /\ AloneAnswers

-----------------------------------------------------------------------------
(* Steps of one request *)

(* The step is one of request r: the other requests and what r asks for    *)
(* stay as they are.                                                       *)
Advances(r) ==
  /\ req' \in [Request -> Req]
  /\ \A s \in Request : s # r => req'[s] = req[s]
  /\ req'[r].kind = req[r].kind
  /\ req'[r].actor = req[r].actor
  /\ req'[r].target = req[r].target
  /\ req'[r].given = req[r].given
  /\ req'[r].alone = req[r].alone
  /\ req'[r].before = req[r].before

(* The step changes no rows but those of r's visitor, and takes no life of *)
(* a dedup key back.                                                       *)
OwnRows(r) ==
  /\ active' = active
  /\ \A u \in User, t \in Target : u # req[r].actor =>
       saved'[u, t] = saved[u, t] /\ rating'[u, t] = rating[u, t]
  /\ \A a \in Actor : a # req[r].actor => lastHash'[a] = lastHash[a]
  /\ \A k \in DedupKey : life[k] <= life'[k]

(* TypeOK by its parts.                                                    *)
LEMMA Types == TypeOK <=> TableTypes /\ req \in [Request -> Req]
  BY DEF TypeOK, TableTypes, Req

LEMMA GoStep ==
  ASSUME req \in [Request -> Req], NEW r \in Request, NEW phase \in Phase, Go(r, phase)
  PROVE  /\ Advances(r)
         /\ req'[r].phase = phase
         /\ req'[r].answer = req[r].answer
         /\ req'[r].life = req[r].life
         /\ req'[r].previous = req[r].previous
  BY DEF Go, Advances, Req

LEMMA FinishStep ==
  ASSUME req \in [Request -> Req], NEW r \in Request, NEW answer \in Answer, Finish(r, answer)
  PROVE  /\ Advances(r)
         /\ req'[r].phase = "done"
         /\ req'[r].answer = answer
         /\ req'[r].life = req[r].life
         /\ req'[r].previous = req[r].previous
  BY ZenonT(60) DEF Finish, Advances, Req, Phase

(* Two requests under way, one of which is undisturbed, are of different   *)
(* visitors, so that a step of one leaves the rows of the other alone.     *)
LEMMA OthersUndisturbed ==
  ASSUME IInv, NEW r \in Request, NEW s \in Request, s # r,
         InFlight(r), InFlight(s), req[s].alone,
         Advances(r), OwnRows(r)
  PROVE  ReadsOK(s)'
<1>1. req' \in [Request -> Req] /\ req \in [Request -> Req] /\ req'[s] = req[s] /\ active' = active
  BY Types DEF IInv, Advances, OwnRows
<1>2. ReadsOK(s) /\ PhaseOK(req[s]) /\ req[s].actor # req[r].actor
  BY DEF IInv, AloneOK, PhasesOK
<1>3. /\ req[s].actor \in Actor
      /\ req[s].kind \in UserKind => req[s].actor \in User
      /\ req[s].kind # "re_search" => req[s].target \in Target
  BY <1>2 DEF PhaseOK, InFlight
<1>4. req[s].kind \in UserKind =>
        /\ saved'[req[s].actor, req[s].target] = saved[req[s].actor, req[s].target]
        /\ rating'[req[s].actor, req[s].target] = rating[req[s].actor, req[s].target]
  BY <1>2, <1>3 DEF OwnRows, UserKind, SavedKind, RatingKind
<1>5. lastHash'[req[s].actor] = lastHash[req[s].actor]
  BY <1>2, <1>3 DEF OwnRows
<1> QED
  BY <1>1, <1>2, <1>4, <1>5 DEF ReadsOK, Upserting, UserKind, SavedKind, RatingKind

(* A claim that r holds after the step is the one it held, or one to a life *)
(* of the key that begins with the step.                                   *)
KeepsOrTakes(r) ==
  Claims(req'[r]) =>
    \/ Claims(req[r]) /\ req'[r].life = req[r].life
    \/ /\ KeyOf(req[r]) \in DedupKey
       /\ req'[r].life = life'[KeyOf(req[r])]
       /\ life[KeyOf(req[r])] < req'[r].life

(* What is left to show of a step of r when the other requests are seen to. *)
LEMMA OwnStep ==
  ASSUME IInv, NEW r \in Request, InFlight(r), Advances(r), OwnRows(r), TableTypes',
         req'[r].phase # "unsent",
         PhaseOK(req'[r]),
         KeepsOrTakes(r),
         InFlight(r)' /\ req[r].alone => ReadsOK(r)',
         AnswerOK(r)'
  PROVE  IInv'
<1>1. TypeOK'
  BY Types DEF Advances, TypeOK, TableTypes, Req
<1>2. PhasesOK'
  BY DEF IInv, PhasesOK, Advances
<1>3. \A s \in Request : KeyOf(req'[s]) = KeyOf(req[s])
  BY DEF Advances, KeyOf
<1>4. ClaimsOK'
  <2>1. \A s \in Request : Claims(req'[s]) /\ (s # r \/ (Claims(req[r]) /\ req'[r].life = req[r].life)) =>
          Claims(req[s]) /\ req'[s].life = req[s].life
    BY DEF Advances, Claims
  <2>2. life \in [DedupKey -> Nat] /\ life' \in [DedupKey -> Nat]
    BY Types DEF IInv, TableTypes
  <2>3. \A s \in Request : req[s].life \in Nat /\ req'[s].life \in Nat
    BY Types DEF IInv, Req, Advances
  <2>4. \A s \in Request : Claims(req'[s]) =>
          KeyOf(req[s]) \in DedupKey /\ req'[s].life <= life'[KeyOf(req[s])]
    <3> SUFFICES ASSUME NEW s \in Request, Claims(req'[s])
                 PROVE  KeyOf(req[s]) \in DedupKey /\ req'[s].life <= life'[KeyOf(req[s])]
      OBVIOUS
    <3>1. CASE s # r \/ (Claims(req[r]) /\ req'[r].life = req[r].life)
      <4>1. /\ KeyOf(req[s]) \in DedupKey /\ req'[s].life = req[s].life
            /\ req[s].life <= life[KeyOf(req[s])]
            /\ life[KeyOf(req[s])] <= life'[KeyOf(req[s])]
        BY <2>1, <3>1 DEF IInv, ClaimsOK, OwnRows
      <4> QED
        BY <4>1, <2>2, <2>3
    <3>2. CASE s = r /\ ~(Claims(req[r]) /\ req'[r].life = req[r].life)
      BY <3>2, <2>2 DEF KeepsOrTakes
    <3> QED
      BY <3>1, <3>2
  <2>5. \A s \in Request :
          /\ Claims(req'[s]) /\ s # r /\ Claims(req'[r])
          /\ KeyOf(req[s]) = KeyOf(req[r])
          => req'[s].life # req'[r].life
    <3> SUFFICES ASSUME NEW s \in Request, Claims(req'[s]), s # r, Claims(req'[r]),
                        KeyOf(req[s]) = KeyOf(req[r])
                 PROVE  req'[s].life # req'[r].life
      OBVIOUS
    <3>1. Claims(req[s]) /\ req'[s].life = req[s].life
      BY <2>1
    <3>2. req[s].life <= life[KeyOf(req[s])] /\ KeyOf(req[s]) \in DedupKey
      BY <3>1 DEF IInv, ClaimsOK
    <3>3. CASE Claims(req[r]) /\ req'[r].life = req[r].life
      BY <3>1, <3>3 DEF IInv, ClaimsOK
    <3>4. CASE ~(Claims(req[r]) /\ req'[r].life = req[r].life)
      BY <3>1, <3>2, <3>4, <2>2, <2>3 DEF KeepsOrTakes
    <3> QED
      BY <3>3, <3>4
  <2>6. \A s, u \in Request :
          /\ Claims(req'[s]) /\ Claims(req'[u])
          /\ KeyOf(req'[s]) = KeyOf(req'[u]) /\ req'[s].life = req'[u].life
          => s = u
    <3> SUFFICES ASSUME NEW s \in Request, NEW u \in Request, Claims(req'[s]), Claims(req'[u]),
                        KeyOf(req[s]) = KeyOf(req[u]), req'[s].life = req'[u].life
                 PROVE  s = u
      BY <1>3
    <3>1. CASE s # r /\ u # r
      BY <2>1, <3>1 DEF IInv, ClaimsOK
    <3>2. CASE s = r \/ u = r
      BY <2>5, <3>2
    <3> QED
      BY <3>1, <3>2
  <2>7. \A s \in Request : req'[s].phase = "unsent" => req'[s].answer = "pending"
    BY DEF IInv, ClaimsOK, Advances
  <2> QED
    BY <1>3, <2>4, <2>6, <2>7 DEF ClaimsOK
<1>5. AloneOK'
  <2>1. \A s \in Request :
          InFlight(s)' => InFlight(s) /\ req'[s].actor = req[s].actor /\ req'[s].alone = req[s].alone
    BY DEF Advances, InFlight
  <2>2. \A s, u \in Request :
          InFlight(s)' /\ InFlight(u)' /\ req'[s].actor = req'[u].actor /\ req'[s].alone => s = u
    BY <2>1 DEF IInv, AloneOK
  <2>3. \A s \in Request : InFlight(s)' /\ req'[s].alone => ReadsOK(s)'
    BY <2>1, OthersUndisturbed
  <2> QED
    BY <2>2, <2>3 DEF AloneOK
<1>6. AloneAnswers'
  BY DEF IInv, AloneAnswers, AnswerOK, Told, Told, Advances, Expected
<1> QED
  BY <1>1, <1>2, <1>4, <1>5, <1>6 DEF IInv

-----------------------------------------------------------------------------
(* The initial state, and what the handlers' steps have in common *)

LEMMA ViewKinds ==
  \A kind \in ViewKind :
    /\ kind \notin UserKind /\ kind \notin Tracked /\ kind \notin Upserting
    /\ kind \notin {"save", "remove", "exists", "rate_good", "rate_bad", "unrate", "get", "re_search"}
  BY ViewKindAssumption DEF Tracked, Upserting, UserKind, SavedKind, RatingKind

LEMMA InitIInv == Init => IInv
<1> SUFFICES ASSUME Init
             PROVE  IInv
  OBVIOUS
<1>1. TypeOK
  <2>1. TableTypes
    BY DEF Init, TableTypes, SavedState, RatingState
  <2>2. Unsent \in Req
    BY DEF Unsent, Req, Kind, UserKind, SavedKind, Phase, Answer, NoOne, SavedState
  <2>3. req \in [Request -> Req]
    BY <2>2 DEF Init
  <2> QED
    BY <2>1, <2>3, Types
<1>2. PhasesOK
  BY DEF Init, PhasesOK, PhaseOK, Unsent
<1>3. ClaimsOK
  BY ViewKinds DEF Init, ClaimsOK, Claims, Unsent
<1>4. AloneOK
  BY DEF Init, AloneOK, InFlight, Unsent
<1>5. AloneAnswers
  BY DEF Init, AloneAnswers, Unsent
<1> QED
  BY <1>1, <1>2, <1>3, <1>4, <1>5 DEF IInv

(* What IInv says of one request that is under way.                        *)
LEMMA UnderWay ==
  ASSUME IInv, NEW r \in Request, InFlight(r)
  PROVE  /\ TableTypes /\ req \in [Request -> Req] /\ req[r] \in Req
         /\ PhaseOK(req[r])
         /\ req[r].actor \in Actor
         /\ req[r].kind \in UserKind => req[r].actor \in User
         /\ req[r].kind # "re_search" => req[r].target \in Target
         /\ req[r].alone => ReadsOK(r)
  BY Types DEF IInv, PhasesOK, PhaseOK, InFlight, AloneOK

LEMMA SameLives == IInv => \A k \in DedupKey : life[k] <= life[k]
  BY Types DEF IInv, TableTypes

(* A step that writes no row and no key.                                   *)
LEMMA NoRows ==
  ASSUME IInv, NEW r \in Request, UNCHANGED <<active, saved, rating, life, keys, lastHash>>
  PROVE  OwnRows(r) /\ TableTypes'
<1>1. TableTypes
  BY Types DEF IInv
<1> QED
  BY <1>1, SameLives DEF OwnRows, TableTypes

-----------------------------------------------------------------------------
(* Each action keeps the invariant *)

LEMMA CheckTargetIInv ==
  ASSUME IInv, NEW r \in Request, CheckTarget(r)
  PROVE  IInv'
<1>1. InFlight(r) /\ req[r].phase = "check"
  BY DEF CheckTarget, InFlight
<1>2. OwnRows(r) /\ TableTypes' /\ active' = active
  BY NoRows DEF CheckTarget
<1>3. /\ PhaseOK(req[r]) /\ req \in [Request -> Req]
      /\ req[r].alone => ReadsOK(r)
      /\ req[r].actor \in Actor
      /\ req[r].kind \in UserKind => req[r].actor \in User
      /\ req[r].kind # "re_search" => req[r].target \in Target
  BY <1>1, UnderWay
<1>4. req[r].kind \in Upserting \cup ViewKind \cup {"re_search"}
  BY <1>1, <1>3 DEF PhaseOK, EventKind
<1>5. CASE req[r].target \notin active
  <2>1. Finish(r, "notfound") /\ "notfound" \in Answer
    BY <1>5 DEF CheckTarget, Answer
  <2>2. /\ Advances(r) /\ req'[r].phase = "done" /\ req'[r].answer = "notfound"
        /\ req'[r].life = req[r].life /\ req'[r].previous = req[r].previous
    BY <1>3, <2>1, FinishStep
  <2>3. PhaseOK(req'[r]) /\ ~InFlight(r)' /\ ~Claims(req'[r])
    BY <2>2 DEF PhaseOK, InFlight, Claims
  <2>4. req[r].alone => req[r].kind \in Upserting \cup {"re_search"} /\ req[r].before = "notfound"
    BY <1>1, <1>3, <1>4, <1>5, ViewKinds DEF ReadsOK, Tracked, UserKind, SavedKind, RatingKind, Upserting
  <2>5. AnswerOK(r)'
    BY <2>2, <2>4 DEF AnswerOK, Told, Expected, Upserting, Advances
  <2> QED
    BY <1>1, <1>2, <2>2, <2>3, <2>5, OwnStep DEF KeepsOrTakes
<1>6. CASE req[r].target \in active /\ req[r].kind \in Upserting
  <2>1. Go(r, "write") /\ "write" \in Phase
    BY <1>6, ViewKinds DEF CheckTarget, NextPhase, Phase, Upserting
  <2>2. /\ Advances(r) /\ req'[r].phase = "write" /\ req'[r].answer = req[r].answer
        /\ req'[r].life = req[r].life /\ req'[r].previous = req[r].previous
    BY <1>3, <2>1, GoStep
  <2>3. PhaseOK(req'[r])
    BY <1>3, <1>6, <2>2
    DEF PhaseOK, Advances, Upserting, UserKind, SavedKind, RatingKind
  <2>4. ~Claims(req'[r])
    BY <1>6, <2>2, ViewKinds DEF Claims, Upserting, Advances
  <2>5. AnswerOK(r)'
    BY <2>2 DEF AnswerOK
  <2>6. req[r].alone => ReadsOK(r)'
    BY <1>1, <1>2, <1>3, <1>6, <2>2 DEF ReadsOK, Advances, Upserting
  <2> QED
    BY <1>1, <1>2, <2>2, <2>3, <2>4, <2>5, <2>6, OwnStep DEF KeepsOrTakes
<1>7. CASE req[r].target \in active /\ req[r].kind \notin Upserting
  <2>1. PICK phase \in {"dedup", "event", "previous"} :
          /\ Go(r, phase)
          /\ phase = "dedup" => req[r].kind \in ViewKind /\ req[r].given
          /\ phase = "event" => req[r].kind \in ViewKind /\ ~req[r].given
          /\ phase = "previous" <=> req[r].kind = "re_search"
    BY <1>4, <1>7, ViewKinds DEF CheckTarget, NextPhase
  <2>2. /\ Advances(r) /\ req'[r].phase = phase /\ req'[r].answer = req[r].answer
        /\ req'[r].life = req[r].life /\ req'[r].previous = req[r].previous
    BY <1>3, <2>1, GoStep DEF Phase
  <2>3. PhaseOK(req'[r])
    BY <1>1, <1>3, <2>1, <2>2, ViewKinds DEF PhaseOK, Advances, EventKind, UserKind, SavedKind, RatingKind
  <2>4. Claims(req'[r]) => Claims(req[r])
    BY <2>1, <2>2, ViewKinds DEF Claims, Advances
  <2>5. AnswerOK(r)' /\ req'[r].phase # "unsent"
    BY <2>1, <2>2 DEF AnswerOK
  <2>6. req[r].alone => req[r].kind = "re_search"
    BY <1>3, <1>4, <1>7, ViewKinds DEF ReadsOK, Tracked, UserKind, SavedKind, RatingKind
  <2>7. req[r].alone => ReadsOK(r)'
    <3>1. lastHash' = lastHash
      BY DEF CheckTarget
    <3> QED
      BY <1>1, <1>3, <1>7, <2>1, <2>2, <2>6, <3>1 DEF ReadsOK, Advances, Tracked, Upserting
  <2> QED
    BY <1>1, <1>2, <2>2, <2>3, <2>4, <2>5, <2>7, OwnStep DEF KeepsOrTakes
<1> QED
  BY <1>5, <1>6, <1>7

LEMMA SaveOrRestoreIInv ==
  ASSUME IInv, NEW r \in Request, SaveOrRestore(r)
  PROVE  IInv'
<1>1. InFlight(r) /\ req[r].phase = "write" /\ req[r].kind = "save"
  BY DEF SaveOrRestore, InFlight, Is
<1>2. /\ PhaseOK(req[r]) /\ req \in [Request -> Req] /\ TableTypes
      /\ req[r].alone => ReadsOK(r)
      /\ req[r].actor \in User /\ req[r].actor \in Actor /\ req[r].target \in Target
  BY <1>1, UnderWay DEF UserKind, SavedKind
<1>3. /\ Advances(r) /\ req'[r].phase = "reread" /\ req'[r].answer = req[r].answer
      /\ req'[r].life = req[r].life /\ req'[r].previous = req[r].previous
  BY <1>2, GoStep DEF SaveOrRestore, Phase
<1>4. /\ saved' \in [User \X Target -> SavedState]
      /\ saved'[req[r].actor, req[r].target] = "saved"
      /\ \A u \in User, t \in Target : u # req[r].actor => saved'[u, t] = saved[u, t]
  BY <1>2 DEF SaveOrRestore, TableTypes, Restored, SavedState
<1>5. OwnRows(r) /\ TableTypes'
  <2>1. UNCHANGED <<active, rating, life, keys, lastHash>>
    BY DEF SaveOrRestore
  <2> QED
    BY <1>2, <1>4, <2>1, SameLives DEF OwnRows, TableTypes
<1>6. PhaseOK(req'[r])
  BY <1>1, <1>2, <1>3 DEF PhaseOK, Advances, Upserting
<1>7. ~Claims(req'[r]) /\ AnswerOK(r)'
  BY <1>1, <1>3, ViewKinds DEF Claims, Advances, AnswerOK
<1>8. req[r].alone => ReadsOK(r)'
  BY <1>1, <1>2, <1>3, <1>4 DEF ReadsOK, Advances, Upserting, Expected
<1> QED
  BY <1>1, <1>3, <1>5, <1>6, <1>7, <1>8, OwnStep DEF KeepsOrTakes

LEMMA UpsertIInv ==
  ASSUME IInv, NEW r \in Request, Upsert(r)
  PROVE  IInv'
<1>1. InFlight(r) /\ req[r].phase = "write" /\ req[r].kind \in {"rate_good", "rate_bad"}
  BY DEF Upsert, InFlight, Is
<1>2. /\ PhaseOK(req[r]) /\ req \in [Request -> Req] /\ TableTypes
      /\ req[r].alone => ReadsOK(r)
      /\ req[r].actor \in User /\ req[r].actor \in Actor /\ req[r].target \in Target
  BY <1>1, UnderWay DEF UserKind, RatingKind
<1>3. /\ Advances(r) /\ req'[r].phase = "reread" /\ req'[r].answer = req[r].answer
      /\ req'[r].life = req[r].life /\ req'[r].previous = req[r].previous
  BY <1>2, GoStep DEF Upsert, Phase
<1>4. /\ rating' \in [User \X Target -> RatingState]
      /\ rating'[req[r].actor, req[r].target] = ScoreOf(req[r].kind)
      /\ \A u \in User, t \in Target : u # req[r].actor => rating'[u, t] = rating[u, t]
  BY <1>2 DEF Upsert, TableTypes, ScoreOf, RatingState, Score, Good, Bad
<1>5. OwnRows(r) /\ TableTypes'
  <2>1. UNCHANGED <<active, saved, life, keys, lastHash>>
    BY DEF Upsert
  <2> QED
    BY <1>2, <1>4, <2>1, SameLives DEF OwnRows, TableTypes
<1>6. PhaseOK(req'[r])
  BY <1>1, <1>2, <1>3 DEF PhaseOK, Advances, Upserting
<1>7. ~Claims(req'[r]) /\ AnswerOK(r)'
  BY <1>1, <1>3, ViewKinds DEF Claims, Advances, AnswerOK
<1>8. req[r].alone => ReadsOK(r)'
  BY <1>1, <1>2, <1>3, <1>4 DEF ReadsOK, Advances, Upserting, Expected
<1> QED
  BY <1>1, <1>3, <1>5, <1>6, <1>7, <1>8, OwnStep DEF KeepsOrTakes

LEMMA RemoveIInv ==
  ASSUME IInv, NEW r \in Request, Remove(r)
  PROVE  IInv'
<1>1. InFlight(r) /\ req[r].phase = "write" /\ req[r].kind = "remove"
  BY DEF Remove, InFlight, Is
<1>2. /\ req \in [Request -> Req] /\ TableTypes
      /\ req[r].alone => req[r].before = saved[req[r].actor, req[r].target]
      /\ req[r].actor \in User /\ req[r].actor \in Actor /\ req[r].target \in Target
  BY <1>1, UnderWay DEF UserKind, SavedKind, ReadsOK
<1>3. PICK answer \in {"done", "error", "unsure"} :
        /\ Finish(r, answer)
        /\ answer = "done" => saved[req[r].actor, req[r].target] = "saved"
  BY DEF Remove, Acknowledge
<1>4. /\ Advances(r) /\ req'[r].phase = "done" /\ req'[r].answer = answer
      /\ req'[r].life = req[r].life /\ req'[r].previous = req[r].previous
  BY <1>2, <1>3, FinishStep DEF Answer
<1>5. OwnRows(r) /\ TableTypes'
  <2>1. /\ saved' \in [User \X Target -> SavedState]
        /\ \A u \in User, t \in Target : u # req[r].actor => saved'[u, t] = saved[u, t]
    BY <1>2 DEF Remove, TableTypes, SavedState
  <2>2. UNCHANGED <<active, rating, life, keys, lastHash>>
    BY DEF Remove
  <2> QED
    BY <1>2, <2>1, <2>2, SameLives DEF OwnRows, TableTypes
<1>6. PhaseOK(req'[r]) /\ ~InFlight(r)'
  BY <1>4 DEF PhaseOK, InFlight
<1>7. ~Claims(req'[r])
  BY <1>1, <1>4, ViewKinds DEF Claims, Advances
<1>8. AnswerOK(r)'
  BY <1>1, <1>2, <1>3, <1>4 DEF AnswerOK, Told, Advances, Expected
<1> QED
  BY <1>1, <1>4, <1>5, <1>6, <1>7, <1>8, OwnStep DEF KeepsOrTakes

LEMMA DeleteIInv ==
  ASSUME IInv, NEW r \in Request, Delete(r)
  PROVE  IInv'
<1>1. InFlight(r) /\ req[r].phase = "write" /\ req[r].kind = "unrate"
  BY DEF Delete, InFlight, Is
<1>2. /\ req \in [Request -> Req] /\ TableTypes
      /\ req[r].alone => req[r].before = rating[req[r].actor, req[r].target]
      /\ req[r].actor \in User /\ req[r].actor \in Actor /\ req[r].target \in Target
  BY <1>1, UnderWay DEF UserKind, RatingKind, ReadsOK
<1>3. PICK answer \in {"done", "error", "unsure"} :
        /\ Finish(r, answer)
        /\ answer = "done" => rating[req[r].actor, req[r].target] # "none"
  BY DEF Delete, Acknowledge
<1>4. /\ Advances(r) /\ req'[r].phase = "done" /\ req'[r].answer = answer
      /\ req'[r].life = req[r].life /\ req'[r].previous = req[r].previous
  BY <1>2, <1>3, FinishStep DEF Answer
<1>5. OwnRows(r) /\ TableTypes'
  <2>1. /\ rating' \in [User \X Target -> RatingState]
        /\ \A u \in User, t \in Target : u # req[r].actor => rating'[u, t] = rating[u, t]
    BY <1>2 DEF Delete, TableTypes, RatingState
  <2>2. UNCHANGED <<active, saved, life, keys, lastHash>>
    BY DEF Delete
  <2> QED
    BY <1>2, <2>1, <2>2, SameLives DEF OwnRows, TableTypes
<1>6. PhaseOK(req'[r]) /\ ~InFlight(r)'
  BY <1>4 DEF PhaseOK, InFlight
<1>7. ~Claims(req'[r])
  BY <1>1, <1>4, ViewKinds DEF Claims, Advances
<1>8. AnswerOK(r)'
  BY <1>1, <1>2, <1>3, <1>4 DEF AnswerOK, Told, Advances, Expected
<1> QED
  BY <1>1, <1>4, <1>5, <1>6, <1>7, <1>8, OwnStep DEF KeepsOrTakes

LEMMA LookIInv ==
  ASSUME IInv, NEW r \in Request, Look(r)
  PROVE  IInv'
<1>1. InFlight(r) /\ req[r].phase = "write" /\ req[r].kind \in {"exists", "get"}
  BY DEF Look, InFlight, Is
<1>2. /\ req \in [Request -> Req] /\ TableTypes
      /\ req[r].alone => ReadsOK(r)
      /\ req[r].actor \in User /\ req[r].target \in Target
  BY <1>1, UnderWay DEF UserKind, SavedKind, RatingKind
<1>3. PICK answer \in Answer :
        /\ Finish(r, answer)
        /\ answer = IF req[r].kind = "exists" THEN saved[req[r].actor, req[r].target]
                                              ELSE rating[req[r].actor, req[r].target]
  BY <1>2 DEF Look, Is, Answer, TableTypes
<1>4. /\ Advances(r) /\ req'[r].phase = "done" /\ req'[r].answer = answer
      /\ req'[r].life = req[r].life /\ req'[r].previous = req[r].previous
  BY <1>2, <1>3, FinishStep
<1>5. OwnRows(r) /\ TableTypes'
  BY NoRows DEF Look
<1>6. PhaseOK(req'[r]) /\ ~InFlight(r)'
  BY <1>4 DEF PhaseOK, InFlight
<1>7. ~Claims(req'[r])
  BY <1>1, <1>4, ViewKinds DEF Claims, Advances
<1>8. AnswerOK(r)'
  <2>1. req[r].alone => req[r].before = answer
    BY <1>1, <1>2, <1>3 DEF ReadsOK
  <2> QED
    BY <1>1, <1>4, <2>1 DEF AnswerOK, Told, Expected, Advances
<1> QED
  BY <1>1, <1>4, <1>5, <1>6, <1>7, <1>8, OwnStep DEF KeepsOrTakes

(* An undisturbed handler reads back what it has written itself, so that   *)
(* the row is there.                                                       *)
LEMMA RereadIInv ==
  ASSUME IInv, NEW r \in Request, Reread(r)
  PROVE  IInv'
<1>1. InFlight(r) /\ req[r].phase = "reread"
  BY DEF Reread, InFlight
<1>2. /\ req \in [Request -> Req] /\ TableTypes /\ PhaseOK(req[r])
      /\ req[r].alone => ReadsOK(r)
  BY <1>1, UnderWay
<1>3. req[r].kind \in Upserting
  BY <1>1, <1>2 DEF PhaseOK
<1>4. /\ req[r].kind \in UserKind /\ req[r].kind \notin ViewKind /\ req[r].kind # "re_search"
      /\ req[r].actor \in User /\ req[r].target \in Target
  BY <1>1, <1>3, UnderWay, ViewKinds DEF UserKind, SavedKind, RatingKind, Upserting
<1>5. OwnRows(r) /\ TableTypes'
  BY NoRows DEF Reread
<1>6. /\ saved[req[r].actor, req[r].target] \in SavedState
      /\ rating[req[r].actor, req[r].target] \in RatingState
  BY <1>2, <1>4 DEF TableTypes
<1>7. PICK row \in SavedState \cup RatingState :
        row = IF req[r].kind = "save" THEN saved[req[r].actor, req[r].target]
                                      ELSE rating[req[r].actor, req[r].target]
  BY <1>6
<1>8. req[r].alone => req[r].before = "done" /\ Expected(req[r]) = row
  BY <1>1, <1>2, <1>3, <1>7 DEF ReadsOK
<1>9. CASE row = "none"
  <2>1. Finish(r, "notfound") /\ "notfound" \in Answer
    BY <1>7, <1>9 DEF Reread, Answer
  <2>2. /\ Advances(r) /\ req'[r].phase = "done" /\ req'[r].answer = "notfound"
        /\ req'[r].life = req[r].life /\ req'[r].previous = req[r].previous
    BY <1>2, <2>1, FinishStep
  <2>3. PhaseOK(req'[r]) /\ ~InFlight(r)'
    BY <2>2 DEF PhaseOK, InFlight
  <2>4. ~Claims(req'[r])
    BY <2>2 DEF Claims
  <2>5. ~req[r].alone
    BY <1>3, <1>8, <1>9 DEF Expected, Upserting, ScoreOf, Good, Bad
  <2>6. AnswerOK(r)'
    BY <2>2, <2>5 DEF AnswerOK, Advances
  <2> QED
    BY <1>1, <1>5, <2>2, <2>3, <2>4, <2>6, OwnStep DEF KeepsOrTakes
<1>10. CASE row # "none"
  <2>1. req' = [req EXCEPT ![r].phase = "event", ![r].answer = row]
    BY <1>7, <1>10 DEF Reread
  <2>2. Advances(r) /\ req'[r].phase = "event" /\ req'[r].answer = row
    <3>1. req' = [req EXCEPT ![r] = [req[r] EXCEPT !.phase = "event", !.answer = row]]
      BY <1>2, <2>1
    <3>2. [req[r] EXCEPT !.phase = "event", !.answer = row] \in Req
      BY <1>2, ZenonT(60) DEF Req, Phase, Answer
    <3> QED
      BY <1>2, <3>1, <3>2 DEF Advances, Req
  <2>3. PhaseOK(req'[r])
    BY <1>1, <1>2, <1>3, <1>4, <2>2 DEF PhaseOK, Advances
  <2>4. ~Claims(req'[r])
    BY <1>4, <2>2 DEF Claims, Advances
  <2>5. AnswerOK(r)'
    BY <2>2 DEF AnswerOK
  <2>6. Expected(req'[r]) = Expected(req[r])
    BY <2>2 DEF Expected, Advances
  <2>7. req[r].alone => ReadsOK(r)'
    BY <1>1, <1>2, <1>3, <1>8, <2>2, <2>6 DEF ReadsOK, Advances, Upserting
  <2> QED
    BY <1>1, <1>5, <2>2, <2>3, <2>4, <2>5, <2>7, OwnStep DEF KeepsOrTakes
<1> QED
  BY <1>9, <1>10

LEMMA FindLastSearchHashIInv ==
  ASSUME IInv, NEW r \in Request, FindLastSearchHash(r)
  PROVE  IInv'
<1>1. InFlight(r) /\ req[r].phase = "previous"
  BY DEF FindLastSearchHash, InFlight
<1>2. /\ req \in [Request -> Req] /\ TableTypes /\ PhaseOK(req[r]) /\ req[r].actor \in Actor
      /\ req[r].alone => ReadsOK(r)
  BY <1>1, UnderWay
<1>3. req[r].kind = "re_search"
  BY <1>1, <1>2 DEF PhaseOK
<1>4. /\ Advances(r) /\ req'[r].phase = "event"
      /\ req'[r].previous = IF req[r].given THEN req[r].previous ELSE lastHash[req[r].actor]
  <2>1. PICK last \in Request \cup {NoOne} : last = lastHash[req[r].actor]
    BY <1>2 DEF TableTypes
  <2>2. PICK previous \in Request \cup {NoOne, Sent} :
          previous = IF req[r].given THEN req[r].previous ELSE lastHash[req[r].actor]
    BY <1>1, <1>2, <2>1, UnderWay DEF Req
  <2> DEFINE q == [req[r] EXCEPT !.phase = "event", !.previous = previous, !.dated = last]
  <2>3. req' = [req EXCEPT ![r] = q]
    BY <1>2, <2>1, <2>2 DEF FindLastSearchHash
  <2>4. q \in Req
    BY <1>1, UnderWay, ZenonT(60) DEF Req, Phase
  <2> QED
    BY <1>2, <2>2, <2>3, <2>4 DEF Advances, Req
<1>5. OwnRows(r) /\ TableTypes'
  BY NoRows DEF FindLastSearchHash
<1>6. PhaseOK(req'[r])
  BY <1>1, <1>2, <1>3, <1>4
  DEF PhaseOK, Advances, UserKind, SavedKind, RatingKind, EventKind
<1>7. ~Claims(req'[r])
  BY <1>3, <1>4, ViewKinds DEF Claims, Advances
<1>8. AnswerOK(r)'
  BY <1>4 DEF AnswerOK
<1>9. req[r].alone => ReadsOK(r)'
  BY <1>1, <1>2, <1>3, <1>4
  DEF ReadsOK, Advances, Tracked, Upserting
<1> QED
  BY <1>1, <1>4, <1>5, <1>6, <1>7, <1>8, <1>9, OwnStep DEF KeepsOrTakes

(* Of the impressions and views only one that holds the claim is stored.   *)
LEMMA CreateEventIInv ==
  ASSUME IInv, NEW r \in Request, CreateEvent(r)
  PROVE  IInv'
<1>1. InFlight(r) /\ req[r].phase = "event"
  BY DEF CreateEvent, InFlight
<1>2. /\ req \in [Request -> Req] /\ TableTypes /\ PhaseOK(req[r]) /\ req[r].actor \in Actor
      /\ req[r].alone => ReadsOK(r) /\ req[r] \in Req
  BY <1>1, UnderWay
<1>3. PICK answer \in Answer :
        /\ Finish(r, answer)
        /\ IF req[r].kind \in EventKind THEN answer \in {"stored", "unsure"} ELSE answer = req[r].answer
  BY <1>2 DEF CreateEvent, Acknowledge, Answer, Req
<1>4. /\ Advances(r) /\ req'[r].phase = "done" /\ req'[r].answer = answer
      /\ req'[r].life = req[r].life /\ req'[r].previous = req[r].previous
  BY <1>2, <1>3, FinishStep
<1>5. OwnRows(r) /\ TableTypes'
  <2>1. /\ lastHash' \in [Actor -> Request \cup {NoOne}]
        /\ \A a \in Actor : a # req[r].actor => lastHash'[a] = lastHash[a]
    BY <1>2 DEF CreateEvent, TableTypes
  <2>2. UNCHANGED <<active, saved, rating, life, keys>>
    BY DEF CreateEvent
  <2> QED
    BY <1>2, <2>1, <2>2, SameLives DEF OwnRows, TableTypes
<1>6. PhaseOK(req'[r]) /\ ~InFlight(r)'
  BY <1>4 DEF PhaseOK, InFlight
<1>7. Claims(req'[r]) => Claims(req[r])
  BY <1>1, <1>4 DEF Claims, Advances
<1>8. AnswerOK(r)'
  <2>1. req[r].alone =>
          \/ req[r].kind \in Upserting /\ req[r].answer = Expected(req[r])
          \/ req[r].kind = "re_search" /\ req[r].before = req[r].previous /\ answer \in {"stored", "unsure"}
    BY <1>1, <1>2, <1>3, ViewKinds DEF ReadsOK, PhaseOK, EventKind, Tracked, Upserting, UserKind, SavedKind, RatingKind
  <2>2. Expected(req'[r]) = Expected(req[r])
    BY <1>4 DEF Expected, Advances
  <2> QED
    BY <1>3, <1>4, <2>1, <2>2, ViewKinds DEF AnswerOK, Told, Expected, Advances, Upserting, EventKind
<1> QED
  BY <1>1, <1>4, <1>5, <1>6, <1>7, <1>8, OwnStep DEF KeepsOrTakes

LEMMA FailIInv ==
  ASSUME IInv, NEW r \in Request, Fail(r)
  PROVE  IInv'
<1>1. InFlight(r)
  BY DEF Fail
<1>2. /\ req \in [Request -> Req] /\ PhaseOK(req[r]) /\ req[r] \in Req
      /\ req[r].alone => ReadsOK(r)
  BY <1>1, UnderWay
<1>3. PICK answer \in Answer :
        /\ Finish(r, answer)
        /\ \/ answer = "error"
           \/ req[r].phase = "event" /\ req[r].kind \in UserKind /\ answer = req[r].answer
  BY <1>2 DEF Fail, Answer, Req
<1>4. /\ Advances(r) /\ req'[r].phase = "done" /\ req'[r].answer = answer
      /\ req'[r].life = req[r].life /\ req'[r].previous = req[r].previous
  BY <1>2, <1>3, FinishStep
<1>5. OwnRows(r) /\ TableTypes'
  BY NoRows DEF Fail
<1>6. PhaseOK(req'[r]) /\ ~InFlight(r)'
  BY <1>4 DEF PhaseOK, InFlight
<1>7. Claims(req'[r]) => Claims(req[r])
  BY <1>3, <1>4 DEF Claims, Advances
<1>8. AnswerOK(r)'
  <2>1. Expected(req'[r]) = Expected(req[r])
    BY <1>4 DEF Expected, Advances
  <2>2. CASE answer = "error"
    BY <1>4, <2>2 DEF AnswerOK
  <2>3. CASE req[r].phase = "event" /\ req[r].kind \in UserKind /\ answer = req[r].answer
    <3>1. req[r].kind \in Upserting
      BY <1>2, <2>3, ViewKinds DEF PhaseOK, UserKind, SavedKind, RatingKind, EventKind
    <3>2. req[r].alone => req[r].answer = Expected(req[r])
      BY <1>2, <2>3, <3>1 DEF ReadsOK
    <3> QED
      BY <1>4, <2>1, <2>3, <3>1, <3>2 DEF AnswerOK, Told, Advances, Upserting
  <2> QED
    BY <1>3, <2>2, <2>3
<1> QED
  BY <1>1, <1>4, <1>5, <1>6, <1>7, <1>8, OwnStep DEF KeepsOrTakes

(* Whoever sets a dedup key begins a life of it, and nobody else holds a   *)
(* claim to that life.                                                     *)
LEMMA SetIfNotExistsIInv ==
  ASSUME IInv, NEW r \in Request, SetIfNotExists(r) \/ LoseSetAnswer(r)
  PROVE  IInv'
<1> DEFINE k == KeyOf(req[r])
<1>1. InFlight(r) /\ req[r].phase = "dedup"
  BY DEF SetIfNotExists, LoseSetAnswer, InFlight
<1>2. /\ req \in [Request -> Req] /\ req[r] \in Req /\ TableTypes /\ PhaseOK(req[r])
      /\ req[r].alone => ReadsOK(r)
  BY <1>1, UnderWay
<1>3. req[r].kind \in ViewKind
  BY <1>1, <1>2 DEF PhaseOK
<1>4. req[r].target \in Target /\ ~req[r].alone
  BY <1>1, <1>2, <1>3, UnderWay, ViewKinds DEF ReadsOK, Tracked, UserKind, SavedKind, RatingKind
<1>5. k \in DedupKey
  BY <1>3, <1>4 DEF KeyOf, DedupKey
<1>6. life[k] \in Nat
  BY <1>2, <1>5 DEF TableTypes
<1>7. CASE SetIfNotExists(r) /\ ~KeyIsFree(k)
  <2> DEFINE q == [req[r] EXCEPT !.phase = "done", !.answer = "dropped", !.life = life[k]]
  <2>1. req' = [req EXCEPT ![r] = q] /\ UNCHANGED <<active, saved, rating, life, keys, lastHash>>
    BY <1>2, <1>7 DEF SetIfNotExists
  <2>2. q \in Req
    BY <1>2, <1>6 DEF Req, Phase, Answer
  <2>3. Advances(r) /\ req'[r].phase = "done" /\ req'[r].answer = "dropped"
    BY <1>2, <2>1, <2>2 DEF Advances, Req
  <2>4. OwnRows(r) /\ TableTypes'
    BY <2>1, NoRows
  <2>5. PhaseOK(req'[r]) /\ ~InFlight(r)' /\ ~Claims(req'[r])
    BY <2>3 DEF PhaseOK, InFlight, Claims
  <2>6. AnswerOK(r)'
    BY <1>4, <2>3 DEF AnswerOK, Advances
  <2> QED
    BY <1>1, <2>3, <2>4, <2>5, <2>6, OwnStep DEF KeepsOrTakes
<1>8. CASE KeyIsFree(k)
  <2>1. /\ keys' = keys \cup {k} /\ k \notin keys
        /\ life' = [life EXCEPT ![k] = @ + 1]
        /\ UNCHANGED <<active, saved, rating, lastHash>>
    BY <1>2, <1>8 DEF SetIfNotExists, LoseSetAnswer, KeyIsFree, TableTypes
  <2>2. /\ life' \in [DedupKey -> Nat] /\ life'[k] = life[k] + 1
        /\ \A l \in DedupKey : life[l] <= life'[l]
    BY <1>2, <1>5, <1>6, <2>1 DEF TableTypes
  <2>3. OwnRows(r) /\ TableTypes'
    BY <1>2, <1>5, <2>1, <2>2 DEF OwnRows, TableTypes
  <2>4. CASE SetIfNotExists(r)
    <3> DEFINE q == [req[r] EXCEPT !.phase = "event", !.life = life'[k]]
    <3>1. req' = [req EXCEPT ![r] = q]
      BY <1>2, <1>8, <2>4 DEF SetIfNotExists
    <3>2. q \in Req
      BY <1>2, <1>5, <2>2 DEF Req, Phase
    <3>3. Advances(r) /\ req'[r].phase = "event" /\ req'[r].life = life'[k]
      BY <1>2, <3>1, <3>2 DEF Advances, Req
    <3>4. PhaseOK(req'[r])
      BY <1>1, <1>2, <1>3, <3>3, ViewKinds DEF PhaseOK, Advances, EventKind
    <3>5. KeepsOrTakes(r)
      BY <1>5, <1>6, <2>2, <3>3 DEF KeepsOrTakes
    <3>6. AnswerOK(r)'
      BY <3>3 DEF AnswerOK
    <3> QED
      BY <1>1, <1>4, <2>3, <3>3, <3>4, <3>5, <3>6, OwnStep
  <2>5. CASE LoseSetAnswer(r)
    <3> DEFINE q == [req[r] EXCEPT !.phase = "done", !.answer = "error", !.life = life'[k]]
    <3>1. req' = [req EXCEPT ![r].phase = "done", ![r].answer = "error", ![r].life = life'[k]]
      BY <2>5 DEF LoseSetAnswer
    <3>2. q \in Req
      BY <1>2, <1>5, <2>2 DEF Req, Phase, Answer
    <3>3. Advances(r) /\ req'[r].phase = "done" /\ req'[r].answer = "error"
      <4>1. req' = [req EXCEPT ![r] = q]
        BY <1>2, <3>1
      <4> QED
        BY <1>2, <3>2, <4>1 DEF Advances, Req
    <3>4. PhaseOK(req'[r]) /\ ~InFlight(r)' /\ ~Claims(req'[r])
      BY <3>3 DEF PhaseOK, InFlight, Claims
    <3>5. AnswerOK(r)'
      BY <3>3 DEF AnswerOK
    <3> QED
      BY <1>1, <2>3, <3>3, <3>4, <3>5, OwnStep DEF KeepsOrTakes
  <2> QED
    BY <2>4, <2>5
<1> QED
  BY <1>7, <1>8 DEF LoseSetAnswer

-----------------------------------------------------------------------------
(* Steps that concern several requests *)

(* A step that at most says of other requests that they were disturbed.    *)
Disturbs(q, p) == q = p \/ q = Disturbed(p)

LEMMA Disturbance ==
  ASSUME NEW p \in Req, NEW q, Disturbs(q, p)
  PROVE  /\ q \in Req
         /\ q.kind = p.kind /\ q.actor = p.actor /\ q.target = p.target /\ q.phase = p.phase
         /\ q.given = p.given /\ q.answer = p.answer /\ q.life = p.life /\ q.previous = p.previous
         /\ q.alone => q = p
  BY DEF Disturbs, Disturbed, Req, NoOne

LEMMA PublicationIInv ==
  ASSUME IInv, NEW t \in Target, Publication(t)
  PROVE  IInv'
<1>1. TableTypes /\ req \in [Request -> Req]
  BY Types DEF IInv
<1>2. \A s \in Request : Disturbs(req'[s], req[s])
  BY DEF Publication, Disturbs
<1>3. req' \in [Request -> Req]
  <2>1. \A s \in Request : req'[s] \in Req
    BY <1>1, <1>2, Disturbance
  <2>2. req' = [s \in Request |-> req'[s]]
    BY DEF Publication
  <2> QED
    BY <2>1, <2>2
<1>4. \A s \in Request :
        /\ req'[s].kind = req[s].kind /\ req'[s].actor = req[s].actor
        /\ req'[s].target = req[s].target /\ req'[s].phase = req[s].phase
        /\ req'[s].answer = req[s].answer /\ req'[s].life = req[s].life
        /\ req'[s].previous = req[s].previous /\ req'[s].given = req[s].given
        /\ req'[s].alone => req'[s] = req[s]
  BY <1>1, <1>2, Disturbance
<1>5. TypeOK'
  <2>1. TableTypes'
    BY <1>1 DEF Publication, TableTypes
  <2> QED
    BY <1>3, <2>1 DEF TypeOK, TableTypes, Req
<1>6. PhasesOK'
  BY <1>4 DEF IInv, PhasesOK, PhaseOK
<1>7. ClaimsOK'
  <2>1. \A s \in Request : Claims(req'[s]) => Claims(req[s])
    BY <1>4 DEF Claims
  <2>2. \A s \in Request : KeyOf(req'[s]) = KeyOf(req[s]) /\ req'[s].life = req[s].life
    BY <1>4 DEF KeyOf
  <2>3. life' = life
    BY DEF Publication
  <2>4. \A s \in Request : req'[s].phase = "unsent" => req'[s].answer = "pending"
    BY <1>4 DEF IInv, ClaimsOK
  <2> QED
    BY <2>1, <2>2, <2>3, <2>4 DEF IInv, ClaimsOK
<1>8. AloneOK'
  <2>1. \A s \in Request : InFlight(s)' <=> InFlight(s)
    BY <1>4 DEF InFlight
  <2>2. ASSUME NEW s \in Request, InFlight(s)', req'[s].alone
        PROVE  ReadsOK(s)'
    <3>1. req'[s] = req[s] /\ InFlight(s) /\ req[s].alone
      BY <1>4, <2>1, <2>2
    <3>2. ReadsOK(s)
      BY <3>1 DEF IInv, AloneOK
    <3>3. req[s].target # t
      <4>1. Disturbed(req[s]).alone = FALSE
        BY <1>1, SMTT(30) DEF Disturbed, Req
      <4>2. req[s].target = t => req'[s] = Disturbed(req[s])
        BY <3>1 DEF Publication
      <4> QED
        BY <2>2, <4>1, <4>2
    <3>4. req[s].target \in active' <=> req[s].target \in active
      BY <3>3 DEF Publication
    <3>5. UNCHANGED <<saved, rating, lastHash>>
      BY DEF Publication
    <3> QED
      BY <3>1, <3>2, <3>4, <3>5 DEF ReadsOK
  <2>3. \A s, u \in Request :
          InFlight(s)' /\ InFlight(u)' /\ req'[s].actor = req'[u].actor /\ req'[s].alone => s = u
    BY <1>4, <2>1 DEF IInv, AloneOK
  <2> QED
    BY <2>2, <2>3 DEF AloneOK
<1>9. AloneAnswers'
  BY <1>4 DEF IInv, AloneAnswers, Told, Expected
<1> QED
  BY <1>5, <1>6, <1>7, <1>8, <1>9 DEF IInv

LEMMA StutterIInv ==
  ASSUME IInv, UNCHANGED vars \/ \E k \in DedupKey : ExpireKey(k)
  PROVE  IInv'
<1>1. UNCHANGED <<active, saved, rating, life, lastHash, req>> /\ keys' \subseteq keys
  BY DEF vars, ExpireKey
<1>2. TypeOK'
  BY <1>1 DEF IInv, TypeOK
<1>3. PhasesOK' /\ ClaimsOK' /\ AloneAnswers'
  BY <1>1 DEF IInv, PhasesOK, ClaimsOK, Claims, AloneAnswers, Told, Expected
<1>4. AloneOK'
  BY <1>1, ZenonT(60) DEF IInv, AloneOK, InFlight, ReadsOK, Expected
<1> QED
  BY <1>2, <1>3, <1>4 DEF IInv

(* The first statement of a handler is one its kind has.                   *)
LEMMA FirstPhaseOK ==
  ASSUME NEW kind \in Kind, NEW target, NEW given \in BOOLEAN, WellFormed(kind, target, given)
  PROVE  /\ FirstPhase(kind, target, given) \in {"check", "previous", "write"}
         /\ FirstPhase(kind, target, given) = "check" <=> kind \in Checking /\ target # NoOne
         /\ FirstPhase(kind, target, given) = "previous" => kind = "re_search"
         /\ FirstPhase(kind, target, given) = "write" => kind \in UserKind
<1>1. CASE kind \in Checking /\ target # NoOne
  BY <1>1 DEF FirstPhase
<1>2. CASE kind \in Checking /\ target = NoOne
  <2>1. kind = "re_search"
    BY <1>2 DEF WellFormed
  <2> QED
    BY <1>2, <2>1, ViewKinds DEF FirstPhase, NextPhase
<1>3. CASE kind \notin Checking
  <2>1. kind \in {"remove", "exists", "unrate", "get"}
    BY <1>3 DEF Checking, Kind, UserKind, SavedKind, RatingKind
  <2> QED
    BY <1>3, <2>1, ViewKinds DEF FirstPhase, NextPhase, UserKind, SavedKind, RatingKind
<1> QED
  BY <1>1, <1>2, <1>3

(* What the sender sees, kind by kind.                                     *)
LEMMA SeenCases ==
  ASSUME NEW kind \in Tracked, NEW actor \in Actor, NEW target \in Target \cup {NoOne},
         NEW given \in BOOLEAN, WellFormed(kind, target, given)
  PROVE  /\ kind \in Upserting /\ target \in active => Seen(kind, actor, target, given) = "done"
         /\ kind \in Upserting /\ target \notin active => Seen(kind, actor, target, given) = "notfound"
         /\ kind \in {"remove", "exists"} => Seen(kind, actor, target, given) = saved[actor, target]
         /\ kind \in {"unrate", "get"} => Seen(kind, actor, target, given) = rating[actor, target]
         /\ kind = "re_search" /\ Missing(target) => Seen(kind, actor, target, given) = "notfound"
         /\ kind = "re_search" /\ ~Missing(target) /\ given => Seen(kind, actor, target, given) = Sent
         /\ kind = "re_search" /\ ~Missing(target) /\ ~given =>
              Seen(kind, actor, target, given) = lastHash[actor]
<1>1. CASE kind \in Upserting
  BY <1>1 DEF Seen, Missing, Checking, Upserting, WellFormed
<1>2. CASE kind \in {"remove", "exists", "unrate", "get"}
  BY <1>2, ViewKinds DEF Seen, Upserting, Checking, EventKind
<1>3. CASE kind = "re_search"
  BY <1>3 DEF Seen, Missing, Checking, EventKind, Upserting
<1>4. kind \in Upserting \cup {"remove", "exists", "unrate", "get"} \cup {"re_search"}
  BY DEF Tracked, UserKind, SavedKind, RatingKind, Upserting
<1> QED
  BY <1>1, <1>2, <1>3, <1>4

(* What the sender sees of its rows is a value of theirs.                  *)
LEMMA SeenTypes ==
  ASSUME TableTypes, NEW kind \in Tracked, NEW actor \in Actor, NEW target \in Target \cup {NoOne},
         NEW given \in BOOLEAN, Permitted(kind, actor), WellFormed(kind, target, given)
  PROVE  Seen(kind, actor, target, given) \in Answer \cup Request \cup {NoOne, Sent}
<1>1. target = NoOne => kind = "re_search"
  BY DEF WellFormed
<1>2. CASE kind \in Upserting
  <2>1. Seen(kind, actor, target, given) \in {"done", "notfound"}
    BY <1>2, SeenCases
  <2> QED
    BY <2>1 DEF Answer
<1>3. CASE kind \in {"remove", "exists"}
  <2>1. actor \in User /\ target \in Target
    BY <1>1, <1>3 DEF Permitted, UserKind, SavedKind
  <2>2. saved[actor, target] \in SavedState
    BY <2>1 DEF TableTypes
  <2>3. Seen(kind, actor, target, given) = saved[actor, target]
    BY <1>3, SeenCases
  <2> QED
    BY <2>2, <2>3 DEF Answer
<1>4. CASE kind \in {"unrate", "get"}
  <2>1. actor \in User /\ target \in Target
    BY <1>1, <1>4 DEF Permitted, UserKind, RatingKind
  <2>2. rating[actor, target] \in RatingState
    BY <2>1 DEF TableTypes
  <2>3. Seen(kind, actor, target, given) = rating[actor, target]
    BY <1>4, SeenCases
  <2> QED
    BY <2>2, <2>3 DEF Answer
<1>5. CASE kind = "re_search"
  <2>1. lastHash[actor] \in Request \cup {NoOne}
    BY DEF TableTypes
  <2>2. \/ Seen(kind, actor, target, given) = "notfound"
        \/ Seen(kind, actor, target, given) = Sent
        \/ Seen(kind, actor, target, given) = lastHash[actor]
    BY <1>5, SeenCases, ZenonT(60)
  <2> QED
    BY <2>1, <2>2 DEF Answer
<1>6. kind \in Upserting \cup {"remove", "exists"} \cup {"unrate", "get"} \cup {"re_search"}
  BY DEF Tracked, UserKind, SavedKind, RatingKind, Upserting
<1> QED
  BY <1>2, <1>3, <1>4, <1>5, <1>6

(* Whoever is under way for the same visitor is disturbed by a new request, *)
(* and disturbs it.                                                        *)
LEMMA SendIInv ==
  ASSUME IInv, NEW r \in Request, NEW kind \in Kind, NEW actor \in Actor,
         NEW target \in Target \cup {NoOne}, NEW given \in BOOLEAN,
         Send(r, kind, actor, target, given)
  PROVE  IInv'
<1> DEFINE rivals == {s \in Request : InFlight(s) /\ req[s].actor = actor}
           alone == kind \in Tracked /\ rivals = {}
           previous == IF kind = "re_search" /\ given THEN Sent ELSE NoOne
           before == IF alone THEN Seen(kind, actor, target, given) ELSE "none"
           new == [Unsent EXCEPT !.kind = kind, !.actor = actor, !.target = target, !.given = given,
                                 !.phase = FirstPhase(kind, target, given),
                                 !.previous = previous,
                                 !.alone = alone,
                                 !.before = before]
<1>1. TableTypes /\ req \in [Request -> Req]
  BY Types DEF IInv
<1>2. /\ req[r].phase = "unsent" /\ Permitted(kind, actor) /\ WellFormed(kind, target, given)
      /\ UNCHANGED <<active, saved, rating, life, keys, lastHash>>
  BY DEF Send
<1>3. TableTypes'
  BY <1>1, <1>2 DEF TableTypes
<1>4. r \notin rivals
  BY <1>2 DEF InFlight
<1>5. before \in Answer \cup Request \cup {NoOne, Sent}
  BY <1>1, <1>2, SeenTypes DEF NoOne
<1>6. FirstPhase(kind, target, given) \in Phase
  BY <1>2, FirstPhaseOK DEF Phase
<1>7. new \in Req
  <2>1. alone \in BOOLEAN /\ previous \in Request \cup {NoOne, Sent}
    OBVIOUS
  <2> HIDE DEF alone, previous, before
  <2> QED
    BY <1>5, <1>6, <2>1, ZenonT(60) DEF Req, Unsent, NoOne, Answer
<1>8. /\ new.kind = kind /\ new.actor = actor /\ new.target = target /\ new.given = given
      /\ new.phase = FirstPhase(kind, target, given) /\ new.answer = "pending"
      /\ new.previous = previous /\ new.alone = alone /\ new.before = before
  <2> HIDE DEF alone, previous, before
  <2> QED
    BY DEF Unsent
<1>9. /\ req' = [s \in Request |-> CASE s = r -> new
                                    [] s \in rivals -> Disturbed(req[s])
                                    [] OTHER -> req[s]]
  BY DEF Send
<1> HIDE DEF new
<1>10. /\ req'[r] = new
       /\ \A s \in Request : s # r => Disturbs(req'[s], req[s])
       /\ \A s \in rivals : req'[s].alone = FALSE
  BY <1>1, <1>4, <1>9 DEF Disturbs, Disturbed, Req
<1>11. \A s \in Request : s # r =>
         /\ req'[s] \in Req
         /\ req'[s].kind = req[s].kind /\ req'[s].actor = req[s].actor
         /\ req'[s].target = req[s].target /\ req'[s].phase = req[s].phase
         /\ req'[s].answer = req[s].answer /\ req'[s].life = req[s].life
         /\ req'[s].previous = req[s].previous /\ req'[s].given = req[s].given
         /\ req'[s].alone => req'[s] = req[s]
  BY <1>1, <1>10, Disturbance
<1>12. req' \in [Request -> Req]
  <2>1. req' = [s \in Request |-> req'[s]]
    BY <1>9
  <2>2. \A s \in Request : req'[s] \in Req
    BY <1>7, <1>10, <1>11
  <2> QED
    BY <2>1, <2>2
<1>13. /\ new.phase \notin {"unsent", "event", "done", "dedup", "reread"}
       /\ new.phase = "check" <=> kind \in Checking /\ target # NoOne
       /\ new.phase = "previous" => kind = "re_search"
       /\ new.phase = "write" => kind \in UserKind
       /\ kind # "re_search" => target \in Target
       /\ kind \in UserKind => actor \in User
       /\ kind = "re_search" /\ given => new.previous = Sent
  BY <1>2, <1>8, FirstPhaseOK DEF WellFormed, Permitted
<1>14. TypeOK'
  BY <1>3, <1>12 DEF TypeOK, TableTypes, Req
<1>15. PhasesOK'
  <2>1. PhaseOK(new)
    BY <1>8, <1>13 DEF PhaseOK, Checking, Upserting
  <2>2. \A s \in Request : s # r => PhaseOK(req'[s])
    BY <1>11 DEF IInv, PhasesOK, PhaseOK
  <2> QED
    BY <1>10, <2>1, <2>2 DEF PhasesOK
<1>16. ClaimsOK'
  <2>1. ~Claims(req'[r])
    BY <1>8, <1>10, <1>13 DEF Claims
  <2>2. \A s \in Request : s # r =>
          /\ Claims(req'[s]) => Claims(req[s])
          /\ KeyOf(req'[s]) = KeyOf(req[s]) /\ req'[s].life = req[s].life
          /\ req'[s].phase = "unsent" => req'[s].answer = "pending"
    BY <1>11 DEF IInv, ClaimsOK, Claims, KeyOf
  <2>3. req'[r].answer = "pending"
    BY <1>8, <1>10
  <2>4. life' = life
    BY <1>2
  <2> QED
    BY <2>1, <2>2, <2>3, <2>4 DEF IInv, ClaimsOK
<1>17. AloneOK'
  <2>1. \A s \in Request : s # r => (InFlight(s)' <=> InFlight(s))
    BY <1>11 DEF InFlight
  <2>2. \A s, u \in Request :
          InFlight(s)' /\ InFlight(u)' /\ req'[s].actor = req'[u].actor /\ req'[s].alone => s = u
    <3> SUFFICES ASSUME NEW s \in Request, NEW u \in Request, s # u,
                        InFlight(s)', InFlight(u)', req'[s].actor = req'[u].actor
                 PROVE  ~req'[s].alone
      OBVIOUS
    <3>1. CASE s = r
      <4>1. u \in rivals
        BY <1>8, <1>10, <1>11, <2>1, <3>1
      <4> QED
        BY <1>8, <1>10, <3>1, <4>1
    <3>2. CASE u = r
      <4>1. s \in rivals
        BY <1>8, <1>10, <1>11, <2>1, <3>2
      <4> QED
        BY <1>10, <4>1
    <3>3. CASE s # r /\ u # r
      BY <1>11, <2>1, <3>3 DEF IInv, AloneOK
    <3> QED
      BY <3>1, <3>2, <3>3
  <2>3. ASSUME NEW s \in Request, InFlight(s)', req'[s].alone
        PROVE  ReadsOK(s)'
    <3>1. CASE s # r
      <4>1. req'[s] = req[s] /\ InFlight(s) /\ req[s].alone
        BY <1>11, <2>1, <2>3, <3>1
      <4>2. ReadsOK(s)
        BY <4>1 DEF IInv, AloneOK
      <4> QED
        BY <1>2, <4>1, <4>2 DEF ReadsOK
    <3>2. CASE s = r
      <4>1. kind \in Tracked /\ before = Seen(kind, actor, target, given)
        BY <1>8, <1>10, <2>3, <3>2
      <4>2. target = NoOne => kind = "re_search"
        BY <1>2 DEF WellFormed
      <4> HIDE DEF before, previous
      <4>3. /\ kind \in Upserting => before = IF target \in active THEN "done" ELSE "notfound"
            /\ kind \in {"remove", "exists"} => before = saved[actor, target]
            /\ kind \in {"unrate", "get"} => before = rating[actor, target]
            /\ kind = "re_search" =>
                 before = IF target # NoOne /\ target \notin active THEN "notfound"
                          ELSE IF given THEN Sent ELSE lastHash[actor]
        <5>1. /\ kind \in Upserting /\ target \in active => before = "done"
              /\ kind \in Upserting /\ target \notin active => before = "notfound"
              /\ kind \in {"remove", "exists"} => before = saved[actor, target]
              /\ kind \in {"unrate", "get"} => before = rating[actor, target]
          BY <1>2, <4>1, SeenCases, ZenonT(60)
        <5>2. /\ kind = "re_search" /\ Missing(target) => before = "notfound"
              /\ kind = "re_search" /\ ~Missing(target) /\ given => before = Sent
              /\ kind = "re_search" /\ ~Missing(target) /\ ~given => before = lastHash[actor]
          BY <1>2, <4>1, SeenCases, ZenonT(60)
        <5> QED
          BY <5>1, <5>2 DEF Missing
      <4>4. /\ kind \in Upserting => new.phase = "check"
            /\ kind = "re_search" => (new.phase = "check" <=> target # NoOne)
        BY <1>13, <4>2 DEF Checking, EventKind, Upserting
      <4> QED
        BY <1>2, <1>8, <1>10, <1>13, <3>2, <4>1, <4>3, <4>4, ZenonT(60) DEF ReadsOK
    <3> QED
      BY <3>1, <3>2
  <2> QED
    BY <2>2, <2>3 DEF AloneOK
<1>18. AloneAnswers'
  BY <1>8, <1>10, <1>11, <1>13 DEF IInv, AloneAnswers, Told, Expected
<1> QED
  BY <1>14, <1>15, <1>16, <1>17, <1>18 DEF IInv

-----------------------------------------------------------------------------
(* The theorems *)

LEMMA NextIInv ==
  ASSUME IInv, [Next]_vars
  PROVE  IInv'
<1>1. CASE UNCHANGED vars \/ \E k \in DedupKey : ExpireKey(k)
  BY <1>1, StutterIInv
<1>2. CASE \E t \in Target : Publication(t)
  BY <1>2, PublicationIInv
<1>3. ASSUME NEW r \in Request, NEW kind \in Kind, NEW actor \in Actor,
             NEW target \in Target \cup {NoOne}, NEW given \in BOOLEAN,
             Send(r, kind, actor, target, given)
      PROVE  IInv'
  BY <1>3, SendIInv
<1>4. ASSUME NEW r \in Request,
             \/ CheckTarget(r) \/ SaveOrRestore(r) \/ Remove(r) \/ Upsert(r) \/ Delete(r)
             \/ Look(r) \/ Reread(r) \/ SetIfNotExists(r) \/ FindLastSearchHash(r)
             \/ CreateEvent(r) \/ Fail(r) \/ LoseSetAnswer(r)
      PROVE  IInv'
  BY <1>4, CheckTargetIInv, SaveOrRestoreIInv, RemoveIInv, UpsertIInv, DeleteIInv, LookIInv,
     RereadIInv, SetIfNotExistsIInv, FindLastSearchHashIInv, CreateEventIInv, FailIInv
<1> QED
  BY <1>1, <1>2, <1>3, <1>4 DEF Next

(* The inductive invariant holds of every reachable state.                 *)
THEOREM Invariance == Spec => []IInv
<1>1. Init => IInv
  BY InitIInv
<1>2. IInv /\ [Next]_vars => IInv'
  BY NextIInv
<1> QED
  BY <1>1, <1>2, PTL DEF Spec

(* The tables, the keys and the requests have their types: a row is never  *)
(* written with a state that its column cannot hold.                       *)
THEOREM TypeCorrect == Spec => []TypeOK
<1>1. IInv => TypeOK
  BY DEF IInv
<1> QED
  BY <1>1, Invariance, PTL

(* However many tabs send an impression or a view with one dedup key, at   *)
(* most one of them is stored while the key lives (eventHandler.Record).   *)
THEOREM StoredOnce == Spec => []StoredOncePerLife
<1>1. IInv => StoredOncePerLife
  <2> SUFFICES ASSUME IInv, NEW r \in Request, NEW s \in Request,
                      req[r].kind \in ViewKind, KeyOf(req[r]) = KeyOf(req[s]),
                      req[r].given, req[s].given,
                      req[r].life = req[s].life,
                      {req[r].answer, req[s].answer} \subseteq {"stored", "unsure"}
               PROVE  r = s
    BY DEF StoredOncePerLife
  <2>1. req[s].kind = req[r].kind
    BY DEF KeyOf
  <2>2. Claims(req[r]) /\ Claims(req[s])
    BY <2>1 DEF Claims
  <2> QED
    BY <2>2 DEF IInv, ClaimsOK
<1> QED
  BY <1>1, Invariance, PTL

(* A visitor without other tabs is answered with what its own rows said    *)
(* when it asked, however the requests of other visitors come in between   *)
(* (the handlers of saved items and ratings), and a search of it is stored *)
(* with the previous conditions it was sent with, or those of its own last *)
(* search, if its target is active (EventUsecase.Record).                  *)
THEOREM UndisturbedAnswers == Spec => []AloneAnswers
<1>1. IInv => AloneAnswers
  BY DEF IInv
<1> QED
  BY <1>1, Invariance, PTL
==============================================================================
