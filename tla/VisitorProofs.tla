---------------------------- MODULE VisitorProofs ----------------------------
(***************************************************************************)
(* What visitors are shown.  First the pages: proofs about Recommendation, *)
(* for any number of contents, profiles and events, any page size and any  *)
(* world around the reader.  Then what is there to be shown: proofs about  *)
(* Publication, for any contents, requests, forms and seeds.               *)
(***************************************************************************)
EXTENDS Recommendation, Publication, FiniteSetTheorems, WellFoundedInduction, TLAPS

-----------------------------------------------------------------------------
(* The inductive invariant *)

Interests == UNION {[P -> 1..MaxInterest] : P \in SUBSET Attribute}
Bases == UNION {[S -> Score] : S \in SUBSET Target}

Req == [kind : Kind, phase : Phase, offset : Nat, interest : Interests, base : Bases,
        page : SUBSET Target, calm : BOOLEAN, shown : SUBSET Target, repeated : SUBSET Target,
        hidden : SUBSET Target, saved : SUBSET Target, viewed : SUBSET Target]

TableTypes ==
  /\ score \in [Target -> Score \cup {NoMetric}]
  /\ active \subseteq Target
  /\ saved \subseteq Target
  /\ log \in Seq(Event)
  /\ profile \in [Attribute -> 0..MaxInterest]
  /\ changes \in Nat

Types == TableTypes /\ req \in Req

Fetching == {"saved", "viewed", "build"}

(* Which statements the handlers of each kind have.                        *)
PhasesOK ==
  /\ req.phase = "saved" => req.kind = "user"
  /\ req.phase = "viewed" => req.kind \in {"user", "guest"}
  /\ req.phase = "profiles" => req.kind # "ranking"
  /\ req.kind = "ranking" => DOMAIN req.interest = {} /\ req.viewed = {}
  /\ req.kind # "user" => saved = {} /\ req.saved = {}
  /\ req.phase \in Fetching => req.page \subseteq DOMAIN req.base
  /\ req.phase = "unsent" => req.offset = 0 /\ req.shown = {} /\ req.repeated = {}

(* What is still as it was when the page was asked for is so now, and each *)
(* statement has left out what it looks at.                                *)
UnwantedOK ==
  /\ req.hidden \cap active = {}
  /\ req.saved \subseteq saved
  /\ req.viewed \subseteq Viewed
  /\ req.phase \in Fetching => req.page \cap req.hidden = {}
  /\ req.phase \in {"viewed", "build"} => req.page \cap req.saved = {}
  /\ req.phase = "build" => req.page \cap req.viewed = {}

(* What is fetched for this page.                                          *)
Fetch == FetchLimit(req.kind, DOMAIN req.interest # {})
Candidates == Fetched(Fetch, req.offset)

(* In a world that stands still the page is what was fetched less what has *)
(* been left out so far.                                                   *)
CalmOK ==
  req.calm /\ req.phase \in Fetching =>
    /\ req.base = [t \in Candidates |-> score[t]]
    /\ req.page = Candidates \
         CASE req.phase = "saved" -> {}
           [] req.phase = "viewed" -> saved
           [] OTHER -> IF req.kind = "ranking" THEN {} ELSE saved \cup Viewed

(* Where the pages shown so far end.                                       *)
PagesEnd == IF req.phase = "done" THEN req.offset + Limit ELSE req.offset

(* The pages shown so far, without a profile.                              *)
ShownOK ==
  req.calm /\ (Rows = {} \/ req.kind = "ranking") =>
    /\ DOMAIN req.interest = {}
    /\ \A t \in Wanted : Rank(score, Ranked, t) < PagesEnd => t \in req.shown
    /\ req.kind # "user" =>
         /\ req.repeated = {}
         /\ \A t \in req.shown : t \in Ranked /\ Rank(score, Ranked, t) < PagesEnd

IInv == Types /\ PhasesOK /\ UnwantedOK /\ CalmOK /\ ShownOK
        /\ NothingUnwanted /\ SurplusSuffices /\ BetterIsNotLeftOut

-----------------------------------------------------------------------------
(* Sums: MapThenSumSet over a finite set of weights *)

SumOf(f, S) == MapThenSumSet(LAMBDA a : f[a], S)

First(s) == CHOOSE x \in s : TRUE

(* g is the recursive function by which the fold is defined.               *)
Unfolds(f, g, S) ==
  g = [s \in SUBSET S |-> IF s = {} THEN 0 ELSE f[First(s)] + g[s \ {First(s)}]]

(* Of the subsets of a finite set with some property one is minimal.       *)
LEMMA Minimal ==
  ASSUME NEW S, IsFiniteSet(S), NEW T, T \subseteq SUBSET S, T # {}
  PROVE  \E U \in T : \A V \in T : V \subseteq U => V = U
<1>1. IsWellFoundedOn(StrictSubsetOrdering(S), SUBSET S)
  BY FS_StrictSubsetOrderingWellFounded, FS_FiniteSubsetsOfFinite
<1>2. PICK U \in T : \A V \in T : ~ (<<V, U>> \in StrictSubsetOrdering(S))
  BY <1>1, WFMin
<1>3. \A V \in T : V \subseteq U => V = U
  BY <1>2 DEF StrictSubsetOrdering
<1> QED
  BY <1>3

LEMMA FirstIn == ASSUME NEW s, s # {} PROVE First(s) \in s
  BY DEF First

LEMMA UnfoldsAt ==
  ASSUME NEW f, NEW S, NEW g, Unfolds(f, g, S), NEW s \in SUBSET S
  PROVE  g[s] = IF s = {} THEN 0 ELSE f[First(s)] + g[s \ {First(s)}]
  BY DEF Unfolds

LEMMA UnfoldsUnique ==
  ASSUME NEW f, NEW S, NEW R, IsFiniteSet(S), NEW g, NEW h, Unfolds(f, g, S), Unfolds(f, h, R)
  PROVE  \A s \in SUBSET (S \cap R) : g[s] = h[s]
<1> DEFINE T == {s \in SUBSET S : s \subseteq R /\ g[s] # h[s]}
<1>1. SUFFICES ASSUME T # {} PROVE FALSE
  OBVIOUS
<1>2. PICK U \in T : \A V \in T : V \subseteq U => V = U
  <2>1. T \subseteq SUBSET S
    OBVIOUS
  <2> HIDE DEF T
  <2> QED
    BY <1>1, <2>1, Minimal
<1>3. U # {}
  <2>1. {} \in SUBSET S /\ {} \in SUBSET R
    OBVIOUS
  <2>2. g[{}] = 0 /\ h[{}] = 0
    BY <2>1, UnfoldsAt
  <2> QED
    BY <1>2, <2>2
<1>4. First(U) \in U
  BY <1>3, FirstIn
<1>5. g[U \ {First(U)}] = h[U \ {First(U)}]
  BY <1>2, <1>4
<1>6. g[U] = f[First(U)] + g[U \ {First(U)}] /\ h[U] = f[First(U)] + h[U \ {First(U)}]
  BY <1>2, <1>3, UnfoldsAt
<1> QED
  BY <1>2, <1>5, <1>6

LEMMA UnfoldsExists ==
  ASSUME NEW f, NEW S, IsFiniteSet(S)
  PROVE  \E g : Unfolds(f, g, S)
<1> DEFINE T == {U \in SUBSET S : ~ \E g : Unfolds(f, g, U)}
<1>1. SUFFICES ASSUME T # {} PROVE FALSE
  OBVIOUS
<1>2. PICK U \in T : \A V \in T : V \subseteq U => V = U
  <2>1. T \subseteq SUBSET S
    OBVIOUS
  <2> HIDE DEF T
  <2> QED
    BY <1>1, <2>1, Minimal
<1> DEFINE val(s) == (CHOOSE g : Unfolds(f, g, s))[s]
           k == [s \in SUBSET U |-> IF s = U /\ s # {} THEN f[First(U)] + val(U \ {First(U)}) ELSE val(s)]
<1>3. ASSUME NEW V \in SUBSET U, V # U
      PROVE  Unfolds(f, CHOOSE g : Unfolds(f, g, V), V)
  BY <1>2, <1>3
<1>4. ASSUME NEW V \in SUBSET U, V # U
      PROVE  val(V) = IF V = {} THEN 0 ELSE f[First(V)] + val(V \ {First(V)})
  <2> DEFINE g == CHOOSE g : Unfolds(f, g, V)
  <2>1. Unfolds(f, g, V)
    BY <1>3, <1>4
  <2>2. CASE V = {}
    BY <2>1, <2>2, UnfoldsAt
  <2>3. CASE V # {}
    <3> DEFINE W == V \ {First(V)}
               h == CHOOSE h : Unfolds(f, h, W)
    <3>1. W \in SUBSET U /\ W # U /\ W \in SUBSET V
      BY <2>3, FirstIn
    <3>2. Unfolds(f, h, W)
      BY <3>1, <1>3
    <3>3. IsFiniteSet(V)
      BY <1>2, FS_Subset
    <3>4. g[W] = h[W]
      <4> HIDE DEF g, h, W
      <4> QED
        BY <2>1, <3>1, <3>2, <3>3, UnfoldsUnique
    <3>5. g[V] = f[First(V)] + g[W]
      <4> HIDE DEF g
      <4> QED
        BY <2>1, <2>3, UnfoldsAt
    <3> QED
      BY <2>3, <3>4, <3>5
  <2> QED
    BY <2>2, <2>3
<1>5. Unfolds(f, k, U)
  <2>1. ASSUME NEW s \in SUBSET U
        PROVE  k[s] = IF s = {} THEN 0 ELSE f[First(s)] + k[s \ {First(s)}]
    <3> HIDE DEF val
    <3>1. CASE s = {}
      <4>1. CASE U = {}
        <5>1. Unfolds(f, [t \in SUBSET U |-> 0], U)
          BY <4>1 DEF Unfolds
        <5> QED
          BY <1>2, <5>1
      <4>2. CASE U # {}
        BY <1>4, <3>1, <4>2
      <4> QED
        BY <4>1, <4>2
    <3>2. CASE s # {}
      <4>1. s \ {First(s)} \in SUBSET U /\ s \ {First(s)} # U
        BY <3>2, FirstIn
      <4>2. k[s \ {First(s)}] = val(s \ {First(s)})
        BY <4>1
      <4>3. CASE s = U
        BY <3>2, <4>2, <4>3
      <4>4. CASE s # U
        BY <1>4, <3>2, <4>2, <4>4
      <4> QED
        BY <4>3, <4>4
    <3> QED
      BY <3>1, <3>2
  <2>2. k = [s \in SUBSET U |-> k[s]]
    OBVIOUS
  <2> HIDE DEF k
  <2> QED
    BY <2>1, <2>2 DEF Unfolds
<1> QED
  BY <1>2, <1>5

(* The fold takes the elements off one by one.                             *)
LEMMA SumDef ==
  ASSUME NEW f, NEW S, IsFiniteSet(S)
  PROVE  SumOf(f, S) = IF S = {} THEN 0 ELSE f[First(S)] + SumOf(f, S \ {First(S)})
<1> DEFINE it(R) == CHOOSE g : Unfolds(f, g, R)
<1>1. \A R : SumOf(f, R) = it(R)[R]
  BY DEF SumOf, MapThenSumSet, MapThenFoldSet, Unfolds, First
<1>2. \A R : IsFiniteSet(R) => Unfolds(f, it(R), R)
  BY UnfoldsExists
<1> HIDE DEF it
<1>3. CASE S = {}
  BY <1>1, <1>2, <1>3, UnfoldsAt, ZenonT(60)
<1>4. CASE S # {}
  <2> DEFINE R == S \ {First(S)}
  <2>1. IsFiniteSet(R) /\ R \in SUBSET (S \cap R)
    BY FS_RemoveElement
  <2>2. it(S)[R] = it(R)[R]
    BY <1>2, <2>1, UnfoldsUnique
  <2>3. it(S)[S] = f[First(S)] + it(S)[R]
    BY <1>2, <1>4, UnfoldsAt
  <2> QED
    BY <1>1, <1>4, <2>2, <2>3
<1> QED
  BY <1>3, <1>4

LEMMA SumNat ==
  ASSUME NEW f, NEW S, IsFiniteSet(S), \A a \in S : f[a] \in Nat
  PROVE  SumOf(f, S) \in Nat
<1> DEFINE T == {U \in SUBSET S : SumOf(f, U) \notin Nat}
<1>1. SUFFICES ASSUME T # {} PROVE FALSE
  OBVIOUS
<1>2. PICK U \in T : \A V \in T : V \subseteq U => V = U
  <2>1. T \subseteq SUBSET S
    OBVIOUS
  <2> HIDE DEF T
  <2> QED
    BY <1>1, <2>1, Minimal
<1>3. IsFiniteSet(U)
  BY <1>2, FS_Subset
<1>4. U # {}
  <2>1. SumOf(f, {}) = 0
    BY FS_EmptySet, SumDef
  <2> QED
    BY <1>2, <2>1
<1>5. First(U) \in U
  BY <1>4, FirstIn
<1>6. SumOf(f, U \ {First(U)}) \in Nat
  BY <1>2, <1>5
<1>7. SumOf(f, U) = f[First(U)] + SumOf(f, U \ {First(U)})
  BY <1>3, <1>4, SumDef
<1> QED
  BY <1>2, <1>5, <1>6, <1>7

(* Any element may be taken off first.                                     *)
LEMMA SumRemove ==
  ASSUME NEW f, NEW S, IsFiniteSet(S), \A a \in S : f[a] \in Nat
  PROVE  \A y \in S : SumOf(f, S) = f[y] + SumOf(f, S \ {y})
<1> DEFINE OK(U) == \A y \in U : SumOf(f, U) = f[y] + SumOf(f, U \ {y})
           T == {U \in SUBSET S : ~OK(U)}
<1>1. SUFFICES ASSUME T # {} PROVE FALSE
  OBVIOUS
<1>2. PICK U \in T : \A V \in T : V \subseteq U => V = U
  <2>1. T \subseteq SUBSET S
    OBVIOUS
  <2> HIDE DEF T
  <2> QED
    BY <1>1, <2>1, Minimal
<1>3. PICK y \in U : SumOf(f, U) # f[y] + SumOf(f, U \ {y})
  BY <1>2
<1>4. \A V \in SUBSET S : IsFiniteSet(V) /\ SumOf(f, V) \in Nat
  BY FS_Subset, SumNat
<1> DEFINE x == First(U)
           xy == U \ {x, y}
<1>5. x \in U
  BY <1>3, FirstIn
<1>6. SumOf(f, U) = f[x] + SumOf(f, U \ {x})
  BY <1>2, <1>3, <1>4, SumDef
<1>7. x # y
  BY <1>3, <1>6
<1> HIDE DEF x
<1>8. OK(U \ {x}) /\ OK(U \ {y})
  BY <1>2, <1>3, <1>5
<1>9. (U \ {x}) \ {y} = xy /\ (U \ {y}) \ {x} = xy
  OBVIOUS
<1>10. SumOf(f, U \ {x}) = f[y] + SumOf(f, xy) /\ SumOf(f, U \ {y}) = f[x] + SumOf(f, xy)
  BY <1>3, <1>5, <1>7, <1>8, <1>9
<1>11. f[x] \in Nat /\ f[y] \in Nat /\ SumOf(f, xy) \in Nat
  BY <1>2, <1>3, <1>4, <1>5
<1> QED
  BY <1>3, <1>6, <1>10, <1>11

(* More profiles that match give no smaller a sum.                         *)
LEMMA SumMonotone ==
  ASSUME NEW f, NEW S, IsFiniteSet(S), \A a \in S : f[a] \in Nat, NEW A, A \subseteq S
  PROVE  SumOf(f, A) <= SumOf(f, S)
<1> DEFINE T == {U \in SUBSET S : A \subseteq U /\ ~(SumOf(f, A) <= SumOf(f, U))}
<1>1. SUFFICES ASSUME T # {} PROVE FALSE
  OBVIOUS
<1>2. PICK U \in T : \A V \in T : V \subseteq U => V = U
  <2>1. T \subseteq SUBSET S
    OBVIOUS
  <2> HIDE DEF T
  <2> QED
    BY <1>1, <2>1, Minimal
<1>3. \A V \in SUBSET S : IsFiniteSet(V) /\ SumOf(f, V) \in Nat
  BY FS_Subset, SumNat
<1>4. U # A
  BY <1>2, <1>3
<1>5. PICK y \in U : y \notin A
  BY <1>2, <1>4
<1>6. SumOf(f, A) <= SumOf(f, U \ {y})
  BY <1>2, <1>5
<1>7. SumOf(f, U) = f[y] + SumOf(f, U \ {y})
  BY <1>2, <1>3, <1>5, SumRemove
<1>8. f[y] \in Nat /\ SumOf(f, U \ {y}) \in Nat /\ SumOf(f, A) \in Nat /\ SumOf(f, U) \in Nat
  BY <1>2, <1>3, <1>5
<1> QED
  BY <1>2, <1>6, <1>7, <1>8

-----------------------------------------------------------------------------
(* Ranks: the order by score and id on a finite set of targets *)

Up(s, S, t) == {u \in S : Above(s, u, t)}

Scored(s, S) == IsFiniteSet(S) /\ S \subseteq Nat /\ \A t \in S : s[t] \in Int

LEMMA Least ==
  ASSUME NEW S, S \subseteq Nat, S # {}
  PROVE  \E m \in S : \A n \in S : m <= n
<1>1. PICK m \in S : \A n \in S : ~ (<<n, m>> \in OpToRel(<, Nat))
  BY NatLessThanWellFounded, WFMin
<1>2. \A n \in S : ~ (n < m)
  BY <1>1 DEF OpToRel
<1> QED
  BY <1>2

LEMMA AboveOrder ==
  ASSUME NEW s, NEW S, Scored(s, S)
  PROVE  /\ \A t \in S : ~Above(s, t, t)
         /\ \A t, u, v \in S : Above(s, t, u) /\ Above(s, u, v) => Above(s, t, v)
         /\ \A t, u \in S : t # u => Above(s, t, u) \/ Above(s, u, t)
  BY DEF Scored, Above

LEMMA UpFinite ==
  ASSUME NEW s, NEW S, Scored(s, S), NEW t
  PROVE  /\ IsFiniteSet(Up(s, S, t)) /\ Up(s, S, t) \subseteq S
         /\ Rank(s, S, t) = Cardinality(Up(s, S, t)) /\ Rank(s, S, t) \in Nat
<1>1. Up(s, S, t) \subseteq S /\ Rank(s, S, t) = Cardinality(Up(s, S, t))
  BY DEF Up, Rank
<1>2. IsFiniteSet(Up(s, S, t))
  BY <1>1, FS_Subset DEF Scored
<1> QED
  BY <1>1, <1>2, FS_CardinalityType

(* Whoever is above has the smaller rank.                                  *)
LEMMA RankOrder ==
  ASSUME NEW s, NEW S, Scored(s, S), NEW t \in S, NEW u \in S, Above(s, u, t)
  PROVE  Rank(s, S, u) < Rank(s, S, t)
<1>1. Up(s, S, u) \subseteq Up(s, S, t) /\ u \in Up(s, S, t) /\ u \notin Up(s, S, u)
  BY AboveOrder DEF Up
<1>2. /\ Rank(s, S, u) = Cardinality(Up(s, S, u)) /\ Rank(s, S, u) \in Nat
      /\ Rank(s, S, t) = Cardinality(Up(s, S, t)) /\ Rank(s, S, t) \in Nat
      /\ IsFiniteSet(Up(s, S, t))
  BY UpFinite
<1>3. /\ Cardinality(Up(s, S, u)) <= Cardinality(Up(s, S, t))
      /\ Cardinality(Up(s, S, t)) = Cardinality(Up(s, S, u)) => Up(s, S, t) = Up(s, S, u)
  BY <1>1, <1>2, FS_Subset
<1> QED
  BY <1>1, <1>2, <1>3

LEMMA RankInjective ==
  ASSUME NEW s, NEW S, Scored(s, S), NEW t \in S, NEW u \in S, Rank(s, S, u) = Rank(s, S, t)
  PROVE  u = t
<1>1. Rank(s, S, u) \in Nat /\ Rank(s, S, t) \in Nat
  BY UpFinite
<1>2. ~Above(s, u, t) /\ ~Above(s, t, u)
  BY <1>1, RankOrder
<1> QED
  BY <1>2, AboveOrder

(* At most n have a rank below n.                                          *)
LEMMA AtMost ==
  ASSUME NEW s, NEW S, Scored(s, S), NEW n \in Nat
  PROVE  LET A == {t \in S : Rank(s, S, t) < n}
         IN  IsFiniteSet(A) /\ Cardinality(A) \in Nat /\ Cardinality(A) <= n
<1> DEFINE A == {t \in S : Rank(s, S, t) < n}
           f == [t \in A |-> Rank(s, S, t)]
<1>1. \A t \in A : Rank(s, S, t) \in 0..(n - 1)
  BY UpFinite
<1>2. f \in [A -> 0..(n - 1)]
  BY <1>1
<1>3. \A t, u \in A : f[t] = f[u] => t = u
  BY RankInjective
<1>4. f \in Injection(A, 0..(n - 1))
  BY <1>2, <1>3 DEF Injection, IsInjective
<1>5. IsFiniteSet(0..(n - 1)) /\ Cardinality(0..(n - 1)) = n
  BY FS_Interval
<1>6. IsFiniteSet(A) /\ Cardinality(A) <= n
  BY <1>4, <1>5, FS_Injection
<1> QED
  BY <1>6, FS_CardinalityType

(* If some rank reaches n, then at least n are below.                      *)
LEMMA AtLeast ==
  ASSUME NEW s, NEW S, Scored(s, S), NEW n \in Nat, NEW t \in S, n <= Rank(s, S, t)
  PROVE  n <= Cardinality({u \in S : Rank(s, S, u) < n})
<1> DEFINE A == {u \in S : Rank(s, S, u) < n}
           R == {Rank(s, S, u) : u \in {v \in S : n <= Rank(s, S, v)}}
<1>1. R \subseteq Nat /\ R # {}
  BY UpFinite
<1>2. PICK m \in R : \A k \in R : m <= k
  <2> HIDE DEF R
  <2> QED
    BY <1>1, Least
<1>3. PICK v \in S : n <= Rank(s, S, v) /\ m = Rank(s, S, v)
  BY <1>2
<1>4. Up(s, S, v) \subseteq A
  <2> SUFFICES ASSUME NEW u \in Up(s, S, v)
               PROVE  u \in A
    OBVIOUS
  <2>1. u \in S /\ Above(s, u, v)
    BY DEF Up
  <2>2. Rank(s, S, u) < m
    BY <1>3, <2>1, RankOrder
  <2>3. Rank(s, S, u) \in Nat /\ m \in Nat
    BY <1>1, <2>1, UpFinite
  <2>4. ~(n <= Rank(s, S, u))
    BY <1>2, <2>1, <2>2, <2>3
  <2> QED
    BY <2>1, <2>3, <2>4
<1>5. IsFiniteSet(A)
  BY AtMost
<1>6. Cardinality(Up(s, S, v)) <= Cardinality(A) /\ Cardinality(A) \in Nat
  BY <1>4, <1>5, FS_Subset, FS_CardinalityType
<1>7. m = Cardinality(Up(s, S, v)) /\ m \in Nat
  BY <1>3, UpFinite
<1> QED
  BY <1>3, <1>6, <1>7

(* The first n of a set that has so many are n.                            *)
LEMMA Exactly ==
  ASSUME NEW s, NEW S, Scored(s, S), NEW n \in Nat, n <= Cardinality(S)
  PROVE  Cardinality({u \in S : Rank(s, S, u) < n}) = n
<1> DEFINE A == {u \in S : Rank(s, S, u) < n}
<1>1. Cardinality(A) \in Nat /\ Cardinality(A) <= n
  BY AtMost
<1>2. CASE \E t \in S : n <= Rank(s, S, t)
  BY <1>1, <1>2, AtLeast
<1>3. CASE ~ \E t \in S : n <= Rank(s, S, t)
  <2>1. A = S
    BY <1>3, UpFinite
  <2> QED
    BY <1>1, <2>1
<1> QED
  BY <1>2, <1>3

(* Of the targets from rank "from" on, fewer than n are above one of them  *)
(* whose rank is below from + n.                                           *)
LEMMA FewAbove ==
  ASSUME NEW s, NEW S, Scored(s, S), NEW from \in Nat, NEW n \in Nat \ {0}, NEW t \in S,
         Rank(s, S, t) < from + n
  PROVE  LET B == {u \in Up(s, S, t) : from <= Rank(s, S, u)}
         IN  IsFiniteSet(B) /\ Cardinality(B) \in Nat /\ Cardinality(B) < n
<1> DEFINE B == {u \in Up(s, S, t) : from <= Rank(s, S, u)}
           A == {u \in S : Rank(s, S, u) < from}
<1>1. /\ IsFiniteSet(Up(s, S, t)) /\ Up(s, S, t) \subseteq S
      /\ Rank(s, S, t) = Cardinality(Up(s, S, t)) /\ Rank(s, S, t) \in Nat
  BY UpFinite
<1>2. IsFiniteSet(B) /\ Cardinality(B) \in Nat
  BY <1>1, FS_Subset, FS_CardinalityType
<1>3. \A u \in S : Rank(s, S, u) \in Nat
  BY UpFinite
<1>4. \A u \in Up(s, S, t) : Rank(s, S, u) < Rank(s, S, t)
  BY RankOrder DEF Up
<1>5. CASE Rank(s, S, t) < from
  <2>1. B = {}
    BY <1>1, <1>3, <1>4, <1>5
  <2>2. Cardinality(B) = 0
    BY <2>1, FS_EmptySet
  <2> QED
    BY <1>2, <2>2
<1>6. CASE from <= Rank(s, S, t)
  <2>1. from <= Cardinality(A)
    BY <1>6, AtLeast
  <2>2. A \subseteq Up(s, S, t)
    <3> SUFFICES ASSUME NEW u \in A
                 PROVE  u \in Up(s, S, t)
      OBVIOUS
    <3>1. u # t /\ ~Above(s, t, u)
      <4>1. Rank(s, S, u) < Rank(s, S, t)
        BY <1>1, <1>3, <1>6
      <4>2. Above(s, t, u) => Rank(s, S, t) < Rank(s, S, u)
        BY RankOrder
      <4> QED
        BY <1>1, <1>3, <4>1, <4>2
    <3> QED
      BY <3>1, AboveOrder DEF Up
  <2>3. B = Up(s, S, t) \ A /\ Up(s, S, t) \cap A = A
    BY <1>1, <1>3, <2>2
  <2>4. Cardinality(B) = Cardinality(Up(s, S, t)) - Cardinality(A)
    BY <1>1, <2>3, FS_Difference
  <2>5. Cardinality(A) \in Nat
    BY <1>1, <2>2, FS_Subset, FS_CardinalityType
  <2> QED
    BY <1>1, <1>2, <2>1, <2>4, <2>5
<1> QED
  BY <1>1, <1>5, <1>6

-----------------------------------------------------------------------------
(* The page being read *)

LEMMA TypesSuffice == Types => TypeOK
  BY DEF Types, TableTypes, TypeOK, Req, Interests, Bases

LEMMA RankedScored == TableTypes => Scored(score, Ranked) /\ Ranked \subseteq Target /\ IsFiniteSet(Target)
<1> SUFFICES ASSUME TableTypes
             PROVE  Scored(score, Ranked) /\ Ranked \subseteq Target /\ IsFiniteSet(Target)
  OBVIOUS
<1>1. MaxTarget \in Nat /\ MaxScore \in Nat
  BY RecommendationAssumption
<1>2. IsFiniteSet(Target) /\ Target \subseteq Nat
  BY <1>1, FS_Interval DEF Target
<1>3. Ranked \subseteq Target /\ \A t \in Ranked : score[t] \in Int
  BY <1>1 DEF TableTypes, Ranked, Score, NoMetric
<1>4. IsFiniteSet(Ranked)
  BY <1>2, <1>3, FS_Subset
<1> QED
  BY <1>2, <1>3, <1>4 DEF Scored

LEMMA RankNat == TableTypes => \A t \in Ranked : Rank(score, Ranked, t) \in Nat
  BY RankedScored, UpFinite

(* How many are fetched: a page, and two at least for a user.              *)
LEMMA FetchBounds ==
  ASSUME Types, PhasesOK
  PROVE  /\ Fetch \in Nat /\ Limit <= Fetch
         /\ req.kind = "user" => 2 * Limit <= Fetch
         /\ req.kind # "user" /\ DOMAIN req.interest = {} => Fetch = Limit
<1>1. Limit \in Nat \ {0} /\ MaxFetch \in Nat /\ 2 * Limit <= MaxFetch
  BY RecommendationAssumption
<1>2. req.kind \in {"ranking", "user", "guest"}
  BY DEF Types, Req, Kind
<1>3. CASE req.kind = "ranking"
  BY <1>1, <1>3 DEF Fetch, FetchLimit
<1>4. CASE req.kind # "ranking" /\ DOMAIN req.interest # {}
  BY <1>1, <1>4 DEF Fetch, FetchLimit
<1>5. CASE req.kind = "user" /\ DOMAIN req.interest = {}
  BY <1>1, <1>5 DEF Fetch, FetchLimit
<1>6. CASE req.kind = "guest" /\ DOMAIN req.interest = {}
  BY <1>1, <1>6 DEF Fetch, FetchLimit
<1> QED
  BY <1>2, <1>3, <1>4, <1>5, <1>6

LEMMA CandidatesAre ==
  ASSUME Types, PhasesOK
  PROVE  /\ Candidates \subseteq Ranked
         /\ \A t \in Ranked : t \in Candidates <=>
              req.offset <= Rank(score, Ranked, t) /\ Rank(score, Ranked, t) < req.offset + Fetch
<1>1. req.offset \in Nat /\ Fetch \in Nat
  BY FetchBounds DEF Types, Req
<1>2. \A t \in Ranked : Rank(score, Ranked, t) \in Nat
  BY RankNat DEF Types
<1> QED
  BY <1>1, <1>2 DEF Candidates, Fetched

(* The statements of a reader see one world, and read the same in it.      *)
LEMMA SameWorld ==
  ASSUME UNCHANGED <<score, active, saved, log, profile, changes>>, req'.kind = req.kind
  PROVE  /\ Ranked' = Ranked /\ Rows' = Rows /\ Viewed' = Viewed /\ Wanted' = Wanted
         /\ req'.offset = req.offset /\ req'.interest = req.interest => Candidates' = Candidates
<1>1. Ranked' = Ranked /\ Rows' = Rows /\ Viewed' = Viewed
  BY DEF Ranked, Rows, Viewed
<1>2. Wanted' = Wanted
  BY <1>1 DEF Wanted
<1>3. req'.offset = req.offset /\ req'.interest = req.interest => Candidates' = Candidates
  BY <1>1 DEF Candidates, Fetched, Fetch
<1> QED
  BY <1>1, <1>2, <1>3

-----------------------------------------------------------------------------
(* Each step of the reader keeps the invariant *)

LEMMA EmptyFunctions ==
  /\ [a \in {} |-> 0] \in Interests /\ DOMAIN [a \in {} |-> 0] = {}
  /\ [t \in {} |-> 0] \in Bases /\ DOMAIN [t \in {} |-> 0] = {}
<1>1. [a \in {} |-> 0] \in [{} -> 1..MaxInterest] /\ [t \in {} |-> 0] \in [{} -> Score]
  OBVIOUS
<1> QED
  BY <1>1 DEF Interests, Bases

LEMMA InitIInv == Init => IInv
<1> SUFFICES ASSUME Init
             PROVE  IInv
  OBVIOUS
<1>1. PICK kind \in Kind : req = [Unsent EXCEPT !.kind = kind]
  BY DEF Init
<1>2. req = [kind |-> kind, phase |-> "unsent", offset |-> 0,
             interest |-> [a \in {} |-> 0], base |-> [t \in {} |-> 0], page |-> {},
             calm |-> TRUE, shown |-> {}, repeated |-> {},
             hidden |-> {}, saved |-> {}, viewed |-> {}]
  BY <1>1 DEF Unsent
<1>3. TableTypes
  <2>1. RecentLimit \in Nat /\ log \in [1..RecentLimit -> Event]
    BY RecommendationAssumption DEF Init
  <2>2. log \in Seq(Event)
    BY <2>1
  <2> QED
    BY <2>2 DEF Init, TableTypes
<1>4. req \in Req
  BY <1>2, EmptyFunctions DEF Req, Phase
<1>5. PhasesOK
  BY <1>2, EmptyFunctions DEF PhasesOK, Init, Fetching
<1>6. UnwantedOK
  BY <1>2 DEF UnwantedOK, Fetching
<1>7. CalmOK
  BY <1>2 DEF CalmOK, Fetching
<1>8. ShownOK
  <2>1. PagesEnd = 0
    BY <1>2 DEF PagesEnd
  <2>2. Wanted \subseteq Ranked
    BY DEF Wanted
  <2>3. \A t \in Wanted : ~(Rank(score, Ranked, t) < PagesEnd)
    BY <1>3, <2>1, <2>2, RankNat
  <2> QED
    BY <1>2, <2>3, EmptyFunctions DEF ShownOK
<1>9. NothingUnwanted /\ SurplusSuffices /\ BetterIsNotLeftOut
  BY <1>2 DEF NothingUnwanted, SurplusSuffices, BetterIsNotLeftOut, Undisturbed
<1> QED
  BY <1>3, <1>4, <1>5, <1>6, <1>7, <1>8, <1>9 DEF IInv, Types

(* A page is asked for: the first, the next, or the same again.            *)
LEMMA AskIInv ==
  ASSUME IInv, req' = Ask(PagesEnd), UNCHANGED <<score, active, saved, log, profile, changes>>
  PROVE  IInv'
<1>1. TableTypes /\ req \in Req /\ PhasesOK /\ ShownOK
  BY DEF IInv, Types
<1>2. PagesEnd \in Nat
  BY <1>1, RecommendationAssumption DEF PagesEnd, Req
<1> HIDE DEF PagesEnd
<1>3. /\ req'.kind = req.kind /\ req'.offset = PagesEnd /\ req'.calm = req.calm
      /\ req'.phase = IF req.kind = "ranking" THEN "ranking" ELSE "profiles"
      /\ req'.shown = req.shown /\ req'.repeated = req.repeated
      /\ req'.interest = [a \in {} |-> 0] /\ req'.base = [t \in {} |-> 0] /\ req'.page = {}
      /\ req'.hidden = Target \ active
      /\ req'.saved = IF req.kind = "user" THEN saved ELSE {}
      /\ req'.viewed = IF req.kind = "ranking" THEN {} ELSE Viewed
  BY <1>1 DEF Ask, Req
<1>4. TableTypes'
  BY <1>1 DEF TableTypes
<1>5. Viewed \subseteq Target
  BY <1>1 DEF TableTypes, Viewed, Event, Other
<1>6. req' \in Req
  BY <1>1, <1>2, <1>5, EmptyFunctions DEF Ask, Req, Phase, TableTypes
<1>7. PhasesOK'
  BY <1>1, <1>3, EmptyFunctions DEF PhasesOK, Fetching
<1>8. Ranked' = Ranked /\ Rows' = Rows /\ Viewed' = Viewed /\ Wanted' = Wanted
  BY <1>3, SameWorld
<1>9. UnwantedOK'
  BY <1>3, <1>8 DEF UnwantedOK, Fetching
<1>10. CalmOK'
  BY <1>3 DEF CalmOK, Fetching
<1>11. ShownOK'
  <2>1. PagesEnd' = PagesEnd
    BY <1>3 DEF PagesEnd
  <2> QED
    BY <1>1, <1>3, <1>8, <2>1, EmptyFunctions DEF ShownOK
<1>12. NothingUnwanted' /\ SurplusSuffices' /\ BetterIsNotLeftOut'
  BY <1>3 DEF NothingUnwanted, SurplusSuffices, BetterIsNotLeftOut, Undisturbed
<1> QED
  BY <1>4, <1>6, <1>7, <1>9, <1>10, <1>11, <1>12 DEF IInv, Types

LEMMA SendIInv ==
  ASSUME IInv, Send \/ SendNext \/ Fail
  PROVE  IInv'
<1>1. req' = Ask(PagesEnd)
  BY DEF IInv, PhasesOK, Send, SendNext, Fail, PagesEnd
<1>2. UNCHANGED <<score, active, saved, log, profile, changes>>
  BY DEF Send, SendNext, Fail
<1> QED
  BY <1>1, <1>2, AskIInv
LEMMA LoadIInv ==
  ASSUME IInv, LoadInterestProfiles
  PROVE  IInv'
<1>1. Types /\ PhasesOK /\ UnwantedOK /\ ShownOK
  BY DEF IInv
<1>2. PICK P \in SUBSET Rows : req' = [req EXCEPT !.phase = "ranking", !.interest = [a \in P |-> profile[a]]]
  BY DEF LoadInterestProfiles
<1>3. UNCHANGED <<score, active, saved, log, profile, changes>> /\ req.phase = "profiles"
  BY DEF LoadInterestProfiles
<1>4. /\ req'.kind = req.kind /\ req'.offset = req.offset /\ req'.calm = req.calm
      /\ req'.phase = "ranking" /\ req'.interest = [a \in P |-> profile[a]]
      /\ req'.shown = req.shown /\ req'.repeated = req.repeated /\ req'.page = req.page
      /\ req'.hidden = req.hidden /\ req'.saved = req.saved /\ req'.viewed = req.viewed
  BY <1>1, <1>2 DEF Types, Req
<1>5. [a \in P |-> profile[a]] \in Interests
  <2>1. \A a \in P : a \in Attribute /\ profile[a] \in 0..MaxInterest /\ profile[a] > 0
    BY <1>1, <1>2 DEF Types, TableTypes, Rows
  <2>2. MaxInterest \in Nat
    BY RecommendationAssumption
  <2>3. \A a \in P : profile[a] \in 1..MaxInterest
    BY <2>1, <2>2
  <2>4. [a \in P |-> profile[a]] \in [P -> 1..MaxInterest] /\ P \in SUBSET Attribute
    BY <2>1, <2>3
  <2> QED
    BY <2>4 DEF Interests
<1>6. TableTypes' /\ req' \in Req
  <2>1. TableTypes'
    BY <1>1, <1>3 DEF Types, TableTypes
  <2>2. req' \in Req
    BY <1>1, <1>2, <1>5 DEF Types, Req, Phase
  <2> QED
    BY <2>1, <2>2
<1>7. Ranked' = Ranked /\ Rows' = Rows /\ Viewed' = Viewed /\ Wanted' = Wanted
  BY <1>3, <1>4, SameWorld
<1>8. req.kind # "ranking"
  BY <1>1, <1>3 DEF PhasesOK
<1>9. PhasesOK'
  BY <1>1, <1>3, <1>4, <1>8 DEF PhasesOK, Fetching
<1>10. UnwantedOK'
  BY <1>1, <1>3, <1>4, <1>7 DEF UnwantedOK, Fetching
<1>11. CalmOK'
  BY <1>4 DEF CalmOK, Fetching
<1>12. ShownOK'
  <2>1. PagesEnd' = PagesEnd
    BY <1>3, <1>4 DEF PagesEnd
  <2>2. Rows = {} => DOMAIN req'.interest = {}
    BY <1>2, <1>4
  <2> QED
    BY <1>1, <1>3, <1>4, <1>7, <1>8, <2>1, <2>2 DEF ShownOK
<1>13. NothingUnwanted' /\ SurplusSuffices' /\ BetterIsNotLeftOut'
  BY <1>4 DEF NothingUnwanted, SurplusSuffices, BetterIsNotLeftOut, Undisturbed
<1> QED
  BY <1>6, <1>9, <1>10, <1>11, <1>12, <1>13 DEF IInv, Types

LEMMA ListIInv ==
  ASSUME IInv, ListRanking
  PROVE  IInv'
<1>1. Types /\ PhasesOK /\ UnwantedOK /\ ShownOK
  BY DEF IInv
<1>2. UNCHANGED <<score, active, saved, log, profile, changes>> /\ req.phase = "ranking"
  BY DEF ListRanking
<1> DEFINE next == CASE req.kind = "user" -> "saved"
                     [] req.kind = "guest" -> "viewed"
                     [] OTHER -> "build"
<1>3. req' = [req EXCEPT !.base = [t \in Candidates |-> score[t]], !.page = Candidates, !.phase = next]
  BY DEF ListRanking, Candidates, Fetch
<1>4. /\ next \in Fetching
      /\ next = "saved" => req.kind = "user"
      /\ next = "viewed" => req.kind = "guest"
      /\ next = "build" => req.kind = "ranking"
  BY <1>1 DEF Types, Req, Kind, Fetching
<1> HIDE DEF next
<1>5. /\ req'.kind = req.kind /\ req'.offset = req.offset /\ req'.calm = req.calm
      /\ req'.phase = next /\ req'.interest = req.interest
      /\ req'.base = [t \in Candidates |-> score[t]] /\ req'.page = Candidates
      /\ req'.shown = req.shown /\ req'.repeated = req.repeated
      /\ req'.hidden = req.hidden /\ req'.saved = req.saved /\ req'.viewed = req.viewed
  BY <1>1, <1>3 DEF Types, Req
<1>6. Candidates \subseteq Ranked /\ Ranked \subseteq Target /\ Ranked \subseteq active
  BY <1>1, CandidatesAre, RankedScored DEF Types, Ranked
<1>7. \A t \in Ranked : score[t] \in Score
  BY <1>1 DEF Types, TableTypes, Ranked
<1>8. [t \in Candidates |-> score[t]] \in Bases
  <2>1. [t \in Candidates |-> score[t]] \in [Candidates -> Score] /\ Candidates \in SUBSET Target
    BY <1>6, <1>7
  <2> QED
    BY <2>1 DEF Bases
<1>9. TableTypes' /\ req' \in Req
  <2>1. TableTypes'
    BY <1>1, <1>2 DEF Types, TableTypes
  <2>2. next \in Phase /\ Candidates \in SUBSET Target
    BY <1>4, <1>6 DEF Phase, Fetching
  <2>3. req' \in Req
    BY <1>1, <1>3, <1>8, <2>2 DEF Types, Req
  <2> QED
    BY <2>1, <2>3
<1>10. Ranked' = Ranked /\ Rows' = Rows /\ Viewed' = Viewed /\ Wanted' = Wanted /\ Candidates' = Candidates
  BY <1>2, <1>5, SameWorld
<1>11. PhasesOK'
  BY <1>1, <1>2, <1>4, <1>5 DEF PhasesOK, Fetching
<1>12. UnwantedOK'
  <2>1. Candidates \cap req.hidden = {}
    BY <1>1, <1>6 DEF UnwantedOK
  <2>2. next \in {"viewed", "build"} => req.saved = {}
    BY <1>1, <1>4 DEF PhasesOK
  <2>3. next = "build" => req.viewed = {}
    BY <1>1, <1>4 DEF PhasesOK
  <2> QED
    BY <1>1, <1>2, <1>5, <1>10, <2>1, <2>2, <2>3 DEF UnwantedOK
<1>13. CalmOK'
  <2>1. next = "viewed" => saved = {}
    BY <1>1, <1>4 DEF PhasesOK
  <2>2. next = "build" => req.kind = "ranking"
    BY <1>4
  <2>3. CASE next = "saved"
    BY <1>2, <1>5, <1>10, <2>3 DEF CalmOK
  <2>4. CASE next = "viewed"
    BY <1>2, <1>5, <1>10, <2>1, <2>4 DEF CalmOK
  <2>5. CASE next = "build"
    BY <1>2, <1>5, <1>10, <2>2, <2>5 DEF CalmOK
  <2> QED
    BY <1>4, <2>3, <2>4, <2>5 DEF Fetching
<1>14. ShownOK'
  <2>1. PagesEnd' = PagesEnd
    BY <1>2, <1>4, <1>5 DEF PagesEnd, Fetching
  <2> QED
    BY <1>1, <1>2, <1>5, <1>10, <2>1 DEF ShownOK
<1>15. NothingUnwanted' /\ SurplusSuffices' /\ BetterIsNotLeftOut'
  BY <1>4, <1>5 DEF NothingUnwanted, SurplusSuffices, BetterIsNotLeftOut, Undisturbed, Fetching
<1> QED
  BY <1>9, <1>11, <1>12, <1>13, <1>14, <1>15 DEF IInv, Types

LEMMA FilterIInv ==
  ASSUME IInv, FilterSaved \/ FilterViewed
  PROVE  IInv'
<1>1. Types /\ PhasesOK /\ UnwantedOK /\ CalmOK /\ ShownOK
  BY DEF IInv
<1> DEFINE next == IF req.phase = "saved" THEN "viewed" ELSE "build"
           left == req.page \ (IF req.phase = "saved" THEN saved ELSE Viewed)
<1>2. /\ UNCHANGED <<score, active, saved, log, profile, changes>> /\ req.phase \in {"saved", "viewed"}
      /\ req' = [req EXCEPT !.phase = next, !.page = left]
  BY <1>1 DEF FilterSaved, FilterViewed, Types, Req
<1>3. /\ next \in {"viewed", "build"} /\ (req.phase = "saved" <=> next = "viewed")
      /\ left \subseteq req.page
      /\ next = "viewed" => left = req.page \ saved
      /\ next = "build" => left = req.page \ Viewed
  BY <1>2
<1> HIDE DEF next, left
<1>4. /\ req'.kind = req.kind /\ req'.offset = req.offset /\ req'.calm = req.calm
      /\ req'.phase = next /\ req'.interest = req.interest
      /\ req'.base = req.base /\ req'.page = left
      /\ req'.shown = req.shown /\ req'.repeated = req.repeated
      /\ req'.hidden = req.hidden /\ req'.saved = req.saved /\ req'.viewed = req.viewed
  BY <1>1, <1>2 DEF Types, Req
<1>5. TableTypes' /\ req' \in Req
  <2>1. TableTypes'
    BY <1>1, <1>2 DEF Types, TableTypes
  <2>2. next \in Phase /\ left \in SUBSET Target
    BY <1>1, <1>3 DEF Phase, Types, Req
  <2>3. req' \in Req
    BY <1>1, <1>2, <2>2 DEF Types, Req
  <2> QED
    BY <2>1, <2>3
<1>6. Ranked' = Ranked /\ Rows' = Rows /\ Viewed' = Viewed /\ Wanted' = Wanted /\ Candidates' = Candidates
  BY <1>2, <1>4, SameWorld
<1>7. PhasesOK'
  BY <1>1, <1>2, <1>3, <1>4 DEF PhasesOK, Fetching
<1>8. UnwantedOK'
  <2>1. left \cap req.hidden = {} /\ left \cap req.saved = {} /\ (next = "build" => left \cap req.viewed = {})
    BY <1>1, <1>2, <1>3 DEF UnwantedOK, Fetching
  <2> QED
    BY <1>1, <1>2, <1>4, <1>6, <2>1 DEF UnwantedOK
<1>9. CalmOK'
  <2>1. ASSUME req.calm
        PROVE  /\ req.base = [t \in Candidates |-> score[t]]
               /\ next = "viewed" => left = Candidates \ saved
               /\ next = "build" => left = Candidates \ (saved \cup Viewed) /\ req.kind # "ranking"
    <3>1. /\ req.base = [t \in Candidates |-> score[t]]
          /\ req.phase = "saved" => req.page = Candidates
          /\ req.phase = "viewed" => req.page = Candidates \ saved
      BY <1>1, <1>2, <2>1 DEF CalmOK, Fetching
    <3>2. next = "build" => req.phase = "viewed" /\ req.kind # "ranking"
      BY <1>1, <1>2, <1>3 DEF PhasesOK
    <3> QED
      BY <1>2, <1>3, <3>1, <3>2
  <2>2. CASE next = "viewed"
    BY <1>2, <1>4, <1>6, <2>1, <2>2 DEF CalmOK
  <2>3. CASE next = "build"
    BY <1>2, <1>4, <1>6, <2>1, <2>3 DEF CalmOK
  <2> QED
    BY <1>3, <2>2, <2>3
<1>10. ShownOK'
  <2>1. PagesEnd' = PagesEnd
    BY <1>2, <1>3, <1>4 DEF PagesEnd
  <2> QED
    BY <1>1, <1>2, <1>4, <1>6, <2>1 DEF ShownOK
<1>11. NothingUnwanted' /\ SurplusSuffices' /\ BetterIsNotLeftOut'
  BY <1>3, <1>4 DEF NothingUnwanted, SurplusSuffices, BetterIsNotLeftOut, Undisturbed
<1> QED
  BY <1>5, <1>7, <1>8, <1>9, <1>10, <1>11 DEF IInv, Types
-----------------------------------------------------------------------------
(* The answer: what is boosted, sorted and trimmed *)

Boosted == [t \in req.page |-> req.base[t] + Interest(req.interest, t)]
Answer == IF req.kind = "ranking" THEN req.page ELSE Best(Boosted, req.page)

LEMMA InterestSums ==
  ASSUME Types
  PROVE  /\ \A t \in Target : Interest(req.interest, t) \in Nat
         /\ DOMAIN req.interest = {} => \A t \in Target : Interest(req.interest, t) = 0
         /\ \A t, u \in Target : Attrs[t] \subseteq Attrs[u] =>
              Interest(req.interest, t) <= Interest(req.interest, u)
<1> DEFINE i == req.interest
           M(t) == Attrs[t] \cap DOMAIN i
<1>1. \A t \in Target : Interest(i, t) = SumOf(i, M(t))
  BY DEF Interest, SumOf
<1>2. /\ IsFiniteSet(DOMAIN i)
      /\ \A a \in DOMAIN i : i[a] \in Nat
  <2>1. PICK P \in SUBSET Attribute : i \in [P -> 1..MaxInterest]
    BY DEF Types, Req, Interests
  <2>2. IsFiniteSet(Attribute) /\ MaxInterest \in Nat
    BY RecommendationAssumption
  <2>3. DOMAIN i = P /\ IsFiniteSet(P)
    BY <2>1, <2>2, FS_Subset
  <2> QED
    BY <2>1, <2>2, <2>3
<1> HIDE DEF i
<1>3. \A t \in Target : M(t) \subseteq DOMAIN i /\ IsFiniteSet(M(t)) /\ \A a \in M(t) : i[a] \in Nat
  BY <1>2, FS_Subset
<1>4. \A t \in Target : Interest(i, t) \in Nat
  BY <1>1, <1>3, SumNat
<1>5. DOMAIN i = {} => \A t \in Target : Interest(i, t) = 0
  BY <1>1, FS_EmptySet, SumDef
<1>6. ASSUME NEW t \in Target, NEW u \in Target, Attrs[t] \subseteq Attrs[u]
      PROVE  Interest(i, t) <= Interest(i, u)
  <2>1. M(t) \subseteq M(u)
    BY <1>6
  <2>2. IsFiniteSet(M(u)) /\ \A a \in M(u) : i[a] \in Nat
    BY <1>3
  <2> HIDE DEF M
  <2>3. SumOf(i, M(t)) <= SumOf(i, M(u))
    BY <2>1, <2>2, SumMonotone
  <2> QED
    BY <1>1, <2>3
<1> QED
  BY <1>4, <1>5, <1>6 DEF i

LEMMA BoostedScored ==
  ASSUME Types, PhasesOK, req.phase = "build"
  PROVE  /\ Scored(Boosted, req.page) /\ req.page \subseteq Target
         /\ \A t \in req.page : req.base[t] \in Nat /\ Boosted[t] = req.base[t] + Interest(req.interest, t)
         /\ Answer \subseteq req.page
<1>1. req.page \subseteq Target /\ req.page \subseteq DOMAIN req.base
  BY DEF Types, Req, PhasesOK, Fetching
<1>2. PICK S \in SUBSET Target : req.base \in [S -> Score]
  BY DEF Types, Req, Bases
<1>3. \A t \in req.page : req.base[t] \in Nat
  BY <1>1, <1>2, RecommendationAssumption DEF Score
<1>4. \A t \in req.page : Boosted[t] = req.base[t] + Interest(req.interest, t)
  BY DEF Boosted
<1>5. \A t \in req.page : Boosted[t] \in Int
  BY <1>1, <1>3, <1>4, InterestSums
<1>6. IsFiniteSet(req.page) /\ req.page \subseteq Nat
  <2>1. IsFiniteSet(Target) /\ Target \subseteq Nat
    BY RecommendationAssumption, FS_Interval DEF Target
  <2> QED
    BY <1>1, <2>1, FS_Subset
<1> QED
  BY <1>1, <1>3, <1>4, <1>5, <1>6 DEF Scored, Answer, Best

LEMMA CalmPage ==
  ASSUME Types, PhasesOK, CalmOK, req.phase = "build", req.calm
  PROVE  /\ req.page = Candidates \cap Wanted
         /\ \A t \in req.page : req.base[t] = score[t]
<1>1. /\ req.base = [t \in Candidates |-> score[t]]
      /\ req.page = Candidates \ IF req.kind = "ranking" THEN {} ELSE saved \cup Viewed
  BY DEF CalmOK, Fetching
<1>2. Wanted = Ranked \ IF req.kind = "ranking" THEN {} ELSE saved \cup Viewed
  BY DEF Types, Req, Kind, PhasesOK, Wanted
<1>3. Candidates \subseteq Ranked
  BY CandidatesAre
<1> HIDE DEF Wanted
<1> QED
  BY <1>1, <1>2, <1>3

(* Without a profile what is wanted on this page is among the best.        *)
LEMMA BestOfPage ==
  ASSUME Types, PhasesOK, CalmOK, req.phase = "build", req.calm, DOMAIN req.interest = {},
         NEW t \in Wanted, req.offset <= Rank(score, Ranked, t), Rank(score, Ranked, t) < req.offset + Limit
  PROVE  t \in Answer
<1>1. t \in Ranked /\ Ranked \subseteq Target /\ Scored(score, Ranked)
  BY RankedScored DEF Wanted, Types
<1>2. Rank(score, Ranked, t) \in Nat /\ req.offset \in Nat /\ Limit \in Nat \ {0} /\ Fetch \in Nat /\ Limit <= Fetch
  BY <1>1, RankNat, FetchBounds, RecommendationAssumption DEF Types, Req
<1>3. t \in Candidates
  BY <1>1, <1>2, CandidatesAre
<1>4. req.page = Candidates \cap Wanted /\ \A u \in req.page : req.base[u] = score[u]
  BY CalmPage
<1>5. t \in req.page
  BY <1>3, <1>4
<1>6. \A u \in req.page : Boosted[u] = score[u]
  <2>1. \A u \in req.page : Interest(req.interest, u) = 0 /\ req.base[u] \in Nat
    BY InterestSums, BoostedScored
  <2> QED
    BY <1>4, <2>1, BoostedScored
<1> DEFINE B == {u \in Up(score, Ranked, t) : req.offset <= Rank(score, Ranked, u)}
<1>7. IsFiniteSet(B) /\ Cardinality(B) \in Nat /\ Cardinality(B) < Limit
  BY <1>1, <1>2, FewAbove
<1>8. Up(Boosted, req.page, t) \subseteq B
  <2> SUFFICES ASSUME NEW u \in Up(Boosted, req.page, t)
               PROVE  u \in B
    OBVIOUS
  <2>1. u \in req.page /\ Above(score, u, t)
    BY <1>5, <1>6 DEF Up, Above
  <2>2. u \in Ranked /\ req.offset <= Rank(score, Ranked, u)
    BY <1>4, <2>1, CandidatesAre
  <2> QED
    BY <2>1, <2>2 DEF Up
<1>9. /\ Cardinality(Up(Boosted, req.page, t)) <= Cardinality(B)
      /\ Rank(Boosted, req.page, t) = Cardinality(Up(Boosted, req.page, t))
      /\ Rank(Boosted, req.page, t) \in Nat
  <2>1. Scored(Boosted, req.page)
    BY BoostedScored
  <2> HIDE DEF B
  <2>2. Cardinality(Up(Boosted, req.page, t)) <= Cardinality(B)
    BY <1>7, <1>8, FS_Subset
  <2> QED
    BY <2>1, <2>2, UpFinite
<1>10. Rank(Boosted, req.page, t) < Limit
  BY <1>2, <1>7, <1>9
<1> QED
  BY <1>5, <1>10 DEF Answer, Best

LEMMA Without ==
  ASSUME NEW S, IsFiniteSet(S), NEW U, U \subseteq S
  PROVE  /\ IsFiniteSet(S \ U) /\ Cardinality(S \ U) \in Nat
         /\ Cardinality(S) \in Nat /\ Cardinality(U) \in Nat
         /\ Cardinality(S \ U) = Cardinality(S) - Cardinality(U)
<1>1. S \cap U = U
  OBVIOUS
<1>2. IsFiniteSet(S \ U) /\ Cardinality(S \ U) = Cardinality(S) - Cardinality(S \cap U)
  BY FS_Difference
<1>3. IsFiniteSet(U)
  BY FS_Subset
<1> QED
  BY <1>1, <1>2, <1>3, FS_CardinalityType

(* What is fetched makes up for a page of what is left out.                *)
LEMMA PageSuffices ==
  ASSUME Types, PhasesOK, CalmOK, req.phase = "build", req.calm, req.kind = "user",
         NEW after, after = {t \in Ranked : Rank(score, Ranked, t) >= req.offset},
         Cardinality(after \ Wanted) <= Limit, Cardinality(after \cap Wanted) >= Limit
  PROVE  Cardinality(Answer) = Limit
<1>1. Ranked \subseteq Target /\ Scored(score, Ranked) /\ IsFiniteSet(Ranked)
  BY RankedScored DEF Types, Scored
<1>2. /\ req.offset \in Nat /\ Limit \in Nat /\ Fetch \in Nat /\ 2 * Limit <= Fetch
      /\ \A t \in Ranked : Rank(score, Ranked, t) \in Nat
  BY RankNat, FetchBounds, RecommendationAssumption DEF Types, Req
<1>3. req.page = Candidates \cap Wanted
  BY CalmPage
<1>4. Candidates = {t \in Ranked : req.offset <= Rank(score, Ranked, t) /\ Rank(score, Ranked, t) < req.offset + Fetch}
  BY CandidatesAre
<1>5. IsFiniteSet(after) /\ Candidates \subseteq after
  BY <1>1, <1>2, <1>4, FS_Subset
<1>6. CASE after \subseteq Candidates
  <2>1. req.page = after \cap Wanted
    BY <1>3, <1>5, <1>6
  <2>2. Limit <= Cardinality(req.page)
    <3>1. Cardinality(req.page) \in Nat
      BY <1>5, <2>1, FS_Subset, FS_CardinalityType
    <3> QED
      BY <1>2, <2>1, <3>1
  <2> QED
    BY <1>2, <2>2, BoostedScored, Exactly DEF Answer, Best
<1>7. CASE ~(after \subseteq Candidates)
  <2> DEFINE Before == {u \in Ranked : Rank(score, Ranked, u) < req.offset}
             Upto == {u \in Ranked : Rank(score, Ranked, u) < req.offset + Fetch}
             Out == Candidates \ Wanted
  <2>1. PICK t \in Ranked : req.offset + Fetch <= Rank(score, Ranked, t)
    BY <1>2, <1>4, <1>7
  <2>2. req.offset + Fetch \in Nat /\ req.offset + Fetch <= Cardinality(Upto)
    BY <1>1, <1>2, <2>1, AtLeast
  <2>3. IsFiniteSet(Upto) /\ Cardinality(Upto) \in Nat
    BY <1>1, <2>2, AtMost
  <2>4. IsFiniteSet(Before) /\ Cardinality(Before) \in Nat /\ Cardinality(Before) <= req.offset
    BY <1>1, <1>2, AtMost
  <2>5. Candidates = Upto \ Before /\ Before \subseteq Upto
    BY <1>2, <1>4
  <2>6. /\ Cardinality(Candidates) = Cardinality(Upto) - Cardinality(Before)
        /\ IsFiniteSet(Candidates) /\ Cardinality(Candidates) \in Nat
    <3> HIDE DEF Upto, Before
    <3>1. /\ Cardinality(Upto \ Before) = Cardinality(Upto) - Cardinality(Before)
          /\ IsFiniteSet(Upto \ Before) /\ Cardinality(Upto \ Before) \in Nat
      BY <2>3, <2>5, Without
    <3> QED
      BY <2>5, <3>1
  <2>7. Out \subseteq after \ Wanted /\ IsFiniteSet(after \ Wanted)
    BY <1>5, FS_Difference
  <2>8. Cardinality(Out) <= Cardinality(after \ Wanted) /\ Cardinality(Out) \in Nat
        /\ Cardinality(after \ Wanted) \in Nat
    BY <2>7, FS_Subset, FS_CardinalityType
  <2>9. req.page = Candidates \ Out /\ Out \subseteq Candidates
    BY <1>3
  <2>10. Cardinality(req.page) = Cardinality(Candidates) - Cardinality(Out)
    <3> HIDE DEF Out
    <3>1. Cardinality(Candidates \ Out) = Cardinality(Candidates) - Cardinality(Out)
      BY <2>6, <2>9, Without
    <3> QED
      BY <2>9, <3>1
  <2>11. Limit <= Cardinality(req.page)
    BY <1>2, <2>2, <2>3, <2>4, <2>6, <2>8, <2>10
  <2> QED
    BY <1>2, <2>11, BoostedScored, Exactly DEF Answer, Best
<1> QED
  BY <1>6, <1>7

LEMMA BetterStays ==
  ASSUME Types, PhasesOK, CalmOK, req.phase = "build", req.calm,
         NEW t \in Answer, NEW u \in Wanted, Rank(score, Ranked, u) >= req.offset,
         Above(score, u, t), Attrs[t] \subseteq Attrs[u]
  PROVE  u \in Answer
<1>1. Ranked \subseteq Target /\ Scored(score, Ranked) /\ u \in Ranked
  BY RankedScored DEF Types, Wanted
<1>2. /\ req.offset \in Nat /\ Fetch \in Nat /\ Limit \in Nat
      /\ \A v \in Ranked : Rank(score, Ranked, v) \in Nat
  BY RankNat, FetchBounds, RecommendationAssumption DEF Types, Req
<1>3. /\ req.page = Candidates \cap Wanted /\ t \in req.page
      /\ \A v \in req.page : req.base[v] = score[v]
  BY CalmPage, BoostedScored
<1>4. t \in Ranked /\ Rank(score, Ranked, t) < req.offset + Fetch
  BY <1>3, CandidatesAre
<1>5. Rank(score, Ranked, u) < Rank(score, Ranked, t)
  BY <1>1, <1>4, RankOrder
<1>6. u \in Candidates
  BY <1>1, <1>2, <1>4, <1>5, CandidatesAre
<1>7. u \in req.page
  BY <1>3, <1>6
<1>8. CASE req.kind = "ranking"
  BY <1>7, <1>8 DEF Answer
<1>9. CASE req.kind # "ranking"
  <2>1. /\ Interest(req.interest, t) <= Interest(req.interest, u)
        /\ Interest(req.interest, t) \in Nat /\ Interest(req.interest, u) \in Nat
    BY <1>1, <1>4, InterestSums
  <2>2. /\ Boosted[t] = score[t] + Interest(req.interest, t) /\ score[t] \in Nat
        /\ Boosted[u] = score[u] + Interest(req.interest, u) /\ score[u] \in Nat
    BY <1>3, <1>7, BoostedScored
  <2>3. t \in Nat /\ u \in Nat
    BY <1>1, <1>4 DEF Scored
  <2>4. Above(Boosted, u, t)
    BY <2>1, <2>2, <2>3 DEF Above
  <2>5. Scored(Boosted, req.page)
    BY BoostedScored
  <2>6. Rank(Boosted, req.page, u) < Rank(Boosted, req.page, t)
    BY <1>3, <1>7, <2>4, <2>5, RankOrder
  <2>7. Rank(Boosted, req.page, t) < Limit
    BY <1>9 DEF Answer, Best
  <2>8. Rank(Boosted, req.page, u) \in Nat /\ Rank(Boosted, req.page, t) \in Nat
    BY <2>5, UpFinite
  <2> QED
    BY <1>2, <1>7, <1>9, <2>6, <2>7, <2>8 DEF Answer, Best
<1> QED
  BY <1>8, <1>9
LEMMA BuildIInv ==
  ASSUME IInv, Build
  PROVE  IInv'
<1>1. Types /\ PhasesOK /\ UnwantedOK /\ CalmOK /\ ShownOK
  BY DEF IInv
<1>2. /\ UNCHANGED <<score, active, saved, log, profile, changes>> /\ req.phase = "build"
      /\ req' = [req EXCEPT !.phase = "done", !.page = Answer,
                            !.base = [t \in {} |-> 0], !.interest = [a \in {} |-> 0],
                            !.shown = IF req.calm THEN req.shown \cup Answer ELSE {},
                            !.repeated = IF req.calm THEN req.repeated \cup (req.shown \cap Answer) ELSE {}]
  BY <1>1 DEF Build, Answer, Boosted, Types, Req
<1>3. Answer \subseteq req.page /\ req.page \subseteq Target
  BY <1>1, <1>2, BoostedScored
<1>4. /\ req'.kind = req.kind /\ req'.offset = req.offset /\ req'.calm = req.calm
      /\ req'.phase = "done" /\ req'.interest = [a \in {} |-> 0] /\ req'.page = Answer
      /\ req'.shown = IF req.calm THEN req.shown \cup Answer ELSE {}
      /\ req'.repeated = IF req.calm THEN req.repeated \cup (req.shown \cap Answer) ELSE {}
      /\ req'.hidden = req.hidden /\ req'.saved = req.saved /\ req'.viewed = req.viewed
  BY <1>1, <1>2 DEF Types, Req
<1>5. TableTypes' /\ req' \in Req
  <2>1. TableTypes'
    BY <1>1, <1>2 DEF Types, TableTypes
  <2>2. Answer \in SUBSET Target /\ "done" \in Phase
    BY <1>3 DEF Phase
  <2> HIDE DEF Answer
  <2>3. req' \in Req
    BY <1>1, <1>2, <2>2, EmptyFunctions DEF Types, Req
  <2> QED
    BY <2>1, <2>3
<1>6. Ranked' = Ranked /\ Rows' = Rows /\ Viewed' = Viewed /\ Wanted' = Wanted
  BY <1>2, <1>4, SameWorld
<1>7. PhasesOK'
  BY <1>1, <1>2, <1>4, EmptyFunctions DEF PhasesOK, Fetching
<1>8. UnwantedOK'
  BY <1>1, <1>2, <1>4, <1>6 DEF UnwantedOK, Fetching
<1>9. CalmOK'
  BY <1>4 DEF CalmOK, Fetching
<1>10. NothingUnwanted'
  BY <1>1, <1>2, <1>3, <1>4 DEF NothingUnwanted, UnwantedOK, Fetching
<1>11. ShownOK'
  <2> SUFFICES ASSUME req.calm, Rows = {} \/ req.kind = "ranking"
               PROVE  /\ DOMAIN req'.interest = {}
                      /\ \A t \in Wanted : Rank(score, Ranked, t) < req.offset + Limit => t \in req'.shown
                      /\ req.kind # "user" =>
                           /\ req'.repeated = {}
                           /\ \A t \in req'.shown : t \in Ranked /\ Rank(score, Ranked, t) < req.offset + Limit
    BY <1>2, <1>4, <1>6 DEF ShownOK, PagesEnd
  <2>1. /\ DOMAIN req.interest = {}
        /\ \A t \in Wanted : Rank(score, Ranked, t) < req.offset => t \in req.shown
        /\ req.kind # "user" =>
             /\ req.repeated = {}
             /\ \A t \in req.shown : t \in Ranked /\ Rank(score, Ranked, t) < req.offset
    BY <1>1, <1>2 DEF ShownOK, PagesEnd
  <2>2. /\ \A t \in Ranked : Rank(score, Ranked, t) \in Nat
        /\ req.offset \in Nat /\ Limit \in Nat
    BY <1>1, RankNat, RecommendationAssumption DEF Types, Req
  <2>3. ASSUME NEW t \in Wanted, Rank(score, Ranked, t) < req.offset + Limit
        PROVE  t \in req'.shown
    <3>1. t \in Ranked
      BY DEF Wanted
    <3>2. CASE Rank(score, Ranked, t) < req.offset
      BY <1>4, <2>1, <3>2
    <3>3. CASE req.offset <= Rank(score, Ranked, t)
      BY <1>1, <1>2, <1>4, <2>1, <2>3, <3>3, BestOfPage
    <3> QED
      BY <2>2, <3>1, <3>2, <3>3
  <2>4. ASSUME req.kind # "user"
        PROVE  /\ req'.repeated = {}
               /\ \A t \in req'.shown : t \in Ranked /\ Rank(score, Ranked, t) < req.offset + Limit
    <3>1. Fetch = Limit
      BY <1>1, <2>1, <2>4, FetchBounds
    <3>2. req.page = Candidates \cap Wanted
      BY <1>1, <1>2, CalmPage
    <3>3. \A t \in Answer : t \in Ranked /\ req.offset <= Rank(score, Ranked, t)
                            /\ Rank(score, Ranked, t) < req.offset + Limit
      BY <1>1, <1>3, <3>1, <3>2, CandidatesAre
    <3>4. req.shown \cap Answer = {}
      BY <2>1, <2>2, <2>4, <3>3
    <3> QED
      BY <1>4, <2>1, <2>2, <2>4, <3>3, <3>4
  <2> QED
    BY <1>4, <2>3, <2>4, EmptyFunctions
<1>12. SurplusSuffices'
  <2> DEFINE after == {t \in Ranked : Rank(score, Ranked, t) >= req.offset}
  <2> SUFFICES ASSUME req.calm, req.kind = "user",
                      Cardinality(after \ Wanted) <= Limit, Cardinality(after \cap Wanted) >= Limit
               PROVE  Cardinality(Answer) = Limit
    BY <1>2, <1>4, <1>6 DEF SurplusSuffices, Undisturbed
  <2> QED
    BY <1>1, <1>2, PageSuffices
<1>13. BetterIsNotLeftOut'
  <2> SUFFICES ASSUME req.calm, NEW t \in Answer, NEW u \in Wanted, Rank(score, Ranked, u) >= req.offset,
                      Above(score, u, t), Attrs[t] \subseteq Attrs[u]
               PROVE  u \in Answer
    <3>1. score' = score
      BY <1>2
    <3> QED
      BY <1>4, <1>6, <3>1 DEF BetterIsNotLeftOut, Undisturbed, Above
  <2> QED
    BY <1>1, <1>2, BetterStays
<1> QED
  BY <1>5, <1>7, <1>8, <1>9, <1>10, <1>11, <1>12, <1>13 DEF IInv, Types

-----------------------------------------------------------------------------
(* Each change of the world keeps the invariant *)

LEMMA ChangeKeeps ==
  ASSUME IInv, Change, TableTypes', req.kind # "user" => saved' = saved
  PROVE  IInv'
<1>1. Types /\ PhasesOK /\ UnwantedOK
  BY DEF IInv
<1>2. /\ req.phase \notin {"unsent", "done"}
      /\ req' = [req EXCEPT !.calm = FALSE, !.shown = {}, !.repeated = {},
                            !.hidden = req.hidden \ active', !.saved = req.saved \cap saved',
                            !.viewed = req.viewed \cap Viewed']
  BY DEF Change
<1>3. /\ req'.kind = req.kind /\ req'.offset = req.offset /\ ~req'.calm
      /\ req'.phase = req.phase /\ req'.interest = req.interest /\ req'.base = req.base
      /\ req'.page = req.page
      /\ req'.hidden = req.hidden \ active' /\ req'.saved = req.saved \cap saved'
      /\ req'.viewed = req.viewed \cap Viewed'
  BY <1>1, <1>2 DEF Types, Req
<1>4. req' \in Req
  <2> DEFINE h == req.hidden \ active'
             s == req.saved \cap saved'
             v == req.viewed \cap Viewed'
  <2>1. h \in SUBSET Target /\ s \in SUBSET Target /\ v \in SUBSET Target
    BY <1>1 DEF Types, Req
  <2>2. req' = [req EXCEPT !.calm = FALSE, !.shown = {}, !.repeated = {}, !.hidden = h, !.saved = s, !.viewed = v]
    BY <1>2
  <2> HIDE DEF h, s, v
  <2> QED
    BY <1>1, <2>1, <2>2 DEF Types, Req
<1>5. PhasesOK'
  BY <1>1, <1>2, <1>3 DEF PhasesOK, Fetching
<1>6. UnwantedOK'
  BY <1>1, <1>3 DEF UnwantedOK, Fetching
<1>7. CalmOK' /\ ShownOK'
  BY <1>3 DEF CalmOK, ShownOK
<1>8. NothingUnwanted' /\ SurplusSuffices' /\ BetterIsNotLeftOut'
  BY <1>2, <1>3 DEF NothingUnwanted, SurplusSuffices, BetterIsNotLeftOut, Undisturbed
<1> QED
  BY <1>4, <1>5, <1>6, <1>7, <1>8 DEF IInv, Types

LEMMA WorldIInv ==
  ASSUME IInv,
         \/ CommitMetrics
         \/ \E t \in Target : Publication(t) \/ SaveOrRemove(t)
         \/ \E e \in Event : CreateEvent(e)
         \/ \E a \in Attribute, n \in 0..MaxInterest : StoreProfile(a, n)
  PROVE  IInv'
<1>1. TableTypes
  BY DEF IInv, Types
<1>2. ASSUME Change PROVE changes' \in Nat
  BY <1>1, <1>2 DEF Change, TableTypes
<1>3. CASE CommitMetrics
  <2>1. Change /\ saved' = saved
    BY <1>3 DEF CommitMetrics
  <2>2. TableTypes'
    BY <1>1, <1>2, <1>3, <2>1 DEF CommitMetrics, TableTypes
  <2> QED
    BY <2>1, <2>2, ChangeKeeps
<1>4. ASSUME NEW t \in Target, Publication(t)
      PROVE  IInv'
  <2>1. Change /\ saved' = saved
    BY <1>4 DEF Publication
  <2>2. TableTypes'
    BY <1>1, <1>2, <1>4, <2>1 DEF Publication, TableTypes
  <2> QED
    BY <2>1, <2>2, ChangeKeeps
<1>5. ASSUME NEW t \in Target, SaveOrRemove(t)
      PROVE  IInv'
  <2>1. Change /\ req.kind = "user"
    BY <1>5 DEF SaveOrRemove
  <2>2. TableTypes'
    BY <1>1, <1>2, <1>5, <2>1 DEF SaveOrRemove, TableTypes
  <2> QED
    BY <2>1, <2>2, ChangeKeeps
<1>6. ASSUME NEW e \in Event, CreateEvent(e)
      PROVE  IInv'
  <2>1. Change /\ saved' = saved
    BY <1>6 DEF CreateEvent
  <2>2. log' \in Seq(Event)
    <3>1. log \in Seq(Event) /\ <<e>> \in Seq(Event)
      BY <1>1 DEF TableTypes
    <3> QED
      BY <1>6, <3>1 DEF CreateEvent
  <2>3. TableTypes'
    BY <1>1, <1>2, <1>6, <2>1, <2>2 DEF CreateEvent, TableTypes
  <2> QED
    BY <2>1, <2>3, ChangeKeeps
<1>7. ASSUME NEW a \in Attribute, NEW n \in 0..MaxInterest, StoreProfile(a, n)
      PROVE  IInv'
  <2>1. Change /\ saved' = saved
    BY <1>7 DEF StoreProfile
  <2>2. TableTypes'
    BY <1>1, <1>2, <1>7, <2>1 DEF StoreProfile, TableTypes
  <2> QED
    BY <2>1, <2>2, ChangeKeeps
<1> QED
  BY <1>3, <1>4, <1>5, <1>6, <1>7

LEMMA StutterIInv ==
  ASSUME IInv, UNCHANGED vars
  PROVE  IInv'
<1>1. /\ UNCHANGED <<score, active, saved, log, profile, changes>> /\ req' = req
  BY DEF vars
<1>2. Ranked' = Ranked /\ Rows' = Rows /\ Viewed' = Viewed /\ Wanted' = Wanted /\ Candidates' = Candidates
  BY <1>1, SameWorld
<1>3. Types' /\ PhasesOK'
  BY <1>1 DEF IInv, Types, TableTypes, PhasesOK
<1>4. UnwantedOK' /\ CalmOK' /\ ShownOK'
  BY <1>1, <1>2 DEF IInv, UnwantedOK, CalmOK, ShownOK, PagesEnd
<1>5. NothingUnwanted' /\ SurplusSuffices'
  BY <1>1, <1>2 DEF IInv, NothingUnwanted, SurplusSuffices, Undisturbed
<1>6. BetterIsNotLeftOut'
  BY <1>1, <1>2 DEF IInv, BetterIsNotLeftOut, Undisturbed, Above
<1> QED
  BY <1>3, <1>4, <1>5, <1>6 DEF IInv

LEMMA NextIInv ==
  ASSUME IInv, [Next]_vars
  PROVE  IInv'
  BY SendIInv, LoadIInv, ListIInv, FilterIInv, BuildIInv, WorldIInv, StutterIInv DEF Next

-----------------------------------------------------------------------------
(* The theorems *)

(* The invariant of a page being read, and of the world it is read in.     *)
THEOREM Invariance == Spec => []IInv
  BY InitIInv, NextIInv, PTL DEF Spec

(* The tables and the page keep their types.                               *)
THEOREM TypeCorrect == Spec => []TypeOK
<1>1. IInv => TypeOK
  BY TypesSuffice DEF IInv
<1> QED
  BY <1>1, Invariance, PTL

(* Whatever happens between the statements of the handlers, no page offers *)
(* what was hidden, saved or viewed all the time it was read.              *)
THEOREM NothingUnwantedIsShown == Spec => []NothingUnwanted
<1>1. IInv => NothingUnwanted
  BY DEF IInv
<1> QED
  BY <1>1, Invariance, PTL

(* Without a profile the pages, one after the other, skip nothing that can *)
(* be offered, and but for a user repeat nothing.                          *)
THEOREM NothingSkipped == Spec => []PagesSkipNothing
<1>1. IInv => PagesSkipNothing
  BY DEF IInv, ShownOK, PagesSkipNothing, Undisturbed, PagesEnd
<1> QED
  BY <1>1, Invariance, PTL

(* Fetching twice a page, or four times, fills the page of a user who has  *)
(* saved and viewed no more than a page of what is left.                   *)
THEOREM FullPages == Spec => []SurplusSuffices
<1>1. IInv => SurplusSuffices
  BY DEF IInv
<1> QED
  BY <1>1, Invariance, PTL

(* Whatever the profiles, a content that ranks higher and matches whatever *)
(* the other one matches is not left out for it.                           *)
THEOREM BetterIsShown == Spec => []BetterIsNotLeftOut
<1>1. IInv => BetterIsNotLeftOut
  BY DEF IInv
<1> QED
  BY <1>1, Invariance, PTL

-----------------------------------------------------------------------------
(* Publication: what is there to be shown *)

(* A request past its first statement holds the row of a content that is   *)
(* there, and the server is up.                                            *)
RequestsOK ==
  \A r \in Request :
    doing[r] # NoRequest =>
      /\ boot = "up"
      /\ doing[r].op \in {"publish", "unpublish"}
      /\ doing[r].on \in Content /\ content[doing[r].on] # "absent"

(* A filled form is that of a content that is there. *)
FormsOK ==
  \A f \in Form :
    form[f] # NoForm => form[f].on \in Content /\ content[form[f].on] # "absent"

(* The seed activates a rank target after it has published every content.  *)
SeedOK ==
  /\ boot = "contents" => \A c \in seeded : content[c] = "published"
  /\ boot = "targets" => \A c \in Seeded : content[c] = "published"

PublishedOK ==
  /\ PublicationTypeOK
  /\ RequestsOK
  /\ FormsOK
  /\ SeedOK
  /\ RankedIsPublished

-----------------------------------------------------------------------------

LEMMA PublishedInit == PublicationInit => PublishedOK
BY PublicationAssumption
   DEF PublicationInit, PublishedOK, PublicationTypeOK, RequestsOK, FormsOK, SeedOK,
       RankedIsPublished, NoRequest, NoForm

(* Every step keeps the invariant. *)
LEMMA PublishedStep == PublishedOK /\ [PublicationNext]_publicationVars => PublishedOK'
<1> SUFFICES ASSUME PublishedOK, [PublicationNext]_publicationVars
             PROVE  PublishedOK'
    OBVIOUS
<1> USE PublicationAssumption DEF PublishedOK, NoRequest, NoForm
<1>1. ASSUME NEW c \in Content, SeedContent(c)
      PROVE  PublishedOK'
  BY <1>1 DEF SeedContent, PublicationTypeOK, RequestsOK, FormsOK, SeedOK, RankedIsPublished
<1>2. ASSUME NEW c \in Content, SeedTarget(c)
      PROVE  PublishedOK'
  BY <1>2 DEF SeedTarget, PublicationTypeOK, RequestsOK, FormsOK, SeedOK, RankedIsPublished
<1>3. CASE SeedPhaseOver
  BY <1>3 DEF SeedPhaseOver, PublicationTypeOK, RequestsOK, FormsOK, SeedOK, RankedIsPublished
<1>4. CASE Restart
  BY <1>4 DEF Restart, PublicationTypeOK, RequestsOK, FormsOK, SeedOK, RankedIsPublished
<1>5. ASSUME NEW c \in Content, NEW flag \in BOOLEAN, Create(c, flag)
      PROVE  PublishedOK'
  BY <1>5 DEF Create, PublicationTypeOK, RequestsOK, FormsOK, SeedOK, RankedIsPublished
<1>6. ASSUME NEW c \in Content, NEW f \in Form, NEW flag \in BOOLEAN, OpenForm(f, c, flag)
      PROVE  PublishedOK'
  BY <1>6 DEF OpenForm, PublicationTypeOK, RequestsOK, FormsOK, SeedOK, RankedIsPublished
<1>7. ASSUME NEW c \in Content, NEW r \in Request, NEW op \in {"publish", "unpublish"},
             UpdatePublished(r, op, c)
      PROVE  PublishedOK'
  BY <1>7 DEF UpdatePublished, PublicationTypeOK, RequestsOK, FormsOK, SeedOK, RankedIsPublished
<1>8. ASSUME NEW f \in Form, SubmitForm(f)
      PROVE  PublishedOK'
  BY <1>8 DEF SubmitForm, Updated, PublicationTypeOK, RequestsOK, FormsOK, SeedOK, RankedIsPublished
<1>9. ASSUME NEW r \in Request, Publish(r)
      PROVE  PublishedOK'
  BY <1>9 DEF Publish, End, PublicationTypeOK, RequestsOK, FormsOK, SeedOK, RankedIsPublished
<1>10. ASSUME NEW r \in Request, Unpublish(r)
       PROVE  PublishedOK'
  BY <1>10 DEF Unpublish, Unpublished, End, PublicationTypeOK, RequestsOK, FormsOK, SeedOK, RankedIsPublished
<1>11. ASSUME NEW r \in Request, Rollback(r)
       PROVE  PublishedOK'
  BY <1>11 DEF Rollback, End, PublicationTypeOK, RequestsOK, FormsOK, SeedOK, RankedIsPublished
<1>12. CASE UNCHANGED publicationVars
  BY <1>12 DEF publicationVars, PublicationTypeOK, RequestsOK, FormsOK, SeedOK, RankedIsPublished
<1> QED
  BY <1>1, <1>2, <1>3, <1>4, <1>5, <1>6, <1>7, <1>8, <1>9, <1>10, <1>11, <1>12 DEF PublicationNext

(* The invariant of the contents, their rank targets and the requests.     *)
THEOREM PublicationInvariance == PublicationSpec => []PublishedOK
BY PublishedInit, PublishedStep, PTL DEF PublicationSpec

(* The variables keep their types. *)
THEOREM PublicationTypes == PublicationSpec => []PublicationTypeOK
BY PublicationInvariance, PTL DEF PublishedOK

(* Nothing unpublished is ever ranked, for any number of administrators,   *)
(* forms, contents, failures and restarts.                                 *)
THEOREM NothingHiddenIsRanked == PublicationSpec => []RankedIsPublished
BY PublicationInvariance, PTL DEF PublishedOK

-----------------------------------------------------------------------------
(* Implementation of Catalogue *)

(* Initially no content has a standing. *)
LEMMA InitMaps == PublicationInit => Visitors!Init
BY DEF PublicationInit, Visitors!Init, StandingOf

(* Two contents' rows decide their standing one by one. *)
LEMMA SameStanding ==
  ASSUME NEW c \in Content,
         content'[c] = content[c], target'[c] = target[c]
  PROVE  StandingOf(c)' = StandingOf(c)
BY DEF StandingOf

(* A step that changes the rows of one content only is a step of Catalogue *)
(* if that content's standing changes as Catalogue allows.                 *)
LEMMA OneContent ==
  ASSUME NEW c \in Content,
         \A d \in Content \ {c} : content'[d] = content[d] /\ target'[d] = target[d],
         \/ StandingOf(c)' = StandingOf(c)
         \/ StandingOf(c) = "none" /\ StandingOf(c)' \in {"hidden", "listed"}
         \/ StandingOf(c) = "hidden" /\ StandingOf(c)' = "listed"
         \/ StandingOf(c) \in {"hidden", "listed"} /\ StandingOf(c)' = "ranked"
         \/ StandingOf(c) \in {"listed", "ranked"} /\ StandingOf(c)' = "hidden"
  PROVE  [Visitors!Next]_([d \in Content |-> StandingOf(d)])
<1> DEFINE s == [d \in Content |-> StandingOf(d)]
<1>1. \A d \in Content \ {c} : StandingOf(d)' = StandingOf(d)
  BY SameStanding
<1>2. s' = [s EXCEPT ![c] = StandingOf(c)']
  BY <1>1
<1>3. CASE StandingOf(c)' = StandingOf(c)
  BY <1>1, <1>3
<1>4. CASE StandingOf(c) = "none" /\ StandingOf(c)' \in {"hidden", "listed"}
  BY <1>2, <1>4 DEF Visitors!Next, Visitors!Add, Visitors!Become
<1>5. CASE StandingOf(c) = "hidden" /\ StandingOf(c)' = "listed"
  BY <1>2, <1>5 DEF Visitors!Next, Visitors!List, Visitors!Become
<1>6. CASE StandingOf(c) \in {"hidden", "listed"} /\ StandingOf(c)' = "ranked"
  BY <1>2, <1>6 DEF Visitors!Next, Visitors!Rank, Visitors!Become
<1>7. CASE StandingOf(c) \in {"listed", "ranked"} /\ StandingOf(c)' = "hidden"
  BY <1>2, <1>7 DEF Visitors!Next, Visitors!Hide, Visitors!Become
<1> QED
  BY <1>3, <1>4, <1>5, <1>6, <1>7

(* Every step is a step of Catalogue or changes no content's standing. *)
LEMMA StepMaps == PublishedOK /\ [PublicationNext]_publicationVars => [Visitors!Next]_([c \in Content |-> StandingOf(c)])
<1> SUFFICES ASSUME PublishedOK, [PublicationNext]_publicationVars
             PROVE  [Visitors!Next]_([c \in Content |-> StandingOf(c)])
    OBVIOUS
<1> USE PublicationAssumption DEF PublishedOK, NoRequest, NoForm
<1>1. ASSUME NEW c \in Content, SeedContent(c)
      PROVE  [Visitors!Next]_([d \in Content |-> StandingOf(d)])
  <2>1. \A d \in Content \ {c} : content'[d] = content[d] /\ target'[d] = target[d]
    BY <1>1 DEF SeedContent, PublicationTypeOK
  <2>2. \/ StandingOf(c)' = StandingOf(c)
        \/ StandingOf(c) \in {"none", "hidden"} /\ StandingOf(c)' = "listed"
    BY <1>1 DEF SeedContent, PublicationTypeOK, StandingOf, RankedIsPublished
  <2> QED
    BY <2>1, <2>2, OneContent
<1>2. ASSUME NEW c \in Content, SeedTarget(c)
      PROVE  [Visitors!Next]_([d \in Content |-> StandingOf(d)])
  <2>1. \A d \in Content \ {c} : content'[d] = content[d] /\ target'[d] = target[d]
    BY <1>2 DEF SeedTarget, PublicationTypeOK
  <2>2. StandingOf(c) \in {"listed", "ranked"} /\ StandingOf(c)' = "ranked"
    BY <1>2 DEF SeedTarget, PublicationTypeOK, StandingOf, SeedOK
  <2> QED
    BY <2>1, <2>2, OneContent
<1>3. ASSUME UNCHANGED <<content, target>>
      PROVE  [Visitors!Next]_([d \in Content |-> StandingOf(d)])
  BY <1>3, SameStanding
<1>4. ASSUME NEW c \in Content, NEW flag \in BOOLEAN, Create(c, flag)
      PROVE  [Visitors!Next]_([d \in Content |-> StandingOf(d)])
  <2>1. \A d \in Content \ {c} : content'[d] = content[d] /\ target'[d] = target[d]
    BY <1>4 DEF Create, PublicationTypeOK
  <2>2. StandingOf(c) = "none" /\ StandingOf(c)' \in {"hidden", "listed"}
    BY <1>4 DEF Create, PublicationTypeOK, StandingOf, RankedIsPublished
  <2> QED
    BY <2>1, <2>2, OneContent
<1>5. ASSUME NEW f \in Form, SubmitForm(f)
      PROVE  [Visitors!Next]_([d \in Content |-> StandingOf(d)])
  <2>1. PICK c \in Content : c = form[f].on /\ content[c] # "absent"
    BY <1>5 DEF SubmitForm, FormsOK
  <2>2. \A d \in Content \ {c} : content'[d] = content[d] /\ target'[d] = target[d]
    BY <1>5, <2>1 DEF SubmitForm, PublicationTypeOK
  <2>3. \/ StandingOf(c)' = StandingOf(c)
        \/ StandingOf(c) = "hidden" /\ StandingOf(c)' = "listed"
    BY <1>5, <2>1 DEF SubmitForm, Updated, PublicationTypeOK, StandingOf, RankedIsPublished
  <2> QED
    BY <2>1, <2>2, <2>3, OneContent
<1>6. ASSUME NEW r \in Request, Publish(r)
      PROVE  [Visitors!Next]_([d \in Content |-> StandingOf(d)])
  <2>1. PICK c \in Content : c = doing[r].on /\ content[c] # "absent"
    BY <1>6 DEF Publish, RequestsOK
  <2>2. \A d \in Content \ {c} : content'[d] = content[d] /\ target'[d] = target[d]
    BY <1>6, <2>1 DEF Publish, PublicationTypeOK
  <2>3. StandingOf(c) \in {"hidden", "listed", "ranked"} /\ StandingOf(c)' = "ranked"
    BY <1>6, <2>1 DEF Publish, PublicationTypeOK, StandingOf
  <2> QED
    BY <2>1, <2>2, <2>3, OneContent
<1>7. ASSUME NEW r \in Request, Unpublish(r)
      PROVE  [Visitors!Next]_([d \in Content |-> StandingOf(d)])
  <2>1. PICK c \in Content : c = doing[r].on /\ content[c] # "absent"
    BY <1>7 DEF Unpublish, RequestsOK
  <2>2. \A d \in Content \ {c} : content'[d] = content[d] /\ target'[d] = target[d]
    BY <1>7, <2>1 DEF Unpublish, Unpublished, PublicationTypeOK
  <2>3. StandingOf(c) \in {"hidden", "listed", "ranked"} /\ StandingOf(c)' = "hidden"
    BY <1>7, <2>1 DEF Unpublish, Unpublished, PublicationTypeOK, StandingOf
  <2> QED
    BY <2>1, <2>2, <2>3, OneContent
<1> QED
  <2>1. \A c \in Content, f \in Form, flag \in BOOLEAN :
          OpenForm(f, c, flag) => UNCHANGED <<content, target>>
    BY DEF OpenForm
  <2>2. \A c \in Content, r \in Request, op \in {"publish", "unpublish"} :
          UpdatePublished(r, op, c) => UNCHANGED <<content, target>>
    BY DEF UpdatePublished
  <2>3. \A r \in Request : Rollback(r) => UNCHANGED <<content, target>>
    BY DEF Rollback
  <2>4. SeedPhaseOver \/ Restart \/ UNCHANGED publicationVars => UNCHANGED <<content, target>>
    BY DEF SeedPhaseOver, Restart, publicationVars
  <2> QED
    BY <1>1, <1>2, <1>3, <1>4, <1>5, <1>6, <1>7, <2>1, <2>2, <2>3, <2>4 DEF PublicationNext

(* The handlers, the seed and the restarts implement Catalogue: nobody     *)
(* ever sees a publication or an unpublication half done.                  *)
THEOREM PublicationImplements == PublicationSpec => ImplementsCatalogue
<1>1. PublicationSpec => [][Visitors!Next]_([c \in Content |-> StandingOf(c)])
  BY PublicationInvariance, StepMaps, PTL DEF PublicationSpec
<1> QED
  BY <1>1, InitMaps, PTL DEF PublicationSpec, ImplementsCatalogue, Visitors!Spec
==============================================================================
