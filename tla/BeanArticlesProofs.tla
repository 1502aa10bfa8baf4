------------------------- MODULE BeanArticlesProofs ---------------------------
(***************************************************************************)
(* What BeanArticles promises for any articles, requests and lists: types, *)
(* NoArticleTwice, RemovedOnce and ReplaceSwaps.                           *)
(***************************************************************************)
EXTENDS BeanArticles, TLAPS

(* A request that has not begun, or failed, has left nothing behind, and   *)
(* what a DELETE found it still has to come to, has deleted, or is gone.   *)
RequestsOK ==
  \A r \in Request :
    /\ pc[r] \in {"start", "checked", "failed"} =>
         snapshot[r] = {} /\ todo[r] = {} /\ deleted[r] = {}
    /\ pc[r] = "checked" => op[r] = "delete" /\ entries[r] # <<>>
    /\ pc[r] \in {"open", "ok"} => op[r] # "none"
    /\ pc[r] = "open" =>
         /\ todo[r] \subseteq snapshot[r]
         /\ \A row \in snapshot[r] : row \in todo[r] \/ row \in deleted[r] \/ Gone(row)

(* A request inserts each article once, rows are as they were sent, and a  *)
(* Delete inserts none.                                                    *)
RowsOK ==
  /\ \A r \in Request : \A i, j \in DOMAIN entries[r] :
       entries[r][i].article = entries[r][j].article => i = j
  /\ \A row \in rows :
       row.by # Before =>
         /\ pc[row.by] \in {"open", "ok"} /\ op[row.by] # "delete"
         /\ \E i \in DOMAIN entries[row.by] : row = RowOf(row.by, entries[row.by][i])

(* Only committed rows are found and deleted, each by one request.         *)
DeletedOK ==
  /\ \A r \in Request : \A row \in snapshot[r] \cup deleted[r] :
       row \in rows /\ Committed(row)
  /\ \A r \in Request : pc[r] = "open" => deleted[r] \subseteq snapshot[r]
  /\ \A q, r \in Request : q # r => deleted[q] \cap deleted[r] = {}

(* A Delete is after the rows of its article, and succeeds with one.       *)
DeletesOK ==
  \A r \in Request : op[r] = "delete" =>
    /\ \A row \in todo[r] \cup deleted[r] : row.article = entries[r][1].article
    /\ pc[r] = "ok" => deleted[r] # {}

(* Of two rows with one key, one is gone or was deleted by the request     *)
(* that inserted the other.                                                *)
Superseded(s, t) == Gone(s) \/ (t.by # Before /\ s \in deleted[t.by])

KeysOK ==
  \A s, t \in rows :
    s.article = t.article /\ s # t => Superseded(s, t) \/ Superseded(t, s)

IInv == TypeOK /\ RequestsOK /\ RowsOK /\ DeletedOK /\ DeletesOK /\ KeysOK

-----------------------------------------------------------------------------

LEMMA InitInv == Init => IInv
<1> SUFFICES ASSUME Init PROVE IInv
  OBVIOUS
<1> USE BeanArticlesAssumption DEF Init
<1>1. PICK A \in SUBSET Article, order \in [Article -> Order] :
        rows = {[article |-> a, order |-> order[a], by |-> Before] : a \in A}
  OBVIOUS
<1>2. TypeOK
  <2>1. \A a \in A : [article |-> a, order |-> order[a], by |-> Before] \in Row
    BY DEF Row
  <2>2. entries \in [Request -> Seq(Entry)]
    OBVIOUS
  <2> QED
    BY <1>1, <2>1, <2>2 DEF TypeOK
<1>3. RequestsOK
  BY DEF RequestsOK
<1>4. RowsOK
  BY <1>1 DEF RowsOK
<1>5. DeletedOK
  BY DEF DeletedOK
<1>6. KeysOK
  BY <1>1 DEF KeysOK
<1>7. DeletesOK
  BY DEF DeletesOK
<1> QED
  BY <1>2, <1>3, <1>4, <1>5, <1>6, <1>7 DEF IInv

(* A request that begins, or a Delete that goes on to its DELETE, finds    *)
(* committed rows and touches none.                                        *)
LEMMA FindInv ==
  ASSUME IInv, NEW r \in Request, pc[r] \in {"start", "checked"},
         pc' \in {[pc EXCEPT ![r] = "checked"], [pc EXCEPT ![r] = "open"]},
         op' \in [Request -> {"none", "create", "delete", "replace"}],
         op'[r] # "none", pc'[r] = "checked" => op'[r] = "delete" /\ entries'[r] # <<>>,
         \A q \in Request : q # r => op'[q] = op[q] /\ entries'[q] = entries[q],
         entries' \in [Request -> Seq(Entry)],
         \A i, j \in DOMAIN entries'[r] :
           entries'[r][i].article = entries'[r][j].article => i = j,
         NEW found, found \subseteq Visible, pc'[r] = "checked" => found = {},
         op'[r] = "delete" => \A row \in found : row.article = entries'[r][1].article,
         snapshot' = [snapshot EXCEPT ![r] = found],
         todo' = [todo EXCEPT ![r] = found],
         UNCHANGED <<rows, deleted>>
  PROVE  IInv'
<1> USE BeanArticlesAssumption DEF IInv
<1>1. \A row \in rows : (Committed(row)' <=> Committed(row)) /\ (Gone(row)' <=> Gone(row))
  BY DEF Committed, Gone, TypeOK, Row
<1>2. ASSUME NEW row \in rows, row.by = r
      PROVE  FALSE
  <2>1. pc[r] \in {"open", "ok"}
    BY <1>2 DEF RowsOK
  <2> QED
    BY <2>1
<1>3. TypeOK'
  BY DEF TypeOK, Visible
<1>4. RequestsOK'
  <2> SUFFICES ASSUME NEW q \in Request
               PROVE  RequestsOK!(q)'
    BY DEF RequestsOK
  <2>1. CASE q = r
    BY <2>1 DEF RequestsOK, TypeOK
  <2>2. CASE q # r
    BY <2>2, <1>1 DEF RequestsOK, DeletedOK, TypeOK
  <2> QED
    BY <2>1, <2>2
<1>5. RowsOK'
  <2>1. ASSUME NEW q \in Request, NEW i \in DOMAIN entries'[q], NEW j \in DOMAIN entries'[q],
               entries'[q][i].article = entries'[q][j].article
        PROVE  i = j
    BY <2>1 DEF RowsOK
  <2>2. ASSUME NEW row \in rows, row.by # Before
        PROVE  /\ pc'[row.by] \in {"open", "ok"} /\ op'[row.by] # "delete"
               /\ \E i \in DOMAIN entries'[row.by] : row = RowOf(row.by, entries'[row.by][i])
    <3>1. row.by \in Request /\ row.by # r
      BY <2>2, <1>2 DEF TypeOK, Row
    <3>2. pc'[row.by] = pc[row.by] /\ op'[row.by] = op[row.by] /\ entries'[row.by] = entries[row.by]
      BY <3>1 DEF TypeOK
    <3> QED
      BY <2>2, <3>2 DEF RowsOK
  <2> QED
    BY <2>1, <2>2 DEF RowsOK, RowOf
<1>6. DeletedOK'
  BY <1>1 DEF DeletedOK, TypeOK, RequestsOK, Visible
<1>7. KeysOK'
  BY <1>1 DEF KeysOK, Superseded, TypeOK, Row
<1>8. DeletesOK'
  <2> SUFFICES ASSUME NEW q \in Request, op'[q] = "delete"
               PROVE  /\ \A row \in todo'[q] \cup deleted'[q] : row.article = entries'[q][1].article
                      /\ pc'[q] = "ok" => deleted'[q] # {}
    BY DEF DeletesOK
  <2>1. CASE q = r
    BY <2>1 DEF RequestsOK, TypeOK
  <2>2. CASE q # r
    BY <2>2 DEF DeletesOK, TypeOK
  <2> QED
    BY <2>1, <2>2
<1> QED
  BY <1>3, <1>4, <1>5, <1>6, <1>7, <1>8

LEMMA BeginInv ==
  ASSUME IInv, NEW r \in Request,
         \/ \E list \in Lists : ReplaceByBeanID(r, list)
         \/ \E a \in Article : Delete(r, a)
         \/ \E a \in Article, order \in Order : Create(r, a, order)
         \/ DeleteStart(r)
  PROVE  IInv'
<1> USE BeanArticlesAssumption DEF IInv
<1>1. ASSUME NEW list \in Lists, ReplaceByBeanID(r, list)
      PROVE  IInv'
  <2>1. InOrder(list) \in Seq(Entry)
    <3>1. list \in Seq(Article)
      OBVIOUS
    <3>2. \A i \in 1 .. Len(list) : [article |-> list[i], order |-> i - 1] \in Entry
      BY <3>1 DEF Entry
    <3> QED
      BY <3>1, <3>2 DEF InOrder
  <2>2. \A i, j \in DOMAIN InOrder(list) :
          InOrder(list)[i].article = InOrder(list)[j].article => i = j
    BY <1>1 DEF ReplaceByBeanID, HasDuplicate, InOrder
  <2>3. entries' \in [Request -> Seq(Entry)]
    BY <1>1, <2>1 DEF ReplaceByBeanID, Started, TypeOK
  <2> QED
    BY <1>1, <2>2, <2>3, FindInv DEF ReplaceByBeanID, Started, Find, TypeOK
<1>2. ASSUME NEW a \in Article, Delete(r, a)
      PROVE  IInv'
  <2> DEFINE list == <<[article |-> a, order |-> 0]>>
  <2>1. list \in Seq(Entry) /\ list # <<>> /\ \A i, j \in DOMAIN list : i = j
    BY DEF Entry
  <2> HIDE DEF list
  <2>2. /\ entries'[r] = list /\ op'[r] = "delete"
        /\ pc' = [pc EXCEPT ![r] = "checked"] /\ pc'[r] = "checked"
    BY <1>2 DEF Delete, Started, TypeOK, list
  <2>3. entries' \in [Request -> Seq(Entry)]
    BY <1>2, <2>1 DEF Delete, Started, TypeOK, list
  <2>4. /\ op' \in [Request -> {"none", "create", "delete", "replace"}]
        /\ \A q \in Request : q # r => op'[q] = op[q] /\ entries'[q] = entries[q]
    BY <1>2 DEF Delete, Started, TypeOK
  <2> DEFINE found == {row \in Visible : FALSE}
  <2>5. /\ found \subseteq Visible /\ found = {}
        /\ snapshot' = [snapshot EXCEPT ![r] = found] /\ todo' = [todo EXCEPT ![r] = found]
    BY <1>2 DEF Delete, TypeOK, RequestsOK
  <2> HIDE DEF found
  <2>7. \A i, j \in DOMAIN entries'[r] :
          entries'[r][i].article = entries'[r][j].article => i = j
    BY <2>1, <2>2
  <2>6. pc[r] = "start" /\ UNCHANGED <<rows, deleted>>
    BY <1>2 DEF Delete
  <2> QED
    BY <2>1, <2>2, <2>3, <2>4, <2>5, <2>6, <2>7, FindInv
<1>3. ASSUME NEW a \in Article, NEW order \in Order, Create(r, a, order)
      PROVE  IInv'
  <2> DEFINE list == <<[article |-> a, order |-> order]>>
  <2>1. list \in Seq(Entry) /\ list # <<>> /\ \A i, j \in DOMAIN list : i = j
    BY DEF Entry
  <2> HIDE DEF list
  <2>2. entries'[r] = list /\ op'[r] = "create" /\ pc' = [pc EXCEPT ![r] = "open"]
    BY <1>3 DEF Create, Started, TypeOK, list
  <2>3. entries' \in [Request -> Seq(Entry)]
    BY <1>3, <2>1 DEF Create, Started, TypeOK, list
  <2>4. /\ op' \in [Request -> {"none", "create", "delete", "replace"}]
        /\ \A q \in Request : q # r => op'[q] = op[q] /\ entries'[q] = entries[q]
    BY <1>3 DEF Create, Started, TypeOK
  <2> DEFINE found == {row \in Visible : FALSE}
  <2>5. /\ found \subseteq Visible /\ found = {}
        /\ snapshot' = [snapshot EXCEPT ![r] = found] /\ todo' = [todo EXCEPT ![r] = found]
    BY <1>3 DEF Create, TypeOK, RequestsOK
  <2> HIDE DEF found
  <2>7. \A i, j \in DOMAIN entries'[r] :
          entries'[r][i].article = entries'[r][j].article => i = j
    BY <2>1, <2>2
  <2>6. pc[r] = "start" /\ pc'[r] = "open" /\ UNCHANGED <<rows, deleted>>
    BY <1>3 DEF Create, TypeOK
  <2> QED
    BY <2>1, <2>2, <2>3, <2>4, <2>5, <2>6, <2>7, FindInv
<1>4. CASE DeleteStart(r)
  <2> DEFINE found == {row \in Visible : row.article = entries[r][1].article}
  <2>1. found \subseteq Visible /\ \A row \in found : row.article = entries[r][1].article
    OBVIOUS
  <2> HIDE DEF found
  <2>2. /\ pc[r] = "checked" /\ pc' = [pc EXCEPT ![r] = "open"]
        /\ snapshot' = [snapshot EXCEPT ![r] = found] /\ todo' = [todo EXCEPT ![r] = found]
        /\ op' = op /\ entries' = entries /\ UNCHANGED <<rows, deleted>>
    BY <1>4 DEF DeleteStart, Find, found
  <2>3. pc'[r] = "open" /\ op[r] = "delete"
    BY <2>2 DEF TypeOK, RequestsOK
  <2>4. \A i, j \in DOMAIN entries[r] : entries[r][i].article = entries[r][j].article => i = j
    BY DEF RowsOK
  <2>5. entries' \in [Request -> Seq(Entry)] /\ op' \in [Request -> {"none", "create", "delete", "replace"}]
    BY <2>2 DEF TypeOK
  <2> QED
    BY <2>1, <2>2, <2>3, <2>4, <2>5, FindInv
<1> QED
  BY <1>1, <1>2, <1>3, <1>4

LEMMA DeleteRowInv ==
  ASSUME IInv, NEW r \in Request, NEW row \in todo[r], DeleteRow(r, row)
  PROVE  IInv'
<1> USE BeanArticlesAssumption DEF IInv, DeleteRow
<1>1. /\ row \in snapshot[r] /\ row \in rows /\ Committed(row)
      /\ \A q \in Request \ {r} : pc[q] = "open" => row \notin deleted[q]
  BY DEF RequestsOK, DeletedOK, TypeOK, Lock, Deleters
<1>2. \A s \in rows : (Committed(s)' <=> Committed(s)) /\ (Gone(s)' <=> Gone(s))
  BY DEF Committed, Gone, TypeOK
<1>3. \A q \in Request : deleted[q] \subseteq deleted'[q]
  BY DEF TypeOK
<1>4. TypeOK'
  BY DEF TypeOK
<1>5. RequestsOK'
  BY <1>1, <1>2 DEF RequestsOK, DeletedOK, TypeOK, Lock
<1>6. RowsOK'
  BY DEF RowsOK, RowOf
<1>7. DeletedOK'
  <2>1. ASSUME Lock(r, row) = "delete", NEW q \in Request \ {r}
        PROVE  row \notin deleted[q]
    <3>1. ~Gone(row)
      BY <2>1 DEF Lock
    <3>2. pc[q] \in {"open", "ok"} \/ deleted[q] = {}
      BY DEF RequestsOK, TypeOK
    <3> QED
      BY <1>1, <3>1, <3>2 DEF Gone
  <2> QED
    BY <1>1, <1>2, <2>1 DEF DeletedOK, TypeOK
<1>8. KeysOK'
  BY <1>2, <1>3 DEF KeysOK, Superseded, TypeOK, Row
<1>9. DeletesOK'
  BY DEF DeletesOK, TypeOK
<1> QED
  BY <1>4, <1>5, <1>6, <1>7, <1>8, <1>9

LEMMA InsertRowInv ==
  ASSUME IInv, NEW r \in Request, NEW i \in DOMAIN entries[r], InsertRow(r, i)
  PROVE  IInv'
<1> USE BeanArticlesAssumption DEF IInv, InsertRow, AtInsert
<1> DEFINE new == RowOf(r, entries[r][i])
<1>0. entries[r][i] \in Entry
  BY DEF TypeOK
<1>1. new \in Row /\ new.by = r /\ new.article = entries[r][i].article
  BY <1>0 DEF RowOf, Row, Entry
<1>2. \A s \in rows' : (Committed(s)' <=> Committed(s)) /\ (Gone(s)' <=> Gone(s))
  BY DEF Committed, Gone
<1>3. TypeOK'
  BY <1>1 DEF TypeOK
<1>4. RequestsOK'
  BY <1>2 DEF RequestsOK, DeletedOK
<1>5. RowsOK'
  BY <1>1 DEF RowsOK, RowOf, RequestsOK
<1>6. DeletedOK'
  BY <1>2 DEF DeletedOK
<1>7. KeysOK'
  <2>1. \A s \in rows : s.article = new.article => Superseded(s, new)
    BY <1>1 DEF KeyFree, Holding, Superseded
  <2>2. \A s, t \in rows' : Superseded(s, t)' <=> Superseded(s, t)
    BY <1>2 DEF Superseded
  <2> QED
    BY <2>1, <2>2 DEF KeysOK
<1>8. DeletesOK'
  BY DEF DeletesOK
<1> QED
  BY <1>3, <1>4, <1>5, <1>6, <1>7, <1>8

LEMMA CommitInv ==
  ASSUME IInv, NEW r \in Request, Commit(r)
  PROVE  IInv'
<1> USE BeanArticlesAssumption DEF IInv, Commit, Ended
<1>1. \A s \in rows : (Committed(s) => Committed(s)') /\ (Gone(s) => Gone(s)')
  BY DEF Committed, Gone, TypeOK, Row
<1>2. TypeOK'
  BY DEF TypeOK
<1>3. RequestsOK'
  BY <1>1 DEF RequestsOK, DeletedOK, TypeOK
<1>4. RowsOK'
  BY DEF RowsOK, RowOf, TypeOK, Row
<1>5. DeletedOK'
  BY <1>1 DEF DeletedOK, TypeOK
<1>6. KeysOK'
  BY <1>1 DEF KeysOK, Superseded
<1>7. DeletesOK'
  BY DEF DeletesOK, Affected, TypeOK
<1> QED
  BY <1>2, <1>3, <1>4, <1>5, <1>6, <1>7

(* A request that has not committed fails: only its own rows go.           *)
LEMMA FailInv ==
  ASSUME IInv, NEW r \in Request, pc[r] # "ok", Fail(r)
  PROVE  IInv'
<1> USE BeanArticlesAssumption DEF IInv, Fail
<1>1. \A s \in rows' : s.by # r /\ s \in rows
  OBVIOUS
<1>2. \A s \in rows : Committed(s) => s \in rows' /\ Committed(s)'
  BY DEF Committed, TypeOK, Row
<1>3. \A s \in rows : Gone(s)' <=> Gone(s)
  BY DEF Gone, TypeOK
<1>4. TypeOK'
  BY DEF TypeOK
<1>5. RequestsOK'
  BY <1>3 DEF RequestsOK, DeletedOK, TypeOK
<1>6. RowsOK'
  <2>1. ASSUME NEW q \in Request, NEW i \in DOMAIN entries'[q], NEW j \in DOMAIN entries'[q],
               entries'[q][i].article = entries'[q][j].article
        PROVE  i = j
    <3>1. CASE q = r
      BY <3>1 DEF TypeOK
    <3>2. CASE q # r
      BY <2>1, <3>2 DEF RowsOK, TypeOK
    <3> QED
      BY <3>1, <3>2
  <2>2. ASSUME NEW row \in rows', row.by # Before
        PROVE  /\ pc'[row.by] \in {"open", "ok"} /\ op'[row.by] # "delete"
               /\ \E i \in DOMAIN entries'[row.by] : row = RowOf(row.by, entries'[row.by][i])
    <3>1. row.by \in Request /\ row.by # r /\ row \in rows
      BY <1>1, <2>2 DEF TypeOK, Row
    <3>2. pc'[row.by] = pc[row.by] /\ op'[row.by] = op[row.by] /\ entries'[row.by] = entries[row.by]
      BY <3>1 DEF TypeOK
    <3> QED
      BY <2>2, <3>1, <3>2 DEF RowsOK
  <2> QED
    BY <2>1, <2>2 DEF RowsOK, RowOf
<1>7. DeletedOK'
  BY <1>2 DEF DeletedOK, TypeOK
<1>8. KeysOK'
  BY <1>1, <1>3 DEF KeysOK, Superseded, TypeOK, Row
<1>9. DeletesOK'
  BY DEF DeletesOK, TypeOK
<1> QED
  BY <1>4, <1>5, <1>6, <1>7, <1>8, <1>9

LEMMA StepInv == IInv /\ [Next]_vars => IInv'
<1> SUFFICES ASSUME IInv, [Next]_vars PROVE IInv'
  OBVIOUS
<1>1. ASSUME NEW r \in Request, Begin(r)
      PROVE  IInv'
  BY <1>1, BeginInv, FailInv DEF Begin, Refuse
<1>2. ASSUME NEW r \in Request, Step(r)
      PROVE  IInv'
  <2>1. CASE DeleteStart(r)
    BY <2>1, BeginInv
  <2>2. ASSUME NEW row \in todo[r], DeleteRow(r, row)
        PROVE  IInv'
    BY <2>2, DeleteRowInv
  <2>3. ASSUME NEW i \in DOMAIN entries[r], InsertRow(r, i)
        PROVE  IInv'
    BY <2>3, InsertRowInv
  <2>4. ASSUME NEW i \in DOMAIN entries[r], InsertConflict(r, i)
        PROVE  IInv'
    BY <2>4, FailInv DEF InsertConflict, AtInsert
  <2>5. CASE Commit(r)
    BY <2>5, CommitInv
  <2>6. CASE NothingDeleted(r)
    BY <2>6, FailInv DEF NothingDeleted, Ended
  <2> QED
    BY <1>2, <2>1, <2>2, <2>3, <2>4, <2>5, <2>6 DEF Step
<1>3. ASSUME NEW r \in Request, Abort(r)
      PROVE  IInv'
  BY <1>3, FailInv DEF Abort
<1>4. CASE UNCHANGED vars
  BY <1>4 DEF vars, IInv, TypeOK, RequestsOK, RowsOK, DeletedOK, DeletesOK, KeysOK, Superseded,
              Committed, Gone, RowOf
<1> QED
  BY <1>1, <1>2, <1>3, <1>4 DEF Next, BreakDeadlock

THEOREM Invariance == Spec => []IInv
BY InitInv, StepInv, PTL DEF Spec

(* Every variable keeps its type. *)
THEOREM TypeCorrect == Spec => []TypeOK
<1>1. IInv => TypeOK
  BY DEF IInv
<1> QED
  BY <1>1, Invariance, PTL

(* No reader ever sees an article twice in the list of a bean. *)
THEOREM NeverTwice == Spec => []NoArticleTwice
<1>1. IInv => NoArticleTwice
  <2> SUFFICES ASSUME IInv, NEW s \in Visible, NEW t \in Visible,
                      s.article = t.article, s # t
               PROVE  FALSE
    BY DEF NoArticleTwice
  <2>1. \A u, v \in Visible : ~Superseded(u, v)
    BY BeanArticlesAssumption DEF IInv, TypeOK, Row, Superseded, Visible, Committed, Gone
  <2> QED
    BY <2>1 DEF IInv, KeysOK, Visible
<1> QED
  BY <1>1, Invariance, PTL

(* A successful answer to a Delete names a removal of its own: some row of *)
(* the article that this request deleted and no other committed one did.   *)
THEOREM OneRemoval == Spec => []RemovedOnce
<1>1. IInv => RemovedOnce
  <2> SUFFICES ASSUME IInv, NEW r \in Request, pc[r] = "ok", op[r] = "delete"
               PROVE  \E row \in deleted[r] :
                        /\ row.article = entries[r][1].article
                        /\ \A q \in Request \ {r} : pc[q] = "ok" => row \notin deleted[q]
    BY DEF RemovedOnce
  <2>1. PICK row \in deleted[r] : row.article = entries[r][1].article
    BY DEF IInv, DeletesOK
  <2>2. \A q \in Request \ {r} : row \notin deleted[q]
    BY DEF IInv, DeletedOK
  <2> QED
    BY <2>1, <2>2
<1> QED
  BY <1>1, Invariance, PTL

(* A replacement removes what it found, adds what it was sent, in order,   *)
(* and touches nothing else.                                               *)
THEOREM SwapOnCommit == Spec => ReplaceSwaps
<1> DEFINE Swap ==
      \A r \in Request :
        op[r] = "replace" /\ pc[r] = "open" /\ pc'[r] = "ok" =>
          Visible' = (Visible \ snapshot[r]) \cup
                     {RowOf(r, entries[r][i]) : i \in DOMAIN entries[r]}
<1>1. IInv /\ [Next]_vars => [Swap]_vars
  <2> SUFFICES ASSUME IInv, Next, NEW r \in Request,
                      op[r] = "replace", pc[r] = "open", pc'[r] = "ok"
               PROVE  Visible' = (Visible \ snapshot[r]) \cup
                                 {RowOf(r, entries[r][i]) : i \in DOMAIN entries[r]}
    OBVIOUS
  <2>1. Commit(r)
    BY DEF IInv, TypeOK, Next, Begin, Step, BreakDeadlock, Abort, Refuse, Fail,
           ReplaceByBeanID, Create, Delete, DeleteStart, Find, DeleteRow, InsertRow,
           InsertConflict, AtInsert, NothingDeleted, Commit
  <2>2. Inserted(r) = {RowOf(r, entries[r][i]) : i \in DOMAIN entries[r]}
    <3>1. ASSUME NEW row \in Inserted(r)
          PROVE  \E i \in DOMAIN entries[r] : row = RowOf(r, entries[r][i])
      BY BeanArticlesAssumption DEF Inserted, IInv, RowsOK
    <3>2. ASSUME NEW i \in DOMAIN entries[r]
          PROVE  RowOf(r, entries[r][i]) \in Inserted(r)
      <4>1. PICK row \in Inserted(r) : row.article = entries[r][i].article
        BY <2>1 DEF Commit, Ended, IsInserted
      <4>2. PICK j \in DOMAIN entries[r] : row = RowOf(r, entries[r][j])
        BY <3>1
      <4>3. entries[r][j].article = entries[r][i].article
        BY <4>1, <4>2 DEF RowOf
      <4> QED
        BY <4>2, <4>3 DEF IInv, RowsOK
    <3> QED
      BY <3>1, <3>2
  <2>3. \A row \in rows : Committed(row)' <=> Committed(row) \/ row \in Inserted(r)
    BY <2>1, BeanArticlesAssumption
       DEF Commit, Committed, Inserted, IInv, TypeOK, Row
  <2>4. \A row \in rows : Gone(row)' <=> Gone(row) \/ row \in deleted[r]
    BY <2>1 DEF Commit, Gone, IInv, TypeOK
  <2>5. \A row \in Inserted(r) : ~Gone(row) /\ row \notin deleted[r] /\ row \notin snapshot[r]
    BY BeanArticlesAssumption DEF Inserted, Committed, Gone, IInv, DeletedOK
  <2>6. \A row \in snapshot[r] : row \in deleted[r] \/ Gone(row)
    BY <2>1 DEF Commit, Ended, IInv, RequestsOK
  <2>7. deleted[r] \subseteq snapshot[r]
    BY DEF IInv, DeletedOK
  <2>8. Visible' = (Visible \ snapshot[r]) \cup Inserted(r)
    BY <2>1, <2>3, <2>4, <2>5, <2>6, <2>7 DEF Visible, Inserted, Commit
  <2> QED
    BY <2>2, <2>8
<1> QED
  BY <1>1, Invariance, PTL DEF Spec, ReplaceSwaps
==============================================================================
