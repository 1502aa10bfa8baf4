---------------------------- MODULE BeanArticles ------------------------------
(***************************************************************************)
(* The related articles of one bean: Create, Delete and ReplaceByBeanID    *)
(* (UpdateDisplayOrder is the same) of AdminRelationUsecase over           *)
(* bean_articles, whose unique index covers bean and article, so that      *)
(* beans do not interact.  Beans and articles are never deleted.           *)
(*                                                                         *)
(* Every request is one transaction (gorm opens one for a lone statement), *)
(* READ COMMITTED: a DELETE works on the rows committed when it starts,    *)
(* waits for each that another transaction is deleting and leaves it out   *)
(* if that one commits; an INSERT waits for a transaction that inserted or *)
(* deleted the same key and fails if the key is there after all.  A row    *)
(* keeps the request that inserted it, and whether that one committed      *)
(* decides whether the row is there, as xmin and xmax do in PostgreSQL;    *)
(* what a failed request did is taken back at once.                        *)
(***************************************************************************)
EXTENDS Naturals, Sequences

CONSTANTS
  Article,
  Request,      \* requests of administrators, each made once
  Before,       \* who inserted what is there at first: the seed, an old request
  Lists,        \* lists of article ids that clients send
  Order         \* display_order of a Create, and of what is there at first

ASSUME BeanArticlesAssumption ==
  /\ Before \notin Request
  /\ Lists \subseteq Seq(Article)
  /\ Order \subseteq Nat

VARIABLES
  pc,           \* pc[r]: where request r is
  op,           \* op[r]: its handler
  entries,      \* entries[r]: the articles it inserts or deletes, in turn
  rows,         \* bean_articles of the bean, with what is not committed
  snapshot,     \* snapshot[r]: rows that r's DELETE found when it started
  todo,         \* todo[r]: those it has not come to yet
  deleted       \* deleted[r]: rows that r deleted

vars == <<pc, op, entries, rows, snapshot, todo, deleted>>

Entry == [article: Article, order: Nat]
Row == [article: Article, order: Nat, by: Request \cup {Before}]

TypeOK ==
  /\ pc \in [Request -> {"start", "checked", "open", "ok", "failed"}]
  /\ op \in [Request -> {"none", "create", "delete", "replace"}]
  /\ entries \in [Request -> Seq(Entry)]
  /\ rows \subseteq Row
  /\ snapshot \in [Request -> SUBSET Row]
  /\ todo \in [Request -> SUBSET Row]
  /\ deleted \in [Request -> SUBSET Row]

Init ==
  /\ pc = [r \in Request |-> "start"]
  /\ op = [r \in Request |-> "none"]
  /\ entries = [r \in Request |-> <<>>]
  /\ \E A \in SUBSET Article, order \in [Article -> Order] :
       rows = {[article |-> a, order |-> order[a], by |-> Before] : a \in A}
  /\ snapshot = [r \in Request |-> {}]
  /\ todo = [r \in Request |-> {}]
  /\ deleted = [r \in Request |-> {}]

-----------------------------------------------------------------------------
(* Who sees what *)

Committed(row) == row.by = Before \/ pc[row.by] = "ok"

Gone(row) == \E r \in Request : pc[r] = "ok" /\ row \in deleted[r]

(* What any other transaction reads: RelatedArticles, the page, Exists. *)
Visible == {row \in rows : Committed(row) /\ ~Gone(row)}

Exists(a) == \E row \in Visible : row.article = a

(* Transactions that r has to wait for before it can lock a row. *)
Deleters(r, row) == {q \in Request \ {r} : pc[q] = "open" /\ row \in deleted[q]}

(* Rows that hold a key for r, unless the transactions at work on them     *)
(* decide otherwise: not gone, not deleted by r.                           *)
Holding(r, a) ==
  {row \in rows : row.article = a /\ ~Gone(row) /\ row \notin deleted[r]}

(* Transactions that decide whether the key of a is free for r. *)
Deciders(r, a) ==
  {q \in Request \ {r} :
     pc[q] = "open" /\ \E row \in Holding(r, a) : row.by = q \/ row \in deleted[q]}

-----------------------------------------------------------------------------
(* Starting *)

(* Mutant: last to first, and off by one. *)
InReverse(list) == [i \in DOMAIN list |-> [article |-> list[i], order |-> Len(list) - 1 - i]]

(* display_order is the position in the list. *)
InOrder(list) == [i \in DOMAIN list |-> [article |-> list[i], order |-> i - 1]]

(* hasDuplicateUint64, and the validator before it *)
HasDuplicate(list) == \E i, j \in DOMAIN list : i # j /\ list[i] = list[j]

(* What r did is undone; nothing of it matters any more. *)
Fail(r) ==
  /\ pc' = [pc EXCEPT ![r] = "failed"]
  /\ op' = [op EXCEPT ![r] = "none"]
  /\ entries' = [entries EXCEPT ![r] = <<>>]
  /\ rows' = {row \in rows : row.by # r}
  /\ snapshot' = [snapshot EXCEPT ![r] = {}]
  /\ todo' = [todo EXCEPT ![r] = {}]
  /\ deleted' = [deleted EXCEPT ![r] = {}]

Started(r, name, list) ==
  /\ op' = [op EXCEPT ![r] = name]
  /\ entries' = [entries EXCEPT ![r] = list]

(* A DELETE starts: it works on what it sees now. *)
Find(r, found) ==
  /\ pc' = [pc EXCEPT ![r] = "open"]
  /\ snapshot' = [snapshot EXCEPT ![r] = found]
  /\ todo' = [todo EXCEPT ![r] = found]

(* ReplaceByBeanID up to the start of its DELETE *)
ReplaceByBeanID(r, list) ==
  /\ pc[r] = "start" /\ ~HasDuplicate(list)
  /\ Started(r, "replace", InOrder(list))
  /\ Find(r, Visible)
  /\ UNCHANGED <<rows, deleted>>

(* Create: its Exists answers before the INSERT starts. *)
Create(r, a, order) ==
  /\ pc[r] = "start" /\ ~Exists(a)
  /\ Started(r, "create", <<[article |-> a, order |-> order]>>)
  /\ pc' = [pc EXCEPT ![r] = "open"]
  /\ UNCHANGED <<rows, snapshot, todo, deleted>>

(* Delete: its Exists answers, and the DELETE starts later. *)
Delete(r, a) ==
  /\ pc[r] = "start" /\ Exists(a)
  /\ Started(r, "delete", <<[article |-> a, order |-> 0]>>)
  /\ pc' = [pc EXCEPT ![r] = "checked"]
  /\ UNCHANGED <<rows, snapshot, todo, deleted>>

(* ErrInvalidInput, ErrConflict, ErrNotFound before any statement writes.  *)
Refuse(r) ==
  /\ pc[r] = "start"
  /\ \/ \E list \in Lists : HasDuplicate(list)     \* ReplaceByBeanID
     \/ \E a \in Article : Exists(a)               \* Create
     \/ \E a \in Article : ~Exists(a)              \* Delete
  /\ Fail(r)

DeleteStart(r) ==
  /\ pc[r] = "checked"
  /\ Find(r, {row \in Visible : row.article = entries[r][1].article})
  /\ UNCHANGED <<op, entries, rows, deleted>>

-----------------------------------------------------------------------------
(* Statements *)

(* Mutant: SKIP LOCKED, a row that is being deleted is passed over. *)
SkipLocked(r, row) ==
  IF Gone(row) \/ Deleters(r, row) # {} THEN "pass" ELSE "delete"

(* How a DELETE takes a row it found. *)
Lock(r, row) ==
  IF Deleters(r, row) # {} THEN "wait" ELSE IF Gone(row) THEN "pass" ELSE "delete"

DeleteRow(r, row) ==
  /\ pc[r] = "open" /\ row \in todo[r]
  /\ Lock(r, row) # "wait"
  /\ todo' = [todo EXCEPT ![r] = @ \ {row}]
  /\ deleted' = [deleted EXCEPT ![r] = IF Lock(r, row) = "delete" THEN @ \cup {row} ELSE @]
  /\ UNCHANGED <<pc, op, entries, rows, snapshot>>

Inserted(r) == {row \in rows : row.by = r}

IsInserted(r, i) == \E row \in Inserted(r) : row.article = entries[r][i].article

(* A multi-row INSERT takes its rows in turn. *)
IsNext(r, i) == ~IsInserted(r, i) /\ \A j \in 1 .. i - 1 : IsInserted(r, j)

AtInsert(r, i) ==
  /\ pc[r] = "open" /\ todo[r] = {}
  /\ op[r] # "delete" /\ IsNext(r, i)

(* Mutant: no unique index. *)
AnyKey(r, a) == TRUE

KeyFree(r, a) == Holding(r, a) = {}

RowOf(r, entry) == [article |-> entry.article, order |-> entry.order, by |-> r]

InsertRow(r, i) ==
  /\ AtInsert(r, i)
  /\ KeyFree(r, entries[r][i].article)
  /\ rows' = rows \cup {RowOf(r, entries[r][i])}
  /\ UNCHANGED <<pc, op, entries, snapshot, todo, deleted>>

(* The key is there and nobody is about to remove it: ErrConflict. *)
InsertConflict(r, i) ==
  /\ AtInsert(r, i)
  /\ LET a == entries[r][i].article
     IN  ~KeyFree(r, a) /\ Deciders(r, a) = {}
  /\ Fail(r)

(* Mutant: RowsAffected is not looked at. *)
DeletedOrNot(r) == TRUE

(* mapRowsAffected: only Delete looks at how many rows there were. *)
Affected(r) == op[r] = "delete" => deleted[r] # {}

(* The last statement is done. *)
Ended(r) ==
  /\ pc[r] = "open" /\ todo[r] = {}
  /\ op[r] # "delete" => \A i \in DOMAIN entries[r] : IsInserted(r, i)

Commit(r) ==
  /\ Ended(r) /\ Affected(r)
  /\ pc' = [pc EXCEPT ![r] = "ok"]
  /\ snapshot' = [snapshot EXCEPT ![r] = {}]
  /\ UNCHANGED <<op, entries, rows, todo, deleted>>

(* ErrNoRowsAffected *)
NothingDeleted(r) == Ended(r) /\ ~Affected(r) /\ Fail(r)

-----------------------------------------------------------------------------
(* Failures *)

(* A statement fails, or the client goes away, and all is rolled back.     *)
Abort(r) ==
  /\ pc[r] \in {"checked", "open"}
  /\ Fail(r)

(* Whom r waits for; a waiting request can take no step of its own. *)
Awaited(r) ==
  IF pc[r] # "open" THEN {}
  ELSE IF todo[r] # {}
  THEN IF \E row \in todo[r] : Lock(r, row) # "wait" THEN {}
       ELSE UNION {Deleters(r, row) : row \in todo[r]}
  ELSE UNION {Deciders(r, entries[r][i].article) :
                i \in {j \in DOMAIN entries[r] : AtInsert(r, j)}}

(* Mutant: nobody looks for circles. *)
NeverDetected(r) == FALSE

(* r waits, in a circle, for itself. *)
Deadlocked(r) ==
  /\ Awaited(r) # {}
  /\ \A S \in SUBSET Request :
       Awaited(r) \subseteq S /\ (\A q \in S : Awaited(q) \subseteq S) => r \in S

(* PostgreSQL fails one statement of the circle. *)
BreakDeadlock(r) == Deadlocked(r) /\ Abort(r)

-----------------------------------------------------------------------------

Begin(r) ==
  \/ \E list \in Lists : ReplaceByBeanID(r, list)
  \/ \E a \in Article : Delete(r, a)
  \/ \E a \in Article, order \in Order : Create(r, a, order)
  \/ Refuse(r)

Step(r) ==
  \/ DeleteStart(r)
  \/ \E row \in todo[r] : DeleteRow(r, row)
  \/ \E i \in DOMAIN entries[r] : InsertRow(r, i) \/ InsertConflict(r, i)
  \/ Commit(r) \/ NothingDeleted(r)

Next == \E r \in Request : Begin(r) \/ Step(r) \/ BreakDeadlock(r) \/ Abort(r)

Spec == Init /\ [][Next]_vars

(* Handlers run on, and PostgreSQL finds deadlocks. *)
Fairness ==
  \A r \in Request : WF_vars(Step(r)) /\ WF_vars(BreakDeadlock(r))

FairSpec == Spec /\ Fairness

-----------------------------------------------------------------------------
(* Properties *)

(* No reader sees an article twice in the bean's list, whatever overlaps   *)
(* (Create's check and insert, ReplaceByBeanID).                           *)
NoArticleTwice ==
  \A s, t \in Visible : s.article = t.article => s = t

(* A Delete that is answered with success removed a relation of its        *)
(* article itself, one whose removal no other request was told of: neither *)
(* a second Delete that passed the same check, nor one whose row a         *)
(* replacement took away while it waited (Delete, mapRowsAffected).        *)
RemovedOnce ==
  \A r \in Request : pc[r] = "ok" /\ op[r] = "delete" =>
    \E row \in deleted[r] :
      /\ row.article = entries[r][1].article
      /\ \A q \in Request \ {r} : pc[q] = "ok" => row \notin deleted[q]

(* When a replacement commits, everything it found when it started is gone *)
(* and its list is there in the order sent, even if others held those rows *)
(* and failed; what others added meanwhile stays (ReplaceByBeanID).        *)
ReplaceSwaps ==
  [][\A r \in Request :
       op[r] = "replace" /\ pc[r] = "open" /\ pc'[r] = "ok" =>
         Visible' = (Visible \ snapshot[r]) \cup
                    {RowOf(r, entries[r][i]) : i \in DOMAIN entries[r]}]_vars

(* Every request that was started ends, though they wait for each other's  *)
(* rows and keys, in circles too (WithinTx).                               *)
RequestsEnd ==
  \A r \in Request : pc[r] \in {"checked", "open"} ~> pc[r] \in {"ok", "failed"}
==============================================================================
