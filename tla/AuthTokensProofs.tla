-------------------------- MODULE AuthTokensProofs ---------------------------
(***************************************************************************)
(* Proofs about AuthTokens, for any number of users, request slots and     *)
(* tokens and any lifetimes.                                               *)
(***************************************************************************)
EXTENDS AuthTokens, FiniteSetTheorems, TLAPS

-----------------------------------------------------------------------------
(* Type correctness *)

LEMMA RowTypes ==
  /\ NoRow \in Row
  /\ \A u \in User, f \in TokenId, at \in Nat : NewRow(u, f, at) \in Row
BY AuthAssumption DEF NoRow, Row, NewRow, TokenId, NoToken

LEMMA RequestTypes ==
  /\ NoRequest \in Request
  /\ \A r \in Request, u \in User, n \in Nat :
       /\ [r EXCEPT !.kind = "reuse", !.user = u] \in Request
       /\ [r EXCEPT !.user = u, !.version = n] \in Request
BY DEF NoRequest, Request

LEMMA RowUpdates ==
  ASSUME NEW r \in Row, NEW n \in TokenId
  PROVE  /\ [[r EXCEPT !.used = TRUE] EXCEPT !.replacedBy = n] \in Row
         /\ [r EXCEPT !.revoked = TRUE] \in Row
         /\ [r EXCEPT !.state = "deleted"] \in Row
         /\ [r EXCEPT !.replacedBy = NoToken] \in Row
BY DEF Row

LEMMA EndTypes ==
  ASSUME TypeOK, NEW p \in Proc, End(p)
  PROVE  /\ pc' \in [Proc -> Handler]
         /\ req' \in [Proc -> Request]
         /\ todo' \in [Proc -> SUBSET TokenId]
         /\ held' \in [Proc -> SUBSET TokenId]
BY RequestTypes DEF End, TypeOK, Handler

(* A request that reads a user has one: the handlers past their first read *)
(* name a user of the table and, from the row lock on, a token.            *)
ReqOK ==
  \A p \in Proc :
    /\ pc[p] \in {"login_create", "login_issue", "refresh_commit"} => req[p].user \in User
    /\ pc[p] \in {"login_issue", "refresh_lock", "refresh_commit"} => req[p].token \in TokenId
    /\ pc[p] \in {"revoke", "revoke_rows"} =>
         /\ req[p].user \in User
         /\ req[p].kind # "user" => req[p].token \in TokenId

(* Every row of the table belongs to a user, and its family is named after *)
(* a token that was inserted.                                              *)
RowsOK ==
  \A t \in TokenId :
    rows[t].state # "absent" =>
      /\ rows[t].user \in User
      /\ rows[t].family \in TokenId
      /\ rows[rows[t].family].state # "absent"

(* Row locks exclude each other, and a refresh past its checks holds its   *)
(* token, which is still live.                                             *)
LocksOK ==
  /\ \A p, q \in Proc : p # q => held[p] \cap held[q] = {}
  /\ \A p \in Proc : pc[p] = "refresh_commit" => req[p].token \in held[p]
  /\ LockedTokenStaysLive

IInv == TypeOK /\ ReqOK /\ RowsOK /\ LocksOK /\ SingleLiveToken

-----------------------------------------------------------------------------
(* One lemma for each action: it preserves the inductive invariant. *)

LEMMA InitIInv == Init => IInv
<1> SUFFICES ASSUME Init PROVE IInv
  OBVIOUS
<1>1. TypeOK
  BY AuthAssumption, RowTypes, RequestTypes DEF Init, TypeOK, Handler
<1>2. ReqOK /\ RowsOK /\ LocksOK
  BY DEF Init, ReqOK, RowsOK, LocksOK, LockedTokenStaysLive, NoRow
<1>3. SingleLiveToken
  BY DEF Init, SingleLiveToken, Live, Stored, NoRow
<1> QED
  BY <1>1, <1>2, <1>3 DEF IInv

(* What a step that leaves refresh_tokens alone keeps. *)
LEMMA SameRows ==
  ASSUME RowsOK, SingleLiveToken, UNCHANGED rows
  PROVE  RowsOK' /\ SingleLiveToken'
BY DEF RowsOK, SingleLiveToken, Live, Stored

(* What the end of a handler that leaves refresh_tokens alone keeps. *)
LEMMA EndSameRows ==
  ASSUME IInv, NEW p \in Proc, End(p), UNCHANGED rows
  PROVE  ReqOK' /\ RowsOK' /\ LocksOK' /\ SingleLiveToken'
<1>1. ReqOK'
  BY DEF IInv, TypeOK, ReqOK, End
<1>2. LocksOK'
  BY DEF IInv, TypeOK, LocksOK, LockedTokenStaysLive, Live, Stored, End
<1> QED
  BY <1>1, <1>2, SameRows DEF IInv

LEMMA LoginFindUserInv ==
  ASSUME IInv, NEW p \in Proc, NEW u \in User, LoginFindUser(p, u)
  PROVE  IInv'
<1>1. [NoRequest EXCEPT !.user = u, !.version = version[u]] \in Request
  BY DEF IInv, TypeOK, Request, NoRequest
<1>2. TypeOK'
  BY <1>1 DEF IInv, TypeOK, LoginFindUser, Handler, dbVars, seedVars
<1>3. ReqOK'
  BY DEF IInv, TypeOK, ReqOK, LoginFindUser, NoRequest
<1>4. RowsOK' /\ SingleLiveToken'
  BY SameRows DEF IInv, LoginFindUser, dbVars, seedVars
<1>5. LocksOK'
  BY DEF IInv, TypeOK, LocksOK, LockedTokenStaysLive, Live, Stored, LoginFindUser, dbVars, seedVars
<1> QED
  BY <1>2, <1>3, <1>4, <1>5 DEF IInv

LEMMA LoginCreateInv ==
  ASSUME IInv, NEW p \in Proc, LoginCreate(p)
  PROVE  IInv'
<1> DEFINE u == req[p].user
<1>1. PICK t \in TokenId :
        /\ IsNextId(t)
        /\ rows' = [rows EXCEPT ![t] = NewRow(u, t, now)]
        /\ req' = [req EXCEPT ![p].token = t, ![p].at = now]
  BY DEF LoginCreate, NewFamilyID
<1>2. u \in User /\ NewRow(u, t, now) \in Row
  BY RowTypes DEF IInv, ReqOK, TypeOK, LoginCreate
<1>3. TypeOK'
  <2>1. rows' \in [TokenId -> Row]
    BY <1>1, <1>2 DEF IInv, TypeOK
  <2>2. req' \in [Proc -> Request]
    <3>1. req' = [req EXCEPT ![p] = [req[p] EXCEPT !.token = t, !.at = now]]
      BY <1>1 DEF IInv, TypeOK
    <3>2. [req[p] EXCEPT !.token = t, !.at = now] \in Request
      BY ZenonT(60) DEF IInv, TypeOK, Request
    <3> QED
      BY <3>1, <3>2 DEF IInv, TypeOK
  <2> QED
    BY <2>1, <2>2 DEF IInv, TypeOK, LoginCreate, Handler, seedVars
<1>4. ReqOK'
  BY <1>1, <1>2 DEF IInv, TypeOK, Request, ReqOK, LoginCreate
<1>5. RowsOK'
  BY <1>1, <1>2 DEF IInv, TypeOK, RowsOK, NewRow
<1>6. \A s \in TokenId : Live(s) => rows[s].family # t
  BY <1>1 DEF IInv, RowsOK, IsNextId, Live, Stored
<1>7. SingleLiveToken'
  BY <1>1, <1>6 DEF IInv, TypeOK, SingleLiveToken, Live, Stored, NewRow
<1>8. LocksOK'
  <2>1. \A s \in TokenId : Live(s) => Live(s)'
    BY <1>1 DEF IInv, TypeOK, IsNextId, Live, Stored
  <2> QED
    BY <1>1, <2>1 DEF IInv, TypeOK, ReqOK, LocksOK, LockedTokenStaysLive, LoginCreate
<1> QED
  BY <1>3, <1>4, <1>5, <1>7, <1>8 DEF IInv

LEMMA LoginIssueInv ==
  ASSUME IInv, NEW p \in Proc, LoginIssue(p)
  PROVE  IInv'
<1>1. AccessToken(req[p].user, req[p].version, req[p].at) \in Access
  BY AuthAssumption DEF IInv, TypeOK, ReqOK, Request, LoginIssue, AccessToken, Access
<1>2. req[p].token \in TokenId
  BY DEF IInv, ReqOK, LoginIssue
<1>3. TypeOK'
  BY <1>1, <1>2, EndTypes DEF IInv, TypeOK, LoginIssue, seedVars
<1> QED
  BY <1>3, EndSameRows DEF IInv, LoginIssue

LEMMA RefreshBeginInv ==
  ASSUME IInv, NEW p \in Proc, NEW t \in TokenId, RefreshBegin(p, t)
  PROVE  IInv'
<1>1. [NoRequest EXCEPT !.token = t, !.at = now] \in Request
  BY DEF IInv, TypeOK, Request, NoRequest
<1>2. TypeOK'
  BY <1>1 DEF IInv, TypeOK, RefreshBegin, Handler, dbVars, seedVars
<1>3. ReqOK'
  BY DEF IInv, TypeOK, ReqOK, RefreshBegin, NoRequest
<1>4. RowsOK' /\ SingleLiveToken'
  BY SameRows DEF IInv, RefreshBegin, dbVars, seedVars
<1>5. LocksOK'
  BY DEF IInv, TypeOK, LocksOK, LockedTokenStaysLive, Live, Stored, RefreshBegin, dbVars, seedVars
<1> QED
  BY <1>2, <1>3, <1>4, <1>5 DEF IInv

(* A handler that ends and writes nothing: an early return or a rollback. *)
LEMMA EndInv ==
  ASSUME IInv, NEW p \in Proc, End(p), UNCHANGED <<dbVars, seedVars>>
  PROVE  IInv'
<1>1. TypeOK'
  BY EndTypes DEF IInv, TypeOK, dbVars, seedVars
<1> QED
  BY <1>1, EndSameRows DEF IInv, dbVars, seedVars

LEMMA RefreshDetectReuseInv ==
  ASSUME IInv, NEW p \in Proc, NEW t \in TokenId, RefreshDetectReuse(p, t)
  PROVE  IInv'
<1> USE DEF RefreshDetectReuse, RowRead, Refreshable, dbVars, seedVars
<1>1. rows[t].user \in User
  BY DEF IInv, RowsOK, Stored
<1>2. TypeOK'
  <2>1. req' = [req EXCEPT ![p] = [req[p] EXCEPT !.kind = "reuse", !.user = rows[t].user]]
    BY DEF IInv, TypeOK
  <2>2. [req[p] EXCEPT !.kind = "reuse", !.user = rows[t].user] \in Request
    BY <1>1, RequestTypes DEF IInv, TypeOK
  <2>3. req' \in [Proc -> Request]
    BY <2>1, <2>2 DEF IInv, TypeOK
  <2> QED
    BY <2>3 DEF IInv, TypeOK, Handler
<1>3. ReqOK'
  BY <1>1 DEF IInv, TypeOK, Request, ReqOK
<1>4. RowsOK' /\ SingleLiveToken'
  BY SameRows DEF IInv
<1>5. LocksOK'
  BY DEF IInv, TypeOK, Request, LocksOK, LockedTokenStaysLive, Live, Stored, LockFree
<1> QED
  BY <1>2, <1>3, <1>4, <1>5 DEF IInv

LEMMA RefreshLockInv ==
  ASSUME IInv, NEW p \in Proc, NEW t \in TokenId, RefreshLock(p, t)
  PROVE  IInv'
<1> USE DEF RefreshLock, RowRead, Refreshable, dbVars, seedVars
<1>1. rows[t].user \in User /\ version[rows[t].user] \in Nat
  BY DEF IInv, TypeOK, RowsOK, Stored
<1>2. TypeOK'
  <2>1. req' = [req EXCEPT ![p] = [req[p] EXCEPT !.user = rows[t].user,
                                                 !.version = version[rows[t].user]]]
    BY DEF IInv, TypeOK
  <2>2. [req[p] EXCEPT !.user = rows[t].user, !.version = version[rows[t].user]] \in Request
    BY <1>1, RequestTypes DEF IInv, TypeOK
  <2>3. req' \in [Proc -> Request]
    BY <2>1, <2>2 DEF IInv, TypeOK
  <2> QED
    BY <2>3 DEF IInv, TypeOK, Handler
<1>3. ReqOK'
  BY <1>1 DEF IInv, TypeOK, Request, ReqOK
<1>4. RowsOK' /\ SingleLiveToken'
  BY SameRows DEF IInv
<1>5. LocksOK'
  <2>1. /\ Live(t) /\ pc'[p] = "refresh_commit" /\ held'[p] = {t} /\ req'[p].token = t
        /\ \A q \in Proc \ {p} : /\ pc'[q] = pc[q] /\ held'[q] = held[q]
                                 /\ req'[q] = req[q] /\ t \notin held[q]
    <3>1. /\ Live(t) /\ pc'[p] = "refresh_commit" /\ held'[p] = {t}
          /\ \A q \in Proc \ {p} : /\ pc'[q] = pc[q] /\ held'[q] = held[q]
                                   /\ t \notin held[q]
      BY DEF IInv, TypeOK, Live, Stored, LockFree
    <3>2. req'[p].token = t /\ \A q \in Proc \ {p} : req'[q] = req[q]
      BY DEF IInv, TypeOK, Request
    <3> QED
      BY <3>1, <3>2
  <2>2. \A q, r \in Proc : q # r => held'[q] \cap held'[r] = {}
    BY <2>1 DEF IInv, LocksOK
  <2>3. ASSUME NEW q \in Proc, pc'[q] = "refresh_commit"
        PROVE  \E s \in held'[q] : req'[q].token = s /\ Live(s)'
    <3>1. \A s : Live(s)' <=> Live(s)
      BY DEF Live, Stored
    <3>2. CASE q = p
      BY <2>1, <3>1, <3>2
    <3>3. CASE q # p
      <4>1. req[q].token \in held[q] /\ Live(req[q].token)
        BY <2>1, <2>3, <3>3 DEF IInv, LocksOK, LockedTokenStaysLive
      <4> QED
        BY <2>1, <3>1, <3>3, <4>1
    <3> QED
      BY <3>2, <3>3
  <2>4. \A q \in Proc : pc'[q] = "refresh_commit" => req'[q].token \in held'[q]
    BY <2>3
  <2>5. LockedTokenStaysLive'
    BY <2>3 DEF LockedTokenStaysLive, Live, Stored
  <2> HIDE DEF RefreshLock, RowRead, Refreshable, dbVars, seedVars
  <2> QED
    BY <2>2, <2>4, <2>5 DEF LocksOK
<1> QED
  BY <1>2, <1>3, <1>4, <1>5 DEF IInv

LEMMA RefreshCommitInv ==
  ASSUME IInv, NEW p \in Proc, RefreshCommit(p)
  PROVE  IInv'
<1> DEFINE old == req[p].token
<1>1. PICK t \in TokenId :
        /\ IsNextId(t)
        /\ rows' = Rotated(old, t, req[p].at)
        /\ cookies' = cookies \cup {t}
  BY DEF RefreshCommit
<1>2. /\ old \in TokenId /\ old \in held[p] /\ Live(old)
      /\ req[p].user \in User /\ req[p].at \in Nat /\ req[p].version \in Nat
  BY DEF IInv, TypeOK, Request, ReqOK, LocksOK, RefreshCommit
<1>3. /\ rows[old].user \in User /\ rows[old].family \in TokenId
      /\ rows[rows[old].family].state # "absent"
      /\ rows[old].family # t /\ old # t
  BY <1>1, <1>2 DEF IInv, RowsOK, Live, Stored, IsNextId
<1>4. NewRow(rows[old].user, rows[old].family, req[p].at) \in Row
  BY <1>2, <1>3, RowTypes
<1>5. rows' = [rows EXCEPT ![old] = [[rows[old] EXCEPT !.used = TRUE] EXCEPT !.replacedBy = t],
                          ![t] = NewRow(rows[old].user, rows[old].family, req[p].at)]
  BY <1>1, <1>2, <1>3 DEF IInv, TypeOK, Rotated
<1>6. /\ rows' \in [TokenId -> Row]
      /\ rows'[t] = NewRow(rows[old].user, rows[old].family, req[p].at)
      /\ rows'[old] = [[rows[old] EXCEPT !.used = TRUE] EXCEPT !.replacedBy = t]
      /\ \A s \in TokenId \ {t, old} : rows'[s] = rows[s]
  BY <1>2, <1>3, <1>4, <1>5, RowUpdates DEF IInv, TypeOK
<1>7. TypeOK'
  <2>1. AccessToken(req[p].user, req[p].version, req[p].at) \in Access
    BY <1>2, AuthAssumption DEF AccessToken, Access
  <2> QED
    BY <1>1, <1>6, <2>1, EndTypes DEF IInv, TypeOK, RefreshCommit, seedVars
<1>8. ReqOK'
  BY DEF IInv, TypeOK, ReqOK, RefreshCommit, End
<1>9. /\ rows'[old].state = rows[old].state /\ rows'[old].user = rows[old].user
      /\ rows'[old].family = rows[old].family /\ rows'[old].used
      /\ rows'[t].state = "stored" /\ rows'[t].user = rows[old].user
      /\ rows'[t].family = rows[old].family
  BY <1>2, <1>6 DEF IInv, TypeOK, Row, NewRow
<1>10. RowsOK'
  <2>1. \A s \in TokenId : rows[s].state # "absent" => rows'[s].state # "absent"
    BY <1>1, <1>2, <1>6, <1>9, ZenonT(60)
  <2>2. ASSUME NEW s \in TokenId, rows'[s].state # "absent"
        PROVE  /\ rows'[s].user \in User /\ rows'[s].family \in TokenId
               /\ rows[rows'[s].family].state # "absent"
    <3>1. CASE s \in {t, old}
      BY <1>3, <1>9, <3>1
    <3>2. CASE s \notin {t, old}
      BY <1>6, <2>2, <3>2 DEF IInv, RowsOK
    <3> QED
      BY <3>1, <3>2
  <2> QED
    BY <2>1, <2>2 DEF RowsOK
<1>11. \A s \in TokenId : Live(s)' => s = t \/ (Live(s) /\ s # old /\ rows'[s] = rows[s])
  BY <1>6, <1>9 DEF Live, Stored
<1>12. SingleLiveToken'
  BY <1>2, <1>9, <1>11 DEF IInv, SingleLiveToken
<1>13. LocksOK'
  <2>1. ASSUME NEW q \in Proc, q # p, pc[q] = "refresh_commit"
        PROVE  Live(req[q].token)'
    <3>1. req[q].token \in TokenId \ {old, t} /\ Live(req[q].token)
      BY <1>1, <1>2, <2>1
      DEF IInv, ReqOK, LocksOK, LockedTokenStaysLive, Live, Stored, IsNextId
    <3>2. req'[q].token = req[q].token
      BY <2>1 DEF IInv, TypeOK, RefreshCommit, End
    <3> QED
      BY <1>6, <3>1, <3>2 DEF Live, Stored
  <2> QED
    BY <2>1 DEF IInv, TypeOK, LocksOK, LockedTokenStaysLive, RefreshCommit, End
<1> QED
  BY <1>7, <1>8, <1>10, <1>12, <1>13 DEF IInv

LEMMA LogoutFindTokenInv ==
  ASSUME IInv, NEW p \in Proc, NEW u \in User, NEW t \in TokenId, LogoutFindToken(p, u, t)
  PROVE  IInv'
<1>1. [NoRequest EXCEPT !.kind = "family", !.user = u, !.token = t] \in Request
  BY DEF IInv, TypeOK, Request, NoRequest
<1>2. TypeOK'
  BY <1>1 DEF IInv, TypeOK, LogoutFindToken, Handler, dbVars, seedVars
<1>3. ReqOK'
  BY DEF IInv, TypeOK, ReqOK, LogoutFindToken, NoRequest
<1>4. RowsOK' /\ SingleLiveToken'
  BY SameRows DEF IInv, LogoutFindToken, dbVars, seedVars
<1>5. LocksOK'
  BY DEF IInv, TypeOK, LocksOK, LockedTokenStaysLive, Live, Stored, LogoutFindToken, dbVars, seedVars
<1> QED
  BY <1>2, <1>3, <1>4, <1>5 DEF IInv

LEMMA LogoutAllBeginInv ==
  ASSUME IInv, NEW p \in Proc, NEW u \in User, LogoutAllBegin(p, u)
  PROVE  IInv'
<1>1. [NoRequest EXCEPT !.kind = "user", !.user = u] \in Request
  BY DEF IInv, TypeOK, Request, NoRequest
<1>2. TypeOK'
  BY <1>1 DEF IInv, TypeOK, LogoutAllBegin, Handler, dbVars, seedVars
<1>3. ReqOK'
  BY DEF IInv, TypeOK, ReqOK, LogoutAllBegin, NoRequest
<1>4. RowsOK' /\ SingleLiveToken'
  BY SameRows DEF IInv, LogoutAllBegin, dbVars, seedVars
<1>5. LocksOK'
  BY DEF IInv, TypeOK, LocksOK, LockedTokenStaysLive, Live, Stored, LogoutAllBegin, dbVars, seedVars
<1> QED
  BY <1>2, <1>3, <1>4, <1>5 DEF IInv

LEMMA RevokeStartInv ==
  ASSUME IInv, NEW p \in Proc, RevokeStart(p)
  PROVE  IInv'
<1>1. TypeOK'
  BY DEF IInv, TypeOK, RevokeStart, Handler, dbVars, seedVars
<1>2. ReqOK'
  BY DEF IInv, TypeOK, ReqOK, RevokeStart
<1>3. RowsOK' /\ SingleLiveToken'
  BY SameRows DEF IInv, RevokeStart, dbVars, seedVars
<1>4. LocksOK'
  BY DEF IInv, TypeOK, LocksOK, LockedTokenStaysLive, Live, Stored, RevokeStart, dbVars, seedVars
<1> QED
  BY <1>1, <1>2, <1>3, <1>4 DEF IInv

LEMMA RevokeRowInv ==
  ASSUME IInv, NEW p \in Proc, NEW t \in TokenId, RevokeRow(p, t)
  PROVE  IInv'
<1>1. TypeOK'
  BY DEF IInv, TypeOK, RevokeRow, dbVars, seedVars
<1>2. ReqOK'
  BY DEF IInv, TypeOK, ReqOK, RevokeRow
<1>3. RowsOK' /\ SingleLiveToken'
  BY SameRows DEF IInv, RevokeRow, dbVars, seedVars
<1>4. LocksOK'
  <2>1. /\ held'[p] \subseteq held[p] \cup {t}
        /\ \A q \in Proc \ {p} : held'[q] = held[q] /\ t \notin held[q]
    BY DEF IInv, TypeOK, RevokeRow, LockFree
  <2>2. \A q, r \in Proc : q # r => held'[q] \cap held'[r] = {}
    BY <2>1 DEF IInv, LocksOK
  <2>3. \A q \in Proc : pc'[q] = "refresh_commit" => q # p /\ pc[q] = "refresh_commit"
    BY DEF RevokeRow, dbVars, seedVars
  <2>4. \A q \in Proc : pc'[q] = "refresh_commit" =>
                         req'[q].token \in held'[q] /\ Live(req'[q].token)
    BY <2>1, <2>3 DEF IInv, LocksOK, LockedTokenStaysLive, RevokeRow, dbVars, seedVars
  <2>5. \A s : Live(s)' <=> Live(s)
    BY DEF Live, Stored, RevokeRow, dbVars, seedVars
  <2> QED
    BY <2>2, <2>4, <2>5 DEF LocksOK, LockedTokenStaysLive
<1> QED
  BY <1>1, <1>2, <1>3, <1>4 DEF IInv

(* What a step keeps that only takes life out of rows nobody holds for a   *)
(* refresh: no row appears, moves to another family or comes to life.      *)
LEMMA FewerLive ==
  ASSUME IInv,
         \A t \in TokenId : /\ rows'[t].state # "absent" <=> rows[t].state # "absent"
                            /\ rows'[t].user = rows[t].user
                            /\ rows'[t].family = rows[t].family
                            /\ Live(t)' => Live(t)
  PROVE  RowsOK' /\ SingleLiveToken'
<1>1. RowsOK'
  BY DEF IInv, RowsOK
<1>2. SingleLiveToken'
  BY DEF IInv, SingleLiveToken
<1> QED
  BY <1>1, <1>2

LEMMA RevokeCommitInv ==
  ASSUME IInv, NEW p \in Proc, RevokeCommit(p)
  PROVE  IInv'
<1>1. /\ rows' \in [TokenId -> Row]
      /\ \A t \in TokenId :
           rows'[t] = IF t \in held[p] THEN [rows[t] EXCEPT !.revoked = TRUE] ELSE rows[t]
  BY RowUpdates DEF IInv, TypeOK, RevokeCommit, seedVars
<1>2. \A t \in TokenId : /\ rows'[t].state = rows[t].state
                         /\ rows'[t].user = rows[t].user
                         /\ rows'[t].family = rows[t].family
                         /\ Live(t)' <=> Live(t) /\ t \notin held[p]
  BY <1>1 DEF IInv, TypeOK, Row, Live, Stored
<1>3. TypeOK'
  <2>1. version' \in [User -> Nat]
    BY DEF IInv, TypeOK, ReqOK, RevokeCommit, IncrementTokenVersion
  <2> QED
    BY <1>1, <2>1, EndTypes DEF IInv, TypeOK, RevokeCommit, seedVars
<1>4. ReqOK'
  BY DEF IInv, TypeOK, ReqOK, RevokeCommit, End
<1>5. RowsOK' /\ SingleLiveToken'
  BY <1>2, FewerLive
<1>6. LocksOK'
  <2>1. \A q \in Proc : pc'[q] = "refresh_commit" =>
          /\ q # p /\ pc[q] = "refresh_commit"
          /\ req'[q] = req[q] /\ held'[q] = held[q]
    BY DEF IInv, TypeOK, RevokeCommit, End
  <2>2. ASSUME NEW q \in Proc, pc'[q] = "refresh_commit"
        PROVE  \E s \in held[q] : req'[q].token = s /\ s \in held'[q] /\ Live(s)'
    <3>1. /\ req[q].token \in TokenId /\ req[q].token \in held[q]
          /\ Live(req[q].token) /\ req[q].token \notin held[p]
      BY <2>1, <2>2 DEF IInv, ReqOK, LocksOK, LockedTokenStaysLive
    <3> QED
      BY <1>2, <2>1, <2>2, <3>1
  <2>3. \A q, r \in Proc : q # r => held'[q] \cap held'[r] = {}
    BY DEF IInv, TypeOK, LocksOK, RevokeCommit, End
  <2> QED
    BY <2>2, <2>3 DEF LocksOK, LockedTokenStaysLive, Live, Stored
<1> QED
  BY <1>3, <1>4, <1>5, <1>6 DEF IInv

LEMMA DeleteExpiredInv ==
  ASSUME IInv, DeleteExpired
  PROVE  IInv'
<1> DEFINE gone == {t \in TokenId : Stored(t) /\ rows[t].expiresAt < now}
<1>1. /\ rows' \in [TokenId -> Row]
      /\ \A t \in TokenId :
           rows'[t] = IF t \in gone THEN [rows[t] EXCEPT !.state = "deleted"]
                      ELSE IF Stored(t) /\ rows[t].replacedBy \in gone
                           THEN [rows[t] EXCEPT !.replacedBy = NoToken] ELSE rows[t]
  BY RowUpdates DEF IInv, TypeOK, DeleteExpired
<1>2. \A t \in TokenId : /\ rows'[t].state # "absent" <=> rows[t].state # "absent"
                         /\ rows'[t].user = rows[t].user
                         /\ rows'[t].family = rows[t].family
                         /\ Live(t)' <=> Live(t) /\ t \notin gone
  BY <1>1 DEF IInv, TypeOK, Row, Live, Stored
<1>3. TypeOK'
  BY <1>1 DEF IInv, TypeOK, DeleteExpired, reqVars, seedVars
<1>4. ReqOK'
  BY DEF IInv, ReqOK, DeleteExpired, reqVars
<1>5. RowsOK' /\ SingleLiveToken'
  BY <1>2, FewerLive
<1>6. LocksOK'
  <2>1. \A q \in Proc : held[q] \cap gone = {}
    BY DEF DeleteExpired
  <2>2. pc' = pc /\ req' = req /\ held' = held
    BY DEF DeleteExpired, reqVars
  <2>3. ASSUME NEW q \in Proc, pc[q] = "refresh_commit"
        PROVE  \E s \in held[q] : req[q].token = s /\ Live(s)'
    <3>1. /\ req[q].token \in TokenId /\ req[q].token \in held[q]
          /\ Live(req[q].token) /\ req[q].token \notin gone
      BY <2>1, <2>3 DEF IInv, ReqOK, LocksOK, LockedTokenStaysLive
    <3> QED
      BY <1>2, <3>1
  <2> QED
    BY <2>2, <2>3 DEF IInv, LocksOK, LockedTokenStaysLive, Live, Stored
<1> QED
  BY <1>3, <1>4, <1>5, <1>6 DEF IInv

(* The clock, the operator and a starting server leave every request and   *)
(* row alone.                                                              *)
Environment ==
  \/ Tick
  \/ \E u \in User, s \in {"active", "suspended"} : UpdateStatus(u, s)
  \/ SeedRead \/ SeedSave

LEMMA EnvironmentFrame == Environment => UNCHANGED <<rows, access, cookies, reqVars>>
BY DEF Environment, Tick, UpdateStatus, SeedRead, SeedSave, dbVars

LEMMA EnvironmentInv ==
  ASSUME IInv, Environment
  PROVE  IInv'
<1> USE DEF IInv, TypeOK
<1>1. TypeOK'
  <2>1. CASE Tick
    BY <2>1 DEF Tick, reqVars, seedVars
  <2>2. ASSUME NEW u \in User, NEW s \in {"active", "suspended"}, UpdateStatus(u, s)
        PROVE  TypeOK'
    BY <2>2 DEF UpdateStatus, reqVars, seedVars
  <2>3. CASE SeedRead
    BY <2>3 DEF SeedRead, dbVars, reqVars
  <2>4. CASE SeedSave
    <3>1. PICK v \in seed :
            /\ status' = [status EXCEPT ![Admin] = "active"]
            /\ version' = [version EXCEPT ![Admin] = v]
            /\ setBack' = setBack \cup {u \in {Admin} : v < version[u]}
            /\ seed' = {}
            /\ UNCHANGED <<now, rows, access, cookies, reqVars, starts>>
      BY <2>4 DEF SeedSave
    <3>2. Admin \in User
      BY <2>4 DEF SeedSave
    <3> QED
      BY <3>1, <3>2 DEF reqVars
  <2> QED
    BY <2>1, <2>2, <2>3, <2>4 DEF Environment
<1> QED
  BY <1>1, EnvironmentFrame, SameRows
  DEF ReqOK, LocksOK, LockedTokenStaysLive, Live, Stored, reqVars

-----------------------------------------------------------------------------
(* The theorems *)

LEMMA NextIInv == IInv /\ [Next]_vars => IInv'
<1> SUFFICES ASSUME IInv, [Next]_vars PROVE IInv'
  OBVIOUS
<1>1. ASSUME NEW p \in Proc, Start(p) PROVE IInv'
  BY <1>1, LoginFindUserInv, LogoutAllBeginInv, RefreshBeginInv, LogoutFindTokenInv DEF Start
<1>2. ASSUME NEW p \in Proc, Step(p) PROVE IInv'
  <2>1. CASE LoginCreate(p) \/ LoginIssue(p)
    BY <2>1, LoginCreateInv, LoginIssueInv
  <2>2. CASE \E t \in TokenId : RefreshReject(p, t) \/ RefreshDetectReuse(p, t) \/ RefreshLock(p, t)
    BY <2>2, EndInv, RefreshDetectReuseInv, RefreshLockInv DEF RefreshReject
  <2>3. CASE RefreshCommit(p) \/ RevokeStart(p) \/ RevokeCommit(p)
    BY <2>3, RefreshCommitInv, RevokeStartInv, RevokeCommitInv
  <2>4. CASE \E t \in TokenId : RevokeRow(p, t)
    BY <2>4, RevokeRowInv
  <2> QED
    BY <1>2, <2>1, <2>2, <2>3, <2>4 DEF Step
<1>3. ASSUME NEW p \in Proc, Abort(p) PROVE IInv'
  BY <1>3, EndInv DEF Abort
<1>4. CASE DeleteExpired
  BY <1>4, DeleteExpiredInv
<1>5. CASE Environment
  BY <1>5, EnvironmentInv
<1>6. CASE UNCHANGED vars
  BY <1>6 DEF vars, dbVars, reqVars, seedVars, IInv, TypeOK, ReqOK, RowsOK, LocksOK, LockedTokenStaysLive,
              SingleLiveToken, Live, Stored
<1> QED
  BY <1>1, <1>2, <1>3, <1>4, <1>5, <1>6 DEF Next, Environment

(* The inductive invariant holds in every reachable state. *)
THEOREM Invariance == Spec => []IInv
<1> QED
  BY InitIInv, NextIInv, PTL DEF Spec

(* Every reachable state is well typed. *)
THEOREM TypeCorrect == Spec => []TypeOK
<1>1. IInv => TypeOK
  BY DEF IInv
<1> QED
  BY <1>1, Invariance, PTL

(* However many requests overlap, a session family has at most one refresh *)
(* token that Refresh would still rotate (Refresh, MarkUsed).              *)
THEOREM OneLiveToken == Spec => []SingleLiveToken
<1>1. IInv => SingleLiveToken
  BY DEF IInv
<1> QED
  BY <1>1, Invariance, PTL

(* The row lock of FindByTokenHashWithUserForUpdate is enough: between the *)
(* checks of a refresh and its commit its token cannot be used, revoked or *)
(* deleted by anyone else.                                                 *)
THEOREM LockProtectsRotation == Spec => []LockedTokenStaysLive
<1>1. IInv => LockedTokenStaysLive
  BY DEF IInv, LocksOK
<1> QED
  BY <1>1, Invariance, PTL

-----------------------------------------------------------------------------
(* The history of the tokens: a second invariant, on top of the first.     *)

(* Token n is what the one rotation of token t inserted.  Its expiry is not *)
(* before t's, so the cleanup never takes n and leaves t.                   *)
Follows(n, t) ==
  /\ n \in TokenId /\ n > t
  /\ rows[n].state # "absent" /\ rows[t].state # "absent"
  /\ rows[n].family = rows[t].family /\ rows[n].user = rows[t].user
  /\ rows[t].expiresAt <= rows[n].expiresAt

(* Ids are given out in order, a token names its successor exactly when it *)
(* is used, and successors have one predecessor.                           *)
ChainOK ==
  /\ \A s, t \in TokenId : s < t /\ rows[t].state # "absent" => rows[s].state # "absent"
  /\ \A t \in TokenId : rows[t].used <=> rows[t].replacedBy # NoToken
  /\ \A t \in TokenId : rows[t].used => Follows(rows[t].replacedBy, t)
  /\ \A s, t \in TokenId :
       rows[s].used /\ rows[t].used /\ rows[s].replacedBy = rows[t].replacedBy => s = t
  /\ \A n \in TokenId : rows[n].state # "absent" /\ rows[n].family # n =>
       \E t \in TokenId : rows[t].replacedBy = n

(* The token a family is named after belongs to it.                        *)
FamiliesOK ==
  \A t \in TokenId : IF rows[t].state = "absent" THEN rows[t].family = NoToken
                     ELSE rows[rows[t].family].family = rows[t].family

(* What request q has read of the clock and of the table is not from the   *)
(* future: its token was issued before it came.                            *)
RequestDates(q) ==
  /\ req[q].at <= now
  /\ pc[q] = "login_issue" => rows[req[q].token].state # "absent"
  /\ pc[q] \in {"refresh_lock", "refresh_commit"} =>
       /\ rows[req[q].token].state # "absent"
       /\ rows[req[q].token].expiresAt <= req[q].at + RefreshTTL

DatesOK ==
  /\ \A q \in Proc : RequestDates(q)
  /\ \A t \in TokenId : rows[t].state # "absent" => rows[t].expiresAt <= now + RefreshTTL
  /\ \A t \in cookies : rows[t].state # "absent"

(* The token_version that request q will sign was one of the user's, and   *)
(* unless the user's version was set back none since was smaller.          *)
RequestVersion(q) ==
  pc[q] \in {"login_create", "login_issue", "refresh_commit"}
    /\ req[q].user \notin setBack => req[q].version <= version[req[q].user]

VersionsOK ==
  /\ \A q \in Proc : RequestVersion(q)
  /\ \A a \in access : a.user \notin setBack => a.version <= version[a.user]

HInv == ChainOK /\ FamiliesOK /\ DatesOK /\ VersionsOK

LEMMA InitHInv == Init => HInv
<1> SUFFICES ASSUME Init PROVE HInv
  OBVIOUS
<1>1. ChainOK /\ FamiliesOK
  BY DEF Init, ChainOK, FamiliesOK, NoRow
<1>2. DatesOK /\ VersionsOK
  BY DEF Init, DatesOK, RequestDates, VersionsOK, RequestVersion, NoRow, NoRequest
<1> QED
  BY <1>1, <1>2 DEF HInv

(* The clock only goes one way, and so does a token_version that no Save   *)
(* sets back.                                                              *)
LEMMA OneWay ==
  ASSUME IInv, [Next]_vars
  PROVE  /\ now' >= now /\ setBack \subseteq setBack'
         /\ \A u \in User \ setBack' : version'[u] >= version[u]
<1> USE DEF IInv, TypeOK, dbVars, reqVars, seedVars
<1>1. ASSUME NEW p \in Proc, Start(p) PROVE UNCHANGED <<now, version, setBack>>
  BY <1>1 DEF Start, LoginFindUser, LogoutAllBegin, RefreshBegin, LogoutFindToken
<1>2. ASSUME NEW p \in Proc, Step(p)
      PROVE  UNCHANGED <<now, setBack>> /\ \A u \in User : version'[u] >= version[u]
  <2>1. CASE RevokeCommit(p)
    BY <2>1 DEF RevokeCommit, IncrementTokenVersion, ReqOK
  <2>2. LoginCreate(p) \/ LoginIssue(p) => UNCHANGED <<now, version, setBack>>
    BY DEF LoginCreate, LoginIssue
  <2>3. ASSUME NEW t \in TokenId,
               RefreshReject(p, t) \/ RefreshDetectReuse(p, t) \/ RefreshLock(p, t)
        PROVE  UNCHANGED <<now, version, setBack>>
    BY <2>3 DEF RefreshReject, RefreshDetectReuse, RefreshLock
  <2>4. RefreshCommit(p) \/ RevokeStart(p) => UNCHANGED <<now, version, setBack>>
    BY DEF RefreshCommit, RevokeStart
  <2>5. ASSUME NEW t \in TokenId, RevokeRow(p, t) PROVE UNCHANGED <<now, version, setBack>>
    BY <2>5 DEF RevokeRow
  <2>6. UNCHANGED version => \A u \in User : version'[u] >= version[u]
    OBVIOUS
  <2> QED
    BY <1>2, <2>1, <2>2, <2>3, <2>4, <2>5, <2>6 DEF Step
<1>3. ASSUME NEW p \in Proc, Abort(p) PROVE UNCHANGED <<now, version, setBack>>
  BY <1>3 DEF Abort
<1>4. CASE Tick
  BY <1>4 DEF Tick
<1>5. ASSUME NEW u \in User, NEW s \in {"active", "suspended"}, UpdateStatus(u, s)
      PROVE  UNCHANGED <<now, version, setBack>>
  BY <1>5 DEF UpdateStatus
<1>6. CASE DeleteExpired \/ SeedRead
  BY <1>6 DEF DeleteExpired, SeedRead
<1>7. CASE SeedSave
  <2>1. PICK v \in seed : /\ version' = [version EXCEPT ![Admin] = v]
                          /\ setBack' = setBack \cup {u \in {Admin} : v < version[u]}
                          /\ now' = now
    BY <1>7 DEF SeedSave
  <2>2. v \in Nat /\ Admin \in User
    BY <1>7 DEF SeedSave
  <2> QED
    BY <2>1, <2>2
<1>8. CASE UNCHANGED vars
  BY <1>8 DEF vars
<1> QED
  BY <1>1, <1>2, <1>3, <1>4, <1>5, <1>6, <1>7, <1>8 DEF Next

(* What a step that leaves refresh_tokens alone keeps. *)
LEMMA SameHistory ==
  ASSUME ChainOK, FamiliesOK, UNCHANGED rows
  PROVE  ChainOK' /\ FamiliesOK'
BY DEF ChainOK, Follows, FamiliesOK

(* What a step that only revokes or deletes rows keeps. *)
LEMMA WitheredHistory ==
  ASSUME ChainOK, FamiliesOK,
         \A t \in TokenId : /\ rows'[t].state = "absent" <=> rows[t].state = "absent"
                            /\ rows'[t].user = rows[t].user
                            /\ rows'[t].family = rows[t].family
                            /\ rows'[t].used = rows[t].used
                            /\ rows'[t].replacedBy = rows[t].replacedBy
                            /\ rows'[t].expiresAt = rows[t].expiresAt,
         RowsOK
  PROVE  ChainOK' /\ FamiliesOK'
<1>1. FamiliesOK'
  BY DEF FamiliesOK, RowsOK
<1>2. \A n, t \in TokenId : Follows(n, t) <=> Follows(n, t)'
  BY DEF Follows
<1>3. \A t \in TokenId : rows[t].used => rows[t].replacedBy \in TokenId
  BY DEF ChainOK, Follows
<1>4. ChainOK'
  BY <1>2, <1>3 DEF ChainOK
<1> QED
  BY <1>1, <1>4

(* The rows a step may find are kept as long as their dates are, and what  *)
(* a request reads anew was there when it came.                            *)
LEMMA DatesKept ==
  ASSUME IInv, IInv', DatesOK, now' >= now,
         \A t \in TokenId : rows[t].state # "absent" =>
           rows'[t].state # "absent" /\ rows'[t].expiresAt = rows[t].expiresAt,
         \A t \in TokenId : rows'[t].state # "absent" /\ rows[t].state = "absent" =>
           rows'[t].expiresAt <= now + RefreshTTL,
         \A t \in cookies' : t \in cookies \/ rows'[t].state # "absent",
         \A q \in Proc : (pc'[q] = pc[q] /\ req'[q] = req[q]) \/ RequestDates(q)'
  PROVE  DatesOK'
<1> USE AuthAssumption DEF IInv, TypeOK
<1>1. \A t \in TokenId : rows[t].expiresAt \in Nat /\ rows'[t].expiresAt \in Nat
  BY DEF Row
<1>2. \A t \in TokenId : rows'[t].state # "absent" => rows'[t].expiresAt <= now' + RefreshTTL
  BY <1>1 DEF DatesOK
<1>3. \A t \in cookies' : rows'[t].state # "absent"
  BY DEF DatesOK
<1>4. ASSUME NEW q \in Proc PROVE RequestDates(q)'
  <2>1. CASE RequestDates(q)'
    BY <2>1
  <2>2. CASE pc'[q] = pc[q] /\ req'[q] = req[q]
    <3>1. req[q].at \in Nat /\ req[q].at <= now
      BY DEF Request, DatesOK, RequestDates
    <3>2. pc[q] \in {"login_issue", "refresh_lock", "refresh_commit"} => req[q].token \in TokenId
      BY DEF ReqOK
    <3> QED
      BY <2>2, <3>1, <3>2 DEF DatesOK, RequestDates
  <2> QED
    BY <2>1, <2>2
<1> QED
  BY <1>2, <1>3, <1>4 DEF DatesOK

(* The same for versions: those that are not set back only grow. *)
LEMMA VersionsKept ==
  ASSUME IInv, IInv', VersionsOK, [Next]_vars,
         \A a \in access' : a \in access \/ (a.user \notin setBack' => a.version <= version'[a.user]),
         \A q \in Proc : \/ pc'[q] = pc[q] /\ req'[q] = req[q]
                         \/ RequestVersion(q)'
  PROVE  VersionsOK'
<1>1. /\ \A u \in User : version[u] \in Nat /\ version'[u] \in Nat
      /\ \A u \in User \ setBack' : u \notin setBack /\ version'[u] >= version[u]
  BY OneWay DEF IInv, TypeOK
<1>2. \A a \in access : a.user \in User /\ a.version \in Nat
  BY DEF IInv, TypeOK, Access
<1>3. \A a \in access' : a.user \notin setBack' => a.version <= version'[a.user]
  BY <1>1, <1>2 DEF VersionsOK
<1>4. ASSUME NEW q \in Proc PROVE RequestVersion(q)'
  <2>1. CASE RequestVersion(q)'
    BY <2>1
  <2>2. CASE pc'[q] = pc[q] /\ req'[q] = req[q]
    <3>1. req[q].version \in Nat
      BY DEF IInv, TypeOK, Request
    <3>2. pc[q] \in {"login_create", "login_issue", "refresh_commit"} => req[q].user \in User
      BY DEF IInv, ReqOK
    <3> QED
      BY <1>1, <2>2, <3>1, <3>2 DEF VersionsOK, RequestVersion
  <2> QED
    BY <2>1, <2>2
<1> QED
  BY <1>3, <1>4 DEF VersionsOK

(* A step that leaves the rows alone and hands out no token or access      *)
(* token: what its request reads anew is all there is to see to.           *)
LEMMA QuietHInv ==
  ASSUME IInv, IInv', HInv, [Next]_vars, UNCHANGED <<rows, access, cookies>>,
         \A q \in Proc : \/ pc'[q] = pc[q] /\ req'[q] = req[q]
                         \/ RequestDates(q)' /\ RequestVersion(q)'
  PROVE  HInv'
<1>1. ChainOK' /\ FamiliesOK'
  BY SameHistory DEF HInv
<1>2. DatesOK'
  BY OneWay, DatesKept DEF HInv
<1>3. VersionsOK'
  BY VersionsKept DEF HInv
<1> QED
  BY <1>1, <1>2, <1>3 DEF HInv

(* A request that ends has nothing read. *)
LEMMA EndedRequest ==
  ASSUME IInv, IInv', NEW p \in Proc, End(p)
  PROVE  \A q \in Proc : \/ pc'[q] = pc[q] /\ req'[q] = req[q]
                         \/ RequestDates(q)' /\ RequestVersion(q)'
BY DEF IInv, TypeOK, End, NoRequest, RequestDates, RequestVersion

LEMMA LoginHInv ==
  ASSUME IInv, IInv', HInv, [Next]_vars, NEW p \in Proc,
         (\E u \in User : LoginFindUser(p, u)) \/ LoginIssue(p)
  PROVE  HInv'
<1>1. CASE \E u \in User : LoginFindUser(p, u)
  <2>1. PICK u \in User : LoginFindUser(p, u)
    BY <1>1
  <2>2. /\ pc' = [pc EXCEPT ![p] = "login_create"]
        /\ req' = [req EXCEPT ![p] = [NoRequest EXCEPT !.user = u, !.version = version[u]]]
        /\ UNCHANGED <<dbVars, seedVars>>
    BY <2>1 DEF LoginFindUser
  <2>3. RequestDates(p)' /\ RequestVersion(p)'
    BY <2>2 DEF IInv, TypeOK, dbVars, seedVars, NoRequest, RequestDates, RequestVersion
  <2>4. \A q \in Proc \ {p} : pc'[q] = pc[q] /\ req'[q] = req[q]
    BY <2>2 DEF IInv, TypeOK
  <2> QED
    BY <2>2, <2>3, <2>4, QuietHInv DEF dbVars, seedVars
<1>2. CASE LoginIssue(p)
  <2> DEFINE a == AccessToken(req[p].user, req[p].version, req[p].at)
  <2>1. /\ access' = access \cup {a} /\ cookies' = cookies \cup {req[p].token}
        /\ End(p) /\ UNCHANGED <<now, status, version, rows, seedVars>>
    BY <1>2 DEF LoginIssue
  <2>2. ChainOK' /\ FamiliesOK'
    BY <2>1, SameHistory DEF HInv
  <2>3. rows[req[p].token].state # "absent"
    BY <1>2 DEF LoginIssue, HInv, DatesOK, RequestDates
  <2>4. DatesOK'
    BY <2>1, <2>3, EndedRequest, OneWay, DatesKept DEF HInv
  <2>5. a.user \notin setBack' => a.version <= version'[a.user]
    BY <1>2, <2>1 DEF LoginIssue, AccessToken, HInv, VersionsOK, RequestVersion, seedVars
  <2>6. VersionsOK'
    BY <2>1, <2>5, EndedRequest, VersionsKept DEF HInv
  <2> QED
    BY <2>2, <2>4, <2>6 DEF HInv
<1> QED
  BY <1>1, <1>2

LEMMA LoginCreateHInv ==
  ASSUME IInv, IInv', HInv, [Next]_vars, NEW p \in Proc, LoginCreate(p)
  PROVE  HInv'
<1> DEFINE u == req[p].user
<1>1. PICK t \in TokenId :
        /\ IsNextId(t)
        /\ rows' = [rows EXCEPT ![t] = NewRow(u, t, now)]
        /\ req' = [req EXCEPT ![p].token = t, ![p].at = now]
  BY DEF LoginCreate, NewFamilyID
<1>2. /\ pc' = [pc EXCEPT ![p] = "login_issue"]
      /\ UNCHANGED <<now, status, version, access, cookies, setBack>>
  BY DEF LoginCreate, seedVars
<1>3. /\ rows'[t].state = "stored" /\ ~rows'[t].used /\ rows'[t].replacedBy = NoToken
      /\ rows'[t].family = t /\ rows'[t].expiresAt = now + RefreshTTL
      /\ \A s \in TokenId \ {t} : rows'[s] = rows[s]
  BY <1>1 DEF IInv, TypeOK, NewRow
<1>4. rows[t].state = "absent" /\ \A s \in TokenId : s < t => rows[s].state # "absent"
  BY <1>1 DEF IsNextId
<1>5. FamiliesOK'
  BY <1>3, <1>4 DEF FamiliesOK, HInv, IInv, RowsOK
<1>6. ChainOK'
  <2>1. \A n, s \in TokenId : Follows(n, s) => n # t /\ s # t
    BY <1>4 DEF Follows
  <2>2. \A n, s \in TokenId : Follows(n, s) => Follows(n, s)'
    BY <1>3, <2>1 DEF Follows
  <2>3. \A s \in TokenId : rows[s].used => s # t /\ rows[s].replacedBy \in TokenId \ {t}
    BY <2>1, <1>4 DEF HInv, ChainOK, Follows
  <2>4. \A s \in TokenId : rows'[s].used => rows[s].used /\ Follows(rows[s].replacedBy, s)'
    BY <1>3, <2>2, <2>3 DEF HInv, ChainOK
  <2>5. \A r, s \in TokenId : r < s /\ rows'[s].state # "absent" => rows'[r].state # "absent"
    BY <1>3, <1>4 DEF HInv, ChainOK
  <2>6. \A s \in TokenId : rows'[s].used <=> rows'[s].replacedBy # NoToken
    BY <1>3 DEF HInv, ChainOK
  <2>7. \A r, s \in TokenId :
          rows'[r].used /\ rows'[s].used /\ rows'[r].replacedBy = rows'[s].replacedBy => r = s
    BY <1>3 DEF HInv, ChainOK
  <2>8. ASSUME NEW n \in TokenId, rows'[n].state # "absent", rows'[n].family # n
        PROVE  \E s \in TokenId : rows'[s].replacedBy = n
    <3>1. n # t
      BY <1>3, <2>8
    <3>2. PICK s \in TokenId : rows[s].replacedBy = n
      BY <1>3, <2>8, <3>1 DEF HInv, ChainOK
    <3>3. rows[s].used
      BY <3>2 DEF HInv, ChainOK, TokenId, NoToken
    <3> QED
      BY <1>3, <2>3, <3>2, <3>3
  <2> QED
    BY <2>4, <2>5, <2>6, <2>7, <2>8 DEF ChainOK
<1>7. /\ pc'[p] = "login_issue" /\ req'[p].token = t /\ req'[p].at = now
      /\ req'[p].user = req[p].user /\ req'[p].version = req[p].version
      /\ \A q \in Proc \ {p} : pc'[q] = pc[q] /\ req'[q] = req[q]
  BY <1>1, <1>2 DEF IInv, TypeOK, Request
<1>8. RequestDates(p)'
  BY <1>2, <1>3, <1>7 DEF IInv, TypeOK, RequestDates
<1>9. RequestVersion(p)'
  BY <1>2, <1>7 DEF LoginCreate, HInv, VersionsOK, RequestVersion
<1>10. DatesOK'
  <2>1. now + RefreshTTL <= now + RefreshTTL
    BY AuthAssumption DEF IInv, TypeOK
  <2>2. \A s \in TokenId : rows'[s].state # "absent" /\ rows[s].state = "absent" =>
          rows'[s].expiresAt <= now + RefreshTTL
    BY <1>3, <2>1
  <2>3. \A s \in TokenId : rows[s].state # "absent" =>
          rows'[s].state # "absent" /\ rows'[s].expiresAt = rows[s].expiresAt
    BY <1>3, <1>4
  <2> QED
    BY <1>2, <1>7, <1>8, <2>2, <2>3, OneWay, DatesKept DEF HInv
<1>11. VersionsOK'
  BY <1>2, <1>7, <1>9, VersionsKept DEF HInv
<1> QED
  BY <1>5, <1>6, <1>10, <1>11 DEF HInv

LEMMA RefreshBeginHInv ==
  ASSUME IInv, IInv', HInv, [Next]_vars, NEW p \in Proc, NEW t \in TokenId, RefreshBegin(p, t)
  PROVE  HInv'
<1>1. /\ t \in cookies /\ UNCHANGED dbVars
      /\ pc'[p] = "refresh_lock" /\ req'[p].token = t /\ req'[p].at = now
      /\ \A q \in Proc \ {p} : pc'[q] = pc[q] /\ req'[q] = req[q]
  BY DEF RefreshBegin, IInv, TypeOK, NoRequest
<1>2. rows[t].state # "absent" /\ rows[t].expiresAt <= now + RefreshTTL
  BY <1>1 DEF HInv, DatesOK
<1>3. RequestDates(p)'
  BY <1>1, <1>2 DEF dbVars, seedVars, IInv, TypeOK, RequestDates
<1>4. RequestVersion(p)'
  BY <1>1 DEF RequestVersion
<1> QED
  BY <1>1, <1>3, <1>4, QuietHInv DEF dbVars, seedVars

LEMMA RefreshLockHInv ==
  ASSUME IInv, IInv', HInv, [Next]_vars, NEW p \in Proc, NEW t \in TokenId, RefreshLock(p, t)
  PROVE  HInv'
<1>1. /\ UNCHANGED dbVars /\ pc[p] = "refresh_lock" /\ t = req[p].token
      /\ pc' = [pc EXCEPT ![p] = "refresh_commit"]
      /\ req' = [req EXCEPT ![p].user = rows[t].user, ![p].version = version[rows[t].user]]
      /\ Live(t)
  BY DEF RefreshLock, RowRead, Refreshable, Live
<1>2. /\ pc'[p] = "refresh_commit"
      /\ \A q \in Proc \ {p} : pc'[q] = pc[q] /\ req'[q] = req[q]
  BY <1>1 DEF IInv, TypeOK
<1>3. /\ req'[p].token = t /\ req'[p].at = req[p].at
      /\ req'[p].user = rows[t].user /\ req'[p].version = version[rows[t].user]
  BY <1>1 DEF IInv, TypeOK, Request
<1>4. RequestDates(p)'
  BY <1>1, <1>2, <1>3 DEF dbVars, seedVars, HInv, DatesOK, RequestDates
<1>5. RequestVersion(p)'
  <2>1. rows[t].user \in User
    BY <1>1 DEF IInv, RowsOK, Live, Stored
  <2>2. version[rows[t].user] \in Nat
    BY <2>1 DEF IInv, TypeOK
  <2> QED
    BY <1>1, <1>3, <2>2 DEF dbVars, seedVars, RequestVersion
<1> QED
  BY <1>1, <1>2, <1>4, <1>5, QuietHInv DEF dbVars, seedVars

(* A request that goes for a revocation keeps no date and no version. *)
LEMMA RevokingHInv ==
  ASSUME IInv, IInv', HInv, [Next]_vars, NEW p \in Proc,
         UNCHANGED dbVars, pc'[p] \in {"revoke", "revoke_rows"}, req'[p].at <= now,
         \A q \in Proc \ {p} : pc'[q] = pc[q] /\ req'[q] = req[q]
  PROVE  HInv'
<1>1. RequestDates(p)' /\ RequestVersion(p)'
  BY DEF dbVars, seedVars, RequestDates, RequestVersion
<1> QED
  BY <1>1, QuietHInv DEF dbVars, seedVars

LEMMA ToRevokeHInv ==
  ASSUME IInv, IInv', HInv, [Next]_vars, NEW p \in Proc,
         \/ \E t \in TokenId : RefreshDetectReuse(p, t) \/ RevokeRow(p, t)
         \/ \E u \in User : LogoutAllBegin(p, u)
         \/ \E u \in User, t \in TokenId : LogoutFindToken(p, u, t)
         \/ RevokeStart(p)
  PROVE  HInv'
<1> USE DEF IInv, TypeOK
<1>0. req[p].at \in Nat /\ req[p].at <= now
  BY DEF Request, HInv, DatesOK, RequestDates
<1>1. ASSUME NEW t \in TokenId, RefreshDetectReuse(p, t) PROVE HInv'
  <2>1. /\ req' = [req EXCEPT ![p].kind = "reuse", ![p].user = rows[t].user]
        /\ pc' = [pc EXCEPT ![p] = "revoke"] /\ UNCHANGED dbVars
    BY <1>1 DEF RefreshDetectReuse
  <2>2. req'[p].at = req[p].at /\ \A q \in Proc \ {p} : pc'[q] = pc[q] /\ req'[q] = req[q]
    BY <2>1 DEF Request
  <2> QED
    BY <1>0, <2>1, <2>2, RevokingHInv
<1>2. ASSUME NEW t \in TokenId, RevokeRow(p, t) PROVE HInv'
  BY <1>0, <1>2, RevokingHInv DEF RevokeRow
<1>3. ASSUME NEW u \in User, LogoutAllBegin(p, u) PROVE HInv'
  <2>1. req'[p].at = 0 /\ pc'[p] = "revoke" /\ UNCHANGED dbVars
    BY <1>3 DEF LogoutAllBegin, NoRequest
  <2>2. \A q \in Proc \ {p} : pc'[q] = pc[q] /\ req'[q] = req[q]
    BY <1>3 DEF LogoutAllBegin
  <2> QED
    BY <2>1, <2>2, RevokingHInv
<1>4. ASSUME NEW u \in User, NEW t \in TokenId, LogoutFindToken(p, u, t) PROVE HInv'
  <2>1. req'[p].at = 0 /\ pc'[p] = "revoke" /\ UNCHANGED dbVars
    BY <1>4 DEF LogoutFindToken, NoRequest
  <2>2. \A q \in Proc \ {p} : pc'[q] = pc[q] /\ req'[q] = req[q]
    BY <1>4 DEF LogoutFindToken
  <2> QED
    BY <2>1, <2>2, RevokingHInv
<1>5. CASE RevokeStart(p)
  BY <1>0, <1>5, RevokingHInv DEF RevokeStart
<1> QED
  BY <1>1, <1>2, <1>3, <1>4, <1>5

LEMMA RefreshCommitHInv ==
  ASSUME IInv, IInv', HInv, [Next]_vars, NEW p \in Proc, RefreshCommit(p)
  PROVE  HInv'
<1> DEFINE a == AccessToken(req[p].user, req[p].version, req[p].at)
<1>0. PICK old \in TokenId : old = req[p].token
  BY DEF IInv, ReqOK, RefreshCommit
<1>1. PICK t \in TokenId :
        /\ IsNextId(t)
        /\ rows' = Rotated(old, t, req[p].at)
        /\ cookies' = cookies \cup {t}
  BY <1>0 DEF RefreshCommit
<1>2. /\ Live(old) /\ req[p].at \in Nat /\ req[p].at <= now
      /\ rows[old].state # "absent" /\ rows[old].expiresAt <= req[p].at + RefreshTTL
      /\ rows[old].family \in TokenId /\ rows[rows[old].family].family = rows[old].family
  BY <1>0 DEF IInv, TypeOK, Request, RowsOK, HInv, FamiliesOK, DatesOK, RequestDates,
         RefreshCommit, Live, Stored
<1>3. /\ rows[t].state = "absent" /\ t # old /\ rows[old].family # t
      /\ \A s \in TokenId : s < t => rows[s].state # "absent"
  BY <1>1, <1>2 DEF IsNextId, IInv, RowsOK
<1>4. old < t
  BY <1>2, <1>3 DEF HInv, ChainOK, TokenId
<1>5. /\ rows'[old].used /\ rows'[old].replacedBy = t
      /\ rows'[old].state = rows[old].state /\ rows'[old].user = rows[old].user
      /\ rows'[old].family = rows[old].family /\ rows'[old].expiresAt = rows[old].expiresAt
      /\ rows'[t].state = "stored" /\ ~rows'[t].used /\ rows'[t].replacedBy = NoToken
      /\ rows'[t].user = rows[old].user /\ rows'[t].family = rows[old].family
      /\ rows'[t].expiresAt = req[p].at + RefreshTTL
      /\ \A s \in TokenId \ {t, old} : rows'[s] = rows[s]
  <2>1. rows' = [rows EXCEPT ![old] = [[rows[old] EXCEPT !.used = TRUE] EXCEPT !.replacedBy = t],
                            ![t] = NewRow(rows[old].user, rows[old].family, req[p].at)]
    BY <1>1, <1>2, <1>3 DEF IInv, TypeOK, Rotated
  <2>2. /\ rows'[old] = [[rows[old] EXCEPT !.used = TRUE] EXCEPT !.replacedBy = t]
        /\ rows'[t] = NewRow(rows[old].user, rows[old].family, req[p].at)
        /\ \A s \in TokenId \ {t, old} : rows'[s] = rows[s]
    BY <1>2, <1>3, <2>1 DEF IInv, TypeOK
  <2> QED
    BY <1>2, <2>2 DEF IInv, TypeOK, Row, NewRow
<1>6. FamiliesOK'
  <2>1. \A s \in TokenId : rows'[s].family = IF s = t THEN rows[old].family ELSE rows[s].family
    BY <1>2, <1>3, <1>5
  <2>2. \A s \in TokenId : rows'[s].state = "absent" <=> s # t /\ rows[s].state = "absent"
    BY <1>2, <1>3, <1>5
  <2>3. \A s \in TokenId : rows[s].state # "absent" =>
          rows[s].family \in TokenId \ {t} /\ rows[rows[s].family].family = rows[s].family
    BY <1>3 DEF IInv, RowsOK, HInv, FamiliesOK
  <2>4. \A s \in TokenId : rows[s].state = "absent" => rows[s].family = NoToken
    BY DEF HInv, FamiliesOK
  <2> QED
    BY <1>2, <2>1, <2>2, <2>3, <2>4 DEF FamiliesOK
<1>7. ~rows[old].used /\ rows[old].replacedBy = NoToken
  BY <1>2 DEF Live, HInv, ChainOK
<1>8. ChainOK'
  <2>1. \A n, s \in TokenId : Follows(n, s) => n # t /\ s # t
    BY <1>3 DEF Follows
  <2>2. \A n, s \in TokenId : Follows(n, s) => Follows(n, s)'
    BY <1>2, <1>5, <2>1 DEF Follows
  <2>3. Follows(t, old)'
    BY <1>2, <1>4, <1>5 DEF Follows
  <2>4. \A s \in TokenId : rows[s].used =>
          s \notin {t, old} /\ rows[s].replacedBy \in TokenId \ {t} /\ rows'[s] = rows[s]
    BY <1>5, <1>7, <2>1 DEF HInv, ChainOK, Follows
  <2>5. \A s \in TokenId : rows'[s].used => s = old \/ rows[s].used
    BY <1>5
  <2>6. \A s \in TokenId : rows'[s].used => Follows(rows[s].replacedBy, s)'
    BY <1>5, <2>2, <2>3, <2>4, <2>5 DEF HInv, ChainOK
  <2>7. \A r, s \in TokenId : r < s /\ rows'[s].state # "absent" => rows'[r].state # "absent"
    BY <1>2, <1>3, <1>5 DEF HInv, ChainOK
  <2>8. \A s \in TokenId : rows'[s].used <=> rows'[s].replacedBy # NoToken
    BY <1>5 DEF HInv, ChainOK, TokenId, NoToken
  <2>9. \A r, s \in TokenId :
          rows'[r].used /\ rows'[s].used /\ rows'[r].replacedBy = rows'[s].replacedBy => r = s
    BY <1>5, <2>4, <2>5 DEF HInv, ChainOK
  <2>10. ASSUME NEW n \in TokenId, rows'[n].state # "absent", rows'[n].family # n
         PROVE  \E s \in TokenId : rows'[s].replacedBy = n
    <3>1. CASE n = t
      BY <1>2, <1>5, <3>1
    <3>2. CASE n # t
      <4>1. PICK s \in TokenId : rows[s].replacedBy = n
        BY <1>5, <2>10, <3>2 DEF HInv, ChainOK
      <4>2. rows[s].used
        BY <4>1 DEF HInv, ChainOK, TokenId, NoToken
      <4> QED
        BY <2>4, <4>1, <4>2
    <3> QED
      BY <3>1, <3>2
  <2> QED
    BY <2>6, <2>7, <2>8, <2>9, <2>10 DEF ChainOK
<1>9. DatesOK'
  <2>1. req[p].at + RefreshTTL <= now + RefreshTTL
    BY <1>2, AuthAssumption DEF IInv, TypeOK
  <2>2. End(p)
    BY DEF RefreshCommit
  <2>3. \A s \in TokenId : rows'[s].state # "absent" /\ rows[s].state = "absent" =>
          rows'[s].expiresAt <= now + RefreshTTL
    BY <1>2, <1>5, <2>1
  <2>4. \A s \in TokenId : rows[s].state # "absent" =>
          rows'[s].state # "absent" /\ rows'[s].expiresAt = rows[s].expiresAt
    BY <1>3, <1>5
  <2>5. \A s \in cookies' : s \in cookies \/ rows'[s].state # "absent"
    BY <1>1, <1>5
  <2> QED
    BY <2>2, <2>3, <2>4, <2>5, EndedRequest, OneWay, DatesKept DEF HInv
<1>10. VersionsOK'
  <2>1. access' = access \cup {a} /\ End(p) /\ UNCHANGED <<version, setBack>>
    BY DEF RefreshCommit, seedVars
  <2>2. a.user \notin setBack' => a.version <= version'[a.user]
    BY <2>1 DEF RefreshCommit, AccessToken, HInv, VersionsOK, RequestVersion
  <2> QED
    BY <2>1, <2>2, EndedRequest, VersionsKept DEF HInv
<1> QED
  BY <1>6, <1>8, <1>9, <1>10 DEF HInv

LEMMA RevokeCommitHInv ==
  ASSUME IInv, IInv', HInv, [Next]_vars, NEW p \in Proc, RevokeCommit(p)
  PROVE  HInv'
<1>1. \A t \in TokenId :
        rows'[t] = IF t \in held[p] THEN [rows[t] EXCEPT !.revoked = TRUE] ELSE rows[t]
  BY DEF RevokeCommit
<1>2. \A t \in TokenId :
        /\ rows'[t].state = rows[t].state /\ rows'[t].user = rows[t].user
        /\ rows'[t].family = rows[t].family /\ rows'[t].used = rows[t].used
        /\ rows'[t].replacedBy = rows[t].replacedBy /\ rows'[t].expiresAt = rows[t].expiresAt
  BY <1>1 DEF IInv, TypeOK, Row
<1>3. End(p) /\ UNCHANGED <<now, status, access, cookies>>
  BY DEF RevokeCommit
<1>4. ChainOK' /\ FamiliesOK'
  BY <1>2, WitheredHistory DEF HInv, IInv
<1>5. DatesOK'
  BY <1>2, <1>3, EndedRequest, OneWay, DatesKept DEF HInv
<1>6. VersionsOK'
  BY <1>3, EndedRequest, VersionsKept DEF HInv
<1> QED
  BY <1>4, <1>5, <1>6 DEF HInv

(* The cleanup never takes the successor of a token that it keeps: ON      *)
(* DELETE SET NULL never has anything to do.                               *)
LEMMA NeverSetNull ==
  ASSUME IInv, HInv, NEW t \in TokenId, NEW n \in TokenId,
         rows[t].replacedBy = n, Stored(t), rows[n].expiresAt < now
  PROVE  rows[t].expiresAt < now
<1>1. Follows(n, t)
  BY DEF HInv, ChainOK, TokenId, NoToken
<1>2. rows[t].expiresAt \in Nat /\ rows[n].expiresAt \in Nat /\ now \in Nat
  BY DEF IInv, TypeOK, Row
<1> QED
  BY <1>1, <1>2 DEF Follows

LEMMA DeleteExpiredHInv ==
  ASSUME IInv, IInv', HInv, [Next]_vars, DeleteExpired
  PROVE  HInv'
<1> DEFINE gone == {t \in TokenId : Stored(t) /\ rows[t].expiresAt < now}
<1>1. \A t \in TokenId :
        rows'[t] = IF t \in gone THEN [rows[t] EXCEPT !.state = "deleted"]
                   ELSE IF Stored(t) /\ rows[t].replacedBy \in gone
                        THEN [rows[t] EXCEPT !.replacedBy = NoToken] ELSE rows[t]
  BY DEF DeleteExpired
<1>2. \A t \in TokenId : Stored(t) /\ rows[t].replacedBy \in gone => t \in gone
  BY NeverSetNull
<1>3. \A t \in TokenId :
        rows'[t] = IF t \in gone THEN [rows[t] EXCEPT !.state = "deleted"] ELSE rows[t]
  BY <1>1, <1>2
<1>4. \A t \in TokenId :
        /\ rows'[t].state = "absent" <=> rows[t].state = "absent"
        /\ rows'[t].user = rows[t].user
        /\ rows'[t].family = rows[t].family /\ rows'[t].used = rows[t].used
        /\ rows'[t].replacedBy = rows[t].replacedBy /\ rows'[t].expiresAt = rows[t].expiresAt
  BY <1>3 DEF IInv, TypeOK, Row, Stored
<1>5. UNCHANGED <<now, version, access, cookies, pc, req>>
  BY DEF DeleteExpired, reqVars
<1>6. ChainOK' /\ FamiliesOK'
  BY <1>4, WitheredHistory DEF HInv, IInv
<1>7. DatesOK'
  BY <1>4, <1>5, OneWay, DatesKept DEF HInv
<1>8. VersionsOK'
  BY <1>5, VersionsKept DEF HInv
<1> QED
  BY <1>6, <1>7, <1>8 DEF HInv

LEMMA NextHInv == IInv /\ IInv' /\ HInv /\ [Next]_vars => HInv'
<1> SUFFICES ASSUME IInv, IInv', HInv, [Next]_vars PROVE HInv'
  OBVIOUS
<1>1. ASSUME NEW p \in Proc, End(p), UNCHANGED <<dbVars, seedVars>> PROVE HInv'
  BY <1>1, EndedRequest, QuietHInv DEF dbVars, seedVars
<1>2. ASSUME NEW p \in Proc, Start(p) PROVE HInv'
  BY <1>2, LoginHInv, ToRevokeHInv, RefreshBeginHInv DEF Start
<1>3. ASSUME NEW p \in Proc, Step(p) PROVE HInv'
  <2>1. CASE LoginCreate(p) \/ LoginIssue(p)
    BY <2>1, LoginCreateHInv, LoginHInv
  <2>2. CASE \E t \in TokenId : RefreshReject(p, t) \/ RefreshDetectReuse(p, t) \/ RefreshLock(p, t)
    BY <1>1, <2>2, ToRevokeHInv, RefreshLockHInv DEF RefreshReject
  <2>3. CASE RefreshCommit(p) \/ RevokeStart(p) \/ RevokeCommit(p)
    BY <2>3, RefreshCommitHInv, ToRevokeHInv, RevokeCommitHInv
  <2>4. CASE \E t \in TokenId : RevokeRow(p, t)
    BY <2>4, ToRevokeHInv
  <2> QED
    BY <1>3, <2>1, <2>2, <2>3, <2>4 DEF Step
<1>4. ASSUME NEW p \in Proc, Abort(p) PROVE HInv'
  BY <1>1, <1>4 DEF Abort
<1>5. CASE DeleteExpired
  BY <1>5, DeleteExpiredHInv
<1>6. CASE Environment \/ UNCHANGED vars
  <2>1. UNCHANGED <<rows, access, cookies, pc, req>>
    BY <1>6, EnvironmentFrame DEF vars, dbVars, reqVars
  <2> QED
    BY <2>1, QuietHInv
<1> QED
  BY <1>2, <1>3, <1>4, <1>5, <1>6 DEF Next, Environment

LEMMA HistoryInvariance == Spec => []HInv
<1> QED
  BY InitHInv, NextHInv, Invariance, PTL DEF Spec

LEMMA TokensFinite ==
  \A S \in SUBSET TokenId : IsFiniteSet(S) /\ Cardinality(S) \in Nat
<1>1. IsFiniteSet(TokenId)
  BY AuthAssumption, FS_Interval DEF TokenId
<1> QED
  BY <1>1, FS_Subset, FS_CardinalityType

(* Whatever overlaps, fails and is cleaned up, the tokens of a family are  *)
(* one chain from the login's on: each comes from one rotation (Create,    *)
(* MarkUsed), and a used token that is stored names the next.              *)
THEOREM RotationIsLinear == Spec => []LinearRotation
<1>1. ASSUME HInv PROVE LinearRotation
  <2>1. \A t \in TokenId : Stored(t) /\ rows[t].used => Follows(rows[t].replacedBy, t)
    BY <1>1 DEF HInv, ChainOK
  <2>2. ASSUME NEW n \in TokenId, rows[n].state # "absent", rows[n].family # n
        PROVE  Cardinality({t \in TokenId : rows[t].replacedBy = n}) = 1
    <3>1. PICK t \in TokenId : rows[t].replacedBy = n
      BY <1>1, <2>2 DEF HInv, ChainOK
    <3>2. \A s \in TokenId : rows[s].replacedBy = n => s = t
      BY <1>1, <3>1 DEF HInv, ChainOK, TokenId, NoToken
    <3>3. {s \in TokenId : rows[s].replacedBy = n} = {t}
      BY <3>1, <3>2
    <3> QED
      BY <3>3, FS_Singleton
  <2> QED
    BY <2>1, <2>2 DEF LinearRotation, Follows
<1> QED
  BY <1>1, HistoryInvariance, PTL

(* Unless the Save of a seed has set the user's version back, no access     *)
(* token that has expired or been overtaken by token_version is ever        *)
(* current again, and a logout on all devices or a detected reuse leaves    *)
(* the user neither a current access token nor a request that will sign     *)
(* one, whatever the operator does with the user's status meanwhile.        *)
THEOREM RejectedForGood == Spec => AccessRevocation
<1> DEFINE A ==
      /\ \A a \in access : a.user \notin setBack' /\ ~Current(a) => ~Current(a)'
      /\ \A p \in Proc :
           RevokeCommit(p) /\ req[p].kind # "family" /\ req[p].user \notin setBack =>
             /\ \A a \in access : a.user = req[p].user => ~Current(a)'
             /\ \A q \in Proc : Signs(q, req[p].user) => req[q].version < version'[req[q].user]
<1>1. ASSUME IInv, HInv, [Next]_vars PROVE A
  <2>1. \A a \in access : /\ a.user \in User /\ a.version \in Nat /\ a.exp \in Nat
                          /\ a.user \notin setBack => a.version <= version[a.user]
    BY <1>1 DEF IInv, TypeOK, Access, HInv, VersionsOK
  <2>2. now \in Nat /\ \A u \in User : version[u] \in Nat
    BY <1>1 DEF IInv, TypeOK
  <2>3. now' \in Nat /\ \A u \in User : version'[u] \in Nat
    BY <1>1, NextIInv DEF IInv, TypeOK
  <2>4. ASSUME NEW a \in access, a.user \notin setBack', Current(a)' PROVE Current(a)
    <3>1. a.exp > now
      BY <1>1, <2>1, <2>2, <2>3, <2>4, OneWay DEF Current
    <3>2. version[a.user] <= a.version /\ a.version <= version[a.user]
      BY <1>1, <2>1, <2>4, OneWay DEF Current
    <3> QED
      BY <2>1, <2>2, <3>1, <3>2 DEF Current
  <2>5. ASSUME NEW p \in Proc, RevokeCommit(p), req[p].kind # "family",
               req[p].user \notin setBack
        PROVE  /\ \A a \in access : a.user = req[p].user => ~Current(a)'
               /\ \A q \in Proc : Signs(q, req[p].user) =>
                    req[q].version < version'[req[q].user]
    <3>1. req[p].user \in User /\ version'[req[p].user] = version[req[p].user] + 1
      BY <1>1, <2>5 DEF RevokeCommit, IncrementTokenVersion, IInv, TypeOK, ReqOK
    <3>2. \A a \in access : a.user = req[p].user => ~Current(a)'
      BY <2>1, <2>2, <2>5, <3>1 DEF Current
    <3>3. \A q \in Proc : Signs(q, req[p].user) =>
            req[q].version \in Nat /\ req[q].version <= version[req[p].user]
      BY <1>1, <2>5 DEF Signs, IInv, TypeOK, Request, HInv, VersionsOK, RequestVersion
    <3>4. \A q \in Proc : Signs(q, req[p].user) => req[q].version < version'[req[q].user]
      BY <2>2, <3>1, <3>3 DEF Signs
    <3> QED
      BY <3>2, <3>4
  <2> QED
    BY <2>4, <2>5
<1>2. IInv /\ HInv /\ [Next]_vars => [A]_vars
  BY <1>1
<1> QED
  BY <1>2, Invariance, HistoryInvariance, PTL DEF Spec, AccessRevocation

-----------------------------------------------------------------------------
(* AuthTokens implements SessionFamilies.                                  *)

LEMMA MembersFinite ==
  \A f : Members(f) \subseteq TokenId /\ IsFiniteSet(Members(f)) /\ Cardinality(Members(f)) \in Nat
BY TokensFinite DEF Members

LEMMA InitSessions == Init => Sessions!Init
<1> SUFFICES ASSUME Init PROVE Sessions!Init
  OBVIOUS
<1>1. \A f \in TokenId : rows[f].family = NoToken /\ f # NoToken
  BY DEF Init, NoRow, TokenId, NoToken
<1>2. \A f \in TokenId : SessionOf(f) = "none"
  BY <1>1 DEF SessionOf
<1>3. \A f \in TokenId : Members(f) = {}
  BY <1>1 DEF Members
<1> QED
  BY <1>2, <1>3, FS_EmptySet DEF Sessions!Init

(* What becomes of the mapped state when rows do or do not change. *)
LEMMA SameSessions ==
  ASSUME UNCHANGED rows
  PROVE  UNCHANGED Sessions!vars
<1>1. \A f \in TokenId : SessionOf(f)' = SessionOf(f) /\ Members(f)' = Members(f)
  BY DEF SessionOf, Members, Live, Stored
<1> QED
  BY <1>1 DEF Sessions!vars

LEMMA OpensSession ==
  ASSUME NEW t \in TokenId, SessionOf(t) = "none", SessionOf(t)' = "open",
         Members(t)' = {t},
         \A f \in TokenId \ {t} : SessionOf(f)' = SessionOf(f) /\ Members(f)' = Members(f)
  PROVE  Sessions!Next
<1>1. Cardinality(Members(t)') = 1
  BY FS_Singleton
<1> QED
  BY <1>1 DEF Sessions!Next, Sessions!Open

LEMMA ContinuesSession ==
  ASSUME NEW f \in TokenId, NEW t \in TokenId,
         SessionOf(f) = "open", SessionOf(f)' = "open",
         t \notin Members(f), Members(f)' = Members(f) \cup {t},
         \A g \in TokenId \ {f} : SessionOf(g)' = SessionOf(g) /\ Members(g)' = Members(g)
  PROVE  Sessions!Next
<1>1. Cardinality(Members(f)') = Cardinality(Members(f)) + 1
  BY MembersFinite, FS_AddElement
<1> QED
  BY <1>1 DEF Sessions!Next, Sessions!Rotate

LEMMA ClosesSessions ==
  ASSUME \A t \in TokenId : rows'[t].family = rows[t].family /\ (Live(t)' => Live(t))
  PROVE  Sessions!Next
<1> DEFINE S == {f \in TokenId : SessionOf(f) = "open" /\ SessionOf(f)' = "closed"}
<1>1. \A f \in TokenId : Members(f)' = Members(f)
  BY DEF Members
<1>2. \A f \in TokenId : SessionOf(f)' = IF f \in S THEN "closed" ELSE SessionOf(f)
  BY DEF SessionOf
<1>3. Sessions!Close(S)
  BY <1>1, <1>2 DEF Sessions!Close
<1>4. S \in SUBSET {f \in TokenId : [g \in TokenId |-> SessionOf(g)][f] = "open"}
  OBVIOUS
<1> QED
  BY <1>3, <1>4 DEF Sessions!Next

LEMMA LoginOpens ==
  ASSUME IInv, HInv, NEW p \in Proc, LoginCreate(p)
  PROVE  Sessions!Next
<1>1. PICK t \in TokenId :
        IsNextId(t) /\ rows' = [rows EXCEPT ![t] = NewRow(req[p].user, t, now)]
  BY DEF LoginCreate, NewFamilyID
<1>2. /\ rows'[t].family = t /\ Live(t)'
      /\ \A s \in TokenId \ {t} : rows'[s] = rows[s]
  BY <1>1 DEF IInv, TypeOK, NewRow, Live, Stored
<1>3. \A s \in TokenId : rows[s].family # t
  BY <1>1 DEF IInv, RowsOK, HInv, FamiliesOK, IsNextId, TokenId, NoToken
<1>4. SessionOf(t) = "none" /\ SessionOf(t)' = "open" /\ Members(t)' = {t}
  BY <1>2, <1>3 DEF SessionOf, Members
<1>5. ~Live(t)
  BY <1>1 DEF IsNextId, Live, Stored
<1>6. ASSUME NEW f \in TokenId \ {t}
      PROVE  SessionOf(f)' = SessionOf(f) /\ Members(f)' = Members(f)
  <2>1. \A s \in TokenId : rows'[s].family = f <=> rows[s].family = f
    BY <1>1, <1>2, <1>6 DEF HInv, FamiliesOK, IsNextId, TokenId, NoToken
  <2>2. \A s \in TokenId \ {t} : Live(s)' <=> Live(s)
    BY <1>2 DEF Live, Stored
  <2>3. (\E s \in TokenId : rows'[s].family = f /\ Live(s)')
          <=> \E s \in TokenId : rows[s].family = f /\ Live(s)
    BY <1>2, <1>5, <1>6, <2>1, <2>2
  <2> QED
    BY <2>1, <2>3 DEF SessionOf, Members
<1> QED
  BY <1>4, <1>6, OpensSession

LEMMA RefreshContinues ==
  ASSUME IInv, HInv, NEW p \in Proc, RefreshCommit(p)
  PROVE  Sessions!Next
<1>0. PICK old \in TokenId : old = req[p].token
  BY DEF IInv, ReqOK, RefreshCommit
<1>1. PICK t \in TokenId : IsNextId(t) /\ rows' = Rotated(old, t, req[p].at)
  BY <1>0 DEF RefreshCommit
<1>2. /\ Live(old) /\ rows[old].family \in TokenId
      /\ rows[rows[old].family].family = rows[old].family
      /\ rows[rows[old].family].state # "absent"
  BY <1>0 DEF RefreshCommit, IInv, RowsOK, HInv, FamiliesOK, Live, Stored
<1>3. PICK f \in TokenId : f = rows[old].family
  BY <1>2
<1>4. /\ old # t /\ f # t /\ rows[t].family = NoToken /\ ~Live(t)
  BY <1>1, <1>2, <1>3 DEF IsNextId, HInv, FamiliesOK, Live, Stored
<1>5. /\ rows'[old].family = f /\ ~Live(old)'
      /\ rows'[t].family = f /\ Live(t)'
      /\ \A s \in TokenId \ {t, old} : rows'[s] = rows[s]
  BY <1>1, <1>3, <1>4 DEF IInv, TypeOK, Row, Rotated, NewRow, Live, Stored
<1>6. \A s \in TokenId : rows'[s].family = IF s = t THEN f ELSE rows[s].family
  BY <1>3, <1>5
<1>7. \A s \in TokenId \ {t, old} : Live(s)' <=> Live(s)
  BY <1>5 DEF Live, Stored
<1>8. /\ SessionOf(f) = "open" /\ SessionOf(f)' = "open"
      /\ t \notin Members(f) /\ Members(f)' = Members(f) \cup {t}
  BY <1>2, <1>3, <1>4, <1>5, <1>6 DEF SessionOf, Members, TokenId, NoToken
<1>9. ASSUME NEW g \in TokenId \ {f}
      PROVE  SessionOf(g)' = SessionOf(g) /\ Members(g)' = Members(g)
  <2>1. \A s \in TokenId : rows'[s].family = g <=> rows[s].family = g
    BY <1>4, <1>6, <1>9 DEF TokenId, NoToken
  <2>2. \A s \in TokenId : rows[s].family = g => s \notin {t, old}
    BY <1>3, <1>4, <1>9 DEF TokenId, NoToken
  <2>3. (\E s \in TokenId : rows'[s].family = g /\ Live(s)')
          <=> \E s \in TokenId : rows[s].family = g /\ Live(s)
    BY <1>7, <2>1, <2>2
  <2> QED
    BY <2>1, <2>3 DEF SessionOf, Members
<1> QED
  BY <1>8, <1>9, ContinuesSession

LEMMA StepSessions == IInv /\ HInv /\ [Next]_vars => [Sessions!Next]_(Sessions!vars)
<1> SUFFICES ASSUME IInv, HInv, [Next]_vars PROVE [Sessions!Next]_(Sessions!vars)
  OBVIOUS
<1>1. ASSUME UNCHANGED rows PROVE UNCHANGED Sessions!vars
  BY <1>1, SameSessions
<1>2. ASSUME NEW p \in Proc, Start(p) PROVE UNCHANGED rows
  BY <1>2 DEF Start, LoginFindUser, LogoutAllBegin, RefreshBegin, LogoutFindToken, dbVars, seedVars
<1>3. ASSUME NEW p \in Proc, Step(p) PROVE Sessions!Next \/ UNCHANGED rows
  <2>1. LoginIssue(p) \/ RevokeStart(p) => UNCHANGED rows
    BY DEF LoginIssue, RevokeStart, dbVars, seedVars
  <2>2. ASSUME NEW t \in TokenId,
               RefreshReject(p, t) \/ RefreshDetectReuse(p, t) \/ RefreshLock(p, t) \/ RevokeRow(p, t)
        PROVE  UNCHANGED rows
    BY <2>2 DEF RefreshReject, RefreshDetectReuse, RefreshLock, RevokeRow, dbVars, seedVars
  <2>3. ASSUME RevokeCommit(p) PROVE Sessions!Next
    <3>1. \A t \in TokenId :
            rows'[t] = IF t \in held[p] THEN [rows[t] EXCEPT !.revoked = TRUE] ELSE rows[t]
      BY <2>3 DEF RevokeCommit
    <3>2. \A t \in TokenId : rows'[t].family = rows[t].family /\ (Live(t)' => Live(t))
      BY <3>1 DEF IInv, TypeOK, Row, Live, Stored
    <3> QED
      BY <3>2, ClosesSessions
  <2> QED
    BY <1>3, <2>1, <2>2, <2>3, LoginOpens, RefreshContinues DEF Step
<1>4. ASSUME NEW p \in Proc, Abort(p) PROVE UNCHANGED rows
  BY <1>4 DEF Abort, dbVars, seedVars
<1>5. ASSUME DeleteExpired PROVE Sessions!Next
  <2> DEFINE gone == {t \in TokenId : Stored(t) /\ rows[t].expiresAt < now}
  <2>1. \A t \in TokenId :
          rows'[t] = IF t \in gone THEN [rows[t] EXCEPT !.state = "deleted"]
                     ELSE IF Stored(t) /\ rows[t].replacedBy \in gone
                          THEN [rows[t] EXCEPT !.replacedBy = NoToken] ELSE rows[t]
    BY <1>5 DEF DeleteExpired
  <2> HIDE DEF gone
  <2>2. ASSUME NEW t \in TokenId
        PROVE  rows'[t].family = rows[t].family /\ (Live(t)' => Live(t))
    <3>1. rows[t] \in Row
      BY DEF IInv, TypeOK
    <3>2. /\ rows'[t].family = rows[t].family /\ rows'[t].used = rows[t].used
          /\ rows'[t].revoked = rows[t].revoked
          /\ rows'[t].state = rows[t].state \/ rows'[t].state = "deleted"
      <4>1. CASE t \in gone
        BY <2>1, <3>1, <4>1 DEF Row
      <4>2. CASE t \notin gone /\ Stored(t) /\ rows[t].replacedBy \in gone
        BY <2>1, <3>1, <4>2 DEF Row
      <4>3. CASE t \notin gone /\ ~(Stored(t) /\ rows[t].replacedBy \in gone)
        BY <2>1, <4>3
      <4> QED
        BY <4>1, <4>2, <4>3
    <3> QED
      BY <3>2 DEF Live, Stored
  <2> QED
    BY <2>2, ClosesSessions
<1>6. Environment \/ UNCHANGED vars => UNCHANGED rows
  BY EnvironmentFrame DEF vars, dbVars
<1> QED
  BY <1>1, <1>2, <1>3, <1>4, <1>5, <1>6 DEF Next, Environment

(* The handlers, with all their locks, statements, failures and cleanups,  *)
(* implement SessionFamilies: a session is opened by a login, only its     *)
(* one live token continues it, and once closed it stays so.               *)
THEOREM Implementation == Spec => ImplementsSessions
<1>1. Spec => [][Sessions!Next]_(Sessions!vars)
  BY Invariance, HistoryInvariance, StepSessions, PTL DEF Spec
<1> QED
  BY <1>1, InitSessions, PTL DEF Spec, ImplementsSessions, Sessions!Spec
==============================================================================
