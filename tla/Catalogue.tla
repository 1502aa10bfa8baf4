------------------------------ MODULE Catalogue -------------------------------
(***************************************************************************)
(* What visitors may see happen to a bean or an article, without rows,     *)
(* transactions, forms or restarts.  A content is hidden, listed (in the   *)
(* lists and the search) or ranked (listed, and also recommended, ranked,  *)
(* saved, rated and counted).  It enters the ranking in one step from      *)
(* either, and leaves it in one step that also takes it off the lists:     *)
(* nobody ever sees a content that is ranked and hidden, or one that drops *)
(* out of the ranking and stays listed.                                    *)
(***************************************************************************)

CONSTANT Content    \* beans and articles

VARIABLE standing   \* standing[c]: "none" while c does not exist

Init == standing = [c \in Content |-> "none"]

Become(c, s) == standing' = [standing EXCEPT ![c] = s]

Add(c) == standing[c] = "none" /\ (Become(c, "hidden") \/ Become(c, "listed"))

List(c) == standing[c] = "hidden" /\ Become(c, "listed")

Rank(c) == standing[c] \in {"hidden", "listed"} /\ Become(c, "ranked")

Hide(c) == standing[c] \in {"listed", "ranked"} /\ Become(c, "hidden")

Next == \E c \in Content : Add(c) \/ List(c) \/ Rank(c) \/ Hide(c)

Spec == Init /\ [][Next]_standing
==============================================================================
