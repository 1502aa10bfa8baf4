--------------------------- MODULE SessionFamilies ---------------------------
(***************************************************************************)
(* What the login sessions of Coffee Ranker promise, without tokens, rows, *)
(* locks or statements.  A session family is opened by one login, is       *)
(* continued by rotations while it is open, and once closed (logout,       *)
(* logout on all devices, reuse of a spent token, expiry and cleanup) it   *)
(* is closed for good: no refresh may ever continue it.                    *)
(***************************************************************************)
EXTENDS Naturals

CONSTANT Family     \* the values of refresh_tokens.family_id

VARIABLES
  session,          \* session[f]: "none" before the login, "open", "closed"
  generation        \* generation[f]: how many refresh tokens f was ever given

vars == <<session, generation>>

TypeOK ==
  /\ session \in [Family -> {"none", "open", "closed"}]
  /\ generation \in [Family -> Nat]

Init ==
  /\ session = [f \in Family |-> "none"]
  /\ generation = [f \in Family |-> 0]

(* A login opens a family nobody used before, with its first token. *)
Open(f) ==
  /\ session[f] = "none"
  /\ session' = [session EXCEPT ![f] = "open"]
  /\ generation' = [generation EXCEPT ![f] = 1]

(* A refresh spends the open family's one live token for the next one. *)
Rotate(f) ==
  /\ session[f] = "open"
  /\ generation' = [generation EXCEPT ![f] = @ + 1]
  /\ UNCHANGED session

(* A revocation (or the cleanup of expired rows) closes open families; the *)
(* cleanup of rows already dead closes none.                               *)
Close(S) ==
  /\ session' = [f \in Family |-> IF f \in S THEN "closed" ELSE session[f]]
  /\ UNCHANGED generation

Next ==
  \/ \E S \in SUBSET {f \in Family : session[f] = "open"} : Close(S)
  \/ \E f \in Family : Open(f) \/ Rotate(f)

Spec == Init /\ [][Next]_vars
==============================================================================
