----------------------------- MODULE Publication ------------------------------
(***************************************************************************)
(* Publication of beans and articles: backend/usecase/admin_content.go     *)
(* over beans, articles and rank_targets, the seed that main.go runs       *)
(* before it serves, and the admin page's edit forms, which send back the  *)
(* is_published they were filled with.  Beans and articles have the same   *)
(* handlers, so a content is either.  Contents and rank targets are never  *)
(* deleted.                                                                *)
(*                                                                         *)
(* Publish and Unpublish are transactions that lock the content's row with *)
(* their first statement and hold it until they commit; what they do to    *)
(* the rank target in between nobody else sees or touches, so their other  *)
(* statements and the commit are one step.                                 *)
(*                                                                         *)
(* What every module has (Init, Next, TypeOK) is named for this one here:  *)
(* VisitorProofs extends it together with Recommendation.                  *)
(***************************************************************************)

CONSTANTS
  Content,
  NoContent,
  Seeded,       \* contents of buildSeedBeans and buildSeedArticles
  Request,      \* concurrent Publish and Unpublish requests
  Form,         \* edit forms open in admin pages
  OtherFlag     \* is_published values that clients other than the page send

ASSUME PublicationAssumption ==
  /\ NoContent \notin Content
  /\ Seeded \subseteq Content
  /\ OtherFlag \subseteq BOOLEAN

VARIABLES
  content,      \* content[c]: row of beans or articles, with is_published
  target,       \* target[c]: row of rank_targets for c, with is_active
  boot,         \* where main is: seeding contents, rank targets, or serving
  seeded,       \* contents the present phase of the seed has stored
  doing,        \* doing[r]: transaction of request r, holding its content's row
  form          \* form[f]: what an edit form was filled with

publicationVars == <<content, target, boot, seeded, doing, form>>

NoRequest == [op |-> "none", on |-> NoContent]
NoForm == [on |-> NoContent, published |-> FALSE]

PublicationTypeOK ==
  /\ content \in [Content -> {"absent", "draft", "published"}]
  /\ target \in [Content -> {"none", "inactive", "active"}]
  /\ boot \in {"contents", "targets", "up"}
  /\ seeded \subseteq Seeded
  /\ doing \in [Request -> [op: {"none", "publish", "unpublish"},
                            on: Content \cup {NoContent}]]
  /\ form \in [Form -> [on: Content \cup {NoContent}, published: BOOLEAN]]

PublicationInit ==
  /\ content = [c \in Content |-> "absent"]
  /\ target = [c \in Content |-> "none"]
  /\ boot = "contents"
  /\ seeded = {}
  /\ doing = [r \in Request |-> NoRequest]
  /\ form = [f \in Form |-> NoForm]

-----------------------------------------------------------------------------
(* Start-up: no transaction, and no request is served before it ends *)

(* upsertBean, upsertArticle: is_published is true again after every start. *)
SeedContent(c) ==
  /\ boot = "contents" /\ c \in Seeded \ seeded
  /\ content' = [content EXCEPT ![c] = "published"]
  /\ seeded' = seeded \cup {c}
  /\ UNCHANGED <<target, boot, doing, form>>

(* upsertRankTarget *)
SeedTarget(c) ==
  /\ boot = "targets" /\ c \in Seeded \ seeded
  /\ target' = [target EXCEPT ![c] = "active"]
  /\ seeded' = seeded \cup {c}
  /\ UNCHANGED <<content, boot, doing, form>>

(* seedBeans and seedArticles, then seedRankTargets, then the server.      *)
SeedPhaseOver ==
  /\ boot # "up" /\ seeded = Seeded
  /\ boot' = IF boot = "contents" THEN "targets" ELSE "up"
  /\ seeded' = {}
  /\ UNCHANGED <<content, target, doing, form>>

(* The server stops, or a statement of the seed fails (log.Fatal), and is  *)
(* started again: open transactions roll back, browsers keep their forms.  *)
Restart ==
  /\ boot' = "contents" /\ seeded' = {}
  /\ doing' = [r \in Request |-> NoRequest]
  /\ UNCHANGED <<content, target, form>>

-----------------------------------------------------------------------------
(* Editing *)

RowFree(c) == \A r \in Request : doing[r].on # c

(* Create: no rank target, whatever is_published says. *)
Create(c, flag) ==
  /\ boot = "up" /\ content[c] = "absent"
  /\ content' = [content EXCEPT ![c] = IF flag THEN "published" ELSE "draft"]
  /\ UNCHANGED <<target, boot, seeded, doing, form>>

(* The page fills a form from its list, another client as it likes. *)
OpenForm(f, c, flag) ==
  /\ boot = "up" /\ content[c] # "absent"
  /\ flag = (content[c] = "published") \/ flag \in OtherFlag
  /\ form' = [form EXCEPT ![f] = [on |-> c, published |-> flag]]
  /\ UNCHANGED <<content, target, boot, seeded, doing>>

(* Mutant: Save, which writes zero values as well. *)
SavedWhole(c, flag) == IF flag THEN "published" ELSE "draft"

(* Mutant: the column takes the request's value as it comes. *)
SavedRaw(c, flag) == IF flag THEN content[c] ELSE "FALSE"

(* Updates(struct) leaves zero values out: false never unpublishes. *)
Updated(c, flag) == IF flag THEN "published" ELSE content[c]

(* Update: one statement on the row; the rank target is not touched. *)
SubmitForm(f) ==
  /\ boot = "up" /\ form[f] # NoForm
  /\ LET c == form[f].on
     IN  /\ RowFree(c)
         /\ content' = [content EXCEPT ![c] = Updated(c, form[f].published)]
  /\ form' = [form EXCEPT ![f] = NoForm]
  /\ UNCHANGED <<target, boot, seeded, doing>>

-----------------------------------------------------------------------------
(* Publishing *)

End(r) == doing' = [doing EXCEPT ![r] = NoRequest]

(* UpdatePublished finds and locks the row; with no row the request fails. *)
UpdatePublished(r, op, c) ==
  /\ boot = "up" /\ doing[r] = NoRequest
  /\ content[c] # "absent" /\ RowFree(c)
  /\ doing' = [doing EXCEPT ![r] = [op |-> op, on |-> c]]
  /\ UNCHANGED <<content, target, boot, seeded, form>>

(* FindOrCreate, UpdateActive(true), commit. *)
Publish(r) ==
  /\ doing[r].op = "publish"
  /\ content' = [content EXCEPT ![doing[r].on] = "published"]
  /\ target' = [target EXCEPT ![doing[r].on] = "active"]
  /\ End(r)
  /\ UNCHANGED <<boot, seeded, form>>

(* Mutant: a rank target is deactivated and is_published left alone. *)
KeptPublished(c) == content

Unpublished(c) == [content EXCEPT ![c] = "draft"]

(* FindByContent finds the rank target, UpdateActive(false), commit. *)
Unpublish(r) ==
  /\ doing[r].op = "unpublish"
  /\ target[doing[r].on] # "none"
  /\ content' = Unpublished(doing[r].on)
  /\ target' = [target EXCEPT ![doing[r].on] = "inactive"]
  /\ End(r)
  /\ UNCHANGED <<boot, seeded, form>>

(* A statement fails and all is rolled back; so ends every Unpublish of a  *)
(* content that has no rank target.                                        *)
Rollback(r) ==
  /\ doing[r] # NoRequest
  /\ End(r)
  /\ UNCHANGED <<content, target, boot, seeded, form>>

-----------------------------------------------------------------------------

PublicationNext ==
  \/ \E c \in Content :
       \/ SeedContent(c) \/ SeedTarget(c)
       \/ \E flag \in {FALSE} \cup OtherFlag : Create(c, flag)
       \/ \E f \in Form, flag \in BOOLEAN : OpenForm(f, c, flag)
       \/ \E r \in Request, op \in {"publish", "unpublish"} : UpdatePublished(r, op, c)
  \/ SeedPhaseOver \/ Restart
  \/ \E f \in Form : SubmitForm(f)
  \/ \E r \in Request : Publish(r) \/ Unpublish(r) \/ Rollback(r)

PublicationSpec == PublicationInit /\ [][PublicationNext]_publicationVars

-----------------------------------------------------------------------------
(* Properties *)

(* Nothing is ranked, recommended or offered for saving that is not        *)
(* published, whatever transactions, stale forms, failures and restarts    *)
(* (a seed that dies half way) come together (Unpublish, Seed).            *)
RankedIsPublished ==
  \A c \in Content : target[c] = "active" => content[c] = "published"

(* A content's standing with the visitors. *)
StandingOf(c) ==
  IF content[c] = "absent" THEN "none"
  ELSE IF content[c] = "draft" THEN "hidden"
  ELSE IF target[c] = "active" THEN "ranked" ELSE "listed"

Visitors == INSTANCE Catalogue WITH standing <- [c \in Content |-> StandingOf(c)]

(* Visitors only ever see the steps of Catalogue: no publication and no    *)
(* unpublication is seen half done.                                        *)
ImplementsCatalogue == Visitors!Spec
==============================================================================
