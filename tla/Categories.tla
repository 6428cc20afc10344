---------------------------- MODULE Categories -----------------------------
(***************************************************************************)
(* The categories of the settings page: components/settings/               *)
(* CategoriesSection.tsx, the query and the mutations of                   *)
(* hooks/useCategories.ts and the rows of category_service.                *)
(*                                                                         *)
(* A name stands for name and color, which the row treats alike.  The      *)
(* rows are those of the account that is signed in.  (Refetches of the     *)
(* task lists: TaskCache.)                                                 *)
(***************************************************************************)
EXTENDS Site

CONSTANTS Ids, Names, Served

VARIABLES
  catName,              \* categories: the name, NULL where there is no row
  catIds,               \* history: the ids ever given
  listed,               \* data of useCategories, or NULL while there is none
  listing,              \* its request: NULL, Served (not served yet), or the answer
  editing, draft,       \* isEditing and name of each CategoryRow
  isAdding, newName,    \* NewCategoryRow
  update, deletion,     \* the mutations in flight, one for each id (bound)
  creation,
  touched,              \* history: rows typed in since they were opened for editing
  loose                 \* history: rows whose draft was not the server's name when it was taken

catRows  == <<editing, draft, isAdding, newName, touched, loose>>
catQuery == <<listed, listing>>
catCalls == <<update, deletion, creation>>
catVars  == <<catName, catIds, catRows, catQuery, catCalls>>

Listing  == [Ids -> Names \cup {NULL}]
Mutation == [name : Names, status : {"sent", "ok", "failed"}, screen : Nat, untouched : BOOLEAN]

ASSUME CategoryConstants ==
  /\ NULL \notin Names /\ Served \notin Names \cup {NULL}
  /\ NULL \notin Mutation

CategoriesTypeOK ==
  /\ catName \in Listing
  /\ {c \in Ids : catName[c] # NULL} \subseteq catIds /\ catIds \subseteq Ids
  /\ listed = NULL \/ listed \in Listing
  /\ listing \in {NULL, Served} \/ listing \in Listing
  /\ editing \subseteq Ids /\ draft \in [Ids -> Names \cup {NULL}]
  /\ isAdding \in BOOLEAN /\ newName \in Names \cup {NULL}
  /\ update \in [Ids -> Mutation \cup {NULL}] /\ deletion \in [Ids -> Mutation \cup {NULL}]
  /\ creation \in Mutation \cup {NULL}

Row(c) == OnSettings /\ listed # NULL /\ listed[c] # NULL

\* useState(category.name) of the rows in cs, and category.name of a Cancel.
Draft(cs, list) == draft' = [c \in Ids |-> IF c \in cs THEN list[c] ELSE draft[c]]

\* The name a row takes is behind, or an update of it is under way.
Loosened(cs, list) ==
  loose' = (loose \ cs) \cup {c \in cs : list[c] # catName[c] \/ update[c] # NULL}

\* The section is mounted with its screen: rows from the cache, which is fetched.
SectionRendered ==
  IF screen' = screen THEN UNCHANGED <<catRows, catQuery>>
  ELSE LET rows == IF listed = NULL THEN {} ELSE {c \in Ids : listed[c] # NULL} IN
       /\ Draft(rows, listed) /\ Loosened(rows, listed)
       /\ editing' = {} /\ touched' = {} /\ isAdding' = FALSE /\ newName' = NULL
       /\ listing' = IF OnSettings' /\ listing = NULL THEN Served ELSE listing
       /\ UNCHANGED listed

-----------------------------------------------------------------------------
ServeListing ==
  /\ listing = Served /\ listing' = catName
  /\ UNCHANGED <<siteVars, catName, catIds, catRows, listed, catCalls>>

\* Rows are keyed by id: those that are new take their draft from it.
ReceiveListing ==
  /\ listing \notin {NULL, Served}
  /\ listed' = listing /\ listing' = NULL
  /\ LET new == {c \in Ids : listed'[c] # NULL /\ (listed = NULL \/ listed[c] = NULL)}
     IN Draft(new, listed') /\ Loosened(new, listed')
  /\ editing' = {c \in editing : listed'[c] # NULL}
  /\ UNCHANGED <<siteVars, catName, catIds, isAdding, newName, touched, catCalls>>

\* invalidateQueries, as the section is on the screen or not; the first fetch of
\* a query is not sent again.
InvalidateListing ==
  /\ listing' = IF OnSettings /\ (listing = NULL \/ listed # NULL) THEN Served ELSE listing
  /\ UNCHANGED listed

-----------------------------------------------------------------------------
(***************************************************************************)
(* CategoryRow.                                                            *)
(***************************************************************************)
Edit(c) ==
  /\ Act("categories") /\ Row(c) /\ c \notin editing
  /\ editing' = editing \cup {c} /\ touched' = touched \ {c}
  /\ UNCHANGED <<session, screen, calls, catName, catIds, draft, isAdding, newName, loose, catQuery, catCalls>>

TypeName(c, n) ==
  /\ Act("categories") /\ Row(c) /\ c \in editing /\ n # draft[c]
  /\ draft' = [draft EXCEPT ![c] = n] /\ touched' = touched \cup {c}
  /\ loose' = IF update[c] # NULL THEN loose \cup {c} ELSE loose
  /\ UNCHANGED <<session, screen, calls, catName, catIds, editing, isAdding, newName, catQuery, catCalls>>

Mutating(n, untouched) ==
  [name |-> n, status |-> "sent", screen |-> screen, untouched |-> untouched]

\* handleSave.
Save(c) ==
  /\ Act("categories") /\ Row(c) /\ c \in editing /\ update[c] = NULL
  /\ update' = [update EXCEPT ![c] = Mutating(draft[c], c \notin touched \cup loose)]
  /\ loose' = IF c \in touched THEN loose \ {c} ELSE loose
  /\ UNCHANGED <<session, screen, calls, catName, catIds, editing, draft, isAdding, newName, touched,
                 catQuery, deletion, creation>>

\* Mutant: the row is closed as it is.
CancelKeeps(c) ==
  /\ Act("categories") /\ Row(c) /\ c \in editing
  /\ editing' = editing \ {c}
  /\ UNCHANGED draft /\ Loosened({c}, listed)
  /\ UNCHANGED <<session, screen, calls, catName, catIds, isAdding, newName, touched, catQuery, catCalls>>

\* handleCancel.
Cancel(c) ==
  /\ Act("categories") /\ Row(c) /\ c \in editing
  /\ editing' = editing \ {c}
  /\ Draft({c}, listed) /\ Loosened({c}, listed)
  /\ UNCHANGED <<session, screen, calls, catName, catIds, isAdding, newName, touched, catQuery, catCalls>>

\* handleDelete.
Delete(c) ==
  /\ Act("categories") /\ Row(c) /\ c \notin editing /\ deletion[c] = NULL
  /\ deletion' = [deletion EXCEPT ![c] = Mutating(listed[c], FALSE)]
  /\ UNCHANGED <<session, screen, calls, catName, catIds, catRows, catQuery, update, creation>>

-----------------------------------------------------------------------------
(***************************************************************************)
(* NewCategoryRow.                                                         *)
(***************************************************************************)
\* Its cancel button leaves what was typed.
ToggleAdding ==
  /\ Act("categories") /\ OnSettings
  /\ isAdding' = ~isAdding
  /\ UNCHANGED <<session, screen, calls, catName, catIds, editing, draft, newName, touched, loose,
                 catQuery, catCalls>>

TypeNew(n) ==
  /\ Act("categories") /\ OnSettings /\ isAdding /\ n # newName
  /\ newName' = n
  /\ UNCHANGED <<session, screen, calls, catName, catIds, editing, draft, isAdding, touched, loose,
                 catQuery, catCalls>>

\* handleCreate.
Create ==
  /\ Act("categories") /\ OnSettings /\ isAdding /\ newName # NULL /\ creation = NULL
  /\ creation' = Mutating(newName, FALSE)
  /\ UNCHANGED <<session, screen, calls, catName, catIds, catRows, catQuery, update, deletion>>

-----------------------------------------------------------------------------
(***************************************************************************)
(* category_service, and the answers.                                      *)
(***************************************************************************)
\* Served; the answer may be lost.  A row that is gone is an error.
Answered(found, outcome) ==
  \/ UNCHANGED plan /\ outcome = (IF found THEN "ok" ELSE "failed")
  \/ found /\ Fault /\ outcome = "failed"

ServeUpdate(c) ==
  /\ update[c] # NULL /\ update[c].status = "sent"
  /\ catName' = [catName EXCEPT ![c] = IF @ = NULL THEN NULL ELSE update[c].name]
  /\ \E s \in {"ok", "failed"} :
       Answered(catName[c] # NULL, s) /\ update' = [update EXCEPT ![c].status = s]
  /\ UNCHANGED <<session, screen, calls, catIds, catRows, catQuery, deletion, creation>>

ServeDelete(c) ==
  /\ deletion[c] # NULL /\ deletion[c].status = "sent"
  /\ catName' = [catName EXCEPT ![c] = NULL]
  /\ \E s \in {"ok", "failed"} :
       Answered(catName[c] # NULL, s) /\ deletion' = [deletion EXCEPT ![c].status = s]
  /\ UNCHANGED <<session, screen, calls, catIds, catRows, catQuery, update, creation>>

ServeCreation ==
  /\ creation # NULL /\ creation.status = "sent"
  /\ \E c \in Ids \ catIds :
       /\ catName' = [catName EXCEPT ![c] = creation.name] /\ catIds' = catIds \cup {c}
  /\ \E s \in {"ok", "failed"} : Answered(TRUE, s) /\ creation' = [creation EXCEPT !.status = s]
  /\ UNCHANGED <<session, screen, calls, catRows, catQuery, update, deletion>>

\* An error is a toast, and the row stays open.
UpdateEnds(c) ==
  /\ update[c] # NULL /\ update[c].status # "sent"
  /\ update' = [update EXCEPT ![c] = NULL]
  /\ IF update[c].status = "ok"
       THEN /\ InvalidateListing
            /\ editing' = IF update[c].screen = screen THEN editing \ {c} ELSE editing
       ELSE UNCHANGED <<editing, catQuery>>
  /\ UNCHANGED <<siteVars, catName, catIds, draft, isAdding, newName, touched, loose, deletion, creation>>

DeleteEnds(c) ==
  /\ deletion[c] # NULL /\ deletion[c].status # "sent"
  /\ deletion' = [deletion EXCEPT ![c] = NULL]
  /\ IF deletion[c].status = "ok" THEN InvalidateListing ELSE UNCHANGED catQuery
  /\ UNCHANGED <<siteVars, catName, catIds, catRows, update, creation>>

CreationEnds ==
  /\ creation # NULL /\ creation.status # "sent"
  /\ creation' = NULL
  /\ IF creation.status = "ok" THEN InvalidateListing ELSE UNCHANGED catQuery
  /\ IF creation.status = "ok" /\ creation.screen = screen
       THEN isAdding' = FALSE /\ newName' = NULL ELSE UNCHANGED <<isAdding, newName>>
  /\ UNCHANGED <<siteVars, catName, catIds, editing, draft, touched, loose, update, deletion>>

-----------------------------------------------------------------------------
CategoriesInit ==
  /\ catName \in Listing /\ catIds = {c \in Ids : catName[c] # NULL}
  /\ listed = NULL /\ listing = NULL
  /\ editing = {} /\ draft = [c \in Ids |-> NULL] /\ isAdding = FALSE /\ newName = NULL
  /\ update = [c \in Ids |-> NULL] /\ deletion = [c \in Ids |-> NULL] /\ creation = NULL
  /\ touched = {} /\ loose = {}

CategoriesUser ==
  \/ ToggleAdding \/ Create
  \/ \E n \in Names : TypeNew(n)
  \/ \E c \in Ids : Edit(c) \/ Save(c) \/ Cancel(c) \/ Delete(c)
  \/ \E c \in Ids, n \in Names : TypeName(c, n)

CategoriesProceed ==
  \/ ServeListing \/ ReceiveListing \/ ServeCreation \/ CreationEnds
  \/ \E c \in Ids : ServeUpdate(c) \/ ServeDelete(c) \/ UpdateEnds(c) \/ DeleteEnds(c)

-----------------------------------------------------------------------------
(***************************************************************************)
(* Opening a category and saving it without typing changes nothing on the  *)
(* server: a draft never outlives a cancelled edit or a rename (the        *)
(* setName of handleCancel, the key of the row).  It may where the draft   *)
(* was taken while an update of the row was under way or the list was      *)
(* behind the server.                                                      *)
(***************************************************************************)
KeptBySave(c) ==
  update[c] # NULL /\ update[c].status = "sent" /\ update[c].untouched
    => catName'[c] \in {catName[c], NULL}

UntouchedSaveKeeps == [][\A c \in Ids : KeptBySave(c)]_<<siteVars, catVars>>
=============================================================================
