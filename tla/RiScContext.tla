----------------------------- MODULE RiScContext ----------------------------
(***************************************************************************)
(* The state of the page that shows the risk scorecards of a repository    *)
(* (contexts/RiScContext.tsx), and the backend as the page knows it.       *)
(*                                                                         *)
(* The state of the page is one record, and each handler and callback is a *)
(* function on it.  A handler closes over the page as it was rendered last *)
(* before it was called, and so do the callbacks of the request it sends:  *)
(* what they keep of it is in the request.                                 *)
(***************************************************************************)
EXTENDS Naturals, FiniteSets

CONSTANTS
    RiSc,      \* ids of risk scorecards
    Item,      \* what can be edited in one: its actions,
    Info,      \* and its title and scope
    MaxEdits   \* bound: edits

None == "None"  \* no RiSc id: in the URL, or selected

ASSUME PageAssumption == None \notin RiSc /\ Info \in Item /\ MaxEdits \in Nat

Actions == Item \ {Info}

\* The value of an item is the number of the edit it was last set by.
Content == [Item -> 0..MaxEdits]

Blank == [i \in Item |-> 0]

Statuses == {"Draft", "SentForApproval", "Published", "DeletionDraft",
             "DeletionSentForApproval"}

Version == [content : Content, status : Statuses]

Lists == UNION {[ids -> Version] : ids \in SUBSET RiSc}

Selections == [id : RiSc \cup {None}, content : Content, status : Statuses]

NoRiSc == [id |-> None, content |-> Blank, status |-> "Draft"]

VersionOf(sel) == [content |-> sel.content, status |-> sel.status]

Selected(id, version) ==
    [id |-> id, content |-> version.content, status |-> version.status]

Marked(status) == status \in {"DeletionDraft", "DeletionSentForApproval"}

\* list, old   riScs and selectedRiSc in the closures of the callbacks
\* new         the RiSc as it is saved (updatedRiSc)
\* batch       pending statuses that are saved with it
Requests == [no : Nat, kind : {"update", "delete", "approve", "create"},
             list : Lists, old : Selections, new : Selections,
             batch : SUBSET Item,
             answer : {"none", "ok", "deleted", "error"}]

\* fetched  riScs is not null
\* url      the id in the URL
\* keys     isFetchingGcpCryptoKeys; riScs: isFetchingRiScs; spinner: isFetching
Pages == [fetched : BOOLEAN, list : Lists, selected : Selections,
          url : RiSc \cup {None}, keys : BOOLEAN, riScs : BOOLEAN,
          spinner : BOOLEAN, status : {"idle", "loading", "success", "error"},
          requests : SUBSET Requests]

\* What the backend stores; Unborn and Gone RiScs are not there.
Stored == [content : Content, status : Statuses \cup {"Unborn", "Gone"},
           published : BOOLEAN]

Exists(stored) == stored.status \in Statuses

-----------------------------------------------------------------------------
(* Requests that the page sends.                                           *)

\* The number only tells the requests under way apart.
Send(p, request) ==
    LET numbers == {c.no : c \in p.requests}
        free == CHOOSE n \in 0..Cardinality(numbers) : n \notin numbers
    IN  [p EXCEPT !.requests = @ \cup {[request EXCEPT !.no = free]},
                  !.status = "loading"]

Request(kind, closure, new, batch) ==
    [no |-> 0, kind |-> kind, list |-> closure.list, old |-> closure.selected,
     new |-> new, batch |-> batch, answer |-> "none"]

\* What the owner of the risk has approved are the scenarios with their actions.
RequiresNewApproval(old, new) == \E i \in Actions : old[i] # new[i]

\* updateRiSc: content is that of the RiSc it is called with, everything else
\* that of the selected RiSc.  The edit is shown before it is saved.  What the
\* owner need not approve again leaves the status as it is.
UpdateRiSc(p, closure, content, batch) ==
    LET sel == closure.selected
        updated == [sel EXCEPT !.content = content,
                       !.status = IF RequiresNewApproval(sel.content, content)
                                  THEN "Draft" ELSE @]
    IN  IF Marked(sel.status) THEN [p EXCEPT !.status = "error"]
        ELSE IF sel.id = None \/ ~closure.fetched THEN p
        ELSE [Send(p, Request("update", closure, updated, batch)) EXCEPT
                 !.selected = updated]

DeleteRiSc(p) ==
    Send(p, Request("delete", p, [p.selected EXCEPT !.status = "DeletionDraft"], {}))

ApproveRiSc(p) ==
    LET status == IF p.selected.status = "Draft" THEN "SentForApproval"
                                                 ELSE "DeletionSentForApproval"
    IN  Send(p, Request("approve", p, [p.selected EXCEPT !.status = status], {}))

\* The id is drawn by the backend.
CreateNewRiSc(p, id) ==
    [Send(p, Request("create", p, Selected(id, VersionOf(NoRiSc)), {})) EXCEPT
        !.selected = NoRiSc, !.spinner = TRUE]

-----------------------------------------------------------------------------
(* Answers.                                                                *)

Listed(list, sel) ==
    [id \in DOMAIN list |-> IF id = sel.id THEN VersionOf(sel) ELSE list[id]]

Extended(list, sel) ==
    [id \in DOMAIN list \cup {sel.id} |->
        IF id = sel.id THEN VersionOf(sel) ELSE list[id]]

Without(list, id) == [other \in DOMAIN list \ {id} |-> list[other]]

Answered(p, c, status) ==
    [p EXCEPT !.requests = @ \ {c}, !.status = status]

\* Mutant of OnSaved: the list is not brought up to date.
FaultyOnSaved(p, c) ==
    [Answered(p, c, "success") EXCEPT !.selected = c.new]

\* onSuccess of updateRiSc, of approveRiSc, and of deleteRiSc if the deletion
\* has to be approved.
OnSaved(p, c) ==
    [Answered(p, c, "success") EXCEPT
        !.selected = c.new, !.list = Listed(c.list, c.new)]

\* onSuccess of createNewRiSc.
OnCreated(p, c) ==
    [Answered(p, c, "success") EXCEPT
        !.list = Extended(c.list, c.new), !.spinner = FALSE, !.url = c.new.id]

\* onSuccess of deleteRiSc, and of RiScDialog, which selects the first RiSc it
\* knows: the one that was deleted may be that.
OnDeleted(p, c, first, other) ==
    [Answered(p, c, "success") EXCEPT
        !.selected = IF other = None THEN NoRiSc ELSE Selected(other, c.list[other]),
        !.list = Without(c.list, c.old.id),
        !.url = first]

\* Mutant of OnError: the spinner of a creation goes on.
FaultyOnError(p, c) ==
    [Answered(p, c, "error") EXCEPT
        !.selected = IF c.kind = "approve" THEN @ ELSE c.old]

\* onError of all of them: only approveRiSc leaves the selection alone.
OnError(p, c) ==
    [Answered(p, c, "error") EXCEPT
        !.selected = IF c.kind = "approve" THEN @ ELSE c.old,
        !.spinner = IF c.kind = "create" THEN FALSE ELSE @]

\* The effect that sets the selected RiSc when the list or the URL has changed.
SelectByUrl(p) ==
    IF p.url \in DOMAIN p.list THEN [p EXCEPT !.selected = Selected(p.url, p.list[p.url])]
                               ELSE p

-----------------------------------------------------------------------------
(* The two fetches when the page is opened.                                *)

Fetched(server) ==
    [id \in {r \in RiSc : Exists(server[r])} |->
        [content |-> server[id].content, status |-> server[id].status]]

\* Navigates to the first RiSc unless the URL names one that was fetched.
OnFetched(p, list, first) ==
    [p EXCEPT !.fetched = TRUE, !.list = list, !.riScs = FALSE,
              !.spinner = @ /\ p.keys,
              !.url = IF @ \in DOMAIN list \/ first = None THEN @ ELSE first]

OnFetchError(p) ==
    [p EXCEPT !.riScs = FALSE, !.spinner = @ /\ p.keys]

\* Mutant of OnKeys: ends the spinner only if the RiScs are still fetched.
FaultyOnKeys(p) == [p EXCEPT !.keys = FALSE, !.spinner = @ /\ ~p.riScs]

\* Both callbacks of fetchGcpCryptoKeys.
OnKeys(p) == [p EXCEPT !.keys = FALSE, !.spinner = @ /\ p.riScs]

-----------------------------------------------------------------------------
(* What the backend does with a request, as far as the page can tell.      *)

\* On the branch of an open pull request, which is closed if the page says that
\* the update has to be approved.
ServeUpdate(stored, content, requires) ==
    [stored EXCEPT !.content = content,
                   !.status = IF @ = "SentForApproval" /\ ~requires THEN @ ELSE "Draft"]

ServeDelete(stored) ==
    [stored EXCEPT !.status =
        IF ~stored.published THEN "Gone"
        ELSE IF @ = "SentForApproval" THEN "DeletionSentForApproval"
             ELSE "DeletionDraft"]

ServeApprove(stored) ==
    [stored EXCEPT !.status =
        IF Marked(@) THEN "DeletionSentForApproval" ELSE "SentForApproval"]

\* A second deletion fails, and so does a second approval.
Breaks(c, stored) ==
    \/ c.kind = "delete" /\ (Marked(stored.status) \/ ~Exists(stored))
    \/ c.kind = "approve" /\ stored.status \in {"SentForApproval", "DeletionSentForApproval"}

\* To update a RiSc that is staged for deletion and to approve one without a
\* draft are denied, but the denial is answered with HTTP status 200.
Denied(c, stored) ==
    \/ c.kind = "update" /\ Marked(stored.status)
    \/ c.kind = "approve" /\ stored.status \in {"Published", "Unborn", "Gone"}

Served(c, stored) ==
    CASE Denied(c, stored) -> stored
      [] c.kind = "delete" -> ServeDelete(stored)
      [] c.kind = "approve" /\ ~Denied(c, stored) -> ServeApprove(stored)
      [] OTHER -> ServeUpdate(stored, c.new.content,
                              RequiresNewApproval(c.old.content, c.new.content))

\* Mutant of AnswerOf: whatever was never published is answered with "deleted".
FaultyAnswerOf(c, stored) == IF ~stored.published THEN "deleted" ELSE "ok"

AnswerOf(c, stored) ==
    IF c.kind = "delete" /\ ~stored.published THEN "deleted" ELSE "ok"
=============================================================================
