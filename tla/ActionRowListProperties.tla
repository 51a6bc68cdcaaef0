----------------------- MODULE ActionRowListProperties ----------------------
(***************************************************************************)
(* What the page promises to its user.                                     *)
(***************************************************************************)
EXTENDS ActionRowList

AtRest == page.requests = {} /\ ~rows.timer /\ ~dialog.open

\* isFetching is shared by the two fetches and by every creation: the spinner
\* turns only while one of them is under way.
SpinnerMeansWaiting ==
    page.spinner => \/ page.keys \/ page.riScs
                    \/ \E c \in page.requests : c.kind = "create"

\* A title or scope that was edited is a draft for the backend, while the page goes
\* on to say Published, which keeps it from being sent for approval.
ShowsPublished(shown, stored) ==
    /\ shown.status = "Published" /\ stored.status = "Draft"
    /\ \A i \in Actions : stored.content[i] = 0

\* Callbacks replace the list by the one they closed over, with a status the page
\* works out for itself.  As long as one request is under way at a time and none
\* failed, the list is still what the backend stores once all is answered, and
\* what is shown is in the list.  The page is wrong of a status only after edits
\* that need no approval of a published RiSc (RiScContext.tsx:589), and where it
\* shows a deletion as a draft although its pull request is open.
OrderlyPageIsCurrent ==
    orderly /\ page.fetched /\ AtRest =>
        /\ DOMAIN page.list = {id \in RiSc : Exists(server[id])}
        /\ \A id \in DOMAIN page.list :
              LET shown == page.list[id]
                  stored == server[id]
              IN  /\ Marked(shown.status) <=> Marked(stored.status)
                  /\ ~Marked(shown.status) =>
                        /\ shown.content = stored.content
                        /\ shown.status = stored.status \/ ShowsPublished(shown, stored)
        /\ page.selected.id # None =>
              page.list[page.selected.id] = VersionOf(page.selected)

Kept(id, i) ==
    Exists(server[id]) /\ ~Marked(server[id].status) =>
        server[id].content[i] = chosen[id][i]

\* Neither the timer, nor unmounting the rows, nor a form loses an edit as long
\* as one request is under way at a time and no error is shown.
OrderlyEditsAreKept ==
    orderly /\ AtRest => \A id \in RiSc, i \in Item : Kept(id, i)

\* A status never stays pending: it is saved or dropped in the end.
PendingIsSettled == \A i \in Item : rows.pending[i] # 0 ~> rows.pending[i] = 0

\* ActionRowList.tsx: "flush on unmount. makes sure changes are saved".  An edit
\* is lost only with an error, whatever else the page is doing.
ChangesAreSaved ==
    ~failed /\ AtRest => \A id \in RiSc, i \in Item : Kept(id, i)

\* RiScContext.tsx: "Set selected RiSc, system RiSc or locked RiSc based on URL".
SelectionFollowsUrl ==
    ~failed /\ AtRest /\ page.selected.id # None => page.selected.id = page.url
=============================================================================
