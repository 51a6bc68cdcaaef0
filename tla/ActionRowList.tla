---------------------------- MODULE ActionRowList ---------------------------
(***************************************************************************)
(* A page in which actions get new statuses (components/action/            *)
(* ActionRowList.tsx): they are pending until a debounce timer fires or    *)
(* the rows are unmounted, and then saved together through the context of  *)
(* the page; dialogs and forms save through it too.                        *)
(*                                                                         *)
(* A handler or callback, and the rendering and the effects it causes, are *)
(* one step: React batches the updates of a callback and runs the effects  *)
(* of a rendering before the next one.  The rows are those of one scenario *)
(* of the RiSc that is shown.                                              *)
(***************************************************************************)
EXTENDS RiScContext

CONSTANTS
    MaxUnderWay,  \* bounds: requests under way after which the user waits,
    MaxFaults,    \*         requests that fail or whose answer is lost,
    MaxMoves,     \*         times the user opens another RiSc or the rows,
    MaxEvents,    \*         edits, faults and moves together,
    MaxEarly      \*         and those before the keys are fetched

ASSUME BoundAssumption == {MaxUnderWay, MaxFaults, MaxMoves, MaxEvents, MaxEarly} \subseteq Nat

VARIABLES
    server,   \* what the backend stores of each RiSc
    page,     \* the state of RiScContext
    rows,     \* the state of the rows
    dialog,   \* the content an open dialog was filled with
    chosen,   \* history: the last edit the user made of each item of a RiSc
    orderly,  \* history: was there one thing under way at a time?
    failed,   \* history: has the page ever shown an error?
    used      \* how much of each bound is used

vars == <<server, page, rows, dialog, chosen, orderly, failed, used>>

\* pending  pendingActionStatusUpdates of the scenario, 0 for an action without
\* timer    the debounce timer is running
Rows == [open : BOOLEAN, pending : Content, timer : BOOLEAN]

\* Requests that the timer and unmounting send come on top of the user's.
Slots == 0..MaxUnderWay + 2 * MaxEdits

NoDialog == [open |-> FALSE, content |-> Blank]

TypeOK ==
    /\ server \in [RiSc -> Stored]
    /\ page \in Pages
    /\ \A c \in page.requests : /\ c.no \in Slots
                                /\ c.answer = "deleted" => c.kind = "delete"
    /\ rows \in Rows
    /\ dialog \in [open : BOOLEAN, content : Content]
    /\ chosen \in [RiSc -> Content]
    /\ orderly \in BOOLEAN /\ failed \in BOOLEAN
    /\ used \in [edits : 0..MaxEdits, faults : 0..MaxFaults, moves : 0..MaxMoves]

Closed == [open |-> FALSE, pending |-> Blank, timer |-> FALSE]

\* The page is opened, with or without a RiSc in its URL.
Init ==
    /\ server \in [RiSc -> {s \in Stored :
                      /\ s.content = Blank /\ s.status # "Gone"
                      /\ s.published => s.status # "Unborn"
                      /\ s.status \notin {"Draft", "SentForApproval", "Unborn"} => s.published}]
    /\ page \in [fetched : {FALSE}, list : {<<>>}, selected : {NoRiSc},
                 url : RiSc \cup {None}, keys : {TRUE}, riScs : {TRUE},
                 spinner : {TRUE}, status : {"idle"}, requests : {{}}]
    /\ rows = Closed /\ dialog = NoDialog
    /\ chosen = [id \in RiSc |-> Blank]
    /\ orderly = TRUE /\ failed = FALSE
    /\ used = [edits |-> 0, faults |-> 0, moves |-> 0]

-----------------------------------------------------------------------------
(* Rendering.                                                              *)

HasPending(r) == r.pending # Blank

Overlay(content, pending) ==
    [i \in Item |-> IF pending[i] = 0 THEN content[i] ELSE pending[i]]

PendingItems(r) == {i \in Item : r.pending[i] # 0}

\* debounceCallback
SavePending(p, closure, r, batch) ==
    IF HasPending(r)
    THEN UpdateRiSc(p, closure, Overlay(closure.selected.content, r.pending), batch)
    ELSE p

\* Mutant of Flush: unmounting only stops the timer.
FaultyFlush(p, closure, r) == p

\* The rows are unmounted: what is pending is saved with the closures of their
\* last rendering, and nobody waits for the answer.
Flush(p, closure, r) == SavePending(p, closure, r, {})

\* What becomes of the page when a handler has made p of it: the rows go when
\* another RiSc is selected, at once or by the effect that follows the URL.
Rendered(p, setsList) ==
    LET goAtOnce == rows.open /\ p.selected.id # page.selected.id
        flushed == IF goAtOnce THEN Flush(p, page, rows) ELSE p
        settled == IF setsList \/ p.url # page.url THEN SelectByUrl(flushed) ELSE flushed
        goThen == rows.open /\ ~goAtOnce /\ settled.selected.id # page.selected.id
    IN  [page |-> IF goThen THEN Flush(settled, p, rows) ELSE settled,
         gone |-> goAtOnce \/ goThen]

\* Rows that are gone wait for no answer.
Detached(p) ==
    [p EXCEPT !.requests = {[c EXCEPT !.batch = {}] : c \in @}]

Show(p, setsList, r) ==
    LET rendered == Rendered(p, setsList)
    IN  /\ page' = IF rendered.gone THEN Detached(rendered.page) ELSE rendered.page
        /\ rows' = IF rendered.gone THEN Closed ELSE r

Edit == used.edits + 1

\* One thing at a time: no second request, and none that is sent or answered
\* while a dialog is open.  After an error nothing is kept any more.
KeepHistory(inTurn, edited) ==
    /\ failed' = (failed \/ page'.status = "error")
    /\ orderly' = /\ orderly /\ inTurn /\ ~failed'
                  /\ Cardinality(page'.requests) <= 1
                  /\ dialog'.open => page'.requests = {}
    /\ chosen' = IF failed' THEN [id \in RiSc |-> Blank]
                 ELSE [id \in RiSc |-> [i \in Item |->
                          IF id = page.selected.id /\ i \in edited THEN Edit
                                                                 ELSE chosen[id][i]]]

\* Edits, faults or moves count one more.
Count(what, most) ==
    /\ used[what] < most
    /\ used.edits + used.faults + used.moves <
          (IF page.keys THEN MaxEarly ELSE MaxEvents)
    /\ used' = [used EXCEPT ![what] = @ + 1]

Quiet == page.requests = {}

-----------------------------------------------------------------------------
(* What the user does.                                                     *)

Edits == page.selected.id # None /\ Count("edits", MaxEdits)

Submits == Cardinality(page.requests) < MaxUnderWay

\* Each change of a pending status restarts the timer.
OnNewActionStatus(i) ==
    /\ rows.open /\ ~Marked(page.selected.status)
    /\ Edits
    /\ rows' = [rows EXCEPT !.pending[i] = Edit, !.timer = TRUE]
    /\ UNCHANGED <<server, page, dialog>>
    /\ KeepHistory(Quiet, {i})

\* The form of one action; the other actions are saved as they are shown.  It
\* cannot be submitted while a request is under way.
SaveAction(i) ==
    /\ page.status # "loading" /\ ~dialog.open
    /\ ~Marked(page.selected.status)
    /\ Submits /\ Edits
    /\ Show(UpdateRiSc(page, page, [page.selected.content EXCEPT ![i] = Edit], {}),
            FALSE, rows)
    /\ UNCHANGED <<server, dialog>>
    /\ KeepHistory(Quiet /\ rows.pending[i] = 0, {i})

\* RiScDialog is filled when it is opened.
OpenDialog ==
    /\ ~dialog.open /\ page.selected.id # None
    /\ dialog' = [open |-> TRUE, content |-> page.selected.content]
    /\ UNCHANGED <<server, page, rows, used>>
    /\ KeepHistory(Quiet, {})

SubmitDialog ==
    /\ dialog.open /\ ~Marked(page.selected.status)
    /\ Submits /\ Edits
    /\ dialog' = NoDialog
    /\ Show(UpdateRiSc(page, page, [dialog.content EXCEPT ![Info] = Edit], {}),
            FALSE, rows)
    /\ UNCHANGED server
    /\ KeepHistory(Quiet, {Info})

SubmitDeletion ==
    /\ ~dialog.open /\ page.fetched /\ page.selected.id # None
    /\ Show(DeleteRiSc(page), FALSE, rows)
    /\ Submits /\ UNCHANGED <<server, dialog, used>>
    /\ KeepHistory(Quiet, {})

HandleApproveAndPublish ==
    /\ ~dialog.open /\ page.fetched /\ page.selected.id # None
    /\ page.selected.status \in {"Draft", "DeletionDraft"}
    /\ Show(ApproveRiSc(page), FALSE, rows)
    /\ Submits /\ UNCHANGED <<server, dialog, used>>
    /\ KeepHistory(Quiet, {})

SubmitCreation(id) ==
    /\ ~dialog.open
    /\ page.selected.id # None \/ (page.fetched /\ ~page.spinner)
    /\ server[id].status = "Unborn"
    /\ \A c \in page.requests : c.kind = "create" => c.new.id # id
    /\ Show(CreateNewRiSc(page, id), FALSE, rows)
    /\ Submits /\ UNCHANGED <<server, dialog, used>>
    /\ KeepHistory(Quiet, {})

Move == Count("moves", MaxMoves) /\ UNCHANGED <<server, dialog>>

SelectRiSc(id) ==
    /\ ~dialog.open /\ id \in DOMAIN page.list \ {page.url}
    /\ Show([page EXCEPT !.url = id], FALSE, rows)
    /\ Move /\ KeepHistory(Quiet, {})

OpenRows ==
    /\ ~rows.open /\ page.selected.id # None
    /\ rows' = [Closed EXCEPT !.open = TRUE]
    /\ UNCHANGED page
    /\ Move /\ KeepHistory(TRUE, {})

CloseRows ==
    /\ rows.open
    /\ page' = Detached(Flush(page, page, rows))
    /\ rows' = Closed
    /\ UNCHANGED <<server, dialog, used>>
    /\ KeepHistory(Quiet, {})

-----------------------------------------------------------------------------
(* Timers, the backend and its answers.                                    *)

\* The timer of useDebounce.  If the RiSc is staged for deletion, the update is
\* refused at once and its onError drops what is pending.
DebounceTimer ==
    /\ rows.open /\ rows.timer
    /\ page' = SavePending(page, page, rows, PendingItems(rows))
    /\ LET refused == HasPending(rows) /\ Marked(page.selected.status)
       IN  rows' = [rows EXCEPT !.timer = refused,
                                !.pending = IF refused THEN Blank ELSE @]
    /\ UNCHANGED <<server, dialog, used>>
    /\ KeepHistory(TRUE, {})

Unchanged == UNCHANGED <<rows, dialog>>

Answer(c, answer) ==
    page' = [page EXCEPT !.requests = (@ \ {c}) \cup {[c EXCEPT !.answer = answer]}]

Serve(c) ==
    /\ c.answer = "none"
    /\ LET stored == server[c.new.id]
       IN  IF Breaks(c, stored)
           THEN Answer(c, "error") /\ UNCHANGED server
           ELSE /\ Answer(c, AnswerOf(c, stored))
                /\ server' = [server EXCEPT ![c.new.id] = Served(c, stored)]
    /\ Unchanged /\ UNCHANGED used
    /\ KeepHistory(TRUE, {})

\* A request fails, before or after it took effect.
Fail(c) ==
    /\ c.answer # "error"
    /\ Count("faults", MaxFaults)
    /\ Answer(c, "error")
    /\ Unchanged /\ UNCHANGED server
    /\ KeepHistory(TRUE, {})

\* Mutant of Confirmed: what was saved stays pending.
FaultyConfirmed(c) == rows

\* onSuccess of a batch: what was saved is no longer pending.
Confirmed(c) ==
    IF c.batch = {} THEN rows
    ELSE [rows EXCEPT !.pending = [i \in Item |-> IF i \in c.batch THEN 0 ELSE @[i]],
                      !.timer = TRUE]

Dropped(c) ==
    IF c.batch = {} THEN rows ELSE [rows EXCEPT !.pending = Blank, !.timer = TRUE]

Receive(c) ==
    /\ \/ /\ c.answer = "error"
          /\ Show(OnError(page, c), FALSE, Dropped(c))
       \/ /\ c.answer = "ok" /\ c.kind = "create"
          /\ Show(OnCreated(page, c), TRUE, rows)
       \/ /\ c.answer = "ok" /\ c.kind # "create"
          /\ Show(OnSaved(page, c), TRUE, Confirmed(c))
       \/ /\ c.answer = "deleted"
          /\ \E first \in DOMAIN c.list,
                other \in (DOMAIN c.list \ {c.old.id}) \cup {None} :
                /\ other = None => DOMAIN c.list = {c.old.id}
                /\ first # c.old.id => other = first
                /\ Show(OnDeleted(page, c, first, other), TRUE, rows)
    /\ UNCHANGED <<server, dialog, used>>
    /\ KeepHistory(TRUE, {})

FetchRiScs ==
    /\ page.riScs
    /\ LET list == Fetched(server)
       IN  \E first \in DOMAIN list \cup {None} :
              /\ first = None <=> DOMAIN list = {}
              /\ Show(OnFetched(page, list, first), TRUE, rows)
    /\ UNCHANGED <<server, dialog, used>>
    /\ KeepHistory(TRUE, {})

FailToFetchRiScs ==
    /\ page.riScs
    /\ page' = OnFetchError(page)
    /\ UNCHANGED server /\ Unchanged /\ UNCHANGED used
    /\ KeepHistory(TRUE, {})

FetchGcpCryptoKeys ==
    /\ page.keys
    /\ page' = OnKeys(page)
    /\ UNCHANGED server /\ Unchanged /\ UNCHANGED used
    /\ KeepHistory(TRUE, {})

-----------------------------------------------------------------------------

User ==
    \/ \E i \in Actions : OnNewActionStatus(i) \/ SaveAction(i)
    \/ OpenDialog \/ SubmitDialog \/ SubmitDeletion \/ HandleApproveAndPublish
    \/ \E id \in RiSc : SubmitCreation(id) \/ SelectRiSc(id)
    \/ OpenRows \/ CloseRows

Backend(slot) == \E c \in page.requests : c.no = slot /\ (Serve(c) \/ Receive(c))

Fetch == FetchRiScs \/ FetchGcpCryptoKeys

Next ==
    \/ User
    \/ DebounceTimer \/ (\E slot \in Slots : Backend(slot)) \/ Fetch
    \/ FailToFetchRiScs \/ \E c \in page.requests : Fail(c)

\* The browser fires its timers, and every request is served and answered.
Fairness == WF_vars(DebounceTimer) /\ \A slot \in Slots : WF_vars(Backend(slot))

Spec == Init /\ [][Next]_vars

FairSpec == Spec /\ Fairness
=============================================================================
