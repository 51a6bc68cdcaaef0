------------------------- MODULE ActionRowListProofs ------------------------
(***************************************************************************)
(* For any number of RiScs, requests and edits: the spinner ends with what *)
(* it waits for, everything the page keeps and sends is of its type, and   *)
(* while one thing is under way at a time the page ends up showing what    *)
(* the backend stores, and the backend keeps what was edited.              *)
(***************************************************************************)
EXTENDS ActionRowListProperties, FiniteSetTheorems, TLAPS

PageFields == {"fetched", "list", "selected", "url", "keys", "riScs",
               "spinner", "status", "requests"}

\* A request keeps its kind, and a creation is not answered with "deleted".
GoodRequest(c) ==
    /\ {"no", "kind", "batch", "answer"} \subseteq DOMAIN c
    /\ c.answer = "deleted" => c.kind # "create"

Waits(p) ==
    p.spinner => p.keys \/ p.riScs \/ \E c \in p.requests : c.kind = "create"

\* The strengthening of SpinnerMeansWaiting.
GoodPage(p) ==
    /\ DOMAIN p = PageFields
    /\ \A c \in p.requests : GoodRequest(c)
    /\ Waits(p)

-----------------------------------------------------------------------------
(* Sending adds to what is waited for.                                     *)

\* What Request makes of its arguments.
LEMMA RequestIsGood ==
    ASSUME NEW kind, NEW closure, NEW new, NEW batch
    PROVE  /\ GoodRequest(Request(kind, closure, new, batch))
           /\ Request(kind, closure, new, batch).kind = kind
BY DEF Request, GoodRequest

\* Send adds one request, of the kind it is given, and starts nothing else.
LEMMA SendWaits ==
    ASSUME NEW p, GoodPage(p), NEW request, GoodRequest(request)
    PROVE  /\ GoodPage(Send(p, request))
           /\ \E c \in Send(p, request).requests : c.kind = request.kind
<1> DEFINE numbers == {c.no : c \in p.requests}
           free == CHOOSE n \in 0..Cardinality(numbers) : n \notin numbers
           sent == [request EXCEPT !.no = free]
           q == Send(p, request)
<1>1. sent.kind = request.kind /\ GoodRequest(sent)
  <2> HIDE DEF free
  <2> QED BY DEF GoodRequest
<1>2. /\ DOMAIN q = PageFields
      /\ q.requests = p.requests \cup {sent}
      /\ q.spinner = p.spinner /\ q.keys = p.keys /\ q.riScs = p.riScs
  <2> HIDE DEF sent
  <2> DEFINE s == sent
  <2>1. q = [p EXCEPT !.requests = p.requests \cup {sent}, !.status = "loading"]
    BY DEF Send, sent
  <2> HIDE DEF q
  <2> QED BY <2>1 DEF GoodPage, PageFields
<1> HIDE DEF q, sent
<1> QED BY <1>1, <1>2 DEF GoodPage, Waits, q

\* updateRiSc, whether it sends anything or not.
LEMMA UpdateWaits ==
    ASSUME NEW p, GoodPage(p), NEW closure, NEW content, NEW batch
    PROVE  GoodPage(UpdateRiSc(p, closure, content, batch))
<1> DEFINE sel == closure.selected
           updated == [sel EXCEPT !.content = content,
                          !.status = IF RequiresNewApproval(sel.content, content)
                                     THEN "Draft" ELSE @]
           request == Request("update", closure, updated, batch)
           q == Send(p, request)
<1>1. GoodPage(q)
  BY RequestIsGood, SendWaits
<1>2. GoodPage([q EXCEPT !.selected = updated])
  <2> HIDE DEF q, updated
  <2> QED BY <1>1 DEF GoodPage, PageFields, Waits
<1>3. GoodPage([p EXCEPT !.status = "error"])
  BY DEF GoodPage, PageFields, Waits
<1> QED BY <1>2, <1>3 DEF UpdateRiSc

\* debounceCallback and flush.
LEMMA SavePendingWaits ==
    ASSUME NEW p, GoodPage(p), NEW closure, NEW r, NEW batch
    PROVE  GoodPage(SavePending(p, closure, r, batch))
BY UpdateWaits DEF SavePending

\* Unmounting the rows ends nothing the spinner waits for.
LEMMA FlushWaits ==
    ASSUME NEW p, GoodPage(p), NEW closure, NEW r
    PROVE  GoodPage(Flush(p, closure, r))
BY SavePendingWaits DEF Flush

-----------------------------------------------------------------------------
(* Rendering takes nothing away.                                           *)

\* The effect on the URL touches the selection only.
LEMMA SelectWaits ==
    ASSUME NEW p, GoodPage(p)
    PROVE  GoodPage(SelectByUrl(p))
<1>1. ASSUME NEW sel PROVE GoodPage([p EXCEPT !.selected = sel])
  BY DEF GoodPage, PageFields, Waits
<1> QED BY <1>1 DEF SelectByUrl

\* Nor does anything a rendering causes end what the spinner waits for.
LEMMA RenderedWaits ==
    ASSUME NEW p, GoodPage(p), NEW setsList
    PROVE  GoodPage(Rendered(p, setsList).page)
<1> DEFINE goAtOnce == rows.open /\ p.selected.id # page.selected.id
           flushed == IF goAtOnce THEN Flush(p, page, rows) ELSE p
           settled == IF setsList \/ p.url # page.url THEN SelectByUrl(flushed) ELSE flushed
           goThen == rows.open /\ ~goAtOnce /\ settled.selected.id # page.selected.id
<1>1. GoodPage(flushed)
  BY FlushWaits
<1>2. GoodPage(settled)
  <2> HIDE DEF flushed
  <2> QED BY <1>1, SelectWaits
<1>3. GoodPage(IF goThen THEN Flush(settled, p, rows) ELSE settled)
  <2> HIDE DEF settled, goThen
  <2> QED BY <1>2, FlushWaits
<1>4. Rendered(p, setsList).page = IF goThen THEN Flush(settled, p, rows) ELSE settled
  <2> HIDE DEF goThen, goAtOnce
  <2> QED BY DEF Rendered, goThen, goAtOnce
<1> QED BY <1>3, <1>4

\* Rows that go do not change the kind of a request.
LEMMA DetachedWaits ==
    ASSUME NEW p, GoodPage(p)
    PROVE  GoodPage(Detached(p))
<1>1. ASSUME NEW c, GoodRequest(c)
      PROVE  GoodRequest([c EXCEPT !.batch = {}]) /\ [c EXCEPT !.batch = {}].kind = c.kind
  BY <1>1 DEF GoodRequest
<1>2. /\ DOMAIN Detached(p) = PageFields
      /\ Detached(p).requests = {[c EXCEPT !.batch = {}] : c \in p.requests}
      /\ Detached(p).spinner = p.spinner /\ Detached(p).keys = p.keys
      /\ Detached(p).riScs = p.riScs
  BY DEF Detached, GoodPage, PageFields
<1> QED BY <1>1, <1>2 DEF GoodPage, Waits

\* What a handler makes of the page stays good when it is rendered.
LEMMA ShowWaits ==
    ASSUME NEW p, GoodPage(p), NEW setsList, NEW r, Show(p, setsList, r)
    PROVE  GoodPage(page')
<1>1. GoodPage(Rendered(p, setsList).page)
  BY RenderedWaits
<1>2. page' = Rendered(p, setsList).page \/ page' = Detached(Rendered(p, setsList).page)
  BY DEF Show
<1> QED BY <1>1, <1>2, DetachedWaits

-----------------------------------------------------------------------------
(* Answers.                                                                *)

\* An answer ends the request it answers, and nothing else.
LEMMA AnsweredWaits ==
    ASSUME NEW p, GoodPage(p), NEW c, NEW status
    PROVE  LET q == Answered(p, c, status)
           IN  /\ DOMAIN q = PageFields
               /\ \A d \in q.requests : GoodRequest(d)
               /\ q.requests = p.requests \ {c}
               /\ q.spinner = p.spinner /\ q.keys = p.keys /\ q.riScs = p.riScs
BY DEF Answered, GoodPage, PageFields

\* A save that succeeds is no creation.
LEMMA OnSavedWaits ==
    ASSUME NEW p, GoodPage(p), NEW c, c.kind # "create"
    PROVE  GoodPage(OnSaved(p, c))
<1> DEFINE q == Answered(p, c, "success")
<1> HIDE DEF q
<1>1. /\ DOMAIN q = PageFields
      /\ \A d \in q.requests : GoodRequest(d)
      /\ q.requests = p.requests \ {c}
      /\ q.spinner = p.spinner /\ q.keys = p.keys /\ q.riScs = p.riScs
  BY AnsweredWaits DEF q
<1>2. ASSUME NEW sel, NEW list
      PROVE  GoodPage([q EXCEPT !.selected = sel, !.list = list])
  BY <1>1 DEF GoodPage, PageFields, Waits
<1> QED BY <1>2 DEF OnSaved, q

\* Neither is a deletion.
LEMMA OnDeletedWaits ==
    ASSUME NEW p, GoodPage(p), NEW c, c.kind # "create", NEW first, NEW other
    PROVE  GoodPage(OnDeleted(p, c, first, other))
<1> DEFINE q == Answered(p, c, "success")
<1> HIDE DEF q
<1>1. /\ DOMAIN q = PageFields
      /\ \A d \in q.requests : GoodRequest(d)
      /\ q.requests = p.requests \ {c}
      /\ q.spinner = p.spinner /\ q.keys = p.keys /\ q.riScs = p.riScs
  BY AnsweredWaits DEF q
<1>2. ASSUME NEW sel, NEW list
      PROVE  GoodPage([q EXCEPT !.selected = sel, !.list = list, !.url = first])
  BY <1>1 DEF GoodPage, PageFields, Waits
<1> QED BY <1>2 DEF OnDeleted, q

\* A creation that succeeds ends the spinner.
LEMMA OnCreatedWaits ==
    ASSUME NEW p, GoodPage(p), NEW c
    PROVE  GoodPage(OnCreated(p, c))
<1> DEFINE q == Answered(p, c, "success")
<1> HIDE DEF q
<1>1. /\ DOMAIN q = PageFields
      /\ \A d \in q.requests : GoodRequest(d)
  BY AnsweredWaits DEF q
<1>2. ASSUME NEW list, NEW url
      PROVE  GoodPage([q EXCEPT !.list = list, !.spinner = FALSE, !.url = url])
  BY <1>1 DEF GoodPage, PageFields, Waits
<1> QED BY <1>2 DEF OnCreated, q

\* Only the error of a creation ends a request that the spinner waits for, and
\* it ends the spinner too.
LEMMA OnErrorWaits ==
    ASSUME NEW p, GoodPage(p), NEW c
    PROVE  GoodPage(OnError(p, c))
<1> DEFINE q == Answered(p, c, "error")
<1> HIDE DEF q
<1>1. /\ DOMAIN q = PageFields
      /\ \A d \in q.requests : GoodRequest(d)
      /\ q.requests = p.requests \ {c}
      /\ q.spinner = p.spinner /\ q.keys = p.keys /\ q.riScs = p.riScs
  BY AnsweredWaits DEF q
<1>2. ASSUME NEW sel
      PROVE  GoodPage([q EXCEPT !.selected = sel, !.spinner = FALSE])
  BY <1>1 DEF GoodPage, PageFields, Waits
<1>3. ASSUME NEW sel, c.kind # "create"
      PROVE  GoodPage([q EXCEPT !.selected = sel, !.spinner = q.spinner])
  BY <1>1, <1>3 DEF GoodPage, PageFields, Waits
<1>4. OnError(p, c) =
        [q EXCEPT !.selected = IF c.kind = "approve" THEN q.selected ELSE c.old,
                  !.spinner = IF c.kind = "create" THEN FALSE ELSE q.spinner]
  BY <1>1 DEF OnError, q, PageFields
<1>5. CASE c.kind = "create"
  BY <1>2, <1>4, <1>5
<1>6. CASE c.kind # "create"
  BY <1>3, <1>4, <1>6
<1> QED BY <1>5, <1>6

\* Every way in which Receive answers a request.
LEMMA ReceiveWaits ==
    ASSUME GoodPage(page), NEW c \in page.requests, Receive(c)
    PROVE  GoodPage(page')
<1>1. CASE \E r : Show(OnError(page, c), FALSE, r)
  BY <1>1, OnErrorWaits, ShowWaits
<1>2. CASE \E r : Show(OnCreated(page, c), TRUE, r)
  BY <1>2, OnCreatedWaits, ShowWaits
<1>3. CASE c.kind # "create" /\ \E r : Show(OnSaved(page, c), TRUE, r)
  BY <1>3, OnSavedWaits, ShowWaits
<1>4. CASE /\ c.answer = "deleted"
           /\ \E first, other : Show(OnDeleted(page, c, first, other), TRUE, rows)
  <2>1. c.kind # "create"
    BY <1>4 DEF GoodPage, GoodRequest
  <2>2. PICK first, other : Show(OnDeleted(page, c, first, other), TRUE, rows)
    BY <1>4
  <2> QED BY <2>1, <2>2, OnDeletedWaits, ShowWaits
<1> QED BY <1>1, <1>2, <1>3, <1>4 DEF Receive

\* Serving or losing a request changes its answer only.
LEMMA AnswerWaits ==
    ASSUME GoodPage(page), NEW c \in page.requests, NEW answer, Answer(c, answer),
           answer = "deleted" => c.kind # "create"
    PROVE  GoodPage(page')
<1> DEFINE d == [c EXCEPT !.answer = answer]
<1>1. GoodRequest(d) /\ d.kind = c.kind
  BY DEF GoodPage, GoodRequest
<1> HIDE DEF d
<1>2. page' = [page EXCEPT !.requests = (page.requests \ {c}) \cup {d}]
  BY DEF Answer, d, GoodPage, PageFields
<1>3. /\ DOMAIN page' = PageFields
      /\ page'.requests = (page.requests \ {c}) \cup {d}
      /\ page'.spinner = page.spinner /\ page'.keys = page.keys
      /\ page'.riScs = page.riScs
  BY <1>2 DEF GoodPage, PageFields
<1> QED BY <1>1, <1>3 DEF GoodPage, Waits

-----------------------------------------------------------------------------
(* The two fetches.                                                        *)

\* Each fetch leaves the spinner to the other one.
LEMMA FetchesWait ==
    ASSUME NEW p, GoodPage(p)
    PROVE  /\ GoodPage(OnKeys(p)) /\ GoodPage(OnFetchError(p))
           /\ \A list, first : GoodPage(OnFetched(p, list, first))
<1>1. GoodPage([p EXCEPT !.keys = FALSE, !.spinner = p.spinner /\ p.riScs])
  BY DEF GoodPage, PageFields, Waits
<1>2. GoodPage([p EXCEPT !.riScs = FALSE, !.spinner = p.spinner /\ p.keys])
  BY DEF GoodPage, PageFields, Waits
<1>3. ASSUME NEW list, NEW url
      PROVE  GoodPage([p EXCEPT !.fetched = TRUE, !.list = list, !.riScs = FALSE,
                                !.spinner = p.spinner /\ p.keys, !.url = url])
  BY DEF GoodPage, PageFields, Waits
<1> QED BY <1>1, <1>2, <1>3 DEF OnKeys, OnFetchError, OnFetched, GoodPage, PageFields

-----------------------------------------------------------------------------
(* Every step.                                                             *)

\* Every step of the user.
LEMMA UserWaits ==
    ASSUME GoodPage(page), User
    PROVE  GoodPage(page')
<1>1. ASSUME NEW content, NEW r, Show(UpdateRiSc(page, page, content, {}), FALSE, r)
      PROVE  GoodPage(page')
  BY <1>1, UpdateWaits, ShowWaits
<1>2. ASSUME NEW i \in Actions, OnNewActionStatus(i) PROVE GoodPage(page')
  BY <1>2 DEF OnNewActionStatus
<1>3. ASSUME NEW i \in Actions, SaveAction(i) PROVE GoodPage(page')
  BY <1>3, <1>1 DEF SaveAction
<1>4. CASE OpenDialog
  BY <1>4 DEF OpenDialog
<1>5. CASE SubmitDialog
  BY <1>5, <1>1 DEF SubmitDialog
<1>6. CASE SubmitDeletion
  BY <1>6, RequestIsGood, SendWaits, ShowWaits DEF SubmitDeletion, DeleteRiSc
<1>7. CASE HandleApproveAndPublish
  BY <1>7, RequestIsGood, SendWaits, ShowWaits DEF HandleApproveAndPublish, ApproveRiSc
<1>8. ASSUME NEW id \in RiSc, SubmitCreation(id) PROVE GoodPage(page')
  <2> DEFINE request == Request("create", page, Selected(id, VersionOf(NoRiSc)), {})
             q == Send(page, request)
  <2>1. GoodPage(q) /\ \E c \in q.requests : c.kind = "create"
    BY RequestIsGood, SendWaits
  <2> HIDE DEF q
  <2>2. GoodPage([q EXCEPT !.selected = NoRiSc, !.spinner = TRUE])
    BY <2>1 DEF GoodPage, PageFields, Waits
  <2> QED BY <2>2, <1>8, ShowWaits DEF SubmitCreation, CreateNewRiSc, q
<1>9. ASSUME NEW id \in RiSc, SelectRiSc(id) PROVE GoodPage(page')
  <2>1. GoodPage([page EXCEPT !.url = id])
    BY DEF GoodPage, PageFields, Waits
  <2> QED BY <2>1, <1>9, ShowWaits DEF SelectRiSc
<1>10. CASE OpenRows
  BY <1>10 DEF OpenRows
<1>11. CASE CloseRows
  BY <1>11, FlushWaits, DetachedWaits DEF CloseRows
<1> QED BY <1>2, <1>3, <1>4, <1>5, <1>6, <1>7, <1>8, <1>9, <1>10, <1>11 DEF User

\* Every step of the page and of its surroundings.
LEMMA NextWaits ==
    ASSUME GoodPage(page), [Next]_vars
    PROVE  GoodPage(page')
<1>1. CASE User
  BY <1>1, UserWaits
<1>2. CASE DebounceTimer
  BY <1>2, SavePendingWaits DEF DebounceTimer
<1>3. ASSUME NEW c \in page.requests, Serve(c) PROVE GoodPage(page')
  <2>1. AnswerOf(c, server[c.new.id]) = "deleted" => c.kind # "create"
    BY DEF AnswerOf
  <2> QED BY <2>1, <1>3, AnswerWaits DEF Serve
<1>4. ASSUME NEW c \in page.requests, Receive(c) PROVE GoodPage(page')
  BY <1>4, ReceiveWaits
<1>5. ASSUME NEW c \in page.requests, Fail(c) PROVE GoodPage(page')
  BY <1>5, AnswerWaits DEF Fail
<1>6. CASE FetchRiScs
  BY <1>6, FetchesWait, ShowWaits DEF FetchRiScs
<1>7. CASE FailToFetchRiScs \/ FetchGcpCryptoKeys
  BY <1>7, FetchesWait DEF FailToFetchRiScs, FetchGcpCryptoKeys
<1>8. CASE UNCHANGED vars
  BY <1>8 DEF vars
<1> QED BY <1>1, <1>2, <1>3, <1>4, <1>5, <1>6, <1>7, <1>8 DEF Next, Backend, Fetch

\* isFetching is never left behind: however creations, fetches, saves and
\* deletions overlap and fail, the spinner turns only while one of the two
\* fetches or a creation is under way.
THEOREM SpinnerEnds == Spec => []SpinnerMeansWaiting
<1>1. Init => GoodPage(page)
  BY DEF Init, GoodPage, PageFields, Waits
<1>2. GoodPage(page) /\ [Next]_vars => GoodPage(page)'
  BY NextWaits
<1>3. GoodPage(page) => SpinnerMeansWaiting
  BY DEF GoodPage, Waits, SpinnerMeansWaiting
<1> QED BY <1>1, <1>2, <1>3, PTL DEF Spec

-----------------------------------------------------------------------------
(* Types: how many requests there are, and their numbers.                  *)

MaxNo == MaxUnderWay + 2 * MaxEdits

\* Parts of TypeOK for a page: a request is for a RiSc, and there are at most
\* as many as there are numbers.
PageTypes(p) ==
    /\ p \in Pages
    /\ \A c \in p.requests : /\ c.no \in Slots
                             /\ c.answer = "deleted" => c.kind = "delete"
                             /\ c.new.id \in RiSc
    /\ IsFiniteSet(p.requests)

\* The page has at most n requests.
Holds(p, n) == PageTypes(p) /\ n \in Slots /\ Cardinality(p.requests) <= n

\* The bounds are numbers.
LEMMA BoundsAreNumbers ==
    /\ MaxNo \in Nat /\ MaxUnderWay \in Nat /\ MaxEdits \in Nat
    /\ MaxFaults \in Nat /\ MaxMoves \in Nat
    /\ Slots = 0..MaxNo
BY BoundAssumption, PageAssumption DEF MaxNo, Slots

\* A list is a function from some of the RiScs.
LEMMA ListsAre ==
    ASSUME NEW list
    PROVE  list \in Lists <=> DOMAIN list \subseteq RiSc /\ list \in [DOMAIN list -> Version]
BY DEF Lists

\* A set of numbers does not hold all the numbers up to its size.
LEMMA FreeNumber ==
    ASSUME NEW R, IsFiniteSet(R)
    PROVE  LET numbers == {c.no : c \in R}
               free == CHOOSE n \in 0..Cardinality(numbers) : n \notin numbers
           IN  /\ Cardinality(R) \in Nat
               /\ free \in 0..Cardinality(R)
               /\ free \notin numbers
<1> DEFINE numbers == {c.no : c \in R}
           f == [c \in R |-> c.no]
<1>1. f \in Surjection(R, numbers)
  BY DEF Surjection
<1>2. IsFiniteSet(numbers) /\ Cardinality(numbers) <= Cardinality(R)
  <2> HIDE DEF numbers, f
  <2> QED BY <1>1, FS_Surjection
<1>3. Cardinality(R) \in Nat /\ Cardinality(numbers) \in Nat
  BY <1>2, FS_CardinalityType
<1> HIDE DEF numbers
<1>4. \E n \in 0..Cardinality(numbers) : n \notin numbers
  <2> DEFINE all == 0..Cardinality(numbers)
  <2>1. SUFFICES ASSUME all \subseteq numbers PROVE FALSE
    OBVIOUS
  <2>2. Cardinality(all) = Cardinality(numbers) + 1
    <3>1. 0 \in Int /\ Cardinality(numbers) \in Int /\ ~(0 > Cardinality(numbers))
      BY <1>3
    <3> QED BY <3>1, FS_Interval
  <2> HIDE DEF all
  <2>3. Cardinality(all) <= Cardinality(numbers)
    BY <2>1, <1>2, FS_Subset
  <2> QED BY <1>3, <2>2, <2>3
<1>5. (CHOOSE n \in 0..Cardinality(numbers) : n \notin numbers) \in 0..Cardinality(numbers)
      /\ (CHOOSE n \in 0..Cardinality(numbers) : n \notin numbers) \notin numbers
  BY <1>4
<1> QED BY <1>2, <1>3, <1>5 DEF numbers

\* What has at most n requests has at most n + 1.
LEMMA HoldsMore ==
    ASSUME NEW p, NEW n, Holds(p, n), n + 1 \in Slots
    PROVE  Holds(p, n + 1) /\ Cardinality(p.requests) \in Nat
<1>1. Cardinality(p.requests) \in Nat
  BY FS_CardinalityType DEF Holds, PageTypes
<1>2. n \in Nat /\ Cardinality(p.requests) <= n
  BY BoundsAreNumbers DEF Holds
<1> QED BY <1>1, <1>2 DEF Holds

\* Only its requests count.
LEMMA SameRequests ==
    ASSUME NEW p, NEW n, Holds(p, n), NEW q \in Pages, q.requests = p.requests
    PROVE  Holds(q, n)
BY DEF Holds, PageTypes

-----------------------------------------------------------------------------
(* Types: requests that the page sends.                                    *)

\* What Request makes of a page and a RiSc.
LEMMA RequestTypes ==
    ASSUME NEW kind \in {"update", "delete", "approve", "create"},
           NEW closure \in Pages, NEW new \in Selections, NEW batch \in SUBSET Item
    PROVE  LET c == Request(kind, closure, new, batch)
           IN  c \in Requests /\ c.answer = "none" /\ c.new = new
BY DEF Request, Requests, Pages

\* Send adds one request.
LEMMA SendHolds ==
    ASSUME NEW p, NEW n, Holds(p, n), n + 1 \in Slots,
           NEW request \in Requests, request.answer = "none", request.new.id \in RiSc
    PROVE  Holds(Send(p, request), n + 1)
<1> DEFINE numbers == {c.no : c \in p.requests}
           free == CHOOSE k \in 0..Cardinality(numbers) : k \notin numbers
           sent == [request EXCEPT !.no = free]
           q == Send(p, request)
<1>1. Cardinality(p.requests) \in Nat /\ free \in 0..Cardinality(p.requests)
  BY FreeNumber DEF Holds, PageTypes
<1> HIDE DEF free
<1>2. free \in Nat /\ free \in Slots
  BY <1>1, BoundsAreNumbers DEF Holds
<1>3. sent \in Requests /\ sent.no = free /\ sent.answer = "none" /\ sent.new = request.new
  BY <1>2 DEF Requests
<1> HIDE DEF sent
<1>4. q = [p EXCEPT !.requests = p.requests \cup {sent}, !.status = "loading"]
  BY DEF Send, sent, free, Holds, PageTypes, Pages
<1>5. q \in Pages /\ q.requests = p.requests \cup {sent}
  <2> HIDE DEF q
  <2> QED BY <1>3, <1>4 DEF Holds, PageTypes, Pages
<1> HIDE DEF q
<1>6. IsFiniteSet(q.requests) /\ Cardinality(q.requests) <= n + 1
  <2> DEFINE R == p.requests
  <2>1. IsFiniteSet(R) /\ q.requests = R \cup {sent} /\ Cardinality(R) \in Nat
    BY <1>1, <1>5 DEF Holds, PageTypes
  <2> HIDE DEF R
  <2>2. /\ IsFiniteSet(R \cup {sent})
        /\ Cardinality(R \cup {sent}) = Cardinality(R)
             \/ Cardinality(R \cup {sent}) = Cardinality(R) + 1
    BY <2>1, FS_AddElement
  <2>3. n \in Nat /\ Cardinality(R) <= n
    BY BoundsAreNumbers DEF Holds, R
  <2> QED BY <2>1, <2>2, <2>3
<1> QED BY <1>2, <1>3, <1>5, <1>6 DEF Holds, PageTypes, q

\* Nothing is edited.
LEMMA BlankTypes == Blank \in Content
BY PageAssumption DEF Blank, Content

\* What is pending goes over what is shown.
LEMMA OverlayTypes ==
    ASSUME NEW content \in Content, NEW pending \in Content
    PROVE  Overlay(content, pending) \in Content
BY DEF Overlay, Content

\* updateRiSc, whether it sends anything or not.
LEMMA UpdateHolds ==
    ASSUME NEW p, NEW n, Holds(p, n), n + 1 \in Slots, NEW closure \in Pages,
           NEW content \in Content, NEW batch \in SUBSET Item
    PROVE  Holds(UpdateRiSc(p, closure, content, batch), n + 1)
<1> DEFINE sel == closure.selected
           status == IF RequiresNewApproval(sel.content, content) THEN "Draft" ELSE sel.status
           updated == [sel EXCEPT !.content = content,
                          !.status = IF RequiresNewApproval(sel.content, content)
                                     THEN "Draft" ELSE @]
           request == Request("update", closure, updated, batch)
           q == Send(p, request)
           result == UpdateRiSc(p, closure, content, batch)
<1>1. /\ sel \in Selections
      /\ updated \in Selections /\ updated.id = sel.id
  <2>1. sel \in Selections
    BY DEF Pages
  <2>2. status \in Statuses
    BY <2>1 DEF Selections, Statuses
  <2>3. updated = [sel EXCEPT !.content = content, !.status = status]
    BY <2>1 DEF Selections
  <2> HIDE DEF status, updated, sel
  <2> QED BY <2>1, <2>2, <2>3 DEF Selections
<1> HIDE DEF status
<1>2. request \in Requests /\ request.answer = "none" /\ request.new = updated
  <2> HIDE DEF updated
  <2> QED BY <1>1, RequestTypes
<1>3. CASE Marked(sel.status)
  <2>1. result = [p EXCEPT !.status = "error"]
    BY <1>3 DEF UpdateRiSc
  <2> HIDE DEF result
  <2>2. result \in Pages /\ result.requests = p.requests
    BY <2>1 DEF Holds, PageTypes, Pages
  <2>3. Holds(result, n + 1)
    BY <2>2, SameRequests, HoldsMore
  <2> QED BY <2>3 DEF result
<1>4. CASE ~Marked(sel.status) /\ (sel.id = None \/ ~closure.fetched)
  BY <1>4, HoldsMore DEF UpdateRiSc
<1>5. CASE ~Marked(sel.status) /\ ~(sel.id = None \/ ~closure.fetched)
  <2>1. sel.id \in RiSc
    BY <1>1, <1>5 DEF Selections
  <2>2. Holds(q, n + 1)
    <3> HIDE DEF request, updated
    <3> QED BY <1>1, <1>2, <2>1, SendHolds
  <2>3. result = [q EXCEPT !.selected = updated]
    BY <1>5 DEF UpdateRiSc
  <2> HIDE DEF q, result, updated
  <2>4. result \in Pages /\ result.requests = q.requests
    BY <1>1, <2>2, <2>3 DEF Holds, PageTypes, Pages
  <2>5. Holds(result, n + 1)
    BY <2>2, <2>4, SameRequests
  <2> QED BY <2>5 DEF result
<1> QED BY <1>3, <1>4, <1>5

\* debounceCallback and the flush of the rows send at most one request.
LEMMA SavePendingHolds ==
    ASSUME NEW p, NEW n, Holds(p, n), NEW closure \in Pages, NEW r \in Rows,
           HasPending(r) => n + 1 \in Slots, NEW batch \in SUBSET Item
    PROVE  Holds(SavePending(p, closure, r, batch),
                 IF HasPending(r) THEN n + 1 ELSE n)
<1>1. CASE HasPending(r)
  <2>1. closure.selected.content \in Content /\ r.pending \in Content
    BY DEF Pages, Selections, Rows
  <2>2. Overlay(closure.selected.content, r.pending) \in Content
    BY <2>1, OverlayTypes
  <2> QED BY <1>1, <2>2, UpdateHolds DEF SavePending
<1>2. CASE ~HasPending(r)
  BY <1>2 DEF SavePending
<1> QED BY <1>1, <1>2

-----------------------------------------------------------------------------
(* Types: rendering.                                                       *)

\* The effect on the URL sends nothing.
LEMMA SelectHolds ==
    ASSUME NEW p, NEW n, Holds(p, n)
    PROVE  Holds(SelectByUrl(p), n)
<1>1. CASE p.url \in DOMAIN p.list
  <2> DEFINE sel == Selected(p.url, p.list[p.url])
             result == SelectByUrl(p)
  <2>1. sel \in Selections
    <3>1. p.list \in Lists /\ p \in Pages
      BY DEF Holds, PageTypes, Pages
    <3>2. p.url \in RiSc /\ p.list[p.url] \in Version
      BY <1>1, <3>1, ListsAre
    <3> QED BY <3>2 DEF Selected, Selections, Version
  <2>2. result = [p EXCEPT !.selected = sel]
    BY <1>1 DEF SelectByUrl
  <2> HIDE DEF sel, result
  <2>3. result \in Pages /\ result.requests = p.requests
    BY <2>1, <2>2 DEF Holds, PageTypes, Pages
  <2>4. Holds(result, n)
    BY <2>3, SameRequests
  <2> QED BY <2>4 DEF result
<1>2. CASE p.url \notin DOMAIN p.list
  BY <1>2 DEF SelectByUrl
<1> QED BY <1>1, <1>2

\* Rows that go keep the number of requests.
LEMMA DetachedHolds ==
    ASSUME NEW p, NEW n, Holds(p, n)
    PROVE  Holds(Detached(p), n)
<1> DEFINE R == p.requests
           D == {[c EXCEPT !.batch = {}] : c \in R}
           f == [c \in R |-> [c EXCEPT !.batch = {}]]
           q == Detached(p)
<1>1. p \in Pages /\ R \subseteq Requests /\ IsFiniteSet(R)
  BY DEF Holds, PageTypes, Pages
<1>2. ASSUME NEW c \in R
      PROVE  LET d == [c EXCEPT !.batch = {}]
             IN  /\ d \in Requests /\ d.no = c.no /\ d.answer = c.answer
                 /\ d.kind = c.kind /\ d.new = c.new
  <2>1. c \in Requests
    BY <1>1
  <2> QED BY <2>1 DEF Requests
<1>3. IsFiniteSet(D) /\ Cardinality(D) <= Cardinality(R)
  <2>1. f \in Surjection(R, D)
    BY DEF Surjection
  <2> HIDE DEF R, D, f
  <2> QED BY <1>1, <2>1, FS_Surjection
<1>4. q = [p EXCEPT !.requests = D]
  BY DEF Detached, Holds, PageTypes, Pages
<1>5. D \subseteq Requests /\ \A d \in D : /\ d.no \in Slots
                                           /\ d.answer = "deleted" => d.kind = "delete"
                                           /\ d.new.id \in RiSc
  <2> SUFFICES ASSUME NEW d \in D
               PROVE  /\ d \in Requests /\ d.no \in Slots
                      /\ d.answer = "deleted" => d.kind = "delete"
                      /\ d.new.id \in RiSc
    OBVIOUS
  <2>1. PICK c \in R : d = [c EXCEPT !.batch = {}]
    OBVIOUS
  <2>2. /\ d \in Requests /\ d.no = c.no /\ d.answer = c.answer
        /\ d.kind = c.kind /\ d.new = c.new
    BY <1>2, <2>1
  <2> QED BY <2>2 DEF Holds, PageTypes
<1> HIDE DEF D, q
<1>6. q \in Pages /\ q.requests = D
  BY <1>1, <1>4, <1>5 DEF Pages
<1>7. Cardinality(D) <= n
  <2>1. Cardinality(R) \in Nat /\ Cardinality(D) \in Nat
    BY <1>1, <1>3, FS_CardinalityType
  <2>2. n \in Nat /\ Cardinality(R) <= n
    BY BoundsAreNumbers DEF Holds
  <2> QED BY <1>3, <2>1, <2>2
<1>8. Holds(q, n)
  BY <1>3, <1>5, <1>6, <1>7 DEF Holds, PageTypes
<1> QED BY <1>8 DEF q

Extra(r) == IF HasPending(r) THEN 1 ELSE 0

\* At most one flush follows a handler, and only when the rows go.
LEMMA RenderedHolds ==
    ASSUME NEW p, NEW n, Holds(p, n), NEW setsList, page \in Pages, rows \in Rows,
           n + Extra(rows) \in Slots
    PROVE  LET rendered == Rendered(p, setsList)
           IN  /\ rendered.gone => Holds(rendered.page, n + Extra(rows))
               /\ ~rendered.gone => Holds(rendered.page, n)
<1> DEFINE goAtOnce == rows.open /\ p.selected.id # page.selected.id
           flushed == IF goAtOnce THEN Flush(p, page, rows) ELSE p
           settled == IF setsList \/ p.url # page.url THEN SelectByUrl(flushed) ELSE flushed
           goThen == rows.open /\ ~goAtOnce /\ settled.selected.id # page.selected.id
           result == IF goThen THEN Flush(settled, p, rows) ELSE settled
           rendered == Rendered(p, setsList)
<1> HIDE DEF rendered
<1>1. p \in Pages /\ n \in Nat
  BY BoundsAreNumbers DEF Holds, PageTypes
<1>2. ASSUME NEW q, Holds(q, n), NEW closure \in Pages
      PROVE  Holds(Flush(q, closure, rows), n + Extra(rows))
  BY <1>1, <1>2, SavePendingHolds DEF Flush, Extra
<1>3. rendered.page = result /\ (rendered.gone <=> goAtOnce \/ goThen)
  <2>1. rendered = [page |-> result, gone |-> goAtOnce \/ goThen]
    BY Zenon DEF Rendered, rendered
  <2> HIDE DEF rendered, goAtOnce, goThen, result
  <2> QED BY <2>1, Zenon
<1>4. goAtOnce \in BOOLEAN /\ goThen \in BOOLEAN
  OBVIOUS
<1> SUFFICES /\ rendered.gone => Holds(rendered.page, n + Extra(rows))
             /\ ~rendered.gone => Holds(rendered.page, n)
  BY DEF rendered
<1>5. CASE goAtOnce
  <2>1. Holds(flushed, n + Extra(rows))
    BY <1>2, <1>5
  <2>2. Holds(settled, n + Extra(rows))
    <3> HIDE DEF flushed
    <3> QED BY <2>1, SelectHolds
  <2>3. ~goThen
    BY <1>5
  <2>4. result = settled /\ rendered.gone
    <3> HIDE DEF settled, goThen, goAtOnce
    <3> QED BY <1>3, <1>5, <2>3
  <2>5. rendered.page = settled
    <3> HIDE DEF settled, result
    <3> QED BY <1>3, <2>4
  <2> HIDE DEF settled, result
  <2> QED BY <2>2, <2>4, <2>5
<1>6. CASE ~goAtOnce
  <2>1. Holds(settled, n)
    <3>1. Holds(flushed, n)
      BY <1>6
    <3> HIDE DEF flushed
    <3> QED BY <3>1, SelectHolds
  <2> HIDE DEF settled, goThen, goAtOnce
  <2>2. CASE goThen
    <3>1. result = Flush(settled, p, rows) /\ rendered.gone
      BY <1>3, <2>2
    <3>2. Holds(Flush(settled, p, rows), n + Extra(rows))
      BY <1>1, <1>2, <2>1
    <3> QED BY <1>3, <3>1, <3>2
  <2>3. CASE ~goThen
    <3>1. result = settled /\ ~rendered.gone
      BY <1>3, <1>6, <2>3
    <3> QED BY <1>3, <2>1, <3>1
  <2> QED BY <2>2, <2>3
<1> QED BY <1>5, <1>6

\* The requests that the rows may still send.
Waiting(r) == IF HasPending(r) THEN (IF r.timer THEN 2 ELSE 1) ELSE 0

\* A page and its rows that have at most m requests, sent or to be sent.
Loaded(p, r, m) ==
    /\ PageTypes(p) /\ r \in Rows
    /\ Cardinality(p.requests) + Waiting(r) <= m

\* A handler and what its rendering causes.
LEMMA ShowHolds ==
    ASSUME NEW p, NEW n, Holds(p, n), NEW setsList, page \in Pages, rows \in Rows,
           NEW r \in Rows, NEW m \in Slots, n + Waiting(rows) <= m, n + Waiting(r) <= m,
           Show(p, setsList, r)
    PROVE  Loaded(page', rows', m) /\ rows' \in {r, Closed}
<1> DEFINE rendered == Rendered(p, setsList)
<1>1. n \in Nat /\ m \in Nat /\ m <= MaxNo /\ Waiting(rows) \in Nat
  BY BoundsAreNumbers DEF Holds, Waiting
<1>2. Extra(rows) \in Nat /\ Extra(rows) <= Waiting(rows)
  BY DEF Extra, Waiting
<1>3. n + Extra(rows) \in Slots /\ n + Extra(rows) <= m
  BY <1>1, <1>2, BoundsAreNumbers
<1>4. /\ rendered.gone => Holds(rendered.page, n + Extra(rows))
      /\ ~rendered.gone => Holds(rendered.page, n)
  BY <1>3, RenderedHolds
<1>5. /\ page' = IF rendered.gone THEN Detached(rendered.page) ELSE rendered.page
      /\ rows' = IF rendered.gone THEN Closed ELSE r
  BY DEF Show
<1> HIDE DEF rendered
<1>6. ASSUME NEW q, NEW k, Holds(q, k)
      PROVE  PageTypes(q) /\ Cardinality(q.requests) \in Nat /\ k \in Nat
             /\ Cardinality(q.requests) <= k
  BY <1>6, FS_CardinalityType, BoundsAreNumbers DEF Holds, PageTypes
<1>7. CASE rendered.gone
  <2>1. Holds(page', n + Extra(rows))
    BY <1>4, <1>5, <1>7, DetachedHolds
  <2>2. Closed \in Rows /\ Waiting(Closed) = 0
    BY PageAssumption DEF Closed, Rows, Waiting, HasPending, Blank, Content
  <2>3. rows' = Closed
    BY <1>5, <1>7
  <2> QED BY <1>1, <1>3, <1>6, <2>1, <2>2, <2>3 DEF Loaded
<1>8. CASE ~rendered.gone
  <2>1. Holds(page', n) /\ rows' = r
    BY <1>4, <1>5, <1>8
  <2>2. Waiting(r) \in Nat
    BY DEF Waiting
  <2> QED BY <1>1, <1>6, <2>1, <2>2 DEF Loaded
<1> QED BY <1>7, <1>8

-----------------------------------------------------------------------------
(* Types: answers.                                                         *)

\* The three ways in which a callback brings the list up to date.
LEMMA ListTypes ==
    ASSUME NEW list \in Lists, NEW sel \in Selections
    PROVE  /\ Listed(list, sel) \in Lists
           /\ sel.id \in RiSc => Extended(list, sel) \in Lists
           /\ \A id : Without(list, id) \in Lists
<1>1. DOMAIN list \subseteq RiSc /\ \A id \in DOMAIN list : list[id] \in Version
  BY ListsAre
<1>2. VersionOf(sel) \in Version
  BY DEF VersionOf, Version, Selections
<1>3. Listed(list, sel) \in Lists
  <2> DEFINE new == Listed(list, sel)
  <2>1. DOMAIN new = DOMAIN list /\ new \in [DOMAIN list -> Version]
    BY <1>1, <1>2 DEF Listed
  <2> HIDE DEF new
  <2>2. new \in Lists
    BY <1>1, <2>1, ListsAre
  <2> QED BY <2>2 DEF new
<1>4. ASSUME sel.id \in RiSc PROVE Extended(list, sel) \in Lists
  <2> DEFINE new == Extended(list, sel)
  <2>1. DOMAIN new = DOMAIN list \cup {sel.id} /\ new \in [DOMAIN list \cup {sel.id} -> Version]
    BY <1>1, <1>2 DEF Extended
  <2> HIDE DEF new
  <2>2. new \in Lists
    BY <1>1, <1>4, <2>1, ListsAre
  <2> QED BY <2>2 DEF new
<1>5. ASSUME NEW id PROVE Without(list, id) \in Lists
  <2> DEFINE new == Without(list, id)
  <2>1. DOMAIN new = DOMAIN list \ {id} /\ new \in [DOMAIN list \ {id} -> Version]
    BY <1>1 DEF Without
  <2> HIDE DEF new
  <2>2. new \in Lists
    BY <1>1, <2>1, ListsAre
  <2> QED BY <2>2 DEF new
<1> QED BY <1>3, <1>4, <1>5

\* An answer ends one request.
LEMMA AnsweredHolds ==
    ASSUME NEW p, NEW n, Holds(p, n), NEW c \in p.requests,
           NEW status \in {"idle", "loading", "success", "error"}
    PROVE  /\ n # 0 /\ Holds(Answered(p, c, status), n - 1)
           /\ c \in Requests
<1> DEFINE R == p.requests
           q == Answered(p, c, status)
<1>1. p \in Pages /\ R \subseteq Requests /\ IsFiniteSet(R) /\ Cardinality(R) \in Nat
  BY FS_CardinalityType DEF Holds, PageTypes, Pages
<1>2. n \in Nat /\ Cardinality(R) <= n
  BY BoundsAreNumbers DEF Holds
<1>3. q \in Pages /\ q.requests = R \ {c}
  BY <1>1 DEF Answered, Pages
<1>4. IsFiniteSet(R \ {c}) /\ Cardinality(R \ {c}) = Cardinality(R) - 1
  <2> HIDE DEF R
  <2> QED BY <1>1, FS_RemoveElement DEF R
<1>5. Cardinality(R) # 0
  <2>1. R # {}
    OBVIOUS
  <2> HIDE DEF R
  <2> QED BY <1>1, <2>1, FS_EmptySet
<1>6. n # 0 /\ n - 1 \in Slots /\ Cardinality(R \ {c}) <= n - 1
  BY <1>1, <1>2, <1>4, <1>5, BoundsAreNumbers DEF Holds
<1>7. \A d \in R \ {c} : /\ d.no \in Slots
                         /\ d.answer = "deleted" => d.kind = "delete"
                         /\ d.new.id \in RiSc
  BY DEF Holds, PageTypes
<1> HIDE DEF R, q
<1>8. Holds(q, n - 1)
  BY <1>3, <1>4, <1>6, <1>7 DEF Holds, PageTypes
<1> QED BY <1>1, <1>6, <1>8 DEF R, q

\* onSuccess and onError: one request less, and a page of the right type.
LEMMA CallbacksHold ==
    ASSUME NEW p, NEW n, Holds(p, n), NEW c \in p.requests
    PROVE  /\ Holds(OnSaved(p, c), n - 1)
           /\ Holds(OnCreated(p, c), n - 1)
           /\ Holds(OnError(p, c), n - 1)
           /\ \A first \in DOMAIN c.list, other \in DOMAIN c.list \cup {None} :
                 Holds(OnDeleted(p, c, first, other), n - 1)
<1> DEFINE good == Answered(p, c, "success")
           bad == Answered(p, c, "error")
<1>1. Holds(good, n - 1) /\ Holds(bad, n - 1) /\ c \in Requests
  BY AnsweredHolds
<1> HIDE DEF good, bad
<1>2. good \in Pages /\ bad \in Pages
  BY <1>1 DEF Holds, PageTypes
<1>3. c.list \in Lists /\ c.old \in Selections /\ c.new \in Selections /\ c.new.id \in RiSc
  BY <1>1 DEF Requests, Holds, PageTypes
<1>4. ASSUME NEW sel \in Selections, NEW list \in Lists
      PROVE  Holds([good EXCEPT !.selected = sel, !.list = list], n - 1)
  <2> DEFINE q == [good EXCEPT !.selected = sel, !.list = list]
  <2>1. q \in Pages /\ q.requests = good.requests
    BY <1>2 DEF Pages
  <2> HIDE DEF q
  <2>2. Holds(q, n - 1)
    BY <1>1, <2>1, SameRequests
  <2> QED BY <2>2 DEF q
<1>5. ASSUME NEW list \in Lists, NEW url \in RiSc
      PROVE  Holds([good EXCEPT !.list = list, !.spinner = FALSE, !.url = url], n - 1)
  <2> DEFINE q == [good EXCEPT !.list = list, !.spinner = FALSE, !.url = url]
  <2>1. q \in Pages /\ q.requests = good.requests
    BY <1>2 DEF Pages
  <2> HIDE DEF q
  <2>2. Holds(q, n - 1)
    BY <1>1, <2>1, SameRequests
  <2> QED BY <2>2 DEF q
<1>6. ASSUME NEW sel \in Selections, NEW list \in Lists, NEW url \in RiSc
      PROVE  Holds([good EXCEPT !.selected = sel, !.list = list, !.url = url], n - 1)
  <2> DEFINE q == [good EXCEPT !.selected = sel, !.list = list, !.url = url]
  <2>1. q \in Pages /\ q.requests = good.requests
    BY <1>2 DEF Pages
  <2> HIDE DEF q
  <2>2. Holds(q, n - 1)
    BY <1>1, <2>1, SameRequests
  <2> QED BY <2>2 DEF q
<1>7. ASSUME NEW sel \in Selections, NEW spinner \in BOOLEAN
      PROVE  Holds([bad EXCEPT !.selected = sel, !.spinner = spinner], n - 1)
  <2> DEFINE q == [bad EXCEPT !.selected = sel, !.spinner = spinner]
  <2>1. q \in Pages /\ q.requests = bad.requests
    BY <1>2 DEF Pages
  <2> HIDE DEF q
  <2>2. Holds(q, n - 1)
    BY <1>1, <2>1, SameRequests
  <2> QED BY <2>2 DEF q
<1>8. Holds(OnSaved(p, c), n - 1)
  BY <1>3, <1>4, ListTypes DEF OnSaved, good
<1>9. Holds(OnCreated(p, c), n - 1)
  BY <1>3, <1>5, ListTypes DEF OnCreated, good
<1>10. Holds(OnError(p, c), n - 1)
  <2> DEFINE sel == IF c.kind = "approve" THEN bad.selected ELSE c.old
             spinner == IF c.kind = "create" THEN FALSE ELSE bad.spinner
  <2>1. sel \in Selections /\ spinner \in BOOLEAN
    BY <1>2, <1>3 DEF Pages
  <2>2. OnError(p, c) = [bad EXCEPT !.selected = sel, !.spinner = spinner]
    BY <1>2 DEF OnError, bad, Pages
  <2> HIDE DEF sel, spinner
  <2> QED BY <1>7, <2>1, <2>2
<1>11. ASSUME NEW first \in DOMAIN c.list, NEW other \in DOMAIN c.list \cup {None}
       PROVE  Holds(OnDeleted(p, c, first, other), n - 1)
  <2> DEFINE sel == IF other = None THEN NoRiSc ELSE Selected(other, c.list[other])
             list == Without(c.list, c.old.id)
  <2>1. DOMAIN c.list \subseteq RiSc /\ \A id \in DOMAIN c.list : c.list[id] \in Version
    BY <1>3, ListsAre
  <2>2. NoRiSc \in Selections
    BY BlankTypes DEF NoRiSc, Selections, Statuses
  <2>3. sel \in Selections
    <3>1. CASE other = None
      BY <2>2, <3>1
    <3>2. CASE other # None
      BY <2>1, <3>2 DEF Selected, Selections, Version
    <3> QED BY <3>1, <3>2
  <2>4. list \in Lists
    BY <1>3, ListTypes
  <2>5. first \in RiSc
    BY <2>1
  <2>6. OnDeleted(p, c, first, other) =
          [good EXCEPT !.selected = sel, !.list = list, !.url = first]
    BY DEF OnDeleted, good
  <2> HIDE DEF sel, list
  <2>7. Holds([good EXCEPT !.selected = sel, !.list = list, !.url = first], n - 1)
    BY <1>6, <2>3, <2>4, <2>5
  <2> QED BY <2>6, <2>7, Zenon
<1> QED BY <1>8, <1>9, <1>10, <1>11

-----------------------------------------------------------------------------
(* Types: the invariant.                                                   *)

\* What TypeOK says of everything but the page and the rows.
OtherTypes ==
    /\ server \in [RiSc -> Stored]
    /\ dialog \in [open : BOOLEAN, content : Content]
    /\ chosen \in [RiSc -> Content]
    /\ orderly \in BOOLEAN /\ failed \in BOOLEAN
    /\ used \in [edits : 0..MaxEdits, faults : 0..MaxFaults, moves : 0..MaxMoves]

\* How many requests there may be, now and from the rows.
Most == MaxUnderWay + 2 * used.edits

\* The strengthening of TypeOK: an edit pays for the requests of the rows.
TypeInv ==
    /\ OtherTypes
    /\ Loaded(page, rows, Most)
    /\ HasPending(rows) => used.edits # 0

LEMMA InvTypes == TypeInv => TypeOK
BY DEF TypeInv, OtherTypes, Loaded, PageTypes, TypeOK

\* The numbers a step starts from.
LEMMA Numbers ==
    ASSUME TypeInv
    PROVE  LET n == Cardinality(page.requests)
           IN  /\ n \in Nat /\ Most \in Nat /\ used.edits \in Nat
               /\ used.edits <= MaxEdits /\ Most \in Slots
               /\ Waiting(rows) \in 0..2 /\ n + Waiting(rows) <= Most
               /\ Waiting(rows) # 0 => used.edits # 0
               /\ n \in Slots /\ Holds(page, n)
               /\ page \in Pages /\ rows \in Rows
<1>1. /\ PageTypes(page) /\ rows \in Rows
      /\ Cardinality(page.requests) + Waiting(rows) <= Most
  BY DEF TypeInv, Loaded
<1>2. Cardinality(page.requests) \in Nat
  BY <1>1, FS_CardinalityType DEF PageTypes
<1>3. used.edits \in 0..MaxEdits
  BY DEF TypeInv, OtherTypes
<1>4. Waiting(rows) \in 0..2 /\ (Waiting(rows) # 0 => used.edits # 0)
  BY DEF Waiting, TypeInv
<1>5. Most \in Nat /\ Most \in Slots
  BY <1>3, BoundsAreNumbers DEF Most, MaxNo
<1>6. Cardinality(page.requests) \in Slots
  <2>1. Cardinality(page.requests) <= Most
    BY <1>1, <1>2, <1>4, <1>5
  <2> QED BY <1>2, <1>5, <2>1, BoundsAreNumbers
<1>7. used.edits \in Nat /\ used.edits <= MaxEdits
  BY <1>3, BoundsAreNumbers
<1> QED BY <1>1, <1>2, <1>4, <1>5, <1>6, <1>7 DEF Holds, PageTypes

\* What is remembered of a step.
LEMMA HistoryTypes ==
    ASSUME TypeInv, NEW inTurn, NEW edited, KeepHistory(inTurn, edited),
           edited # {} => Edit \in 0..MaxEdits
    PROVE  chosen' \in [RiSc -> Content] /\ orderly' \in BOOLEAN /\ failed' \in BOOLEAN
<1>1. chosen \in [RiSc -> Content]
  BY DEF TypeInv, OtherTypes
<1>2. failed' \in BOOLEAN /\ orderly' \in BOOLEAN
  BY DEF KeepHistory
<1>3. chosen' \in [RiSc -> Content]
  <2>1. CASE failed'
    BY <2>1, BlankTypes DEF KeepHistory
  <2>2. CASE ~failed'
    <3>1. chosen' = [id \in RiSc |-> [i \in Item |->
                       IF id = page.selected.id /\ i \in edited THEN Edit ELSE chosen[id][i]]]
      BY <2>2 DEF KeepHistory
    <3>2. ASSUME NEW id \in RiSc, NEW i \in Item
          PROVE  (IF id = page.selected.id /\ i \in edited THEN Edit ELSE chosen[id][i])
                     \in 0..MaxEdits
      BY <1>1 DEF Content
    <3> HIDE DEF Edit
    <3> QED BY <3>1, <3>2 DEF Content
  <2> QED BY <2>1, <2>2
<1> QED BY <1>2, <1>3

\* An edit is counted.
LEMMA EditTypes ==
    ASSUME TypeInv, Edits
    PROVE  /\ used' \in [edits : 0..MaxEdits, faults : 0..MaxFaults, moves : 0..MaxMoves]
           /\ used'.edits = used.edits + 1 /\ used'.edits # 0
           /\ Edit \in 0..MaxEdits
           /\ Most' = Most + 2 /\ Most' \in Slots
           /\ page.selected.id # None
<1>1. used \in [edits : 0..MaxEdits, faults : 0..MaxFaults, moves : 0..MaxMoves]
  BY DEF TypeInv, OtherTypes
<1>2. used.edits < MaxEdits /\ used' = [used EXCEPT !.edits = used.edits + 1]
      /\ page.selected.id # None
  BY <1>1 DEF Edits, Count
<1>3. /\ used.edits \in Nat /\ used'.edits = used.edits + 1 /\ used'.edits # 0
      /\ used'.edits \in 0..MaxEdits
  BY <1>1, <1>2, BoundsAreNumbers
<1>4. used' \in [edits : 0..MaxEdits, faults : 0..MaxFaults, moves : 0..MaxMoves]
  BY <1>1, <1>2, <1>3
<1>5. Most' = Most + 2 /\ Most' \in Slots
  BY <1>3, BoundsAreNumbers DEF Most, MaxNo
<1> QED BY <1>2, <1>3, <1>4, <1>5 DEF Edit

\* A fault or a move is counted, and no edit.
LEMMA CountTypes ==
    ASSUME TypeInv, Count("faults", MaxFaults) \/ Count("moves", MaxMoves)
    PROVE  /\ used' \in [edits : 0..MaxEdits, faults : 0..MaxFaults, moves : 0..MaxMoves]
           /\ used'.edits = used.edits
<1>1. used \in [edits : 0..MaxEdits, faults : 0..MaxFaults, moves : 0..MaxMoves]
  BY DEF TypeInv, OtherTypes
<1>2. CASE Count("faults", MaxFaults)
  <2>1. used.faults < MaxFaults /\ used' = [used EXCEPT !.faults = used.faults + 1]
    BY <1>1, <1>2 DEF Count
  <2>2. used.faults + 1 \in 0..MaxFaults
    BY <1>1, <2>1, BoundsAreNumbers
  <2> QED BY <1>1, <2>1, <2>2
<1>3. CASE Count("moves", MaxMoves)
  <2>1. used.moves < MaxMoves /\ used' = [used EXCEPT !.moves = used.moves + 1]
    BY <1>1, <1>3 DEF Count
  <2>2. used.moves + 1 \in 0..MaxMoves
    BY <1>1, <2>1, BoundsAreNumbers
  <2> QED BY <1>1, <2>1, <2>2
<1> QED BY <1>2, <1>3

-----------------------------------------------------------------------------
(* Types: every step.                                                      *)

Bounded == used \in [edits : 0..MaxEdits, faults : 0..MaxFaults, moves : 0..MaxMoves]

\* What is left to show of a step that keeps the history.
LEMMA StepTypes ==
    ASSUME TypeInv, NEW inTurn, NEW edited, KeepHistory(inTurn, edited),
           edited # {} => Edit \in 0..MaxEdits,
           server' \in [RiSc -> Stored], dialog' \in [open : BOOLEAN, content : Content],
           Bounded', Loaded(page', rows', Most'),
           HasPending(rows') => used'.edits # 0
    PROVE  TypeInv'
BY HistoryTypes DEF TypeInv, OtherTypes, Bounded

\* A form or a dialog saves content of the user.
LEMMA SubmitEditTypes ==
    ASSUME TypeInv, Edits, NEW content \in Content,
           Show(UpdateRiSc(page, page, content, {}), FALSE, rows)
    PROVE  Loaded(page', rows', Most')
<1> DEFINE n == Cardinality(page.requests)
           p == UpdateRiSc(page, page, content, {})
<1>1. /\ n \in Nat /\ Most \in Nat /\ Waiting(rows) \in Nat /\ n + Waiting(rows) <= Most
      /\ Holds(page, n) /\ page \in Pages /\ rows \in Rows
  BY Numbers
<1>2. Most' = Most + 2 /\ Most' \in Slots
  BY EditTypes
<1> HIDE DEF n
<1>3. n + 1 \in Slots /\ n + 1 + Waiting(rows) <= Most'
  BY <1>1, <1>2, BoundsAreNumbers
<1>4. Holds(p, n + 1)
  BY <1>1, <1>3, UpdateHolds
<1> HIDE DEF p
<1>5. Show(p, FALSE, rows)
  BY DEF p
<1> QED BY <1>1, <1>2, <1>3, <1>4, <1>5, ShowHolds

\* The user sends a request of another kind.
LEMMA SubmitTypes ==
    ASSUME TypeInv, Submits, NEW p, Holds(p, Cardinality(page.requests) + 1),
           Show(p, FALSE, rows)
    PROVE  Loaded(page', rows', Most)
<1> DEFINE n == Cardinality(page.requests)
<1>1. /\ n \in Nat /\ Most \in Nat /\ Waiting(rows) \in 0..2 /\ used.edits \in Nat
      /\ Waiting(rows) # 0 => used.edits # 0
      /\ page \in Pages /\ rows \in Rows /\ Most \in Slots
  BY Numbers
<1>2. n < MaxUnderWay
  BY DEF Submits
<1> HIDE DEF n
<1>3. n + 1 + Waiting(rows) <= Most
  BY <1>1, <1>2, BoundsAreNumbers DEF Most
<1> QED BY <1>1, <1>3, ShowHolds DEF n

\* There is a number left for a request the user may send.
LEMMA SubmitHolds ==
    ASSUME TypeInv, Submits, NEW kind \in {"delete", "approve", "create"},
           NEW new \in Selections, new.id \in RiSc
    PROVE  Holds(Send(page, Request(kind, page, new, {})), Cardinality(page.requests) + 1)
<1> DEFINE n == Cardinality(page.requests)
           request == Request(kind, page, new, {})
<1>1. n \in Nat /\ Holds(page, n) /\ page \in Pages /\ n < MaxUnderWay
  BY Numbers DEF Submits
<1>2. n + 1 \in Slots
  <2> HIDE DEF n
  <2> QED BY <1>1, BoundsAreNumbers DEF MaxNo
<1>3. request \in Requests /\ request.answer = "none" /\ request.new = new
  BY <1>1, RequestTypes
<1> HIDE DEF n, request
<1>4. Holds(Send(page, request), n + 1)
  BY <1>1, <1>2, <1>3, SendHolds
<1> QED BY <1>4 DEF n, request

\* The fields of the page and the dialog that the handlers use.
LEMMA PageFieldTypes ==
    ASSUME TypeInv
    PROVE  /\ page.selected \in Selections /\ page.selected.content \in Content
           /\ page.selected.id # None => page.selected.id \in RiSc
           /\ page.list \in Lists /\ DOMAIN page.list \subseteq RiSc
           /\ server \in [RiSc -> Stored]
           /\ dialog \in [open : BOOLEAN, content : Content] /\ dialog.content \in Content
           /\ NoDialog \in [open : BOOLEAN, content : Content]
           /\ Bounded
<1>1. page \in Pages
  BY Numbers
<1>2. page.selected \in Selections /\ page.list \in Lists
  BY <1>1 DEF Pages
<1> QED BY <1>2, ListsAre, BlankTypes DEF Selections, TypeInv, OtherTypes, NoDialog, Bounded

\* Editing.
LEMMA EditsTypes ==
    ASSUME TypeInv, (\E i \in Actions : OnNewActionStatus(i) \/ SaveAction(i)) \/ SubmitDialog
    PROVE  TypeInv'
<1>1. ASSUME NEW i \in Actions, OnNewActionStatus(i)
      PROVE  TypeInv'
  <2>1. /\ rows.open /\ rows' = [rows EXCEPT !.pending[i] = Edit, !.timer = TRUE]
        /\ UNCHANGED <<server, page, dialog>> /\ KeepHistory(Quiet, {i}) /\ Edits
    BY <1>1 DEF OnNewActionStatus
  <2>2. i \in Item
    BY DEF Actions
  <2>3. Edit \in 0..MaxEdits /\ Bounded' /\ used'.edits # 0 /\ Most' = Most + 2
    BY <2>1, EditTypes DEF Bounded
  <2>4. rows' \in Rows
    <3>1. rows \in Rows
      BY Numbers
    <3> HIDE DEF Edit
    <3> QED BY <2>1, <2>2, <2>3, <3>1 DEF Rows, Content
  <2>5. Cardinality(page.requests) + Waiting(rows') <= Most'
    <3> DEFINE n == Cardinality(page.requests)
    <3>1. n \in Nat /\ Most \in Nat /\ Waiting(rows) \in Nat /\ n + Waiting(rows) <= Most
      BY Numbers
    <3>2. Waiting(rows') \in 0..2
      BY DEF Waiting
    <3> HIDE DEF n
    <3> QED BY <2>3, <3>1, <3>2 DEF n
  <2>6. Loaded(page', rows', Most')
    BY <2>1, <2>4, <2>5 DEF TypeInv, Loaded
  <2> QED BY <2>1, <2>3, <2>6, StepTypes, PageFieldTypes
<1>2. ASSUME NEW i \in Actions, SaveAction(i)
      PROVE  TypeInv'
  <2> DEFINE content == [page.selected.content EXCEPT ![i] = Edit]
  <2>1. /\ Edits /\ Show(UpdateRiSc(page, page, content, {}), FALSE, rows)
        /\ UNCHANGED <<server, dialog>> /\ KeepHistory(Quiet /\ rows.pending[i] = 0, {i})
    BY <1>2 DEF SaveAction
  <2>2. Edit \in 0..MaxEdits /\ Bounded' /\ used'.edits # 0
    BY <2>1, EditTypes DEF Bounded
  <2>3. content \in Content
    <3> HIDE DEF Edit
    <3> QED BY <2>2, PageFieldTypes DEF Content, Actions
  <2> HIDE DEF content
  <2>4. Loaded(page', rows', Most')
    BY <2>1, <2>3, SubmitEditTypes
  <2> QED BY <2>1, <2>2, <2>4, StepTypes, PageFieldTypes
<1>3. CASE SubmitDialog
  <2> DEFINE content == [dialog.content EXCEPT ![Info] = Edit]
  <2>1. /\ Edits /\ Show(UpdateRiSc(page, page, content, {}), FALSE, rows)
        /\ server' = server /\ dialog' = NoDialog /\ KeepHistory(Quiet, {Info})
    BY <1>3 DEF SubmitDialog
  <2>2. Edit \in 0..MaxEdits /\ Bounded' /\ used'.edits # 0
    BY <2>1, EditTypes DEF Bounded
  <2>3. content \in Content
    <3> HIDE DEF Edit
    <3> QED BY <2>2, PageFieldTypes, PageAssumption DEF Content
  <2> HIDE DEF content
  <2>4. Loaded(page', rows', Most')
    BY <2>1, <2>3, SubmitEditTypes
  <2> QED BY <2>1, <2>2, <2>4, StepTypes, PageFieldTypes
<1> QED BY <1>1, <1>2, <1>3

\* An action that counts nothing and sends what the user asked for.
LEMMA SentTypes ==
    ASSUME TypeInv, Submits, NEW p, Holds(p, Cardinality(page.requests) + 1),
           Show(p, FALSE, rows), UNCHANGED <<server, dialog, used>>,
           NEW inTurn, KeepHistory(inTurn, {})
    PROVE  TypeInv'
<1>1. Loaded(page', rows', Most') /\ Most' = Most
  BY SubmitTypes DEF Most
<1>2. HasPending(rows') => used'.edits # 0
  <2>1. rows' \in {rows, Closed}
    BY DEF Show
  <2>2. ~HasPending(Closed)
    BY DEF Closed, HasPending
  <2> QED BY <2>1, <2>2 DEF TypeInv
<1> QED BY <1>1, <1>2, StepTypes, PageFieldTypes DEF Bounded

\* Deleting, approving and creating.
LEMMA SubmissionsTypes ==
    ASSUME TypeInv,
           SubmitDeletion \/ HandleApproveAndPublish \/ \E id \in RiSc : SubmitCreation(id)
    PROVE  TypeInv'
<1> DEFINE sel == page.selected
           n == Cardinality(page.requests)
<1>1. CASE SubmitDeletion
  <2> DEFINE new == [sel EXCEPT !.status = "DeletionDraft"]
  <2>1. new \in Selections /\ new.id \in RiSc
    BY <1>1, PageFieldTypes DEF Selections, Statuses, SubmitDeletion
  <2> HIDE DEF new
  <2>2. Holds(Send(page, Request("delete", page, new, {})), n + 1)
    BY <1>1, <2>1, SubmitHolds DEF SubmitDeletion
  <2> QED BY <1>1, <2>2, SentTypes DEF SubmitDeletion, DeleteRiSc, new
<1>2. CASE HandleApproveAndPublish
  <2> DEFINE status == IF sel.status = "Draft" THEN "SentForApproval"
                                               ELSE "DeletionSentForApproval"
             new == [sel EXCEPT !.status = status]
  <2>1. new \in Selections /\ new.id \in RiSc
    BY <1>2, PageFieldTypes DEF Selections, Statuses, HandleApproveAndPublish
  <2> HIDE DEF new
  <2>2. Holds(Send(page, Request("approve", page, new, {})), n + 1)
    BY <1>2, <2>1, SubmitHolds DEF HandleApproveAndPublish
  <2>3. ApproveRiSc(page) = Send(page, Request("approve", page, new, {}))
    BY DEF ApproveRiSc, new
  <2> QED BY <1>2, <2>2, <2>3, SentTypes DEF HandleApproveAndPublish
<1>3. ASSUME NEW id \in RiSc, SubmitCreation(id)
      PROVE  TypeInv'
  <2> DEFINE new == Selected(id, VersionOf(NoRiSc))
             q == Send(page, Request("create", page, new, {}))
             p == CreateNewRiSc(page, id)
  <2>1. NoRiSc \in Selections /\ new \in Selections /\ new.id \in RiSc
    BY BlankTypes DEF NoRiSc, Selections, Statuses, Selected, VersionOf
  <2> HIDE DEF new
  <2>2. Submits
    BY <1>3 DEF SubmitCreation
  <2>3. Holds(q, n + 1)
    BY <2>1, <2>2, SubmitHolds
  <2>4. p = [q EXCEPT !.selected = NoRiSc, !.spinner = TRUE]
    BY DEF CreateNewRiSc, new
  <2> HIDE DEF q, p
  <2>5. p \in Pages /\ p.requests = q.requests
    BY <2>1, <2>3, <2>4 DEF Holds, PageTypes, Pages
  <2>6. Holds(p, n + 1)
    BY <2>3, <2>5, SameRequests
  <2>7. Show(p, FALSE, rows) /\ UNCHANGED <<server, dialog, used>> /\ KeepHistory(Quiet, {})
    BY <1>3 DEF SubmitCreation, p
  <2> QED BY <2>2, <2>6, <2>7, SentTypes
<1> QED BY <1>1, <1>2, <1>3

\* Without a request of the user there is at most one flush.
LEMMA ShownTypes ==
    ASSUME TypeInv, NEW p, NEW n, Holds(p, n), n <= Cardinality(page.requests),
           NEW setsList, NEW r \in Rows, n + Waiting(r) <= Most,
           HasPending(r) => used.edits # 0,
           Show(p, setsList, r), UNCHANGED <<server, dialog>>,
           Bounded', used'.edits = used.edits,
           NEW inTurn, KeepHistory(inTurn, {})
    PROVE  TypeInv'
<1> DEFINE k == Cardinality(page.requests)
<1>1. /\ k \in Nat /\ Most \in Nat /\ Waiting(rows) \in Nat /\ k + Waiting(rows) <= Most
      /\ page \in Pages /\ rows \in Rows /\ Most \in Slots
  BY Numbers
<1>2. n \in Nat /\ n <= k
  BY BoundsAreNumbers DEF Holds
<1> HIDE DEF k
<1>3. n + Waiting(rows) <= Most
  BY <1>1, <1>2
<1>4. Loaded(page', rows', Most) /\ rows' \in {r, Closed}
  BY <1>1, <1>3, ShowHolds
<1>5. HasPending(rows') => used'.edits # 0
  <2>1. ~HasPending(Closed)
    BY DEF Closed, HasPending
  <2> QED BY <1>4, <2>1
<1>6. Most' = Most
  BY DEF Most
<1> QED BY <1>4, <1>5, <1>6, StepTypes, PageFieldTypes

\* Opening another RiSc, the rows or a dialog, and leaving the rows.
LEMMA MovesTypes ==
    ASSUME TypeInv,
           OpenDialog \/ OpenRows \/ CloseRows \/ \E id \in RiSc : SelectRiSc(id)
    PROVE  TypeInv'
<1> DEFINE n == Cardinality(page.requests)
<1>1. /\ n \in Nat /\ Most \in Nat /\ Waiting(rows) \in Nat /\ n + Waiting(rows) <= Most
      /\ page \in Pages /\ rows \in Rows /\ Holds(page, n) /\ Most \in Slots
  BY Numbers
<1>2. CASE OpenDialog
  <2>1. dialog' \in [open : BOOLEAN, content : Content]
    BY <1>2, PageFieldTypes DEF OpenDialog
  <2>2. UNCHANGED <<server, page, rows, used, Most>> /\ KeepHistory(Quiet, {})
    BY <1>2 DEF OpenDialog, Most
  <2> QED BY <2>1, <2>2, StepTypes, PageFieldTypes DEF TypeInv, Bounded
<1>3. CASE OpenRows
  <2>1. /\ rows' = [Closed EXCEPT !.open = TRUE] /\ page' = page
        /\ Count("moves", MaxMoves) /\ UNCHANGED <<server, dialog>> /\ KeepHistory(TRUE, {})
    BY <1>3 DEF OpenRows, Move
  <2>2. rows' \in Rows /\ Waiting(rows') = 0 /\ ~HasPending(rows')
    BY <2>1, BlankTypes DEF Closed, Rows, Waiting, HasPending
  <2>3. Bounded' /\ used'.edits = used.edits /\ Most' = Most
    BY <2>1, CountTypes DEF Bounded, Most
  <2>4. Loaded(page', rows', Most')
    <3>1. n + Waiting(rows') <= Most
      BY <1>1, <2>2
    <3> QED BY <1>1, <2>1, <2>2, <2>3, <3>1 DEF Loaded, Holds
  <2> QED BY <2>1, <2>2, <2>3, <2>4, StepTypes, PageFieldTypes
<1>4. CASE CloseRows
  <2> DEFINE p == Flush(page, page, rows)
  <2>1. /\ page' = Detached(p) /\ rows' = Closed
        /\ UNCHANGED <<server, dialog, used>> /\ KeepHistory(Quiet, {})
    BY <1>4 DEF CloseRows
  <2>2. Waiting(rows) # 0 <=> HasPending(rows)
    BY DEF Waiting
  <2>3. HasPending(rows) => n + 1 \in Slots /\ n + 1 <= Most
    <3> HIDE DEF n
    <3> QED BY <1>1, <2>2, BoundsAreNumbers
  <2>4. Holds(p, IF HasPending(rows) THEN n + 1 ELSE n)
    <3> HIDE DEF n
    <3> QED BY <1>1, <2>3, SavePendingHolds DEF Flush
  <2> HIDE DEF p
  <2>5. Holds(page', IF HasPending(rows) THEN n + 1 ELSE n)
    BY <2>1, <2>4, DetachedHolds
  <2>6. rows' \in Rows /\ Waiting(rows') = 0 /\ ~HasPending(rows')
    BY <2>1, BlankTypes DEF Closed, Rows, Waiting, HasPending
  <2>7. Cardinality(page'.requests) <= Most /\ Cardinality(page'.requests) \in Nat
    <3> HIDE DEF n
    <3>1. Cardinality(page'.requests) \in Nat
      BY <2>5, FS_CardinalityType DEF Holds, PageTypes
    <3>2. Cardinality(page'.requests) <= IF HasPending(rows) THEN n + 1 ELSE n
      BY <2>5 DEF Holds
    <3> QED BY <1>1, <2>3, <3>1, <3>2
  <2>8. Most' = Most /\ Bounded'
    BY <2>1, PageFieldTypes DEF Most, Bounded
  <2>9. Loaded(page', rows', Most')
    BY <2>5, <2>6, <2>7, <2>8 DEF Loaded, Holds
  <2> QED BY <2>1, <2>6, <2>8, <2>9, StepTypes, PageFieldTypes
<1>5. ASSUME NEW id \in RiSc, SelectRiSc(id)
      PROVE  TypeInv'
  <2> DEFINE p == [page EXCEPT !.url = id]
  <2>1. /\ Show(p, FALSE, rows) /\ Count("moves", MaxMoves)
        /\ UNCHANGED <<server, dialog>> /\ KeepHistory(Quiet, {})
    BY <1>5 DEF SelectRiSc, Move
  <2>2. p \in Pages /\ p.requests = page.requests
    BY <1>1 DEF Pages
  <2> HIDE DEF p
  <2>3. Holds(p, n)
    BY <1>1, <2>2, SameRequests
  <2>4. Bounded' /\ used'.edits = used.edits
    BY <2>1, CountTypes DEF Bounded
  <2>5. HasPending(rows) => used.edits # 0
    BY DEF TypeInv
  <2>6. n <= Cardinality(page.requests)
    BY <1>1
  <2> HIDE DEF n
  <2> QED BY <1>1, <2>1, <2>3, <2>4, <2>5, <2>6, ShownTypes
<1> QED BY <1>2, <1>3, <1>4, <1>5

\* The timer sends what is pending and stops.
LEMMA TimerTypes ==
    ASSUME TypeInv, DebounceTimer
    PROVE  TypeInv'
<1> DEFINE n == Cardinality(page.requests)
           p == SavePending(page, page, rows, PendingItems(rows))
           refused == HasPending(rows) /\ Marked(page.selected.status)
<1>1. /\ n \in Nat /\ Most \in Nat /\ Waiting(rows) \in Nat /\ n + Waiting(rows) <= Most
      /\ page \in Pages /\ rows \in Rows /\ Holds(page, n) /\ Most \in Slots
  BY Numbers
<1>2. /\ page' = p /\ rows.timer /\ UNCHANGED <<server, dialog, used>> /\ KeepHistory(TRUE, {})
      /\ rows' = [rows EXCEPT !.timer = refused,
                              !.pending = IF refused THEN Blank ELSE rows.pending]
  BY <1>1 DEF DebounceTimer, Rows
<1>3. refused \in BOOLEAN
  OBVIOUS
<1> HIDE DEF n
<1>4. HasPending(rows) => n + 1 \in Slots /\ n + 2 <= Most
  BY <1>1, <1>2, BoundsAreNumbers DEF Waiting
<1>5. Holds(p, IF HasPending(rows) THEN n + 1 ELSE n)
  BY <1>1, <1>4, SavePendingHolds DEF PendingItems
<1> HIDE DEF p, refused
<1>6. /\ rows' \in Rows
      /\ HasPending(rows') => HasPending(rows)
      /\ HasPending(rows') => ~rows'.timer
  <2>1. CASE refused
    <3>1. rows' = [rows EXCEPT !.timer = refused, !.pending = Blank]
      BY <1>2, <2>1
    <3>2. rows'.pending = Blank /\ rows' \in Rows
      BY <1>1, <1>3, <3>1, BlankTypes DEF Rows
    <3> QED BY <3>2 DEF HasPending
  <2>2. CASE ~refused
    <3>1. rows' = [rows EXCEPT !.timer = FALSE, !.pending = rows.pending]
      BY <1>2, <1>3, <2>2
    <3>2. rows'.pending = rows.pending /\ ~rows'.timer /\ rows' \in Rows
      BY <1>1, <3>1 DEF Rows
    <3> QED BY <3>2 DEF HasPending
  <2> QED BY <2>1, <2>2
<1>7. Waiting(rows') \in Nat /\ Waiting(rows') <= 1 /\ (Waiting(rows') # 0 => HasPending(rows))
  BY <1>6 DEF Waiting
<1>8. Cardinality(page'.requests) + Waiting(rows') <= Most
  <2>1. Cardinality(page'.requests) \in Nat
    BY <1>2, <1>5, FS_CardinalityType DEF Holds, PageTypes
  <2>2. Cardinality(page'.requests) <= IF HasPending(rows) THEN n + 1 ELSE n
    BY <1>2, <1>5 DEF Holds
  <2> QED BY <1>1, <1>4, <1>7, <2>1, <2>2
<1>9. Most' = Most /\ Bounded'
  BY <1>2, PageFieldTypes DEF Most, Bounded
<1>10. Loaded(page', rows', Most')
  BY <1>2, <1>5, <1>6, <1>8, <1>9 DEF Loaded, Holds
<1>11. HasPending(rows') => used'.edits # 0
  BY <1>2, <1>6 DEF TypeInv
<1> QED BY <1>2, <1>9, <1>10, <1>11, StepTypes, PageFieldTypes

\* What becomes of the rows when a batch is answered.
LEMMA BatchTypes ==
    ASSUME TypeInv, NEW c, NEW r \in {rows, Confirmed(c), Dropped(c)}
    PROVE  /\ r \in Rows
           /\ HasPending(r) => HasPending(rows)
           /\ Waiting(r) \in Nat /\ Waiting(r) <= Waiting(rows) + 1
<1>1. rows \in Rows
  BY Numbers
<1>2. r \in Rows /\ (HasPending(r) => HasPending(rows))
  <2>1. CASE r = rows
    BY <1>1, <2>1
  <2>2. CASE r = Confirmed(c) /\ c.batch # {}
    <3> DEFINE pending == [i \in Item |-> IF i \in c.batch THEN 0 ELSE rows.pending[i]]
    <3>1. r = [rows EXCEPT !.pending = pending, !.timer = TRUE]
      BY <1>1, <2>2 DEF Confirmed, Rows
    <3>2. pending \in Content
      BY <1>1, PageAssumption DEF Rows, Content
    <3>3. rows.pending = Blank => pending = Blank
      BY DEF Blank
    <3> HIDE DEF pending
    <3>4. r.pending = pending /\ r \in Rows
      BY <1>1, <3>1, <3>2 DEF Rows
    <3> QED BY <3>3, <3>4 DEF HasPending
  <2>3. CASE r = Dropped(c) /\ c.batch # {}
    <3>1. r.pending = Blank /\ r \in Rows
      BY <1>1, <2>3, BlankTypes DEF Dropped, Rows
    <3> QED BY <3>1 DEF HasPending
  <2>4. CASE c.batch = {}
    BY <1>1, <2>4 DEF Confirmed, Dropped
  <2> QED BY <2>1, <2>2, <2>3, <2>4
<1> QED BY <1>2 DEF Waiting

\* Every way in which a request is answered.
LEMMA ReceiveTypes ==
    ASSUME TypeInv, NEW c \in page.requests, Receive(c)
    PROVE  TypeInv'
<1> DEFINE n == Cardinality(page.requests)
<1>1. /\ n \in Nat /\ Most \in Nat /\ Waiting(rows) \in Nat /\ n + Waiting(rows) <= Most
      /\ page \in Pages /\ rows \in Rows /\ Holds(page, n)
  BY Numbers
<1>2. n # 0 /\ c \in Requests
  BY <1>1, AnsweredHolds
<1>3. /\ UNCHANGED <<server, dialog, used>> /\ KeepHistory(TRUE, {})
      /\ Bounded' /\ used'.edits = used.edits
  BY PageFieldTypes DEF Receive, Bounded
<1>4. ASSUME NEW p, Holds(p, n - 1), NEW setsList,
             NEW r \in {rows, Confirmed(c), Dropped(c)}, Show(p, setsList, r)
      PROVE  TypeInv'
  <2>1. /\ r \in Rows /\ (HasPending(r) => HasPending(rows))
        /\ Waiting(r) \in Nat /\ Waiting(r) <= Waiting(rows) + 1
    BY BatchTypes
  <2>2. HasPending(r) => used.edits # 0
    BY <2>1 DEF TypeInv
  <2>3. n - 1 <= Cardinality(page.requests)
    BY <1>1
  <2> HIDE DEF n
  <2>4. n - 1 + Waiting(r) <= Most
    BY <1>1, <1>2, <2>1
  <2> QED BY <1>3, <1>4, <2>1, <2>2, <2>3, <2>4, ShownTypes
<1>5. /\ Holds(OnSaved(page, c), n - 1) /\ Holds(OnCreated(page, c), n - 1)
      /\ Holds(OnError(page, c), n - 1)
      /\ \A first \in DOMAIN c.list, other \in DOMAIN c.list \cup {None} :
            Holds(OnDeleted(page, c, first, other), n - 1)
  BY <1>1, CallbacksHold
<1> HIDE DEF n
<1>6. CASE Show(OnError(page, c), FALSE, Dropped(c))
  BY <1>4, <1>5, <1>6
<1>7. CASE Show(OnCreated(page, c), TRUE, rows)
  BY <1>4, <1>5, <1>7
<1>8. CASE Show(OnSaved(page, c), TRUE, Confirmed(c))
  BY <1>4, <1>5, <1>8
<1>9. CASE \E first \in DOMAIN c.list, other \in (DOMAIN c.list \ {c.old.id}) \cup {None} :
              Show(OnDeleted(page, c, first, other), TRUE, rows)
  <2>1. PICK first \in DOMAIN c.list, other \in (DOMAIN c.list \ {c.old.id}) \cup {None} :
                Show(OnDeleted(page, c, first, other), TRUE, rows)
    BY <1>9
  <2>2. Holds(OnDeleted(page, c, first, other), n - 1)
    BY <1>5
  <2> QED BY <1>4, <2>1, <2>2
<1> QED BY <1>6, <1>7, <1>8, <1>9 DEF Receive

\* An answer that is on its way takes the place of none.
LEMMA AnswerTypes ==
    ASSUME TypeInv, NEW c \in page.requests, NEW answer \in {"none", "ok", "deleted", "error"},
           answer = "deleted" => c.kind = "delete", Answer(c, answer)
    PROVE  /\ PageTypes(page')
           /\ Cardinality(page'.requests) + Waiting(rows) <= Most
<1> DEFINE R == page.requests
           d == [c EXCEPT !.answer = answer]
<1>1. /\ page \in Pages /\ IsFiniteSet(R) /\ PageTypes(page)
      /\ Cardinality(R) + Waiting(rows) <= Most
  BY DEF TypeInv, Loaded, PageTypes
<1>2. c \in Requests
  BY <1>1 DEF Pages
<1>3. /\ d \in Requests /\ d.no = c.no /\ d.answer = answer /\ d.kind = c.kind
      /\ d.new = c.new
  BY <1>2 DEF Requests
<1>4. page' = [page EXCEPT !.requests = (R \ {c}) \cup {d}]
  BY <1>1 DEF Answer, Pages
<1> HIDE DEF d
<1>5. page' \in Pages /\ page'.requests = (R \ {c}) \cup {d}
  BY <1>1, <1>3, <1>4 DEF Pages
<1>6. \A e \in page'.requests : /\ e.no \in Slots
                                /\ e.answer = "deleted" => e.kind = "delete"
                                /\ e.new.id \in RiSc
  BY <1>1, <1>3, <1>5 DEF PageTypes
<1> HIDE DEF R
<1>7. /\ IsFiniteSet(R \ {c}) /\ Cardinality(R \ {c}) = Cardinality(R) - 1
      /\ Cardinality(R) \in Nat
  BY <1>1, FS_RemoveElement, FS_CardinalityType DEF R
<1> DEFINE Q == R \ {c}
<1> HIDE DEF Q
<1>8. IsFiniteSet(Q \cup {d}) /\ Cardinality(Q \cup {d}) \in {Cardinality(Q), Cardinality(Q) + 1}
  BY <1>7, FS_AddElement DEF Q
<1>9. Cardinality(page'.requests) <= Cardinality(R) /\ Cardinality(page'.requests) \in Nat
  <2>1. Cardinality(Q) = Cardinality(R) - 1 /\ page'.requests = Q \cup {d}
    BY <1>5, <1>7 DEF Q
  <2>2. Cardinality(Q) \in Nat
    BY <1>7, FS_CardinalityType DEF Q
  <2>3. Cardinality(page'.requests) \in {Cardinality(Q), Cardinality(Q) + 1}
    BY <1>8, <2>1
  <2> HIDE DEF Q, R
  <2> QED BY <1>7, <2>1, <2>2, <2>3
<1>10. Most \in Nat /\ Waiting(rows) \in Nat
  BY Numbers
<1>11. Cardinality(page'.requests) + Waiting(rows) <= Most
  BY <1>1, <1>7, <1>9, <1>10
<1>12. IsFiniteSet(page'.requests)
  BY <1>5, <1>8 DEF Q
<1> QED BY <1>5, <1>6, <1>11, <1>12 DEF PageTypes

\* What the backend makes of a request is still something it stores.
LEMMA ServedTypes ==
    ASSUME NEW c \in Requests, NEW stored \in Stored
    PROVE  Served(c, stored) \in Stored
<1>1. ASSUME NEW requires PROVE ServeUpdate(stored, c.new.content, requires) \in Stored
  <2> DEFINE status == IF stored.status = "SentForApproval" /\ ~requires
                       THEN stored.status ELSE "Draft"
  <2>1. status \in Statuses \cup {"Unborn", "Gone"}
    BY DEF Statuses
  <2>2. ServeUpdate(stored, c.new.content, requires)
           = [stored EXCEPT !.content = c.new.content, !.status = status]
    BY DEF ServeUpdate, Stored
  <2> HIDE DEF status
  <2> QED BY <2>1, <2>2 DEF Stored, Requests, Selections
<1>2. ServeDelete(stored) \in Stored
  <2> DEFINE status == IF ~stored.published THEN "Gone"
                       ELSE IF stored.status = "SentForApproval" THEN "DeletionSentForApproval"
                            ELSE "DeletionDraft"
  <2>1. status \in Statuses \cup {"Unborn", "Gone"}
    BY DEF Statuses
  <2>2. ServeDelete(stored) = [stored EXCEPT !.status = status]
    BY DEF ServeDelete, Stored
  <2> HIDE DEF status
  <2> QED BY <2>1, <2>2 DEF Stored
<1>3. ServeApprove(stored) \in Stored
  <2> DEFINE status == IF Marked(stored.status) THEN "DeletionSentForApproval"
                                                ELSE "SentForApproval"
  <2>1. status \in Statuses \cup {"Unborn", "Gone"}
    BY DEF Statuses
  <2>2. ServeApprove(stored) = [stored EXCEPT !.status = status]
    BY DEF ServeApprove, Stored
  <2> HIDE DEF status
  <2> QED BY <2>1, <2>2 DEF Stored
<1> QED BY <1>1, <1>2, <1>3 DEF Served

\* The backend serves a request, or it is lost.
LEMMA BackendTypes ==
    ASSUME TypeInv, NEW c \in page.requests, Serve(c) \/ Fail(c)
    PROVE  TypeInv'
<1>1. page \in Pages /\ c \in Requests /\ c.new.id \in RiSc
  <2>1. page \in Pages /\ c.new.id \in RiSc
    BY DEF TypeInv, Loaded, PageTypes
  <2> QED BY <2>1 DEF Pages
<1>2. /\ rows' = rows /\ dialog' = dialog /\ KeepHistory(TRUE, {})
      /\ HasPending(rows) => used.edits # 0
      /\ rows \in Rows
  BY DEF Serve, Fail, Unchanged, TypeInv, Loaded
<1>3. CASE Serve(c)
  <2> DEFINE stored == server[c.new.id]
             answer == AnswerOf(c, stored)
  <2>1. stored \in Stored
    BY <1>1, PageFieldTypes
  <2>2. answer \in {"none", "ok", "deleted", "error"} /\ (answer = "deleted" => c.kind = "delete")
    BY DEF AnswerOf
  <2>3. Served(c, stored) \in Stored
    BY <1>1, <2>1, ServedTypes
  <2> HIDE DEF stored, answer
  <2>4. /\ used' = used
        /\ \/ Answer(c, "error") /\ server' = server
           \/ Answer(c, answer) /\ server' = [server EXCEPT ![c.new.id] = Served(c, stored)]
    BY <1>3 DEF Serve, stored, answer
  <2>5. server' \in [RiSc -> Stored]
    BY <1>1, <2>3, <2>4, PageFieldTypes
  <2>6. PageTypes(page') /\ Cardinality(page'.requests) + Waiting(rows) <= Most
    BY <2>2, <2>4, AnswerTypes
  <2>7. Most' = Most /\ Bounded'
    BY <2>4, PageFieldTypes DEF Most, Bounded
  <2>8. Loaded(page', rows', Most')
    BY <1>2, <2>6, <2>7 DEF Loaded
  <2> QED BY <1>2, <2>4, <2>5, <2>7, <2>8, StepTypes, PageFieldTypes
<1>4. CASE Fail(c)
  <2>1. Answer(c, "error") /\ server' = server /\ Count("faults", MaxFaults)
    BY <1>4 DEF Fail
  <2>2. PageTypes(page') /\ Cardinality(page'.requests) + Waiting(rows) <= Most
    BY <2>1, AnswerTypes
  <2>3. Most' = Most /\ Bounded' /\ used'.edits = used.edits
    BY <2>1, CountTypes DEF Most, Bounded
  <2>4. Loaded(page', rows', Most')
    BY <1>2, <2>2, <2>3 DEF Loaded
  <2> QED BY <1>2, <2>1, <2>3, <2>4, StepTypes, PageFieldTypes
<1> QED BY <1>3, <1>4

\* The two fetches send nothing, but the first RiSc is opened.
LEMMA FetchTypes ==
    ASSUME TypeInv, FetchRiScs \/ FailToFetchRiScs \/ FetchGcpCryptoKeys
    PROVE  TypeInv'
<1> DEFINE n == Cardinality(page.requests)
<1>1. /\ n \in Nat /\ Most \in Nat /\ Waiting(rows) \in Nat /\ n + Waiting(rows) <= Most
      /\ page \in Pages /\ rows \in Rows /\ Holds(page, n)
  BY Numbers
<1>2. HasPending(rows) => used.edits # 0
  BY DEF TypeInv
<1>3. n <= Cardinality(page.requests)
  BY <1>1
<1> HIDE DEF n
<1>4. CASE FetchRiScs
  <2> DEFINE list == Fetched(server)
  <2>1. list \in Lists
    <3>1. /\ DOMAIN list = {r \in RiSc : Exists(server[r])}
          /\ \A id \in DOMAIN list :
                list[id] = [content |-> server[id].content, status |-> server[id].status]
      BY DEF Fetched
    <3>2. \A id \in DOMAIN list : server[id] \in Stored /\ server[id].status \in Statuses
      BY <3>1, PageFieldTypes DEF Exists
    <3>3. \A id \in DOMAIN list : list[id] \in Version
      BY <3>1, <3>2 DEF Stored, Version
    <3>4. list = [id \in DOMAIN list |-> list[id]]
      BY DEF Fetched
    <3> HIDE DEF list
    <3> QED BY <3>1, <3>3, <3>4, ListsAre
  <2> HIDE DEF list
  <2>2. PICK first \in DOMAIN list \cup {None} : Show(OnFetched(page, list, first), TRUE, rows)
    BY <1>4 DEF FetchRiScs, list
  <2> DEFINE p == OnFetched(page, list, first)
             url == IF page.url \in DOMAIN list \/ first = None THEN page.url ELSE first
  <2>3. url \in RiSc \cup {None}
    BY <1>1, <2>1, ListsAre DEF Pages
  <2>4. p = [page EXCEPT !.fetched = TRUE, !.list = list, !.riScs = FALSE,
                         !.spinner = page.spinner /\ page.keys, !.url = url]
    BY <1>1 DEF OnFetched, Pages
  <2> HIDE DEF p, url
  <2>5. p \in Pages /\ p.requests = page.requests
    BY <1>1, <2>1, <2>3, <2>4 DEF Pages
  <2>6. Holds(p, n)
    BY <1>1, <2>5, SameRequests
  <2>7. /\ Show(p, TRUE, rows) /\ UNCHANGED <<server, dialog>> /\ KeepHistory(TRUE, {})
        /\ Bounded' /\ used'.edits = used.edits
    BY <1>4, <2>2, PageFieldTypes DEF FetchRiScs, p, Bounded
  <2> QED BY <1>1, <1>2, <1>3, <2>6, <2>7, ShownTypes
<1>5. CASE FailToFetchRiScs \/ FetchGcpCryptoKeys
  <2>1. /\ page' = OnFetchError(page) \/ page' = OnKeys(page)
        /\ UNCHANGED <<server, rows, dialog, used>> /\ KeepHistory(TRUE, {})
    BY <1>5 DEF FailToFetchRiScs, FetchGcpCryptoKeys, Unchanged
  <2>2. page' \in Pages /\ page'.requests = page.requests
    BY <1>1, <2>1 DEF OnFetchError, OnKeys, Pages
  <2>3. Holds(page', n)
    BY <1>1, <2>2, SameRequests
  <2>4. Cardinality(page'.requests) = n
    BY <2>2 DEF n
  <2>5. Most' = Most /\ Bounded'
    BY <2>1, PageFieldTypes DEF Most, Bounded
  <2>6. Loaded(page', rows', Most')
    BY <1>1, <2>1, <2>3, <2>4, <2>5 DEF Loaded, Holds
  <2> QED BY <1>2, <2>1, <2>5, <2>6, StepTypes, PageFieldTypes
<1> QED BY <1>4, <1>5

\* The page starts without requests, and with room for those of the user.
LEMMA InitTypes ==
    ASSUME Init
    PROVE  TypeInv
<1>1. /\ server \in [RiSc -> Stored] /\ page.requests = {}
      /\ rows = Closed /\ dialog = NoDialog /\ chosen = [id \in RiSc |-> Blank]
      /\ orderly = TRUE /\ failed = FALSE /\ used = [edits |-> 0, faults |-> 0, moves |-> 0]
  BY DEF Init
<1>2. OtherTypes
  <2>1. used \in [edits : 0..MaxEdits, faults : 0..MaxFaults, moves : 0..MaxMoves]
    BY <1>1, BoundsAreNumbers
  <2>2. /\ dialog \in [open : BOOLEAN, content : Content] /\ chosen \in [RiSc -> Content]
        /\ orderly \in BOOLEAN /\ failed \in BOOLEAN
    BY <1>1, BlankTypes DEF NoDialog
  <2> QED BY <1>1, <2>1, <2>2 DEF OtherTypes
<1>3. page \in Pages
  <2>1. NoRiSc \in Selections
    BY BlankTypes DEF NoRiSc, Selections, Statuses
  <2>2. <<>> \in Lists
    <3>1. DOMAIN <<>> = {} /\ <<>> \in [{} -> Version]
      OBVIOUS
    <3> QED BY <3>1, ListsAre
  <2>3. page \in [fetched : {FALSE}, list : {<<>>}, selected : {NoRiSc},
                  url : RiSc \cup {None}, keys : {TRUE}, riScs : {TRUE},
                  spinner : {TRUE}, status : {"idle"}, requests : {{}}]
    BY DEF Init
  <2> QED BY <2>1, <2>2, <2>3 DEF Pages
<1>4. IsFiniteSet(page.requests) /\ Cardinality(page.requests) = 0
  BY <1>1, FS_EmptySet
<1>5. rows \in Rows /\ ~HasPending(rows) /\ Waiting(rows) = 0
  BY <1>1, BlankTypes DEF Closed, Rows, HasPending, Waiting
<1>6. Most = MaxUnderWay
  BY <1>1, BoundsAreNumbers DEF Most
<1>7. Loaded(page, rows, Most)
  BY <1>1, <1>3, <1>4, <1>5, <1>6, BoundsAreNumbers DEF Loaded, PageTypes
<1> QED BY <1>2, <1>5, <1>7 DEF TypeInv

LEMMA NextTypes ==
    ASSUME TypeInv, [Next]_vars
    PROVE  TypeInv'
<1>1. CASE User
  BY <1>1, EditsTypes, SubmissionsTypes, MovesTypes DEF User
<1>2. CASE DebounceTimer
  BY <1>2, TimerTypes
<1>3. ASSUME NEW c \in page.requests, Serve(c) \/ Fail(c) \/ Receive(c)
      PROVE  TypeInv'
  BY <1>3, BackendTypes, ReceiveTypes
<1>4. CASE FetchRiScs \/ FailToFetchRiScs \/ FetchGcpCryptoKeys
  BY <1>4, FetchTypes
<1>5. CASE UNCHANGED vars
  BY <1>5 DEF vars, TypeInv, OtherTypes, Loaded, Most
<1> QED BY <1>1, <1>2, <1>3, <1>4, <1>5 DEF Next, Backend, Fetch

\* Every page, list, request and RiSc is of its type; there is a number for each
\* request under way, because the timer and the unmounting of the rows send at
\* most two requests per edit on top of those that the user waits for; and only
\* a deletion is answered with "deleted".
THEOREM TypeCorrect == Spec => []TypeOK
<1>1. Init => TypeInv
  BY InitTypes
<1>2. TypeInv /\ [Next]_vars => TypeInv'
  BY NextTypes
<1>3. TypeInv => TypeOK
  BY InvTypes
<1> QED BY <1>1, <1>2, <1>3, PTL DEF Spec

-----------------------------------------------------------------------------
(* One thing at a time: the invariant.                                     *)

\* What the page shows of a RiSc agrees with what the backend stores.
Agrees(shown, stored) ==
    /\ Marked(shown.status) <=> Marked(stored.status)
    /\ ~Marked(shown.status) =>
          /\ shown.content = stored.content
          /\ shown.status = stored.status \/ ShowsPublished(shown, stored)

\* A list is right about one RiSc.
Reflects(list, id, s) ==
    /\ id \in DOMAIN list <=> Exists(s[id])
    /\ id \in DOMAIN list => Agrees(list[id], s[id])

\* Content is what the user chose, but for some items.
SafeBut(content, wish, but) == \A i \in Item : i \in but \/ content[i] = wish[i]

\* The backend keeps what the user chose, but for some items.
KeptBut(stored, wish, but) ==
    Exists(stored) /\ ~Marked(stored.status) => SafeBut(stored.content, wish, but)

\* A status is pending as the user chose it, and some timer or answer will see to it.
PendingSafe(r, wish, seen) ==
    HasPending(r) => /\ r.open /\ r.pending[Info] = 0 /\ seen
                     /\ \A i \in Item : r.pending[i] # 0 => r.pending[i] = wish[i]

\* What is pending was edited after what is shown or saved, but for some items.
Newer(content, r, but) == \A i \in Item \ but : r.pending[i] # 0 => content[i] < r.pending[i]

WishOf(ch, id) == IF id = None THEN Blank ELSE ch[id]

\* Nothing is under way: the page shows what the backend stores.
Idle(p, r, s, ch) ==
    /\ p.requests = {}
    /\ ~p.fetched => p.selected.id = None /\ DOMAIN p.list = {}
    /\ p.fetched => ~p.riScs /\ \A id \in RiSc : Reflects(p.list, id, s)
    /\ p.selected.id # None => /\ p.selected.id \in DOMAIN p.list
                               /\ p.list[p.selected.id] = VersionOf(p.selected)
    /\ \A id \in RiSc :
          KeptBut(s[id], ch[id], IF id = p.selected.id THEN PendingItems(r) ELSE {})
    /\ r.open => p.selected.id # None
    /\ PendingSafe(r, WishOf(ch, p.selected.id), r.timer)
    /\ Newer(p.selected.content, r, {})

\* The page makes the same of the status as the backend: a draft of what has to be
\* approved, and otherwise what both agreed on before.
SameStatus(c, stored) ==
    \/ RequiresNewApproval(c.old.content, c.new.content) /\ c.new.status = "Draft"
    \/ /\ ~RequiresNewApproval(c.old.content, c.new.content)
       /\ ~Marked(c.old.status) /\ c.new.status = c.old.status
       /\ Agrees(VersionOf(c.old), stored)

\* What the backend has done or will do with a request.
Answerable(c, stored) ==
    \/ c.answer = "error"
    \/ c.answer = "deleted" /\ stored.status = "Gone" /\ c.batch = {}
    \/ c.answer = "ok" /\ Exists(stored) /\ Agrees(VersionOf(c.new), stored)
    \/ /\ c.answer = "none"
       /\ \/ c.kind = "update" /\ ~Marked(stored.status) /\ SameStatus(c, stored)
          \/ c.kind = "create" /\ c.new.status = "Draft" /\ stored.status = "Unborn"
          \/ c.kind = "delete" /\ c.new.status = "DeletionDraft" /\ c.batch = {}
          \/ /\ c.kind = "approve" /\ c.new.status = "SentForApproval"
             /\ stored.status = "Draft" /\ stored.content = c.new.content
          \/ /\ c.kind = "approve" /\ c.new.status = "DeletionSentForApproval"
             /\ Marked(stored.status)

\* What a request closed over is right about every other RiSc, and the request
\* is about to make it right about its own.
Carries(c, r, s, ch) ==
    /\ c.kind # "create" => c.old.id = c.new.id /\ c.new.id \in DOMAIN c.list
    /\ \A id \in RiSc \ {c.new.id} : Reflects(c.list, id, s) /\ KeptBut(s[id], ch[id], {})
    /\ ~Marked(c.new.status) =>
          SafeBut(c.new.content, ch[c.new.id], PendingItems(r) \ c.batch)
    /\ Newer(c.new.content, r, c.batch)
    /\ Answerable(c, s[c.new.id])

\* One request is under way.
Flight(c, p, r, s, ch) ==
    /\ p.requests = {c} /\ p.fetched /\ ~p.riScs
    /\ r.open => p.selected.id # None
    /\ c.kind = "create" => p.selected.id = None
    /\ PendingSafe(r, ch[c.new.id], r.timer \/ c.batch # {})
    /\ HasPending(r) =>
          /\ p.selected.id = c.new.id /\ p.list = c.list
          /\ p.selected.content = c.new.content
          /\ ~Marked(p.selected.status) =>
                SafeBut(p.selected.content, ch[c.new.id], PendingItems(r))
    /\ Carries(c, r, s, ch)

OrderlyPage(p, r, s, ch) ==
    Idle(p, r, s, ch) \/ \E c \in p.requests : Flight(c, p, r, s, ch)

\* An open dialog shows what is selected, and nothing is under way.
DialogCurrent ==
    dialog.open => /\ page.requests = {} /\ page.selected.id # None
                   /\ dialog.content = page.selected.content

\* What was never stored was never edited.
UnbornUnedited == \A id \in RiSc : server[id].status = "Unborn" => chosen[id] = Blank

\* The edits are counted, and a published RiSc has no edited actions.
EditsInv ==
    /\ \A id \in RiSc, i \in Item : chosen[id][i] <= used.edits
    /\ \A id \in RiSc : server[id].status = "Published" =>
          \A i \in Actions : server[id].content[i] = 0

OrderlyInv ==
    orderly => /\ OrderlyPage(page, rows, server, chosen)
               /\ DialogCurrent /\ UnbornUnedited

\* Rows with something pending may be flushed with the page as their closure.
Flushable(p, r, s, ch) ==
    LET id == p.selected.id
    IN  /\ p.fetched /\ id \in RiSc /\ id \in DOMAIN p.list
        /\ \A other \in RiSc \ {id} :
              Reflects(p.list, other, s) /\ KeptBut(s[other], ch[other], {})
        /\ \A i \in Item : r.pending[i] # 0 => r.pending[i] = ch[id][i]
        /\ ~Marked(p.selected.status) =>
              /\ ~Marked(s[id].status)
              /\ SafeBut(p.selected.content, ch[id], PendingItems(r))
              /\ \/ RequiresNewApproval(p.selected.content,
                                        Overlay(p.selected.content, r.pending))
                 \/ Agrees(VersionOf(p.selected), s[id])

-----------------------------------------------------------------------------
(* One thing at a time: sending.                                           *)

\* Two requests are the same but for their number.
SameRequest(c, d) ==
    /\ c.kind = d.kind /\ c.list = d.list /\ c.old = d.old /\ c.new = d.new
    /\ c.batch = d.batch /\ c.answer = d.answer

\* A page that differs in its requests, its status and its selection only.
SamePage(p, q) ==
    p.fetched = q.fetched /\ p.list = q.list /\ p.url = q.url /\ p.riScs = q.riScs

\* Send adds a request that was not there.
LEMMA SendShape ==
    ASSUME NEW p \in Pages, IsFiniteSet(p.requests), NEW request \in Requests
    PROVE  LET q == Send(p, request)
           IN  /\ q \in Pages /\ SamePage(p, q)
               /\ q.selected = p.selected /\ q.status = "loading"
               /\ \E sent \in Requests : /\ SameRequest(sent, request) /\ sent \notin p.requests
                                         /\ q.requests = p.requests \cup {sent}
<1> DEFINE numbers == {c.no : c \in p.requests}
           free == CHOOSE k \in 0..Cardinality(numbers) : k \notin numbers
           sent == [request EXCEPT !.no = free]
           q == Send(p, request)
<1>1. /\ Cardinality(p.requests) \in Nat /\ free \in 0..Cardinality(p.requests)
      /\ free \notin numbers
  BY FreeNumber
<1> HIDE DEF free
<1>2. free \in Nat
  BY <1>1
<1>3. sent \in Requests /\ sent.no = free /\ SameRequest(sent, request)
  BY <1>2 DEF Requests, SameRequest
<1> HIDE DEF sent
<1>4. sent \notin p.requests
  BY <1>1, <1>3
<1>5. q = [p EXCEPT !.requests = p.requests \cup {sent}, !.status = "loading"]
  BY DEF Send, sent, free, Pages
<1> HIDE DEF q
<1>6. /\ q \in Pages /\ SamePage(p, q) /\ q.selected = p.selected /\ q.status = "loading"
      /\ q.requests = p.requests \cup {sent}
  BY <1>3, <1>5 DEF Pages, SamePage
<1>7. \E d \in Requests : /\ SameRequest(d, request) /\ d \notin p.requests
                          /\ q.requests = p.requests \cup {d}
  BY <1>3, <1>4, <1>6
<1> QED BY <1>6, <1>7 DEF q

\* What an update closes over and saves.
IsUpdate(c, closure, content, batch) ==
    /\ c.kind = "update" /\ c.list = closure.list /\ c.old = closure.selected
    /\ c.new.id = closure.selected.id /\ c.new.content = content
    /\ c.new.status = IF RequiresNewApproval(closure.selected.content, content)
                      THEN "Draft" ELSE closure.selected.status
    /\ c.batch = batch /\ c.answer = "none"

\* An update is refused, or sent and shown.
Updated(q, p, closure, content, batch) ==
    /\ q \in Pages /\ SamePage(p, q)
    /\ Marked(closure.selected.status) => q.status = "error"
    /\ ~Marked(closure.selected.status) =>
          \E sent \in Requests : /\ IsUpdate(sent, closure, content, batch)
                                 /\ sent \notin p.requests
                                 /\ q.requests = p.requests \cup {sent}
                                 /\ q.selected = sent.new

LEMMA UpdateShape ==
    ASSUME NEW p \in Pages, IsFiniteSet(p.requests), NEW closure \in Pages,
           closure.fetched, closure.selected.id # None,
           NEW content \in Content, NEW batch \in SUBSET Item
    PROVE  Updated(UpdateRiSc(p, closure, content, batch), p, closure, content, batch)
<1> DEFINE sel == closure.selected
           status == IF RequiresNewApproval(sel.content, content) THEN "Draft" ELSE sel.status
           updated == [sel EXCEPT !.content = content,
                          !.status = IF RequiresNewApproval(sel.content, content)
                                     THEN "Draft" ELSE @]
           request == Request("update", closure, updated, batch)
           s == Send(p, request)
           q == UpdateRiSc(p, closure, content, batch)
<1>1. sel \in Selections
  BY DEF Pages
<1>2. /\ updated \in Selections /\ updated.id = sel.id /\ updated.content = content
      /\ updated.status = status
  <2>1. status \in Statuses
    BY <1>1 DEF Selections, Statuses
  <2>2. updated = [sel EXCEPT !.content = content, !.status = status]
    BY <1>1 DEF Selections
  <2> HIDE DEF status, updated, sel
  <2> QED BY <1>1, <2>1, <2>2 DEF Selections
<1> HIDE DEF updated
<1>3. /\ request \in Requests /\ request.kind = "update" /\ request.list = closure.list
      /\ request.old = sel /\ request.new = updated /\ request.batch = batch
      /\ request.answer = "none"
  <2>1. request \in Requests
    BY <1>2, RequestTypes
  <2> QED BY <2>1 DEF Request
<1> HIDE DEF request
<1>4. CASE Marked(sel.status)
  <2>1. q = [p EXCEPT !.status = "error"]
    BY <1>4 DEF UpdateRiSc
  <2> HIDE DEF q
  <2>2. q \in Pages /\ SamePage(p, q) /\ q.status = "error"
    BY <2>1 DEF Pages, SamePage
  <2> QED BY <1>4, <2>2 DEF q, Updated
<1>5. CASE ~Marked(sel.status)
  <2>1. /\ s \in Pages /\ SamePage(p, s)
        /\ \E sent \in Requests : /\ SameRequest(sent, request) /\ sent \notin p.requests
                                  /\ s.requests = p.requests \cup {sent}
    BY <1>3, SendShape
  <2>2. PICK sent \in Requests : /\ SameRequest(sent, request) /\ sent \notin p.requests
                                 /\ s.requests = p.requests \cup {sent}
    BY <2>1
  <2>3. q = [s EXCEPT !.selected = updated]
    BY <1>5 DEF UpdateRiSc, request, updated
  <2> HIDE DEF q, s
  <2>4. q \in Pages /\ SamePage(s, q) /\ q.requests = s.requests /\ q.selected = updated
    BY <1>2, <2>1, <2>3 DEF Pages, SamePage
  <2>5. IsUpdate(sent, closure, content, batch) /\ sent.new = updated
    BY <1>2, <1>3, <2>2 DEF SameRequest, IsUpdate
  <2>6. SamePage(p, q)
    BY <2>1, <2>4 DEF SamePage
  <2> QED BY <1>5, <2>2, <2>4, <2>5, <2>6 DEF q, Updated
<1> QED BY <1>4, <1>5

\* Two requests are more than one.
LEMMA MoreThanOne ==
    ASSUME NEW S, IsFiniteSet(S), Cardinality(S) <= 1, NEW c \in S, NEW d \in S
    PROVE  c = d
<1> SUFFICES ASSUME c # d PROVE FALSE
  OBVIOUS
<1>1. Cardinality({c}) = 1 /\ IsFiniteSet({c})
  BY FS_Singleton
<1>2. Cardinality({c} \cup {d}) = 2
  <2>1. d \notin {c}
    OBVIOUS
  <2> QED BY <1>1, <2>1, FS_AddElement
<1>3. {c} \cup {d} \in SUBSET S
  OBVIOUS
<1>4. Cardinality({c} \cup {d}) <= Cardinality(S)
  BY <1>3, FS_Subset
<1>5. Cardinality(S) \in Nat
  BY FS_CardinalityType
<1> QED BY <1>2, <1>4, <1>5

-----------------------------------------------------------------------------
(* One thing at a time: a page without requests sends one.                 *)

\* What is pending goes over what was chosen for everything else.
LEMMA OverlaySafe ==
    ASSUME NEW content, NEW wish, NEW r, SafeBut(content, wish, PendingItems(r)),
           \A i \in Item : r.pending[i] # 0 => r.pending[i] = wish[i]
    PROVE  SafeBut(Overlay(content, r.pending), wish, {})
BY DEF SafeBut, PendingItems, Overlay

\* Nothing is pending in rows that are closed.
LEMMA NothingPending ==
    /\ Closed \in Rows /\ ~Closed.open /\ ~HasPending(Closed) /\ PendingItems(Closed) = {}
    /\ \A r : ~HasPending(r) => PendingItems(r) = {}
    /\ \A r \in Rows : PendingItems(r) = {} => ~HasPending(r)
    /\ \A r, content, but : ~HasPending(r) => Newer(content, r, but)
<1>1. Closed \in Rows /\ ~Closed.open /\ ~HasPending(Closed)
  BY BlankTypes DEF Closed, Rows, HasPending
<1>2. ASSUME NEW r, ~HasPending(r) PROVE PendingItems(r) = {}
  BY <1>2 DEF HasPending, PendingItems, Blank
<1>3. ASSUME NEW r \in Rows, PendingItems(r) = {} PROVE ~HasPending(r)
  BY <1>3 DEF HasPending, PendingItems, Blank, Rows, Content
<1>4. ASSUME NEW r, NEW content, NEW but, ~HasPending(r) PROVE Newer(content, r, but)
  BY <1>4 DEF HasPending, Newer, Blank
<1> QED BY <1>1, <1>2, <1>3, <1>4

\* One update is under way, and its RiSc is selected.
Flies(q, p, id, batch, r, s, ch) ==
    /\ q \in Pages /\ SamePage(p, q) /\ q.selected.id = id
    /\ \E c \in q.requests : Flight(c, q, r, s, ch) /\ c.kind = "update" /\ c.batch = batch

\* An update of what its closure knows is the one thing under way.
LEMMA UpdateFlies ==
    ASSUME NEW p \in Pages, p.requests = {}, p.fetched, ~p.riScs,
           NEW closure \in Pages, closure.fetched, closure.selected.id \in RiSc,
           closure.selected.id \in DOMAIN closure.list, ~Marked(closure.selected.status),
           NEW content \in Content, NEW batch \in SUBSET Item,
           NEW r \in Rows, NEW s, NEW ch,
           ~Marked(s[closure.selected.id].status),
           \A id \in RiSc \ {closure.selected.id} :
              Reflects(closure.list, id, s) /\ KeptBut(s[id], ch[id], {}),
           SafeBut(content, ch[closure.selected.id], PendingItems(r) \ batch),
           PendingSafe(r, ch[closure.selected.id], r.timer \/ batch # {}),
           Newer(content, r, batch),
           \/ RequiresNewApproval(closure.selected.content, content)
           \/ Agrees(VersionOf(closure.selected), s[closure.selected.id]),
           HasPending(r) => p.list = closure.list
    PROVE  Flies(UpdateRiSc(p, closure, content, batch), p, closure.selected.id, batch, r, s, ch)
<1> DEFINE q == UpdateRiSc(p, closure, content, batch)
           id == closure.selected.id
<1>1. IsFiniteSet(p.requests) /\ id # None
  BY FS_EmptySet, PageAssumption
<1>2. /\ q \in Pages /\ SamePage(p, q)
      /\ \E c \in Requests : /\ IsUpdate(c, closure, content, batch) /\ c \notin p.requests
                             /\ q.requests = p.requests \cup {c} /\ q.selected = c.new
  <2>1. Updated(q, p, closure, content, batch)
    BY <1>1, UpdateShape
  <2> HIDE DEF q
  <2> QED BY <2>1 DEF Updated
<1>3. PICK c \in Requests : /\ IsUpdate(c, closure, content, batch)
                            /\ q.requests = p.requests \cup {c} /\ q.selected = c.new
  BY <1>2
<1> HIDE DEF q
<1>4. /\ c.kind = "update" /\ c.list = closure.list /\ c.old = closure.selected
      /\ c.old.id = id /\ c.new.id = id
      /\ c.new.content = content /\ c.batch = batch /\ c.answer = "none"
      /\ c.new.status = IF RequiresNewApproval(closure.selected.content, content)
                        THEN "Draft" ELSE closure.selected.status
  BY <1>3 DEF IsUpdate
<1>5. /\ q.requests = {c} /\ q.fetched /\ ~q.riScs /\ q.selected.id = id /\ q.list = p.list
      /\ q.selected.content = content
  BY <1>2, <1>3, <1>4 DEF SamePage
<1>6. Carries(c, r, s, ch)
  <2>1. Answerable(c, s[c.new.id])
    BY <1>4 DEF Answerable, SameStatus
  <2>2. \A other \in RiSc \ {c.new.id} :
           Reflects(c.list, other, s) /\ KeptBut(s[other], ch[other], {})
    BY <1>4
  <2>3. SafeBut(c.new.content, ch[c.new.id], PendingItems(r) \ c.batch)
    BY <1>4
  <2> QED BY <1>4, <2>1, <2>2, <2>3 DEF Carries
<1>7. SafeBut(content, ch[id], PendingItems(r))
  BY DEF SafeBut
<1>8. Flight(c, q, r, s, ch)
  <2>1. PendingSafe(r, ch[c.new.id], r.timer \/ c.batch # {})
    BY <1>4
  <2>2. HasPending(r) => /\ q.selected.id = c.new.id /\ q.list = c.list
                         /\ q.selected.content = c.new.content
                         /\ SafeBut(q.selected.content, ch[c.new.id], PendingItems(r))
    BY <1>4, <1>5, <1>7
  <2> QED BY <1>1, <1>4, <1>5, <1>6, <2>1, <2>2 DEF Flight
<1> QED BY <1>2, <1>4, <1>5, <1>8 DEF q, Flies

\* With the rows closed nothing but the request is left of the page.
LEMMA ClosedFlight ==
    ASSUME NEW c, NEW p \in Pages, NEW q \in Pages, NEW s, NEW ch,
           Flight(c, p, Closed, s, ch), c.kind # "create",
           q.requests = p.requests, q.fetched = p.fetched, q.riScs = p.riScs
    PROVE  Flight(c, q, Closed, s, ch)
BY NothingPending DEF Flight, PendingSafe

\* The requests of rows that are closed wait for nothing anyway.
LEMMA DetachedFlight ==
    ASSUME NEW c, NEW p \in Pages, NEW s, NEW ch, Flight(c, p, Closed, s, ch), c.batch = {}
    PROVE  Detached(p) \in Pages /\ Flight(c, Detached(p), Closed, s, ch)
<1>1. p.requests = {c} /\ c \in Requests
  BY DEF Flight, Pages
<1>2. [c EXCEPT !.batch = {}] = c
  BY <1>1 DEF Requests
<1>3. {[d EXCEPT !.batch = {}] : d \in p.requests} = {c}
  BY <1>1, <1>2
<1>4. Detached(p) = [p EXCEPT !.requests = {c}]
  BY <1>3 DEF Detached, Pages
<1>5. Detached(p) = p
  BY <1>1, <1>4 DEF Pages
<1> QED BY <1>5

\* The effect on the URL, on a page of the right type.
LEMMA SelectShape ==
    ASSUME NEW p \in Pages
    PROVE  LET q == SelectByUrl(p)
           IN  /\ q \in Pages /\ SamePage(p, q) /\ q.requests = p.requests
               /\ q.status = p.status
               /\ \/ q.selected = p.selected
                  \/ /\ p.url \in DOMAIN p.list /\ p.url \in RiSc
                     /\ q.selected = Selected(p.url, p.list[p.url])
<1> DEFINE sel == Selected(p.url, p.list[p.url])
           q == SelectByUrl(p)
<1>1. CASE p.url \in DOMAIN p.list
  <2>1. p.url \in RiSc /\ p.list[p.url] \in Version
    BY <1>1, ListsAre DEF Pages
  <2>2. sel \in Selections
    BY <2>1 DEF Selected, Selections, Version
  <2>3. q = [p EXCEPT !.selected = sel]
    BY <1>1 DEF SelectByUrl
  <2> HIDE DEF sel, q
  <2>4. q \in Pages /\ SamePage(p, q) /\ q.requests = p.requests /\ q.selected = sel
        /\ q.status = p.status
    BY <2>2, <2>3 DEF Pages, SamePage
  <2> QED BY <1>1, <2>1, <2>4 DEF q, sel
<1>2. CASE p.url \notin DOMAIN p.list
  BY <1>2 DEF SelectByUrl, SamePage
<1> QED BY <1>1, <1>2

\* Unmounting rows with something pending: refused, or the one thing under way.
LEMMA FlushFlies ==
    ASSUME NEW p \in Pages, p.requests = {}, p.fetched, ~p.riScs,
           NEW closure \in Pages, NEW r \in Rows, HasPending(r), NEW s, NEW ch,
           Flushable(closure, r, s, ch)
    PROVE  LET q == Flush(p, closure, r)
           IN  /\ q \in Pages
               /\ \/ q.status = "error"
                  \/ \E c \in q.requests : /\ Flight(c, q, Closed, s, ch)
                                           /\ c.kind = "update" /\ c.batch = {}
<1> DEFINE content == Overlay(closure.selected.content, r.pending)
           q == Flush(p, closure, r)
           id == closure.selected.id
<1>1. content \in Content
  BY OverlayTypes DEF Pages, Selections, Rows
<1>2. q = UpdateRiSc(p, closure, content, {})
  BY DEF Flush, SavePending
<1>3. IsFiniteSet(p.requests) /\ closure.fetched /\ id \in RiSc /\ id # None
      /\ id \in DOMAIN closure.list
  BY FS_EmptySet, PageAssumption DEF Flushable
<1>4. CASE Marked(closure.selected.status)
  <2> DEFINE u == UpdateRiSc(p, closure, content, {})
  <2> HIDE DEF q, content
  <2>0. Updated(u, p, closure, content, {})
    <3>1. {} \in SUBSET Item
      OBVIOUS
    <3> QED BY <1>1, <1>3, <3>1, UpdateShape
  <2> HIDE DEF u
  <2>1. q \in Pages /\ q.status = "error"
    <3>1. q = u
      BY <1>2 DEF u
    <3> QED BY <1>4, <2>0, <3>1 DEF Updated
  <2> QED BY <2>1 DEF q
<1>5. CASE ~Marked(closure.selected.status)
  <2>1. SafeBut(content, ch[id], {})
    BY <1>5, OverlaySafe DEF Flushable
  <2>2. /\ SafeBut(content, ch[id], PendingItems(Closed) \ {})
        /\ PendingSafe(Closed, ch[id], Closed.timer \/ {} # {})
        /\ ~HasPending(Closed) /\ Closed \in Rows /\ Newer(content, Closed, {})
    BY <2>1, NothingPending DEF PendingSafe
  <2>3. /\ ~Marked(s[id].status)
        /\ \A other \in RiSc \ {id} :
              Reflects(closure.list, other, s) /\ KeptBut(s[other], ch[other], {})
        /\ \/ RequiresNewApproval(closure.selected.content, content)
           \/ Agrees(VersionOf(closure.selected), s[id])
    BY <1>5 DEF Flushable
  <2> DEFINE u == UpdateRiSc(p, closure, content, {})
  <2> HIDE DEF q, content
  <2>4. {} \in SUBSET Item
    OBVIOUS
  <2>5. Flies(u, p, id, {}, Closed, s, ch)
    BY <1>1, <1>3, <1>5, <2>2, <2>3, <2>4, UpdateFlies
  <2> HIDE DEF u
  <2>6. /\ q \in Pages
        /\ \E c \in q.requests : /\ Flight(c, q, Closed, s, ch) /\ c.kind = "update"
                                 /\ c.batch = {}
    <3>1. q = u
      BY <1>2 DEF u
    <3> QED BY <2>5, <3>1 DEF Flies
  <2> QED BY <2>6 DEF q
<1> QED BY <1>4, <1>5

-----------------------------------------------------------------------------
(* One thing at a time: rendering.                                         *)

\* The three ways in which a handler's page is rendered: the rows go at once,
\* by the effect that follows the URL, or stay.
LEMMA ShowCases ==
    ASSUME NEW p, NEW setsList, NEW r, Show(p, setsList, r)
    PROVE  \/ /\ rows.open /\ p.selected.id # page.selected.id /\ rows' = Closed
              /\ \E q \in {Flush(p, page, rows), SelectByUrl(Flush(p, page, rows))} :
                    /\ ~setsList /\ p.url = page.url => q = Flush(p, page, rows)
                    /\ page' = Detached(q)
           \/ \E q \in {p, SelectByUrl(p)} :
                 /\ ~setsList /\ p.url = page.url => q = p
                 /\ rows.open => p.selected.id = page.selected.id
                 /\ \/ /\ rows.open /\ q.selected.id # page.selected.id
                       /\ page' = Detached(Flush(q, p, rows)) /\ rows' = Closed
                    \/ /\ rows.open => q.selected.id = page.selected.id
                       /\ page' = q /\ rows' = r
<1> DEFINE goAtOnce == rows.open /\ p.selected.id # page.selected.id
           flushed == IF goAtOnce THEN Flush(p, page, rows) ELSE p
           settled == IF setsList \/ p.url # page.url THEN SelectByUrl(flushed) ELSE flushed
           goThen == rows.open /\ ~goAtOnce /\ settled.selected.id # page.selected.id
           result == IF goThen THEN Flush(settled, p, rows) ELSE settled
           rendered == Rendered(p, setsList)
<1>1. rendered.page = result /\ (rendered.gone <=> goAtOnce \/ goThen)
  <2>1. rendered = [page |-> result, gone |-> goAtOnce \/ goThen]
    BY Zenon DEF Rendered
  <2> HIDE DEF rendered, goAtOnce, goThen, result
  <2> QED BY <2>1, Zenon
<1>2. /\ page' = IF rendered.gone THEN Detached(rendered.page) ELSE rendered.page
      /\ rows' = IF rendered.gone THEN Closed ELSE r
  BY DEF Show
<1> HIDE DEF rendered
<1>3. CASE goAtOnce
  <2>1. /\ settled \in {Flush(p, page, rows), SelectByUrl(Flush(p, page, rows))}
        /\ ~setsList /\ p.url = page.url => settled = Flush(p, page, rows)
    BY <1>3
  <2>2. ~goThen
    BY <1>3
  <2>3. page' = Detached(settled) /\ rows' = Closed
    <3> HIDE DEF settled, goThen, goAtOnce
    <3> QED BY <1>1, <1>2, <1>3, <2>2
  <2> HIDE DEF settled
  <2> QED BY <1>3, <2>1, <2>3
<1>4. CASE ~goAtOnce
  <2>1. /\ settled \in {p, SelectByUrl(p)}
        /\ ~setsList /\ p.url = page.url => settled = p
    BY <1>4
  <2>2. rows.open => p.selected.id = page.selected.id
    BY <1>4
  <2>3. CASE goThen
    <3>1. page' = Detached(Flush(settled, p, rows)) /\ rows' = Closed
      <4> HIDE DEF settled, goThen, goAtOnce
      <4> QED BY <1>1, <1>2, <2>3
    <3> HIDE DEF settled
    <3> QED BY <2>1, <2>2, <2>3, <3>1
  <2>4. CASE ~goThen
    <3>1. page' = settled /\ rows' = r
      <4> HIDE DEF settled, goThen, goAtOnce
      <4> QED BY <1>1, <1>2, <1>4, <2>4
    <3>2. rows.open => settled.selected.id = page.selected.id
      <4> HIDE DEF settled
      <4> QED BY <1>4, <2>4
    <3> HIDE DEF settled
    <3> QED BY <2>1, <2>2, <3>1, <3>2
  <2> QED BY <2>3, <2>4
<1> QED BY <1>3, <1>4

\* A handler that neither selects nor navigates is rendered as it is.
LEMMA ShowSame ==
    ASSUME NEW p, NEW r, Show(p, FALSE, r),
           rows.open => p.selected.id = page.selected.id, p.url = page.url
    PROVE  page' = p /\ rows' = r
<1>1. Rendered(p, FALSE).page = p /\ ~Rendered(p, FALSE).gone
  <2> DEFINE goAtOnce == rows.open /\ p.selected.id # page.selected.id
             flushed == IF goAtOnce THEN Flush(p, page, rows) ELSE p
             settled == IF FALSE \/ p.url # page.url THEN SelectByUrl(flushed) ELSE flushed
             goThen == rows.open /\ ~goAtOnce /\ settled.selected.id # page.selected.id
             result == IF goThen THEN Flush(settled, p, rows) ELSE settled
  <2>1. /\ ~goAtOnce /\ flushed = p
    OBVIOUS
  <2>2. settled = p
    <3> HIDE DEF flushed
    <3> QED BY <2>1
  <2>3. ~goThen
    <3> HIDE DEF settled
    <3> QED BY <2>1, <2>2
  <2>4. result = p /\ ~(goAtOnce \/ goThen)
    <3> HIDE DEF settled, goThen, goAtOnce
    <3> QED BY <2>1, <2>2, <2>3
  <2> DEFINE rendered == Rendered(p, FALSE)
  <2>5. rendered = [page |-> result, gone |-> goAtOnce \/ goThen]
    BY Zenon DEF Rendered
  <2> HIDE DEF rendered, result, goThen, goAtOnce
  <2>6. rendered.page = result /\ (rendered.gone <=> goAtOnce \/ goThen)
    BY <2>5, Zenon
  <2>7. rendered.page = p /\ ~rendered.gone
    BY <2>4, <2>6
  <2> QED BY <2>7 DEF rendered
<1> QED BY <1>1 DEF Show

\* A page without requests stays in agreement when the effect selects by the URL,
\* unless something is pending for the RiSc that was selected.
LEMMA SelectIdle ==
    ASSUME NEW p \in Pages, NEW r \in Rows, NEW s, NEW ch, Idle(p, r, s, ch), p.fetched,
           NEW q \in {p, SelectByUrl(p)},
           HasPending(r) => q.selected.id = p.selected.id
    PROVE  Idle(q, r, s, ch) /\ q \in Pages /\ SamePage(p, q)
<1>1. CASE q = p
  BY <1>1 DEF SamePage
<1>2. CASE q = SelectByUrl(p)
  <2>1. /\ q \in Pages /\ SamePage(p, q) /\ q.requests = p.requests
        /\ \/ q.selected = p.selected
           \/ /\ p.url \in DOMAIN p.list /\ p.url \in RiSc
              /\ q.selected = Selected(p.url, p.list[p.url])
    BY <1>2, SelectShape
  <2>2. q.requests = {} /\ q.fetched /\ ~q.riScs /\ q.list = p.list
    BY <2>1 DEF SamePage, Idle
  <2>3. q.selected.id # None => /\ q.selected.id \in DOMAIN q.list
                                /\ q.list[q.selected.id] = VersionOf(q.selected)
    <3>1. CASE q.selected = p.selected
      BY <2>2, <3>1 DEF Idle
    <3>2. CASE /\ p.url \in DOMAIN p.list /\ p.url \in RiSc
               /\ q.selected = Selected(p.url, p.list[p.url])
      <4>1. p.list[p.url] \in Version
        BY <3>2, ListsAre DEF Pages
      <4>2. VersionOf(q.selected) = p.list[p.url] /\ q.selected.id = p.url
        BY <3>2, <4>1 DEF VersionOf, Selected, Version
      <4> QED BY <2>2, <3>2, <4>2
    <3> QED BY <2>1, <3>1, <3>2
  <2>4. p.selected.id # None => q.selected.id # None
    BY <2>1, PageAssumption DEF Selected
  <2>5. \A id \in RiSc :
           KeptBut(s[id], ch[id], IF id = q.selected.id THEN PendingItems(r) ELSE {})
    <3>1. CASE q.selected.id = p.selected.id
      BY <3>1 DEF Idle
    <3>2. CASE ~HasPending(r)
      BY <3>2, NothingPending DEF Idle
    <3> QED BY <3>1, <3>2
  <2>6. PendingSafe(r, WishOf(ch, q.selected.id), r.timer)
    <3>1. CASE q.selected.id = p.selected.id
      BY <3>1 DEF Idle
    <3>2. CASE ~HasPending(r)
      BY <3>2 DEF PendingSafe
    <3> QED BY <3>1, <3>2
  <2>7. Newer(q.selected.content, r, {})
    <3>1. CASE ~HasPending(r)
      BY <3>1, NothingPending
    <3>2. CASE q.selected.id = p.selected.id
      <4>1. CASE q.selected = p.selected
        BY <4>1 DEF Idle
      <4>2. CASE /\ p.url \in DOMAIN p.list /\ p.url \in RiSc
                 /\ q.selected = Selected(p.url, p.list[p.url])
        <5>1. p.selected.id = p.url /\ p.list[p.url] = VersionOf(p.selected)
          BY <3>2, <4>2, PageAssumption DEF Idle, Selected
        <5>2. q.selected.content = p.selected.content
          BY <4>2, <5>1 DEF Selected, VersionOf
        <5> QED BY <5>2 DEF Idle
      <4> QED BY <2>1, <4>1, <4>2
    <3> QED BY <3>1, <3>2
  <2>8. Idle(q, r, s, ch)
    BY <2>2, <2>3, <2>4, <2>5, <2>6, <2>7 DEF Idle
  <2> QED BY <2>1, <2>8
<1> QED BY <1>1, <1>2

\* Closing rows in which nothing is pending changes nothing.
LEMMA CloseIdle ==
    ASSUME NEW p \in Pages, NEW r \in Rows, NEW s, NEW ch, Idle(p, r, s, ch), ~HasPending(r)
    PROVE  Idle(p, Closed, s, ch) /\ Detached(p) = p
<1>1. PendingItems(r) = {} /\ PendingItems(Closed) = {} /\ ~HasPending(Closed) /\ ~Closed.open
  BY NothingPending
<1>2. Idle(p, Closed, s, ch)
  BY <1>1, NothingPending DEF Idle, PendingSafe
<1>3. p.requests = {}
  BY DEF Idle
<1>4. {[d EXCEPT !.batch = {}] : d \in p.requests} = p.requests
  BY <1>3
<1> QED BY <1>2, <1>3, <1>4 DEF Detached, Pages

\* When another RiSc is selected the rows go at once, and with them what is
\* pending: it is saved with the page they were rendered with last.
LEMMA ShowGone ==
    ASSUME page \in Pages, rows \in Rows, NEW p \in Pages, NEW r, NEW s, NEW ch,
           p.requests = {}, p.fetched, ~p.riScs, NEW setsList, Show(p, setsList, r),
           rows.open, p.selected.id # page.selected.id,
           HasPending(rows) => Flushable(page, rows, s, ch),
           ~HasPending(rows) => Idle(p, Closed, s, ch),
           page'.status # "error"
    PROVE  OrderlyPage(page', rows', s, ch)
<1>1. Closed \in Rows /\ ~HasPending(Closed)
  BY NothingPending
<1>2. PICK q \in {Flush(p, page, rows), SelectByUrl(Flush(p, page, rows))} :
              page' = Detached(q) /\ rows' = Closed
  BY ShowCases
<1>3. CASE HasPending(rows)
  <2> DEFINE f == Flush(p, page, rows)
  <2>1. /\ f \in Pages
        /\ \/ f.status = "error"
           \/ \E c \in f.requests : /\ Flight(c, f, Closed, s, ch)
                                    /\ c.kind = "update" /\ c.batch = {}
    BY <1>1, <1>3, FlushFlies
  <2> HIDE DEF f
  <2>2. /\ q \in Pages /\ q.requests = f.requests /\ q.fetched = f.fetched
        /\ q.riScs = f.riScs /\ q.status = f.status
    BY <1>2, <2>1, SelectShape DEF f, SamePage
  <2>3. page'.status = q.status
    BY <1>2, <2>2 DEF Detached, Pages
  <2>4. PICK c \in f.requests : /\ Flight(c, f, Closed, s, ch)
                                /\ c.kind = "update" /\ c.batch = {}
    BY <2>1, <2>2, <2>3
  <2>5. Flight(c, q, Closed, s, ch)
    BY <2>1, <2>2, <2>4, ClosedFlight
  <2>6. Flight(c, page', rows', s, ch)
    BY <1>2, <2>2, <2>4, <2>5, DetachedFlight
  <2> QED BY <2>6 DEF OrderlyPage, Flight
<1>4. CASE ~HasPending(rows)
  <2>1. Flush(p, page, rows) = p
    BY <1>4 DEF Flush, SavePending
  <2>2. q \in {p, SelectByUrl(p)}
    BY <1>2, <2>1
  <2>3. Idle(q, Closed, s, ch) /\ q \in Pages
    BY <1>1, <1>4, <2>2, SelectIdle
  <2>4. Detached(q) = q
    BY <1>1, <2>3, CloseIdle
  <2> QED BY <1>2, <2>3, <2>4 DEF OrderlyPage
<1> QED BY <1>3, <1>4

\* What a handler leaves without a request is at rest, or the flush of the rows is
\* the one thing under way, or an error is shown.
LEMMA ShowIdle ==
    ASSUME page \in Pages, rows \in Rows, NEW p \in Pages, NEW r \in Rows, NEW s, NEW ch,
           Idle(p, r, s, ch), p.fetched, NEW setsList, Show(p, setsList, r),
           r.open = rows.open, ~HasPending(rows) => ~HasPending(r),
           HasPending(rows) => rows.open,
           HasPending(rows) /\ p.selected.id # page.selected.id => Flushable(page, rows, s, ch),
           HasPending(rows) /\ p.selected.id = page.selected.id => Flushable(p, rows, s, ch),
           page'.status # "error"
    PROVE  OrderlyPage(page', rows', s, ch)
<1>1. p.requests = {} /\ ~p.riScs
  BY DEF Idle
<1>2. CASE rows.open /\ p.selected.id # page.selected.id
  <2>1. ~HasPending(rows) => Idle(p, Closed, s, ch)
    BY CloseIdle
  <2> QED BY <1>1, <1>2, <2>1, ShowGone
<1>3. CASE \E q \in {p, SelectByUrl(p)} :
              /\ rows.open => p.selected.id = page.selected.id
              /\ \/ /\ rows.open /\ q.selected.id # page.selected.id
                    /\ page' = Detached(Flush(q, p, rows)) /\ rows' = Closed
                 \/ /\ rows.open => q.selected.id = page.selected.id
                    /\ page' = q /\ rows' = r
  <2>1. PICK q \in {p, SelectByUrl(p)} :
              /\ rows.open => p.selected.id = page.selected.id
              /\ \/ /\ rows.open /\ q.selected.id # page.selected.id
                    /\ page' = Detached(Flush(q, p, rows)) /\ rows' = Closed
                 \/ /\ rows.open => q.selected.id = page.selected.id
                    /\ page' = q /\ rows' = r
    BY <1>3
  <2>2. q \in Pages /\ q.requests = {} /\ q.fetched /\ ~q.riScs
    BY <1>1, <2>1, SelectShape DEF SamePage
  <2>3. CASE /\ rows.open /\ page' = Detached(Flush(q, p, rows)) /\ rows' = Closed
             /\ HasPending(rows)
    <3> DEFINE f == Flush(q, p, rows)
    <3>1. Flushable(p, rows, s, ch)
      BY <2>1, <2>3
    <3>2. /\ f \in Pages
          /\ \/ f.status = "error"
             \/ \E c \in f.requests : /\ Flight(c, f, Closed, s, ch)
                                      /\ c.kind = "update" /\ c.batch = {}
      BY <2>2, <2>3, <3>1, FlushFlies
    <3> HIDE DEF f
    <3>3. page' = Detached(f)
      BY <2>3 DEF f
    <3>4. page'.status = f.status
      BY <3>2, <3>3 DEF Detached, Pages
    <3>5. PICK c \in f.requests : /\ Flight(c, f, Closed, s, ch)
                                  /\ c.kind = "update" /\ c.batch = {}
      BY <3>2, <3>4
    <3>6. Flight(c, page', rows', s, ch)
      BY <2>3, <3>2, <3>3, <3>5, DetachedFlight
    <3> QED BY <3>6 DEF OrderlyPage, Flight
  <2>4. CASE /\ rows.open /\ page' = Detached(Flush(q, p, rows)) /\ rows' = Closed
             /\ ~HasPending(rows)
    <3>1. Flush(q, p, rows) = q /\ ~HasPending(r)
      BY <2>4 DEF Flush, SavePending
    <3>2. Idle(q, r, s, ch)
      BY <2>1, <3>1, SelectIdle
    <3>3. Idle(q, Closed, s, ch) /\ Detached(q) = q
      BY <2>2, <3>1, <3>2, CloseIdle
    <3> QED BY <2>4, <3>1, <3>3 DEF OrderlyPage
  <2>5. CASE /\ rows.open => q.selected.id = page.selected.id
             /\ page' = q /\ rows' = r
    <3>1. HasPending(r) => q.selected.id = p.selected.id
      BY <2>1, <2>5
    <3>2. Idle(q, r, s, ch)
      BY <2>1, <3>1, SelectIdle
    <3> QED BY <2>5, <3>2 DEF OrderlyPage
  <2> QED BY <2>1, <2>3, <2>4, <2>5
<1> QED BY <1>2, <1>3, ShowCases

-----------------------------------------------------------------------------
(* One thing at a time: what the user does.                                *)

\* What is known of the RiSc that is selected while nothing is under way.
LEMMA SelectedCurrent ==
    ASSUME NEW p \in Pages, NEW r \in Rows, NEW s, NEW ch, Idle(p, r, s, ch),
           p.selected.id # None
    PROVE  LET id == p.selected.id
           IN  /\ p.requests = {} /\ p.fetched /\ ~p.riScs
               /\ id \in RiSc /\ id \in DOMAIN p.list /\ Exists(s[id])
               /\ Agrees(VersionOf(p.selected), s[id])
               /\ Marked(p.selected.status) <=> Marked(s[id].status)
               /\ p.selected.status = "Draft" => s[id].status = "Draft"
               /\ ~Marked(p.selected.status) =>
                     /\ s[id].content = p.selected.content
                     /\ SafeBut(p.selected.content, ch[id], PendingItems(r))
               /\ \A other \in RiSc \ {id} :
                     Reflects(p.list, other, s) /\ KeptBut(s[other], ch[other], {})
               /\ PendingSafe(r, ch[id], r.timer)
               /\ Flushable(p, r, s, ch)
<1> DEFINE id == p.selected.id
<1>1. p.requests = {} /\ p.fetched /\ ~p.riScs /\ id \in RiSc
  BY DEF Idle, Pages, Selections
<1>2. id \in DOMAIN p.list /\ p.list[id] = VersionOf(p.selected) /\ Reflects(p.list, id, s)
  BY <1>1 DEF Idle
<1>3. Exists(s[id]) /\ Agrees(VersionOf(p.selected), s[id])
  BY <1>2 DEF Reflects
<1>4. /\ Marked(p.selected.status) <=> Marked(s[id].status)
      /\ p.selected.status = "Draft" => s[id].status = "Draft"
      /\ ~Marked(p.selected.status) => s[id].content = p.selected.content
  BY <1>3 DEF Agrees, VersionOf, ShowsPublished, Marked
<1>5. KeptBut(s[id], ch[id], PendingItems(r))
  BY <1>1 DEF Idle
<1>6. ~Marked(p.selected.status) => SafeBut(p.selected.content, ch[id], PendingItems(r))
  <2>1. SUFFICES ASSUME ~Marked(p.selected.status)
                 PROVE  SafeBut(p.selected.content, ch[id], PendingItems(r))
    OBVIOUS
  <2>2. SafeBut(s[id].content, ch[id], PendingItems(r))
    BY <1>3, <1>4, <1>5, <2>1 DEF KeptBut
  <2>3. s[id].content = p.selected.content
    BY <1>4, <2>1
  <2> QED BY <2>2, <2>3
<1>7. \A other \in RiSc \ {id} :
         Reflects(p.list, other, s) /\ KeptBut(s[other], ch[other], {})
  BY <1>1 DEF Idle
<1>8. PendingSafe(r, ch[id], r.timer)
  BY <1>1 DEF Idle, WishOf
<1>9. \A i \in Item : r.pending[i] # 0 => r.pending[i] = ch[id][i]
  BY <1>8, NothingPending DEF PendingSafe, PendingItems
<1> HIDE DEF id
<1>10. Flushable(p, r, s, ch)
  BY <1>1, <1>2, <1>3, <1>4, <1>6, <1>7, <1>9 DEF Flushable, id
<1> QED BY <1>1, <1>2, <1>3, <1>4, <1>6, <1>7, <1>8, <1>10 DEF id

\* What the history says of a step after which the page is still orderly.
LEMMA Orderly ==
    ASSUME TypeInv, NEW inTurn, NEW edited \in SUBSET Item, KeepHistory(inTurn, edited), orderly'
    PROVE  /\ orderly /\ inTurn /\ page'.status # "error"
           /\ Cardinality(page'.requests) <= 1
           /\ dialog'.open => page'.requests = {}
           /\ \A id \in RiSc : chosen'[id] = [i \in Item |->
                 IF id = page.selected.id /\ i \in edited THEN Edit ELSE chosen[id][i]]
           /\ \A id \in RiSc : id # page.selected.id \/ edited = {} => chosen'[id] = chosen[id]
           /\ edited = {} => chosen' = chosen
<1>1. /\ orderly /\ inTurn /\ ~failed' /\ page'.status # "error"
      /\ Cardinality(page'.requests) <= 1
      /\ dialog'.open => page'.requests = {}
  BY DEF KeepHistory
<1>2. chosen' = [id \in RiSc |-> [i \in Item |->
                    IF id = page.selected.id /\ i \in edited THEN Edit ELSE chosen[id][i]]]
  BY <1>1 DEF KeepHistory
<1>3. chosen \in [RiSc -> Content]
  BY DEF TypeInv, OtherTypes
<1> HIDE DEF Edit
<1>4. ASSUME NEW id \in RiSc, id # page.selected.id \/ edited = {}
      PROVE  chosen'[id] = chosen[id]
  BY <1>2, <1>3, <1>4 DEF Content
<1>5. ASSUME edited = {} PROVE chosen' = chosen
  <2>1. chosen' = [id \in RiSc |-> chosen'[id]]
    BY <1>2
  <2>2. chosen = [id \in RiSc |-> chosen[id]]
    BY <1>3
  <2> QED BY <1>4, <1>5, <2>1, <2>2
<1> QED BY <1>1, <1>2, <1>4, <1>5

\* While the page is orderly and the user may act, nothing is under way.
LEMMA QuietIsIdle ==
    ASSUME OrderlyInv, orderly, page.requests = {}
    PROVE  Idle(page, rows, server, chosen)
BY DEF OrderlyInv, OrderlyPage

\* An edit changes the wish for the RiSc that is selected only.
LEMMA EditedOnly ==
    ASSUME TypeInv, OrderlyInv, orderly, UnbornUnedited,
           Idle(page, rows, server, chosen), page.selected.id # None,
           server' = server,
           \A id \in RiSc : id # page.selected.id => chosen'[id] = chosen[id]
    PROVE  UnbornUnedited'
<1>1. page \in Pages /\ rows \in Rows
  BY Numbers
<1>2. Exists(server[page.selected.id])
  BY <1>1, SelectedCurrent
<1>3. server[page.selected.id].status # "Unborn"
  BY <1>2 DEF Exists, Statuses
<1> QED BY <1>3 DEF UnbornUnedited

\* A pending status is what the user chose.
LEMMA NewStatusOrderly ==
    ASSUME TypeInv, EditsInv, OrderlyInv, orderly', NEW i \in Actions, OnNewActionStatus(i)
    PROVE  OrderlyInv'
<1> DEFINE id == page.selected.id
<1>1. /\ rows.open /\ rows' = [rows EXCEPT !.pending[i] = Edit, !.timer = TRUE]
      /\ UNCHANGED <<server, page, dialog>> /\ KeepHistory(Quiet, {i}) /\ Edits
      /\ ~Marked(page.selected.status)
  BY DEF OnNewActionStatus
<1>2. i \in Item /\ i # Info
  BY DEF Actions
<1>3. /\ orderly /\ Quiet
      /\ \A other \in RiSc : chosen'[other] = [j \in Item |->
            IF other = id /\ j \in {i} THEN Edit ELSE chosen[other][j]]
      /\ \A other \in RiSc : other # id => chosen'[other] = chosen[other]
  BY <1>1, <1>2, Orderly
<1>4. page \in Pages /\ rows \in Rows /\ id # None
  BY <1>1, Numbers, EditTypes
<1>5. Idle(page, rows, server, chosen)
  BY <1>3, QuietIsIdle DEF Quiet
<1>6. /\ page.requests = {} /\ page.fetched /\ ~page.riScs /\ id \in RiSc
      /\ SafeBut(page.selected.content, chosen[id], PendingItems(rows))
      /\ server[id].content = page.selected.content
      /\ PendingSafe(rows, chosen[id], rows.timer)
      /\ \A other \in RiSc \ {id} : KeptBut(server[other], chosen[other], {})
  BY <1>1, <1>4, <1>5, SelectedCurrent
<1>7. Edit # 0
  BY Numbers DEF Edit
<1>8. chosen'[id][i] = Edit /\ \A j \in Item \ {i} : chosen'[id][j] = chosen[id][j]
  <2> HIDE DEF Edit
  <2> QED BY <1>2, <1>3, <1>6
<1> HIDE DEF Edit
<1>9. /\ rows'.open /\ rows'.timer /\ rows'.pending[i] = Edit
      /\ \A j \in Item \ {i} : rows'.pending[j] = rows.pending[j]
  BY <1>1, <1>2, <1>4 DEF Rows, Content
<1>10. PendingItems(rows') = PendingItems(rows) \cup {i}
  BY <1>2, <1>7, <1>9 DEF PendingItems
<1>11. PendingSafe(rows', chosen'[id], rows'.timer)
  <2>1. \A j \in Item : rows.pending[j] # 0 => rows.pending[j] = chosen[id][j]
    BY <1>4, <1>6, NothingPending DEF PendingSafe, PendingItems
  <2>2. rows.pending[Info] = 0
    BY <1>6, PageAssumption DEF PendingSafe, HasPending, Blank
  <2>3. \A j \in Item : rows'.pending[j] # 0 => rows'.pending[j] = chosen'[id][j]
    BY <1>8, <1>9, <2>1
  <2>4. rows'.pending[Info] = 0
    BY <1>2, <1>9, <2>2, PageAssumption
  <2> QED BY <1>9, <2>3, <2>4 DEF PendingSafe
<1>12. /\ SafeBut(page.selected.content, chosen'[id], PendingItems(rows'))
       /\ Newer(page.selected.content, rows', {})
  <2>1. page.selected.content \in Content /\ chosen \in [RiSc -> Content]
    BY <1>4 DEF Pages, Selections, TypeInv, OtherTypes
  <2>2. used.edits \in Nat /\ Edit = used.edits + 1
    BY Numbers DEF Edit
  <2>3. \A j \in Item : rows.pending[j] # 0 =>
           page.selected.content[j] < rows.pending[j] /\ rows.pending[j] <= used.edits
    <3>1. Newer(page.selected.content, rows, {})
      BY <1>5 DEF Idle
    <3>2. \A j \in Item : rows.pending[j] # 0 => rows.pending[j] = chosen[id][j]
      BY <1>4, <1>6, NothingPending DEF PendingSafe, PendingItems
    <3> QED BY <1>6, <3>1, <3>2 DEF Newer, EditsInv
  <2>4. page.selected.content[i] < Edit
    <3>1. page.selected.content[i] \in Nat /\ rows.pending[i] \in Nat
      BY <1>2, <1>4, <2>1 DEF Content, Rows
    <3>2. CASE rows.pending[i] # 0
      BY <1>2, <2>2, <2>3, <3>1, <3>2
    <3>3. CASE rows.pending[i] = 0
      <4>1. page.selected.content[i] = chosen[id][i]
        BY <1>2, <1>6, <3>3 DEF SafeBut, PendingItems
      <4>2. chosen[id][i] <= used.edits
        BY <1>2, <1>6 DEF EditsInv
      <4> QED BY <2>2, <3>1, <4>1, <4>2
    <3> QED BY <3>2, <3>3
  <2>5. Newer(page.selected.content, rows', {})
    BY <1>2, <1>9, <2>3, <2>4 DEF Newer
  <2> QED BY <1>6, <1>8, <1>10, <2>5 DEF SafeBut
<1>13. Idle(page', rows', server', chosen')
  <2>1. \A other \in RiSc :
           KeptBut(server[other], chosen'[other],
                   IF other = id THEN PendingItems(rows') ELSE {})
    <3>1. KeptBut(server[id], chosen'[id], PendingItems(rows'))
      BY <1>6, <1>12 DEF KeptBut
    <3>2. ASSUME NEW other \in RiSc \ {id} PROVE KeptBut(server[other], chosen'[other], {})
      BY <1>3, <1>6
    <3> QED BY <3>1, <3>2
  <2>2. PendingSafe(rows', WishOf(chosen', id), rows'.timer)
    BY <1>4, <1>11 DEF WishOf
  <2>3. page' = page /\ server' = server
    BY <1>1
  <2> QED BY <1>4, <1>5, <1>12, <2>1, <2>2, <2>3 DEF Idle
<1>14. UnbornUnedited'
  BY <1>1, <1>3, <1>4, <1>5, EditedOnly DEF OrderlyInv
<1>15. DialogCurrent'
  BY <1>1, <1>3 DEF DialogCurrent, OrderlyInv
<1> QED BY <1>13, <1>14, <1>15 DEF OrderlyInv, OrderlyPage

\* A form saves what is shown, with one item as the user chose it.
LEMMA FormOrderly ==
    ASSUME TypeInv, OrderlyInv, orderly', Edits, NEW i \in Item, NEW inTurn,
           KeepHistory(inTurn, {i}), inTurn => page.requests = {} /\ rows.pending[i] = 0,
           Show(UpdateRiSc(page, page, [page.selected.content EXCEPT ![i] = Edit], {}),
                FALSE, rows),
           ~Marked(page.selected.status), server' = server, ~dialog'.open
    PROVE  OrderlyInv'
<1> DEFINE id == page.selected.id
           content == [page.selected.content EXCEPT ![i] = Edit]
           p == UpdateRiSc(page, page, content, {})
<1>1. /\ orderly /\ inTurn
      /\ \A other \in RiSc : chosen'[other] = [j \in Item |->
            IF other = id /\ j \in {i} THEN Edit ELSE chosen[other][j]]
      /\ \A other \in RiSc : other # id => chosen'[other] = chosen[other]
  BY Orderly
<1>2. page \in Pages /\ rows \in Rows /\ id # None /\ Edit \in 0..MaxEdits
  BY Numbers, EditTypes
<1>3. Idle(page, rows, server, chosen)
  BY <1>1, QuietIsIdle
<1>4. /\ page.requests = {} /\ page.fetched /\ ~page.riScs /\ id \in RiSc
      /\ id \in DOMAIN page.list /\ ~Marked(server[id].status)
      /\ SafeBut(page.selected.content, chosen[id], PendingItems(rows))
      /\ PendingSafe(rows, chosen[id], rows.timer)
      /\ Agrees(VersionOf(page.selected), server[id])
      /\ \A other \in RiSc \ {id} :
            Reflects(page.list, other, server) /\ KeptBut(server[other], chosen[other], {})
  BY <1>2, <1>3, SelectedCurrent
<1>5. chosen'[id][i] = Edit /\ \A j \in Item \ {i} : chosen'[id][j] = chosen[id][j]
  <2> HIDE DEF Edit
  <2> QED BY <1>1, <1>4
<1>6. /\ content \in Content /\ content[i] = Edit
      /\ \A j \in Item \ {i} : content[j] = page.selected.content[j]
  <2> HIDE DEF Edit
  <2>1. page.selected.content \in Content
    BY <1>2 DEF Pages, Selections
  <2> QED BY <1>2, <2>1 DEF Content
<1> HIDE DEF Edit, content
<1>7. SafeBut(content, chosen'[id], PendingItems(rows) \ {}) /\ Newer(content, rows, {})
  <2>1. Newer(page.selected.content, rows, {})
    BY <1>3 DEF Idle
  <2>2. Newer(content, rows, {})
    BY <1>1, <1>6, <2>1 DEF Newer
  <2> QED BY <1>4, <1>5, <1>6, <2>2 DEF SafeBut
<1>8. PendingSafe(rows, chosen'[id], rows.timer \/ {} # {})
  <2>1. rows.pending[i] = 0
    BY <1>1
  <2> QED BY <1>4, <1>5, <2>1 DEF PendingSafe
<1>9. \A other \in RiSc \ {id} :
         Reflects(page.list, other, server) /\ KeptBut(server[other], chosen'[other], {})
  BY <1>1, <1>4
<1>10. Flies(p, page, id, {}, rows, server, chosen')
  <2>1. {} \in SUBSET Item
    OBVIOUS
  <2> QED BY <1>2, <1>4, <1>6, <1>7, <1>8, <1>9, <2>1, UpdateFlies
<1>11. p.selected.id = id /\ p.url = page.url
  <2> HIDE DEF p
  <2> QED BY <1>10 DEF Flies, SamePage
<1>12. page' = p /\ rows' = rows
  <2>1. Show(p, FALSE, rows)
    BY DEF content
  <2> HIDE DEF p
  <2> QED BY <1>11, <2>1, ShowSame
<1>13. OrderlyPage(page', rows', server', chosen')
  <2> HIDE DEF p
  <2> QED BY <1>10, <1>12 DEF Flies, OrderlyPage
<1>14. UnbornUnedited'
  BY <1>1, <1>2, <1>3, EditedOnly DEF OrderlyInv
<1>15. DialogCurrent'
  BY DEF DialogCurrent
<1> QED BY <1>13, <1>14, <1>15 DEF OrderlyInv

\* Both forms.
LEMMA FormsOrderly ==
    ASSUME TypeInv, OrderlyInv, orderly', (\E i \in Actions : SaveAction(i)) \/ SubmitDialog
    PROVE  OrderlyInv'
<1>1. ASSUME NEW i \in Actions, SaveAction(i)
      PROVE  OrderlyInv'
  <2> DEFINE inTurn == Quiet /\ rows.pending[i] = 0
  <2>1. /\ Edits /\ KeepHistory(inTurn, {i})
        /\ Show(UpdateRiSc(page, page, [page.selected.content EXCEPT ![i] = Edit], {}),
                FALSE, rows)
        /\ ~Marked(page.selected.status) /\ server' = server /\ ~dialog'.open
    BY <1>1 DEF SaveAction
  <2>2. inTurn => page.requests = {} /\ rows.pending[i] = 0
    BY DEF Quiet
  <2>3. i \in Item
    BY DEF Actions
  <2> HIDE DEF inTurn
  <2> QED BY <2>1, <2>2, <2>3, FormOrderly
<1>2. CASE SubmitDialog
  <2>1. /\ Edits /\ KeepHistory(Quiet, {Info}) /\ dialog.open
        /\ Show(UpdateRiSc(page, page, [dialog.content EXCEPT ![Info] = Edit], {}),
                FALSE, rows)
        /\ ~Marked(page.selected.status) /\ server' = server /\ dialog' = NoDialog
    BY <1>2 DEF SubmitDialog
  <2>2. Info \in Item
    BY PageAssumption
  <2>3. orderly /\ Quiet
    BY <2>1, <2>2, Orderly
  <2>4. dialog.content = page.selected.content /\ page.requests = {}
    BY <2>1, <2>3 DEF OrderlyInv, DialogCurrent, Quiet
  <2>5. rows.pending[Info] = 0
    <3>1. Idle(page, rows, server, chosen)
      BY <2>3, <2>4, QuietIsIdle
    <3> QED BY <2>2, <3>1 DEF Idle, PendingSafe, HasPending, Blank
  <2>6. ~dialog'.open
    BY <2>1 DEF NoDialog
  <2>7. Show(UpdateRiSc(page, page, [page.selected.content EXCEPT ![Info] = Edit], {}),
             FALSE, rows)
    BY <2>1, <2>4
  <2> QED BY <2>1, <2>2, <2>4, <2>5, <2>6, <2>7, FormOrderly
<1> QED BY <1>1, <1>2

\* A deletion or an approval of the RiSc that is selected is the one thing under way.
LEMMA SubmissionFlies ==
    ASSUME page \in Pages, rows \in Rows, Idle(page, rows, server, chosen),
           page.selected.id # None, NEW kind \in {"delete", "approve"}, NEW status \in Statuses,
           \/ kind = "delete" /\ status = "DeletionDraft"
           \/ /\ kind = "approve" /\ status = "SentForApproval"
              /\ page.selected.status = "Draft"
           \/ /\ kind = "approve" /\ status = "DeletionSentForApproval"
              /\ page.selected.status = "DeletionDraft",
           Show(Send(page, Request(kind, page, [page.selected EXCEPT !.status = status], {})),
                FALSE, rows)
    PROVE  OrderlyPage(page', rows', server, chosen)
<1> DEFINE id == page.selected.id
           new == [page.selected EXCEPT !.status = status]
           request == Request(kind, page, new, {})
           p == Send(page, request)
<1>1. /\ page.requests = {} /\ page.fetched /\ ~page.riScs /\ id \in RiSc
      /\ id \in DOMAIN page.list
      /\ Marked(page.selected.status) <=> Marked(server[id].status)
      /\ page.selected.status = "Draft" => server[id].status = "Draft"
      /\ ~Marked(page.selected.status) =>
            /\ server[id].content = page.selected.content
            /\ SafeBut(page.selected.content, chosen[id], PendingItems(rows))
      /\ PendingSafe(rows, chosen[id], rows.timer)
      /\ \A other \in RiSc \ {id} :
            Reflects(page.list, other, server) /\ KeptBut(server[other], chosen[other], {})
  BY SelectedCurrent
<1>2. /\ new \in Selections /\ new.id = id /\ new.status = status
      /\ new.content = page.selected.content
  BY DEF Pages, Selections
<1> HIDE DEF new
<1>3. /\ request \in Requests /\ request.kind = kind /\ request.list = page.list
      /\ request.old = page.selected /\ request.new = new /\ request.batch = {}
      /\ request.answer = "none"
  <2>1. request \in Requests
    BY <1>2, RequestTypes
  <2> QED BY <2>1 DEF Request
<1> HIDE DEF request
<1>4. IsFiniteSet(page.requests)
  BY <1>1, FS_EmptySet
<1>5. /\ p \in Pages /\ SamePage(page, p) /\ p.selected = page.selected
      /\ \E sent \in Requests : /\ SameRequest(sent, request)
                                /\ p.requests = page.requests \cup {sent}
  BY <1>3, <1>4, SendShape
<1>6. PICK c \in Requests : SameRequest(c, request) /\ p.requests = page.requests \cup {c}
  BY <1>5
<1>7. page' = p /\ rows' = rows
  <2>1. Show(p, FALSE, rows)
    BY DEF request, new
  <2> HIDE DEF p
  <2>2. p.url = page.url /\ p.selected.id = page.selected.id
    BY <1>5 DEF SamePage
  <2> QED BY <2>1, <2>2, ShowSame
<1> HIDE DEF p
<1>8. /\ c.kind = kind /\ c.list = page.list /\ c.old = page.selected /\ c.new = new
      /\ c.batch = {} /\ c.answer = "none"
  BY <1>3, <1>6 DEF SameRequest
<1>9. /\ p.requests = {c} /\ p.fetched /\ ~p.riScs /\ p.list = page.list
  BY <1>1, <1>5, <1>6 DEF SamePage
<1>10. Answerable(c, server[c.new.id])
  <2>1. CASE kind = "delete"
    BY <1>2, <1>8, <2>1 DEF Answerable
  <2>2. CASE /\ kind = "approve" /\ status = "SentForApproval"
             /\ page.selected.status = "Draft"
    <3>1. ~Marked(page.selected.status)
      BY <2>2 DEF Marked
    <3>2. server[id].status = "Draft" /\ server[id].content = page.selected.content
      BY <1>1, <2>2, <3>1
    <3> QED BY <1>2, <1>8, <2>2, <3>2 DEF Answerable
  <2>3. CASE /\ kind = "approve" /\ status = "DeletionSentForApproval"
             /\ page.selected.status = "DeletionDraft"
    <3>1. Marked(server[id].status)
      BY <1>1, <2>3 DEF Marked
    <3> QED BY <1>2, <1>8, <2>3, <3>1 DEF Answerable
  <2> QED BY <2>1, <2>2, <2>3
<1>11. ~Marked(c.new.status) =>
          SafeBut(c.new.content, chosen[c.new.id], PendingItems(rows) \ c.batch)
  <2>1. SUFFICES ASSUME ~Marked(status)
                 PROVE  SafeBut(page.selected.content, chosen[id], PendingItems(rows))
    BY <1>2, <1>8
  <2>2. page.selected.status = "Draft"
    BY <2>1 DEF Marked
  <2>3. ~Marked(page.selected.status)
    BY <2>2 DEF Marked
  <2> QED BY <1>1, <2>3
<1>12. Carries(c, rows, server, chosen)
  <2>1. Newer(c.new.content, rows, c.batch)
    BY <1>2, <1>8 DEF Idle
  <2> QED BY <1>1, <1>2, <1>8, <1>10, <1>11, <2>1 DEF Carries
<1>13. Flight(c, p, rows, server, chosen)
  <2>1. PendingSafe(rows, chosen[c.new.id], rows.timer \/ c.batch # {})
    BY <1>1, <1>2, <1>8 DEF PendingSafe
  <2>2. HasPending(rows) =>
          /\ p.selected.id = c.new.id /\ p.list = c.list
          /\ p.selected.content = c.new.content
          /\ ~Marked(p.selected.status) =>
                SafeBut(p.selected.content, chosen[c.new.id], PendingItems(rows))
    BY <1>1, <1>2, <1>5, <1>8, <1>9
  <2>3. p.selected.id # None
    BY <1>5
  <2>4. c.kind # "create"
    BY <1>8
  <2> QED BY <1>9, <1>12, <2>1, <2>2, <2>3, <2>4 DEF Flight
<1> QED BY <1>7, <1>9, <1>13 DEF OrderlyPage

\* What is left of a step that changes neither the backend nor what was chosen.
LEMMA SameWishes ==
    ASSUME TypeInv, OrderlyInv, orderly', NEW inTurn, KeepHistory(inTurn, {}), server' = server,
           dialog' = dialog, OrderlyPage(page', rows', server, chosen), ~dialog.open
    PROVE  OrderlyInv'
<1>1. chosen' = chosen /\ orderly
  BY Orderly
<1> QED BY <1>1 DEF OrderlyInv, DialogCurrent, UnbornUnedited

\* Deleting and approving.
LEMMA SubmissionsOrderly ==
    ASSUME TypeInv, OrderlyInv, orderly', SubmitDeletion \/ HandleApproveAndPublish
    PROVE  OrderlyInv'
<1>1. /\ KeepHistory(Quiet, {}) /\ UNCHANGED <<server, dialog>> /\ ~dialog.open
      /\ page.selected.id # None
  BY DEF SubmitDeletion, HandleApproveAndPublish
<1>2. orderly /\ Quiet /\ page \in Pages /\ rows \in Rows
  BY <1>1, Orderly, Numbers
<1>3. Idle(page, rows, server, chosen)
  BY <1>2, QuietIsIdle DEF Quiet
<1>4. CASE SubmitDeletion
  <2>1. Show(Send(page, Request("delete", page,
                                [page.selected EXCEPT !.status = "DeletionDraft"], {})),
             FALSE, rows)
    BY <1>4 DEF SubmitDeletion, DeleteRiSc
  <2>2. "DeletionDraft" \in Statuses
    BY DEF Statuses
  <2>3. OrderlyPage(page', rows', server, chosen)
    BY <1>1, <1>2, <1>3, <2>1, <2>2, SubmissionFlies
  <2> QED BY <1>1, <2>3, SameWishes
<1>5. CASE HandleApproveAndPublish
  <2> DEFINE status == IF page.selected.status = "Draft" THEN "SentForApproval"
                                                         ELSE "DeletionSentForApproval"
  <2>1. Show(Send(page, Request("approve", page,
                                [page.selected EXCEPT !.status = status], {})),
             FALSE, rows)
    BY <1>5 DEF HandleApproveAndPublish, ApproveRiSc
  <2>2. /\ status \in Statuses
        /\ \/ status = "SentForApproval" /\ page.selected.status = "Draft"
           \/ status = "DeletionSentForApproval" /\ page.selected.status = "DeletionDraft"
    BY <1>5 DEF HandleApproveAndPublish, Statuses
  <2> HIDE DEF status
  <2>3. OrderlyPage(page', rows', server, chosen)
    <3>1. CASE status = "SentForApproval" /\ page.selected.status = "Draft"
      BY <1>1, <1>2, <1>3, <2>1, <2>2, <3>1, SubmissionFlies
    <3>2. CASE status = "DeletionSentForApproval" /\ page.selected.status = "DeletionDraft"
      BY <1>1, <1>2, <1>3, <2>1, <2>2, <3>2, SubmissionFlies
    <3> QED BY <2>2, <3>1, <3>2
  <2> QED BY <1>1, <2>3, SameWishes
<1> QED BY <1>4, <1>5

\* A creation is the one thing under way only if nothing was pending.
LEMMA CreationOrderly ==
    ASSUME TypeInv, TypeInv', OrderlyInv, orderly', NEW id \in RiSc, SubmitCreation(id)
    PROVE  OrderlyInv'
<1> DEFINE new == Selected(id, VersionOf(NoRiSc))
           request == Request("create", page, new, {})
           q == Send(page, request)
           p == CreateNewRiSc(page, id)
<1>1. /\ KeepHistory(Quiet, {}) /\ UNCHANGED <<server, dialog>> /\ ~dialog.open
      /\ page.selected.id # None \/ page.fetched
      /\ server[id].status = "Unborn" /\ Show(p, FALSE, rows)
  BY DEF SubmitCreation
<1>2. /\ orderly /\ Quiet /\ page \in Pages /\ rows \in Rows
      /\ Cardinality(page'.requests) <= 1
  BY <1>1, Orderly, Numbers
<1>3. Idle(page, rows, server, chosen)
  BY <1>2, QuietIsIdle DEF Quiet
<1>4. /\ page.requests = {} /\ page.fetched /\ ~page.riScs
      /\ \A other \in RiSc : Reflects(page.list, other, server)
  BY <1>1, <1>3 DEF Idle
<1>5. NoRiSc \in Selections
  BY BlankTypes DEF NoRiSc, Selections, Statuses
<1>6. new \in Selections /\ new.id = id /\ new.content = Blank /\ new.status = "Draft"
  BY <1>5 DEF NoRiSc, Selections, Selected, VersionOf
<1> HIDE DEF new
<1>7. /\ request \in Requests /\ request.kind = "create" /\ request.list = page.list
      /\ request.new = new /\ request.batch = {} /\ request.answer = "none"
  <2>1. request \in Requests
    BY <1>2, <1>6, RequestTypes
  <2> QED BY <2>1 DEF Request
<1> HIDE DEF request
<1>8. /\ q \in Pages /\ SamePage(page, q)
      /\ \E sent \in Requests : /\ SameRequest(sent, request)
                                /\ q.requests = page.requests \cup {sent}
  BY <1>2, <1>4, <1>7, SendShape, FS_EmptySet
<1>9. PICK c \in Requests : SameRequest(c, request) /\ q.requests = page.requests \cup {c}
  BY <1>8
<1>10. p = [q EXCEPT !.selected = NoRiSc, !.spinner = TRUE]
  BY DEF CreateNewRiSc, request, new
<1> HIDE DEF q, p
<1>11. /\ p \in Pages /\ p.requests = {c} /\ p.fetched /\ ~p.riScs /\ p.url = page.url
       /\ p.selected.id = None
  BY <1>4, <1>5, <1>8, <1>9, <1>10 DEF Pages, SamePage, NoRiSc
<1>12. /\ c.kind = "create" /\ c.list = page.list /\ c.new = new /\ c.batch = {}
       /\ c.answer = "none"
  BY <1>7, <1>9 DEF SameRequest
<1>13. chosen[id] = Blank
  BY <1>1, <1>2 DEF OrderlyInv, UnbornUnedited
<1>14. ~HasPending(rows)
  <2> SUFFICES ASSUME HasPending(rows) PROVE FALSE
    OBVIOUS
  <2> DEFINE content == Overlay(page.selected.content, rows.pending)
             f == Flush(p, page, rows)
  <2>1. rows.open /\ page.selected.id # None
    BY <1>3 DEF Idle, PendingSafe
  <2>2. PICK d \in {f, SelectByUrl(f)} : page' = Detached(d)
    BY <1>1, <1>11, <2>1, ShowCases
  <2>3. content \in Content
    BY <1>2, OverlayTypes DEF Pages, Selections, Rows
  <2>4. f = UpdateRiSc(p, page, content, {})
    BY DEF Flush, SavePending
  <2>5. Updated(f, p, page, content, {})
    <3>1. IsFiniteSet(p.requests)
      BY <1>11, FS_Singleton
    <3>2. {} \in SUBSET Item
      OBVIOUS
    <3> HIDE DEF f, content
    <3> QED BY <1>2, <1>4, <1>11, <2>1, <2>3, <2>4, <3>1, <3>2, UpdateShape
  <2> HIDE DEF f, content
  <2>6. f \in Pages
    BY <2>5 DEF Updated
  <2>7. d \in Pages /\ d.requests = f.requests /\ d.status = f.status
    BY <2>2, <2>6, SelectShape
  <2>8. /\ page'.requests = {[e EXCEPT !.batch = {}] : e \in f.requests}
        /\ page'.status = f.status
    BY <2>2, <2>7 DEF Detached, Pages
  <2>9. page'.status # "error"
    BY <1>1, Orderly
  <2>10. PICK sent \in Requests : /\ IsUpdate(sent, page, content, {})
                                  /\ f.requests = p.requests \cup {sent}
    BY <2>5, <2>8, <2>9 DEF Updated
  <2>11. c \in f.requests /\ sent \in f.requests /\ sent.kind = "update"
    BY <1>11, <2>10 DEF IsUpdate
  <2> DEFINE x == [c EXCEPT !.batch = {}]
             y == [sent EXCEPT !.batch = {}]
  <2>12. x \in page'.requests /\ y \in page'.requests
    BY <2>8, <2>11
  <2>13. x.kind = "create" /\ y.kind = "update"
    BY <1>12, <2>11 DEF Requests
  <2>14. IsFiniteSet(page'.requests)
    BY DEF TypeInv, Loaded, PageTypes
  <2> HIDE DEF x, y
  <2> QED BY <1>2, <2>12, <2>13, <2>14, MoreThanOne
<1>15. ASSUME NEW r \in Rows, ~r.open, ~HasPending(r)
       PROVE  Flight(c, p, r, server, chosen)
  <2>1. Answerable(c, server[c.new.id])
    BY <1>1, <1>6, <1>12 DEF Answerable, Marked
  <2>2. SafeBut(c.new.content, chosen[c.new.id], PendingItems(r) \ c.batch)
    BY <1>6, <1>12, <1>13 DEF SafeBut
  <2>3. \A other \in RiSc \ {c.new.id} : KeptBut(server[other], chosen[other], {})
    <3>1. ASSUME NEW other \in RiSc, other # id PROVE KeptBut(server[other], chosen[other], {})
      <4>1. CASE other # page.selected.id
        BY <1>3, <4>1 DEF Idle
      <4>2. CASE other = page.selected.id /\ ~HasPending(rows)
        BY <1>3, <4>2, NothingPending DEF Idle
      <4>3. CASE other = page.selected.id /\ HasPending(rows)
        BY <1>14, <4>3
      <4> QED BY <4>1, <4>2, <4>3
    <3> QED BY <1>6, <1>12, <3>1
  <2>4. Carries(c, r, server, chosen)
    BY <1>4, <1>12, <1>15, <2>1, <2>2, <2>3, NothingPending DEF Carries
  <2> QED BY <1>11, <1>12, <1>15, <2>4 DEF Flight, PendingSafe
<1>16. CASE rows.open
  <2>1. PICK d \in {Flush(p, page, rows), SelectByUrl(Flush(p, page, rows))} :
                /\ ~FALSE /\ p.url = page.url => d = Flush(p, page, rows)
                /\ page' = Detached(d) /\ rows' = Closed
    BY <1>1, <1>3, <1>11, <1>16, ShowCases DEF Idle
  <2>2. d = p
    BY <1>11, <1>14, <2>1 DEF Flush, SavePending
  <2>3. Flight(c, p, Closed, server, chosen)
    BY <1>15, NothingPending
  <2>4. Flight(c, page', rows', server, chosen)
    BY <1>11, <1>12, <2>1, <2>2, <2>3, DetachedFlight
  <2> QED BY <1>1, <2>4, SameWishes DEF OrderlyPage, Flight
<1>17. CASE ~rows.open
  <2>1. page' = p /\ rows' = rows
    BY <1>1, <1>11, <1>17, ShowSame
  <2>2. Flight(c, page', rows', server, chosen)
    BY <1>2, <1>15, <1>14, <1>17, <2>1
  <2> QED BY <1>1, <2>2, SameWishes DEF OrderlyPage, Flight
<1> QED BY <1>16, <1>17

\* A dialog is filled with what is shown.
LEMMA DialogOrderly ==
    ASSUME TypeInv, OrderlyInv, orderly', OpenDialog
    PROVE  OrderlyInv'
<1>1. /\ KeepHistory(Quiet, {}) /\ UNCHANGED <<server, page, rows>>
      /\ dialog' = [open |-> TRUE, content |-> page.selected.content]
      /\ page.selected.id # None
  BY DEF OpenDialog
<1>2. orderly /\ Quiet /\ chosen' = chosen
  BY <1>1, Orderly
<1>3. DialogCurrent'
  BY <1>1, <1>2 DEF DialogCurrent, Quiet
<1> QED BY <1>1, <1>2, <1>3 DEF OrderlyInv, UnbornUnedited

\* Another RiSc is opened, and what is pending for the one before is saved.
LEMMA SelectionOrderly ==
    ASSUME TypeInv, OrderlyInv, orderly', NEW id \in RiSc, SelectRiSc(id)
    PROVE  OrderlyInv'
<1> DEFINE p == [page EXCEPT !.url = id]
<1>1. /\ KeepHistory(Quiet, {}) /\ UNCHANGED <<server, dialog>> /\ ~dialog.open
      /\ id \in DOMAIN page.list /\ Show(p, FALSE, rows)
  BY DEF SelectRiSc, Move
<1>2. orderly /\ Quiet /\ page \in Pages /\ rows \in Rows /\ page'.status # "error"
  BY <1>1, Orderly, Numbers
<1>3. Idle(page, rows, server, chosen)
  BY <1>2, QuietIsIdle DEF Quiet
<1>4. /\ p \in Pages /\ p.selected = page.selected /\ p.list = page.list
      /\ p.requests = page.requests /\ p.fetched = page.fetched /\ p.riScs = page.riScs
  BY <1>2 DEF Pages
<1>5. HasPending(rows) => rows.open /\ Flushable(page, rows, server, chosen)
  <2>1. HasPending(rows) => rows.open /\ page.selected.id # None
    BY <1>3 DEF Idle, PendingSafe
  <2> QED BY <1>2, <1>3, <2>1, SelectedCurrent
<1> HIDE DEF p
<1>6. Idle(p, rows, server, chosen)
  BY <1>3, <1>4 DEF Idle
<1>7. HasPending(rows) => Flushable(p, rows, server, chosen)
  BY <1>4, <1>5 DEF Flushable
<1>8. page.fetched
  BY <1>1, <1>3 DEF Idle
<1>9. OrderlyPage(page', rows', server, chosen)
  BY <1>1, <1>2, <1>4, <1>5, <1>6, <1>7, <1>8, ShowIdle
<1> QED BY <1>1, <1>9, SameWishes

\* Opening the rows: nothing is pending in them yet.
LEMMA OpenRowsOrderly ==
    ASSUME TypeInv, OrderlyInv, orderly', OpenRows
    PROVE  OrderlyInv'
<1>1. /\ KeepHistory(TRUE, {}) /\ UNCHANGED <<server, dialog, page>>
      /\ ~rows.open /\ page.selected.id # None
      /\ rows' = [Closed EXCEPT !.open = TRUE]
  BY DEF OpenRows, Move
<1>2. orderly /\ chosen' = chosen /\ rows \in Rows
  BY <1>1, Orderly, Numbers
<1>3. /\ rows' \in Rows /\ rows'.pending = Blank /\ ~HasPending(rows')
      /\ PendingItems(rows') = {}
  BY <1>1, BlankTypes DEF Closed, Rows, HasPending, PendingItems, Blank
<1>4. OrderlyPage(page', rows', server', chosen')
  <2>1. CASE Idle(page, rows, server, chosen)
    <3>1. ~HasPending(rows)
      BY <1>1, <2>1 DEF Idle, PendingSafe
    <3>2. PendingItems(rows) = {}
      BY <3>1, NothingPending
    <3>3. Idle(page, rows', server, chosen)
      BY <1>1, <1>3, <2>1, <3>2, NothingPending DEF Idle, PendingSafe
    <3> QED BY <1>1, <1>2, <3>3 DEF OrderlyPage
  <2>2. ASSUME NEW c \in page.requests, Flight(c, page, rows, server, chosen)
        PROVE  OrderlyPage(page', rows', server', chosen')
    <3>1. ~HasPending(rows)
      BY <1>1, <2>2 DEF Flight, PendingSafe
    <3>2. PendingItems(rows) = {}
      BY <3>1, NothingPending
    <3>3. Carries(c, rows', server, chosen)
      BY <1>3, <2>2, <3>2, NothingPending DEF Flight, Carries
    <3>4. Flight(c, page, rows', server, chosen)
      BY <1>1, <1>3, <2>2, <3>3 DEF Flight, PendingSafe
    <3> QED BY <1>1, <1>2, <3>4 DEF OrderlyPage
  <2> QED BY <1>2, <2>1, <2>2 DEF OrderlyInv, OrderlyPage
<1>5. DialogCurrent' /\ UnbornUnedited'
  BY <1>1, <1>2 DEF OrderlyInv, DialogCurrent, UnbornUnedited
<1> QED BY <1>4, <1>5 DEF OrderlyInv

\* What is left of a step that sends what was pending, while a dialog may be open.
LEMMA SavedOrderly ==
    ASSUME TypeInv, OrderlyInv, orderly', NEW inTurn, KeepHistory(inTurn, {}), server' = server,
           dialog' = dialog, OrderlyPage(page', rows', server, chosen),
           page'.requests = {} => page' = page
    PROVE  OrderlyInv'
<1>1. chosen' = chosen /\ orderly /\ (dialog'.open => page'.requests = {})
  BY Orderly
<1> QED BY <1>1 DEF OrderlyInv, DialogCurrent, UnbornUnedited

\* Leaving the rows saves what is pending.
LEMMA CloseRowsOrderly ==
    ASSUME TypeInv, OrderlyInv, orderly', CloseRows
    PROVE  OrderlyInv'
<1> DEFINE f == Flush(page, page, rows)
<1>1. /\ KeepHistory(Quiet, {}) /\ UNCHANGED <<server, dialog>> /\ rows.open
      /\ page' = Detached(f) /\ rows' = Closed
  BY DEF CloseRows
<1>2. orderly /\ Quiet /\ page \in Pages /\ rows \in Rows /\ page'.status # "error"
  BY <1>1, Orderly, Numbers
<1>3. Idle(page, rows, server, chosen)
  BY <1>2, QuietIsIdle DEF Quiet
<1>4. page.selected.id # None
  BY <1>1, <1>3 DEF Idle
<1>5. CASE HasPending(rows)
  <2>1. /\ page.requests = {} /\ page.fetched /\ ~page.riScs
        /\ Flushable(page, rows, server, chosen)
    BY <1>2, <1>3, <1>4, SelectedCurrent
  <2>2. /\ f \in Pages
        /\ \/ f.status = "error"
           \/ \E c \in f.requests : /\ Flight(c, f, Closed, server, chosen)
                                    /\ c.kind = "update" /\ c.batch = {}
    BY <1>2, <1>5, <2>1, FlushFlies
  <2> HIDE DEF f
  <2>3. page'.status = f.status
    BY <1>1, <2>2 DEF Detached, Pages
  <2>4. PICK c \in f.requests : /\ Flight(c, f, Closed, server, chosen)
                                /\ c.kind = "update" /\ c.batch = {}
    BY <1>2, <2>2, <2>3
  <2>5. Flight(c, page', rows', server, chosen)
    BY <1>1, <2>2, <2>4, DetachedFlight
  <2>6. page'.requests = {c}
    BY <2>5 DEF Flight
  <2>7. OrderlyPage(page', rows', server, chosen)
    BY <2>5, <2>6 DEF OrderlyPage
  <2> QED BY <1>1, <2>6, <2>7, SavedOrderly
<1>6. CASE ~HasPending(rows)
  <2>1. f = page
    BY <1>6 DEF Flush, SavePending
  <2>2. Idle(page, Closed, server, chosen) /\ Detached(page) = page
    BY <1>2, <1>3, <1>6, CloseIdle
  <2>3. OrderlyPage(page', rows', server, chosen)
    BY <1>1, <2>1, <2>2 DEF OrderlyPage
  <2> QED BY <1>1, <2>1, <2>2, <2>3, SavedOrderly
<1> QED BY <1>5, <1>6

\* The timer saves what is pending, in a batch that its answer confirms.
LEMMA TimerOrderly ==
    ASSUME TypeInv, TypeInv', OrderlyInv, orderly', DebounceTimer
    PROVE  OrderlyInv'
<1> DEFINE batch == PendingItems(rows)
           content == Overlay(page.selected.content, rows.pending)
           p == SavePending(page, page, rows, batch)
           refused == HasPending(rows) /\ Marked(page.selected.status)
           id == page.selected.id
<1>1. /\ KeepHistory(TRUE, {}) /\ UNCHANGED <<server, dialog>> /\ rows.open /\ rows.timer
      /\ page' = p
      /\ rows' = [rows EXCEPT !.timer = refused,
                              !.pending = IF refused THEN Blank ELSE rows.pending]
  BY Numbers DEF DebounceTimer, Rows
<1>2. /\ orderly /\ page \in Pages /\ rows \in Rows /\ page'.status # "error"
      /\ Cardinality(page'.requests) <= 1
  BY <1>1, Orderly, Numbers
<1>3. content \in Content /\ batch \in SUBSET Item
  BY <1>2, OverlayTypes DEF Pages, Selections, Rows, PendingItems
<1>4. OrderlyPage(page, rows, server, chosen)
  BY <1>2 DEF OrderlyInv
<1>5. page.selected.id # None /\ page.fetched /\ IsFiniteSet(page.requests)
  <2>1. IsFiniteSet(page.requests)
    BY DEF TypeInv, Loaded, PageTypes
  <2> QED BY <1>1, <1>4, <2>1 DEF OrderlyPage, Idle, Flight
<1>6. CASE ~HasPending(rows)
  <2>1. page' = page
    BY <1>1, <1>6 DEF SavePending
  <2>2. rows' = [rows EXCEPT !.timer = FALSE, !.pending = rows.pending]
    BY <1>1, <1>6
  <2>3. rows'.open = rows.open /\ rows'.pending = rows.pending
    BY <1>2, <2>2 DEF Rows
  <2>4. ~HasPending(rows') /\ PendingItems(rows') = PendingItems(rows)
    BY <1>6, <2>3 DEF HasPending, PendingItems
  <2>5. CASE Idle(page, rows, server, chosen)
    <3>1. Idle(page, rows', server, chosen)
      BY <2>3, <2>4, <2>5, NothingPending DEF Idle, PendingSafe
    <3> QED BY <1>1, <2>1, <3>1, SavedOrderly DEF OrderlyPage
  <2>6. ASSUME NEW c \in page.requests, Flight(c, page, rows, server, chosen)
        PROVE  OrderlyInv'
    <3>1. Carries(c, rows', server, chosen)
      BY <2>4, <2>6, NothingPending DEF Flight, Carries
    <3>2. Flight(c, page, rows', server, chosen)
      BY <2>3, <2>4, <2>6, <3>1 DEF Flight, PendingSafe
    <3> QED BY <1>1, <2>1, <3>2, SavedOrderly DEF OrderlyPage
  <2> QED BY <1>4, <2>5, <2>6 DEF OrderlyPage
<1>7. CASE HasPending(rows)
  <2>1. p = UpdateRiSc(page, page, content, batch)
    BY <1>7 DEF SavePending
  <2> HIDE DEF content, batch
  <2>2. Updated(p, page, page, content, batch)
    BY <1>2, <1>3, <1>5, <2>1, UpdateShape
  <2> HIDE DEF p
  <2>3. ~Marked(page.selected.status)
    BY <1>1, <1>2, <2>2 DEF Updated
  <2>4. PICK sent \in Requests : /\ IsUpdate(sent, page, content, batch)
                                 /\ sent \notin page.requests
                                 /\ p.requests = page.requests \cup {sent}
    BY <2>2, <2>3 DEF Updated
  <2>5. page.requests = {}
    <3> SUFFICES ASSUME NEW c \in page.requests PROVE FALSE
      OBVIOUS
    <3>1. IsFiniteSet(page'.requests)
      BY DEF TypeInv, Loaded, PageTypes
    <3> QED BY <1>1, <1>2, <2>4, <3>1, MoreThanOne
  <2>6. Idle(page, rows, server, chosen)
    BY <1>4, <2>5 DEF OrderlyPage
  <2>7. /\ page.fetched /\ ~page.riScs /\ id \in RiSc
        /\ id \in DOMAIN page.list /\ ~Marked(server[id].status)
        /\ SafeBut(page.selected.content, chosen[id], PendingItems(rows))
        /\ PendingSafe(rows, chosen[id], rows.timer)
        /\ Agrees(VersionOf(page.selected), server[id])
        /\ \A other \in RiSc \ {id} :
              Reflects(page.list, other, server) /\ KeptBut(server[other], chosen[other], {})
    BY <1>2, <1>5, <2>3, <2>6, SelectedCurrent
  <2>8. ~refused
    BY <2>3
  <2>9. rows' = [rows EXCEPT !.timer = FALSE, !.pending = rows.pending]
    <3> HIDE DEF refused
    <3>1. (IF refused THEN Blank ELSE rows.pending) = rows.pending
      BY <2>8
    <3>2. refused = FALSE
      BY <2>3 DEF refused
    <3> QED BY <1>1, <3>1, <3>2
  <2>10. rows' \in Rows /\ rows'.open /\ rows'.pending = rows.pending
    BY <1>1, <1>2, <2>9 DEF Rows
  <2>11. batch # {} /\ PendingItems(rows') = batch
    BY <1>2, <1>7, <2>10, NothingPending DEF batch, PendingItems
  <2>12. PendingSafe(rows', chosen[id], rows'.timer \/ batch # {})
    BY <1>7, <2>7, <2>10, <2>11 DEF PendingSafe
  <2>13. SafeBut(content, chosen[id], PendingItems(rows') \ batch)
    <3>1. \A i \in Item : rows.pending[i] # 0 => rows.pending[i] = chosen[id][i]
      BY <1>7, <2>7 DEF PendingSafe
    <3>2. SafeBut(content, chosen[id], {})
      BY <2>7, <3>1, OverlaySafe DEF content
    <3> QED BY <3>2 DEF SafeBut
  <2>14. Newer(content, rows', batch)
    BY <2>11 DEF Newer, PendingItems
  <2>15. Flies(UpdateRiSc(page, page, content, batch), page, id, batch, rows', server, chosen)
    BY <1>2, <1>3, <1>5, <2>3, <2>5, <2>7, <2>10, <2>12, <2>13, <2>14, UpdateFlies
  <2>16. \E c \in page'.requests : Flight(c, page', rows', server, chosen)
    BY <1>1, <2>1, <2>15 DEF Flies
  <2>17. page'.requests # {}
    BY <2>16
  <2>18. OrderlyPage(page', rows', server, chosen)
    BY <2>16 DEF OrderlyPage
  <2> QED BY <1>1, <2>17, <2>18, SavedOrderly
<1> QED BY <1>6, <1>7

-----------------------------------------------------------------------------
(* One thing at a time: the backend.                                       *)

\* A request with an answer in its place.
WithAnswer(d, c, answer) ==
    /\ d \in Requests /\ d.answer = answer /\ d.kind = c.kind /\ d.list = c.list
    /\ d.old = c.old /\ d.new = c.new /\ d.batch = c.batch

\* An answer leaves a request under way, if the backend did what it answers.
LEMMA AnswerFlies ==
    ASSUME NEW p \in Pages, NEW c, NEW r, NEW s, NEW ch, Flight(c, p, r, s, ch),
           NEW answer, NEW d, WithAnswer(d, c, answer), NEW q,
           q = [p EXCEPT !.requests = {d}], NEW t,
           \A id \in RiSc \ {c.new.id} : t[id] = s[id],
           Answerable(d, t[c.new.id])
    PROVE  Flight(d, q, r, t, ch)
<1>1. /\ q.requests = {d} /\ q.fetched = p.fetched /\ q.riScs = p.riScs
      /\ q.selected = p.selected /\ q.list = p.list
  BY DEF Pages
<1>2. Carries(d, r, t, ch)
  <2>1. Carries(c, r, s, ch)
    BY DEF Flight
  <2>2. ASSUME NEW id \in RiSc \ {c.new.id}
        PROVE  Reflects(c.list, id, t) /\ KeptBut(t[id], ch[id], {})
    <3>1. Reflects(c.list, id, s) /\ KeptBut(s[id], ch[id], {}) /\ t[id] = s[id]
      BY <2>1 DEF Carries
    <3> QED BY <3>1 DEF Reflects
  <2> QED BY <2>1, <2>2 DEF Carries, WithAnswer
<1> QED BY <1>1, <1>2 DEF Flight, WithAnswer

\* The backend does what the page expects of a request, and answers that it did.
LEMMA ServedAsAnswered ==
    ASSUME NEW c \in Requests, NEW stored \in Stored, c.answer = "none",
           stored.status = "Published" => \A i \in Actions : stored.content[i] = 0,
           Answerable(c, stored), ~Breaks(c, stored),
           NEW d, WithAnswer(d, c, AnswerOf(c, stored))
    PROVE  /\ Answerable(d, Served(c, stored))
           /\ Served(c, stored).status # "Unborn"
<1> DEFINE served == Served(c, stored)
<1>1. d.new = c.new /\ d.batch = c.batch /\ d.answer = AnswerOf(c, stored)
  BY DEF WithAnswer
<1>2. c.kind \in {"update", "create", "delete", "approve"}
  BY DEF Requests
<1>3. CASE c.kind \in {"update", "create"}
  <2> DEFINE requires == RequiresNewApproval(c.old.content, c.new.content)
  <2>1. /\ ~Marked(stored.status)
        /\ \/ SameStatus(c, stored)
           \/ c.new.status = "Draft" /\ stored.status = "Unborn"
    BY <1>3 DEF Answerable, Marked
  <2>2. ~Denied(c, stored)
    BY <1>3, <2>1 DEF Denied
  <2>3. served = ServeUpdate(stored, c.new.content, requires)
    BY <1>3, <2>2 DEF Served
  <2> HIDE DEF served, requires
  <2>4. /\ served.content = c.new.content
        /\ served.status = IF stored.status = "SentForApproval" /\ ~requires
                           THEN "SentForApproval" ELSE "Draft"
    BY <2>3 DEF ServeUpdate, Stored
  <2>5. d.answer = "ok"
    BY <1>1, <1>3 DEF AnswerOf
  <2>6. Agrees(VersionOf(c.new), served)
    <3>1. CASE c.new.status = "Draft" /\ (requires \/ stored.status = "Unborn")
      BY <2>4, <3>1 DEF Agrees, VersionOf, Marked
    <3>2. CASE ~requires /\ SameStatus(c, stored)
      <4>1. /\ c.new.status = c.old.status /\ ~Marked(c.old.status)
            /\ c.old.content = stored.content
            /\ c.old.status = stored.status \/ ShowsPublished(VersionOf(c.old), stored)
        BY <3>2 DEF SameStatus, requires, Agrees, VersionOf
      <4>2. c.old.status \in {"Draft", "SentForApproval", "Published"}
        BY <4>1 DEF Requests, Selections, Statuses, Marked
      <4>3. CASE c.old.status # "Published"
        <5>1. stored.status = c.old.status
          BY <4>1, <4>3 DEF ShowsPublished, VersionOf
        <5>2. served.status = c.new.status
          BY <2>4, <3>2, <4>1, <4>2, <4>3, <5>1
        <5> QED BY <2>4, <5>2 DEF Agrees, VersionOf
      <4>4. CASE c.old.status = "Published"
        <5>1. \A i \in Actions : stored.content[i] = 0
          BY <4>1, <4>4 DEF ShowsPublished
        <5>2. \A i \in Actions : served.content[i] = 0
          BY <2>4, <3>2, <4>1, <5>1 DEF RequiresNewApproval, requires
        <5>3. served.status = "Draft"
          BY <2>4, <4>1, <4>4 DEF ShowsPublished
        <5>4. ShowsPublished(VersionOf(c.new), served)
          BY <4>1, <4>4, <5>2, <5>3 DEF ShowsPublished, VersionOf
        <5> QED BY <2>4, <4>1, <4>4, <5>3, <5>4 DEF Agrees, VersionOf, Marked
      <4> QED BY <4>3, <4>4
    <3> QED BY <2>1, <3>1, <3>2 DEF SameStatus, requires
  <2>7. Exists(served) /\ served.status # "Unborn"
    BY <2>4 DEF Exists, Statuses
  <2> QED BY <1>1, <2>5, <2>6, <2>7 DEF Answerable, served
<1>4. CASE c.kind = "delete"
  <2>1. c.new.status = "DeletionDraft" /\ c.batch = {}
    BY <1>4 DEF Answerable
  <2>2. served = ServeDelete(stored)
    BY <1>4 DEF Served, Denied
  <2> HIDE DEF served
  <2>3. CASE stored.published
    <3>1. served.status \in {"DeletionSentForApproval", "DeletionDraft"}
      BY <2>2, <2>3 DEF ServeDelete, Stored
    <3>2. d.answer = "ok"
      BY <1>1, <2>3 DEF AnswerOf
    <3>3. Exists(served) /\ Agrees(VersionOf(d.new), served)
      BY <1>1, <2>1, <3>1 DEF Exists, Statuses, Agrees, VersionOf, Marked
    <3> QED BY <3>1, <3>2, <3>3 DEF Answerable, served
  <2>4. CASE ~stored.published
    <3>1. served.status = "Gone"
      BY <2>2, <2>4 DEF ServeDelete, Stored
    <3>2. d.answer = "deleted"
      BY <1>1, <1>4, <2>4 DEF AnswerOf
    <3> QED BY <1>1, <2>1, <3>1, <3>2 DEF Answerable, served
  <2> QED BY <2>3, <2>4
<1>5. CASE c.kind = "approve"
  <2>1. \/ c.new.status = "SentForApproval" /\ stored.status = "Draft"
           /\ stored.content = c.new.content
        \/ c.new.status = "DeletionSentForApproval" /\ Marked(stored.status)
    BY <1>5 DEF Answerable
  <2>2. ~Denied(c, stored)
    BY <1>5, <2>1 DEF Denied, Marked
  <2>3. served = ServeApprove(stored)
    BY <1>5, <2>2 DEF Served
  <2> HIDE DEF served
  <2>4. /\ served.content = stored.content
        /\ served.status = IF Marked(stored.status) THEN "DeletionSentForApproval"
                                                    ELSE "SentForApproval"
    BY <2>3 DEF ServeApprove, Stored
  <2>5. d.answer = "ok"
    BY <1>1, <1>5 DEF AnswerOf
  <2>6. served.status # "Unborn" /\ Exists(served) /\ Agrees(VersionOf(d.new), served)
    BY <1>1, <2>1, <2>4 DEF Exists, Statuses, Agrees, VersionOf, Marked
  <2> QED BY <2>5, <2>6 DEF Answerable, served
<1> QED BY <1>2, <1>3, <1>4, <1>5

\* A request that is under way is the only one.
LEMMA UnderWay ==
    ASSUME TypeInv, OrderlyInv, orderly, NEW c \in page.requests
    PROVE  /\ Flight(c, page, rows, server, chosen) /\ page \in Pages /\ rows \in Rows
           /\ c \in Requests /\ c.new.id \in RiSc /\ server \in [RiSc -> Stored]
<1>1. page \in Pages /\ rows \in Rows /\ c.new.id \in RiSc /\ server \in [RiSc -> Stored]
  BY DEF TypeInv, OtherTypes, Loaded, PageTypes
<1>2. PICK d \in page.requests : Flight(d, page, rows, server, chosen)
  BY DEF OrderlyInv, OrderlyPage, Idle
<1>3. c = d
  BY <1>2 DEF Flight
<1> QED BY <1>1, <1>2, <1>3 DEF Pages

\* A request is served, or fails.
LEMMA BackendOrderly ==
    ASSUME TypeInv, EditsInv, OrderlyInv, orderly', NEW c \in page.requests,
           Serve(c) \/ Fail(c)
    PROVE  OrderlyInv'
<1> DEFINE id == c.new.id
           stored == server[id]
<1>1. UNCHANGED <<rows, dialog>> /\ KeepHistory(TRUE, {})
  BY DEF Serve, Fail, Unchanged
<1>2. orderly /\ chosen' = chosen /\ (dialog'.open => page'.requests = {})
  BY <1>1, Orderly
<1>3. /\ Flight(c, page, rows, server, chosen) /\ page \in Pages
      /\ c \in Requests /\ id \in RiSc /\ server \in [RiSc -> Stored]
  BY <1>2, UnderWay
<1>4. page.requests = {c}
  BY <1>3 DEF Flight
<1>5. ASSUME NEW answer \in {"ok", "deleted", "error"}, Answer(c, answer),
             \A other \in RiSc \ {id} : server'[other] = server[other],
             \A d : WithAnswer(d, c, answer) => Answerable(d, server'[id]),
             server'[id] = server[id] \/ server'[id].status # "Unborn"
      PROVE  OrderlyInv'
  <2> DEFINE d == [c EXCEPT !.answer = answer]
  <2>1. WithAnswer(d, c, answer)
    BY <1>3 DEF WithAnswer, Requests
  <2>2. page' = [page EXCEPT !.requests = (page.requests \ {c}) \cup {d}]
    BY <1>3, <1>5 DEF Answer, Pages
  <2> HIDE DEF d
  <2>3. (page.requests \ {c}) \cup {d} = {d}
    BY <1>4
  <2>4. page' = [page EXCEPT !.requests = {d}]
    BY <2>2, <2>3
  <2>5. Answerable(d, server'[id])
    BY <1>5, <2>1
  <2>6. Flight(d, page', rows, server', chosen)
    BY <1>3, <1>5, <2>1, <2>4, <2>5, AnswerFlies
  <2>7. page'.requests = {d}
    BY <1>3, <2>4 DEF Pages
  <2>8. OrderlyPage(page', rows', server', chosen')
    BY <1>1, <1>2, <2>6, <2>7 DEF OrderlyPage
  <2>9. DialogCurrent'
    BY <1>2, <2>7 DEF DialogCurrent
  <2>10. UnbornUnedited'
    <3>1. UnbornUnedited
      BY <1>2 DEF OrderlyInv
    <3> QED BY <1>2, <1>5, <3>1 DEF UnbornUnedited
  <2> QED BY <2>8, <2>9, <2>10 DEF OrderlyInv
<1>6. CASE Answer(c, "error") /\ server' = server
  <2>1. \A d : WithAnswer(d, c, "error") => Answerable(d, server'[id])
    BY DEF WithAnswer, Answerable
  <2> QED BY <1>5, <1>6, <2>1
<1>7. CASE /\ c.answer = "none" /\ ~Breaks(c, stored) /\ Answer(c, AnswerOf(c, stored))
           /\ server' = [server EXCEPT ![id] = Served(c, stored)]
  <2>1. /\ stored \in Stored /\ Answerable(c, stored)
        /\ stored.status = "Published" => \A i \in Actions : stored.content[i] = 0
    BY <1>3 DEF Flight, Carries, EditsInv
  <2>2. /\ server'[id] = Served(c, stored)
        /\ \A other \in RiSc \ {id} : server'[other] = server[other]
    BY <1>3, <1>7
  <2>3. AnswerOf(c, stored) \in {"ok", "deleted", "error"}
    BY DEF AnswerOf
  <2>4. \A d : WithAnswer(d, c, AnswerOf(c, stored)) =>
                  Answerable(d, Served(c, stored)) /\ Served(c, stored).status # "Unborn"
    BY <1>3, <1>7, <2>1, ServedAsAnswered
  <2>5. WithAnswer([c EXCEPT !.answer = AnswerOf(c, stored)], c, AnswerOf(c, stored))
    BY <1>3, <2>3 DEF WithAnswer, Requests
  <2> DEFINE answer == AnswerOf(c, stored)
             served == Served(c, stored)
  <2> HIDE DEF answer, served
  <2>6. /\ server'[id] = served /\ answer \in {"ok", "deleted", "error"}
        /\ \A d : WithAnswer(d, c, answer) => Answerable(d, served)
        /\ served.status # "Unborn" /\ Answer(c, answer)
    BY <1>7, <2>2, <2>3, <2>4, <2>5 DEF answer, served
  <2> QED BY <1>5, <2>2, <2>6
<1> QED BY <1>6, <1>7 DEF Serve, Fail

-----------------------------------------------------------------------------
(* One thing at a time: the answers.                                       *)

\* An error is shown, whatever becomes of the rows.
LEMMA ErrorShows ==
    ASSUME TypeInv, OrderlyInv, orderly, NEW c \in page.requests, NEW r,
           Show(OnError(page, c), FALSE, r)
    PROVE  page'.status = "error"
<1> DEFINE p == OnError(page, c)
<1>1. /\ Flight(c, page, rows, server, chosen) /\ page \in Pages /\ rows \in Rows
      /\ c \in Requests /\ c.new.id \in RiSc
  BY UnderWay
<1>2. p \in Pages /\ IsFiniteSet(p.requests)
  <2>1. Holds(page, Cardinality(page.requests))
    BY Numbers
  <2> QED BY <2>1, CallbacksHold DEF Holds, PageTypes
<1>3. /\ p.status = "error" /\ p.url = page.url
      /\ p.selected = IF c.kind = "approve" THEN page.selected ELSE c.old
  <2> DEFINE sel == IF c.kind = "approve" THEN page.selected ELSE c.old
             spinner == IF c.kind = "create" THEN FALSE ELSE page.spinner
  <2>1. p = [page EXCEPT !.requests = page.requests \ {c}, !.status = "error",
                         !.selected = sel, !.spinner = spinner]
    BY <1>1 DEF OnError, Answered, Pages
  <2> HIDE DEF sel, spinner, p
  <2> QED BY <1>1, <2>1 DEF Pages, sel
<1>4. HasPending(rows) => p.selected.id = page.selected.id
  <2>1. SUFFICES ASSUME HasPending(rows) PROVE p.selected.id = page.selected.id
    OBVIOUS
  <2>2. page.selected.id = c.new.id /\ c.kind # "create"
    BY <1>1, <2>1, PageAssumption DEF Flight
  <2>3. c.old.id = c.new.id
    BY <1>1, <2>2 DEF Flight, Carries
  <2> HIDE DEF p
  <2> QED BY <1>3, <2>2, <2>3
<1> HIDE DEF p
<1>5. Show(p, FALSE, r)
  BY DEF p
<1>6. CASE /\ rows.open /\ p.selected.id # page.selected.id
           /\ page' = Detached(Flush(p, page, rows))
  <2>1. Flush(p, page, rows) = p
    BY <1>4, <1>6 DEF Flush, SavePending
  <2> QED BY <1>2, <1>3, <1>6, <2>1 DEF Detached, Pages
<1>7. CASE page' = p
  BY <1>3, <1>7
<1> QED BY <1>3, <1>5, <1>6, <1>7, ShowCases

\* What onSuccess leaves of the page when an update, an approval or a deletion that
\* has to be approved is done: it shows what was saved.
LEMMA SavedIdle ==
    ASSUME page \in Pages, rows \in Rows, NEW c \in Requests, NEW s, NEW ch,
           Flight(c, page, rows, s, ch), c.new.id \in RiSc, c.kind # "create", c.answer = "ok"
    PROVE  /\ OnSaved(page, c) \in Pages /\ OnSaved(page, c).fetched
           /\ OnSaved(page, c).selected = c.new
           /\ Confirmed(c) \in Rows /\ Confirmed(c).open = rows.open
           /\ ~HasPending(rows) => ~HasPending(Confirmed(c))
           /\ HasPending(rows) => Flushable(OnSaved(page, c), rows, s, ch)
           /\ Idle(OnSaved(page, c), Confirmed(c), s, ch)
<1> DEFINE id == c.new.id
           list == Listed(c.list, c.new)
           p == OnSaved(page, c)
           r == Confirmed(c)
<1>1. c.new \in Selections /\ c.list \in Lists /\ id # None
  BY PageAssumption DEF Requests
<1>2. /\ page.requests = {c} /\ page.fetched /\ ~page.riScs /\ Carries(c, rows, s, ch)
      /\ PendingSafe(rows, ch[id], rows.timer \/ c.batch # {})
      /\ HasPending(rows) => page.selected.id = id /\ page.list = c.list
  BY DEF Flight
<1>3. /\ id \in DOMAIN c.list /\ Exists(s[id]) /\ Agrees(VersionOf(c.new), s[id])
      /\ \A other \in RiSc \ {id} : Reflects(c.list, other, s) /\ KeptBut(s[other], ch[other], {})
      /\ ~Marked(c.new.status) => SafeBut(c.new.content, ch[id], PendingItems(rows) \ c.batch)
  BY <1>2 DEF Carries, Answerable
<1>4. /\ p \in Pages /\ p.requests = {} /\ p.selected = c.new /\ p.list = list
      /\ p.fetched /\ ~p.riScs
  <2>1. list \in Lists
    BY <1>1, ListTypes
  <2>2. /\ page.url \in RiSc \cup {None} /\ page.spinner \in BOOLEAN
    BY DEF Pages
  <2>3. p = [page EXCEPT !.requests = page.requests \ {c}, !.status = "success",
                         !.selected = c.new, !.list = list, !.url = page.url,
                         !.spinner = page.spinner]
    BY DEF OnSaved, Answered, Pages
  <2> HIDE DEF p, list
  <2>4. p \in Pages /\ p.requests = {} /\ p.selected = c.new /\ p.list = list
        /\ p.fetched = page.fetched /\ p.riScs = page.riScs
    <3>1. page.requests \ {c} = {}
      BY <1>2
    <3> QED BY <1>1, <2>1, <2>2, <2>3, <3>1 DEF Pages
  <2> QED BY <1>2, <2>4
<1>5. /\ r \in Rows /\ r.open = rows.open /\ (HasPending(r) => HasPending(rows))
      /\ \A i \in Item : r.pending[i] = IF i \in c.batch THEN 0 ELSE rows.pending[i]
      /\ r.timer = (rows.timer \/ c.batch # {})
  <2>1. CASE c.batch = {}
    BY <2>1 DEF Confirmed, Rows
  <2>2. CASE c.batch # {}
    <3> DEFINE pending == [i \in Item |-> IF i \in c.batch THEN 0 ELSE rows.pending[i]]
    <3>1. r = [rows EXCEPT !.pending = pending, !.timer = TRUE]
      BY <2>2 DEF Confirmed, Rows
    <3>2. pending \in Content /\ (rows.pending = Blank => pending = Blank)
      BY PageAssumption DEF Rows, Content, Blank
    <3>3. \A i \in Item : pending[i] = IF i \in c.batch THEN 0 ELSE rows.pending[i]
      OBVIOUS
    <3> HIDE DEF pending, r
    <3>4. r \in Rows /\ r.open = rows.open /\ r.pending = pending /\ r.timer = TRUE
      BY <3>1, <3>2 DEF Rows
    <3> QED BY <2>2, <3>2, <3>3, <3>4 DEF HasPending
  <2> QED BY <2>1, <2>2
<1> HIDE DEF p, r
<1>6. PendingItems(r) = PendingItems(rows) \ c.batch
  BY <1>5 DEF PendingItems
<1>7. PendingSafe(r, ch[id], r.timer)
  <2>1. SUFFICES ASSUME HasPending(r) PROVE PendingSafe(r, ch[id], r.timer)
    BY DEF PendingSafe
  <2>2. /\ rows.open /\ rows.pending[Info] = 0 /\ (rows.timer \/ c.batch # {})
        /\ \A i \in Item : rows.pending[i] # 0 => rows.pending[i] = ch[id][i]
    BY <1>2, <1>5, <2>1 DEF PendingSafe
  <2> QED BY <1>5, <2>2, PageAssumption DEF PendingSafe
<1>8. /\ DOMAIN list = DOMAIN c.list /\ list[id] = VersionOf(c.new)
      /\ \A other \in RiSc \ {id} : Reflects(list, other, s)
  BY <1>3 DEF Listed, Reflects
<1>9. ~Marked(c.new.status) =>
         /\ ~Marked(s[id].status) /\ s[id].content = c.new.content
  BY <1>3 DEF Agrees, VersionOf
<1>10. Marked(s[id].status) <=> Marked(c.new.status)
  BY <1>3 DEF Agrees, VersionOf
<1>11. Reflects(list, id, s)
  BY <1>3, <1>8 DEF Reflects
<1>12. KeptBut(s[id], ch[id], PendingItems(r)) /\ Newer(c.new.content, r, {})
  <2>1. ~Marked(s[id].status) => SafeBut(s[id].content, ch[id], PendingItems(r))
    BY <1>3, <1>6, <1>9, <1>10
  <2>2. Newer(c.new.content, r, {})
    <3>1. Newer(c.new.content, rows, c.batch)
      BY <1>2 DEF Carries
    <3> QED BY <1>5, <3>1 DEF Newer
  <2> QED BY <2>1, <2>2 DEF KeptBut
<1> HIDE DEF list
<1>13. Idle(p, r, s, ch)
  <2>1. \A other \in RiSc : Reflects(p.list, other, s)
    BY <1>4, <1>8, <1>11
  <2>2. p.selected.id \in DOMAIN p.list /\ p.list[p.selected.id] = VersionOf(p.selected)
    BY <1>3, <1>4, <1>8
  <2>3. \A other \in RiSc :
           KeptBut(s[other], ch[other], IF other = p.selected.id THEN PendingItems(r) ELSE {})
    BY <1>3, <1>4, <1>12
  <2>4. PendingSafe(r, WishOf(ch, p.selected.id), r.timer)
    BY <1>1, <1>4, <1>7 DEF WishOf
  <2> QED BY <1>1, <1>4, <1>12, <2>1, <2>2, <2>3, <2>4 DEF Idle
<1>14. HasPending(rows) => Flushable(p, rows, s, ch)
  <2>1. SUFFICES ASSUME HasPending(rows) PROVE Flushable(p, rows, s, ch)
    OBVIOUS
  <2>2. \A i \in Item : rows.pending[i] # 0 => rows.pending[i] = ch[id][i]
    BY <1>2, <2>1 DEF PendingSafe
  <2>3. ~Marked(c.new.status) => SafeBut(c.new.content, ch[id], PendingItems(rows))
    BY <1>3 DEF SafeBut
  <2>4. id \in DOMAIN list
    BY <1>3, <1>8
  <2> QED BY <1>3, <1>4, <1>8, <1>9, <2>2, <2>3, <2>4 DEF Flushable
<1> QED BY <1>4, <1>5, <1>13, <1>14 DEF p, r

\* What onSuccess leaves of the page when a RiSc is created: the list has it.
LEMMA CreatedIdle ==
    ASSUME page \in Pages, rows \in Rows, NEW c \in Requests, NEW s, NEW ch,
           Flight(c, page, rows, s, ch), c.new.id \in RiSc, c.kind = "create", c.answer = "ok"
    PROVE  /\ ~HasPending(rows)
           /\ OnCreated(page, c) \in Pages /\ OnCreated(page, c).fetched
           /\ Idle(OnCreated(page, c), rows, s, ch)
<1> DEFINE id == c.new.id
           list == Extended(c.list, c.new)
           p == OnCreated(page, c)
<1>1. c.new \in Selections /\ c.list \in Lists /\ id # None
  BY PageAssumption DEF Requests
<1>2. /\ page.requests = {c} /\ page.fetched /\ ~page.riScs /\ Carries(c, rows, s, ch)
      /\ page.selected.id = None /\ ~rows.open /\ ~HasPending(rows)
  BY DEF Flight, PendingSafe
<1>3. PendingItems(rows) = {}
  BY <1>2, NothingPending
<1>4. /\ Exists(s[id]) /\ Agrees(VersionOf(c.new), s[id])
      /\ \A other \in RiSc \ {id} : Reflects(c.list, other, s) /\ KeptBut(s[other], ch[other], {})
      /\ ~Marked(c.new.status) => SafeBut(c.new.content, ch[id], {})
  <2>1. PendingItems(rows) \ c.batch = {}
    BY <1>3
  <2> QED BY <1>2, <2>1 DEF Carries, Answerable
<1>5. /\ p \in Pages /\ p.requests = {} /\ p.selected = page.selected /\ p.list = list
      /\ p.fetched /\ ~p.riScs
  <2>1. list \in Lists
    BY <1>1, ListTypes
  <2>2. p = [page EXCEPT !.requests = page.requests \ {c}, !.status = "success",
                         !.list = list, !.spinner = FALSE, !.url = id]
    BY DEF OnCreated, Answered, Pages
  <2> HIDE DEF p, list
  <2>3. page.requests \ {c} = {}
    BY <1>2
  <2> QED BY <1>2, <2>1, <2>2, <2>3 DEF Pages
<1> HIDE DEF p
<1>6. /\ \A other \in RiSc \ {id} : Reflects(list, other, s)
      /\ id \in DOMAIN list /\ list[id] = VersionOf(c.new)
  BY <1>4 DEF Extended, Reflects
<1>7. Reflects(list, id, s)
  BY <1>4, <1>6 DEF Reflects
<1> HIDE DEF list
<1>8. KeptBut(s[id], ch[id], {})
  <2>1. SUFFICES ASSUME ~Marked(s[id].status) PROVE KeptBut(s[id], ch[id], {})
    BY DEF KeptBut
  <2>2. ~Marked(c.new.status) /\ s[id].content = c.new.content
    BY <1>4, <2>1 DEF Agrees, VersionOf
  <2>3. SafeBut(s[id].content, ch[id], {})
    BY <1>4, <2>2
  <2> QED BY <2>3 DEF KeptBut
<1>9. Idle(p, rows, s, ch)
  <2>1. \A other \in RiSc : Reflects(p.list, other, s) /\ KeptBut(s[other], ch[other], {})
    BY <1>4, <1>5, <1>6, <1>7, <1>8
  <2>2. PendingSafe(rows, WishOf(ch, p.selected.id), rows.timer)
    BY <1>2 DEF PendingSafe
  <2> QED BY <1>2, <1>3, <1>5, <2>1, <2>2, NothingPending DEF Idle
<1> QED BY <1>2, <1>5, <1>9 DEF p

\* What onSuccess leaves of the page when a RiSc is deleted at once: the list is
\* without it, and another one is selected.
LEMMA DeletedIdle ==
    ASSUME page \in Pages, rows \in Rows, NEW c \in Requests, NEW s, NEW ch,
           Flight(c, page, rows, s, ch), c.new.id \in RiSc, c.kind = "delete",
           c.answer = "deleted", NEW first \in DOMAIN c.list,
           NEW other \in (DOMAIN c.list \ {c.old.id}) \cup {None},
           NEW p, p = OnDeleted(page, c, first, other)
    PROVE  /\ p \in Pages /\ p.fetched /\ p.selected.id = other
           /\ other # c.new.id
           /\ Idle(p, Closed, s, ch)
           /\ HasPending(rows) => page.selected.id = c.new.id /\ Flushable(page, rows, s, ch)
<1> DEFINE id == c.new.id
           list == Without(c.list, c.old.id)
           sel == IF other = None THEN NoRiSc ELSE Selected(other, c.list[other])
<1>1. /\ c.old \in Selections /\ c.list \in Lists /\ id # None
      /\ DOMAIN c.list \subseteq RiSc /\ \A x \in DOMAIN c.list : c.list[x] \in Version
  BY PageAssumption, ListsAre DEF Requests
<1>2. /\ page.requests = {c} /\ page.fetched /\ ~page.riScs /\ Carries(c, rows, s, ch)
      /\ PendingSafe(rows, ch[id], rows.timer \/ c.batch # {})
  BY DEF Flight
<1>3. /\ c.old.id = id /\ id \in DOMAIN c.list /\ s[id].status = "Gone" /\ c.batch = {}
      /\ \A x \in RiSc \ {id} : Reflects(c.list, x, s) /\ KeptBut(s[x], ch[x], {})
  BY <1>2 DEF Carries, Answerable
<1>4. ~Exists(s[id]) /\ ~Marked(s[id].status)
  BY <1>3 DEF Exists, Statuses, Marked
<1>5. /\ sel \in Selections /\ sel.id = other
      /\ other # None => other \in DOMAIN c.list \ {id} /\ VersionOf(sel) = c.list[other]
  <2>1. CASE other = None
    BY <2>1, BlankTypes DEF NoRiSc, Selections, Statuses
  <2>2. CASE other # None
    BY <1>1, <1>3, <2>2 DEF Selected, Selections, Version, VersionOf
  <2> QED BY <2>1, <2>2
<1>6. /\ p \in Pages /\ p.requests = {} /\ p.selected = sel /\ p.list = list
      /\ p.fetched /\ ~p.riScs
  <2>1. list \in Lists /\ first \in RiSc
    BY <1>1, ListTypes
  <2>2. p = [page EXCEPT !.requests = page.requests \ {c}, !.status = "success",
                         !.selected = sel, !.list = list, !.url = first]
    BY DEF OnDeleted, Answered, Pages
  <2> HIDE DEF list, sel
  <2>3. page.requests \ {c} = {}
    BY <1>2
  <2> QED BY <1>2, <1>5, <2>1, <2>2, <2>3 DEF Pages
<1>7. /\ DOMAIN list = DOMAIN c.list \ {id} /\ \A x \in DOMAIN list : list[x] = c.list[x]
  BY <1>3 DEF Without
<1> HIDE DEF list, sel
<1>8. \A x \in RiSc : Reflects(list, x, s)
  BY <1>3, <1>4, <1>7 DEF Reflects
<1>9. \A x \in RiSc : KeptBut(s[x], ch[x], {})
  BY <1>3, <1>4 DEF KeptBut
<1>10. Idle(p, Closed, s, ch)
  <2>1. PendingSafe(Closed, WishOf(ch, p.selected.id), Closed.timer)
    BY NothingPending DEF PendingSafe
  <2>2. PendingItems(Closed) = {} /\ ~Closed.open
    BY NothingPending
  <2>3. p.selected.id # None => /\ p.selected.id \in DOMAIN p.list
                                /\ p.list[p.selected.id] = VersionOf(p.selected)
    BY <1>5, <1>6, <1>7
  <2>4. \A x \in RiSc : KeptBut(s[x], ch[x], IF x = p.selected.id THEN PendingItems(Closed) ELSE {})
    BY <1>9, <2>2
  <2> QED BY <1>6, <1>8, <2>1, <2>2, <2>3, <2>4, NothingPending DEF Idle
<1>11. HasPending(rows) => page.selected.id = id /\ Flushable(page, rows, s, ch)
  <2>1. SUFFICES ASSUME HasPending(rows)
                 PROVE  page.selected.id = id /\ Flushable(page, rows, s, ch)
    OBVIOUS
  <2>2. /\ page.selected.id = id /\ page.list = c.list
        /\ ~Marked(page.selected.status) =>
              SafeBut(page.selected.content, ch[id], PendingItems(rows))
        /\ \A i \in Item : rows.pending[i] # 0 => rows.pending[i] = ch[id][i]
    BY <1>2, <2>1 DEF Flight, PendingSafe
  <2>3. RequiresNewApproval(page.selected.content,
                            Overlay(page.selected.content, rows.pending))
    <3>1. PICK i \in Item : rows.pending[i] # 0
      BY <2>1, NothingPending DEF PendingItems
    <3>2. rows.pending[Info] = 0 /\ page.selected.content = c.new.content
      BY <1>2, <2>1 DEF Flight, PendingSafe
    <3>3. page.selected.content[i] < rows.pending[i]
      BY <1>2, <1>3, <3>1, <3>2 DEF Carries, Newer
    <3>4. page.selected.content[i] \in Nat /\ rows.pending[i] \in Nat
      BY DEF Pages, Selections, Content, Rows
    <3>5. i \in Actions /\ Overlay(page.selected.content, rows.pending)[i] = rows.pending[i]
      BY <3>1, <3>2 DEF Actions, Overlay
    <3> QED BY <3>3, <3>4, <3>5 DEF RequiresNewApproval
  <2> QED BY <1>2, <1>3, <1>4, <2>2, <2>3 DEF Flushable
<1>12. other # id
  BY <1>1, <1>5
<1> QED BY <1>5, <1>6, <1>10, <1>11, <1>12

\* The one request under way is answered, and all is said and done, or what was
\* pending is sent in its place.
LEMMA ReceiveOrderly ==
    ASSUME TypeInv, OrderlyInv, orderly', NEW c \in page.requests, Receive(c)
    PROVE  OrderlyInv'
<1>1. UNCHANGED <<server, dialog>> /\ KeepHistory(TRUE, {})
  BY DEF Receive
<1>2. orderly /\ page'.status # "error"
  BY <1>1, Orderly
<1>3. /\ Flight(c, page, rows, server, chosen) /\ page \in Pages /\ rows \in Rows
      /\ c \in Requests /\ c.new.id \in RiSc
  BY <1>2, UnderWay
<1>4. /\ ~dialog.open /\ (HasPending(rows) => rows.open)
      /\ rows.open => page.selected.id # None
      /\ c.answer = "deleted" => c.kind = "delete"
  BY <1>2, <1>3 DEF OrderlyInv, DialogCurrent, Flight, PendingSafe, TypeInv, Loaded, PageTypes
<1>5. SUFFICES OrderlyPage(page', rows', server, chosen)
  BY <1>1, <1>4, SameWishes
<1>6. CASE Show(OnError(page, c), FALSE, Dropped(c))
  <2>1. page'.status = "error"
    BY <1>2, <1>6, ErrorShows
  <2> QED BY <1>2, <2>1
<1>7. CASE c.answer = "ok" /\ c.kind = "create" /\ Show(OnCreated(page, c), TRUE, rows)
  <2>1. /\ ~HasPending(rows)
        /\ OnCreated(page, c) \in Pages /\ OnCreated(page, c).fetched
        /\ Idle(OnCreated(page, c), rows, server, chosen)
    BY <1>3, <1>7, CreatedIdle
  <2> DEFINE p == OnCreated(page, c)
  <2> HIDE DEF p
  <2>2. p \in Pages /\ p.fetched /\ Idle(p, rows, server, chosen) /\ Show(p, TRUE, rows)
    BY <1>7, <2>1 DEF p
  <2> QED BY <1>2, <1>3, <2>1, <2>2, ShowIdle
<1>8. CASE c.answer = "ok" /\ c.kind # "create" /\ Show(OnSaved(page, c), TRUE, Confirmed(c))
  <2>1. /\ OnSaved(page, c) \in Pages /\ OnSaved(page, c).fetched
        /\ OnSaved(page, c).selected = c.new
        /\ Confirmed(c) \in Rows /\ Confirmed(c).open = rows.open
        /\ ~HasPending(rows) => ~HasPending(Confirmed(c))
        /\ HasPending(rows) => Flushable(OnSaved(page, c), rows, server, chosen)
        /\ Idle(OnSaved(page, c), Confirmed(c), server, chosen)
    BY <1>3, <1>8, SavedIdle
  <2>2. HasPending(rows) => page.selected.id = c.new.id
    BY <1>3 DEF Flight
  <2> DEFINE p == OnSaved(page, c)
             r == Confirmed(c)
  <2> HIDE DEF p, r
  <2>3. /\ p \in Pages /\ p.fetched /\ p.selected = c.new /\ r \in Rows /\ r.open = rows.open
        /\ ~HasPending(rows) => ~HasPending(r)
        /\ HasPending(rows) => Flushable(p, rows, server, chosen)
        /\ Idle(p, r, server, chosen) /\ Show(p, TRUE, r)
    BY <1>8, <2>1 DEF p, r
  <2>4. ~(HasPending(rows) /\ p.selected.id # page.selected.id)
    BY <2>2, <2>3
  <2> QED BY <1>2, <1>3, <1>4, <2>3, <2>4, ShowIdle
<1>9. ASSUME c.answer = "deleted", NEW first \in DOMAIN c.list,
             NEW other \in (DOMAIN c.list \ {c.old.id}) \cup {None},
             Show(OnDeleted(page, c, first, other), TRUE, rows)
      PROVE  OrderlyPage(page', rows', server, chosen)
  <2> DEFINE p == OnDeleted(page, c, first, other)
  <2> HIDE DEF p
  <2>1. /\ p \in Pages /\ p.fetched /\ p.selected.id = other /\ other # c.new.id
        /\ Idle(p, Closed, server, chosen)
        /\ HasPending(rows) => /\ page.selected.id = c.new.id
                               /\ Flushable(page, rows, server, chosen)
    BY <1>3, <1>4, <1>9, DeletedIdle DEF p
  <2>2. Show(p, TRUE, rows)
    BY <1>9 DEF p
  <2>3. CASE rows.open /\ p.selected.id # page.selected.id
    <3>1. p.requests = {} /\ ~p.riScs
      BY <2>1 DEF Idle
    <3> QED BY <1>2, <1>3, <2>1, <2>2, <2>3, <3>1, ShowGone
  <2>4. CASE ~(rows.open /\ p.selected.id # page.selected.id)
    <3>1. ~HasPending(rows) /\ (rows.open => p.selected.id # None)
      BY <1>4, <2>1, <2>4
    <3>2. PendingItems(rows) = {} /\ PendingItems(Closed) = {}
      BY <3>1, NothingPending
    <3>3. Idle(p, rows, server, chosen)
      BY <2>1, <3>1, <3>2, NothingPending DEF Idle, PendingSafe
    <3> QED BY <1>2, <1>3, <2>1, <2>2, <3>1, <3>3, ShowIdle
  <2> QED BY <2>3, <2>4
<1> QED BY <1>6, <1>7, <1>8, <1>9 DEF Receive

-----------------------------------------------------------------------------
(* One thing at a time: the fetches.                                       *)

\* What was fetched is what the backend stores.
LEMMA FetchedIdle ==
    ASSUME TypeInv, Idle(page, rows, server, chosen), ~page.fetched,
           NEW first \in DOMAIN Fetched(server) \cup {None},
           NEW p, p = OnFetched(page, Fetched(server), first)
    PROVE  p \in Pages /\ p.fetched /\ Idle(p, rows, server, chosen)
<1> DEFINE list == Fetched(server)
           url == IF page.url \in DOMAIN list \/ first = None THEN page.url ELSE first
<1>1. page \in Pages /\ server \in [RiSc -> Stored]
  BY DEF TypeInv, OtherTypes, Loaded, PageTypes
<1>2. /\ DOMAIN list = {id \in RiSc : Exists(server[id])}
      /\ \A id \in DOMAIN list :
            list[id] = [content |-> server[id].content, status |-> server[id].status]
      /\ list = [id \in DOMAIN list |-> list[id]]
  BY DEF Fetched
<1> HIDE DEF list
<1>3. list \in Lists
  <2>1. \A id \in DOMAIN list : server[id] \in Stored /\ server[id].status \in Statuses
    BY <1>1, <1>2 DEF Exists
  <2>2. \A id \in DOMAIN list : list[id] \in Version
    BY <1>2, <2>1 DEF Stored, Version
  <2> QED BY <1>2, <2>2, ListsAre
<1>4. url \in RiSc \cup {None}
  BY <1>1, <1>2 DEF Pages, list
<1>5. p = [page EXCEPT !.fetched = TRUE, !.list = list, !.riScs = FALSE,
                       !.spinner = page.spinner /\ page.keys, !.url = url]
  BY <1>1 DEF OnFetched, Pages, list
<1> HIDE DEF url
<1>6. /\ p \in Pages /\ p.fetched /\ ~p.riScs /\ p.list = list /\ p.selected = page.selected
      /\ p.requests = page.requests
  BY <1>1, <1>3, <1>4, <1>5 DEF Pages
<1>7. \A id \in RiSc : Reflects(list, id, server)
  <2>1. \A id \in DOMAIN list : list[id].content = server[id].content
                             /\ list[id].status = server[id].status
    BY <1>2
  <2> QED BY <1>2, <2>1 DEF Reflects, Agrees
<1>8. page.selected.id = None /\ page.requests = {}
  BY DEF Idle
<1>9. Idle(p, rows, server, chosen)
  BY <1>6, <1>7, <1>8 DEF Idle
<1> QED BY <1>6, <1>9

LEMMA FetchesOrderly ==
    ASSUME TypeInv, OrderlyInv, orderly', FetchRiScs \/ FailToFetchRiScs \/ FetchGcpCryptoKeys
    PROVE  OrderlyInv'
<1>1. /\ KeepHistory(TRUE, {}) /\ UNCHANGED <<server, dialog>>
      /\ page \in Pages /\ rows \in Rows
  BY Numbers DEF FetchRiScs, FailToFetchRiScs, FetchGcpCryptoKeys, Unchanged
<1>2. orderly /\ page'.status # "error" /\ chosen' = chosen
  BY <1>1, Orderly
<1>3. OrderlyPage(page, rows, server, chosen) /\ DialogCurrent /\ UnbornUnedited
  BY <1>2 DEF OrderlyInv
<1>4. page.riScs => /\ Idle(page, rows, server, chosen) /\ ~page.fetched
                    /\ page.selected.id = None /\ ~rows.open /\ ~HasPending(rows)
                    /\ ~dialog.open
  BY <1>3 DEF OrderlyPage, Idle, Flight, PendingSafe, DialogCurrent
<1>5. CASE FetchRiScs
  <2>1. PICK first \in DOMAIN Fetched(server) \cup {None} :
                Show(OnFetched(page, Fetched(server), first), TRUE, rows)
    BY <1>5 DEF FetchRiScs
  <2> DEFINE p == OnFetched(page, Fetched(server), first)
  <2> HIDE DEF p
  <2>2. page.riScs /\ Show(p, TRUE, rows)
    BY <1>5, <2>1 DEF FetchRiScs, p
  <2>3. p \in Pages /\ p.fetched /\ Idle(p, rows, server, chosen)
    BY <1>4, <2>2, FetchedIdle DEF p
  <2>4. OrderlyPage(page', rows', server, chosen)
    BY <1>1, <1>2, <1>4, <2>2, <2>3, ShowIdle
  <2> QED BY <1>1, <1>4, <2>2, <2>4, SameWishes
<1>6. CASE FailToFetchRiScs \/ FetchGcpCryptoKeys
  <2>1. /\ (page' = OnFetchError(page) /\ page.riScs) \/ page' = OnKeys(page)
        /\ rows' = rows
    BY <1>6 DEF FailToFetchRiScs, FetchGcpCryptoKeys, Unchanged
  <2>2. /\ page'.requests = page.requests /\ page'.selected = page.selected
        /\ page'.fetched = page.fetched /\ page'.list = page.list
        /\ page'.riScs => page.riScs
    BY <1>1, <2>1 DEF OnFetchError, OnKeys, Pages
  <2>3. OrderlyPage(page', rows', server, chosen)
    <3>1. CASE Idle(page, rows, server, chosen)
      <4>1. Idle(page', rows, server, chosen)
        BY <2>2, <3>1 DEF Idle
      <4> QED BY <2>1, <4>1 DEF OrderlyPage
    <3>2. ASSUME NEW c \in page.requests, Flight(c, page, rows, server, chosen)
          PROVE  OrderlyPage(page', rows', server, chosen)
      <4>1. Flight(c, page', rows, server, chosen)
        BY <2>2, <3>2 DEF Flight
      <4> QED BY <2>1, <2>2, <4>1 DEF OrderlyPage
    <3> QED BY <1>3, <3>1, <3>2 DEF OrderlyPage
  <2>4. DialogCurrent' /\ UnbornUnedited'
    BY <1>1, <1>2, <1>3, <2>2 DEF DialogCurrent, UnbornUnedited
  <2> QED BY <1>1, <1>2, <2>3, <2>4 DEF OrderlyInv
<1> QED BY <1>5, <1>6

-----------------------------------------------------------------------------
(* One thing at a time: the theorems.                                      *)

\* Nothing is edited yet.
LEMMA InitEdits ==
    ASSUME Init
    PROVE  EditsInv
<1>1. /\ \A id \in RiSc : server[id].content = Blank
      /\ chosen = [id \in RiSc |-> Blank] /\ used.edits = 0
  BY DEF Init
<1> QED BY <1>1 DEF EditsInv, Blank, Actions

\* An edit is numbered when it is counted.
LEMMA EditsCounted ==
    ASSUME TypeInv, EditsInv, NEW inTurn, NEW edited, KeepHistory(inTurn, edited),
           used'.edits \in Nat, used.edits <= used'.edits,
           edited # {} => used'.edits = used.edits + 1
    PROVE  \A id \in RiSc, i \in Item : chosen'[id][i] <= used'.edits
<1>1. used.edits \in Nat /\ chosen \in [RiSc -> Content]
  BY Numbers DEF TypeInv, OtherTypes
<1>2. CASE failed'
  <2>1. chosen' = [id \in RiSc |-> Blank]
    BY <1>2 DEF KeepHistory
  <2> QED BY <2>1 DEF Blank
<1>3. CASE ~failed'
  <2>1. chosen' = [id \in RiSc |-> [i \in Item |->
                      IF id = page.selected.id /\ i \in edited THEN Edit ELSE chosen[id][i]]]
    BY <1>3 DEF KeepHistory
  <2> TAKE id \in RiSc, i \in Item
  <2>2. chosen'[id][i] = IF id = page.selected.id /\ i \in edited THEN Edit ELSE chosen[id][i]
    <3> HIDE DEF Edit
    <3> QED BY <2>1
  <2>3. chosen[id][i] <= used.edits /\ chosen[id][i] \in Nat
    BY <1>1 DEF EditsInv, Content
  <2> QED BY <1>1, <2>2, <2>3 DEF Edit
<1> QED BY <1>2, <1>3

\* Every step counts its edits, and the backend publishes nothing.
LEMMA NextEdits ==
    ASSUME TypeInv, TypeInv', EditsInv, [Next]_vars
    PROVE  EditsInv'
<1>1. /\ used \in [edits : 0..MaxEdits, faults : 0..MaxFaults, moves : 0..MaxMoves]
      /\ used.edits \in Nat /\ used'.edits \in Nat /\ server \in [RiSc -> Stored]
  BY Numbers DEF TypeInv, OtherTypes
<1>2. ASSUME ~UNCHANGED vars
      PROVE  \E inTurn, edited : /\ KeepHistory(inTurn, edited)
                                 /\ used'.edits \in {used.edits, used.edits + 1}
                                 /\ edited # {} => used'.edits = used.edits + 1
  <2>1. CASE \E i \in Actions : OnNewActionStatus(i) \/ SaveAction(i)
    BY <2>1, EditTypes DEF OnNewActionStatus, SaveAction
  <2>2. CASE SubmitDialog
    BY <2>2, EditTypes DEF SubmitDialog
  <2>3. CASE \/ OpenDialog \/ SubmitDeletion \/ HandleApproveAndPublish \/ CloseRows
             \/ DebounceTimer \/ FetchRiScs \/ FailToFetchRiScs \/ FetchGcpCryptoKeys
             \/ \E id \in RiSc : SubmitCreation(id)
             \/ \E c \in page.requests : Serve(c) \/ Receive(c)
    BY <2>3 DEF OpenDialog, SubmitDeletion, HandleApproveAndPublish, CloseRows, DebounceTimer,
                FetchRiScs, FailToFetchRiScs, FetchGcpCryptoKeys, SubmitCreation, Serve, Receive
  <2>4. CASE OpenRows \/ (\E id \in RiSc : SelectRiSc(id)) \/ \E c \in page.requests : Fail(c)
    BY <2>4, CountTypes DEF OpenRows, SelectRiSc, Move, Fail
  <2> QED BY <1>2, <2>1, <2>2, <2>3, <2>4 DEF Next, User, Backend, Fetch
<1>3. \A id \in RiSc, i \in Item : chosen'[id][i] <= used'.edits
  <2>1. CASE UNCHANGED vars
    BY <2>1 DEF vars, EditsInv
  <2>2. CASE ~UNCHANGED vars
    BY <1>1, <1>2, <2>2, EditsCounted
  <2> QED BY <2>1, <2>2
<1>4. \/ server' = server
      \/ \E c \in page.requests :
            server' = [server EXCEPT ![c.new.id] = Served(c, server[c.new.id])]
  BY DEF Next, User, Backend, Fetch, OnNewActionStatus, SaveAction, OpenDialog, SubmitDialog,
         SubmitDeletion, HandleApproveAndPublish, SubmitCreation, SelectRiSc, Move, OpenRows,
         CloseRows, DebounceTimer, Serve, Receive, Fail, FetchRiScs, FailToFetchRiScs,
         FetchGcpCryptoKeys, vars
<1>5. ASSUME NEW c, NEW stored \in Stored, Served(c, stored).status = "Published"
      PROVE  Served(c, stored) = stored
  BY <1>5 DEF Served, ServeUpdate, ServeDelete, ServeApprove, Stored
<1>6. ASSUME NEW id \in RiSc, server'[id].status = "Published"
      PROVE  server'[id] = server[id]
  BY <1>1, <1>4, <1>5, <1>6
<1> QED BY <1>3, <1>6 DEF EditsInv

\* The page starts with nothing fetched and nothing edited.
LEMMA InitOrderly ==
    ASSUME Init
    PROVE  OrderlyInv
<1>1. /\ server \in [RiSc -> Stored] /\ \A id \in RiSc : server[id].content = Blank
      /\ rows = Closed /\ dialog = NoDialog /\ chosen = [id \in RiSc |-> Blank]
      /\ page.requests = {} /\ ~page.fetched /\ page.selected = NoRiSc /\ page.list = <<>>
  BY DEF Init
<1>2. page.selected.id = None /\ DOMAIN page.list = {}
  BY <1>1 DEF NoRiSc
<1>3. ~rows.open /\ ~HasPending(rows) /\ PendingItems(rows) = {}
  BY <1>1, NothingPending
<1>4. \A id \in RiSc : KeptBut(server[id], chosen[id], {})
  BY <1>1 DEF KeptBut, SafeBut
<1>5. Idle(page, rows, server, chosen)
  BY <1>1, <1>2, <1>3, <1>4, NothingPending DEF Idle, PendingSafe
<1>6. DialogCurrent /\ UnbornUnedited
  BY <1>1 DEF DialogCurrent, NoDialog, UnbornUnedited
<1> QED BY <1>5, <1>6 DEF OrderlyInv, OrderlyPage

LEMMA NextOrderly ==
    ASSUME TypeInv, TypeInv', EditsInv, OrderlyInv, [Next]_vars
    PROVE  OrderlyInv'
<1>1. SUFFICES ASSUME orderly' PROVE OrderlyInv'
  BY DEF OrderlyInv
<1>2. CASE User
  <2>1. CASE \E i \in Actions : OnNewActionStatus(i) \/ SaveAction(i)
    BY <1>1, <2>1, NewStatusOrderly, FormsOrderly
  <2>2. CASE OpenDialog \/ SubmitDialog
    BY <1>1, <2>2, DialogOrderly, FormsOrderly
  <2>3. CASE SubmitDeletion \/ HandleApproveAndPublish
    BY <1>1, <2>3, SubmissionsOrderly
  <2>4. CASE \E id \in RiSc : SubmitCreation(id) \/ SelectRiSc(id)
    BY <1>1, <2>4, CreationOrderly, SelectionOrderly
  <2>5. CASE OpenRows \/ CloseRows
    BY <1>1, <2>5, OpenRowsOrderly, CloseRowsOrderly
  <2> QED BY <1>2, <2>1, <2>2, <2>3, <2>4, <2>5 DEF User
<1>3. CASE DebounceTimer
  BY <1>1, <1>3, TimerOrderly
<1>4. ASSUME NEW c \in page.requests, Serve(c) \/ Fail(c) \/ Receive(c)
      PROVE  OrderlyInv'
  BY <1>1, <1>4, BackendOrderly, ReceiveOrderly
<1>5. CASE FetchRiScs \/ FailToFetchRiScs \/ FetchGcpCryptoKeys
  BY <1>1, <1>5, FetchesOrderly
<1>6. CASE UNCHANGED vars
  BY <1>6 DEF vars, OrderlyInv, DialogCurrent, UnbornUnedited
<1> QED BY <1>2, <1>3, <1>4, <1>5, <1>6 DEF Next, Backend, Fetch

\* At rest nothing is under way and nothing is pending.
LEMMA RestIsIdle ==
    ASSUME TypeInv, OrderlyInv, orderly, AtRest
    PROVE  /\ Idle(page, rows, server, chosen) /\ PendingItems(rows) = {}
           /\ page \in Pages /\ rows \in Rows
<1>1. page.requests = {} /\ ~rows.timer /\ page \in Pages /\ rows \in Rows
  BY Numbers DEF AtRest
<1>2. Idle(page, rows, server, chosen)
  BY <1>1, QuietIsIdle
<1>3. ~HasPending(rows)
  BY <1>1, <1>2 DEF Idle, PendingSafe
<1> QED BY <1>1, <1>2, <1>3, NothingPending

\* One request at a time and no failure: once all is answered the list of the page
\* is what the backend stores, and what is shown is in it, although every callback
\* replaces the list by the one its handler closed over.  The status may still say
\* Published of a RiSc of which only title and scope were edited since, and the two
\* sides may name the stage of a deletion differently.
THEOREM OrderlyPageCurrent == Spec => []OrderlyPageIsCurrent
<1>1. Init => TypeInv /\ EditsInv /\ OrderlyInv
  BY InitTypes, InitEdits, InitOrderly
<1>2. TypeInv /\ EditsInv /\ OrderlyInv /\ [Next]_vars => TypeInv' /\ EditsInv' /\ OrderlyInv'
  BY NextTypes, NextEdits, NextOrderly
<1>3. TypeInv /\ OrderlyInv => OrderlyPageIsCurrent
  <2>1. SUFFICES ASSUME TypeInv, OrderlyInv, orderly, page.fetched, AtRest
                 PROVE  OrderlyPageIsCurrent
    BY DEF OrderlyPageIsCurrent
  <2>2. Idle(page, rows, server, chosen) /\ page \in Pages
    BY <2>1, RestIsIdle
  <2>3. DOMAIN page.list \subseteq RiSc
    BY <2>2, ListsAre DEF Pages
  <2>4. \A id \in RiSc : Reflects(page.list, id, server)
    BY <2>1, <2>2 DEF Idle
  <2>5. /\ DOMAIN page.list = {id \in RiSc : Exists(server[id])}
        /\ \A id \in DOMAIN page.list : Agrees(page.list[id], server[id])
    BY <2>3, <2>4 DEF Reflects
  <2>6. page.selected.id # None => page.list[page.selected.id] = VersionOf(page.selected)
    BY <2>2 DEF Idle
  <2> QED BY <2>5, <2>6 DEF OrderlyPageIsCurrent, Agrees
<1> QED BY <1>1, <1>2, <1>3, PTL DEF Spec

\* One request at a time and no error: once all is answered the backend keeps the
\* last edit of every item of every RiSc that is not staged for deletion, whether
\* a form, the timer or the unmounting of the rows sent it.
THEOREM OrderlyEditsKept == Spec => []OrderlyEditsAreKept
<1>1. Init => TypeInv /\ EditsInv /\ OrderlyInv
  BY InitTypes, InitEdits, InitOrderly
<1>2. TypeInv /\ EditsInv /\ OrderlyInv /\ [Next]_vars => TypeInv' /\ EditsInv' /\ OrderlyInv'
  BY NextTypes, NextEdits, NextOrderly
<1>3. TypeInv /\ OrderlyInv => OrderlyEditsAreKept
  <2>1. SUFFICES ASSUME TypeInv, OrderlyInv, orderly, AtRest, NEW id \in RiSc, NEW i \in Item
                 PROVE  Kept(id, i)
    BY DEF OrderlyEditsAreKept
  <2>2. Idle(page, rows, server, chosen) /\ PendingItems(rows) = {}
    BY <2>1, RestIsIdle
  <2>3. KeptBut(server[id], chosen[id], {})
    BY <2>2 DEF Idle
  <2> QED BY <2>3 DEF KeptBut, SafeBut, Kept
<1> QED BY <1>1, <1>2, <1>3, PTL DEF Spec
=============================================================================
