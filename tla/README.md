# Formal models of the risk scorecard plugin

This directory holds TLA+ models of the Backstage plugin for risk scorecards
(RiScs): its backend (`src/plugins/ros-backend`), its frontend
(`src/plugins/ros`), their shared types (`src/packages/ros-common`) and the
tooling that releases them (`src/build-tools`). The models are checked with TLC
on small instances, and the properties that matter most are proved with TLAPS
for every value of the constants.

## 1. The system

A RiSc is an encrypted YAML file `.security/risc/<id>.risc.yaml` in a GitHub
repository. A change to it lives on a draft branch named after the id, a pull
request asks for its approval, and merging the pull request publishes it. The
backend stores nothing of its own but an index; the status the user sees is
computed from the repository at every fetch.

| Part | State | Operations | Interacts with | Hard behaviour | Correct when |
|---|---|---|---|---|---|
| RiSc service (`RiScService.ts`) | none between requests; local variables of each request | fetch all, create, update, delete, publish, difference | GitHub client, SOPS, schema, comparison | requests interleave call by call; a call fails half-way; values read early are used late | nothing unapproved is merged; acknowledged writes are not lost; the status shown is the status of the repository |
| GitHub client (`GitHubService.ts`) | none (the repository is GitHub's) | list, read, write, delete file; create, delete branch; list, create, close pull request | GitHub | effect without answer; errors turned into statuses; unpaginated listings | each call does exactly one thing to the repository |
| Backend router (`router.ts`) | none | one route per operation, error handler | all services | errors of any step become one answer | every request is answered, and an answer of success means the work was done |
| SOPS encryption (`SopsCryptoService.ts`, `lib/sops.ts`) | a child process per call, a timer, a temporary file | encrypt, decrypt, extract keys | `sops` binary | timeout, kill, close and error events race; key groups are flattened and built anew | settled exactly once; nothing is left behind; whoever could decrypt still can |
| GCP KMS client | none | list crypto keys | GCP | partial answers | read-only |
| Schema service (`SchemaService.ts`) | none | validate, migrate | RiSc service | a chain of migrations between versions, which may throw half-way | a migrated RiSc is valid in the target version, and what was replaced is reported |
| Comparison service | none | compare two RiScs | RiSc service | matching by id across versions | the difference applied to the old RiSc gives the new one |
| Initial RiScs, feedback | none | build a first content; send to Slack | GitHub, Slack | | read-only |
| RiSc index: refresh (`riscIndex.ts`, `riscIndexScheduledRefresh.ts`) | a scheduled task, the index being built | start, refresh | catalog, GitHub, index store | a repository fails; the previous index cannot be loaded; a refresh outlives its timeout and overlaps the next | a failing repository keeps its old entries |
| RiSc index: store (`riscIndexStore.ts`) | two tables; a memoized promise of their creation | replace, upsert, delete, query by entity | database | readers beside writers; a failed table creation | the two tables always agree |
| RiSc index: API (`service/router.ts`) | none | RiScs of an entity or a system | store, catalog | several queries for one answer while the index is replaced | the answer is one index, not two |
| RiSc context (`RiScContext.tsx`) | list of RiScs, selected RiSc, loading flags, response | fetch, select, create, delete, update, approve | authenticated fetch | callbacks close over old state; answers arrive out of order or after the page changed | what is shown belongs to the repository of the page; a failed save is visible |
| Authenticated fetch (`utils/hooks.ts`) | module-global invalid token | fetch with token refresh and one retry | Backstage auth, backend | concurrent requests share one token; promises not returned | exactly one of the two callbacks; at most one retry |
| Scenario context (`ScenarioContext.tsx`) | the scenario that is open, the form of drawer or wizard | open, edit, add, save, delete | RiSc context, URL, table, dialog | forms follow objects that saves and rollbacks replace; rows keep old closures | nothing saved or typed gives way to older content |
| Pending action updates (`ActionRowList.tsx`) | map of pending statuses, debounce timer | set status, refresh, flush | RiSc context | new changes while a batch is being sent; unmount | every change is sent or visibly dropped |
| Conversion (`DTOs.ts`, `utilityfunctions.ts`) | none | convert, compare, round, stamp | contexts, components | two scales of numbers, dates of two kinds | risks keep their level; a change that needs approval is seen |
| Presentation (`components`) | form state, order of a table, fetched difference | edit, drag, review | contexts | caches beside the selected RiSc | what is shown is what is stored |
| Release tooling (`build-tools`) | npm registry, git tags | validate, publish, release | npm, GitHub | a failure between two steps, run again | run again, it completes what is missing |

## 2. Modules

| Module | Models |
|---|---|
| `GitHubRepository` | the repository as far as one RiSc is concerned: file on the default branch, draft branch, pull request; one operator per REST call |
| `RiScStatus` | `getRiScStatus` and `chooseContentFromStatus` |
| `RiScService` | requests of any number of users about one RiSc, one action per GitHub call |
| `RiScLifecycle` | abstract specification: the status of a RiSc and how it may change |
| `RiScServiceProperties` | the properties, and the refinement of `RiScLifecycle` |
| `RiScServiceProofs` | proofs of type correctness, conflict detection, approval, the guard of updates and quiet fetches |
| `RiScServiceRefinement` | proof that the service implements `RiScLifecycle` |
| `MCRiScService` | instance for TLC |
| `RiScIndex` | the index of all repositories: refresh, the two tables, the query for a system |
| `RiScIndexProperties` | its properties |
| `RiScIndexProofs` | proofs of type correctness and of four of them |
| `MCRiScIndex` | instance for TLC |
| `RiScContext` | the state of the page and its handlers and callbacks as functions on it; what the backend does with a request |
| `ActionRowList` | the page at work: user, timer, requests under way, answers; the rows with pending statuses and the dialog |
| `ActionRowListProperties` | what the page promises its user |
| `ActionRowListProofs` | proofs that the spinner ends, of type correctness, and of the orderly page |
| `MCActionRowList` | instances for TLC |
| `SopsProcess` | the sops process of one document, its timer, promise and configuration file |
| `BackendRouter` | the routes of the backend as steps that may fail, and their answers |
| `AuthenticatedFetch` | the requests of the page: profile, tokens, one repetition, callbacks |
| `AuthenticatedFetchProperties` | what callers and operators may rely on |
| `AuthenticatedFetchProofs` | proofs of its safety properties |
| `MCAuthenticatedFetch` | instance for TLC |
| `RiScDocument` | the content of a RiSc in all eight versions, and what their schemas tell apart |
| `RiScMigration` | the seven migrations and their reports, as functions |
| `RiScComparison` | the comparison of two documents, as a function |
| `RiScConversion` | levels, forms, stamps, equality and transfer objects, as functions |
| `SopsConfig` | the keys of a file: what the page gets of them, and the groups a save makes |
| `ScenarioEditor` | one RiSc in the page: drawer, wizard, table, dialog, difference, saves |
| `ScenarioEditorProperties` | what holds of documents and of the page that edits them |
| `ScenarioEditorProofs` | proofs of the page's consistency and of six of them |
| `ScenarioKeptProofs` | proofs that levels and edits are kept, that differences are exact and migrations reported, and of type correctness |
| `MCScenarioEditor` | instance for TLC: files of several versions |
| `Release` | the release workflow on main and the check of pull requests |
| `ReleaseProperties` | what users of the packages and developers may rely on |
| `ReleaseProofs` | proofs of its safety properties |
| `MCRelease` | instance for TLC |

`RiScService` and `RiScStatus` compose over `GitHubRepository`; `ActionRowList`
composes over `RiScContext`; `AuthenticatedFetch` composes over `BackendRouter`
and that over `SopsProcess`; `ScenarioEditor` composes over the five modules of
functions. The parts meet in the repository, and each models the others by what
it can see of them: the index sees files on branches that change, the page sees a
backend that stores one version of each RiSc and answers, a request sees a
backend whose steps succeed or fail.

Operators whose name begins with `Faulty` are mutants: plausible bugs that the
properties are tested against. No specification uses them.

### 2.1 The RiSc service

`main`, `branch` and `pr` are the repository; `req[r]` holds the local
variables of the request `r` between two GitHub calls (`pc` is the call it makes
next); `watch[r]` is a history variable with facts about the time `r` took, used
only to state properties. Each action is what the code does from one answer of
GitHub to the next: the awaited call together with the code that runs on its
answer. Reads started with `Promise.all` (`ReadPublished`, `ReadBranches`,
`ReadPulls`; then `ReadMainContent`, `ReadBranchContent`) are answered in any
order. `Fail` is a call that is refused, gets no answer or hits a restart of the
backend: the error handler answers and nothing is undone. `ReplyOrLose` is a call
that had its effect but whose answer is lost. `Elsewhere` is what reviewers do on
GitHub: merge or close the pull request, delete a merged branch.

A content is identified with the write that produced it, because each encryption
yields fresh ciphertext; Git's blob sha is a function of the content, so the
content stands for its sha. Encryption, validation and migration are functions of
the content and do not influence which call comes next.

What is assumed of GitHub: each REST call is atomic; the contents API refuses a
sha that is not that of the current file; deleting a branch closes its pull
request; a pull request needs a difference; merging makes the file on the default
branch that of the draft branch. Randomly drawn ids do not collide (`StartCreate`
is the first request of its RiSc). A repository that accepted a write does not
answer 404 to the listing of its pull requests.

Left out of it: `fetchDifference` and `fetchLastPublished`, which only read; the
messages; other RiScs of the repository, which share nothing with this one but
the page of the pull request listing (`PullRequestsFitOnePage`).

There is no fairness in this part: nothing obliges a user to go on or GitHub to
answer, and every property of this part is a safety property.

### 2.2 The RiSc index

`catalog`, `main` and `branch` are what a refresh reads: the repositories of the
components in the catalog, and for each the RiSc file on its default branch and
on its draft branch. `index` and `refs` are the tables
`risk_scorecard_risc_index` and `risk_scorecard_risc_index_entity`. `job[f]`
holds the local variables of the refresh `f`; `query` is a query for a system
and its components; `settled` and the fields `alone`, `changed` and `steady` are
history, used only to state properties; `used` counts the bounded events.

One RiSc stands for those of a repository, because they are read together and
fall back on the previous index together. An entry is identified with the
content it was made of, and `AppliesTo` gives the entity references of a content.
Reading a repository is a listing, the file on the default branch, the branches,
and the file on the draft branch (`ListFiles`, `ReadMainFile`, `ListBranches`,
`ReadBranchFile`), with the repository changing in between (`Elsewhere`). A call
that fails for good makes the repository keep its previous entry (`FallBack`).
The retry of a transient error inside one call is part of that call.

The store replaces both tables in one transaction. The isolation level is that
of the database, so nothing is assumed of two transactions that overlap: any of
the rows may survive which the other one committed (`Survivors`). They can
overlap because the scheduler regards a refresh as ended at its timeout, while
the refresh does not look at the abort signal and goes on (`Timeout`, `Start`).

Fairness: the scheduler invokes the task again and again (`WF` of starting), and
every call a refresh awaits is answered or fails (`WF` of each refresh's
progress). A refresh may nevertheless be abandoned at any point, by an error or
a restart, within the bound.

Left out: `upsertEntry` and `deleteEntry` of the store, which no code calls (the store is
therefore *partly* modelled); creation of the tables; the query for one entity,
which is the first read of the query for a system; permissions of the caller.

### 2.3 The page

`page` is the React state of `RiScContext` as one record: the list, the selected
RiSc, the id in the URL, the loading flags, and the requests under way. Handlers
and callbacks are functions on it. A handler sees the page as it was rendered
last, and so do the callbacks of the request it sends; what they close over is
kept in the request: `list` and `old` are `riScs` and `selectedRiSc`, `new` is the
RiSc as saved, `batch` the pending statuses sent with it. A callback, the
rendering and the effects it causes are one step, because React batches the
updates of a callback and runs the effects of a rendering before the next.

`rows` are the rows of the actions: statuses that are pending, and the debounce
timer. Rows that disappear save what is pending with the closures of their last
rendering, and nobody waits for the answer (`Flush`, `Detached`). `dialog` is the
content an open `RiScDialog` was filled with. The content of a RiSc is a function
from items to the number of the edit that set it; the item `Info` is what the
dialog edits (title and scope), the others are actions. An update only takes the
status to Draft, in the page and in the backend, if an action was changed
(`RequiresNewApproval`); one of title and scope leaves an open pull request and the
status in the page as they are. The backend has a draft of such a RiSc nevertheless,
so that the page goes on to say Published of a RiSc with unpublished changes
(`RiScContext.tsx:589`). `OrderlyPageIsCurrent` names that as its exception
(`ShowsPublished`), and shows that page and backend disagree of no other status that
matters; of a deletion they agree that there is one, not whether its pull request is
open.

`server` is what the backend stores. It is modelled from the native backend: a
second deletion or approval fails (`Breaks`); an update of a RiSc staged for
deletion and an approval without a draft are denied, but the denial is answered
with HTTP status 200 (`plugins/ros-backend/src/router.ts:264`), and the page
takes it for success (`Denied`). `Serve` and `Receive` are two steps, so
answers arrive in any order; `Fail` is a request that is not served, or whose
answer is lost.

`chosen`, `orderly` and `failed` are history: the last edit the user made of each
item; whether there was one thing under way at a time (one request, none sent or
answered while a dialog is open, no form saved for an action whose status is
pending, no error); whether an error was shown.

Fairness: the browser fires its timers, and every request is served and answered
(`WF` of the timer and of each request's progress). The answer may be an error.

Left out: locked RiScs and those of a system; texts and expiry of the response
message; deletion of single actions, which saves like the forms that are
modelled; what reviewers merge while the page is open, as the page does not fetch
again. Forms, the wizard, and what migrations and changes of `appliesTo` mean for
the approval are in 2.5.

### 2.4 Requests, routes and processes

`client[r]` is the request `r` as `useAuthenticatedFetch` handles it: `pc` says
what it waits for (`profile`, `tokens`, `refresh`, `sent`, `waiting`) and
`failing` is the catch block. `session` is the GitHub session of the tab: its
token, the token that was rejected (a variable of the module, which all requests
share) and the renewal they join. `calls[r]` are the callbacks a request has
called. `server[r]` holds the steps a route has still to do and `answer[r]` its
answer; `sops[r]` is its process and `configFile` the configurations that lie in
the temporary directory. `performed[r]` is history: how often the request took
effect.

A token may be replaced in another tab (`OtherTab`), and is then rejected; a
request or its answer may be lost (`LoseRequest`, `LoseAnswer`); any step of a
route may fail; the user may abort the renewal; a callback may throw; a process
may hang, fail to start, end by itself or be killed by the timer, and `close`
follows. A save may take effect and be answered with an error, because a later
step fails. `native` is the feature flag, `dev` the environment. Without the flag
the request goes to a service that is not in the repository; of it is assumed only
that it checks the GitHub token before anything else.

With the flag set, two addresses of the page do not fit the plugin: feedback is
posted where there is no route (`NotFound`), and in production the listing is sent
without the GitHub token that its route requires (`hooks.ts:296`, `router.ts:141`).
The model contains both; no property demands otherwise, because the comment at
`hooks.ts:125` says that this is not validated yet.

An operation may be denied: the document is not valid, the RiSc is staged for
deletion, or there is no draft to approve. That is found before anything is
encrypted or written (`Validate`, `Read`), and answered with status 200, or 201 for a
creation, and with what is wrong in the body (`Denied`); the page takes it for
success. `FirstPage` are the projects on the first page of their listing, the only
one that is read, and `Permitted` those whose key the user may use: others are asked
for but left out of the answer (`Kept`). So an answer that says all is well may lack keys
of a later page, although `GcpKmsService.ts:164` speaks of all keys that are
accessible; `OkAnswerIsWhole` only speaks of the first page. Which projects are asked
for, by their name, and what a key may be used for are data.

A listing decrypts each of its files with a process of its own; the model has one
process for each request. What the steps do to the repository is in 2.1.

Fairness: whatever is under way is continued (`WF(Progress)`): GitHub, Google and
the services answer or fail, the user answers the dialog of a renewal, a timer
fires, a killed process ends. Nothing obliges a process to end by itself, a
connection to break, or the user to send anything.

### 2.5 Documents and the editor

A document is one record in every version; what a version does not have is None
or empty. Title, description and url are one field `text`, because the code keeps,
compares and reports them alike; `text` is the number of the edit that set it.
Threat actors, vulnerabilities and valuations are sets, scenarios and actions
sequences with ids. Probabilities are events a year in ten-thousandths, so that
both scales are natural numbers. Migrations (`migrate`), comparison (`compare`)
and conversions are functions translated from the code, with the branches that
throw; `Valid` keeps of the JSON schemas what the versions tell apart.

`files` is what is stored: the published file, the draft, whether it has a pull
request, and the sops node. `page` is the selected RiSc, the state of the update
and the save under way with what its callbacks close over (`old`, `new`).
`table` is the order of the rows and for each the RiSc it was first rendered with:
the drag specification of a row is memoised, so a drop saves the other content
of *that* RiSc. `drawer` is the scenario context with URL, wizard step and form;
`dialog` the content an open `RiScDialog` copied; `difference` the one that is
shown or fetched. `objects` stands for object identity, which decides whether a
form is reset. A handler or callback, the rendering, and the effects it causes
are one step (`Show`): `ScenarioDrawer` and `ScenarioTable` are their effects.

`history` says what the exceptions of the properties need: `lost`, a request that
took effect and was reported as failed; `orderly`, no row with an old closure was
dropped; `parted`, a save failed after such a drop, or such a drop was made while
what the page showed had been refused, or a drop came from a table that was mounted
during a save; `covered`, the file when the pull request was opened.

What the code does and the properties must except:

* A save that took effect but failed for the page is rolled back in the page only.
* A row dropped with an old closure saves the old title, migration status and
  metadata with the new order, and a failure of that save selects the old RiSc. If
  what the page showed had been refused before, that save stores scenarios the page
  has compared with what is not stored, and does not ask for the approval they need
  (`utilityfunctions.ts:178`).
* A table mounted during a save that then fails keeps what was saved.
* A document the backend finds invalid is answered with status 200, and the page
  takes it for saved (`router.ts:264`). An edited action has a `comment`, the
  dialog adds metadata, and the schema of 5.2 has neither, so with the native
  backend such saves are refused; the frontend expects version 5.4.
* The answer to a wizard the user has left closes whatever drawer is open, and a
  failed save of the same scenario resets its form.
* A predefined scenario that was deleted can be added again, as it was at first: with
  the level and the text it had before anybody changed them
  (`RiskLevelsAreKept`, `EditsAreKept`). A wizard whose answer was lost stores its
  scenario a second time, perhaps with another level.
* A number of version 4.0 outside the five of the map cannot be migrated
  (`Odd40`): that RiSc is not shown at all.
* A file that a single group of keys can open keeps its keys at the top level of
  the sops node, and `extractSopsConfig` drops the age keys there; of several KMS
  keys only the first is kept; keys of developers that were in groups of their own
  come together in one. Who could open such a file may be shut out by a save
  (`SopsCryptoService.ts:80`). `Opens` only counts key groups, so it says nothing of
  the first kind; of the others `Regroupable` says when nobody is shut out: there is
  one KMS key at most, and no two groups have keys that come together. The service
  writes only such files (`WrittenIsRegroupable`), and wrote such ones before there
  was a key of the security platform (`KeysAssumption`).

Bounds of the model, not of the code: one save at a time (2.3 has them side by
side), approval is answered at once, differences are fetched one after the
other. The sorting of the scenarios in `requiresNewApproval` does nothing for ids
with letters, so it is left out. `Files` is any set; only documents that are valid
and can be migrated are shown, which is why the system may stop. No fairness: the
properties are about what is shown and saved.

### 2.6 Releases

A commit is its position on main and the kind of its message (`CommitKinds`),
because the workflow squashes pull requests. The kinds are what title, changelog and
recommended bump tell apart: `feat` (with `feature`) and `fix`, either with `!`, any
other type with `!`, `perf` and `revert`, which have a section of the changelog but
not in a title that implies a release, misspelt types like `fixes`, of which it is
the other way round, and the rest.

Title and changelog therefore disagree, in one direction each. `version.ts:65` and
`build-tools/README.md:44` take `perf:`, `revert:` and types like `chore!:` for no
release, so the bot says that the pull request will not trigger one; the preset
(`changelog.ts:14`) has a section for them, and squashed into main they are released,
as a patch or a major version. `fixes:` is announced as a patch and not released.
`PreviewIsKept` names both exceptions, and no other disagreement is left.

`job` is the workflow run on main, from the
checkout (`since` are the commits since the last tag) through building, publishing
each package, pushing the tag, creating the GitHub release and commenting;
`pending` is the run that waits, of which the concurrency group keeps only the
last. `check` is the run that validates a pull request and announces its release,
against what main was then. `promise` is history: what was announced for the pull
request merged last. `marred` is history: a release stopped between its first
package and its tag.

Each step may fail (`MaxFaults`), and a failed run may be started again
(`MaxReruns`). A pull request is represented from the last edit of its title and
commits on, as an edit starts the check again. Left out are prereleases, as the
workflow never passes that option, and that a commit and its revert in the same
release cancel each other in the changelog.

Fairness: a run that was started goes on, and a waiting one is started
(`WF` of the job). Nobody is obliged to repeat a failed run.

## 3. Runs

### RiSc service

All runs of `MCRiScService` have two requests, `r1` and `r2`, of any of the five
kinds, and two contents written before, `v0` and `v1`, from any state earlier
requests can have left. Two requests suffice for every conflict between two
users, with people merging and closing the pull request in between; the two old
contents let the published file and the draft differ from one another and from
both requests. Every request is made once (a repetition by the user is the other
request). Deadlock checking is off because every request ends.

| Run | Question | Result |
|---|---|---|
| `risc_service` | `OpenPullRequestIsApproved`: does an open pull request ever carry content that needs an approval nobody gave, after the update answered? `AcknowledgedWriteIsNotLost`: can two saves that read the same file both succeed? `StagedDeletionBlocksUpdate`: does the guard work unless a read failed? `QuietFetchIsExact`: is the answer to a fetch the state of the repository, if that did not change meanwhile? `ImplementsLifecycle`: does every step change the status as the lifecycle allows? | all hold |
| `deletion_is_approved` | does a pull request remove a RiSc only if its removal was sent for approval? | violated: `deleteRiSc` leaves an open pull request as it is |
| `fetch_leaves_none_out` | does a fetch list every RiSc that exists all along? | violated by a merge between listing and reading |
| `update_replaces_what_was_edited` | does an update replace only what its user saw? | violated: the sha is read just before the write |
| `staged_deletion_is_not_edited` | is a RiSc that stays staged for deletion never edited? | violated when the draft's content cannot be read |

### RiSc index

`MCRiScIndex` has two repositories, one with a draft that deletes its RiSc, two
refreshes, and two contents, one that applies to the system and one that applies
to its component. One change of a repository or of the catalog, one failure or
restart, and one exceeded timeout may happen at any point. Two refreshes are the
least that overlap and one timeout is what lets them; two repositories let one
fail while the other is read, and one change lets each of the four reads of a
repository be the one that is out of date. Refreshes and queries repeat without
bound. The bounds on changes, failures and timeouts are what
`IndexCatchesUp` needs as a premise: it says what happens once they have stopped.

| Run | Question | Result |
|---|---|---|
| `risc_index` | `LoneReplacementRepairs`: do the tables agree again after replacements that overlapped? `RefreshIsExact`: is an entry put together from four reads what the repository holds? `FailingRepoKeepsItsEntry`: does a refresh lose a repository it cannot read? `UnchangedRiScIsFound`: does a query of several reads lose a RiSc while the index is replaced? `IndexCatchesUp`: does the index become right in the end? | all hold |

### Page

`MCActionRowList` has two RiScs, `a` published or sent for approval, and `b` a draft
or yet to be created, one action and `Info`. The user makes two edits (`MaxEdits`), the least
that can override one another, and opens another RiSc or the rows twice
(`MaxMoves`), to go away and come back. Besides one request of the user
(`MaxUnderWay`), those of the timer and of disappearing rows are under way, so
that up to three overlap. One request fails or loses its answer (`MaxFaults`).
`MaxEvents` bounds edits, faults and moves together, and `MaxEarly` those that
precede the answer to the fetch of the keys. Deadlock checking is off because the
user may stop.

| Run | Question | Result |
|---|---|---|
| `action_row_list` | `SpinnerMeansWaiting`: can the shared spinner go on when nothing is waited for? `OrderlyPageIsCurrent`: is the list the one the backend stores, although callbacks replace it by what they closed over and the page works out each status itself? `OrderlyEditsAreKept`: is an edit lost by timer, unmounting or form while one thing is under way at a time? `PendingIsSettled`: is a pending status saved or dropped in the end? | all hold; `OrderlyPageIsCurrent` except for a published RiSc of which only title and scope were edited (2.3) |
| `changes_are_saved` | is an edit lost without an error, whatever else is under way? | violated: the answer to a batch discards a newer pending status |
| `selection_follows_url` | is the selected RiSc that of the URL? | violated: after a deletion the dialog navigates to the first RiSc it knows, which may be the deleted one |

### Requests

`MCAuthenticatedFetch` has a request of any kind and one that saves, so that every
kind overlaps with the kind that has most steps. Three tokens (`MaxTokens`) let a
token be rejected, its successor be rejected too, and a third be valid. Three parts
are the least with a project that is listed and permitted, one that is listed only,
and one that is permitted but on a later page; they let a compound answer be
complete, in part or empty. Requests are made once; nothing
else is bounded. Deadlock checking is off because every request ends.

| Run | Question | Result |
|---|---|---|
| `authenticated_fetch` | `SopsEndsWithItsRequest`: does a process, a timer or a configuration file outlive its request? `OkAnswerIsWhole`: does an answer put together from parallel calls have every part, of the keys all that were listed and may be used, and is anything written or answered before all of the output of a process that ended well was read? `RetryIsHarmless`: does a request that is sent twice take effect twice? `OneCallback`: does a caller hear twice? `CallersHear`: does every caller hear in the end? | all hold; `CallersHear` except for requests without a GitHub token, whose rejection is not handled (`hooks.ts:224`), and it begins when the profile is there (`hooks.ts:391`) |

### Documents and the editor

`MCScenarioEditor` has twelve initial states: files of six versions that exercise
each branch of the migrations (renamed and merged vulnerabilities, dropped owners,
dates and valuations, all five values of both scales, a value outside them,
numbers at and just below the edges of levels), published, with a draft or with
both, in pairs of different versions, with and without a pull request, and with
two layouts of key groups. Documents have up to two scenarios, to which a third
and a fourth are added, and up to two actions. Every file is shown and compared;
three are edited: two saves where there is no pull request, one where there is
(`saves` in `File`), one edit (`MaxEdits`) and one failure (`MaxFaults`). Two
saves are the least in which one is rolled back or dropped with a closure from
before another. With three saves (4.6 million states), or with two edits (2.4
million), the result is the same. One exception of 2.5 needs four saves: a
refused one before a drop with an old closure. It was found when the proof of
`ApprovalCoversScenarios` failed there, and simulations with seven saves, four
edits and two failures find no other; the theorems of section 4 hold for any number
of each. `ItemsAtSelects` is an assumption TLC evaluates: `ItemsAt`, which stands for
`filter`, is `SelectSeq` on the lists of the instance; `WrittenIsRegroupable` one of
the key groups that a save makes. A proof that covers a file without a KMS key found
that the model took a first key from it; TLC had only seen files with one.

| Run | Question | Result |
|---|---|---|
| `scenario_editor` | `MigrationIsReported`: is everything that a chain of migrations replaces in its report? `RiskLevelsAreKept`: does a risk keep its level through migration, rounding and saving? `DifferenceIsExact`: does the difference applied to the old document give the new one? `DifferenceIsCurrent`: is it that of the RiSc that is shown? `ApprovalCoversScenarios`: does an open pull request keep the scenarios it was opened with? `OrderlyPageIsStored`: is what the page shows stored? `TableShowsScenarios`: has the table the scenarios of the page? `EditsAreKept`: does older content replace newer? `TypedIsKept`: is the form reset under the user's hands? `KeysAreKept`: can whoever opened a file open it after a save? | all hold, with the exceptions of 2.5 |

### Releases

`MCRelease` has two packages, the first and a later one, one failure and one
repetition, and commits on main, one of which may be a pull request: two of any of
the seven kinds, or three of the kinds `feat` and `other` (`MCSmall`). Three commits
are the least for a run that is replaced in the queue, which no kind changes; two are
the least for a pull request that is merged beside another push, and two packages the
least for a release that stops half-way. Deadlock checking is off because nobody has
to push.

| Run | Question | Result |
|---|---|---|
| `release` | `VersionIsOneBuild`: are all packages of a version built from one commit? `TaggedReleaseIsWhole`: is a tagged release complete? `ReleasedCommentIsTrue`: is a pull request in the version the bot names? `PreviewIsKept`: is a merged pull request released as it was announced? `CommitsAreReleased`: is every commit that should be released covered by a tag in the end? | all hold; `PreviewIsKept` except for the titles of 2.6 |

The four liveness properties, `IndexCatchesUp`, `PendingIsSettled`,
`CallersHear` and `CommitsAreReleased`, are the only ones that use fairness.
The six violations are stated in `PROJECT.json` with the lines that promise
otherwise.

## 4. Proofs

Every theorem holds for all values of the constants that satisfy the assumptions
of the modules; the bounds of the models are constants too, so a theorem holds
for any number of edits, faults or events. Each proof has the same form: an
invariant that is inductive, its initial states, its preservation by every
action, and the step from it to the property.

### RiSc service

The theorems hold for any set `Request` and any set `Content` that contains it
and none of the sentinels (`RequestAssumption`, `RepositoryAssumption`).

* `TypeCorrect`: `Spec => []TypeOK`. `TypeOK` is not inductive: merging a pull
  request makes the branch's file the published one, so that an open pull request
  must have a branch (`PullRequestHasBranch`), which in turn depends on branch
  deletion closing the pull request.
* `ConflictsAreDetected`: `Spec => []AcknowledgedWriteIsNotLost`. An acknowledged
  content is on the branch, or was replaced by a request that passed its sha, or
  the branch was deleted. The property speaks of answers; inductive is
  `WrittenIsNotLost`, which starts at the write (`Owes`). It rests on the sha
  comparison in `WriteFile` and `DeleteFile` and on requests keeping their sha
  when they end.
* `ApprovalIsRequired`: with `PullRequestsFitOnePage`,
  `Spec => []OpenPullRequestIsApproved`. The strengthening says that a request
  which found a pull request to close found the one that is open
  (`ClosesWhatIsOpen`), and that a RiSc being created has no pull request
  (`CreateIsAlone`). Without the assumption the theorem is false: `FindNoPull` may
  miss the open pull request.
* `GuardHolds`: `Spec => []StagedDeletionBlocksUpdate`, and `QuietFetches`: with
  `PullRequestsFitOnePage`, `Spec => []QuietFetchIsExact`. Both properties speak
  of the end of the reads. Inductive is what is known after each of them
  (`ReadInv`): as long as the RiSc stays staged, whatever an update has read of it
  says so (`GuardHasSeen`), and as long as nothing changes, whatever a fetch has
  read is what is there (`FetchHasSeen`), in any order of the answers.
* `ServiceImplementsLifecycle`: `Spec => ImplementsLifecycle`, the refinement of
  `RiScLifecycle` by `RepositoryStatus`. `LifeInv` adds two facts to the
  invariant. The content of a request is nowhere before it is written
  (`Unwritten`), so that a write makes a draft differ from what is published; and
  an open pull request whose branch is as what is published can only be that of a
  RiSc which is nowhere (`PullRequestDiffers`), so that closing or merging one is a
  step of the lifecycle.

Frame lemmas (`StartFrame`, `ResolveFrame`, `ServeFrame`, `ServeEffect`) say once
what a step does to the request that takes it, to the others and to the
repository; the invariance proofs use them and not the actions.

### RiSc index

The theorems hold for any sets of repositories, contents, entity references and
refreshes and any bounds (`IndexAssumption`: there is a repository, the sentinels
are no contents, `AppliesTo` and the components are entity references).

* `IndexTypeCorrect`: `Spec => []TypeOK`.
* `TablesAreRepaired`: `Spec => []LoneReplacementRepairs`, as the only step that
  writes the tables fills both from the same entries.
* `RefreshStaysExact`: `Spec => []RefreshIsExact`.
* `FailingRepoIsNotLost`: `Spec => FailingRepoKeepsItsEntry`.
* `UnchangedIsFound`: `Spec => UnchangedRiScIsFound`.

`RefreshStaysExact` and `FailingRepoIsNotLost` rest on the invariant `IndexInv`:
type correctness, and for every refresh that one without company overlaps no
replacement and has read the index that is still stored (`WorksAlone`), that each
repository is read once and failed ones are done with (`ReadsInTurn`), that what
could not be read is as in the previous index (`KeepsPrevious`), and that what has
been read so far of a repository that did not change is as it is (`FoundSoFar`).
The properties speak of the moment of the replacement only, so neither is
inductive. `UnchangedIsFound` rests on `QueryInv`: the RiScs whose entry stayed
the same are found exactly if they apply to what has been looked up so far
(`LookedUp`), because settled tables agree, which is `LoneReplacementRepairs`.

### Page

The theorems hold for any RiScs, any items, and any bounds that are numbers
(`PageAssumption`, `BoundAssumption`).

* `SpinnerEnds`: `Spec => []SpinnerMeansWaiting`. Inductive is its conjunction
  with the shape of the page's record (`GoodPage`) and of each request: a creation
  is never answered as a deletion (`GoodRequest`), so that its answer always ends
  the spinner.
* `TypeCorrect`: `Spec => []TypeOK`. Its difficult part is that each request gets
  a number that is free: timers and disappearing rows send requests beyond
  `MaxUnderWay`. In `TypeInv` every edit pays for two requests of the rows
  (`Most`), one that was sent and one that is still to come (`Waiting`), so that
  the requests and those to come never exceed the numbers there are.
* `OrderlyPageCurrent` and `OrderlyEditsKept`: `Spec => []OrderlyPageIsCurrent`
  and `Spec => []OrderlyEditsAreKept`. Both speak of a page at rest; inductive is
  `OrderlyInv`, which speaks of every moment. Either nothing is under way and the
  list agrees with the backend about every RiSc (`Idle`), or there is one request
  (`Flight`), and the list it closed over is right about every RiSc but its own,
  which its answer makes right (`Carries`, `Answerable`). Pending statuses are
  what the user chose, and a timer or an answer will see to them (`PendingSafe`).
  That the rows may disappear at any moment is why the list of the page has to be
  that of the request as long as something is pending. An open dialog shows what
  is selected (`DialogCurrent`), and what was never stored was never edited
  (`UnbornUnedited`). That the page works out statuses itself needs three more facts.
  A published RiSc has no edited action, and the edits are counted (`EditsInv`). What
  is pending is newer than what is shown (`Newer`), so that whatever the rows save
  needs an approval, on the page as in the backend. And statuses agree but for the
  exception of 2.3 (`SameStatus`), which every later edit of an action ends. An error ends all this: after it the page is not said to be
  current, and that it is shown, whatever else is sent in the same rendering, is
  what the error case of the proof has to show.

### Requests

The theorems of `AuthenticatedFetchProofs` hold for any set of requests of any
kinds, any parts of an answer and any number of tokens (`FetchAssumption`). They
are type correctness (`TypeCorrect`), that no sops process outlives its request
(`SopsEnds`), that an answer without reservation has every part that was asked for and
may be used, and that what a process writes is only used whole
(`OkAnswersAreWhole`), that repeating a request is harmless
(`RetriesAreHarmless`), and that callers hear once (`CallersHearOnce`). All follow
from `FetchInv`, which has four parts for each request. `TokensOf`: the token that
was rejected is not used again, as refreshing always issues another. `CallsOf`: which callbacks have run
at which point, of which the second is always that of an error. `SopsOf`: in
which state of the promise a process may run, a timer may be set and a
configuration file may exist; only the steps `encrypt` and `decrypt` have a
promise. `EffectOf`: a handler at work has not written yet and is at some rest of
the steps of its kind (`StepsLeft`), in each of which a write comes last; so an
answer that asks for another token comes from a request without effect.

### Releases

The theorems of `ReleaseProofs` hold for any list of packages without
repetitions, any pull requests and any bounds (`ReleaseAssumption`): `TypeCorrect`,
`VersionsAreOneBuild`, `TaggedReleasesAreWhole`, `ReleasedCommentsAreTrue` and
`PreviewsAreKept`.

The first four rest on `ReleaseInv`. The first package in the order of publishing
takes the version: what any package has in the registry the first has too, and no
two builds of the first have one version (`FirstTakesVersion`), as npm refuses a
version it has. The packages before `job.next` have been published by this job
(`JobHasPublished`). `TypeOK` needs that versions do not outrun the commits, as
each release raises one number by one (`VersionUpTo`).

`PreviewsAreKept` rests on `PreviewInv`: a commit is tagged once (`TaggedOnce`),
and a check and the promise made when a pull request is merged are the version of
the commits since a tag that is still there (`CheckIsTrue`, `PromiseIsTrue`). Then
the tag the release starts from is the one the check has started from. What remains
is whether the squashed commit, of which only the title is left, is released as the
commits and the title were announced (`Announced`): for a valid title it is, or the
title is of one of the two kinds the property excepts, each in one direction.

### Documents and the editor

The theorems hold for any files, any edits and any number of saves and failures.
`DocumentAssumption` says that `None` is no document, scenario, id or date;
`EditorAssumption` that there is a file, that the files are documents with a
pull request only for a draft, and that each list of scenarios has each id once:
ids are drawn at random where a scenario is made (`utilityfunctions.ts:21`). The
valuations of a file are a list in JSON, so there are finitely many. For
the same reason the wizard's scenario is new to the page, to what is stored and to
what a failed save would bring back, and the actions of a scenario have ids of their
own (`ActionsAssumption`). A text is the number of the edit it was typed in, so what
there is to begin with has the text 0 (`EditsAssumption`). Keys are strings
(`KeysAssumption`), and `None` is no save (`RequestAssumption`).

`DifferencesAreCurrent`: `Spec => []DifferenceIsCurrent`. Inductive is
`DifferenceInv`, which says the same of the difference that has been asked for and
has not arrived. The proof uses nothing of the functions on documents: it holds
whatever they compute.

`EditorIsConsistent`: `Spec => []EditorInv`, on which the others stand. What is
selected, what a failed save brings back, what the closures of the rows and the
dialog hold are documents of the latest version; the drawer shows the scenario of
the URL as the page has it; a save under way sends what is selected. `Next` has
twenty-eight actions, but every one that renders goes through `Show`, so the proof
has one lemma for rendering and one for updates. Below it lie the lemmas about
functions: each of the seven migrations makes a document of the next version that
fits it (`FitsItsVersion`), so the chain of `migrate` gives one of the latest
version or fails; forms, stamps, predefined scenarios, the filters and the merges of
lists make documents of documents. `migrate` is a recursion of at most eight rounds,
which are unfolded; nothing is proved by induction over data.

`TypingIsKept`: `Spec => TypedIsKept`. It follows from `EditorInv`: the form is set
anew only if the scenario of the URL or its objects differ, and `Follows` says what
both were.

`OrderlyPagesAreStored`: `Spec => []OrderlyPageIsStored`. Inductive is `StoredInv`:
what the page shows, or during a save what a failure would bring back, is
stored. The lemmas say that saving what is shown and fetching it again is the
identity but for what JSON drops, and that the service migrates nothing it has
itself written.

`KeysStayWithTheFile`: `Spec => KeysAreKept`, for files that are `Regroupable`.
`KeysInv` says that the file has the groups it had at first, or those that are built
from what the page got of them, and that the page, what a failed save would bring
back and the closures of all rows hold exactly that, so that no save is encrypted
with keys of another. The step from the one to the other (`StillOpens`) maps each
old group somebody can open to a new one they can open, no two to the same, and
compares cardinalities. That `flat` joins lists of keys of any length is proved with
the least length at which it would fail.

`TablesShowScenarios`: `Spec => []TableShowsScenarios`. `TableInv` says that the
table has the scenarios of the page, or during a save those a failure would bring
back, and to prove that of the merge in the table's effect it needs that no list
anywhere has an id twice.

`ApprovalsCoverScenarios`: `Spec => []ApprovalCoversScenarios`. `ApprovalInv`
relates the file of the pull request, the page, the closures of all rows and the
save under way: the page and the closures know that an approval is needed if what is
stored has an older version, and a save that asks for none sends what is covered.
The lemmas reduce `requiresNewApproval`, which compares lists, and `Covered`, which
compares sets without dates, to each other, for scenarios in any order.

`RiskLevelsStay`: `Spec => RiskLevelsAreKept`, and `EditsStay`: `Spec =>
EditsAreKept`. Both follow from `KeptInv`, which speaks of everything that can
still be stored: the files, the page, what a failed save would bring back, the
table, the closures of all rows, the dialog and the form. Of any two of these that
show a scenario, both show it with the same levels (`HeldInv`); in an orderly history
nothing that can be saved or brought back is older than what is stored, and the form
is not older than anything that is held (`TextsInv`). Inductive is this only with
what it says of ids: the actions of a scenario have ids of their own, so that removing
one and adding the wizard's makes no other scenario, and the scenario of an open
wizard is not stored unless it was just submitted (`WizardInv`). Below it lie the
lemmas that no migration, rounding, form, stamp or transfer object changes the
traits of a scenario: its id, its text, its levels and the ids of its actions
(`Traits`, `Retells`). For levels this needs that each number of the options, and
each that is stored, is on the same side of every bound.
The proof of `KeptInv` found both exceptions of 2.5 that the instance is too small
for, the predefined scenario that is added again and the wizard that is submitted
again.

`DifferencesAreExact`: `Spec => []DifferenceIsExact`, for any two documents of any
versions with any number of scenarios. The service compares lists by the ids of their
items. So the proof has one lemma for lists with any ids (`ListsCompared`,
`ListsPatched`): what was added, deleted and changed, applied to the old list, gives
the new one if each change of an item tells the two items apart and can be undone.
It is used twice, for the actions of a scenario and for the scenarios of a document,
with the properties one by one (`PropertyPatched`) at the bottom, for each of the three
kinds of document that are compared. `ComparedInv` says that what the page has asked
about has ids of its own, and that the published file never changes, so that an answer
still is the difference of what it was asked for. `ChangesAssumption` says that no
change, and no list of changes, is taken for `None`, as `DocumentAssumption` says of
the texts.

`MigrationsAreReported`: `Spec => []MigrationIsReported`, for a document of any
version with any number of scenarios and actions. Five of the seven steps report what
they change of scenarios; each changes other parts of them, which are numbered by the
step (`SameScenario`). So the invariant of the rounds (`Said`) says that after the
k-th version the parts of later steps are still those of the stored document
(`Ahead`), and that each step up to now has reported the others with the values they
had then, which therefore are the stored ones (`SaysOf`): a report that was made of
a document other steps had changed before is a report of the document that is
stored. `StepSaysOf` adds one step; below it lie, for each of the five, that what is
found in a report under an id is what was said of that item (`ToldOfEach`,
`FindsTheOnly`), and for which items something is said. `ReportInv` carries it
through the page: a selection with a migration status reports what is stored, what
is being saved has no such status, and what a failed save brings back has the one
it had.

`TypesAreKept`: `Spec => []TypeOK`. Most of it is in `EditorInv`; `TypesInv` adds
what is neither a document nor a scenario: the migration status and the keys of what
is selected, in the page, in the save under way and in the closures of all rows, the
difference, the flags of the files and the bounds. The difficult parts are two
functions. A migration status has its type only because each step fits its version:
the maps of vulnerabilities and states and the scale of the risks are defined on
nothing else (`ReportsAre`, `StepStatusIs`), and the count of the dropped valuations
is a number only if there are finitely many (`Countable`). And the answer to a
comparison is one of three kinds of record, of lists of such records, with the
values that the version of the newer document allows; its base is what the older one
was migrated to (`ComparisonIs`, `BaseOf`).

### Only model-checked

* `IndexCatchesUp`, `PendingIsSettled`, `CallersHear` and `CommitsAreReleased` are
  liveness properties under fairness: the prover handles neither liveness under
  fairness nor `ENABLED`.
* The six properties that are violated.

## 5. Not modelled, and plan

Not modelled:

* The creation of the index tables and its memoised promise
  (`riscIndexStore.ts:148`), `upsertEntry` and `deleteEntry`, which nothing calls.
* Locked RiScs, and the page's fetch of the RiScs of a system; sorting, filtering
  and searching of the table, during which nothing can be dragged.
* The content an initial RiSc gets from a template; the message to Slack.
* Texts, styles, formatting of numbers and dates, translations; the components
  that only display.
* Prereleases, and the script that checks dependencies.

Every invariant and action property that the code satisfies is a theorem. Next:

1. Saves side by side in the editor, as `ActionRowList` has them (2.3), with the
   page's other RiScs.
2. A creation of the index tables that fails once (`riscIndexStore.ts:148`).
