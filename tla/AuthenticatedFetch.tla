-------------------------- MODULE AuthenticatedFetch --------------------------
(***************************************************************************)
(* The requests of a page (hooks.ts, useAuthenticatedFetch): the profile   *)
(* and the tokens they need, the one repetition with a new GitHub token,   *)
(* the callback at the end, and what is lost on the way to the backend.    *)
(*                                                                         *)
(* The backend is the plugin of this repository (BackendRouter) or, unless *)
(* the feature flag is set, a service outside of it, which is only assumed *)
(* to check the GitHub token before it does anything.                      *)
(***************************************************************************)
EXTENDS BackendRouter

CONSTANTS
    Kinds,      \* the kinds of requests each request may be
    MaxTokens   \* bound: GitHub tokens that are issued

ASSUME FetchAssumption ==
    /\ Task = Request
    /\ Kinds \in [Request -> SUBSET Kind]
    /\ FirstPage \subseteq Part /\ Permitted \subseteq Part
    /\ MaxTokens \in Nat

VARIABLES
    native,   \* the feature flag
    dev,      \* is this a development environment?
    client,   \* each request as the page handles it
    calls,    \* the callbacks of each request, in order
    session,  \* the GitHub session of the tab, with what the patch keeps
    github    \* the tokens GitHub has issued, and the valid one

fetchVars == <<native, dev, client, calls, session, github>>
vars == <<fetchVars, routerVars>>

NoToken == 0

\* In production the RiScs are fetched without the GitHub token.
GoogleOnly(kind) == kind = "gcpCryptoKeys" \/ (kind = "fetchRiScs" /\ ~dev)

NeedsProfile(kind) == kind \in {"difference", "create", "update", "publish"}

\* error is what the catch block is entered with.
NotSent == [pc |-> "idle", kind |-> "fetchRiScs", token |-> NoToken,
            rejected |-> NoToken, error |-> "none"]

FetchInit ==
    /\ native \in BOOLEAN /\ dev \in BOOLEAN
    /\ client = [r \in Request |-> NotSent]
    /\ calls = [r \in Request |-> << >>]
    /\ session = [token |-> 1, invalid |-> NoToken, refreshing |-> FALSE]
    /\ github = [issued |-> 1, valid |-> 1]

Init == FetchInit /\ RouterInit

Full(r) == ~GoogleOnly(client[r].kind)

Go(r, pc) == client' = [client EXCEPT ![r].pc = pc]
\* Nothing of the request is used any more.
End(r, pc) ==
    client' = [client EXCEPT ![r] = [NotSent EXCEPT !.pc = pc, !.kind = client[r].kind]]
Throw(r, error) == client' = [client EXCEPT ![r].pc = "failing", ![r].error = error]

------------------------------------------------------------------------------
(* Before the request is sent                                              *)

Quiet == UNCHANGED <<native, dev, github, routerVars>>

Call(r, kind) ==
    /\ client[r].pc = "idle"
    /\ client' = [client EXCEPT ![r].kind = kind,
                      ![r].pc = IF NeedsProfile(kind) THEN "profile" ELSE "tokens"]
    /\ UNCHANGED <<calls, session>> /\ Quiet

\* Nothing handles the rejection of the profile.
GetProfile(r) ==
    /\ client[r].pc = "profile"
    /\ Go(r, "tokens") \/ End(r, "dropped")
    /\ UNCHANGED <<calls, session>> /\ Quiet

Sent(c, token) == [c EXCEPT !.pc = "sent", !.token = token]

\* The predicate of the patch: the session is refreshed when its token is the
\* one found invalid, which is then forgotten.
GetGitHubToken(r, s, c) ==
    IF s.token = s.invalid
    THEN /\ session' = [s EXCEPT !.invalid = NoToken, !.refreshing = TRUE]
         /\ client' = [client EXCEPT ![r] = [c EXCEPT !.pc = "refresh"]]
    ELSE /\ session' = s
         /\ client' = [client EXCEPT ![r] = Sent(c, s.token)]

\* Any of them may be refused by the user, or fail.
GetTokens(r) ==
    /\ client[r].pc = "tokens"
    /\ \/ IF Full(r) THEN GetGitHubToken(r, session, client[r])
          ELSE client' = [client EXCEPT ![r] = Sent(@, NoToken)] /\ UNCHANGED session
       \/ \E error \in {"loginRejected", "failed"} : Throw(r, error) /\ UNCHANGED session
    /\ UNCHANGED calls /\ Quiet

\* Mutant of Waiting: only one of the callers is served.
FaultyWaiting == {CHOOSE r \in Request : client[r].pc = "refresh"}

\* One refresh serves everybody who waits for it.
Waiting == {r \in Request : client[r].pc = "refresh"}

Refresh ==
    /\ session.refreshing /\ github.issued < MaxTokens
    /\ LET token == github.issued + 1
       IN /\ github' = [issued |-> token, valid |-> token]
          /\ session' = [session EXCEPT !.token = token, !.refreshing = FALSE]
          /\ client' = [r \in Request |-> IF r \in Waiting THEN Sent(client[r], token)
                                          ELSE client[r]]
    /\ UNCHANGED <<native, dev, calls, routerVars>>

RefreshFails(error) ==
    /\ session.refreshing
    /\ session' = [session EXCEPT !.refreshing = FALSE]
    /\ client' = [r \in Request |->
                     IF r \in Waiting
                     THEN [client[r] EXCEPT !.pc = "failing", !.error = error]
                     ELSE client[r]]
    /\ UNCHANGED calls /\ Quiet

\* Another tab fetches a new token, and thereby invalidates that of this one.
OtherTab ==
    /\ github.issued < MaxTokens
    /\ github' = [issued |-> github.issued + 1, valid |-> github.issued + 1]
    /\ UNCHANGED <<native, dev, client, calls, session, routerVars>>

------------------------------------------------------------------------------
(* The way to the backend and back                                         *)

InTransit(r) == client[r].pc = "sent"

Arrive(r) ==
    /\ InTransit(r) /\ native
    /\ Go(r, "waiting")
    /\ Receive(r, client[r].kind, {"gcp"} \cup IF Full(r) THEN {"github"} ELSE {})
    /\ UNCHANGED <<native, dev, calls, session, github>>

\* The service outside: an invalid GitHub token is found before anything else.
ServeOutside(r) ==
    /\ InTransit(r) /\ ~native
    /\ Go(r, "waiting")
    /\ \/ /\ Full(r) /\ client[r].token # github.valid
          /\ answer' = [answer EXCEPT ![r] = Error("InvalidGitHubAccessToken")]
          /\ UNCHANGED performed
       \/ /\ Full(r) => client[r].token = github.valid
          /\ \/ /\ performed' = [performed EXCEPT ![r] = @ + 1]
                /\ \E a \in {Fine, Error("failed")} : answer' = [answer EXCEPT ![r] = a]
             \/ /\ answer' = [answer EXCEPT ![r] = Error("failed")]
                /\ UNCHANGED performed
    /\ UNCHANGED <<native, dev, calls, session, github, server, sopsVars>>

\* The promise of the inner fetch of googleAuthenticatedFetch is not returned:
\* nothing handles its rejection.
Unhandled(r) == End(r, "dropped")

\* Mutant of OnNetworkError: a request that was not answered is sent once more.
FaultyOnNetworkError(r) == Go(r, "sent")

OnNetworkError(r) == IF Full(r) THEN Throw(r, "failed") ELSE Unhandled(r)

\* The connection breaks before the request arrives, or while it is handled.
LoseRequest(r) ==
    /\ InTransit(r) \/ (client[r].pc = "waiting" /\ answer[r].status = "none")
    /\ OnNetworkError(r)
    /\ UNCHANGED <<native, dev, calls, session, github, routerVars>>

\* The answer begins to arrive, whole or not.
LoseAnswer(r) ==
    /\ client[r].pc = "waiting" /\ answer[r].status # "none"
    /\ answer' = [answer EXCEPT ![r].json = FALSE]
    /\ answer[r].json
    /\ UNCHANGED <<fetchVars, server, performed, sopsVars>>

------------------------------------------------------------------------------
(* The answer                                                              *)

Answered(r) == client[r].pc = "waiting" /\ answer[r].status # "none"

\* The answer has been read.
Consume(r) ==
    /\ answer' = [answer EXCEPT ![r] = NoAnswer]
    /\ UNCHANGED <<native, dev, session, github, server, performed, sopsVars>>

Callback(r, what, threw) ==
    calls' = [calls EXCEPT ![r] = Append(@, [what |-> what, threw |-> threw])]

\* Mutant of ThenReturn: the function goes on after the callback.
FaultyThenReturn(r, threw) == Throw(r, "failed")

\* What a callback throws inside try, or before catch, is caught.
ThenReturn(r, threw) == IF threw THEN Throw(r, "failed") ELSE End(r, "done")

TokenIsInvalid(r) == answer[r].json /\ answer[r].status = "InvalidGitHubAccessToken"

\* Is this the first answer?
First(r) == client[r].rejected = NoToken

\* The token is marked, fetched anew, and the request sent once more.
Renew(r) ==
    GetGitHubToken(r, [session EXCEPT !.invalid = client[r].token],
                   [client[r] EXCEPT !.rejected = client[r].token])

RetryWithNewToken(r) ==
    /\ Answered(r) /\ Full(r) /\ First(r) /\ TokenIsInvalid(r)
    /\ Renew(r)
    /\ answer' = [answer EXCEPT ![r] = NoAnswer]
    /\ UNCHANGED <<native, dev, calls, github, server, performed, sopsVars>>

ToRetry(r) == Full(r) /\ First(r) /\ TokenIsInvalid(r)

OnSuccess(r, threw) ==
    /\ Answered(r) /\ answer[r].json /\ answer[r].ok
    /\ Callback(r, "success", threw)
    /\ IF Full(r) THEN ThenReturn(r, threw) ELSE End(r, "done")
    /\ Consume(r)

OnErrorAnswer(r, threw) ==
    /\ Answered(r) /\ answer[r].json /\ ~answer[r].ok /\ ~ToRetry(r)
    /\ Callback(r, "error", threw)
    /\ ThenReturn(r, threw)
    /\ Consume(r)

\* res.json() rejects.
OnUnreadable(r) ==
    /\ Answered(r) /\ ~answer[r].json
    /\ IF Full(r) \/ ~answer[r].ok THEN Throw(r, "failed") ELSE Unhandled(r)
    /\ UNCHANGED calls /\ Consume(r)

\* What the callback throws here nobody handles.
Catch(r, threw) ==
    /\ client[r].pc = "failing"
    /\ Callback(r, IF client[r].error = "loginRejected" THEN "loginRejected" ELSE "error",
                threw)
    /\ End(r, "done")
    /\ UNCHANGED session /\ Quiet

------------------------------------------------------------------------------
Prepare(r) == GetProfile(r) \/ GetTokens(r)

Transmit(r) == Arrive(r) \/ ServeOutside(r)

Conclude(r) ==
    \/ RetryWithNewToken(r) \/ OnUnreadable(r)
    \/ \E threw \in BOOLEAN : OnSuccess(r, threw) \/ OnErrorAnswer(r, threw) \/ Catch(r, threw)

Backend(r) == Handle(r) /\ UNCHANGED fetchVars

Renewal == Refresh \/ \E error \in {"loginRejected", "failed"} : RefreshFails(error)

Progress ==
    \/ Renewal
    \/ \E r \in Request : Prepare(r) \/ Transmit(r) \/ Conclude(r) \/ Backend(r)

Environment ==
    \/ OtherTab
    \/ \E r \in Request : \/ \E kind \in Kinds[r] : Call(r, kind)
                          \/ LoseRequest(r) \/ LoseAnswer(r)
                          \/ Process(r, Unsure(r)) /\ UNCHANGED fetchVars

Next == Progress \/ Environment

\* Users answer what they are asked, services answer or fail, and the event loops
\* go on; nothing has to break.
Fairness == WF_vars(Progress)

Spec == Init /\ [][Next]_vars /\ Fairness
==============================================================================
