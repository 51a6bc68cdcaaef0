----------------------- MODULE AuthenticatedFetchProofs -----------------------
(***************************************************************************)
(* Proofs of the safety properties of AuthenticatedFetch, for any set of   *)
(* requests, whatever their kinds, and of parts, and for any number of     *)
(* tokens.                                                                 *)
(***************************************************************************)
EXTENDS AuthenticatedFetchProperties, SequenceTheorems, TLAPS

Errors == {"none", "loginRejected", "failed"}

Statuses == {"none", "fine", "partial", "denied", "failed", "notFound",
             "AccessTokensValidationFailure", "InvalidGitHubAccessToken"}

\* What may be left of the steps of a handler.
StepsLeft(kind) ==
    CASE kind \in {"fetchRiScs", "difference"} -> {<<"read", "decrypt">>, <<"decrypt">>}
      [] kind = "create" -> {<<"validate", "encrypt", "write">>, <<"encrypt", "write">>,
                             <<"write">>}
      [] kind = "update" -> {<<"validate", "read", "encrypt", "write">>,
                             <<"read", "encrypt", "write">>, <<"encrypt", "write">>,
                             <<"write">>}
      [] kind = "publish" -> {<<"read", "write">>, <<"write">>}
      [] kind = "delete" -> {<<"write">>}
      [] kind \in {"gcpCryptoKeys", "initrisc"} -> {<<"read", "parts">>, <<"parts">>}
      [] OTHER -> {}

Compound == {"gcpCryptoKeys", "initrisc"}

Client == [pc : {"idle", "profile", "tokens", "refresh", "sent", "waiting", "failing",
                 "done", "dropped"},
           kind : Kind, token : Nat, rejected : Nat, error : Errors]

Call1 == [what : {"success", "error", "loginRejected"}, threw : BOOLEAN]

Sops == [proc : {"none", "running", "killed", "ended", "closed"},
         timer : BOOLEAN, timedOut : BOOLEAN, exitCode : {0, 1},
         promise : {"none", "pending", "resolved", "rejected"}]

PageTyped ==
    /\ native \in BOOLEAN /\ dev \in BOOLEAN
    /\ client \in [Request -> Client]
    /\ calls \in [Request -> Seq(Call1)]
    /\ session \in [token : Nat \ {0}, invalid : Nat, refreshing : BOOLEAN]
    /\ github \in [issued : Nat \ {0}, valid : Nat] /\ github.valid = github.issued

AnySteps == {<< >>} \cup (UNION {StepsLeft(kind) : kind \in Kind})

Server == [kind : Kind, steps : AnySteps, parts : SUBSET Part]

Answer == {a \in [ok : BOOLEAN, json : BOOLEAN, status : Statuses, parts : SUBSET Part] :
             a.ok => a.status \in {"fine", "partial", "denied"}}

BackendTyped ==
    /\ server \in [Request -> Server]
    /\ answer \in [Request -> Answer]
    /\ performed \in [Request -> Nat]

SopsTyped == sops \in [Request -> Sops] /\ configFile \subseteq Request

Typed == PageTyped /\ BackendTyped /\ SopsTyped

-----------------------------------------------------------------------------
(* What holds of each request.                                             *)

NotYetSent == {"idle", "profile", "tokens", "refresh", "sent"}

\* No token is used that was rejected: it is none of those that come later.
TokensOf(r) ==
    LET c == client[r] IN
    /\ c.token <= github.issued /\ c.rejected <= github.issued
    /\ c.pc \in {"idle", "profile", "tokens"} => c.rejected = NoToken
    /\ c.pc = "refresh" => session.refreshing
    /\ c.pc = "sent" /\ Full(r) => c.token # c.rejected

\* A caller has heard nothing before the catch block, and there only of a
\* callback that has thrown.
CallsOf(r) ==
    LET c == client[r] IN
    /\ c.pc \in NotYetSent \cup {"waiting"} => calls[r] = << >>
    /\ c.pc = "failing" =>
          calls[r] = << >> \/ (Len(calls[r]) = 1 /\ calls[r][1].threw /\ c.error = "failed")
    /\ Len(calls[r]) <= 2
    /\ Len(calls[r]) = 2 => calls[r][1].threw /\ calls[r][2].what = "error"

InStep(r) == At(r, "encrypt") \/ At(r, "decrypt")

\* The promise is settled when the process has ended, and a request without a
\* promise has neither a process that runs nor a file.  It resolves when all has
\* been read in time.
SopsOf(r) ==
    LET s == sops[r] IN
    /\ s.promise \in {"resolved", "rejected"} => s.proc \in {"ended", "closed"} /\ ~s.timer
    /\ s.promise = "resolved" => s.proc = "closed" /\ ~s.timedOut
    /\ s.promise = "none" =>
          s.proc \in {"none", "ended", "closed"} /\ ~s.timer /\ r \notin configFile
    /\ s.promise = "pending" => s.proc \in {"running", "killed", "ended"}
    /\ ~InStep(r) => s.promise = "none"
    /\ At(r, "encrypt") /\ s.promise = "pending" => r \in configFile

\* A request that is not sent, or not yet again, had no effect; a handler at
\* work has not written, and has nothing to answer yet.
EffectOf(r) ==
    LET s == server[r]  a == answer[r] IN
    /\ performed[r] <= 1
    /\ client[r].pc \in NotYetSent =>
          performed[r] = 0 /\ a.status = "none" /\ s.steps = << >>
    /\ s.steps # << >> =>
          /\ native /\ performed[r] = 0 /\ a.status = "none"
          /\ s.kind = client[r].kind /\ s.steps \in StepsLeft(s.kind)
    /\ s.steps = << >> => s.parts = {}
    /\ a.status = "InvalidGitHubAccessToken" => performed[r] = 0 /\ s.steps = << >>
    /\ native /\ a.status = "fine" /\ client[r].kind \in Compound =>
              a.parts = Asked(client[r].kind) \cap Kept(client[r].kind)

FetchInv ==
    /\ Typed /\ session.token <= github.issued
    /\ \A r \in Request : TokensOf(r) /\ CallsOf(r) /\ SopsOf(r) /\ EffectOf(r)

-----------------------------------------------------------------------------
(* The steps of a handler.                                                 *)

LEMMA Tails ==
    /\ \A a : Len(<<a>>) = 1 /\ Head(<<a>>) = a
    /\ \A a, b : Len(<<a, b>>) = 2 /\ Head(<<a, b>>) = a /\ Tail(<<a, b>>) = <<b>>
    /\ \A a, b, c : /\ Len(<<a, b, c>>) = 3 /\ Head(<<a, b, c>>) = a
                    /\ Tail(<<a, b, c>>) = <<b, c>>
    /\ \A a, b, c, d : /\ Len(<<a, b, c, d>>) = 4 /\ Head(<<a, b, c, d>>) = a
                       /\ Tail(<<a, b, c, d>>) = <<b, c, d>>
<1>1. \A a : Len(<<a>>) = 1 /\ Head(<<a>>) = a
  OBVIOUS
<1>2. \A a, b : Len(<<a, b>>) = 2 /\ Head(<<a, b>>) = a
  OBVIOUS
<1>3. \A a, b : Tail(<<a, b>>) = <<b>>
  OBVIOUS
<1>4. \A a, b, c : Len(<<a, b, c>>) = 3 /\ Head(<<a, b, c>>) = a
  OBVIOUS
<1>5. \A a, b, c : Tail(<<a, b, c>>) = <<b, c>>
  OBVIOUS
<1>6. \A a, b, c, d : Len(<<a, b, c, d>>) = 4 /\ Head(<<a, b, c, d>>) = a
  OBVIOUS
<1>7. \A a, b, c, d : Tail(<<a, b, c, d>>) = <<b, c, d>>
  OBVIOUS
<1> QED BY <1>1, <1>2, <1>3, <1>4, <1>5, <1>6, <1>7

\* A handler assembles the parts last, if it does at all.
LEMMA StepsFacts ==
    ASSUME NEW k \in Kind, NEW s \in StepsLeft(k)
    PROVE  /\ s # << >> /\ Len(s) \in 1..4
           /\ Len(s) > 1 => Tail(s) \in StepsLeft(k) /\ Head(s) \notin {"write", "parts"}
           /\ ~(Len(s) > 1) => (k \in Compound <=> Head(s) = "parts")
<1>1. CASE k \in {"fetchRiScs", "difference"}
  <2>1. StepsLeft(k) = {<<"read", "decrypt">>, <<"decrypt">>}
    BY <1>1 DEF StepsLeft
  <2>2. CASE s = <<"read", "decrypt">>
    BY <1>1, <2>1, <2>2, Tails
  <2>3. CASE s = <<"decrypt">>
    BY <1>1, <2>1, <2>3, Tails DEF Compound
  <2> QED BY <2>1, <2>2, <2>3
<1>2. CASE k = "create"
  <2>1. StepsLeft(k) = {<<"validate", "encrypt", "write">>, <<"encrypt", "write">>, <<"write">>}
    BY <1>2 DEF StepsLeft
  <2>2. CASE s = <<"validate", "encrypt", "write">>
    BY <1>2, <2>1, <2>2, Tails
  <2>3. CASE s = <<"encrypt", "write">>
    BY <1>2, <2>1, <2>3, Tails
  <2>4. CASE s = <<"write">>
    BY <1>2, <2>1, <2>4, Tails DEF Compound
  <2> QED BY <2>1, <2>2, <2>3, <2>4
<1>3. CASE k = "update"
  <2>1. StepsLeft(k) = {<<"validate", "read", "encrypt", "write">>,
                        <<"read", "encrypt", "write">>, <<"encrypt", "write">>, <<"write">>}
    BY <1>3 DEF StepsLeft
  <2>2. CASE s = <<"validate", "read", "encrypt", "write">>
    BY <1>3, <2>1, <2>2, Tails
  <2>3. CASE s = <<"read", "encrypt", "write">>
    BY <1>3, <2>1, <2>3, Tails
  <2>4. CASE s = <<"encrypt", "write">>
    BY <1>3, <2>1, <2>4, Tails
  <2>5. CASE s = <<"write">>
    BY <1>3, <2>1, <2>5, Tails DEF Compound
  <2> QED BY <2>1, <2>2, <2>3, <2>4, <2>5
<1>4. CASE k \in {"delete", "publish"}
  <2>1. StepsLeft(k) \subseteq {<<"read", "write">>, <<"write">>} /\ <<"write">> \in StepsLeft(k)
    BY <1>4 DEF StepsLeft
  <2>2. CASE s = <<"read", "write">>
    BY <1>4, <2>1, <2>2, Tails
  <2>3. CASE s = <<"write">>
    BY <1>4, <2>1, <2>3, Tails DEF Compound
  <2> QED BY <2>1, <2>2, <2>3
<1>5. CASE k \in Compound
  <2>1. StepsLeft(k) = {<<"read", "parts">>, <<"parts">>}
    BY <1>5 DEF StepsLeft, Compound
  <2>2. CASE s = <<"read", "parts">>
    BY <1>5, <2>1, <2>2, Tails
  <2>3. CASE s = <<"parts">>
    BY <1>5, <2>1, <2>3, Tails
  <2> QED BY <2>1, <2>2, <2>3
<1>6. k # "feedback"
  BY DEF StepsLeft
<1> QED BY <1>1, <1>2, <1>3, <1>4, <1>5, <1>6 DEF Kind, Compound

\* A handler begins with all of its steps.
LEMMA StepsBegin ==
    ASSUME NEW k \in Kind, k # "feedback"
    PROVE  Steps(k) \in StepsLeft(k)
BY DEF Steps, StepsLeft, Kind

LEMMA StepsTyped ==
    ASSUME NEW k \in Kind
    PROVE  StepsLeft(k) \subseteq AnySteps
BY DEF AnySteps

-----------------------------------------------------------------------------
(* What a step of one request leaves alone, and how it sets the rest.      *)

OthersSame(r) ==
    /\ native' = native /\ dev' = dev /\ github' = github
    /\ session.refreshing => session'.refreshing
    /\ \A q \in Request \ {r} :
         /\ client'[q] = client[q] /\ calls'[q] = calls[q] /\ server'[q] = server[q]
         /\ answer'[q] = answer[q] /\ performed'[q] = performed[q] /\ sops'[q] = sops[q]
         /\ q \in configFile' <=> q \in configFile

\* The invariant is kept when it is by the request that takes the step.
LEMMA OneAtATime ==
    ASSUME FetchInv, Typed', NEW r \in Request, OthersSame(r),
           session'.token <= github'.issued,
           TokensOf(r)', CallsOf(r)', SopsOf(r)', EffectOf(r)'
    PROVE  FetchInv'
<1> SUFFICES ASSUME NEW q \in Request, q # r
             PROVE  TokensOf(q)' /\ CallsOf(q)' /\ SopsOf(q)' /\ EffectOf(q)'
  BY DEF FetchInv
<1>1. TokensOf(q)'
  BY DEF FetchInv, OthersSame, TokensOf, Full, GoogleOnly
<1>2. CallsOf(q)'
  BY DEF FetchInv, OthersSame, CallsOf
<1>3. SopsOf(q)'
  BY DEF FetchInv, OthersSame, SopsOf, InStep, At, Step
<1>4. EffectOf(q)'
  BY DEF FetchInv, OthersSame, EffectOf
<1> QED BY <1>1, <1>2, <1>3, <1>4

\* The request's own record is c, the others have theirs.
ClientIs(r, c) ==
    /\ client' \in [Request -> Client] /\ client'[r] = c
    /\ \A q \in Request \ {r} : client'[q] = client[q]

LEMMA SetClient ==
    ASSUME Typed, NEW r \in Request, NEW c \in Client, client' = [client EXCEPT ![r] = c]
    PROVE  ClientIs(r, c)
BY DEF ClientIs, Typed, PageTyped

LEMMA Goes ==
    ASSUME Typed, NEW r \in Request,
           NEW pc \in {"idle", "profile", "tokens", "refresh", "sent", "waiting", "failing",
                       "done", "dropped"},
           Go(r, pc)
    PROVE  ClientIs(r, [client[r] EXCEPT !.pc = pc])
<1>1. client[r] \in Client
  BY DEF Typed, PageTyped
<1>2. [client[r] EXCEPT !.pc = pc] \in Client
  BY <1>1 DEF Client
<1>3. client' = [client EXCEPT ![r] = [client[r] EXCEPT !.pc = pc]]
  BY DEF Go
<1> QED BY <1>2, <1>3, SetClient

LEMMA Ends ==
    ASSUME Typed, NEW r \in Request, NEW pc \in {"done", "dropped"}, End(r, pc)
    PROVE  \E c \in Client : /\ ClientIs(r, c) /\ c.pc = pc /\ c.kind = client[r].kind
                             /\ c.token = 0 /\ c.rejected = 0
<1> DEFINE n == [NotSent EXCEPT !.pc = pc]
           c == [n EXCEPT !.kind = client[r].kind]
<1>1. n = [pc |-> pc, kind |-> "fetchRiScs", token |-> 0, rejected |-> 0, error |-> "none"]
  BY DEF NotSent, NoToken
<1>2. client' = [client EXCEPT ![r] = c]
  BY DEF End
<1> HIDE DEF n
<1>3. c = [pc |-> pc, kind |-> client[r].kind, token |-> 0, rejected |-> 0, error |-> "none"]
  BY <1>1
<1> HIDE DEF c
<1>4. /\ c.pc = pc /\ c.kind = client[r].kind /\ c.token = 0 /\ c.rejected = 0
      /\ c \in Client
  BY <1>3 DEF Typed, PageTyped, Client, Errors
<1> QED BY <1>2, <1>4, SetClient

LEMMA Throws ==
    ASSUME Typed, NEW r \in Request, NEW error \in {"loginRejected", "failed"}, Throw(r, error)
    PROVE  \E c \in Client : /\ ClientIs(r, c) /\ c.pc = "failing" /\ c.error = error
                             /\ c.kind = client[r].kind /\ c.token = client[r].token
                             /\ c.rejected = client[r].rejected
<1> DEFINE c == [client[r] EXCEPT !.pc = "failing", !.error = error]
<1>1. client[r] \in Client
  BY DEF Typed, PageTyped
<1>2. /\ c \in Client /\ c.pc = "failing" /\ c.error = error
      /\ c.kind = client[r].kind /\ c.token = client[r].token
      /\ c.rejected = client[r].rejected
  BY <1>1 DEF Client, Errors
<1>3. client' = [client EXCEPT ![r] = c]
  BY DEF Throw
<1> HIDE DEF c
<1> QED BY <1>2, <1>3, SetClient

\* With its token a request is sent; without a valid one it waits for the refresh.
LEMMA GetsToken ==
    ASSUME FetchInv, NEW r \in Request, NEW s, NEW c \in Client,
           s \in [token : Nat \ {0}, invalid : Nat, refreshing : BOOLEAN],
           s.token = session.token, s.refreshing = session.refreshing,
           GetGitHubToken(r, s, c)
    PROVE  /\ session' \in [token : Nat \ {0}, invalid : Nat, refreshing : BOOLEAN]
           /\ session'.token = session.token
           /\ session.refreshing => session'.refreshing
           /\ \/ /\ session'.refreshing
                 /\ ClientIs(r, [c EXCEPT !.pc = "refresh"])
              \/ /\ s.token # s.invalid
                 /\ ClientIs(r, [c EXCEPT !.pc = "sent", !.token = s.token])
<1>1. Typed
  BY DEF FetchInv
<1>2. CASE s.token = s.invalid
  <2>1. /\ session' = [s EXCEPT !.invalid = NoToken, !.refreshing = TRUE]
        /\ client' = [client EXCEPT ![r] = [c EXCEPT !.pc = "refresh"]]
    BY <1>2 DEF GetGitHubToken
  <2>2. [c EXCEPT !.pc = "refresh"] \in Client
    BY DEF Client
  <2>3. ClientIs(r, [c EXCEPT !.pc = "refresh"])
    BY <1>1, <2>1, <2>2, SetClient
  <2>4. /\ session' \in [token : Nat \ {0}, invalid : Nat, refreshing : BOOLEAN]
        /\ session'.token = session.token /\ session'.refreshing
    BY <2>1 DEF NoToken
  <2> QED BY <2>3, <2>4
<1>3. CASE s.token # s.invalid
  <2>1. session' = s /\ client' = [client EXCEPT ![r] = Sent(c, s.token)]
    BY <1>3 DEF GetGitHubToken
  <2>2. Sent(c, s.token) \in Client
    BY DEF Client, Sent
  <2>3. ClientIs(r, [c EXCEPT !.pc = "sent", !.token = s.token])
    BY <1>1, <2>1, <2>2, SetClient DEF Sent
  <2> QED BY <1>3, <2>1, <2>3
<1> QED BY <1>2, <1>3

\* The page's steps, the backend's being left alone: what the request knows of
\* its effect stays true as long as it is sent when it was, and for what it was.
LEMMA PageSteps ==
    ASSUME FetchInv, NEW r \in Request, NEW c \in Client, ClientIs(r, c),
           UNCHANGED <<native, dev, github, routerVars>>,
           session' \in [token : Nat \ {0}, invalid : Nat, refreshing : BOOLEAN],
           session'.token = session.token,
           session.refreshing => session'.refreshing,
           calls' \in [Request -> Seq(Call1)],
           \A q \in Request \ {r} : calls'[q] = calls[q],
           c.pc \in NotYetSent => client[r].pc \in NotYetSent,
           c.kind = client[r].kind \/ client[r].pc \in NotYetSent,
           TokensOf(r)', CallsOf(r)'
    PROVE  FetchInv'
<1>1. Typed'
  BY DEF FetchInv, Typed, PageTyped, BackendTyped, SopsTyped, ClientIs, routerVars
<1>2. OthersSame(r)
  BY DEF OthersSame, ClientIs, routerVars
<1>3. session'.token <= github'.issued
  BY DEF FetchInv
<1>4. SopsOf(r)'
  BY DEF FetchInv, SopsOf, InStep, At, Step, routerVars
<1>5. EffectOf(r)'
  BY DEF FetchInv, EffectOf, ClientIs, routerVars
<1> QED BY <1>1, <1>2, <1>3, <1>4, <1>5, OneAtATime

LEMMA CallStep ==
    ASSUME FetchInv, NEW r \in Request, NEW kind \in Kind, Call(r, kind)
    PROVE  FetchInv'
<1> DEFINE pc == IF NeedsProfile(kind) THEN "profile" ELSE "tokens"
           c == [client[r] EXCEPT !.kind = kind, !.pc = pc]
<1>1. Typed /\ client[r] \in Client
  BY DEF FetchInv, Typed, PageTyped
<1>2. c \in Client
  BY <1>1 DEF Client
<1>3. client' = [client EXCEPT ![r] = c]
  BY DEF Call
<1>4. /\ c.pc \in {"profile", "tokens"} /\ c.token = client[r].token
      /\ c.rejected = client[r].rejected
  BY <1>1 DEF Client
<1> HIDE DEF c
<1>5. ClientIs(r, c)
  BY <1>1, <1>2, <1>3, SetClient
<1>6. TokensOf(r)'
  BY <1>4, <1>5 DEF FetchInv, TokensOf, ClientIs, Call, Quiet
<1>7. CallsOf(r)'
  BY <1>4, <1>5 DEF FetchInv, CallsOf, ClientIs, Call, NotYetSent
<1> QED BY <1>1, <1>2, <1>4, <1>5, <1>6, <1>7, PageSteps
        DEF Call, Quiet, Typed, PageTyped, NotYetSent

LEMMA GetProfileStep ==
    ASSUME FetchInv, NEW r \in Request, GetProfile(r)
    PROVE  FetchInv'
<1>1. Typed /\ client[r] \in Client /\ client[r].pc = "profile"
  BY DEF FetchInv, Typed, PageTyped, GetProfile
<1>2. PICK c \in Client : /\ ClientIs(r, c) /\ c.kind = client[r].kind
                          /\ c.pc \in {"tokens", "dropped"}
                          /\ c.token = client[r].token \/ c.token = 0
                          /\ c.rejected = 0
  <2>1. CASE Go(r, "tokens")
    <3>1. ClientIs(r, [client[r] EXCEPT !.pc = "tokens"])
      BY <1>1, <2>1, Goes
    <3>2. client[r].rejected = 0
      BY <1>1 DEF FetchInv, TokensOf, NoToken
    <3> QED BY <1>1, <3>1, <3>2 DEF Client
  <2>2. CASE End(r, "dropped")
    BY <1>1, <2>2, Ends
  <2> QED BY <2>1, <2>2 DEF GetProfile
<1>3. TokensOf(r)'
  BY <1>1, <1>2 DEF FetchInv, TokensOf, ClientIs, GetProfile, Quiet, Typed, PageTyped, NoToken
<1>4. CallsOf(r)'
  BY <1>1, <1>2 DEF FetchInv, CallsOf, ClientIs, GetProfile, NotYetSent
<1> QED BY <1>1, <1>2, <1>3, <1>4, PageSteps
        DEF GetProfile, Quiet, Typed, PageTyped, NotYetSent

LEMMA GetTokensStep ==
    ASSUME FetchInv, NEW r \in Request, GetTokens(r)
    PROVE  FetchInv'
<1> DEFINE Sessions == [token : Nat \ {0}, invalid : Nat, refreshing : BOOLEAN]
<1>1. /\ Typed /\ client[r] \in Client /\ client[r].pc = "tokens" /\ client[r].rejected = 0
      /\ session \in Sessions /\ calls[r] = << >>
  BY DEF FetchInv, Typed, PageTyped, GetTokens, TokensOf, CallsOf, NotYetSent, NoToken
<1>2. PICK c \in Client :
         /\ ClientIs(r, c) /\ c.kind = client[r].kind /\ c.rejected = 0
         /\ c.token \in {client[r].token, session.token, 0}
         /\ \/ c.pc = "refresh" /\ session'.refreshing
            \/ c.pc = "sent" /\ (~GoogleOnly(c.kind) => c.token = session.token)
            \/ c.pc = "failing"
         /\ session' \in Sessions /\ session'.token = session.token
         /\ session.refreshing => session'.refreshing
  <2>1. CASE Full(r) /\ GetGitHubToken(r, session, client[r])
    <3>1. /\ session' \in Sessions /\ session'.token = session.token
          /\ session.refreshing => session'.refreshing
          /\ \/ /\ session'.refreshing
                /\ ClientIs(r, [client[r] EXCEPT !.pc = "refresh"])
             \/ ClientIs(r, [client[r] EXCEPT !.pc = "sent", !.token = session.token])
      BY <1>1, <2>1, GetsToken
    <3>2. /\ [client[r] EXCEPT !.pc = "refresh"] \in Client
          /\ [client[r] EXCEPT !.pc = "sent", !.token = session.token] \in Client
      BY <1>1 DEF Client
    <3> QED BY <1>1, <3>1, <3>2 DEF Client
  <2>2. CASE /\ ~Full(r) /\ client' = [client EXCEPT ![r] = Sent(@, NoToken)]
             /\ UNCHANGED session
    <3>1. Sent(client[r], 0) \in Client
      BY <1>1 DEF Client, Sent
    <3>2. ClientIs(r, Sent(client[r], 0))
      BY <1>1, <2>2, <3>1, SetClient DEF NoToken
    <3> QED BY <1>1, <2>2, <3>1, <3>2 DEF Client, Sent, Full
  <2>3. CASE UNCHANGED session /\ \E error \in {"loginRejected", "failed"} : Throw(r, error)
    <3>1. PICK error \in {"loginRejected", "failed"} : Throw(r, error)
      BY <2>3
    <3> QED BY <1>1, <2>3, <3>1, Throws
  <2> QED BY <2>1, <2>2, <2>3 DEF GetTokens
<1>3. TokensOf(r)'
  BY <1>1, <1>2 DEF FetchInv, TokensOf, ClientIs, GetTokens, Quiet, Typed, PageTyped, NoToken,
                    Full, GoogleOnly
<1>4. CallsOf(r)'
  BY <1>1, <1>2 DEF CallsOf, ClientIs, GetTokens, NotYetSent
<1> QED BY <1>1, <1>2, <1>3, <1>4, PageSteps
        DEF GetTokens, Quiet, Typed, PageTyped, NotYetSent

LEMMA LoseRequestStep ==
    ASSUME FetchInv, NEW r \in Request, LoseRequest(r)
    PROVE  FetchInv'
<1>1. Typed /\ client[r] \in Client /\ client[r].pc \in {"sent", "waiting"} /\ calls[r] = << >>
  BY DEF FetchInv, Typed, PageTyped, LoseRequest, InTransit, CallsOf, NotYetSent
<1>2. PICK c \in Client : /\ ClientIs(r, c) /\ c.kind = client[r].kind
                          /\ c.pc \in {"failing", "dropped"}
                          /\ c.token \in {client[r].token, 0}
                          /\ c.rejected \in {client[r].rejected, 0}
  <2>1. CASE Throw(r, "failed")
    BY <1>1, <2>1, Throws
  <2>2. CASE Unhandled(r)
    BY <1>1, <2>2, Ends DEF Unhandled
  <2> QED BY <2>1, <2>2 DEF LoseRequest, OnNetworkError
<1>3. TokensOf(r)'
  BY <1>1, <1>2 DEF FetchInv, TokensOf, ClientIs, LoseRequest, Typed, PageTyped
<1>4. CallsOf(r)'
  BY <1>1, <1>2 DEF CallsOf, ClientIs, LoseRequest, NotYetSent
<1> QED BY <1>1, <1>2, <1>3, <1>4, PageSteps
        DEF LoseRequest, Typed, PageTyped, NotYetSent

\* A callback is the first one, or the one of the catch block after a callback
\* that has thrown.
LEMMA Heard ==
    ASSUME Typed, NEW r \in Request, NEW threw \in BOOLEAN,
           NEW what \in {"success", "error", "loginRejected"},
           Callback(r, what, threw),
           \/ calls[r] = << >>
           \/ Len(calls[r]) = 1 /\ calls[r][1].threw /\ what = "error"
    PROVE  /\ calls' \in [Request -> Seq(Call1)]
           /\ \A q \in Request \ {r} : calls'[q] = calls[q]
           /\ Len(calls'[r]) <= 2
           /\ calls[r] = << >> => Len(calls'[r]) = 1 /\ calls'[r][1].threw = threw
           /\ Len(calls'[r]) = 2 => calls'[r][1].threw /\ calls'[r][2].what = "error"
<1> DEFINE call == [what |-> what, threw |-> threw]
<1>1. call \in Call1
  BY DEF Call1
<1>2. calls[r] \in Seq(Call1) /\ calls \in [Request -> Seq(Call1)]
  BY DEF Typed, PageTyped
<1>3. calls' = [calls EXCEPT ![r] = Append(calls[r], call)]
  BY DEF Callback
<1> HIDE DEF call
<1>4. Append(calls[r], call) \in Seq(Call1)
  BY <1>1, <1>2
<1>5. /\ calls' \in [Request -> Seq(Call1)] /\ calls'[r] = Append(calls[r], call)
      /\ \A q \in Request \ {r} : calls'[q] = calls[q]
  BY <1>2, <1>3, <1>4
<1>6. call.what = what /\ call.threw = threw
  BY DEF call
<1>7. CASE calls[r] = << >>
  <2>1. Len(calls'[r]) = 1 /\ calls'[r][1] = call
    BY <1>2, <1>5, <1>7
  <2> QED BY <1>5, <1>6, <2>1
<1>8. CASE calls[r] # << >> /\ Len(calls[r]) = 1 /\ calls[r][1].threw /\ what = "error"
  <2> DEFINE after == Append(calls[r], call)
  <2>1. /\ Len(after) = Len(calls[r]) + 1 /\ after[Len(calls[r]) + 1] = call
        /\ \A i \in 1..Len(calls[r]) : after[i] = calls[r][i]
    BY <1>1, <1>2, AppendProperties
  <2> HIDE DEF after
  <2>2. Len(after) = 2 /\ after[1] = calls[r][1] /\ after[2] = call
    BY <1>8, <2>1
  <2> QED BY <1>5, <1>6, <1>8, <2>2 DEF after
<1> QED BY <1>7, <1>8

LEMMA CatchStep ==
    ASSUME FetchInv, NEW r \in Request, NEW threw \in BOOLEAN, Catch(r, threw)
    PROVE  FetchInv'
<1> DEFINE what == IF client[r].error = "loginRejected" THEN "loginRejected" ELSE "error"
<1>1. Typed /\ client[r] \in Client /\ client[r].pc = "failing"
  BY DEF FetchInv, Typed, PageTyped, Catch
<1>2. \/ calls[r] = << >>
      \/ Len(calls[r]) = 1 /\ calls[r][1].threw /\ what = "error"
  BY <1>1 DEF FetchInv, CallsOf
<1>3. /\ calls' \in [Request -> Seq(Call1)]
      /\ \A q \in Request \ {r} : calls'[q] = calls[q]
      /\ Len(calls'[r]) <= 2
      /\ Len(calls'[r]) = 2 => calls'[r][1].threw /\ calls'[r][2].what = "error"
  <2>1. Callback(r, what, threw) /\ what \in {"success", "error", "loginRejected"}
    BY DEF Catch
  <2> HIDE DEF what
  <2> QED BY <1>1, <1>2, <2>1, Heard
<1>4. PICK c \in Client : /\ ClientIs(r, c) /\ c.pc = "done" /\ c.kind = client[r].kind
                          /\ c.token = 0 /\ c.rejected = 0
  BY <1>1, Ends DEF Catch
<1>5. TokensOf(r)'
  BY <1>1, <1>4 DEF FetchInv, TokensOf, ClientIs, Catch, Quiet, Typed, PageTyped
<1>6. CallsOf(r)'
  <2>1. /\ client'[r].pc \notin NotYetSent \cup {"waiting"} /\ client'[r].pc # "failing"
    BY <1>4 DEF ClientIs, NotYetSent
  <2> QED BY <1>3, <2>1, Zenon DEF CallsOf
<1> QED BY <1>1, <1>3, <1>4, <1>5, <1>6, PageSteps
        DEF Catch, Quiet, Typed, PageTyped, NotYetSent

-----------------------------------------------------------------------------
(* What the backend answers.                                               *)

LEMMA Answers ==
    /\ NoAnswer \in Answer /\ NoAnswer.status = "none"
    /\ Fine \in Answer /\ Fine.status = "fine"
    /\ Partial \in Answer /\ Partial.status = "partial"
    /\ Denied \in Answer /\ Denied.status = "denied"
    /\ NotFound \in Answer /\ NotFound.status = "notFound"
    /\ \A status \in Statuses : Error(status) \in Answer /\ Error(status).status = status
<1> DEFINE R == [ok : BOOLEAN, json : BOOLEAN, status : Statuses, parts : SUBSET Part]
<1>1. NoAnswer \in R /\ NoAnswer.status = "none" /\ ~NoAnswer.ok
  BY DEF NoAnswer, Statuses
<1>2. Fine \in R /\ Fine.status = "fine"
  BY <1>1 DEF Fine, Statuses
<1>3. Partial \in R /\ Partial.status = "partial"
  BY <1>2 DEF Partial, Statuses
<1>4. Denied \in R /\ Denied.status = "denied"
  BY <1>2 DEF Denied, Statuses
<1>5. NotFound \in R /\ NotFound.status = "notFound" /\ NotFound.ok = NoAnswer.ok
  BY <1>1 DEF NotFound, Statuses
<1>6. \A status \in Statuses :
         /\ Error(status) \in R /\ Error(status).status = status
         /\ Error(status).ok = NoAnswer.ok
  BY <1>1 DEF Error
<1> HIDE DEF R
<1>7. \A a \in R : (a.ok => a.status \in {"fine", "partial", "denied"}) => a \in Answer
  BY DEF R, Answer
<1>8. ~NotFound.ok /\ \A status \in Statuses : ~Error(status).ok
  BY <1>1, <1>5, <1>6, Zenon
<1>9. NoAnswer \in Answer /\ NotFound \in Answer /\ \A status \in Statuses : Error(status) \in Answer
  BY <1>1, <1>5, <1>6, <1>7, <1>8, Zenon
<1>10. Fine \in Answer /\ Partial \in Answer /\ Denied \in Answer
  BY <1>2, <1>3, <1>4, <1>7
<1> QED BY <1>1, <1>2, <1>3, <1>4, <1>5, <1>6, <1>9, <1>10

AnswerIs(r, a) ==
    /\ answer' \in [Request -> Answer] /\ answer'[r] = a
    /\ \A q \in Request \ {r} : answer'[q] = answer[q]

ServerIs(r, s) ==
    /\ server' \in [Request -> Server] /\ server'[r] = s
    /\ \A q \in Request \ {r} : server'[q] = server[q]

LEMMA SetAnswer ==
    ASSUME Typed, NEW r \in Request, NEW a \in Answer, answer' = [answer EXCEPT ![r] = a]
    PROVE  AnswerIs(r, a)
BY DEF AnswerIs, Typed, BackendTyped

LEMMA SetServer ==
    ASSUME Typed, NEW r \in Request, NEW s \in Server, server' = [server EXCEPT ![r] = s]
    PROVE  ServerIs(r, s)
BY DEF ServerIs, Typed, BackendTyped

\* After the answer nothing is left of the handler.
LEMMA Sends ==
    ASSUME Typed, NEW r \in Request, NEW a \in Answer, Send(r, a)
    PROVE  \E s \in Server : AnswerIs(r, a) /\ ServerIs(r, s) /\ s.steps = << >> /\ s.parts = {}
<1>1. Idle \in Server /\ Idle.steps = << >> /\ Idle.parts = {}
  <2>1. << >> \in AnySteps
    BY Zenon DEF AnySteps
  <2>2. Idle = [kind |-> "fetchRiScs", steps |-> << >>, parts |-> {}]
    BY DEF Idle
  <2> QED BY <2>1, <2>2 DEF Server, Kind
<1>2. answer' = [answer EXCEPT ![r] = a] /\ server' = [server EXCEPT ![r] = Idle]
  BY DEF Send
<1> QED BY <1>1, <1>2, SetAnswer, SetServer

\* What a compound request has collected is its answer.
LEMMA Collects ==
    ASSUME Typed, NEW r \in Request
    PROVE  /\ Collected(r) \in Answer /\ Collected(r).status = "fine"
           /\ Collected(r).parts = server[r].parts \cap Kept(server[r].kind)
<1> DEFINE parts == server[r].parts \cap Kept(server[r].kind)
           a == [Fine EXCEPT !.parts = parts]
<1>1. parts \in SUBSET Part
  BY DEF Typed, BackendTyped, Server
<1> HIDE DEF parts
<1>2. Fine \in Answer /\ Fine.status = "fine"
  BY Answers
<1>3. Fine \in [ok : BOOLEAN, json : BOOLEAN, status : Statuses, parts : SUBSET Part]
  BY <1>2 DEF Answer
<1>4. /\ a \in [ok : BOOLEAN, json : BOOLEAN, status : Statuses, parts : SUBSET Part]
      /\ a.status = "fine" /\ a.parts = parts
  BY <1>1, <1>2, <1>3
<1>5. a = Collected(r)
  BY DEF Collected, parts
<1> HIDE DEF a
<1>6. a \in Answer
  BY <1>4 DEF Answer
<1> QED BY <1>4, <1>5, <1>6 DEF parts

-----------------------------------------------------------------------------
(* The steps of a handler: the page goes on by itself meanwhile.           *)

AtWork(r) == server[r].steps # << >>

LEMMA AtWorkFacts ==
    ASSUME FetchInv, NEW r \in Request, AtWork(r)
    PROVE  /\ Typed /\ server[r] \in Server /\ server[r].kind \in Kind
           /\ server[r].steps \in StepsLeft(server[r].kind)
           /\ native /\ performed[r] = 0 /\ answer[r].status = "none"
           /\ server[r].kind = client[r].kind /\ client[r].pc \notin NotYetSent
BY DEF FetchInv, AtWork, EffectOf, Typed, BackendTyped, Server

\* How often a step made the request take effect.
Performs(r, n) ==
    /\ performed' \in [Request -> Nat] /\ performed'[r] = n
    /\ \A q \in Request \ {r} : performed'[q] = performed[q]

\* What the invariant is left to say of the backend.
BackendKept(r) ==
    /\ BackendTyped' /\ EffectOf(r)'
    /\ \A q \in Request \ {r} : server'[q] = server[q] /\ answer'[q] = answer[q]
                                /\ performed'[q] = performed[q]

\* An answer that says fine has everything that was asked for.
LEMMA SendKeeps ==
    ASSUME FetchInv, NEW r \in Request, AtWork(r), UNCHANGED fetchVars,
           NEW a \in Answer, Send(r, a), NEW n \in {0, 1}, Performs(r, n),
           a.status # "InvalidGitHubAccessToken",
           a.status = "fine" /\ server[r].kind \in Compound =>
               a.parts = Asked(server[r].kind) \cap Kept(server[r].kind)
    PROVE  BackendKept(r)
<1>1. Typed /\ native /\ server[r].kind = client[r].kind /\ client[r].pc \notin NotYetSent
  BY AtWorkFacts
<1>2. PICK s \in Server : AnswerIs(r, a) /\ ServerIs(r, s) /\ s.steps = << >> /\ s.parts = {}
  BY <1>1, Sends
<1>3. BackendTyped'
  BY <1>2 DEF BackendTyped, AnswerIs, ServerIs, Performs
<1>4. EffectOf(r)'
  BY <1>1, <1>2 DEF EffectOf, AnswerIs, ServerIs, Performs, fetchVars
<1> QED BY <1>2, <1>3, <1>4 DEF BackendKept, AnswerIs, ServerIs, Performs

\* A step that fails.
LEMMA FailedKeeps ==
    ASSUME FetchInv, NEW r \in Request, AtWork(r), UNCHANGED fetchVars,
           Failed(r), NEW n \in {0, 1}, Performs(r, n)
    PROVE  BackendKept(r)
<1>1. PICK a \in {Partial, Error("failed")} : Send(r, a)
  BY DEF Failed
<1>2. a \in Answer /\ a.status \in {"partial", "failed"}
  BY <1>1, Answers DEF Statuses
<1> QED BY <1>1, <1>2, SendKeeps

\* A step that denies the operation.
LEMMA DeniesKeeps ==
    ASSUME FetchInv, NEW r \in Request, AtWork(r), UNCHANGED fetchVars,
           Denies(r), Performs(r, 0)
    PROVE  BackendKept(r)
BY Answers, SendKeeps DEF Denies

\* A step that succeeds, the last one of a compound request having all parts.
LEMMA ContinueKeeps ==
    ASSUME FetchInv, NEW r \in Request, AtWork(r), UNCHANGED fetchVars,
           NEW a \in Answer, a.status = "fine", Continue(r, a),
           NEW n \in {0, 1}, Performs(r, n), n = 1 <=> Step(r) = "write",
           Step(r) = "parts" => a.parts = Asked(server[r].kind) \cap Kept(server[r].kind)
    PROVE  BackendKept(r)
<1> DEFINE s == server[r]
           k == s.kind
<1>1. /\ Typed /\ s \in Server /\ k \in Kind /\ s.steps \in StepsLeft(k) /\ native
      /\ answer[r].status = "none" /\ k = client[r].kind
      /\ client[r].pc \notin NotYetSent
  BY AtWorkFacts
<1>2. /\ Len(s.steps) > 1 => /\ Tail(s.steps) \in StepsLeft(k)
                             /\ Step(r) \notin {"write", "parts"}
      /\ ~(Len(s.steps) > 1) => (k \in Compound <=> Step(r) = "parts")
  BY <1>1, StepsFacts DEF Step
<1>3. CASE Len(s.steps) > 1
  <2> DEFINE t == [s EXCEPT !.steps = Tail(s.steps)]
  <2>1. Tail(s.steps) \in StepsLeft(k) /\ Tail(s.steps) \in AnySteps /\ Tail(s.steps) # << >>
    BY <1>1, <1>2, <1>3, StepsTyped, StepsFacts
  <2>2. /\ t \in Server /\ t.steps = Tail(s.steps) /\ t.kind = k
    BY <1>1, <2>1 DEF Server
  <2>3. server' = [server EXCEPT ![r] = t] /\ answer' = answer
    BY <1>3 DEF Continue
  <2> HIDE DEF t
  <2>4. ServerIs(r, t)
    BY <1>1, <2>2, <2>3, SetServer
  <2>5. n = 0
    BY <1>2, <1>3
  <2>6. BackendTyped'
    BY <1>1, <2>3, <2>4 DEF Typed, BackendTyped, ServerIs, Performs
  <2>7. EffectOf(r)'
    <3> DEFINE x == server'[r]
    <3>1. x = t /\ performed'[r] = 0 /\ client'[r] = client[r] /\ native'
          /\ answer'[r].status = "none"
      BY <1>1, <2>3, <2>4, <2>5 DEF ServerIs, Performs, fetchVars
    <3>2. /\ x.steps # << >> /\ x.kind = client'[r].kind /\ x.steps \in StepsLeft(x.kind)
          /\ client'[r].pc \notin NotYetSent
      BY <1>1, <2>1, <2>2, <3>1
    <3> HIDE DEF x
    <3> QED BY <3>1, <3>2 DEF EffectOf, x
  <2> QED BY <2>3, <2>4, <2>6, <2>7 DEF BackendKept, ServerIs, Performs
<1>4. CASE ~(Len(s.steps) > 1)
  <2>1. Send(r, a)
    BY <1>4 DEF Continue
  <2> QED BY <1>2, <1>4, <2>1, SendKeeps
<1> QED BY <1>3, <1>4

\* A step of the backend keeps the invariant when it keeps what it says of the
\* backend and of sops.
LEMMA BackendSteps ==
    ASSUME FetchInv, NEW r \in Request, UNCHANGED fetchVars, BackendKept(r),
           SopsTyped', SopsOf(r)',
           \A q \in Request \ {r} : sops'[q] = sops[q] /\ (q \in configFile' <=> q \in configFile)
    PROVE  FetchInv'
<1>1. Typed'
  BY DEF FetchInv, Typed, PageTyped, BackendKept, fetchVars
<1>2. OthersSame(r)
  BY DEF OthersSame, BackendKept, fetchVars
<1>3. TokensOf(r)' /\ session'.token <= github'.issued
  BY DEF FetchInv, TokensOf, Full, GoogleOnly, fetchVars
<1>4. CallsOf(r)'
  BY DEF FetchInv, CallsOf, fetchVars
<1> QED BY <1>1, <1>2, <1>3, <1>4, OneAtATime DEF BackendKept

\* A step at which there is no sops leaves none behind.
LEMMA WithoutSops ==
    ASSUME FetchInv, NEW r \in Request, UNCHANGED fetchVars, UNCHANGED sopsVars, ~InStep(r),
           BackendKept(r)
    PROVE  FetchInv'
<1>1. sops[r].promise = "none"
  BY DEF FetchInv, SopsOf
<1>2. SopsOf(r)'
  BY <1>1 DEF FetchInv, SopsOf, sopsVars
<1>3. SopsTyped'
  BY DEF FetchInv, Typed, SopsTyped, sopsVars
<1> QED BY <1>2, <1>3, BackendSteps DEF sopsVars

LEMMA NotPerformed ==
    ASSUME FetchInv, NEW r \in Request, AtWork(r), UNCHANGED performed
    PROVE  Performs(r, 0)
BY AtWorkFacts DEF Performs, Typed, BackendTyped

LEMMA ValidateStep ==
    ASSUME FetchInv, NEW r \in Request, Validate(r), UNCHANGED fetchVars
    PROVE  FetchInv'
<1>1. AtWork(r) /\ Step(r) = "validate" /\ ~InStep(r)
  BY DEF Validate, AtWork, At, InStep
<1>2. Performs(r, 0) /\ UNCHANGED sopsVars
  BY <1>1, NotPerformed DEF Validate
<1>3. BackendKept(r)
  <2>1. CASE Continue(r, Fine)
    BY <1>1, <1>2, <2>1, Answers, ContinueKeeps
  <2>2. CASE Denies(r)
    BY <1>1, <1>2, <2>2, DeniesKeeps
  <2> QED BY <2>1, <2>2 DEF Validate
<1> QED BY <1>1, <1>2, <1>3, WithoutSops

LEMMA ReadStep ==
    ASSUME FetchInv, NEW r \in Request, Read(r), UNCHANGED fetchVars
    PROVE  FetchInv'
<1>1. AtWork(r) /\ Step(r) = "read" /\ ~InStep(r)
  BY DEF Read, AtWork, At, InStep
<1>2. Performs(r, 0) /\ UNCHANGED sopsVars
  BY <1>1, NotPerformed DEF Read
<1>3. BackendKept(r)
  <2>1. CASE Continue(r, Fine)
    BY <1>1, <1>2, <2>1, Answers, ContinueKeeps
  <2>2. CASE Failed(r)
    BY <1>1, <1>2, <2>2, FailedKeeps
  <2>3. CASE Denies(r)
    BY <1>1, <1>2, <2>3, DeniesKeeps
  <2> QED BY <2>1, <2>2, <2>3 DEF Read
<1> QED BY <1>1, <1>2, <1>3, WithoutSops

LEMMA WriteStep ==
    ASSUME FetchInv, NEW r \in Request, Write(r), UNCHANGED fetchVars
    PROVE  FetchInv'
<1>1. AtWork(r) /\ Step(r) = "write" /\ ~InStep(r) /\ UNCHANGED sopsVars
  BY DEF Write, AtWork, At, InStep
<1>2. BackendKept(r)
  <2>1. CASE performed' = [performed EXCEPT ![r] = @ + 1] /\ (Continue(r, Fine) \/ Failed(r))
    <3>1. Performs(r, 1)
      BY <1>1, <2>1, AtWorkFacts DEF Performs, Typed, BackendTyped
    <3>2. CASE Continue(r, Fine)
      BY <1>1, <3>1, <3>2, Answers, ContinueKeeps
    <3>3. CASE Failed(r)
      BY <1>1, <3>1, <3>3, FailedKeeps
    <3> QED BY <2>1, <3>2, <3>3
  <2>2. CASE UNCHANGED performed /\ Failed(r)
    BY <1>1, <2>2, NotPerformed, FailedKeeps
  <2> QED BY <2>1, <2>2 DEF Write
<1> QED BY <1>1, <1>2, WithoutSops

LEMMA PartsStep ==
    ASSUME FetchInv, NEW r \in Request, Parts(r), UNCHANGED fetchVars
    PROVE  FetchInv'
<1>1. AtWork(r) /\ Step(r) = "parts" /\ ~InStep(r) /\ UNCHANGED sopsVars
  BY DEF Parts, ReadPart, AtWork, At, InStep
<1>2. Performs(r, 0)
  BY <1>1, NotPerformed DEF Parts, ReadPart
<1>3. BackendKept(r)
  <2>1. CASE \E p \in Part : ReadPart(r, p)
    <3>1. PICK p \in Part : ReadPart(r, p)
      BY <2>1
    <3>2. /\ Typed /\ server[r] \in Server /\ answer[r].status = "none" /\ native
          /\ server[r].steps \in StepsLeft(server[r].kind) /\ server[r].steps # << >>
          /\ server[r].kind = client[r].kind /\ client[r].pc \notin NotYetSent
      BY <1>1, AtWorkFacts DEF AtWork
    <3> DEFINE t == [server[r] EXCEPT !.parts = server[r].parts \cup {p}]
    <3>3. t \in Server /\ t.kind = server[r].kind /\ t.steps = server[r].steps
      BY <3>2 DEF Server
    <3>4. server' = [server EXCEPT ![r] = t] /\ answer' = answer
      BY <3>1 DEF ReadPart
    <3> HIDE DEF t
    <3>5. ServerIs(r, t)
      BY <3>2, <3>3, <3>4, SetServer
    <3>6. BackendTyped'
      BY <1>2, <3>2, <3>4, <3>5 DEF Typed, BackendTyped, ServerIs, Performs
    <3>7. EffectOf(r)'
      BY <1>2, <3>2, <3>3, <3>4, <3>5 DEF EffectOf, ServerIs, Performs, fetchVars
    <3> QED BY <1>2, <3>4, <3>5, <3>6, <3>7 DEF BackendKept, ServerIs, Performs
  <2>2. CASE IF server[r].parts = Asked(server[r].kind) THEN Continue(r, Collected(r))
             ELSE PartFails(r)
    <3>1. CASE server[r].parts = Asked(server[r].kind) /\ Continue(r, Collected(r))
      <4>1. /\ Collected(r) \in Answer /\ Collected(r).status = "fine"
            /\ Collected(r).parts = Asked(server[r].kind) \cap Kept(server[r].kind)
        BY <1>1, <3>1, AtWorkFacts, Collects
      <4> QED BY <1>1, <1>2, <3>1, <4>1, ContinueKeeps
    <3>2. CASE Failed(r)
      BY <1>1, <1>2, <3>2, FailedKeeps
    <3> QED BY <2>2, <3>1, <3>2 DEF PartFails
  <2> QED BY <2>1, <2>2 DEF Parts
<1> QED BY <1>1, <1>2, <1>3, WithoutSops

-----------------------------------------------------------------------------
(* sops.                                                                   *)

SopsIs(r, s) ==
    /\ sops' \in [Request -> Sops] /\ sops'[r] = s
    /\ \A q \in Request \ {r} : sops'[q] = sops[q]

LEMMA SetSops ==
    ASSUME Typed, NEW r \in Request, NEW s \in Sops, Set(r, s)
    PROVE  SopsIs(r, s)
BY DEF SopsIs, Typed, SopsTyped, Set

\* The backend is left alone by a process that goes on.
LEMMA BackendUntouched ==
    ASSUME FetchInv, NEW r \in Request, UNCHANGED fetchVars,
           UNCHANGED <<server, answer, performed>>
    PROVE  BackendKept(r)
<1>1. BackendTyped'
  BY DEF FetchInv, Typed, BackendTyped
<1>2. EffectOf(r)'
  BY DEF FetchInv, EffectOf, fetchVars
<1> QED BY <1>1, <1>2 DEF BackendKept

\* The steps of the process itself.
LEMMA ProcessStep ==
    ASSUME FetchInv, NEW r \in Request, UNCHANGED fetchVars,
           UNCHANGED <<server, answer, performed>>,
           OnError(r) \/ (\E code \in {0, 1} : Exit(r, code)) \/ TimerFires(r) \/ OnClose(r)
    PROVE  FetchInv'
<1>1. Typed /\ sops[r] \in Sops /\ SopsOf(r)
  BY DEF FetchInv, Typed, SopsTyped
<1>2. configFile' = configFile
  BY DEF OnError, Exit, TimerFires, OnClose
<1>3. PICK s \in Sops :
         /\ SopsIs(r, s)
         /\ sops[r].promise = "none" => s.promise = "none" /\ s.proc \in {"ended", "closed"}
                                        /\ ~s.timer
         /\ sops[r].promise # "none" =>
               \/ s.promise = "pending" /\ sops[r].promise = "pending"
                  /\ s.proc \in {"running", "killed", "ended"}
               \/ /\ s.promise \in {"resolved", "rejected"} /\ s.proc \in {"ended", "closed"}
                  /\ ~s.timer
                  /\ s.promise = "resolved" => s.proc = "closed" /\ ~s.timedOut
  <2>1. CASE OnError(r)
    <3> DEFINE s == [sops[r] EXCEPT !.proc = "ended", !.exitCode = 1, !.timer = FALSE,
                                    !.promise = Settle(sops[r], "rejected")]
    <3>1. s \in Sops /\ s.proc = "ended" /\ s.timer = FALSE
          /\ s.promise = Settle(sops[r], "rejected")
      BY <1>1 DEF Sops, Settle
    <3>2. Set(r, s) /\ sops[r].proc = "running"
      BY <2>1 DEF OnError
    <3> HIDE DEF s
    <3>3. SopsIs(r, s)
      BY <1>1, <3>1, <3>2, SetSops
    <3>4. sops[r].promise = "pending"
      BY <1>1, <3>2 DEF SopsOf, Sops
    <3> QED BY <3>1, <3>3, <3>4 DEF Settle
  <2>2. CASE \E code \in {0, 1} : Exit(r, code)
    <3>1. PICK code \in {0, 1} : Exit(r, code)
      BY <2>2
    <3> DEFINE s == [sops[r] EXCEPT !.proc = "ended", !.exitCode = code]
    <3>2. s \in Sops /\ s.proc = "ended" /\ s.promise = sops[r].promise
      BY <1>1 DEF Sops
    <3>3. Set(r, s) /\ sops[r].proc \in {"running", "killed"}
      BY <3>1 DEF Exit
    <3> HIDE DEF s
    <3>4. SopsIs(r, s)
      BY <1>1, <3>2, <3>3, SetSops
    <3>5. sops[r].promise = "pending"
      BY <1>1, <3>3 DEF SopsOf, Sops
    <3> QED BY <3>2, <3>4, <3>5
  <2>3. CASE TimerFires(r)
    <3> DEFINE u == [sops[r] EXCEPT !.timer = FALSE, !.timedOut = TRUE]
               s == Kill(u)
    <3>1. /\ u \in Sops /\ u.promise = sops[r].promise /\ u.proc = sops[r].proc
      BY <1>1 DEF Sops
    <3>2. Set(r, s)
      BY <2>3 DEF TimerFires
    <3>3. sops[r].promise = "pending"
      <4>1. sops[r].timer
        BY <2>3 DEF TimerFires
      <4>2. sops[r].promise \notin {"resolved", "rejected"} /\ sops[r].promise # "none"
        BY <1>1, <4>1, Zenon DEF SopsOf
      <4> QED BY <1>1, <4>2 DEF Sops
    <3>4. sops[r].proc \in {"running", "killed", "ended"}
      BY <1>1, <3>3 DEF SopsOf
    <3> HIDE DEF u
    <3>5. /\ s \in Sops /\ s.promise = sops[r].promise
          /\ s.proc \in {"running", "killed", "ended"}
      BY <3>1, <3>4 DEF Kill, Sops
    <3> HIDE DEF s
    <3>6. SopsIs(r, s)
      BY <1>1, <3>2, <3>5, SetSops
    <3> QED BY <3>3, <3>5, <3>6
  <2>4. CASE OnClose(r)
    <3> DEFINE how == IF sops[r].timedOut THEN "rejected" ELSE "resolved"
               s == [sops[r] EXCEPT !.proc = "closed", !.timer = FALSE,
                                    !.promise = Settle(sops[r], how)]
    <3>1. how \in {"resolved", "rejected"}
      OBVIOUS
    <3>2. Set(r, s)
      BY <2>4 DEF OnClose
    <3> HIDE DEF how
    <3>3. Settle(sops[r], how) \in {"none", "pending", "resolved", "rejected"}
      BY <1>1, <3>1 DEF Sops, Settle
    <3>4. /\ s \in Sops /\ s.proc = "closed" /\ s.timer = FALSE
          /\ s.promise = Settle(sops[r], how) /\ s.timedOut = sops[r].timedOut
      BY <1>1, <3>3 DEF Sops
    <3> HIDE DEF s
    <3>5. SopsIs(r, s)
      BY <1>1, <3>2, <3>4, SetSops
    <3>6. sops[r].promise \in {"none", "pending", "rejected"}
      BY <1>1, <2>4 DEF Sops, SopsOf, OnClose
    <3>7. how = "resolved" => ~sops[r].timedOut
      BY DEF how
    <3> QED BY <3>1, <3>4, <3>5, <3>6, <3>7 DEF Settle
  <2> QED BY <2>1, <2>2, <2>3, <2>4
<1>4. SopsTyped'
  BY <1>1, <1>2, <1>3 DEF Typed, SopsTyped, SopsIs
<1>5. SopsOf(r)'
  <2>1. sops'[r] = s /\ (InStep(r)' <=> InStep(r)) /\ (At(r, "encrypt")' <=> At(r, "encrypt"))
    BY <1>2, <1>3 DEF SopsIs, InStep, At, Step
  <2>2. CASE sops[r].promise = "none"
    <3>1. s.promise = "none" /\ s.proc \in {"ended", "closed"} /\ ~s.timer
      BY <1>3, <2>2
    <3>2. r \notin configFile
      BY <1>1, <2>2 DEF SopsOf
    <3> QED BY <1>2, <2>1, <3>1, <3>2 DEF SopsOf
  <2>3. CASE sops[r].promise # "none"
    <3>1. InStep(r)
      BY <1>1, <2>3 DEF SopsOf
    <3>2. CASE /\ s.promise = "pending" /\ sops[r].promise = "pending"
               /\ s.proc \in {"running", "killed", "ended"}
      <4>1. At(r, "encrypt") => r \in configFile
        BY <1>1, <3>2 DEF SopsOf
      <4> QED BY <1>2, <2>1, <3>1, <3>2, <4>1 DEF SopsOf
    <3>3. CASE /\ s.promise \in {"resolved", "rejected"} /\ s.proc \in {"ended", "closed"}
               /\ ~s.timer
               /\ s.promise = "resolved" => s.proc = "closed" /\ ~s.timedOut
      <4>1. /\ sops'[r].promise \in {"resolved", "rejected"} /\ ~sops'[r].timer
            /\ sops'[r].proc \in {"ended", "closed"} /\ InStep(r)'
            /\ sops'[r].promise = "resolved" => sops'[r].proc = "closed" /\ ~sops'[r].timedOut
        BY <2>1, <3>1, <3>3
      <4>2. sops'[r].promise # "none" /\ sops'[r].promise # "pending"
        BY <4>1
      <4> QED BY <4>1, <4>2, Zenon DEF SopsOf
    <3> QED BY <1>3, <2>3, <3>2, <3>3
  <2> QED BY <2>2, <2>3
<1> QED BY <1>2, <1>3, <1>4, <1>5, BackendUntouched, BackendSteps DEF SopsIs

\* What starts, or reads, a process is at the step that waits for it.
LEMMA Spawned ==
    ASSUME Typed, NEW r \in Request, SpawnSops(r)
    PROVE  \E s \in Sops : SopsIs(r, s) /\ s.promise = "pending" /\ s.proc = "running"
<1> DEFINE n == [NoSops EXCEPT !.proc = "running"]
           s == [n EXCEPT !.timer = TRUE, !.promise = "pending"]
<1>1. NoSops \in Sops
  BY DEF NoSops, Sops
<1>2. n \in Sops /\ n.proc = "running"
  BY <1>1 DEF Sops
<1>3. Set(r, s)
  BY DEF SpawnSops
<1> HIDE DEF n
<1>4. s \in Sops /\ s.promise = "pending" /\ s.proc = "running"
  BY <1>2 DEF Sops
<1> HIDE DEF s
<1> QED BY <1>3, <1>4, SetSops

LEMMA StartSopsStep ==
    ASSUME FetchInv, NEW r \in Request, StartSops(r), UNCHANGED fetchVars
    PROVE  FetchInv'
<1>1. /\ AtWork(r) /\ InStep(r) /\ Typed /\ sops[r].proc = "none" /\ SopsOf(r)
      /\ configFile \subseteq Request
  BY DEF StartSops, AtWork, At, InStep, FetchInv, Typed, SopsTyped
<1>2. CASE Failed(r) /\ UNCHANGED sopsVars
  <2>1. BackendKept(r)
    BY <1>1, <1>2, FailedKeeps, NotPerformed DEF StartSops
  <2>2. sops[r].promise = "none"
    <3>1. sops[r].promise \in {"none", "pending", "resolved", "rejected"}
      BY <1>1 DEF Typed, SopsTyped, Sops
    <3> QED BY <1>1, <3>1 DEF SopsOf
  <2>3. SopsOf(r)'
    BY <1>1, <1>2, <2>2 DEF SopsOf, sopsVars
  <2>4. SopsTyped'
    BY <1>1, <1>2 DEF Typed, SopsTyped, sopsVars
  <2> QED BY <1>2, <2>1, <2>3, <2>4, BackendSteps DEF sopsVars
<1>3. CASE /\ IF Step(r) = "encrypt" THEN Encrypt(r) ELSE Decrypt(r)
           /\ UNCHANGED <<server, answer>>
  <2>1. PICK s \in Sops : SopsIs(r, s) /\ s.promise = "pending" /\ s.proc = "running"
    BY <1>1, <1>3, Spawned DEF Encrypt, Decrypt
  <2>2. /\ configFile' \in {configFile, configFile \cup {r}}
        /\ Step(r) = "encrypt" => r \in configFile'
    BY <1>3 DEF Encrypt, Decrypt
  <2>3. SopsOf(r)'
    BY <1>1, <1>3, <2>1, <2>2 DEF SopsOf, SopsIs, InStep, At, Step
  <2>4. SopsTyped'
    BY <1>1, <2>1, <2>2 DEF SopsTyped, SopsIs
  <2>5. BackendKept(r)
    BY <1>3, BackendUntouched DEF StartSops
  <2> QED BY <2>1, <2>2, <2>3, <2>4, <2>5, BackendSteps DEF SopsIs
<1> QED BY <1>2, <1>3 DEF StartSops

LEMMA AfterSopsStep ==
    ASSUME FetchInv, NEW r \in Request, AfterSops(r), UNCHANGED fetchVars
    PROVE  FetchInv'
<1>1. /\ AtWork(r) /\ InStep(r) /\ Typed /\ sops[r] \in Sops /\ SopsOf(r)
      /\ configFile \subseteq Request
  BY DEF AfterSops, AtWork, At, InStep, FetchInv, Typed, SopsTyped
<1>2. Step(r) \in {"encrypt", "decrypt"}
  BY DEF AfterSops, At
<1>3. Performs(r, 0)
  BY <1>1, NotPerformed DEF AfterSops
<1>4. BackendKept(r)
  <2>1. CASE Continue(r, Fine)
    BY <1>1, <1>2, <1>3, <2>1, Answers, ContinueKeeps
  <2>2. CASE Failed(r)
    BY <1>1, <1>3, <2>2, FailedKeeps
  <2> QED BY <2>1, <2>2 DEF AfterSops
<1>5. PICK s \in Sops :
         SopsIs(r, s) /\ s.promise = "none" /\ s.proc \in {"none", "ended"} /\ ~s.timer
  <2>1. NoSops \in Sops /\ NoSops.promise = "none" /\ NoSops.proc = "none" /\ ~NoSops.timer
    BY DEF NoSops, Sops
  <2>2. CASE sops[r].proc = "closed"
    <3>1. Set(r, NoSops)
      BY <2>2 DEF AfterSops, CleanUp
    <3> QED BY <1>1, <2>1, <3>1, SetSops
  <2>3. CASE sops[r].proc # "closed"
    <3> DEFINE n == [NoSops EXCEPT !.proc = sops[r].proc]
               s == [n EXCEPT !.timer = sops[r].timer]
    <3>1. Set(r, s) /\ Settled(r)
      BY <2>3 DEF AfterSops, CleanUp
    <3>2. sops[r].proc = "ended" /\ sops[r].timer = FALSE
      <4>1. sops[r].proc \in {"ended", "closed"} /\ ~sops[r].timer
        BY <1>1, <3>1, Zenon DEF SopsOf, Settled
      <4>2. sops[r].timer \in BOOLEAN
        BY <1>1 DEF Sops
      <4> QED BY <2>3, <4>1, <4>2
    <3>3. n \in Sops /\ n.proc = "ended" /\ n.promise = "none"
      BY <2>1, <3>2 DEF Sops
    <3> HIDE DEF n
    <3>4. s \in Sops /\ s.proc = "ended" /\ s.promise = "none" /\ s.timer = FALSE
      BY <3>2, <3>3 DEF Sops
    <3> HIDE DEF s
    <3> QED BY <1>1, <3>1, <3>4, SetSops
  <2> QED BY <2>2, <2>3
<1>6. configFile' = configFile \ {r}
  BY DEF AfterSops, CleanUp
<1>7. SopsOf(r)'
  BY <1>5, <1>6 DEF SopsOf, SopsIs
<1>8. SopsTyped'
  BY <1>1, <1>5, <1>6 DEF SopsTyped, SopsIs
<1> QED BY <1>4, <1>5, <1>6, <1>7, <1>8, BackendSteps DEF SopsIs

LEMMA HandleStep ==
    ASSUME FetchInv, NEW r \in Request, Handle(r), UNCHANGED fetchVars
    PROVE  FetchInv'
BY ValidateStep, ReadStep, WriteStep, PartsStep, StartSopsStep, AfterSopsStep, ProcessStep
   DEF Handle, Process, Sure

-----------------------------------------------------------------------------
(* The way to the backend and back.                                        *)

\* The steps between the page and the backend, sops being left alone.
LEMMA WaySteps ==
    ASSUME FetchInv, NEW r \in Request, NEW c \in Client, ClientIs(r, c),
           UNCHANGED <<native, dev, github, sopsVars>>,
           session' \in [token : Nat \ {0}, invalid : Nat, refreshing : BOOLEAN],
           session'.token = session.token,
           session.refreshing => session'.refreshing,
           calls' \in [Request -> Seq(Call1)],
           \A q \in Request \ {r} : calls'[q] = calls[q],
           BackendKept(r), ~InStep(r), TokensOf(r)', CallsOf(r)'
    PROVE  FetchInv'
<1>1. Typed'
  BY DEF FetchInv, Typed, PageTyped, SopsTyped, ClientIs, BackendKept, sopsVars
<1>2. OthersSame(r)
  BY DEF OthersSame, ClientIs, BackendKept, sopsVars
<1>3. session'.token <= github'.issued
  BY DEF FetchInv
<1>4. SopsOf(r)'
  <2>1. sops[r].promise = "none"
    BY DEF FetchInv, SopsOf
  <2> QED BY <2>1 DEF FetchInv, SopsOf, sopsVars
<1> QED BY <1>1, <1>2, <1>3, <1>4, OneAtATime DEF BackendKept

LEMMA ArriveStep ==
    ASSUME FetchInv, NEW r \in Request, Arrive(r)
    PROVE  FetchInv'
<1> DEFINE kind == client[r].kind
           tokens == {"gcp"} \cup IF Full(r) THEN {"github"} ELSE {}
           c == [client[r] EXCEPT !.pc = "waiting"]
<1>1. /\ Typed /\ client[r] \in Client /\ client[r].pc = "sent" /\ native /\ kind \in Kind
      /\ server[r].steps = << >> /\ performed[r] = 0 /\ answer[r].status = "none"
      /\ calls[r] = << >>
  BY DEF FetchInv, Typed, PageTyped, Arrive, InTransit, EffectOf, CallsOf, NotYetSent, Client
<1>2. c \in Client /\ c.pc = "waiting" /\ c.kind = kind /\ c.token = client[r].token
      /\ c.rejected = client[r].rejected
  BY <1>1 DEF Client
<1>3. ClientIs(r, c)
  BY <1>1, Goes DEF Arrive
<1> HIDE DEF c, tokens
<1>4. TokensOf(r)'
  BY <1>1, <1>2, <1>3 DEF FetchInv, TokensOf, ClientIs, Arrive, Typed, PageTyped
<1>5. CallsOf(r)'
  BY <1>1, <1>2, <1>3 DEF CallsOf, ClientIs, Arrive
<1>6. Receive(r, kind, tokens) /\ UNCHANGED performed /\ UNCHANGED sopsVars
  BY DEF Arrive, Receive, tokens
<1>7. BackendKept(r)
  <2>1. CASE \E a \in {NotFound, Error("AccessTokensValidationFailure")} : Send(r, a)
    <3>1. PICK a \in {NotFound, Error("AccessTokensValidationFailure")} : Send(r, a)
      BY <2>1
    <3>2. a \in Answer /\ a.status \in {"notFound", "AccessTokensValidationFailure"}
      BY <3>1, Answers DEF Statuses
    <3>3. PICK s \in Server :
              AnswerIs(r, a) /\ ServerIs(r, s) /\ s.steps = << >> /\ s.parts = {}
      BY <1>1, <3>1, <3>2, Sends
    <3>4. BackendTyped'
      BY <1>1, <1>6, <3>3 DEF Typed, BackendTyped, AnswerIs, ServerIs
    <3>5. EffectOf(r)'
      BY <1>1, <1>2, <1>3, <1>6, <3>2, <3>3
         DEF EffectOf, AnswerIs, ServerIs, ClientIs, NotYetSent
    <3> QED BY <1>6, <3>3, <3>4, <3>5 DEF BackendKept, AnswerIs, ServerIs
  <2>2. CASE /\ kind # "feedback" /\ answer' = answer
             /\ server' = [server EXCEPT ![r] =
                             [kind |-> kind, steps |-> Steps(kind), parts |-> {}]]
    <3> DEFINE s == [kind |-> kind, steps |-> Steps(kind), parts |-> {}]
    <3>1. Steps(kind) \in StepsLeft(kind) /\ Steps(kind) \in AnySteps /\ Steps(kind) # << >>
      BY <1>1, <2>2, StepsBegin, StepsTyped, StepsFacts
    <3>2. s \in Server /\ s.kind = kind /\ s.steps = Steps(kind)
      BY <1>1, <3>1 DEF Server
    <3> HIDE DEF s
    <3>3. ServerIs(r, s)
      BY <1>1, <2>2, <3>2, SetServer DEF s
    <3>4. BackendTyped'
      BY <1>1, <1>6, <2>2, <3>3 DEF Typed, BackendTyped, ServerIs
    <3>5. EffectOf(r)'
      <4>1. /\ server'[r] = s /\ client'[r] = c /\ performed'[r] = 0 /\ native'
            /\ answer'[r].status = "none"
        BY <1>1, <1>3, <1>6, <2>2, <3>3 DEF ServerIs, ClientIs, Arrive
      <4> QED BY <1>2, <3>1, <3>2, <4>1 DEF EffectOf, NotYetSent
    <3> QED BY <1>6, <2>2, <3>3, <3>4, <3>5 DEF BackendKept, ServerIs
  <2> QED BY <1>6, <2>1, <2>2 DEF Receive
<1> QED BY <1>1, <1>2, <1>3, <1>4, <1>5, <1>6, <1>7, WaySteps
        DEF Arrive, Typed, PageTyped, InStep, At

LEMMA ServeOutsideStep ==
    ASSUME FetchInv, NEW r \in Request, ServeOutside(r)
    PROVE  FetchInv'
<1> DEFINE c == [client[r] EXCEPT !.pc = "waiting"]
<1>1. /\ Typed /\ client[r] \in Client /\ client[r].pc = "sent" /\ ~native
      /\ server[r].steps = << >> /\ performed[r] = 0 /\ calls[r] = << >>
  BY DEF FetchInv, Typed, PageTyped, ServeOutside, InTransit, EffectOf, CallsOf, NotYetSent
<1>2. c \in Client /\ c.pc = "waiting" /\ c.kind = client[r].kind /\ c.token = client[r].token
      /\ c.rejected = client[r].rejected
  BY <1>1 DEF Client
<1>3. ClientIs(r, c)
  BY <1>1, Goes DEF ServeOutside
<1> HIDE DEF c
<1>4. TokensOf(r)'
  BY <1>1, <1>2, <1>3 DEF FetchInv, TokensOf, ClientIs, ServeOutside, Typed, PageTyped
<1>5. CallsOf(r)'
  BY <1>1, <1>2, <1>3 DEF CallsOf, ClientIs, ServeOutside
<1>6. PICK a \in Answer, n \in {0, 1} :
          /\ AnswerIs(r, a) /\ Performs(r, n)
          /\ a.status = "InvalidGitHubAccessToken" => n = 0
  <2>1. PICK a \in {Error("InvalidGitHubAccessToken"), Fine, Error("failed")} :
            /\ answer' = [answer EXCEPT ![r] = a]
            /\ \/ performed' = performed
               \/ /\ performed' = [performed EXCEPT ![r] = performed[r] + 1]
                  /\ a \in {Fine, Error("failed")}
    BY DEF ServeOutside
  <2>2. /\ a \in Answer
        /\ a \in {Fine, Error("failed")} => a.status # "InvalidGitHubAccessToken"
    BY <2>1, Answers DEF Statuses
  <2>3. AnswerIs(r, a)
    BY <1>1, <2>1, <2>2, SetAnswer
  <2>4. CASE performed' = performed
    BY <1>1, <2>2, <2>3, <2>4 DEF Performs, Typed, BackendTyped
  <2>5. CASE /\ performed' = [performed EXCEPT ![r] = performed[r] + 1]
             /\ a \in {Fine, Error("failed")}
    <3>1. Performs(r, 1)
      BY <1>1, <2>5 DEF Performs, Typed, BackendTyped
    <3> QED BY <2>2, <2>3, <2>5, <3>1
  <2> QED BY <2>1, <2>4, <2>5
<1>7. BackendKept(r)
  <2>1. BackendTyped'
    BY <1>1, <1>6 DEF Typed, BackendTyped, AnswerIs, Performs, ServeOutside
  <2>2. EffectOf(r)'
    BY <1>1, <1>2, <1>3, <1>6
       DEF FetchInv, EffectOf, AnswerIs, Performs, ClientIs, ServeOutside, NotYetSent
  <2> QED BY <1>6, <2>1, <2>2 DEF BackendKept, AnswerIs, Performs, ServeOutside
<1> QED BY <1>1, <1>2, <1>3, <1>4, <1>5, <1>7, WaySteps
        DEF ServeOutside, Typed, PageTyped, InStep, At, sopsVars

LEMMA LoseAnswerStep ==
    ASSUME FetchInv, NEW r \in Request, LoseAnswer(r)
    PROVE  FetchInv'
<1> DEFINE a == [answer[r] EXCEPT !.json = FALSE]
<1>1. /\ Typed /\ answer[r] \in Answer /\ answer[r].status # "none"
      /\ server[r].steps = << >>
  BY DEF FetchInv, Typed, BackendTyped, LoseAnswer, EffectOf
<1>2. a \in Answer /\ a.status = answer[r].status /\ a.parts = answer[r].parts
  <2>1. answer[r] \in [ok : BOOLEAN, json : BOOLEAN, status : Statuses, parts : SUBSET Part]
    BY <1>1 DEF Answer
  <2>2. /\ a \in [ok : BOOLEAN, json : BOOLEAN, status : Statuses, parts : SUBSET Part]
        /\ a.status = answer[r].status /\ a.parts = answer[r].parts /\ a.ok = answer[r].ok
    BY <2>1
  <2>3. answer[r].ok => answer[r].status \in {"fine", "partial", "denied"}
    BY <1>1 DEF Answer
  <2> HIDE DEF a
  <2> QED BY <2>2, <2>3 DEF Answer
<1>3. answer' = [answer EXCEPT ![r] = a]
  BY DEF LoseAnswer
<1> HIDE DEF a
<1>4. AnswerIs(r, a)
  BY <1>1, <1>2, <1>3, SetAnswer
<1>5. BackendTyped'
  BY <1>1, <1>4 DEF Typed, BackendTyped, AnswerIs, LoseAnswer
<1>6. EffectOf(r)'
  BY <1>1, <1>2, <1>4 DEF FetchInv, EffectOf, AnswerIs, LoseAnswer, fetchVars
<1>7. BackendKept(r)
  BY <1>4, <1>5, <1>6 DEF BackendKept, AnswerIs, LoseAnswer
<1> QED BY <1>1, <1>7, WithoutSops DEF LoseAnswer, InStep, At

-----------------------------------------------------------------------------
(* The answer.                                                             *)

\* The answer that is read was the last thing the backend had to do with the
\* request; and if it is sent once more, it has had no effect.
LEMMA ConsumeKeeps ==
    ASSUME FetchInv, NEW r \in Request, Answered(r),
           UNCHANGED <<native, server, performed>>,
           answer' = [answer EXCEPT ![r] = NoAnswer],
           client'[r].pc \in NotYetSent => answer[r].status = "InvalidGitHubAccessToken"
    PROVE  BackendKept(r) /\ ~InStep(r)
<1>1. Typed /\ server[r].steps = << >>
  BY DEF FetchInv, Answered, EffectOf
<1>2. AnswerIs(r, NoAnswer)
  BY <1>1, Answers, SetAnswer
<1>3. BackendTyped'
  BY <1>1, <1>2 DEF Typed, BackendTyped, AnswerIs
<1>4. EffectOf(r)'
  BY <1>1, <1>2, Answers DEF FetchInv, EffectOf, AnswerIs
<1> QED BY <1>1, <1>2, <1>3, <1>4 DEF BackendKept, AnswerIs, InStep, At

LEMMA RetryStep ==
    ASSUME FetchInv, NEW r \in Request, RetryWithNewToken(r)
    PROVE  FetchInv'
<1> DEFINE s == [session EXCEPT !.invalid = client[r].token]
           d == [client[r] EXCEPT !.rejected = client[r].token]
           Sessions == [token : Nat \ {0}, invalid : Nat, refreshing : BOOLEAN]
<1>1. /\ Typed /\ client[r] \in Client /\ Answered(r) /\ client[r].pc = "waiting"
      /\ calls[r] = << >> /\ session \in Sessions
      /\ answer[r].status = "InvalidGitHubAccessToken"
      /\ client[r].token <= github.issued
  BY DEF FetchInv, Typed, PageTyped, RetryWithNewToken, Answered, CallsOf, TokenIsInvalid, TokensOf
<1>2. /\ d \in Client /\ d.pc = "waiting" /\ d.kind = client[r].kind
      /\ d.token = client[r].token /\ d.rejected = client[r].token
  BY <1>1 DEF Client
<1>3. /\ s \in Sessions /\ s.token = session.token /\ s.refreshing = session.refreshing
      /\ s.invalid = client[r].token
  BY <1>1 DEF Client
<1>4. GetGitHubToken(r, s, d)
  BY DEF RetryWithNewToken, Renew
<1> HIDE DEF s, d
<1>5. /\ session' \in Sessions /\ session'.token = session.token
      /\ session.refreshing => session'.refreshing
      /\ \/ session'.refreshing /\ ClientIs(r, [d EXCEPT !.pc = "refresh"])
         \/ /\ s.token # s.invalid
            /\ ClientIs(r, [d EXCEPT !.pc = "sent", !.token = s.token])
  BY <1>2, <1>3, <1>4, GetsToken
<1>6. PICK c \in Client :
         /\ ClientIs(r, c) /\ c.kind = client[r].kind /\ c.rejected = client[r].token
         /\ \/ c.pc = "refresh" /\ session'.refreshing /\ c.token = client[r].token
            \/ c.pc = "sent" /\ c.token = session.token /\ c.token # client[r].token
  <2>1. CASE session'.refreshing /\ ClientIs(r, [d EXCEPT !.pc = "refresh"])
    <3>1. [d EXCEPT !.pc = "refresh"] \in Client
      BY <1>2 DEF Client
    <3> QED BY <1>2, <2>1, <3>1 DEF Client
  <2>2. CASE /\ s.token # s.invalid
             /\ ClientIs(r, [d EXCEPT !.pc = "sent", !.token = s.token])
    <3>1. [d EXCEPT !.pc = "sent", !.token = s.token] \in Client
      BY <1>2, <1>3 DEF Client
    <3> QED BY <1>2, <1>3, <2>2, <3>1 DEF Client
  <2> QED BY <1>5, <2>1, <2>2
<1>7. TokensOf(r)'
  BY <1>1, <1>6 DEF FetchInv, TokensOf, ClientIs, RetryWithNewToken, Typed, PageTyped, NoToken
<1>8. CallsOf(r)'
  BY <1>1, <1>6 DEF CallsOf, ClientIs, RetryWithNewToken, NotYetSent
<1>9. BackendKept(r) /\ ~InStep(r)
  BY <1>1, ConsumeKeeps DEF RetryWithNewToken
<1> QED BY <1>1, <1>5, <1>6, <1>7, <1>8, <1>9, WaySteps
        DEF RetryWithNewToken, Typed, PageTyped, sopsVars

\* What is left of a request that was answered.
LEMMA Concludes ==
    ASSUME FetchInv, NEW r \in Request, Answered(r), NEW threw \in BOOLEAN,
           NEW what \in {"success", "error"}, Callback(r, what, threw), Consume(r),
           ThenReturn(r, threw) \/ End(r, "done")
    PROVE  FetchInv'
<1>1. /\ Typed /\ client[r].pc = "waiting" /\ calls[r] = << >> /\ client[r] \in Client
      /\ session \in [token : Nat \ {0}, invalid : Nat, refreshing : BOOLEAN]
  BY DEF FetchInv, Typed, PageTyped, Answered, CallsOf
<1>2. /\ calls' \in [Request -> Seq(Call1)]
      /\ \A q \in Request \ {r} : calls'[q] = calls[q]
      /\ Len(calls'[r]) <= 2
      /\ Len(calls'[r]) = 1 /\ calls'[r][1].threw = threw
      /\ Len(calls'[r]) = 2 => calls'[r][1].threw /\ calls'[r][2].what = "error"
  BY <1>1, Heard
<1>3. PICK c \in Client :
         /\ ClientIs(r, c) /\ c.kind = client[r].kind
         /\ c.token \in {0, client[r].token} /\ c.rejected \in {0, client[r].rejected}
         /\ c.pc = "done" \/ (c.pc = "failing" /\ c.error = "failed" /\ threw)
  <2>1. CASE End(r, "done")
    BY <1>1, <2>1, Ends
  <2>2. CASE threw /\ Throw(r, "failed")
    BY <1>1, <2>2, Throws
  <2> QED BY <2>1, <2>2 DEF ThenReturn
<1>4. TokensOf(r)'
  BY <1>1, <1>3 DEF FetchInv, TokensOf, ClientIs, Consume, Typed, PageTyped
<1>5. CallsOf(r)'
  <2>1. client'[r].pc \notin NotYetSent \cup {"waiting"}
    BY <1>3 DEF ClientIs, NotYetSent
  <2>2. client'[r].pc = "failing" => threw /\ client'[r].error = "failed"
    BY <1>3 DEF ClientIs
  <2> QED BY <1>2, <2>1, <2>2, Zenon DEF CallsOf
<1>6. BackendKept(r) /\ ~InStep(r)
  BY <1>1, <1>3, ConsumeKeeps DEF Consume, ClientIs, NotYetSent
<1> QED BY <1>1, <1>2, <1>3, <1>4, <1>5, <1>6, WaySteps
        DEF Consume, Typed, PageTyped, sopsVars

LEMMA OnAnswerStep ==
    ASSUME FetchInv, NEW r \in Request, NEW threw \in BOOLEAN,
           OnSuccess(r, threw) \/ OnErrorAnswer(r, threw)
    PROVE  FetchInv'
BY Concludes DEF OnSuccess, OnErrorAnswer

LEMMA OnUnreadableStep ==
    ASSUME FetchInv, NEW r \in Request, OnUnreadable(r)
    PROVE  FetchInv'
<1>1. /\ Typed /\ Answered(r) /\ client[r].pc = "waiting" /\ calls[r] = << >>
      /\ client[r] \in Client
      /\ session \in [token : Nat \ {0}, invalid : Nat, refreshing : BOOLEAN]
  BY DEF FetchInv, Typed, PageTyped, Answered, CallsOf, OnUnreadable
<1>2. PICK c \in Client :
         /\ ClientIs(r, c) /\ c.kind = client[r].kind /\ c.pc \in {"failing", "dropped"}
         /\ c.token \in {0, client[r].token} /\ c.rejected \in {0, client[r].rejected}
  <2>1. CASE Throw(r, "failed")
    BY <1>1, <2>1, Throws
  <2>2. CASE End(r, "dropped")
    BY <1>1, <2>2, Ends
  <2> QED BY <2>1, <2>2 DEF OnUnreadable, Unhandled
<1>3. TokensOf(r)'
  BY <1>1, <1>2 DEF FetchInv, TokensOf, ClientIs, OnUnreadable, Consume, Typed, PageTyped
<1>4. CallsOf(r)'
  BY <1>1, <1>2 DEF CallsOf, ClientIs, OnUnreadable, NotYetSent
<1>5. BackendKept(r) /\ ~InStep(r)
  BY <1>1, <1>2, ConsumeKeeps DEF OnUnreadable, Consume, ClientIs, NotYetSent
<1> QED BY <1>1, <1>2, <1>3, <1>4, <1>5, WaySteps
        DEF OnUnreadable, Consume, Typed, PageTyped, sopsVars

-----------------------------------------------------------------------------
(* The steps of the session, which concern all who wait.                   *)

\* What such a step leaves to show: those who wait go on, the others are as
\* they were, and every token was issued.
LEMMA SessionSteps ==
    ASSUME FetchInv, UNCHANGED <<native, dev, calls, routerVars>>,
           client' \in [Request -> Client],
           \A r \in Request \ Waiting : client'[r] = client[r],
           \A r \in Waiting : /\ client'[r].pc \in {"sent", "failing"}
                              /\ client'[r].kind = client[r].kind,
           session' \in [token : Nat \ {0}, invalid : Nat, refreshing : BOOLEAN],
           github' \in [issued : Nat \ {0}, valid : Nat],
           github'.valid = github'.issued,
           session'.token <= github'.issued,
           \A r \in Request : TokensOf(r)'
    PROVE  FetchInv'
<1>1. Typed'
  BY DEF FetchInv, Typed, PageTyped, BackendTyped, SopsTyped, routerVars
<1> SUFFICES ASSUME NEW r \in Request
             PROVE  CallsOf(r)' /\ SopsOf(r)' /\ EffectOf(r)'
  BY <1>1 DEF FetchInv
<1>2. SopsOf(r)'
  BY DEF FetchInv, SopsOf, InStep, At, Step, routerVars
<1>3. CASE r \in Waiting
  <2>1. /\ calls[r] = << >> /\ client'[r].pc \in {"sent", "failing"}
        /\ client[r].pc \in NotYetSent /\ client'[r].kind = client[r].kind
    BY <1>3 DEF FetchInv, Waiting, CallsOf, NotYetSent
  <2>2. CallsOf(r)'
    BY <2>1 DEF CallsOf
  <2>3. EffectOf(r)'
    BY <2>1 DEF FetchInv, EffectOf, routerVars
  <2> QED BY <1>2, <2>2, <2>3
<1>4. CASE r \notin Waiting
  <2>1. client'[r] = client[r]
    BY <1>4
  <2>2. CallsOf(r)'
    BY <2>1 DEF FetchInv, CallsOf
  <2>3. EffectOf(r)'
    BY <2>1 DEF FetchInv, EffectOf, routerVars
  <2> QED BY <1>2, <2>2, <2>3
<1> QED BY <1>3, <1>4

LEMMA RefreshStep ==
    ASSUME FetchInv, Refresh
    PROVE  FetchInv'
<1> DEFINE token == github.issued + 1
           Sessions == [token : Nat \ {0}, invalid : Nat, refreshing : BOOLEAN]
<1>1. /\ client \in [Request -> Client] /\ session \in Sessions
      /\ github \in [issued : Nat \ {0}, valid : Nat]
  BY DEF FetchInv, Typed, PageTyped
<1>2. /\ github' = [issued |-> token, valid |-> token]
      /\ session' = [session EXCEPT !.token = token, !.refreshing = FALSE]
      /\ client' = [r \in Request |-> IF r \in Waiting THEN Sent(client[r], token)
                                      ELSE client[r]]
  BY DEF Refresh
<1>3. token \in Nat \ {0} /\ token > github.issued
  BY <1>1
<1>4. \A c \in Client : /\ Sent(c, token) \in Client /\ Sent(c, token).pc = "sent"
                        /\ Sent(c, token).kind = c.kind /\ Sent(c, token).token = token
                        /\ Sent(c, token).rejected = c.rejected
  BY <1>3 DEF Client, Sent
<1> HIDE DEF token
<1>5. /\ github' \in [issued : Nat \ {0}, valid : Nat] /\ github'.valid = github'.issued
      /\ github'.issued = token
  BY <1>2, <1>3
<1>6. session' \in Sessions /\ session'.token = token
  BY <1>1, <1>2, <1>3
<1>7. client' \in [Request -> Client]
  BY <1>1, <1>2, <1>4
<1>8. /\ \A r \in Waiting : /\ client'[r].pc = "sent" /\ client'[r].kind = client[r].kind
                            /\ client'[r].token = token
                            /\ client'[r].rejected = client[r].rejected
      /\ \A r \in Request \ Waiting : client'[r] = client[r]
  BY <1>1, <1>2, <1>4 DEF Waiting
<1>9. ASSUME NEW r \in Request PROVE TokensOf(r)'
  <2>1. /\ client[r] \in Client /\ client[r].token <= github.issued
        /\ client[r].rejected <= github.issued
        /\ client[r].pc \in {"idle", "profile", "tokens"} => client[r].rejected = NoToken
        /\ client[r].pc = "sent" /\ Full(r) => client[r].token # client[r].rejected
    BY <1>1 DEF FetchInv, TokensOf
  <2>2. CASE r \in Waiting
    <3>1. client[r].rejected \in Nat
      BY <2>1 DEF Client
    <3>2. client'[r].rejected < client'[r].token
      BY <1>1, <1>3, <1>8, <2>1, <2>2, <3>1
    <3>3. client'[r].token = token /\ client'[r].pc = "sent" /\ client'[r].rejected \in Nat
      BY <1>8, <2>2, <3>1
    <3> QED BY <1>3, <1>5, <3>2, <3>3 DEF TokensOf
  <2>3. CASE r \notin Waiting
    <3>1. client'[r] = client[r] /\ client[r].pc # "refresh" /\ dev' = dev
      BY <1>8, <2>3 DEF Waiting, Refresh
    <3>2. client[r].token \in Nat /\ client[r].rejected \in Nat
      BY <2>1 DEF Client
    <3>3. client[r].token <= token /\ client[r].rejected <= token
      BY <1>1, <1>3, <2>1, <3>2
    <3> QED BY <1>5, <2>1, <3>1, <3>3 DEF TokensOf, Full, GoogleOnly
  <2> QED BY <2>2, <2>3
<1>10. session'.token <= github'.issued
  BY <1>3, <1>5, <1>6
<1> QED BY <1>5, <1>6, <1>7, <1>8, <1>9, <1>10, SessionSteps DEF Refresh

LEMMA RefreshFailsStep ==
    ASSUME FetchInv, NEW error \in {"loginRejected", "failed"}, RefreshFails(error)
    PROVE  FetchInv'
<1> DEFINE Thrown(c) == [c EXCEPT !.pc = "failing", !.error = error]
           Sessions == [token : Nat \ {0}, invalid : Nat, refreshing : BOOLEAN]
<1>1. /\ client \in [Request -> Client] /\ session \in Sessions
      /\ github \in [issued : Nat \ {0}, valid : Nat] /\ github.valid = github.issued
      /\ session.token <= github.issued
  BY DEF FetchInv, Typed, PageTyped
<1>2. /\ session' = [session EXCEPT !.refreshing = FALSE] /\ github' = github
      /\ client' = [r \in Request |-> IF r \in Waiting THEN Thrown(client[r]) ELSE client[r]]
  BY DEF RefreshFails, Quiet
<1>3. \A c \in Client : /\ Thrown(c) \in Client /\ Thrown(c).pc = "failing"
                        /\ Thrown(c).kind = c.kind /\ Thrown(c).token = c.token
                        /\ Thrown(c).rejected = c.rejected
  BY DEF Client, Errors
<1> HIDE DEF Thrown
<1>4. session' \in Sessions /\ session'.token = session.token
  BY <1>1, <1>2
<1>5. client' \in [Request -> Client]
  BY <1>1, <1>2, <1>3
<1>6. /\ \A r \in Waiting : /\ client'[r].pc = "failing" /\ client'[r].kind = client[r].kind
                            /\ client'[r].token = client[r].token
                            /\ client'[r].rejected = client[r].rejected
      /\ \A r \in Request \ Waiting : client'[r] = client[r]
  BY <1>1, <1>2, <1>3 DEF Waiting
<1>7. ASSUME NEW r \in Request PROVE TokensOf(r)'
  <2>1. CASE r \in Waiting
    BY <1>2, <1>6, <2>1 DEF FetchInv, TokensOf
  <2>2. CASE r \notin Waiting
    <3>1. client'[r] = client[r] /\ client[r].pc # "refresh" /\ dev' = dev
      BY <1>6, <2>2 DEF Waiting, RefreshFails, Quiet
    <3> QED BY <1>2, <3>1 DEF FetchInv, TokensOf, Full, GoogleOnly
  <2> QED BY <2>1, <2>2
<1> QED BY <1>1, <1>2, <1>4, <1>5, <1>6, <1>7, SessionSteps DEF RefreshFails, Quiet

LEMMA OtherTabStep ==
    ASSUME FetchInv, OtherTab
    PROVE  FetchInv'
<1>1. /\ client \in [Request -> Client] /\ github \in [issued : Nat \ {0}, valid : Nat]
      /\ session \in [token : Nat \ {0}, invalid : Nat, refreshing : BOOLEAN]
      /\ session.token <= github.issued
  BY DEF FetchInv, Typed, PageTyped
<1>2. /\ github' \in [issued : Nat \ {0}, valid : Nat] /\ github'.valid = github'.issued
      /\ github'.issued = github.issued + 1
  BY <1>1 DEF OtherTab
<1>3. Typed'
  BY <1>2 DEF FetchInv, Typed, PageTyped, BackendTyped, SopsTyped, OtherTab, routerVars
<1>4. session'.token <= github'.issued
  BY <1>1, <1>2 DEF OtherTab
<1> SUFFICES ASSUME NEW r \in Request
             PROVE  TokensOf(r)' /\ CallsOf(r)' /\ SopsOf(r)' /\ EffectOf(r)'
  BY <1>3, <1>4 DEF FetchInv
<1>5. TokensOf(r)'
  <2>1. client[r].token \in Nat /\ client[r].rejected \in Nat
    BY <1>1 DEF Client
  <2>2. client[r].token <= github.issued /\ client[r].rejected <= github.issued
    BY DEF FetchInv, TokensOf
  <2>3. client[r].token <= github'.issued /\ client[r].rejected <= github'.issued
    BY <1>1, <1>2, <2>1, <2>2
  <2> QED BY <2>3 DEF FetchInv, TokensOf, OtherTab, Full, GoogleOnly
<1>6. CallsOf(r)' /\ EffectOf(r)'
  BY DEF FetchInv, CallsOf, EffectOf, OtherTab, routerVars
<1>7. SopsOf(r)'
  BY DEF FetchInv, SopsOf, InStep, At, Step, OtherTab, routerVars
<1> QED BY <1>5, <1>6, <1>7

-----------------------------------------------------------------------------
(* The invariant.                                                          *)

LEMMA FetchInvInit == Init => FetchInv
<1> SUFFICES ASSUME Init PROVE FetchInv
  OBVIOUS
<1>1. /\ native \in BOOLEAN /\ dev \in BOOLEAN
      /\ client = [r \in Request |-> NotSent] /\ calls = [r \in Request |-> << >>]
      /\ session = [token |-> 1, invalid |-> NoToken, refreshing |-> FALSE]
      /\ github = [issued |-> 1, valid |-> 1]
      /\ server = [r \in Request |-> Idle] /\ answer = [r \in Request |-> NoAnswer]
      /\ performed = [r \in Request |-> 0]
      /\ sops = [r \in Request |-> NoSops] /\ configFile = {}
  BY FetchAssumption DEF Init, FetchInit, RouterInit, SopsInit
<1>2. NotSent \in Client /\ NotSent.pc = "idle" /\ NotSent.token = 0 /\ NotSent.rejected = 0
  BY DEF NotSent, Client, Kind, Errors, NoToken
<1>3. Idle \in Server /\ Idle.steps = << >> /\ Idle.parts = {}
  <2>1. << >> \in AnySteps
    BY Zenon DEF AnySteps
  <2>2. Idle = [kind |-> "fetchRiScs", steps |-> << >>, parts |-> {}]
    BY DEF Idle
  <2> QED BY <2>1, <2>2 DEF Server, Kind
<1>4. NoSops \in Sops /\ NoSops.proc = "none" /\ NoSops.promise = "none" /\ ~NoSops.timer
  BY DEF NoSops, Sops
<1>5. PageTyped /\ session.token <= github.issued
  BY <1>1, <1>2 DEF PageTyped, NoToken
<1>6. BackendTyped
  BY <1>1, <1>3, Answers DEF BackendTyped
<1>7. SopsTyped
  BY <1>1, <1>4 DEF SopsTyped
<1>8. ASSUME NEW r \in Request
      PROVE  TokensOf(r) /\ CallsOf(r) /\ SopsOf(r) /\ EffectOf(r)
  <2>1. /\ client[r] = NotSent /\ calls[r] = << >> /\ server[r] = Idle /\ answer[r] = NoAnswer
        /\ performed[r] = 0 /\ sops[r] = NoSops /\ r \notin configFile
    BY <1>1
  <2>2. TokensOf(r)
    BY <1>1, <1>2, <2>1 DEF TokensOf, NoToken
  <2>3. CallsOf(r)
    BY <1>2, <2>1 DEF CallsOf
  <2>4. SopsOf(r)
    BY <1>4, <2>1 DEF SopsOf
  <2>5. EffectOf(r)
    BY <1>3, <2>1, Answers DEF EffectOf
  <2> QED BY <2>2, <2>3, <2>4, <2>5
<1> QED BY <1>5, <1>6, <1>7, <1>8 DEF FetchInv, Typed

LEMMA FetchInvNext == FetchInv /\ [Next]_vars => FetchInv'
<1> SUFFICES ASSUME FetchInv, [Next]_vars PROVE FetchInv'
  OBVIOUS
<1>1. CASE UNCHANGED vars
  BY <1>1 DEF FetchInv, Typed, PageTyped, BackendTyped, SopsTyped, TokensOf, CallsOf, SopsOf,
              EffectOf, Full, GoogleOnly, InStep, At, Step, vars, fetchVars, routerVars
<1>2. CASE Progress
  <2>1. CASE Renewal
    BY <2>1, RefreshStep, RefreshFailsStep DEF Renewal
  <2>2. ASSUME NEW r \in Request, Prepare(r) PROVE FetchInv'
    BY <2>2, GetProfileStep, GetTokensStep DEF Prepare
  <2>3. ASSUME NEW r \in Request, Transmit(r) PROVE FetchInv'
    BY <2>3, ArriveStep, ServeOutsideStep DEF Transmit
  <2>4. ASSUME NEW r \in Request, Conclude(r) PROVE FetchInv'
    BY <2>4, RetryStep, OnUnreadableStep, OnAnswerStep, CatchStep DEF Conclude
  <2>5. ASSUME NEW r \in Request, Backend(r) PROVE FetchInv'
    BY <2>5, HandleStep DEF Backend
  <2> QED BY <1>2, <2>1, <2>2, <2>3, <2>4, <2>5 DEF Progress
<1>3. CASE Environment
  <2>1. CASE OtherTab
    BY <2>1, OtherTabStep
  <2>2. ASSUME NEW r \in Request, NEW kind \in Kinds[r], Call(r, kind) PROVE FetchInv'
    BY <2>2, FetchAssumption, CallStep
  <2>3. ASSUME NEW r \in Request, LoseRequest(r) \/ LoseAnswer(r) PROVE FetchInv'
    BY <2>3, LoseRequestStep, LoseAnswerStep
  <2>4. ASSUME NEW r \in Request, Process(r, Unsure(r)), UNCHANGED fetchVars PROVE FetchInv'
    BY <2>4, ProcessStep DEF Process, Unsure
  <2> QED BY <1>3, <2>1, <2>2, <2>3, <2>4 DEF Environment
<1> QED BY <1>1, <1>2, <1>3 DEF Next

\* The inductive invariant: what the page, the backend and sops know of each
\* request agree, whatever is lost on the way.
THEOREM FetchInvariant == Spec => []FetchInv
BY FetchInvInit, FetchInvNext, PTL DEF Spec

-----------------------------------------------------------------------------
(* The properties.                                                         *)

\* What is left of the steps is a sequence of steps.
LEMMA StepsAreSeq ==
    ASSUME NEW s \in AnySteps
    PROVE  s \in Seq({"validate", "read", "write", "encrypt", "decrypt", "parts"})
<1>1. CASE s = << >>
  BY <1>1
<1>2. CASE \E k \in Kind : s \in StepsLeft(k)
  <2>1. s \in {<<"read", "decrypt">>, <<"decrypt">>, <<"encrypt", "write">>, <<"write">>,
               <<"validate", "encrypt", "write">>, <<"validate", "read", "encrypt", "write">>,
               <<"read", "encrypt", "write">>, <<"read", "write">>, <<"read", "parts">>,
               <<"parts">>}
    BY <1>2 DEF StepsLeft, Kind
  <2> DEFINE S == {"validate", "read", "write", "encrypt", "decrypt", "parts"}
  <2>2. <<"read", "decrypt">> \in Seq(S) /\ <<"decrypt">> \in Seq(S)
    OBVIOUS
  <2>3. <<"encrypt", "write">> \in Seq(S) /\ <<"write">> \in Seq(S)
    OBVIOUS
  <2>4. <<"read", "encrypt", "write">> \in Seq(S) /\ <<"read", "write">> \in Seq(S)
    OBVIOUS
  <2>5. <<"read", "parts">> \in Seq(S) /\ <<"parts">> \in Seq(S)
    OBVIOUS
  <2>6. <<"validate", "encrypt", "write">> \in Seq(S)
    OBVIOUS
  <2>7. <<"validate", "read", "encrypt", "write">> \in Seq(S)
    OBVIOUS
  <2> QED BY <2>1, <2>2, <2>3, <2>4, <2>5, <2>6, <2>7, Zenon
<1> QED BY <1>1, <1>2 DEF AnySteps

LEMMA TypeFollows == FetchInv => TypeOK
<1> SUFFICES ASSUME FetchInv PROVE TypeOK
  OBVIOUS
<1>1. Typed /\ session.token <= github.issued
  BY DEF FetchInv
<1>2. sops \in [Request -> Sops] /\ configFile \subseteq Request
  BY <1>1 DEF Typed, SopsTyped
<1>3. session.token \in 1..github.issued /\ github.valid = github.issued
  BY <1>1 DEF Typed, PageTyped
<1>4. ASSUME NEW r \in Request
      PROVE  /\ server[r].kind \in Kind /\ server[r].parts \subseteq Part
             /\ server[r].steps \in
                    Seq({"validate", "read", "write", "encrypt", "decrypt", "parts"})
             /\ performed[r] \in Nat
  BY <1>1, StepsAreSeq DEF Typed, BackendTyped, Server
<1>5. ASSUME NEW r \in Request
      PROVE  answer[r].ok => answer[r].status \in {"fine", "partial", "denied"}
  BY <1>1 DEF Typed, BackendTyped, Answer
<1>6. ASSUME NEW r \in Request
      PROVE  /\ client[r].pc \in {"idle", "profile", "tokens", "refresh", "sent", "waiting",
                                  "failing", "done", "dropped"}
             /\ client[r].pc = "refresh" => session.refreshing
             /\ client[r].token \in 0..github.issued
  <2>1. client[r] \in Client /\ github.issued \in Nat
    BY <1>1 DEF Typed, PageTyped
  <2>2. client[r].token <= github.issued /\ (client[r].pc = "refresh" => session.refreshing)
    BY DEF FetchInv, TokensOf
  <2> QED BY <2>1, <2>2 DEF Client
<1> QED BY <1>2, <1>3, <1>4, <1>5, <1>6, Zenon DEF TypeOK, Sops

\* hooks.ts, router.ts, sops.ts: every reachable state is of its type.
THEOREM TypeCorrect == Spec => []TypeOK
BY FetchInvariant, TypeFollows, PTL

\* sops.ts, SopsCryptoService.ts: a request leaves no process, timer or file behind.
THEOREM SopsEnds == Spec => []SopsEndsWithItsRequest
<1>1. FetchInv => SopsEndsWithItsRequest
  <2> SUFFICES ASSUME FetchInv, NEW r \in Request
               PROVE  /\ ~InStep(r) => /\ sops[r].proc \in {"none", "ended", "closed"}
                                       /\ ~sops[r].timer /\ r \notin configFile
                      /\ At(r, "encrypt") /\ sops[r].proc \in {"running", "killed"}
                            => r \in configFile
    BY DEF SopsEndsWithItsRequest, InStep
  <2>1. SopsOf(r) /\ sops[r] \in Sops
    BY DEF FetchInv, Typed, SopsTyped
  <2>2. ~InStep(r) => /\ sops[r].proc \in {"none", "ended", "closed"}
                      /\ ~sops[r].timer /\ r \notin configFile
    BY <2>1, Zenon DEF SopsOf
  <2>3. At(r, "encrypt") /\ sops[r].proc \in {"running", "killed"} => r \in configFile
    <3>1. sops[r].proc \in {"running", "killed"} => sops[r].promise = "pending"
      BY <2>1 DEF SopsOf, Sops
    <3> QED BY <2>1, <3>1, Zenon DEF SopsOf
  <2> QED BY <2>2, <2>3
<1> QED BY <1>1, FetchInvariant, PTL

LEMMA AllPartsAreThere == FetchInv => HasAllParts
<1> SUFFICES ASSUME FetchInv, NEW r \in Request, native, answer[r].status = "fine"
             PROVE  /\ client[r].kind = "initrisc" => answer[r].parts = Part
                    /\ client[r].kind = "gcpCryptoKeys"
                          => answer[r].parts = FirstPage \cap Permitted
  BY DEF HasAllParts
<1>1. client[r].kind \in Compound =>
          answer[r].parts = Asked(client[r].kind) \cap Kept(client[r].kind)
  BY DEF FetchInv, EffectOf
<1> QED BY <1>1 DEF Compound, Asked, Kept

Untouched(r) == server'[r] = server[r] /\ answer'[r] = answer[r]

\* The handler of one request leaves the others alone.
LEMMA HandlesOne ==
    ASSUME Typed, NEW r \in Request, NEW q \in Request \ {r}, Handle(q)
    PROVE  Untouched(r)
<1>1. server \in [Request -> Server] /\ answer \in [Request -> Answer]
  BY DEF Typed, BackendTyped
<1>2. ASSUME NEW a, Send(q, a) PROVE Untouched(r)
  BY <1>1, <1>2 DEF Send, Untouched
<1>3. ASSUME NEW a, Continue(q, a) PROVE Untouched(r)
  BY <1>1, <1>2, <1>3 DEF Continue, Untouched
<1>4. CASE UNCHANGED <<server, answer>>
  BY <1>4 DEF Untouched
<1>5. CASE Failed(q) \/ Denies(q)
  BY <1>2, <1>5 DEF Failed, Denies
<1>6. CASE \E p \in Part : ReadPart(q, p)
  BY <1>1, <1>6 DEF ReadPart, Untouched
<1>7. Validate(q) \/ Read(q) \/ Write(q) => Untouched(r)
  BY <1>3, <1>5 DEF Validate, Read, Write
<1>8. Parts(q) => Untouched(r)
  BY <1>3, <1>5, <1>6 DEF Parts, PartFails
<1>9. StartSops(q) \/ AfterSops(q) => Untouched(r)
  BY <1>3, <1>4, <1>5 DEF StartSops, AfterSops
<1>10. Process(q, Sure(q)) => Untouched(r)
  BY <1>4 DEF Process
<1> QED BY <1>7, <1>8, <1>9, <1>10 DEF Handle

\* Neither does the page, which has nothing to do with a request at work.
LEMMA PageLeavesAlone ==
    ASSUME FetchInv, NEW r \in Request, AtWork(r), [Next]_vars,
           ~(\E q \in Request : Backend(q))
    PROVE  Untouched(r)
<1>1. /\ native /\ answer[r].status = "none" /\ client[r].pc \notin NotYetSent
      /\ server \in [Request -> Server] /\ answer \in [Request -> Answer]
  BY AtWorkFacts DEF Typed, BackendTyped
<1>2. CASE UNCHANGED vars
  BY <1>2 DEF vars, routerVars, Untouched
<1>3. CASE Renewal \/ OtherTab
  BY <1>3 DEF Renewal, Refresh, RefreshFails, OtherTab, Quiet, routerVars, Untouched
<1>4. ASSUME NEW q \in Request, Prepare(q) \/ LoseRequest(q) \/ \E kind \in Kinds[q] : Call(q, kind)
      PROVE  Untouched(r)
  BY <1>4 DEF Prepare, GetProfile, GetTokens, LoseRequest, Call, Quiet, routerVars, Untouched
<1>5. ASSUME NEW q \in Request, Transmit(q)
      PROVE  Untouched(r)
  <2>1. q # r
    BY <1>1, <1>5 DEF Transmit, Arrive, ServeOutside, InTransit, NotYetSent
  <2>2. CASE Arrive(q)
    BY <1>1, <2>1, <2>2 DEF Arrive, Receive, Send, Untouched
  <2>3. CASE ServeOutside(q)
    BY <1>1, <2>3 DEF ServeOutside, Untouched
  <2> QED BY <1>5, <2>2, <2>3 DEF Transmit
<1>6. ASSUME NEW q \in Request, NEW a, answer[q].status # "none", server' = server,
             answer' = [answer EXCEPT ![q] = a]
      PROVE  Untouched(r)
  BY <1>1, <1>6 DEF Untouched
<1>7. ASSUME NEW q \in Request, Conclude(q) \/ LoseAnswer(q)
      PROVE  Untouched(r)
  <2>1. CASE \E threw \in BOOLEAN : Catch(q, threw)
    BY <2>1 DEF Catch, Quiet, routerVars, Untouched
  <2>2. CASE RetryWithNewToken(q)
    BY <1>6, <2>2 DEF RetryWithNewToken, Answered
  <2>3. CASE OnUnreadable(q) \/ \E threw \in BOOLEAN : OnSuccess(q, threw) \/ OnErrorAnswer(q, threw)
    BY <1>6, <2>3 DEF OnUnreadable, OnSuccess, OnErrorAnswer, Consume, Answered
  <2>4. CASE LoseAnswer(q)
    BY <1>1, <2>4 DEF LoseAnswer, Untouched
  <2> QED BY <1>7, <2>1, <2>2, <2>3, <2>4 DEF Conclude
<1>8. ASSUME NEW q \in Request, Process(q, Unsure(q)) PROVE Untouched(r)
  BY <1>8 DEF Process, Untouched
<1> QED BY <1>2, <1>3, <1>4, <1>5, <1>7, <1>8 DEF Next, Progress, Environment

\* The step that waits for sops is left for the next one, or for an answer without
\* reservation, only with what sops has written.
LEMMA UsesOutput ==
    ASSUME FetchInv, [Next]_vars, NEW r \in Request, InStep(r),
           At(r, "write")' \/ answer'[r].status = "fine"
    PROVE  sops[r].proc = "closed" /\ sops[r].exitCode = 0 /\ ~sops[r].timedOut
<1>1. /\ AtWork(r) /\ Step(r) \in {"encrypt", "decrypt"} /\ Typed
      /\ answer[r].status = "none" /\ SopsOf(r)
  BY AtWorkFacts DEF InStep, At, AtWork, FetchInv
<1>2. ~Untouched(r)
  BY <1>1 DEF At, Step, Untouched
<1>3. Handle(r)
  <2>1. PICK q \in Request : Backend(q)
    BY <1>1, <1>2, PageLeavesAlone
  <2> QED BY <1>1, <1>2, <2>1, HandlesOne DEF Backend
<1>4. ~Failed(r)
  <2> SUFFICES ASSUME Failed(r) PROVE FALSE
    OBVIOUS
  <2>1. PICK a \in {Partial, Error("failed")} : Send(r, a)
    BY DEF Failed
  <2>2. a \in Answer /\ a.status \in {"partial", "failed"}
    BY <2>1, Answers DEF Statuses
  <2>3. answer'[r] = a /\ server'[r].steps = << >>
    BY <1>1, <2>1, <2>2, Sends DEF AnswerIs, ServerIs
  <2> QED BY <2>2, <2>3 DEF At
<1>5. AfterSops(r)
  <2>1. ~(Validate(r) \/ Read(r) \/ Write(r) \/ Parts(r))
    BY <1>1 DEF Validate, Read, Write, Parts, ReadPart, At
  <2>2. ~StartSops(r) /\ ~Process(r, Sure(r))
    BY <1>2, <1>4 DEF StartSops, Process, Untouched
  <2> QED BY <1>3, <2>1, <2>2 DEF Handle
<1>6. Succeeded(r)
  BY <1>4, <1>5 DEF AfterSops
<1> QED BY <1>1, <1>6 DEF Succeeded, SopsOf

\* InitRiScService.ts, GcpKmsService.ts, sops.ts: where nothing is reserved, a
\* compound answer has all that it asked for and may hold, and no output of sops
\* is used that may not be all there is.
THEOREM OkAnswersAreWhole == Spec => OkAnswerIsWhole
<1>1. FetchInv /\ [Next]_vars =>
          [\A r \in Request :
              /\ At(r, "encrypt") \/ At(r, "decrypt")
              /\ At(r, "write")' \/ answer'[r].status = "fine"
              => sops[r].proc = "closed" /\ sops[r].exitCode = 0 /\ ~sops[r].timedOut]_vars
  BY UsesOutput DEF InStep
<1>2. Spec => UsesWholeOutput
  BY <1>1, FetchInvariant, PTL DEF Spec, UsesWholeOutput
<1>3. Spec => []HasAllParts
  BY AllPartsAreThere, FetchInvariant, PTL
<1> QED BY <1>2, <1>3 DEF OkAnswerIsWhole

\* hooks.ts: a request takes effect once, and no rejected token is sent again.
THEOREM RetriesAreHarmless == Spec => []RetryIsHarmless
<1>1. FetchInv => RetryIsHarmless
  BY DEF FetchInv, TokensOf, EffectOf, RetryIsHarmless
<1> QED BY <1>1, FetchInvariant, PTL

\* hooks.ts: a caller hears once, or after its own exception that it failed.
THEOREM CallersHearOnce == Spec => []OneCallback
<1>1. FetchInv => OneCallback
  BY Zenon DEF FetchInv, CallsOf, OneCallback
<1> QED BY <1>1, FetchInvariant, PTL

==============================================================================
