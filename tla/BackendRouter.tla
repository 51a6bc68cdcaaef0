---------------------------- MODULE BackendRouter ----------------------------
(***************************************************************************)
(* The routes of the backend plugin (router.ts) and the services behind    *)
(* them, as far as a request can tell: which tokens it needs, which steps  *)
(* it takes, which of them may fail without failing the request, and what  *)
(* is answered.  What the steps do with the repository is the subject of   *)
(* RiScService.                                                            *)
(***************************************************************************)
EXTENDS Sequences, SopsProcess

CONSTANTS
    Request,   \* the requests of one page
    Part,      \* what a compound request is about: the user's projects, templates
    FirstPage, \* the projects on the first page of their listing, of those that
               \* are asked for their key
    Permitted  \* the projects whose key the user may use

VARIABLES
    server,     \* the request as the backend handles it
    answer,     \* what is on its way back
    performed   \* history: how often the request took effect

routerVars == <<server, answer, performed, sops, configFile>>

Kind == {"fetchRiScs", "difference", "create", "update", "delete", "publish",
         "gcpCryptoKeys", "initrisc", "feedback"}

\* The tokens a route requires.
Need(kind) ==
    CASE kind \in {"publish", "initrisc"} -> {"github"}
      [] kind = "gcpCryptoKeys" -> {"gcp"}
      [] OTHER -> {"gcp", "github"}

\* The steps of a handler, in order.
Steps(kind) ==
    CASE kind \in {"fetchRiScs", "difference"} -> <<"read", "decrypt">>
      [] kind = "create" -> <<"validate", "encrypt", "write">>
      [] kind = "update" -> <<"validate", "read", "encrypt", "write">>
      [] kind = "publish" -> <<"read", "write">>
      [] kind = "delete" -> <<"write">>
      [] kind \in {"gcpCryptoKeys", "initrisc"} -> <<"read", "parts">>

\* A listing or a comparison names what it could not decrypt; a comparison
\* also what it could not read.
Tolerated(kind, step) ==
    \/ step = "decrypt"
    \/ step = "read" /\ kind = "difference"

\* The document is not valid; the RiSc is staged for deletion, or has no draft.
MayDeny(kind, step) ==
    \/ step = "validate"
    \/ step = "read" /\ kind \in {"update", "publish"}

\* One call for each project of the first page, or for each template.  A project
\* without a permission is left out of the answer.
Asked(kind) == IF kind = "gcpCryptoKeys" THEN FirstPage ELSE Part
Kept(kind)  == IF kind = "gcpCryptoKeys" THEN Permitted ELSE Part

------------------------------------------------------------------------------
Idle == [kind |-> "fetchRiScs", steps |-> << >>, parts |-> {}]

\* parts: what a compound answer holds.  An operation that is denied is answered
\* with status 200, or 201, and with what is wrong in the body.
NoAnswer == [ok |-> FALSE, json |-> TRUE, status |-> "none", parts |-> {}]
Fine     == [NoAnswer EXCEPT !.ok = TRUE, !.status = "fine"]
Partial  == [Fine EXCEPT !.status = "partial"]
Denied   == [Fine EXCEPT !.status = "denied"]

\* DomainErrors have a status of their own, any other error is answered 500.
Error(status) == [NoAnswer EXCEPT !.status = status]

\* No route: the answer is a page of HTML.
NotFound == [NoAnswer EXCEPT !.json = FALSE, !.status = "notFound"]

RouterInit ==
    /\ server = [r \in Request |-> Idle]
    /\ answer = [r \in Request |-> NoAnswer]
    /\ performed = [r \in Request |-> 0]
    /\ SopsInit

------------------------------------------------------------------------------
Send(r, a) ==
    /\ answer' = [answer EXCEPT ![r] = a]
    /\ server' = [server EXCEPT ![r] = Idle]

\* The handler is called: a missing token is answered before anything is done.
Receive(r, kind, tokens) ==
    /\ IF kind = "feedback" THEN Send(r, NotFound)
       ELSE IF ~(Need(kind) \subseteq tokens)
            THEN Send(r, Error("AccessTokensValidationFailure"))
       ELSE /\ server' = [server EXCEPT ![r] =
                            [kind |-> kind, steps |-> Steps(kind), parts |-> {}]]
            /\ UNCHANGED answer
    /\ UNCHANGED <<performed, sopsVars>>

Step(r) == Head(server[r].steps)
At(r, step) == server[r].steps # << >> /\ Step(r) = step

\* The next step, or the answer after the last one.
Continue(r, a) ==
    IF Len(server[r].steps) > 1
    THEN /\ server' = [server EXCEPT ![r].steps = Tail(@)]
         /\ UNCHANGED answer
    ELSE Send(r, a)

\* A step that fails ends the request, with an answer that says so.
Failed(r) ==
    Send(r, IF Tolerated(server[r].kind, Step(r)) THEN Partial ELSE Error("failed"))

Denies(r) == MayDeny(server[r].kind, Step(r)) /\ Send(r, Denied)

Validate(r) ==
    /\ At(r, "validate")
    /\ Continue(r, Fine) \/ Denies(r)
    /\ UNCHANGED <<performed, sopsVars>>

Read(r) ==
    /\ At(r, "read")
    /\ Continue(r, Fine) \/ Failed(r) \/ Denies(r)
    /\ UNCHANGED <<performed, sopsVars>>

\* A write may take effect and still be answered with an error, when one of its
\* later calls fails.
Write(r) ==
    /\ At(r, "write")
    /\ \/ /\ performed' = [performed EXCEPT ![r] = @ + 1]
          /\ Continue(r, Fine) \/ Failed(r)
       \/ UNCHANGED performed /\ Failed(r)
    /\ UNCHANGED sopsVars

\* The answer does not wait for the others when one fails.
ReadPart(r, p) ==
    /\ At(r, "parts") /\ p \in Asked(server[r].kind) \ server[r].parts
    /\ server' = [server EXCEPT ![r].parts = @ \cup {p}]
    /\ UNCHANGED <<answer, performed, sopsVars>>

Collected(r) == [Fine EXCEPT !.parts = server[r].parts \cap Kept(server[r].kind)]

\* Mutant of PartFails: the others are answered without the one that failed.
FaultyPartFails(r) == Send(r, Collected(r))

PartFails(r) == Failed(r)

Parts(r) ==
    \/ \E p \in Part : ReadPart(r, p)
    \/ /\ At(r, "parts")
       /\ IF server[r].parts = Asked(server[r].kind) THEN Continue(r, Collected(r))
          ELSE PartFails(r)
       /\ UNCHANGED <<performed, sopsVars>>

\* An invalid token, or key, fails before the process is started.
StartSops(r) ==
    /\ At(r, "encrypt") \/ At(r, "decrypt")
    /\ sops[r].proc = "none"
    /\ \/ Failed(r) /\ UNCHANGED sopsVars
       \/ /\ IF Step(r) = "encrypt" THEN Encrypt(r) ELSE Decrypt(r)
          /\ UNCHANGED <<server, answer>>
    /\ UNCHANGED performed

AfterSops(r) ==
    /\ At(r, "encrypt") \/ At(r, "decrypt")
    /\ CleanUp(r)
    /\ IF Succeeded(r) THEN Continue(r, Fine) ELSE Failed(r)
    /\ UNCHANGED performed

Process(r, A) == A /\ UNCHANGED <<server, answer, performed>>

Handle(r) ==
    Validate(r) \/ Read(r) \/ Write(r) \/ Parts(r) \/ StartSops(r) \/ AfterSops(r)
    \/ Process(r, Sure(r))
==============================================================================
