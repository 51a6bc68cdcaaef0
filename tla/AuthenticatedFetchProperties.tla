--------------------- MODULE AuthenticatedFetchProperties ---------------------
(***************************************************************************)
(* What the callers of useAuthenticatedFetch, and the operators of the     *)
(* backend, may rely on.                                                   *)
(***************************************************************************)
EXTENDS AuthenticatedFetch

\* Type correctness of the page (hooks.ts), the backend (router.ts) and its
\* processes (sops.ts).
TypeOK ==
    /\ sops \in [Request -> [proc : {"none", "running", "killed", "ended", "closed"},
                             timer : BOOLEAN, timedOut : BOOLEAN, exitCode : {0, 1},
                             promise : {"none", "pending", "resolved", "rejected"}]]
    /\ configFile \subseteq Request
    /\ \A r \in Request :
         /\ server[r].kind \in Kind /\ server[r].parts \subseteq Part
         /\ server[r].steps \in Seq({"validate", "read", "write", "encrypt", "decrypt", "parts"})
         /\ answer[r].ok => answer[r].status \in {"fine", "partial", "denied"}
         /\ client[r].pc \in {"idle", "profile", "tokens", "refresh", "sent", "waiting",
                              "failing", "done", "dropped"}
         /\ client[r].pc = "refresh" => session.refreshing
         /\ client[r].token \in 0..github.issued /\ performed[r] \in Nat
    /\ session.token \in 1..github.issued /\ github.valid = github.issued

\* A request that has left the step for which it started sops leaves nothing
\* behind: the process has ended, whether by itself, by the timer or because it
\* never started, the timer is stopped and the file with the configuration is
\* removed; and no process that encrypts is without that file.
SopsEndsWithItsRequest ==
    \A r \in Request :
        LET inStep == At(r, "encrypt") \/ At(r, "decrypt") IN
        /\ ~inStep => /\ sops[r].proc \in {"none", "ended", "closed"}
                      /\ ~sops[r].timer /\ r \notin configFile
        /\ At(r, "encrypt") /\ sops[r].proc \in {"running", "killed"} => r \in configFile

\* Where a compound request asks one service once for each part, an answer without
\* reservation has everything it asked for, in whatever order the parts came: all
\* templates (InitRiScService.ts:91), and of the projects on the first page of the
\* listing (GcpKmsService.ts:107) exactly those whose key the user may use (:194).
HasAllParts ==
    \A r \in Request :
        Answered(r) /\ native /\ answer[r].status = "fine" =>
            /\ client[r].kind = "initrisc" => answer[r].parts = Part
            /\ client[r].kind = "gcpCryptoKeys" => answer[r].parts = FirstPage \cap Permitted

\* What sops writes is used, to write a file or to answer without reservation, only
\* if all of it has been read: the process ended by itself, without an error, its
\* output was closed, and its time had not run out (sops.ts:57), whichever of these
\* the timer and the events of the process brought first.
UsesWholeOutput ==
    [][\A r \in Request :
         /\ At(r, "encrypt") \/ At(r, "decrypt")
         /\ At(r, "write")' \/ answer'[r].status = "fine"
         => sops[r].proc = "closed" /\ sops[r].exitCode = 0 /\ ~sops[r].timedOut]_vars

\* An answer that says all is well is made of whole results: of every call that
\* was sent beside others (Promise.all), and of all that a process has written.
OkAnswerIsWhole == []HasAllParts /\ UsesWholeOutput

\* A request takes effect at most once, although it may be sent twice and both
\* answers may be lost, and never again with the token that was rejected.
RetryIsHarmless ==
    \A r \in Request :
        /\ performed[r] <= 1
        /\ client[r].pc = "sent" => client[r].token # client[r].rejected \/ ~Full(r)

\* A caller hears once what became of its request; a second time only after its
\* own callback has thrown, and then that it failed.
OneCallback ==
    \A r \in Request :
        /\ Len(calls[r]) <= 2
        /\ Len(calls[r]) = 2 => calls[r][1].threw /\ calls[r][2].what = "error"

\* Every caller hears of its request in the end, although sops may hang, tokens
\* be refused and connections break, unless the profile cannot be read or the
\* rejection of a request without a GitHub token is not handled.
CallersHear ==
    \A r \in Request :
        client[r].pc = "tokens" ~>
            (calls[r] # << >> \/ (client[r].pc = "dropped" /\ GoogleOnly(client[r].kind)))
==============================================================================
