----------------------------- MODULE SopsProcess -----------------------------
(***************************************************************************)
(* The sops command that encrypts or decrypts one document (lib/sops.ts),  *)
(* and the file with its configuration (SopsCryptoService.ts): one process *)
(* for each task, its timer, and the promise that the task waits for.      *)
(*                                                                         *)
(* A process may end, with or without an error, fail to start, or hang     *)
(* until it is killed.                                                     *)
(***************************************************************************)
EXTENDS Naturals

CONSTANT Task

VARIABLES
    sops,        \* the process of each task
    configFile   \* the tasks whose configuration lies in the temporary directory

sopsVars == <<sops, configFile>>

NoSops == [proc |-> "none", timer |-> FALSE, timedOut |-> FALSE, exitCode |-> 0,
           promise |-> "none"]

SopsInit ==
    /\ sops = [t \in Task |-> NoSops]
    /\ configFile = {}

Set(t, s) == sops' = [sops EXCEPT ![t] = s]

SpawnSops(t) ==
    Set(t, [NoSops EXCEPT !.proc = "running", !.timer = TRUE, !.promise = "pending"])

\* The configuration is written before, and needed as long as the process runs.
Encrypt(t) == SpawnSops(t) /\ configFile' = configFile \cup {t}

Decrypt(t) == SpawnSops(t) /\ UNCHANGED configFile

\* A promise is settled once: later calls of resolve and reject have no effect.
Settle(s, how) == IF s.promise = "pending" THEN how ELSE s.promise

\* 'error': the process never was; 'close' follows.
OnError(t) ==
    /\ sops[t].proc = "running"
    /\ Set(t, [sops[t] EXCEPT !.proc = "ended", !.exitCode = 1, !.timer = FALSE,
                              !.promise = Settle(sops[t], "rejected")])
    /\ UNCHANGED configFile

\* Mutant of Exit: the promise does not wait for the rest of the output.
FaultyExit(t, code) ==
    /\ sops[t].proc \in {"running", "killed"}
    /\ sops[t].proc = "killed" => code = 1
    /\ Set(t, [sops[t] EXCEPT !.proc = "ended", !.exitCode = code, !.timer = FALSE,
                              !.promise = Settle(sops[t], "resolved")])
    /\ UNCHANGED configFile

\* The code of a process that was killed is null, which counts as 1.
Exit(t, code) ==
    /\ sops[t].proc \in {"running", "killed"}
    /\ sops[t].proc = "killed" => code = 1
    /\ Set(t, [sops[t] EXCEPT !.proc = "ended", !.exitCode = code])
    /\ UNCHANGED configFile

\* Mutant of Kill: the promise is rejected and the process left alone.
FaultyKill(s) == [s EXCEPT !.promise = "rejected"]

\* The signal finds the process, or nothing if it has ended.
Kill(s) == IF s.proc = "running" THEN [s EXCEPT !.proc = "killed"] ELSE s

\* Mutant of TimerFires: the process is not killed.
FaultyTimerFires(t) ==
    /\ sops[t].timer
    /\ Set(t, [sops[t] EXCEPT !.timer = FALSE, !.timedOut = TRUE])
    /\ UNCHANGED configFile

TimerFires(t) ==
    /\ sops[t].timer
    /\ Set(t, Kill([sops[t] EXCEPT !.timer = FALSE, !.timedOut = TRUE]))
    /\ UNCHANGED configFile

OnClose(t) ==
    /\ sops[t].proc = "ended"
    /\ Set(t, [sops[t] EXCEPT !.proc = "closed", !.timer = FALSE,
                  !.promise = Settle(sops[t], IF sops[t].timedOut THEN "rejected"
                                              ELSE "resolved")])
    /\ UNCHANGED configFile

\* What the task reads when its promise is settled.
Settled(t)   == sops[t].promise \in {"resolved", "rejected"}
Succeeded(t) == sops[t].promise = "resolved" /\ sops[t].exitCode = 0

\* finally: the file is removed whatever became of the process.  The task has
\* read the promise; a process that still runs, or has to close, goes on.
CleanUp(t) ==
    /\ Settled(t)
    /\ configFile' = configFile \ {t}
    /\ Set(t, IF sops[t].proc = "closed" THEN NoSops
              ELSE [NoSops EXCEPT !.proc = sops[t].proc, !.timer = sops[t].timer])

\* Without these the process may hang; only the others are sure to happen.
Unsure(t) == OnError(t) \/ \E code \in {0, 1} : Exit(t, code)
Sure(t)   == TimerFires(t) \/ OnClose(t) \/ (sops[t].proc = "killed" /\ Exit(t, 1))
==============================================================================
