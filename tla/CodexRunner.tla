----------------------------- MODULE CodexRunner -----------------------------
(***************************************************************************)
(* The detached worker process of a Codex job: the `_codex_runner` entry   *)
(* point of overmind_v2/providers.py, one process per job.                 *)
(*                                                                         *)
(* The broker starts the process (CodexProvider.launch), then writes the   *)
(* state file that names its pid; the process waits for that file, runs    *)
(* `codex exec`, and rewrites the file with the outcome.  It runs in a     *)
(* session of its own, so it survives the broker; the state file is all    *)
(* the broker ever learns from it.                                         *)
(*                                                                         *)
(* The module holds no specification of its own: OvermindBroker composes   *)
(* these steps with the broker's.                                          *)
(***************************************************************************)
EXTENDS OvermindJobs, Naturals

CONSTANT RunnersDie   \* may a runner end without recording an outcome?

ASSUME RunnersDieAssumption == RunnersDie \in BOOLEAN

VARIABLES
  runner,        \* phase of each job's runner process
  stateFile,     \* contents of codex-state.json: its "state" member, or "missing"
  interrupted,   \* the runner's nonlocal `interrupted` flag
  spawns         \* history: how many times a runner was started for the job

runnerVars == <<runner, stateFile, interrupted, spawns>>

\* "booting" waits for the state file, "preparing" has no SIGTERM handler yet,
\* "executing" has the handler and the child, "recording" has put the default
\* handler back, "exiting" has written the outcome.
RunnerPhases == {"absent", "booting", "preparing", "executing", "recording",
                 "exiting", "dead"}

ReportedOutcomes == {"succeeded", "failed", "interrupted"}

FileStates == {"missing", "starting", "running"} \cup ReportedOutcomes

RunnerTypeOK ==
  /\ runner \in [Jobs -> RunnerPhases]
  /\ stateFile \in [Jobs -> FileStates]
  /\ interrupted \in [Jobs -> BOOLEAN]
  /\ spawns \in [Jobs -> Nat]

RunnerInit ==
  /\ runner = [j \in Jobs |-> "absent"]
  /\ stateFile = [j \in Jobs |-> "missing"]
  /\ interrupted = [j \in Jobs |-> FALSE]
  /\ spawns = [j \in Jobs |-> 0]

\* process_matches: the recorded pid still runs under its recorded identity.
ProcessMatches(j) == runner[j] \notin {"absent", "dead"}

-----------------------------------------------------------------------------
(* What the broker does to a runner. *)

\* subprocess.Popen of the runner.
Spawn(j) ==
  /\ runner' = [runner EXCEPT ![j] = "booting"]
  /\ spawns' = [spawns EXCEPT ![j] = @ + 1]
  /\ UNCHANGED <<stateFile, interrupted>>

\* atomic_json(provider_state, {"state": "starting", ...}).
WriteStartingFile(j) ==
  /\ stateFile' = [stateFile EXCEPT ![j] = "starting"]
  /\ UNCHANGED <<runner, interrupted, spawns>>

\* SIGTERM: `stop_child` while the handler is installed, else the default
\* action, which ends the process.
Terminate(j) ==
  /\ IF runner[j] = "executing"
       THEN /\ interrupted' = [interrupted EXCEPT ![j] = TRUE]
            /\ UNCHANGED runner
       ELSE /\ runner' = [runner EXCEPT ![j] = "dead"]
            /\ UNCHANGED interrupted
  /\ UNCHANGED <<stateFile, spawns>>

-----------------------------------------------------------------------------
(* The runner's own steps. *)

\* The state file names this process: take it over.
Handshake(j) ==
  /\ runner[j] = "booting"
  /\ stateFile[j] = "starting"
  /\ runner' = [runner EXCEPT ![j] = "preparing"]
  /\ stateFile' = [stateFile EXCEPT ![j] = "running"]
  /\ UNCHANGED <<interrupted, spawns>>

\* Five seconds passed before the process saw its own pid in the file.
HandshakeTimeout(j) ==
  /\ RunnersDie
  /\ runner[j] = "booting"
  /\ runner' = [runner EXCEPT ![j] = "dead"]
  /\ UNCHANGED <<stateFile, interrupted, spawns>>

InstallHandler(j) ==
  /\ runner[j] = "preparing"
  /\ runner' = [runner EXCEPT ![j] = "executing"]
  /\ UNCHANGED <<stateFile, interrupted, spawns>>

\* The codex child ended and the previous SIGTERM disposition is back.
ChildExits(j) ==
  /\ runner[j] = "executing"
  /\ runner' = [runner EXCEPT ![j] = "recording"]
  /\ UNCHANGED <<stateFile, interrupted, spawns>>

RecordedOutcomes(j) ==
  IF interrupted[j] THEN {"interrupted"} ELSE {"succeeded", "failed"}

\* The final atomic_json of the outcome.
RecordOutcome(j) ==
  /\ runner[j] = "recording"
  /\ \E outcome \in RecordedOutcomes(j) :
       stateFile' = [stateFile EXCEPT ![j] = outcome]
  /\ runner' = [runner EXCEPT ![j] = "exiting"]
  /\ UNCHANGED <<interrupted, spawns>>

ExitRunner(j) ==
  /\ runner[j] = "exiting"
  /\ runner' = [runner EXCEPT ![j] = "dead"]
  /\ UNCHANGED <<stateFile, interrupted, spawns>>

\* The process is killed, or an exception ends it before it records anything.
KillRunner(j) ==
  /\ RunnersDie
  /\ runner[j] \in {"booting", "preparing", "executing", "recording"}
  /\ runner' = [runner EXCEPT ![j] = "dead"]
  /\ UNCHANGED <<stateFile, interrupted, spawns>>

\* Steps a live runner is bound to take, if it is scheduled and codex ends.
RunnerProgress(j) ==
  \/ Handshake(j)
  \/ HandshakeTimeout(j)
  \/ InstallHandler(j)
  \/ ChildExits(j)
  \/ RecordOutcome(j)
  \/ ExitRunner(j)

RunnerStep(j) == RunnerProgress(j) \/ KillRunner(j)

=============================================================================
