# A TLA+ verification of OrchestratoRRR

OrchestratoRRR runs an unattended chain of game automations on Windows: it
starts a MuMu Android emulator, lets StarRailCopilot, MAA, MaaFgo or BetterGI
do their work one after the other, and shuts everything down again. This
directory models the program's control, checks the models with TLC and proves
the central theorems with TLAPS. Paths below are relative to
`src/autogame_orchestrator/` in the repository, unless they start with `docs/`
or name `README.md`.

Contents: [the system](#1-the-system) · [modules](#2-modules-and-the-code-they-model) ·
[runs](#3-the-runs) · [divergences](#4-where-the-code-and-its-documents-disagree) ·
[bounds](#5-bounds) · [fairness](#6-fairness) · [proofs](#7-proofs) ·
[assumptions](#8-assumptions-and-what-is-left-out) · [plan](#9-plan)

## 1. The system

One calling thread runs a *plan*, a list of stages. The `WorkflowRunner` walks
it; at each stage it asks a factory for an executor; the executor uses a
*runtime adapter*; the adapter launches processes through the supervisor, asks
the ADB server, or reads and writes files. A cancellation token (set by the
SIGINT handler or the caller) and nested deadlines cut through all layers. The
concurrency is therefore not between threads of the program but between that
thread and everything it does not control: child processes and their trees, the
emulator, the ADB server, log files other programs write, configuration files
the user saves, the clock and the token.

| Component | State it keeps | Operations | Talks to | What makes it hard | What makes it correct |
|---|---|---|---|---|---|
| Workflow runner (`workflow/runner.py`, `workflow/contracts.py`) | ledger of stage reports, top-level status and error, stop flag, cleanup report | `run`: stage boundary, executor call, validation, report write | executors (factory), token, deadline, report sink | cancel or expiry between any two steps, cleanup stages exempt from the stop and the deadline, two modes | the verdict is honest, nothing runs unjustified, nothing starts after a cancel |
| Execution plans (`planning.py`, `workflow/plan.py`, `.../dependencies.py`) | none | build a plan, attach dependencies, choose cleanup stages, validate | runner, run entry | options that edit the same list in turn | every plan that can be built is one a run accepts |
| Production executors (`workflow/production/*.py`) | `ProductionWorkflowState`: reached, cleaned, owned, contract | one executor per stage, gates, `failure_cleanup_required` | runner, all adapters | ownership after a half-failed start, gates that rely on what an adapter reported | one automation at a time, what was taken over is shut down |
| Failure notification (`failure_notification.py`) | none | choose the stage that the dialog names | run report | several failures in one report | the dialog names the cause |
| Launcher and supervisor (`process/launcher.py`, `process/supervisor.py`) | registry of processes, handles, closed flag | launch, wait, run, stop, close | Win32, token, deadline | every call may fail half-way; a process may end at any moment; descendants | no process outside a job, no tree survives its release, a result means what adapters read into it |
| Deadlines and cancellation (`process/deadline.py`, `process/cancellation.py`) | an instant, a flag | clamp, expire, cancel | everything | fires between a check and a use | every call returns |
| ADB client and readiness probe (`probes/*.py`) | one ADB client per call (`_server_ensured`) | probe, ensure_ready, connect, recycle | ADB server, emulator | five commands while the instance moves; a server that forgets | an answer holds at the moment it is given |
| MuMu adapter (`runtime/mumu.py`) | locals of the wait loop | status, ensure_external_ready, start, stop, restart | probe, manager command, ADB | orders that are obeyed late or never, offline transports, nested deadlines | results are true, recovery is bounded |
| StarRail adapter and log tracker (`runtime/starrail*.py`) | snapshot, cursor, rolling text | run: poll the log, stop the process | supervisor, files of a foreign program | rotation, stale lines, foreign logs, exit | completed means a success line of this run |
| MAA configuration sync (`maa_sync/synchronizer.py`) | two files and backups | read, transform, write two files | GUI files | crash between two replaces, rollback | the pair is old or new, and never lost |
| MAA update (`maa_update/`) | attempts, stalls, progress | update, retry | MAA adapter, cache directory | progress that is not progress | retries are earned |
| MAA resource merge (`maa_resource/merger.py`) | none between runs | scan, compare, copy | two directories | stops between two copies | MAA loads a consistent set |
| MaaFgo adapter, run contracts, FGO app (`runtime/maafgo.py`, `maafgo_*.py`, `runtime/fgo_app.py`, `scripts/maafgo-orr-agent/`) | profile, run directory with expected tasks and artifact | prepare, run, judge the artifact, force-stop, look | supervisor, profile of the user, a reporter inside the tool, ADB | the tool exits with 0 whatever happened, artifacts of earlier runs lie about, the user edits | success only by evidence of this run, a verified stop is true |
| BetterGI adapter (`runtime/bettergi*.py`) | cursors, evidence, job | run: poll, read the logs, empty the job | supervisor, logs shared with other instances | events half written, last words before the exit, midnight, a job that does not empty | completion is proven and never lost, cleaned means empty |
| MAA and AALC adapters | per call | run | supervisor | like StarRail's | results say whether the process is gone |
| Run entry and elevation (`cli.py`, `default_entry.py`, `run_application.py`, `workflow/coordinator.py`, `platform/windows_elevation.py`) | none between calls; a second, elevated process | run, start: preflight, relaunch, wait, exit code | runner, Windows, the user's Ctrl+C | two processes, one workflow; an exit code that stands for another process's run | one workflow with the rights it needs, an honest exit code |
| Reports and logs, configuration, diagnostics | files | write, validate, load | the system | I/O | see [section 8](#8-assumptions-and-what-is-left-out) |

`PROJECT.json` lists each component with its sources and how far it is modelled,
and every hazard of the code with its line and the property that covers it.

## 2. Modules and the code they model

```
                         RunEntry
                            |
RunContract <------ WorkflowRunner <------ ProductionWorkflow ----> ExecutionPlan

Emulator <-- ReadinessContract <------ AdbReadiness
       ^---- EmulatorCalls <--------- AdbReadiness, MumuRuntime

PairCommit <------ MaaSync

ProcessLifecycle   StarrailRun   MaaResources   MaaFgoRun   BetterGIRun

proofs: WorkflowProofs (WorkflowRunner, RunEntry, ProductionWorkflow)
        MumuProofs (MumuRuntime, AdbReadiness)   ProcessLifecycleProofs
        StarrailProofs    MaaSyncProofs          MaaResourcesProofs
        MaaFgoProofs      BetterGIProofs
```

An arrow from a detailed module to `RunContract`, `ReadinessContract` or
`PairCommit` is a refinement (`INSTANCE ... WITH`); the others are `EXTENDS`.
`MCRunEntry`, `MCProduction`, `MCProcessLifecycle` and `MCMaaFgoRun` give the
constants that a `.cfg` cannot; the other modules are checked as they stand.

**RunContract** says what a reader of the run report may rely on: one outcome
per stage, in plan order and for good, then a verdict that the outcomes justify.

**WorkflowRunner** is `WorkflowRunner.run`. `reports`, `topStatus`, `topError`,
`stopped` and `cleanup` are the loop's locals; `wf` is what the constructor got.
The branches of a stage boundary are one action each, in the code's order:
`SkipStopped`, `ObserveCancel`, `ObserveExpiry`, `SkipBlocked`, `Admit`. An
admitted stage has passed its checks (lines 146-174) and has not been called yet:
`FactoryFails` and `Execute` (183-218) are steps of their own, between which and
the checks the SIGINT handler can set the token and the deadline can pass, and
nobody looks again. `Return` is `_validate_stage_report` and the bookkeeping after
it and `WriteReport` the report sink. `Cancel` and `Expire` happen at any moment;
`begun` is history: how many stages had been reported or were in hand when the
token was cancelled.

**RunEntry** extends the Runner by what is around it: the commands `run` and
`start` (`command`), their preflight, the elevation decision of
`WorkflowCoordinator`, the second process that a relaunch starts (`at`,
`exitCode` and `elevated` are functions of the process), the wait for it,
Ctrl+C in either console (`interrupts`) and `map_run_exit_code`. `ran` and
`lost` are history: who constructed a Runner, and whether the wait failed. Each
of its steps is a step of the Runner or leaves it alone, but for the token,
which a Ctrl+C before the Runner starts may have set.

**ExecutionPlan** holds the static plans, `build_execution_plan`,
`production_stage_dependencies`, the cleanup stages and `validate_external_plan`
as operators.

**ProductionWorkflow** extends the Runner: each of its steps is a Runner action
conjoined with what the stage's executor does to `ProductionWorkflowState`
(`state`) and to the machine (`mumuUp`, `alive`, `fgoApp`). An adapter is
its result and its effect. `ours` is a history variable: this run started or
adopted the instance.

**ProcessLifecycle** is `launcher.launch` and `ProcessSupervisor`, one action
per Win32 call that may fail. For each process it keeps the state of the root
process, of its children, job membership and the open handles. A termination
*condemns* a process; it ends later. `WaitFails`, `StopRaises`, `Interrupt` are
the exceptional exits, each with what it leaves behind.

**Emulator** describes the instance and its entry in the ADB server and which
answers it justifies; **EmulatorCalls** what a probe and an operation of the
adapter share, a token, a deadline and the glitches. **ReadinessContract** is a probe that looks once;
**AdbReadiness** is the real one: port, server, device list, state, boot
property, one command at a time, while instance, server, transport, token and
clock move.

**MumuRuntime** is `MumuAdapter`. Each answer of a probe is one step, which is
what `AnswersAtomically` in the run `adb_readiness` licenses. `wait` is the set
of locals of `_wait_readiness`; `ordered` splits a manager command into its
order, which may be obeyed whatever becomes of the process that gave it, and its
end.

**MaaSync** is the transaction of `MAASynchronizer.run`, one action per file
operation and per control check; **PairCommit** is the atomic commit it is meant
to be. **StarrailRun** is the polling loop with discovery, rotation, offsets and
the read limit. **MaaResources** is the updater's retry loop, the merge and the
launch of MAA across workflow runs that fail and crash.

**MaaFgoRun** is `PREPARE_MAAFGO_RUN`, `RUN_MAAFGO` and `STOP_FGO` in turn.
`profile` is the file a user edits, `runDirs` what `MaaFgoRunContract.create`
makes and what an earlier run has left, `r` the locals of `MaaFgoAdapter.run`,
`child` the command line with the reporter and the agent that
`scripts/maafgo-orr-agent` puts inside the tool, `app` the game. The tool's own
steps (`ToolStep`) run beside the adapter; what it may do is taken from those
scripts. `seen` is history: the tasks that ran, and which persists failed.

**BetterGIRun** is `BetterGIAdapter.run`. A log is a sequence of header and body
lines; `cursors` and `evidence` are `_Cursor` and `Evidence`, `pc` goes through
poll, read, judge and the three steps of the cleanup. `wrote` is history: the
tool's complete events. Its module of proofs ties the three together.

## 3. The runs

| Run | Checks | Shows |
|---|---|---|
| `runner_core` | `VerdictIsHonest`, `ExecutionIsJustified`, `CleanupFailureIsKept`, `VerdictOnlyWorsens`, `CancelIsHonoured`, `ImplementsContract`, `OneWorkflow`, `ExitCodeIsHonest`, `ExitCodeNamesTheCause` | Under `run` and `start`, elevated or not, whatever executors, clock, caller and child do, the Runner reports an honest verdict, executes nothing unjustified and implements `RunContract`; a cancellation costs at most the stage in hand and decides how the run ends; one process runs the workflow, and the exit code says what became of it. Deadlock is checked: no command gets stuck before it has exited. |
| `production_workflow` | `ExclusiveEmulator`, `ShutdownReached`, `SuccessLeavesNothingRunning`, `DialogNamesTheCause`, `PlanAccepted` | Over every plan the options build and both modes, two automations never share the emulator, an emulator taken over is asked to shut down (with the exceptions the property names), and a success leaves nothing running. |
| `process_lifecycle` | `NothingRunsUnboxed`, `ReleasedTreesDie`, `RegistryOwnsHandles`, `CleanedMeansCondemned`, `SurvivorsOutliveRelease` | Whichever Win32 calls fail, nothing runs outside a job and no managed tree survives its release unless its spec says so. |
| `adb_readiness` | `AnswersAtomically`, `EnsureReconnects` | The many commands of a probe answer as one look at the end of the call would, and `ensure_ready` gets a forgotten device back. |
| `mumu_runtime` | `UnchangedMeansUntouched`, `BoundedRecovery`, `StopIsConfirmed`, `WaitEnds` | A stop is true when it is reported, `changed=False` of a start means that nothing was ordered, recovery is bounded, and a wait for a steady instance ends. |
| `maa_sync` | `OriginalSurvives`, `CommitsAtomically`, `RerunRepairs` | The two files are replaced as one and the verdict says which pair is there; a torn pair, after a crash or a failed rollback, is repaired by the next undisturbed run. |
| `starrail_run` | `CompletionIsFresh`, `SuccessIsNoticed` | A completion rests on a success line of this run, through rotations and foreign logs, and a success that nothing disturbs is noticed. |
| `maa_resources` | `LoadsMerged`, `RetriesAreEarned` | MAA loads one consistent set of resources whatever failed before; the updater is retried only while its downloads get further than they ever were. |
| `maafgo_run` | `SuccessIsEarned`, `DriftIsCaught`, `RefusalIsJustified`, `ResultsAreConstructible`, `VerifiedStopIsDown` | `RUN_MAAFGO` succeeds only when each task of this run's contract succeeded in this run's tool, names the cause when it refuses, and always gets a result past `__post_init__`; a verified stop of the game holds. |
| `bettergi_run` | `SuccessIsProven`, `NothingIsLost`, `CleanedMeansGone` | A completion is proven by events of the launched instance, no proof is lost to the exit or a half-read event, and a cleaned result means an empty job. |
| `launcher_cleanup`, `stopped_means_down` | one property each, violated | See the next section. |

The type invariants are not among the runs' properties: they are parts of the
inductive invariants that section 7 proves.

Every property of a passing run has a mutant in `PROJECT.json`: a plausible
mistake in one mapped definition, under which TLC finds the property violated.
The operators marked `\* mutant` in the modules are those mistakes; no action
refers to them.

Three properties carry the composition, and each is proved. `MumuRuntime` uses a
probe as one step, which `AnswersAtomically` justifies. `ProductionWorkflow` decides ownership by
`TakenOver` (success, or `changed`), which is right because of
`UnchangedMeansUntouched`; and it takes `cleaned` to mean that the automation
is gone, as `StarrailRun` and `MaaResources` do, which is what
`CleanedMeansCondemned` says of a supervisor's result (of the root process; its
tree is the subject of `ReleasedTreesDie`) and `CleanedMeansGone` of BetterGI's job. `RunEntry` and `ProductionWorkflow` are both compositions with the
same Runner, and theorems make every run of either a run of it.

## 4. Where the code and its documents disagree

- `launcher_cleanup`. The docstring of `launch` (`process/launcher.py:76`) says
  that a failure at any step cleans up. Output files stay open when the second
  file or `CreateProcess` fails, and a process that was created suspended is not
  terminated when its job cannot be made or assigned.
- `stopped_means_down`. Comments in `runtime/mumu.py:153` and `:888-891` take
  `PORT_CLOSED` as the evidence of a stopped instance. An instance that was just
  launched has its port closed too; `stop` then reports `STOPPED` with no order
  (`runtime/mumu.py:159`), and the instance comes up.

Where a property states an exception, the code does what the exception says.
Those that a reader of the documents would not expect:

- `ShutdownReached`: `README.md:73` promises one bounded `SHUTDOWN_MUMU` for a
  managed instance when a stage fails or times out. With `continue_on_failure`
  nothing counts as failure cleanup, so a workflow deadline that passes before
  `SHUTDOWN_MUMU` makes the Runner record `TIMEOUT` at its boundary
  (`workflow/runner.py:160`) without calling it.
- `VerdictOnlyWorsens`: `README.md:272` and
  `docs/acceptance/2026-08-17-managed-mumu-device-offline-recovery.md:82` say
  that cleanup never replaces the original failure. A cancellation observed at
  the boundary of a cleanup stage does (`workflow/runner.py:155`).
- `CancelIsHonoured`: a cancellation between the check of the token
  (`workflow/runner.py:155`) and the call (218) does not keep the executor from
  being called. With the caller's token it can notice at once; a cleanup stage gets
  a fresh token (207) and its own deadline, so it runs to its end. The next
  boundary sees the cancellation. If there is none, because the last stage before
  the report was in hand and did not answer `CANCELLED`, the verdict does not
  show it.
- `ExitCodeNamesTheCause`: with `continue_on_failure` a deadline found expired at
  a boundary replaces the earlier error, so that the command ends with 4.
- `ExitCodeIsHonest`, `OneWorkflow`: a `WaitForSingleObject` or
  `GetExitCodeProcess` that fails ends the command with 10 although the child
  may go on; `start` has no SIGINT handler, so a Ctrl+C ends it with an unhandled
  `KeyboardInterrupt`, without cleanup and report; and a process that waits for
  its elevated child sees a Ctrl+C only afterwards and does not pass it on.
  `start` also uses 3, the code of a failed workflow, for a failed environment
  check.
- `VerifiedStopIsDown`: `adb` ends with 1 and no output when it has lost the
  device, which `_verify_stopped` (`runtime/fgo_app.py:169`) reads like a `pidof`
  that found no process.
- `DriftIsCaught`, `RefusalIsJustified`: the reporter swallows a failing persist
  (`scripts/maafgo-orr-agent/orr_reporter.py:173`); its comment, that a stale
  artifact fails closed, is true of what the artifact lacks and not of what
  happened after the last persist that succeeded.
- `NothingIsLost`: an event is over when the next header follows in the same
  file, so the last one of a log waits there when the day changes, and the order
  of a completion over midnight may be lost.

Three smaller ones: `docs/architecture.md:101` says that `adb start-server` is not
called explicitly, which `ensure_server` does; the docstring at
`runtime/mumu.py:871` accepts a device that disappears as stopped, which the code
does not; and the digest of a MaaFgo contract covers the names and entries of the
tasks, not their options.

## 5. Bounds

| Run | Instance | Why it is enough |
|---|---|---|
| `runner_core` | one plan of six stages with a dependency, two cleanup stages; both modes, both commands, either process with rights or without; the constructor's other plans are covered by the proofs | a failure before, at and between cleanup stages, and one cleanup stage after another, all happen, in the first process and in its child |
| `production_workflow` | every combination of the options, both modes, `stop_game_on_exit` on and off; `MaxFaults = 3` failed or timed-out stages chosen freely (failures that the state forces, and skips, are not counted) | three faults are enough for a failed automation, a failed stop and a failed cleanup in one run, the longest chain any property relates |
| `process_lifecycle`, `launcher_cleanup` | two processes, one of them with `descendants_survive_close` | the supervisor treats processes independently except for `close`, which walks over both |
| `adb_readiness` | `MaxFlakes = 2` failing commands, lost transports or server deaths; the instance's power changes are unbounded | a failure before and one after a connect |
| `mumu_runtime` | `MaxFlakes = 2`, `SocketErrors = TRUE`; `stopped_means_down` has `MaxFlakes = 1` and honest sockets | a transport lost before and after the recycle, or a command and a probe failing in one call |
| `maa_sync` | two versions, one save in the GUI, `MaxFaults = 2` failures or crashes, any number of runs | a failure and a failing rollback, or two crashes in a row |
| `starrail_run` | two matching names, three lines per file, a read limit of two lines, `MaxFlakes = 1` rotation, foreign write or failing operation | a stale line, a fresh one and one more; the limit is reached |
| `maa_resources` | two files, two versions, two partial files of size one, one write of the updater, one fault; two stalled attempts for the code's five; any number of runs | one file copied and the other not, with either version; all progress used up |
| `maafgo_run` | four profiles of up to three tasks (one refused by the policy, one that adds a task, one that names a task twice), `MaxEdits = 1`, `MaxFaults = 1`; any artifact of an earlier run | an edit after the contract, or a persist that fails, or a close that fails, each with every order of the tool's steps; two faults in one call only lengthen the same chains |
| `bettergi_run` | `MaxEvents = 3` of the tool, `MaxFaults = 2` among failing calls, foreign events and midnight; the proofs have no bound | a configuration, its completion and a failure written just before the exit, with a second log |

`MaxAttempts = 7` in `maa_resources` is above the six attempts that two partial
files can earn, so that `RetriesAreEarned` is not true because of the cap;
`Interval = 2` stands for the merger's control check before every 64th file,
so that some copies are made without one.

## 6. Fairness

Every fairness condition is about the one calling thread: it goes on to its next
step (`WF` on `ProbeStep`, `RuntimeStep`, `SyncStep`, `AdapterStep` of
`StarrailRun`), because nothing it does blocks without a time limit. In
`MumuRuntime` also the three-second grace and cooldown end (`GracePasses`,
`CoolsDown`). Nothing is assumed of processes, the emulator, the tools, the
token, or of deadlines: `WaitEnds` holds although no deadline need ever pass.
The theorems about liveness state the same without `ENABLED`, which the provers
cannot expand: the thread is idle again and again or takes a step again and
again (`ThreadGoesOn`, which `WF` implies because a call that is not idle always
has a step). A wait of the MuMu adapter may have none while it pauses or cannot
become ready, which `WaitGoesOn` allows for; `PausesEnd` says that neither pause
lasts.

`EnsureReconnects`, `WaitEnds`, `RerunRepairs` and `SuccessIsNoticed` assume that
the world stands still from some moment on (`Undisturbed`, `Steady`, `Quiet`),
since an adversary that interferes forever defeats any retry; the moment itself
is any reachable one.

The Runner itself needs no fairness: what an executor does is not its own, and
the deadlock check covers its share of liveness, because each of its steps but
`Admit`, `Execute` and `Done` lengthens the report, which the plan bounds, and
those two lead on to a report within the same stage. The other
modules have safety properties only and assume no fairness. Deadlock is checked
in `runner_core`, `production_workflow`, `maa_resources`, `maafgo_run` and
`bettergi_run`, whose only stuttering step is the end of the run (`Done`, `Over`):
no call stops half-way. The other runs turn the check off, because once a call
has returned the world around it may have nothing left to do.

## 7. Proofs

The theorems hold for every value of the constants under the assumptions below,
which TLC evaluates on each run:

- `WorkflowsAssumption`: what the constructor of `WorkflowRunner` checks, a plan
  of at least two distinct stages that begins with `VALIDATE_CONFIG` and ends with
  `WRITE_RUN_REPORT`, dependencies that point to earlier stages, a Boolean mode;
- `ProductionAssumption`, for the production run only: the order of the
  automations, stops that are cleanup and follow their automation, a managed
  start with its `SHUTDOWN_MUMU`, `RUN_MAAFGO` with its `STOP_FGO`, which comes
  before the shutdown. `PlansAreLawful` proves it, and `WorkflowsAssumption`, of
  every plan that `ExecutionPlan` builds; the theorems speak of those and of any
  other plan of that shape;
- `ProcsAssumption`, `NamesAssumption`, `NoFileAssumption`, `ProfilesAssumption`:
  the processes that may survive are processes, `NoProc` and `NoFile` are nobody
  else's values, a merge has finitely many files, a profile is a non-empty
  sequence;
- `BoundsAssumption`, `LimitsAssumption`: the bounds are natural numbers. No
  theorem depends on how large they are. `SocketErrorsAssumption`: sockets that
  fail on their own are admitted or not.

| Module | Theorems | Property of the runs |
|---|---|---|
| WorkflowProofs, the Runner | `IInvIsInvariant`, `TypeCorrect`, `HonestVerdict`, `JustifiedExecution`, `CleanupFailureStays`, `VerdictNeverImproves`, `CancelHonoured`, `Implementation` | `VerdictIsHonest`, `ExecutionIsJustified`, `CleanupFailureIsKept`, `VerdictOnlyWorsens`, `CancelIsHonoured`, `ImplementsContract` |
| WorkflowProofs, the commands | `EInvIsInvariant`, `OneRun`, `EntryIsRunner`, `EntryKeepsContract`, `HonestExitCode`, `ExitCodeCause` | `OneWorkflow`, `ExitCodeIsHonest`, `ExitCodeNamesTheCause`, and those of the Runner under its commands |
| WorkflowProofs, production | `ProductionIsRunner`, `ProductionKeepsContract`, `OneAutomation`, `OwnedIsShutDown`, `NothingIsLeftRunning`, `DialogCause` | `ExclusiveEmulator`, `ShutdownReached`, `SuccessLeavesNothingRunning`, `DialogNamesTheCause` |
| WorkflowProofs, the plans | `PlansAreLawful`, `PlansPassTheGate` | `PlanAccepted`, and the assumptions of the other two |
| MumuProofs | `TypeCorrect`, `HonestChange`, `RecoveryIsBounded`, `ConfirmedStop`, `SteadyWaitEnds`, `OneLook`, `Reconnection` | all of `mumu_runtime` and `adb_readiness` |
| StarrailProofs | `TypeCorrect`, `FreshCompletion`, `SuccessCompletes` | `CompletionIsFresh`, `SuccessIsNoticed` |
| ProcessLifecycleProofs | `IInvIsInvariant`, `TypeCorrect`, `RunsBoxed`, `NoTreeEscapes`, `RegistryIsExact`, `CleanedIsCondemned`, `SurvivorsSurvive` | all of `process_lifecycle` |
| MaaSyncProofs | `IInvIsInvariant`, `TypeCorrect`, `NothingIsOverwrittenUnsaved`, `AtomicCommit`, `Repair` | all of `maa_sync` |
| MaaResourcesProofs | `IInvIsInvariant`, `TypeCorrect`, `ConsistentResources`, `EarnedRetries` | `LoadsMerged`, `RetriesAreEarned` |
| MaaFgoProofs | `IInvIsInvariant`, `EarnedSuccess`, `DriftCaught`, `JustifiedRefusal`, `ConstructibleResults`, `StoppedForGood` | all of `maafgo_run` |
| BetterGIProofs | `IInvIsInvariant`, `ProvenSuccess`, `NoProofIsLost`, `CleanedJobIsGone` | all of `bettergi_run` |

*The Runner.* `VerdictIsHonest` speaks of the end of a run only and is not
inductive: the final verdict is copied from `topStatus`, which must have agreed
with the ledger all along. `IInv` adds this agreement (`topStatus` is `SUCCESS`
exactly when all reports so far are), that in fail-fast mode a failure has
stopped the run and a stopped run executes cleanup only, that a cancelled status
has left a skipped or cancelled report, and that a run that goes on has
passed its configuration check. All but two of the Runner's own actions append one
report, so `RecordPreserves` proves once what such an action must do to the
verdict, and each action has only to show its own case. `CleanupFailureIsKept`
needs more, the strengthening `CInv`: whatever has been executed lies in the plan
up to the current place, so that a stage skipped later cannot count as executed.
`CancelHonoured` rests on `HonourInv`: a token that is cancelled while a stage is in
hand has that stage as the last of `begun`, nothing beyond the stage in hand has
been executed, once a report lies past `begun` the run is stopped, and a run
stopped as a failure has a culprit, which under a cancelled token lies at or
before `begun`. `Implementation` is a simulation: an action that appends a report is
`RecordStage`, the report write is `Pronounce` with a verdict that `IInv`
justifies, the rest stutters.

*Causes.* `ExitCodeNamesTheCause` and `DialogNamesTheCause` look back from the
end of a run to its first fault. `BlameInv` carries that fault along: a ledger
with a fault has a first one, later reports do not move it, and the top-level
error says whether it was a timeout, unless a deadline found expired has
replaced it in the continue mode. `LateInv` adds that in fail-fast mode only
cleanup and the report write can fail after a fault, so that the stage the dialog
chooses is the first fault; `DialogInv`, that a first fault which is a skip comes
from a cancellation, because no executor of the composition skips by itself.

*The compositions.* The executors are modelled as strengthened Runner actions, so
`ProductionIsRunner` needs one step per action, and all that is proved of the
Runner for arbitrary executors holds of the real ones; `EntryIsRunner` says the
same of the commands. `EInv` follows the right to run from process to process
(`Turns`, `Rights`, `Waited`) and says that a Runner nobody has started is
untouched; `HonestExitCode` adds where an exit code comes from (`Sources`,
`CodesAgree`). `OneAutomation` rests on `AliveInv`: an automation that is alive
was the last one started or was reported as not cleaned, and in either case its
stage is remembered (`Remembered`, `Passed`), so that the gates of the later ones
hold them back (`FailFast`, `Alone`). `OwnedIsShutDown` ties ownership to a stage
that was tried (`Owning`, `Tried`). `NothingIsLeftRunning` goes from a whole
ledger of successes back to the stages that cleaned up (`Tidy`).

*The adapters.* In `ProcessLifecycle`, `Sound` says of one process what its record
may be, and a step changes one record (`Change`); `CallInv` is what the call in
progress may rely on. In `MaaSync`, `Places` says what the two files hold at each
step and `BackedUp` that what will be replaced has been saved. Between two calls
the simulation sees the files, during a commit the pair that the call found, so
that only a call's end is a step of `PairCommit` (`Finish`). In `MaaResources`,
`Copying` ties the copies made to the files still to copy; `EarnedRetries` is a
counting argument: an attempt that is not a stall has reached a unit of
`Names \X (1..MaxSize)` that none before it had, and `MaxStalled` attempts for
each unit reached bound them all (`Paid`). In `BetterGI`
what the reader knows is tied to what the tool did in three steps: the logs hold
the history, the evidence is what the logs say up to the cursors, a verdict
follows an exit with the cursors at the end. In `MaaFgoRun` each success that the
reporter holds or has written is a task that succeeded in this run (`Evidence`),
and the verdict is read from there. `RInv` is the converse for drift and
refusals: as long as no persist has failed, the artifact mirrors what the
reporter knows (`Reported`), and a refusal that has been decided has its cause in
the artifact or the launch (`Caused`).

*The emulator.* What a start has ordered is history; its result is computed from
the locals of `_wait_readiness`. `Ledger` says that these locals account for the
orders: a recycle that was ordered is remembered as `recycled` until a restart
clears it, a restart as `restarted`, and every order as `changed`. One conjunct
for each phase of the call makes it inductive (`Opened`, `Awaited`, `Recycled`,
`Restarted`), `Closed` is `UnchangedMeansUntouched` and `Bounded` is
`BoundedRecovery`. `ConfirmedStop` follows from the types and one look at the
steps that can end a stop. `OneLook` is a simulation of `ReadinessContract` by
`AdbReadiness`: only the command that decides the answer is a look, for which
`AnswerImplements` finds the state of the emulator that justifies it; every other
command stutters, and what happens to the instance or the ADB server meanwhile is
the contract's `World`.

*StarRail.* The tracker reads from an offset of a file that may since have been
rotated. `Snapped` says that a log is either new throughout, or still the one of
the snapshot with its old lines in front; `Pointed` that in the second case the
cursor has passed them (`CursorFresh`). So every keyword that is read is fresh
(`markers \subseteq fresh`, in `SInv`), and a completion is decided by what was
read.

The inductive invariants of `MumuRuntime` and `StarrailRun` were model-checked
as invariants of the runs' specifications before they were proved, as those of
the other modules.

*Plans.* A plan is a static one with the edits that the options ask for: stages
taken out, those of FGO put after `RUN_MAA`, BetterGI put before the report. Every
stage has a rank, and every plan ascends in it, so that a dependency of lower rank
comes earlier (`PlansAreLawful`). An edit keeps that, whatever it is applied to;
and an ascending plan is determined by the stages it has. So the plan that was
built is one of the closed list of `validate_external_plan`, whose members are
edited in another order (`PlansPassTheGate`).

*Liveness.* `Reconnection`, `Repair` and `SuccessCompletes` follow one call from
step to step. For each step there is a region: the thread is there, and what it
has found so far is still true (`Calling`, `At`, `Noticing`). As long as the world
stands still, every transition stays in the region or goes on to the next one,
and the thread's own step goes on (`Leads`); temporal logic makes a leads-to of
each region and a chain of all. The chain is as long as one call, so that no
bound enters: a glitch or a crash may have come any number of times before it.
`SuccessCompletes` needs the strengthening `NInv`, that as long as no log was
truncated everything fresh lies ahead of the cursor or has been kept, through
rotations.

`SteadyWaitEnds` has more stages and two pauses, whose end it takes from
`PausesEnd`, as it takes from `GlitchesEnd` that the glitches stop some time:
before that a wait goes on looking, connecting and recycling (`LookingOn`), after
it the stages lead one way only, over one connect and one recycle.

*Not proved*: that `ThreadGoesOn`, `WaitGoesOn`, `PausesEnd` and `GlitchesEnd`
follow from the fairness of the runs and from `MaxFlakes`. The first three are
about `ENABLED`, the last is an induction over the bound, and the provers do
neither; section 6 and the comments at the definitions give
the reasons. TLC does not rest on them: it checks the four liveness properties
under `WF` itself.

## 8. Assumptions and what is left out

- `CloseHandle` on a valid handle does not fail. `KeyboardInterrupt` is modelled
  in `wait`, `run` and `stop`, not inside `launch`; during a run the command line
  turns SIGINT into a cancelled token (`cli.py:156-173`).
- In `ProductionWorkflow` the emulator is up or down as its port says; the run
  `stopped_means_down` shows where that is not the whole truth. A result's
  `owned_process_cleaned` is taken at its word; a failed launch also says so,
  although `launcher_cleanup` shows that a suspended process may stay.
- `RunEntry`: a preflight passes or fails, whichever check it was; a relaunch
  without a process handle is the same as a wait that fails at once; the `plan`
  and `doctor` commands, which run nothing, are left out. The environment check
  of `start` and the Win32 calls behind the token query are one step each.
- `StarrailRun`: nobody renames an old log to a matching name, lines are read
  whole, and encodings are left out. A success line written between the last read
  and the exit is a failure, as
  `docs/phase-7c-starrail-log-contract-fix.md` accepts.
- `MaaSync`, `MaaResources`: temporary files are left out, so an atomic write is
  one step that succeeds or changes nothing. Nobody else writes to the resource
  directories, and the updater dies with the program whose job holds it.
- `MaaFgoRun`: a profile is its sequence of tasks, a task its entry; the checks of
  the distribution, of the devices and of a task's options are one failing step,
  and so is a file that is too large or no JSON. Clocks are left out, and with them
  the checks of `__post_init__` (`runtime/maafgo_models.py:102`) that `finished_at`
  is not before `started_at` and `duration_ms` not negative: `ResultsAreConstructible`
  speaks of the other checks, and a wall clock set back during a run would make
  the first one raise. What the tool may do is what the
  scripts in `scripts/maafgo-orr-agent` let it do.
- `BetterGIRun`: a log that is too large, was replaced or cannot be decoded is a
  read that fails. A record of another instance never falls between the header and
  the body of this one's: it is assumed that an event is one append, which only a
  read may find unfinished. Otherwise the reader would take the body for the foreign record's, and
  `NothingIsLost` would not hold. `CleanedMeansGone` holds of the job.
- A report write succeeds or fails; its serialisation and the temporary file
  behind it are left out.
- Seconds are not counted: a deadline has passed or has not, an operation's
  deadline lies within its caller's.
- Not modelled: the StarRail port (a bind to port 0), the mapping of each MAA
  task (formats), configuration schema and loading (pure functions of one file),
  the failure dialog box, `runtime_bindings.py` (constructs the adapters),
  diagnostics and scripts for the developer, the AALC adapter that no plan uses,
  wording of logs and reports.

## 9. Plan

The order so far: the Runner and its contract, the production composition, the
supervisor, the readiness probe, the MuMu adapter, the file transactions, the
StarRail log, the run entry, MaaFgo with the FGO app, BetterGI; then the proofs
of the Runner, the compositions, the supervisor, the file transactions, MaaFgo,
BetterGI, the MuMu adapter with its probe and StarRail. What is left:

1. A proof that `MumuRuntime` takes every answer into account that
   `ReadinessContract` grants, up to the order of an answer and a cancellation
   that crosses it, so that `OneLook` and `HonestChange` speak of one system.
2. A model of the atomic report write beside the Runner's report sink.
