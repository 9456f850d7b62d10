---------------------------- MODULE MaaResources ----------------------------
(***************************************************************************)
(* The resources MAA loads, through the stages UPDATE_MAA (the updater is  *)
(* run again while its downloads get further), MERGE_MAA_RESOURCE (the     *)
(* pulled repository is copied over MaaCore's own resource directory, one  *)
(* file after the other) and RUN_MAA, which depends on both; workflow run  *)
(* after workflow run, with failing operations and crashes.                *)
(*                                                                         *)
(* The updater, maa-cli, is external: while it runs, it downloads, pulls   *)
(* and unpacks as it likes.  It dies at the latest with the program, whose *)
(* job holds it.  Nobody else writes to the two directories.  Files are    *)
(* versions; temporary files and counters of the report are left out.      *)
(***************************************************************************)
EXTENDS Naturals, FiniteSets

CONSTANTS
  Files, Versions, NoFile,
  Names,        \* the *.partial files in maa_cache_dir
  MaxSize,      \* bound: of a partial file
  MaxAttempts,  \* MAX_UPDATE_ATTEMPTS
  MaxStalled,   \* MAX_STALLED_ATTEMPTS
  Interval,     \* _CONTROL_CHECK_INTERVAL
  MaxWrites,    \* bound: what the updater writes to the two directories
  MaxFaults     \* bound: failing operations, and crashes

ASSUME NoFileAssumption == NoFile \notin Versions
ASSUME LimitsAssumption ==
  /\ MaxSize \in Nat /\ MaxWrites \in Nat /\ MaxFaults \in Nat
  /\ MaxAttempts \in Nat \ {0} /\ MaxStalled \in Nat \ {0} /\ Interval \in Nat \ {0}
ASSUME NamesAssumption == IsFiniteSet(Names)

VARIABLES
  updates, merges,     \* the configuration: which stages are enabled
  repo, resource,      \* MaaResource/resource and resource
  cache,               \* sizes of the partial files, 0 when there is none
  left,                \* an updater the supervisor failed to clean up still runs
  pc,                  \* the next step of the workflow run
  attempt, stalled, progress, last,   \* of MAAUpdateAdapter.run
  pending, index,      \* of MAAResourceMerger.run
  writes, faults, cancelled, expired

config  == << updates, merges >>
disk    == << repo, resource, cache >>
update  == << attempt, stalled, progress, last >>
merge   == << pending, index >>
control == << cancelled, expired >>
vars == << config, disk, left, pc, update, merge, writes, faults, control >>

Directory == [Files -> Versions \cup {NoFile}]
Results   == {"NONE", "COMPLETED", "DOWNLOAD_FAILED", "FAILED", "UNCLEANED", "TIMEOUT", "CANCELLED"}

Init ==
  /\ updates \in BOOLEAN /\ merges \in BOOLEAN
  /\ repo \in Directory /\ resource \in Directory
  /\ cache \in [Names -> 0..MaxSize]
  /\ left = FALSE /\ pc = "idle"
  /\ attempt = 0 /\ stalled = 0 /\ progress = cache /\ last = "NONE"
  /\ pending = {} /\ index = 0
  /\ writes = 0 /\ faults = 0 /\ cancelled = FALSE /\ expired = FALSE

Fault == faults < MaxFaults /\ faults' = faults + 1

-----------------------------------------------------------------------------
(* The updater, the caller and the clock. *)
Updating == pc = "running" \/ left

Download ==
  /\ Updating /\ \E n \in Names, size \in 0..MaxSize : cache' = [cache EXCEPT ![n] = size]
  /\ UNCHANGED << config, repo, resource, left, pc, update, merge, writes, faults, control >>

Install ==
  /\ Updating /\ writes < MaxWrites /\ writes' = writes + 1
  /\ \E f \in Files, v \in Versions \cup {NoFile} :
       \/ repo' = [repo EXCEPT ![f] = v] /\ UNCHANGED resource
       \/ resource' = [resource EXCEPT ![f] = v] /\ UNCHANGED repo
  /\ UNCHANGED << config, cache, left, pc, update, merge, faults, control >>

Cancel == /\ ~cancelled /\ cancelled' = TRUE
          /\ UNCHANGED << config, disk, left, pc, update, merge, writes, faults, expired >>
Expire == /\ ~expired /\ expired' = TRUE
          /\ UNCHANGED << config, disk, left, pc, update, merge, writes, faults, cancelled >>

Crash ==
  /\ pc # "idle" /\ Fault /\ pc' = "idle" /\ left' = FALSE
  /\ UNCHANGED << config, disk, update, merge, writes, control >>

-----------------------------------------------------------------------------
(* A workflow run; the program of the last one is gone. *)
Begin ==
  /\ pc = "idle" /\ pc' = "update" /\ left' = FALSE
  /\ cancelled' = FALSE /\ expired' = FALSE
  /\ UNCHANGED << config, disk, update, merge, writes, faults >>

Goto(step) == pc' = step

(* A stage that does not succeed: RUN_MAA and, after the update, the merge *)
(* depend on it and are not executed.                                      *)
Blocked == Goto("idle")

StartUpdate ==
  /\ pc = "update"
  /\ IF updates
     THEN Goto("attempt") /\ attempt' = 0 /\ stalled' = 0 /\ progress' = cache /\ last' = "NONE"
     ELSE Goto("merge") /\ UNCHANGED update
  /\ UNCHANGED << config, disk, left, merge, writes, faults, control >>

(* MAAAdapter.run: the token, the deadline, the launch.                    *)
Attempt ==
  /\ pc = "attempt" /\ attempt' = attempt + 1
  /\ \/ ~cancelled /\ ~expired /\ Goto("running") /\ UNCHANGED << last, faults >>
     \/ /\ Goto("judge")
        /\ \/ cancelled /\ last' = "CANCELLED" /\ UNCHANGED faults
           \/ ~cancelled /\ expired /\ last' = "TIMEOUT" /\ UNCHANGED faults
           \/ ~cancelled /\ Fault /\ last' = "FAILED"
  /\ UNCHANGED << config, disk, left, stalled, progress, merge, writes, control >>

(* What the supervisor returns, and the close after it: the tree is dead   *)
(* unless the result is UNCLEANED, whatever the output says.               *)
AttemptEnds ==
  /\ pc = "running" /\ Goto("judge")
  /\ \/ /\ \/ last' \in {"COMPLETED", "DOWNLOAD_FAILED", "FAILED"}
           \/ cancelled /\ last' = "CANCELLED"
           \/ expired   /\ last' = "TIMEOUT"
        /\ UNCHANGED << left, faults >>
     \/ last' = "UNCLEANED" /\ left' \in {left, TRUE} /\ Fault
  /\ UNCHANGED << config, disk, attempt, stalled, progress, merge, writes, control >>

RetryableFailure(result) == result \in {"DOWNLOAD_FAILED", "FAILED", "UNCLEANED"}  \* mutant
Retryable(result) == result = "DOWNLOAD_FAILED"

ProgressSeen == cache                                              \* mutant
Progress == [n \in Names |-> IF cache[n] > progress[n] THEN cache[n] ELSE progress[n]]

Stalled == IF \E n \in Names : cache[n] > progress[n] THEN 0 ELSE stalled + 1

GivesUp(stalls) == stalls >= MaxStalled

Judge ==
  /\ pc = "judge"
  /\ progress' = Progress /\ stalled' = Stalled
  /\ IF Retryable(last) /\ ~GivesUp(Stalled) /\ attempt < MaxAttempts THEN Goto("delay")
     ELSE IF last = "COMPLETED" THEN Goto("merge")
     ELSE Blocked
  /\ UNCHANGED << config, disk, left, attempt, last, merge, writes, faults, control >>

Delay ==
  /\ pc = "delay" /\ Goto("attempt")
  /\ UNCHANGED << config, disk, left, update, merge, writes, faults, control >>

-----------------------------------------------------------------------------
(* MAAResourceMerger.run. *)
Quiet == UNCHANGED << config, repo, cache, left, update, writes, control >>

StartMerge ==
  /\ pc = "merge"
  /\ \/ ~merges /\ Goto("maa")
     \/ merges /\ (cancelled \/ expired) /\ Blocked
     \/ merges /\ ~cancelled /\ ~expired /\ Goto("scan")
  /\ UNCHANGED << resource, merge, faults >> /\ Quiet

Differing == {f \in Files : repo[f] # NoFile /\ resource[f] # repo[f]}

(* A repository that cannot be read, or is too large, fails before the     *)
(* first copy.                                                             *)
Scan ==
  /\ pc = "scan"
  /\ \/ ~cancelled /\ ~expired /\ Goto("copy") /\ pending' = Differing /\ index' = 0
        /\ UNCHANGED faults
     \/ (cancelled \/ expired) /\ Blocked /\ UNCHANGED << merge, faults >>
     \/ Fault /\ Blocked /\ UNCHANGED merge
  /\ UNCHANGED resource /\ Quiet

Controlled == index % Interval = 0 /\ (cancelled \/ expired)

Copy ==
  /\ pc = "copy" /\ pending # {} /\ ~Controlled
  /\ \/ \E f \in pending :
          /\ resource' = [resource EXCEPT ![f] = repo[f]]
          /\ pending' = pending \ {f} /\ index' = index + 1
        /\ UNCHANGED << pc, faults >>
     \/ Fault /\ Blocked /\ UNCHANGED << resource, merge >>
  /\ Quiet

StopCopying ==
  /\ pc = "copy" /\ pending # {} /\ Controlled /\ Blocked
  /\ UNCHANGED << resource, merge, faults >> /\ Quiet

Merged ==
  /\ pc = "copy" /\ pending = {} /\ Goto("maa")
  /\ UNCHANGED << resource, merge, faults >> /\ Quiet

RunMaa ==
  /\ pc = "maa" /\ Goto("idle")
  /\ UNCHANGED << resource, merge, faults >> /\ Quiet

-----------------------------------------------------------------------------
Update == StartUpdate \/ Attempt \/ AttemptEnds \/ Judge \/ Delay
Merge  == StartMerge \/ Scan \/ Copy \/ StopCopying \/ Merged
World  == Download \/ Install \/ Cancel \/ Expire \/ Crash

Next == Begin \/ Update \/ Merge \/ RunMaa \/ World

Spec == Init /\ [][Next]_vars
-----------------------------------------------------------------------------
(* Type invariant, with what is still to be copied. *)
TypeOK ==
  /\ updates \in BOOLEAN /\ merges \in BOOLEAN
  /\ repo \in Directory /\ resource \in Directory
  /\ cache \in [Names -> 0..MaxSize] /\ progress \in [Names -> 0..MaxSize]
  /\ left \in BOOLEAN
  /\ pc \in {"idle", "update", "attempt", "running", "judge", "delay",
             "merge", "scan", "copy", "maa"}
  /\ attempt \in 0..MaxAttempts /\ stalled \in 0..MaxStalled /\ last \in Results
  /\ pending \subseteq Files /\ index \in Nat
  /\ pc = "copy" => pending \subseteq Differing
  /\ writes \in 0..MaxWrites /\ faults \in 0..MaxFaults
  /\ cancelled \in BOOLEAN /\ expired \in BOOLEAN

(* MAA loads one consistent set of resources: when it is run with the merge *)
(* enabled, nothing of the repository is newer or older than what it lies   *)
(* over, although an earlier run may have been stopped between two copies   *)
(* and an updater may have been left behind.                                *)
LoadsMerged ==
  pc = "maa" /\ merges => \A f \in Files : repo[f] \in {NoFile, resource[f]}

(* Attempts are earned by downloads that get further than ever before: a    *)
(* cache that is emptied and filled again does not keep the update going,   *)
(* and what is left to download bounds the attempts.                        *)
RetriesAreEarned == attempt <= MaxStalled * (1 + Cardinality(Names) * MaxSize)
=============================================================================
