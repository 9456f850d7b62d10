----------------------------- MODULE BetterGIRun -----------------------------
(***************************************************************************)
(* BetterGIAdapter.run: BetterGI is launched in a job, its logs are read   *)
(* incrementally until they show a failure or a cancellation, or until the *)
(* process exits; then the whole job is emptied.  The tool writes, starts  *)
(* a second log at midnight and exits between any two steps; other         *)
(* instances write to the same files.                                      *)
(*                                                                         *)
(* A log is a sequence of lines; an event is a header line, with the       *)
(* instance that wrote it, and a body, which may not be there yet when a   *)
(* read sees the header.  The bodies told apart are the ones that count;   *)
(* another configuration and an error level count as failed.               *)
(***************************************************************************)
EXTENDS Naturals, Sequences

CONSTANTS
  MaxEvents,   \* bound: events of the tool
  MaxFaults    \* bound: operations that fail, foreign events, rotations

ASSUME BoundsAssumption == MaxEvents \in Nat /\ MaxFaults \in Nat

VARIABLES
  logs, current,    \* the lines of each log, and the one that is written
  root, helper,     \* the launched process, and whether another is in its job
  condemned,        \* the job has been terminated, or its handle closed
  cursors,          \* [file -> the lines whose events are over]
  evidence,         \* the flags of Evidence that are set
  exit,             \* the exit code that the last poll saw
  pc, status, code, cleaned, jobEmpty,
  cancelled, expired, faults,
  wrote, rotated    \* history: the tool's complete events

world   == << logs, current, wrote, rotated >>
tree    == << root, helper, condemned >>
reading == << cursors, evidence, exit >>
outcome == << status, code, cleaned, jobEmpty >>
control == << cancelled, expired >>
vars == << world, tree, reading, pc, outcome, control, faults >>

Files   == {"day1", "day2"}
Headers == {"mine", "foreign"}
Bodies  == {"enable", "end", "failed", "cancelled"}

(* An earlier instance has left its success in the log of the day.         *)
Init ==
  /\ logs = [f \in Files |-> IF f = "day1" THEN << "foreign", "enable", "foreign", "end" >>
                             ELSE << >>]
  /\ current = "day1" /\ wrote = << >> /\ rotated = FALSE
  /\ root = "absent" /\ helper = FALSE /\ condemned = FALSE
  /\ cursors = [f \in Files |-> 0] /\ evidence = {} /\ exit = "none"
  /\ pc = "begin" /\ status = "failed" /\ code = "INTERNAL_ERROR"
  /\ cleaned = TRUE /\ jobEmpty = FALSE
  /\ cancelled = FALSE /\ expired = FALSE /\ faults = 0

Fault == faults < MaxFaults /\ faults' = faults + 1
-----------------------------------------------------------------------------
(* The world, for as long as the call runs.                                *)
InEvent == logs[current] # << >> /\ logs[current][Len(logs[current])] \in Headers

Put(lines) == logs' = [logs EXCEPT ![current] = @ \o lines]

ToolWrites ==
  /\ root = "running"
  /\ \/ /\ InEvent
        /\ \E b \in Bodies : Put(<< b >>) /\ wrote' = Append(wrote, b)
     \/ ~InEvent /\ Len(wrote) < MaxEvents /\ Put(<< "mine" >>) /\ UNCHANGED wrote
  /\ UNCHANGED << current, rotated, tree, reading, pc, outcome, control, faults >>

(* Another instance logs whole events, never inside one of this tool's.   *)
Foreign ==
  /\ ~InEvent /\ Fault /\ \E b \in {"end", "failed"} : Put(<< "foreign", b >>)
  /\ UNCHANGED << current, wrote, rotated, tree, reading, pc, outcome, control >>

Midnight ==
  /\ current = "day1" /\ ~InEvent /\ Fault
  /\ current' = "day2" /\ rotated' = (wrote # << >>)
  /\ UNCHANGED << logs, wrote, tree, reading, pc, outcome, control >>

(* A condemned process dies some time later.                               *)
TreeMoves ==
  /\ \/ /\ root = "running" /\ UNCHANGED helper
        /\ root' \in IF condemned THEN {"killed"} ELSE {"zero", "nonzero"}
     \/ helper /\ helper' = FALSE /\ UNCHANGED root
     \/ root = "running" /\ ~condemned /\ ~helper /\ helper' = TRUE /\ UNCHANGED root
  /\ UNCHANGED << world, condemned, reading, pc, outcome, control, faults >>

Cancel == /\ ~cancelled /\ cancelled' = TRUE
          /\ UNCHANGED << world, tree, reading, pc, outcome, expired, faults >>
Expire == /\ ~expired /\ expired' = TRUE
          /\ UNCHANGED << world, tree, reading, pc, outcome, cancelled, faults >>
-----------------------------------------------------------------------------
Adapter == UNCHANGED << world, control >>

Outcome(s, c) == status' = s /\ code' = c /\ UNCHANGED << cleaned, jobEmpty >>

Controlled == IF cancelled THEN Outcome("cancelled", "CANCELLED")
              ELSE Outcome("timeout", "TASK_TIMEOUT")

Begin ==
  /\ pc = "begin"
  /\ \/ (cancelled \/ expired) /\ Controlled /\ pc' = "done" /\ UNCHANGED faults
     \/ ~cancelled /\ Fault /\ Outcome("failed", "INVALID_CONFIGURATION") /\ pc' = "done"
     \/ ~cancelled /\ ~expired /\ pc' = "instances" /\ UNCHANGED << outcome, faults >>
  /\ UNCHANGED << tree, reading >> /\ Adapter

Instances ==
  /\ pc = "instances"
  /\ \/ /\ Fault /\ pc' = "done"
        /\ \E c \in {"INSTANCE_CHECK_FAILED", "INSTANCE_CONFLICT"} : Outcome("failed", c)
     \/ pc' = "snapshot" /\ UNCHANGED << outcome, faults >>
  /\ UNCHANGED << tree, reading >> /\ Adapter

(* BetterGILog.__init__: what is there already is not read.                *)
StartOffset(f) == Len(logs[f])

Snapshot ==
  /\ pc = "snapshot"
  /\ \/ /\ cursors' = [f \in Files |-> StartOffset(f)]
        /\ pc' = "launch" /\ UNCHANGED << outcome, faults >>
     \/ /\ Fault /\ Outcome("failed", "LOG_CONTRACT_FAILED") /\ pc' = "done"
        /\ UNCHANGED cursors
  /\ UNCHANGED << tree, evidence, exit >> /\ Adapter

Launch ==
  /\ pc = "launch"
  /\ \/ (cancelled \/ expired) /\ Controlled /\ pc' = "close" /\ UNCHANGED << root, faults >>
     \/ /\ ~cancelled /\ ~expired
        /\ \/ /\ root' = "running" /\ cleaned' = FALSE /\ pc' = "loop"
              /\ UNCHANGED << status, code, jobEmpty, faults >>
           \/ Fault /\ Outcome("failed", "PROCESS_START_FAILED") /\ pc' = "close" /\ UNCHANGED root
  /\ UNCHANGED << helper, condemned, reading >> /\ Adapter

(* The poll comes before the read, so that the last read sees all of it.   *)
Poll ==
  /\ pc = "loop"
  /\ IF cancelled \/ expired
     THEN Controlled /\ pc' = "job" /\ UNCHANGED exit
     ELSE /\ exit' = IF root = "running" THEN "none" ELSE root
          /\ pc' = "day1" /\ UNCHANGED outcome
  /\ UNCHANGED << tree, cursors, evidence, faults >> /\ Adapter

(* _Cursor.consume and flush: an event is over when the next header comes, *)
(* or when the process has exited.                                         *)
HeaderOver(f, i) == TRUE                                                \* mutant
Over(f, i) == \/ exit # "none"
              \/ \E j \in i + 1 .. Len(logs[f]) : logs[f][j] \in Headers

Unread(f) == {i \in cursors[f] + 1 .. Len(logs[f]) : logs[f][i] \in Headers}

Flushed(f) == LET open == {i \in Unread(f) : ~Over(f, i)}
              IN  IF open = {} THEN Len(logs[f]) ELSE (CHOOSE i \in open : TRUE) - 1

(* Evidence.event, for the events that a read has completed: those of the  *)
(* launched instance, told by process id and start time.                   *)
OfAnyInstance(header) == TRUE                                           \* mutant
OfThisInstance(header) == header = "mine"

Event(f) ==
  LET mine == {i \in Unread(f) : OfThisInstance(logs[f][i]) /\ Over(f, i) /\ i < Len(logs[f])}
      At(body) == {i \in mine : logs[f][i + 1] = body}
  IN  evidence \cup {b \in {"failed", "cancelled"} : At(b) # {}}
               \cup {b \in {"config"} : At("enable") # {}}
               \cup {b \in {"done"} : \E j \in At("end") :
                       "config" \in evidence \/ \E i \in At("enable") : i < j}

ReadFile(f, next) ==
  /\ pc = f
  /\ \/ /\ evidence' = Event(f) /\ cursors' = [cursors EXCEPT ![f] = Flushed(f)]
        /\ pc' = next /\ UNCHANGED << outcome, faults >>
     \/ /\ Fault /\ Outcome("failed", "LOG_CONTRACT_FAILED") /\ pc' = "job"
        /\ UNCHANGED << cursors, evidence >>
  /\ UNCHANGED << tree, exit >> /\ Adapter

Confirmed == {"config", "done"} \subseteq evidence

Judge ==
  /\ pc = "judge" /\ pc' = IF evidence \cap {"cancelled", "failed"} = {} /\ exit = "none"
                           THEN "loop" ELSE "job"
  /\ IF "cancelled" \in evidence THEN Outcome("cancelled", "CANCELLED")
     ELSE IF "failed" \in evidence THEN Outcome("failed", "TASK_FAILED")
     ELSE IF exit = "none" THEN UNCHANGED outcome
     ELSE IF exit # "zero" THEN Outcome("failed", "PROCESS_EXIT_NONZERO")
     ELSE IF Confirmed THEN Outcome("completed", "OK")
     ELSE Outcome("failed", "COMPLETION_UNCONFIRMED")
  /\ UNCHANGED << tree, reading, faults >> /\ Adapter
-----------------------------------------------------------------------------
(* stop_owned_job.                                                         *)
TerminateJob ==
  /\ pc = "job"
  /\ \/ condemned' = TRUE /\ pc' = "empty" /\ UNCHANGED faults
     \/ Fault /\ pc' = "stop" /\ UNCHANGED condemned
  /\ UNCHANGED << root, helper, reading, outcome >> /\ Adapter

Gone == root # "running" /\ ~helper

AwaitEmptyJob ==
  /\ pc = "empty" /\ pc' = "stop"
  /\ \/ Gone /\ jobEmpty' = TRUE /\ UNCHANGED faults
     \/ ~Gone /\ UNCHANGED << jobEmpty, faults >>       \* its deadline has passed
     \/ Fault /\ UNCHANGED jobEmpty
  /\ UNCHANGED << tree, reading, status, code, cleaned >> /\ Adapter

CleanedByStop(stopped) == stopped                                       \* mutant
Cleaned(stopped) == jobEmpty /\ stopped

(* supervisor.stop releases the process, whatever becomes of it.           *)
Stop ==
  /\ pc = "stop" /\ pc' = "close" /\ condemned' = TRUE
  /\ \/ /\ root' = IF root = "running" THEN "killed" ELSE root
        /\ cleaned' = Cleaned(TRUE) /\ UNCHANGED faults
     \/ Fault /\ cleaned' = Cleaned(FALSE) /\ UNCHANGED root
  /\ UNCHANGED << helper, reading, status, code, jobEmpty >> /\ Adapter

Close ==
  /\ pc = "close" /\ pc' = "done"
  /\ \/ UNCHANGED << cleaned, faults >>
     \/ Fault /\ cleaned' = FALSE
  /\ IF ~cleaned' /\ status = "completed"
     THEN status' = "failed" /\ code' = "CLEANUP_FAILED" ELSE UNCHANGED << status, code >>
  /\ UNCHANGED << tree, reading, jobEmpty >> /\ Adapter
-----------------------------------------------------------------------------
AdapterStep ==
  \/ Begin \/ Instances \/ Snapshot \/ Launch \/ Poll
  \/ ReadFile("day1", "day2") \/ ReadFile("day2", "judge") \/ Judge
  \/ TerminateJob \/ AwaitEmptyJob \/ Stop \/ Close

World == ToolWrites \/ Foreign \/ Midnight \/ TreeMoves \/ Cancel \/ Expire

Done == pc = "done" /\ UNCHANGED vars

Next == AdapterStep \/ (pc # "done" /\ World) \/ Done

Spec == Init /\ [][Next]_vars

-----------------------------------------------------------------------------
(* A completed run is proven by the tool's own events: it enabled the       *)
(* configuration and ended (in this order, unless midnight came between     *)
(* them), and it wrote nothing of a failure or cancellation, be it the last *)
(* thing before it exited; it ended with 0 and nothing of it is left.       *)
Wrote(body) == \E i \in DOMAIN wrote : wrote[i] = body

InOrder == \E i, j \in DOMAIN wrote : i < j /\ wrote[i] = "enable" /\ wrote[j] = "end"

SuccessIsProven ==
  pc = "done" /\ status = "completed" =>
    /\ Wrote("enable") /\ Wrote("end") /\ (rotated \/ InOrder)
    /\ ~Wrote("failed") /\ ~Wrote("cancelled")
    /\ root = "zero" /\ ~helper

(* No proof is lost: a run that went through is not called unconfirmed,     *)
(* though the tool writes its last events just before it exits and a read   *)
(* may stop in the middle of an event.  A run over midnight is excepted:    *)
(* the last event of a log waits for the next one in the same log.          *)
NothingIsLost ==
  pc = "done" /\ code = "COMPLETION_UNCONFIRMED" => rotated \/ ~InOrder

(* A cleaned result means an empty job.                                     *)
CleanedMeansGone == pc = "done" /\ cleaned => Gone
=============================================================================
