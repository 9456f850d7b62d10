---------------------------- MODULE StarrailRun ----------------------------
(***************************************************************************)
(* StarRailAdapter.run: StarRailCopilot is launched in a supervisor, and   *)
(* its log, one of the files that match a dated name, is followed by       *)
(* polling until it shows a failure or a success, or the process exits.    *)
(* The tool writes, rotates its log and exits when it likes, between any   *)
(* two looks of the adapter; somebody else may write to a file with a      *)
(* matching name.  Nobody renames an old log to a matching name.           *)
(*                                                                         *)
(* A log is a sequence of lines; "exited" includes a tree that has been    *)
(* ordered killed, which is what a cleaned result of the supervisor means  *)
(* (CleanedMeansCondemned in ProcessLifecycle).  An exception the adapter  *)
(* does not name ends it as a failing log read does.                       *)
(***************************************************************************)
EXTENDS Naturals, Sequences, FiniteSets

CONSTANTS
  Paths,      \* the names that match the template
  MaxLines,   \* bound: lines in a file
  MaxRead,    \* MAX_LOG_READ_BYTES, in lines
  MaxFlakes   \* bound: rotations, foreign writes, failing operations

ASSUME BoundsAssumption == MaxLines \in Nat /\ MaxRead \in Nat /\ MaxFlakes \in Nat

VARIABLES
  logs,       \* [Paths -> the file's identity and lines]
  own,        \* the path the tool logs to
  tool,       \* "absent", "running" or "exited"
  snapshot,   \* StarRailLogTracker.snapshot: identities and sizes before the launch
  cursor,     \* active_cursor
  markers,    \* the keywords in rolling_text
  pc, stopFor,  \* the next step; the code of the result that waits for the stop
  result,     \* [status, code, cleaned]
  fresh,      \* history: keywords written since the snapshot
  truncated,  \* history: a log was truncated in place
  flakes, cancelled, expired

world   == << logs, own, fresh, truncated >>
locals  == << snapshot, cursor, markers >>
control == << cancelled, expired >>
vars == << world, tool, locals, pc, stopFor, result, flakes, control >>

Keywords == {"success", "failure"}
Lines    == Keywords \cup {"noise"}
NoCursor == [path |-> "none", id |-> 0, offset |-> 0]
NoResult == [status |-> "NONE", code |-> "NONE", cleaned |-> FALSE]

Init ==
  /\ logs \in [Paths -> {[id |-> 0, lines |-> << >>]} \cup
                        {[id |-> 1, lines |-> << l >>] : l \in Lines}]
  /\ own \in Paths
  /\ tool = "absent" /\ snapshot = [p \in Paths |-> [id |-> 0, size |-> 0]]
  /\ cursor = NoCursor /\ markers = {} /\ pc = "snapshot" /\ stopFor = "OK"
  /\ result = NoResult /\ fresh = {} /\ truncated = FALSE
  /\ flakes = 0 /\ cancelled = FALSE /\ expired = FALSE

Flake == flakes < MaxFlakes /\ flakes' = flakes + 1

-----------------------------------------------------------------------------
(* The world moves. *)
Write(p, l) ==
  /\ Len(logs[p].lines) < MaxLines
  /\ logs' = [logs EXCEPT ![p] = [id    |-> IF @.id = 0 THEN 1 ELSE @.id,
                                  lines |-> Append(@.lines, l)]]
  /\ fresh' = fresh \cup (IF pc = "snapshot" THEN {} ELSE {l} \cap Keywords)
  /\ UNCHANGED << own, truncated, tool, locals, pc, stopFor, result, control >>

ToolWrites == tool = "running" /\ UNCHANGED flakes /\ \E l \in Lines : Write(own, l)
Foreign    == Flake /\ \E p \in Paths \ {own}, l \in Lines : Write(p, l)

Rotate ==
  /\ tool = "running" /\ Flake /\ logs[own].id # 0
  /\ \/ logs' = [logs EXCEPT ![own] = [id |-> @.id + 1, lines |-> << >>]] /\ UNCHANGED truncated
     \/ logs' = [logs EXCEPT ![own].lines = << >>] /\ truncated' = TRUE
  /\ UNCHANGED << own, fresh, tool, locals, pc, stopFor, result, control >>

Exit ==
  /\ tool = "running" /\ tool' = "exited"
  /\ UNCHANGED << world, locals, pc, stopFor, result, flakes, control >>

Cancel == /\ ~cancelled /\ cancelled' = TRUE
          /\ UNCHANGED << world, tool, locals, pc, stopFor, result, flakes, expired >>
Expire == /\ ~expired /\ expired' = TRUE
          /\ UNCHANGED << world, tool, locals, pc, stopFor, result, flakes, cancelled >>

-----------------------------------------------------------------------------
Goto(step) == pc' = step /\ UNCHANGED << stopFor, result >>

StopFor(code) == pc' = "stop" /\ stopFor' = code /\ UNCHANGED result

Return(status, code, cleaned) ==
  /\ pc' = "idle"
  /\ result' = [status |-> status, code |-> code, cleaned |-> cleaned]
  /\ UNCHANGED stopFor

(* Before the launch: the token, the configuration and the paths, the      *)
(* snapshot of every matching log.                                         *)
Snapshot ==
  /\ pc = "snapshot"
  /\ \/ cancelled /\ Return("CANCELLED", "CANCELLED", TRUE) /\ UNCHANGED << snapshot, flakes >>
     \/ ~cancelled /\ Flake /\ UNCHANGED snapshot
        /\ \E code \in {"START_FAILED", "LOG_READ_FAILED"} : Return("FAILED", code, TRUE)
     \/ /\ ~cancelled /\ Goto("launch") /\ UNCHANGED flakes
        /\ snapshot' = [p \in Paths |-> [id |-> logs[p].id, size |-> Len(logs[p].lines)]]
  /\ UNCHANGED << world, tool, cursor, markers, control >>

Launch ==
  /\ pc = "launch"
  /\ \/ tool' = "running" /\ Goto("check") /\ UNCHANGED flakes
     \/ UNCHANGED tool /\ Return("FAILED", "START_FAILED", TRUE) /\ Flake
  /\ UNCHANGED << world, locals, control >>

Check ==
  /\ pc = "check"
  /\ IF cancelled THEN StopFor("CANCELLED")
     ELSE IF expired THEN StopFor("TIMEOUT")
     ELSE Goto("discover")
  /\ UNCHANGED << world, tool, locals, flakes, control >>

(* discover: the one log that has changed since the snapshot.  It is read  *)
(* from where it was, unless it is another file or has become shorter.     *)
Changed == {p \in Paths : /\ logs[p].id # 0
                          /\ << logs[p].id, Len(logs[p].lines) >>
                               # << snapshot[p].id, snapshot[p].size >>}

OffsetZero(p) == 0                                                 \* mutant
FirstOffset(p) ==
  IF logs[p].id = snapshot[p].id /\ Len(logs[p].lines) >= snapshot[p].size
  THEN snapshot[p].size ELSE 0

Ambiguous ==
  IF cursor = NoCursor THEN Cardinality(Changed) > 1 ELSE Changed \ {cursor.path} # {}

Discover ==
  /\ pc = "discover"
  /\ \/ Ambiguous /\ StopFor("LOG_READ_FAILED") /\ UNCHANGED << cursor, flakes >>
     \/ Flake /\ StopFor("LOG_READ_FAILED") /\ UNCHANGED cursor
     \/ /\ ~Ambiguous /\ UNCHANGED flakes
        /\ IF cursor = NoCursor /\ Changed = {} THEN Goto("poll") /\ UNCHANGED cursor
           ELSE /\ Goto("read")
                /\ cursor' = IF cursor # NoCursor THEN cursor
                             ELSE LET p == CHOOSE q \in Changed : TRUE IN
                                  [path |-> p, id |-> logs[p].id, offset |-> FirstOffset(p)]
  /\ UNCHANGED << world, tool, snapshot, markers, control >>

(* read_log_update, then the keywords: a failure outranks a success.       *)
Rotated == \/ logs[cursor.path].id # cursor.id
           \/ Len(logs[cursor.path].lines) < cursor.offset

KeepOffset == cursor.offset                                        \* mutant
Offset == IF Rotated THEN 0 ELSE cursor.offset

Match(text) ==
  IF "failure" \in text THEN StopFor("FAILURE_KEYWORD")
  ELSE IF "success" \in text THEN StopFor("OK")
  ELSE Goto("poll")

Read ==
  LET log     == logs[cursor.path]
      unread  == Len(log.lines) - Offset
      upto    == IF unread > MaxRead THEN Offset + MaxRead ELSE Len(log.lines)
      text    == (IF Rotated THEN {} ELSE markers)
                   \cup ({log.lines[i] : i \in (Offset + 1)..upto} \cap Keywords)
  IN
  /\ pc = "read"
  /\ \/ Flake /\ StopFor("LOG_READ_FAILED") /\ UNCHANGED << cursor, markers >>
     \/ /\ UNCHANGED flakes
        /\ cursor' = [cursor EXCEPT !.id = log.id, !.offset = upto]
        /\ markers' = text
        /\ IF unread > MaxRead THEN StopFor("LOG_OUTPUT_LIMIT") ELSE Match(text)
  /\ UNCHANGED << world, tool, snapshot, control >>

Poll ==
  /\ pc = "poll"
  /\ IF tool = "exited" THEN StopFor("PROCESS_EXIT") ELSE Goto("check")
  /\ UNCHANGED << world, tool, locals, flakes, control >>

(* _stop_and_collect, and supervisor.close on the way out.  Only a         *)
(* confirmed stop leaves a success a success.                              *)
Status(code) ==
  CASE code = "OK"                      -> "COMPLETED"
    [] code \in {"CANCELLED", "TIMEOUT"} -> code
    [] OTHER                            -> "FAILED"

StatusUncleaned(code) == IF code = "OK" THEN "FAILED" ELSE Status(code)

Stop ==
  /\ pc = "stop"
  /\ \/ Return(Status(stopFor), stopFor, TRUE) /\ tool' = "exited" /\ UNCHANGED flakes
     \/ /\ Return(StatusUncleaned(stopFor), "CLEANUP_FAILED", FALSE)
        /\ tool' \in {tool, "exited"} /\ Flake
  /\ UNCHANGED << world, locals, control >>

-----------------------------------------------------------------------------
AdapterStep == Snapshot \/ Launch \/ Check \/ Discover \/ Read \/ Poll \/ Stop

World == ToolWrites \/ Foreign \/ Rotate \/ Exit \/ Cancel \/ Expire

Next == AdapterStep \/ World

Spec == Init /\ [][Next]_vars

(* The polling thread goes on; of the tool nothing is assumed.             *)
FairSpec == Spec /\ WF_vars(AdapterStep)
-----------------------------------------------------------------------------
(* A run is completed by a success written after the snapshot, never by a   *)
(* line of an earlier run in the same or in another file, with no failure   *)
(* in what was read, and the tool is dead by then.                          *)
CompletionIsFresh ==
  result.status = "COMPLETED"
    => /\ "success" \in fresh /\ "failure" \notin markers
       /\ result.cleaned /\ tool # "running"

(* A success is noticed while the tool goes on running and its log, which   *)
(* may have been replaced but not truncated in place, is left alone.        *)
Undisturbed ==
  /\ flakes = MaxFlakes /\ ~cancelled /\ ~expired /\ ~truncated
  /\ tool = "running" /\ Changed = {own} /\ "failure" \notin fresh
  /\ Len(logs[own].lines) <= MaxRead

Shown == \E i \in 1..Len(logs[own].lines) :
           /\ logs[own].lines[i] = "success"
           /\ i > snapshot[own].size \/ logs[own].id # snapshot[own].id

SuccessIsNoticed ==
  (pc = "check" /\ Shown /\ [](pc \in {"stop", "idle"} \/ Undisturbed))
    ~> (result.status = "COMPLETED")
=============================================================================
