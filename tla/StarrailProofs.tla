--------------------------- MODULE StarrailProofs ---------------------------
(***************************************************************************)
(* A run of StarRailCopilot is completed only by what it wrote itself, and *)
(* a success that it has written is noticed: for every set of paths and    *)
(* lengths of logs, limit of a read and number of rotations, foreign       *)
(* writes and failures.                                                    *)
(***************************************************************************)
EXTENDS StarrailRun, FiniteSetTheorems, TLAPS

Logs      == [id : Nat, lines : Seq(Lines)]
Snapshots == [id : Nat, size : Nat]
Cursors   == [path : Paths \cup {"none"}, id : Nat, offset : Nat]
Steps     == {"snapshot", "launch", "check", "discover", "read", "poll", "stop", "idle"}
Codes     == {"OK", "CANCELLED", "TIMEOUT", "START_FAILED", "LOG_READ_FAILED",
              "LOG_OUTPUT_LIMIT", "FAILURE_KEYWORD", "PROCESS_EXIT"}
Verdicts  == {"COMPLETED", "CANCELLED", "TIMEOUT", "FAILED"}
Results   == [status : Verdicts \cup {"NONE"},
              code : Codes \cup {"CLEANUP_FAILED", "NONE"}, cleaned : BOOLEAN]

TypeOK ==
  /\ logs \in [Paths -> Logs] /\ own \in Paths
  /\ tool \in {"absent", "running", "exited"}
  /\ snapshot \in [Paths -> Snapshots] /\ cursor \in Cursors
  /\ markers \in SUBSET Keywords /\ fresh \in SUBSET Keywords
  /\ pc \in Steps /\ stopFor \in Codes /\ result \in Results
  /\ truncated \in BOOLEAN /\ flakes \in Nat
  /\ cancelled \in BOOLEAN /\ expired \in BOOLEAN

(* A log that has no identity does not exist.                               *)
Exists(log) == log.id = 0 => log.lines = << >>

FreshAfter(log, n, new) ==
  \A i \in 1..Len(log.lines) :
    (i > n /\ log.lines[i] \in Keywords) => log.lines[i] \in new

(* Of a log that is still the one of the snapshot s, what it had then is    *)
(* there and only the rest is new; of any other, everything is.             *)
Snapped(log, s, new) ==
  \/ FreshAfter(log, 0, new)
  \/ log.id = s.id /\ Len(log.lines) >= s.size /\ FreshAfter(log, s.size, new)

(* The cursor c skips what is not new.                                      *)
Pointed(log, s, c, new) ==
  \/ FreshAfter(log, 0, new)
  \/ /\ log.id = s.id /\ c.id = s.id /\ FreshAfter(log, s.size, new)
     /\ s.size <= c.offset /\ c.offset <= Len(log.lines)

CursorFresh ==
  /\ cursor.path \in Paths
  /\ Pointed(logs[cursor.path], snapshot[cursor.path], cursor, fresh)

SInv ==
  /\ TypeOK
  /\ \A p \in Paths : Exists(logs[p])
  /\ pc \notin {"snapshot", "idle"} => \A p \in Paths : Snapped(logs[p], snapshot[p], fresh)
  /\ (cursor # NoCursor \/ pc = "read") => CursorFresh
  /\ pc = "snapshot" => cursor = NoCursor
  /\ markers \subseteq fresh
  /\ pc # "idle" => result = NoResult
  /\ (pc = "stop" /\ stopFor = "OK") => "success" \in markers /\ "failure" \notin markers
  /\ result.status = "COMPLETED" =>
       /\ "success" \in markers /\ "failure" \notin markers
       /\ result.cleaned /\ tool = "exited"
-----------------------------------------------------------------------------
(* Logs. *)
LEMMA MoreFresh ==
  ASSUME NEW log, NEW n, NEW new, NEW more, new \subseteq more, FreshAfter(log, n, new)
  PROVE  FreshAfter(log, n, more)
BY DEF FreshAfter

LEMMA EmptyFresh ==
  ASSUME NEW log, log.lines = << >>, NEW n, NEW new
  PROVE  FreshAfter(log, n, new)
<1>1. Len(log.lines) = 0
  OBVIOUS
<1>2. 1..Len(log.lines) = {}
  BY <1>1
<1> QED
  BY <1>2 DEF FreshAfter

(* A line written now is new. *)
LEMMA WrittenFresh ==
  ASSUME NEW log \in Logs, NEW l \in Lines, NEW n \in Nat, NEW new, FreshAfter(log, n, new),
         NEW id
  PROVE  LET longer == [id |-> id, lines |-> Append(log.lines, l)] IN
         /\ FreshAfter(longer, n, new \cup ({l} \cap Keywords))
         /\ Len(longer.lines) = Len(log.lines) + 1
<1> DEFINE longer == [id |-> id, lines |-> Append(log.lines, l)]
           more   == new \cup ({l} \cap Keywords)
<1>1. log.lines \in Seq(Lines) /\ longer.lines = Append(log.lines, l)
  BY DEF Logs
<1>2. /\ Len(longer.lines) = Len(log.lines) + 1
      /\ \A i \in 1..Len(log.lines) : longer.lines[i] = log.lines[i]
      /\ longer.lines[Len(log.lines) + 1] = l
  BY <1>1
<1>3. Len(log.lines) \in Nat
  BY <1>1
<1> HIDE DEF longer
<1>4. ASSUME NEW i \in 1..Len(longer.lines), i > n, longer.lines[i] \in Keywords
      PROVE  longer.lines[i] \in more
  <2>1. CASE i \in 1..Len(log.lines)
    BY <1>2, <1>4, <2>1 DEF FreshAfter
  <2>2. CASE i = Len(log.lines) + 1
    BY <1>2, <1>4, <2>2
  <2> QED
    BY <1>2, <1>3, <2>1, <2>2
<1>5. FreshAfter(longer, n, more)
  BY <1>4 DEF FreshAfter
<1> QED
  BY <1>2, <1>5 DEF longer

(* The three things that happen to a log: nothing, a line, a fresh start.   *)
Becomes(log, log2, new, more) ==
  \/ log2 = log /\ new \subseteq more
  \/ \E l \in Lines : /\ log2 = [id    |-> IF log.id = 0 THEN 1 ELSE log.id,
                                 lines |-> Append(log.lines, l)]
                      /\ more = new \cup ({l} \cap Keywords)
  \/ log2.lines = << >> /\ log2.id # 0

LEMMA BecomesFresh ==
  ASSUME NEW log \in Logs, NEW log2 \in Logs, NEW new, NEW more, NEW s \in Snapshots,
         NEW c \in Cursors, Exists(log), Becomes(log, log2, new, more)
  PROVE  /\ Exists(log2)
         /\ Snapped(log, s, new) => Snapped(log2, s, more)
         /\ Pointed(log, s, c, new) => Pointed(log2, s, c, more)
<1>1. CASE log2 = log /\ new \subseteq more
  BY <1>1, MoreFresh DEF Snapped, Pointed
<1>2. CASE log2.lines = << >> /\ log2.id # 0
  BY <1>2, EmptyFresh DEF Snapped, Pointed, Exists
<1>3. ASSUME NEW l \in Lines,
             log2 = [id    |-> IF log.id = 0 THEN 1 ELSE log.id,
                     lines |-> Append(log.lines, l)],
             more = new \cup ({l} \cap Keywords)
      PROVE  /\ Exists(log2)
             /\ Snapped(log, s, new) => Snapped(log2, s, more)
             /\ Pointed(log, s, c, new) => Pointed(log2, s, c, more)
  <2>1. /\ \A n \in Nat : FreshAfter(log, n, new) => FreshAfter(log2, n, more)
        /\ Len(log2.lines) = Len(log.lines) + 1
    BY <1>3, WrittenFresh
  <2>2. log2.id # 0
    BY <1>3
  <2>3. log.id = 0 => FreshAfter(log, 0, new)
    BY EmptyFresh DEF Exists
  <2>4. log.id # 0 => log2.id = log.id
    BY <1>3
  <2>5. /\ s.size \in Nat /\ c.offset \in Nat /\ Len(log.lines) \in Nat
    BY DEF Snapshots, Cursors, Logs
  <2> QED
    BY <2>1, <2>2, <2>3, <2>4, <2>5 DEF Snapped, Pointed, Exists
<1> QED
  BY <1>1, <1>2, <1>3 DEF Becomes

-----------------------------------------------------------------------------
(* The world may do what it likes to the logs. *)
Moves == \A p \in Paths : Becomes(logs[p], logs'[p], fresh, fresh')

LEMMA MovesKeep ==
  ASSUME SInv, TypeOK', Moves, fresh \subseteq fresh',
         UNCHANGED << locals, pc, stopFor, result >>, tool' = "exited" \/ tool # "exited"
  PROVE  SInv'
<1>1. \A p \in Paths : /\ logs[p] \in Logs /\ logs'[p] \in Logs /\ snapshot[p] \in Snapshots
                       /\ Exists(logs[p])
  BY DEF SInv, TypeOK
<1>2. cursor \in Cursors
  BY DEF SInv, TypeOK
<1>3. ASSUME NEW p \in Paths
      PROVE  /\ Exists(logs'[p])
             /\ Snapped(logs[p], snapshot[p], fresh) => Snapped(logs'[p], snapshot[p], fresh')
             /\ Pointed(logs[p], snapshot[p], cursor, fresh)
                  => Pointed(logs'[p], snapshot[p], cursor, fresh')
  BY <1>1, <1>2, BecomesFresh DEF Moves
<1>4. UNCHANGED << snapshot, cursor, markers, pc, stopFor, result >>
  BY DEF locals
<1>5. \A p \in Paths : Exists(logs'[p])
  BY <1>3
<1>6. pc' \notin {"snapshot", "idle"} => \A p \in Paths : Snapped(logs'[p], snapshot'[p], fresh')
  BY <1>3, <1>4 DEF SInv
<1>7. (cursor' # NoCursor \/ pc' = "read") => CursorFresh'
  BY <1>3, <1>4 DEF SInv, CursorFresh
<1>8. markers' \subseteq fresh' /\ (pc' = "snapshot" => cursor' = NoCursor)
  BY <1>4 DEF SInv
<1>9. /\ pc' # "idle" => result' = NoResult
      /\ (pc' = "stop" /\ stopFor' = "OK") => "success" \in markers' /\ "failure" \notin markers'
      /\ result'.status = "COMPLETED" =>
           /\ "success" \in markers' /\ "failure" \notin markers'
           /\ result'.cleaned /\ tool' = "exited"
  BY <1>4 DEF SInv
<1> QED
  BY <1>5, <1>6, <1>7, <1>8, <1>9 DEF SInv

LEMMA WriteKeeps ==
  ASSUME SInv, NEW p \in Paths, NEW l \in Lines, Write(p, l), Flake \/ UNCHANGED flakes
  PROVE  SInv'
<1>1. /\ logs \in [Paths -> Logs] /\ logs[p] \in Logs /\ fresh \in SUBSET Keywords
  BY DEF SInv, TypeOK
<1> DEFINE longer == [id    |-> IF logs[p].id = 0 THEN 1 ELSE logs[p].id,
                      lines |-> Append(logs[p].lines, l)]
<1>2. logs' = [logs EXCEPT ![p] = longer]
  BY DEF Write
<1>3. longer \in Logs
  BY <1>1 DEF Logs
<1>4. fresh' = fresh \cup (IF pc = "snapshot" THEN {} ELSE {l} \cap Keywords)
  BY DEF Write
<1>5. UNCHANGED << own, truncated, tool, locals, pc, stopFor, result, control >>
  BY DEF Write
<1>6. TypeOK'
  <2>1. logs' \in [Paths -> Logs]
    BY <1>1, <1>2, <1>3
  <2>2. fresh' \in SUBSET Keywords /\ flakes' \in Nat
    BY <1>1, <1>4 DEF Flake, SInv, TypeOK
  <2> QED
    BY <1>5, <2>1, <2>2 DEF SInv, TypeOK, locals, control
<1>7. CASE pc # "snapshot"
  <2>1. Moves /\ fresh \subseteq fresh'
    BY <1>1, <1>2, <1>4, <1>7 DEF Moves, Becomes
  <2> QED
    BY <1>5, <1>6, <2>1, MovesKeep DEF SInv
<1>8. CASE pc = "snapshot"
  <2>1. Exists(longer)
    BY DEF Exists
  <2>2. \A q \in Paths : Exists(logs'[q])
    BY <1>1, <1>2, <2>1 DEF SInv
  <2>3. fresh' = fresh /\ cursor = NoCursor
    BY <1>4, <1>8 DEF SInv
  <2> QED
    BY <1>5, <1>6, <1>8, <2>2, <2>3 DEF SInv, locals
<1> QED
  BY <1>7, <1>8

LEMMA RotateKeeps ==
  ASSUME SInv, Rotate
  PROVE  SInv'
<1>1. /\ logs \in [Paths -> Logs] /\ own \in Paths /\ logs[own] \in Logs /\ logs[own].id # 0
  BY DEF SInv, TypeOK, Rotate
<1>2. PICK log \in {[id |-> logs[own].id + 1, lines |-> << >>],
                    [logs[own] EXCEPT !.lines = << >>]} :
        logs' = [logs EXCEPT ![own] = log]
  BY <1>1 DEF Rotate
<1>3. log \in Logs /\ log.lines = << >> /\ log.id # 0
  <2>1. /\ << >> \in Seq(Lines) /\ logs[own].id \in Nat /\ logs[own].id + 1 \in Nat
        /\ logs[own].id + 1 # 0
    BY <1>1 DEF Logs
  <2>2. CASE log = [id |-> logs[own].id + 1, lines |-> << >>]
    BY <2>1, <2>2 DEF Logs
  <2>3. CASE log = [logs[own] EXCEPT !.lines = << >>]
    BY <1>1, <2>1, <2>3 DEF Logs
  <2> QED
    BY <1>2, <2>2, <2>3
<1>4. /\ UNCHANGED << own, fresh, tool, locals, pc, stopFor, result, control >>
      /\ truncated' \in BOOLEAN /\ flakes' \in Nat
  <2>1. /\ UNCHANGED << own, fresh, tool, locals, pc, stopFor, result, control >>
        /\ truncated' = truncated \/ truncated' = TRUE
        /\ flakes' = flakes + 1
    BY DEF Rotate, Flake
  <2>2. truncated \in BOOLEAN /\ flakes \in Nat
    BY DEF SInv, TypeOK
  <2>3. truncated' \in BOOLEAN
    BY <2>1, <2>2, Zenon
  <2>4. flakes' \in Nat
    BY <2>1, <2>2
  <2> QED
    BY <2>1, <2>3, <2>4
<1>5. TypeOK'
  <2>1. logs' \in [Paths -> Logs]
    BY <1>1, <1>2, <1>3
  <2> QED
    BY <1>4, <2>1 DEF SInv, TypeOK, locals, control
<1>6. Moves
  BY <1>1, <1>2, <1>3, <1>4 DEF Moves, Becomes
<1> QED
  BY <1>4, <1>5, <1>6, MovesKeep DEF SInv

LEMMA WorldKeeps ==
  ASSUME SInv, World
  PROVE  SInv'
<1>1. CASE ToolWrites \/ Foreign
  <2>1. PICK p \in Paths, l \in Lines : Write(p, l)
    BY <1>1 DEF ToolWrites, Foreign, SInv, TypeOK
  <2>2. Flake \/ UNCHANGED flakes
    BY <1>1 DEF ToolWrites, Foreign
  <2> QED
    BY <2>1, <2>2, WriteKeeps
<1>2. CASE Rotate
  BY <1>2, RotateKeeps
<1>3. CASE Exit \/ Cancel \/ Expire
  <2>1. /\ UNCHANGED << world, locals, pc, stopFor, result, flakes >>
        /\ tool' \in {"absent", "running", "exited"} /\ (tool' = "exited" \/ tool' = tool)
        /\ cancelled' \in BOOLEAN /\ expired' \in BOOLEAN
    <3>1. tool \in {"absent", "running", "exited"} /\ cancelled \in BOOLEAN /\ expired \in BOOLEAN
      BY DEF SInv, TypeOK
    <3>2. CASE Exit
      BY <3>1, <3>2 DEF Exit, control
    <3>3. CASE Cancel
      BY <3>1, <3>3 DEF Cancel
    <3>4. CASE Expire
      BY <3>1, <3>4 DEF Expire
    <3> QED
      BY <1>3, <3>2, <3>3, <3>4
  <2>2. UNCHANGED << logs, own, fresh, truncated, snapshot, cursor, markers >>
    BY <2>1 DEF world, locals
  <2> QED
    BY <2>1, <2>2 DEF SInv, TypeOK, CursorFresh
<1> QED
  BY <1>1, <1>2, <1>3 DEF World

-----------------------------------------------------------------------------
(* The adapter. *)
LEMMA StatusCases ==
  ASSUME NEW code \in Codes
  PROVE  /\ Status(code) \in Verdicts /\ StatusUncleaned(code) \in Verdicts
         /\ Status(code) = "COMPLETED" <=> code = "OK"
         /\ StatusUncleaned(code) # "COMPLETED"
<1>1. CASE code = "OK"
  BY <1>1 DEF Status, StatusUncleaned, Verdicts
<1>2. CASE code \in {"CANCELLED", "TIMEOUT"}
  BY <1>2 DEF Status, StatusUncleaned, Verdicts
<1>3. CASE code \notin {"OK", "CANCELLED", "TIMEOUT"}
  BY <1>3 DEF Status, StatusUncleaned, Verdicts
<1> QED
  BY <1>1, <1>2, <1>3

(* A step that leaves the logs alone and reads none, on its way to the next *)
(* step or to a stop for some reason other than a success.                  *)
LEMMA GoesOn ==
  ASSUME SInv, UNCHANGED << world, locals, control >>, flakes' \in Nat,
         tool' \in {"absent", "running", "exited"},
         pc \notin {"snapshot", "idle"}, UNCHANGED result,
         \/ pc' \in {"launch", "check", "discover", "poll"} /\ UNCHANGED stopFor
         \/ pc' = "stop" /\ stopFor' \in Codes \ {"OK"}
  PROVE  SInv'
<1>1. UNCHANGED << logs, own, fresh, truncated, snapshot, cursor, markers, cancelled, expired >>
  BY DEF world, locals, control
<1>2. result = NoResult /\ NoResult.status = "NONE"
  BY DEF SInv, NoResult
<1>3. TypeOK'
  BY <1>1 DEF SInv, TypeOK, Steps
<1> QED
  BY <1>1, <1>2, <1>3 DEF SInv, CursorFresh

(* The end of a run that is not completed. *)
LEMMA EndsShort ==
  ASSUME SInv, UNCHANGED << world, control >>, UNCHANGED << cursor, markers >>,
         flakes' \in Nat, snapshot' \in [Paths -> Snapshots],
         cursor = NoCursor \/ UNCHANGED snapshot,
         tool' \in {"absent", "running", "exited"},
         NEW s \in Verdicts \ {"COMPLETED"}, NEW code \in Codes \cup {"CLEANUP_FAILED"},
         NEW cleaned \in BOOLEAN, Return(s, code, cleaned)
  PROVE  SInv'
<1>1. UNCHANGED << logs, own, fresh, truncated, cancelled, expired >>
  BY DEF world, control
<1>2. result' \in Results /\ result'.status = s /\ pc' = "idle" /\ stopFor' = stopFor
  BY DEF Return, Results
<1>3. TypeOK'
  BY <1>1, <1>2 DEF SInv, TypeOK, Steps
<1>4. s # "COMPLETED"
  OBVIOUS
<1> QED
  BY <1>1, <1>2, <1>3, <1>4 DEF SInv, CursorFresh

LEMMA SnapshotKeeps ==
  ASSUME SInv, Snapshot
  PROVE  SInv'
<1>1. /\ pc = "snapshot" /\ cursor = NoCursor
      /\ UNCHANGED << world, tool, cursor, markers, control >>
      /\ tool \in {"absent", "running", "exited"}
  BY DEF Snapshot, SInv, TypeOK
<1>2. CASE cancelled /\ Return("CANCELLED", "CANCELLED", TRUE) /\ UNCHANGED << snapshot, flakes >>
  BY <1>1, <1>2, EndsShort DEF Verdicts, Codes, SInv, TypeOK
<1>3. CASE /\ ~cancelled /\ Flake /\ UNCHANGED snapshot
           /\ \E code \in {"START_FAILED", "LOG_READ_FAILED"} : Return("FAILED", code, TRUE)
  <2>1. flakes' \in Nat /\ snapshot' \in [Paths -> Snapshots]
    BY <1>3 DEF Flake, SInv, TypeOK
  <2> QED
    BY <1>1, <1>3, <2>1, EndsShort DEF Verdicts, Codes
<1>4. CASE /\ ~cancelled /\ Goto("launch") /\ UNCHANGED flakes
           /\ snapshot' = [p \in Paths |-> [id |-> logs[p].id, size |-> Len(logs[p].lines)]]
  <2>1. /\ UNCHANGED << logs, own, fresh, truncated, cancelled, expired, result, stopFor >>
        /\ pc' = "launch"
    BY <1>1, <1>4 DEF world, control, Goto
  <2>2. \A p \in Paths : logs[p] \in Logs /\ Len(logs[p].lines) \in Nat
    BY DEF SInv, TypeOK, Logs
  <2>3. snapshot' \in [Paths -> Snapshots]
    BY <1>4, <2>2 DEF Snapshots, Logs
  <2>4. ASSUME NEW p \in Paths
        PROVE  Snapped(logs[p], snapshot'[p], fresh)
    BY <1>4, <2>2 DEF Snapped, FreshAfter
  <2>5. TypeOK'
    BY <1>1, <1>4, <2>1, <2>3 DEF SInv, TypeOK, Steps
  <2>6. result = NoResult /\ NoResult.status = "NONE"
    BY <1>1 DEF SInv, NoResult
  <2> QED
    BY <1>1, <1>4, <2>1, <2>4, <2>5, <2>6 DEF SInv
<1> QED
  BY <1>2, <1>3, <1>4 DEF Snapshot

LEMMA LaunchKeeps ==
  ASSUME SInv, Launch
  PROVE  SInv'
<1>1. /\ pc = "launch" /\ UNCHANGED << world, locals, control >>
      /\ UNCHANGED << cursor, markers, snapshot >>
  BY DEF Launch, locals
<1>2. flakes' \in Nat /\ tool' \in {"absent", "running", "exited"}
  <2>1. flakes \in Nat /\ tool \in {"absent", "running", "exited"}
    BY DEF SInv, TypeOK
  <2>2. \/ tool' = "running" /\ flakes' = flakes
        \/ tool' = tool /\ flakes' = flakes + 1
    BY DEF Launch, Flake
  <2> QED
    BY <2>1, <2>2
<1>3. CASE Goto("check")
  BY <1>1, <1>2, <1>3, GoesOn DEF Goto
<1>4. CASE Return("FAILED", "START_FAILED", TRUE)
  BY <1>1, <1>2, <1>4, EndsShort DEF Verdicts, Codes, SInv, TypeOK
<1> QED
  BY <1>3, <1>4 DEF Launch

LEMMA CheckKeeps ==
  ASSUME SInv, Check \/ Poll
  PROVE  SInv'
<1>1. /\ pc \in {"check", "poll"} /\ UNCHANGED << world, locals, control >>
      /\ UNCHANGED << tool, flakes >> /\ UNCHANGED result
  BY DEF Check, Poll, Goto, StopFor
<1>2. \/ pc' \in {"check", "discover"} /\ UNCHANGED stopFor
      \/ pc' = "stop" /\ stopFor' \in Codes \ {"OK"}
  BY DEF Check, Poll, Goto, StopFor, Codes
<1>3. flakes' \in Nat /\ tool' \in {"absent", "running", "exited"}
  BY <1>1 DEF SInv, TypeOK
<1> QED
  BY <1>1, <1>2, <1>3, GoesOn

(* The one changed log is followed from where the snapshot left it. *)
LEMMA FirstPointed ==
  ASSUME SInv, NEW p \in Paths, Snapped(logs[p], snapshot[p], fresh)
  PROVE  LET c == [path |-> p, id |-> logs[p].id, offset |-> FirstOffset(p)] IN
         c \in Cursors /\ Pointed(logs[p], snapshot[p], c, fresh)
<1>1. logs[p] \in Logs /\ snapshot[p] \in Snapshots
  BY DEF SInv, TypeOK
<1>2. /\ Len(logs[p].lines) \in Nat /\ snapshot[p].size \in Nat /\ logs[p].id \in Nat
      /\ FirstOffset(p) \in Nat
  BY <1>1 DEF Logs, Snapshots, FirstOffset
<1>3. (logs[p].id = snapshot[p].id /\ Len(logs[p].lines) >= snapshot[p].size)
        => FirstOffset(p) = snapshot[p].size
  BY DEF FirstOffset
<1> DEFINE c == [path |-> p, id |-> logs[p].id, offset |-> FirstOffset(p)]
<1>4. c \in Cursors /\ c.id = logs[p].id /\ c.offset = FirstOffset(p)
  BY <1>2 DEF Cursors
<1> HIDE DEF c
<1>5. Pointed(logs[p], snapshot[p], c, fresh)
  BY <1>2, <1>3, <1>4 DEF Snapped, Pointed
<1> QED
  BY <1>4, <1>5 DEF c

LEMMA DiscoverKeeps ==
  ASSUME SInv, Discover
  PROVE  SInv'
<1>1. /\ pc = "discover" /\ UNCHANGED << world, tool, snapshot, markers, control >>
      /\ UNCHANGED result /\ tool \in {"absent", "running", "exited"}
  BY DEF Discover, Goto, StopFor, SInv, TypeOK
<1>2. flakes' \in Nat
  BY DEF Discover, Flake, SInv, TypeOK
<1>3. CASE UNCHANGED cursor /\ (StopFor("LOG_READ_FAILED") \/ Goto("poll"))
  <2>1. UNCHANGED locals
    BY <1>1, <1>3 DEF locals
  <2> QED
    BY <1>1, <1>2, <1>3, <2>1, GoesOn DEF StopFor, Goto, Codes
<1>4. CASE /\ Goto("read") /\ ~(cursor = NoCursor /\ Changed = {})
           /\ cursor' = IF cursor # NoCursor THEN cursor
                        ELSE LET p == CHOOSE q \in Changed : TRUE IN
                             [path |-> p, id |-> logs[p].id, offset |-> FirstOffset(p)]
  <2>1. /\ UNCHANGED << logs, own, fresh, truncated, cancelled, expired >>
        /\ UNCHANGED << stopFor, markers, snapshot >>
        /\ pc' = "read"
    BY <1>1, <1>4 DEF world, control, Goto
  <2>2. cursor' \in Cursors /\ CursorFresh'
    <3>1. CASE cursor # NoCursor
      BY <1>4, <2>1, <3>1 DEF SInv, CursorFresh, TypeOK
    <3>2. CASE cursor = NoCursor
      <4> DEFINE p == CHOOSE q \in Changed : TRUE
      <4>1. p \in Changed
        BY <1>4, <3>2
      <4>2. p \in Paths
        BY <4>1 DEF Changed
      <4> HIDE DEF p
      <4> DEFINE c == [path |-> p, id |-> logs[p].id, offset |-> FirstOffset(p)]
      <4>3. cursor' = c /\ c.path = p
        BY <1>4, <3>2 DEF p
      <4>4. Snapped(logs[p], snapshot[p], fresh)
        BY <1>1, <4>2 DEF SInv
      <4>5. c \in Cursors /\ Pointed(logs[p], snapshot[p], c, fresh)
        BY <4>2, <4>4, FirstPointed
      <4> HIDE DEF c
      <4> QED
        BY <2>1, <4>2, <4>3, <4>5 DEF CursorFresh
    <3> QED
      BY <3>1, <3>2
  <2>3. TypeOK'
    BY <1>1, <1>2, <2>1, <2>2 DEF SInv, TypeOK, Steps
  <2>4. result = NoResult /\ NoResult.status = "NONE"
    BY <1>1 DEF SInv, NoResult
  <2> QED
    BY <1>1, <2>1, <2>2, <2>3, <2>4 DEF SInv
<1> QED
  BY <1>3, <1>4 DEF Discover

(* What a read sees is new: the cursor is behind what is old, or nothing is *)
(* old any more.                                                            *)
LEMMA ReadFresh ==
  ASSUME NEW log \in Logs, NEW s \in Snapshots, NEW c \in Cursors, NEW new,
         Pointed(log, s, c, new), NEW offset \in Nat, NEW upto \in Nat, NEW c2 \in Cursors,
         offset = IF log.id # c.id \/ Len(log.lines) < c.offset THEN 0 ELSE c.offset,
         offset <= upto, upto <= Len(log.lines), c2.id = log.id, c2.offset = upto
  PROVE  /\ {log.lines[i] : i \in (offset + 1)..upto} \cap Keywords \subseteq new
         /\ Pointed(log, s, c2, new)
<1>1. Len(log.lines) \in Nat /\ c.offset \in Nat /\ s.size \in Nat
  BY DEF Logs, Cursors, Snapshots
<1>2. CASE FreshAfter(log, 0, new)
  <2>1. ASSUME NEW i \in (offset + 1)..upto, log.lines[i] \in Keywords
        PROVE  log.lines[i] \in new
    BY <1>1, <1>2, <2>1 DEF FreshAfter
  <2> QED
    BY <1>2, <2>1 DEF Pointed
<1>3. CASE /\ log.id = s.id /\ c.id = s.id /\ FreshAfter(log, s.size, new)
           /\ s.size <= c.offset /\ c.offset <= Len(log.lines)
  <2>1. offset = c.offset
    BY <1>1, <1>3
  <2>2. ASSUME NEW i \in (offset + 1)..upto, log.lines[i] \in Keywords
        PROVE  log.lines[i] \in new
    BY <1>1, <1>3, <2>1, <2>2 DEF FreshAfter
  <2>3. s.size <= c2.offset /\ c2.offset <= Len(log.lines)
    BY <1>1, <1>3, <2>1
  <2> QED
    BY <1>3, <2>2, <2>3 DEF Pointed
<1> QED
  BY <1>2, <1>3 DEF Pointed

LEMMA ReadKeeps ==
  ASSUME SInv, Read
  PROVE  SInv'
<1> DEFINE p      == cursor.path
           log    == logs[p]
           unread == Len(log.lines) - Offset
           upto   == IF unread > MaxRead THEN Offset + MaxRead ELSE Len(log.lines)
           seen   == {log.lines[i] : i \in (Offset + 1)..upto} \cap Keywords
           text   == (IF Rotated THEN {} ELSE markers) \cup seen
<1>1. /\ pc = "read" /\ UNCHANGED << world, tool, snapshot, control >> /\ UNCHANGED result
      /\ UNCHANGED << logs, own, fresh, truncated, cancelled, expired >>
  BY DEF Read, Match, StopFor, Goto, world, control
<1>2. p \in Paths /\ log \in Logs /\ snapshot[p] \in Snapshots /\ cursor \in Cursors
      /\ Pointed(log, snapshot[p], cursor, fresh)
  BY <1>1 DEF SInv, CursorFresh, TypeOK
<1>3. flakes' \in Nat
  <2>1. flakes' = flakes \/ flakes' = flakes + 1
    BY DEF Read, Flake
  <2> QED
    BY <2>1 DEF SInv, TypeOK
<1>4. CASE StopFor("LOG_READ_FAILED") /\ UNCHANGED << cursor, markers >>
  <2>1. UNCHANGED locals /\ tool' \in {"absent", "running", "exited"}
    BY <1>1, <1>4 DEF locals, SInv, TypeOK
  <2> QED
    BY <1>1, <1>3, <1>4, <2>1, GoesOn DEF StopFor, Codes
<1>5. CASE /\ cursor' = [cursor EXCEPT !.id = log.id, !.offset = upto]
           /\ markers' = text
           /\ IF unread > MaxRead THEN StopFor("LOG_OUTPUT_LIMIT") ELSE Match(text)
  <2>1. Len(log.lines) \in Nat /\ cursor.offset \in Nat /\ log.id \in Nat /\ MaxRead \in Nat
    BY <1>2, BoundsAssumption DEF Logs, Cursors
  <2>2. /\ Offset \in Nat
        /\ Offset = IF log.id # cursor.id \/ Len(log.lines) < cursor.offset
                    THEN 0 ELSE cursor.offset
    BY <2>1 DEF Offset, Rotated
  <2>3. upto \in Nat /\ Offset <= upto /\ upto <= Len(log.lines)
    BY <2>1, <2>2
  <2> HIDE DEF upto
  <2>4. /\ cursor' \in Cursors /\ cursor'.path = p /\ cursor'.id = log.id
        /\ cursor'.offset = upto
    BY <1>2, <1>5, <2>1, <2>3 DEF Cursors
  <2>5. seen \subseteq fresh /\ Pointed(log, snapshot[p], cursor', fresh)
    BY <1>2, <2>2, <2>3, <2>4, ReadFresh
  <2> HIDE DEF seen
  <2>6. markers' \subseteq fresh /\ markers' \in SUBSET Keywords
    BY <1>5, <2>5 DEF SInv, TypeOK
  <2>7. CursorFresh'
    BY <1>1, <1>2, <2>4, <2>5 DEF CursorFresh
  <2>8. /\ pc' \in {"stop", "poll"} /\ stopFor' \in Codes
        /\ (pc' = "stop" /\ stopFor' = "OK") => "success" \in markers' /\ "failure" \notin markers'
    <3> HIDE DEF text, unread
    <3>1. CASE unread > MaxRead
      BY <1>5, <3>1 DEF StopFor, Codes
    <3>2. CASE ~(unread > MaxRead)
      BY <1>5, <3>2 DEF Match, StopFor, Goto, Codes, SInv, TypeOK
    <3> QED
      BY <3>1, <3>2
  <2>9. TypeOK'
    BY <1>1, <1>3, <2>4, <2>6, <2>8 DEF SInv, TypeOK, Steps
  <2>10. result = NoResult /\ NoResult.status = "NONE"
    BY <1>1 DEF SInv, NoResult
  <2> QED
    BY <1>1, <2>6, <2>7, <2>8, <2>9, <2>10 DEF SInv
<1> QED
  BY <1>4, <1>5 DEF Read

LEMMA StopKeeps ==
  ASSUME SInv, Stop
  PROVE  SInv'
<1>1. /\ pc = "stop" /\ stopFor \in Codes /\ UNCHANGED << world, locals, control >>
      /\ UNCHANGED << cursor, markers, snapshot >> /\ tool \in {"absent", "running", "exited"}
      /\ snapshot \in [Paths -> Snapshots]
  BY DEF Stop, locals, SInv, TypeOK
<1>2. flakes' \in Nat /\ tool' \in {"absent", "running", "exited"}
  <2>1. (flakes' = flakes \/ flakes' = flakes + 1) /\ tool' \in {tool, "exited"}
    BY DEF Stop, Flake
  <2> QED
    BY <1>1, <2>1 DEF SInv, TypeOK
<1>3. CASE Return(Status(stopFor), stopFor, TRUE) /\ tool' = "exited"
  <2>1. CASE stopFor # "OK"
    <3>1. Status(stopFor) \in Verdicts \ {"COMPLETED"}
      BY <1>1, <2>1, StatusCases
    <3> QED
      BY <1>1, <1>2, <1>3, <3>1, EndsShort
  <2>2. CASE stopFor = "OK"
    <3>1. UNCHANGED << logs, own, fresh, truncated, cancelled, expired >>
      BY <1>1 DEF world, control
    <3>2. Status(stopFor) = "COMPLETED" /\ "COMPLETED" \in Verdicts
      BY <1>1, <2>2, StatusCases DEF Verdicts
    <3>3. result' = [status |-> "COMPLETED", code |-> "OK", cleaned |-> TRUE]
          /\ pc' = "idle" /\ stopFor' = stopFor
      BY <1>3, <2>2, <3>2 DEF Return
    <3>4. result' \in Results /\ result'.cleaned
      BY <3>2, <3>3 DEF Results, Codes
    <3>5. TypeOK'
      BY <1>1, <1>2, <3>1, <3>3, <3>4 DEF SInv, TypeOK, Steps
    <3> QED
      BY <1>1, <1>3, <2>2, <3>1, <3>3, <3>4, <3>5 DEF SInv, CursorFresh
  <2> QED
    BY <2>1, <2>2
<1>4. CASE Return(StatusUncleaned(stopFor), "CLEANUP_FAILED", FALSE)
  <2>1. StatusUncleaned(stopFor) \in Verdicts \ {"COMPLETED"}
    BY <1>1, StatusCases
  <2> QED
    BY <1>1, <1>2, <1>4, <2>1, EndsShort
<1> QED
  BY <1>3, <1>4 DEF Stop

-----------------------------------------------------------------------------
LEMMA SInvInit == Init => SInv
<1> SUFFICES ASSUME Init PROVE SInv
  OBVIOUS
<1>1. \A p \in Paths : logs[p] \in Logs /\ Exists(logs[p])
  <2>1. << >> \in Seq(Lines) /\ \A l \in Lines : << l >> \in Seq(Lines)
    OBVIOUS
  <2>2. \A p \in Paths : \/ logs[p] = [id |-> 0, lines |-> << >>]
                         \/ \E l \in Lines : logs[p] = [id |-> 1, lines |-> << l >>]
    BY DEF Init
  <2>3. [id |-> 0, lines |-> << >>] \in Logs
    BY <2>1 DEF Logs
  <2>4. \A l \in Lines : [id |-> 1, lines |-> << l >>] \in Logs
    BY <2>1 DEF Logs
  <2>5. ASSUME NEW p \in Paths
        PROVE  logs[p] \in Logs /\ Exists(logs[p])
    <3>1. CASE logs[p] = [id |-> 0, lines |-> << >>]
      BY <2>3, <3>1 DEF Exists
    <3>2. ASSUME NEW l \in Lines, logs[p] = [id |-> 1, lines |-> << l >>]
          PROVE  logs[p] \in Logs /\ Exists(logs[p])
      BY <2>4, <3>2 DEF Exists
    <3> QED
      BY <2>2, <3>1, <3>2
  <2> QED
    BY <2>5
<1>2. logs \in [Paths -> Logs]
  <2>1. logs = [p \in Paths |-> logs[p]]
    BY DEF Init
  <2> QED
    BY <1>1, <2>1
<1>3. TypeOK
  BY <1>2 DEF Init, TypeOK, Steps, Codes, Snapshots, Cursors, NoCursor, NoResult, Results
<1> QED
  BY <1>1, <1>3 DEF Init, SInv, NoResult

LEMMA SInvStep == SInv /\ [Next]_vars => SInv'
<1> SUFFICES ASSUME SInv, [Next]_vars PROVE SInv'
  OBVIOUS
<1>1. CASE AdapterStep
  BY <1>1, SnapshotKeeps, LaunchKeeps, CheckKeeps, DiscoverKeeps, ReadKeeps, StopKeeps
     DEF AdapterStep
<1>2. CASE World
  BY <1>2, WorldKeeps
<1>3. CASE UNCHANGED vars
  BY <1>3 DEF vars, world, locals, control, SInv, TypeOK, CursorFresh
<1> QED
  BY <1>1, <1>2, <1>3 DEF Next

LEMMA SInvIsInvariant == Spec => []SInv
BY SInvInit, SInvStep, PTL DEF Spec

(* The variables keep their types.                                          *)
THEOREM TypeCorrect == Spec => []TypeOK
BY SInvIsInvariant, PTL DEF SInv

(* A run is completed (run and _stop_and_collect of the StarRail adapter)   *)
(* by a success that the tracker cannot have found in a line written before *)
(* the snapshot, with no failure in what was read, and the tool dead.       *)
THEOREM FreshCompletion == Spec => []CompletionIsFresh
<1>1. SInv => CompletionIsFresh
  BY DEF SInv, CompletionIsFresh
<1> QED
  BY <1>1, SInvIsInvariant, PTL

-----------------------------------------------------------------------------
(* A success is noticed.  As long as no log is truncated in place, a log    *)
(* only grows or is replaced, so the one that is followed stays different   *)
(* from its snapshot, and what is skipped of it has been seen or is old.    *)
Grew(log, s) == s.id <= log.id /\ (s.id = log.id => s.size <= Len(log.lines))

Differs(log, s) == log.id # 0 /\ << log.id, Len(log.lines) >> # << s.id, s.size >>

IsNew(log, s, i) == i > s.size \/ log.id # s.id

Remembers(log, s, c, seen) ==
  c.id = log.id =>
    /\ c.offset <= Len(log.lines)
    /\ \A i \in 1..c.offset :
         (IsNew(log, s, i) /\ log.lines[i] \in Keywords) => log.lines[i] \in seen

Follows(log, s, c, seen) == Differs(log, s) /\ c.id <= log.id /\ Remembers(log, s, c, seen)

AllGrew == \A p \in Paths : Grew(logs[p], snapshot[p])

Followed ==
  /\ cursor.path \in Paths
  /\ Follows(logs[cursor.path], snapshot[cursor.path], cursor, markers)

NInv ==
  /\ flakes <= MaxFlakes
  /\ pc = "read" => cursor # NoCursor
  /\ ~truncated => AllGrew
  /\ (~truncated /\ cursor # NoCursor) => Followed

LEMMA WriteFollows ==
  ASSUME NEW log \in Logs, Exists(log), NEW s \in Snapshots, NEW c \in Cursors, NEW seen,
         NEW l \in Lines, Grew(log, s)
  PROVE  LET longer == [id    |-> IF log.id = 0 THEN 1 ELSE log.id,
                        lines |-> Append(log.lines, l)] IN
         /\ Grew(longer, s)
         /\ Follows(log, s, c, seen) => Follows(longer, s, c, seen)
<1> DEFINE longer == [id    |-> IF log.id = 0 THEN 1 ELSE log.id,
                      lines |-> Append(log.lines, l)]
<1>1. /\ log.lines \in Seq(Lines) /\ longer.lines = Append(log.lines, l)
      /\ longer.id = IF log.id = 0 THEN 1 ELSE log.id
  BY DEF Logs
<1>2. /\ Len(longer.lines) = Len(log.lines) + 1 /\ Len(log.lines) \in Nat
      /\ \A i \in 1..Len(log.lines) : longer.lines[i] = log.lines[i]
  BY <1>1
<1>3. /\ log.id \in Nat /\ s.id \in Nat /\ s.size \in Nat /\ c.id \in Nat /\ c.offset \in Nat
  BY DEF Logs, Snapshots, Cursors
<1> HIDE DEF longer
<1>4. Grew(longer, s)
  BY <1>1, <1>2, <1>3 DEF Grew
<1>5. ASSUME Follows(log, s, c, seen)
      PROVE  Follows(longer, s, c, seen)
  <2>1. longer.id = log.id /\ log.id # 0
    BY <1>1, <1>5 DEF Follows, Differs
  <2>2. Differs(longer, s)
    BY <1>2, <1>3, <2>1 DEF Grew, Differs
  <2>3. ASSUME c.id = longer.id
        PROVE  /\ c.offset <= Len(longer.lines)
               /\ \A i \in 1..c.offset :
                    (IsNew(longer, s, i) /\ longer.lines[i] \in Keywords)
                      => longer.lines[i] \in seen
    <3>1. /\ c.offset <= Len(log.lines)
          /\ \A i \in 1..c.offset :
               (IsNew(log, s, i) /\ log.lines[i] \in Keywords) => log.lines[i] \in seen
      BY <1>5, <2>1, <2>3 DEF Follows, Remembers
    <3>2. ASSUME NEW i \in 1..c.offset, IsNew(longer, s, i), longer.lines[i] \in Keywords
          PROVE  longer.lines[i] \in seen
      <4>1. longer.lines[i] = log.lines[i]
        BY <1>2, <1>3, <3>1
      <4>2. IsNew(log, s, i)
        BY <2>1, <3>2 DEF IsNew
      <4> QED
        BY <3>1, <3>2, <4>1, <4>2
    <3> QED
      BY <1>2, <1>3, <3>1, <3>2
  <2>4. c.id <= longer.id
    BY <1>5, <2>1 DEF Follows
  <2> QED
    BY <2>2, <2>3, <2>4 DEF Follows, Remembers
<1> QED
  BY <1>4, <1>5 DEF longer

LEMMA ReplacedFollows ==
  ASSUME NEW log \in Logs, NEW s \in Snapshots, NEW c \in Cursors, NEW seen, Grew(log, s)
  PROVE  LET other == [id |-> log.id + 1, lines |-> << >>] IN
         /\ Grew(other, s)
         /\ Follows(log, s, c, seen) => Follows(other, s, c, seen)
<1> DEFINE other == [id |-> log.id + 1, lines |-> << >>]
<1>1. other.id = log.id + 1
  OBVIOUS
<1>2. log.id \in Nat /\ s.id \in Nat /\ c.id \in Nat
  BY DEF Logs, Snapshots, Cursors
<1> HIDE DEF other
<1>3. Grew(other, s)
  BY <1>1, <1>2 DEF Grew
<1>4. Differs(other, s)
  BY <1>1, <1>2 DEF Grew, Differs
<1>5. c.id <= log.id => Remembers(other, s, c, seen) /\ c.id <= other.id
  BY <1>1, <1>2 DEF Remembers
<1> QED
  BY <1>3, <1>4, <1>5 DEF Follows, other

LEMMA WorldFollows ==
  ASSUME SInv, NInv, World
  PROVE  NInv'
<1>1. /\ UNCHANGED << snapshot, cursor, markers, pc >> /\ flakes' <= MaxFlakes
      /\ ~truncated' => ~truncated
  <2>1. UNCHANGED locals /\ UNCHANGED pc
    BY DEF World, ToolWrites, Foreign, Rotate, Exit, Cancel, Expire, Write
  <2>2. UNCHANGED flakes \/ Flake
    BY DEF World, ToolWrites, Foreign, Rotate, Exit, Cancel, Expire
  <2>3. flakes' <= MaxFlakes
    BY <2>2, BoundsAssumption DEF Flake, NInv, SInv, TypeOK
  <2>4. UNCHANGED truncated \/ truncated' = TRUE
    BY DEF World, ToolWrites, Foreign, Rotate, Exit, Cancel, Expire, Write, world
  <2>5. ~truncated' => ~truncated
    BY <2>4, Zenon
  <2> QED
    BY <2>1, <2>3, <2>5 DEF locals
<1>2. /\ logs \in [Paths -> Logs] /\ snapshot \in [Paths -> Snapshots] /\ cursor \in Cursors
      /\ own \in Paths
  BY DEF SInv, TypeOK
<1>3. ASSUME ~truncated', AllGrew, NEW p \in Paths
      PROVE  /\ Grew(logs'[p], snapshot[p])
             /\ Follows(logs[p], snapshot[p], cursor, markers)
                  => Follows(logs'[p], snapshot[p], cursor, markers)
  <2>1. Grew(logs[p], snapshot[p]) /\ logs[p] \in Logs /\ snapshot[p] \in Snapshots
        /\ Exists(logs[p])
    BY <1>2, <1>3 DEF AllGrew, SInv
  <2>2. CASE logs'[p] = logs[p]
    BY <2>1, <2>2
  <2>3. ASSUME NEW l \in Lines,
               logs'[p] = [id    |-> IF logs[p].id = 0 THEN 1 ELSE logs[p].id,
                           lines |-> Append(logs[p].lines, l)]
        PROVE  /\ Grew(logs'[p], snapshot[p])
               /\ Follows(logs[p], snapshot[p], cursor, markers)
                    => Follows(logs'[p], snapshot[p], cursor, markers)
    BY <1>2, <2>1, <2>3, WriteFollows
  <2>4. CASE logs'[p] = [id |-> logs[p].id + 1, lines |-> << >>]
    BY <1>2, <2>1, <2>4, ReplacedFollows
  <2>5. CASE ToolWrites \/ Foreign
    <3>1. PICK q \in Paths, l \in Lines : Write(q, l)
      BY <1>2, <2>5 DEF ToolWrites, Foreign
    <3>2. logs' = [logs EXCEPT ![q] = [id    |-> IF @.id = 0 THEN 1 ELSE @.id,
                                       lines |-> Append(@.lines, l)]]
      BY <3>1 DEF Write
    <3>3. q = p => logs'[p] = [id    |-> IF logs[p].id = 0 THEN 1 ELSE logs[p].id,
                               lines |-> Append(logs[p].lines, l)]
      BY <1>2, <3>2
    <3>4. q # p => logs'[p] = logs[p]
      BY <1>2, <3>2
    <3> QED
      BY <2>2, <2>3, <3>3, <3>4
  <2>6. CASE Rotate
    <3>1. logs' = [logs EXCEPT ![own] = [id |-> @.id + 1, lines |-> << >>]]
      BY <1>3, <2>6, Zenon DEF Rotate
    <3>2. logs'[p] = logs[p] \/ logs'[p] = [id |-> logs[p].id + 1, lines |-> << >>]
      BY <1>2, <3>1
    <3> QED
      BY <2>2, <2>4, <3>2
  <2>7. CASE Exit \/ Cancel \/ Expire
    BY <2>2, <2>7 DEF Exit, Cancel, Expire, world
  <2> QED
    BY <2>5, <2>6, <2>7 DEF World
<1>4. ~truncated' => AllGrew'
  BY <1>1, <1>2, <1>3 DEF NInv, AllGrew
<1>5. (~truncated' /\ cursor' # NoCursor) => Followed'
  <2>1. UNCHANGED NoCursor
    BY DEF NoCursor
  <2> QED
    BY <1>1, <1>2, <1>3, <2>1 DEF NInv, Followed
<1> QED
  BY <1>1, <1>4, <1>5 DEF NInv

(* Where neither the logs nor what the adapter remembers of them changes.   *)
LEMMA Forgoes ==
  ASSUME NInv, SInv, UNCHANGED << world, locals >>, Flake \/ UNCHANGED flakes, pc' # "read"
  PROVE  NInv'
<1>1. flakes' <= MaxFlakes
  BY BoundsAssumption DEF Flake, NInv, SInv, TypeOK
<1>2. UNCHANGED << logs, truncated, snapshot, cursor, markers, NoCursor >>
  BY DEF world, locals, NoCursor
<1> QED
  BY <1>1, <1>2 DEF NInv, AllGrew, Followed

LEMMA SnapshotFollows ==
  ASSUME SInv, NInv, Snapshot
  PROVE  NInv'
<1>1. /\ UNCHANGED << logs, cursor, NoCursor >> /\ cursor = NoCursor /\ pc' # "read"
      /\ Flake \/ UNCHANGED flakes
  BY DEF Snapshot, Return, Goto, world, NoCursor, SInv
<1>2. flakes' <= MaxFlakes
  BY <1>1, BoundsAssumption DEF Flake, NInv, SInv, TypeOK
<1>3. UNCHANGED truncated
  BY DEF Snapshot, world
<1>4. logs \in [Paths -> Logs]
  BY DEF SInv, TypeOK
<1>5. ~truncated' => AllGrew'
  <2>1. CASE UNCHANGED snapshot
    BY <1>1, <1>3, <2>1 DEF NInv, AllGrew
  <2>2. CASE snapshot' = [p \in Paths |-> [id |-> logs[p].id, size |-> Len(logs[p].lines)]]
    <3>1. ASSUME NEW p \in Paths
          PROVE  Grew(logs'[p], snapshot'[p])
      <4>1. snapshot'[p].id = logs[p].id /\ snapshot'[p].size = Len(logs[p].lines)
        BY <2>2
      <4>2. logs[p].id \in Nat /\ Len(logs[p].lines) \in Nat
        BY <1>4 DEF Logs
      <4> QED
        BY <1>1, <4>1, <4>2 DEF Grew
    <3> QED
      BY <3>1 DEF AllGrew
  <2> QED
    BY <2>1, <2>2 DEF Snapshot
<1> QED
  BY <1>1, <1>2, <1>5 DEF NInv

(* The log that is followed first is different from its snapshot, and what  *)
(* is skipped of it is old.                                                 *)
LEMMA FirstFollows ==
  ASSUME SInv, NEW p \in Changed, NEW seen
  PROVE  LET c == [path |-> p, id |-> logs[p].id, offset |-> FirstOffset(p)] IN
         Follows(logs[p], snapshot[p], c, seen) /\ c # NoCursor
<1>1. p \in Paths /\ Differs(logs[p], snapshot[p])
  BY DEF Changed, Differs
<1>2. /\ Len(logs[p].lines) \in Nat /\ snapshot[p].size \in Nat /\ logs[p].id \in Nat
  BY <1>1 DEF SInv, TypeOK, Logs, Snapshots
<1> DEFINE c == [path |-> p, id |-> logs[p].id, offset |-> FirstOffset(p)]
<1>3. c.id = logs[p].id /\ c.offset = FirstOffset(p)
  OBVIOUS
<1>4. c # NoCursor
  BY <1>1, <1>3 DEF Differs, NoCursor
<1> HIDE DEF c
<1>5. Remembers(logs[p], snapshot[p], c, seen)
  <2>1. CASE logs[p].id = snapshot[p].id /\ Len(logs[p].lines) >= snapshot[p].size
    <3>1. c.offset = snapshot[p].size
      BY <1>3, <2>1 DEF FirstOffset
    <3> QED
      BY <1>2, <2>1, <3>1 DEF Remembers, IsNew
  <2>2. CASE ~(logs[p].id = snapshot[p].id /\ Len(logs[p].lines) >= snapshot[p].size)
    <3>1. c.offset = 0
      BY <1>3, <2>2 DEF FirstOffset
    <3> QED
      BY <1>2, <3>1 DEF Remembers
  <2> QED
    BY <2>1, <2>2
<1>6. Follows(logs[p], snapshot[p], c, seen)
  BY <1>1, <1>2, <1>3, <1>5 DEF Follows
<1> QED
  BY <1>4, <1>6 DEF c

LEMMA DiscoverFollows ==
  ASSUME SInv, NInv, Discover
  PROVE  NInv'
<1>1. /\ UNCHANGED << logs, truncated, snapshot, markers, NoCursor >>
  BY DEF Discover, world, NoCursor
<1>2. CASE UNCHANGED cursor /\ pc' # "read"
  BY <1>2, Forgoes DEF Discover, locals
<1>3. CASE /\ UNCHANGED flakes /\ ~(cursor = NoCursor /\ Changed = {})
           /\ cursor' = IF cursor # NoCursor THEN cursor
                        ELSE LET p == CHOOSE q \in Changed : TRUE IN
                             [path |-> p, id |-> logs[p].id, offset |-> FirstOffset(p)]
  <2>1. CASE cursor # NoCursor
    BY <1>1, <1>3, <2>1 DEF NInv, AllGrew, Followed
  <2>2. CASE cursor = NoCursor
    <3> DEFINE p == CHOOSE q \in Changed : TRUE
    <3>1. p \in Changed
      BY <1>3, <2>2
    <3> HIDE DEF p
    <3> DEFINE c == [path |-> p, id |-> logs[p].id, offset |-> FirstOffset(p)]
    <3>2. cursor' = c /\ c.path = p
      BY <1>3, <2>2 DEF p
    <3>3. Follows(logs[p], snapshot[p], c, markers) /\ c # NoCursor
      BY <3>1, FirstFollows
    <3>4. p \in Paths
      BY <3>1 DEF Changed
    <3> HIDE DEF c
    <3>5. Followed' /\ cursor' # NoCursor'
      BY <1>1, <3>2, <3>3, <3>4 DEF Followed
    <3> QED
      BY <1>1, <1>3, <3>5 DEF NInv, AllGrew
  <2> QED
    BY <2>1, <2>2
<1> QED
  BY <1>2, <1>3 DEF Discover, StopFor, Goto

(* What a read has passed over it remembers, if it was new.                 *)
LEMMA ReadRemembers ==
  ASSUME NEW log \in Logs, NEW s, NEW c \in Cursors, NEW seen, NEW text,
         Remembers(log, s, c, seen), NEW upto \in Nat, upto <= Len(log.lines),
         NEW c2, c2.id = log.id, c2.offset = upto, NEW offset \in Nat,
         offset = 0 \/ (log.id = c.id /\ offset = c.offset /\ seen \subseteq text),
         \A i \in (offset + 1)..upto : log.lines[i] \in Keywords => log.lines[i] \in text
  PROVE  Remembers(log, s, c2, text)
<1>1. Len(log.lines) \in Nat /\ c.offset \in Nat
  BY DEF Logs, Cursors
<1>2. ASSUME NEW i \in 1..upto, IsNew(log, s, i), log.lines[i] \in Keywords
      PROVE  log.lines[i] \in text
  <2>1. CASE i \in (offset + 1)..upto
    BY <1>2, <2>1
  <2>2. CASE i \notin (offset + 1)..upto
    <3>1. i <= offset
      BY <2>2
    <3>2. log.id = c.id /\ offset = c.offset /\ seen \subseteq text
      BY <3>1
    <3>3. i \in 1..c.offset
      BY <3>1, <3>2
    <3> QED
      BY <1>2, <3>2, <3>3 DEF Remembers
  <2> QED
    BY <2>1, <2>2
<1> QED
  BY <1>2 DEF Remembers

LEMMA ReadFollows ==
  ASSUME SInv, NInv, Read
  PROVE  NInv'
<1> DEFINE log    == logs[cursor.path]
           unread == Len(log.lines) - Offset
           upto   == IF unread > MaxRead THEN Offset + MaxRead ELSE Len(log.lines)
           text   == (IF Rotated THEN {} ELSE markers)
                       \cup ({log.lines[i] : i \in (Offset + 1)..upto} \cap Keywords)
<1>1. /\ pc = "read" /\ UNCHANGED << logs, truncated, snapshot, NoCursor >> /\ pc' # "read"
      /\ cursor # NoCursor
  BY DEF Read, Match, StopFor, Goto, world, NoCursor, NInv
<1>2. CASE UNCHANGED << cursor, markers >> /\ Flake
  BY <1>1, <1>2, Forgoes DEF Read, world, locals
<1>3. CASE /\ UNCHANGED flakes
           /\ cursor' = [cursor EXCEPT !.id = log.id, !.offset = upto]
           /\ markers' = text
  <2>1. /\ log \in Logs /\ cursor.path \in Paths /\ cursor \in Cursors
        /\ markers \in SUBSET Keywords
    BY <1>1 DEF SInv, CursorFresh, TypeOK
  <2>2. Len(log.lines) \in Nat /\ cursor.offset \in Nat /\ log.id \in Nat /\ MaxRead \in Nat
    BY <2>1, BoundsAssumption DEF Logs, Cursors
  <2>3. /\ Rotated \in BOOLEAN /\ Offset \in Nat
        /\ Rotated \/ log.id = cursor.id
        /\ Offset = IF Rotated THEN 0 ELSE cursor.offset
    BY <2>2 DEF Offset, Rotated
  <2>4. upto \in Nat /\ upto <= Len(log.lines)
    BY <2>2, <2>3
  <2> HIDE DEF upto
  <2>5. cursor'.path = cursor.path /\ cursor'.id = log.id /\ cursor'.offset = upto
    BY <1>3, <2>1 DEF Cursors
  <2> HIDE DEF log
  <2>6. ASSUME ~truncated
        PROVE  Followed' /\ cursor' # NoCursor
    <3>1. /\ Differs(log, snapshot[cursor.path])
          /\ Remembers(log, snapshot[cursor.path], cursor, markers)
      BY <1>1, <2>6 DEF NInv, Followed, Follows, log
    <3>2. /\ ~Rotated => markers \subseteq text
          /\ \A i \in (Offset + 1)..upto : log.lines[i] \in Keywords => log.lines[i] \in text
      OBVIOUS
    <3> HIDE DEF text
    <3>3. Remembers(log, snapshot[cursor.path], cursor', text)
      BY <2>1, <2>3, <2>4, <2>5, <3>1, <3>2, ReadRemembers
    <3>4. cursor' # NoCursor
      BY <2>5, <3>1 DEF Differs, NoCursor
    <3>5. logs'[cursor'.path] = log /\ snapshot'[cursor'.path] = snapshot[cursor.path]
      BY <1>1, <2>5 DEF log
    <3>6. Follows(log, snapshot[cursor.path], cursor', text)
      BY <2>2, <2>5, <3>1, <3>3 DEF Follows
    <3> QED
      BY <1>3, <2>1, <2>5, <3>4, <3>5, <3>6 DEF Followed
  <2> QED
    BY <1>1, <1>3, <2>6 DEF NInv, AllGrew
<1> QED
  BY <1>2, <1>3 DEF Read

LEMMA NInvInit == Init => NInv
<1> SUFFICES ASSUME Init PROVE NInv
  OBVIOUS
<1>1. ASSUME NEW p \in Paths
      PROVE  Grew(logs[p], snapshot[p])
  <2>1. SInv
    BY SInvInit
  <2>2. snapshot[p].id = 0 /\ snapshot[p].size = 0
    BY DEF Init
  <2>3. logs[p].id \in Nat /\ Len(logs[p].lines) \in Nat
    BY <2>1 DEF SInv, TypeOK, Logs
  <2> QED
    BY <2>2, <2>3 DEF Grew
<1> QED
  BY <1>1, BoundsAssumption DEF Init, NInv, AllGrew

LEMMA NInvStep == SInv /\ NInv /\ [Next]_vars => NInv'
<1> SUFFICES ASSUME SInv, NInv, [Next]_vars PROVE NInv'
  OBVIOUS
<1>1. CASE Launch \/ Check \/ Poll \/ Stop
  <2>1. UNCHANGED << world, locals >> /\ pc' # "read" /\ (Flake \/ UNCHANGED flakes)
    BY <1>1 DEF Launch, Check, Poll, Stop, Goto, StopFor, Return
  <2> QED
    BY <2>1, Forgoes
<1>2. CASE UNCHANGED vars
  <2>1. UNCHANGED << logs, truncated, snapshot, cursor, markers, NoCursor, pc, flakes >>
    BY <1>2 DEF vars, world, locals, NoCursor
  <2> QED
    BY <2>1 DEF NInv, AllGrew, Followed
<1> QED
  BY <1>1, <1>2, SnapshotFollows, DiscoverFollows, ReadFollows, WorldFollows
     DEF Next, AdapterStep

LEMMA NInvIsInvariant == Spec => [](SInv /\ NInv)
BY SInvInit, SInvStep, NInvInit, NInvStep, PTL DEF Spec

(* Noticing(step) is the adapter at that step with a success to be found;   *)
(* After is where the step leads.                                           *)
LooksOrEnds == pc \in {"stop", "idle"} \/ Undisturbed
Noticed     == result.status = "COMPLETED"

Noticing(step) ==
  /\ pc = step
  /\ step = "stop" => stopFor = "OK" /\ flakes = MaxFlakes
  /\ step # "stop" => Shown

After(step) ==
  \/ step = "check"    /\ Noticing("discover")
  \/ step = "discover" /\ Noticing("read")
  \/ step = "read"     /\ Noticing("stop")
  \/ step = "stop"     /\ Noticed

LEMMA DiscoverLeads ==
  ASSUME SInv, NInv, Undisturbed, Noticing("discover"), Discover
  PROVE  Noticing("read")'
<1>1. /\ ~Flake /\ ~truncated /\ Changed = {own}
      /\ UNCHANGED << logs, own, snapshot >>
  BY BoundsAssumption DEF Flake, Undisturbed, Discover, world
<1>2. ~Ambiguous
  <2>1. CASE cursor = NoCursor
    <3>1. Cardinality({own}) = 1
      BY FS_Singleton
    <3> QED
      BY <1>1, <2>1, <3>1 DEF Ambiguous
  <2>2. CASE cursor # NoCursor
    <3>1. cursor.path \in Changed
      BY <1>1, <2>2 DEF NInv, Followed, Follows, Differs, Changed
    <3> QED
      BY <1>1, <2>2, <3>1 DEF Ambiguous
  <2> QED
    BY <2>1, <2>2
<1>3. Goto("read")
  BY <1>1, <1>2 DEF Discover
<1>4. Shown'
  BY <1>1 DEF Noticing, Shown
<1> QED
  BY <1>3, <1>4 DEF Goto, Noticing

LEMMA ReadLeads ==
  ASSUME SInv, NInv, Undisturbed, Noticing("read"), Read, SInv'
  PROVE  Noticing("stop")'
<1> DEFINE log    == logs[cursor.path]
           unread == Len(log.lines) - Offset
           upto   == IF unread > MaxRead THEN Offset + MaxRead ELSE Len(log.lines)
           text   == (IF Rotated THEN {} ELSE markers)
                       \cup ({log.lines[i] : i \in (Offset + 1)..upto} \cap Keywords)
<1>1. /\ ~Flake /\ ~truncated /\ Changed = {own} /\ UNCHANGED << fresh, flakes >>
  BY BoundsAssumption DEF Flake, Undisturbed, Read, world
<1>2. /\ cursor # NoCursor /\ Followed /\ cursor.path = own
  <2>1. cursor # NoCursor /\ Followed
    BY <1>1 DEF NInv, Noticing
  <2>2. cursor.path \in Changed
    BY <2>1 DEF Followed, Follows, Differs, Changed
  <2> QED
    BY <1>1, <2>1, <2>2
<1>3. /\ Len(log.lines) \in Nat /\ Len(log.lines) <= MaxRead /\ MaxRead \in Nat
      /\ cursor.offset \in Nat /\ snapshot[own].size \in Nat
  <2>1. own \in Paths /\ log \in Logs /\ cursor \in Cursors /\ snapshot[own] \in Snapshots
    BY <1>2 DEF SInv, TypeOK
  <2>2. Len(log.lines) <= MaxRead
    BY <1>2 DEF Undisturbed
  <2> QED
    BY <2>1, <2>2, BoundsAssumption DEF Logs, Cursors, Snapshots
<1>4. /\ Offset \in Nat /\ Offset = IF Rotated THEN 0 ELSE cursor.offset
      /\ Rotated \/ (log.id = cursor.id /\ cursor.offset <= Len(log.lines))
  BY <1>3 DEF Offset, Rotated
<1>5. ~(unread > MaxRead) /\ upto = Len(log.lines)
  BY <1>3, <1>4
<1>6. markers' = text /\ Match(text)
  BY <1>1, <1>5 DEF Read
<1>7. "success" \in text
  <2>1. PICK i \in 1..Len(log.lines) : /\ log.lines[i] = "success"
                                       /\ IsNew(log, snapshot[own], i)
    BY <1>2 DEF Noticing, Shown, IsNew
  <2>2. log.lines[i] \in Keywords
    BY <2>1 DEF Keywords
  <2>3. CASE i \in (Offset + 1)..upto
    BY <2>1, <2>2, <2>3
  <2>4. CASE i \notin (Offset + 1)..upto
    <3>1. i <= Offset
      BY <1>3, <1>4, <1>5, <2>1, <2>4
    <3>2. ~Rotated /\ i \in 1..cursor.offset /\ log.id = cursor.id
      BY <1>3, <1>4, <2>1, <3>1
    <3>3. log.lines[i] \in markers
      BY <1>2, <2>1, <2>2, <3>2 DEF Followed, Follows, Remembers
    <3> QED
      BY <2>1, <3>2, <3>3
  <2> QED
    BY <2>3, <2>4
<1> HIDE DEF text
<1>8. "failure" \notin text
  BY <1>1, <1>6 DEF SInv, Undisturbed
<1>9. StopFor("OK")
  BY <1>6, <1>7, <1>8 DEF Match
<1> QED
  BY <1>1, <1>9 DEF StopFor, Noticing, Undisturbed

LEMMA AdapterLeads ==
  ASSUME SInv, NInv, LooksOrEnds, SInv', NEW step \in {"check", "discover", "read", "stop"},
         Noticing(step), AdapterStep
  PROVE  After(step)'
<1>1. pc = step
  BY DEF Noticing
<1>2. CASE step = "check"
  <2>1. Check /\ Undisturbed
    BY <1>1, <1>2 DEF AdapterStep, Snapshot, Launch, Discover, Read, Poll, Stop, LooksOrEnds
  <2>2. Goto("discover") /\ UNCHANGED << logs, own, snapshot >>
    BY <2>1 DEF Check, Undisturbed, world, locals
  <2>3. Shown'
    BY <1>2, <2>2 DEF Noticing, Shown
  <2> QED
    BY <1>2, <2>2, <2>3 DEF Goto, Noticing, After
<1>3. CASE step = "discover"
  <2>1. Discover /\ Undisturbed
    BY <1>1, <1>3 DEF AdapterStep, Snapshot, Launch, Check, Read, Poll, Stop, LooksOrEnds
  <2> QED
    BY <1>3, <2>1, DiscoverLeads DEF After
<1>4. CASE step = "read"
  <2>1. Read /\ Undisturbed
    BY <1>1, <1>4 DEF AdapterStep, Snapshot, Launch, Check, Discover, Poll, Stop, LooksOrEnds
  <2> QED
    BY <1>4, <2>1, ReadLeads DEF After
<1>5. CASE step = "stop"
  <2>1. Stop
    BY <1>1, <1>5 DEF AdapterStep, Snapshot, Launch, Check, Discover, Read, Poll
  <2>2. stopFor = "OK" /\ ~Flake
    BY <1>5, BoundsAssumption DEF Noticing, Flake
  <2>3. Return(Status("OK"), "OK", TRUE)
    BY <2>1, <2>2 DEF Stop
  <2>4. Status("OK") = "COMPLETED"
    BY StatusCases DEF Codes
  <2> QED
    BY <1>5, <2>3, <2>4 DEF Return, After, Noticed
<1> QED
  BY <1>2, <1>3, <1>4, <1>5

LEMMA AdapterWaits ==
  ASSUME SInv, NInv, LooksOrEnds, LooksOrEnds', SInv', NInv',
         NEW step \in {"check", "discover", "read", "stop"},
         Noticing(step), [Next]_vars, ~AdapterStep
  PROVE  Noticing(step)'
<1>1. /\ UNCHANGED << pc, stopFor, snapshot, own >>
      /\ pc = step
  BY DEF Next, World, ToolWrites, Foreign, Rotate, Exit, Cancel, Expire, Write, vars, world,
     locals, Noticing
<1>2. flakes = MaxFlakes
  BY <1>1 DEF Noticing, LooksOrEnds, Undisturbed
<1>3. ~Flake
  BY <1>2, BoundsAssumption DEF Flake
<1>4. UNCHANGED flakes
  BY <1>3 DEF Next, World, ToolWrites, Foreign, Rotate, Exit, Cancel, Expire, vars
<1>5. CASE step = "stop"
  BY <1>1, <1>2, <1>4, <1>5 DEF Noticing
<1>6. CASE step # "stop"
  <2>1. /\ logs \in [Paths -> Logs] /\ own \in Paths /\ Exists(logs[own])
    BY DEF SInv, TypeOK
  <2>2. PICK i \in 1..Len(logs[own].lines) :
               /\ logs[own].lines[i] = "success"
               /\ i > snapshot[own].size \/ logs[own].id # snapshot[own].id
    BY <1>6 DEF Noticing, Shown
  <2>3. CASE UNCHANGED logs
    BY <1>1, <1>6, <2>2, <2>3 DEF Noticing, Shown
  <2>4. CASE ToolWrites
    <3>1. PICK l \in Lines : Write(own, l)
      BY <2>4 DEF ToolWrites
    <3>2. logs[own].lines \in Seq(Lines) /\ logs[own].id # 0
      <4>1. own \in Changed
        BY <1>1, <1>6 DEF LooksOrEnds, Undisturbed
      <4> QED
        BY <2>1, <4>1 DEF Logs, Changed
    <3>3. /\ logs'[own].lines = Append(logs[own].lines, l)
          /\ logs'[own].id = logs[own].id
      BY <2>1, <3>1, <3>2 DEF Write
    <3>4. i \in 1..Len(logs'[own].lines) /\ logs'[own].lines[i] = logs[own].lines[i]
      BY <2>2, <3>2, <3>3
    <3> QED
      BY <1>1, <1>6, <2>2, <3>3, <3>4 DEF Noticing, Shown
  <2>5. UNCHANGED logs \/ ToolWrites
    BY <1>3 DEF Next, World, Foreign, Rotate, Exit, Cancel, Expire, vars, world
  <2> QED
    BY <2>3, <2>4, <2>5
<1> QED
  BY <1>5, <1>6

(* What fairness needs of one step: the adapter stays there or moves on,    *)
(* its own step moves it on, and it has a step to take.                     *)
Leads(step) ==
  /\ (SInv /\ NInv /\ SInv' /\ NInv' /\ LooksOrEnds /\ LooksOrEnds'
      /\ Noticing(step) /\ [Next]_vars)
       => Noticing(step)' \/ After(step)'
  /\ SInv /\ NInv /\ SInv' /\ LooksOrEnds /\ Noticing(step) /\ <<AdapterStep>>_vars
       => After(step)'
  /\ Noticing(step) => ~(pc = "idle")

LEMMA AdapterLeadsOn ==
  ASSUME NEW step \in {"check", "discover", "read", "stop"}
  PROVE  Leads(step)
<1>1. (SInv /\ NInv /\ SInv' /\ NInv' /\ LooksOrEnds /\ LooksOrEnds'
       /\ Noticing(step) /\ [Next]_vars)
        => Noticing(step)' \/ After(step)'
  BY AdapterLeads, AdapterWaits
<1>2. SInv /\ NInv /\ SInv' /\ LooksOrEnds /\ Noticing(step) /\ <<AdapterStep>>_vars
        => After(step)'
  BY AdapterLeads
<1>3. Noticing(step) => ~(pc = "idle")
  BY DEF Noticing
<1> QED
  BY <1>1, <1>2, <1>3 DEF Leads

(* The polling thread goes on: it is idle again and again, or takes a step  *)
(* again and again.  This is WF_vars(AdapterStep) of FairSpec written       *)
(* without ENABLED, which the provers cannot expand: a run that is not idle *)
(* always has a step.                                                       *)
ThreadGoesOn == []<>(pc = "idle") \/ []<><<AdapterStep>>_vars

(* A success in a line that StarRailCopilot has written since the snapshot  *)
(* completes the run, however the log was replaced before: as long as the   *)
(* polling thread goes on, the next look finds it among what it reads or    *)
(* has kept.                                                                *)
THEOREM SuccessCompletes == Spec /\ ThreadGoesOn => SuccessIsNoticed
<1>1. pc = "check" /\ Shown => Noticing("check")
  BY DEF Noticing
<1>2. /\ After("check") => Noticing("discover")
      /\ After("discover") => Noticing("read")
      /\ After("read") => Noticing("stop")
      /\ After("stop") => Noticed
  BY DEF After
<1>3. Leads("check") /\ Leads("discover") /\ Leads("read") /\ Leads("stop")
  BY AdapterLeadsOn
<1>4. Spec /\ ThreadGoesOn => ((Noticing("check") /\ []LooksOrEnds) ~> After("check"))
  BY <1>3, NInvIsInvariant, PTL DEF Leads, Spec, ThreadGoesOn
<1>5. Spec /\ ThreadGoesOn => ((Noticing("discover") /\ []LooksOrEnds) ~> After("discover"))
  BY <1>3, NInvIsInvariant, PTL DEF Leads, Spec, ThreadGoesOn
<1>6. Spec /\ ThreadGoesOn => ((Noticing("read") /\ []LooksOrEnds) ~> After("read"))
  BY <1>3, NInvIsInvariant, PTL DEF Leads, Spec, ThreadGoesOn
<1>7. Spec /\ ThreadGoesOn => ((Noticing("stop") /\ []LooksOrEnds) ~> After("stop"))
  BY <1>3, NInvIsInvariant, PTL DEF Leads, Spec, ThreadGoesOn
<1> QED
  BY <1>1, <1>2, <1>4, <1>5, <1>6, <1>7, PTL DEF SuccessIsNoticed, LooksOrEnds, Noticed
=============================================================================
