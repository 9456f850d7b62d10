------------------------ MODULE ProcessLifecycleProofs ------------------------
(***************************************************************************)
(* Proofs about ProcessLifecycle for every set of processes and survivors. *)
(* Sound says of one process, whoever it belongs to, what its record may   *)
(* be; a step changes the record of at most one process, so that the proof *)
(* of each action is about that record (Change) and about what the call in *)
(* progress may rely on (CallInv).                                         *)
(***************************************************************************)
EXTENDS ProcessLifecycle, TLAPS

OSStates  == {"none", "suspended", "running", "dying", "exited"}
KidStates == {"none", "alive", "dying"}

Records == [os : OSStates, kids : KidStates, inJob : BOOLEAN,
            handles : SUBSET Handles, managed : BOOLEAN, result : Results]

WaitSteps == {"cancel?", "deadline?", "poll", "terminate", "confirm"}
Created   == {"job", "configure", "assign", "resume", "thread"}

OwnedRecord(r) == r.managed /\ r.handles # {}

Sound(r) ==
  /\ r.os = "running" \/ r.kids # "none" => r.inJob
  /\ r.managed => r.inJob /\ r.os # "none"
  /\ OwnedRecord(r) => r.result = "NONE"
  /\ r.result \in Ended => r.os \in {"dying", "exited"}
  /\ r.result = "EXITED" => r.os = "exited"

Dead(r) == r.managed /\ r.handles = {} =>
             r.os \notin {"suspended", "running"} /\ r.kids # "alive"

RecordsOK ==
  /\ proc \in [Procs -> Records]
  /\ \A p \in Procs : Sound(proc[p]) /\ (p \notin Survivors => Dead(proc[p]))
  /\ active = {p \in Procs : OwnedRecord(proc[p])}

CallInv ==
  /\ TypeOK
  /\ pc \in LaunchSteps => ~proc[cur].managed /\ proc[cur].result = "NONE"
  /\ pc \in LaunchSteps \ {"thread"} =>
       proc[cur].os \in {"none", "suspended"} /\ proc[cur].kids = "none"
  /\ pc \in Created => "process" \in proc[cur].handles
  /\ pc \in {"resume", "thread"} => proc[cur].inJob /\ proc[cur].os # "none"
  /\ pc \in {"job", "configure", "assign"} => proc[cur].os # "none"
  /\ pc \in WaitSteps => OwnedRecord(proc[cur])
  /\ pc = "confirm" /\ ~failed => proc[cur].os \in {"dying", "exited"}
  /\ pc = "idle" => ~running /\ reason = "NONE"
  /\ reason = "STOPPED" => ~running
  /\ closed /\ pc = "idle" => active = {}
  /\ closed /\ pc \in LaunchSteps => running /\ active = {}
  /\ closed /\ pc \in WaitSteps => running /\ active \subseteq {cur}

IInv == RecordsOK /\ CallInv

-----------------------------------------------------------------------------
(* What the operating system's operations do to a record. *)
LEMMA KillTreeFacts ==
  ASSUME NEW r \in Records
  PROVE  /\ KillTree(r) \in Records
         /\ KillTree(r).os = IF r.inJob THEN Condemn(r.os) ELSE r.os
         /\ KillTree(r).kids = IF r.inJob THEN Condemn(r.kids) ELSE r.kids
         /\ KillTree(r).inJob = r.inJob /\ KillTree(r).handles = r.handles
         /\ KillTree(r).managed = r.managed /\ KillTree(r).result = r.result
BY DEF KillTree, Records, Condemn, OSStates, KidStates

LEMMA ReleaseFacts ==
  ASSUME NEW p \in Procs, NEW r \in Records
  PROVE  /\ Release(p, r) \in Records
         /\ Release(p, r).handles = {}
         /\ Release(p, r).os = IF p \notin Survivors /\ r.inJob THEN Condemn(r.os) ELSE r.os
         /\ Release(p, r).kids = IF p \notin Survivors /\ r.inJob THEN Condemn(r.kids) ELSE r.kids
         /\ Release(p, r).inJob = r.inJob
         /\ Release(p, r).managed = r.managed /\ Release(p, r).result = r.result
<1> DEFINE k == IF p \in Survivors THEN r ELSE KillTree(r)
<1>1. /\ k \in Records
      /\ k.os = IF p \notin Survivors /\ r.inJob THEN Condemn(r.os) ELSE r.os
      /\ k.kids = IF p \notin Survivors /\ r.inJob THEN Condemn(r.kids) ELSE r.kids
      /\ k.inJob = r.inJob /\ k.managed = r.managed /\ k.result = r.result
  BY KillTreeFacts
<1>2. Release(p, r) = [k EXCEPT !.handles = {}]
  BY DEF Release
<1> HIDE DEF k
<1> QED
  BY <1>1, <1>2 DEF Records

(* One record changes. *)
LEMMA Change ==
  ASSUME RecordsOK, NEW p \in Procs, NEW r \in Records, proc' = [proc EXCEPT ![p] = r],
         Sound(r), p \notin Survivors => Dead(r),
         active' = IF OwnedRecord(r) THEN active \cup {p} ELSE active \ {p}
  PROVE  /\ RecordsOK'
         /\ proc'[p] = r
         /\ \A q \in Procs \ {p} : proc'[q] = proc[q]
<1>1. /\ proc' \in [Procs -> Records] /\ proc'[p] = r
      /\ \A q \in Procs \ {p} : proc'[q] = proc[q]
  BY DEF RecordsOK
<1>2. active' = {q \in Procs : OwnedRecord(proc'[q])}
  BY <1>1 DEF RecordsOK
<1>3. \A q \in Procs : Sound(proc'[q]) /\ (q \notin Survivors => Dead(proc'[q]))
  BY <1>1 DEF RecordsOK
<1> QED
  BY <1>1, <1>2, <1>3 DEF RecordsOK

(* A record that is released, with or without a termination, is sound.     *)
LEMMA ReleasedIsSound ==
  ASSUME NEW p \in Procs, NEW r \in Records, Sound(r), r.managed,
         NEW result \in Results,
         result \in Ended => r.os \in {"dying", "exited"},
         result = "EXITED" => r.os = "exited"
  PROVE  LET s == [Release(p, r) EXCEPT !.result = result]
         IN  /\ s \in Records /\ Sound(s) /\ (p \notin Survivors => Dead(s))
             /\ ~OwnedRecord(s) /\ s.handles = {} /\ s.managed
             /\ s.result = result
<1> DEFINE f == Release(p, r)
           s == [f EXCEPT !.result = result]
<1>1. /\ f \in Records /\ f.handles = {} /\ f.inJob = r.inJob /\ f.managed = r.managed
      /\ f.os = IF p \notin Survivors /\ r.inJob THEN Condemn(r.os) ELSE r.os
      /\ f.kids = IF p \notin Survivors /\ r.inJob THEN Condemn(r.kids) ELSE r.kids
  BY ReleaseFacts
<1> HIDE DEF f
<1>2. /\ s \in Records /\ s.handles = {} /\ s.inJob = r.inJob /\ s.managed = r.managed
      /\ s.os = f.os /\ s.kids = f.kids /\ s.result = result
  BY <1>1 DEF Records
<1> HIDE DEF s
<1>3. r.inJob /\ r.os # "none"
  BY DEF Sound
<1>4. Sound(s) /\ (p \notin Survivors => Dead(s)) /\ ~OwnedRecord(s)
  BY <1>1, <1>2, <1>3 DEF Sound, Dead, OwnedRecord, Condemn, Records, OSStates, KidStates, Ended
<1> QED
  BY <1>2, <1>4 DEF s, f
-----------------------------------------------------------------------------
LEMMA InitIInv == Init => IInv
<1> SUFFICES ASSUME Init
             PROVE  IInv
  OBVIOUS
<1>1. /\ Unlaunched \in Records /\ Sound(Unlaunched) /\ Dead(Unlaunched)
      /\ ~OwnedRecord(Unlaunched)
  BY DEF Unlaunched, Records, OSStates, KidStates, Results, Sound, Dead, OwnedRecord, Ended
<1>2. RecordsOK
  BY <1>1 DEF Init, RecordsOK
<1>3. CallInv
  BY <1>2 DEF Init, CallInv, TypeOK, RecordsOK, Records, OSStates, KidStates, LaunchSteps,
     Created, WaitSteps
<1> QED
  BY <1>2, <1>3 DEF IInv

(* launch: every step leaves a record that is not managed yet.             *)
LEMMA LaunchChange ==
  ASSUME IInv, pc \in LaunchSteps, NEW r \in Records, Sound(r), ~r.managed,
         proc' = [proc EXCEPT ![cur] = r], active' = active
  PROVE  RecordsOK' /\ proc'[cur] = r /\ cur \in Procs
<1>1. cur \in Procs /\ ~proc[cur].managed
  BY DEF IInv, CallInv, TypeOK, LaunchSteps
<1>2. cur \notin active
  BY <1>1 DEF IInv, RecordsOK, OwnedRecord
<1>3. ~OwnedRecord(r) /\ Dead(r)
  BY DEF OwnedRecord, Dead
<1> QED
  BY <1>1, <1>2, <1>3, Change DEF IInv

LEMMA CurrentRecord ==
  ASSUME IInv, pc \in LaunchSteps
  PROVE  /\ cur \in Procs /\ proc[cur] \in Records /\ Sound(proc[cur])
         /\ ~proc[cur].managed /\ proc[cur].result = "NONE"
BY DEF IInv, CallInv, TypeOK, LaunchSteps, RecordsOK

LEMMA LaunchProgress ==
  ASSUME IInv, NEW step \in LaunchSteps \ {"thread"}, NEW next \in LaunchSteps,
         NEW r \in Records, Step(step, next, r),
         r.managed = proc[cur].managed, r.result = proc[cur].result, r.kids = proc[cur].kids,
         r.os = "running" => r.inJob,
         next # "thread" => r.os \in {"none", "suspended"},
         next \in Created => "process" \in r.handles /\ r.os # "none",
         next \in {"resume", "thread"} => r.inJob
  PROVE  IInv'
<1>1. /\ pc = step /\ pc' = next /\ proc' = [proc EXCEPT ![cur] = r]
      /\ UNCHANGED << active, closed, cur, running, reason, failed, cancelled, expired >>
  BY DEF Step, Goto, supervisor, environment
<1>2. /\ pc \in LaunchSteps /\ proc[cur] \in Records /\ Sound(proc[cur])
      /\ ~proc[cur].managed /\ proc[cur].result = "NONE" /\ proc[cur].kids = "none"
  BY <1>1, CurrentRecord DEF IInv, CallInv
<1>3. Sound(r)
  BY <1>2 DEF Sound, OwnedRecord, Ended
<1>4. RecordsOK' /\ proc'[cur] = r /\ cur \in Procs
  BY <1>1, <1>2, <1>3, LaunchChange
<1>5. CallInv'
  BY <1>1, <1>2, <1>4 DEF IInv, CallInv, TypeOK, RecordsOK, Records, OSStates, KidStates,
     LaunchSteps, Created, WaitSteps
<1> QED
  BY <1>4, <1>5 DEF IInv

LEMMA ProgressSteps ==
  ASSUME IInv,
         \/ OpenStdout \/ OpenStderr \/ CreateSuspended \/ CreateJob \/ Configure
         \/ AssignToJob \/ ResumeThread
  PROVE  IInv'
<1> DEFINE c == proc[cur]
<1>1. /\ pc \in LaunchSteps /\ c \in Records /\ c.kids = "none" /\ c.os \in {"none", "suspended"}
      /\ pc \in Created => "process" \in c.handles /\ c.os # "none"
      /\ pc \in {"resume", "thread"} => c.inJob
  <2>1. pc \in LaunchSteps \ {"thread"}
    BY DEF OpenStdout, OpenStderr, CreateSuspended, CreateJob, Configure, AssignToJob,
       ResumeThread, Step, LaunchSteps
  <2> QED
    BY <2>1, CurrentRecord DEF IInv, CallInv, Created
<1> DEFINE Held(hs) == [c EXCEPT !.handles = c.handles \cup hs]
<1>2. ASSUME NEW hs \in SUBSET Handles
      PROVE  /\ Held(hs) \in Records /\ Held(hs).managed = c.managed
             /\ Held(hs).result = c.result /\ Held(hs).os = c.os /\ Held(hs).kids = c.kids
             /\ Held(hs).inJob = c.inJob /\ hs \subseteq Held(hs).handles
             /\ c.handles \subseteq Held(hs).handles
  BY <1>1 DEF Records
<1>3. \A hs : Hold(hs) = Held(hs)
  BY DEF Hold
<1> HIDE DEF Held
<1>4. CASE OpenStdout \/ OpenStderr
  <2>1. {"stdout"} \in SUBSET Handles /\ {"stderr"} \in SUBSET Handles
    BY DEF Handles, Outputs
  <2>2. CASE OpenStdout
    <3>1. Step("stdout", "stderr", Held({"stdout"}))
      BY <1>3, <2>2 DEF OpenStdout
    <3> QED
      BY <1>1, <1>2, <2>1, <3>1, LaunchProgress DEF LaunchSteps, Created
  <2>3. CASE OpenStderr
    <3>1. Step("stderr", "create", Held({"stderr"}))
      BY <1>3, <2>3 DEF OpenStderr
    <3> QED
      BY <1>1, <1>2, <2>1, <3>1, LaunchProgress DEF LaunchSteps, Created
  <2> QED
    BY <1>4, <2>2, <2>3
<1>5. CASE CreateSuspended
  <2> DEFINE h == Held({"process", "thread"})
             r == [h EXCEPT !.os = "suspended"]
  <2>1. {"process", "thread"} \in SUBSET Handles
    BY DEF Handles
  <2>2. h \in Records /\ h.managed = c.managed /\ h.result = c.result /\ h.kids = c.kids
        /\ "process" \in h.handles
    BY <1>2, <2>1
  <2>3. Step("create", "job", r)
    BY <1>3, <1>5 DEF CreateSuspended
  <2> HIDE DEF h
  <2>4. /\ r \in Records /\ r.managed = c.managed /\ r.result = c.result /\ r.kids = c.kids
        /\ r.os = "suspended" /\ "process" \in r.handles
    BY <2>2 DEF Records, OSStates
  <2> HIDE DEF r
  <2> QED
    BY <2>3, <2>4, LaunchProgress DEF LaunchSteps
<1>6. CASE CreateJob
  <2>1. {"job"} \in SUBSET Handles
    BY DEF Handles
  <2>2. Step("job", "configure", Held({"job"})) /\ pc = "job"
    BY <1>3, <1>6 DEF CreateJob, Step
  <2> QED
    BY <1>1, <1>2, <2>1, <2>2, LaunchProgress DEF LaunchSteps, Created
<1>7. CASE Configure
  <2>1. Step("configure", "assign", c) /\ pc = "configure"
    BY <1>7 DEF Configure, Step
  <2> QED
    BY <1>1, <2>1, LaunchProgress DEF LaunchSteps, Created
<1>8. CASE AssignToJob
  <2> DEFINE r == [c EXCEPT !.inJob = TRUE]
  <2>1. Step("assign", "resume", r) /\ pc = "assign"
    BY <1>8 DEF AssignToJob, Step
  <2>2. /\ r \in Records /\ r.managed = c.managed /\ r.result = c.result /\ r.kids = c.kids
        /\ r.os = c.os /\ r.handles = c.handles /\ r.inJob
    BY <1>1 DEF Records
  <2> HIDE DEF r
  <2> QED
    BY <1>1, <2>1, <2>2, LaunchProgress DEF LaunchSteps, Created
<1>9. CASE ResumeThread
  <2> DEFINE r == [c EXCEPT !.os = "running"]
  <2>1. Step("resume", "thread", r) /\ pc = "resume"
    BY <1>9 DEF ResumeThread, Step
  <2>2. /\ r \in Records /\ r.managed = c.managed /\ r.result = c.result /\ r.kids = c.kids
        /\ r.os = "running" /\ r.handles = c.handles /\ r.inJob = c.inJob
    BY <1>1 DEF Records, OSStates
  <2> HIDE DEF r
  <2> QED
    BY <1>1, <2>1, <2>2, LaunchProgress DEF LaunchSteps, Created
<1> QED
  BY <1>4, <1>5, <1>6, <1>7, <1>8, <1>9

LEMMA LaunchedStep ==
  ASSUME IInv, Launched
  PROVE  IInv'
<1> DEFINE c == proc[cur]
           r == [c EXCEPT !.handles = c.handles \ {"thread"}, !.managed = TRUE]
<1>1. /\ pc = "thread" /\ proc' = [proc EXCEPT ![cur] = r] /\ active' = active \cup {cur}
      /\ UNCHANGED << closed, cancelled, expired >>
      /\ \/ running /\ pc' = "cancel?" /\ UNCHANGED << cur, running, reason, failed >>
         \/ ~running /\ pc' = "idle" /\ cur' = NoProc /\ running' = FALSE /\ reason' = "NONE"
            /\ failed' = FALSE
  BY DEF Launched, environment, Goto, Return
<1>2. /\ cur \in Procs /\ c \in Records /\ Sound(c) /\ c.result = "NONE" /\ c.inJob
      /\ c.os # "none" /\ "process" \in c.handles
  BY <1>1, CurrentRecord DEF IInv, CallInv, LaunchSteps, Created
<1>3. /\ r \in Records /\ r.managed /\ "process" \in r.handles /\ r.result = "NONE"
      /\ r.inJob /\ r.os # "none" /\ r.os = c.os
  BY <1>2 DEF Records
<1> HIDE DEF r
<1>4. Sound(r) /\ OwnedRecord(r) /\ Dead(r)
  BY <1>3 DEF Sound, OwnedRecord, Dead, Ended
<1>5. RecordsOK' /\ proc'[cur] = r
  BY <1>1, <1>2, <1>3, <1>4, Change DEF IInv
<1>6. CallInv'
  BY <1>1, <1>2, <1>4, <1>5, ProcsAssumption
     DEF IInv, CallInv, TypeOK, RecordsOK, Records, OSStates, KidStates, LaunchSteps,
         Created, WaitSteps
<1> QED
  BY <1>5, <1>6 DEF IInv

LEMMA LaunchFailsStep ==
  ASSUME IInv, NEW terminated \in BOOLEAN, LaunchFails(terminated)
  PROVE  IInv'
<1> DEFINE c == proc[cur]
           k == IF terminated THEN KillTree(c) ELSE c
           a == IF pc \in {"stdout", "stderr", "create"} THEN c ELSE Release(cur, k)
           r == [a EXCEPT !.result = "START_FAILED"]
<1>1. /\ pc \in LaunchSteps \ {"thread"} /\ proc' = [proc EXCEPT ![cur] = r]
      /\ active' = active /\ UNCHANGED << closed, cancelled, expired >>
      /\ pc' = "idle" /\ cur' = NoProc /\ running' = FALSE /\ reason' = "NONE"
      /\ failed' = FALSE
  BY DEF LaunchFails, LaunchSteps, Return, supervisor, environment
<1>2. /\ cur \in Procs /\ c \in Records /\ Sound(c) /\ ~c.managed
      /\ c.os \in {"none", "suspended"} /\ c.kids = "none"
  BY <1>1, CurrentRecord DEF IInv, CallInv, LaunchSteps
<1>3. /\ k \in Records /\ ~k.managed /\ k.kids = "none" /\ k.os # "running"
  BY <1>2, KillTreeFacts DEF Condemn
<1> HIDE DEF k
<1>4. /\ a \in Records /\ ~a.managed /\ a.kids = "none" /\ a.os # "running"
  BY <1>2, <1>3, ReleaseFacts DEF Condemn
<1> HIDE DEF a
<1>5. /\ r \in Records /\ ~r.managed /\ r.kids = "none" /\ r.os # "running"
      /\ r.result = "START_FAILED"
  BY <1>4 DEF Records, Results
<1> HIDE DEF r
<1>6. Sound(r)
  BY <1>5 DEF Sound, OwnedRecord, Ended
<1>7. RecordsOK'
  BY <1>1, <1>5, <1>6, LaunchChange
<1>8. CallInv'
  BY <1>1, <1>7 DEF IInv, CallInv, TypeOK, RecordsOK, Records, OSStates, KidStates,
     LaunchSteps, Created, WaitSteps
<1> QED
  BY <1>7, <1>8 DEF IInv
-----------------------------------------------------------------------------
(* wait and stop.                                                          *)
LEMMA WaitRecord ==
  ASSUME IInv, pc \in WaitSteps
  PROVE  /\ cur \in Procs /\ proc[cur] \in Records /\ Sound(proc[cur])
         /\ OwnedRecord(proc[cur]) /\ proc[cur].managed /\ cur \in active
BY DEF IInv, CallInv, TypeOK, RecordsOK, WaitSteps, OwnedRecord

(* Letting go of a process that a call is about, however that came.        *)
LEMMA CollectStep ==
  ASSUME IInv, NEW p \in Procs, NEW k \in Records, Sound(k), k.managed, NEW result \in Results,
         result \in Ended => k.os \in {"dying", "exited"},
         result = "EXITED" => k.os = "exited",
         proc' = [proc EXCEPT ![p] = [Release(p, k) EXCEPT !.result = result]],
         active' = active \ {p}
  PROVE  RecordsOK'
<1> DEFINE r == [Release(p, k) EXCEPT !.result = result]
<1>1. /\ r \in Records /\ Sound(r) /\ (p \notin Survivors => Dead(r)) /\ ~OwnedRecord(r)
  BY ReleasedIsSound
<1> HIDE DEF r
<1>2. proc' = [proc EXCEPT ![p] = r]
  BY DEF r
<1> QED
  BY <1>1, <1>2, Change DEF IInv

(* The call is over and its process is no longer registered.               *)
LEMMA ReturnedCall ==
  ASSUME IInv, RecordsOK', pc \in WaitSteps, Return, active' = active \ {cur},
         UNCHANGED << closed, cancelled, expired >>
  PROVE  IInv'
<1>1. CallInv'
  BY DEF Return, IInv, CallInv, TypeOK, RecordsOK, Records, OSStates, KidStates,
     LaunchSteps, Created, WaitSteps
<1> QED
  BY <1>1 DEF IInv

LEMMA CollectPreserves ==
  ASSUME IInv, pc \in WaitSteps, NEW result \in Results, Collect(result),
         result \in Ended => proc[cur].os \in {"dying", "exited"},
         result = "EXITED" => proc[cur].os = "exited"
  PROVE  IInv'
<1>1. /\ proc' = [proc EXCEPT ![cur] = [Release(cur, proc[cur]) EXCEPT !.result = result]]
      /\ active' = active \ {cur} /\ Return
      /\ UNCHANGED << closed, cancelled, expired >>
  BY DEF Collect, environment
<1>2. RecordsOK'
  BY <1>1, WaitRecord, CollectStep
<1> QED
  BY <1>1, <1>2, ReturnedCall

(* A step that changes no record. *)
LEMMA SameRecords ==
  ASSUME RecordsOK, UNCHANGED << proc, active >>
  PROVE  RecordsOK'
BY DEF RecordsOK

LEMMA WaitLoopSteps ==
  ASSUME IInv, CheckCancel \/ CheckDeadline \/ Poll \/ WaitFails
  PROVE  IInv'
<1>1. CASE CheckCancel \/ CheckDeadline \/ (Poll /\ proc[cur].os # "exited")
  <2>1. /\ UNCHANGED << proc, active, closed, cur, running, failed, cancelled, expired >>
        /\ pc \in {"cancel?", "deadline?", "poll"}
        /\ \/ pc' = "terminate" /\ reason' \in {"CANCELLED", "TIMEOUT"}
           \/ pc' \in {"cancel?", "deadline?", "poll"} /\ reason' = reason
    BY <1>1 DEF CheckCancel, CheckDeadline, Poll, Terminate, Goto, supervisor, environment
  <2>2. RecordsOK'
    BY <2>1, SameRecords DEF IInv
  <2>3. CallInv'
    BY <2>1, <2>2 DEF IInv, CallInv, TypeOK, LaunchSteps, Created, WaitSteps
  <2> QED
    BY <2>2, <2>3 DEF IInv
<1>2. CASE Poll /\ proc[cur].os = "exited"
  <2>1. pc \in WaitSteps /\ Collect("EXITED") /\ "EXITED" \in Results
    BY <1>2 DEF Poll, WaitSteps, Results, Ended
  <2> QED
    BY <1>2, <2>1, CollectPreserves
<1>3. CASE WaitFails
  <2>1. /\ pc \in WaitSteps /\ Collect("WAIT_FAILED")
        /\ "WAIT_FAILED" \in Results /\ "WAIT_FAILED" \notin Ended /\ "WAIT_FAILED" # "EXITED"
    BY <1>3 DEF WaitFails, WaitSteps, Results, Ended
  <2> QED
    BY <2>1, CollectPreserves
<1> QED
  BY <1>1, <1>2, <1>3

LEMMA ConfirmSteps ==
  ASSUME IInv, ConfirmExit \/ ConfirmExpires
  PROVE  IInv'
<1>1. pc = "confirm" /\ pc \in WaitSteps
  BY DEF ConfirmExit, ConfirmExpires, WaitSteps
<1>2. reason \in Results /\ reason # "EXITED"
  BY DEF IInv, CallInv, TypeOK, Results, Ended
<1>3. CASE ConfirmExit
  BY <1>1, <1>2, <1>3, CollectPreserves DEF ConfirmExit
<1>4. CASE ConfirmExpires
  <2>1. CASE failed
    <3>1. /\ Collect("TERMINATION_FAILED") /\ "TERMINATION_FAILED" \in Results
          /\ "TERMINATION_FAILED" \notin Ended /\ "TERMINATION_FAILED" # "EXITED"
      BY <1>4, <2>1 DEF ConfirmExpires, Unconfirmed, Results, Ended
    <3> QED
      BY <1>1, <3>1, CollectPreserves
  <2>2. CASE ~failed
    <3>1. Collect(reason) /\ proc[cur].os \in {"dying", "exited"}
      BY <1>1, <1>4, <2>2 DEF ConfirmExpires, Unconfirmed, IInv, CallInv
    <3> QED
      BY <1>1, <1>2, <3>1, CollectPreserves
  <2> QED
    BY <2>1, <2>2
<1> QED
  BY <1>3, <1>4

LEMMA TerminateJobStep ==
  ASSUME IInv, NEW ok \in BOOLEAN, TerminateJob(ok)
  PROVE  IInv'
<1> DEFINE c == proc[cur]
           r == IF ok THEN KillTree(c) ELSE c
<1>1. /\ pc = "terminate" /\ pc' = "confirm" /\ failed' = ~ok
      /\ UNCHANGED << active, closed, cur, running, reason, cancelled, expired >>
  BY DEF TerminateJob, supervisor, environment
<1>2. /\ cur \in Procs /\ c \in Records /\ Sound(c) /\ OwnedRecord(c) /\ cur \in active
      /\ c.inJob /\ c.os # "none" /\ c.result = "NONE"
  BY <1>1, WaitRecord DEF WaitSteps, Sound
<1>3. proc' = [proc EXCEPT ![cur] = r]
  <2>1. proc = [proc EXCEPT ![cur] = proc[cur]]
    BY <1>2 DEF IInv, RecordsOK
  <2> QED
    BY <2>1 DEF TerminateJob
<1>4. /\ r \in Records /\ r.inJob /\ r.managed = c.managed /\ r.handles = c.handles
      /\ r.result = "NONE" /\ r.os # "none" /\ (ok => r.os \in {"dying", "exited"})
  BY <1>2, KillTreeFacts DEF Condemn, Records, OSStates
<1> HIDE DEF r
<1>5. Sound(r) /\ OwnedRecord(r) /\ Dead(r)
  BY <1>2, <1>4 DEF Sound, OwnedRecord, Dead, Ended
<1>6. RecordsOK' /\ proc'[cur] = r
  <2>1. active' = active \cup {cur}
    BY <1>1, <1>2
  <2> QED
    BY <1>2, <1>3, <1>4, <1>5, <2>1, Change DEF IInv
<1>7. CallInv'
  BY <1>1, <1>4, <1>5, <1>6 DEF IInv, CallInv, TypeOK, RecordsOK, Records, OSStates, KidStates,
     LaunchSteps, Created, WaitSteps
<1> QED
  BY <1>6, <1>7 DEF IInv

LEMMA StopRaisesStep ==
  ASSUME IInv, StopRaises
  PROVE  IInv'
<1>1. /\ pc = "confirm" /\ reason = "STOPPED" /\ Return
      /\ UNCHANGED << proc, active, closed, cancelled, expired >>
  BY DEF StopRaises, supervisor, environment
<1>2. RecordsOK'
  BY <1>1, SameRecords DEF IInv
<1>3. ~closed
  BY <1>1 DEF IInv, CallInv, WaitSteps
<1>4. CallInv'
  BY <1>1, <1>3 DEF Return, IInv, CallInv, TypeOK, LaunchSteps, Created, WaitSteps
<1> QED
  BY <1>2, <1>4 DEF IInv

LEMMA InterruptStep ==
  ASSUME IInv, NEW terminated \in BOOLEAN, Interrupt(terminated)
  PROVE  IInv'
<1>1. pc \in WaitSteps /\ Return /\ UNCHANGED << closed, cancelled, expired >>
  BY DEF Interrupt, WaitSteps, environment
<1>2. CASE running
  <2> DEFINE c == proc[cur]
             k == IF terminated THEN KillTree(c) ELSE c
  <2>1. proc' = [proc EXCEPT ![cur] = Release(cur, k)] /\ active' = active \ {cur}
    BY <1>2 DEF Interrupt
  <2>2. /\ cur \in Procs /\ c \in Records /\ Sound(c) /\ OwnedRecord(c) /\ c.managed
        /\ c.result = "NONE" /\ c.inJob /\ c.os # "none"
    BY <1>1, WaitRecord DEF Sound
  <2>3. /\ k \in Records /\ k.managed /\ k.result = "NONE" /\ k.inJob /\ k.os # "none"
    BY <2>2, KillTreeFacts DEF Condemn
  <2>4. Sound(k)
    BY <2>3 DEF Sound, Ended
  <2> HIDE DEF k
  <2>5. Release(cur, k) = [Release(cur, k) EXCEPT !.result = "NONE"]
    BY <2>2, <2>3, ReleaseFacts DEF Records
  <2>6. "NONE" \in Results /\ "NONE" \notin Ended /\ "NONE" # "EXITED"
    BY DEF Results, Ended
  <2>7. RecordsOK'
    BY <2>1, <2>2, <2>3, <2>4, <2>5, <2>6, CollectStep
  <2> QED
    BY <1>1, <2>1, <2>7, ReturnedCall
<1>3. CASE ~running
  <2>1. UNCHANGED << proc, active >>
    BY <1>3 DEF Interrupt
  <2>2. RecordsOK'
    BY <2>1, SameRecords DEF IInv
  <2>3. ~closed
    BY <1>1, <1>3 DEF IInv, CallInv
  <2>4. CallInv'
    BY <1>1, <2>1, <2>3 DEF Return, IInv, CallInv, TypeOK, LaunchSteps, Created, WaitSteps
  <2> QED
    BY <2>2, <2>4 DEF IInv
<1> QED
  BY <1>2, <1>3
-----------------------------------------------------------------------------
(* The calls of the client, and close. *)
LEMMA StartCallSteps ==
  ASSUME IInv, NEW p \in Procs, StartWait(p) \/ \E isRun \in BOOLEAN : StartLaunch(p, isRun)
  PROVE  IInv'
<1>1. UNCHANGED << proc, active, closed, reason, failed, cancelled, expired >>
      /\ pc = "idle" /\ cur' = p
  BY DEF StartWait, StartLaunch, supervisor, environment
<1>2. RecordsOK'
  BY <1>1, SameRecords DEF IInv
<1>3. CASE StartWait(p)
  <2>1. OwnedRecord(proc[p]) /\ p \in active /\ pc' = "cancel?" /\ running' = running
    BY <1>3 DEF StartWait, Owned, OwnedRecord, IInv, RecordsOK
  <2> QED
    BY <1>1, <1>2, <2>1, ProcsAssumption
       DEF IInv, CallInv, TypeOK, LaunchSteps, Created, WaitSteps
<1>4. ASSUME NEW isRun \in BOOLEAN, StartLaunch(p, isRun)
      PROVE  IInv'
  <2>1. /\ pc' = "stdout" /\ running' = isRun /\ (isRun \/ ~closed)
        /\ ~proc[p].managed /\ proc[p].result = "NONE" /\ proc[p].os = "none"
        /\ proc[p].kids = "none"
    BY <1>4 DEF StartLaunch, Unlaunched
  <2> QED
    BY <1>1, <1>2, <2>1, ProcsAssumption
       DEF IInv, CallInv, TypeOK, LaunchSteps, Created, WaitSteps
<1> QED
  BY <1>3, <1>4

LEMMA StopStep ==
  ASSUME IInv, NEW p \in Procs, Stop(p)
  PROVE  IInv'
<1>1. /\ pc = "idle" /\ p \in active /\ OwnedRecord(proc[p]) /\ ~closed
      /\ UNCHANGED << closed, running, failed, cancelled, expired >>
  BY DEF Stop, Owned, OwnedRecord, call, environment, supervisor, IInv, CallInv, RecordsOK
<1>2. CASE proc[p].os = "exited"
  <2>1. /\ proc' = [proc EXCEPT ![p] = [Release(p, proc[p]) EXCEPT !.result = "EXITED"]]
        /\ active' = active \ {p} /\ UNCHANGED << pc, cur, reason >>
    BY <1>2 DEF Stop, call
  <2>2. /\ proc[p] \in Records /\ Sound(proc[p]) /\ proc[p].managed
        /\ "EXITED" \in Results
    BY <1>1 DEF IInv, RecordsOK, OwnedRecord, Results, Ended
  <2>3. RecordsOK'
    BY <1>2, <2>1, <2>2, CollectStep
  <2> QED
    BY <1>1, <2>1, <2>3 DEF IInv, CallInv, TypeOK, RecordsOK, Records, OSStates, KidStates,
       LaunchSteps, Created, WaitSteps
<1>3. CASE proc[p].os # "exited"
  <2>1. /\ UNCHANGED << proc, active >> /\ pc' = "terminate" /\ cur' = p
        /\ reason' = "STOPPED"
    BY <1>3 DEF Stop, supervisor
  <2>2. RecordsOK'
    BY <2>1, SameRecords DEF IInv
  <2> QED
    BY <1>1, <2>1, <2>2, ProcsAssumption
       DEF IInv, CallInv, TypeOK, LaunchSteps, Created, WaitSteps
<1> QED
  BY <1>2, <1>3

LEMMA CloseSteps ==
  ASSUME IInv, StartClose \/ EndClose
  PROVE  IInv'
<1>1. UNCHANGED << proc, active, cancelled, expired >>
  BY DEF StartClose, EndClose, supervisor, environment
<1>2. RecordsOK'
  BY <1>1, SameRecords DEF IInv
<1>3. CallInv'
  BY <1>1 DEF StartClose, EndClose, Goto, Return, supervisor, IInv, CallInv, TypeOK,
     LaunchSteps, Created, WaitSteps
<1> QED
  BY <1>2, <1>3 DEF IInv

LEMMA CloseNextStep ==
  ASSUME IInv, NEW terminated \in BOOLEAN, CloseNext(terminated)
  PROVE  IInv'
<1>1. PICK p \in active :
        /\ proc' = [proc EXCEPT ![p] = Release(p, IF terminated THEN KillTree(proc[p]) ELSE proc[p])]
        /\ active' = active \ {p}
  BY DEF CloseNext
<1> DEFINE c == proc[p]
           k == IF terminated THEN KillTree(c) ELSE c
<1>2. /\ p \in Procs /\ c \in Records /\ Sound(c) /\ OwnedRecord(c) /\ c.managed
      /\ c.result = "NONE" /\ c.inJob /\ c.os # "none"
  BY DEF IInv, RecordsOK, OwnedRecord, Sound
<1>3. /\ k \in Records /\ k.managed /\ k.result = "NONE" /\ k.inJob /\ k.os # "none"
  BY <1>2, KillTreeFacts DEF Condemn
<1>4. Sound(k) /\ proc' = [proc EXCEPT ![p] = Release(p, k)]
  BY <1>1, <1>3 DEF Sound, Ended
<1> HIDE DEF k
<1>5. Release(p, k) = [Release(p, k) EXCEPT !.result = "NONE"]
  BY <1>2, <1>3, ReleaseFacts DEF Records
<1>6. "NONE" \in Results /\ "NONE" \notin Ended /\ "NONE" # "EXITED"
  BY DEF Results, Ended
<1>7. RecordsOK'
  <2>1. proc' = [proc EXCEPT ![p] = [Release(p, k) EXCEPT !.result = "NONE"]]
    BY <1>4, <1>5
  <2> QED
    BY <1>1, <1>2, <1>3, <1>4, <1>6, <2>1, CollectStep
<1>8. /\ UNCHANGED << closed, pc, cur, running, reason, failed, cancelled, expired >>
      /\ pc = "closing"
  BY DEF CloseNext, call, environment
<1>9. CallInv'
  BY <1>1, <1>7, <1>8 DEF IInv, CallInv, TypeOK, RecordsOK, Records, OSStates, KidStates,
     LaunchSteps, Created, WaitSteps
<1> QED
  BY <1>7, <1>9 DEF IInv

-----------------------------------------------------------------------------
(* Processes live and die by themselves. *)
LEMMA OSStep ==
  ASSUME IInv, NEW p \in Procs, ProcessEnds(p) \/ ChildStarts(p) \/ ChildEnds(p)
  PROVE  IInv'
<1> DEFINE c == proc[p]
<1>1. /\ c \in Records /\ Sound(c) /\ (p \notin Survivors => Dead(c))
  BY DEF IInv, RecordsOK
<1>2. PICK r \in Records :
        /\ proc' = [proc EXCEPT ![p] = r]
        /\ r.inJob = c.inJob /\ r.handles = c.handles /\ r.managed = c.managed
        /\ r.result = c.result
        /\ \/ c.os \in {"running", "dying"} /\ r.os = "exited" /\ r.kids = c.kids
           \/ c.os = "running" /\ r.os = c.os /\ r.kids = "alive"
           \/ c.kids \in {"alive", "dying"} /\ r.os = c.os /\ r.kids = "none"
  <2>1. CASE ProcessEnds(p)
    <3> DEFINE r == [c EXCEPT !.os = "exited"]
    <3>1. /\ r \in Records /\ r.os = "exited" /\ r.kids = c.kids /\ r.inJob = c.inJob
          /\ r.handles = c.handles /\ r.managed = c.managed /\ r.result = c.result
      BY <1>1 DEF Records, OSStates
    <3>2. proc' = [proc EXCEPT ![p] = r] /\ c.os \in {"running", "dying"}
      BY <2>1 DEF ProcessEnds
    <3> HIDE DEF r
    <3> QED
      BY <3>1, <3>2
  <2>2. CASE ChildStarts(p)
    <3> DEFINE r == [c EXCEPT !.kids = "alive"]
    <3>1. /\ r \in Records /\ r.kids = "alive" /\ r.os = c.os /\ r.inJob = c.inJob
          /\ r.handles = c.handles /\ r.managed = c.managed /\ r.result = c.result
      BY <1>1 DEF Records, KidStates
    <3>2. proc' = [proc EXCEPT ![p] = r] /\ c.os = "running"
      BY <2>2 DEF ChildStarts
    <3> HIDE DEF r
    <3> QED
      BY <3>1, <3>2
  <2>3. CASE ChildEnds(p)
    <3> DEFINE r == [c EXCEPT !.kids = "none"]
    <3>1. /\ r \in Records /\ r.kids = "none" /\ r.os = c.os /\ r.inJob = c.inJob
          /\ r.handles = c.handles /\ r.managed = c.managed /\ r.result = c.result
      BY <1>1 DEF Records, KidStates
    <3>2. proc' = [proc EXCEPT ![p] = r] /\ c.kids \in {"alive", "dying"}
      BY <2>3 DEF ChildEnds
    <3> HIDE DEF r
    <3> QED
      BY <3>1, <3>2
  <2> QED
    BY <2>1, <2>2, <2>3
<1>3. Sound(r) /\ (p \notin Survivors => Dead(r)) /\ (OwnedRecord(r) <=> OwnedRecord(c))
  BY <1>1, <1>2 DEF Sound, Dead, OwnedRecord, Ended, Records, OSStates, KidStates
<1>4. UNCHANGED << active, closed, pc, cur, running, reason, failed, cancelled, expired >>
  BY DEF ProcessEnds, ChildStarts, ChildEnds, supervisor, call, environment
<1>5. active' = IF OwnedRecord(r) THEN active \cup {p} ELSE active \ {p}
  BY <1>3, <1>4 DEF IInv, RecordsOK
<1>6. RecordsOK' /\ proc'[p] = r /\ \A q \in Procs \ {p} : proc'[q] = proc[q]
  BY <1>2, <1>3, <1>5, Change DEF IInv
<1>7. CallInv'
  <2>1. /\ cur \in Procs <=> pc \notin {"idle", "closing"}
        /\ pc \in LaunchSteps \cup WaitSteps => cur \in Procs
    BY ProcsAssumption DEF IInv, CallInv, TypeOK, LaunchSteps, WaitSteps
  <2>2. CASE cur = p
    BY <1>2, <1>3, <1>4, <1>6, <2>1, <2>2
       DEF IInv, CallInv, TypeOK, RecordsOK, Records, OSStates, KidStates, LaunchSteps,
           Created, WaitSteps
  <2>3. CASE cur # p
    BY <1>4, <1>6, <2>1, <2>3
       DEF IInv, CallInv, TypeOK, RecordsOK, Records, OSStates, KidStates, LaunchSteps,
           Created, WaitSteps
  <2> QED
    BY <2>2, <2>3
<1> QED
  BY <1>6, <1>7 DEF IInv

LEMMA QuietStep ==
  ASSUME IInv, Cancel \/ Expire \/ UNCHANGED vars
  PROVE  IInv'
<1>1. /\ UNCHANGED << proc, active, closed, pc, cur, running, reason, failed >>
      /\ cancelled' \in BOOLEAN /\ expired' \in BOOLEAN
  BY DEF Cancel, Expire, vars, supervisor, call, environment, IInv, CallInv, TypeOK
<1>2. RecordsOK'
  BY <1>1, SameRecords DEF IInv
<1>3. CallInv'
  BY <1>1 DEF IInv, CallInv, TypeOK
<1> QED
  BY <1>2, <1>3 DEF IInv

LEMMA NextIInv == IInv /\ [Next]_vars => IInv'
<1> SUFFICES ASSUME IInv, [Next]_vars
             PROVE  IInv'
  OBVIOUS
<1>1. CASE LaunchStep
  BY <1>1, ProgressSteps, LaunchedStep, LaunchFailsStep DEF LaunchStep
<1>2. CASE SupervisorStep /\ ~LaunchStep
  BY <1>2, WaitLoopSteps, ConfirmSteps, TerminateJobStep, StopRaisesStep, CloseSteps,
     CloseNextStep DEF SupervisorStep
<1>3. CASE KeyboardInterrupt
  BY <1>3, InterruptStep DEF KeyboardInterrupt
<1>4. CASE Client
  BY <1>4, StartCallSteps, StopStep, CloseSteps DEF Client
<1>5. CASE OS
  BY <1>5, OSStep DEF OS
<1>6. CASE Cancel \/ Expire \/ UNCHANGED vars
  BY <1>6, QuietStep
<1> QED
  BY <1>1, <1>2, <1>3, <1>4, <1>5, <1>6 DEF Next

(* The inductive invariant: every process record is sound, and the call in  *)
(* progress of the supervisor or the launcher may rely on what it relies on. *)
THEOREM IInvIsInvariant == Spec => []IInv
BY InitIInv, NextIInv, PTL DEF Spec
-----------------------------------------------------------------------------
(* The registry, the records and the call in progress keep their types.     *)
THEOREM TypeCorrect == Spec => []TypeOK
<1>1. IInv => TypeOK
  BY DEF IInv, CallInv
<1> QED
  BY <1>1, IInvIsInvariant, PTL

(* No process executes an instruction outside its job, however the launch   *)
(* went.                                                                    *)
THEOREM RunsBoxed == Spec => []NothingRunsUnboxed
<1>1. IInv => NothingRunsUnboxed
  BY DEF IInv, RecordsOK, Sound, NothingRunsUnboxed
<1> QED
  BY <1>1, IInvIsInvariant, PTL

(* A process that the supervisor has let go of leaves no living tree.       *)
THEOREM NoTreeEscapes == Spec => []ReleasedTreesDie
<1>1. IInv => ReleasedTreesDie
  BY DEF IInv, RecordsOK, Dead, Live, ReleasedTreesDie
<1> QED
  BY <1>1, IInvIsInvariant, PTL

(* Between calls the registry holds exactly the processes with handles, and *)
(* after close none, though run() does not look at _closed.                 *)
THEOREM RegistryIsExact == Spec => []RegistryOwnsHandles
<1>1. IInv => RegistryOwnsHandles
  BY DEF IInv, RecordsOK, CallInv, OwnedRecord, Owned, RegistryOwnsHandles
<1> QED
  BY <1>1, IInvIsInvariant, PTL

(* A result that adapters read as "cleaned up" is true of the process.      *)
THEOREM CleanedIsCondemned == Spec => []CleanedMeansCondemned
<1>1. IInv => CleanedMeansCondemned
  BY DEF IInv, RecordsOK, Sound, CleanedMeansCondemned
<1> QED
  BY <1>1, IInvIsInvariant, PTL
-----------------------------------------------------------------------------
(* The children of a survivor: letting go of its handles spares them.       *)
LEMMA SurvivorRelease ==
  ASSUME NEW p \in Survivors, NEW r \in Records, NEW result \in Results
  PROVE  [Release(p, r) EXCEPT !.result = result].kids = r.kids
<1> DEFINE f == Release(p, r)
<1>1. f \in Records /\ f.kids = r.kids
  BY ProcsAssumption, ReleaseFacts
<1> HIDE DEF f
<1>2. [f EXCEPT !.result = result].kids = r.kids
  BY <1>1 DEF Records
<1> QED
  BY <1>2 DEF f

LEMMA SurvivorStep ==
  ASSUME IInv, Next, NEW p \in Survivors, proc[p].kids = "alive", proc'[p].kids = "dying"
  PROVE  pc = "terminate" \/ proc'[p].result = "NONE"
<1>1. p \in Procs /\ proc \in [Procs -> Records] /\ proc' # proc
  BY ProcsAssumption DEF IInv, RecordsOK
<1>2. ASSUME LaunchStep
      PROVE  FALSE
  <2>1. /\ pc \in LaunchSteps /\ cur \in Procs /\ proc[cur] \in Records
        /\ pc # "thread" => proc[cur].kids = "none"
    <3>1. pc \in LaunchSteps
      BY <1>2 DEF LaunchStep, OpenStdout, OpenStderr, CreateSuspended, CreateJob, Configure,
         AssignToJob, ResumeThread, Launched, LaunchFails, Step, LaunchSteps
    <3> QED
      BY <3>1, CurrentRecord DEF IInv, CallInv
  <2>2. CASE pc = "thread"
    <3>1. proc' = [proc EXCEPT ![cur] =
                     [proc[cur] EXCEPT !.handles = proc[cur].handles \ {"thread"}, !.managed = TRUE]]
      BY <1>2, <2>2 DEF LaunchStep, OpenStdout, OpenStderr, CreateSuspended, CreateJob,
         Configure, AssignToJob, ResumeThread, Launched, LaunchFails, Step
    <3> QED
      BY <1>1, <2>1, <3>1 DEF Records
  <2>3. CASE pc # "thread"
    <3>1. p # cur
      BY <2>1, <2>3
    <3>2. proc'[p] = proc[p]
      BY <1>1, <1>2, <3>1 DEF LaunchStep, OpenStdout, OpenStderr, CreateSuspended, CreateJob,
         Configure, AssignToJob, ResumeThread, Launched, LaunchFails, Step
    <3> QED
      BY <3>2
  <2> QED
    BY <2>2, <2>3
<1>3. ASSUME NEW result \in Results, pc \in WaitSteps, Collect(result)
      PROVE  FALSE
  <2>1. cur \in Procs /\ proc[cur] \in Records
    BY <1>3, WaitRecord
  <2>2. proc' = [proc EXCEPT ![cur] = [Release(cur, proc[cur]) EXCEPT !.result = result]]
    BY <1>3 DEF Collect
  <2>3. CASE p = cur
    BY <1>1, <2>1, <2>2, <2>3, SurvivorRelease
  <2>4. CASE p # cur
    BY <1>1, <2>2, <2>4
  <2> QED
    BY <2>3, <2>4
<1>4. CASE CheckCancel \/ CheckDeadline \/ Poll \/ WaitFails \/ ConfirmExit \/ ConfirmExpires
  <2>1. \/ pc \in WaitSteps /\ \E result \in Results : Collect(result)
        \/ proc' = proc
    <3>1. reason \in Results /\ {"EXITED", "WAIT_FAILED", "TERMINATION_FAILED"} \subseteq Results
      BY DEF IInv, CallInv, TypeOK, Results, Ended
    <3> QED
      BY <1>4, <3>1 DEF CheckCancel, CheckDeadline, Poll, WaitFails, ConfirmExit, ConfirmExpires,
         Unconfirmed, Terminate, WaitSteps
  <2> QED
    BY <1>1, <1>3, <2>1
<1>5. ASSUME NEW q \in Procs, NEW k \in Records, k.result = "NONE",
             proc' = [proc EXCEPT ![q] = Release(q, k)]
      PROVE  proc'[p].result = "NONE"
  <2>1. p = q
    BY <1>1, <1>5
  <2> QED
    BY <1>1, <1>5, <2>1, ReleaseFacts
<1>6. ASSUME NEW ok \in BOOLEAN, CloseNext(ok)
      PROVE  proc'[p].result = "NONE"
  <2>1. PICK q \in active :
          proc' = [proc EXCEPT ![q] = Release(q, IF ok THEN KillTree(proc[q]) ELSE proc[q])]
    BY <1>6 DEF CloseNext
  <2>2. q \in Procs /\ proc[q] \in Records /\ proc[q].result = "NONE"
    BY DEF IInv, RecordsOK, Sound
  <2> DEFINE k == IF ok THEN KillTree(proc[q]) ELSE proc[q]
  <2>3. k \in Records /\ k.result = "NONE"
    BY <2>2, KillTreeFacts
  <2>4. proc' = [proc EXCEPT ![q] = Release(q, k)]
    BY <2>1
  <2> HIDE DEF k
  <2> QED
    BY <1>5, <2>2, <2>3, <2>4
<1>7. ASSUME NEW ok \in BOOLEAN, Interrupt(ok)
      PROVE  proc'[p].result = "NONE"
  <2>1. pc \in WaitSteps
    BY <1>7 DEF Interrupt, WaitSteps
  <2>2. cur \in Procs /\ proc[cur] \in Records /\ proc[cur].result = "NONE"
    BY <2>1, WaitRecord DEF Sound
  <2>3. proc' = [proc EXCEPT ![cur] = Release(cur, IF ok THEN KillTree(proc[cur]) ELSE proc[cur])]
    BY <1>1, <1>7 DEF Interrupt
  <2> DEFINE k == IF ok THEN KillTree(proc[cur]) ELSE proc[cur]
  <2>4. k \in Records /\ k.result = "NONE"
    BY <2>2, KillTreeFacts
  <2>5. proc' = [proc EXCEPT ![cur] = Release(cur, k)]
    BY <2>3
  <2> HIDE DEF k
  <2> QED
    BY <1>5, <2>2, <2>4, <2>5
<1>8. ASSUME NEW q \in Procs, Stop(q)
      PROVE  FALSE
  <2>1. proc' = [proc EXCEPT ![q] = [Release(q, proc[q]) EXCEPT !.result = "EXITED"]]
    BY <1>1, <1>8 DEF Stop
  <2>2. proc[q] \in Records /\ "EXITED" \in Results
    BY <1>1 DEF Results, Ended
  <2>3. CASE p = q
    BY <1>1, <2>1, <2>2, <2>3, SurvivorRelease
  <2>4. CASE p # q
    BY <1>1, <2>1, <2>4
  <2> QED
    BY <2>3, <2>4
<1>9. CASE OS
  <2>1. PICK q \in Procs : ProcessEnds(q) \/ ChildStarts(q) \/ ChildEnds(q)
    BY <1>9 DEF OS
  <2>2. proc'[p].kids \in {proc[p].kids, "alive", "none"}
    BY <1>1, <2>1 DEF ProcessEnds, ChildStarts, ChildEnds, Records
  <2> QED
    BY <2>2
<1>10. CASE StopRaises \/ EndClose \/ StartClose \/ Cancel \/ Expire
  BY <1>1, <1>10 DEF StopRaises, EndClose, StartClose, Cancel, Expire
<1>11. ASSUME NEW q \in Procs, StartWait(q) \/ \E isRun \in BOOLEAN : StartLaunch(q, isRun)
       PROVE  FALSE
  BY <1>1, <1>11 DEF StartWait, StartLaunch
<1>12. ASSUME NEW ok \in BOOLEAN, TerminateJob(ok)
       PROVE  pc = "terminate"
  BY <1>12 DEF TerminateJob
<1>13. CASE SupervisorStep
  BY <1>2, <1>4, <1>6, <1>10, <1>12, <1>13 DEF SupervisorStep
<1>14. CASE KeyboardInterrupt \/ Client
  BY <1>7, <1>8, <1>10, <1>11, <1>14 DEF KeyboardInterrupt, Client
<1> QED
  BY <1>9, <1>10, <1>13, <1>14 DEF Next

(* The emulator outlives the manager command that started it.               *)
THEOREM SurvivorsSurvive == Spec => SurvivorsOutliveRelease
<1>1. IInv /\ [Next]_vars =>
        [\A p \in Survivors :
           (proc[p].kids = "alive" /\ proc'[p].kids = "dying") =>
              pc = "terminate" \/ proc'[p].result = "NONE"]_vars
  BY SurvivorStep
<1> QED
  BY <1>1, IInvIsInvariant, PTL DEF Spec, SurvivorsOutliveRelease
=============================================================================
