----------------------------- MODULE MaaFgoProofs -----------------------------
(***************************************************************************)
(* Proofs about MaaFgoRun for every set of profiles and any number of      *)
(* edits and faults.  Evidence ties what the reporter holds, and what it   *)
(* has written for this contract, to the tasks that really succeeded; the  *)
(* verdict is read from the artifact, so it inherits this.  An edited      *)
(* profile needs no case of its own: the contract's tasks are a copy.      *)
(***************************************************************************)
EXTENDS MaaFgoRun, TLAPS

Tasks     == UNION {Range(p) : p \in Profiles}
Plans     == Profiles \cup {<< >>}
Marks     == {Pending, "success", "failed"}
Artifacts == [run : {0, 1, 2}, plan : Plans, terminal : Seq(Marks), unexpected : BOOLEAN]
Dirs      == [plan : Plans, artifact : Artifacts]
Children  == [run : {0, 2}, cli : {"none", "starting", "running", "zero", "nonzero", "killed"},
              agent : {"none", "running", "gone"}, condemned : BOOLEAN, queue : Seq(Tasks),
              doing : Seq(Tasks), terminal : Seq(Marks), unexpected : BOOLEAN, prior : BOOLEAN]
Refusals  == {"RESULT_MISSING", "RESULT_ID_MISMATCH", "RESULT_INVALID", "TASK_FAILED",
              "COMPLETION_UNCONFIRMED", "OK"}
Codes     == Refusals \cup {"INTERNAL_ERROR", "INVALID_CONFIGURATION", "CANCELLED",
                            "TASK_TIMEOUT", "PROCESS_START_FAILED", "PROCESS_EXIT_NONZERO",
                            "WAIT_FAILED", "CLEANUP_FAILED"}
Results   == [status : {"failed", "cancelled", "timeout", "success"}, code : Codes,
              reason : {"none", "cancelled", "timeout", "start_failed", "normal_exit",
                        "nonzero_exit", "termination_failed", "wait_failed"},
              exit : {"none", "zero", "nonzero"}, cleaned : BOOLEAN, confirmed : BOOLEAN,
              artifact : {"not_attempted", "rejected", "verified"}, expected : Nat, count : Nat]
StopResults == [status : {"none", "stopped", "failed", "cancelled", "timeout"},
                verification : {"skipped", "verified", "inconclusive", "failed"}]

Preparation == {"idle", "sync", "replace", "check", "contract"}
Before      == {"control", "profile", "ready", "created"}
Running     == Before \cup {"wait", "verify", "close", "stop"}
Ending      == {"force", "look", "again", "over"}

TypeOK ==
  /\ profile \in Profiles /\ staged \in Plans /\ contract \in {0, 2}
  /\ pc \in Preparation \cup Running \cup Ending
  /\ runDirs \in [RunIds -> Dirs]
  /\ r \in Results /\ child \in Children
  /\ stop \in StopResults
  /\ seen \in [ran : SUBSET (Tasks \X BOOLEAN), unwritten : BOOLEAN,
               reopened : BOOLEAN, unreachable : BOOLEAN]

(* The contract is made once, in a fresh directory, and nothing runs before. *)
Contracted ==
  /\ pc \in Preparation => /\ contract = 0 /\ runDirs[2] = Absent
                           /\ r = FreshLocals /\ stop = NotStopped
  /\ contract = 0 => child = NoChild /\ pc \in Preparation \cup {"over"}
  /\ contract = 2 => runDirs[2].plan \in Profiles
  /\ pc = "replace" => staged \in Profiles
  /\ pc \in Before => child = NoChild
  /\ pc = "wait" => child.cli # "none"
  /\ child = NoChild \/ (child.run = 2 /\ contract = 2 /\ child.cli # "none")

(* The successes in t are tasks that succeeded in this run.                *)
Evident(t, tasks, ran) ==
  \A i \in DOMAIN t : t[i] = "success" => << tasks[i], TRUE >> \in ran

Evidence ==
  pc \in Preparation \cup Running =>
    /\ Evident(child.terminal, runDirs[2].plan, seen.ran)
    /\ Evident(runDirs[2].artifact.terminal, runDirs[2].plan, seen.ran)

(* Nothing is known yet.                                                    *)
Open(l) == /\ l.status = "failed" /\ l.code = "INTERNAL_ERROR" /\ l.reason = "none"
           /\ l.exit = "none" /\ l.cleaned /\ l.artifact = "not_attempted" /\ l.count = 0

Verdict ==
  /\ pc \in Before \cup {"wait"} => Open(r)
  /\ pc \in {"ready", "created", "wait", "verify"} => r.confirmed /\ r.expected = Len(Plan)
  /\ pc = "verify" =>
       /\ r.status = "failed" /\ r.code = "COMPLETION_UNCONFIRMED" /\ r.exit = "zero"
       /\ r.reason = "normal_exit" /\ r.cleaned /\ r.count = 0
       /\ child.condemned /\ child.cli = "zero"
  /\ pc \in {"close", "stop"} =>
       /\ Constructible(r)
       /\ r.status = "success" =>
            /\ \A i \in DOMAIN Plan : << Plan[i], TRUE >> \in seen.ran
            /\ child.condemned /\ child.cli = "zero"

Stopping ==
  /\ pc \in {"stop", "force", "look", "again"} \cup Running => stop = NotStopped
  /\ pc \in Ending /\ r.cleaned => child = NoChild
  /\ VerifiedStopIsDown

IInv == TypeOK /\ Contracted /\ Evidence /\ Verdict /\ Stopping
-----------------------------------------------------------------------------
LEMMA ProfileFacts ==
  \A p \in Profiles : /\ p \in Seq(Tasks) /\ p # << >> /\ Len(p) \in Nat /\ Len(p) > 0
                      /\ DOMAIN p = 1..Len(p)
<1> SUFFICES ASSUME NEW p \in Profiles
             PROVE  /\ p \in Seq(Tasks) /\ p # << >> /\ Len(p) \in Nat /\ Len(p) > 0
                    /\ DOMAIN p = 1..Len(p)
  OBVIOUS
<1>1. p \in Seq(Range(p)) /\ p # << >>
  BY ProfilesAssumption
<1>2. Len(p) \in Nat /\ Len(p) > 0 /\ DOMAIN p = 1..Len(p)
  BY <1>1
<1>3. Range(p) \subseteq Tasks
  BY DEF Tasks
<1>4. \A i \in 1..Len(p) : p[i] \in Tasks
  BY <1>1, <1>2, <1>3 DEF Range
<1>5. p \in [1..Len(p) -> Tasks]
  BY <1>1, <1>2, <1>4
<1> QED
  BY <1>1, <1>2, <1>5

LEMMA FreshTypes ==
  FreshLocals \in Results /\ NoChild \in Children /\ Missing \in Artifacts /\ Absent \in Dirs
<1>1. << >> \in Seq(Tasks) /\ << >> \in Seq(Marks) /\ << >> \in Plans
  BY DEF Plans
<1>2. Missing \in Artifacts
  BY <1>1 DEF Missing, Artifacts
<1>3. FreshLocals \in Results
  BY DEF FreshLocals, Results, Codes
<1>4. NoChild \in Children
  BY <1>1 DEF NoChild, Children
<1>5. Absent \in Dirs
  BY <1>1, <1>2 DEF Absent, Dirs
<1> QED
  BY <1>2, <1>3, <1>4, <1>5

LEMMA NothingToShow ==
  ASSUME NEW tasks, NEW ran
  PROVE  Evident(NoChild.terminal, tasks, ran) /\ Evident(Missing.terminal, tasks, ran)
<1>1. NoChild.terminal = << >> /\ Missing.terminal = << >> /\ DOMAIN << >> = {}
  BY DEF NoChild, Missing
<1> QED
  BY <1>1 DEF Evident

LEMMA InitIInv == Init => IInv
<1> SUFFICES ASSUME Init PROVE IInv
  OBVIOUS
<1>1. PICK left \in {Absent} \cup {Earlier(p) : p \in Profiles} : runDirs = << left, Absent >>
  BY DEF Init
<1>2. left \in Dirs
  <2>1. CASE left = Absent
    BY <2>1, FreshTypes
  <2>2. ASSUME NEW p \in Profiles, left = Earlier(p) PROVE left \in Dirs
    <3>1. [i \in DOMAIN p |-> "success"] \in Seq(Marks)
      BY ProfileFacts DEF Marks
    <3> QED
      BY <2>2, <3>1 DEF Earlier, Dirs, Artifacts, Plans
  <2> QED
    BY <1>1, <2>1, <2>2
<1>3. runDirs \in [RunIds -> Dirs] /\ runDirs[2] = Absent
  BY <1>1, <1>2, FreshTypes DEF RunIds
<1>4. TypeOK
  BY <1>3, FreshTypes DEF Init, TypeOK, Plans, Preparation, StopResults, NotStopped, NothingSeen
<1>5. Contracted /\ Verdict /\ Stopping
  BY <1>3 DEF Init, Contracted, Verdict, Stopping, VerifiedStopIsDown, Preparation, Before,
              Running, Ending
<1>6. Evidence
  <2>1. child = NoChild /\ runDirs[2].artifact = Missing
    BY <1>3 DEF Init, Absent
  <2> QED
    BY <2>1, NothingToShow DEF Evidence
<1> QED
  BY <1>4, <1>5, <1>6 DEF IInv
-----------------------------------------------------------------------------
LEMMA PreparationKeeps ==
  ASSUME IInv, PrepareFails \/ Begin \/ Sync \/ ReplaceProfile \/ CheckProfile
  PROVE  IInv'
<1>1. /\ pc \in Preparation /\ pc' \in Preparation \cup {"over"}
      /\ UNCHANGED << edits, r, child, stop, app, control, seen, runDirs, contract >>
      /\ profile' \in Profiles /\ staged' \in Plans
      /\ pc' = "replace" => staged' \in Profiles
  BY DEF IInv, TypeOK, Contracted, PrepareFails, Begin, Sync, ReplaceProfile, CheckProfile,
         Preparing, Preparation, Plans
<1>2. TypeOK'
  BY <1>1 DEF IInv, TypeOK, Ending
<1>3. contract = 0 /\ child = NoChild /\ r = FreshLocals /\ stop = NotStopped
  BY <1>1 DEF IInv, Contracted
<1>4. Contracted' /\ Verdict' /\ Stopping'
  BY <1>1, <1>3 DEF IInv, Contracted, Verdict, Stopping, VerifiedStopIsDown, Preparation, Before,
                    Running, Ending
<1>5. Evidence'
  BY <1>1 DEF IInv, Evidence, Evident
<1> QED
  BY <1>2, <1>4, <1>5 DEF IInv

LEMMA MakeContractKeeps ==
  ASSUME IInv, MakeContract
  PROVE  IInv'
<1>1. /\ pc = "contract" /\ contract = 0 /\ runDirs[2] = Absent /\ child = NoChild
      /\ r = FreshLocals /\ stop = NotStopped
  BY DEF IInv, Contracted, MakeContract, Preparation
<1>2. NewRun = 2
  <2>1. \A i \in RunIds \ {1} : i = 2
    BY DEF RunIds
  <2>2. 2 \in RunIds \ {1} /\ runDirs[2] = Absent
    BY <1>1 DEF RunIds
  <2> QED
    BY <2>1, <2>2 DEF NewRun
<1>3. /\ contract' = 2 /\ runDirs' = [runDirs EXCEPT ![2].plan = profile] /\ pc' = "control"
      /\ UNCHANGED << profile, staged, r, child, stop, app, seen >>
  BY <1>2 DEF MakeContract, Preparing
<1>4. /\ runDirs \in [RunIds -> Dirs] /\ 2 \in RunIds /\ profile \in Profiles
      /\ runDirs[2] \in Dirs
  BY DEF IInv, TypeOK, RunIds
<1>5. /\ runDirs' \in [RunIds -> Dirs] /\ runDirs'[2].plan = profile
      /\ runDirs'[2].artifact = Missing
  BY <1>1, <1>3, <1>4 DEF Dirs, Plans, Absent
<1>6. TypeOK'
  BY <1>3, <1>5 DEF IInv, TypeOK, Running, Before
<1>7. Contracted' /\ Verdict' /\ Stopping'
  <2>1. Open(r)
    BY <1>1 DEF FreshLocals, Open
  <2> QED
    BY <1>1, <1>3, <1>4, <1>5, <2>1 DEF Contracted, Verdict, Open, Stopping, VerifiedStopIsDown,
       Preparation, Before, Running, Ending
<1>8. Evidence'
  BY <1>1, <1>3, <1>5, NothingToShow DEF Evidence
<1> QED
  BY <1>6, <1>7, <1>8 DEF IInv
-----------------------------------------------------------------------------
(* The adapter leaves the directories alone, so only its locals move.      *)
LEMMA AdapterKeeps ==
  ASSUME IInv, pc \in Running, pc' \in Running, Adapter, UNCHANGED seen,
         r' \in Results, child' \in Children,
         child' = child \/ (child'.run = 2 /\ child'.cli # "none" /\ pc' \notin Before),
         child'.terminal = child.terminal,
         pc' \in Before => pc \in Before, pc' = "wait" => child'.cli # "none",
         Verdict'
  PROVE  IInv'
<1>1. contract = 2 /\ pc \notin Preparation /\ pc' \notin Preparation /\ stop = NotStopped
  BY DEF IInv, TypeOK, Contracted, Stopping, Preparation, Running, Before
<1>2. UNCHANGED << profile, edits, staged, runDirs, contract, stop, app, seen >>
  BY DEF Adapter, user
<1>3. TypeOK'
  BY <1>2 DEF IInv, TypeOK
<1>4. Contracted'
  BY <1>1, <1>2 DEF IInv, Contracted, Preparation, Running, Before
<1>5. Evidence'
  BY <1>2 DEF IInv, Evidence, Evident
<1>6. Stopping'
  BY <1>1, <1>2 DEF Stopping, VerifiedStopIsDown, Running, Before, Ending
<1> QED
  BY <1>3, <1>4, <1>5, <1>6 DEF IInv

LEMMA PlanFacts ==
  ASSUME IInv, contract = 2
  PROVE  Plan \in Profiles /\ Plan = runDirs[2].plan /\ Len(Plan) \in Nat /\ Len(Plan) > 0
         /\ DOMAIN Plan = 1..Len(Plan)
  BY ProfileFacts DEF IInv, Contracted, Plan

(* Before there is a verdict.                                              *)
LEMMA LaunchKeeps ==
  ASSUME IInv, Control \/ Misconfigured \/ Proceed \/ Launch
  PROVE  IInv'
<1>1. /\ pc \in Running /\ pc \in Before /\ child = NoChild /\ UNCHANGED seen /\ Adapter
      /\ r \in Results /\ child \in Children /\ contract = 2
  BY DEF IInv, TypeOK, Contracted, Control, Misconfigured, Proceed, Launch, Before, Running,
         Preparation
<1>2. Len(Plan) \in Nat /\ Plan' = Plan
  BY <1>1, PlanFacts DEF Plan, Adapter
<1>3. Open(r) /\ r.expected \in Nat
  BY <1>1 DEF IInv, Verdict, Results
<1>4. CASE Control
  <2>1. /\ pc' \in {"close", "stop"} /\ child' = child /\ r' \in Results
        /\ \/ r' = [r EXCEPT !.reason = "cancelled", !.exit = r.exit, !.status = "cancelled",
                             !.code = "CANCELLED", !.cleaned = r.cleaned]
           \/ r' = [r EXCEPT !.reason = "timeout", !.exit = r.exit, !.status = "timeout",
                             !.code = "TASK_TIMEOUT", !.cleaned = r.cleaned]
    BY <1>1, <1>4 DEF Control, Ended, Results, Codes
  <2>2. /\ r'.status \in {"cancelled", "timeout"} /\ r'.count = 0 /\ r'.expected \in Nat
        /\ r'.code = (IF r'.status = "cancelled" THEN "CANCELLED" ELSE "TASK_TIMEOUT")
        /\ r'.reason = r'.status
    BY <1>1, <1>3, <2>1 DEF Results, Open
  <2>3. Constructible(r')
    BY <2>2 DEF Constructible
  <2>4. r'.status # "success"
    BY <2>2
  <2>5. Verdict'
    BY <2>1, <2>3, <2>4 DEF Verdict, Before
  <2> QED
    BY <1>1, <2>1, <2>5, AdapterKeeps DEF Running, Before
<1>5. CASE Misconfigured
  <2>1. /\ pc' = "stop" /\ child' = child /\ r' \in Results
        /\ r' = [r EXCEPT !.code = "INVALID_CONFIGURATION"]
    BY <1>1, <1>5 DEF Misconfigured, Results, Codes
  <2>2. Constructible(r') /\ r'.status # "success"
    BY <1>1, <1>3, <2>1 DEF Constructible, Results, Open
  <2>3. Verdict'
    BY <2>1, <2>2 DEF Verdict, Before
  <2> QED
    BY <1>1, <2>1, <2>3, AdapterKeeps DEF Running, Before
<1>6. CASE Proceed
  <2>1. /\ child' = child
        /\ \/ pc = "control" /\ pc' = "profile" /\ r' = r
           \/ pc = "profile" /\ pc' = "ready"
              /\ r' = [r EXCEPT !.confirmed = TRUE, !.expected = Len(Plan)]
           \/ pc = "ready" /\ pc' = "created" /\ r' = r
    BY <1>6 DEF Proceed
  <2>2. r' \in Results
    BY <1>1, <1>2, <2>1 DEF Results
  <2>3. Verdict'
    BY <1>1, <1>2, <1>3, <2>1 DEF IInv, Verdict, Open, Before, Results
  <2> QED
    BY <1>1, <2>1, <2>2, <2>3, AdapterKeeps DEF Running, Before
<1>7. CASE Launch
  <2>1. CASE pc' = "wait" /\ r' = r
             /\ child' = [child EXCEPT !.run = contract, !.cli = "starting"]
    <3>1. child' \in Children /\ child'.run = 2 /\ child'.cli = "starting"
          /\ child'.terminal = child.terminal
      BY <1>1, <2>1 DEF Children
    <3>2. Verdict'
      BY <1>1, <1>2, <1>3, <1>7, <2>1 DEF IInv, Verdict, Launch, Before
    <3> QED
      BY <1>1, <2>1, <3>1, <3>2, AdapterKeeps DEF Running, Before
  <2>2. CASE pc' = "close" /\ child' = child
             /\ r' = Ended("start_failed", "none", "failed", "PROCESS_START_FAILED", TRUE)
    <3>1. r' \in Results
      BY <1>1, <2>2 DEF Ended, Results, Codes
    <3>2. Constructible(r') /\ r'.status # "success"
      BY <1>1, <1>3, <2>2 DEF Constructible, Results, Ended, Open
    <3>3. Verdict'
      BY <2>2, <3>2 DEF Verdict, Before
    <3> QED
      BY <1>1, <2>2, <3>1, <3>3, AdapterKeeps DEF Running, Before
  <2> QED
    BY <1>7, <2>1, <2>2 DEF Launch
<1> QED
  BY <1>4, <1>5, <1>6, <1>7
-----------------------------------------------------------------------------
(* The tool has ended, or is made to.                                      *)
LEMMA WaitKeeps ==
  ASSUME IInv, Exited \/ Terminated
  PROVE  IInv'
<1>1. /\ pc = "wait" /\ pc \in Running /\ UNCHANGED seen /\ Adapter /\ r \in Results
      /\ child \in Children /\ child.run = 2 /\ child.cli # "none" /\ contract = 2
  <2>1. /\ pc = "wait" /\ pc \in Running /\ UNCHANGED seen /\ Adapter /\ r \in Results
        /\ child \in Children
    BY DEF IInv, TypeOK, Exited, Terminated, Running
  <2>2. /\ child.cli # "none" /\ contract = 2
        /\ child = NoChild \/ child.run = 2
    BY <2>1 DEF IInv, TypeOK, Contracted, Preparation
  <2> QED
    BY <2>1, <2>2 DEF NoChild
<1>2. Plan' = Plan /\ Open(r) /\ r.expected \in Nat /\ r.confirmed /\ r.expected = Len(Plan)
  BY <1>1 DEF IInv, Verdict, Results, Plan, Adapter
<1>3. CASE Exited
  <2>1. /\ child' \in Children /\ child'.run = 2 /\ child'.cli = child.cli /\ child'.condemned
        /\ child'.terminal = child.terminal /\ child.cli \in {"zero", "nonzero"}
    BY <1>1, <1>3 DEF Exited, Children
  <2>2. CASE child.cli = "zero"
    <3>1. /\ pc' = "verify"
          /\ r' = Ended("normal_exit", "zero", "failed", "COMPLETION_UNCONFIRMED", TRUE)
      BY <1>3, <2>2 DEF Exited
    <3>2. r' \in Results
      BY <1>1, <3>1 DEF Ended, Results, Codes, Refusals
    <3>3. Verdict'
      BY <1>1, <1>2, <2>1, <2>2, <3>1 DEF Verdict, Ended, Results, Open, Before
    <3> QED
      BY <1>1, <2>1, <2>2, <3>1, <3>2, <3>3, AdapterKeeps DEF Running, Before
  <2>3. CASE child.cli = "nonzero"
    <3>1. /\ pc' = "close"
          /\ r' = Ended("nonzero_exit", "nonzero", "failed", "PROCESS_EXIT_NONZERO", TRUE)
      BY <1>3, <2>3 DEF Exited
    <3>2. r' \in Results
      BY <1>1, <3>1 DEF Ended, Results, Codes, Refusals
    <3>3. Constructible(r') /\ r'.status # "success"
      BY <1>1, <1>2, <3>1 DEF Constructible, Ended, Results, Open
    <3>4. Verdict'
      BY <3>1, <3>3 DEF Verdict, Before
    <3> QED
      BY <1>1, <2>1, <2>3, <3>1, <3>2, <3>4, AdapterKeeps DEF Running, Before
  <2> QED
    BY <2>1, <2>2, <2>3
<1>4. CASE Terminated
  <2>1. /\ pc' = "close"
        /\ \/ child' = [child EXCEPT !.condemned = TRUE]
           \/ child' = [child EXCEPT !.condemned = TRUE,
                                     !.cli = IF @ \in {"zero", "nonzero"} THEN @ ELSE "killed"]
    BY <1>4 DEF Terminated
  <2>2. /\ child' \in Children /\ child'.run = 2 /\ child'.cli # "none"
        /\ child'.terminal = child.terminal
    BY <1>1, <2>1 DEF Children
  <2>3. \/ r' = Ended("cancelled", "none", "cancelled", "CANCELLED", TRUE)
        \/ r' = Ended("timeout", "none", "timeout", "TASK_TIMEOUT", TRUE)
        \/ r' = Ended("termination_failed", "none", "cancelled", "CLEANUP_FAILED", FALSE)
        \/ r' = Ended("termination_failed", "none", "timeout", "CLEANUP_FAILED", FALSE)
        \/ r' = Ended("wait_failed", "none", "failed", "WAIT_FAILED", FALSE)
        \/ r' = [r EXCEPT !.cleaned = FALSE]
    BY <1>4 DEF Terminated, ByControl
  <2>4. r' \in Results
    BY <1>1, <2>3 DEF Ended, Results, Codes
  <2>5. /\ r'.count = 0 /\ r'.expected \in Nat /\ r'.status # "success"
        /\ r'.code # "COMPLETION_UNCONFIRMED" /\ (r'.code = "CLEANUP_FAILED" => ~r'.cleaned)
        /\ r'.status = "timeout" => \/ r'.code = "TASK_TIMEOUT" /\ r'.reason = "timeout"
                                    \/ r'.code = "CLEANUP_FAILED" /\ r'.reason = "termination_failed"
        /\ r'.status = "cancelled" => \/ r'.code = "CANCELLED" /\ r'.reason = "cancelled"
                                      \/ r'.code = "CLEANUP_FAILED"
                                         /\ r'.reason = "termination_failed"
    BY <1>1, <1>2, <2>3 DEF Ended, Results, Open
  <2>6. Constructible(r')
    BY <2>5 DEF Constructible
  <2>7. Verdict'
    BY <2>1, <2>5, <2>6 DEF Verdict, Before
  <2> QED
    BY <1>1, <2>1, <2>2, <2>4, <2>7, AdapterKeeps DEF Running, Before
<1> QED
  BY <1>3, <1>4

(* An accepted artifact shows every task of the contract.                  *)
LEMMA AcceptedIsEvident ==
  ASSUME IInv, pc = "verify", Refusal(runDirs[contract].artifact) = "OK"
  PROVE  \A i \in DOMAIN Plan : << Plan[i], TRUE >> \in seen.ran
<1> DEFINE a == runDirs[2].artifact
<1>1. contract = 2 /\ runDirs[2] \in Dirs
  BY DEF IInv, TypeOK, Contracted, Preparation, RunIds
<1>2. Plan = runDirs[2].plan /\ DOMAIN Plan = 1..Len(Plan) /\ Len(Plan) \in Nat
  BY <1>1, PlanFacts
<1>3. a.terminal \in Seq(Marks)
  BY <1>1 DEF Dirs, Artifacts
<1>4. /\ Len(a.terminal) = Len(Plan)
      /\ "failed" \notin Range(a.terminal) /\ Pending \notin Range(a.terminal)
  BY <1>1 DEF Refusal
<1>5. \A i \in DOMAIN a.terminal : a.terminal[i] = "success"
  BY <1>3, <1>4 DEF Range, Marks
<1>6. DOMAIN a.terminal = DOMAIN Plan
  BY <1>2, <1>3, <1>4
<1>7. Evident(a.terminal, Plan, seen.ran)
  BY <1>2 DEF IInv, Evidence, Running
<1> QED
  BY <1>5, <1>6, <1>7 DEF Evident

LEMMA VerifyKeeps ==
  ASSUME IInv, Verify \/ Close
  PROVE  IInv'
<1>1. /\ pc \in {"verify", "close"} /\ pc' \in {"close", "stop"} /\ pc \in Running
      /\ UNCHANGED << child, seen >> /\ Adapter /\ r \in Results /\ child \in Children
      /\ contract = 2
  BY DEF IInv, TypeOK, Contracted, Verify, Close, Running, Preparation
<1>2. Plan' = Plan /\ Len(Plan) \in Nat /\ Len(Plan) > 0
  BY <1>1, PlanFacts DEF Plan, Adapter
<1> SUFFICES /\ r' \in Results /\ Constructible(r')
             /\ r'.status = "success" =>
                  /\ \A i \in DOMAIN Plan : << Plan[i], TRUE >> \in seen.ran
                  /\ child.condemned /\ child.cli = "zero"
  <2>1. Verdict'
    BY <1>1, <1>2 DEF Verdict, Before
  <2> QED
    BY <1>1, <2>1, AdapterKeeps DEF Running, Before
<1>3. CASE Verify
  <2>1. /\ r.status = "failed" /\ r.code = "COMPLETION_UNCONFIRMED" /\ r.exit = "zero"
        /\ r.reason = "normal_exit" /\ r.cleaned /\ r.count = 0 /\ r.confirmed
        /\ r.expected = Len(Plan) /\ child.condemned /\ child.cli = "zero"
    BY <1>3 DEF Verify, IInv, Verdict
  <2>2. CASE r' = Accept /\ Refusal(runDirs[contract].artifact) = "OK"
    <3>1. r' \in Results
      BY <1>1, <1>2, <2>2 DEF Accept, Results, Codes, Refusals
    <3>2. Constructible(r')
      BY <1>1, <1>2, <2>1, <2>2 DEF Accept, Results, Constructible
    <3> QED
      BY <1>3, <2>1, <3>1, <3>2, <2>2, AcceptedIsEvident DEF Verify
  <2>3. CASE \E code \in Refusals \ {"OK"} : r' = Reject(code)
    <3> PICK code \in Refusals \ {"OK"} : r' = Reject(code)
      BY <2>3
    <3>0. code \in Codes /\ code \notin {"CLEANUP_FAILED", "OK"}
      BY DEF Codes, Refusals
    <3>1. r' \in Results
      BY <1>1, <3>0 DEF Reject, Results
    <3>2. Constructible(r') /\ r'.status # "success"
      BY <1>1, <1>2, <2>1, <3>0 DEF Reject, Results, Constructible
    <3> QED
      BY <3>1, <3>2
  <2>4. CASE r' = [r EXCEPT !.code = "INTERNAL_ERROR", !.cleaned = FALSE, !.count = 0]
    <3>1. r' \in Results
      BY <1>1, <2>4 DEF Results, Codes
    <3>2. Constructible(r') /\ r'.status # "success"
      BY <1>1, <1>2, <2>1, <2>4 DEF Results, Constructible
    <3> QED
      BY <3>1, <3>2
  <2>5. Refusal(runDirs[contract].artifact) \in Refusals
    BY DEF Refusal, Refusals
  <2> QED
    BY <1>3, <2>2, <2>3, <2>4, <2>5 DEF Verify, Judged, Refusals
<1>4. CASE Close
  <2>1. /\ Constructible(r)
        /\ r.status = "success" =>
             /\ \A i \in DOMAIN Plan : << Plan[i], TRUE >> \in seen.ran
             /\ child.condemned /\ child.cli = "zero"
    BY <1>4 DEF Close, IInv, Verdict
  <2>2. CASE r' = r
    BY <1>1, <2>1, <2>2
  <2>3. CASE r' = CloseFailed(r)
    <3>1. r' \in Results
      BY <1>1, <2>3 DEF CloseFailed, Results, Codes
    <3>2. Constructible(r') /\ r'.status # "success"
      BY <1>1, <2>3 DEF CloseFailed, Results, Constructible
    <3> QED
      BY <3>1, <3>2
  <2> QED
    BY <1>4, <2>2, <2>3 DEF Close
<1> QED
  BY <1>1, <1>3, <1>4 DEF Verify, Close
-----------------------------------------------------------------------------
(* The tool: it only learns of tasks that have run, whoever still watches. *)
LEMMA ToolKeeps ==
  ASSUME IInv, Tool, child.run = 2, contract = 2, NEW c \in Children, child' = c,
         c.run = 2, c.cli # "none",
         child.condemned => c.condemned, child.cli = "zero" => c.cli = "zero",
         runDirs' \in {runDirs, [runDirs EXCEPT ![2].artifact = Artifact(c)]},
         seen' \in [ran : SUBSET (Tasks \X BOOLEAN), unwritten : BOOLEAN,
                    reopened : BOOLEAN, unreachable : BOOLEAN],
         seen.ran \subseteq seen'.ran, seen'.reopened = seen.reopened,
         seen'.unreachable = seen.unreachable,
         child.cli \notin {"none"},
         Evident(child.terminal, runDirs[2].plan, seen.ran)
           => Evident(c.terminal, runDirs[2].plan, seen'.ran)
  PROVE  IInv'
<1>1. UNCHANGED << profile, edits, staged, contract, pc, r, stop >>
  BY DEF Tool, user
<1>2. /\ runDirs \in [RunIds -> Dirs] /\ 2 \in RunIds /\ runDirs[2] \in Dirs
      /\ Expected = runDirs[2].plan /\ child # NoChild /\ pc \notin Preparation
      /\ c # NoChild
  BY DEF IInv, TypeOK, Contracted, RunIds, Expected, NoChild
<1>3. /\ Artifact(c) \in Artifacts /\ Artifact(c).terminal = c.terminal
  BY <1>2 DEF Artifact, Artifacts, Children, Dirs
<1>4. /\ runDirs' \in [RunIds -> Dirs] /\ runDirs'[2].plan = runDirs[2].plan
      /\ runDirs'[2].artifact \in {runDirs[2].artifact, Artifact(c)}
  BY <1>2, <1>3 DEF Dirs
<1>5. TypeOK'
  BY <1>1, <1>4 DEF IInv, TypeOK
<1>6. Contracted'
  BY <1>1, <1>2, <1>4 DEF IInv, Contracted
<1>7. Evidence'
  <2> SUFFICES ASSUME pc \in Preparation \cup Running
               PROVE  /\ Evident(c.terminal, runDirs[2].plan, seen'.ran)
                      /\ Evident(runDirs'[2].artifact.terminal, runDirs[2].plan, seen'.ran)
    BY <1>1, <1>4 DEF Evidence
  <2>1. /\ Evident(child.terminal, runDirs[2].plan, seen.ran)
        /\ Evident(runDirs[2].artifact.terminal, runDirs[2].plan, seen.ran)
    BY DEF IInv, Evidence
  <2>2. Evident(c.terminal, runDirs[2].plan, seen'.ran)
    BY <2>1
  <2>3. Evident(runDirs[2].artifact.terminal, runDirs[2].plan, seen'.ran)
    BY <2>1 DEF Evident
  <2> QED
    BY <1>3, <1>4, <2>2, <2>3
<1>8. Verdict'
  <2>1. Plan' = Plan
    BY <1>1, <1>4 DEF Plan
  <2> QED
    BY <1>1, <2>1 DEF IInv, Verdict
<1>9. Stopping'
  BY <1>1, <1>2 DEF IInv, Stopping, VerifiedStopIsDown, Ending
<1> QED
  BY <1>5, <1>6, <1>7, <1>8, <1>9 DEF IInv

LEMMA ChildFacts ==
  ASSUME IInv, child.cli # "none" \/ child.agent # "none"
  PROVE  /\ child.run = 2 /\ contract = 2 /\ child \in Children /\ child.cli # "none"
         /\ runDirs[2].plan \in Profiles /\ Expected = runDirs[2].plan
<1>1. child # NoChild
  BY DEF NoChild
<1>2. child.run = 2 /\ contract = 2 /\ child.cli # "none"
  BY <1>1 DEF IInv, Contracted
<1> QED
  BY <1>2 DEF IInv, TypeOK, Contracted, Expected

(* What a persisted step notes. *)
LEMMA NoteFacts ==
  ASSUME IInv, NEW c \in Children, c.run = 2, child.run = 2, NEW ran \in SUBSET (Tasks \X BOOLEAN),
         Persist(c), Note(c, ran)
  PROVE  /\ runDirs' \in {runDirs, [runDirs EXCEPT ![2].artifact = Artifact(c)]}
         /\ seen' \in [ran : SUBSET (Tasks \X BOOLEAN), unwritten : BOOLEAN,
                       reopened : BOOLEAN, unreachable : BOOLEAN]
         /\ seen'.ran = seen.ran \cup ran
         /\ seen'.reopened = seen.reopened /\ seen'.unreachable = seen.unreachable
<1>1. runDirs' \in {runDirs, [runDirs EXCEPT ![2].artifact = Artifact(c)]}
  BY DEF Persist
<1>2. seen' = [seen EXCEPT !.ran = seen.ran \cup ran,
                           !.unwritten = seen.unwritten \/ runDirs'[2].artifact # Artifact(c)]
  BY DEF Note
<1>3. PICK b \in BOOLEAN : b = (seen.unwritten \/ runDirs'[2].artifact # Artifact(c))
  OBVIOUS
<1>4. seen' = [seen EXCEPT !.ran = seen.ran \cup ran, !.unwritten = b]
  BY <1>2, <1>3
<1> QED
  BY <1>1, <1>4 DEF IInv, TypeOK

LEMMA ToolStepKeeps ==
  ASSUME IInv, ToolStep
  PROVE  IInv'
<1>1. CASE CliStarts
  <2>1. /\ child' = [child EXCEPT !.cli = "running", !.queue = profile]
        /\ child.cli = "starting" /\ Tool /\ UNCHANGED << runDirs, seen >>
    BY <1>1 DEF CliStarts
  <2>2. child.run = 2 /\ contract = 2 /\ child \in Children
    BY <2>1, ChildFacts
  <2>3. profile \in Seq(Tasks)
    BY ProfileFacts DEF IInv, TypeOK
  <2>4. /\ child' \in Children /\ child'.run = 2 /\ child'.cli = "running"
        /\ child'.condemned = child.condemned /\ child'.terminal = child.terminal
    BY <2>1, <2>2, <2>3 DEF Children
  <2>5. seen' = seen /\ runDirs' = runDirs
        /\ seen \in [ran : SUBSET (Tasks \X BOOLEAN), unwritten : BOOLEAN,
                     reopened : BOOLEAN, unreachable : BOOLEAN]
    BY <2>1 DEF IInv, TypeOK
  <2> QED
    BY <2>1, <2>2, <2>4, <2>5, ToolKeeps
<1>2. CASE CliExits
  <2>1. PICK code \in {"zero", "nonzero", "killed"} :
          /\ child' = [child EXCEPT !.cli = code]
          /\ child.cli \in {"starting", "running"} /\ Tool /\ UNCHANGED << runDirs, seen >>
    BY <1>2 DEF CliExits
  <2>2. child.run = 2 /\ contract = 2 /\ child \in Children
    BY <2>1, ChildFacts
  <2>3. /\ child' \in Children /\ child'.run = 2 /\ child'.cli = code
        /\ child'.condemned = child.condemned /\ child'.terminal = child.terminal
    BY <2>1, <2>2 DEF Children
  <2>4. seen' = seen /\ runDirs' = runDirs
        /\ seen \in [ran : SUBSET (Tasks \X BOOLEAN), unwritten : BOOLEAN,
                     reopened : BOOLEAN, unreachable : BOOLEAN]
    BY <2>1 DEF IInv, TypeOK
  <2> QED
    BY <2>1, <2>2, <2>3, <2>4, ToolKeeps
<1>3. CASE AgentStarts
  <2>1. /\ child.cli = "running" /\ Tool /\ Persist(child') /\ Note(child', {})
        /\ \/ child' = [child EXCEPT !.agent = "running",
                                     !.terminal = [i \in DOMAIN Expected |-> Pending]]
           \/ child' = [child EXCEPT !.agent = "running"]
    BY <1>3 DEF AgentStarts
  <2>2. /\ child.run = 2 /\ contract = 2 /\ child \in Children /\ Expected \in Profiles
    BY <2>1, ChildFacts
  <2>3. [i \in DOMAIN Expected |-> Pending] \in Seq(Marks)
    BY <2>2, ProfileFacts DEF Marks
  <2>4. /\ child' \in Children /\ child'.run = 2 /\ child'.cli = "running"
        /\ child'.condemned = child.condemned
        /\ child'.terminal \in {child.terminal, [i \in DOMAIN Expected |-> Pending]}
    BY <2>1, <2>2, <2>3 DEF Children
  <2>5. \A tasks, ran : Evident([i \in DOMAIN Expected |-> Pending], tasks, ran)
    BY DEF Evident, Pending
  <2>6. /\ runDirs' \in {runDirs, [runDirs EXCEPT ![2].artifact = Artifact(child')]}
        /\ seen' \in [ran : SUBSET (Tasks \X BOOLEAN), unwritten : BOOLEAN,
                      reopened : BOOLEAN, unreachable : BOOLEAN]
        /\ seen'.ran = seen.ran \cup {}
        /\ seen'.reopened = seen.reopened /\ seen'.unreachable = seen.unreachable
    BY <2>1, <2>2, <2>4, NoteFacts
  <2>7. seen'.ran = seen.ran
    BY <2>6
  <2>8. Evident(child.terminal, runDirs[2].plan, seen.ran)
          => Evident(child'.terminal, runDirs[2].plan, seen'.ran)
    BY <2>4, <2>5, <2>7
  <2> QED
    BY <2>1, <2>2, <2>4, <2>6, <2>7, <2>8, ToolKeeps
<1>4. CASE StartTask
  <2> DEFINE task == Head(child.queue)
  <2>1. /\ child.cli = "running" /\ Tool /\ Persist(child') /\ Note(child', {})
        /\ child.queue # << >>
        /\ child' = [Takes(child, task) EXCEPT !.doing = << task >>, !.queue = Tail(@)]
    BY <1>4 DEF StartTask
  <2>2. /\ child.run = 2 /\ contract = 2 /\ child \in Children
    BY <2>1, ChildFacts
  <2>3. << task >> \in Seq(Tasks) /\ Tail(child.queue) \in Seq(Tasks)
    BY <2>1, <2>2 DEF Children
  <2>4. PICK b \in BOOLEAN : Takes(child, task) = [child EXCEPT !.unexpected = b]
    BY <2>2 DEF Takes, Children
  <2>5. child' = [child EXCEPT !.unexpected = b, !.doing = << task >>, !.queue = Tail(child.queue)]
    <3>1. Takes(child, task).queue = child.queue
      BY <2>2, <2>4 DEF Children
    <3> HIDE DEF task
    <3> QED
      BY <2>1, <2>4, <3>1
  <2>6. /\ child' \in Children /\ child'.run = 2 /\ child'.cli = "running"
        /\ child'.condemned = child.condemned /\ child'.terminal = child.terminal
    <3> HIDE DEF task
    <3> QED
      BY <2>1, <2>2, <2>3, <2>5 DEF Children
  <2>7. /\ runDirs' \in {runDirs, [runDirs EXCEPT ![2].artifact = Artifact(child')]}
        /\ seen' \in [ran : SUBSET (Tasks \X BOOLEAN), unwritten : BOOLEAN,
                      reopened : BOOLEAN, unreachable : BOOLEAN]
        /\ seen'.ran = seen.ran \cup {}
        /\ seen'.reopened = seen.reopened /\ seen'.unreachable = seen.unreachable
    BY <2>1, <2>2, <2>6, NoteFacts
  <2>8. seen'.ran = seen.ran
    BY <2>7
  <2> QED
    BY <2>1, <2>2, <2>6, <2>7, <2>8, ToolKeeps
<1>5. CASE FinishTask
  <2> DEFINE task == child.doing[1]
  <2>1. PICK ok \in {TRUE, FALSE} :
          /\ child' = [Takes(child, task) EXCEPT !.terminal = Terminal(@, task, ok),
                                                 !.prior = @ \/ ~ok, !.doing = << >>]
          /\ Persist(child') /\ Note(child', {<< task, ok >>})
    BY <1>5 DEF FinishTask
  <2>2. child.cli = "running" /\ child.doing # << >> /\ Tool
    BY <1>5 DEF FinishTask
  <2>3. /\ child.run = 2 /\ contract = 2 /\ child \in Children
        /\ Expected = runDirs[2].plan
    BY <2>2, ChildFacts
  <2>4. task \in Tasks
    BY <2>2, <2>3 DEF Children
  <2>5. PICK b \in BOOLEAN : Takes(child, task) = [child EXCEPT !.unexpected = b]
    BY <2>3 DEF Takes, Children
  <2>6. PICK prior \in BOOLEAN : prior = (child.prior \/ ~ok)
    OBVIOUS
  <2>7. child' = [child EXCEPT !.unexpected = b, !.terminal = Terminal(child.terminal, task, ok),
                               !.prior = prior, !.doing = << >>]
    <3>1. Takes(child, task).terminal = child.terminal /\ Takes(child, task).prior = child.prior
      BY <2>3, <2>5 DEF Children
    <3> HIDE DEF task
    <3> QED
      BY <2>1, <2>5, <2>6, <3>1
  <2> HIDE DEF task
  <2>8. /\ Terminal(child.terminal, task, ok) \in Seq(Marks)
        /\ \A i \in DOMAIN Terminal(child.terminal, task, ok) :
             Terminal(child.terminal, task, ok)[i] = "success" =>
               \/ i \in DOMAIN child.terminal /\ child.terminal[i] = "success"
               \/ Expected[i] = task /\ ok
    <3>1. child.terminal \in Seq(Marks)
      BY <2>3 DEF Children
    <3>2. /\ DOMAIN Terminal(child.terminal, task, ok) = DOMAIN child.terminal
          /\ \A i \in DOMAIN child.terminal :
               Terminal(child.terminal, task, ok)[i] =
                 IF Expected[i] # task THEN child.terminal[i]
                 ELSE IF ok /\ child.terminal[i] # "failed" THEN "success" ELSE "failed"
      BY DEF Terminal
    <3>3. DOMAIN child.terminal = 1..Len(child.terminal) /\ Len(child.terminal) \in Nat
      BY <3>1
    <3>4. \A i \in DOMAIN child.terminal : Terminal(child.terminal, task, ok)[i] \in Marks
      BY <3>1, <3>2 DEF Marks
    <3>5. Terminal(child.terminal, task, ok) \in [1..Len(child.terminal) -> Marks]
      BY <3>2, <3>3, <3>4 DEF Terminal
    <3>6. Terminal(child.terminal, task, ok) \in Seq(Marks)
      BY <3>3, <3>5
    <3> QED
      BY <3>2, <3>6
  <2>9. /\ child' \in Children /\ child'.run = 2 /\ child'.cli = "running"
        /\ child'.condemned = child.condemned
        /\ child'.terminal = Terminal(child.terminal, task, ok)
    <3>1. << >> \in Seq(Tasks)
      OBVIOUS
    <3> QED
      BY <2>2, <2>3, <2>7, <2>8, <3>1 DEF Children
  <2>10. /\ runDirs' \in {runDirs, [runDirs EXCEPT ![2].artifact = Artifact(child')]}
         /\ seen' \in [ran : SUBSET (Tasks \X BOOLEAN), unwritten : BOOLEAN,
                       reopened : BOOLEAN, unreachable : BOOLEAN]
         /\ seen'.ran = seen.ran \cup {<< task, ok >>}
         /\ seen'.reopened = seen.reopened /\ seen'.unreachable = seen.unreachable
    <3>0. ok \in BOOLEAN
      OBVIOUS
    <3>1. {<< task, ok >>} \in SUBSET (Tasks \X BOOLEAN)
      BY <2>4, <3>0
    <3>2. Persist(child') /\ Note(child', {<< task, ok >>})
      BY <2>1 DEF task
    <3> QED
      BY <2>3, <2>9, <3>1, <3>2, NoteFacts
  <2>11. Evident(child.terminal, runDirs[2].plan, seen.ran)
           => Evident(child'.terminal, runDirs[2].plan, seen'.ran)
    BY <2>3, <2>8, <2>9, <2>10 DEF Evident
  <2> QED
    BY <2>2, <2>3, <2>9, <2>10, <2>11, ToolKeeps
<1>6. CASE AgentExits
  <2>1. /\ child.agent = "running" /\ Tool
        /\ child' = [child EXCEPT !.agent = "gone"]
        /\ \/ Persist(child') /\ Note(child', {})
           \/ UNCHANGED << runDirs, seen >>
    BY <1>6 DEF AgentExits
  <2>2. /\ child.run = 2 /\ contract = 2 /\ child \in Children /\ child.cli # "none"
    BY <2>1, ChildFacts
  <2>3. /\ child' \in Children /\ child'.run = 2 /\ child'.cli = child.cli
        /\ child'.condemned = child.condemned /\ child'.terminal = child.terminal
    BY <2>1, <2>2 DEF Children
  <2>4. /\ runDirs' \in {runDirs, [runDirs EXCEPT ![2].artifact = Artifact(child')]}
        /\ seen' \in [ran : SUBSET (Tasks \X BOOLEAN), unwritten : BOOLEAN,
                      reopened : BOOLEAN, unreachable : BOOLEAN]
        /\ seen'.ran = seen.ran
        /\ seen'.reopened = seen.reopened /\ seen'.unreachable = seen.unreachable
    <3>1. CASE Persist(child') /\ Note(child', {})
      <4>1. /\ runDirs' \in {runDirs, [runDirs EXCEPT ![2].artifact = Artifact(child')]}
            /\ seen' \in [ran : SUBSET (Tasks \X BOOLEAN), unwritten : BOOLEAN,
                          reopened : BOOLEAN, unreachable : BOOLEAN]
            /\ seen'.ran = seen.ran \cup {}
            /\ seen'.reopened = seen.reopened /\ seen'.unreachable = seen.unreachable
        BY <2>2, <2>3, <3>1, NoteFacts
      <4> QED
        BY <4>1
    <3>2. CASE UNCHANGED << runDirs, seen >>
      BY <3>2 DEF IInv, TypeOK
    <3> QED
      BY <2>1, <3>1, <3>2
  <2> QED
    BY <2>1, <2>2, <2>3, <2>4, ToolKeeps
<1> QED
  BY <1>1, <1>2, <1>3, <1>4, <1>5, <1>6 DEF ToolStep
-----------------------------------------------------------------------------
(* STOP_FGO: nothing of a cleaned run is left to open the game again.      *)
LEMMA BeginStopKeeps ==
  ASSUME IInv, BeginStop
  PROVE  IInv'
<1>1. /\ pc = "stop" /\ pc' = "force" /\ r \in Results /\ stop = NotStopped
      /\ r' = [FreshLocals EXCEPT !.status = r.status, !.code = r.code, !.cleaned = r.cleaned]
      /\ child' = IF r.cleaned THEN NoChild ELSE child
      /\ UNCHANGED << profile, staged, runDirs, contract, stop, app >>
  BY DEF BeginStop, Stopper, user, IInv, TypeOK, Stopping
<1>2. r' \in Results /\ r'.cleaned = r.cleaned
  BY <1>1, FreshTypes DEF FreshLocals, Results
<1>3. seen' \in [ran : SUBSET (Tasks \X BOOLEAN), unwritten : BOOLEAN,
                 reopened : BOOLEAN, unreachable : BOOLEAN]
  BY DEF BeginStop, NothingSeen
<1>4. child' \in Children
  BY <1>1, FreshTypes DEF IInv, TypeOK
<1>5. TypeOK'
  BY <1>1, <1>2, <1>3, <1>4 DEF IInv, TypeOK, Ending
<1>6. Contracted'
  BY <1>1 DEF IInv, Contracted, Preparation, Before
<1>7. Evidence' /\ Verdict'
  BY <1>1 DEF Evidence, Verdict, Preparation, Running, Before
<1>8. Stopping'
  BY <1>1, <1>2 DEF Stopping, VerifiedStopIsDown, Ending
<1> QED
  BY <1>5, <1>6, <1>7, <1>8 DEF IInv

LEMMA PidofCases ==
  ASSUME NEW printed \in BOOLEAN, pc \in {"look", "again"}, Pidof(printed)
  PROVE  \/ ~printed /\ StopEnds("stopped", "verified")
         \/ printed /\ pc = "look" /\ pc' = "again" /\ UNCHANGED stop
         \/ printed /\ pc = "again" /\ StopEnds("failed", "failed")
<1>1. CASE ~printed
  BY <1>1 DEF Pidof
<1>2. CASE printed /\ pc = "look"
  BY <1>2 DEF Pidof
<1>3. CASE printed /\ pc = "again"
  BY <1>3 DEF Pidof
<1> QED
  BY <1>1, <1>2, <1>3

(* How each step of the stop ends, and when it may say verified.           *)
LEMMA StopOutcome ==
  ASSUME pc \in {"force", "look", "again"}, StopControl \/ ForceStop \/ ForceStopControlled \/ Look
  PROVE  \/ pc' = "over" /\ \E st \in {"stopped", "failed", "cancelled", "timeout"} :
                \E v \in {"skipped", "inconclusive", "failed"} :
                  stop' = [status |-> st, verification |-> v]
         \/ /\ pc' = "over" /\ stop' = [status |-> "stopped", verification |-> "verified"]
            /\ app' = app /\ (app = "down" \/ seen' = [seen EXCEPT !.unreachable = TRUE])
         \/ pc' \in {"look", "again"} /\ stop' = stop
<1>1. CASE StopControl \/ ForceStopControlled
  BY <1>1 DEF StopControl, ForceStopControlled, StopEnds, ByControl
<1>2. CASE ForceStop
  BY <1>2 DEF ForceStop, StopEnds
<1>3. CASE Look
  <2>1. CASE Pidof(app # "down")
    <3>1. (app # "down") \in BOOLEAN
      OBVIOUS
    <3>2. app' = app /\ pc \in {"look", "again"}
      BY <1>3 DEF Look
    <3> QED
      BY <2>1, <3>1, <3>2, PidofCases DEF StopEnds
  <2>2. CASE Pidof(FALSE) /\ seen' = [seen EXCEPT !.unreachable = TRUE]
    <3>1. app' = app /\ pc \in {"look", "again"}
      BY <1>3 DEF Look
    <3>2. StopEnds("stopped", "verified")
      BY <2>2, <3>1, PidofCases
    <3> QED
      BY <2>2, <3>1, <3>2 DEF StopEnds
  <2>3. CASE StopEnds("stopped", "inconclusive")
    BY <2>3 DEF StopEnds
  <2> QED
    BY <1>3, <2>1, <2>2, <2>3 DEF Look
<1> QED
  BY <1>1, <1>2, <1>3

LEMMA StopKeeps ==
  ASSUME IInv, StopControl \/ ForceStop \/ ForceStopControlled \/ Look
  PROVE  IInv'
<1>0. /\ pc \in {"force", "look", "again"} /\ stop = NotStopped
      /\ UNCHANGED << profile, staged, runDirs, contract, r, child >>
  BY DEF StopControl, ForceStop, ForceStopControlled, Look, Stopper, user, IInv, Stopping
<1>1. pc' \in {"look", "again", "over"}
  BY <1>0, StopOutcome
<1>2. /\ stop' \in StopResults
      /\ pc' # "over" => stop' = stop
  BY <1>0, StopOutcome DEF StopResults, NotStopped
<1>3. /\ seen' \in [ran : SUBSET (Tasks \X BOOLEAN), unwritten : BOOLEAN,
                    reopened : BOOLEAN, unreachable : BOOLEAN]
      /\ seen' = [seen EXCEPT !.unreachable = TRUE] => seen'.unreachable
  BY DEF StopControl, ForceStop, ForceStopControlled, Look, IInv, TypeOK
<1>4. stop'.verification = "verified" /\ ~seen'.unreachable => app' = "down"
  BY <1>0, <1>3, StopOutcome DEF NotStopped
<1>5. TypeOK'
  BY <1>0, <1>1, <1>2, <1>3 DEF IInv, TypeOK, Ending
<1>6. Contracted' /\ Evidence' /\ Verdict'
  BY <1>0, <1>1 DEF IInv, Contracted, Evidence, Verdict, Preparation, Running, Before
<1>7. Stopping'
  BY <1>0, <1>1, <1>2, <1>4 DEF IInv, Stopping, VerifiedStopIsDown, Ending, Running, Before
<1> QED
  BY <1>5, <1>6, <1>7 DEF IInv

LEMMA WorldKeeps ==
  ASSUME IInv, AppDies \/ Edit \/ Stops \/ Over
  PROVE  IInv'
<1>1. /\ UNCHANGED << staged, runDirs, contract, pc, r, child, stop >>
      /\ profile' \in Profiles
      /\ seen' = seen \/ seen' = [seen EXCEPT !.reopened = TRUE]
  BY DEF AppDies, Edit, Stops, Over, vars, user, IInv, TypeOK
<1>2. /\ seen' \in [ran : SUBSET (Tasks \X BOOLEAN), unwritten : BOOLEAN,
                    reopened : BOOLEAN, unreachable : BOOLEAN]
      /\ seen'.ran = seen.ran /\ seen'.unreachable = seen.unreachable
      /\ app' \in {app, "down"} \/ seen'.reopened
      /\ seen.reopened => seen'.reopened
  BY <1>1 DEF AppDies, Edit, Stops, Over, vars, user, IInv, TypeOK
<1>3. TypeOK'
  BY <1>1, <1>2 DEF IInv, TypeOK
<1>4. Contracted' /\ Evidence' /\ Verdict'
  BY <1>1, <1>2 DEF IInv, Contracted, Evidence, Evident, Verdict, Plan
<1>5. Stopping'
  BY <1>1, <1>2 DEF IInv, Stopping, VerifiedStopIsDown
<1> QED
  BY <1>3, <1>4, <1>5 DEF IInv

LEMMA NextIInv == IInv /\ [Next]_vars => IInv'
<1> SUFFICES ASSUME IInv, [Next]_vars PROVE IInv'
  OBVIOUS
<1>1. CASE Next
  <2>1. CASE PrepareFails \/ Begin \/ Sync \/ ReplaceProfile \/ CheckProfile
    BY <2>1, PreparationKeeps
  <2>2. CASE MakeContract
    BY <2>2, MakeContractKeeps
  <2>3. CASE Control \/ Misconfigured \/ Proceed \/ Launch
    BY <2>3, LaunchKeeps
  <2>4. CASE Exited \/ Terminated
    BY <2>4, WaitKeeps
  <2>5. CASE Verify \/ Close
    BY <2>5, VerifyKeeps
  <2>6. CASE ToolStep
    BY <2>6, ToolStepKeeps
  <2>7. CASE BeginStop
    BY <2>7, BeginStopKeeps
  <2>8. CASE StopControl \/ ForceStop \/ ForceStopControlled \/ Look
    BY <2>8, StopKeeps
  <2>9. CASE AppDies \/ Edit \/ Stops \/ Over
    BY <2>9, WorldKeeps
  <2> QED
    BY <1>1, <2>1, <2>2, <2>3, <2>4, <2>5, <2>6, <2>7, <2>8, <2>9 DEF Next, StageStep
<1>2. CASE UNCHANGED vars
  <2>1. UNCHANGED << profile, staged, runDirs, contract, pc, r, child, stop, app, seen >>
    BY <1>2 DEF vars, user
  <2>2. TypeOK' /\ Contracted' /\ Evidence'
    BY <2>1 DEF IInv, TypeOK, Contracted, Evidence, Evident
  <2>3. Verdict' /\ Stopping'
    BY <2>1 DEF IInv, Verdict, Plan, Stopping, VerifiedStopIsDown
  <2> QED
    BY <2>2, <2>3 DEF IInv
<1> QED
  BY <1>1, <1>2

(* The inductive invariant of the FGO stages, for every set of profiles:   *)
(* what an artifact of this contract claims has happened in this run, the  *)
(* verdict claims no more, and a cleaned run has left nothing behind.      *)
THEOREM IInvIsInvariant == Spec => []IInv
  BY InitIInv, NextIInv, PTL DEF Spec

(* Success is earned (RUN_MAAFGO): each task of the contract has succeeded *)
(* in this run's tool, whatever was edited, killed or left by other runs.  *)
THEOREM EarnedSuccess == Spec => []SuccessIsEarned
<1>1. IInv => SuccessIsEarned
  BY DEF IInv, Verdict, SuccessIsEarned, Returned
<1> QED
  BY <1>1, IInvIsInvariant, PTL

(* Every result of MaaFgoAdapter.run passes its own constructor's checks.  *)
THEOREM ConstructibleResults == Spec => []ResultsAreConstructible
<1>1. IInv => ResultsAreConstructible
  BY DEF IInv, Verdict, ResultsAreConstructible, Returned
<1> QED
  BY <1>1, IInvIsInvariant, PTL

(* A verified STOP_FGO of a cleaned automation holds.                      *)
THEOREM StoppedForGood == Spec => []VerifiedStopIsDown
<1>1. IInv => VerifiedStopIsDown
  BY DEF IInv, Stopping
<1> QED
  BY <1>1, IInvIsInvariant, PTL
-----------------------------------------------------------------------------
(* What the artifact says besides successes.  The reporter's books agree    *)
(* with what happened in the tool, and, unless a write failed, the artifact *)
(* is a copy of them.                                                       *)
Booked(t, tasks, ran) ==
  \A i \in DOMAIN t :
    /\ t[i] = Pending => \A b \in BOOLEAN : << tasks[i], b >> \notin ran
    /\ t[i] = "failed" <=> << tasks[i], FALSE >> \in ran

(* A task that the contract does not know is held against the run, and no  *)
(* other is.                                                               *)
Strange(c, tasks, ran) ==
  \/ \E x \in ran : x[1] \notin Range(tasks)
  \/ c.doing # << >> /\ c.doing[1] \notin Range(tasks)

Noticed(c, tasks, ran) ==
  /\ ~c.unexpected =>
       /\ \A x \in ran : \E i \in DOMAIN c.terminal : tasks[i] = x[1]
       /\ c.doing # << >> => \E i \in DOMAIN c.terminal : tasks[i] = c.doing[1]
  /\ c.unexpected /\ DOMAIN c.terminal = DOMAIN tasks => Strange(c, tasks, ran)

(* The tool takes the tasks of the profile p that it has read one by one.  *)
Taken(c, p) == Len(p) - Len(c.queue)

InTurn(c, p, ran) ==
  c.cli \notin {"none", "starting"} =>
    /\ Len(c.queue) <= Len(p)
    /\ \A j \in 1..Len(c.queue) : c.queue[j] = p[Taken(c, p) + j]
    /\ c.doing # << >> => Taken(c, p) > 0 /\ c.doing = << p[Taken(c, p)] >>
    /\ \A x \in ran : \E j \in 1..Taken(c, p) :
          p[j] = x[1] /\ (c.doing # << >> => j < Taken(c, p))

Written(c, tasks) == [run |-> 2, plan |-> tasks, terminal |-> c.terminal,
                      unexpected |-> c.unexpected]

Idle(c) == c.terminal = << >> /\ c.doing = << >> /\ ~c.unexpected

Reporter(c, dir, ran, unwritten, p) ==
  /\ c.agent = "none" => Idle(c) /\ ran = {} /\ dir.artifact = Missing
  /\ c.cli \in {"none", "starting"} => c.agent = "none" /\ c.queue = << >>
  /\ c.agent # "none" /\ ~unwritten => dir.artifact = Written(c, dir.plan)
  /\ c.terminal = << >> \/ DOMAIN c.terminal = DOMAIN dir.plan
  /\ Booked(c.terminal, dir.plan, ran)
  /\ Noticed(c, dir.plan, ran)
  /\ InTurn(c, p, ran)

Reported ==
  pc \in Preparation \cup Running =>
    Reporter(child, runDirs[2], seen.ran, seen.unwritten, profile)

(* The two properties, of any locals l, as soon as there is a verdict.     *)
Caught(l, c, tasks, ran, p) ==
  l.status = "success" =>
    /\ {x[1] : x \in ran} = Range(tasks) /\ \A x \in ran : x[2]
    /\ Range(c.doing) \subseteq Range(tasks)
    /\ Distinct(p) => c.doing = << >>

Justified(l, c, tasks, ran) ==
  /\ l.code = "TASK_FAILED" => \E x \in ran : ~x[2] /\ x[1] \in Range(tasks)
  /\ l.code = "RESULT_INVALID" => Len(c.terminal) # Len(tasks) \/ Strange(c, tasks, ran)
  /\ (l.code = "COMPLETION_UNCONFIRMED" /\ l.artifact = "rejected") =>
       \E i \in DOMAIN tasks : << tasks[i], TRUE >> \notin ran

(* Such a verdict is one on a tool that has ended.                         *)
Final(l) ==
  l.status = "success" \/ l.code \in {"TASK_FAILED", "RESULT_INVALID", "COMPLETION_UNCONFIRMED"}
    => l.exit = "zero"

Caused ==
  /\ pc \in {"verify", "close", "stop"} => Final(r) /\ (r.exit = "zero" => child.cli = "zero")
  /\ pc \in {"close", "stop"} /\ ~seen.unwritten =>
       /\ Caught(r, child, runDirs[2].plan, seen.ran, profile)
       /\ Justified(r, child, runDirs[2].plan, seen.ran)

RInv == Reported /\ Caused
-----------------------------------------------------------------------------
LEMMA InitRInv == Init => RInv
<1> SUFFICES ASSUME Init PROVE RInv
  OBVIOUS
<1>1. child = NoChild /\ seen.ran = {} /\ runDirs[2].artifact = Missing /\ pc = "idle"
  BY DEF Init, NothingSeen, Absent
<1>2. DOMAIN << >> = {}
  OBVIOUS
<1>3. Reporter(child, runDirs[2], seen.ran, seen.unwritten, profile)
  BY <1>1, <1>2 DEF NoChild, Reporter, Idle, Booked, Noticed, InTurn
<1> QED
  BY <1>1, <1>3 DEF RInv, Reported, Caused

(* Launching, ending and watching the tool leaves the books alone, and so   *)
(* does an edit of a profile that the tool has not read yet.                *)
LEMMA ReporterStays ==
  ASSUME NEW c, NEW d, NEW dir, NEW ran, NEW unwritten, NEW p, NEW q \in Profiles,
         Reporter(c, dir, ran, unwritten, p),
         d.terminal = c.terminal, d.doing = c.doing, d.queue = c.queue,
         d.unexpected = c.unexpected, d.agent = c.agent,
         d.cli \in {"none", "starting"} => c.cli \in {"none", "starting"},
         q = p \/ d.cli \in {"none", "starting"}
  PROVE  Reporter(d, dir, ran, unwritten, q)
<1>1. Idle(d) <=> Idle(c)
  BY DEF Idle
<1>2. Written(d, dir.plan) = Written(c, dir.plan)
  BY DEF Written
<1>3. Noticed(d, dir.plan, ran) /\ Booked(d.terminal, dir.plan, ran)
  BY DEF Reporter, Noticed, Strange
<1>4. InTurn(d, q, ran)
  <2>1. CASE c.cli \in {"none", "starting"}
    <3>1. d.queue = << >> /\ d.doing = << >> /\ ran = {} /\ Len(<< >>) = 0 /\ Len(q) \in Nat
      BY <2>1, ProfileFacts DEF Reporter, Idle
    <3> QED
      BY <3>1 DEF InTurn
  <2>2. CASE c.cli \notin {"none", "starting"}
    <3>1. q = p /\ InTurn(c, p, ran) /\ Taken(d, p) = Taken(c, p)
      BY <2>2 DEF Reporter, Taken
    <3> QED
      BY <2>2, <3>1 DEF InTurn
  <2> QED
    BY <2>1, <2>2
<1> QED
  BY <1>1, <1>2, <1>3, <1>4 DEF Reporter

(* What a persisted step writes.                                            *)
LEMMA NoteWrites ==
  ASSUME IInv, NEW c \in Children, c.run = 2, child.run = 2, NEW ran \in SUBSET (Tasks \X BOOLEAN),
         Persist(c), Note(c, ran)
  PROVE  /\ runDirs'[2].plan = runDirs[2].plan
         /\ seen'.ran = seen.ran \cup ran
         /\ seen.unwritten => seen'.unwritten
         /\ ~seen'.unwritten => runDirs'[2].artifact = Written(c, runDirs[2].plan)
<1>1. runDirs' \in {runDirs, [runDirs EXCEPT ![2].artifact = Artifact(c)]}
  BY DEF Persist
<1>2. runDirs \in [RunIds -> Dirs] /\ 2 \in RunIds /\ runDirs[2] \in Dirs
  BY DEF IInv, TypeOK, RunIds
<1>3. runDirs'[2].plan = runDirs[2].plan
  BY <1>1, <1>2 DEF Dirs
<1>4. seen' = [seen EXCEPT !.ran = seen.ran \cup ran,
                           !.unwritten = seen.unwritten \/ runDirs'[2].artifact # Artifact(c)]
  BY DEF Note
<1>5. PICK b \in BOOLEAN : b = (seen.unwritten \/ runDirs'[2].artifact # Artifact(c))
  OBVIOUS
<1>6. seen' = [seen EXCEPT !.ran = seen.ran \cup ran, !.unwritten = b]
  BY <1>4, <1>5
<1>7. seen'.ran = seen.ran \cup ran /\ seen'.unwritten = b
  BY <1>6 DEF IInv, TypeOK
<1>8. Artifact(c) = Written(c, runDirs[2].plan)
  BY DEF Artifact, Written, Expected
<1> QED
  BY <1>3, <1>5, <1>7, <1>8
-----------------------------------------------------------------------------
(* The reporter's steps.                                                    *)
LEMMA StartBooks ==
  ASSUME NEW c \in Children, NEW d \in Children, NEW tasks, NEW ran, NEW p \in Profiles,
         c.cli = "running", c.doing = << >>, c.queue # << >>,
         Booked(c.terminal, tasks, ran), Noticed(c, tasks, ran), InTurn(c, p, ran),
         d.terminal = c.terminal, d.doing = << Head(c.queue) >>, d.queue = Tail(c.queue),
         d.cli = "running",
         d.unexpected <=> c.unexpected \/ \A i \in DOMAIN c.terminal : tasks[i] # Head(c.queue)
  PROVE  Booked(d.terminal, tasks, ran) /\ Noticed(d, tasks, ran) /\ InTurn(d, p, ran)
<1> DEFINE task == Head(c.queue)
<1>1. d.doing # << >> /\ d.doing[1] = task
  OBVIOUS
<1>2. Noticed(d, tasks, ran)
  <2>1. ASSUME ~d.unexpected
        PROVE  /\ \A x \in ran : \E i \in DOMAIN d.terminal : tasks[i] = x[1]
               /\ \E i \in DOMAIN d.terminal : tasks[i] = d.doing[1]
    BY <1>1, <2>1 DEF Noticed
  <2>2. ASSUME d.unexpected, DOMAIN d.terminal = DOMAIN tasks
        PROVE  Strange(d, tasks, ran)
    <3>1. CASE c.unexpected
      BY <2>2, <3>1 DEF Noticed, Strange
    <3>2. CASE \A i \in DOMAIN c.terminal : tasks[i] # task
      BY <1>1, <2>2, <3>2 DEF Strange, Range
    <3> QED
      BY <2>2, <3>1, <3>2
  <2> QED
    BY <2>1, <2>2 DEF Noticed
<1>3. InTurn(d, p, ran)
  <2>1. c.queue \in Seq(Tasks) /\ Len(c.queue) \in Nat /\ Len(c.queue) > 0 /\ Len(p) \in Nat
    BY ProfileFacts DEF Children
  <2>2. /\ Len(d.queue) = Len(c.queue) - 1 /\ task = c.queue[1]
        /\ \A j \in 1..Len(d.queue) : d.queue[j] = c.queue[j + 1]
    BY <2>1
  <2>3. /\ Len(c.queue) <= Len(p)
        /\ \A j \in 1..Len(c.queue) : c.queue[j] = p[Taken(c, p) + j]
        /\ \A x \in ran : \E j \in 1..Taken(c, p) : p[j] = x[1]
    BY DEF InTurn
  <2>4. Taken(d, p) = Taken(c, p) + 1 /\ Taken(c, p) \in Nat
    <3>1. Len(c.queue) <= Len(p) /\ Len(d.queue) = Len(c.queue) - 1
      BY <2>2, <2>3
    <3>2. \A m, n \in Nat : m <= n => n - (m - 1) = (n - m) + 1 /\ n - m \in Nat
      OBVIOUS
    <3>3. Taken(d, p) = Len(p) - (Len(c.queue) - 1) /\ Taken(c, p) = Len(p) - Len(c.queue)
      BY <3>1 DEF Taken
    <3> QED
      BY <2>1, <3>1, <3>2, <3>3
  <2>5. task = p[Taken(d, p)]
    BY <2>1, <2>2, <2>3, <2>4
  <2>6. \A j \in 1..Len(d.queue) : d.queue[j] = p[Taken(d, p) + j]
    <3> SUFFICES ASSUME NEW j \in 1..Len(d.queue) PROVE d.queue[j] = p[Taken(d, p) + j]
      OBVIOUS
    <3>1. j + 1 \in 1..Len(c.queue) /\ Taken(c, p) + (j + 1) = Taken(d, p) + j
      BY <2>1, <2>2, <2>4
    <3> QED
      BY <2>2, <2>3, <3>1
  <2>7. \A x \in ran : \E j \in 1..Taken(d, p) : p[j] = x[1] /\ j < Taken(d, p)
    BY <2>3, <2>4
  <2> QED
    BY <1>1, <2>1, <2>2, <2>3, <2>4, <2>5, <2>6, <2>7 DEF InTurn
<1> QED
  BY <1>2, <1>3

LEMMA FinishBooks ==
  ASSUME NEW c \in Children, NEW d \in Children, NEW tasks, NEW ran, NEW p \in Profiles,
         NEW task, NEW ok \in BOOLEAN,
         c.cli = "running", c.doing # << >>, task = c.doing[1],
         Booked(c.terminal, tasks, ran), Noticed(c, tasks, ran), InTurn(c, p, ran),
         DOMAIN d.terminal = DOMAIN c.terminal,
         \A i \in DOMAIN c.terminal :
           d.terminal[i] = IF tasks[i] # task THEN c.terminal[i]
                           ELSE IF ok /\ c.terminal[i] # "failed" THEN "success" ELSE "failed",
         d.doing = << >>, d.queue = c.queue, d.cli = "running",
         d.unexpected <=> c.unexpected \/ \A i \in DOMAIN c.terminal : tasks[i] # task
  PROVE  /\ Booked(d.terminal, tasks, ran \cup {<< task, ok >>})
         /\ Noticed(d, tasks, ran \cup {<< task, ok >>})
         /\ InTurn(d, p, ran \cup {<< task, ok >>})
<1> DEFINE now == ran \cup {<< task, ok >>}
<1>1. Booked(d.terminal, tasks, now)
  <2> SUFFICES ASSUME NEW i \in DOMAIN c.terminal
               PROVE  /\ d.terminal[i] = Pending => \A b \in BOOLEAN : << tasks[i], b >> \notin now
                      /\ d.terminal[i] = "failed" <=> << tasks[i], FALSE >> \in now
    BY DEF Booked
  <2>1. CASE tasks[i] # task
    <3>1. \A b \in BOOLEAN : << tasks[i], b >> \in now <=> << tasks[i], b >> \in ran
      BY <2>1
    <3> QED
      BY <2>1, <3>1 DEF Booked
  <2>2. CASE tasks[i] = task
    <3>1. d.terminal[i] # Pending
      BY <2>2 DEF Pending
    <3>2. << task, FALSE >> \in now <=> << task, FALSE >> \in ran \/ ~ok
      OBVIOUS
    <3>3. c.terminal[i] = "failed" <=> << task, FALSE >> \in ran
      BY <2>2 DEF Booked
    <3> QED
      BY <2>2, <3>1, <3>2, <3>3
  <2> QED
    BY <2>1, <2>2
<1>2. Noticed(d, tasks, now)
  <2>1. ASSUME ~d.unexpected
        PROVE  \A x \in now : \E i \in DOMAIN d.terminal : tasks[i] = x[1]
    BY <2>1 DEF Noticed
  <2>2. ASSUME d.unexpected, DOMAIN d.terminal = DOMAIN tasks
        PROVE  Strange(d, tasks, now)
    <3>1. CASE c.unexpected
      <4>1. Strange(c, tasks, ran)
        BY <2>2, <3>1 DEF Noticed
      <4>2. << task, ok >> \in now /\ << task, ok >>[1] = task
        OBVIOUS
      <4> QED
        BY <4>1, <4>2 DEF Strange
    <3>2. CASE \A i \in DOMAIN c.terminal : tasks[i] # task
      <4>1. << task, ok >> \in now /\ << task, ok >>[1] \notin Range(tasks)
        BY <2>2, <3>2 DEF Range
      <4> QED
        BY <4>1 DEF Strange
    <3> QED
      BY <2>2, <3>1, <3>2
  <2> QED
    BY <2>1, <2>2 DEF Noticed
<1>3. InTurn(d, p, now)
  <2>1. /\ Len(c.queue) <= Len(p) /\ Len(c.queue) \in Nat /\ Len(p) \in Nat
        /\ \A j \in 1..Len(c.queue) : c.queue[j] = p[Taken(c, p) + j]
        /\ Taken(c, p) > 0 /\ task = p[Taken(c, p)]
        /\ \A x \in ran : \E j \in 1..Taken(c, p) : p[j] = x[1]
    BY ProfileFacts DEF InTurn, Children
  <2>2. Taken(d, p) = Taken(c, p) /\ Taken(c, p) \in Nat
    BY <2>1 DEF Taken
  <2>3. \A x \in now : \E j \in 1..Taken(d, p) : p[j] = x[1]
    BY <2>1, <2>2
  <2> QED
    BY <2>1, <2>2, <2>3 DEF InTurn
<1> QED
  BY <1>1, <1>2, <1>3
(* No step of the tool disturbs the books.                                  *)
LEMMA ToolReports ==
  ASSUME IInv, Reported, ToolStep
  PROVE  Reported'
<1> SUFFICES ASSUME pc \in Running
             PROVE  Reporter(child', runDirs'[2], seen'.ran, seen'.unwritten, profile)
  <2>1. child.cli # "none" \/ child.agent # "none"
    BY DEF ToolStep, CliStarts, CliExits, AgentStarts, StartTask, FinishTask, AgentExits
  <2>2. contract = 2 /\ pc' = pc /\ profile' = profile
    BY <2>1, ChildFacts DEF ToolStep, CliStarts, CliExits, AgentStarts, StartTask, FinishTask,
       AgentExits, Tool, user
  <2>3. pc \notin Preparation
    BY <2>2 DEF IInv, Contracted
  <2> QED
    BY <2>2, <2>3 DEF Reported
<1> DEFINE tasks == runDirs[2].plan
           Recorded(ran) ==
             /\ runDirs'[2].plan = tasks
             /\ seen'.ran = seen.ran \cup ran
             /\ seen.unwritten => seen'.unwritten
             /\ ~seen'.unwritten => runDirs'[2].artifact = Written(child', tasks)
<1>1. Reporter(child, runDirs[2], seen.ran, seen.unwritten, profile) /\ profile \in Profiles
  BY DEF Reported, IInv, TypeOK
<1>2. child \in Children
  BY DEF IInv, TypeOK
<1>3. CASE CliStarts
  <2>1. /\ child' = [child EXCEPT !.cli = "running", !.queue = profile]
        /\ child.cli = "starting" /\ UNCHANGED << runDirs, seen >>
    BY <1>3 DEF CliStarts
  <2>2. /\ child'.queue = profile /\ child'.cli = "running" /\ child'.agent = child.agent
        /\ child'.terminal = child.terminal /\ child'.doing = child.doing
        /\ child'.unexpected = child.unexpected
    BY <1>2, <2>1 DEF Children
  <2>3. child.agent = "none" /\ seen.ran = {} /\ Idle(child)
    BY <1>1, <2>1 DEF Reporter
  <2>4. InTurn(child', profile, {})
    <3>1. Len(profile) \in Nat /\ Taken(child', profile) = 0
      BY <1>1, <2>2, ProfileFacts DEF Taken
    <3> QED
      BY <2>2, <2>3, <3>1 DEF InTurn, Idle
  <2> QED
    BY <1>1, <2>1, <2>2, <2>3, <2>4 DEF Reporter, Idle, Noticed, Strange
<1>4. CASE CliExits
  <2>1. PICK code \in {"zero", "nonzero", "killed"} :
          child' = [child EXCEPT !.cli = code] /\ UNCHANGED << runDirs, seen >>
    BY <1>4 DEF CliExits
  <2>2. /\ child'.queue = child.queue /\ child'.cli = code /\ child'.agent = child.agent
        /\ child'.terminal = child.terminal /\ child'.doing = child.doing
        /\ child'.unexpected = child.unexpected
    BY <1>2, <2>1 DEF Children
  <2> QED
    BY <1>1, <2>1, <2>2, ReporterStays
<1>5. CASE AgentStarts
  <2>1. /\ child.cli = "running" /\ child.agent = "none"
        /\ Persist(child') /\ Note(child', {})
        /\ \/ child' = [child EXCEPT !.agent = "running",
                                     !.terminal = [i \in DOMAIN Expected |-> Pending]]
           \/ child' = [child EXCEPT !.agent = "running"]
    BY <1>5 DEF AgentStarts
  <2>2. child.run = 2 /\ Expected = tasks /\ tasks \in Profiles
    BY <2>1, ChildFacts
  <2>3. [i \in DOMAIN tasks |-> Pending] \in Seq(Marks)
    BY <2>2, ProfileFacts DEF Marks
  <2>4. /\ child' \in Children /\ child'.run = 2 /\ child'.cli = "running"
        /\ child'.agent = "running" /\ child'.queue = child.queue /\ child'.doing = child.doing
        /\ child'.unexpected = child.unexpected
        /\ child'.terminal \in {child.terminal, [i \in DOMAIN tasks |-> Pending]}
    BY <1>2, <2>1, <2>2, <2>3 DEF Children
  <2>5. Recorded({})
    BY <2>1, <2>2, <2>4, NoteWrites
  <2>6. Idle(child) /\ seen.ran = {} /\ InTurn(child, profile, {})
    BY <1>1, <2>1 DEF Reporter
  <2>7. /\ child'.terminal = << >> \/ DOMAIN child'.terminal = DOMAIN tasks
        /\ \A i \in DOMAIN child'.terminal : child'.terminal[i] = Pending
    BY <2>4, <2>6 DEF Idle
  <2>8. Booked(child'.terminal, tasks, {}) /\ Noticed(child', tasks, {})
    BY <2>4, <2>6, <2>7 DEF Booked, Noticed, Idle, Pending
  <2>9. InTurn(child', profile, {})
    BY <2>1, <2>4, <2>6 DEF InTurn, Taken
  <2>10. seen'.ran = {}
    BY <2>5, <2>6
  <2> QED
    BY <2>4, <2>5, <2>7, <2>8, <2>9, <2>10 DEF Reporter
<1>6. CASE StartTask
  <2> DEFINE task == Head(child.queue)
  <2>1. /\ child.cli = "running" /\ child.agent = "running" /\ child.doing = << >>
        /\ Persist(child') /\ Note(child', {}) /\ child.queue # << >>
        /\ child' = [Takes(child, task) EXCEPT !.doing = << task >>, !.queue = Tail(@)]
    BY <1>6 DEF StartTask
  <2>2. child.run = 2 /\ Expected = tasks
    BY <2>1, ChildFacts
  <2>3. << task >> \in Seq(Tasks) /\ Tail(child.queue) \in Seq(Tasks)
    BY <1>2, <2>1 DEF Children
  <2>4. PICK b \in BOOLEAN :
          b = (child.unexpected \/ \A i \in DOMAIN child.terminal : tasks[i] # task)
    OBVIOUS
  <2>5. Takes(child, task) = [child EXCEPT !.unexpected = b]
    BY <2>2, <2>4 DEF Takes
  <2>6. Takes(child, task).queue = child.queue
    BY <1>2, <2>5 DEF Children
  <2> HIDE DEF task
  <2>7. child' = [child EXCEPT !.unexpected = b, !.doing = << task >>, !.queue = Tail(child.queue)]
    BY <2>1, <2>5, <2>6
  <2>8. /\ child' \in Children /\ child'.run = 2 /\ child'.cli = "running"
        /\ child'.agent = "running" /\ child'.queue = Tail(child.queue)
        /\ child'.doing = << task >> /\ child'.unexpected = b
        /\ child'.terminal = child.terminal
    BY <1>2, <2>1, <2>2, <2>3, <2>7 DEF Children
  <2>9. Recorded({})
    BY <2>1, <2>2, <2>8, NoteWrites
  <2>10. seen'.ran = seen.ran
    BY <2>9
  <2>11. /\ Booked(child.terminal, tasks, seen.ran) /\ Noticed(child, tasks, seen.ran)
         /\ InTurn(child, profile, seen.ran)
    BY <1>1 DEF Reporter
  <2>12. /\ Booked(child'.terminal, tasks, seen.ran) /\ Noticed(child', tasks, seen.ran)
         /\ InTurn(child', profile, seen.ran)
    <3>1. child'.doing = << Head(child.queue) >>
      BY <2>8 DEF task
    <3>2. child'.unexpected <=>
            child.unexpected \/ \A i \in DOMAIN child.terminal : tasks[i] # Head(child.queue)
      BY <2>4, <2>8 DEF task
    <3> HIDE DEF tasks
    <3> QED
      BY <1>1, <1>2, <2>1, <2>8, <2>11, <3>1, <3>2, StartBooks
  <2> QED
    BY <1>1, <2>8, <2>9, <2>10, <2>12 DEF Reporter
<1>7. CASE FinishTask
  <2> DEFINE task == child.doing[1]
  <2>1. PICK ok \in BOOLEAN :
          /\ child' = [Takes(child, task) EXCEPT !.terminal = Terminal(@, task, ok),
                                                 !.prior = @ \/ ~ok, !.doing = << >>]
          /\ Persist(child') /\ Note(child', {<< task, ok >>})
    BY <1>7 DEF FinishTask
  <2>2. child.cli = "running" /\ child.agent = "running" /\ child.doing # << >>
    BY <1>7 DEF FinishTask
  <2>3. child.run = 2 /\ Expected = tasks
    BY <2>2, ChildFacts
  <2>4. task \in Tasks
    BY <1>2, <2>2 DEF Children
  <2>5. PICK b \in BOOLEAN :
          b = (child.unexpected \/ \A i \in DOMAIN child.terminal : tasks[i] # task)
    OBVIOUS
  <2>6. PICK prior \in BOOLEAN : prior = (child.prior \/ ~ok)
    OBVIOUS
  <2>7. Takes(child, task) = [child EXCEPT !.unexpected = b]
    BY <2>3, <2>5 DEF Takes
  <2>8. Takes(child, task).terminal = child.terminal /\ Takes(child, task).prior = child.prior
    BY <1>2, <2>7 DEF Children
  <2>9. {<< task, ok >>} \in SUBSET (Tasks \X BOOLEAN)
    BY <2>4
  <2>10. /\ DOMAIN Terminal(child.terminal, task, ok) = DOMAIN child.terminal
         /\ \A i \in DOMAIN child.terminal :
              Terminal(child.terminal, task, ok)[i] =
                IF tasks[i] # task THEN child.terminal[i]
                ELSE IF ok /\ child.terminal[i] # "failed" THEN "success" ELSE "failed"
    BY <2>3 DEF Terminal
  <2>11. Terminal(child.terminal, task, ok) \in Seq(Marks)
    <3>1. child.terminal \in Seq(Marks)
      BY <1>2 DEF Children
    <3>2. DOMAIN child.terminal = 1..Len(child.terminal) /\ Len(child.terminal) \in Nat
      BY <3>1
    <3>3. \A i \in DOMAIN child.terminal : Terminal(child.terminal, task, ok)[i] \in Marks
      BY <2>10, <3>1 DEF Marks
    <3>4. Terminal(child.terminal, task, ok) \in [1..Len(child.terminal) -> Marks]
      BY <3>2, <3>3 DEF Terminal
    <3> QED
      BY <3>2, <3>4
  <2> HIDE DEF task
  <2>12. child' = [child EXCEPT !.unexpected = b, !.terminal = Terminal(child.terminal, task, ok),
                                !.prior = prior, !.doing = << >>]
    BY <2>1, <2>6, <2>7, <2>8
  <2>13. /\ child' \in Children /\ child'.run = 2 /\ child'.cli = "running"
         /\ child'.agent = "running" /\ child'.queue = child.queue
         /\ child'.doing = << >> /\ child'.unexpected = b
         /\ child'.terminal = Terminal(child.terminal, task, ok)
    <3>1. << >> \in Seq(Tasks)
      OBVIOUS
    <3> QED
      BY <1>2, <2>2, <2>3, <2>11, <2>12, <3>1 DEF Children
  <2>14. Recorded({<< task, ok >>})
    BY <2>1, <2>3, <2>9, <2>13, NoteWrites
  <2>15. /\ Booked(child.terminal, tasks, seen.ran) /\ Noticed(child, tasks, seen.ran)
         /\ InTurn(child, profile, seen.ran)
         /\ child.terminal = << >> \/ DOMAIN child.terminal = DOMAIN tasks
    BY <1>1 DEF Reporter
  <2>16. /\ Booked(child'.terminal, tasks, seen.ran \cup {<< task, ok >>})
         /\ Noticed(child', tasks, seen.ran \cup {<< task, ok >>})
         /\ InTurn(child', profile, seen.ran \cup {<< task, ok >>})
    <3>1. task = child.doing[1]
      BY DEF task
    <3> HIDE DEF tasks
    <3>2. child'.unexpected <=>
            child.unexpected \/ \A i \in DOMAIN child.terminal : tasks[i] # task
      BY <2>5, <2>13
    <3> QED
      BY <1>1, <1>2, <2>2, <2>10, <2>13, <2>15, <3>1, <3>2, FinishBooks
  <2>17. child'.terminal = << >> \/ DOMAIN child'.terminal = DOMAIN tasks
    <3>1. CASE child.terminal = << >>
      <4>1. DOMAIN child'.terminal = {} /\ child'.terminal \in Seq(Marks)
        BY <2>10, <2>11, <2>13, <3>1
      <4>2. \A t \in Seq(Marks) : DOMAIN t = {} => t = << >>
        <5> SUFFICES ASSUME NEW t \in Seq(Marks), DOMAIN t = {} PROVE t = << >>
          OBVIOUS
        <5>1. Len(t) \in Nat /\ DOMAIN t = 1..Len(t)
          OBVIOUS
        <5>2. Len(t) = 0
          BY <5>1
        <5> QED
          BY <5>2
      <4> QED
        BY <4>1, <4>2
    <3> QED
      BY <2>10, <2>13, <2>15, <3>1
  <2> QED
    BY <2>13, <2>14, <2>16, <2>17 DEF Reporter
<1>8. CASE AgentExits
  <2>1. /\ child.agent = "running" /\ child' = [child EXCEPT !.agent = "gone"]
        /\ \/ Persist(child') /\ Note(child', {})
           \/ UNCHANGED << runDirs, seen >>
    BY <1>8 DEF AgentExits
  <2>2. child.run = 2 /\ Expected = tasks
    BY <2>1, ChildFacts
  <2>3. /\ child' \in Children /\ child'.run = 2 /\ child'.cli = child.cli
        /\ child'.agent = "gone" /\ child'.queue = child.queue /\ child'.doing = child.doing
        /\ child'.unexpected = child.unexpected /\ child'.terminal = child.terminal
    BY <1>2, <2>1, <2>2 DEF Children
  <2>4. Recorded({})
    <3>1. CASE Persist(child') /\ Note(child', {})
      BY <2>2, <2>3, <3>1, NoteWrites
    <3>2. CASE UNCHANGED << runDirs, seen >>
      BY <1>1, <2>1, <2>3, <3>2 DEF Reporter, Written
    <3> QED
      BY <2>1, <3>1, <3>2
  <2>5. seen'.ran = seen.ran
    BY <2>4
  <2>6. /\ Booked(child'.terminal, tasks, seen.ran) /\ Noticed(child', tasks, seen.ran)
        /\ InTurn(child', profile, seen.ran)
        /\ child'.terminal = << >> \/ DOMAIN child'.terminal = DOMAIN tasks
    BY <1>1, <2>3 DEF Reporter, Noticed, Strange, InTurn, Taken
  <2>7. child'.cli \notin {"none", "starting"}
    BY <1>1, <2>1, <2>3 DEF Reporter
  <2>8. /\ runDirs'[2].plan = tasks
        /\ ~seen'.unwritten => runDirs'[2].artifact = Written(child', tasks)
    BY <2>4
  <2> HIDE DEF tasks, Recorded
  <2> QED
    BY <2>3, <2>5, <2>6, <2>7, <2>8 DEF Reporter
<1> QED
  BY <1>3, <1>4, <1>5, <1>6, <1>7, <1>8 DEF ToolStep

(* The adapter moves only what the reporter never looks at.                 *)
LEMMA StageReports ==
  ASSUME IInv, Reported, Control \/ Misconfigured \/ Proceed \/ Launch \/ Exited \/ Terminated
                         \/ Verify \/ Close
  PROVE  Reported'
<1>1. /\ pc \in Running /\ UNCHANGED << profile, runDirs, seen >>
      /\ child \in Children /\ profile \in Profiles /\ contract = 2
  BY DEF IInv, TypeOK, Contracted, Control, Misconfigured, Proceed, Launch, Exited, Terminated,
         Verify, Close, Adapter, user, Running, Before, Preparation
<1>2. /\ child'.terminal = child.terminal /\ child'.doing = child.doing
      /\ child'.queue = child.queue /\ child'.unexpected = child.unexpected
      /\ child'.agent = child.agent
      /\ child'.cli \in {"none", "starting"} => child.cli \in {"none", "starting"}
  <2>1. \/ child' = child
        \/ child.cli = "none" /\ child' = [child EXCEPT !.run = contract, !.cli = "starting"]
        \/ child' = [child EXCEPT !.condemned = TRUE]
        \/ child' = [child EXCEPT !.condemned = TRUE,
                                  !.cli = IF @ \in {"zero", "nonzero"} THEN @ ELSE "killed"]
    <3>1. CASE Launch
      <4>1. child = NoChild
        BY <3>1 DEF Launch, IInv, Contracted, Before
      <4> QED
        BY <3>1, <4>1 DEF Launch, NoChild
    <3> QED
      BY <3>1 DEF Control, Misconfigured, Proceed, Exited, Terminated, Verify, Close
  <2> QED
    BY <1>1, <2>1 DEF Children
<1>3. Reporter(child, runDirs[2], seen.ran, seen.unwritten, profile)
  BY <1>1 DEF Reported
<1>4. Reporter(child', runDirs[2], seen.ran, seen.unwritten, profile)
  BY <1>1, <1>2, <1>3, ReporterStays
<1> QED
  BY <1>1, <1>4 DEF Reported

LEMMA NextReported == IInv /\ Reported /\ [Next]_vars => Reported'
<1> SUFFICES ASSUME IInv, Reported, [Next]_vars PROVE Reported'
  OBVIOUS
<1>1. CASE PrepareFails \/ Begin \/ Sync \/ ReplaceProfile \/ CheckProfile
  <2>1. /\ pc \in Preparation /\ pc' \in Preparation \cup {"over"}
        /\ UNCHANGED << child, seen, runDirs >> /\ profile' \in Profiles
    BY <1>1 DEF IInv, TypeOK, Contracted, PrepareFails, Begin, Sync, ReplaceProfile, CheckProfile,
       Preparing, Preparation, Plans
  <2>2. child.cli = "none"
    BY <2>1 DEF IInv, Contracted, NoChild
  <2>3. Reporter(child, runDirs[2], seen.ran, seen.unwritten, profile')
    BY <2>1, <2>2, ReporterStays DEF Reported
  <2> QED
    BY <2>1, <2>3 DEF Reported
<1>2. CASE MakeContract
  <2>1. /\ pc = "contract" /\ runDirs[2] = Absent /\ child = NoChild /\ contract' = 2
        /\ contract' = NewRun
    BY <1>2, MakeContractKeeps DEF IInv, TypeOK, Contracted, MakeContract, Preparation, Running,
       Before
  <2>2. /\ runDirs' = [runDirs EXCEPT ![2].plan = profile]
        /\ UNCHANGED << profile, child, seen >>
    BY <1>2, <2>1 DEF MakeContract, Preparing
  <2>3. runDirs'[2].artifact = Missing
    BY <2>1, <2>2 DEF IInv, TypeOK, RunIds, Absent
  <2>4. seen.ran = {}
    BY <2>1 DEF Reported, Reporter, Preparation, NoChild
  <2>5. /\ child.terminal = << >> /\ child.doing = << >> /\ child.queue = << >>
        /\ ~child.unexpected /\ child.cli = "none" /\ child.agent = "none"
        /\ DOMAIN << >> = {}
    BY <2>1 DEF NoChild
  <2>6. Reporter(child, runDirs'[2], {}, seen.unwritten, profile)
    BY <2>3, <2>5 DEF Reporter, Idle, Booked, Noticed, InTurn
  <2> QED
    BY <2>2, <2>4, <2>6 DEF Reported
<1>3. CASE Control \/ Misconfigured \/ Proceed \/ Launch \/ Exited \/ Terminated \/ Verify \/ Close
  BY <1>3, StageReports
<1>4. CASE ToolStep
  BY <1>4, ToolReports
<1>5. CASE BeginStop \/ StopControl \/ ForceStop \/ ForceStopControlled \/ Look
  <2>1. pc' \in Ending
    <3>1. CASE BeginStop
      BY <3>1 DEF BeginStop, Ending
    <3>2. CASE StopControl \/ ForceStop \/ ForceStopControlled \/ Look
      BY <3>2, StopOutcome DEF StopControl, ForceStop, ForceStopControlled, Look, Ending
    <3> QED
      BY <1>5, <3>1, <3>2
  <2> QED
    BY <2>1 DEF Reported, Ending, Preparation, Running, Before
<1>6. CASE AppDies \/ Edit \/ Stops \/ Over
  <2>1. /\ UNCHANGED << runDirs, contract, pc, child >> /\ profile' \in Profiles
        /\ seen' = seen \/ seen' = [seen EXCEPT !.reopened = TRUE]
        /\ profile' = profile \/ contract = 0 \/ child.cli \in {"none", "starting"}
    BY <1>6 DEF AppDies, Edit, Stops, Over, vars, user, IInv, TypeOK
  <2>2. seen'.ran = seen.ran /\ seen'.unwritten = seen.unwritten
    BY <2>1 DEF IInv, TypeOK
  <2>3. profile' = profile \/ child.cli \in {"none", "starting"}
    BY <2>1 DEF IInv, Contracted, NoChild
  <2>4. ASSUME Reporter(child, runDirs[2], seen.ran, seen.unwritten, profile)
        PROVE  Reporter(child, runDirs[2], seen.ran, seen.unwritten, profile')
    BY <2>1, <2>3, <2>4, ReporterStays
  <2> QED
    BY <2>1, <2>2, <2>4 DEF Reported
<1>7. CASE UNCHANGED vars
  BY <1>7 DEF vars, user, Reported
<1> QED
  BY <1>1, <1>2, <1>3, <1>4, <1>5, <1>6, <1>7 DEF Next, StageStep
-----------------------------------------------------------------------------
(* What verify_completion_artifact reads is what the reporter holds.        *)
LEMMA VerifyReads ==
  ASSUME IInv, Reported, pc = "verify", ~seen.unwritten, runDirs[2].artifact # Missing
  PROVE  /\ runDirs[2].artifact.terminal = child.terminal
         /\ runDirs[2].artifact.unexpected = child.unexpected
         /\ Mine(runDirs[2].artifact) /\ contract = 2 /\ Plan = runDirs[2].plan
         /\ child.terminal \in Seq(Marks) /\ Plan \in Profiles
         /\ Booked(child.terminal, Plan, seen.ran) /\ Noticed(child, Plan, seen.ran)
         /\ InTurn(child, profile, seen.ran)
<1>1. Reporter(child, runDirs[2], seen.ran, seen.unwritten, profile)
  BY DEF Reported, Running
<1>2. contract = 2 /\ child \in Children
  BY DEF IInv, TypeOK, Contracted, Preparation
<1>3. Plan = runDirs[2].plan /\ Plan \in Profiles
  BY <1>2, PlanFacts
<1>4. child.agent # "none"
  BY <1>1 DEF Reporter
<1>5. runDirs[2].artifact = Written(child, Plan)
  BY <1>1, <1>3, <1>4 DEF Reporter
<1> QED
  BY <1>1, <1>2, <1>3, <1>5 DEF Reporter, Written, Mine, Children

LEMMA AcceptedIsCaught ==
  ASSUME IInv, Reported, pc = "verify", ~seen.unwritten,
         Refusal(runDirs[contract].artifact) = "OK", NEW l
  PROVE  Caught(l, child, Plan, seen.ran, profile)
<1>0. contract = 2
  BY DEF IInv, Contracted, TypeOK, Preparation
<1>1. runDirs[2].artifact # Missing /\ ~runDirs[2].artifact.unexpected
      /\ Len(runDirs[2].artifact.terminal) = Len(Plan)
      /\ "failed" \notin Range(runDirs[2].artifact.terminal)
  BY <1>0 DEF Refusal
<1>2. /\ child.terminal \in Seq(Marks) /\ Len(child.terminal) = Len(Plan) /\ ~child.unexpected
      /\ "failed" \notin Range(child.terminal) /\ Plan \in Profiles
      /\ Booked(child.terminal, Plan, seen.ran) /\ Noticed(child, Plan, seen.ran)
      /\ InTurn(child, profile, seen.ran)
  BY <1>1, VerifyReads
<1>3. DOMAIN child.terminal = DOMAIN Plan /\ DOMAIN Plan = 1..Len(Plan)
  BY <1>2, ProfileFacts
<1>4. \A i \in DOMAIN Plan : << Plan[i], TRUE >> \in seen.ran
  BY AcceptedIsEvident
<1>5. seen.ran \subseteq Tasks \X BOOLEAN
  BY DEF IInv, TypeOK
<1>6. ASSUME NEW x \in seen.ran
      PROVE  x[2] /\ x[1] \in Range(Plan)
  <2>1. PICK i \in DOMAIN Plan : Plan[i] = x[1]
    BY <1>2, <1>3 DEF Noticed
  <2>2. child.terminal[i] # "failed"
    BY <1>2, <1>3 DEF Range
  <2>3. << x[1], FALSE >> \notin seen.ran
    BY <1>2, <1>3, <2>1, <2>2 DEF Booked
  <2>4. x = << x[1], x[2] >> /\ x[2] \in BOOLEAN
    BY <1>5
  <2> QED
    BY <2>1, <2>3, <2>4 DEF Range
<1>7. {x[1] : x \in seen.ran} = Range(Plan)
  <2>1. \A t \in Range(Plan) : \E x \in seen.ran : x[1] = t
    <3> SUFFICES ASSUME NEW i \in DOMAIN Plan PROVE \E x \in seen.ran : x[1] = Plan[i]
      BY DEF Range
    <3>1. << Plan[i], TRUE >>[1] = Plan[i]
      OBVIOUS
    <3> QED
      BY <1>4, <3>1
  <2> QED
    BY <1>6, <2>1
<1>8. child.cli = "zero"
  BY DEF IInv, Verdict
<1>9. CASE child.doing = << >>
  <2>1. Range(child.doing) = {}
    BY <1>9 DEF Range
  <2> QED
    BY <1>6, <1>7, <1>9, <2>1 DEF Caught
<1>10. CASE child.doing # << >>
  <2> DEFINE k == Taken(child, profile)
  <2>1. k > 0 /\ child.doing = << profile[k] >>
        /\ \A x \in seen.ran : \E j \in 1..k : profile[j] = x[1] /\ j < k
    BY <1>2, <1>8, <1>10 DEF InTurn
  <2>2. PICK i \in DOMAIN Plan : Plan[i] = profile[k]
    <3>1. child.doing[1] = profile[k]
      BY <2>1
    <3> QED
      BY <1>2, <1>3, <1>10, <3>1 DEF Noticed
  <2>3. Range(child.doing) \subseteq Range(Plan)
    BY <2>1, <2>2 DEF Range
  <2>4. PICK j \in 1..k : profile[j] = profile[k] /\ j < k
    <3>1. << Plan[i], TRUE >>[1] = profile[k]
      BY <2>2
    <3> QED
      BY <1>4, <2>1, <3>1
  <2>5. Len(child.queue) \in Nat /\ profile \in Profiles
    BY DEF IInv, TypeOK, Children
  <2>6. DOMAIN profile = 1..Len(profile) /\ Len(profile) \in Nat
    BY <2>5, ProfileFacts
  <2>7. k \in DOMAIN profile /\ j \in DOMAIN profile
    BY <2>1, <2>4, <2>5, <2>6 DEF Taken
  <2>8. ~Distinct(profile)
    BY <2>4, <2>7 DEF Distinct
  <2> QED
    BY <1>6, <1>7, <2>3, <2>8 DEF Caught
<1> QED
  BY <1>9, <1>10

(* Every code of a refusal has the cause that it names.                     *)
LEMMA RefusedIsJustified ==
  ASSUME IInv, Reported, pc = "verify", ~seen.unwritten, NEW l,
         l.code = Refusal(runDirs[contract].artifact)
  PROVE  Justified(l, child, Plan, seen.ran)
<1> DEFINE a == runDirs[2].artifact
<1>0. contract = 2
  BY DEF IInv, Contracted, TypeOK, Preparation
<1>1. CASE a = Missing
  BY <1>0, <1>1 DEF Refusal, Justified
<1>2. CASE a # Missing
  <2>1. /\ a.terminal = child.terminal /\ a.unexpected = child.unexpected /\ Mine(a)
        /\ child.terminal \in Seq(Marks) /\ Plan \in Profiles
        /\ Booked(child.terminal, Plan, seen.ran) /\ Noticed(child, Plan, seen.ran)
    BY <1>2, VerifyReads
  <2>2. DOMAIN Plan = 1..Len(Plan) /\ DOMAIN child.terminal = 1..Len(child.terminal)
    BY <2>1, ProfileFacts
  <2>3. CASE Len(child.terminal) # Len(Plan)
    BY <1>0, <1>2, <2>1, <2>3 DEF Refusal, Justified
  <2>4. CASE Len(child.terminal) = Len(Plan) /\ child.unexpected
    BY <1>0, <1>2, <2>1, <2>2, <2>4 DEF Refusal, Justified, Noticed
  <2>5. CASE Len(child.terminal) = Len(Plan) /\ ~child.unexpected
             /\ "failed" \in Range(child.terminal)
    <3>1. l.code = "TASK_FAILED"
      BY <1>0, <1>2, <2>1, <2>5 DEF Refusal
    <3>2. PICK i \in DOMAIN Plan : child.terminal[i] = "failed"
      BY <2>2, <2>5 DEF Range
    <3>3. << Plan[i], FALSE >> \in seen.ran /\ Plan[i] \in Range(Plan)
      BY <2>1, <2>2, <2>5, <3>2 DEF Booked, Range
    <3>4. << Plan[i], FALSE >>[1] = Plan[i] /\ << Plan[i], FALSE >>[2] = FALSE
      OBVIOUS
    <3>5. \E x \in seen.ran : ~x[2] /\ x[1] \in Range(Plan)
      BY <3>3, <3>4
    <3> QED
      BY <3>1, <3>5 DEF Justified
  <2>6. CASE Len(child.terminal) = Len(Plan) /\ ~child.unexpected
             /\ "failed" \notin Range(child.terminal) /\ Pending \in Range(child.terminal)
    <3>1. l.code = "COMPLETION_UNCONFIRMED"
      BY <1>0, <1>2, <2>1, <2>6 DEF Refusal
    <3>2. PICK i \in DOMAIN Plan : child.terminal[i] = Pending
      BY <2>2, <2>6 DEF Range
    <3>3. << Plan[i], TRUE >> \notin seen.ran
      BY <2>1, <2>2, <2>6, <3>2 DEF Booked
    <3> QED
      BY <3>1, <3>3 DEF Justified
  <2>7. CASE Len(child.terminal) = Len(Plan) /\ ~child.unexpected
             /\ "failed" \notin Range(child.terminal) /\ Pending \notin Range(child.terminal)
    BY <1>0, <1>2, <2>1, <2>7 DEF Refusal, Justified
  <2> QED
    BY <2>3, <2>4, <2>5, <2>6, <2>7
<1> QED
  BY <1>1, <1>2
-----------------------------------------------------------------------------
(* Most results claim nothing about the tasks.                              *)
NoClaim(l) == /\ l.status # "success"
              /\ l.code \notin {"TASK_FAILED", "RESULT_INVALID", "COMPLETION_UNCONFIRMED"}

LEMMA NothingClaimed ==
  ASSUME NEW l, NEW c, NEW tasks, NEW ran, NEW p, NoClaim(l)
  PROVE  Final(l) /\ Caught(l, c, tasks, ran, p) /\ Justified(l, c, tasks, ran)
  BY DEF NoClaim, Final, Caught, Justified

(* Up to the end of the tool there is no verdict.                           *)
LEMMA LaunchClaims ==
  ASSUME IInv, Control \/ Misconfigured \/ Proceed \/ Launch \/ Exited \/ Terminated
  PROVE  /\ pc' \in {"close", "stop"} =>
              NoClaim(r') /\ r'.exit # "zero"
         /\ pc' = "verify" => r'.exit = "zero" /\ child'.cli = "zero"
<1>1. r \in Results /\ Open(r)
  BY DEF IInv, TypeOK, Verdict, Control, Misconfigured, Proceed, Launch, Exited, Terminated,
         Before
<1>2. CASE Control \/ Misconfigured \/ Proceed \/ Launch
  BY <1>1, <1>2 DEF Control, Misconfigured, Proceed, Launch, Ended, NoClaim, Open, Results
<1>3. CASE Exited
  <2>1. child \in Children /\ child'.cli = child.cli
    BY <1>3 DEF IInv, TypeOK, Exited, Children
  <2> QED
    BY <1>1, <1>3, <2>1 DEF Exited, Ended, NoClaim, Open, Results
<1>4. CASE Terminated
  <2>1. /\ pc' = "close"
        /\ \/ \E reason \in {"cancelled", "timeout"} :
                r' = Ended(reason, "none", reason,
                           IF reason = "cancelled" THEN "CANCELLED" ELSE "TASK_TIMEOUT", TRUE)
           \/ r' = Ended("termination_failed", "none", ByControl, "CLEANUP_FAILED", FALSE)
           \/ r' = Ended("wait_failed", "none", "failed", "WAIT_FAILED", FALSE)
           \/ r' = [r EXCEPT !.cleaned = FALSE]
    BY <1>4 DEF Terminated
  <2> QED
    BY <1>1, <2>1 DEF Ended, NoClaim, Open, Results, ByControl
<1> QED
  BY <1>2, <1>3, <1>4

(* The verdict and the close, which can only take a claim back.             *)
LEMMA VerdictCaused ==
  ASSUME IInv, Reported, Caused, Verify \/ Close
  PROVE  Caused'
<1>1. /\ UNCHANGED << child, seen, runDirs, contract, profile >>
      /\ r \in Results /\ contract = 2 /\ Plan = runDirs[2].plan
  BY PlanFacts DEF IInv, TypeOK, Contracted, Verify, Close, Adapter, user, Preparation
<1>2. CASE Verify
  <2> DEFINE code == Refusal(runDirs[contract].artifact)
  <2>1. /\ pc = "verify" /\ pc' = "close"
        /\ r.status = "failed" /\ r.exit = "zero" /\ child.cli = "zero"
    BY <1>2 DEF Verify, IInv, Verdict
  <2>2. r'.exit = "zero" /\ child'.cli = "zero"
    <3>1. r' \in {Judged(code), Reject("RESULT_MISSING"),
                  [r EXCEPT !.code = "INTERNAL_ERROR", !.cleaned = FALSE, !.count = 0]}
      BY <1>2 DEF Verify
    <3> QED
      BY <1>1, <2>1, <3>1 DEF Judged, Accept, Reject, Results
  <2>3. CASE r' = Judged(code)
    <3>1. r'.code = code /\ (code # "OK" => r'.status = "failed")
      BY <1>1, <2>3 DEF Judged, Accept, Reject, Results
    <3>2. ~seen.unwritten => Justified(r', child, Plan, seen.ran)
      BY <2>1, <3>1, RefusedIsJustified
    <3>3. ~seen.unwritten => Caught(r', child, Plan, seen.ran, profile)
      <4>1. CASE code = "OK"
        BY <2>1, <4>1, AcceptedIsCaught
      <4>2. CASE code # "OK"
        BY <3>1, <4>2 DEF Caught
      <4> QED
        BY <4>1, <4>2
    <3> QED
      BY <1>1, <2>1, <2>2, <3>2, <3>3 DEF Caused, Final
  <2>4. CASE r' # Judged(code)
    <3>1. NoClaim(r')
      BY <1>1, <1>2, <2>1, <2>4 DEF Verify, NoClaim, Reject, Results
    <3> QED
      BY <1>1, <2>1, <2>2, <3>1, NothingClaimed DEF Caused
  <2> QED
    BY <2>3, <2>4
<1>3. CASE Close
  <2>1. pc = "close" /\ pc' = "stop"
    BY <1>3 DEF Close
  <2>2. CASE r' = r
    BY <1>1, <2>1, <2>2 DEF Caused
  <2>3. CASE r' = CloseFailed(r)
    <3>1. NoClaim(r') /\ r'.exit = r.exit
      BY <1>1, <2>3 DEF CloseFailed, NoClaim, Results
    <3> QED
      BY <1>1, <2>1, <3>1, NothingClaimed DEF Caused
  <2> QED
    BY <1>3, <2>2, <2>3 DEF Close
<1> QED
  BY <1>2, <1>3

(* After the verdict on a tool that has ended by itself only the agent's    *)
(* end is left, and a profile that is edited is not read any more.          *)
LEMMA AftermathCaused ==
  ASSUME IInv, Caused, ToolStep \/ AppDies \/ Edit \/ Stops \/ Over
  PROVE  Caused'
<1> SUFFICES ASSUME pc \in {"verify", "close", "stop"} PROVE Caused'
  BY DEF Caused, ToolStep, CliStarts, AgentStarts, StartTask, FinishTask, CliExits, AgentExits,
         Tool, AppDies, Edit, Stops, Over, vars
<1>1. pc' = pc /\ r' = r /\ contract = 2
  BY DEF IInv, TypeOK, Contracted, Preparation, ToolStep, CliStarts, AgentStarts, StartTask,
         FinishTask, CliExits, AgentExits, Tool, AppDies, Edit, Stops, Over, vars
<1>2. CASE r.exit # "zero"
  <2>1. NoClaim(r)
    BY <1>2 DEF Caused, Final, NoClaim
  <2> QED
    BY <1>1, <1>2, <2>1, NothingClaimed DEF Caused
<1>3. CASE r.exit = "zero"
  <2>1. child.cli = "zero" /\ child \in Children /\ runDirs[2].plan = Plan
    BY <1>1, <1>3 DEF Caused, IInv, TypeOK, Plan
  <2>2. /\ child'.cli = "zero" /\ child'.doing = child.doing /\ child'.terminal = child.terminal
        /\ runDirs'[2].plan = runDirs[2].plan /\ seen'.ran = seen.ran /\ profile' = profile
        /\ seen.unwritten => seen'.unwritten
    <3>1. CASE ToolStep
      <4>1. AgentExits
        BY <2>1, <3>1 DEF ToolStep, CliStarts, AgentStarts, StartTask, FinishTask, CliExits
      <4>2. /\ child' = [child EXCEPT !.agent = "gone"] /\ profile' = profile
            /\ \/ Persist(child') /\ Note(child', {})
               \/ UNCHANGED << runDirs, seen >>
        BY <4>1 DEF AgentExits, Tool, user
      <4>3. /\ child' \in Children /\ child'.run = child.run /\ child'.cli = child.cli
            /\ child'.doing = child.doing /\ child'.terminal = child.terminal
        BY <2>1, <4>2 DEF Children
      <4>4. child.run = 2
        BY <2>1, ChildFacts
      <4>5. CASE Persist(child') /\ Note(child', {})
        <5>1. /\ runDirs'[2].plan = runDirs[2].plan /\ seen'.ran = seen.ran \cup {}
              /\ seen.unwritten => seen'.unwritten
          BY <4>3, <4>4, <4>5, NoteWrites
        <5> QED
          BY <2>1, <4>2, <4>3, <5>1
      <4> QED
        BY <2>1, <4>2, <4>3, <4>5
    <3>2. CASE AppDies \/ Edit \/ Stops \/ Over
      <4>1. /\ UNCHANGED << child, runDirs, profile >>
            /\ seen' = seen \/ seen' = [seen EXCEPT !.reopened = TRUE]
        BY <1>1, <2>1, <3>2 DEF AppDies, Edit, Stops, Over, vars, user
      <4> QED
        BY <2>1, <4>1 DEF IInv, TypeOK
    <3> QED
      BY <3>1, <3>2
  <2>3. ASSUME NEW tasks, NEW ran, NEW p
        PROVE  /\ Caught(r', child, tasks, ran, p) => Caught(r', child', tasks, ran, p)
               /\ Justified(r', child, tasks, ran) => Justified(r', child', tasks, ran)
    BY <2>2 DEF Caught, Justified, Strange
  <2> QED
    BY <1>1, <2>1, <2>2, <2>3 DEF Caused
<1> QED
  BY <1>2, <1>3

LEMMA NextCaused == IInv /\ Reported /\ Caused /\ [Next]_vars => Caused'
<1> SUFFICES ASSUME IInv, Reported, Caused, [Next]_vars PROVE Caused'
  OBVIOUS
<1>1. CASE PrepareFails \/ Begin \/ Sync \/ ReplaceProfile \/ CheckProfile \/ MakeContract
  <2>1. pc' \notin {"verify", "close", "stop"}
    BY <1>1 DEF PrepareFails, Begin, Sync, ReplaceProfile, CheckProfile, MakeContract
  <2> QED
    BY <2>1 DEF Caused
<1>2. CASE Control \/ Misconfigured \/ Proceed \/ Launch \/ Exited \/ Terminated
  <2>1. ASSUME pc' = "verify" PROVE Final(r') /\ child'.cli = "zero"
    BY <1>2, <2>1, LaunchClaims DEF Final
  <2>2. ASSUME pc' \in {"close", "stop"} PROVE NoClaim(r') /\ r'.exit # "zero"
    BY <1>2, <2>2, LaunchClaims
  <2> QED
    BY <2>1, <2>2, NothingClaimed DEF Caused
<1>3. CASE Verify \/ Close
  BY <1>3, VerdictCaused
<1>4. CASE ToolStep \/ AppDies \/ Edit \/ Stops \/ Over
  BY <1>4, AftermathCaused
<1>5. CASE BeginStop \/ StopControl \/ ForceStop \/ ForceStopControlled \/ Look
  <2>1. pc' \notin {"verify", "close", "stop"}
    <3>1. CASE BeginStop
      BY <3>1 DEF BeginStop
    <3>2. CASE StopControl \/ ForceStop \/ ForceStopControlled \/ Look
      BY <3>2, StopOutcome DEF StopControl, ForceStop, ForceStopControlled, Look
    <3> QED
      BY <1>5, <3>1, <3>2
  <2> QED
    BY <2>1 DEF Caused
<1>6. CASE UNCHANGED vars
  BY <1>6 DEF vars, user, Caused
<1> QED
  BY <1>1, <1>2, <1>3, <1>4, <1>5, <1>6 DEF Next, StageStep

LEMMA RInvIsInvariant == Spec => []RInv
<1>1. IInv /\ RInv /\ [Next]_vars => RInv'
  BY NextReported, NextCaused DEF RInv
<1> QED
  BY InitRInv, IInvIsInvariant, <1>1, PTL DEF Spec

(* At the return of run the contract is this run's.                         *)
LEMMA ReturnedFacts ==
  ASSUME IInv, RInv, Returned, ~seen.unwritten
  PROVE  /\ Caught(r, child, Plan, seen.ran, profile)
         /\ Justified(r, child, Plan, seen.ran)
<1>1. contract = 2
  BY DEF IInv, TypeOK, Contracted, Returned, Preparation
<1> QED
  BY <1>1 DEF RInv, Caused, Returned, Plan

(* Drift is caught (RUN_MAAFGO): however the profile was edited between the *)
(* contract and the tool's reading of it, a success with every write done   *)
(* means that exactly the tasks of the contract have run, none failed, and  *)
(* the tool was in no task outside the contract when it ended.              *)
THEOREM DriftCaught == Spec => []DriftIsCaught
<1>1. IInv /\ RInv => DriftIsCaught
  <2> SUFFICES ASSUME IInv, RInv, Returned, r.status = "success", ~seen.unwritten
               PROVE  /\ Ran = Range(Plan) /\ \A x \in seen.ran : x[2]
                      /\ Range(child.doing) \subseteq Range(Plan)
                      /\ Distinct(profile) => child.doing = << >>
    BY DEF DriftIsCaught
  <2> QED
    BY ReturnedFacts DEF Caught, Ran
<1> QED
  BY <1>1, IInvIsInvariant, RInvIsInvariant, PTL

(* Every refusal of verify_completion_artifact has the cause that it names, *)
(* as long as the artifact could be written and read.                       *)
THEOREM JustifiedRefusal == Spec => []RefusalIsJustified
<1>1. IInv /\ RInv => RefusalIsJustified
  <2> SUFFICES ASSUME IInv, RInv, Returned, ~seen.unwritten
               PROVE  /\ r.code = "TASK_FAILED" => \E x \in seen.ran : ~x[2] /\ x[1] \in Range(Plan)
                      /\ r.code = "RESULT_INVALID" =>
                           \/ Len(child.terminal) # Len(Plan)
                           \/ (Ran \cup Range(child.doing)) \ Range(Plan) # {}
                      /\ (r.code = "COMPLETION_UNCONFIRMED" /\ r.artifact = "rejected") =>
                           \E i \in DOMAIN Plan : << Plan[i], TRUE >> \notin seen.ran
    BY DEF RefusalIsJustified
  <2>1. Justified(r, child, Plan, seen.ran)
    BY ReturnedFacts
  <2>2. ASSUME Strange(child, Plan, seen.ran)
        PROVE  (Ran \cup Range(child.doing)) \ Range(Plan) # {}
    <3>1. CASE \E x \in seen.ran : x[1] \notin Range(Plan)
      BY <3>1 DEF Ran
    <3>2. CASE child.doing # << >> /\ child.doing[1] \notin Range(Plan)
      <4>1. child.doing \in Seq(Tasks)
        BY DEF IInv, TypeOK, Children
      <4>2. 1 \in DOMAIN child.doing
        BY <3>2, <4>1
      <4> QED
        BY <3>2, <4>2 DEF Range
    <3> QED
      BY <2>2, <3>1, <3>2 DEF Strange
  <2> QED
    BY <2>1, <2>2 DEF Justified
<1> QED
  BY <1>1, IInvIsInvariant, RInvIsInvariant, PTL
=============================================================================
