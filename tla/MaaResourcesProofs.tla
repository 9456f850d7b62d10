--------------------------- MODULE MaaResourcesProofs ---------------------------
(***************************************************************************)
(* Proofs about MaaResources for every set of files, versions and partial  *)
(* files, and every limit on attempts, stalls, writes and faults: MAA is   *)
(* run over one consistent set of resources.                               *)
(***************************************************************************)
EXTENDS MaaResources, FiniteSetTheorems, TLAPS

(* The retry loop has attempts and stalls left while it goes on. *)
Counters ==
  /\ pc \in {"attempt", "delay"} => attempt < MaxAttempts
  /\ pc \in {"attempt", "running", "judge", "delay"} => stalled < MaxStalled

(* An updater that was left behind ends the workflow run: nothing goes on  *)
(* beside it.                                                              *)
Alone ==
  /\ left => pc \in {"judge", "idle"}
  /\ left /\ pc = "judge" => last = "UNCLEANED"

(* What is still to be copied is what differs, and in the end nothing does. *)
Copying ==
  /\ pc = "copy" => pending = Differing
  /\ pc = "maa" /\ merges => Differing = {}

IInv == TypeOK /\ Counters /\ Alone /\ Copying

-----------------------------------------------------------------------------
LEMMA InitIInv == Init => IInv
<1> SUFFICES ASSUME Init
             PROVE  IInv
  OBVIOUS
<1>1. attempt \in 0..MaxAttempts /\ stalled \in 0..MaxStalled /\ writes \in 0..MaxWrites
      /\ faults \in 0..MaxFaults /\ index \in Nat
  BY LimitsAssumption DEF Init
<1>2. TypeOK
  BY <1>1 DEF Init, TypeOK, Results
<1>3. Counters /\ Alone /\ Copying
  BY DEF Init, Counters, Alone, Copying
<1> QED
  BY <1>2, <1>3 DEF IInv

(* The world: only an updater that runs writes to the disk. *)
LEMMA WorldStep ==
  ASSUME IInv, Download \/ Install \/ Cancel \/ Expire \/ Crash
  PROVE  IInv'
<1> USE LimitsAssumption DEF IInv, TypeOK, Counters, Alone, Copying, Differing, Updating, Fault,
        config, disk, update, merge, control, Results, Directory
<1>1. CASE Download
  BY <1>1 DEF Download
<1>2. CASE Install
  <2>1. pc \in {"running", "judge", "idle"} /\ UNCHANGED pc
    BY <1>2 DEF Install
  <2>2. repo' \in Directory /\ resource' \in Directory /\ writes' \in 0..MaxWrites
    BY <1>2 DEF Install
  <2> QED
    BY <1>2, <2>1, <2>2 DEF Install
<1>3. CASE Cancel
  BY <1>3 DEF Cancel
<1>5. CASE Expire
  BY <1>5 DEF Expire
<1>4. CASE Crash
  <2>1. faults' \in 0..MaxFaults
    BY <1>4 DEF Crash
  <2> QED
    BY <1>4, <2>1 DEF Crash
<1> QED
  BY <1>1, <1>2, <1>3, <1>5, <1>4

LEMMA UpdateStep ==
  ASSUME IInv, Begin \/ Update
  PROVE  IInv'
<1> USE LimitsAssumption DEF IInv, TypeOK, Counters, Alone, Copying, Differing, Fault, Goto, Blocked,
        config, disk, update, merge, control, Results, Directory
<1>1. CASE Begin
  BY <1>1 DEF Begin
<1>2. CASE StartUpdate
  BY <1>2 DEF StartUpdate
<1>3. CASE Attempt
  <2>1. attempt' \in 0..MaxAttempts /\ faults' \in 0..MaxFaults
    BY <1>3 DEF Attempt
  <2>2. last' \in Results
    BY <1>3 DEF Attempt
  <2>3. pc' \in {"running", "judge"} /\ ~left'
    BY <1>3 DEF Attempt
  <2> QED
    BY <1>3, <2>1, <2>2, <2>3 DEF Attempt
<1>4. CASE AttemptEnds
  <2>0. ~left
    BY <1>4 DEF AttemptEnds
  <2>1. CASE /\ \/ last' \in {"COMPLETED", "DOWNLOAD_FAILED", "FAILED"}
                \/ cancelled /\ last' = "CANCELLED"
                \/ expired   /\ last' = "TIMEOUT"
             /\ UNCHANGED << left, faults >>
    <3>1. last' \in Results /\ ~left' /\ UNCHANGED faults
      BY <2>0, <2>1
    <3> QED
      BY <1>4, <3>1 DEF AttemptEnds
  <2>2. CASE last' = "UNCLEANED" /\ left' \in {left, TRUE} /\ Fault
    <3>1. faults' \in 0..MaxFaults
      BY <2>2
    <3>2. left \in BOOLEAN
      OBVIOUS
    <3>3. left' \in BOOLEAN
      BY ONLY <2>2, <3>2, Zenon
    <3> QED
      BY <1>4, <2>2, <3>1, <3>3 DEF AttemptEnds
  <2> QED
    BY <1>4, <2>1, <2>2 DEF AttemptEnds
<1>5. CASE Judge
  <2>1. progress' \in [Names -> 0..MaxSize]
    BY <1>5 DEF Judge, Progress
  <2>2. stalled' \in 0..MaxStalled
    BY <1>5 DEF Judge, Stalled
  <2>3. CASE Retryable(last) /\ ~GivesUp(Stalled) /\ attempt < MaxAttempts
    <3>1. pc' = "delay" /\ attempt' < MaxAttempts /\ stalled' < MaxStalled /\ ~left'
      BY <1>5, <2>2, <2>3 DEF Judge, GivesUp, Retryable
    <3> QED
      BY <1>5, <2>1, <2>2, <3>1 DEF Judge
  <2>4. CASE ~(Retryable(last) /\ ~GivesUp(Stalled) /\ attempt < MaxAttempts)
    <3>1. pc' \in {"merge", "idle"} /\ (pc' = "merge" => ~left')
      BY <1>5, <2>4 DEF Judge
    <3> QED
      BY <1>5, <2>1, <2>2, <3>1 DEF Judge
  <2> QED
    BY <2>3, <2>4
<1>6. CASE Delay
  BY <1>6 DEF Delay
<1> QED
  BY <1>1, <1>2, <1>3, <1>4, <1>5, <1>6 DEF Update

LEMMA MergeStep ==
  ASSUME IInv, Merge \/ RunMaa
  PROVE  IInv'
<1> USE LimitsAssumption DEF IInv, TypeOK, Counters, Alone, Copying, Fault, Goto, Blocked, Quiet,
        config, update, merge, control, Results, Directory
<1>1. CASE StartMerge
  BY <1>1 DEF StartMerge, Differing
<1>2. CASE Scan
  BY <1>2 DEF Scan, Differing
<1>3. CASE Copy
  <2>1. CASE Fault /\ Blocked /\ UNCHANGED << resource, merge >>
    BY <1>3, <2>1 DEF Copy, Differing
  <2>2. CASE \E f \in pending : /\ resource' = [resource EXCEPT ![f] = repo[f]]
                                /\ pending' = pending \ {f} /\ index' = index + 1
                                /\ UNCHANGED << pc, faults >>
    <3>1. PICK f \in pending : /\ resource' = [resource EXCEPT ![f] = repo[f]]
                               /\ pending' = pending \ {f} /\ index' = index + 1
                               /\ UNCHANGED << pc, faults >>
      BY <2>2
    <3>2. pc = "copy" /\ UNCHANGED << config, repo, cache, left, update, writes, control >>
      BY <1>3 DEF Copy
    <3>3. resource' \in Directory /\ f \in Files
      BY <3>1, <3>2
    <3>4. Differing' = Differing \ {f}
      BY <3>1, <3>2, <3>3 DEF Differing
    <3> QED
      BY <3>1, <3>2, <3>3, <3>4
  <2> QED
    BY <1>3, <2>1, <2>2 DEF Copy
<1>4. CASE StopCopying
  BY <1>4 DEF StopCopying, Differing
<1>5. CASE Merged
  BY <1>5 DEF Merged, Differing
<1>6. CASE RunMaa
  BY <1>6 DEF RunMaa, Differing
<1> QED
  BY <1>1, <1>2, <1>3, <1>4, <1>5, <1>6 DEF Merge

(* The inductive invariant: the retry loop has attempts left, an updater     *)
(* that could not be cleaned up is alone, and what differs is pending.      *)
THEOREM IInvIsInvariant == Spec => []IInv
<1>1. IInv /\ UNCHANGED vars => IInv'
  BY DEF vars, config, disk, update, merge, control, IInv, TypeOK, Counters, Alone, Copying,
         Differing
<1>2. IInv /\ [Next]_vars => IInv'
  BY <1>1, WorldStep, UpdateStep, MergeStep DEF Next, World
<1> QED
  BY <1>2, InitIInv, PTL DEF Spec

(* The variables of the update and merge stages keep their types, and the    *)
(* update makes at most MAX_UPDATE_ATTEMPTS attempts.                       *)
THEOREM TypeCorrect == Spec => []TypeOK
<1>1. IInv => TypeOK
  BY DEF IInv
<1> QED
  BY <1>1, IInvIsInvariant, PTL

(* When RUN_MAA starts after a merge, every file of the pulled repository is *)
(* the one MAA loads, whatever earlier runs left half-copied.               *)
THEOREM ConsistentResources == Spec => []LoadsMerged
<1>1. IInv => LoadsMerged
  BY DEF IInv, Copying, Differing, LoadsMerged
<1> QED
  BY <1>1, IInvIsInvariant, PTL
-----------------------------------------------------------------------------
(* Why the attempts end.  A unit of a partial file is earned when it has    *)
(* been seen on disk for the first time; each MaxStalled attempts earn one. *)
Units  == Names \X (1..MaxSize)
Earned == {x \in Units : x[2] <= progress[x[1]]}
Budget == MaxStalled * Cardinality(Earned)

Paid ==
  /\ pc \in {"attempt", "delay"} => attempt <= Budget + stalled
  /\ pc \in {"running", "judge"} => attempt <= Budget + stalled + 1

RInv == RetriesAreEarned /\ Paid

LEMMA TimesMonotonic ==
  ASSUME NEW a \in Nat, NEW b \in Nat, NEW c \in Nat, a <= b
  PROVE  c * a <= c * b
<1>1. PICK d \in Nat : b = a + d
  <2>1. b - a \in Nat /\ b = a + (b - a)
    OBVIOUS
  <2> QED
    BY <2>1
<1>2. c * b = c * a + c * d
  BY <1>1
<1>3. c * d \in Nat /\ c * a \in Nat
  OBVIOUS
<1> QED
  BY <1>2, <1>3

LEMMA UnitsFinite ==
  /\ IsFiniteSet(Units) /\ Cardinality(Units) = Cardinality(Names) * MaxSize
  /\ Cardinality(Names) \in Nat
<1>1. IsFiniteSet(1..MaxSize) /\ Cardinality(1..MaxSize) = MaxSize
  BY LimitsAssumption, FS_Interval
<1> QED
  BY <1>1, NamesAssumption, FS_Product, FS_CardinalityType DEF Units

LEMMA EarnedFinite ==
  /\ IsFiniteSet(Earned) /\ Cardinality(Earned) \in Nat /\ Budget \in Nat
  /\ MaxStalled * (1 + Cardinality(Earned)) <= MaxStalled * (1 + Cardinality(Names) * MaxSize)
<1>1. Earned \in SUBSET Units
  BY DEF Earned
<1>2. IsFiniteSet(Earned) /\ Cardinality(Earned) <= Cardinality(Names) * MaxSize
      /\ Cardinality(Earned) \in Nat
  BY <1>1, UnitsFinite, FS_Subset, FS_CardinalityType
<1>3. Cardinality(Names) * MaxSize \in Nat
  BY UnitsFinite, LimitsAssumption
<1> DEFINE e == Cardinality(Earned)
           u == Cardinality(Names) * MaxSize
<1> HIDE DEF e, u
<1>4. MaxStalled * (1 + e) <= MaxStalled * (1 + u)
  BY <1>2, <1>3, LimitsAssumption, TimesMonotonic DEF e, u
<1>5. MaxStalled * e \in Nat
  BY <1>2, LimitsAssumption DEF e
<1> QED
  BY <1>2, <1>4, <1>5 DEF e, u, Budget

(* Judging an attempt: its gain is earned, or it counts as a stall. *)
LEMMA JudgeEarns ==
  ASSUME IInv, Judge, Paid
  PROVE  attempt <= Budget' + stalled'
<1>1. /\ pc = "judge" /\ progress' = Progress /\ stalled' = Stalled
      /\ stalled \in Nat /\ stalled < MaxStalled /\ attempt \in Nat
      /\ progress \in [Names -> 0..MaxSize] /\ cache \in [Names -> 0..MaxSize]
  BY LimitsAssumption DEF Judge, IInv, TypeOK, Counters
<1>2. attempt <= Budget + stalled + 1
  BY <1>1 DEF Paid
<1>3. \A n \in Names : /\ progress'[n] \in 0..MaxSize /\ progress[n] \in 0..MaxSize
                       /\ progress[n] <= progress'[n] /\ cache[n] <= progress'[n]
  BY <1>1, LimitsAssumption DEF Progress
<1>4. Earned \in SUBSET Earned'
  <2> SUFFICES ASSUME NEW x \in Earned
               PROVE  x \in Earned'
    OBVIOUS
  <2>1. x \in Units /\ x[1] \in Names /\ x[2] \in 1..MaxSize /\ x[2] <= progress[x[1]]
    BY DEF Earned, Units
  <2>2. x[2] <= progress'[x[1]]
    BY <2>1, <1>3, LimitsAssumption
  <2> QED
    BY <2>1, <2>2 DEF Earned, Units
<1>5. /\ IsFiniteSet(Earned') /\ Cardinality(Earned') \in Nat
      /\ Cardinality(Earned) \in Nat /\ Budget \in Nat
  <2>1. Earned' \in SUBSET Units
    BY DEF Earned, Units
  <2> QED
    BY <2>1, UnitsFinite, EarnedFinite, FS_Subset, FS_CardinalityType
<1>6. Cardinality(Earned) <= Cardinality(Earned')
      /\ (Cardinality(Earned) = Cardinality(Earned') => Earned = Earned')
  BY <1>4, <1>5, FS_Subset
<1> DEFINE e == Cardinality(Earned)
           f == Cardinality(Earned')
<1>7. Budget = MaxStalled * e /\ Budget' = MaxStalled * f
  BY DEF Budget
<1>8. e \in Nat /\ f \in Nat /\ MaxStalled \in Nat
  BY <1>5, LimitsAssumption
<1>9. CASE \E n \in Names : cache[n] > progress[n]
  <2>1. PICK n \in Names : cache[n] > progress[n]
    BY <1>9
  <2>2. progress'[n] \in 1..MaxSize /\ progress'[n] > progress[n]
    BY <2>1, <1>1, <1>3, LimitsAssumption
  <2>3. << n, progress'[n] >> \in Earned' /\ << n, progress'[n] >> \notin Earned
    BY <2>2, <1>3 DEF Earned, Units
  <2>4. e + 1 <= f
    BY <2>3, <1>6, <1>8
  <2>5. stalled' = 0
    BY <1>1, <1>9 DEF Stalled
  <2> HIDE DEF e, f
  <2>6. MaxStalled * (e + 1) <= MaxStalled * f
    BY <2>4, <1>8, TimesMonotonic
  <2>7. MaxStalled * (e + 1) = MaxStalled * e + MaxStalled
    BY <1>8
  <2>8. MaxStalled * f \in Nat /\ MaxStalled * e \in Nat
    BY <1>8
  <2> QED
    BY <1>1, <1>2, <1>7, <1>8, <2>5, <2>6, <2>7, <2>8
<1>10. CASE ~(\E n \in Names : cache[n] > progress[n])
  <2>1. stalled' = stalled + 1
    BY <1>1, <1>10 DEF Stalled
  <2> HIDE DEF e, f
  <2>2. MaxStalled * e <= MaxStalled * f
    BY <1>6, <1>8, TimesMonotonic DEF e, f
  <2>3. MaxStalled * f \in Nat /\ MaxStalled * e \in Nat
    BY <1>8
  <2> QED
    BY <1>1, <1>2, <1>7, <2>1, <2>2, <2>3
<1> QED
  BY <1>9, <1>10

LEMMA RStep == IInv /\ RInv /\ [Next]_vars => RInv'
<1> SUFFICES ASSUME IInv, RInv, [Next]_vars
             PROVE  RInv'
  OBVIOUS
<1> USE DEF RInv, Paid, RetriesAreEarned, Goto, Blocked, config, disk, update, merge, control
<1>0. /\ attempt \in Nat /\ stalled \in Nat /\ Budget \in Nat /\ MaxStalled \in Nat
      /\ Cardinality(Names) \in Nat /\ Cardinality(Names) * MaxSize \in Nat
      /\ MaxStalled * (1 + Cardinality(Names) * MaxSize) \in Nat
  BY LimitsAssumption, EarnedFinite, UnitsFinite DEF IInv, TypeOK
<1>1. CASE StartUpdate
  <2>1. CASE updates
    <3>1. attempt' = 0 /\ stalled' = 0 /\ pc' = "attempt"
      BY <1>1, <2>1 DEF StartUpdate
    <3>2. Budget' \in Nat
      <4>1. Earned' \in SUBSET Units
        BY DEF Earned, Units
      <4>2. Cardinality(Earned') \in Nat
        BY <4>1, UnitsFinite, FS_Subset, FS_CardinalityType
      <4> QED
        BY <4>2, <1>0 DEF Budget
    <3>3. 0 <= Budget' + stalled'
      <4>1. \A b \in Nat : 0 <= b + 0
        OBVIOUS
      <4> QED
        BY <3>1, <3>2, <4>1
    <3>4. 0 <= MaxStalled * (1 + Cardinality(Names) * MaxSize)
      BY <1>0
    <3> QED
      BY <3>1, <3>3, <3>4
  <2>2. CASE ~updates
    <3>1. UNCHANGED attempt /\ pc' = "merge"
      BY <1>1, <2>2 DEF StartUpdate
    <3> QED
      BY <1>0, <3>1
  <2> QED
    BY <2>1, <2>2
<1>2. CASE Attempt
  <2>1. attempt' = attempt + 1 /\ pc' \in {"running", "judge"} /\ UNCHANGED << stalled, progress >>
        /\ pc = "attempt"
    BY <1>2 DEF Attempt
  <2>2. Budget' = Budget
    BY <2>1 DEF Budget, Earned, Units
  <2>3. stalled < MaxStalled
    BY <2>1 DEF IInv, Counters
  <2>4. attempt' <= MaxStalled * (1 + Cardinality(Earned))
    <3>1. Cardinality(Earned) \in Nat
      BY EarnedFinite
    <3>2. MaxStalled * (1 + Cardinality(Earned)) = MaxStalled + Budget
      BY <3>1, <1>0 DEF Budget
    <3> QED
      BY <3>2, <2>1, <2>3, <1>0
  <2>5. MaxStalled * (1 + Cardinality(Earned)) \in Nat
    BY EarnedFinite, <1>0
  <2> QED
    BY <2>1, <2>2, <2>4, <2>5, <1>0, EarnedFinite
<1>3. CASE AttemptEnds
  <2>1. pc = "running" /\ pc' = "judge" /\ UNCHANGED << attempt, stalled, progress >>
    BY <1>3 DEF AttemptEnds
  <2> QED
    BY <2>1 DEF Budget, Earned, Units
<1>4. CASE Judge
  <2>1. attempt <= Budget' + stalled' /\ UNCHANGED attempt /\ pc' \in {"delay", "merge", "idle"}
    BY <1>4, JudgeEarns DEF Judge
  <2> QED
    BY <2>1
<1>5. CASE Delay
  <2>1. pc = "delay" /\ pc' = "attempt" /\ UNCHANGED << attempt, stalled, progress >>
    BY <1>5 DEF Delay
  <2> QED
    BY <2>1 DEF Budget, Earned, Units
<1>6. CASE World \/ UNCHANGED vars
  <2>1. UNCHANGED << attempt, stalled, progress >> /\ pc' \in {pc, "idle"}
    BY <1>6 DEF World, Download, Install, Cancel, Expire, Crash, vars
  <2> QED
    BY <2>1 DEF Budget, Earned, Units
<1>7. CASE Begin \/ Merge \/ RunMaa
  <2>1. UNCHANGED attempt /\ pc' \in {"update", "maa", "idle", "scan", "copy"}
    BY <1>7 DEF Begin, Merge, StartMerge, Scan, Copy, StopCopying, Merged, RunMaa, Quiet
  <2> QED
    BY <2>1
<1> QED
  BY <1>1, <1>2, <1>3, <1>4, <1>5, <1>6, <1>7 DEF Next, Update

(* Attempts of the updater are earned: there are at most MaxStalled more of  *)
(* them than the units its partial files can have, whatever is deleted and  *)
(* downloaded again.                                                        *)
THEOREM EarnedRetries == Spec => []RetriesAreEarned
<1>1. Init => RInv
  <2>1. ASSUME Init PROVE RInv
    <3>1. Cardinality(Names) * MaxSize \in Nat
      BY UnitsFinite, LimitsAssumption
    <3>2. MaxStalled * (1 + Cardinality(Names) * MaxSize) \in Nat
      BY <3>1, LimitsAssumption
    <3> QED
      BY <2>1, <3>2 DEF Init, RInv, Paid, RetriesAreEarned
  <2> QED
    BY <2>1
<1>2. RInv => RetriesAreEarned
  BY DEF RInv
<1> QED
  BY <1>1, <1>2, RStep, IInvIsInvariant, PTL DEF Spec
=============================================================================
