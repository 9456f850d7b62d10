----------------------------- MODULE MumuProofs -----------------------------
(***************************************************************************)
(* I.  What a start of the MuMu adapter orders, and that it says so; what  *)
(* its recovery may spend; what a confirmed stop has seen; that a steady   *)
(* wait ends.                                                              *)
(* II. The probe beneath it answers as one look.                           *)
(* For every number of glitches, with and without sockets that fail on     *)
(* their own.                                                              *)
(***************************************************************************)
EXTENDS MumuRuntime, AdbReadiness, TLAPS

Waiting    == {"wait", "connect", "recheck"}
Recycling  == {"disconnect", "reconnect"}
Restarting == {"rstop", "rstopped?", "rstart"}
Stopping   == {"stop", "stopcmd", "stopped?"}
Starting   == {"start", "startcmd"}
Steps      == {"idle"} \cup Starting \cup Stopping \cup Waiting \cup Recycling \cup Restarting

Waits ==
  [changed : BOOLEAN, connected : BOOLEAN, cooling : BOOLEAN, readonlyOnce : BOOLEAN,
   offline : {"no", "seen", "grace"}, recycled : BOOLEAN, restarted : BOOLEAN]
Results ==
  [action : {"STATUS", "START", "STOP", "RESTART"}, status : Statuses, changed : BOOLEAN]
Counts == [start : Nat, stop : Nat, recycle : Nat]

(* The types of the variables, and which operation takes which steps.       *)
WorldOK ==
  /\ emulator \in Devices /\ local \in BOOLEAN /\ commands \in SUBSET {"start", "stop"}
  /\ flakes \in Nat /\ cancelled \in BOOLEAN
  /\ expired \in BOOLEAN /\ parentExpired \in BOOLEAN

CallOK ==
  /\ op \in Operations /\ pc \in Steps /\ ordered \in BOOLEAN
  /\ wait \in Waits /\ result \in Results /\ issued \in Counts
  /\ ordered => pc \in Commands
  /\ pc \in Stopping => op \in {"STOP", "RESTART_STOP"}
  /\ op = "EXTERNAL" => pc \in {"idle", "connect", "recheck"}

MTypeOK == WorldOK /\ CallOK

One(b) == IF b THEN 1 ELSE 0

(* The ledger of a start: at every step, what has been ordered so far is    *)
(* what the locals of the wait say has been ordered, and what they are      *)
(* about to report.                                                         *)
Opened(p, o, w, n) ==
  p \in Starting => /\ w = FreshWait(FALSE) /\ (p = "start" => ~o)
                    /\ n.start = One(o) /\ n.stop = 0 /\ n.recycle = 0

Awaited(p, w, n) ==
  p \in Waiting =>
    /\ n.start <= 1 + n.stop /\ n.stop = One(w.restarted)
    /\ n.recycle = One(w.restarted) + One(w.recycled)
    /\ ~w.changed => n = NothingIssued

Recycled(p, w, n) ==
  p \in Recycling =>
    /\ w.changed /\ w.recycled /\ n.start <= 1 + n.stop
    /\ n.stop = One(w.restarted)
    /\ n.recycle = One(w.restarted) + One(p = "reconnect")

Restarted(p, o, w, n) ==
  p \in Restarting =>
    /\ w.changed /\ w.restarted /\ n.recycle = 1
    /\ n.stop = One(p # "rstop" \/ o)
    /\ n.start <= 1 + One(p = "rstart" /\ o)

Closed(p, n, r) ==
  (p = "idle" /\ r.action = "START" /\ ~r.changed) => n = NothingIssued

Bounded(n) ==
  /\ n.stop <= 1 /\ (n.stop = 1 => n.recycle >= 1)
  /\ n.recycle <= 1 + n.stop /\ n.start <= 1 + n.stop

Ledger(p, o, w, n, r) ==
  /\ Opened(p, o, w, n) /\ Awaited(p, w, n) /\ Recycled(p, w, n)
  /\ Restarted(p, o, w, n) /\ Closed(p, n, r) /\ Bounded(n)

CallInv ==
  /\ CallOK
  /\ pc = "idle" => wait = FreshWait(FALSE)
  /\ op = "START" => Ledger(pc, ordered, wait, issued, result)

MInv == WorldOK /\ CallInv
-----------------------------------------------------------------------------
(* Operators. *)
LEMMA FreshType ==
  /\ FreshWait(TRUE) \in Waits /\ FreshWait(FALSE) \in Waits
  /\ NothingIssued \in Counts /\ NoResult \in Results
BY DEF FreshWait, Waits, NothingIssued, Counts, NoResult, Result, Results, Statuses

LEMMA ResultType ==
  ASSUME NEW a \in {"STATUS", "START", "STOP", "RESTART"}, NEW s \in Statuses, NEW c \in BOOLEAN
  PROVE  /\ Result(a, s, c) \in Results /\ Result(a, s, c).action = a
         /\ Result(a, s, c).status = s /\ Result(a, s, c).changed = c
BY DEF Result, Results

LEMMA ClassifyCases ==
  ASSUME NEW a \in Answers
  PROVE  /\ Classify(a) \in {"READY", "STOPPED", "TIMEOUT", "CANCELLED", "NOT_READY"}
         /\ Classify(a) = "STOPPED" <=> a \in {"PORT_CLOSED", "SOCKET_ERROR"}
         /\ Classify(a) \in Statuses
BY DEF Answers, Clean, Glitch, Classify, Statuses

LEMMA ExternalType ==
  ASSUME NEW a \in Answers
  PROVE  External(a) \in Results /\ External(a).action = "STATUS"
<1>1. CASE a = "READY"
  BY <1>1 DEF External, Result, Results, Statuses
<1>2. CASE a \in {"TIMEOUT", "CANCELLED"}
  BY <1>2 DEF External, Result, Results, Statuses
<1>3. CASE a \notin {"READY", "TIMEOUT", "CANCELLED"}
  BY <1>3 DEF External, Result, Results, Statuses
<1> QED
  BY <1>1, <1>2, <1>3

(* The end of an operation: a start returns its own verdict, and only the   *)
(* stop of a restart goes on.                                               *)
LEMMA FinishEffect ==
  ASSUME MTypeOK, op # "EXTERNAL",
         NEW s \in Statuses, NEW c \in BOOLEAN, Finish(s, c)
  PROVE  /\ op' \in Operations \ {"EXTERNAL"} /\ pc' \in {"idle", "start"} /\ wait' \in Waits
         /\ result' \in Results /\ issued' = issued /\ expired' \in BOOLEAN
         /\ pc' = "idle" => wait' = FreshWait(FALSE)
         /\ op' = "START" => /\ op = "START" /\ pc' = "idle"
                             /\ result' = Result("START", s, c)
         /\ op = "STOP" => result' = Result("STOP", s, c)
<1> USE DEF MTypeOK, WorldOK, CallOK
<1>1. CASE op \in {"START", "STOP"}
  <2>1. Return(Result(op, s, c))
    BY <1>1 DEF Finish
  <2> QED
    BY <1>1, <2>1, FreshType, ResultType DEF Return
<1>2. CASE op = "RESTART_STOP" /\ s # "STOPPED"
  <2>1. Return(Result("RESTART", s, FALSE))
    BY <1>2 DEF Finish
  <2> QED
    BY <1>2, <2>1, FreshType, ResultType DEF Return
<1>3. CASE op = "RESTART_STOP" /\ s = "STOPPED"
  <2> DEFINE ended == IF cancelled THEN "CANCELLED" ELSE "TIMEOUT"
             r     == Result("RESTART", ended, FALSE)
  <2>1. IF cancelled \/ parentExpired
        THEN Return(r)
        ELSE /\ op' = "RESTART_START" /\ pc' = "start" /\ expired' = FALSE
             /\ UNCHANGED << wait, result, issued >>
    BY <1>3 DEF Finish
  <2>2. ended \in Statuses
    BY DEF Statuses
  <2> HIDE DEF ended
  <2>3. r \in Results
    BY <2>2, ResultType
  <2> HIDE DEF r
  <2>4. CASE cancelled \/ parentExpired
    BY <1>3, <2>1, <2>3, <2>4, FreshType DEF Return
  <2>5. CASE ~(cancelled \/ parentExpired)
    BY <1>3, <2>1, <2>5 DEF Operations
  <2> QED
    BY <2>4, <2>5
<1>4. CASE op = "RESTART_START"
  <2> DEFINE r == IF s = "STARTED" THEN Result("RESTART", "RESTARTED", TRUE)
                  ELSE Result("RESTART", s, FALSE)
  <2>1. Return(r)
    BY <1>4 DEF Finish
  <2>2. "RESTARTED" \in Statuses
    BY DEF Statuses
  <2>3. r \in Results
    BY <2>2, ResultType
  <2> HIDE DEF r
  <2> QED
    BY <1>4, <2>1, <2>3, FreshType DEF Return
<1> QED
  BY <1>1, <1>2, <1>3, <1>4 DEF Operations

(* The locals of the wait keep their shape. *)
LEMMA WaitForms ==
  ASSUME NEW w \in Waits, NEW b \in BOOLEAN, NEW f \in {"no", "seen", "grace"}
  PROVE  /\ [w EXCEPT !.offline = f] \in Waits
         /\ [w EXCEPT !.readonlyOnce = FALSE] \in Waits
         /\ [w EXCEPT !.cooling = b] \in Waits
         /\ [w EXCEPT !.connected = ~b, !.cooling = b] \in Waits
         /\ [w EXCEPT !.recycled = TRUE, !.changed = TRUE] \in Waits
         /\ [w EXCEPT !.restarted = TRUE, !.changed = TRUE] \in Waits
         /\ [w EXCEPT !.offline = "no", !.connected = FALSE,
                      !.readonlyOnce = TRUE, !.cooling = TRUE] \in Waits
         /\ [w EXCEPT !.offline = "no", !.recycled = FALSE, !.connected = FALSE,
                      !.readonlyOnce = TRUE, !.cooling = FALSE] \in Waits
BY DEF Waits

(* What the ledger looks at is left alone by what a look changes.           *)
Same(w, v) == /\ v.changed = w.changed /\ v.recycled = w.recycled
              /\ v.restarted = w.restarted

LEMMA SameForms ==
  ASSUME NEW w \in Waits, NEW b \in BOOLEAN, NEW f \in {"no", "seen", "grace"}
  PROVE  /\ Same(w, w)
         /\ Same(w, [w EXCEPT !.offline = f])
         /\ Same(w, [w EXCEPT !.readonlyOnce = FALSE])
         /\ Same(w, [w EXCEPT !.cooling = b])
         /\ Same(w, [w EXCEPT !.connected = ~b, !.cooling = b])
         /\ Same(w, [w EXCEPT !.offline = "no", !.connected = FALSE,
                              !.readonlyOnce = TRUE, !.cooling = TRUE])
BY DEF Waits, Same

(* The three locals that the recovery spends.                               *)
LEMMA SpentForms ==
  ASSUME NEW w \in Waits
  PROVE  /\ LET v == [w EXCEPT !.recycled = TRUE, !.changed = TRUE] IN
              v.changed /\ v.recycled /\ v.restarted = w.restarted
         /\ LET v == [w EXCEPT !.restarted = TRUE, !.changed = TRUE] IN
              v.changed /\ v.restarted /\ v.recycled = w.recycled
         /\ LET v == [w EXCEPT !.offline = "no", !.recycled = FALSE, !.connected = FALSE,
                               !.readonlyOnce = TRUE, !.cooling = FALSE] IN
              v.changed = w.changed /\ ~v.recycled /\ v.restarted = w.restarted
BY DEF Waits

(* No order yet: the three counts are nothing.                              *)
LEMMA NothingCounted ==
  ASSUME NEW n \in Counts, n.start = 0, n.stop = 0, n.recycle = 0
  PROVE  n = NothingIssued
BY DEF Counts, NothingIssued

LEMMA NothingBounded ==
  /\ NothingIssued.start = 0 /\ NothingIssued.stop = 0 /\ NothingIssued.recycle = 0
  /\ Bounded(NothingIssued)
BY DEF NothingIssued, Bounded

(* A verdict closes the ledger of a start if it does not deny an order.     *)
LEMMA FinishKeeps ==
  ASSUME MInv, op # "EXTERNAL", NEW s \in Statuses, NEW c \in BOOLEAN, Finish(s, c),
         ordered' = FALSE, (op = "START" /\ ~c) => issued = NothingIssued
  PROVE  CallInv' /\ expired' \in BOOLEAN
<1>1. /\ op' \in Operations \ {"EXTERNAL"} /\ pc' \in {"idle", "start"} /\ wait' \in Waits
      /\ result' \in Results /\ issued' = issued /\ expired' \in BOOLEAN
      /\ pc' = "idle" => wait' = FreshWait(FALSE)
      /\ op' = "START" => /\ op = "START" /\ pc' = "idle"
                          /\ result' = Result("START", s, c)
  BY FinishEffect DEF MInv, CallInv, MTypeOK
<1>2. CallOK'
  BY <1>1 DEF MInv, CallInv, CallOK, Steps, Starting, Stopping
<1>3. ASSUME op' = "START"
      PROVE  Ledger("idle", ordered', wait', issued', result')
  <2>1. /\ op = "START" /\ issued' = issued /\ result' = Result("START", s, c)
        /\ Bounded(issued)
    BY <1>1, <1>3 DEF MInv, CallInv, Ledger
  <2>2. result'.changed = c
    BY <2>1, ResultType
  <2> QED
    BY <2>1, <2>2 DEF Ledger, Opened, Awaited, Recycled, Restarted, Closed,
                      Starting, Waiting, Recycling, Restarting
<1> QED
  BY <1>1, <1>2, <1>3 DEF CallInv

(* The loop goes on.                                                        *)
LEMMA ContinueKeeps ==
  ASSUME MInv, op # "EXTERNAL", pc \notin Stopping, NEW w \in Waits, Continue(w),
         ordered' = FALSE, op = "START" => Awaited("wait", w, issued)
  PROVE  CallInv' /\ expired' \in BOOLEAN
<1>1. CallOK'
  BY DEF MInv, CallInv, CallOK, Continue, Steps, Waiting, Stopping
<1>2. op = "START" => Ledger("wait", ordered', w, issued, result)
  BY DEF MInv, CallInv, Ledger, Opened, Recycled, Restarted, Closed,
         Starting, Waiting, Recycling, Restarting
<1> QED
  BY <1>1, <1>2 DEF CallInv, Continue, MInv, WorldOK
-----------------------------------------------------------------------------
(* What a look at the instance makes of the wait. *)
LEMMA OfflineKeeps ==
  ASSUME MInv, op # "EXTERNAL", pc \in Waiting, NEW w \in Waits, Same(wait, w), Offline(w),
         ordered' = FALSE
  PROVE  CallInv' /\ expired' \in BOOLEAN
<1> USE DEF MInv
<1>1. op = "START" => Awaited("wait", w, issued)
  BY DEF CallInv, Ledger, Awaited, Waiting, Same
<1>2. CASE w.offline = "no"
  <2>1. Continue([w EXCEPT !.offline = "seen"])
    BY <1>2 DEF Offline
  <2> DEFINE v == [w EXCEPT !.offline = "seen"]
  <2>2. v \in Waits /\ Same(w, v)
    BY WaitForms, SameForms
  <2>3. op = "START" => Awaited("wait", v, issued)
    BY <1>1, <2>2 DEF Awaited, Same
  <2> HIDE DEF v
  <2> QED
    BY <2>1, <2>2, <2>3, ContinueKeeps DEF v, Waiting, Stopping
<1>3. CASE w.offline = "seen" \/ (w.offline = "grace" /\ w.recycled /\ w.restarted)
  <2>1. Continue(w)
    BY <1>3 DEF Offline
  <2> QED
    BY <1>1, <2>1, ContinueKeeps DEF Waiting, Stopping
<1>4. CASE w.offline = "grace" /\ ~w.recycled
  <2> DEFINE v == [w EXCEPT !.recycled = TRUE, !.changed = TRUE]
  <2>1. Recover("disconnect", v)
    BY <1>4 DEF Offline
  <2>2. v \in Waits /\ v.changed /\ v.recycled /\ v.restarted = w.restarted
    BY WaitForms, SpentForms
  <2> HIDE DEF v
  <2>3. op = "START" => Recycled("disconnect", v, issued)
    BY <1>1, <1>4, <2>2 DEF Awaited, Waiting, Recycled, One, Waits, CallInv, CallOK, Counts
  <2>4. CallOK'
    BY <2>1, <2>2 DEF CallInv, CallOK, Recover, Steps, Recycling, Stopping
  <2>5. op = "START" => Ledger("disconnect", ordered', v, issued, result)
    BY <2>3 DEF CallInv, Ledger, Opened, Awaited, Restarted, Closed,
                Starting, Waiting, Restarting
  <2> QED
    BY <2>1, <2>4, <2>5 DEF CallInv, Recover, WorldOK
<1>5. CASE w.offline = "grace" /\ w.recycled /\ ~w.restarted
  <2> DEFINE v == [w EXCEPT !.restarted = TRUE, !.changed = TRUE]
  <2>1. Recover("rstop", v)
    BY <1>5 DEF Offline
  <2>2. v \in Waits /\ v.changed /\ v.restarted /\ v.recycled = w.recycled
    BY WaitForms, SpentForms
  <2> HIDE DEF v
  <2>3. op = "START" => Restarted("rstop", ordered', v, issued)
    BY <1>1, <1>5, <2>2 DEF Awaited, Waiting, Restarted, One, CallInv, CallOK, Counts
  <2>4. CallOK'
    BY <2>1, <2>2 DEF CallInv, CallOK, Recover, Steps, Restarting, Stopping
  <2>5. op = "START" => Ledger("rstop", ordered', v, issued, result)
    BY <2>3 DEF CallInv, Ledger, Opened, Awaited, Recycled, Closed,
                Starting, Waiting, Recycling
  <2> QED
    BY <2>1, <2>4, <2>5 DEF CallInv, Recover, WorldOK
<1> QED
  BY <1>2, <1>3, <1>4, <1>5 DEF Waits

LEMMA ObservedKeeps ==
  ASSUME MInv, pc \in Waiting, NEW w \in Waits, Same(wait, w), NEW a \in Answers, Observed(a, w),
         ordered' = FALSE
  PROVE  CallInv' /\ expired' \in BOOLEAN
<1> USE DEF MInv
<1>1. op = "START" => /\ Awaited("wait", w, issued)
                      /\ ~w.changed => issued = NothingIssued
  BY DEF CallInv, Ledger, Awaited, Waiting, Same
<1>2. CASE op = "EXTERNAL"
  <2>1. Return(External(a))
    BY <1>2 DEF Observed
  <2> QED
    BY <1>2, <2>1, ExternalType, FreshType DEF Return, CallInv, CallOK, WorldOK, Steps, Stopping
<1>3. CASE op # "EXTERNAL" /\ a \in {"READY", "CANCELLED"}
  <2>1. PICK s \in {"STARTED", "CANCELLED"} : Finish(s, w.changed)
    BY <1>3 DEF Observed
  <2>2. w.changed \in BOOLEAN /\ s \in Statuses
    BY DEF Waits, Statuses
  <2> QED
    BY <1>1, <1>3, <2>1, <2>2, FinishKeeps
<1>4. CASE op # "EXTERNAL" /\ a = "OFFLINE" /\ local
  BY <1>4, OfflineKeeps DEF Observed
<1>5. CASE op # "EXTERNAL" /\ a \notin {"READY", "CANCELLED"} /\ ~(a = "OFFLINE" /\ local)
  <2> DEFINE v == [w EXCEPT !.offline = "no"]
  <2>1. Continue(v)
    BY <1>5 DEF Observed
  <2>2. v \in Waits /\ Same(w, v)
    BY WaitForms, SameForms
  <2>3. op = "START" => Awaited("wait", v, issued)
    BY <1>1, <2>2 DEF Awaited, Same
  <2> HIDE DEF v
  <2> QED
    BY <1>5, <2>1, <2>2, <2>3, ContinueKeeps DEF Waiting, Stopping
<1> QED
  BY <1>2, <1>3, <1>4, <1>5
-----------------------------------------------------------------------------
(* The steps of the adapter, one lemma each.  The world's part of a step is *)
(* typed by WorldSteps.                                                     *)
LEMMA WorldSteps ==
  ASSUME WorldOK
  PROVE  /\ (Flake \/ UNCHANGED flakes) => flakes' \in Nat
         /\ UNCHANGED emulator => emulator' \in Devices
         /\ \A p \in Powers : [emulator EXCEPT !.power = p] \in Devices
         /\ \A l \in Listings : [emulator EXCEPT !.listed = l] \in Devices
         /\ \A order \in {"start", "stop"} : Obeyed(order) \in Devices
         /\ emulator' \in Connects(emulator) => emulator' \in Devices
<1> USE DEF WorldOK, Devices, Powers, Listings
<1>1. ASSUME NEW order \in {"start", "stop"}
      PROVE  Obeyed(order) \in Devices
  <2> DEFINE p == CASE order = "start" /\ emulator.power = "off"  -> "starting"
                    [] order = "stop"  /\ emulator.power # "off"  -> "stopping"
                    [] OTHER -> emulator.power
  <2>1. CASE order = "start" /\ emulator.power = "off"
    BY <2>1 DEF Obeyed
  <2>2. CASE order = "stop" /\ emulator.power # "off"
    BY <2>2 DEF Obeyed
  <2>3. CASE /\ ~(order = "start" /\ emulator.power = "off")
             /\ ~(order = "stop" /\ emulator.power # "off")
    BY <2>3 DEF Obeyed
  <2> QED
    BY <2>1, <2>2, <2>3
<1>2. (Flake \/ UNCHANGED flakes) => flakes' \in Nat
  BY DEF Flake
<1>3. emulator' \in Connects(emulator) => emulator' \in Devices
  BY DEF Connects
<1> QED
  BY <1>1, <1>2, <1>3

LEMMA ProbeFlakes ==
  ASSUME NEW a \in Answers, Probe(a)
  PROVE  Flake \/ UNCHANGED flakes
BY DEF Probe

(* A step that leaves the instance alone. *)
LEMMA QuietStep ==
  ASSUME MInv, UNCHANGED emulator, Flake \/ UNCHANGED flakes, expired' \in BOOLEAN,
         UNCHANGED << config, cancelled, parentExpired >>, CallInv'
  PROVE  MInv'
BY WorldSteps DEF MInv, WorldOK, config

(* The client's calls, from idle. *)
LEMMA BeginKeeps ==
  ASSUME MInv, NEW o \in Operations, Begin(o)
  PROVE  MInv'
<1> USE DEF MInv
<1>1. /\ wait' = FreshWait(FALSE) /\ ordered' = FALSE /\ wait' \in Waits
      /\ issued' = NothingIssued /\ issued' \in Counts
      /\ result' = NoResult /\ result' \in Results /\ expired' \in BOOLEAN
  BY FreshType DEF Begin, Still, CallInv, CallOK, Commands, WorldOK
<1>2. CASE o = "START"
  <2>1. op' = "START" /\ pc' = "start"
    BY <1>2 DEF Begin
  <2>2. CallOK'
    BY <1>1, <2>1 DEF CallOK, Operations, Steps, Starting, Stopping
  <2>3. Ledger("start", ordered', wait', issued', result')
    BY <1>1, NothingBounded DEF Ledger, Opened, Awaited, Recycled, Restarted, Closed, One,
                                Starting, Waiting, Recycling, Restarting
  <2>4. CallInv'
    BY <2>1, <2>2, <2>3 DEF CallInv
  <2> QED
    BY <1>1, <2>4, QuietStep DEF Begin, Still
<1>3. CASE o \in {"STOP", "RESTART_STOP"}
  <2>1. op' \in {"STOP", "RESTART_STOP"} /\ pc' = "stop"
    BY <1>3 DEF Begin
  <2>2. CallInv'
    BY <1>1, <2>1 DEF CallInv, CallOK, Operations, Steps, Stopping
  <2> QED
    BY <1>1, <2>2, QuietStep DEF Begin, Still
<1> QED
  BY <1>2, <1>3 DEF Begin

LEMMA StatusKeeps ==
  ASSUME MInv, NEW a \in Answers, Status(a)
  PROVE  MInv'
<1> USE DEF MInv
<1> DEFINE s == Classify(a)
<1>0. s \in Statuses /\ result' = Result("STATUS", s, FALSE)
  BY ClassifyCases DEF Status
<1> HIDE DEF s
<1>1. result' \in Results /\ result'.action = "STATUS"
  BY <1>0, ResultType
<1>2. UNCHANGED << op, pc, ordered, wait, issued, expired >> /\ pc = "idle"
  BY DEF Status, Still
<1>3. CallOK'
  BY <1>1, <1>2 DEF CallInv, CallOK
<1>4. op' = "START" => Ledger(pc', ordered', wait', issued', result')
  BY <1>1, <1>2 DEF CallInv, Ledger, Opened, Awaited, Recycled, Restarted, Closed,
                    Starting, Waiting, Recycling, Restarting
<1>5. CallInv'
  BY <1>2, <1>3, <1>4 DEF CallInv
<1> QED
  BY <1>2, <1>5, ProbeFlakes, QuietStep DEF Status, Still, WorldOK

LEMMA EnsureKeeps ==
  ASSUME MInv, NEW a \in Answers, EnsureExternal(a)
  PROVE  MInv'
<1> USE DEF MInv
<1>1. result' \in Results /\ pc' \in {"idle", "connect"}
  BY ExternalType, FreshType DEF EnsureExternal
<1>2. /\ op' = "EXTERNAL" /\ wait' = FreshWait(FALSE) /\ wait' \in Waits /\ ordered' = FALSE
      /\ issued' \in Counts /\ expired' \in BOOLEAN
  BY FreshType DEF EnsureExternal, Still, CallInv, CallOK, Commands, WorldOK
<1>3. CallInv'
  BY <1>1, <1>2 DEF CallInv, CallOK, Operations, Steps, Waiting, Stopping
<1> QED
  BY <1>2, <1>3, ProbeFlakes, QuietStep DEF EnsureExternal, Still

(* The opening of a start and of a stop. *)
LEMMA NothingYet ==
  ASSUME MInv, pc \in Starting, ~ordered, op = "START"
  PROVE  issued = NothingIssued
BY NothingCounted DEF MInv, CallInv, CallOK, Ledger, Opened, One

LEMMA MissingKeeps ==
  ASSUME MInv, ManagerMissing
  PROVE  MInv'
<1>1. /\ pc \in {"start", "stop"} /\ ~ordered /\ ordered' = FALSE /\ op # "EXTERNAL"
      /\ op = "START" => pc \in Starting
  BY DEF MInv, CallInv, CallOK, ManagerMissing, Still, Commands, Stopping, Starting
<1>2. op = "START" => issued = NothingIssued
  BY <1>1, NothingYet
<1>3. CallInv' /\ expired' \in BOOLEAN
  BY <1>1, <1>2, FinishKeeps DEF ManagerMissing, Statuses
<1> QED
  BY <1>3, QuietStep DEF ManagerMissing, Still

LEMMA StartStatusKeeps ==
  ASSUME MInv, NEW a \in Answers, StartStatus(a)
  PROVE  MInv'
<1> USE DEF MInv
<1>1. /\ pc = "start" /\ ~ordered /\ ordered' = FALSE /\ op # "EXTERNAL"
      /\ pc \in Starting /\ expired \in BOOLEAN
  BY DEF CallInv, CallOK, StartStatus, Still, Commands, Starting, WorldOK
<1>2. op = "START" => issued = NothingIssued
  BY <1>1, NothingYet
<1> DEFINE status == Classify(a)
<1>3. status \in {"READY", "STOPPED", "TIMEOUT", "CANCELLED", "NOT_READY"}
  BY ClassifyCases
<1>4. CASE \/ status \in {"READY", "CANCELLED"} \/ expired
           \/ status = "STOPPED" /\ "start" \notin commands
  <2>1. PICK s \in {"STARTED", "CANCELLED", "TIMEOUT", "FAILED"} : Finish(s, FALSE)
    BY <1>3, <1>4 DEF StartStatus
  <2>2. CallInv' /\ expired' \in BOOLEAN
    BY <1>1, <1>2, <2>1, FinishKeeps DEF Statuses
  <2> QED
    BY <2>2, ProbeFlakes, QuietStep DEF StartStatus, Still
<1>5. CASE status \in {"TIMEOUT", "NOT_READY"} /\ ~expired
  <2>1. Continue(FreshWait(FALSE))
    BY <1>5 DEF StartStatus, Wait, Continue
  <2>2. op = "START" => Awaited("wait", FreshWait(FALSE), issued)
    BY <1>2, NothingBounded DEF Awaited, Waiting, FreshWait, One
  <2>3. CallInv' /\ expired' \in BOOLEAN
    BY <1>1, <2>1, <2>2, FreshType, ContinueKeeps DEF Stopping
  <2> QED
    BY <2>3, ProbeFlakes, QuietStep DEF StartStatus, Still
<1>6. CASE status = "STOPPED" /\ ~expired /\ "start" \in commands
  <2>1. Goto("startcmd")
    BY <1>6 DEF StartStatus
  <2>2. CallOK'
    BY <1>1, <2>1 DEF Goto, CallInv, CallOK, Steps, Starting, Stopping
  <2>3. op = "START" => Ledger("startcmd", ordered', wait, issued, result)
    BY <1>1 DEF CallInv, Ledger, Opened, Awaited, Recycled, Restarted, Closed, One,
                Starting, Waiting, Recycling, Restarting
  <2>4. CallInv'
    BY <2>1, <2>2, <2>3 DEF CallInv, Goto
  <2> QED
    BY <1>1, <2>1, <2>4, ProbeFlakes, QuietStep DEF StartStatus, Still, Goto
<1> QED
  BY <1>1, <1>3, <1>4, <1>5, <1>6

LEMMA StopStatusKeeps ==
  ASSUME MInv, NEW a \in Answers, StopStatus(a)
  PROVE  MInv'
<1> USE DEF MInv
<1>1. /\ pc = "stop" /\ ~ordered /\ ordered' = FALSE /\ op \in {"STOP", "RESTART_STOP"}
      /\ expired \in BOOLEAN
  BY DEF CallInv, CallOK, StopStatus, Still, Commands, Stopping, WorldOK
<1> DEFINE status == Classify(a)
<1>2. status \in {"READY", "STOPPED", "TIMEOUT", "CANCELLED", "NOT_READY"}
  BY ClassifyCases
<1>3. CASE status \in {"STOPPED", "CANCELLED"} \/ expired \/ "stop" \notin commands
  <2>1. PICK s \in {"STOPPED", "CANCELLED", "TIMEOUT", "FAILED"} : Finish(s, FALSE)
    BY <1>2, <1>3 DEF StopStatus
  <2>2. CallInv' /\ expired' \in BOOLEAN
    BY <1>1, <2>1, FinishKeeps DEF Statuses
  <2> QED
    BY <2>2, ProbeFlakes, QuietStep DEF StopStatus, Still
<1>4. CASE status \notin {"STOPPED", "CANCELLED"} /\ ~expired /\ "stop" \in commands
  <2>1. Goto("stopcmd")
    BY <1>2, <1>4 DEF StopStatus
  <2>2. CallInv'
    BY <1>1, <2>1 DEF Goto, CallInv, CallOK, Steps, Stopping
  <2> QED
    BY <1>1, <2>1, <2>2, ProbeFlakes, QuietStep DEF StopStatus, Still, Goto
<1> QED
  BY <1>3, <1>4

-----------------------------------------------------------------------------
(* The manager's commands. *)
LEMMA IssueKeeps ==
  ASSUME MInv, IssueCommand
  PROVE  MInv'
<1> USE DEF MInv
<1>1. /\ pc \in Commands /\ ~ordered /\ ordered' = TRUE
      /\ UNCHANGED << op, pc, wait, result >>
      /\ UNCHANGED << config, cancelled, expired, parentExpired >>
  BY DEF IssueCommand, clock
<1>2. Order(pc) \in {"start", "stop"} /\ issued' = [issued EXCEPT ![Order(pc)] = @ + 1]
  BY DEF IssueCommand, Order
<1>3. issued' \in Counts
  BY <1>2 DEF CallInv, CallOK, Counts
<1>4. CallOK'
  BY <1>1, <1>3 DEF CallInv, CallOK
<1>5. ASSUME op = "START"
      PROVE  Ledger(pc, TRUE, wait, issued', result)
  <2>1. Ledger(pc, ordered, wait, issued, result) /\ issued \in Counts
    BY <1>5 DEF CallInv, CallOK
  <2>2. CASE pc = "startcmd"
    <3>1. issued'.start = issued.start + 1 /\ issued'.stop = issued.stop
          /\ issued'.recycle = issued.recycle
      BY <1>2, <2>1, <2>2 DEF Order, Counts
    <3>2. issued.start = 0 /\ issued.stop = 0 /\ issued.recycle = 0 /\ wait = FreshWait(FALSE)
      BY <1>1, <2>1, <2>2 DEF Ledger, Opened, Starting, One
    <3> QED
      BY <2>2, <3>1, <3>2 DEF Ledger, Opened, Awaited, Recycled, Restarted, Closed, Bounded, One,
                              Starting, Waiting, Recycling, Restarting
  <2>3. CASE pc = "rstop"
    <3>1. issued'.stop = issued.stop + 1 /\ issued'.start = issued.start
          /\ issued'.recycle = issued.recycle
      BY <1>2, <2>1, <2>3 DEF Order, Counts
    <3> QED
      BY <1>1, <2>1, <2>3, <3>1
         DEF Ledger, Opened, Awaited, Recycled, Restarted, Closed, Bounded, One,
             Starting, Waiting, Recycling, Restarting, Counts
  <2>4. CASE pc = "rstart"
    <3>1. issued'.start = issued.start + 1 /\ issued'.stop = issued.stop
          /\ issued'.recycle = issued.recycle
      BY <1>2, <2>1, <2>4 DEF Order, Counts
    <3> QED
      BY <1>1, <2>1, <2>4, <3>1
         DEF Ledger, Opened, Awaited, Recycled, Restarted, Closed, Bounded, One,
             Starting, Waiting, Recycling, Restarting, Counts
  <2> QED
    BY <1>1, <1>5, <2>2, <2>3, <2>4 DEF Commands, CallInv, CallOK, Stopping
<1>6. CallInv'
  BY <1>1, <1>4, <1>5 DEF CallInv
<1>7. emulator' \in Devices /\ flakes' \in Nat
  BY <1>2, WorldSteps DEF IssueCommand
<1> QED
  BY <1>1, <1>6, <1>7 DEF WorldOK, config

LEMMA CommandEndsKeeps ==
  ASSUME MInv, pc \in Commands, NEW s \in {"FAILED", "CANCELLED", "TIMEOUT"}, CommandEnds(s),
         Flake \/ UNCHANGED flakes
  PROVE  MInv'
<1>1. op # "EXTERNAL" /\ (op = "START" => pc # "stopcmd")
  BY DEF MInv, CallInv, CallOK, Commands, Stopping
<1> DEFINE c == pc # "stopcmd"
<1>2. c \in BOOLEAN /\ Finish(s, c) /\ ordered' = FALSE
  BY DEF CommandEnds
<1>3. op = "START" => c
  BY <1>1
<1> HIDE DEF c
<1>4. CallInv' /\ expired' \in BOOLEAN
  BY <1>1, <1>2, <1>3, FinishKeeps DEF Statuses
<1> QED
  BY <1>4, QuietStep DEF CommandEnds

LEMMA SucceedsKeeps ==
  ASSUME MInv, CommandSucceeds
  PROVE  MInv'
<1> USE DEF MInv
<1>1. /\ pc \in Commands /\ ordered /\ ordered' = FALSE /\ UNCHANGED << op, result, issued >>
      /\ UNCHANGED << emulator, config, flakes, cancelled, expired, parentExpired >>
      /\ wait \in Waits /\ issued \in Counts
  BY DEF CommandSucceeds, clock, CallInv, CallOK
<1>2. op = "START" => Ledger(pc, ordered, wait, issued, result)
  BY DEF CallInv
<1>3. CASE pc = "startcmd"
  <2>1. pc' = "wait" /\ wait' = FreshWait(TRUE)
    BY <1>3 DEF CommandSucceeds
  <2>2. wait'.changed /\ ~wait'.restarted /\ ~wait'.recycled
    BY <2>1 DEF FreshWait
  <2>3. op = "START" => /\ issued.start = 1 /\ issued.stop = 0 /\ issued.recycle = 0
                        /\ Bounded(issued)
    BY <1>1, <1>2, <1>3 DEF Ledger, Opened, One, Starting
  <2>4. op = "START" => Awaited("wait", wait', issued')
    <3>1. One(wait'.restarted) = 0 /\ One(wait'.recycled) = 0
      BY <2>2 DEF One
    <3> QED
      BY <1>1, <2>2, <2>3, <3>1 DEF Awaited
  <2>5. op = "START" => Ledger("wait", ordered', wait', issued', result')
    BY <1>1, <2>3, <2>4 DEF Ledger, Opened, Recycled, Restarted, Closed,
                            Starting, Recycling, Restarting
  <2>6. CallOK'
    BY <1>1, <1>3, <2>1, FreshType DEF CallInv, CallOK, Steps, Waiting, Stopping
  <2> QED
    BY <1>1, <2>1, <2>5, <2>6, QuietStep DEF CallInv, WorldOK
<1>4. CASE pc = "rstart"
  <2>1. pc' = "wait" /\ wait' = AfterRestart
    BY <1>4 DEF CommandSucceeds
  <2>2. /\ AfterRestart \in Waits /\ AfterRestart.changed = wait.changed
        /\ ~AfterRestart.recycled /\ AfterRestart.restarted = wait.restarted
    BY <1>1, WaitForms, SpentForms DEF AfterRestart
  <2>3. op = "START" => Ledger("wait", ordered', wait', issued', result')
    BY <1>1, <1>2, <1>4, <2>1, <2>2
       DEF Ledger, Opened, Awaited, Recycled, Restarted, Closed, One, Counts,
           Starting, Waiting, Recycling, Restarting
  <2>4. CallOK'
    BY <1>1, <1>4, <2>1, <2>2 DEF CallInv, CallOK, Steps, Waiting, Stopping
  <2> QED
    BY <1>1, <2>1, <2>3, <2>4, QuietStep DEF CallInv, WorldOK
<1>5. CASE pc = "stopcmd"
  <2>1. pc' = "stopped?" /\ wait' = wait
    BY <1>5 DEF CommandSucceeds
  <2>2. CallInv'
    BY <1>1, <1>5, <2>1 DEF CallInv, CallOK, Steps, Stopping
  <2> QED
    BY <1>1, <2>2, QuietStep DEF WorldOK
<1>6. CASE pc = "rstop"
  <2>1. pc' = "rstopped?" /\ wait' = wait
    BY <1>6 DEF CommandSucceeds
  <2>2. op = "START" => Ledger("rstopped?", ordered', wait', issued', result')
    BY <1>1, <1>2, <1>6, <2>1
       DEF Ledger, Opened, Awaited, Recycled, Restarted, Closed, One,
           Starting, Waiting, Recycling, Restarting
  <2>3. CallInv'
    BY <1>1, <1>6, <2>1, <2>2 DEF CallInv, CallOK, Steps, Restarting, Stopping
  <2> QED
    BY <1>1, <2>3, QuietStep DEF WorldOK
<1> QED
  BY <1>1, <1>3, <1>4, <1>5, <1>6 DEF Commands

-----------------------------------------------------------------------------
(* The stop that is waited for, and the wait for readiness. *)
LEMMA WaitStoppedKeeps ==
  ASSUME MInv, NEW a \in Answers, WaitStopped(a)
  PROVE  MInv'
<1> USE DEF MInv
<1>1. /\ pc \in {"stopped?", "rstopped?"} /\ ~ordered /\ ordered' = FALSE
      /\ op # "EXTERNAL" /\ expired \in BOOLEAN
  <2>1. pc \in {"stopped?", "rstopped?"} /\ ordered' = ordered
    BY DEF WaitStopped, Still
  <2> QED
    BY <2>1 DEF CallInv, CallOK, Commands, WorldOK
<1>2. Flake \/ UNCHANGED flakes
  BY ProbeFlakes DEF WaitStopped
<1>3. \/ \E s \in {"TIMEOUT", "CANCELLED", "STOPPED"} : Finish(s, TRUE)
      \/ pc = "rstopped?" /\ Goto("rstart")
      \/ Goto(pc)
  BY DEF WaitStopped
<1>4. ASSUME NEW s \in {"TIMEOUT", "CANCELLED", "STOPPED"}, Finish(s, TRUE)
      PROVE  MInv'
  <2>1. CallInv' /\ expired' \in BOOLEAN
    BY <1>1, <1>4, FinishKeeps DEF Statuses
  <2> QED
    BY <1>2, <2>1, QuietStep DEF WaitStopped, Still
<1>5. CASE pc = "rstopped?" /\ Goto("rstart")
  <2>1. CallOK'
    BY <1>1, <1>5 DEF Goto, CallInv, CallOK, Steps, Restarting, Stopping
  <2>2. op = "START" => Ledger("rstart", ordered', wait, issued, result)
    BY <1>1, <1>5 DEF CallInv, Ledger, Opened, Awaited, Recycled, Restarted, Closed, One,
                      Starting, Waiting, Recycling, Restarting
  <2>3. CallInv'
    BY <1>5, <2>1, <2>2 DEF CallInv, Goto
  <2> QED
    BY <1>1, <1>2, <1>5, <2>3, QuietStep DEF WaitStopped, Still, Goto
<1>6. CASE Goto(pc)
  <2>1. UNCHANGED << op, pc, wait, issued, result, expired >> /\ ordered' = ordered
    BY <1>1, <1>6 DEF Goto, WaitStopped, Still
  <2>2. CallInv'
    BY <2>1 DEF CallInv, CallOK
  <2> QED
    BY <1>1, <1>2, <2>1, <2>2, QuietStep DEF WaitStopped, Still
<1> QED
  BY <1>3, <1>4, <1>5, <1>6

LEMMA WaitProbeKeeps ==
  ASSUME MInv, NEW a \in Answers, WaitProbe(a)
  PROVE  MInv'
<1> USE DEF MInv
<1> DEFINE w == [wait EXCEPT !.readonlyOnce = FALSE]
<1>1. /\ pc = "wait" /\ ~ordered /\ ordered' = FALSE /\ op # "EXTERNAL"
      /\ wait \in Waits
  BY DEF CallInv, CallOK, WaitProbe, Still, Commands
<1>2. w \in Waits /\ Same(wait, w)
  BY <1>1, WaitForms, SameForms
<1>3. Recover("connect", w) \/ Observed(a, w)
  BY DEF WaitProbe
<1> HIDE DEF w
<1>4. CASE Recover("connect", w)
  <2>1. CallOK'
    BY <1>1, <1>2, <1>4 DEF Recover, CallInv, CallOK, Steps, Waiting, Stopping
  <2>2. op = "START" => Ledger("connect", ordered', w, issued, result)
    BY <1>1, <1>2 DEF CallInv, Ledger, Opened, Awaited, Recycled, Restarted, Closed, Same,
                      Starting, Waiting, Recycling, Restarting
  <2>3. CallInv' /\ expired' \in BOOLEAN
    BY <1>4, <2>1, <2>2 DEF CallInv, Recover, WorldOK
  <2> QED
    BY <2>3, ProbeFlakes, QuietStep DEF WaitProbe, Still
<1>5. CASE Observed(a, w)
  <2>1. CallInv' /\ expired' \in BOOLEAN
    BY <1>1, <1>2, <1>5, ObservedKeeps DEF Waiting
  <2> QED
    BY <2>1, ProbeFlakes, QuietStep DEF WaitProbe, Still
<1> QED
  BY <1>3, <1>4, <1>5

LEMMA WaitExpiresKeeps ==
  ASSUME MInv, WaitExpires
  PROVE  MInv'
<1> USE DEF MInv
<1>1. /\ pc = "wait" /\ ~ordered /\ ordered' = FALSE /\ op # "EXTERNAL"
      /\ wait.changed \in BOOLEAN /\ Finish("TIMEOUT", wait.changed)
  BY DEF CallInv, CallOK, WaitExpires, Still, Commands, Waits
<1>2. (op = "START" /\ ~wait.changed) => issued = NothingIssued
  BY <1>1 DEF CallInv, Ledger, Awaited, Waiting
<1>3. CallInv' /\ expired' \in BOOLEAN
  BY <1>1, <1>2, FinishKeeps DEF Statuses
<1> QED
  BY <1>3, QuietStep DEF WaitExpires, Still

LEMMA ConnectWorld ==
  ASSUME WorldOK, ConnectSucceeds \/ \E a \in Answers : ConnectFails(a)
  PROVE  emulator' \in Devices /\ flakes' \in Nat
<1>1. CASE ConnectSucceeds
  BY <1>1, WorldSteps DEF ConnectSucceeds
<1>2. CASE \E a \in Answers : ConnectFails(a)
  BY <1>2, WorldSteps DEF ConnectFails
<1> QED
  BY <1>1, <1>2

LEMMA ConnectKeeps ==
  ASSUME MInv, ControlledConnect
  PROVE  MInv'
<1> USE DEF MInv
<1>1. /\ pc = "connect" /\ ~ordered /\ ordered' = FALSE
      /\ UNCHANGED << config, cancelled, parentExpired >> /\ wait \in Waits
  BY DEF CallInv, CallOK, ControlledConnect, Still, Commands
<1>2. emulator' \in Devices /\ flakes' \in Nat
  BY ConnectWorld DEF ControlledConnect
<1>3. CASE Goto("recheck")
  <2>1. CallOK'
    BY <1>1, <1>3 DEF Goto, CallInv, CallOK, Steps, Waiting, Stopping
  <2>2. op = "START" => Ledger("recheck", ordered', wait, issued, result)
    BY <1>1 DEF CallInv, Ledger, Opened, Awaited, Recycled, Restarted, Closed,
                Starting, Waiting, Recycling, Restarting
  <2>3. CallInv' /\ expired' \in BOOLEAN
    BY <1>3, <2>1, <2>2 DEF CallInv, Goto, WorldOK
  <2> QED
    BY <1>1, <1>2, <2>3 DEF WorldOK, config
<1>4. CASE \E a \in Answers : Observed(a, [wait EXCEPT !.cooling = TRUE])
  <2> DEFINE w == [wait EXCEPT !.cooling = TRUE]
  <2>1. PICK a \in Answers : Observed(a, w)
    BY <1>4
  <2>2. w \in Waits /\ Same(wait, w)
    BY <1>1, WaitForms, SameForms
  <2> HIDE DEF w
  <2>3. CallInv' /\ expired' \in BOOLEAN
    BY <1>1, <2>1, <2>2, ObservedKeeps DEF Waiting
  <2> QED
    BY <1>1, <1>2, <2>3 DEF WorldOK, config
<1> QED
  BY <1>3, <1>4 DEF ControlledConnect

LEMMA RecheckKeeps ==
  ASSUME MInv, NEW a \in Answers, Recheck(a)
  PROVE  MInv'
<1> USE DEF MInv
<1>1. /\ pc = "recheck" /\ ~ordered /\ ordered' = FALSE /\ wait \in Waits
  BY DEF CallInv, CallOK, Recheck, Still, Commands
<1>2. PICK b \in BOOLEAN : b = (a = "ABSENT")
  OBVIOUS
<1> DEFINE w == [wait EXCEPT !.connected = ~b, !.cooling = b]
<1>3. Observed(a, w)
  <2>1. (a # "ABSENT") = ~b
    BY <1>2
  <2> QED
    BY <1>2, <2>1 DEF Recheck
<1>4. w \in Waits /\ Same(wait, w)
  BY <1>1, WaitForms, SameForms
<1> HIDE DEF w
<1>5. CallInv' /\ expired' \in BOOLEAN
  BY <1>1, <1>3, <1>4, ObservedKeeps DEF Waiting
<1> QED
  BY <1>5, ProbeFlakes, QuietStep DEF Recheck, Still

(* The recycle of a local endpoint. *)
LEMMA DisconnectKeeps ==
  ASSUME MInv, Disconnect
  PROVE  MInv'
<1> USE DEF MInv
<1>1. /\ pc = "disconnect" /\ ~ordered /\ ordered' = FALSE /\ op # "EXTERNAL"
      /\ UNCHANGED << config, cancelled, parentExpired >>
      /\ wait \in Waits /\ issued \in Counts
  BY DEF CallInv, CallOK, Disconnect, Still, Commands
<1>2. CASE /\ UNCHANGED emulator /\ UNCHANGED flakes
           /\ \E s \in {"CANCELLED", "TIMEOUT"} : Finish(s, TRUE)
  <2>1. CallInv' /\ expired' \in BOOLEAN
    BY <1>1, <1>2, FinishKeeps DEF Statuses
  <2> QED
    BY <1>1, <1>2, <2>1, QuietStep
<1>3. CASE /\ pc' = "reconnect" /\ issued' = [issued EXCEPT !.recycle = @ + 1]
           /\ \/ emulator' = [emulator EXCEPT !.listed = "absent"] /\ UNCHANGED flakes
              \/ UNCHANGED emulator /\ Flake
           /\ UNCHANGED << op, wait, result, expired >>
  <2>1. /\ issued'.recycle = issued.recycle + 1 /\ issued'.stop = issued.stop
        /\ issued'.start = issued.start /\ issued' \in Counts
    BY <1>1, <1>3 DEF Counts
  <2>2. CallOK'
    BY <1>1, <1>3, <2>1 DEF CallInv, CallOK, Steps, Recycling, Stopping
  <2>3. op = "START" => /\ wait.changed /\ wait.recycled /\ issued.start <= 1 + issued.stop
                        /\ issued.stop = One(wait.restarted)
                        /\ issued.recycle = One(wait.restarted)
    BY <1>1 DEF CallInv, Ledger, Recycled, Recycling, One, Counts
  <2>4. op = "START" => Recycled("reconnect", wait, issued') /\ Bounded(issued')
    BY <1>1, <2>1, <2>3 DEF Recycled, Recycling, One, Bounded, Counts
  <2>5. op = "START" => Ledger("reconnect", ordered', wait, issued', result)
    BY <2>4 DEF Ledger, Opened, Awaited, Restarted, Closed, Starting, Waiting, Restarting
  <2>6. CallInv'
    BY <1>3, <2>2, <2>5 DEF CallInv
  <2>7. emulator' \in Devices /\ flakes' \in Nat
    BY <1>3, WorldSteps DEF Listings
  <2> QED
    BY <1>1, <1>3, <2>6, <2>7 DEF WorldOK, config
<1> QED
  BY <1>2, <1>3 DEF Disconnect

LEMMA ReconnectKeeps ==
  ASSUME MInv, Reconnect
  PROVE  MInv'
<1> USE DEF MInv
<1>1. /\ pc = "reconnect" /\ ~ordered /\ ordered' = FALSE /\ op # "EXTERNAL"
      /\ UNCHANGED << config, cancelled, parentExpired >>
      /\ wait \in Waits /\ issued \in Counts
  BY DEF CallInv, CallOK, Reconnect, Still, Commands
<1>2. emulator' \in Devices /\ flakes' \in Nat
  BY ConnectWorld DEF Reconnect
<1>3. Continue(AfterRecycle) \/ \E s \in {"CANCELLED", "TIMEOUT"} : Finish(s, TRUE)
  BY DEF Reconnect, ConnectFails
<1>4. CASE Continue(AfterRecycle)
  <2>1. AfterRecycle \in Waits /\ Same(wait, AfterRecycle)
    BY <1>1, WaitForms, SameForms DEF AfterRecycle
  <2>2. op = "START" => Awaited("wait", AfterRecycle, issued)
    BY <1>1, <2>1 DEF CallInv, Ledger, Recycled, Recycling, Awaited, One, Same, Counts
  <2>3. CallInv' /\ expired' \in BOOLEAN
    BY <1>1, <1>4, <2>1, <2>2, ContinueKeeps DEF Stopping
  <2> QED
    BY <1>1, <1>2, <2>3 DEF WorldOK, config
<1>5. CASE \E s \in {"CANCELLED", "TIMEOUT"} : Finish(s, TRUE)
  <2>1. CallInv' /\ expired' \in BOOLEAN
    BY <1>1, <1>5, FinishKeeps DEF Statuses
  <2> QED
    BY <1>1, <1>2, <2>1 DEF WorldOK, config
<1> QED
  BY <1>3, <1>4, <1>5

-----------------------------------------------------------------------------
(* The world, and time. *)
LEMMA CallUnchanged ==
  ASSUME CallInv, UNCHANGED call
  PROVE  CallInv'
BY DEF CallInv, CallOK, call

LEMMA WorldKeeps ==
  ASSUME MInv, World
  PROVE  MInv'
<1> USE DEF MInv
<1>1. UNCHANGED << call, config >>
  BY DEF World, Boots, Goes, Crashes, Listing, Power, EmulatorMoves, Cancel, Expire, ExpireParent
<1>2. CallInv'
  BY <1>1, CallUnchanged
<1>3. CASE Cancel \/ Expire \/ ExpireParent
  BY <1>1, <1>2, <1>3 DEF Cancel, Expire, ExpireParent, WorldOK, config
<1>4. CASE Boots \/ Goes \/ Crashes \/ Listing
  <2>1. UNCHANGED clock /\ (Flake \/ UNCHANGED flakes)
    BY <1>4 DEF Boots, Goes, Crashes, Listing, Power, EmulatorMoves
  <2>2. \/ \E p \in Powers : emulator' = [emulator EXCEPT !.power = p]
        \/ \E l \in Listings : emulator' = [emulator EXCEPT !.listed = l]
    BY <1>4 DEF Boots, Goes, Crashes, Listing, Power, EmulatorMoves, Powers
  <2>3. emulator' \in Devices /\ flakes' \in Nat
    BY <2>1, <2>2, WorldSteps
  <2> QED
    BY <1>1, <1>2, <2>1, <2>3 DEF WorldOK, config, clock
<1> QED
  BY <1>3, <1>4 DEF World

LEMMA TimeKeeps ==
  ASSUME MInv, Time
  PROVE  MInv'
<1> USE DEF MInv
<1>1. PICK w \in {[wait EXCEPT !.offline = "grace"], [wait EXCEPT !.cooling = FALSE]} : wait' = w
  BY DEF Time, GracePasses, CoolsDown
<1>2. wait # FreshWait(FALSE)
  BY DEF Time, GracePasses, CoolsDown, FreshWait
<1>3. UNCHANGED << op, pc, ordered, result, issued, emulator, config, flakes, clock >>
  BY DEF Time, GracePasses, CoolsDown
<1>4. wait \in Waits
  BY DEF CallInv, CallOK
<1>5. w \in Waits /\ Same(wait, w)
  BY <1>4, WaitForms, SameForms
<1>6. CallOK'
  BY <1>1, <1>3, <1>5 DEF CallInv, CallOK
<1>7. op = "START" => Ledger(pc, ordered, w, issued, result)
  BY <1>2, <1>5 DEF CallInv, Ledger, Opened, Awaited, Recycled, Restarted, Same
<1>8. CallInv'
  BY <1>1, <1>2, <1>3, <1>6, <1>7 DEF CallInv
<1> QED
  BY <1>3, <1>8, QuietStep DEF clock, WorldOK

-----------------------------------------------------------------------------
(* The ledger is kept by every step. *)
LEMMA MInvInit == Init => MInv
<1> SUFFICES ASSUME Init PROVE MInv
  OBVIOUS
<1>1. WorldOK
  BY DEF Init, WorldOK, Devices, Powers, Listings
<1>2. CallOK
  BY FreshType DEF Init, CallOK, Operations, Steps, Stopping
<1>3. Ledger(pc, ordered, wait, issued, result)
  BY NothingBounded DEF Init, Ledger, Opened, Awaited, Recycled, Restarted, Closed,
                        Starting, Waiting, Recycling, Restarting
<1> QED
  BY <1>1, <1>2, <1>3 DEF MInv, CallInv, Init

LEMMA CommandKeeps ==
  ASSUME MInv, RefuseCommand \/ CommandFails
  PROVE  MInv'
<1>1. PICK s \in {"FAILED", "CANCELLED", "TIMEOUT"} : CommandEnds(s)
  BY DEF RefuseCommand, CommandFails
<1>2. pc \in Commands /\ (Flake \/ UNCHANGED flakes)
  BY DEF RefuseCommand, CommandFails
<1> QED
  BY <1>1, <1>2, CommandEndsKeeps

LEMMA MInvStep == MInv /\ [Next]_vars => MInv'
<1> SUFFICES ASSUME MInv, [Next]_vars PROVE MInv'
  OBVIOUS
<1>1. CASE RuntimeStep
  BY <1>1, MissingKeeps, IssueKeeps, CommandKeeps, SucceedsKeeps, WaitExpiresKeeps,
     ConnectKeeps, DisconnectKeeps, ReconnectKeeps, StartStatusKeeps, StopStatusKeeps,
     WaitStoppedKeeps, WaitProbeKeeps, RecheckKeeps DEF RuntimeStep
<1>2. CASE Client
  BY <1>2, BeginKeeps, StatusKeeps, EnsureKeeps DEF Client
<1>3. CASE World
  BY <1>3, WorldKeeps
<1>4. CASE Time
  BY <1>4, TimeKeeps
<1>5. CASE UNCHANGED vars
  <2>1. UNCHANGED call /\ UNCHANGED << emulator, config, flakes, clock >>
    BY <1>5 DEF vars
  <2>2. CallInv'
    BY <2>1, CallUnchanged DEF MInv
  <2> QED
    BY <2>1, <2>2, QuietStep DEF MInv, WorldOK, clock
<1> QED
  BY <1>1, <1>2, <1>3, <1>4, <1>5 DEF Next

LEMMA MInvIsInvariant == Spec => []MInv
BY MInvInit, MInvStep, PTL DEF Spec

(* The variables keep their types, whatever glitches happen, and each       *)
(* operation keeps to its own steps.                                        *)
THEOREM TypeCorrect == Spec => []MTypeOK
<1>1. MInv => MTypeOK
  BY DEF MInv, CallInv, MTypeOK
<1> QED
  BY <1>1, MInvIsInvariant, PTL

(* A start that reports no change has given no order (start and             *)
(* _wait_readiness of the MuMu adapter): the Runner never leaves an         *)
(* instance behind that it launched, restarted or recycled.                 *)
THEOREM HonestChange == Spec => []UnchangedMeansUntouched
<1>1. MInv => UnchangedMeansUntouched
  BY DEF MInv, CallInv, Ledger, Closed, UnchangedMeansUntouched, CallOK, Results
<1> QED
  BY <1>1, MInvIsInvariant, PTL

(* The recovery of an offline transport in one start (_wait_readiness) is   *)
(* bounded: one restart at most, after a recycle, and a recycle before and  *)
(* after it.                                                                *)
THEOREM RecoveryIsBounded == Spec => []BoundedRecovery
<1>1. MInv => BoundedRecovery
  BY DEF MInv, CallInv, Ledger, Bounded, BoundedRecovery
<1> QED
  BY <1>1, MInvIsInvariant, PTL

-----------------------------------------------------------------------------
(* The look that says an instance has stopped. *)
LEMMA StopSeen ==
  ASSUME WorldOK, NEW a \in Answers, Probe(a), Classify(a) = "STOPPED"
  PROVE  ~PortOpen(emulator) \/ flakes' # flakes \/ expired
<1>1. a \in {"PORT_CLOSED", "SOCKET_ERROR"}
  BY ClassifyCases
<1>2. a = Reading(emulator) => ~PortOpen(emulator)
  BY <1>1 DEF Reading, Selected, WorldOK, Devices, Listings
<1>3. Flake => flakes' # flakes
  BY DEF Flake, WorldOK
<1> QED
  BY <1>1, <1>2, <1>3 DEF Probe

(* Whatever else a stop returns with is not "STOPPED".                      *)
LEMMA OtherVerdicts ==
  ASSUME MInv, op = "STOP", NEW s \in Statuses, NEW c \in BOOLEAN, Finish(s, c)
  PROVE  result'.status = s
<1>1. result' = Result("STOP", s, c)
  BY FinishEffect DEF MInv, CallInv, MTypeOK
<1> QED
  BY <1>1, ResultType

LEMMA ObservedVerdicts ==
  ASSUME MInv, op = "STOP", NEW w \in Waits, NEW a \in Answers, Observed(a, w), pc' = "idle"
  PROVE  result'.status # "STOPPED"
<1>1. w.changed \in BOOLEAN
  BY DEF Waits
<1>2. CASE a = "READY"
  BY <1>1, <1>2, OtherVerdicts DEF Observed, Statuses
<1>3. CASE a = "CANCELLED"
  BY <1>1, <1>3, OtherVerdicts DEF Observed, Statuses
<1>4. CASE a = "OFFLINE" /\ local
  BY <1>4 DEF Observed, Offline, Continue, Recover, Waits
<1>5. CASE a \notin {"READY", "CANCELLED"} /\ ~(a = "OFFLINE" /\ local)
  BY <1>5 DEF Observed, Continue
<1> QED
  BY <1>2, <1>3, <1>4, <1>5

(* A stop is confirmed by a closed port and nothing else (_classify_status  *)
(* and _wait_stopped): when it returns STOPPED, the port is closed, or the  *)
(* very look that ended it was a glitch or came after the deadline.         *)
THEOREM ConfirmedStop == Spec => StopIsConfirmed
<1>1. ASSUME MInv, [Next]_vars
      PROVE  [(Returns /\ op = "STOP" /\ result'.status = "STOPPED")
                => ~PortOpen(emulator) \/ flakes' # flakes \/ expired]_vars
  <2> SUFFICES ASSUME Next, pc # "idle", pc' = "idle", op = "STOP", result'.status = "STOPPED"
               PROVE  ~PortOpen(emulator) \/ flakes' # flakes \/ expired
    BY <1>1 DEF Returns
  <2> USE <1>1
  <2>0. /\ wait \in Waits /\ wait.changed \in BOOLEAN
        /\ {"FAILED", "CANCELLED", "TIMEOUT", "STOPPED"} \subseteq Statuses
        /\ "STOPPED" \notin {"FAILED", "CANCELLED", "TIMEOUT"}
    BY DEF MInv, CallInv, CallOK, Waits, Statuses
  <2>1. ASSUME NEW s \in {"FAILED", "CANCELLED", "TIMEOUT"}, NEW c \in BOOLEAN, Finish(s, c)
        PROVE  FALSE
    BY <2>0, <2>1, OtherVerdicts
  <2>2. RuntimeStep
    BY DEF Next, Client, Begin, Status, EnsureExternal, World, Boots, Goes, Crashes, Listing,
           Power, EmulatorMoves, Cancel, Expire, ExpireParent, Time, GracePasses, CoolsDown,
           call
  <2>3. ~ManagerMissing /\ ~WaitExpires
    BY <2>0, <2>1 DEF ManagerMissing, WaitExpires
  <2>4. ~RefuseCommand /\ ~CommandFails
    <3>1. ASSUME NEW s \in {"FAILED", "CANCELLED", "TIMEOUT"}, CommandEnds(s)
          PROVE  FALSE
      <4> DEFINE c == pc # "stopcmd"
      <4>1. c \in BOOLEAN /\ Finish(s, c)
        BY <3>1 DEF CommandEnds
      <4> QED
        BY <4>1, <2>1
    <3> QED
      BY <3>1 DEF RefuseCommand, CommandFails
  <2>5. ~IssueCommand /\ ~CommandSucceeds
    BY DEF IssueCommand, CommandSucceeds, Commands
  <2>6. ~ControlledConnect
    <3>1. [wait EXCEPT !.cooling = TRUE] \in Waits
      BY <2>0, WaitForms
    <3> QED
      BY <3>1, ObservedVerdicts DEF ControlledConnect, Goto
  <2>7. ASSUME NEW a \in Answers, Recheck(a)
        PROVE  FALSE
    <3>1. PICK b \in BOOLEAN : b = (a = "ABSENT")
      OBVIOUS
    <3> DEFINE w == [wait EXCEPT !.connected = ~b, !.cooling = b]
    <3>2. (a # "ABSENT") = ~b
      BY <3>1
    <3>3. Observed(a, w)
      BY <2>7, <3>1, <3>2 DEF Recheck
    <3>4. w \in Waits
      BY <2>0, WaitForms
    <3> HIDE DEF w
    <3> QED
      BY <3>3, <3>4, ObservedVerdicts
  <2>8. ASSUME NEW a \in Answers, WaitProbe(a)
        PROVE  FALSE
    <3> DEFINE w == [wait EXCEPT !.readonlyOnce = FALSE]
    <3>1. Recover("connect", w) \/ Observed(a, w)
      BY <2>8 DEF WaitProbe
    <3>2. w \in Waits
      BY <2>0, WaitForms
    <3> HIDE DEF w
    <3> QED
      BY <3>1, <3>2, ObservedVerdicts DEF Recover
  <2>9. ~Disconnect
    BY <2>1 DEF Disconnect
  <2>10. ~Reconnect
    <3>1. ASSUME Reconnect PROVE \E s \in {"CANCELLED", "TIMEOUT"} : Finish(s, TRUE)
      BY <3>1 DEF Reconnect, ConnectFails, Continue
    <3> QED
      BY <3>1, <2>1
  <2>11. ASSUME NEW a \in Answers, StartStatus(a)
         PROVE  FALSE
    <3>1. pc = "start"
      BY <2>11 DEF StartStatus
    <3>2. PICK s \in {"STARTED", "CANCELLED", "TIMEOUT", "FAILED"} : Finish(s, FALSE)
      BY <2>11, ClassifyCases DEF StartStatus, Wait, Goto
    <3> QED
      BY <2>0, <3>2, OtherVerdicts DEF Statuses
  <2>12. ASSUME NEW a \in Answers, StopStatus(a)
         PROVE  Classify(a) = "STOPPED" /\ Probe(a)
    BY <2>1, <2>12, ClassifyCases DEF StopStatus, Goto
  <2>13. ASSUME NEW a \in Answers, WaitStopped(a)
         PROVE  expired \/ (Classify(a) = "STOPPED" /\ Probe(a))
    BY <2>1, <2>13 DEF WaitStopped, Goto
  <2> QED
    BY <2>2, <2>3, <2>4, <2>5, <2>6, <2>7, <2>8, <2>9, <2>10, <2>11, <2>12, <2>13, StopSeen
       DEF RuntimeStep, MInv
<1> QED
  BY <1>1, MInvIsInvariant, PTL DEF Spec, StopIsConfirmed

-----------------------------------------------------------------------------
(* A wait that nothing disturbs, step by step: where the call is, and what  *)
(* the ADB server lists.                                                    *)
Ended         == pc = "idle"
Doing(step)   == pc = step /\ op # "EXTERNAL"
Finds(l)      == Doing("wait") /\ emulator.listed = l
Rechecks(l)   == Doing("recheck") /\ emulator.listed = l
Late          == Doing("wait") /\ expired
Cooled        == Finds("absent") /\ ~wait.cooling
Eager         == Cooled /\ ~wait.readonlyOnce
Unnoticed     == Finds("offline") /\ wait.offline = "no"
Noticed       == Finds("offline") /\ wait.offline = "seen"
Over          == Finds("offline") /\ wait.offline = "grace"
Looking       == \E step \in Waiting \cup Recycling : Doing(step)

(* A wait that finishes has returned: only the stop of a restart goes on.   *)
LEMMA WaitFinishes ==
  ASSUME op # "EXTERNAL", op \in Operations, NEW s, NEW c, s # "STOPPED", Finish(s, c)
  PROVE  Ended'
BY DEF Finish, Return, Ended, Operations

(* A probe of a steady instance that is no glitch answers with what is      *)
(* there, unless the token or the deadline cut it short.                    *)
LEMMA SteadyProbe ==
  ASSUME WorldOK, Steady, UNCHANGED flakes, NEW a \in Answers, Probe(a)
  PROVE  \/ a = "CANCELLED"
         \/ expired /\ a \in {"TIMEOUT", "SOCKET_ERROR"}
         \/ ~expired /\ emulator.listed = "device" /\ a = "READY"
         \/ ~expired /\ emulator.listed = "absent" /\ a = "ABSENT"
         \/ ~expired /\ emulator.listed = "offline" /\ a = "OFFLINE"
<1>1. ~Flake
  BY DEF Flake, WorldOK
<1>2. \/ emulator.listed = "device" /\ Reading(emulator) = "READY"
      \/ emulator.listed = "absent" /\ Reading(emulator) = "ABSENT"
      \/ emulator.listed = "offline" /\ Reading(emulator) = "OFFLINE"
  <2>1. PortOpen(emulator) /\ Booted(emulator)
    BY DEF Steady, PortOpen, Booted
  <2>2. emulator.listed \in {"device", "absent", "offline"}
    BY DEF Steady, WorldOK, Devices, Listings
  <2> QED
    BY <2>1, <2>2 DEF Reading, Selected
<1> QED
  BY <1>1, <1>2 DEF Probe

(* What becomes of an answer in a wait that stays steady: no restart.       *)
LEMMA SteadyAnswer ==
  ASSUME op # "EXTERNAL", op \in Operations, local, ~wait'.restarted,
         NEW w \in Waits, NEW a \in Answers, Observed(a, w)
  PROVE  \/ a \in {"READY", "CANCELLED"} /\ Ended'
         \/ /\ a = "OFFLINE" /\ w.offline # "grace" /\ Doing("wait")' /\ UNCHANGED expired
            /\ wait' = [w EXCEPT !.offline = "seen"]
         \/ a = "OFFLINE" /\ w.offline = "grace" /\ Doing("disconnect")'
         \/ /\ a \notin {"READY", "CANCELLED", "OFFLINE"} /\ Doing("wait")' /\ UNCHANGED expired
            /\ wait' = [w EXCEPT !.offline = "no"]
<1>1. CASE a = "READY"
  BY <1>1, WaitFinishes DEF Observed
<1>2. CASE a = "CANCELLED"
  BY <1>2, WaitFinishes DEF Observed
<1>3. CASE a = "OFFLINE"
  <2>1. Offline(w)
    BY <1>3 DEF Observed
  <2>2. CASE w.offline \in {"no", "seen"}
    BY <1>3, <2>1, <2>2 DEF Offline, Continue, Doing, Waits
  <2>3. CASE w.offline = "grace"
    <3>1. CASE ~w.recycled
      BY <1>3, <2>1, <2>3, <3>1 DEF Offline, Recover, Doing
    <3>2. CASE w.recycled
      <4>1. wait'.restarted
        BY <2>1, <2>3, <3>2 DEF Offline, Continue, Recover, Waits
      <4> QED
        BY <4>1
    <3> QED
      BY <3>1, <3>2
  <2> QED
    BY <2>2, <2>3 DEF Waits
<1>4. CASE a \notin {"READY", "CANCELLED", "OFFLINE"}
  BY <1>4 DEF Observed, Continue, Doing
<1> QED
  BY <1>1, <1>2, <1>3, <1>4

(* The steps that may be taken where a call looks, connects or recycles.    *)
LEMMA LookingSteps ==
  ASSUME MInv, Looking, RuntimeStep
  PROVE  /\ pc = "wait" => WaitExpires \/ \E a \in Answers : WaitProbe(a)
         /\ pc = "connect" => ControlledConnect
         /\ pc = "recheck" => \E a \in Answers : Recheck(a)
         /\ pc = "disconnect" => Disconnect
         /\ pc = "reconnect" => Reconnect
<1>1. pc \in {"wait", "connect", "recheck", "disconnect", "reconnect"}
  BY DEF Looking, Doing, Waiting, Recycling
<1>2. /\ ~ManagerMissing /\ ~IssueCommand /\ ~RefuseCommand /\ ~CommandFails /\ ~CommandSucceeds
      /\ \A a \in Answers : ~StartStatus(a) /\ ~StopStatus(a) /\ ~WaitStopped(a)
  BY <1>1 DEF ManagerMissing, IssueCommand, RefuseCommand, CommandFails, CommandSucceeds,
              StartStatus, StopStatus, WaitStopped, Commands
<1>3. /\ WaitExpires \/ (\E a \in Answers : WaitProbe(a)) => pc = "wait"
      /\ ControlledConnect => pc = "connect"
      /\ (\E a \in Answers : Recheck(a)) => pc = "recheck"
      /\ Disconnect => pc = "disconnect"
      /\ Reconnect => pc = "reconnect"
  BY DEF WaitExpires, WaitProbe, ControlledConnect, Recheck, Disconnect, Reconnect
<1> QED
  BY <1>1, <1>2, <1>3 DEF RuntimeStep

(* One look of the loop. *)
LEMMA SteadyLook ==
  ASSUME MInv, Steady, Steady', UNCHANGED flakes, Doing("wait"), RuntimeStep
  PROVE  \/ Ended'
         \/ /\ ~expired /\ UNCHANGED emulator
            /\ \/ emulator.listed = "absent" /\ Ensures(wait) /\ Doing("connect")'
               \/ /\ emulator.listed = "absent" /\ ~Ensures(wait) /\ Doing("wait")'
                  /\ wait' = [wait EXCEPT !.readonlyOnce = FALSE, !.offline = "no"]
               \/ /\ emulator.listed = "offline" /\ wait.offline # "grace" /\ Doing("wait")'
                  /\ wait' = [wait EXCEPT !.readonlyOnce = FALSE, !.offline = "seen"]
               \/ emulator.listed = "offline" /\ wait.offline = "grace" /\ Doing("disconnect")'
<1> DEFINE w == [wait EXCEPT !.readonlyOnce = FALSE]
<1>1. /\ WorldOK /\ wait \in Waits /\ op \in Operations /\ op # "EXTERNAL"
      /\ local /\ ~wait'.restarted /\ w \in Waits /\ w.offline = wait.offline
  <2>1. /\ WorldOK /\ wait \in Waits /\ op \in Operations /\ op # "EXTERNAL"
        /\ local /\ ~wait'.restarted
    BY DEF MInv, CallInv, CallOK, Doing, Steady
  <2>2. w \in Waits /\ w.offline = wait.offline
    BY <2>1 DEF Waits
  <2> QED
    BY <2>1, <2>2
<1>2. CASE WaitExpires
  BY <1>1, <1>2, WaitFinishes DEF WaitExpires
<1>3. ASSUME NEW a \in Answers, WaitProbe(a)
      PROVE  \/ Ended'
             \/ /\ ~expired /\ UNCHANGED emulator
                /\ \/ emulator.listed = "absent" /\ Ensures(wait) /\ Doing("connect")'
                   \/ /\ emulator.listed = "absent" /\ ~Ensures(wait) /\ Doing("wait")'
                      /\ wait' = [wait EXCEPT !.readonlyOnce = FALSE, !.offline = "no"]
                   \/ /\ emulator.listed = "offline" /\ wait.offline # "grace" /\ Doing("wait")'
                      /\ wait' = [wait EXCEPT !.readonlyOnce = FALSE, !.offline = "seen"]
                   \/ emulator.listed = "offline" /\ wait.offline = "grace" /\ Doing("disconnect")'
  <2>1. /\ ~expired /\ Probe(a) /\ UNCHANGED emulator
        /\ IF Ensures(wait) /\ a = "ABSENT" THEN Recover("connect", w) ELSE Observed(a, w)
    BY <1>1, <1>3 DEF WaitProbe
  <2>2. \/ a = "CANCELLED"
        \/ emulator.listed = "device" /\ a = "READY"
        \/ emulator.listed = "absent" /\ a = "ABSENT"
        \/ emulator.listed = "offline" /\ a = "OFFLINE"
    BY <1>1, <2>1, SteadyProbe
  <2> HIDE DEF w
  <2>3. CASE a = "ABSENT" /\ Ensures(wait)
    BY <1>1, <2>1, <2>2, <2>3 DEF Recover, Doing
  <2>4. CASE ~(a = "ABSENT" /\ Ensures(wait))
    <3>1. Observed(a, w)
      BY <2>1, <2>4
    <3>2. \/ a \in {"READY", "CANCELLED"} /\ Ended'
          \/ /\ a = "OFFLINE" /\ w.offline # "grace" /\ Doing("wait")' /\ UNCHANGED expired
             /\ wait' = [w EXCEPT !.offline = "seen"]
          \/ a = "OFFLINE" /\ w.offline = "grace" /\ Doing("disconnect")'
          \/ /\ a \notin {"READY", "CANCELLED", "OFFLINE"} /\ Doing("wait")' /\ UNCHANGED expired
             /\ wait' = [w EXCEPT !.offline = "no"]
      BY <1>1, <3>1, SteadyAnswer
    <3>3. /\ [w EXCEPT !.offline = "seen"] = [wait EXCEPT !.readonlyOnce = FALSE, !.offline = "seen"]
          /\ [w EXCEPT !.offline = "no"] = [wait EXCEPT !.readonlyOnce = FALSE, !.offline = "no"]
      BY <1>1 DEF w, Waits
    <3> QED
      BY <1>1, <2>1, <2>2, <2>4, <3>2, <3>3
  <2> QED
    BY <2>3, <2>4
<1> QED
  BY <1>2, <1>3, LookingSteps DEF Looking, Doing, Waiting, Recycling

(* A connect that is no glitch lists the device; if the deadline passes     *)
(* first, the wait ends at its next look.                                   *)
LEMMA SteadyConnect ==
  ASSUME WorldOK, Steady, UNCHANGED flakes
  PROVE  /\ ConnectSucceeds => emulator'.listed = "device"
         /\ \A a \in Answers : ConnectFails(a) => a = "CANCELLED" \/ (a = "TIMEOUT" /\ expired)
<1>1. ~Flake
  BY DEF Flake, WorldOK
<1>2. PortOpen(emulator)
  BY DEF PortOpen, Steady
<1> QED
  BY <1>1, <1>2 DEF ConnectSucceeds, ConnectFails

(* Where the commands of a steady wait lead.                                *)
LEMMA ConnectLeads ==
  ASSUME MInv, Steady, Steady', UNCHANGED flakes, Doing("connect"), RuntimeStep
  PROVE  Rechecks("device")' \/ Late' \/ Ended'
<1> DEFINE w == [wait EXCEPT !.cooling = TRUE]
<1>1. /\ WorldOK /\ op \in Operations /\ op # "EXTERNAL"
      /\ local /\ ~wait'.restarted /\ w \in Waits
  BY WaitForms DEF MInv, CallInv, CallOK, Doing, Steady
<1>2. ControlledConnect
  BY LookingSteps DEF Looking, Doing, Waiting, Recycling
<1>3. CASE ConnectSucceeds /\ Goto("recheck")
  BY <1>1, <1>3, SteadyConnect DEF Goto, Rechecks, Doing
<1>4. ASSUME NEW a \in Answers, ConnectFails(a), Observed(a, w)
      PROVE  Late' \/ Ended'
  <2>1. a = "CANCELLED" \/ (a = "TIMEOUT" /\ expired)
    BY <1>1, <1>4, SteadyConnect
  <2> HIDE DEF w
  <2>2. CASE a = "CANCELLED"
    BY <1>1, <1>4, <2>2, SteadyAnswer
  <2>3. CASE a = "TIMEOUT" /\ expired
    BY <1>1, <1>4, <2>3, SteadyAnswer DEF Late
  <2> QED
    BY <2>1, <2>2, <2>3
<1> QED
  BY <1>2, <1>3, <1>4 DEF ControlledConnect

LEMMA RecheckLeads ==
  ASSUME MInv, Steady, Steady', UNCHANGED flakes, Doing("recheck"), RuntimeStep
  PROVE  \/ Ended' \/ Late' \/ Doing("disconnect")'
         \/ emulator.listed # "device" /\ Doing("wait")' /\ UNCHANGED emulator
<1>1. PICK a \in Answers : Recheck(a)
  BY LookingSteps DEF Looking, Doing, Waiting, Recycling
<1>2. PICK b \in BOOLEAN : b = (a = "ABSENT")
  OBVIOUS
<1> DEFINE w == [wait EXCEPT !.connected = ~b, !.cooling = b]
<1>3. (a # "ABSENT") = ~b
  BY <1>2
<1>4. Observed(a, w) /\ Probe(a) /\ UNCHANGED emulator
  BY <1>1, <1>2, <1>3 DEF Recheck
<1>5. /\ WorldOK /\ op \in Operations /\ op # "EXTERNAL"
      /\ local /\ ~wait'.restarted /\ w \in Waits
  BY WaitForms DEF MInv, CallInv, CallOK, Doing, Steady
<1> HIDE DEF w
<1>6. \/ a = "CANCELLED"
      \/ expired /\ a \in {"TIMEOUT", "SOCKET_ERROR"}
      \/ emulator.listed = "device" /\ a = "READY"
      \/ emulator.listed = "absent" /\ a = "ABSENT"
      \/ emulator.listed = "offline" /\ a = "OFFLINE"
  BY <1>4, <1>5, SteadyProbe
<1>7. \/ a \in {"READY", "CANCELLED"} /\ Ended'
      \/ Doing("disconnect")'
      \/ a \notin {"READY", "CANCELLED"} /\ Doing("wait")' /\ UNCHANGED expired
  BY <1>4, <1>5, SteadyAnswer
<1> QED
  BY <1>4, <1>6, <1>7 DEF Late

LEMMA RecycleLeads ==
  ASSUME MInv, Steady, Steady', UNCHANGED flakes, RuntimeStep
  PROVE  /\ Doing("disconnect") => Doing("reconnect")' \/ Ended'
         /\ Doing("reconnect") => Finds("device")' \/ Ended'
<1>1. WorldOK /\ op \in Operations
  BY DEF MInv, CallInv, CallOK
<1>2. CASE Doing("disconnect")
  <2>1. Disconnect /\ op # "EXTERNAL"
    BY <1>2, LookingSteps DEF Looking, Doing, Waiting, Recycling
  <2>2. CASE Finish("CANCELLED", TRUE) \/ Finish("TIMEOUT", TRUE)
    BY <1>1, <2>1, <2>2, WaitFinishes
  <2>3. CASE pc' = "reconnect" /\ UNCHANGED op
    BY <1>2, <2>1, <2>3 DEF Doing
  <2> QED
    BY <1>2, <2>1, <2>2, <2>3 DEF Disconnect, Doing
<1>3. CASE Doing("reconnect")
  <2>1. Reconnect /\ op # "EXTERNAL"
    BY <1>3, LookingSteps DEF Looking, Doing, Waiting, Recycling
  <2>2. CASE ConnectSucceeds /\ Continue(AfterRecycle)
    BY <1>1, <1>3, <2>1, <2>2, SteadyConnect DEF Continue, Finds, Doing
  <2>3. ASSUME NEW a \in Answers, ConnectFails(a),
               IF a = "CANCELLED" \/ expired THEN Finish(a, TRUE) ELSE Continue(AfterRecycle)
        PROVE  Ended'
    <3>1. Finish(a, TRUE) /\ a # "STOPPED"
      BY <1>1, <2>3, SteadyConnect
    <3> QED
      BY <1>1, <2>1, <3>1, WaitFinishes
  <2> QED
    BY <1>3, <2>1, <2>2, <2>3 DEF Reconnect, Doing
<1> QED
  BY <1>2, <1>3

(* What passes beside the call while the instance is steady: a pause at     *)
(* most.                                                                    *)
LEMMA SteadyWorld ==
  ASSUME MInv, Looking, Steady, Steady', UNCHANGED flakes, [Next]_vars, ~RuntimeStep
  PROVE  /\ UNCHANGED << emulator, op, pc >> /\ (expired => expired')
         /\ wait'.readonlyOnce = wait.readonlyOnce /\ (wait'.cooling => wait.cooling)
         /\ \/ wait'.offline = wait.offline
            \/ wait.offline = "seen" /\ wait'.offline = "grace"
<1>1. pc # "idle" /\ wait \in Waits /\ ~Flake
  BY DEF MInv, CallInv, CallOK, WorldOK, Looking, Doing, Waiting, Recycling, Flake
<1>2. CASE UNCHANGED vars
  BY <1>2 DEF vars, call, clock
<1>3. CASE Client
  BY <1>1, <1>3 DEF Client, Begin, Status, EnsureExternal
<1>4. CASE Boots \/ Goes
  BY <1>4 DEF Boots, Goes, Power, EmulatorMoves, Steady
<1>5. CASE Crashes \/ Listing
  BY <1>1, <1>5 DEF Crashes, Listing
<1>6. CASE Cancel \/ Expire \/ ExpireParent
  BY <1>6 DEF Cancel, Expire, ExpireParent, call
<1>7. CASE GracePasses
  BY <1>1, <1>7 DEF GracePasses, clock, Waits
<1>8. CASE CoolsDown
  BY <1>1, <1>8 DEF CoolsDown, clock, Waits
<1> QED
  BY <1>2, <1>3, <1>4, <1>5, <1>6, <1>7, <1>8 DEF Next, World, Time

(* With glitches too, a call that looks goes on looking until it returns:   *)
(* a steady wait comes to no restart.                                       *)
LEMMA LookingOn ==
  ASSUME MInv, Looking, Steady, Steady', [Next]_vars
  PROVE  Looking' \/ Ended'
<1>1. /\ pc # "idle" /\ op # "EXTERNAL" /\ op \in Operations /\ wait \in Waits
      /\ local /\ ~wait'.restarted
  BY DEF MInv, CallInv, CallOK, Looking, Doing, Waiting, Recycling, Steady
<1>2. ASSUME NEW step \in Waiting \cup Recycling, Doing(step)'
      PROVE  Looking'
  BY <1>2 DEF Looking
<1>3. ASSUME NEW w \in Waits, NEW a \in Answers, Observed(a, w)
      PROVE  Looking' \/ Ended'
  <2>1. Ended' \/ Doing("wait")' \/ Doing("disconnect")'
    BY <1>1, <1>3, SteadyAnswer
  <2> QED
    BY <1>2, <2>1 DEF Waiting, Recycling
<1>4. CASE RuntimeStep
  <2>1. CASE pc = "wait"
    <3>1. CASE WaitExpires
      BY <1>1, <3>1, WaitFinishes DEF WaitExpires
    <3>2. ASSUME NEW a \in Answers, WaitProbe(a)
          PROVE  Looking' \/ Ended'
      <4> DEFINE w == [wait EXCEPT !.readonlyOnce = FALSE]
      <4>1. Recover("connect", w) \/ Observed(a, w)
        BY <3>2 DEF WaitProbe
      <4>2. w \in Waits
        BY <1>1, WaitForms
      <4> HIDE DEF w
      <4>3. CASE Recover("connect", w)
        BY <1>1, <1>2, <4>3 DEF Recover, Doing, Waiting
      <4> QED
        BY <1>3, <4>1, <4>2, <4>3
    <3> QED
      BY <1>4, <2>1, <3>1, <3>2, LookingSteps
  <2>2. CASE pc = "connect"
    <3>1. CASE Goto("recheck")
      BY <1>1, <1>2, <3>1 DEF Goto, Doing, Waiting
    <3>2. [wait EXCEPT !.cooling = TRUE] \in Waits
      BY <1>1, WaitForms
    <3> QED
      BY <1>3, <1>4, <2>2, <3>1, <3>2, LookingSteps DEF ControlledConnect
  <2>3. CASE pc = "recheck"
    <3>1. PICK a \in Answers : Recheck(a)
      BY <1>4, <2>3, LookingSteps
    <3>2. PICK b \in BOOLEAN : b = (a = "ABSENT")
      OBVIOUS
    <3> DEFINE w == [wait EXCEPT !.connected = ~b, !.cooling = b]
    <3>3. (a # "ABSENT") = ~b
      BY <3>2
    <3>4. Observed(a, w)
      BY <3>1, <3>2, <3>3 DEF Recheck
    <3>5. w \in Waits
      BY <1>1, WaitForms
    <3> HIDE DEF w
    <3> QED
      BY <1>3, <3>4, <3>5
  <2>4. CASE pc = "disconnect"
    <3>1. Disconnect
      BY <1>4, <2>4, LookingSteps
    <3>2. CASE Finish("CANCELLED", TRUE) \/ Finish("TIMEOUT", TRUE)
      BY <1>1, <3>2, WaitFinishes
    <3>3. CASE pc' = "reconnect" /\ UNCHANGED op
      BY <1>1, <1>2, <3>3 DEF Doing, Recycling
    <3> QED
      BY <3>1, <3>2, <3>3 DEF Disconnect
  <2>5. CASE pc = "reconnect"
    <3>1. Reconnect
      BY <1>4, <2>5, LookingSteps
    <3>2. CASE Continue(AfterRecycle)
      BY <1>1, <1>2, <3>2 DEF Continue, Doing, Waiting
    <3>3. CASE Finish("CANCELLED", TRUE) \/ Finish("TIMEOUT", TRUE)
      BY <1>1, <3>3, WaitFinishes
    <3> QED
      BY <3>1, <3>2, <3>3 DEF Reconnect, ConnectFails
  <2> QED
    BY <2>1, <2>2, <2>3, <2>4, <2>5 DEF Looking, Doing, Waiting, Recycling
<1>5. CASE UNCHANGED << op, pc >>
  BY <1>5 DEF Looking, Doing
<1>6. CASE Client
  BY <1>1, <1>6 DEF Client, Begin, Status, EnsureExternal
<1>7. UNCHANGED vars \/ World \/ Time => UNCHANGED << op, pc >>
  BY DEF World, Boots, Goes, Crashes, Listing, Power, EmulatorMoves, Cancel, Expire,
         ExpireParent, Time, GracePasses, CoolsDown, vars, call
<1> QED
  BY <1>4, <1>5, <1>6, <1>7 DEF Next

(* The thread of a wait goes on: again and again it has no step, because it *)
(* has returned, the instance is not steady or a pause of three seconds     *)
(* runs, or it takes one.  The pauses end, and so do the glitches, which    *)
(* MaxFlakes bounds.  All three follow from FairSpec.                       *)
Pausing ==
  ~expired /\ \/ Finds("absent") /\ wait.cooling
              \/ Finds("offline") /\ wait.offline = "seen"
HasAStep    == Looking /\ Steady /\ ~Pausing
WaitGoesOn  == []<>~HasAStep \/ []<><<RuntimeStep>>_vars
PausesEnd   == []<>~wait.cooling /\ []<>~(wait.offline = "seen")
GlitchesEnd == <>[][UNCHANGED flakes]_vars

(* What fairness needs of one stage of a wait: the call stays there or      *)
(* moves on, and its own step, of which it has one, moves it on.            *)
Leaves(P, Q) ==
  /\ (MInv /\ Steady /\ Steady' /\ P /\ [UNCHANGED flakes]_vars /\ [Next]_vars)
       => P' \/ Q'
  /\ (MInv /\ Steady /\ Steady' /\ P /\ [UNCHANGED flakes]_vars /\ <<RuntimeStep>>_vars)
       => Q'
  /\ Steady /\ P => HasAStep

LEMMA NoGlitch ==
  ASSUME [UNCHANGED flakes]_vars
  PROVE  UNCHANGED flakes
BY DEF vars

(* What the thread does to a wait that looks, and what the world does.      *)
LEMMA LooksMove ==
  ASSUME MInv, Steady, Steady', UNCHANGED flakes, RuntimeStep
  PROVE  /\ Late => Ended'
         /\ Finds("device") => Ended'
         /\ Finds("absent") => Finds("absent")' \/ Doing("connect")' \/ Ended'
         /\ Cooled => Eager' \/ Doing("connect")' \/ Ended'
         /\ Eager => Doing("connect")' \/ Ended'
         /\ Unnoticed => Noticed' \/ Ended'
         /\ Noticed => Noticed' \/ Ended'
         /\ Over => Doing("disconnect")' \/ Ended'
<1> USE DEF Late, Finds, Cooled, Eager, Unnoticed, Noticed, Over
<1>1. CASE ~Doing("wait")
  BY <1>1
<1>2. CASE Doing("wait") /\ Ended'
  BY <1>2
<1>3. CASE Doing("wait") /\ ~Ended'
  <2>1. wait \in Waits
    BY DEF MInv, CallInv, CallOK
  <2>2. CASE emulator.listed = "absent" /\ Ensures(wait) /\ Doing("connect")'
    BY <1>3, <2>2, SteadyLook
  <2>3. CASE /\ emulator.listed = "absent" /\ ~Ensures(wait) /\ Doing("wait")'
             /\ wait' = [wait EXCEPT !.readonlyOnce = FALSE, !.offline = "no"]
    <3>1. ~expired /\ UNCHANGED emulator
      BY <1>3, SteadyLook
    <3>2. wait'.readonlyOnce = FALSE /\ wait'.cooling = wait.cooling
      BY <2>1, <2>3 DEF Waits
    <3>3. wait.readonlyOnce \/ wait.cooling
      BY <2>3 DEF Ensures, Steady
    <3> QED
      BY <2>3, <3>1, <3>2, <3>3
  <2>4. CASE /\ emulator.listed = "offline" /\ wait.offline # "grace" /\ Doing("wait")'
             /\ wait' = [wait EXCEPT !.readonlyOnce = FALSE, !.offline = "seen"]
    <3>1. ~expired /\ UNCHANGED emulator
      BY <1>3, SteadyLook
    <3>2. wait'.offline = "seen"
      BY <2>1, <2>4 DEF Waits
    <3> QED
      BY <2>4, <3>1, <3>2
  <2>5. CASE emulator.listed = "offline" /\ wait.offline = "grace" /\ Doing("disconnect")'
    BY <1>3, <2>5, SteadyLook
  <2> QED
    BY <1>3, <2>2, <2>3, <2>4, <2>5, SteadyLook
<1> QED
  BY <1>1, <1>2, <1>3

(* Beside the thread a stage only gets from a pause to its end.             *)
LEMMA StagesStay ==
  ASSUME MInv, Steady, Steady', UNCHANGED flakes, [Next]_vars, ~RuntimeStep
  PROVE  /\ \A step \in Waiting \cup Recycling : Doing(step) => Doing(step)'
         /\ Late => Late'
         /\ \A l \in Listings : Finds(l) => Finds(l)'
         /\ \A l \in Listings : Rechecks(l) => Rechecks(l)'
         /\ Cooled => Cooled'
         /\ Eager => Eager'
         /\ Unnoticed => Unnoticed'
         /\ Noticed => Noticed' \/ Over'
         /\ Over => Over'
<1> USE DEF Doing, Late, Finds, Rechecks, Cooled, Eager, Unnoticed, Noticed, Over
<1>1. CASE Looking
  BY <1>1, SteadyWorld
<1>2. CASE ~Looking
  BY <1>2 DEF Looking, Waiting
<1> QED
  BY <1>1, <1>2

(* Where the call has a step to take.                                       *)
LEMMA Unpaused ==
  /\ Late => Looking /\ ~Pausing
  /\ Finds("device") => Looking /\ ~Pausing
  /\ Cooled => Looking /\ ~Pausing
  /\ Eager => Looking /\ ~Pausing
  /\ Unnoticed => Looking /\ ~Pausing
  /\ Over => Looking /\ ~Pausing
  /\ \A step \in (Waiting \cup Recycling) \ {"wait"} : Doing(step) => Looking /\ ~Pausing
BY DEF Late, Finds, Doing, Cooled, Eager, Unnoticed, Over, Looking, Pausing,
       Waiting, Recycling

LEMMA LooksLeave ==
  /\ Leaves(Late, Ended)
  /\ Leaves(Finds("device"), Ended)
  /\ Leaves(Cooled, Eager \/ Doing("connect") \/ Ended)
  /\ Leaves(Eager, Doing("connect") \/ Ended)
  /\ Leaves(Unnoticed, Noticed \/ Ended)
  /\ Leaves(Over, Doing("disconnect") \/ Ended)
<1>1. ASSUME MInv, Steady, Steady', [UNCHANGED flakes]_vars, [Next]_vars
      PROVE  /\ Late => Late' \/ Ended'
             /\ Finds("device") => Finds("device")' \/ Ended'
             /\ Cooled => Cooled' \/ Eager' \/ Doing("connect")' \/ Ended'
             /\ Eager => Eager' \/ Doing("connect")' \/ Ended'
             /\ Unnoticed => Unnoticed' \/ Noticed' \/ Ended'
             /\ Over => Over' \/ Doing("disconnect")' \/ Ended'
  BY <1>1, NoGlitch, LooksMove, StagesStay DEF Listings
<1>2. ASSUME MInv, Steady, Steady', [UNCHANGED flakes]_vars, <<RuntimeStep>>_vars
      PROVE  /\ Late => Ended'
             /\ Finds("device") => Ended'
             /\ Cooled => Eager' \/ Doing("connect")' \/ Ended'
             /\ Eager => Doing("connect")' \/ Ended'
             /\ Unnoticed => Noticed' \/ Ended'
             /\ Over => Doing("disconnect")' \/ Ended'
  BY <1>2, NoGlitch, LooksMove
<1> QED
  BY <1>1, <1>2, Unpaused DEF Leaves, HasAStep

LEMMA CommandsLeave ==
  /\ Leaves(Doing("connect"), Rechecks("device") \/ Late \/ Ended)
  /\ Leaves(Rechecks("device"), Late \/ Doing("disconnect") \/ Ended)
  /\ Leaves(Doing("recheck"), Doing("wait") \/ Doing("disconnect") \/ Ended)
  /\ Leaves(Doing("disconnect"), Doing("reconnect") \/ Ended)
  /\ Leaves(Doing("reconnect"), Finds("device") \/ Ended)
<1>1. ASSUME MInv, Steady, Steady', UNCHANGED flakes, RuntimeStep
      PROVE  /\ Doing("connect") => Rechecks("device")' \/ Late' \/ Ended'
             /\ Rechecks("device") => Late' \/ Doing("disconnect")' \/ Ended'
             /\ Doing("recheck") => Doing("wait")' \/ Doing("disconnect")' \/ Ended'
             /\ Doing("disconnect") => Doing("reconnect")' \/ Ended'
             /\ Doing("reconnect") => Finds("device")' \/ Ended'
  BY <1>1, ConnectLeads, RecheckLeads, RecycleLeads DEF Rechecks, Late
<1>2. ASSUME MInv, Steady, Steady', UNCHANGED flakes, [Next]_vars, ~RuntimeStep
      PROVE  /\ Rechecks("device") => Rechecks("device")'
             /\ Doing("connect") => Doing("connect")'
             /\ Doing("recheck") => Doing("recheck")'
             /\ Doing("disconnect") => Doing("disconnect")'
             /\ Doing("reconnect") => Doing("reconnect")'
  BY <1>2, StagesStay DEF Waiting, Recycling, Listings
<1>3. ASSUME MInv, Steady, Steady', [UNCHANGED flakes]_vars, [Next]_vars
      PROVE  /\ Doing("connect") => Doing("connect")' \/ Rechecks("device")' \/ Late' \/ Ended'
             /\ Rechecks("device")
                  => Rechecks("device")' \/ Late' \/ Doing("disconnect")' \/ Ended'
             /\ Doing("recheck")
                  => Doing("recheck")' \/ Doing("wait")' \/ Doing("disconnect")' \/ Ended'
             /\ Doing("disconnect") => Doing("disconnect")' \/ Doing("reconnect")' \/ Ended'
             /\ Doing("reconnect") => Doing("reconnect")' \/ Finds("device")' \/ Ended'
  BY <1>1, <1>2, <1>3, NoGlitch
<1>4. ASSUME MInv, Steady, Steady', [UNCHANGED flakes]_vars, <<RuntimeStep>>_vars
      PROVE  /\ Doing("connect") => Rechecks("device")' \/ Late' \/ Ended'
             /\ Rechecks("device") => Late' \/ Doing("disconnect")' \/ Ended'
             /\ Doing("recheck") => Doing("wait")' \/ Doing("disconnect")' \/ Ended'
             /\ Doing("disconnect") => Doing("reconnect")' \/ Ended'
             /\ Doing("reconnect") => Finds("device")' \/ Ended'
  BY <1>1, <1>4, NoGlitch
<1>5. /\ Doing("connect") => Looking /\ ~Pausing
      /\ Doing("recheck") => Looking /\ ~Pausing
      /\ Rechecks("device") => Looking /\ ~Pausing
      /\ Doing("disconnect") => Looking /\ ~Pausing
      /\ Doing("reconnect") => Looking /\ ~Pausing
  BY Unpaused DEF Rechecks, Waiting, Recycling
<1> QED
  BY <1>3, <1>4, <1>5 DEF Leaves, HasAStep

(* The two stages with a pause are left for the next stage only.            *)
LEMMA PausesStay ==
  ASSUME MInv, Steady, Steady', [UNCHANGED flakes]_vars, [Next]_vars
  PROVE  /\ Finds("absent") => Finds("absent")' \/ Doing("connect")' \/ Ended'
         /\ Noticed => Noticed' \/ Over' \/ Ended'
BY NoGlitch, LooksMove, StagesStay DEF Listings

LEMMA LookCase ==
  ASSUME MInv, Steady, Doing("wait")
  PROVE  Finds("device") \/ Finds("absent") \/ Unnoticed \/ Noticed \/ Over
<1>1. /\ wait.offline \in {"no", "seen", "grace"}
      /\ emulator.listed \in {"device", "absent", "offline"}
  BY DEF MInv, WorldOK, CallInv, CallOK, Waits, Devices, Listings, Steady
<1> QED
  BY <1>1 DEF Finds, Unnoticed, Noticed, Over

(* While the instance stays up, _wait_readiness ends by itself, deadline or *)
(* not: once the glitches are over, a device that is not listed is          *)
(* connected after the cooldown, an offline one is recycled after the       *)
(* grace, and each stage leads to the next.                                 *)
THEOREM SteadyWaitEnds ==
  Spec /\ WaitGoesOn /\ PausesEnd /\ GlitchesEnd => WaitEnds
<1>1. Spec /\ WaitGoesOn
        => ((Late /\ []Steady /\ [][UNCHANGED flakes]_vars) ~> Ended)
  BY LooksLeave, MInvIsInvariant, PTL DEF Leaves, Spec, WaitGoesOn
<1>2. Spec /\ WaitGoesOn
        => ((Finds("device") /\ []Steady /\ [][UNCHANGED flakes]_vars) ~> Ended)
  BY LooksLeave, MInvIsInvariant, PTL DEF Leaves, Spec, WaitGoesOn
<1>3. Spec /\ WaitGoesOn
        => ((Doing("reconnect") /\ []Steady /\ [][UNCHANGED flakes]_vars)
              ~> (Finds("device") \/ Ended))
  BY CommandsLeave, MInvIsInvariant, PTL DEF Leaves, Spec, WaitGoesOn
<1>4. Spec /\ WaitGoesOn
        => ((Doing("disconnect") /\ []Steady /\ [][UNCHANGED flakes]_vars)
              ~> (Doing("reconnect") \/ Ended))
  BY CommandsLeave, MInvIsInvariant, PTL DEF Leaves, Spec, WaitGoesOn
<1>5. Spec /\ WaitGoesOn
        => ((Rechecks("device") /\ []Steady /\ [][UNCHANGED flakes]_vars)
              ~> (Late \/ Doing("disconnect") \/ Ended))
  BY CommandsLeave, MInvIsInvariant, PTL DEF Leaves, Spec, WaitGoesOn
<1>6. Spec /\ WaitGoesOn
        => ((Doing("connect") /\ []Steady /\ [][UNCHANGED flakes]_vars)
              ~> (Rechecks("device") \/ Late \/ Ended))
  BY CommandsLeave, MInvIsInvariant, PTL DEF Leaves, Spec, WaitGoesOn
<1>7. Spec /\ WaitGoesOn
        => ((Eager /\ []Steady /\ [][UNCHANGED flakes]_vars) ~> (Doing("connect") \/ Ended))
  BY LooksLeave, MInvIsInvariant, PTL DEF Leaves, Spec, WaitGoesOn
<1>8. Spec /\ WaitGoesOn
        => ((Cooled /\ []Steady /\ [][UNCHANGED flakes]_vars)
              ~> (Eager \/ Doing("connect") \/ Ended))
  BY LooksLeave, MInvIsInvariant, PTL DEF Leaves, Spec, WaitGoesOn
<1>9. Spec /\ WaitGoesOn
        => ((Over /\ []Steady /\ [][UNCHANGED flakes]_vars) ~> (Doing("disconnect") \/ Ended))
  BY LooksLeave, MInvIsInvariant, PTL DEF Leaves, Spec, WaitGoesOn
<1>10. Spec /\ WaitGoesOn
        => ((Unnoticed /\ []Steady /\ [][UNCHANGED flakes]_vars) ~> (Noticed \/ Ended))
  BY LooksLeave, MInvIsInvariant, PTL DEF Leaves, Spec, WaitGoesOn
<1>11. Spec /\ WaitGoesOn
        => ((Doing("recheck") /\ []Steady /\ [][UNCHANGED flakes]_vars)
              ~> (Doing("wait") \/ Doing("disconnect") \/ Ended))
  BY CommandsLeave, MInvIsInvariant, PTL DEF Leaves, Spec, WaitGoesOn
<1>12. Spec /\ PausesEnd
        => ((Finds("absent") /\ []Steady /\ [][UNCHANGED flakes]_vars)
              ~> (Cooled \/ Doing("connect") \/ Ended))
  <2>1. Finds("absent") /\ ~wait.cooling => Cooled
    BY DEF Cooled
  <2> QED
    BY <2>1, PausesStay, MInvIsInvariant, PTL DEF Spec, PausesEnd
<1>13. Spec /\ PausesEnd
        => ((Noticed /\ []Steady /\ [][UNCHANGED flakes]_vars) ~> (Over \/ Ended))
  <2>1. Noticed => wait.offline = "seen"
    BY DEF Noticed
  <2> QED
    BY <2>1, PausesStay, MInvIsInvariant, PTL DEF Spec, PausesEnd
<1>14. Spec /\ WaitGoesOn
        => ((Doing("disconnect") /\ []Steady /\ [][UNCHANGED flakes]_vars) ~> Ended)
  BY <1>2, <1>3, <1>4, PTL
<1>15. Spec /\ WaitGoesOn
        => ((Doing("connect") /\ []Steady /\ [][UNCHANGED flakes]_vars) ~> Ended)
  BY <1>1, <1>5, <1>6, <1>14, PTL
<1>16. Spec /\ WaitGoesOn /\ PausesEnd
        => ((Finds("absent") /\ []Steady /\ [][UNCHANGED flakes]_vars) ~> Ended)
  BY <1>7, <1>8, <1>12, <1>15, PTL
<1>17. Spec /\ WaitGoesOn /\ PausesEnd
        => ((Noticed /\ []Steady /\ [][UNCHANGED flakes]_vars) ~> Ended)
  BY <1>9, <1>13, <1>14, PTL
<1>18. Spec /\ WaitGoesOn /\ PausesEnd
        => ((Doing("wait") /\ []Steady /\ [][UNCHANGED flakes]_vars) ~> Ended)
  <2>1. MInv /\ Steady /\ Doing("wait")
          => Finds("device") \/ Finds("absent") \/ Unnoticed \/ Noticed \/ Over
    BY LookCase
  <2> QED
    BY <2>1, <1>2, <1>9, <1>10, <1>14, <1>16, <1>17, MInvIsInvariant, PTL
<1>19. Spec /\ WaitGoesOn /\ PausesEnd
        => ((Looking /\ []Steady /\ [][UNCHANGED flakes]_vars) ~> Ended)
  <2>1. Looking => \/ Doing("wait") \/ Doing("connect") \/ Doing("recheck")
                   \/ Doing("disconnect") \/ Doing("reconnect")
    BY DEF Looking, Waiting, Recycling
  <2> QED
    BY <2>1, <1>2, <1>3, <1>11, <1>14, <1>15, <1>18, PTL
<1>20. Spec => []((Looking /\ []Steady) => []Looking \/ <>Ended)
  BY LookingOn, MInvIsInvariant, PTL DEF Spec
<1>21. Spec => [](pc = "wait" => Looking)
  <2>1. MInv /\ pc = "wait" => Looking
    BY DEF MInv, CallInv, CallOK, Looking, Doing, Waiting
  <2> QED
    BY <2>1, MInvIsInvariant, PTL
<1> QED
  BY <1>19, <1>20, <1>21, PTL DEF WaitEnds, GlitchesEnd, Ended

-----------------------------------------------------------------------------
(* The probe beneath those looks: MumuReadinessProbe over AdbClient.        *)
ProbeSteps ==
  {"idle", "check", "tcp", "server", "devices", "get_state", "boot", "connect"}

PTypeOK ==
  /\ emulator \in Devices /\ command \in ProbeSteps
  /\ local \in BOOLEAN /\ rechecking \in BOOLEAN
  /\ cancelled \in BOOLEAN /\ expired \in BOOLEAN

Stopped == cancelled \/ expired

(* The contract speaks of the same emulator.                                *)
LEMMA SameEmulator ==
  /\ Contract!Devices = Devices
  /\ \A d : /\ Contract!PortOpen(d) <=> PortOpen(d)
            /\ Contract!MayAnswer(d) = MayAnswer(d)
            /\ Contract!Connects(d) = Connects(d)
BY DEF Contract!Devices, Devices, Contract!Powers, Powers, Contract!Listings, Listings,
       Contract!PortOpen, PortOpen, Contract!Booted, Booted, Contract!Selected, Selected,
       Contract!MayAnswer, MayAnswer, Contract!Reading, Reading,
       Contract!Connects, Connects

LEMMA PhaseCases ==
  ASSUME command \in ProbeSteps
  PROVE  /\ command = "idle" => Phase = "idle"
         /\ command = "connect" => Phase = "connecting"
         /\ (command \notin {"idle", "connect"} /\ rechecking) => Phase = "rechecking"
         /\ (command \notin {"idle", "connect"} /\ ~rechecking) => Phase = "looking"
<1>1. CASE command = "idle"
  BY <1>1 DEF Phase
<1>2. CASE command = "connect"
  BY <1>2 DEF Phase
<1>3. CASE command \notin {"idle", "connect"}
  BY <1>3 DEF Phase
<1> QED
  BY <1>1, <1>2, <1>3

LEMMA ReturnForm ==
  ASSUME NEW a, PTypeOK, command' = "idle", answer' = a, UNCHANGED << emulator, kind, local >>,
         UNCHANGED << cancelled, expired >>
  PROVE  Contract!Return(a)
<1>1. Phase' = "idle"
  BY DEF Phase
<1> QED
  BY <1>1 DEF Contract!Return

(* A look that ends ends as the contract's does, if its answer is one that  *)
(* the instance may give or the call has been stopped.                      *)
LEMMA AnswerImplements ==
  ASSUME PTypeOK, command \notin {"idle", "connect"}, NEW a, Answer(a),
         \/ a \in MayAnswer(emulator)
         \/ Stopped /\ a \in {"CANCELLED", "TIMEOUT"}
  PROVE  PTypeOK' /\ Contract!Next
<1>1. UNCHANGED << emulator, cancelled, expired, local, kind, rechecking >>
  BY DEF Answer, world
<1>2. CASE ConnectIsAllowed(a)
  <2>1. /\ kind = "ensure" /\ ~rechecking /\ local /\ a = "ABSENT" /\ ~Stopped
        /\ command' = "connect" /\ UNCHANGED answer
    BY <1>2 DEF Answer, ConnectIsAllowed, Stopped
  <2>2. Phase = "looking" /\ Phase' = "connecting"
    BY <2>1, PhaseCases DEF PTypeOK, Phase
  <2>3. "ABSENT" \in Contract!MayAnswer(emulator)
    BY <2>1, SameEmulator
  <2>4. Contract!Connect
    BY <1>1, <2>1, <2>2, <2>3 DEF Contract!Connect, Stopped
  <2> QED
    BY <1>1, <2>1, <2>4 DEF PTypeOK, ProbeSteps, Contract!Next
<1>3. CASE ~ConnectIsAllowed(a)
  <2>1. command' = "idle" /\ answer' = a
    BY <1>3 DEF Answer
  <2>2. Contract!Return(a)
    BY <1>1, <2>1, ReturnForm
  <2>3. Phase \in {"looking", "rechecking"}
    BY PhaseCases DEF PTypeOK
  <2>4. a \in MayAnswer(emulator) => a \in Contract!MayAnswer(emulator)
    BY SameEmulator
  <2>5. Contract!Look
    BY <2>2, <2>3, <2>4 DEF Contract!Look, Stopped
  <2> QED
    BY <1>1, <2>1, <2>5 DEF PTypeOK, ProbeSteps, Contract!Next
<1> QED
  BY <1>2, <1>3

(* A command between two others is a stutter of the contract. *)
LEMMA GoesOn ==
  ASSUME PTypeOK, command \notin {"idle", "connect"}, command' \in ProbeSteps \ {"idle", "connect"},
         UNCHANGED << emulator, cancelled, expired, local, kind, rechecking, answer >>
  PROVE  PTypeOK' /\ UNCHANGED Contract!vars
<1>1. Phase' = Phase
  BY DEF Phase
<1> QED
  BY <1>1 DEF PTypeOK, Contract!vars

LEMMA LookCases ==
  ASSUME PTypeOK
  PROVE  /\ {"SOCKET_ERROR", "FAILED", "TIMEOUT"} \subseteq MayAnswer(emulator)
         /\ ~PortOpen(emulator) => "PORT_CLOSED" \in MayAnswer(emulator)
         /\ emulator.listed # "device" =>
              {Selected(emulator), "NOT_DEVICE"} \subseteq MayAnswer(emulator)
         /\ BootAnswer \in MayAnswer(emulator)
<1>1. BootAnswer \in {"FAILED", Reading(emulator)}
  BY SameEmulator DEF BootAnswer, Reading
<1> QED
  BY <1>1 DEF MayAnswer, Reading

Implements == PTypeOK' /\ (Contract!Next \/ UNCHANGED Contract!vars)

LEMMA CommandImplements ==
  ASSUME PTypeOK, command \in ProbeSteps \ {"idle", "connect"},
         \/ Interrupted \/ AdbCommandFails
         \/ \E s \in {"tcp", "server", "get_state", "boot"} : Proceed(s)
  PROVE  Implements
<1>1. CASE Interrupted
  <2>1. PICK a \in {"CANCELLED", "TIMEOUT"} : Answer(a) /\ Stopped
    BY <1>1 DEF Interrupted, Stopped
  <2> QED
    BY <2>1, AnswerImplements DEF Implements
<1>2. CASE AdbCommandFails
  <2>1. PICK a \in {"FAILED", "TIMEOUT"} : Answer(a)
    BY <1>2 DEF AdbCommandFails
  <2> QED
    BY <2>1, AnswerImplements, LookCases DEF Implements
<1>3. ASSUME NEW s \in {"tcp", "server", "get_state", "boot"}, Proceed(s)
      PROVE  Implements
  <2>1. /\ command' = s /\ s \in ProbeSteps \ {"idle", "connect"}
        /\ UNCHANGED << emulator, cancelled, expired, local, kind, rechecking, answer >>
    BY <1>3 DEF Proceed, world, ProbeSteps
  <2> QED
    BY <2>1, GoesOn DEF Implements
<1> QED
  BY <1>1, <1>2, <1>3

LEMMA LookImplements ==
  ASSUME PTypeOK, \/ CheckBeforeTcp \/ TcpProbe \/ EnsureServer
                  \/ ListDevices \/ GetState \/ GetBootCompleted
  PROVE  Implements
<1>1. CASE CheckBeforeTcp
  BY <1>1, CommandImplements DEF CheckBeforeTcp, ProbeSteps
<1>2. CASE TcpProbe
  <2>1. command \in ProbeSteps \ {"idle", "connect"}
    BY <1>2 DEF TcpProbe, ProbeSteps
  <2>2. \/ Proceed("server")
        \/ \E a \in {"SOCKET_ERROR", "TIMEOUT"} : Answer(a)
        \/ ~PortOpen(emulator) /\ Answer("PORT_CLOSED")
    BY <1>2, SameEmulator DEF TcpProbe
  <2> QED
    BY <2>1, <2>2, CommandImplements, AnswerImplements, LookCases DEF Implements
<1>3. CASE EnsureServer
  <2>1. command \in ProbeSteps \ {"idle", "connect"}
    BY <1>3 DEF EnsureServer, ProbeSteps
  <2>2. CASE Interrupted
    BY <2>1, <2>2, CommandImplements
  <2>3. CASE ~Interrupted
    <3>1. command' = "devices"
          /\ UNCHANGED << emulator, cancelled, expired, local, kind, rechecking, answer >>
      BY <1>3, <2>3 DEF EnsureServer
    <3> QED
      BY <2>1, <3>1, GoesOn DEF Implements, ProbeSteps
  <2> QED
    BY <2>2, <2>3
<1>4. CASE ListDevices
  <2>1. command \in ProbeSteps \ {"idle", "connect"}
    BY <1>4 DEF ListDevices, ProbeSteps
  <2>2. \/ Interrupted \/ AdbCommandFails \/ Proceed("get_state")
        \/ emulator.listed # "device" /\ Answer(Selected(emulator))
    BY <1>4, SameEmulator DEF ListDevices
  <2> QED
    BY <2>1, <2>2, CommandImplements, AnswerImplements, LookCases DEF Implements
<1>5. CASE GetState
  <2>1. command \in ProbeSteps \ {"idle", "connect"}
    BY <1>5 DEF GetState, ProbeSteps
  <2>2. \/ Interrupted \/ AdbCommandFails \/ Proceed("boot")
        \/ emulator.listed # "device" /\ \E a \in {"NOT_DEVICE", "FAILED"} : Answer(a)
    BY <1>5 DEF GetState
  <2> QED
    BY <2>1, <2>2, CommandImplements, AnswerImplements, LookCases DEF Implements
<1>6. CASE GetBootCompleted
  <2>1. command \in ProbeSteps \ {"idle", "connect"}
    BY <1>6 DEF GetBootCompleted, ProbeSteps
  <2>2. \/ Interrupted \/ AdbCommandFails
        \/ Answer(BootAnswer)
    BY <1>6 DEF GetBootCompleted
  <2> QED
    BY <2>1, <2>2, CommandImplements, AnswerImplements, LookCases DEF Implements
<1> QED
  BY <1>1, <1>2, <1>3, <1>4, <1>5, <1>6

LEMMA ConnectImplements ==
  ASSUME PTypeOK, ConnectDevice \/ ConnectGivesUp
  PROVE  Implements
<1>1. command = "connect" /\ Phase = "connecting"
  BY PhaseCases DEF ConnectDevice, ConnectGivesUp, PTypeOK
<1>2. UNCHANGED << local, kind, cancelled, expired >>
  BY DEF ConnectDevice, ConnectGivesUp, world
<1>3. ASSUME command' = "idle", UNCHANGED << emulator, rechecking >>,
             \/ answer' \in {"FAILED", "TIMEOUT"}
             \/ Stopped /\ answer' = "CANCELLED"
      PROVE  Implements
  <2>1. Contract!Return(answer')
    BY <1>2, <1>3, ReturnForm
  <2>2. Contract!Connected
    BY <1>1, <1>3, <2>1 DEF Contract!Connected, Stopped
  <2> QED
    BY <1>2, <1>3, <2>2 DEF Implements, PTypeOK, ProbeSteps, Contract!Next
<1>4. CASE ConnectGivesUp
  <2>1. /\ command' = "idle" /\ UNCHANGED << emulator, rechecking >>
        /\ answer' \in {"FAILED", "TIMEOUT"} \/ (Stopped /\ answer' = "CANCELLED")
    BY <1>4 DEF ConnectGivesUp, world, Stopped
  <2> QED
    BY <1>3, <2>1
<1>5. CASE ConnectDevice
  <2>1. CASE ~PortOpen(emulator)
    <3>1. command' = "idle" /\ UNCHANGED << emulator, rechecking >> /\ answer' = "FAILED"
      BY <1>5, <2>1, SameEmulator DEF ConnectDevice
    <3> QED
      BY <1>3, <3>1
  <2>2. CASE PortOpen(emulator)
    <3>1. /\ command' = "check" /\ rechecking' = TRUE /\ UNCHANGED answer
          /\ emulator' \in {[emulator EXCEPT !.listed = "device"], emulator}
      BY <1>5, <2>2, SameEmulator DEF ConnectDevice
    <3>2. [emulator EXCEPT !.listed = "device"] \in Connects(emulator)
      BY DEF Connects
    <3>3. emulator' \in Devices
      BY <3>1 DEF PTypeOK, Devices, Powers, Listings
    <3>4. Phase' = "rechecking"
      BY <3>1 DEF Phase
    <3>5. Contract!Connected
      BY <1>1, <1>2, <2>2, <3>1, <3>2, <3>4, SameEmulator DEF Contract!Connected
    <3> QED
      BY <1>2, <3>1, <3>3, <3>5 DEF Implements, PTypeOK, ProbeSteps, Contract!Next
  <2> QED
    BY <2>1, <2>2
<1> QED
  BY <1>4, <1>5

LEMMA AskImplements ==
  ASSUME PTypeOK, NEW k \in {"probe", "ensure"}, Ask(k)
  PROVE  Implements
<1>1. /\ command = "idle" /\ kind' = k /\ command' = "check" /\ rechecking' = FALSE
      /\ UNCHANGED << emulator, cancelled, expired, local, answer >>
  BY DEF Ask, world
<1>2. Phase = "idle" /\ Phase' = "looking"
  BY <1>1 DEF Phase
<1>3. Contract!Ask
  BY <1>1, <1>2 DEF Contract!Ask
<1> QED
  BY <1>1, <1>3 DEF Implements, PTypeOK, ProbeSteps, Contract!Next

LEMMA WorldImplements ==
  ASSUME PTypeOK, Surroundings
  PROVE  Implements
<1>1. UNCHANGED << local, kind, command, rechecking, answer >>
  BY DEF Surroundings, ComesUp, ShutsDown, PowerChange, TransportLost,
         TransportBack, ServerDies, TokenSet, DeadlinePasses, probeCall
<1>2. emulator' \in Devices
  <2>1. \/ emulator' = emulator
        \/ \E p \in Powers : emulator' = [emulator EXCEPT !.power = p]
        \/ \E l \in Listings : emulator' = [emulator EXCEPT !.listed = l]
    BY DEF Surroundings, ComesUp, ShutsDown, PowerChange,
           TransportLost, TransportBack, ServerDies, TokenSet,
           DeadlinePasses, Powers, Listings
  <2> QED
    BY <2>1 DEF PTypeOK, Devices
<1>3. cancelled' \in BOOLEAN /\ expired' \in BOOLEAN
  <2>1. CASE TokenSet \/ DeadlinePasses
    BY <2>1 DEF TokenSet, DeadlinePasses, PTypeOK
  <2>2. CASE ~(TokenSet \/ DeadlinePasses)
    BY <2>2 DEF Surroundings, ComesUp, ShutsDown, PowerChange,
                TransportLost, TransportBack, ServerDies, PTypeOK
  <2> QED
    BY <2>1, <2>2
<1>4. Phase' = Phase
  BY <1>1 DEF Phase
<1>5. (cancelled' \/ expired') \in BOOLEAN
  OBVIOUS
<1>6. Contract!World
  BY <1>1, <1>2, <1>4, <1>5, SameEmulator DEF Contract!World
<1> QED
  BY <1>1, <1>2, <1>3, <1>6 DEF Implements, PTypeOK, Contract!Next

LEMMA ProbeStepImplements ==
  PTypeOK /\ [ProbeNext]_probeVars => Implements
<1> SUFFICES ASSUME PTypeOK, [ProbeNext]_probeVars PROVE Implements
  OBVIOUS
<1>1. CASE ProbeStep
  BY <1>1, LookImplements, ConnectImplements DEF ProbeStep
<1>2. CASE Surroundings
  BY <1>2, WorldImplements
<1>3. ASSUME NEW k \in {"probe", "ensure"}, Ask(k)
      PROVE  Implements
  BY <1>3, AskImplements
<1>4. CASE UNCHANGED probeVars
  <2>1. UNCHANGED << emulator, cancelled, expired, local, kind, command, rechecking, answer >>
    BY <1>4 DEF probeVars, world, probeCall
  <2>2. Phase' = Phase
    BY <2>1 DEF Phase
  <2> QED
    BY <2>1, <2>2 DEF Implements, PTypeOK, Contract!vars
<1> QED
  BY <1>1, <1>2, <1>3, <1>4 DEF ProbeNext

LEMMA InitImplements == ProbeInit => PTypeOK /\ Contract!Init
<1> SUFFICES ASSUME ProbeInit PROVE PTypeOK /\ Contract!Init
  OBVIOUS
<1>1. PTypeOK
  BY DEF ProbeInit, PTypeOK, ProbeSteps, Devices, Powers, Listings
<1>2. Phase = "idle"
  BY DEF ProbeInit, Phase
<1>3. (cancelled \/ expired) = FALSE
  BY DEF ProbeInit
<1> QED
  BY <1>1, <1>2, <1>3, SameEmulator DEF ProbeInit, Contract!Init, PTypeOK

(* However many commands a probe takes, and whatever the instance, the ADB  *)
(* server, the token and the deadline do between them                       *)
(* (MumuReadinessProbe.probe and ensure_ready), its answer is one that a    *)
(* single look at its end could give, and ensure_ready connects at most     *)
(* once, after the local device was not listed.                             *)
THEOREM OneLook == ProbeSpec => AnswersAtomically
<1>1. PTypeOK /\ [ProbeNext]_probeVars
        => PTypeOK' /\ [Contract!Next]_Contract!vars
  BY ProbeStepImplements DEF Implements
<1> QED
  BY <1>1, InitImplements, PTL
     DEF ProbeSpec, AnswersAtomically, Contract!Spec

-----------------------------------------------------------------------------
(* ensure_ready gets there.  Calling(c, again) is a call that nothing       *)
(* disturbs, at its command c before or after it has connected; After is    *)
(* where that command leads.                                                *)
ClientOK == PTypeOK /\ flakes \in Nat /\ ((command = "check" /\ ~rechecking) => ~ensured)

Calling(c, again) ==
  /\ command = c /\ rechecking = again /\ kind = "ensure" /\ local
  /\ ensured => server
  /\ again \/ c \in {"get_state", "boot"} => emulator.listed = "device"

Ready == answer = "READY" /\ command = "idle"

After(c, again) ==
  \/ c = "check"     /\ Calling("tcp", again)
  \/ c = "tcp"       /\ Calling("server", again)
  \/ c = "server"    /\ Calling("devices", again)
  \/ c = "devices"   /\ Calling("get_state", again)
  \/ c = "devices"   /\ ~again /\ Calling("connect", FALSE)
  \/ c = "connect"   /\ Calling("check", TRUE)
  \/ c = "get_state" /\ Calling("boot", again)
  \/ c = "boot"      /\ Ready

LEMMA ClientStep == ClientOK /\ [ProbeNext]_probeVars => ClientOK'
<1> SUFFICES ASSUME ClientOK, [ProbeNext]_probeVars PROVE ClientOK'
  OBVIOUS
<1>1. PTypeOK'
  BY ProbeStepImplements DEF ClientOK, Implements
<1>2. flakes' \in Nat
  <2>1. flakes' = flakes \/ Flake
    BY DEF ProbeNext, ProbeStep, CheckBeforeTcp, TcpProbe, EnsureServer, ListDevices, GetState,
           GetBootCompleted, ConnectDevice, ConnectGivesUp, Interrupted, AdbCommandFails,
           Surroundings, ComesUp, ShutsDown, PowerChange, TransportLost, TransportBack, ServerDies,
           TokenSet, DeadlinePasses, Ask, probeVars
  <2> QED
    BY <2>1 DEF ClientOK, Flake
<1>3. (command' = "check" /\ ~rechecking') => ~ensured'
  <2>1. CASE \E k \in {"probe", "ensure"} : Ask(k)
    BY <2>1 DEF Ask
  <2>2. CASE Surroundings \/ UNCHANGED probeVars
    <3>1. UNCHANGED << command, rechecking, ensured >>
      BY <2>2 DEF Surroundings, ComesUp, ShutsDown, PowerChange, TransportLost, TransportBack,
         ServerDies, TokenSet, DeadlinePasses, probeVars, probeCall
    <3> QED
      BY <3>1 DEF ClientOK
  <2>3. CASE ProbeStep
    <3>1. command' = "check" => rechecking' = TRUE
      BY <2>3 DEF ProbeStep, CheckBeforeTcp, TcpProbe, EnsureServer, ListDevices, GetState,
         GetBootCompleted, ConnectDevice, ConnectGivesUp, Interrupted, AdbCommandFails,
         Answer, Proceed
    <3> QED
      BY <3>1
  <2> QED
    BY <2>1, <2>2, <2>3 DEF ProbeNext
<1> QED
  BY <1>1, <1>2, <1>3 DEF ClientOK

LEMMA ClientIsOK == ProbeSpec => []ClientOK
<1>1. ProbeInit => ClientOK
  BY InitImplements DEF ClientOK, ProbeInit
<1> QED
  BY <1>1, ClientStep, PTL DEF ProbeSpec

(* Where nothing glitches any more, an undisturbed command leads on, and    *)
(* what happens around it leaves the call alone.                            *)
LEMMA CommandLeads ==
  ASSUME ClientOK, Undisturbed, NEW c, NEW again \in BOOLEAN, Calling(c, again), ProbeStep
  PROVE  After(c, again)'
<1>1. ~Flake /\ ~Interrupted /\ ~AdbCommandFails
  BY DEF Flake, Interrupted, AdbCommandFails, ClientOK, Undisturbed
<1>2. PortOpen(emulator) /\ Booted(emulator)
  BY DEF Undisturbed, PortOpen, Booted
<1>3. ASSUME NEW next \in {"tcp", "server", "get_state", "boot"}, Proceed(next)
      PROVE  /\ UNCHANGED << rechecking, kind, local, ensured, server, emulator >>
             /\ command' = next
  BY <1>3 DEF Proceed, world
<1>4. CASE CheckBeforeTcp
  BY <1>1, <1>3, <1>4 DEF CheckBeforeTcp, Calling, After
<1>5. CASE TcpProbe
  <2>1. c = "tcp" /\ Proceed("server")
    BY <1>1, <1>2, <1>5 DEF TcpProbe, Calling, Undisturbed
  <2> QED
    BY <1>3, <2>1 DEF Calling, After
<1>6. CASE EnsureServer
  <2>1. /\ c = "server" /\ command' = "devices" /\ StartServer(TRUE)
        /\ UNCHANGED << emulator, local, kind, rechecking >>
    BY <1>1, <1>6 DEF EnsureServer, Calling
  <2>2. ensured' => server'
    BY <2>1 DEF StartServer, Calling
  <2> QED
    BY <2>1, <2>2 DEF Calling, After
<1>7. CASE ListDevices
  <2>1. c = "devices"
    BY <1>7 DEF ListDevices, Calling
  <2>2. CASE emulator.listed = "device"
    BY <1>1, <1>3, <1>7, <2>1, <2>2 DEF ListDevices, Calling, After
  <2>3. CASE emulator.listed # "device"
    <3>1. emulator.listed = "absent" /\ ~again
      BY <2>3 DEF Undisturbed, Calling
    <3>2. Answer("ABSENT") /\ ConnectIsAllowed("ABSENT")
      BY <1>1, <1>7, <2>3, <3>1 DEF ListDevices, Selected, ConnectIsAllowed, Calling, Undisturbed
    <3>3. /\ command' = "connect" /\ UNCHANGED << rechecking, kind, local, ensured, server >>
      BY <3>2 DEF Answer, world
    <3> QED
      BY <2>1, <3>1, <3>3 DEF Calling, After
  <2> QED
    BY <2>2, <2>3
<1>8. CASE GetState
  <2>1. c = "get_state" /\ Proceed("boot")
    BY <1>1, <1>8 DEF GetState, Calling
  <2> QED
    BY <1>3, <2>1 DEF Calling, After
<1>9. CASE GetBootCompleted
  <2>1. c = "boot" /\ Answer(BootAnswer)
    BY <1>1, <1>9 DEF GetBootCompleted, Calling
  <2>2. BootAnswer = "READY"
    BY <1>2, <2>1 DEF BootAnswer, Calling
  <2>3. ~ConnectIsAllowed("READY")
    BY DEF ConnectIsAllowed
  <2> QED
    BY <2>1, <2>2, <2>3 DEF Answer, After, Ready
<1>10. CASE ConnectDevice
  <2>1. /\ c = "connect" /\ command' = "check" /\ rechecking' = TRUE /\ StartServer(TRUE)
        /\ UNCHANGED << local, kind >>
        /\ emulator' = IF server' THEN [emulator EXCEPT !.listed = "device"] ELSE emulator
    BY <1>1, <1>2, <1>10 DEF ConnectDevice, Calling
  <2>2. server' = TRUE /\ (ensured' => server')
    BY <2>1, Zenon DEF StartServer, Calling
  <2>3. emulator'.listed = "device"
    BY <2>1, <2>2 DEF ClientOK, PTypeOK, Devices
  <2> QED
    BY <2>1, <2>2, <2>3 DEF Calling, After
<1>11. CASE ConnectGivesUp
  BY <1>1, <1>11 DEF ConnectGivesUp, Undisturbed
<1> QED
  BY <1>4, <1>5, <1>6, <1>7, <1>8, <1>9, <1>10, <1>11 DEF ProbeStep

LEMMA CommandWaits ==
  ASSUME ClientOK, Undisturbed, Undisturbed', NEW c \in ProbeSteps \ {"idle"},
         NEW again \in BOOLEAN, Calling(c, again), [ProbeNext]_probeVars, ~ProbeStep
  PROVE  Calling(c, again)'
<1>1. ~Flake
  BY DEF Flake, ClientOK, Undisturbed
<1>2. UNCHANGED << command, rechecking, kind, local, ensured, server, emulator >>
  BY <1>1 DEF ProbeNext, Surroundings, ComesUp, ShutsDown, PowerChange, TransportLost,
     TransportBack, ServerDies, TokenSet, DeadlinePasses, Ask, probeVars, world, probeCall,
     Calling, Undisturbed, ClientOK, PTypeOK, Devices
<1> QED
  BY <1>2 DEF Calling

(* What fairness needs of one command: the call stays there or moves on,    *)
(* its own step moves it on, and it has a step to take.                     *)
Leads(c, again) ==
  /\ ClientOK /\ Undisturbed /\ Undisturbed' /\ Calling(c, again) /\ [ProbeNext]_probeVars
       => Calling(c, again)' \/ After(c, again)'
  /\ ClientOK /\ Undisturbed /\ Calling(c, again) /\ <<ProbeStep>>_probeVars
       => After(c, again)'
  /\ Calling(c, again) => ~(command = "idle")

LEMMA CommandLeadsOn ==
  ASSUME NEW c \in ProbeSteps \ {"idle"}, NEW again \in BOOLEAN
  PROVE  Leads(c, again)
<1>1. ClientOK /\ Undisturbed /\ Undisturbed' /\ Calling(c, again) /\ [ProbeNext]_probeVars
        => Calling(c, again)' \/ After(c, again)'
  BY CommandLeads, CommandWaits
<1>2. ClientOK /\ Undisturbed /\ Calling(c, again) /\ <<ProbeStep>>_probeVars
        => After(c, again)'
  BY CommandLeads
<1>3. Calling(c, again) => ~(command = "idle")
  BY DEF Calling
<1> QED
  BY <1>1, <1>2, <1>3 DEF Leads

(* The thread of a call goes on: it is idle again and again, or takes a     *)
(* step again and again.  This is WF_probeVars(ProbeStep) of FairProbeSpec  *)
(* written without ENABLED, which the provers cannot expand: a call that is *)
(* not idle always has a step.                                              *)
ThreadGoesOn == []<>(command = "idle") \/ []<><<ProbeStep>>_probeVars

(* A call of ensure_ready that nothing disturbs brings a booted instance    *)
(* that the ADB server has forgotten back to READY, whatever glitches there *)
(* were before: as long as the thread goes on, each command leads to the    *)
(* next, over one connect at most.                                          *)
THEOREM Reconnection == ProbeSpec /\ ThreadGoesOn => EnsureReconnects
<1>1. ClientOK /\ command = "check" /\ ~rechecking /\ kind = "ensure" /\ local
        => Calling("check", FALSE)
  BY DEF ClientOK, PTypeOK, Calling
<1>2. /\ "check" \in ProbeSteps \ {"idle"} /\ "tcp" \in ProbeSteps \ {"idle"}
      /\ "server" \in ProbeSteps \ {"idle"} /\ "devices" \in ProbeSteps \ {"idle"}
      /\ "get_state" \in ProbeSteps \ {"idle"} /\ "boot" \in ProbeSteps \ {"idle"}
      /\ "connect" \in ProbeSteps \ {"idle"}
  BY DEF ProbeSteps
<1>3. /\ After("check", FALSE) => Calling("tcp", FALSE)
      /\ After("tcp", FALSE) => Calling("server", FALSE)
      /\ After("server", FALSE) => Calling("devices", FALSE)
      /\ After("devices", FALSE) => Calling("get_state", FALSE) \/ Calling("connect", FALSE)
      /\ After("get_state", FALSE) => Calling("boot", FALSE)
      /\ After("boot", FALSE) => Ready
      /\ After("connect", FALSE) => Calling("check", TRUE)
      /\ After("check", TRUE) => Calling("tcp", TRUE)
      /\ After("tcp", TRUE) => Calling("server", TRUE)
      /\ After("server", TRUE) => Calling("devices", TRUE)
      /\ After("devices", TRUE) => Calling("get_state", TRUE)
      /\ After("get_state", TRUE) => Calling("boot", TRUE)
      /\ After("boot", TRUE) => Ready
  BY DEF After
<1>4. /\ Leads("check", FALSE)
      /\ Leads("tcp", FALSE)
      /\ Leads("server", FALSE)
      /\ Leads("devices", FALSE)
      /\ Leads("get_state", FALSE)
      /\ Leads("boot", FALSE)
      /\ Leads("connect", FALSE)
      /\ Leads("check", TRUE)
      /\ Leads("tcp", TRUE)
      /\ Leads("server", TRUE)
      /\ Leads("devices", TRUE)
      /\ Leads("get_state", TRUE)
      /\ Leads("boot", TRUE)
  BY <1>2, CommandLeadsOn
<1>5. ProbeSpec /\ ThreadGoesOn
        => ((Calling("check", FALSE) /\ []Undisturbed) ~> After("check", FALSE))
  BY <1>4, ClientIsOK, PTL DEF Leads, ProbeSpec, ThreadGoesOn
<1>6. ProbeSpec /\ ThreadGoesOn
        => ((Calling("tcp", FALSE) /\ []Undisturbed) ~> After("tcp", FALSE))
  BY <1>4, ClientIsOK, PTL DEF Leads, ProbeSpec, ThreadGoesOn
<1>7. ProbeSpec /\ ThreadGoesOn
        => ((Calling("server", FALSE) /\ []Undisturbed) ~> After("server", FALSE))
  BY <1>4, ClientIsOK, PTL DEF Leads, ProbeSpec, ThreadGoesOn
<1>8. ProbeSpec /\ ThreadGoesOn
        => ((Calling("devices", FALSE) /\ []Undisturbed) ~> After("devices", FALSE))
  BY <1>4, ClientIsOK, PTL DEF Leads, ProbeSpec, ThreadGoesOn
<1>9. ProbeSpec /\ ThreadGoesOn
        => ((Calling("get_state", FALSE) /\ []Undisturbed) ~> After("get_state", FALSE))
  BY <1>4, ClientIsOK, PTL DEF Leads, ProbeSpec, ThreadGoesOn
<1>10. ProbeSpec /\ ThreadGoesOn
        => ((Calling("boot", FALSE) /\ []Undisturbed) ~> After("boot", FALSE))
  BY <1>4, ClientIsOK, PTL DEF Leads, ProbeSpec, ThreadGoesOn
<1>11. ProbeSpec /\ ThreadGoesOn
        => ((Calling("connect", FALSE) /\ []Undisturbed) ~> After("connect", FALSE))
  BY <1>4, ClientIsOK, PTL DEF Leads, ProbeSpec, ThreadGoesOn
<1>12. ProbeSpec /\ ThreadGoesOn
        => ((Calling("check", TRUE) /\ []Undisturbed) ~> After("check", TRUE))
  BY <1>4, ClientIsOK, PTL DEF Leads, ProbeSpec, ThreadGoesOn
<1>13. ProbeSpec /\ ThreadGoesOn
        => ((Calling("tcp", TRUE) /\ []Undisturbed) ~> After("tcp", TRUE))
  BY <1>4, ClientIsOK, PTL DEF Leads, ProbeSpec, ThreadGoesOn
<1>14. ProbeSpec /\ ThreadGoesOn
        => ((Calling("server", TRUE) /\ []Undisturbed) ~> After("server", TRUE))
  BY <1>4, ClientIsOK, PTL DEF Leads, ProbeSpec, ThreadGoesOn
<1>15. ProbeSpec /\ ThreadGoesOn
        => ((Calling("devices", TRUE) /\ []Undisturbed) ~> After("devices", TRUE))
  BY <1>4, ClientIsOK, PTL DEF Leads, ProbeSpec, ThreadGoesOn
<1>16. ProbeSpec /\ ThreadGoesOn
        => ((Calling("get_state", TRUE) /\ []Undisturbed) ~> After("get_state", TRUE))
  BY <1>4, ClientIsOK, PTL DEF Leads, ProbeSpec, ThreadGoesOn
<1>17. ProbeSpec /\ ThreadGoesOn
        => ((Calling("boot", TRUE) /\ []Undisturbed) ~> After("boot", TRUE))
  BY <1>4, ClientIsOK, PTL DEF Leads, ProbeSpec, ThreadGoesOn
<1> QED
  BY <1>1, <1>3, <1>5, <1>6, <1>7, <1>8, <1>9, <1>10, <1>11, <1>12, <1>13, <1>14, <1>15, <1>16, <1>17,
     ClientIsOK, PTL DEF EnsureReconnects, Ready
=============================================================================
