----------------------------- MODULE MumuRuntime -----------------------------
(***************************************************************************)
(* MumuAdapter: status, ensure_external_ready, start, stop and restart of  *)
(* one MuMu instance through short manager commands, with readiness and    *)
(* stop confirmed by probes, and the bounded recovery of an instance whose *)
(* ADB transport stays offline.  A probe is the one look that              *)
(* ReadinessContract promises.  Each operation has a deadline of its own   *)
(* inside the caller's.                                                    *)
(***************************************************************************)
EXTENDS EmulatorCalls

CONSTANT SocketErrors   \* a socket may fail other than by refusal or timeout

ASSUME SocketErrorsAssumption == SocketErrors \in BOOLEAN

VARIABLES
  commands,    \* which of the manager arguments are configured
  op, pc,      \* the operation and its next step
  ordered,     \* the manager command of that step has been issued
  wait,        \* the locals of _wait_readiness
  result,      \* the last MumuRuntimeResult
  issued,      \* history: what the call ordered so far
  parentExpired \* the caller's deadline has passed, expired is the operation's

config == << local, commands >>
clock == << cancelled, expired, parentExpired >>
call == << op, pc, ordered, wait, result, issued >>
vars == << emulator, config, call, flakes, clock >>

Operations == {"START", "STOP", "RESTART_STOP", "RESTART_START", "EXTERNAL"}
Statuses == {"READY", "NOT_READY", "STARTED", "STOPPED", "RESTARTED", "FAILED",
             "TIMEOUT", "CANCELLED"}
Result(action, status, changed) ==
  [action |-> action, status |-> status, changed |-> changed]

NoResult == Result("STATUS", "NOT_READY", FALSE)
NothingIssued == [start |-> 0, stop |-> 0, recycle |-> 0]

ChangeForgotten(changed) ==                                        \* mutant
  [changed |-> FALSE, connected |-> FALSE, cooling |-> FALSE, readonlyOnce |-> FALSE,
   offline |-> "no", recycled |-> FALSE, restarted |-> FALSE]

FreshWait(changed) ==
  [changed |-> changed, connected |-> FALSE, cooling |-> FALSE, readonlyOnce |-> FALSE,
   offline |-> "no", recycled |-> FALSE, restarted |-> FALSE]

Init ==
  /\ emulator \in [power : {"off", "on"}, listed : {"absent", "offline", "device"}]
  /\ local \in BOOLEAN /\ commands \in SUBSET {"start", "stop"}
  /\ op = "START" /\ pc = "idle" /\ ordered = FALSE /\ wait = FreshWait(FALSE)
  /\ result = NoResult /\ issued = NothingIssued
  /\ flakes = 0 /\ cancelled = FALSE /\ expired = FALSE /\ parentExpired = FALSE

-----------------------------------------------------------------------------
(* The world moves. *)
EmulatorMoves(next) ==
  /\ emulator' = next
  /\ UNCHANGED << config, call, clock >>

Power(from, to) == /\ emulator.power = from /\ UNCHANGED flakes
                   /\ EmulatorMoves([emulator EXCEPT !.power = to])

Boots    == Power("starting", "booting") \/ Power("booting", "on")
Goes     == Power("stopping", "off")
Crashes  == Flake /\ emulator.power # "off" /\ EmulatorMoves([emulator EXCEPT !.power = "off"])
Listing  == /\ Flake
            /\ \E l \in Listings : /\ emulator.listed \notin {l, "absent"}
                                   /\ EmulatorMoves([emulator EXCEPT !.listed = l])

Cancel == /\ ~cancelled /\ cancelled' = TRUE
          /\ UNCHANGED << emulator, config, call, flakes, expired, parentExpired >>
Expire == /\ ~expired /\ expired' = TRUE
          /\ UNCHANGED << emulator, config, call, flakes, cancelled, parentExpired >>
ExpireParent == /\ ~parentExpired /\ parentExpired' = TRUE /\ expired' = TRUE
                /\ UNCHANGED << emulator, config, call, flakes, cancelled >>

(* Three seconds: of the offline grace, of the connect cooldown.           *)
GracePasses == /\ wait.offline = "seen" /\ wait' = [wait EXCEPT !.offline = "grace"]
               /\ UNCHANGED << emulator, config, op, pc, ordered, result, issued, flakes, clock >>
CoolsDown   == /\ wait.cooling /\ wait' = [wait EXCEPT !.cooling = FALSE]
               /\ UNCHANGED << emulator, config, op, pc, ordered, result, issued, flakes, clock >>

-----------------------------------------------------------------------------
(* A readonly probe answers a. *)
Probe(a) ==
  \/ cancelled /\ a = "CANCELLED" /\ UNCHANGED flakes
  \/ expired /\ a \in {"TIMEOUT"} \cup (IF SocketErrors THEN {"SOCKET_ERROR"} ELSE {})
     /\ UNCHANGED flakes
  \/ /\ ~cancelled /\ ~expired /\ a \in MayAnswer(emulator)
     /\ a = "SOCKET_ERROR" => SocketErrors
     /\ IF a = Reading(emulator) THEN UNCHANGED flakes ELSE Flake

(* status *)
StoppedWhenAbsent(a) ==                                            \* mutant
  CASE a = "READY" -> "READY"
    [] a \in {"PORT_CLOSED", "SOCKET_ERROR", "ABSENT"} -> "STOPPED"
    [] a \in {"TIMEOUT", "CANCELLED"} -> a
    [] OTHER -> "NOT_READY"

Classify(a) ==
  CASE a = "READY" -> "READY"
    [] a \in {"PORT_CLOSED", "SOCKET_ERROR"} -> "STOPPED"
    [] a \in {"TIMEOUT", "CANCELLED"} -> a
    [] OTHER -> "NOT_READY"

(* The end of an operation.  restart goes on from a confirmed stop to a    *)
(* start, and reports a change only if that succeeds.                      *)
Return(r) == /\ pc' = "idle" /\ result' = r /\ expired' = parentExpired
             /\ wait' = FreshWait(FALSE) /\ UNCHANGED << op, issued >>

Finish(status, changed) ==
  CASE op \in {"START", "STOP"} -> Return(Result(op, status, changed))
    [] op = "RESTART_STOP" /\ status # "STOPPED" -> Return(Result("RESTART", status, FALSE))
    [] op = "RESTART_STOP" /\ status = "STOPPED" ->
         IF cancelled \/ parentExpired
         THEN Return(Result("RESTART", IF cancelled THEN "CANCELLED" ELSE "TIMEOUT", FALSE))
         ELSE /\ op' = "RESTART_START" /\ pc' = "start" /\ expired' = FALSE
              /\ UNCHANGED << wait, result, issued >>
    [] op = "RESTART_START" ->
         Return(IF status = "STARTED" THEN Result("RESTART", "RESTARTED", TRUE)
                ELSE Result("RESTART", status, FALSE))

Goto(step) == pc' = step /\ UNCHANGED << op, wait, result, issued, expired >>

Still == UNCHANGED << config, ordered, cancelled, parentExpired >>

-----------------------------------------------------------------------------
Begin(o) ==
  /\ pc = "idle" /\ o \in {"START", "STOP", "RESTART_STOP"}
  /\ op' = o /\ pc' = (IF o = "START" THEN "start" ELSE "stop")
  /\ issued' = NothingIssued /\ result' = NoResult
  /\ expired' = parentExpired
  /\ UNCHANGED << emulator, wait, flakes >> /\ Still

Status(a) ==
  /\ pc = "idle" /\ Probe(a)
  /\ result' = Result("STATUS", Classify(a), FALSE)
  /\ UNCHANGED << emulator, op, pc, wait, issued, expired >> /\ Still

(* The manager's executable is gone. *)
ManagerMissing ==
  /\ pc \in {"start", "stop"} /\ ~cancelled
  /\ Finish("FAILED", FALSE)
  /\ UNCHANGED << emulator, flakes >> /\ Still

Wait(changed) == /\ pc' = "wait" /\ wait' = FreshWait(changed)
                 /\ UNCHANGED << op, result, issued, expired >>

(* start: only an instance whose port is closed is launched. *)
StartStatus(a) ==
  /\ pc = "start" /\ Probe(a)
  /\ LET status == Classify(a) IN
     CASE status = "READY" -> Finish("STARTED", FALSE)
       [] status = "CANCELLED" -> Finish("CANCELLED", FALSE)
       [] status \notin {"READY", "CANCELLED"} /\ expired -> Finish("TIMEOUT", FALSE)
       [] status \in {"TIMEOUT", "NOT_READY"} /\ ~expired -> Wait(FALSE)
       [] status = "STOPPED" /\ ~expired ->
            IF "start" \in commands THEN Goto("startcmd") ELSE Finish("FAILED", FALSE)
  /\ UNCHANGED emulator /\ Still

(* stop: whatever is not known to be stopped is told to stop. *)
StopStatus(a) ==
  /\ pc = "stop" /\ Probe(a)
  /\ LET status == Classify(a) IN
     CASE status = "STOPPED" -> Finish("STOPPED", FALSE)
       [] status = "CANCELLED" -> Finish("CANCELLED", FALSE)
       [] status \notin {"STOPPED", "CANCELLED"} /\ expired -> Finish("TIMEOUT", FALSE)
       [] status \in {"TIMEOUT", "NOT_READY", "READY"} /\ ~expired ->
            IF "stop" \in commands THEN Goto("stopcmd") ELSE Finish("FAILED", FALSE)
  /\ UNCHANGED emulator /\ Still

-----------------------------------------------------------------------------
(* _run_manager_command: checks, then the process, then what became of it. *)
(* An order may take effect whatever becomes of the process that gave it,  *)
(* and may have none.                                                      *)
Commands == {"startcmd", "stopcmd", "rstop", "rstart"}
Order(step) == IF step \in {"startcmd", "rstart"} THEN "start" ELSE "stop"

Obeyed(order) ==
  [emulator EXCEPT !.power =
     CASE order = "start" /\ @ = "off"  -> "starting"
       [] order = "stop"  /\ @ # "off"  -> "stopping"
       [] OTHER                         -> @]

IssueCommand ==
  /\ pc \in Commands /\ ~ordered
  /\ Order(pc) \in commands /\ ~cancelled /\ ~expired
  /\ ordered' = TRUE /\ issued' = [issued EXCEPT ![Order(pc)] = @ + 1]
  /\ \/ emulator' = Obeyed(Order(pc)) /\ UNCHANGED flakes
     \/ UNCHANGED emulator /\ Flake
  /\ UNCHANGED << config, op, pc, wait, result, clock >>

(* What a command that was refused or failed makes of the operation: only  *)
(* stop reports no change.                                                 *)
CommandEnds(status) ==
  /\ ordered' = FALSE
  /\ Finish(status, pc # "stopcmd")
  /\ UNCHANGED << emulator, config, cancelled, parentExpired >>

RefuseCommand ==
  /\ pc \in Commands /\ ~ordered /\ UNCHANGED flakes
  /\ \/ Order(pc) \notin commands /\ CommandEnds("FAILED")
     \/ Order(pc) \in commands /\ cancelled /\ CommandEnds("CANCELLED")
     \/ Order(pc) \in commands /\ ~cancelled /\ expired /\ CommandEnds("TIMEOUT")

CommandFails ==
  /\ pc \in Commands /\ ordered
  /\ \/ cancelled /\ CommandEnds("CANCELLED") /\ UNCHANGED flakes
     \/ ~cancelled /\ expired /\ CommandEnds("TIMEOUT") /\ UNCHANGED flakes
     \/ ~cancelled /\ ~expired /\ CommandEnds("FAILED") /\ Flake

(* A restart that went through starts the wait over, but not its budget of *)
(* restarts.                                                               *)
AfterRestartAnew ==                                                \* mutant
  [wait EXCEPT !.offline = "no", !.recycled = FALSE, !.connected = FALSE,
               !.readonlyOnce = TRUE, !.cooling = FALSE, !.restarted = FALSE]

AfterRestart == [wait EXCEPT !.offline = "no", !.recycled = FALSE, !.connected = FALSE,
                             !.readonlyOnce = TRUE, !.cooling = FALSE]

CommandSucceeds ==
  /\ pc \in Commands /\ ordered /\ ~cancelled /\ ~expired
  /\ ordered' = FALSE
  /\ pc' = CASE pc \in {"startcmd", "rstart"} -> "wait"
             [] pc = "stopcmd"               -> "stopped?"
             [] pc = "rstop"                 -> "rstopped?"
  /\ wait' = CASE pc = "startcmd" -> FreshWait(TRUE)
               [] pc = "rstart"   -> AfterRestart
               [] OTHER           -> wait
  /\ UNCHANGED << emulator, config, op, result, issued, flakes, clock >>

-----------------------------------------------------------------------------
(* _wait_stopped, for stop and for the managed restart: only a closed port *)
(* counts.                                                                 *)
WaitStopped(a) ==
  /\ pc \in {"stopped?", "rstopped?"}
  /\ \/ expired /\ a = "TIMEOUT" /\ Finish("TIMEOUT", TRUE) /\ UNCHANGED flakes
     \/ /\ ~expired /\ Probe(a)
        /\ CASE a = "CANCELLED" -> Finish("CANCELLED", TRUE)
             [] Classify(a) = "STOPPED" ->
                  IF pc = "rstopped?" THEN Goto("rstart") ELSE Finish("STOPPED", TRUE)
             [] OTHER -> Goto(pc)
  /\ UNCHANGED emulator /\ Still

-----------------------------------------------------------------------------
(* _wait_readiness. *)
Continue(w) == /\ pc' = "wait" /\ wait' = w
               /\ UNCHANGED << op, result, issued, expired >>

Recover(step, w) == /\ pc' = step /\ wait' = w
                    /\ UNCHANGED << op, result, issued, expired >>

(* ensure_external_ready and its result. *)
External(a) ==
  Result("STATUS", CASE a = "READY" -> "READY"
                     [] a \in {"TIMEOUT", "CANCELLED"} -> a
                     [] OTHER -> "NOT_READY", FALSE)

(* What the loop makes of the answer a: an offline transport is given three *)
(* seconds, then one recycle of its endpoint, then one restart of the       *)
(* instance, then another recycle.                                          *)

Offline(w) ==
  CASE w.offline = "no"    -> Continue([w EXCEPT !.offline = "seen"])
    [] w.offline = "seen"  -> Continue(w)
    [] w.offline = "grace" ->
         IF ~w.recycled
         THEN Recover("disconnect", [w EXCEPT !.recycled = TRUE, !.changed = TRUE])
         ELSE IF ~w.restarted
              THEN Recover("rstop", [w EXCEPT !.restarted = TRUE, !.changed = TRUE])
              ELSE Continue(w)

Observed(a, w) ==
  IF op = "EXTERNAL" THEN Return(External(a))
  ELSE CASE a = "READY"              -> Finish("STARTED", w.changed)
         [] a = "CANCELLED"          -> Finish("CANCELLED", w.changed)
         [] a = "OFFLINE" /\ local   -> Offline(w)
         [] OTHER                    -> Continue([w EXCEPT !.offline = "no"])

(* Between two connects the loop only looks, and so it does once it has    *)
(* connected.                                                              *)
NeverEnsures(w) == FALSE                                           \* mutant
Ensures(w) == ~w.readonlyOnce /\ ~w.connected /\ ~w.cooling

WaitProbe(a) ==
  /\ pc = "wait" /\ ~expired /\ Probe(a)
  /\ LET w == [wait EXCEPT !.readonlyOnce = FALSE] IN
     IF Ensures(wait) /\ a = "ABSENT" /\ local
     THEN Recover("connect", w)
     ELSE Observed(a, w)
  /\ UNCHANGED emulator /\ Still

WaitExpires ==
  /\ pc = "wait" /\ expired
  /\ Finish("TIMEOUT", wait.changed)
  /\ UNCHANGED << emulator, flakes >> /\ Still

(* adb connect succeeds against an open port only. *)
ConnectSucceeds ==
  /\ ~cancelled /\ ~expired /\ PortOpen(emulator)
  /\ emulator' \in Connects(emulator)
  /\ IF emulator'.listed = "device" THEN UNCHANGED flakes ELSE Flake

ConnectFails(a) ==
  /\ \/ cancelled /\ a = "CANCELLED" /\ UNCHANGED flakes
     \/ ~cancelled /\ expired /\ a = "TIMEOUT" /\ UNCHANGED flakes
     \/ ~cancelled /\ ~expired /\ a \in {"FAILED", "TIMEOUT"} /\ Flake
     \/ ~cancelled /\ ~expired /\ ~PortOpen(emulator) /\ a = "FAILED" /\ UNCHANGED flakes
  /\ UNCHANGED emulator

ControlledConnect ==
  /\ pc = "connect"
  /\ \/ ConnectSucceeds /\ Goto("recheck")
     \/ \E a \in Answers : /\ ConnectFails(a)
                           /\ Observed(a, [wait EXCEPT !.cooling = TRUE])
  /\ Still

Recheck(a) ==
  /\ pc = "recheck" /\ Probe(a)
  /\ Observed(a, [wait EXCEPT !.connected = a # "ABSENT", !.cooling = a = "ABSENT"])
  /\ UNCHANGED emulator /\ Still

(* recycle_local_endpoint: disconnect the endpoint, connect it again.      *)
Disconnect ==
  /\ pc = "disconnect"
  /\ \/ cancelled /\ Finish("CANCELLED", TRUE) /\ UNCHANGED << emulator, flakes >>
     \/ ~cancelled /\ expired /\ Finish("TIMEOUT", TRUE) /\ UNCHANGED << emulator, flakes >>
     \/ /\ ~cancelled /\ ~expired
        /\ pc' = "reconnect" /\ issued' = [issued EXCEPT !.recycle = @ + 1]
        /\ \/ emulator' = [emulator EXCEPT !.listed = "absent"] /\ UNCHANGED flakes
           \/ UNCHANGED emulator /\ Flake
        /\ UNCHANGED << op, wait, result, expired >>
  /\ Still

AfterRecycle == [wait EXCEPT !.offline = "no", !.connected = FALSE,
                             !.readonlyOnce = TRUE, !.cooling = TRUE]

Reconnect ==
  /\ pc = "reconnect"
  /\ \/ ConnectSucceeds /\ Continue(AfterRecycle)
     \/ \E a \in Answers : /\ ConnectFails(a)
                           /\ IF a = "CANCELLED" \/ expired THEN Finish(a, TRUE)
                              ELSE Continue(AfterRecycle)
  /\ Still

-----------------------------------------------------------------------------
(* ensure_external_ready: a probe, and for an external instance that is    *)
(* not listed one connect and a recheck.                                   *)
EnsureExternal(a) ==
  /\ pc = "idle" /\ Probe(a)
  /\ op' = "EXTERNAL" /\ issued' = NothingIssued
  /\ IF a = "ABSENT" /\ local THEN pc' = "connect" /\ result' = NoResult
     ELSE pc' = "idle" /\ result' = External(a)
  /\ UNCHANGED << emulator, wait, expired >> /\ Still

-----------------------------------------------------------------------------
RuntimeStep ==
  \/ ManagerMissing \/ IssueCommand \/ RefuseCommand \/ CommandFails \/ CommandSucceeds
  \/ WaitExpires \/ ControlledConnect \/ Disconnect \/ Reconnect
  \/ \E a \in Answers : StartStatus(a) \/ StopStatus(a) \/ WaitStopped(a)
                         \/ WaitProbe(a) \/ Recheck(a)

Client ==
  \/ \E o \in Operations : Begin(o)
  \/ \E a \in Answers : Status(a) \/ EnsureExternal(a)

World == Boots \/ Goes \/ Crashes \/ Listing \/ Cancel \/ Expire \/ ExpireParent

Time == GracePasses \/ CoolsDown

Next == RuntimeStep \/ Client \/ World \/ Time

Spec == Init /\ [][Next]_vars

(* The calling thread goes on, and three seconds pass.  Nothing is assumed *)
(* of the deadlines.                                                       *)
FairSpec == Spec /\ WF_vars(RuntimeStep) /\ WF_vars(GracePasses) /\ WF_vars(CoolsDown)
-----------------------------------------------------------------------------
Returns == pc # "idle" /\ pc' = "idle"

(* A stop is confirmed by a closed port and nothing else: not by a device   *)
(* that the ADB server has forgotten (a socket that fails is mistaken for   *)
(* one, at the very look that fails).                                       *)
StopIsConfirmed ==
  [][(Returns /\ op = "STOP" /\ result'.status = "STOPPED")
       => ~PortOpen(emulator) \/ flakes' # flakes \/ expired]_vars

(* A start that reports no change has given no order: the Runner, which     *)
(* takes the instance over when a start succeeds or reports a change, never *)
(* leaves one behind that it launched, restarted or recycled.               *)
UnchangedMeansUntouched ==
  (pc = "idle" /\ op = "START" /\ result.action = "START" /\ ~result.changed)
    => issued = NothingIssued

(* The recovery of an offline transport in one start is bounded: at most    *)
(* one restart, and only after a recycle; at most one recycle before and    *)
(* one after it; an instance is launched once, and once more by a restart.  *)
BoundedRecovery ==
  op = "START" =>
    /\ issued.stop <= 1 /\ (issued.stop = 1 => issued.recycle >= 1)
    /\ issued.recycle <= 1 + issued.stop
    /\ issued.start <= 1 + issued.stop

(* While the instance stays up, a wait for it ends by itself: a device that *)
(* is not listed is connected again after the cooldown, an offline one      *)
(* recycled after the grace.  Two ends are left to the deadline: a device   *)
(* forgotten after it was connected, and what is wrong after a restart.     *)
Steady ==
  /\ local /\ emulator.power = "on" /\ emulator.listed # "unauthorized"
  /\ ~(wait.connected /\ emulator.listed = "absent") /\ ~wait.restarted

WaitEnds == (pc = "wait" /\ []Steady) ~> (pc = "idle")

(* mumu.py, on status and _wait_stopped: PORT_CLOSED is the evidence that   *)
(* the instance has stopped, so that a stop does not claim success while    *)
(* the VM process is still there.                                           *)
StoppedMeansDown ==
  (pc = "idle" /\ result.action = "STOP" /\ result.status = "STOPPED")
    => emulator.power = "off"
=============================================================================
