---------------------------- MODULE AdbReadiness ----------------------------
(***************************************************************************)
(* MumuReadinessProbe.probe and ensure_ready over AdbClient, command by    *)
(* command, while the instance boots, crashes or shuts down, the ADB       *)
(* server dies and forgets its devices, the transport goes offline, the    *)
(* token is cancelled and the deadline passes.  Each call has a client of  *)
(* its own, as MumuAdapter gives it one.                                   *)
(***************************************************************************)
EXTENDS EmulatorCalls

VARIABLES
  server,    \* a resident ADB server runs
  ensured,   \* AdbClient._server_ensured
  kind,      \* the call: "probe" or "ensure"
  command,   \* its next command
  rechecking,\* the readonly recheck after a connect
  connects,  \* history: connect commands issued by the call
  answer     \* what the last call returned

probeCall == << kind, command, rechecking, connects, answer >>
world == << emulator, server, cancelled, expired >>
probeVars == << world, ensured, local, probeCall, flakes >>

ProbeInit ==
  /\ emulator \in [power : {"off", "starting", "on"}, listed : {"absent", "device"}]
  /\ server \in BOOLEAN
  /\ ~server => emulator.listed = "absent"
  /\ ensured = FALSE /\ local \in BOOLEAN
  /\ kind = "probe" /\ command = "idle" /\ rechecking = FALSE /\ connects = 0
  /\ answer = "FAILED" /\ flakes = 0 /\ cancelled = FALSE /\ expired = FALSE

-----------------------------------------------------------------------------
(* The world moves. *)
PowerChange(from, to) ==
  /\ emulator.power \in from /\ emulator' = [emulator EXCEPT !.power = to]
  /\ UNCHANGED << server, ensured, local, probeCall, flakes, cancelled, expired >>

ComesUp   == PowerChange({"starting"}, "booting") \/ PowerChange({"booting"}, "on")
ShutsDown == PowerChange({"on"}, "stopping") \/ PowerChange({"stopping", "on"}, "off")

TransportLost ==
  /\ Flake /\ emulator.listed = "device"
  /\ \E l \in {"offline", "unauthorized"} : emulator' = [emulator EXCEPT !.listed = l]
  /\ UNCHANGED << server, ensured, local, probeCall, cancelled, expired >>

TransportBack ==
  /\ emulator.listed = "offline" /\ PortOpen(emulator)
  /\ emulator' = [emulator EXCEPT !.listed = "device"]
  /\ UNCHANGED << server, ensured, local, probeCall, flakes, cancelled, expired >>

ServerDies ==
  /\ Flake /\ server /\ server' = FALSE
  /\ emulator' = [emulator EXCEPT !.listed = "absent"]
  /\ UNCHANGED << ensured, local, probeCall, cancelled, expired >>

TokenSet ==
  /\ ~cancelled /\ cancelled' = TRUE
  /\ UNCHANGED << emulator, server, ensured, local, probeCall, flakes, expired >>

DeadlinePasses ==
  /\ ~expired /\ expired' = TRUE
  /\ UNCHANGED << emulator, server, ensured, local, probeCall, flakes, cancelled >>

-----------------------------------------------------------------------------
Ask(k) ==
  /\ command = "idle"
  /\ kind' = k /\ command' = "check" /\ rechecking' = FALSE /\ connects' = 0
  /\ ensured' = FALSE
  /\ UNCHANGED << world, local, answer, flakes >>

(* _connect_is_allowed *)
ConnectsWhenNotReady(a) ==                                         \* mutant
  /\ kind = "ensure" /\ ~rechecking /\ local /\ a # "READY"
  /\ ~cancelled /\ ~expired

ConnectIsAllowed(a) ==
  /\ kind = "ensure" /\ ~rechecking /\ local /\ a = "ABSENT"
  /\ ~cancelled /\ ~expired

(* The end of a look: of the call, or of ensure_ready's first probe.       *)
Answer(a) ==
  /\ IF ConnectIsAllowed(a) THEN command' = "connect" /\ UNCHANGED answer
     ELSE command' = "idle" /\ answer' = a
  /\ UNCHANGED << world, ensured, local, kind, rechecking, connects >>

Proceed(next) == /\ command' = next
                 /\ UNCHANGED << world, ensured, local, kind, rechecking, connects, answer >>

(* The checks before a command: the token first, then the deadline.        *)
Interrupted ==
  /\ cancelled \/ expired
  /\ Answer(IF cancelled THEN "CANCELLED" ELSE "TIMEOUT")
  /\ UNCHANGED flakes

AdbCommandFails == Flake /\ \E a \in {"FAILED", "TIMEOUT"} : Answer(a)

CheckBeforeTcp ==
  /\ command = "check"
  /\ \/ Interrupted
     \/ ~cancelled /\ ~expired /\ Proceed("tcp") /\ UNCHANGED flakes

(* probe_tcp_endpoint.  A deadline that passes between the check and the   *)
(* connect leaves a zero timeout, which makes the socket fail.             *)
TcpProbe ==
  /\ command = "tcp"
  /\ \/ expired /\ Answer("SOCKET_ERROR") /\ UNCHANGED flakes
     \/ /\ ~expired /\ UNCHANGED flakes
        /\ IF PortOpen(emulator) THEN Proceed("server") ELSE Answer("PORT_CLOSED")
     \/ Flake /\ \E a \in {"SOCKET_ERROR", "TIMEOUT"} : Answer(a)

(* ensure_server leaves a resident server, once per client; its failure is *)
(* left to the next command to report.                                     *)
ServerInJob(ok) == UNCHANGED << server, ensured >>                 \* mutant

StartServer(ok) ==
  IF ensured \/ ~ok THEN UNCHANGED << server, ensured >>
  ELSE server' = TRUE /\ ensured' = TRUE

EnsureServer ==
  /\ command = "server"
  /\ \/ Interrupted
     \/ /\ ~cancelled /\ ~expired
        /\ \E ok \in BOOLEAN :
             /\ StartServer(ok)
             /\ IF ok THEN UNCHANGED flakes ELSE Flake
        /\ command' = "devices"
        /\ UNCHANGED << emulator, local, kind, rechecking, connects, answer,
                        cancelled, expired >>

(* Without a resident server a command starts one for itself, which knows  *)
(* no devices: listed is "absent" then.                                    *)
ListDevices ==
  /\ command = "devices"
  /\ \/ Interrupted
     \/ /\ ~cancelled /\ ~expired
        /\ \/ AdbCommandFails
           \/ /\ UNCHANGED flakes
              /\ IF emulator.listed = "device" THEN Proceed("get_state")
                 ELSE Answer(Selected(emulator))

GetState ==
  /\ command = "get_state"
  /\ \/ Interrupted
     \/ /\ ~cancelled /\ ~expired
        /\ \/ AdbCommandFails
           \/ emulator.listed = "device" /\ Proceed("boot") /\ UNCHANGED flakes
           \/ /\ emulator.listed # "device" /\ UNCHANGED flakes
              /\ \E a \in {"NOT_DEVICE", "FAILED"} : Answer(a)

(* getprop sys.boot_completed runs in the instance. *)
BootIsReady == IF emulator.listed = "device" THEN "READY" ELSE "FAILED"  \* mutant
BootAnswer ==
  IF emulator.listed # "device" \/ ~PortOpen(emulator) THEN "FAILED"
  ELSE IF Booted(emulator) THEN "READY" ELSE "NOT_BOOTED"

GetBootCompleted ==
  /\ command = "boot"
  /\ \/ Interrupted
     \/ /\ ~cancelled /\ ~expired
        /\ \/ AdbCommandFails
           \/ Answer(BootAnswer) /\ UNCHANGED flakes

-----------------------------------------------------------------------------
(* AdbClient.connect, after ensure_server once more.  What it registers    *)
(* lives in the server's memory: it is lost if the server is not resident. *)
ConnectDevice ==
  /\ command = "connect" /\ ~cancelled /\ ~expired
  /\ \E ok \in BOOLEAN : StartServer(ok) /\ (IF ok THEN UNCHANGED flakes ELSE Flake)
  /\ connects' = connects + 1
  /\ \/ /\ PortOpen(emulator)
        /\ command' = "check" /\ rechecking' = TRUE /\ UNCHANGED answer
        /\ emulator' = IF server' THEN [emulator EXCEPT !.listed = "device"] ELSE emulator
     \/ /\ ~PortOpen(emulator)
        /\ command' = "idle" /\ answer' = "FAILED"
        /\ UNCHANGED << emulator, rechecking >>
  /\ UNCHANGED << local, kind, cancelled, expired >>

ConnectGivesUp ==
  /\ command = "connect" /\ command' = "idle"
  /\ \/ cancelled /\ answer' = "CANCELLED" /\ UNCHANGED << connects, flakes >>
     \/ ~cancelled /\ expired /\ answer' = "TIMEOUT" /\ UNCHANGED << connects, flakes >>
     \/ /\ ~cancelled /\ ~expired /\ Flake
        /\ answer' \in {"FAILED", "TIMEOUT"} /\ connects' = connects + 1
  /\ UNCHANGED << world, ensured, local, kind, rechecking >>

-----------------------------------------------------------------------------
ProbeStep ==
  \/ CheckBeforeTcp \/ TcpProbe \/ EnsureServer \/ ListDevices
  \/ GetState \/ GetBootCompleted \/ ConnectDevice \/ ConnectGivesUp

Surroundings == ComesUp \/ ShutsDown \/ TransportLost \/ TransportBack \/ ServerDies
                \/ TokenSet \/ DeadlinePasses

ProbeNext == ProbeStep \/ Surroundings \/ \E k \in {"probe", "ensure"} : Ask(k)

ProbeSpec == ProbeInit /\ [][ProbeNext]_probeVars

(* The calling thread goes on to the next command.                         *)
FairProbeSpec == ProbeSpec /\ WF_probeVars(ProbeStep)
-----------------------------------------------------------------------------
(* A probe, whatever moves between its commands, answers as one look at     *)
(* the instance at the end of the call would; ensure_ready is two such      *)
(* looks with at most one connect between them, and only when the exact     *)
(* local device was not listed at all.                                      *)
Phase ==
  CASE command = "idle"    -> "idle"
    [] command = "connect" -> "connecting"
    [] OTHER          -> IF rechecking THEN "rechecking" ELSE "looking"

Contract == INSTANCE ReadinessContract
              WITH phase <- Phase, stopped <- cancelled \/ expired

AnswersAtomically == Contract!Spec

(* When nothing fails any more, one ensure_ready brings a booted instance   *)
(* that the ADB server has forgotten back to READY.                         *)
Undisturbed ==
  /\ flakes = MaxFlakes /\ ~cancelled /\ ~expired
  /\ emulator.power = "on" /\ emulator.listed \in {"absent", "device"}

EnsureReconnects ==
  (command = "check" /\ ~rechecking /\ kind = "ensure" /\ local /\ []Undisturbed)
    ~> (answer = "READY" /\ command = "idle")
=============================================================================
