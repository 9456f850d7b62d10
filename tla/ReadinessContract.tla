------------------------- MODULE ReadinessContract -------------------------
(***************************************************************************)
(* What MumuReadinessProbe promises to its callers: however long a probe   *)
(* takes and whatever the instance does meanwhile, the answer is one that  *)
(* the instance justifies at the moment it is given; and ensure_ready      *)
(* connects at most once, after the exact local device was not listed.     *)
(***************************************************************************)
EXTENDS Emulator

VARIABLES
  emulator,  \* the instance
  kind,      \* "probe" or "ensure": the call
  phase,     \* "idle", "looking", "connecting" or "rechecking"
  answer,    \* what the last call returned
  local,     \* the expected serial is exactly 127.0.0.1:port
  stopped    \* the token is cancelled or the deadline has expired

vars == << emulator, kind, phase, answer, local, stopped >>

Init ==
  /\ emulator \in Devices /\ kind = "probe" /\ phase = "idle"
  /\ answer = "FAILED" /\ local \in BOOLEAN /\ stopped = FALSE

World ==
  /\ emulator' \in Devices /\ stopped' \in BOOLEAN
  /\ UNCHANGED << kind, phase, answer, local >>

Ask ==
  /\ phase = "idle" /\ phase' = "looking"
  /\ kind' \in {"probe", "ensure"}
  /\ UNCHANGED << emulator, answer, local, stopped >>

Return(a) == phase' = "idle" /\ answer' = a /\ UNCHANGED << emulator, kind, local, stopped >>

Look ==
  /\ phase \in {"looking", "rechecking"}
  /\ \/ \E a \in MayAnswer(emulator) : Return(a)
     \/ stopped /\ \E a \in {"CANCELLED", "TIMEOUT"} : Return(a)

Connect ==
  /\ phase = "looking" /\ kind = "ensure" /\ local /\ ~stopped
  /\ "ABSENT" \in MayAnswer(emulator)
  /\ phase' = "connecting"
  /\ UNCHANGED << emulator, kind, answer, local, stopped >>

Connected ==
  /\ phase = "connecting"
  /\ \/ /\ phase' = "rechecking" /\ PortOpen(emulator)
        /\ emulator' \in Connects(emulator) \cup {emulator}
        /\ UNCHANGED << kind, answer, local, stopped >>
     \/ Return("FAILED") \/ Return("TIMEOUT")
     \/ stopped /\ Return("CANCELLED")

Next == World \/ Ask \/ Look \/ Connect \/ Connected
Spec == Init /\ [][Next]_vars
=============================================================================
