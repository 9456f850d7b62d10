--------------------------- MODULE EmulatorCalls ---------------------------
(***************************************************************************)
(* What a probe (AdbReadiness) and an operation of the adapter             *)
(* (MumuRuntime) have in common: the instance they are about, and what may *)
(* happen to a call at any moment.                                         *)
(***************************************************************************)
EXTENDS Naturals, Emulator

CONSTANT MaxFlakes   \* bound: glitches of probes, commands and transports

VARIABLES
  emulator,   \* the instance and its entry in the ADB server
  local,      \* adb_serial = host:port, with host 127.0.0.1
  flakes,     \* glitches so far
  cancelled,  \* the token is set
  expired     \* the deadline of the call has passed

Flake == flakes < MaxFlakes /\ flakes' = flakes + 1
=============================================================================
