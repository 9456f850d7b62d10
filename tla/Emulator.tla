------------------------------ MODULE Emulator ------------------------------
(***************************************************************************)
(* The MuMu instance, and its entry in the host's ADB server, as far as    *)
(* the probes can tell.  An instance that has just been launched runs      *)
(* before its ADB port opens ("starting"); one that was told to shut down  *)
(* answers until it is gone ("stopping").  The ADB server may still list   *)
(* an instance that is gone, and may have forgotten one that runs.         *)
(***************************************************************************)

Powers   == {"off", "starting", "booting", "on", "stopping"}
Listings == {"absent", "offline", "unauthorized", "device"}
Devices  == [power : Powers, listed : Listings]

PortOpen(d) == d.power \in {"booting", "on", "stopping"}
Booted(d)   == d.power \in {"on", "stopping"}

(* What a readiness probe says: its status, error code and step in one.    *)
(* ABSENT is DEVICE_NOT_FOUND of select_device, NOT_DEVICE that of         *)
(* adb_get_state; SOCKET_ERROR carries the error code PORT_CLOSED.         *)
Clean   == {"PORT_CLOSED", "ABSENT", "OFFLINE", "UNAUTHORIZED", "NOT_BOOTED", "READY"}
Glitch  == {"SOCKET_ERROR", "NOT_DEVICE", "FAILED", "TIMEOUT"}
Answers == Clean \cup Glitch \cup {"CANCELLED"}

(* select_adb_device for the expected serial. *)
Selected(d) ==
  CASE d.listed = "absent"       -> "ABSENT"
    [] d.listed = "offline"      -> "OFFLINE"
    [] d.listed = "unauthorized" -> "UNAUTHORIZED"
    [] d.listed = "device"       -> "DEVICE"

(* The answer when nothing moves and nothing fails. *)
Reading(d) ==
  IF ~PortOpen(d) THEN "PORT_CLOSED"
  ELSE IF d.listed # "device" THEN Selected(d)
  ELSE IF Booted(d) THEN "READY" ELSE "NOT_BOOTED"

(* The answers a probe may give at the moment it gives them: an error is   *)
(* always possible, and only the port and the device list can be stale.    *)
MayAnswer(d) ==
  {"SOCKET_ERROR", "FAILED", "TIMEOUT", Reading(d)}
    \cup (IF d.listed # "device" THEN {Selected(d), "NOT_DEVICE"} ELSE {})

(* adb connect against an open port registers the device. *)
Connects(d) == {[d EXCEPT !.listed = l] : l \in {"device", "offline", "unauthorized"}}
=============================================================================
