----------------------------- MODULE PairCommit -----------------------------
(***************************************************************************)
(* What MAASynchronizer promises to whoever reads the two MAA files after  *)
(* it: a call leaves the pair it found or the pair it was to write, and    *)
(* its verdict says which.  Only a crash, or a rollback that is reported   *)
(* to have failed, leaves one new file beside an old one.                  *)
(***************************************************************************)
CONSTANTS Contents, NoFile

VARIABLES
  pair,      \* the two files, as a reader finds them between calls
  wanted,    \* what the call is to write
  phase,     \* "idle" or "busy"
  verdict    \* of the last call

vars == << pair, wanted, phase, verdict >>

Pairs  == [profile : Contents \cup {NoFile}, tasks : Contents \cup {NoFile}]
Torn   == [pair EXCEPT !.profile = wanted.profile]

Init == pair \in Pairs /\ wanted \in Pairs /\ phase = "idle" /\ verdict = "NONE"

Begin == phase = "idle" /\ phase' = "busy" /\ verdict' = "NONE" /\ UNCHANGED << pair, wanted >>

Learn == phase = "busy" /\ wanted' \in Pairs /\ UNCHANGED << pair, phase, verdict >>

Finish(v, next) ==
  /\ phase = "busy" /\ phase' = "idle"
  /\ verdict' = v /\ pair' = next
  /\ UNCHANGED wanted

(* A call interrupted after its only file was replaced stands by it.       *)
Next ==
  \/ Begin \/ Learn
  \/ Finish("COMPLETED", wanted) \/ Finish("DISABLED", pair)
  \/ \E v \in {"FAILED", "CANCELLED", "TIMEOUT"} : Finish(v, pair)
  \/ \E v \in {"CANCELLED", "TIMEOUT"} : pair.tasks = wanted.tasks /\ Finish(v, wanted)
  \/ Finish("ROLLBACK_FAILED", Torn)
  \/ \E next \in {pair, Torn, wanted} : Finish("CRASHED", next)

Spec == Init /\ [][Next]_vars
=============================================================================
