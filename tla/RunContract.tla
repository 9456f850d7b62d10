----------------------------- MODULE RunContract -----------------------------
(***************************************************************************)
(* What a run promises to the reader of its RunReport, without saying how: *)
(* the stages get one outcome each, in plan order and for good; the        *)
(* verdict is pronounced once, with the outcome of the report write as the *)
(* last entry; and it is justified by what the ledger shows.               *)
(***************************************************************************)
EXTENDS Naturals, Sequences

VARIABLES
  length,    \* stages of the plan, the report write included
  ledger,    \* the outcomes so far
  verdict    \* "RUNNING" until the end

Outcomes == {"SUCCESS", "FAILURE", "TIMEOUT", "SKIPPED", "CANCELLED"}
Shows(l, outcomes) == \E i \in 1..Len(l) : l[i] \in outcomes

Init == length \in Nat \ {0} /\ ledger = << >> /\ verdict = "RUNNING"

RecordStage(o) ==
  /\ verdict = "RUNNING" /\ Len(ledger) < length - 1
  /\ ledger' = Append(ledger, o)
  /\ UNCHANGED << length, verdict >>

(* A success shows nothing but successes and everything else something     *)
(* that was not one.  A cancelled run shows a stage that did not run to    *)
(* its end, and its report was written: a report that could not be is a    *)
(* failure whatever the stages did.                                        *)
Justified(v, l) ==
  /\ v = "SUCCESS" <=> ~Shows(l, Outcomes \ {"SUCCESS"})
  /\ v = "CANCELLED" => Shows(l, {"SKIPPED", "CANCELLED"}) /\ l[length] = "SUCCESS"

Pronounce(v, o) ==
  /\ verdict = "RUNNING" /\ Len(ledger) = length - 1
  /\ ledger' = Append(ledger, o)
  /\ Justified(v, ledger')
  /\ verdict' = v
  /\ UNCHANGED length

Next ==
  \/ \E o \in Outcomes : RecordStage(o)
  \/ \E v \in {"SUCCESS", "FAILURE", "CANCELLED"}, o \in {"SUCCESS", "FAILURE"} :
       Pronounce(v, o)

Spec == Init /\ [][Next]_<< length, ledger, verdict >>
=============================================================================
