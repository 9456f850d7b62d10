---------------------------- MODULE BetterGIProofs ----------------------------
(***************************************************************************)
(* Proofs about BetterGIRun for every number of events and faults.  What   *)
(* the reader knows is tied to what the tool did in three steps: the logs  *)
(* hold the tool's history (History), the evidence is what the part of the *)
(* logs before the cursors says (Reading), and a verdict is given after an *)
(* exit, when the cursors have passed everything (Verdict).                *)
(***************************************************************************)
EXTENDS BetterGIRun, TLAPS

Lines == Headers \cup Bodies

(* Line i of log f is a header of the launched instance; with body b.      *)
Opened(f, i) == i \in 1..Len(logs[f]) /\ logs[f][i] = "mine"

Mine(f, i, b) == Opened(f, i) /\ i < Len(logs[f]) /\ logs[f][i + 1] = b

LogTypes ==
  /\ logs \in [Files -> Seq(Lines)] /\ current \in Files
  /\ wrote \in Seq(Bodies) /\ rotated \in BOOLEAN

InOneLog == \E f \in Files : \E i, j \in Nat :
              i < j /\ Mine(f, i, "enable") /\ Mine(f, j, "end")

History ==
  /\ LogTypes
  /\ \A f \in Files : logs[f] # << >> => logs[f][Len(logs[f])] # "foreign"
  /\ root = "absent" => wrote = << >> /\ \A f \in Files : \A i \in Nat : ~Opened(f, i)
  /\ \A b \in Bodies : Wrote(b) <=> \E f \in Files : \E i \in Nat : Mine(f, i, b)
  /\ InOneLog => InOrder
  /\ InOrder => rotated \/ InOneLog
  /\ \A f \in Files : \A i \in Nat : \A b \in Bodies :
       Mine(f, i, b) /\ f # current => rotated
  /\ current = "day1" => logs["day2"] = << >> /\ ~rotated

-----------------------------------------------------------------------------
(* Writing appends: the lines that are there stay what they are. *)
LEMMA PutFacts ==
  ASSUME LogTypes, NEW lines \in Seq(Lines), Put(lines)
  PROVE  /\ logs' \in [Files -> Seq(Lines)]
         /\ \A f \in Files : /\ Len(logs[f]) \in Nat
                             /\ \A i \in 1..Len(logs[f]) : logs'[f][i] = logs[f][i]
         /\ \A f \in Files \ {current} : logs'[f] = logs[f]
         /\ Len(logs'[current]) = Len(logs[current]) + Len(lines)
         /\ \A k \in 1..Len(lines) : logs'[current][Len(logs[current]) + k] = lines[k]
<1>1. /\ current \in Files /\ logs \in [Files -> Seq(Lines)]
      /\ logs' = [logs EXCEPT ![current] = logs[current] \o lines]
  BY DEF LogTypes, Put
<1>2. logs[current] \in Seq(Lines)
  BY <1>1
<1>3. logs'[current] = logs[current] \o lines /\ logs[current] \o lines \in Seq(Lines)
  BY <1>1, <1>2
<1>4. /\ Len(logs'[current]) = Len(logs[current]) + Len(lines)
      /\ \A i \in 1..Len(logs[current]) : logs'[current][i] = logs[current][i]
      /\ \A k \in 1..Len(lines) : logs'[current][Len(logs[current]) + k] = lines[k]
  BY <1>2, <1>3
<1>5. \A f \in Files \ {current} : logs'[f] = logs[f]
  BY <1>1
<1>6. \A f \in Files : Len(logs[f]) \in Nat
  BY <1>1
<1> QED
  BY <1>1, <1>3, <1>4, <1>5, <1>6

LEMMA BodyPut ==
  ASSUME LogTypes, InEvent, \A f \in Files : logs[f] # << >> => logs[f][Len(logs[f])] # "foreign",
         NEW b \in Bodies, Put(<< b >>)
  PROVE  /\ logs' \in [Files -> Seq(Lines)]
         /\ \A f \in Files : \A i \in Nat : Opened(f, i)' <=> Opened(f, i)
         /\ \A f \in Files : \A i \in Nat : \A c \in Bodies :
              Mine(f, i, c)' <=> Mine(f, i, c) \/ (f = current /\ i = Len(logs[f]) /\ c = b)
         /\ \A f \in Files : logs'[f] # << >> => logs'[f][Len(logs'[f])] # "foreign"
         /\ Opened(current, Len(logs[current]))
         /\ Len(logs[current]) \in Nat /\ Len(logs'[current]) = Len(logs[current]) + 1
<1> DEFINE n     == Len(logs[current])
           lines == << b >>
<1>1. lines \in Seq(Lines) /\ Len(lines) = 1 /\ lines[1] = b
  BY DEF Lines
<1>2. /\ logs' \in [Files -> Seq(Lines)] /\ current \in Files
      /\ \A f \in Files : /\ Len(logs[f]) \in Nat
                          /\ \A i \in 1..Len(logs[f]) : logs'[f][i] = logs[f][i]
      /\ \A f \in Files \ {current} : logs'[f] = logs[f]
      /\ Len(logs'[current]) = n + 1
      /\ logs'[current][n + 1] = b
  <2> HIDE DEF lines
  <2>1. Put(lines)
    BY DEF lines
  <2>2. 1 \in 1..Len(lines)
    BY <1>1
  <2> QED
    BY <1>1, <2>1, <2>2, PutFacts DEF LogTypes
<1>3. n >= 1 /\ logs[current][n] = "mine"
  BY <1>2 DEF InEvent, Headers, LogTypes
<1>4. b # "mine" /\ b # "foreign"
  BY DEF Bodies
<1>5. ASSUME NEW f \in Files, NEW i \in Nat
      PROVE  /\ Opened(f, i)' <=> Opened(f, i)
             /\ \A c \in Bodies :
                  Mine(f, i, c)' <=> Mine(f, i, c) \/ (f = current /\ i = Len(logs[f]) /\ c = b)
             /\ logs'[f] # << >> => logs'[f][Len(logs'[f])] # "foreign"
  <2>1. CASE f = current
    BY <1>2, <1>3, <1>4, <2>1 DEF Opened, Mine
  <2>2. CASE f # current
    BY <1>2, <2>2 DEF Opened, Mine
  <2> QED
    BY <2>1, <2>2
<1> QED
  BY <1>2, <1>3, <1>5 DEF Opened

LEMMA HeaderPut ==
  ASSUME LogTypes, ~InEvent, Put(<< "mine" >>)
  PROVE  /\ logs' \in [Files -> Seq(Lines)]
         /\ \A f \in Files : \A i \in Nat : Opened(f, i)' <=>
              Opened(f, i) \/ (f = current /\ i = Len(logs[f]) + 1)
         /\ \A f \in Files : \A i \in Nat : \A c \in Bodies : Mine(f, i, c)' <=> Mine(f, i, c)
         /\ logs'[current][Len(logs'[current])] # "foreign"
         /\ Len(logs[current]) \in Nat /\ Len(logs'[current]) = Len(logs[current]) + 1
         /\ \A f \in Files \ {current} : logs'[f] = logs[f]
<1> DEFINE n     == Len(logs[current])
           lines == << "mine" >>
<1>1. lines \in Seq(Lines) /\ Len(lines) = 1 /\ lines[1] = "mine"
  BY DEF Lines, Headers
<1>2. /\ logs' \in [Files -> Seq(Lines)] /\ current \in Files
      /\ \A f \in Files : /\ Len(logs[f]) \in Nat
                          /\ \A i \in 1..Len(logs[f]) : logs'[f][i] = logs[f][i]
      /\ \A f \in Files \ {current} : logs'[f] = logs[f]
      /\ Len(logs'[current]) = n + 1
      /\ logs'[current][n + 1] = "mine"
  <2> HIDE DEF lines
  <2>1. Put(lines)
    BY DEF lines
  <2>2. 1 \in 1..Len(lines)
    BY <1>1
  <2> QED
    BY <1>1, <2>1, <2>2, PutFacts DEF LogTypes
<1>3. n = 0 \/ logs[current][n] # "mine"
  BY <1>2 DEF InEvent, Headers, LogTypes
<1>4. ASSUME NEW f \in Files, NEW i \in Nat
      PROVE  /\ Opened(f, i)' <=> Opened(f, i) \/ (f = current /\ i = Len(logs[f]) + 1)
             /\ \A c \in Bodies : Mine(f, i, c)' <=> Mine(f, i, c)
  <2>1. CASE f = current
    <3>1. Opened(f, i)' <=> Opened(f, i) \/ i = n + 1
      BY <1>2, <2>1 DEF Opened
    <3>2. CASE i < n
      BY <1>2, <2>1, <3>1, <3>2 DEF Opened, Mine
    <3>3. CASE i >= n
      <4>1. ~(Opened(f, i)' /\ i < n + 1) /\ ~(i < n)
        BY <1>2, <1>3, <2>1, <3>1, <3>3 DEF Opened
      <4> QED
        BY <1>2, <2>1, <3>1, <4>1 DEF Mine
    <3> QED
      BY <1>2, <3>2, <3>3
  <2>2. CASE f # current
    BY <1>2, <2>2 DEF Opened, Mine
  <2> QED
    BY <2>1, <2>2
<1> QED
  BY <1>2, <1>4

LEMMA ForeignPut ==
  ASSUME LogTypes, ~InEvent, NEW b \in Bodies, Put(<< "foreign", b >>)
  PROVE  /\ logs' \in [Files -> Seq(Lines)]
         /\ \A f \in Files : \A i \in Nat : Opened(f, i)' <=> Opened(f, i)
         /\ \A f \in Files : \A i \in Nat : \A c \in Bodies : Mine(f, i, c)' <=> Mine(f, i, c)
         /\ logs'[current][Len(logs'[current])] # "foreign"
         /\ Len(logs[current]) \in Nat /\ Len(logs'[current]) = Len(logs[current]) + 2
         /\ \A f \in Files \ {current} : logs'[f] = logs[f]
<1> DEFINE n     == Len(logs[current])
           lines == << "foreign", b >>
<1>1. lines \in Seq(Lines) /\ Len(lines) = 2 /\ lines[1] = "foreign" /\ lines[2] = b
  BY DEF Lines, Headers
<1>2. /\ logs' \in [Files -> Seq(Lines)] /\ current \in Files
      /\ \A f \in Files : /\ Len(logs[f]) \in Nat
                          /\ \A i \in 1..Len(logs[f]) : logs'[f][i] = logs[f][i]
      /\ \A f \in Files \ {current} : logs'[f] = logs[f]
      /\ Len(logs'[current]) = n + 2
      /\ logs'[current][n + 1] = "foreign" /\ logs'[current][n + 2] = b
  <2> HIDE DEF lines
  <2>1. Put(lines)
    BY DEF lines
  <2>2. 1 \in 1..Len(lines) /\ 2 \in 1..Len(lines)
    BY <1>1
  <2> QED
    BY <1>1, <2>1, <2>2, PutFacts DEF LogTypes
<1>3. n = 0 \/ logs[current][n] # "mine"
  BY <1>2 DEF InEvent, Headers, LogTypes
<1>4. b # "mine" /\ b # "foreign"
  BY DEF Bodies
<1>5. ASSUME NEW f \in Files, NEW i \in Nat
      PROVE  /\ Opened(f, i)' <=> Opened(f, i)
             /\ \A c \in Bodies : Mine(f, i, c)' <=> Mine(f, i, c)
  <2>1. CASE f = current
    <3>1. Opened(f, i)' <=> Opened(f, i)
      BY <1>2, <1>4, <2>1 DEF Opened
    <3>2. CASE i < n
      <4>1. CASE i = 0
        BY <4>1 DEF Opened, Mine
      <4>2. CASE i # 0
        <5>1. /\ i + 1 \in 1..Len(logs[f])
              /\ i < Len(logs[f]) /\ i < Len(logs'[f])
          BY <1>2, <2>1, <3>2, <4>2
        <5>2. logs'[f][i + 1] = logs[f][i + 1]
          BY <1>2, <5>1
        <5> QED
          BY <3>1, <5>1, <5>2 DEF Mine
      <4> QED
        BY <4>1, <4>2
    <3>3. CASE i >= n
      <4>1. ~Opened(f, i)' /\ ~Opened(f, i)
        BY <1>2, <1>3, <2>1, <3>1, <3>3 DEF Opened
      <4> QED
        BY <4>1 DEF Mine
    <3> QED
      BY <1>2, <3>2, <3>3
  <2>2. CASE f # current
    BY <1>2, <2>2 DEF Opened, Mine
  <2> QED
    BY <2>1, <2>2
<1> QED
  BY <1>2, <1>4, <1>5

(* A complete event extends the history by its body. *)
LEMMA HistoryGrows ==
  ASSUME wrote \in Seq(Bodies), NEW b \in Bodies, wrote' = Append(wrote, b)
  PROVE  /\ wrote' \in Seq(Bodies)
         /\ \A c \in Bodies : Wrote(c)' <=> Wrote(c) \/ c = b
         /\ InOrder' <=> InOrder \/ (b = "end" /\ Wrote("enable"))
<1>1. /\ wrote' \in Seq(Bodies) /\ Len(wrote) \in Nat /\ Len(wrote') = Len(wrote) + 1
      /\ \A i \in 1..Len(wrote) : wrote'[i] = wrote[i]
      /\ wrote'[Len(wrote) + 1] = b
      /\ DOMAIN wrote = 1..Len(wrote) /\ DOMAIN wrote' = 1..(Len(wrote) + 1)
  OBVIOUS
<1>2. \A c \in Bodies : Wrote(c)' <=> Wrote(c) \/ c = b
  BY <1>1 DEF Wrote
<1>3. InOrder' <=> InOrder \/ (b = "end" /\ Wrote("enable"))
  BY <1>1 DEF Wrote, InOrder
<1> QED
  BY <1>1, <1>2, <1>3
-----------------------------------------------------------------------------
(* History is an invariant. *)
LEMMA InitHistory == Init => History
<1> SUFFICES ASSUME Init
             PROVE  History
  OBVIOUS
<1>1. /\ logs["day1"] = << "foreign", "enable", "foreign", "end" >>
      /\ logs["day2"] = << >>
      /\ Files = {"day1", "day2"}
  BY DEF Init, Files
<1>2. LogTypes
  <2>1. /\ << "foreign", "enable", "foreign", "end" >> \in Seq(Lines)
        /\ << >> \in Seq(Lines) /\ << >> \in Seq(Bodies)
    BY DEF Lines, Headers, Bodies
  <2>2. logs \in [Files -> Seq(Lines)]
    BY <2>1 DEF Init
  <2> QED
    BY <2>1, <2>2 DEF Init, LogTypes, Files
<1>3. \A f \in Files : \A i \in Nat : ~Opened(f, i)
  <2>1. \A i \in Nat : ~Opened("day1", i)
    BY <1>1 DEF Opened
  <2>2. \A i \in Nat : ~Opened("day2", i)
    BY <1>1 DEF Opened
  <2> QED
    BY <1>1, <2>1, <2>2
<1>5. \A f \in Files : logs[f] # << >> => logs[f][Len(logs[f])] # "foreign"
  <2>1. logs["day1"][Len(logs["day1"])] # "foreign"
    BY <1>1
  <2> QED
    BY <1>1, <2>1
<1>4. ~InOrder /\ \A b \in Bodies : ~Wrote(b)
  BY DEF Init, Wrote, InOrder
<1> QED
  BY <1>1, <1>2, <1>3, <1>4, <1>5 DEF Init, History, Mine, InOneLog

LEMMA ToolWritesHistory ==
  ASSUME History, ToolWrites
  PROVE  History'
<1>1. CASE InEvent /\ \E b \in Bodies : Put(<< b >>) /\ wrote' = Append(wrote, b)
  <2>1. PICK b \in Bodies : Put(<< b >>) /\ wrote' = Append(wrote, b)
    BY <1>1
  <2> DEFINE n == Len(logs[current])
  <2>2. /\ logs' \in [Files -> Seq(Lines)]
        /\ \A f \in Files : \A i \in Nat : Opened(f, i)' <=> Opened(f, i)
        /\ \A f \in Files : \A i \in Nat : \A c \in Bodies :
             Mine(f, i, c)' <=> Mine(f, i, c) \/ (f = current /\ i = n /\ c = b)
        /\ \A f \in Files : logs'[f] # << >> => logs'[f][Len(logs'[f])] # "foreign"
        /\ Opened(current, n) /\ n \in Nat
    BY <1>1, <2>1, BodyPut DEF History
  <2>3. /\ wrote' \in Seq(Bodies)
        /\ \A c \in Bodies : Wrote(c)' <=> Wrote(c) \/ c = b
        /\ InOrder' <=> InOrder \/ (b = "end" /\ Wrote("enable"))
    BY <2>1, HistoryGrows DEF History, LogTypes
  <2>4. UNCHANGED << current, rotated, root >> /\ root = "running" /\ current \in Files
    BY DEF ToolWrites, tree, History, LogTypes
  <2>5. \A b2 \in Bodies : Wrote(b2)' <=> \E f \in Files : \E i \in Nat : Mine(f, i, b2)'
    BY <2>2, <2>3, <2>4 DEF History
  <2>6. InOneLog' => InOrder'
    <3> SUFFICES ASSUME NEW f \in Files, NEW i \in Nat, NEW j \in Nat, i < j,
                        Mine(f, i, "enable")', Mine(f, j, "end")'
                 PROVE  InOrder'
      BY DEF InOneLog
    <3>1. CASE Mine(f, i, "enable") /\ Mine(f, j, "end")
      BY <2>3, <3>1 DEF InOneLog, History
    <3>2. CASE Mine(f, i, "enable") /\ ~Mine(f, j, "end")
      BY <2>2, <2>3, <3>2 DEF History, Bodies
    <3>3. CASE ~Mine(f, i, "enable")
      <4>1. f = current /\ i = n /\ b = "enable" /\ Mine(f, j, "end")
        BY <2>2, <3>3 DEF Bodies
      <4>2. j < n
        BY <2>2, <4>1 DEF Mine, Opened
      <4> QED
        BY <2>2, <4>1, <4>2
    <3> QED
      BY <3>1, <3>2, <3>3
  <2>7. InOrder' => rotated' \/ InOneLog'
    <3>1. CASE InOrder
      BY <2>2, <2>4, <3>1 DEF History, InOneLog, Bodies
    <3>2. CASE b = "end" /\ Wrote("enable")
      <4>1. PICK f \in Files, i \in Nat : Mine(f, i, "enable")
        BY <3>2 DEF History, Bodies
      <4>2. CASE f = current
        <5>1. i < n
          BY <2>2, <4>1, <4>2 DEF Mine
        <5> QED
          BY <2>2, <3>2, <4>1, <4>2, <5>1 DEF InOneLog, Bodies
      <4>3. CASE f # current
        BY <2>4, <4>1, <4>3 DEF History, Bodies
      <4> QED
        BY <4>2, <4>3
    <3> QED
      BY <2>3, <3>1, <3>2
  <2>8. current = "day1" => logs'["day2"] = << >> /\ ~rotated
    BY <2>1, <2>2, <2>4 DEF History, LogTypes, Put, Files
  <2> QED
    BY <2>2, <2>3, <2>4, <2>5, <2>6, <2>7, <2>8 DEF History, LogTypes
<1>2. CASE ~InEvent /\ Put(<< "mine" >>) /\ UNCHANGED wrote
  <2>1. /\ logs' \in [Files -> Seq(Lines)]
        /\ \A f \in Files : \A i \in Nat : \A c \in Bodies : Mine(f, i, c)' <=> Mine(f, i, c)
        /\ logs'[current][Len(logs'[current])] # "foreign"
        /\ \A f \in Files \ {current} : logs'[f] = logs[f]
    BY <1>2, HeaderPut DEF History
  <2>2. UNCHANGED << current, rotated, root, wrote >> /\ root = "running" /\ current \in Files
    BY <1>2 DEF ToolWrites, tree, History, LogTypes
  <2>3. /\ \A b \in Bodies : Wrote(b)' <=> Wrote(b)
        /\ InOrder' <=> InOrder
        /\ InOneLog' <=> InOneLog
    BY <2>1, <2>2 DEF Wrote, InOrder, InOneLog, Bodies
  <2>4. current = "day1" => logs'["day2"] = << >> /\ ~rotated
    BY <2>1, <2>2 DEF History, Files
  <2> QED
    BY <2>1, <2>2, <2>3, <2>4 DEF History, LogTypes
<1> QED
  BY <1>1, <1>2 DEF ToolWrites

LEMMA ForeignHistory ==
  ASSUME History, Foreign
  PROVE  History'
<1>1. PICK b \in Bodies : Put(<< "foreign", b >>)
  BY DEF Foreign, Bodies
<1>2. /\ logs' \in [Files -> Seq(Lines)]
      /\ \A f \in Files : \A i \in Nat : Opened(f, i)' <=> Opened(f, i)
      /\ \A f \in Files : \A i \in Nat : \A c \in Bodies : Mine(f, i, c)' <=> Mine(f, i, c)
      /\ logs'[current][Len(logs'[current])] # "foreign"
      /\ \A f \in Files \ {current} : logs'[f] = logs[f]
  BY <1>1, ForeignPut DEF History, Foreign
<1>3. UNCHANGED << current, rotated, root, wrote >> /\ current \in Files
  BY DEF Foreign, tree, History, LogTypes
<1>4. /\ \A b2 \in Bodies : Wrote(b2)' <=> Wrote(b2)
      /\ InOrder' <=> InOrder
      /\ InOneLog' <=> InOneLog
  BY <1>2, <1>3 DEF Wrote, InOrder, InOneLog, Bodies
<1>5. current = "day1" => logs'["day2"] = << >> /\ ~rotated
  BY <1>2, <1>3 DEF History, Files
<1> QED
  BY <1>2, <1>3, <1>4, <1>5 DEF History, LogTypes

LEMMA MidnightHistory ==
  ASSUME History, Midnight
  PROVE  History'
<1>1. /\ current = "day1" /\ current' = "day2" /\ rotated' = (wrote # << >>)
      /\ UNCHANGED << logs, wrote, root >>
  BY DEF Midnight, tree
<1>2. /\ \A f \in Files : \A i \in Nat : Opened(f, i)' <=> Opened(f, i)
      /\ \A f \in Files : \A i \in Nat : \A c \in Bodies : Mine(f, i, c)' <=> Mine(f, i, c)
      /\ \A b \in Bodies : Wrote(b)' <=> Wrote(b)
      /\ InOrder' <=> InOrder
      /\ InOneLog' <=> InOneLog
  BY <1>1 DEF Opened, Mine, Wrote, InOrder, InOneLog
<1>3. \A b \in Bodies : Wrote(b) => rotated'
  <2>1. wrote = << >> => \A b \in Bodies : ~Wrote(b)
    BY DEF Wrote
  <2> QED
    BY <1>1, <2>1
<1>4. rotated' \in BOOLEAN /\ ~rotated
  BY <1>1 DEF History
<1> QED
  BY <1>1, <1>2, <1>3, <1>4 DEF History, LogTypes, Files

LEMMA QuietHistory ==
  ASSUME History, UNCHANGED world, root' = "absent" => root = "absent"
  PROVE  History'
<1>1. UNCHANGED << logs, current, wrote, rotated >>
  BY DEF world
<1>2. /\ \A f \in Files : \A i \in Nat : Opened(f, i)' <=> Opened(f, i)
      /\ \A f \in Files : \A i \in Nat : \A c \in Bodies : Mine(f, i, c)' <=> Mine(f, i, c)
      /\ \A b \in Bodies : Wrote(b)' <=> Wrote(b)
      /\ InOrder' <=> InOrder
      /\ InOneLog' <=> InOneLog
  BY <1>1 DEF Opened, Mine, Wrote, InOrder, InOneLog
<1> QED
  BY <1>1, <1>2 DEF History, LogTypes
-----------------------------------------------------------------------------
(* Where the call is, and what the process and the exit code may be then.  *)
Before == {"begin", "instances", "snapshot", "launch"}

Stages ==
  /\ root \in {"absent", "running", "zero", "nonzero", "killed"}
  /\ pc \in Before => /\ root = "absent" /\ ~helper /\ ~jobEmpty
                      /\ exit = "none" /\ evidence = {}
                      /\ status # "completed" /\ code # "COMPLETION_UNCONFIRMED"
  /\ exit # "none" => root = exit /\ root # "running"

(* A read sees nothing of an event whose header it leaves for later; what  *)
(* is before a cursor has become evidence, and the other way round.  After *)
(* an exit was seen, one pass over the logs leaves no header unread.       *)
AllRead(f) == \A i \in Nat : Opened(f, i) => i <= cursors[f]

Reading ==
  /\ cursors \in [Files -> Nat]
  /\ \A f \in Files : cursors[f] <= Len(logs[f])
  /\ \A f \in Files : cursors[f] = Len(logs[f]) /\ Opened(f, Len(logs[f])) => exit # "none"
  /\ \A f \in Files : \A i \in Nat : \A b \in {"failed", "cancelled"} :
       Mine(f, i, b) /\ i <= cursors[f] => b \in evidence
  /\ \A f \in Files : \A i \in Nat :
       Mine(f, i, "enable") /\ i <= cursors[f] => "config" \in evidence
  /\ "config" \in evidence =>
       \E f \in Files : \E i \in Nat : Mine(f, i, "enable") /\ i <= cursors[f]
  /\ \A f \in Files : \A i, j \in Nat :
       Mine(f, i, "enable") /\ Mine(f, j, "end") /\ i < j /\ j <= cursors[f] =>
         "done" \in evidence
  /\ "done" \in evidence => Wrote("end") /\ (rotated \/ InOrder)
  /\ exit # "none" => /\ pc = "day2" => AllRead("day1")
                      /\ pc = "judge" => \A f \in Files : AllRead(f)

LEMMA InitReading == Init /\ History => Reading /\ Stages
<1> SUFFICES ASSUME Init, History
             PROVE  Reading /\ Stages
  OBVIOUS
<1>1. \A f \in Files : \A i \in Nat : ~Opened(f, i)
  BY DEF Init, History
<1>2. \A f \in Files : Len(logs[f]) \in Nat
  BY DEF History, LogTypes
<1> QED
  BY <1>1, <1>2 DEF Init, Reading, Stages, Before, Mine

(* Nothing read is touched by what is appended. *)
LEMMA AppendKeepsReading ==
  ASSUME Reading, UNCHANGED << reading, pc >>,
         \A f \in Files : /\ Len(logs[f]) \in Nat /\ Len(logs'[f]) \in Nat
                         /\ Len(logs[f]) <= Len(logs'[f]),
         \A f \in Files : \A i \in Nat : \A b \in Bodies :
           /\ Mine(f, i, b) => Mine(f, i, b)'
           /\ Mine(f, i, b)' /\ i <= cursors[f] => Mine(f, i, b),
         \A f \in Files : cursors[f] = Len(logs'[f]) /\ Opened(f, Len(logs[f]))' => exit # "none",
         exit # "none" => \A f \in Files : \A i \in Nat : Opened(f, i)' => Opened(f, i),
         Wrote("end") => Wrote("end")', InOrder => InOrder', rotated => rotated'
  PROVE  Reading'
<1>1. UNCHANGED << cursors, evidence, exit, pc >>
  BY DEF reading
<1>2. \A f \in Files : \A i, j \in Nat :
        Mine(f, i, "enable")' /\ Mine(f, j, "end")' /\ i < j /\ j <= cursors[f] =>
          Mine(f, i, "enable") /\ Mine(f, j, "end")
  BY <1>1 DEF Reading, Bodies
<1> QED
  BY <1>1, <1>2 DEF Reading, AllRead, Bodies, Files

LEMMA ToolWritesReading ==
  ASSUME History, Stages, Reading, ToolWrites
  PROVE  Reading'
<1>1. /\ UNCHANGED << reading, pc >> /\ UNCHANGED << current, rotated >>
      /\ exit = "none" /\ current \in Files
      /\ \A f \in Files : Len(logs[f]) \in Nat
  BY DEF ToolWrites, Stages, History, LogTypes
<1>2. CASE InEvent /\ \E b \in Bodies : Put(<< b >>) /\ wrote' = Append(wrote, b)
  <2>1. PICK b \in Bodies : Put(<< b >>) /\ wrote' = Append(wrote, b)
    BY <1>2
  <2>2. /\ logs' \in [Files -> Seq(Lines)]
        /\ \A f \in Files : \A i \in Nat : Opened(f, i)' <=> Opened(f, i)
        /\ \A f \in Files : \A i \in Nat : \A c \in Bodies :
             Mine(f, i, c)' <=> Mine(f, i, c) \/ (f = current /\ i = Len(logs[f]) /\ c = b)
        /\ Opened(current, Len(logs[current]))
        /\ Len(logs'[current]) = Len(logs[current]) + 1
    BY <1>2, <2>1, BodyPut DEF History
  <2>3. \A f \in Files \ {current} : logs'[f] = logs[f]
    BY <1>1, <2>1 DEF Put, History, LogTypes
  <2>4. /\ Wrote("end") => Wrote("end")'
        /\ InOrder => InOrder'
    BY <2>1, HistoryGrows DEF History, LogTypes, Bodies
  <2>5. cursors[current] < Len(logs[current])
    BY <1>1, <2>2 DEF Reading
  <2>6. \A f \in Files : cursors[f] = Len(logs'[f]) /\ Opened(f, Len(logs[f]))' => FALSE
    BY <1>1, <2>2, <2>3, <2>5 DEF Reading
  <2>7. \A f \in Files : /\ Len(logs'[f]) \in Nat /\ Len(logs[f]) <= Len(logs'[f])
    BY <1>1, <2>2, <2>3
  <2>8. \A f \in Files : \A i \in Nat : \A c \in Bodies :
          /\ Mine(f, i, c) => Mine(f, i, c)'
          /\ Mine(f, i, c)' /\ i <= cursors[f] => Mine(f, i, c)
    BY <1>1, <2>2, <2>5 DEF Reading
  <2> QED
    BY <1>1, <2>2, <2>4, <2>6, <2>7, <2>8, AppendKeepsReading
<1>3. CASE ~InEvent /\ Put(<< "mine" >>) /\ UNCHANGED wrote
  <2>1. /\ logs' \in [Files -> Seq(Lines)]
        /\ \A f \in Files : \A i \in Nat : Opened(f, i)' <=>
             Opened(f, i) \/ (f = current /\ i = Len(logs[f]) + 1)
        /\ \A f \in Files : \A i \in Nat : \A c \in Bodies : Mine(f, i, c)' <=> Mine(f, i, c)
        /\ Len(logs'[current]) = Len(logs[current]) + 1
        /\ \A f \in Files \ {current} : logs'[f] = logs[f]
    BY <1>3, HeaderPut DEF History
  <2>2. /\ Wrote("end") => Wrote("end")'
        /\ InOrder => InOrder'
    BY <1>3 DEF Wrote, InOrder
  <2>3. \A f \in Files : cursors[f] = Len(logs'[f]) /\ Opened(f, Len(logs[f]))' => FALSE
    BY <1>1, <2>1 DEF Reading
  <2>4. \A f \in Files : /\ Len(logs'[f]) \in Nat /\ Len(logs[f]) <= Len(logs'[f])
    BY <1>1, <2>1
  <2> QED
    BY <1>1, <2>1, <2>2, <2>3, <2>4, AppendKeepsReading
<1> QED
  BY <1>2, <1>3 DEF ToolWrites

LEMMA ForeignReading ==
  ASSUME History, Reading, Foreign
  PROVE  Reading'
<1>1. /\ UNCHANGED << reading, pc >> /\ UNCHANGED << current, rotated, wrote >>
      /\ current \in Files
      /\ \A f \in Files : Len(logs[f]) \in Nat
  BY DEF Foreign, History, LogTypes
<1>2. PICK b \in Bodies : Put(<< "foreign", b >>)
  BY DEF Foreign, Bodies
<1>3. /\ logs' \in [Files -> Seq(Lines)]
      /\ \A f \in Files : \A i \in Nat : Opened(f, i)' <=> Opened(f, i)
      /\ \A f \in Files : \A i \in Nat : \A c \in Bodies : Mine(f, i, c)' <=> Mine(f, i, c)
      /\ Len(logs'[current]) = Len(logs[current]) + 2
      /\ \A f \in Files \ {current} : logs'[f] = logs[f]
  BY <1>2, ForeignPut DEF History, Foreign
<1>4. /\ Wrote("end") => Wrote("end")'
      /\ InOrder => InOrder'
  BY <1>1 DEF Wrote, InOrder
<1>5. \A f \in Files : cursors[f] = Len(logs'[f]) /\ Opened(f, Len(logs[f]))' => exit # "none"
  BY <1>1, <1>3 DEF Reading
<1>6. \A f \in Files : /\ Len(logs'[f]) \in Nat /\ Len(logs[f]) <= Len(logs'[f])
  BY <1>1, <1>3
<1> QED
  BY <1>1, <1>3, <1>4, <1>5, <1>6, AppendKeepsReading

LEMMA MidnightReading ==
  ASSUME History, Reading, Midnight
  PROVE  Reading'
<1>1. UNCHANGED << reading, pc, logs, wrote >> /\ ~rotated
  BY DEF Midnight, History
<1>2. /\ \A f \in Files : \A i \in Nat : Opened(f, i)' <=> Opened(f, i)
      /\ \A f \in Files : \A i \in Nat : \A c \in Bodies : Mine(f, i, c)' <=> Mine(f, i, c)
      /\ Wrote("end") => Wrote("end")'
      /\ InOrder => InOrder'
  BY <1>1 DEF Opened, Mine, Wrote, InOrder
<1>3. \A f \in Files : Len(logs[f]) \in Nat
  BY DEF History, LogTypes
<1>4. \A f \in Files : cursors[f] = Len(logs'[f]) /\ Opened(f, Len(logs[f]))' => exit # "none"
  BY <1>1, <1>2, <1>3 DEF Reading
<1> QED
  BY <1>1, <1>2, <1>3, <1>4, AppendKeepsReading

(* A step that neither writes nor reads, and is not the end of a read. *)
LEMMA QuietReading ==
  ASSUME Reading, UNCHANGED << world, cursors, evidence >>,
         exit # "none" => exit' # "none",
         UNCHANGED << exit, pc >> \/ pc' \notin {"day2", "judge"}
  PROVE  Reading'
<1>1. UNCHANGED << logs, wrote, rotated, cursors, evidence >>
  BY DEF world
<1>2. /\ \A f \in Files : \A i \in Nat : Opened(f, i)' <=> Opened(f, i)
      /\ \A f \in Files : \A i \in Nat : \A c \in Bodies : Mine(f, i, c)' <=> Mine(f, i, c)
      /\ Wrote("end") <=> Wrote("end")'
      /\ InOrder <=> InOrder'
      /\ \A f \in Files : AllRead(f)' <=> AllRead(f)
      /\ \A f \in Files : Opened(f, Len(logs[f]))' <=> Opened(f, Len(logs[f]))
  BY <1>1 DEF Opened, Mine, Wrote, InOrder, AllRead
<1> QED
  BY <1>1, <1>2 DEF Reading, Bodies, Files

(* Nothing of the launched instance is there yet. *)
LEMMA SnapshotReading ==
  ASSUME History, Stages, Reading, Snapshot
  PROVE  Reading'
<1>1. CASE UNCHANGED cursors
  BY <1>1, QuietReading DEF Snapshot, Adapter
<1>2. CASE cursors' = [f \in Files |-> StartOffset(f)] /\ pc' = "launch"
  <2>1. UNCHANGED << logs, wrote, rotated, evidence >> /\ evidence = {}
    BY DEF Snapshot, Adapter, world, Stages, Before
  <2>2. \A f \in Files : Len(logs[f]) \in Nat /\ cursors'[f] = Len(logs[f])
    BY <1>2 DEF StartOffset, History, LogTypes
  <2>3. \A f \in Files : \A i \in Nat : ~Opened(f, i)'
    BY <2>1 DEF Snapshot, Stages, Before, History, Opened
  <2>4. \A f \in Files : ~Opened(f, Len(logs[f]))'
    BY <2>1, <2>2, <2>3
  <2>5. \A f \in Files : \A i \in Nat : \A c \in Bodies : ~Mine(f, i, c)'
    BY <2>3 DEF Mine
  <2>6. cursors' \in [Files -> Nat]
    BY <1>2, <2>2 DEF StartOffset
  <2> QED
    BY <1>2, <2>1, <2>2, <2>3, <2>4, <2>5, <2>6 DEF Reading, AllRead, Bodies
<1> QED
  BY <1>1, <1>2 DEF Snapshot

(* A read takes what is over and leaves the rest. *)
LEMMA FlushedIsOver ==
  ASSUME History, Reading, NEW f \in Files
  PROVE  /\ Flushed(f) \in Nat /\ cursors[f] <= Flushed(f) /\ Flushed(f) <= Len(logs[f])
         /\ \A i \in Unread(f) : i <= Flushed(f) <=> Over(f, i)
         /\ exit # "none" => Flushed(f) = Len(logs[f])
         /\ Flushed(f) = Len(logs[f]) /\ Opened(f, Len(logs[f])) => exit # "none"
<1> DEFINE open == {i \in Unread(f) : ~Over(f, i)}
           n    == Len(logs[f])
<1>1. /\ n \in Nat /\ cursors[f] \in Nat /\ cursors[f] <= n
      /\ Unread(f) \subseteq cursors[f] + 1 .. n
      /\ \A i \in Unread(f) : logs[f][i] \in Headers
  BY DEF History, LogTypes, Reading, Unread
<1>2. \A i, j \in Unread(f) : i < j => Over(f, i)
  BY <1>1 DEF Over
<1>3. exit # "none" => open = {}
  BY DEF Over
<1>4. CASE open = {}
  <2>1. Flushed(f) = n
    BY <1>4 DEF Flushed
  <2>2. ASSUME Opened(f, n)
        PROVE  exit # "none"
    <3>1. CASE cursors[f] = n
      BY <2>2, <3>1 DEF Reading
    <3>2. CASE cursors[f] # n
      <4>1. n \in Unread(f)
        BY <1>1, <2>2, <3>2 DEF Unread, Opened, Headers
      <4>2. Over(f, n)
        BY <1>4, <4>1
      <4> QED
        BY <1>1, <4>2 DEF Over
    <3> QED
      BY <3>1, <3>2
  <2> QED
    BY <1>1, <1>4, <2>1, <2>2
<1>5. CASE open # {}
  <2>1. PICK k \in open : Flushed(f) = k - 1
    BY <1>5 DEF Flushed
  <2>2. k \in Unread(f) /\ ~Over(f, k) /\ k \in cursors[f] + 1 .. n
    BY <1>1, <2>1
  <2>3. \A i \in Unread(f) : i < k <=> Over(f, i)
    BY <1>1, <1>2, <2>2
  <2> QED
    BY <1>1, <1>3, <1>5, <2>1, <2>2, <2>3
<1> QED
  BY <1>4, <1>5

LEMMA ReadFileReading ==
  ASSUME History, Stages, Reading, NEW f \in Files, NEW next \in {"day2", "judge"},
         ReadFile(f, next), next = "day2" => f = "day1", next = "judge" => f = "day2"
  PROVE  Reading'
<1>1. CASE UNCHANGED << cursors, evidence >> /\ pc' = "job"
  BY <1>1, QuietReading DEF ReadFile, Adapter
<1>2. CASE /\ evidence' = Event(f) /\ cursors' = [cursors EXCEPT ![f] = Flushed(f)]
           /\ pc' = next
  <2> DEFINE k == Flushed(f)
  <2>1. /\ k \in Nat /\ cursors[f] <= k /\ k <= Len(logs[f])
        /\ \A i \in Unread(f) : i <= k <=> Over(f, i)
        /\ exit # "none" => k = Len(logs[f])
        /\ k = Len(logs[f]) /\ Opened(f, Len(logs[f])) => exit # "none"
    BY FlushedIsOver
  <2>2. UNCHANGED << logs, current, wrote, rotated, exit >> /\ pc = f
    BY DEF ReadFile, Adapter, world
  <2>3. /\ \A g \in Files : Len(logs[g]) \in Nat
        /\ cursors' \in [Files -> Nat] /\ cursors'[f] = k
        /\ \A g \in Files : /\ cursors[g] \in Nat /\ cursors[g] <= cursors'[g]
                            /\ cursors'[g] <= Len(logs[g])
                            /\ g # f => cursors'[g] = cursors[g]
    BY <1>2, <2>1 DEF History, LogTypes, Reading
  <2>4. /\ \A g \in Files : \A i \in Nat : Opened(g, i)' <=> Opened(g, i)
        /\ \A g \in Files : \A i \in Nat : \A c \in Bodies : Mine(g, i, c)' <=> Mine(g, i, c)
        /\ \A g \in Files : Opened(g, Len(logs[g]))' <=> Opened(g, Len(logs[g]))
        /\ Wrote("end")' <=> Wrote("end")
        /\ InOrder' <=> InOrder
    BY <2>2 DEF Opened, Mine, Wrote, InOrder
  (* What this read completes: the events between the old cursor and the   *)
  (* new one.                                                              *)
  <2> DEFINE mine == {i \in Unread(f) : OfThisInstance(logs[f][i]) /\ Over(f, i) /\ i < Len(logs[f])}
             At(b) == {i \in mine : logs[f][i + 1] = b}
  <2>5. ASSUME NEW b \in Bodies, NEW i \in Nat
        PROVE  i \in At(b) <=> Mine(f, i, b) /\ cursors[f] < i /\ i <= k
    <3>1. Mine(f, i, b) /\ cursors[f] < i => i \in Unread(f)
      BY <2>3 DEF Mine, Opened, Unread, Headers
    <3>2. i \in Unread(f) => i \in 1..Len(logs[f]) /\ cursors[f] < i
      BY <2>3 DEF Unread
    <3> QED
      BY <2>1, <3>1, <3>2 DEF Mine, Opened, OfThisInstance
  <2>6. /\ evidence \subseteq evidence'
        /\ \A b \in {"failed", "cancelled"} : At(b) # {} => b \in evidence'
        /\ At("enable") # {} => "config" \in evidence'
        /\ "config" \in evidence' => "config" \in evidence \/ At("enable") # {}
        /\ \A j \in At("end") :
             "config" \in evidence \/ (\E i \in At("enable") : i < j) => "done" \in evidence'
        /\ "done" \in evidence' =>
             \/ "done" \in evidence
             \/ \E j \in At("end") : "config" \in evidence \/ \E i \in At("enable") : i < j
    BY <1>2 DEF Event
  <2>7. \A b \in Bodies : At(b) \subseteq Nat
    BY <2>3 DEF Unread
  <2> HIDE DEF At, mine, k
  <2>8. \A b \in Bodies : \A g \in Files : \A i \in Nat :
          Mine(g, i, b) /\ i <= cursors'[g] =>
            i <= cursors[g] \/ (g = f /\ i \in At(b))
    BY <2>3, <2>5
  <2>9. \A g \in Files : \A i \in Nat : \A b \in {"failed", "cancelled"} :
          Mine(g, i, b) /\ i <= cursors'[g] => b \in evidence'
    BY <2>6, <2>8 DEF Reading, Bodies
  <2>10. \A g \in Files : \A i \in Nat :
           Mine(g, i, "enable") /\ i <= cursors'[g] => "config" \in evidence'
    BY <2>6, <2>8 DEF Reading, Bodies
  <2>11. "config" \in evidence' =>
           \E g \in Files : \E i \in Nat : Mine(g, i, "enable") /\ i <= cursors'[g]
    <3>1. CASE "config" \in evidence
      <4>1. PICK g \in Files, i \in Nat : Mine(g, i, "enable") /\ i <= cursors[g]
        BY <3>1 DEF Reading
      <4> QED
        BY <2>3, <4>1
    <3>2. CASE At("enable") # {}
      BY <2>3, <2>5, <2>7, <3>2 DEF Bodies
    <3> QED
      BY <2>6, <3>1, <3>2
  <2>12. ASSUME NEW g \in Files, NEW i \in Nat, NEW j \in Nat, Mine(g, i, "enable"),
                Mine(g, j, "end"), i < j, j <= cursors'[g]
         PROVE  "done" \in evidence'
    <3>1. CASE j <= cursors[g]
      BY <2>6, <2>12, <3>1 DEF Reading
    <3>2. CASE g = f /\ j \in At("end")
      <4>1. i <= cursors'[g]
        BY <2>3, <2>12
      <4>2. i <= cursors[g] \/ i \in At("enable")
        BY <2>8, <2>12, <4>1 DEF Bodies
      <4>3. "config" \in evidence \/ \E m \in At("enable") : m < j
        BY <2>12, <4>2 DEF Reading
      <4> QED
        BY <2>6, <3>2, <4>3
    <3> QED
      BY <2>8, <2>12, <3>1, <3>2 DEF Bodies
  <2>13. "done" \in evidence' => Wrote("end") /\ (rotated \/ InOrder)
    <3>1. CASE "done" \in evidence
      BY <3>1 DEF Reading
    <3>2. ASSUME NEW j \in At("end"),
                 "config" \in evidence \/ \E i \in At("enable") : i < j
          PROVE  Wrote("end") /\ (rotated \/ InOrder)
      <4>1. j \in Nat /\ Mine(f, j, "end") /\ cursors[f] < j
        BY <2>5, <2>7 DEF Bodies
      <4>2. Wrote("end")
        BY <4>1 DEF History, Bodies
      <4>3. CASE \E i \in At("enable") : i < j
        BY <2>5, <2>7, <4>1, <4>3 DEF History, InOneLog, Bodies
      <4>4. CASE "config" \in evidence
        <5>1. PICK g \in Files, i \in Nat : Mine(g, i, "enable") /\ i <= cursors[g]
          BY <4>4 DEF Reading
        <5>2. CASE g = f
          <6>1. i < j
            BY <2>3, <4>1, <5>1, <5>2
          <6> QED
            BY <4>1, <4>2, <5>1, <5>2, <6>1 DEF History, InOneLog
        <5>3. CASE g # f
          BY <4>1, <4>2, <5>1, <5>3 DEF History, Bodies
        <5> QED
          BY <5>2, <5>3
      <4> QED
        BY <3>2, <4>2, <4>3, <4>4
    <3> QED
      BY <2>6, <3>1, <3>2
  <2>14. exit # "none" => AllRead(f)'
    BY <2>1, <2>2, <2>3, <2>4 DEF AllRead, Opened, k
  <2>15. exit # "none" /\ next = "judge" => \A g \in Files : AllRead(g)'
    <3>1. exit # "none" /\ next = "judge" => AllRead("day1")
      BY <2>2 DEF Reading
    <3> QED
      BY <2>3, <2>4, <2>14, <3>1 DEF AllRead, Files
  <2>16. \A g \in Files : cursors'[g] = Len(logs[g]) /\ Opened(g, Len(logs[g])) => exit # "none"
    BY <2>1, <2>3 DEF Reading, k
  <2> QED
    BY <1>2, <2>2, <2>3, <2>4, <2>9, <2>10, <2>11, <2>12, <2>13, <2>14, <2>15, <2>16
       DEF Reading, Bodies
<1> QED
  BY <1>1, <1>2 DEF ReadFile
-----------------------------------------------------------------------------
(* The verdict and the cleanup. *)
Proven ==
  /\ Wrote("enable") /\ Wrote("end") /\ (rotated \/ InOrder)
  /\ ~Wrote("failed") /\ ~Wrote("cancelled")

Verdict ==
  /\ status = "completed" => root = "zero" /\ Proven
  /\ code = "COMPLETION_UNCONFIRMED" => root = "zero" /\ (rotated \/ ~InOrder)
  /\ pc = "done" /\ status = "completed" => cleaned

Cleaning ==
  /\ jobEmpty => Gone
  /\ pc \in {"close", "done"} /\ cleaned => Gone

IInv == History /\ Stages /\ Reading /\ Verdict /\ Cleaning

LEMMA InitIInv == Init => IInv
<1>1. Init => Verdict /\ Cleaning
  BY DEF Init, Verdict, Cleaning
<1> QED
  BY <1>1, InitHistory, InitReading DEF IInv

(* Once the process has ended with zero the tool writes no more. *)
LEMMA WorldKeepsVerdict ==
  ASSUME History, Verdict, UNCHANGED << pc, outcome >>,
         root = "zero" => root' = "zero" /\ UNCHANGED wrote,
         rotated => rotated'
  PROVE  Verdict'
<1>1. UNCHANGED wrote => /\ \A b \in Bodies : Wrote(b)' <=> Wrote(b)
                         /\ InOrder' <=> InOrder
  BY DEF Wrote, InOrder
<1> QED
  BY <1>1 DEF Verdict, Proven, outcome, Bodies

LEMMA WorldStep ==
  ASSUME IInv, pc # "done", World
  PROVE  IInv'
<1> USE DEF IInv
<1>1. CASE ToolWrites
  <2>1. /\ UNCHANGED << tree, reading, pc, outcome >> /\ UNCHANGED rotated
        /\ root = "running"
    BY <1>1 DEF ToolWrites
  <2>2. Stages' /\ Cleaning'
    BY <2>1 DEF tree, reading, outcome, Stages, Cleaning, Gone
  <2>3. Verdict'
    BY <2>1, WorldKeepsVerdict DEF tree
  <2> QED
    BY <1>1, <2>2, <2>3, ToolWritesHistory, ToolWritesReading
<1>2. CASE Foreign
  <2>1. UNCHANGED << tree, reading, pc, outcome >> /\ UNCHANGED << rotated, wrote >>
    BY <1>2 DEF Foreign
  <2>2. Stages' /\ Cleaning'
    BY <2>1 DEF tree, reading, outcome, Stages, Cleaning, Gone
  <2>3. Verdict'
    BY <2>1, WorldKeepsVerdict DEF tree
  <2> QED
    BY <1>2, <2>2, <2>3, ForeignHistory, ForeignReading
<1>3. CASE Midnight
  <2>1. /\ UNCHANGED << tree, reading, pc, outcome >> /\ UNCHANGED wrote
        /\ current = "day1"
    BY <1>3 DEF Midnight
  <2>2. Stages' /\ Cleaning'
    BY <2>1 DEF tree, reading, outcome, Stages, Cleaning, Gone
  <2>3. ~rotated
    BY <2>1 DEF History
  <2>4. Verdict'
    BY <2>1, <2>3, WorldKeepsVerdict DEF tree
  <2> QED
    BY <1>3, <2>2, <2>4, MidnightHistory, MidnightReading
<1>4. CASE TreeMoves
  <2>1. /\ UNCHANGED << world, reading, pc, outcome >>
        /\ \/ root = "running" /\ root' \in {"killed", "zero", "nonzero"} /\ helper' = helper
           \/ helper /\ helper' = FALSE /\ root' = root
           \/ root = "running" /\ helper' = TRUE /\ root' = root
    BY <1>4 DEF TreeMoves
  <2>2. Stages' /\ Cleaning'
    BY <2>1 DEF reading, outcome, Stages, Cleaning, Gone, Before
  <2>3. Verdict'
    BY <2>1, WorldKeepsVerdict DEF world
  <2>4. History'
    BY <2>1, QuietHistory
  <2>5. Reading'
    BY <2>1, QuietReading DEF reading
  <2> QED
    BY <2>2, <2>3, <2>4, <2>5
<1>5. CASE Cancel \/ Expire
  <2>1. UNCHANGED << world, tree, reading, pc, outcome >>
    BY <1>5 DEF Cancel, Expire
  <2>2. Stages' /\ Cleaning'
    BY <2>1 DEF tree, reading, outcome, Stages, Cleaning, Gone
  <2>3. Verdict'
    BY <2>1, WorldKeepsVerdict DEF world, tree
  <2>4. History' /\ Reading'
    BY <2>1, QuietHistory, QuietReading DEF tree, reading
  <2> QED
    BY <2>2, <2>3, <2>4
<1> QED
  BY <1>1, <1>2, <1>3, <1>4, <1>5 DEF World

-----------------------------------------------------------------------------
(* The steps of the adapter. *)

(* A step before the verdict, or after it, that gives no other. *)
LEMMA AdapterKeepsVerdict ==
  ASSUME Verdict, UNCHANGED world, root = "zero" => root' = "zero",
         \/ UNCHANGED << status, code >>
         \/ status' # "completed" /\ code' # "COMPLETION_UNCONFIRMED",
         pc' = "done" /\ status' = "completed" => cleaned'
  PROVE  Verdict'
<1>1. /\ UNCHANGED << wrote, rotated >>
      /\ \A b \in Bodies : Wrote(b)' <=> Wrote(b)
      /\ InOrder' <=> InOrder
  BY DEF world, Wrote, InOrder
<1> QED
  BY <1>1 DEF Verdict, Proven, Bodies

LEMMA StartStep ==
  ASSUME IInv, Begin \/ Instances \/ Snapshot \/ Launch
  PROVE  IInv'
<1> USE DEF IInv
<1>1. /\ UNCHANGED << world, helper, evidence, exit, jobEmpty >>
      /\ pc \in Before /\ root = "absent" /\ ~helper /\ ~jobEmpty /\ exit = "none"
      /\ evidence = {} /\ status # "completed" /\ code # "COMPLETION_UNCONFIRMED"
  BY DEF Begin, Instances, Snapshot, Launch, Adapter, tree, reading, outcome, Outcome,
     Controlled, Before, Stages
<1>2. /\ status' # "completed" /\ code' # "COMPLETION_UNCONFIRMED"
      /\ root' \in {"absent", "running"}
      /\ root' = "running" => pc' = "loop" /\ cleaned' = FALSE
      /\ pc' \in Before \cup {"done", "close", "loop"}
      /\ pc' = "loop" => root' = "running"
  BY <1>1 DEF Begin, Instances, Snapshot, Launch, tree, outcome, Outcome, Controlled, Before
<1>3. Stages' /\ Cleaning'
  BY <1>1, <1>2 DEF Stages, Cleaning, Gone, Before
<1>4. Verdict'
  BY <1>1, <1>2, AdapterKeepsVerdict
<1>5. History'
  BY <1>1, QuietHistory
<1>6. Reading'
  <2>1. CASE Snapshot
    BY <2>1, SnapshotReading
  <2>2. CASE Begin \/ Instances \/ Launch
    <3>1. UNCHANGED cursors
      BY <2>2 DEF Begin, Instances, Launch, reading
    <3> QED
      BY <1>1, <1>2, <3>1, QuietReading DEF Before
  <2> QED
    BY <2>1, <2>2
<1> QED
  BY <1>3, <1>4, <1>5, <1>6

LEMMA PollStep ==
  ASSUME IInv, Poll
  PROVE  IInv'
<1> USE DEF IInv
<1>1. /\ UNCHANGED << world, tree, cursors, evidence, cleaned, jobEmpty >>
      /\ pc = "loop" /\ pc' \in {"job", "day1"}
      /\ exit' = exit \/ (exit' = "none" /\ root = "running") \/ (exit' = root /\ root # "running")
      /\ \/ UNCHANGED << status, code >>
         \/ status' # "completed" /\ code' # "COMPLETION_UNCONFIRMED"
  BY DEF Poll, Adapter, Controlled, Outcome, outcome
<1>2. exit # "none" => exit' # "none"
  BY <1>1 DEF Stages
<1>3. Stages' /\ Cleaning'
  BY <1>1, <1>2 DEF tree, Stages, Before, Cleaning, Gone
<1>4. Verdict'
  BY <1>1, AdapterKeepsVerdict DEF tree
<1>5. History' /\ Reading'
  BY <1>1, <1>2, QuietHistory, QuietReading DEF tree
<1> QED
  BY <1>3, <1>4, <1>5

LEMMA ReadFileStep ==
  ASSUME IInv, ReadFile("day1", "day2") \/ ReadFile("day2", "judge")
  PROVE  IInv'
<1> USE DEF IInv
<1>1. /\ UNCHANGED << world, tree, exit, cleaned, jobEmpty >>
      /\ pc \in {"day1", "day2"} /\ pc' \in {"day2", "judge", "job"}
      /\ \/ UNCHANGED << status, code >>
         \/ status' # "completed" /\ code' # "COMPLETION_UNCONFIRMED"
  BY DEF ReadFile, Adapter, Outcome, outcome
<1>2. Stages' /\ Cleaning'
  BY <1>1 DEF tree, Stages, Before, Cleaning, Gone
<1>3. Verdict'
  BY <1>1, AdapterKeepsVerdict DEF tree
<1>4. History'
  BY <1>1, QuietHistory DEF tree
<1>5. Reading'
  <2>1. /\ "day1" \in Files /\ "day2" \in Files
        /\ "day2" \in {"day2", "judge"} /\ "judge" \in {"day2", "judge"}
        /\ "day2" # "judge"
    BY DEF Files
  <2>2. CASE ReadFile("day1", "day2")
    BY <2>1, <2>2, ReadFileReading
  <2>3. CASE ReadFile("day2", "judge")
    BY <2>1, <2>3, ReadFileReading
  <2> QED
    BY <2>2, <2>3
<1> QED
  BY <1>2, <1>3, <1>4, <1>5

(* The verdict: all of the logs has been read when the exit was seen. *)
LEMMA JudgeStep ==
  ASSUME IInv, Judge
  PROVE  IInv'
<1> USE DEF IInv
<1>1. /\ UNCHANGED << world, tree, reading, cleaned, jobEmpty >>
      /\ pc = "judge" /\ pc' \in {"loop", "job"}
  BY DEF Judge, Adapter, Outcome, outcome
<1>2. Stages' /\ Cleaning'
  BY <1>1 DEF tree, reading, Stages, Before, Cleaning, Gone
<1>3. Verdict'
  <2>1. CASE \/ UNCHANGED << status, code >>
             \/ status' # "completed" /\ code' # "COMPLETION_UNCONFIRMED"
    BY <1>1, <2>1, AdapterKeepsVerdict DEF tree
  <2>2. /\ wrote' = wrote /\ rotated' = rotated /\ root' = root
        /\ \A b \in Bodies : Wrote(b)' <=> Wrote(b)
        /\ InOrder' <=> InOrder
    BY <1>1 DEF world, tree, Wrote, InOrder
  <2>3. exit # "none" => \A f \in Files : \A i \in Nat : \A b \in Bodies :
                           Mine(f, i, b) => i <= cursors[f]
    BY <1>1 DEF Reading, AllRead, Mine
  <2>4. CASE Outcome("completed", "OK") /\ Confirmed /\ exit = "zero"
                /\ "cancelled" \notin evidence /\ "failed" \notin evidence
    <3>1. root = "zero"
      BY <2>4 DEF Stages
    <3>2. ~Wrote("failed") /\ ~Wrote("cancelled")
      BY <2>3, <2>4 DEF History, Reading, Bodies
    <3>3. Wrote("enable")
      BY <2>4 DEF Confirmed, Reading, History, Bodies
    <3>4. Wrote("end") /\ (rotated \/ InOrder)
      BY <2>4 DEF Confirmed, Reading
    <3> QED
      BY <1>1, <2>2, <2>4, <3>1, <3>2, <3>3, <3>4 DEF Verdict, Proven, Outcome, Bodies
  <2>5. CASE Outcome("failed", "COMPLETION_UNCONFIRMED") /\ ~Confirmed /\ exit = "zero"
    <3>1. root = "zero"
      BY <2>5 DEF Stages
    <3>2. InOneLog => "config" \in evidence /\ "done" \in evidence
      BY <2>3, <2>5 DEF InOneLog, Reading, Bodies
    <3>3. rotated \/ ~InOrder
      BY <2>5, <3>2 DEF Confirmed, History
    <3> QED
      BY <1>1, <2>2, <2>5, <3>1, <3>3 DEF Verdict, Outcome
  <2> QED
    BY <2>1, <2>4, <2>5 DEF Judge, Outcome, outcome
<1>4. History' /\ Reading'
  BY <1>1, QuietHistory, QuietReading DEF tree, reading
<1> QED
  BY <1>2, <1>3, <1>4

LEMMA StopStep ==
  ASSUME IInv, TerminateJob \/ AwaitEmptyJob \/ Stop \/ Close
  PROVE  IInv'
<1> USE DEF IInv
<1>1. /\ UNCHANGED << world, helper, reading >>
      /\ pc \in {"job", "empty", "stop", "close"} /\ pc' \in {"empty", "stop", "close", "done"}
      /\ root' = root \/ (root = "running" /\ root' = "killed")
  BY DEF TerminateJob, AwaitEmptyJob, Stop, Close, Adapter, tree
<1>2. /\ \/ UNCHANGED << status, code >>
         \/ status' # "completed" /\ code' # "COMPLETION_UNCONFIRMED"
      /\ pc' = "done" /\ status' = "completed" => cleaned'
  BY DEF TerminateJob, AwaitEmptyJob, Stop, Close, outcome
<1>3. Cleaning'
  <2>1. CASE TerminateJob
    BY <2>1 DEF TerminateJob, outcome, Cleaning, Gone
  <2>2. CASE AwaitEmptyJob
    BY <2>2 DEF AwaitEmptyJob, tree, Cleaning, Gone
  <2>3. CASE Stop
    BY <2>3 DEF Stop, Cleaned, Cleaning, Gone
  <2>4. CASE Close
    BY <2>4 DEF Close, tree, Cleaning, Gone
  <2> QED
    BY <2>1, <2>2, <2>3, <2>4
<1>4. Stages'
  BY <1>1 DEF reading, Stages, Before
<1>5. Verdict'
  BY <1>1, <1>2, AdapterKeepsVerdict
<1>6. History' /\ Reading'
  BY <1>1, QuietHistory, QuietReading DEF reading
<1> QED
  BY <1>3, <1>4, <1>5, <1>6

LEMMA StutterStep == IInv /\ UNCHANGED vars => IInv'
<1> SUFFICES ASSUME IInv, UNCHANGED vars
             PROVE  IInv'
  OBVIOUS
<1>1. UNCHANGED << world, tree, reading, pc, outcome >>
  BY DEF vars
<1>2. Stages' /\ Cleaning'
  BY <1>1 DEF IInv, tree, reading, outcome, Stages, Cleaning, Gone
<1>3. Verdict'
  BY <1>1, WorldKeepsVerdict DEF IInv, world, tree
<1>4. History' /\ Reading'
  BY <1>1, QuietHistory, QuietReading DEF IInv, tree, reading
<1> QED
  BY <1>2, <1>3, <1>4 DEF IInv

LEMMA NextIInv == IInv /\ [Next]_vars => IInv'
<1> SUFFICES ASSUME IInv, [Next]_vars
             PROVE  IInv'
  OBVIOUS
<1>1. CASE AdapterStep
  BY <1>1, StartStep, PollStep, ReadFileStep, JudgeStep, StopStep DEF AdapterStep
<1>2. CASE pc # "done" /\ World
  BY <1>2, WorldStep
<1>3. CASE Done \/ UNCHANGED vars
  BY <1>3, StutterStep DEF Done
<1> QED
  BY <1>1, <1>2, <1>3 DEF Next

(* The inductive invariant: at every step of BetterGIAdapter.run the        *)
(* cursors, the evidence and the verdict agree with what the tool wrote.    *)
THEOREM IInvIsInvariant == Spec => []IInv
BY InitIInv, NextIInv, PTL DEF Spec

(* A success is never read out of the events of another instance, out of    *)
(* half of an event, or past a failure written just before the exit.        *)
THEOREM ProvenSuccess == Spec => []SuccessIsProven
<1>1. IInv => SuccessIsProven
  BY DEF IInv, Verdict, Proven, Cleaning, Gone, SuccessIsProven
<1> QED
  BY <1>1, IInvIsInvariant, PTL

(* A run whose log proves it is not called unconfirmed, wherever its reads  *)
(* stopped.                                                                 *)
THEOREM NoProofIsLost == Spec => []NothingIsLost
<1>1. IInv => NothingIsLost
  BY DEF IInv, Verdict, NothingIsLost
<1> QED
  BY <1>1, IInvIsInvariant, PTL

(* A result that says "cleaned" leaves no process of the job behind. *)
THEOREM CleanedJobIsGone == Spec => []CleanedMeansGone
<1>1. IInv => CleanedMeansGone
  BY DEF IInv, Cleaning, CleanedMeansGone
<1> QED
  BY <1>1, IInvIsInvariant, PTL
=============================================================================
