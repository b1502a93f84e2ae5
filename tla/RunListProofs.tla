---------------------------- MODULE RunListProofs ----------------------------
(***************************************************************************)
(* Machine-checked proofs about RunList, for every number of processes and *)
(* length of the search: that the pointers form one cycle, that a tick     *)
(* does harm only before the last store of process_create, and that they   *)
(* implement the sequence of Scheduler.                                    *)
(***************************************************************************)
EXTENDS RunList, LeastNumber, SequenceTheorems

-----------------------------------------------------------------------------
(* The inductive invariant.                                                *)

ListTypes ==
    /\ next \in [Pid -> Pid \cup {Wild}]
    /\ made \in 0..MaxPid /\ head \in 0..MaxPid /\ caller \in 0..MaxPid
    /\ create \in {"idle", "first", "walk", "link", "close"}
    /\ esp \in [Pid -> S!Contexts] /\ cpu \in S!Contexts
    /\ ticks_quantum \in [Pid -> Nat] /\ tick_count \in Nat
    /\ scheduler_running \in BOOLEAN

\* The pointers lead through the PCBs linked so far, each once, and back.
Chain(r, n, first, pointer) ==
    /\ r \in Seq(Pid) /\ Len(r) = n
    /\ \A i \in 1..n : r[i] \in 1..n
    /\ \A i, j \in 1..n : r[i] = r[j] => i = j
    /\ \A p \in 1..n : \E i \in 1..n : r[i] = p
    /\ n > 0 => r[1] = first /\ pointer[r[n]] = first
    /\ \A i \in 1..(n - 1) : pointer[r[i]] = r[i + 1]

Chained ==
    /\ Chain(ReadList, made, head, Closed)
    /\ made = 0 => head = NULL
    /\ \A p \in Pid : next[p] = Wild <=> p > made \/ (create = "close" /\ p = made)

\* What the last store of process_create will write: the caller is current
\* whenever it executes.
Target == IF caller = NULL THEN head ELSE caller

\* The context the caller goes on with.
CallersContext == IF cpu.owner = caller THEN cpu ELSE esp[caller]

Creating ==
    /\ create = "first" => made = 0 /\ caller = NULL
    /\ create \in {"walk", "link", "close"} => made > 0
    /\ create \in {"first", "walk", "link"} => made < MaxPid
    /\ create \in {"walk", "link"} => tmp \in 1..made
    /\ create = "link" => next[tmp] = Target
    /\ create # "idle" /\ caller = NULL => ~scheduler_running
    /\ create # "idle" /\ caller # NULL => caller \in 1..made /\ CallersContext.at # S!Halted

\* Who the processor works for, and that a switch to a process resumes it.
Working ==
    /\ scheduler_running => made > 0
    /\ ~scheduler_running => cpu.owner = S!Boot /\ tick_count = 0
    /\ cpu.owner = S!Boot => tick_count <= StartTicks
    /\ cpu.owner # S!Boot => made > 0 /\ cpu.owner = head
    /\ \A p \in 1..made : cpu.owner # p => esp[p].owner = p
    /\ \A p \in 1..made : ticks_quantum[p] >= QuantumUnit

ListInv == ListTypes /\ Chained /\ Creating /\ Working /\ HarmOnlyBeforeLastStore

-----------------------------------------------------------------------------
(* Reading a chain of pointers.                                            *)

LEMMA Numbers ==
    /\ MaxPid \in Nat \ {0} /\ QuantumUnit \in Nat \ {0} /\ Priorities \subseteq Nat \ {0}
    /\ MAX_PROCESSES \in Nat /\ StartTicks \in Nat /\ StartTicks < QuantumUnit
    /\ Wild \notin 0..MaxPid
  BY ListAssumption

Reading(n, first, pointer) ==
    LET at[i \in 1..n] == IF i = 1 THEN first ELSE pointer[at[i - 1]]
    IN  [i \in 1..n |-> at[i]]

LEMMA ReadingIs == ReadList = Reading(made, head, Closed)
  BY Zenon DEF ReadList, Reading

LEMMA ReadingIsNext == ReadList' = Reading(made', head', Closed')
  BY Zenon DEF ReadList, Reading

\* A sequence that follows the pointers is what is read.
LEMMA ReadingFollows ==
    ASSUME NEW n \in Nat, NEW first, NEW pointer, NEW r \in Seq(Pid), Len(r) = n,
           n > 0 => r[1] = first,
           \A i \in 1..(n - 1) : pointer[r[i]] = r[i + 1]
    PROVE  Reading(n, first, pointer) = r
<1> DEFINE At(c) == c = [i \in 1..n |-> IF i = 1 THEN first ELSE pointer[c[i - 1]]]
<1>1. PICK c : At(c) /\ Reading(n, first, pointer) = [i \in 1..n |-> c[i]]
  <2>1. r = [i \in 1..n |-> r[i]]
    OBVIOUS
  <2>2. \A i \in 1..n : r[i] = IF i = 1 THEN first ELSE pointer[r[i - 1]]
    <3> SUFFICES ASSUME NEW i \in 1..n, i # 1 PROVE r[i] = pointer[r[i - 1]]
      OBVIOUS
    <3>1. i - 1 \in 1..(n - 1) /\ (i - 1) + 1 = i
      OBVIOUS
    <3> QED BY <3>1
  <2>3. At(r)
    BY <2>1, <2>2
  <2>4. At(CHOOSE c : At(c))
    <3> HIDE DEF At
    <3> QED BY <2>3, Zenon
  <2>5. Reading(n, first, pointer) = [i \in 1..n |-> (CHOOSE c : At(c))[i]]
    BY Zenon DEF Reading
  <2> QED BY <2>4, <2>5
<1>2. \A i \in 1..n : c[i] = IF i = 1 THEN first ELSE pointer[c[i - 1]]
  BY <1>1
<1>3. PICK D : D = {i \in Nat : i = 0 \/ c[i] = r[i]}
  OBVIOUS
<1>4. ASSUME NEW i \in 0..(n - 1), i \in D PROVE i + 1 \in D
  <2>1. i + 1 \in 1..n
    OBVIOUS
  <2>2. CASE i = 0
    BY <1>2, <1>3, <2>1, <2>2
  <2>3. CASE i # 0
    <3>1. i \in 1..(n - 1) /\ i + 1 # 1 /\ (i + 1) - 1 = i
      BY <2>3
    <3>2. c[i] = r[i] /\ c[i + 1] = pointer[c[i]]
      BY <1>2, <1>3, <1>4, <2>1, <3>1
    <3> QED BY <1>3, <2>1, <3>1, <3>2
  <2> QED BY <2>2, <2>3
<1>5. 0 \in D
  BY <1>3
<1>6. \A i \in 0..n : i \in D
  BY <1>4, <1>5, IntervalInduction
<1>7. \A i \in 1..n : c[i] = r[i]
  BY <1>3, <1>6
<1> QED BY <1>1, <1>7

\* Following pointers any number of times.
Follows(h, f, x, n) == h[0] = x /\ \A i \in 1..n : h[i] = f[h[i - 1]]

LEMMA HopsExist ==
    ASSUME NEW D, NEW f \in [D -> D], NEW x \in D, NEW n \in Nat
    PROVE  \E h \in [0..n -> D] : Follows(h, f, x, n)
<1> DEFINE Hops(h, m) == Follows(h, f, x, m)
<1> USE DEF Follows
<1>1. PICK T : T = {m \in Nat : \E h \in [0..m -> D] : Hops(h, m)}
  OBVIOUS
<1>2. 0 \in T
  <2> DEFINE h == [i \in 0..0 |-> x]
  <2>1. h \in [0..0 -> D] /\ Hops(h, 0)
    OBVIOUS
  <2> QED BY <1>1, <2>1
<1>3. ASSUME NEW m \in 0..(n - 1), m \in T PROVE m + 1 \in T
  <2>1. PICK h \in [0..m -> D] : Hops(h, m)
    BY <1>1, <1>3
  <2> DEFINE g == [i \in 0..(m + 1) |-> IF i <= m THEN h[i] ELSE f[h[m]]]
  <2>2. g \in [0..(m + 1) -> D]
    OBVIOUS
  <2>3. g[0] = x
    BY <2>1
  <2>4. ASSUME NEW i \in 1..(m + 1) PROVE g[i] = f[g[i - 1]]
    <3>1. CASE i <= m
      BY <2>1, <3>1
    <3>2. CASE i = m + 1
      BY <3>2
    <3> QED BY <3>1, <3>2
  <2>5. Hops(g, m + 1)
    BY <2>3, <2>4
  <2>6. m + 1 \in Nat
    OBVIOUS
  <2> HIDE DEF g, Hops
  <2> QED BY <1>1, <2>2, <2>5, <2>6
<1>4. n \in T
  BY <1>2, <1>3, IntervalInduction
<1> QED BY <1>1, <1>4 DEF Follows

-----------------------------------------------------------------------------
(* The list under the invariant.                                           *)

\* A sequence that the pointers of the next state lead through is the next list.
LEMMA NextList ==
    ASSUME made' \in Nat, NEW r, Chain(r, made', head', Closed')
    PROVE  ReadList' = r /\ Chain(ReadList', made', head', Closed')
<1>1. PICK n, first, pointer : n = made' /\ first = head' /\ pointer = Closed'
  OBVIOUS
<1>2. Chain(r, n, first, pointer) /\ n \in Nat
  BY <1>1
<1>3. /\ r \in Seq(Pid) /\ Len(r) = n
      /\ n > 0 => r[1] = first
      /\ \A i \in 1..(n - 1) : pointer[r[i]] = r[i + 1]
  BY <1>2 DEF Chain
<1>4. PICK q \in Seq(Pid) : q = r
  BY <1>3
<1>5. Reading(n, first, pointer) = q
  BY <1>2, <1>3, <1>4, ReadingFollows
<1>6. ReadList' = r
  BY <1>1, <1>4, <1>5, ReadingIsNext
<1> QED BY <1>6

LEMMA ListSame ==
    ASSUME UNCHANGED <<next, head, made, create, caller>>
    PROVE  ReadList' = ReadList /\ Closed' = Closed
<1>1. Closed' = Closed
  BY DEF Closed
<1> QED BY <1>1, ReadingIs, ReadingIsNext

LEMMA ChainSame ==
    ASSUME Chained, ReadList' = ReadList, Closed' = Closed, UNCHANGED <<next, head, made>>,
           create' = "close" <=> create = "close"
    PROVE  Chained'
<1>1. Chain(ReadList', made', head', Closed')
  BY DEF Chained
<1> QED BY <1>1 DEF Chained

\* Between the stores that link a PCB the list is read from "next" alone.
LEMMA OpenList ==
    ASSUME Chained, create # "close", create' # "close", UNCHANGED <<next, head, made>>
    PROVE  ReadList' = ReadList /\ Chained'
<1>1. Closed' = Closed
  BY DEF Closed
<1>2. ReadList' = ReadList
  BY <1>1, ReadingIs, ReadingIsNext
<1> QED BY <1>1, <1>2, ChainSame

\* The list's elements, and where their pointers lead.
LEMMA OnList ==
    ASSUME ListTypes, Chained
    PROVE  /\ made \in Nat /\ Len(ReadList) = made /\ ReadList \in Seq(Pid)
           /\ made > 0 => ReadList # <<>> /\ head \in 1..made /\ ReadList[1] = head
           /\ \A i \in 1..made : ReadList[i] \in 1..made /\ ReadList[i] \in Pid
           /\ S!current_process = head
<1>1. made \in Nat /\ made <= MaxPid
  BY Numbers DEF ListTypes
<1>2. /\ ReadList \in Seq(Pid) /\ Len(ReadList) = made
      /\ made > 0 => ReadList[1] = head
      /\ \A i \in 1..made : ReadList[i] \in 1..made
  BY DEF Chained, Chain
<1>3. made > 0 => ReadList # <<>> /\ head \in 1..made
  BY <1>1, <1>2
<1>4. \A i \in 1..made : ReadList[i] \in Pid
  BY <1>1, <1>2, Numbers DEF Pid
<1>5. made = 0 => ReadList = <<>> /\ head = 0
  BY <1>2 DEF Chained, NULL
<1>6. S!current_process = head
  BY <1>1, <1>2, <1>3, <1>5 DEF S!current_process, S!NULL
<1> QED BY <1>1, <1>2, <1>3, <1>4, <1>6

After(i) == IF i = made THEN 1 ELSE i + 1

LEMMA NextOnList ==
    ASSUME ListTypes, Chained, NEW i \in 1..made
    PROVE  /\ After(i) \in 1..made
           /\ next[ReadList[i]] # Wild => next[ReadList[i]] = ReadList[After(i)]
           /\ next[ReadList[i]] = Wild => create = "close"
<1>1. /\ made \in Nat /\ made > 0 /\ ReadList[i] \in 1..made /\ ReadList[i] \in Pid
      /\ ReadList[1] = head
  BY OnList
<1>2. After(i) \in 1..made
  BY <1>1 DEF After
<1>3. next[ReadList[i]] = Wild <=> create = "close" /\ ReadList[i] = made
  BY <1>1 DEF Chained
<1>4. ASSUME next[ReadList[i]] # Wild PROVE next[ReadList[i]] = Closed[ReadList[i]]
  BY <1>1, <1>3, <1>4 DEF Closed, ListTypes
<1>5. Closed[ReadList[i]] = ReadList[After(i)]
  <2>1. CASE i = made
    BY <1>1, <2>1 DEF After, Chained, Chain
  <2>2. CASE i # made
    <3>1. i \in 1..(made - 1)
      BY <1>1, <2>2
    <3> QED BY <2>2, <3>1 DEF After, Chained, Chain
  <2> QED BY <2>1, <2>2
<1> QED BY <1>2, <1>3, <1>4, <1>5

\* A process that executes process_create is the current one.
LEMMA CallerIsCurrent ==
    ASSUME ListTypes, Chained, Creating, Working, create # "idle", cpu.owner = caller
    PROVE  /\ Target = head
           /\ S!BootExecutes \/ S!Executes(S!current_process)
<1>1. S!current_process = head
  BY OnList
<1>2. CASE caller = NULL
  BY <1>2 DEF Target, Creating, S!BootExecutes, NULL, S!Boot
<1>3. CASE caller # NULL
  <2>1. cpu.owner = head /\ cpu.at # S!Halted /\ head # 0
    BY <1>3 DEF Working, Creating, CallersContext, NULL, S!Boot
  <2> QED BY <1>1, <1>3, <2>1 DEF Target, S!Executes, S!Boot
<1> QED BY <1>2, <1>3

-----------------------------------------------------------------------------
(* process_create preserves the invariant.                                 *)

LEMMA ListInvInitially == ListInit => ListInv
<1> SUFFICES ASSUME ListInit PROVE ListInv
  OBVIOUS
<1>1. /\ next = [p \in Pid |-> Wild] /\ head = 0 /\ made = 0 /\ create = "idle" /\ caller = 0
      /\ crashed = FALSE
  BY DEF ListInit, NULL
<1>2. /\ ticks_quantum = [p \in Pid |-> 0] /\ esp = [p \in Pid |-> S!Context(0, 0)]
      /\ tick_count = 0 /\ scheduler_running = FALSE /\ cpu = S!Context(0, 0)
  BY DEF ListInit, S!Init, Pid, S!Pid, S!Boot
<1>3. S!Context(0, 0) \in S!Contexts /\ S!Context(0, 0).owner = 0
  BY DEF S!Context, S!Contexts, S!Position, S!Boot
<1>4. scheduler_running \in BOOLEAN
  BY <1>2, Zenon
<1>5. ListTypes
  BY <1>1, <1>2, <1>3, <1>4, Numbers DEF ListTypes
<1>6. Chained
  <2>1. <<>> \in Seq(Pid) /\ Len(<<>>) = 0
    OBVIOUS
  <2>2. PICK q \in Seq(Pid) : q = <<>>
    BY <2>1, Zenon
  <2>3. PICK n \in Nat : n = 0
    OBVIOUS
  <2>4. Reading(n, head, Closed) = q
    <3>1. /\ Len(q) = n
          /\ n > 0 => q[1] = head
          /\ \A i \in 1..(n - 1) : Closed[q[i]] = q[i + 1]
      BY <2>1, <2>2, <2>3
    <3> QED BY <3>1, ReadingFollows
  <2>5. ReadList = <<>>
    BY <1>1, <2>2, <2>3, <2>4, ReadingIs
  <2>6. Chain(ReadList, made, head, Closed)
    BY <1>1, <2>1, <2>5 DEF Chain
  <2> QED BY <1>1, <2>6, Numbers DEF Chained, NULL, Pid
<1>7. Creating
  BY <1>1 DEF Creating
<1>8. Working
  BY <1>1, <1>2, <1>3, Numbers DEF Working, S!Boot
<1>9. HarmOnlyBeforeLastStore
  BY <1>1 DEF HarmOnlyBeforeLastStore
<1> QED BY <1>5, <1>6, <1>7, <1>8, <1>9 DEF ListInv

LEMMA AllocatePreserves == ASSUME ListInv, Allocate PROVE ListInv' /\ ReadList' = ReadList
<1>1. ListTypes /\ Chained /\ Creating /\ Working
  BY DEF ListInv
<1>2. /\ create = "idle" /\ ~crashed /\ made < MaxPid /\ caller' = cpu.owner /\ tmp' = head
      /\ create' = IF head = NULL THEN "first" ELSE "walk"
      /\ UNCHANGED <<next, head, made, crashed, ticks_quantum, esp, tick_count,
                     scheduler_running, cpu>>
  BY DEF Allocate, pcbVars
<1>3. cpu.owner \in 0..MaxPid
  BY <1>1, Numbers DEF ListTypes, S!Contexts, S!Pid, S!Boot
<1>4. ListTypes'
  BY <1>1, <1>2, <1>3 DEF ListTypes
<1>5. Chained' /\ ReadList' = ReadList
  BY <1>1, <1>2, OpenList
<1>6. Working'
  BY <1>1, <1>2 DEF Working
<1>7. head = NULL <=> made = 0
  BY <1>1, OnList DEF Chained, NULL
<1>8. S!BootExecutes \/ S!Executes(head)
  BY DEF Allocate
<1>9. CASE cpu.owner = 0
  <2>1. ~scheduler_running
    BY <1>8, <1>9 DEF S!BootExecutes, S!Executes, S!Boot
  <2> QED BY <1>1, <1>2, <1>4, <1>5, <1>6, <1>7, <1>9, <2>1, OnList
          DEF ListInv, Creating, HarmOnlyBeforeLastStore, NULL
<1>10. CASE cpu.owner # 0
  <2>1. cpu.owner = head /\ made > 0 /\ head \in 1..made /\ cpu.at # S!Halted
    BY <1>1, <1>8, <1>10, OnList DEF Working, S!BootExecutes, S!Executes, S!Boot
  <2>2. Creating'
    BY <1>2, <1>7, <2>1 DEF Creating, CallersContext, NULL
  <2> QED BY <1>2, <1>4, <1>5, <1>6, <2>2 DEF ListInv, HarmOnlyBeforeLastStore
<1> QED BY <1>9, <1>10

LEMMA WalkPreserves ==
    ASSUME ListInv, WalkOn \/ WalkEnds PROVE ListInv' /\ ReadList' = ReadList
<1>1. ListTypes /\ Chained /\ Creating /\ Working /\ HarmOnlyBeforeLastStore
  BY DEF ListInv
<1>2. /\ create = "walk" /\ cpu.owner = caller /\ ~crashed
      /\ UNCHANGED <<next, head, made, caller, crashed, ticks_quantum, esp, tick_count,
                     scheduler_running, cpu>>
      /\ \/ create' = "walk" /\ tmp' = Follow(tmp)
         \/ create' = "link" /\ tmp' = tmp /\ Follow(tmp) = head
  BY DEF WalkOn, WalkEnds, InCreate, CreateLocals, pcbVars
<1>3. tmp \in 1..made /\ made \in Nat /\ made <= MaxPid
  BY <1>1, <1>2, Numbers DEF Creating, ListTypes
<1>4. Follow(tmp) = next[tmp]
  BY <1>3, Numbers DEF Follow
<1>5. next[tmp] \in 1..made
  <2>1. PICK i \in 1..made : ReadList[i] = tmp
    BY <1>1, <1>3 DEF Chained, Chain
  <2>2. next[tmp] # Wild
    BY <1>1, <1>2, <1>3, Numbers DEF Chained, Pid
  <2> QED BY <1>1, <2>1, <2>2, NextOnList, OnList
<1>6. Target = head
  BY <1>1, <1>2, CallerIsCurrent
<1>7. ListTypes'
  BY <1>1, <1>2 DEF ListTypes
<1>8. Chained' /\ ReadList' = ReadList
  BY <1>1, <1>2, OpenList
<1>9. Working'
  BY <1>1, <1>2 DEF Working
<1>10. CallersContext' = CallersContext /\ Target' = Target
  BY <1>2 DEF CallersContext, Target
<1>11. tmp' \in 1..made /\ (create' = "link" => next[tmp'] = Target)
  BY <1>2, <1>3, <1>4, <1>5, <1>6
<1>12. Creating'
  BY <1>1, <1>2, <1>10, <1>11 DEF Creating
<1> QED BY <1>2, <1>7, <1>8, <1>9, <1>12 DEF ListInv, HarmOnlyBeforeLastStore

\* What filling in a PCB leaves of the invariant.
LEMMA FilledKeeps ==
    ASSUME ListTypes, Working, made \in 0..(MaxPid - 1),
           NEW n \in Priorities, Filled(made + 1, n),
           head' = IF made = 0 THEN 1 ELSE head,
           made = 0 => cpu.owner = 0 /\ ~scheduler_running
    PROVE  /\ made' = made + 1 /\ made' \in 1..MaxPid
           /\ esp' \in [Pid -> S!Contexts] /\ ticks_quantum' \in [Pid -> Nat]
           /\ \A p \in Pid : p # made + 1 => esp'[p] = esp[p]
           /\ UNCHANGED <<caller, tmp, crashed, tick_count, scheduler_running, cpu>>
           /\ Working'
<1>1. /\ made' = made + 1 /\ made + 1 \in Pid /\ made' \in 1..MaxPid /\ made \in Nat
      /\ ticks_quantum' = [ticks_quantum EXCEPT ![made + 1] = n * QuantumUnit]
      /\ esp' = [esp EXCEPT ![made + 1] = S!Context(made + 1, 0)]
      /\ UNCHANGED <<caller, tmp, crashed, tick_count, scheduler_running, cpu>>
  BY Numbers DEF Filled, Pid
<1>2. S!Context(made + 1, 0) \in S!Contexts /\ S!Context(made + 1, 0).owner = made + 1
  BY <1>1 DEF S!Context, S!Contexts, S!Position, S!Boot, S!Pid, Pid
<1>3. n * QuantumUnit \in Nat /\ n * QuantumUnit >= QuantumUnit
  <2>1. PICK k \in Nat : n = k + 1
    <3>1. n - 1 \in Nat /\ n = (n - 1) + 1
      BY Numbers
    <3> QED BY <3>1
  <2>2. n * QuantumUnit = k * QuantumUnit + QuantumUnit /\ k * QuantumUnit \in Nat
    BY <2>1, Numbers
  <2> QED BY <2>2, Numbers
<1>4. esp' \in [Pid -> S!Contexts] /\ ticks_quantum' \in [Pid -> Nat]
  BY <1>1, <1>2, <1>3 DEF ListTypes
<1>5. \A p \in Pid : p # made + 1 => esp'[p] = esp[p] /\ ticks_quantum'[p] = ticks_quantum[p]
  BY <1>1 DEF ListTypes
<1>6. esp'[made + 1].owner = made + 1 /\ ticks_quantum'[made + 1] >= QuantumUnit
  BY <1>1, <1>2, <1>3 DEF ListTypes
<1>7. \A p \in 1..made' : p = made + 1 \/ (p \in 1..made /\ p \in Pid)
  BY <1>1, Numbers DEF Pid
<1>8. \A p \in 1..made' : /\ cpu.owner # p => esp'[p].owner = p
                          /\ ticks_quantum'[p] >= QuantumUnit
  BY <1>5, <1>6, <1>7 DEF Working
<1>9. cpu.owner # 0 => head' = head
  OBVIOUS
<1>10. Working'
  BY <1>1, <1>8, <1>9 DEF Working, S!Boot
<1> QED BY <1>1, <1>4, <1>5, <1>10

\* The first PCB leads to itself.
LEMMA LinkFirstPreserves ==
    ASSUME ListInv, NEW n \in Priorities, LinkFirst(n)
    PROVE  ListInv' /\ ReadList' = Append(ReadList, made + 1)
<1>1. ListTypes /\ Chained /\ Creating /\ Working /\ HarmOnlyBeforeLastStore
  BY DEF ListInv
<1>2. /\ create = "first" /\ cpu.owner = caller /\ ~crashed
      /\ next' = [next EXCEPT ![made + 1] = made + 1] /\ head' = made + 1
      /\ create' = "idle" /\ Filled(made + 1, n)
  BY DEF LinkFirst, InCreate
<1>3. made = 0 /\ caller = 0 /\ ~scheduler_running /\ made \in 0..(MaxPid - 1)
  BY <1>1, <1>2, Numbers DEF Creating, ListTypes, NULL
<1>4. /\ made' = 1 /\ UNCHANGED <<caller, tmp, crashed, tick_count, scheduler_running, cpu>>
      /\ esp' \in [Pid -> S!Contexts] /\ ticks_quantum' \in [Pid -> Nat]
      /\ Working'
  BY <1>1, <1>2, <1>3, FilledKeeps
<1>5. 1 \in Pid /\ next'[1] = 1 /\ \A p \in Pid : p # 1 => next'[p] = next[p]
  BY <1>1, <1>2, <1>3, Numbers DEF Pid, ListTypes
<1>6. ListTypes'
  <2>1. next' \in [Pid -> Pid \cup {Wild}]
    BY <1>1, <1>2, <1>3, <1>5 DEF ListTypes
  <2>2. head' \in 0..MaxPid /\ made' \in 0..MaxPid /\ caller' \in 0..MaxPid
    BY <1>1, <1>2, <1>3, <1>4, Numbers DEF ListTypes
  <2> QED BY <1>1, <1>2, <1>4, <2>1, <2>2 DEF ListTypes
<1>7. Closed' = next'
  BY <1>2 DEF Closed
<1>8. <<1>> \in Seq(Pid) /\ Len(<<1>>) = 1 /\ <<1>>[1] = 1
  BY <1>5
<1>9. Chain(<<1>>, made', head', Closed')
  BY <1>2, <1>3, <1>4, <1>5, <1>7, <1>8 DEF Chain
<1>10. ReadList' = <<1>> /\ Chain(ReadList', made', head', Closed')
  <2>1. made' \in Nat
    BY <1>4
  <2> QED BY <2>1, <1>9, NextList
<1>11. Chained'
  BY <1>1, <1>2, <1>3, <1>4, <1>5, <1>10, Numbers DEF Chained, Pid
<1>12. Creating'
  BY <1>2, <1>3 DEF Creating
<1>13. ReadList = <<>>
  BY <1>1, <1>3, OnList
<1>14. Append(ReadList, made + 1) = <<1>>
  BY <1>3, <1>13
<1> QED BY <1>4, <1>2, <1>6, <1>10, <1>11, <1>12, <1>14 DEF ListInv, HarmOnlyBeforeLastStore

\* From the store that makes the old tail lead to it the PCB is on the list,
\* behind all the others.
LEMMA LinkTailPreserves ==
    ASSUME ListInv, NEW n \in Priorities, LinkTail(n)
    PROVE  ListInv' /\ ReadList' = Append(ReadList, made + 1)
<1>1. ListTypes /\ Chained /\ Creating /\ Working /\ HarmOnlyBeforeLastStore
  BY DEF ListInv
<1>2. /\ create = "link" /\ cpu.owner = caller /\ ~crashed
      /\ next' = [next EXCEPT ![tmp] = made + 1] /\ head' = head
      /\ create' = "close" /\ Filled(made + 1, n)
  BY DEF LinkTail, InCreate
<1>3. /\ made > 0 /\ made \in 0..(MaxPid - 1) /\ made \in Nat
      /\ tmp \in 1..made /\ tmp \in Pid /\ next[tmp] = Target
  BY <1>1, <1>2, Numbers DEF Creating, ListTypes, Pid
<1>4. /\ made' = made + 1 /\ UNCHANGED <<caller, tmp, crashed, tick_count, scheduler_running, cpu>>
      /\ esp' \in [Pid -> S!Contexts] /\ ticks_quantum' \in [Pid -> Nat]
      /\ \A p \in Pid : p # made + 1 => esp'[p] = esp[p]
      /\ Working'
  BY <1>1, <1>2, <1>3, FilledKeeps
<1>5. made + 1 \in Pid
  BY <1>3, Numbers DEF Pid
<1>6. ListTypes'
  BY <1>1, <1>2, <1>3, <1>4, <1>5, Numbers DEF ListTypes, Pid
<1>7. Target = head
  BY <1>1, <1>2, CallerIsCurrent
<1>8. Closed = next
  BY <1>2 DEF Closed
<1>9. Closed' = [[next EXCEPT ![tmp] = made + 1] EXCEPT ![made + 1] = head]
  BY <1>2, <1>4, <1>7 DEF Closed, Target
<1>10. /\ ReadList \in Seq(Pid) /\ Len(ReadList) = made /\ ReadList[1] = head
       /\ \A i \in 1..made : ReadList[i] \in 1..made /\ ReadList[i] \in Pid
  BY <1>1, <1>3, OnList
<1>11. /\ \A i, j \in 1..made : ReadList[i] = ReadList[j] => i = j
       /\ \A p \in 1..made : \E i \in 1..made : ReadList[i] = p
       /\ \A i \in 1..(made - 1) : next[ReadList[i]] = ReadList[i + 1]
  BY <1>1, <1>8 DEF Chained, Chain
<1>12. ReadList[made] = tmp
  <2>1. PICK i \in 1..made : ReadList[i] = tmp
    BY <1>3, <1>11
  <2>2. i # made => i \in 1..(made - 1) /\ i + 1 \in 1..made /\ 1 \in 1..made /\ i + 1 # 1
    BY <1>3
  <2>3. i # made => ReadList[i + 1] = ReadList[1]
    BY <1>3, <1>7, <1>10, <1>11, <2>1, <2>2
  <2> QED BY <1>11, <2>1, <2>2, <2>3
<1>13. PICK r \in Seq(Pid) : r = Append(ReadList, made + 1)
  <2>1. PICK s \in Seq(Pid) : s = ReadList
    BY <1>10
  <2>2. Append(s, made + 1) \in Seq(Pid)
    BY <1>5
  <2> QED BY <2>1, <2>2
<1>14. /\ Len(r) = made + 1 /\ r[made + 1] = made + 1
       /\ \A i \in 1..made : r[i] = ReadList[i]
  BY <1>3, <1>10, <1>13
<1>15. Chain(r, made', head', Closed')
  <2>1. \A i \in 1..(made + 1) : i = made + 1 \/ i \in 1..made
    BY <1>3
  <2>2. \A i \in 1..(made + 1) : r[i] \in 1..(made + 1)
    <3>1. 1..made \subseteq 1..(made + 1) /\ made + 1 \in 1..(made + 1)
      BY <1>3
    <3> QED BY <1>10, <1>14, <2>1, <3>1
  <2>3. ASSUME NEW i \in 1..(made + 1), NEW j \in 1..(made + 1), r[i] = r[j] PROVE i = j
    <3>1. \A k \in 1..made : r[k] \in 1..made /\ made + 1 \notin 1..made
      BY <1>3, <1>10, <1>14
    <3>2. CASE i \in 1..made /\ j \in 1..made
      BY <1>11, <1>14, <2>3, <3>2
    <3>3. CASE i = made + 1 \/ j = made + 1
      BY <1>14, <2>1, <2>3, <3>1, <3>3
    <3> QED BY <2>1, <3>2, <3>3
  <2>4. ASSUME NEW p \in 1..(made + 1) PROVE \E i \in 1..(made + 1) : r[i] = p
    <3>1. CASE p = made + 1
      BY <1>14, <3>1
    <3>2. CASE p \in 1..made
      <4>1. PICK i \in 1..made : ReadList[i] = p
        BY <1>11, <3>2
      <4> QED BY <1>3, <1>14, <4>1
    <3> QED BY <2>1, <3>1, <3>2
  <2>5. r[1] = head /\ Closed'[r[made + 1]] = head
    BY <1>1, <1>3, <1>5, <1>9, <1>10, <1>14 DEF ListTypes
  <2>6. ASSUME NEW i \in 1..made PROVE Closed'[r[i]] = r[i + 1]
    <3>1. r[i] \in 1..made /\ r[i] \in Pid /\ r[i] # made + 1
      BY <1>3, <1>10, <1>14
    <3>2. CASE i = made
      BY <1>1, <1>3, <1>5, <1>9, <1>12, <1>14, <3>1, <3>2 DEF ListTypes
    <3>3. CASE i # made
      <4>1. i \in 1..(made - 1) /\ i + 1 \in 1..made /\ made \in 1..made
        BY <1>3, <3>3
      <4>2. r[i] # tmp
        BY <1>11, <1>12, <1>14, <3>3, <4>1
      <4>3. Closed'[r[i]] = next[r[i]]
        BY <1>1, <1>9, <3>1, <4>2 DEF ListTypes
      <4> QED BY <1>11, <1>14, <4>1, <4>3
    <3> QED BY <3>2, <3>3
  <2>7. (made + 1) - 1 = made
    BY <1>3
  <2> QED BY <1>2, <1>4, <1>14, <2>2, <2>3, <2>4, <2>5, <2>6, <2>7 DEF Chain
<1>16. ReadList' = r /\ Chain(ReadList', made', head', Closed')
  <2>1. made' \in Nat
    BY <1>3, <1>4
  <2> QED BY <2>1, <1>15, NextList
<1>17. Chained'
  <2>1. next'[made + 1] = Wild /\ next'[tmp] = made + 1 /\ made + 1 # Wild
    BY <1>1, <1>2, <1>3, <1>5, Numbers DEF ListTypes, Chained, Pid
  <2>2. \A p \in Pid : p # tmp => next'[p] = next[p]
    BY <1>1, <1>2 DEF ListTypes
  <2>3. ASSUME NEW p \in Pid
        PROVE  next'[p] = Wild <=> p > made + 1 \/ p = made + 1
    <3>1. next[p] = Wild <=> p > made
      BY <1>1, <1>2 DEF Chained
    <3>2. p \in Nat
      BY Numbers DEF Pid
    <3> QED BY <1>3, <2>1, <2>2, <3>1, <3>2
  <2>4. made' # 0
    BY <1>3, <1>4
  <2> QED BY <1>2, <1>4, <1>16, <2>3, <2>4 DEF Chained
<1>18. CallersContext' = CallersContext
  BY <1>1, <1>2, <1>4, <1>5, Numbers DEF CallersContext
<1>19. Creating'
  BY <1>1, <1>2, <1>3, <1>4, <1>18 DEF Creating
<1> QED BY <1>2, <1>4, <1>6, <1>13, <1>16, <1>17, <1>19 DEF ListInv, HarmOnlyBeforeLastStore

\* The last store writes what the list was read with.
LEMMA LinkNewPreserves ==
    ASSUME ListInv, LinkNew PROVE ListInv' /\ ReadList' = ReadList
<1>1. ListTypes /\ Chained /\ Creating /\ Working /\ HarmOnlyBeforeLastStore
  BY DEF ListInv
<1>2. /\ create = "close" /\ cpu.owner = caller /\ ~crashed
      /\ next' = [next EXCEPT ![made] = head] /\ create' = "idle"
      /\ UNCHANGED <<head, tmp, made, caller, crashed, esp, ticks_quantum, tick_count,
                     scheduler_running, cpu>>
  BY DEF LinkNew, InCreate, CreateLocals, pcbVars
<1>3. made > 0 /\ made \in Nat /\ made \in Pid
  BY <1>1, <1>2, Numbers DEF Creating, ListTypes, Pid
<1>4. Target = head /\ head \in 1..made
  BY <1>1, <1>2, <1>3, CallerIsCurrent, OnList
<1>5. Closed' = Closed
  BY <1>2, <1>4 DEF Closed, Target
<1>6. ReadList' = ReadList
  BY <1>2, <1>5, ReadingIs, ReadingIsNext
<1>7. ListTypes'
  <2>1. head \in Pid
    BY <1>1, <1>3, <1>4, Numbers DEF ListTypes, Pid
  <2>2. next' \in [Pid -> Pid \cup {Wild}]
    BY <1>1, <1>2, <1>3, <2>1 DEF ListTypes
  <2> QED BY <1>1, <1>2, <2>2 DEF ListTypes
<1>8. \A p \in Pid : next'[p] = Wild <=> p > made
  <2>1. next'[made] = head /\ head # Wild /\ \A p \in Pid : p # made => next'[p] = next[p]
    BY <1>1, <1>2, <1>3, <1>4, Numbers DEF ListTypes
  <2>2. \A p \in Pid : p \in Nat
    BY Numbers DEF Pid
  <2> QED BY <1>1, <1>2, <1>3, <2>1, <2>2 DEF Chained
<1>9. Chained'
  BY <1>1, <1>2, <1>3, <1>5, <1>6, <1>8 DEF Chained
<1>10. Creating'
  BY <1>2 DEF Creating
<1>11. Working'
  BY <1>1, <1>2 DEF Working
<1> QED BY <1>2, <1>6, <1>7, <1>9, <1>10, <1>11 DEF ListInv, HarmOnlyBeforeLastStore

-----------------------------------------------------------------------------
(* The search of scheduler_tick.                                           *)

\* The pointer of the search is followed once more at each hop.
LEMMA HopFollows ==
    ASSUME ListTypes, head \in Pid
    PROVE  /\ Hop[0] = Follow(head)
           /\ \A i \in 1..MAX_PROCESSES : Hop[i] = Follow(Hop[i - 1])
<1> DEFINE Hops(c) == c = [i \in 0..MAX_PROCESSES |-> Follow(IF i = 0 THEN head ELSE c[i - 1])]
<1>1. PICK T : T = Pid \cup {Wild}
  OBVIOUS
<1>2. PICK f \in [T -> T] : \A p \in T : f[p] = Follow(p)
  <2> DEFINE g == [p \in T |-> Follow(p)]
  <2>1. \A p \in T : Follow(p) \in T
    BY <1>1 DEF Follow, ListTypes
  <2>2. g \in [T -> T] /\ \A p \in T : g[p] = Follow(p)
    BY <2>1
  <2> HIDE DEF g
  <2> QED BY <2>2
<1>3. PICK n \in Nat : n = MAX_PROCESSES
  BY Numbers
<1>4. PICK x \in T : x = Follow(head)
  BY <1>1, <1>2
<1>5. PICK h \in [0..n -> T] : h[0] = x /\ \A i \in 1..n : h[i] = f[h[i - 1]]
  <2>1. \E h \in [0..n -> T] : Follows(h, f, x, n)
    BY HopsExist
  <2> QED BY <2>1 DEF Follows
<1>6. ASSUME NEW i \in 0..n PROVE h[i] = Follow(IF i = 0 THEN head ELSE h[i - 1])
  <2>1. CASE i = 0
    BY <1>4, <1>5, <2>1
  <2>2. CASE i # 0
    <3>1. i \in 1..n /\ i - 1 \in 0..n
      BY <2>2
    <3>2. h[i - 1] \in T
      BY <3>1
    <3> QED BY <1>2, <1>5, <2>2, <3>1, <3>2
  <2> QED BY <2>1, <2>2
<1>7. Hops(h)
  BY <1>3, <1>6
<1>8. Hops(CHOOSE c : Hops(c))
  <2> HIDE DEF Hops
  <2> QED BY <1>7, Zenon
<1>9. PICK c : Hops(c) /\ Hop = c
  <2>1. Hop = CHOOSE c : Hops(c)
    BY Zenon DEF Hop
  <2> QED BY <1>8, <2>1
<1>10. \A i \in 0..n : Hop[i] = Follow(IF i = 0 THEN head ELSE Hop[i - 1])
  BY <1>3, <1>9
<1>11. 0 \in 0..n /\ \A i \in 1..n : i \in 0..n /\ i # 0
  OBVIOUS
<1> QED BY <1>3, <1>10, <1>11

\* Counting round a circle of n.
LEMMA RoundAgain ==
    ASSUME NEW n \in Nat \ {0}, NEW x \in Nat
    PROVE  (x + 1) % n = IF (x % n) + 1 = n THEN 0 ELSE (x % n) + 1
<1>1. PICK q \in Nat, r \in Nat : q = x \div n /\ r = x % n /\ r < n /\ x = n * q + r
  BY Division
<1>2. CASE r + 1 = n
  <2>1. PICK p \in Nat : p = q + 1
    OBVIOUS
  <2>2. x + 1 = n * p + 0
    BY <1>1, <1>2, <2>1
  <2>3. (n * p + 0) % n = 0
    BY QuotientUnique
  <2> QED BY <1>1, <1>2, <2>2, <2>3
<1>3. CASE r + 1 # n
  <2>1. PICK s \in Nat : s = r + 1 /\ s < n
    BY <1>1, <1>3
  <2>2. x + 1 = n * q + s
    BY <1>1, <2>1
  <2>3. (n * q + s) % n = s
    BY <2>1, QuotientUnique
  <2> QED BY <1>1, <1>3, <2>1, <2>2, <2>3
<1> QED BY <1>2, <1>3

LEMMA CandidateStep ==
    ASSUME ListTypes, Chained, made > 0, NEW k \in Nat
    PROVE  /\ S!Candidate(k) \in 1..made
           /\ S!Candidate(0) = After(1)
           /\ S!Candidate(k + 1) = After(S!Candidate(k))
<1>1. PICK n \in Nat \ {0} : n = made /\ n = Len(ReadList)
  BY OnList
<1>2. \A i \in Nat : S!Candidate(i) = ((i + 1) % n) + 1
  BY <1>1 DEF S!Candidate
<1>3. PICK r \in Nat : r = (k + 1) % n /\ r < n
  BY <1>1
<1>4. ((k + 1) + 1) % n = IF r + 1 = n THEN 0 ELSE r + 1
  <2>1. PICK x \in Nat : x = k + 1
    OBVIOUS
  <2>2. (x + 1) % n = IF (x % n) + 1 = n THEN 0 ELSE (x % n) + 1
    BY RoundAgain
  <2> QED BY <1>3, <2>1, <2>2
<1>5. S!Candidate(k) = r + 1 /\ S!Candidate(k + 1) = After(r + 1)
  <2>1. S!Candidate(k) = r + 1 /\ S!Candidate(k + 1) = (((k + 1) + 1) % n) + 1
    BY <1>2, <1>3
  <2>2. PICK x : x = ((k + 1) + 1) % n
    OBVIOUS
  <2>3. x + 1 = After(r + 1)
    BY <1>1, <1>3, <1>4, <2>2 DEF After
  <2> QED BY <2>1, <2>2, <2>3
<1>6. S!Candidate(0) = After(1)
  <2>1. PICK x \in Nat : x = 0 /\ x % n = 0
    OBVIOUS
  <2>2. (x + 1) % n = IF (x % n) + 1 = n THEN 0 ELSE (x % n) + 1
    BY RoundAgain
  <2>3. S!Candidate(0) = ((0 + 1) % n) + 1
    BY <1>2
  <2> QED BY <1>1, <2>1, <2>2, <2>3 DEF After
<1> QED BY <1>1, <1>3, <1>5, <1>6

\* The search visits the PCBs in the order of the list, unless it meets the
\* pointer not yet stored.
LEMMA HopOnList ==
    ASSUME ListTypes, Chained, made > 0, NEW k \in 0..MAX_PROCESSES
    PROVE  /\ S!Candidate(k) \in 1..made
           /\ Hop[k] # Wild => Hop[k] = ReadList[S!Candidate(k)]
           /\ Hop[k] = Wild => create = "close"
<1> DEFINE Visits(i) == /\ Hop[i] # Wild => Hop[i] = ReadList[S!Candidate(i)]
                        /\ Hop[i] = Wild => create = "close"
<1>1. /\ made \in Nat /\ head \in 1..made /\ ReadList[1] = head /\ head \in Pid
      /\ \A i \in 1..made : ReadList[i] \in 1..made /\ ReadList[i] \in Pid
      /\ 1 \in 1..made
  BY OnList
<1>2. \A i \in 1..made : Follow(ReadList[i]) = next[ReadList[i]]
  BY <1>1, Numbers DEF Follow, Pid
<1>3. PICK n \in Nat : n = MAX_PROCESSES
  BY Numbers
<1>4. Hop[0] = Follow(head) /\ \A i \in 1..n : Hop[i] = Follow(Hop[i - 1])
  BY <1>1, <1>3, HopFollows
<1>5. Visits(0)
  <2>1. S!Candidate(0) = After(1)
    BY CandidateStep
  <2> QED BY <1>1, <1>2, <1>4, <2>1, NextOnList
<1>6. ASSUME NEW i \in 0..(n - 1), Visits(i) PROVE Visits(i + 1)
  <2>1. i + 1 \in 1..n /\ (i + 1) - 1 = i /\ i \in Nat
    OBVIOUS
  <2>2. Hop[i + 1] = Follow(Hop[i])
    BY <1>4, <2>1
  <2>3. CASE Hop[i] = Wild
    BY <1>6, <2>2, <2>3 DEF Follow
  <2>4. CASE Hop[i] # Wild
    <3>1. PICK j \in 1..made : j = S!Candidate(i) /\ S!Candidate(i + 1) = After(j)
      BY <2>1, CandidateStep
    <3>2. Hop[i + 1] = next[ReadList[j]]
      BY <1>2, <1>6, <2>2, <2>4, <3>1
    <3>3. /\ next[ReadList[j]] # Wild => next[ReadList[j]] = ReadList[After(j)]
          /\ next[ReadList[j]] = Wild => create = "close"
      BY NextOnList
    <3> QED BY <3>1, <3>2, <3>3
  <2> QED BY <2>3, <2>4
<1> HIDE DEF Visits
<1>7. PICK T : T = {i \in Nat : Visits(i)}
  OBVIOUS
<1>8. 0 \in T /\ \A i \in 0..(n - 1) : i \in T => i + 1 \in T
  BY <1>5, <1>6, <1>7
<1>9. \A i \in 0..n : i \in T
  BY <1>8, IntervalInduction
<1>10. S!Candidate(k) \in 1..made
  BY <1>3, CandidateStep
<1> QED BY <1>3, <1>7, <1>9, <1>10 DEF Visits

\* A search that ends at a PCB is the one of the sequence.
LEMMA SearchOnList ==
    ASSUME ListTypes, Chained, made > 0, NEW i \in 0..MAX_PROCESSES, SearchEnds(i), Hop[i] # Wild
    PROVE  /\ S!SearchEnds(i)
           /\ S!Candidate(i) \in 1..made /\ Hop[i] = ReadList[S!Candidate(i)]
<1>1. PICK n \in Nat : n = MAX_PROCESSES
  BY Numbers
<1>2. S!Candidate(i) \in 1..made /\ Hop[i] = ReadList[S!Candidate(i)]
  BY HopOnList
<1>3. ASSUME NEW k \in 0..(i - 1) PROVE S!Skipped(ReadList[S!Candidate(k)])
  <2>1. k \in 0..MAX_PROCESSES
    BY <1>1
  <2>2. Hop[k] # Wild /\ state[Hop[k]] \in {S!DEAD, S!BLOCKED}
    BY DEF SearchEnds, SearchReaches, Skipped
  <2> QED BY <2>1, <2>2, HopOnList DEF S!Skipped
<1>4. i = MAX_PROCESSES \/ ~S!Skipped(ReadList[S!Candidate(i)])
  BY <1>2 DEF SearchEnds, Skipped, S!Skipped
<1> QED BY <1>2, <1>3, <1>4 DEF S!SearchEnds

\* The chain read from another of its PCBs on.
LEMMA ChainRotates ==
    ASSUME NEW n \in Nat \ {0}, NEW s, NEW first, NEW pointer, Chain(s, n, first, pointer),
           NEW c \in 1..n
    PROVE  Chain(S!Rotate(s, c), n, s[c], pointer)
<1> DEFINE from(i) == IF i + c - 1 <= n THEN i + c - 1 ELSE i + c - 1 - n
<1>1. s \in Seq(Pid) /\ Len(s) = n /\ n > 0
  BY DEF Chain
<1>2. \A i \in 1..n : s[i] \in 1..n /\ s[i] \in Pid
  <2>1. \A i \in 1..n : s[i] \in 1..n
    BY Zenon DEF Chain
  <2> QED BY <1>1, <2>1
<1>3. pointer[s[n]] = s[1] /\ \A i \in 1..(n - 1) : pointer[s[i]] = s[i + 1]
  BY <1>1, Zenon DEF Chain
<1>4. PICK f \in [1..n -> 1..n] : \A i \in 1..n : f[i] = from(i)
  <2> DEFINE g == [i \in 1..n |-> from(i)]
  <2>1. g \in [1..n -> 1..n] /\ \A i \in 1..n : g[i] = from(i)
    OBVIOUS
  <2> HIDE DEF g, from
  <2> QED BY <2>1
<1>5. \A i, j \in 1..n : f[i] = f[j] => i = j
  <2>1. \A i, j \in 1..n : from(i) = from(j) => i = j
    OBVIOUS
  <2> HIDE DEF from
  <2> QED BY <1>4, <2>1
<1>6. ASSUME NEW j \in 1..n PROVE \E i \in 1..n : f[i] = j
  <2>1. CASE j >= c
    <3>1. j - c + 1 \in 1..n /\ from(j - c + 1) = j
      BY <2>1
    <3> QED BY <1>4, <3>1
  <2>2. CASE j < c
    <3>1. j - c + 1 + n \in 1..n /\ from(j - c + 1 + n) = j
      BY <2>2
    <3> QED BY <1>4, <3>1
  <2> QED BY <2>1, <2>2
<1>7. f[1] = c /\ pointer[s[f[n]]] = s[c]
  <2>1. f[1] = c /\ 1 \in 1..n /\ n \in 1..n
    BY <1>4
  <2>2. CASE c = 1
    BY <1>3, <1>4, <2>1, <2>2
  <2>3. CASE c # 1
    <3>1. f[n] = c - 1 /\ c - 1 \in 1..(n - 1) /\ (c - 1) + 1 = c
      BY <1>4, <2>1, <2>3
    <3> QED BY <1>3, <2>1, <3>1
  <2> QED BY <2>2, <2>3
<1>8. ASSUME NEW i \in 1..(n - 1) PROVE pointer[s[f[i]]] = s[f[i + 1]]
  <2>1. i \in 1..n /\ i + 1 \in 1..n
    OBVIOUS
  <2>2. CASE from(i) = n
    <3>1. from(i + 1) = 1
      BY <2>2
    <3>2. f[i] = n /\ f[i + 1] = 1
      BY <1>4, <2>1, <2>2, <3>1
    <3> QED BY <1>3, <3>2
  <2>3. CASE from(i) # n
    <3>1. from(i) \in 1..(n - 1) /\ from(i + 1) = from(i) + 1
      BY <2>1, <2>3
    <3>2. f[i] = from(i) /\ f[i + 1] = from(i + 1)
      BY <1>4, <2>1
    <3> HIDE DEF from
    <3> QED BY <1>3, <3>1, <3>2
  <2> QED BY <2>2, <2>3
<1>9. PICK r \in Seq(Pid) : r = S!Rotate(s, c) /\ Len(r) = n /\ \A i \in 1..n : r[i] = s[f[i]]
  <2>1. S!Rotate(s, c) = [i \in 1..n |-> IF i + c - 1 <= n THEN s[i + c - 1] ELSE s[i + c - 1 - n]]
    BY <1>1 DEF S!Rotate
  <2>2. \A i \in 1..n :
          (IF i + c - 1 <= n THEN s[i + c - 1] ELSE s[i + c - 1 - n]) = s[f[i]]
    BY <1>4
  <2>3. S!Rotate(s, c) = [i \in 1..n |-> s[f[i]]]
    BY <2>1, <2>2, Zenon
  <2>4. S!Rotate(s, c) \in [1..n -> Pid]
    BY <1>2, <2>3
  <2>5. S!Rotate(s, c) \in Seq(Pid) /\ Len(S!Rotate(s, c)) = n
    BY <2>3, <2>4
  <2> QED BY <2>3, <2>5
<1>10. \A i \in 1..n : r[i] \in 1..n
  BY <1>2, <1>9
<1>11. ASSUME NEW i \in 1..n, NEW j \in 1..n, r[i] = r[j] PROVE i = j
  <2>1. PICK k \in 1..n, l \in 1..n : k = f[i] /\ l = f[j]
    OBVIOUS
  <2>2. s[k] = s[l]
    BY <1>9, <1>11, <2>1
  <2>3. k = l
    BY <2>2 DEF Chain
  <2> QED BY <1>5, <2>1, <2>3
<1>12. ASSUME NEW p \in 1..n PROVE \E i \in 1..n : r[i] = p
  <2>1. PICK j \in 1..n : s[j] = p
    BY DEF Chain
  <2>2. PICK i \in 1..n : f[i] = j
    BY <1>6
  <2> QED BY <1>9, <2>1, <2>2
<1>13. r[1] = s[c] /\ pointer[r[n]] = s[c]
  BY <1>7, <1>9
<1>14. \A i \in 1..(n - 1) : i \in 1..n /\ i + 1 \in 1..n
  OBVIOUS
<1>15. \A i \in 1..(n - 1) : pointer[r[i]] = r[i + 1]
  BY <1>8, <1>9, <1>14
<1>16. Chain(r, n, s[c], pointer)
  BY <1>9, <1>10, <1>11, <1>12, <1>13, <1>15 DEF Chain
<1> QED BY <1>9, <1>16

-----------------------------------------------------------------------------
(* Ticks preserve the invariant.                                           *)

LEMMA TickFacts ==
    ASSUME ListInv, TickTaken
    PROVE  /\ scheduler_running /\ made > 0 /\ head \in 1..made /\ head \in Pid
           /\ ~crashed
           /\ create # "idle" => caller \in 1..made
           /\ cpu.owner = 0 => tick_count < StartTicks
           /\ UNCHANGED <<next, made, create, caller, tmp, ticks_quantum, scheduler_running>>
<1>1. ListTypes /\ Chained /\ Creating /\ Working
  BY DEF ListInv
<1>2. /\ scheduler_running /\ ~crashed
      /\ cpu.owner = 0 => tick_count < StartTicks
      /\ UNCHANGED <<next, made, create, caller, tmp, ticks_quantum, scheduler_running>>
  BY DEF TickTaken, S!Boot
<1>3. made > 0
  BY <1>1, <1>2 DEF Working
<1>4. head \in 1..made /\ head \in Pid
  BY <1>1, <1>3, OnList, Numbers DEF ListTypes, Pid
<1>5. create # "idle" => caller \in 1..made
  BY <1>1, <1>2 DEF Creating
<1> QED BY <1>2, <1>3, <1>4, <1>5

\* A quantum does not end while the processor still runs kernel_main.
LEMMA EndOfQuantum ==
    ASSUME ListInv, QuantumEnds
    PROVE  /\ cpu.owner = head /\ cpu.owner # 0
           /\ tick_count' = 0 /\ esp' = [esp EXCEPT ![head] = cpu]
           /\ esp' \in [Pid -> S!Contexts] /\ esp'[head] = cpu
           /\ \A p \in Pid : p # head => esp'[p] = esp[p]
<1>1. ListTypes /\ Working
  BY DEF ListInv
<1>2. /\ TickTaken /\ tick_count + 1 >= ticks_quantum[head]
      /\ tick_count' = 0 /\ esp' = [esp EXCEPT ![head] = cpu]
  BY DEF QuantumEnds
<1>3. head \in 1..made /\ head \in Pid
  BY <1>2, TickFacts
<1>4. ticks_quantum[head] >= QuantumUnit /\ ticks_quantum[head] \in Nat /\ tick_count \in Nat
  BY <1>1, <1>3 DEF Working, ListTypes
<1>5. cpu.owner # 0
  BY <1>2, <1>4, TickFacts, Numbers
<1>6. cpu.owner = head
  BY <1>1, <1>5 DEF Working, S!Boot
<1> QED BY <1>1, <1>2, <1>3, <1>5, <1>6 DEF ListTypes

LEMMA InQuantumPreserves ==
    ASSUME ListInv, InQuantum PROVE ListInv' /\ ReadList' = ReadList
<1>1. ListTypes /\ Chained /\ Creating /\ Working
  BY DEF ListInv
<1>2. /\ TickTaken /\ tick_count' = tick_count + 1
      /\ UNCHANGED <<head, crashed, esp, cpu>>
  BY DEF InQuantum
<1>3. /\ scheduler_running /\ made > 0 /\ ~crashed
      /\ cpu.owner = 0 => tick_count < StartTicks
      /\ UNCHANGED <<next, made, create, caller, tmp, ticks_quantum, scheduler_running>>
  BY <1>2, TickFacts
<1>4. ReadList' = ReadList /\ Closed' = Closed
  BY <1>2, <1>3, ListSame
<1>5. Chained'
  BY <1>1, <1>2, <1>3, <1>4, ChainSame
<1>6. tick_count' \in Nat /\ (cpu.owner = 0 => tick_count' <= StartTicks)
  BY <1>1, <1>2, <1>3, Numbers DEF ListTypes
<1>7. ListTypes'
  BY <1>1, <1>2, <1>3, <1>6 DEF ListTypes
<1>8. Creating'
  BY <1>1, <1>2, <1>3 DEF Creating, CallersContext, Target
<1>9. Working'
  BY <1>1, <1>2, <1>3, <1>6 DEF Working, S!Boot
<1> QED BY <1>2, <1>3, <1>4, <1>5, <1>7, <1>8, <1>9 DEF ListInv, HarmOnlyBeforeLastStore

\* A tick at the end of a quantum that leaves the processor where it is, or
\* goes wrong.
LEMMA KeepsPreserves ==
    ASSUME ListInv, Keeps \/ FollowsWild PROVE ListInv' /\ ReadList' = ReadList
<1>1. ListTypes /\ Chained /\ Creating /\ Working
  BY DEF ListInv
<1>2. /\ QuantumEnds /\ UNCHANGED <<head, cpu>>
      /\ \/ crashed' = crashed
         \/ crashed' = TRUE /\ \E i \in 0..MAX_PROCESSES : Hop[i] = Wild
  BY DEF Keeps, FollowsWild
<1>3. /\ cpu.owner = head /\ cpu.owner # 0
      /\ tick_count' = 0 /\ esp' \in [Pid -> S!Contexts] /\ esp'[head] = cpu
      /\ \A p \in Pid : p # head => esp'[p] = esp[p]
  BY <1>2, EndOfQuantum
<1>4. TickTaken
  BY <1>2 DEF QuantumEnds
<1>5. /\ scheduler_running /\ made > 0 /\ ~crashed
      /\ create # "idle" => caller \in 1..made
      /\ UNCHANGED <<next, made, create, caller, tmp, ticks_quantum, scheduler_running>>
  BY <1>4, TickFacts
<1>6. ReadList' = ReadList /\ Closed' = Closed
  BY <1>2, <1>5, ListSame
<1>7. Chained'
  BY <1>1, <1>2, <1>5, <1>6, ChainSame
<1>8. ListTypes'
  BY <1>1, <1>2, <1>3, <1>5 DEF ListTypes
<1>9. \A p \in 1..made : p \in Pid
  BY <1>1, Numbers DEF Pid, ListTypes
<1>10. create # "idle" => CallersContext' = CallersContext
  BY <1>2, <1>3, <1>5, <1>9 DEF CallersContext
<1>11. Creating'
  BY <1>1, <1>2, <1>5, <1>10 DEF Creating, Target
<1>12. Working'
  BY <1>1, <1>2, <1>3, <1>5, <1>9 DEF Working, S!Boot
<1>13. HarmOnlyBeforeLastStore'
  BY <1>1, <1>2, <1>5, HopOnList DEF HarmOnlyBeforeLastStore
<1> QED BY <1>6, <1>7, <1>8, <1>11, <1>12, <1>13 DEF ListInv

\* A switch starts the list at the process that gets the processor.
LEMMA SwitchPreserves ==
    ASSUME ListInv, Switches
    PROVE  /\ ListInv'
           /\ \E i \in 0..MAX_PROCESSES :
                /\ S!SearchEnds(i) /\ S!Candidate(i) \in 1..made
                /\ ReadList[S!Candidate(i)] # head /\ state[ReadList[S!Candidate(i)]] # S!DEAD
                /\ state' = [state EXCEPT ![head] = S!READY,
                                          ![ReadList[S!Candidate(i)]] = S!RUNNING]
                /\ ReadList' = S!Rotate(ReadList, S!Candidate(i))
                /\ cpu' = esp[ReadList[S!Candidate(i)]]
<1>1. ListTypes /\ Chained /\ Creating /\ Working
  BY DEF ListInv
<1>2. PICK i \in 0..MAX_PROCESSES :
        /\ SearchEnds(i) /\ Hop[i] # Wild /\ Hop[i] # head /\ state[Hop[i]] # S!DEAD
        /\ state' = [state EXCEPT ![head] = S!READY, ![Hop[i]] = S!RUNNING]
        /\ head' = Hop[i] /\ cpu' = esp[Hop[i]]
  BY DEF Switches
<1>3. QuantumEnds /\ TickTaken /\ crashed' = crashed
  BY DEF Switches, QuantumEnds
<1>4. /\ cpu.owner = head /\ cpu.owner # 0
      /\ tick_count' = 0 /\ esp' \in [Pid -> S!Contexts] /\ esp'[head] = cpu
      /\ \A p \in Pid : p # head => esp'[p] = esp[p]
  BY <1>3, EndOfQuantum
<1>5. /\ scheduler_running /\ made > 0 /\ ~crashed /\ head \in 1..made /\ head \in Pid
      /\ create # "idle" => caller \in 1..made
      /\ UNCHANGED <<next, made, create, caller, tmp, ticks_quantum, scheduler_running>>
  BY <1>3, TickFacts
<1>6. PICK c \in 1..made : c = S!Candidate(i) /\ Hop[i] = ReadList[c] /\ S!SearchEnds(i)
  BY <1>1, <1>2, <1>5, SearchOnList
<1>7. PICK to \in 1..made : to = ReadList[c] /\ to \in Pid /\ to # 0
  BY <1>1, OnList
<1>8. head' = to /\ cpu' = esp[to] /\ to # head
  BY <1>2, <1>6, <1>7
<1>9. cpu'.owner = to /\ cpu' \in S!Contexts
  BY <1>1, <1>4, <1>7, <1>8 DEF Working, ListTypes
<1>10. \A p \in 1..made : p \in Pid
  BY <1>1, Numbers DEF Pid, ListTypes
<1>11. ListTypes'
  <2>1. head' \in 0..MaxPid
    BY <1>7, <1>8, Numbers DEF Pid
  <2> QED BY <1>1, <1>4, <1>5, <1>9, <2>1 DEF ListTypes
<1>12. create # "idle" => CallersContext' = CallersContext /\ Target' = Target
  <2>1. ASSUME create # "idle", caller = to PROVE CallersContext' = CallersContext
    BY <1>4, <1>5, <1>8, <1>9, <2>1 DEF CallersContext
  <2>2. ASSUME create # "idle", caller = head PROVE CallersContext' = CallersContext
    BY <1>4, <1>5, <1>8, <1>9, <2>2 DEF CallersContext
  <2>3. ASSUME create # "idle", caller # to, caller # head
        PROVE  CallersContext' = CallersContext
    BY <1>4, <1>5, <1>9, <1>10, <2>3 DEF CallersContext
  <2>4. create # "idle" => caller # 0
    BY <1>1, <1>5 DEF ListTypes
  <2> QED BY <1>5, <2>1, <2>2, <2>3, <2>4 DEF Target, NULL
<1>13. Closed' = Closed
  <2>1. create = "close" => caller # 0
    BY <1>1, <1>5 DEF ListTypes
  <2> QED BY <1>5, <2>1 DEF Closed, NULL
<1>14. ReadList' = S!Rotate(ReadList, c) /\ Chain(ReadList', made', head', Closed')
  <2>1. PICK n \in Nat \ {0} : n = made
    BY <1>5, <1>1, OnList
  <2>2. Chain(ReadList, n, head, Closed) /\ c \in 1..n
    BY <1>1, <2>1 DEF Chained
  <2>3. Chain(S!Rotate(ReadList, c), n, ReadList[c], Closed)
    BY <2>2, ChainRotates
  <2>4. Chain(S!Rotate(ReadList, c), made', head', Closed') /\ made' \in Nat
    BY <1>5, <1>7, <1>8, <1>13, <2>1, <2>3
  <2> QED BY <2>4, NextList
<1>15. Chained'
  BY <1>1, <1>5, <1>14 DEF Chained
<1>16. Creating'
  BY <1>1, <1>5, <1>12 DEF Creating
<1>17. Working'
  <2>1. ASSUME NEW p \in 1..made, p # to PROVE esp'[p].owner = p
    <3>1. CASE p = head
      BY <1>4, <3>1
    <3>2. CASE p # head
      BY <1>1, <1>4, <1>10, <3>2 DEF Working
    <3> QED BY <3>1, <3>2
  <2> QED BY <1>1, <1>4, <1>5, <1>7, <1>8, <1>9, <2>1 DEF Working, S!Boot
<1>18. ListInv'
  BY <1>3, <1>5, <1>11, <1>15, <1>16, <1>17 DEF ListInv, HarmOnlyBeforeLastStore
<1> QED BY <1>2, <1>6, <1>14, <1>18

-----------------------------------------------------------------------------
(* The steps that leave the list alone.                                    *)

LEMMA ElsewherePreserves ==
    ASSUME ListInv, Elsewhere PROVE ListInv' /\ ReadList' = ReadList
<1>1. ListTypes /\ Chained /\ Creating /\ Working
  BY DEF ListInv
<1>2. /\ ~crashed
      /\ create = "idle" \/ cpu.owner # caller
      /\ UNCHANGED <<next, head, made, create, caller, tmp, crashed>>
  BY DEF Elsewhere, listVars
<1>3. ReadList' = ReadList /\ Closed' = Closed
  BY <1>2, ListSame
<1>4. Chained'
  BY <1>1, <1>2, <1>3, ChainSame
<1>5. HarmOnlyBeforeLastStore'
  BY <1>2 DEF HarmOnlyBeforeLastStore
<1>6. S!current_process = head
  BY <1>1, OnList
<1>7. CASE \/ \E p \in Pid : S!process_block(p) \/ S!process_unblock(p)
           \/ S!process_exit \/ S!Advance
  <2>1. /\ UNCHANGED <<ticks_quantum, esp, tick_count, scheduler_running>>
        /\ cpu.owner # 0 /\ cpu.at # S!Halted
        /\ \/ cpu' = cpu
           \/ cpu' = [cpu EXCEPT !.at = S!Halted]
           \/ cpu' = [cpu EXCEPT !.at = 1 - cpu.at]
    BY <1>7 DEF S!process_block, S!process_unblock, S!process_exit, S!Advance, S!Executes, S!Boot
  <2>2. cpu' \in S!Contexts /\ cpu'.owner = cpu.owner
    BY <1>1, <2>1 DEF ListTypes, S!Contexts, S!Position, S!Halted
  <2>3. ListTypes'
    BY <1>1, <1>2, <2>1, <2>2 DEF ListTypes
  <2>4. Working'
    BY <1>1, <1>2, <2>1, <2>2 DEF Working
  <2>5. create # "idle" => CallersContext' = CallersContext
    BY <1>2, <2>1, <2>2 DEF CallersContext
  <2>6. Creating'
    BY <1>1, <1>2, <2>1, <2>5 DEF Creating, Target
  <2> QED BY <1>3, <1>4, <1>5, <2>3, <2>4, <2>6 DEF ListInv
<1>8. CASE S!scheduler_start
  <2>1. /\ UNCHANGED <<ticks_quantum, esp, tick_count, cpu>>
        /\ scheduler_running' = TRUE /\ head # 0 /\ cpu.owner = 0 /\ ~scheduler_running
    BY <1>6, <1>8 DEF S!scheduler_start, S!BootExecutes, S!Boot, S!NULL
  <2>2. made > 0
    BY <1>1, <2>1 DEF Chained, ListTypes, NULL
  <2>3. create # "idle" => caller # 0
    BY <1>2, <2>1
  <2>4. scheduler_running' \in BOOLEAN
    BY <2>1, Zenon
  <2>5. ListTypes'
    BY <1>1, <1>2, <2>1, <2>4 DEF ListTypes
  <2>6. Working'
    BY <1>1, <1>2, <2>1, <2>2 DEF Working
  <2>7. Creating'
    BY <1>1, <1>2, <2>1, <2>3 DEF Creating, Target, CallersContext, NULL
  <2> QED BY <1>3, <1>4, <1>5, <2>5, <2>6, <2>7 DEF ListInv
<1>9. CASE S!LoadFirst
  <2>1. /\ UNCHANGED <<ticks_quantum, esp, tick_count, scheduler_running>>
        /\ scheduler_running /\ cpu.owner = 0 /\ cpu' = esp[head]
    BY <1>6, <1>9 DEF S!LoadFirst, S!Boot
  <2>2. made > 0 /\ head \in 1..made /\ head \in Pid
    BY <1>1, <2>1, OnList, Numbers DEF Working, ListTypes, Pid
  <2>3. cpu' \in S!Contexts /\ cpu'.owner = head
    BY <1>1, <2>1, <2>2 DEF Working, ListTypes
  <2>4. ListTypes'
    BY <1>1, <1>2, <2>1, <2>3 DEF ListTypes
  <2>5. Working'
    BY <1>1, <1>2, <2>1, <2>2, <2>3 DEF Working, S!Boot
  <2>6. create # "idle" => CallersContext' = CallersContext
    BY <1>2, <2>1, <2>3 DEF CallersContext
  <2>7. Creating'
    BY <1>1, <1>2, <2>1, <2>6 DEF Creating, Target
  <2> QED BY <1>3, <1>4, <1>5, <2>4, <2>5, <2>7 DEF ListInv
<1> QED BY <1>7, <1>8, <1>9 DEF Elsewhere

LEMMA StutterPreserves ==
    ASSUME ListInv, UNCHANGED allVars PROVE ListInv' /\ ReadList' = ReadList
<1>1. UNCHANGED <<next, head, made, create, caller, tmp, crashed, state, ticks_quantum,
                  ticks_total, esp, tick_count, scheduler_running, cpu, position>>
  BY DEF allVars, listVars, pcbVars
<1>2. ReadList' = ReadList /\ Closed' = Closed
  BY <1>1, ListSame
<1>3. Chained'
  BY <1>1, <1>2, ChainSame DEF ListInv
<1> QED BY <1>1, <1>2, <1>3
        DEF ListInv, ListTypes, Creating, Working, HarmOnlyBeforeLastStore,
            CallersContext, Target

LEMMA ListInvStep == ListInv /\ [ListNext]_allVars => ListInv'
<1> SUFFICES ASSUME ListInv, [ListNext]_allVars PROVE ListInv'
  OBVIOUS
<1>1. CASE Allocate
  BY <1>1, AllocatePreserves
<1>2. CASE CreateSteps
  <2>1. ASSUME NEW n \in Priorities, LinkFirst(n) PROVE ListInv'
    BY <2>1, LinkFirstPreserves
  <2>2. ASSUME NEW n \in Priorities, LinkTail(n) PROVE ListInv'
    BY <2>2, LinkTailPreserves
  <2>3. CASE WalkOn \/ WalkEnds
    BY <2>3, WalkPreserves
  <2>4. CASE LinkNew
    BY <2>4, LinkNewPreserves
  <2> QED BY <1>2, <2>1, <2>2, <2>3, <2>4 DEF CreateSteps
<1>3. CASE InQuantum
  BY <1>3, InQuantumPreserves
<1>4. CASE Keeps \/ FollowsWild
  BY <1>4, KeepsPreserves
<1>5. CASE Switches
  BY <1>5, SwitchPreserves
<1>6. CASE Elsewhere
  BY <1>6, ElsewherePreserves
<1>7. CASE UNCHANGED allVars
  BY <1>7, StutterPreserves
<1> QED BY <1>1, <1>2, <1>3, <1>4, <1>5, <1>6, <1>7 DEF ListNext, TickStep

-----------------------------------------------------------------------------
(* Going round the list.                                                   *)

LEMMA RoundTheList ==
    ASSUME ListTypes, Chained, create = "idle", NEW p \in 1..made
    PROVE  LET from[i \in 0..made] == IF i = 0 THEN p ELSE next[from[i - 1]]
           IN  /\ \A q \in 1..made : \E i \in 0..(made - 1) : from[i] = q
               /\ from[made] = p
<1> DEFINE From(c) == c = [i \in 0..made |-> IF i = 0 THEN p ELSE next[c[i - 1]]]
           Round(c) == /\ \A q \in 1..made : \E i \in 0..(made - 1) : c[i] = q
                       /\ c[made] = p
<1>1. /\ made \in Nat /\ made > 0
      /\ \A i \in 1..made : ReadList[i] \in 1..made /\ ReadList[i] \in Pid
  BY OnList
<1>2. \A q \in 1..made : \E i \in 1..made : ReadList[i] = q
  BY DEF Chained, Chain
<1>3. PICK j \in 1..made : ReadList[j] = p
  BY <1>2
<1>4. \A i \in 1..made : After(i) \in 1..made /\ next[ReadList[i]] = ReadList[After(i)]
  BY NextOnList
<1> DEFINE at(i) == IF i + j <= made THEN i + j ELSE i + j - made
           g == [i \in 0..made |-> ReadList[at(i)]]
<1>5. \A i \in 0..made : at(i) \in 1..made
  BY <1>1
<1>6. at(0) = j /\ at(made) = j /\ 0 \in 0..made /\ made \in 0..made
  BY <1>1
<1>7. \A i \in 0..made : i # 0 =>
        i - 1 \in 0..(made - 1) /\ i - 1 \in 0..made /\ at(i) = After(at(i - 1))
  BY <1>1 DEF After
<1>8. ASSUME NEW l \in 1..made PROVE \E i \in 0..(made - 1) : i \in 0..made /\ at(i) = l
  <2>1. CASE l >= j
    <3>1. l - j \in 0..(made - 1) /\ l - j \in 0..made /\ at(l - j) = l
      BY <1>1, <2>1
    <3> QED BY <3>1
  <2>2. CASE l < j
    <3>1. /\ l - j + made \in 0..(made - 1) /\ l - j + made \in 0..made
          /\ at(l - j + made) = l
      BY <1>1, <2>2
    <3> QED BY <3>1
  <2> QED BY <2>1, <2>2
<1> HIDE DEF at
<1>9. \A i \in 0..made : g[i] = ReadList[at(i)]
  OBVIOUS
<1> HIDE DEF g
<1>10. \A i \in 0..made : g[i] = IF i = 0 THEN p ELSE next[g[i - 1]]
  <2> SUFFICES ASSUME NEW i \in 0..made, i # 0 PROVE g[i] = next[g[i - 1]]
    BY <1>3, <1>6, <1>9
  <2>1. PICK l \in 1..made : l = at(i - 1)
    BY <1>5, <1>7
  <2>2. g[i - 1] = ReadList[l] /\ g[i] = ReadList[After(l)]
    BY <1>7, <1>9, <2>1
  <2> QED BY <1>4, <2>2
<1>11. Round(g)
  <2>1. ASSUME NEW q \in 1..made PROVE \E i \in 0..(made - 1) : g[i] = q
    <3>1. PICK l \in 1..made : ReadList[l] = q
      BY <1>2
    <3>2. PICK i \in 0..(made - 1) : i \in 0..made /\ at(i) = l
      BY <1>8
    <3> QED BY <1>9, <3>1, <3>2
  <2>2. g[made] = p
    BY <1>3, <1>6, <1>9
  <2> QED BY <2>1, <2>2
<1>12. From(g)
  <2>1. g = [i \in 0..made |-> g[i]]
    BY DEF g
  <2> QED BY <1>10, <2>1
<1>13. From(CHOOSE c : From(c))
  <2> HIDE DEF From
  <2> QED BY <1>12, Zenon
<1>14. PICK c : From(c) /\ c = CHOOSE d : From(d)
  BY <1>13
<1>15. \A i \in 0..made : c[i] = IF i = 0 THEN p ELSE next[c[i - 1]]
  BY <1>14
<1>16. \A i \in 0..made : c[i] = g[i]
  <2>1. PICK T : T = {i \in Nat : c[i] = g[i]}
    OBVIOUS
  <2>2. 0 \in T
    BY <1>6, <1>10, <1>15, <2>1
  <2>3. ASSUME NEW i \in 0..(made - 1), i \in T PROVE i + 1 \in T
    <3>1. i + 1 \in 0..made /\ i + 1 # 0 /\ (i + 1) - 1 = i /\ i + 1 \in Nat
      BY <1>1
    <3>2. c[i + 1] = next[c[i]] /\ g[i + 1] = next[g[i]]
      BY <1>10, <1>15, <3>1
    <3> QED BY <2>1, <2>3, <3>1, <3>2
  <2>4. \A i \in 0..made : i \in T
    BY <1>1, <2>2, <2>3, IntervalInduction
  <2> QED BY <2>1, <2>4
<1>17. Round(c)
  <2>1. \A i \in 0..(made - 1) : i \in 0..made
    BY <1>1
  <2> QED BY <1>6, <1>11, <1>16, <2>1
<1> HIDE DEF Round
<1>18. Round(CHOOSE d : From(d))
  BY <1>14, <1>17
<1> QED BY <1>18, Zenon DEF Round

\* Whenever process_create is not at work the list is one cycle of all PCBs:
\* from any of them the pointers lead through all the others and back
\* (process.c 59-67).
THEOREM ListIsOneCycle == ListSpec => []OneCycle
<1>1. ListInit => ListInv
  BY ListInvInitially
<1>2. ListInv /\ [ListNext]_allVars => ListInv'
  BY ListInvStep
<1>3. ListInv => OneCycle
  <2> SUFFICES ASSUME ListInv, create = "idle", NEW p \in 1..made
               PROVE  LET from[i \in 0..made] == IF i = 0 THEN p ELSE next[from[i - 1]]
                      IN  /\ \A q \in 1..made : \E i \in 0..(made - 1) : from[i] = q
                          /\ from[made] = p
    BY Zenon DEF OneCycle
  <2>1. ListTypes /\ Chained
    BY DEF ListInv
  <2> QED BY <2>1, RoundTheList, Zenon
<1> QED BY <1>1, <1>2, <1>3, PTL DEF ListSpec

\* A tick follows an unwritten pointer only between the last two stores of
\* process_create (process.c 65-66), however many PCBs there are and however
\* far the search goes.
THEOREM HarmIsBeforeLastStore == ListSpec => []HarmOnlyBeforeLastStore
<1>1. ListInit => ListInv
  BY ListInvInitially
<1>2. ListInv /\ [ListNext]_allVars => ListInv'
  BY ListInvStep
<1>3. ListInv => HarmOnlyBeforeLastStore
  BY DEF ListInv
<1> QED BY <1>1, <1>2, <1>3, PTL DEF ListSpec

-----------------------------------------------------------------------------
(* The pointers implement the sequence.                                    *)

\* The store that puts a PCB on the list is the creation of Scheduler.
LEMMA LinkIsCreation ==
    ASSUME ListInv, made < MaxPid, create # "idle", cpu.owner = caller,
           NEW n \in Priorities, Filled(made + 1, n),
           ReadList' = Append(ReadList, made + 1)
    PROVE  S!process_create(n)
<1>1. ListTypes /\ Chained /\ Creating /\ Working
  BY DEF ListInv
<1>2. S!next_pid = made + 1 /\ Len(ReadList) < MaxPid
  BY <1>1, OnList DEF S!next_pid
<1>3. S!BootExecutes \/ S!Executes(S!current_process)
  BY <1>1, CallerIsCurrent
<1> QED BY <1>2, <1>3 DEF S!process_create, Filled

LEMMA StepImplementsRing ==
    ListInv /\ [ListNext]_allVars => crashed' \/ [S!Next]_(S!vars)
<1> SUFFICES ASSUME ListInv, [ListNext]_allVars PROVE crashed' \/ [S!Next]_(S!vars)
  OBVIOUS
<1>1. ListTypes /\ Chained /\ Creating /\ Working
  BY DEF ListInv
<1>2. S!current_process = head
  BY <1>1, OnList
<1>3. CASE Allocate \/ WalkOn \/ WalkEnds \/ LinkNew \/ UNCHANGED allVars
  <2>1. ReadList' = ReadList
    BY <1>3, AllocatePreserves, WalkPreserves, LinkNewPreserves, StutterPreserves
  <2>2. UNCHANGED <<state, ticks_quantum, ticks_total, esp, tick_count,
                    scheduler_running, cpu, position>>
    BY <1>3 DEF Allocate, WalkOn, WalkEnds, LinkNew, CreateLocals, allVars, pcbVars
  <2> QED BY <2>1, <2>2 DEF S!vars
<1>4. ASSUME NEW n \in Priorities, LinkFirst(n) \/ LinkTail(n) PROVE S!Next
  <2>1. ReadList' = Append(ReadList, made + 1)
    BY <1>4, LinkFirstPreserves, LinkTailPreserves
  <2>2. create \in {"first", "link"} /\ cpu.owner = caller /\ Filled(made + 1, n)
    BY <1>4 DEF LinkFirst, LinkTail, InCreate
  <2>3. made < MaxPid /\ create # "idle"
    BY <1>1, <2>2 DEF Creating
  <2>4. S!process_create(n)
    BY <2>1, <2>2, <2>3, LinkIsCreation
  <2> QED BY <2>4 DEF S!Next
<1>5. CASE InQuantum
  <2>1. ReadList' = ReadList
    BY <1>5, InQuantumPreserves
  <2>2. S!TickInQuantum
    BY <1>2, <1>5, <2>1 DEF InQuantum, TickTaken, S!TickInQuantum, S!Tick
  <2> QED BY <2>2 DEF S!Next, S!scheduler_tick
<1>6. ASSUME QuantumEnds PROVE S!QuantumEnds
  BY <1>2, <1>6 DEF QuantumEnds, TickTaken, S!QuantumEnds, S!Tick
<1>7. CASE Keeps
  <2>1. ReadList' = ReadList
    BY <1>7, KeepsPreserves
  <2>2. QuantumEnds /\ UNCHANGED <<state, cpu>>
    BY <1>7 DEF Keeps
  <2>3. PICK i \in 0..MAX_PROCESSES : /\ SearchEnds(i) /\ Hop[i] # Wild
                                      /\ Hop[i] = head \/ state[Hop[i]] = S!DEAD
    BY <1>7 DEF Keeps
  <2>4. made > 0
    BY <2>2, TickFacts DEF QuantumEnds
  <2>5. S!SearchEnds(i) /\ Hop[i] = ReadList[S!Candidate(i)]
    BY <1>1, <2>3, <2>4, SearchOnList
  <2>6. S!TickKeeps
    BY <1>2, <1>6, <2>1, <2>2, <2>3, <2>5 DEF S!TickKeeps
  <2> QED BY <2>6 DEF S!Next, S!scheduler_tick
<1>8. CASE Switches
  <2>1. QuantumEnds
    BY <1>8 DEF Switches
  <2>2. S!TickSwitches
    BY <1>2, <1>6, <1>8, <2>1, SwitchPreserves DEF S!TickSwitches
  <2> QED BY <2>2 DEF S!Next, S!scheduler_tick
<1>9. CASE FollowsWild
  BY <1>9 DEF FollowsWild
<1>10. CASE Elsewhere
  BY <1>10 DEF Elsewhere, S!Next, Pid, S!Pid
<1> QED BY <1>3, <1>4, <1>5, <1>7, <1>8, <1>9, <1>10 DEF ListNext, CreateSteps, TickStep

\* Until a tick has followed an unwritten pointer the pointers implement the
\* sequence of Scheduler, wherever ticks fall in process_create (process.c
\* 59-67, scheduler.c 43-60).
THEOREM PointersImplementRing == ListSpec => ImplementsRing
<1>1. ListInit => ListInv /\ S!Init
  BY ListInvInitially DEF ListInit
<1>2. ListInv /\ [ListNext]_allVars => ListInv'
  BY ListInvStep
<1>3. ListInv /\ [ListNext]_allVars => [crashed' \/ [S!Next]_(S!vars)]_allVars
  BY StepImplementsRing
<1> QED BY <1>1, <1>2, <1>3, PTL DEF ListSpec, ImplementsRing

=============================================================================
