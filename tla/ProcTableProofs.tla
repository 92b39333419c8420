--------------------------- MODULE ProcTableProofs -------------------------
(* Proofs about process creation, exit and waiting, for any number of      *)
(* addresses, slots, children and exit codes.                              *)
EXTENDS ProcTable, WellFoundedInduction, TLAPS

----------------------------------------------------------------------------
(* Operators *)

(* First picks the smallest number of a set.                               *)
LEMMA FirstIsLeast ==
  ASSUME NEW S \in SUBSET Nat, S # {}
  PROVE  First(S) \in S /\ \A j \in S : First(S) <= j
<1>1. PICK x \in S : \A y \in S : ~ (<<y, x>> \in OpToRel(<, Nat))
  BY NatLessThanWellFounded, WFMin
<1>2. ASSUME NEW y \in S PROVE x <= y
  <2>1. ~ (<<y, x>> \in OpToRel(<, Nat))
    BY <1>1
  <2>2. x \in Nat /\ y \in Nat
    OBVIOUS
  <2>3. ~ (y < x)
    BY <2>1, <2>2 DEF OpToRel
  <2>4. QED
    BY <2>2, <2>3
<1>3. QED
  BY <1>2 DEF First

(* What ReplaceFirst does to an array in which the old pointer is at most  *)
(* once.                                                                   *)
LEMMA ReplaceFirstAt ==
  ASSUME NEW f \in [1 .. MAX_CHILDS -> Procs \cup {NULL, DEAD}], NEW old,
         NEW new \in Procs \cup {NULL, DEAD}, NEW f2, f2 = ReplaceFirst(f, old, new)
  PROVE  /\ f2 \in [1 .. MAX_CHILDS -> Procs \cup {NULL, DEAD}]
         /\ \/ f2 = f /\ \A i \in 1 .. MAX_CHILDS : f[i] # old
            \/ \E k \in 1 .. MAX_CHILDS : /\ f[k] = old /\ f2[k] = new
                                          /\ \A i \in 1 .. MAX_CHILDS : i # k => f2[i] = f[i]
<1>1. PICK at \in SUBSET (1 .. MAX_CHILDS) : at = {i \in DOMAIN f : f[i] = old}
  OBVIOUS
<1>2. f2 = IF at = {} THEN f ELSE [f EXCEPT ![First(at)] = new]
  BY <1>1 DEF ReplaceFirst
<1>3. CASE at = {}
  BY <1>1, <1>2, <1>3
<1>4. CASE at # {}
  <2>1. PICK k \in 1 .. MAX_CHILDS : k \in at /\ k = First(at)
    <3>1. at \in SUBSET Nat
      OBVIOUS
    <3>2. First(at) \in at
      BY <1>4, <3>1, FirstIsLeast
    <3>3. QED
      BY <3>2
  <2>2. f2 = [f EXCEPT ![k] = new] /\ f[k] = old
    BY <1>1, <1>2, <1>4, <2>1
  <2>3. QED
    BY <2>2
<1>5. QED
  BY <1>3, <1>4

(* The entries are records.                                                *)
LEMMA EntryType ==
  ASSUME TypeOK, NEW e \in 1 .. Len(entry)
  PROVE  entry[e] \in [pcb : Procs, termed : BOOLEAN, p_termed : BOOLEAN,
                       exitcode : Codes \cup {0}, by : Nat]
<1>1. PICK R : R = [pcb : Procs, termed : BOOLEAN, p_termed : BOOLEAN,
                    exitcode : Codes \cup {0}, by : Nat]
  OBVIOUS
<1>2. entry \in Seq(R)
  BY <1>1 DEF TypeOK
<1>3. entry[e] \in R
  BY <1>2
<1>4. QED
  BY <1>1, <1>3

----------------------------------------------------------------------------
(* The invariant *)

(* What holds until a child overtakes its parent or the table overflows.   *)
(* Its parts hold on to each other: a slot is kept for a waiter because    *)
(* the exits agree with the table.                                         *)
IInv == TypeOK /\ TablesAgree /\ WaiterOwnsSlot /\ WaiterInformed

(* Its parts.                                                              *)
Parts ==
  /\ TypeOK /\ TableNamesProcess /\ ChildsAreRunning /\ ForkInProgress
  /\ EntryInOneSlot /\ DeadOrphansLeaveTable /\ EntriesTellExits
  /\ FirstSlotKept /\ WaiterOwnsSlot /\ WaiterInformed

(* They are all of it.                                                     *)
LEMMA PartsOfIInv == IInv <=> Parts
BY DEF IInv, TablesAgree, Parts

(* A step that moves no table entry, no slot and no waiter keeps what is   *)
(* said of them alone.                                                     *)
LEMMA TableSame ==
  ASSUME IInv, UNCHANGED <<Global_Proc_Table, entry, inst, passed, target>>,
         \A b \in Procs : pc'[b] \in {"wait_asleep", "wait_woken"} => pc'[b] = pc[b],
         entry = <<>> => \A b \in Procs : pc'[b] = "none"
  PROVE  /\ EntryInOneSlot' /\ DeadOrphansLeaveTable' /\ EntriesTellExits'
         /\ FirstSlotKept' /\ WaiterOwnsSlot' /\ WaiterInformed'
<1>1. /\ EntryInOneSlot /\ DeadOrphansLeaveTable /\ EntriesTellExits
      /\ FirstSlotKept /\ WaiterOwnsSlot /\ WaiterInformed
  BY PartsOfIInv DEF Parts
<1>2. EntryInOneSlot' /\ DeadOrphansLeaveTable' /\ EntriesTellExits'
  BY <1>1 DEF EntryInOneSlot, DeadOrphansLeaveTable, EntriesTellExits
<1>3. FirstSlotKept'
  BY <1>1 DEF FirstSlotKept
<1>4. WaiterOwnsSlot'
  BY <1>1 DEF WaiterOwnsSlot
<1>5. WaiterInformed'
  BY <1>1 DEF WaiterInformed
<1>6. QED
  BY <1>2, <1>3, <1>4, <1>5

(* What keeps the process at an address named.                             *)
LEMMA NamedFrame ==
  ASSUME NEW m \in Procs, Named(m), mem'[m].pid = mem[m].pid, inst'[m] = inst[m],
         Global_Proc_Table'[mem[m].pid] = Global_Proc_Table[mem[m].pid],
         entry'[inst[m]].pcb = entry[inst[m]].pcb, entry'[inst[m]].termed = entry[inst[m]].termed
  PROVE  Named(m)'
BY DEF Named

(* What keeps a process' array of children.                                *)
LEMMA ChildsFrame ==
  ASSUME NEW b \in Procs, ChildsRunning(b), inst'[b] = inst[b],
         mem'[b].p_childs = mem[b].p_childs,
         \A c \in Procs : RunningChild(c, b)
           => /\ Running(c)' /\ mem'[c].p_parent = mem[c].p_parent
              /\ entry'[inst'[c]].by = entry[inst[c]].by
  PROVE  ChildsRunning(b)'
<1>1. ASSUME NEW c, RunningChild(c, b) PROVE RunningChild(c, b)'
  BY <1>1 DEF RunningChild
<1>2. ASSUME NEW i \in 1 .. MAX_CHILDS, mem'[b].p_childs[i] # NULL
      PROVE  /\ RunningChild(mem[b].p_childs[i], b)'
             /\ \A j \in 1 .. MAX_CHILDS : mem'[b].p_childs[j] = mem'[b].p_childs[i] => j = i
  <2>1. /\ RunningChild(mem[b].p_childs[i], b)
        /\ \A j \in 1 .. MAX_CHILDS : mem[b].p_childs[j] = mem[b].p_childs[i] => j = i
    BY <1>2 DEF ChildsRunning
  <2>2. PICK c : c = mem[b].p_childs[i]
    OBVIOUS
  <2>3. RunningChild(c, b)'
    BY <1>1, <2>1, <2>2
  <2>4. mem'[b].p_childs[i] = c
    BY <2>2
  <2>5. QED
    BY <2>1, <2>2, <2>3, <2>4
<1>3. QED
  BY <1>2 DEF ChildsRunning

(* What keeps a new process its creator's.                                 *)
LEMMA NewProcessFrame ==
  ASSUME NEW b \in Actors, NEW m \in Procs, NewProcess(m, b),
         pc[b] = "link" => Running(m)',
         pc[b] # "link" => pc'[m] = pc[m] /\ mem'[m].p_childs = mem[m].p_childs,
         pc'[b] = "link" <=> pc[b] = "link", pc[b] = "insert" => pc'[b] = "insert",
         mem'[m].p_parent = mem[m].p_parent,
         pc[b] # "insert" => Named(m)' /\ entry'[inst'[m]].by = entry[inst[m]].by,
         b # KPROC => /\ inst'[b] = inst[b] /\ mem'[b].p_num_childs = mem[b].p_num_childs
                      /\ mem'[b].p_childs = mem[b].p_childs
  PROVE  NewProcess(m, b)'
<1>1. /\ mem[m].p_parent = b
      /\ pc[b] # "link" => pc[m] = "none" /\ \A i \in 1 .. MAX_CHILDS : mem[m].p_childs[i] = NULL
      /\ pc[b] # "insert" => entry[inst[m]].by = IF b = KPROC THEN 0 ELSE inst[b]
      /\ b # KPROC => /\ mem[b].p_num_childs < MAX_CHILDS
                      /\ \A i \in 1 .. MAX_CHILDS : mem[b].p_childs[i] # m
  BY DEF NewProcess
<1>2. IF pc'[b] = "link" THEN Running(m)'
      ELSE pc'[m] = "none" /\ \A i \in 1 .. MAX_CHILDS : mem'[m].p_childs[i] = NULL
  BY <1>1
<1>3. pc'[b] # "insert" => Named(m)' /\ entry'[inst'[m]].by = IF b = KPROC THEN 0 ELSE inst'[b]
  BY <1>1
<1>4. b # KPROC => /\ mem'[b].p_num_childs < MAX_CHILDS
                   /\ \A i \in 1 .. MAX_CHILDS : mem'[b].p_childs[i] # m
  BY <1>1
<1>5. QED
  BY <1>1, <1>2, <1>3, <1>4 DEF NewProcess

(* Of two creators, each has a process of its own, which is neither        *)
(* before it runs.                                                         *)
LEMMA NewProcessApart ==
  ASSUME IInv, NEW b \in Actors, Forking(b)
  PROVE  /\ NewProcess(new_proc[b], b) /\ new_proc[b] \in Procs /\ new_proc[b] \in Actors
         /\ mem[new_proc[b]].p_parent = b
         /\ pc[b] = "link" => Running(new_proc[b])
         /\ pc[b] # "link" => pc[new_proc[b]] = "none"
         /\ b # KPROC => b \in Procs
         /\ pc[b] = "link" => b # KPROC
         /\ \A a \in Actors : Forking(a) /\ a # b => new_proc[a] # new_proc[b]
         /\ b # new_proc[b]
<1> USE ProcTableConstants
<1>1. ForkInProgress /\ EntriesTellExits /\ TypeOK
  BY PartsOfIInv DEF Parts
<1>2. ASSUME NEW a \in Actors, Forking(a)
      PROVE  /\ NewProcess(new_proc[a], a) /\ new_proc[a] \in Procs
             /\ mem[new_proc[a]].p_parent = a
             /\ pc[a] = "link" => Running(new_proc[a])
             /\ pc[a] # "link" => pc[new_proc[a]] = "none"
  BY <1>1, <1>2 DEF ForkInProgress, NewProcess
<1>3. ASSUME NEW a \in Actors, Forking(a), a # b PROVE new_proc[a] # new_proc[b]
  BY <1>2, <1>3
<1>4. pc[b] = "link" => b # KPROC
  BY <1>1 DEF ForkInProgress
<1>5. b # new_proc[b]
  <2>1. CASE pc[b] # "link"
    BY <1>2, <2>1 DEF Forking
  <2>2. CASE pc[b] = "link"
    <3>1. SUFFICES ASSUME b = new_proc[b] PROVE FALSE
      OBVIOUS
    <3>2. b \in Procs /\ b # KPROC
      BY <1>2, <3>1
    <3>3. Named(b) /\ entry[inst[b]].by = inst[b]
      BY <1>2, <1>4, <2>2, <3>1 DEF NewProcess
    <3>4. inst[b] \in 1 .. Len(entry)
      BY <1>1, <3>2, <3>3 DEF Named, TypeOK
    <3>5. entry[inst[b]].by < inst[b]
      BY <1>1, <3>4 DEF EntriesTellExits
    <3>6. inst[b] \in Nat
      BY <1>1, <3>4 DEF TypeOK
    <3>7. QED
      BY <3>3, <3>5, <3>6
  <2>3. QED
    BY <2>1, <2>2
<1>6. QED
  BY <1>2, <1>3, <1>4, <1>5 DEF Actors

----------------------------------------------------------------------------
(* Creation *)

(* The creator takes a free address.                                       *)
LEMMA CreateStep ==
  ASSUME IInv, NEW a \in Actors, proc_create(a)
  PROVE  IInv'
<1> USE ProcTableConstants
<1>0. /\ TypeOK /\ TableNamesProcess /\ ChildsAreRunning /\ ForkInProgress
      /\ FirstSlotKept
  BY PartsOfIInv DEF Parts
<1>1. PICK n \in Procs :
        /\ mem[n] = Freed /\ pc[n] = "none"
        /\ mem' = [mem EXCEPT ![n] = [pid |-> DEAD, p_parent |-> a, p_num_childs |-> 0,
                                      p_childs |-> [i \in 1 .. MAX_CHILDS |-> NULL]]]
        /\ new_proc' = [new_proc EXCEPT ![a] = n]
  BY DEF proc_create
<1>2. /\ pc[a] = "user" /\ pc' = [pc EXCEPT ![a] = "insert"] /\ ~ ProcsFull /\ ~ ChildsFull(a)
      /\ UNCHANGED <<Global_Proc_Table, entry, GLOBAL_PROC_COUNT, tmp, target, inst, passed, raced, panicked>>
  BY DEF proc_create, MayCreate, At, Goto, table, history
<1>3. /\ pc'[a] = "insert" /\ \A b \in Actors : b # a => pc'[b] = pc[b]
      /\ n # a /\ n \in Actors
  BY <1>0, <1>1, <1>2 DEF TypeOK, Actors
<1>4. /\ mem'[n].pid = DEAD /\ mem'[n].p_parent = a /\ mem'[n].p_num_childs = 0
      /\ \A i \in 1 .. MAX_CHILDS : mem'[n].p_childs[i] = NULL
      /\ \A b \in Procs : b # n => mem'[b] = mem[b]
  BY <1>0, <1>1 DEF TypeOK
<1>5. new_proc'[a] = n /\ \A b \in Actors : b # a => new_proc'[b] = new_proc[b]
  BY <1>0, <1>1 DEF TypeOK
<1>6. \A b \in Procs : /\ Running(b)' <=> Running(b)
                       /\ Running(b) => b # n
                       /\ pc'[b] \in {"wait_asleep", "wait_woken"} => pc'[b] = pc[b]
                       /\ b # a => pc'[b] = pc[b]
  BY <1>1, <1>2, <1>3 DEF Running, Actors
<1>7. TypeOK'
  <2>1. mem' \in [Procs -> [pid : Pids \cup {DEAD}, p_parent : Actors \cup {DEAD},
                        p_num_childs : 0 .. MAX_CHILDS,
                        p_childs : [1 .. MAX_CHILDS -> Procs \cup {NULL, DEAD}]]]
    <3>1. [i \in 1 .. MAX_CHILDS |-> NULL] \in [1 .. MAX_CHILDS -> Procs \cup {NULL, DEAD}]
      OBVIOUS
    <3>2. QED
      BY <1>0, <1>1, <3>1 DEF TypeOK
  <2>2. pc' \in [Actors -> Places] /\ new_proc' \in [Actors -> Procs \cup {NULL}]
    BY <1>0, <1>1, <1>2 DEF TypeOK, Places
  <2>3. QED
    BY <1>0, <1>2, <2>1, <2>2 DEF TypeOK
<1>8. ASSUME NEW b \in Procs, b # n, Named(b) PROVE Named(b)'
  BY <1>2, <1>4, <1>8, NamedFrame
<1>9. TableNamesProcess'
  BY <1>0, <1>6, <1>8 DEF TableNamesProcess
<1>10. ChildsAreRunning'
  <2>1. ASSUME NEW b \in Procs, Running(b)' PROVE ChildsRunning(b)'
    <3>1. ChildsRunning(b) /\ mem'[b] = mem[b]
      BY <1>0, <1>4, <1>6, <2>1 DEF ChildsAreRunning
    <3>2. ASSUME NEW c \in Procs, RunningChild(c, b)
          PROVE  /\ Running(c)' /\ mem'[c].p_parent = mem[c].p_parent
                 /\ entry'[inst'[c]].by = entry[inst[c]].by
      BY <1>2, <1>4, <1>6, <3>2 DEF RunningChild
    <3>3. QED
      BY <1>2, <3>1, <3>2, ChildsFrame
  <2>2. QED
    BY <2>1 DEF ChildsAreRunning
<1>11. ForkInProgress'
  <2>1. NewProcess(n, a)'
    <3>1. a # KPROC => a \in Procs /\ mem'[a] = mem[a] /\ Running(a)
      BY <1>2, <1>3, <1>4 DEF Running, Actors
    <3>2. a # KPROC => mem[a].p_num_childs < MAX_CHILDS
      BY <1>0, <1>2, <3>1 DEF ChildsFull, TypeOK
    <3>3. ASSUME a # KPROC, NEW i \in 1 .. MAX_CHILDS PROVE mem[a].p_childs[i] # n
      <4>1. ChildsRunning(a) /\ ~ Running(n) /\ n # NULL
        BY <1>0, <1>1, <3>1, <3>3 DEF ChildsAreRunning, Running, Actors
      <4>2. QED
        BY <4>1 DEF ChildsRunning, RunningChild
    <3>4. pc'[n] = "none"
      BY <1>1, <1>3
    <3>5. QED
      BY <1>3, <1>4, <3>1, <3>2, <3>3, <3>4 DEF NewProcess
  <2>2. ASSUME NEW b \in Actors, b # a, Forking(b) PROVE NewProcess(new_proc[b], b)'
    <3>1. PICK m \in Procs : m = new_proc[b] /\ NewProcess(m, b)
      BY <2>2, NewProcessApart
    <3>2. m # n
      BY <1>1, <3>1 DEF NewProcess, Freed
    <3>3. b # KPROC => b \in Procs /\ b # n
      BY <1>1, <2>2 DEF Forking, Actors
    <3>4. pc[b] = "link" => Running(m)'
      BY <1>6, <3>1 DEF NewProcess
    <3>5. pc[b] # "insert" => Named(m)'
      BY <1>8, <3>1, <3>2 DEF NewProcess
    <3>6. m \in Actors /\ pc'[b] = pc[b] /\ mem'[m] = mem[m]
      BY <1>3, <1>4, <2>2, <3>2 DEF Actors
    <3>7. pc[b] # "link" => pc'[m] = pc[m]
      <4>1. pc[b] # "link" => m # a
        BY <1>2, <3>1 DEF NewProcess
      <4>2. QED
        BY <1>3, <3>6, <4>1
    <3>8. NewProcess(m, b)'
      BY <1>2, <1>4, <3>1, <3>3, <3>4, <3>5, <3>6, <3>7, NewProcessFrame
    <3>9. QED
      BY <1>5, <2>2, <3>1, <3>8
  <2>3. ASSUME NEW b \in Actors, Forking(b)' PROVE NewProcess(new_proc[b], b)'
    BY <1>3, <1>5, <2>1, <2>2, <2>3 DEF Forking
  <2>4. pc'[KPROC] \in {"user", "insert", "count_load", "count_store", "start"}
    BY <1>0, <1>3 DEF ForkInProgress, Actors
  <2>5. QED
    BY <2>3, <2>4 DEF ForkInProgress
<1>13. entry = <<>> => \A b \in Procs : pc'[b] = "none"
  <2>1. entry = <<>> => a \notin Procs
    BY <1>0, <1>2 DEF FirstSlotKept
  <2>2. QED
    BY <1>0, <1>6, <2>1 DEF FirstSlotKept
<1>14. Parts'
  BY <1>2, <1>6, <1>7, <1>9, <1>10, <1>11, <1>13, TableSame DEF Parts
<1>15. QED
  BY <1>14 DEF Parts, IInv, TablesAgree

(* A step that moves no entry and no named process' slot, touches the      *)
(* process at address x at most, and changes whether it runs only if it is *)
(* new, or noted by no other process.                                      *)
LEMMA ProcsFrame ==
  ASSUME IInv, UNCHANGED <<entry, inst>>, NEW x \in Procs,
         \A m \in Procs : Named(m) => Global_Proc_Table'[mem[m].pid] = Global_Proc_Table[mem[m].pid],
         \A b \in Procs : b # x => mem'[b] = mem[b] /\ (Running(b)' <=> Running(b)),
         mem'[x] = mem[x] \/ (~ Running(x) /\ ~ Running(x)'),
         Running(x)' => Running(x) \/ (Named(x) /\ \A i \in 1 .. MAX_CHILDS : mem[x].p_childs[i] = NULL),
         Running(x) => Running(x)' \/ mem[x].p_parent = KPROC
  PROVE  TableNamesProcess' /\ ChildsAreRunning'
<1> USE ProcTableConstants
<1>0. TypeOK /\ TableNamesProcess /\ ChildsAreRunning
  BY PartsOfIInv DEF Parts
<1>1. ASSUME NEW b \in Procs, Running(b)' PROVE Named(b)'
  <2>1. Named(b) /\ mem'[b] = mem[b]
    BY <1>0, <1>1 DEF TableNamesProcess
  <2>2. QED
    BY <2>1, NamedFrame
<1>2. ASSUME NEW b \in Procs, Running(b)' PROVE ChildsRunning(b)'
  <2>1. ChildsRunning(b) /\ mem'[b] = mem[b]
    <3>1. CASE Running(b)
      BY <1>0, <1>2, <3>1 DEF ChildsAreRunning
    <3>2. CASE ~ Running(b)
      BY <1>2, <3>2 DEF ChildsRunning
    <3>3. QED
      BY <3>1, <3>2
  <2>2. ASSUME NEW c \in Procs, RunningChild(c, b)
        PROVE  /\ Running(c)' /\ mem'[c].p_parent = mem[c].p_parent
               /\ entry'[inst'[c]].by = entry[inst[c]].by
    <3>1. Running(c) /\ mem[c].p_parent = b /\ b # KPROC
      BY <2>2 DEF RunningChild
    <3>2. mem'[c] = mem[c] /\ Running(c)'
      BY <3>1
    <3>3. QED
      BY <3>2
  <2>3. QED
    BY <2>1, <2>2, ChildsFrame
<1>3. QED
  BY <1>1, <1>2 DEF TableNamesProcess, ChildsAreRunning

(* A step of a that moves no entry and no named process' slot, and leaves  *)
(* the processes of the other creators alone.                              *)
LEMMA ForkFrame ==
  ASSUME IInv, UNCHANGED <<entry, inst>>, NEW a \in Actors,
         \A m \in Procs : Named(m) => Global_Proc_Table'[mem[m].pid] = Global_Proc_Table[mem[m].pid],
         \A b \in Actors : b # a /\ Forking(b)' =>
           /\ pc'[b] = pc[b] /\ new_proc'[b] = new_proc[b]
           /\ mem'[new_proc[b]].pid = mem[new_proc[b]].pid
           /\ mem'[new_proc[b]].p_parent = mem[new_proc[b]].p_parent
           /\ pc[b] = "link" => Running(new_proc[b])'
           /\ pc[b] # "link" => /\ pc'[new_proc[b]] = pc[new_proc[b]]
                               /\ mem'[new_proc[b]].p_childs = mem[new_proc[b]].p_childs
           /\ b # KPROC => mem'[b] = mem[b],
         Forking(a)' => NewProcess(new_proc[a], a)',
         pc'[KPROC] \in {"user", "insert", "count_load", "count_store", "start"}
  PROVE  ForkInProgress'
<1>1. ASSUME NEW b \in Actors, b # a, Forking(b)' PROVE NewProcess(new_proc[b], b)'
  <2>1. pc'[b] = pc[b] /\ Forking(b)
    BY <1>1 DEF Forking
  <2>2. PICK m \in Procs : m = new_proc[b] /\ NewProcess(m, b)
    BY <2>1, NewProcessApart
  <2>3. /\ mem'[m].pid = mem[m].pid /\ mem'[m].p_parent = mem[m].p_parent
        /\ pc[b] = "link" => Running(m)'
        /\ pc[b] # "link" => pc'[m] = pc[m] /\ mem'[m].p_childs = mem[m].p_childs
        /\ (b # KPROC => mem'[b] = mem[b]) /\ new_proc'[b] = m
    BY <1>1, <2>2
  <2>4. pc[b] # "insert" => Named(m)'
    <3>1. pc[b] # "insert" => Named(m)
      BY <2>2 DEF NewProcess
    <3>2. QED
      BY <2>3, <3>1, NamedFrame
  <2>5. NewProcess(m, b)'
    BY <2>1, <2>2, <2>3, <2>4, NewProcessFrame
  <2>6. QED
    BY <2>3, <2>5
<1>2. ASSUME NEW b \in Actors, Forking(b)' PROVE NewProcess(new_proc[b], b)'
  BY <1>1, <1>2
<1>3. QED
  BY <1>2 DEF ForkInProgress

(* A step of a alone, which leaves a running if it is no step of the menu. *)
LEMMA OthersKept ==
  ASSUME IInv, NEW a \in Actors, pc[a] # "none", a # KPROC => Running(a)',
         \A m \in Actors : m # a => pc'[m] = pc[m],
         NEW b \in Actors, b # a, Forking(b), new_proc'[b] = new_proc[b]
  PROVE  /\ pc'[b] = pc[b] /\ new_proc[b] \in Procs /\ new_proc[b] \in Actors
         /\ b # KPROC => b \in Procs
         /\ pc[b] = "link" => Running(new_proc[b])'
         /\ pc[b] # "link" => new_proc[b] # a /\ pc'[new_proc[b]] = pc[new_proc[b]]
<1> USE ProcTableConstants
<1>1. PICK m \in Procs : /\ m = new_proc[b] /\ m \in Actors /\ m # KPROC
                         /\ pc[b] = "link" => Running(m)
                         /\ pc[b] # "link" => pc[m] = "none"
                         /\ b # KPROC => b \in Procs
  BY NewProcessApart
<1>2. pc[b] # "link" => m # a /\ pc'[m] = pc[m]
  BY <1>1
<1>3. pc[b] = "link" => Running(m)'
  <2>1. CASE m = a
    BY <1>1, <2>1
  <2>2. CASE m # a
    BY <1>1, <2>2 DEF Running
  <2>3. QED
    BY <2>1, <2>2
<1>4. pc[b] = "link" => Running(new_proc[b])'
  BY <1>1, <1>3 DEF Running
<1>5. QED
  BY <1>1, <1>2, <1>4

(* A creation that fails: the address is free again, an entry made for it  *)
(* stays.                                                                  *)
LEMMA CreateFailsStep ==
  ASSUME IInv, NEW a \in Actors, proc_create_nomem(a) \/ fork_fails(a)
  PROVE  IInv'
<1> USE ProcTableConstants
<1>0. TypeOK /\ ForkInProgress /\ FirstSlotKept
  BY PartsOfIInv DEF Parts
<1>1. /\ pc[a] \in {"insert", "start"} /\ pc' = [pc EXCEPT ![a] = "user"]
      /\ new_proc' = [new_proc EXCEPT ![a] = NULL]
      /\ mem' = [mem EXCEPT ![new_proc[a]] = Freed]
      /\ UNCHANGED <<Global_Proc_Table, entry, GLOBAL_PROC_COUNT, tmp, target, inst, passed, raced, panicked>>
  BY DEF proc_create_nomem, fork_fails, At, Return, Goto, table, history
<1>2. Forking(a)
  BY <1>1 DEF Forking
<1>3. PICK n \in Procs : n = new_proc[a] /\ pc[n] = "none" /\ n \in Actors /\ n # a
  BY <1>1, <1>2, NewProcessApart
<1>4. /\ pc'[a] = "user" /\ \A b \in Actors : b # a => pc'[b] = pc[b]
      /\ pc'[n] = "none" /\ \A b \in Actors : b # a => new_proc'[b] = new_proc[b]
      /\ \A b \in Procs : b # n => mem'[b] = mem[b]
  BY <1>0, <1>1, <1>3 DEF TypeOK
<1>5. TypeOK'
  <2>1. Freed \in [pid : Pids \cup {DEAD}, p_parent : Actors \cup {DEAD},
                   p_num_childs : 0 .. MAX_CHILDS,
                   p_childs : [1 .. MAX_CHILDS -> Procs \cup {NULL, DEAD}]]
    <3>1. [i \in 1 .. MAX_CHILDS |-> DEAD] \in [1 .. MAX_CHILDS -> Procs \cup {NULL, DEAD}]
      OBVIOUS
    <3>2. 0 \in 0 .. MAX_CHILDS
      OBVIOUS
    <3>3. QED
      BY <3>1, <3>2 DEF Freed
  <2>2. mem' \in [Procs -> [pid : Pids \cup {DEAD}, p_parent : Actors \cup {DEAD},
                        p_num_childs : 0 .. MAX_CHILDS,
                        p_childs : [1 .. MAX_CHILDS -> Procs \cup {NULL, DEAD}]]]
    BY <1>0, <1>1, <1>3, <2>1 DEF TypeOK
  <2>3. pc' \in [Actors -> Places] /\ new_proc' \in [Actors -> Procs \cup {NULL}]
    BY <1>0, <1>1 DEF TypeOK, Places
  <2>4. QED
    BY <1>0, <1>1, <2>2, <2>3 DEF TypeOK
<1>6. TableNamesProcess' /\ ChildsAreRunning'
  <2>1. ~ Running(n) /\ ~ Running(n)'
    BY <1>3, <1>4 DEF Running
  <2>2. \A b \in Procs : b # n => mem'[b] = mem[b] /\ (Running(b)' <=> Running(b))
    BY <1>1, <1>4 DEF Running, Actors
  <2>3. QED
    BY <1>1, <2>1, <2>2, ProcsFrame
<1>7. ForkInProgress'
  <2>1. ASSUME NEW b \in Actors, b # a, Forking(b)'
        PROVE  /\ pc'[b] = pc[b] /\ new_proc'[b] = new_proc[b]
               /\ pc[b] = "link" => Running(new_proc[b])'
               /\ pc[b] # "link" => pc'[new_proc[b]] = pc[new_proc[b]]
               /\ mem'[new_proc[b]] = mem[new_proc[b]]
               /\ b # KPROC => mem'[b] = mem[b]
    <3>1. Forking(b) /\ b # n
      BY <1>3, <1>4, <2>1 DEF Forking
    <3>2. /\ new_proc[b] \in Procs /\ pc'[b] = pc[b] /\ (b # KPROC => b \in Procs)
          /\ pc[b] = "link" => Running(new_proc[b])'
          /\ pc[b] # "link" => pc'[new_proc[b]] = pc[new_proc[b]]
      <4>1. pc[a] # "none" /\ (a # KPROC => Running(a)')
        BY <1>1, <1>4 DEF Running
      <4>2. QED
        BY <1>4, <2>1, <3>1, <4>1, OthersKept
    <3>3. new_proc[b] # n
      BY <1>2, <1>3, <2>1, <3>1, NewProcessApart
    <3>4. QED
      BY <1>4, <2>1, <3>1, <3>2, <3>3
  <2>2. ~ Forking(a)'
    BY <1>4 DEF Forking
  <2>3. pc'[KPROC] \in {"user", "insert", "count_load", "count_store", "start"}
    BY <1>0, <1>4 DEF ForkInProgress, Actors
  <2>4. QED
    BY <1>1, <2>1, <2>2, <2>3, ForkFrame
<1>9. entry = <<>> => \A b \in Procs : pc'[b] = "none"
  <2>1. entry = <<>> => a \notin Procs
    BY <1>0, <1>1 DEF FirstSlotKept
  <2>2. QED
    BY <1>0, <1>4, <2>1 DEF FirstSlotKept, Actors
<1>10. \A b \in Procs : pc'[b] \in {"wait_asleep", "wait_woken"} => pc'[b] = pc[b]
  BY <1>4 DEF Actors
<1>11. Parts'
  BY <1>1, <1>5, <1>6, <1>7, <1>9, <1>10, TableSame DEF Parts
<1>12. QED
  BY <1>11 DEF Parts, IInv, TablesAgree

(* GLOBAL_PROC_COUNT++.                                                    *)
LEMMA CountStep ==
  ASSUME IInv, NEW a \in Actors, proc_create_count_load(a) \/ proc_create_count_store(a)
  PROVE  IInv'
<1> USE ProcTableConstants
<1>0. TypeOK /\ ForkInProgress /\ FirstSlotKept
  BY PartsOfIInv DEF Parts
<1>1. /\ pc[a] \in {"count_load", "count_store"}
      /\ pc[a] = "count_load" => /\ pc' = [pc EXCEPT ![a] = "count_store"]
                                 /\ tmp' = [tmp EXCEPT ![a] = GLOBAL_PROC_COUNT]
                                 /\ GLOBAL_PROC_COUNT' = GLOBAL_PROC_COUNT
      /\ pc[a] = "count_store" => /\ pc' = [pc EXCEPT ![a] = "start"]
                                  /\ tmp' = [tmp EXCEPT ![a] = 0]
                                  /\ GLOBAL_PROC_COUNT' = tmp[a] + 1
      /\ UNCHANGED <<Global_Proc_Table, entry, mem, new_proc, target, inst, passed, raced, panicked>>
  BY DEF proc_create_count_load, proc_create_count_store, At, Goto, table, history
<1>2. PICK l \in {"count_store", "start"} : pc' = [pc EXCEPT ![a] = l]
  BY <1>1
<1>3. /\ Forking(a) /\ pc'[a] = l /\ \A b \in Actors : b # a => pc'[b] = pc[b]
  BY <1>0, <1>1, <1>2 DEF Forking, TypeOK
<1>4. PICK n \in Procs : /\ n = new_proc[a] /\ NewProcess(n, a) /\ pc[n] = "none" /\ n \in Actors
                         /\ n # a
  BY <1>1, <1>3, NewProcessApart
<1>5. TypeOK'
  <2>1. tmp' \in [Actors -> Nat] /\ GLOBAL_PROC_COUNT' \in Nat
    <3>1. tmp \in [Actors -> Nat] /\ GLOBAL_PROC_COUNT \in Nat /\ tmp[a] + 1 \in Nat
      BY <1>0 DEF TypeOK
    <3>2. CASE pc[a] = "count_load"
      BY <1>1, <3>1, <3>2
    <3>3. CASE pc[a] = "count_store"
      BY <1>1, <3>1, <3>3
    <3>4. QED
      BY <1>1, <3>2, <3>3
  <2>2. pc' \in [Actors -> Places]
    BY <1>0, <1>2 DEF TypeOK, Places
  <2>3. QED
    BY <1>0, <1>1, <2>1, <2>2 DEF TypeOK
<1>6. \A b \in Procs : Running(b)' <=> Running(b)
  BY <1>1, <1>2, <1>3 DEF Running, Actors
<1>7. TableNamesProcess' /\ ChildsAreRunning'
  <2>1. ~ Running(n)
    BY <1>4 DEF Running
  <2>2. QED
    BY <1>1, <1>6, <2>1, ProcsFrame
<1>8. ForkInProgress'
  <2>1. NewProcess(n, a)'
    <3>1. Named(n)
      BY <1>1, <1>4 DEF NewProcess
    <3>2. Named(n)'
      BY <1>1, <3>1, NamedFrame
    <3>3. pc'[n] = pc[n] /\ pc'[a] # "link" /\ pc[a] # "link" /\ pc[a] # "insert"
      BY <1>1, <1>3, <1>4
    <3>4. QED
      BY <1>1, <1>4, <3>2, <3>3, NewProcessFrame
  <2>2. NewProcess(new_proc[a], a)'
    BY <1>1, <1>4, <2>1
  <2>3. ASSUME NEW b \in Actors, b # a, Forking(b)'
        PROVE  /\ pc'[b] = pc[b]
               /\ pc[b] = "link" => Running(new_proc[b])'
               /\ pc[b] # "link" => pc'[new_proc[b]] = pc[new_proc[b]]
    <3>1. Forking(b)
      BY <1>3, <2>3 DEF Forking
    <3>2. pc[a] # "none" /\ (a # KPROC => Running(a)')
      BY <1>1, <1>2, <1>3 DEF Running
    <3>3. QED
      BY <1>1, <1>3, <2>3, <3>1, <3>2, OthersKept
  <2>4. pc'[KPROC] \in {"user", "insert", "count_load", "count_store", "start"}
    BY <1>0, <1>3 DEF ForkInProgress, Actors
  <2>5. QED
    BY <1>1, <2>2, <2>3, <2>4, ForkFrame
<1>10. entry = <<>> => \A b \in Procs : pc'[b] = "none"
  <2>1. entry = <<>> => a \notin Procs
    BY <1>0, <1>1 DEF FirstSlotKept
  <2>2. QED
    BY <1>0, <1>3, <2>1 DEF FirstSlotKept, Actors
<1>11. \A b \in Procs : pc'[b] \in {"wait_asleep", "wait_woken"} => pc'[b] = pc[b]
  BY <1>3 DEF Actors
<1>12. Parts'
  BY <1>1, <1>5, <1>7, <1>8, <1>10, <1>11, TableSame DEF Parts
<1>13. QED
  BY <1>12 DEF Parts, IInv, TablesAgree

----------------------------------------------------------------------------
(* The new process runs *)

(* thread_fork.                                                            *)
LEMMA ThreadForkStep ==
  ASSUME IInv, NEW a \in Actors, thread_fork(a)
  PROVE  IInv'
<1> USE ProcTableConstants
<1>0. TypeOK /\ ForkInProgress /\ FirstSlotKept
  BY PartsOfIInv DEF Parts
<1>1. /\ pc[a] = "start"
      /\ pc' = [pc EXCEPT ![a] = IF a = KPROC THEN "user" ELSE "link", ![new_proc[a]] = "ready"]
      /\ new_proc' = IF a = KPROC THEN [new_proc EXCEPT ![a] = NULL] ELSE new_proc
      /\ UNCHANGED <<Global_Proc_Table, entry, GLOBAL_PROC_COUNT, mem, tmp, target, inst, passed, raced, panicked>>
  BY DEF thread_fork, At, table, history
<1>2. Forking(a)
  BY <1>1 DEF Forking
<1>3. PICK n \in Procs : /\ n = new_proc[a] /\ NewProcess(n, a) /\ pc[n] = "none" /\ n \in Actors
                         /\ n # a /\ n # KPROC
  BY <1>1, <1>2, NewProcessApart
<1>4. /\ pc'[a] = (IF a = KPROC THEN "user" ELSE "link") /\ pc'[n] = "ready"
      /\ \A b \in Actors : b # a /\ b # n => pc'[b] = pc[b]
      /\ \A b \in Actors : b # a => new_proc'[b] = new_proc[b]
      /\ a # KPROC => new_proc'[a] = n
  BY <1>0, <1>1, <1>3 DEF TypeOK
<1>5. /\ Named(n) /\ \A i \in 1 .. MAX_CHILDS : mem[n].p_childs[i] = NULL
      /\ entry[inst[n]].by = IF a = KPROC THEN 0 ELSE inst[a]
  BY <1>1, <1>3 DEF NewProcess
<1>6. TypeOK'
  <2>1. pc' \in [Actors -> Places]
    BY <1>0, <1>1, <1>3 DEF TypeOK, Places
  <2>2. new_proc' \in [Actors -> Procs \cup {NULL}]
    BY <1>0, <1>1 DEF TypeOK
  <2>3. QED
    BY <1>0, <1>1, <2>1, <2>2 DEF TypeOK
<1>7. TableNamesProcess' /\ ChildsAreRunning'
  <2>1. ~ Running(n)
    BY <1>3 DEF Running
  <2>2. ASSUME NEW b \in Procs, b # n PROVE Running(b)' <=> Running(b)
    <3>1. CASE b = a
      BY <1>1, <1>4, <3>1 DEF Running
    <3>2. CASE b # a
      BY <1>4, <2>2, <3>2 DEF Running, Actors
    <3>3. QED
      BY <3>1, <3>2
  <2>3. QED
    BY <1>1, <1>5, <2>1, <2>2, ProcsFrame
<1>8. ForkInProgress'
  <2>1. Named(n)'
    BY <1>1, <1>5, NamedFrame
  <2>2. ASSUME a # KPROC PROVE NewProcess(n, a)'
    <3>1. pc'[a] = "link" /\ Running(n)'
      BY <1>4, <2>2 DEF Running
    <3>2. /\ mem[a].p_num_childs < MAX_CHILDS /\ mem[n].p_parent = a
          /\ \A i \in 1 .. MAX_CHILDS : mem[a].p_childs[i] # n
      BY <1>3, <2>2 DEF NewProcess
    <3>3. QED
      BY <1>1, <1>5, <2>1, <2>2, <3>1, <3>2 DEF NewProcess
  <2>3. ASSUME Forking(a)' PROVE NewProcess(new_proc[a], a)'
    BY <1>4, <2>2, <2>3 DEF Forking
  <2>4. ASSUME NEW b \in Actors, b # a, Forking(b)'
        PROVE  /\ pc'[b] = pc[b] /\ new_proc'[b] = new_proc[b]
               /\ pc[b] = "link" => Running(new_proc[b])'
               /\ pc[b] # "link" => pc'[new_proc[b]] = pc[new_proc[b]]
    <3>1. b # n
      BY <1>4, <2>4 DEF Forking
    <3>2. Forking(b)
      BY <1>4, <2>4, <3>1 DEF Forking
    <3>3. PICK m \in Procs : /\ m = new_proc[b] /\ m \in Actors /\ m # n
                             /\ pc[b] = "link" => Running(m)
                             /\ pc[b] # "link" => pc[m] = "none"
      BY <1>2, <1>3, <2>4, <3>2, NewProcessApart
    <3>4. Running(m) => Running(m)'
      BY <1>1, <1>4, <3>3 DEF Running
    <3>5. pc[m] = "none" => pc'[m] = pc[m]
      BY <1>1, <1>4, <3>3
    <3>6. QED
      BY <1>4, <2>4, <3>1, <3>3, <3>4, <3>5
  <2>5. pc'[KPROC] \in {"user", "insert", "count_load", "count_store", "start"}
    BY <1>0, <1>3, <1>4 DEF ForkInProgress, Actors
  <2>6. QED
    BY <1>1, <2>3, <2>4, <2>5, ForkFrame
<1>10. entry # <<>>
  BY <1>0, <1>5 DEF Named, TypeOK
<1>11. \A b \in Procs : pc'[b] \in {"wait_asleep", "wait_woken"} => pc'[b] = pc[b]
  BY <1>4 DEF Actors
<1>12. Parts'
  BY <1>1, <1>6, <1>7, <1>8, <1>10, <1>11, TableSame DEF Parts
<1>13. QED
  BY <1>12 DEF Parts, IInv, TablesAgree

(* The new process reaches user mode, or its program cannot be loaded.     *)
LEMMA FirstStepStep ==
  ASSUME IInv, NEW n \in Procs, enter_forked_process(n) \/ runprogram_fails(n)
  PROVE  IInv'
<1> USE ProcTableConstants
<1>0. TypeOK /\ ForkInProgress /\ FirstSlotKept
  BY PartsOfIInv DEF Parts
<1>1. PICK l \in {"user", "dying"} :
        /\ pc[n] = "ready" /\ pc' = [pc EXCEPT ![n] = l]
        /\ l = "dying" => mem[n].p_parent = KPROC
        /\ UNCHANGED <<Global_Proc_Table, entry, GLOBAL_PROC_COUNT, mem, new_proc, tmp, target,
                       inst, passed, raced, panicked>>
  BY DEF enter_forked_process, runprogram_fails, At, Goto, table, locals, history
<1>2. n \in Actors /\ n # KPROC /\ pc'[n] = l /\ \A b \in Actors : b # n => pc'[b] = pc[b]
  BY <1>0, <1>1 DEF TypeOK, Actors
<1>3. TypeOK'
  <2>1. pc' \in [Actors -> Places]
    BY <1>0, <1>1 DEF TypeOK, Places
  <2>2. QED
    BY <1>0, <1>1, <2>1 DEF TypeOK
<1>4. TableNamesProcess' /\ ChildsAreRunning'
  <2>1. Running(n) /\ (Running(n)' \/ mem[n].p_parent = KPROC)
    BY <1>1, <1>2 DEF Running
  <2>2. \A b \in Procs : b # n => (Running(b)' <=> Running(b))
    BY <1>2 DEF Running, Actors
  <2>3. QED
    BY <1>1, <2>1, <2>2, ProcsFrame
<1>5. ForkInProgress'
  <2>1. ~ Forking(n)'
    BY <1>2 DEF Forking
  <2>2. ASSUME NEW b \in Actors, b # n, Forking(b)'
        PROVE  /\ pc'[b] = pc[b]
               /\ pc[b] = "link" => Running(new_proc[b])'
               /\ pc[b] # "link" => pc'[new_proc[b]] = pc[new_proc[b]]
    <3>1. Forking(b)
      BY <1>2, <2>2 DEF Forking
    <3>2. PICK m \in Procs : /\ m = new_proc[b] /\ m \in Actors /\ mem[m].p_parent = b
                             /\ pc[b] = "link" => Running(m) /\ b # KPROC
                             /\ pc[b] # "link" => pc[m] = "none"
      BY <3>1, NewProcessApart
    <3>3. pc[b] # "link" => pc'[m] = pc[m]
      BY <1>1, <1>2, <3>2
    <3>4. pc[b] = "link" => Running(m)'
      <4>1. CASE m = n
        BY <1>1, <1>2, <3>2, <4>1 DEF Running
      <4>2. CASE m # n
        BY <1>2, <3>2, <4>2 DEF Running
      <4>3. QED
        BY <4>1, <4>2
    <3>5. QED
      BY <1>1, <1>2, <2>2, <3>2, <3>3, <3>4 DEF Running
  <2>3. pc'[KPROC] \in {"user", "insert", "count_load", "count_store", "start"}
    BY <1>0, <1>2 DEF ForkInProgress, Actors
  <2>4. QED
    BY <1>1, <1>2, <2>1, <2>2, <2>3, ForkFrame
<1>7. entry # <<>>
  BY <1>0, <1>1 DEF FirstSlotKept
<1>8. \A b \in Procs : pc'[b] \in {"wait_asleep", "wait_woken"} => pc'[b] = pc[b]
  BY <1>2 DEF Actors
<1>9. Parts'
  BY <1>1, <1>3, <1>4, <1>5, <1>7, <1>8, TableSame DEF Parts
<1>10. QED
  BY <1>9 DEF Parts, IInv, TablesAgree

(* The parent notes the child.                                             *)
LEMMA LinkStep ==
  ASSUME IInv, NEW a \in Procs, sys_fork_link(a)
  PROVE  IInv'
<1> USE ProcTableConstants
<1>0. TypeOK /\ TableNamesProcess /\ ChildsAreRunning /\ ForkInProgress /\ FirstSlotKept
  BY PartsOfIInv DEF Parts
<1>1. /\ pc[a] = "link" /\ pc' = [pc EXCEPT ![a] = "pid"]
      /\ mem' = [mem EXCEPT ![a].p_num_childs = @ + 1,
                            ![a].p_childs = ReplaceFirst(@, NULL, new_proc[a])]
      /\ UNCHANGED <<Global_Proc_Table, entry, GLOBAL_PROC_COUNT, new_proc, tmp, target, inst, passed, raced, panicked>>
  BY DEF sys_fork_link, At, Goto, table, locals, history
<1>2. Forking(a) /\ a \in Actors /\ a # KPROC
  BY <1>1 DEF Forking, Actors
<1>3. PICK n \in Procs : n = new_proc[a] /\ NewProcess(n, a) /\ Running(n) /\ n # a /\ n \in Actors
  BY <1>1, <1>2, NewProcessApart
<1>4. PICK f2 : f2 = ReplaceFirst(mem[a].p_childs, NULL, n)
  OBVIOUS
<1>5. mem[a].p_childs \in [1 .. MAX_CHILDS -> Procs \cup {NULL, DEAD}]
  BY <1>0 DEF TypeOK
<1>6. f2 \in [1 .. MAX_CHILDS -> Procs \cup {NULL, DEAD}]
  BY <1>4, <1>5, ReplaceFirstAt
<1>7. \/ f2 = mem[a].p_childs
      \/ \E k \in 1 .. MAX_CHILDS :
           /\ mem[a].p_childs[k] = NULL /\ f2[k] = n
           /\ \A i \in 1 .. MAX_CHILDS : i # k => f2[i] = mem[a].p_childs[i]
  <2>1. PICK f \in [1 .. MAX_CHILDS -> Procs \cup {NULL, DEAD}] : f = mem[a].p_childs
    BY <1>5
  <2>2. f2 = ReplaceFirst(f, NULL, n) /\ n \in Procs \cup {NULL, DEAD}
    BY <1>4, <2>1
  <2>3. \/ f2 = f /\ \A i \in 1 .. MAX_CHILDS : f[i] # NULL
        \/ \E k \in 1 .. MAX_CHILDS : /\ f[k] = NULL /\ f2[k] = n
                                      /\ \A i \in 1 .. MAX_CHILDS : i # k => f2[i] = f[i]
    BY <2>2, ReplaceFirstAt
  <2>4. QED
    BY <2>1, <2>3
<1>8. /\ mem'[a].p_childs = f2 /\ mem'[a].p_num_childs = mem[a].p_num_childs + 1
      /\ mem'[a].pid = mem[a].pid /\ mem'[a].p_parent = mem[a].p_parent
      /\ \A b \in Procs : b # a => mem'[b] = mem[b]
  BY <1>0, <1>1, <1>3, <1>4 DEF TypeOK
<1>9. /\ pc'[a] = "pid" /\ \A b \in Actors : b # a => pc'[b] = pc[b]
  BY <1>0, <1>1, <1>2 DEF TypeOK
<1>10. TypeOK'
  <2>1. mem[a].p_num_childs + 1 \in 0 .. MAX_CHILDS
    BY <1>0, <1>2, <1>3 DEF NewProcess, TypeOK
  <2>2. mem' \in [Procs -> [pid : Pids \cup {DEAD}, p_parent : Actors \cup {DEAD},
                        p_num_childs : 0 .. MAX_CHILDS,
                        p_childs : [1 .. MAX_CHILDS -> Procs \cup {NULL, DEAD}]]]
    <3>1. PICK r : r = [mem[a] EXCEPT !.p_num_childs = mem[a].p_num_childs + 1, !.p_childs = f2]
      OBVIOUS
    <3>2. r \in [pid : Pids \cup {DEAD}, p_parent : Actors \cup {DEAD},
                 p_num_childs : 0 .. MAX_CHILDS,
                 p_childs : [1 .. MAX_CHILDS -> Procs \cup {NULL, DEAD}]]
      <4>1. mem[a] \in [pid : Pids \cup {DEAD}, p_parent : Actors \cup {DEAD},
                 p_num_childs : 0 .. MAX_CHILDS,
                 p_childs : [1 .. MAX_CHILDS -> Procs \cup {NULL, DEAD}]]
        BY <1>0 DEF TypeOK
      <4>2. QED
        BY <1>6, <2>1, <3>1, <4>1
    <3>3. mem' = [mem EXCEPT ![a] = r]
      BY <1>0, <1>1, <1>3, <1>4, <3>1 DEF TypeOK
    <3>4. QED
      BY <1>0, <3>2, <3>3 DEF TypeOK
  <2>3. pc' \in [Actors -> Places] /\ new_proc' \in [Actors -> Procs \cup {NULL}]
    BY <1>0, <1>1 DEF TypeOK, Places
  <2>4. QED
    BY <1>0, <1>1, <2>2, <2>3 DEF TypeOK
<1>11. \A b \in Procs : Running(b)' <=> Running(b)
  BY <1>1, <1>9 DEF Running, Actors
<1>12. ASSUME NEW b \in Procs, Named(b) PROVE Named(b)'
  <2>1. mem'[b].pid = mem[b].pid
    BY <1>8
  <2>2. QED
    BY <1>1, <1>12, <2>1, NamedFrame
<1>13. TableNamesProcess'
  BY <1>0, <1>11, <1>12 DEF TableNamesProcess
<1>14. ASSUME NEW c, NEW b \in Procs, RunningChild(c, b) PROVE RunningChild(c, b)'
  BY <1>1, <1>8, <1>11, <1>14 DEF RunningChild
<1>15. ChildsRunning(a)'
  <2>1. ChildsRunning(a)
    BY <1>0, <1>1 DEF ChildsAreRunning, Running
  <2>2. RunningChild(n, a)'
    <3>1. RunningChild(n, a)
      BY <1>1, <1>2, <1>3 DEF RunningChild, NewProcess, Running
    <3>2. QED
      BY <1>14, <3>1
  <2>3. ASSUME NEW i \in 1 .. MAX_CHILDS, f2[i] # NULL
        PROVE  RunningChild(f2[i], a)' /\ \A j \in 1 .. MAX_CHILDS : f2[j] = f2[i] => j = i
    <3>1. \A j \in 1 .. MAX_CHILDS : mem[a].p_childs[j] # n
      BY <1>2, <1>3 DEF NewProcess
    <3>2. CASE f2[i] = n
      <4>1. \A j \in 1 .. MAX_CHILDS : f2[j] = n => j = i
        BY <1>7, <3>1, <3>2
      <4>2. QED
        BY <2>2, <3>2, <4>1
    <3>3. CASE f2[i] # n
      <4>1. PICK c : c = mem[a].p_childs[i]
        OBVIOUS
      <4>2. f2[i] = c /\ c # NULL
        BY <1>7, <2>3, <3>3, <4>1
      <4>3. RunningChild(c, a) /\ \A j \in 1 .. MAX_CHILDS : mem[a].p_childs[j] = c => j = i
        BY <2>1, <4>1, <4>2 DEF ChildsRunning
      <4>4. RunningChild(c, a)'
        BY <1>14, <4>3
      <4>5. \A j \in 1 .. MAX_CHILDS : f2[j] = c => j = i
        BY <1>7, <3>3, <4>2, <4>3
      <4>6. QED
        BY <4>2, <4>4, <4>5
    <3>4. QED
      BY <3>2, <3>3
  <2>4. QED
    BY <1>8, <2>3 DEF ChildsRunning
<1>16. ChildsAreRunning'
  <2>1. ASSUME NEW b \in Procs, Running(b)', b # a PROVE ChildsRunning(b)'
    <3>1. ChildsRunning(b) /\ mem'[b] = mem[b]
      BY <1>0, <1>8, <1>11, <2>1 DEF ChildsAreRunning
    <3>2. ASSUME NEW c \in Procs, RunningChild(c, b)
          PROVE  /\ Running(c)' /\ mem'[c].p_parent = mem[c].p_parent
                 /\ entry'[inst'[c]].by = entry[inst[c]].by
      BY <1>1, <1>8, <1>11, <3>2 DEF RunningChild
    <3>3. QED
      BY <1>1, <3>1, <3>2, ChildsFrame
  <2>2. QED
    BY <1>15, <2>1 DEF ChildsAreRunning
<1>17. ForkInProgress'
  <2>1. ~ Forking(a)'
    BY <1>9 DEF Forking
  <2>2. ASSUME NEW b \in Actors, b # a, Forking(b)'
        PROVE  /\ pc'[b] = pc[b] /\ new_proc'[b] = new_proc[b]
               /\ mem'[new_proc[b]].pid = mem[new_proc[b]].pid
               /\ mem'[new_proc[b]].p_parent = mem[new_proc[b]].p_parent
               /\ pc[b] = "link" => Running(new_proc[b])'
               /\ pc[b] # "link" => /\ pc'[new_proc[b]] = pc[new_proc[b]]
                                   /\ mem'[new_proc[b]].p_childs = mem[new_proc[b]].p_childs
               /\ b # KPROC => mem'[b] = mem[b]
    <3>1. Forking(b)
      BY <1>9, <2>2 DEF Forking
    <3>2. pc[a] # "none" /\ Running(a)'
      BY <1>1, <1>9 DEF Running
    <3>3. /\ pc'[b] = pc[b] /\ new_proc[b] \in Procs /\ (b # KPROC => b \in Procs)
          /\ pc[b] = "link" => Running(new_proc[b])'
          /\ pc[b] # "link" => new_proc[b] # a /\ pc'[new_proc[b]] = pc[new_proc[b]]
      BY <1>1, <1>2, <1>9, <2>2, <3>1, <3>2, OthersKept
    <3>4. /\ mem'[new_proc[b]].pid = mem[new_proc[b]].pid
          /\ mem'[new_proc[b]].p_parent = mem[new_proc[b]].p_parent
      BY <1>8, <3>3
    <3>5. pc[b] # "link" => mem'[new_proc[b]].p_childs = mem[new_proc[b]].p_childs
      BY <1>8, <3>3
    <3>6. QED
      BY <1>1, <1>8, <2>2, <3>3, <3>4, <3>5
  <2>3. pc'[KPROC] \in {"user", "insert", "count_load", "count_store", "start"}
    BY <1>0, <1>2, <1>9 DEF ForkInProgress, Actors
  <2>4. QED
    BY <1>1, <1>2, <2>1, <2>2, <2>3, ForkFrame
<1>19. entry # <<>>
  BY <1>0, <1>1 DEF FirstSlotKept
<1>20. \A b \in Procs : pc'[b] \in {"wait_asleep", "wait_woken"} => pc'[b] = pc[b]
  BY <1>9 DEF Actors
<1>21. Parts'
  BY <1>1, <1>10, <1>13, <1>16, <1>17, <1>19, <1>20, TableSame DEF Parts
<1>22. QED
  BY <1>21 DEF Parts, IInv, TablesAgree

(* sys_fork returns the pid it finds.                                      *)
LEMMA PidStep ==
  ASSUME IInv, NEW a \in Procs, sys_fork_pid(a)
  PROVE  IInv'
<1> USE ProcTableConstants
<1>0. TypeOK /\ ForkInProgress /\ FirstSlotKept
  BY PartsOfIInv DEF Parts
<1>1. /\ pc[a] = "pid" /\ pc' = [pc EXCEPT ![a] = "user"]
      /\ new_proc' = [new_proc EXCEPT ![a] = NULL]
      /\ UNCHANGED <<Global_Proc_Table, entry, GLOBAL_PROC_COUNT, mem, tmp, target, inst, passed, raced, panicked>>
  BY DEF sys_fork_pid, At, Return, Goto, table, history
<1>2. /\ a \in Actors /\ a # KPROC /\ pc'[a] = "user" /\ \A b \in Actors : b # a => pc'[b] = pc[b]
      /\ \A b \in Actors : b # a => new_proc'[b] = new_proc[b]
  BY <1>0, <1>1 DEF TypeOK, Actors
<1>3. TypeOK'
  <2>1. pc' \in [Actors -> Places] /\ new_proc' \in [Actors -> Procs \cup {NULL}]
    BY <1>0, <1>1 DEF TypeOK, Places
  <2>2. QED
    BY <1>0, <1>1, <2>1 DEF TypeOK
<1>4. Running(a) /\ Running(a)' /\ \A b \in Procs : Running(b)' <=> Running(b)
  BY <1>1, <1>2 DEF Running, Actors
<1>5. TableNamesProcess' /\ ChildsAreRunning'
  BY <1>1, <1>4, ProcsFrame
<1>6. ForkInProgress'
  <2>1. ~ Forking(a)'
    BY <1>2 DEF Forking
  <2>2. ASSUME NEW b \in Actors, b # a, Forking(b)'
        PROVE  /\ pc'[b] = pc[b] /\ new_proc'[b] = new_proc[b]
               /\ pc[b] = "link" => Running(new_proc[b])'
               /\ pc[b] # "link" => pc'[new_proc[b]] = pc[new_proc[b]]
    <3>1. Forking(b) /\ pc[a] # "none"
      BY <1>1, <1>2, <2>2 DEF Forking
    <3>2. QED
      BY <1>2, <1>4, <2>2, <3>1, OthersKept
  <2>3. pc'[KPROC] \in {"user", "insert", "count_load", "count_store", "start"}
    BY <1>0, <1>2 DEF ForkInProgress, Actors
  <2>4. QED
    BY <1>1, <1>2, <2>1, <2>2, <2>3, ForkFrame
<1>7. entry # <<>>
  BY <1>0, <1>1 DEF FirstSlotKept
<1>8. \A b \in Procs : pc'[b] \in {"wait_asleep", "wait_woken"} => pc'[b] = pc[b]
  BY <1>2 DEF Actors
<1>9. Parts'
  BY <1>1, <1>3, <1>5, <1>6, <1>7, <1>8, TableSame DEF Parts
<1>10. QED
  BY <1>9 DEF Parts, IInv, TablesAgree

----------------------------------------------------------------------------
(* The table entry *)

(* The entry of the new process goes to the first free slot.               *)
LEMMA InsertStep ==
  ASSUME IInv, NEW a \in Actors, proc_create_insert(a), FreeSlots # {}, raced' \in BOOLEAN
  PROVE  IInv'
<1> USE ProcTableConstants
<1>0. Parts
  BY PartsOfIInv
<1>1. At(a, "insert") /\ pc[a] = "insert" /\ Forking(a)
  BY DEF proc_create_insert, At, Forking
<1>2. PICK n \in Procs : n = new_proc[a] /\ NewProcess(n, a) /\ pc[n] = "none" /\ n \in Actors /\ n # a
  BY <1>1, NewProcessApart
<1>3. PICK p \in Pids : p = First(FreeSlots) /\ p \in Nat /\ Global_Proc_Table[p] = 0
                        /\ \A q \in FreeSlots : p <= q
  <2>1. FreeSlots # {} /\ FreeSlots \in SUBSET Nat
    BY DEF FreeSlots, Pids
  <2>2. First(FreeSlots) \in FreeSlots /\ \A q \in FreeSlots : First(FreeSlots) <= q
    BY <2>1, FirstIsLeast
  <2>3. PICK p : p = First(FreeSlots)
    OBVIOUS
  <2>4. p \in FreeSlots /\ \A q \in FreeSlots : p <= q
    BY <2>2, <2>3
  <2>5. p \in Pids /\ p \in Nat /\ Global_Proc_Table[p] = 0
    BY <2>4 DEF FreeSlots, Pids
  <2>6. QED
    BY <2>3, <2>4, <2>5
<1>4. PICK g \in Nat : g = Len(entry)
  BY <1>0 DEF Parts, TypeOK
<1>5. PICK by \in 0 .. g : /\ by = (IF a = KPROC THEN 0 ELSE inst[a])
                           /\ a # KPROC => by = inst[a]
  BY <1>0, <1>4 DEF Parts, TypeOK, Actors
<1>6. PICK ne \in [pcb : Procs, termed : BOOLEAN, p_termed : BOOLEAN,
                   exitcode : Codes \cup {0}, by : Nat] :
        /\ ne = NewEntry(a, n) /\ ne.pcb = n /\ ne.termed = FALSE /\ ne.p_termed = FALSE /\ ne.by = by
  <2>1. PICK ne : ne = [pcb |-> n, termed |-> FALSE, p_termed |-> FALSE, exitcode |-> 0, by |-> by]
    OBVIOUS
  <2>2. ne = NewEntry(a, n)
    BY <1>5, <2>1 DEF NewEntry
  <2>3. by \in Nat
    BY <1>5
  <2>4. ne \in [pcb : Procs, termed : BOOLEAN, p_termed : BOOLEAN,
                exitcode : Codes \cup {0}, by : Nat]
    BY <2>1, <2>3
  <2>5. ne.pcb = n /\ ne.termed = FALSE /\ ne.p_termed = FALSE /\ ne.by = by
    BY <2>1
  <2>6. QED
    BY <2>2, <2>4, <2>5
<1>7. /\ entry' = Append(entry, ne) /\ Len(entry') = g + 1
      /\ \A i \in 1 .. g : entry'[i] = entry[i] /\ entry'[g + 1] = ne
      /\ entry' \in Seq([pcb : Procs, termed : BOOLEAN, p_termed : BOOLEAN,
                         exitcode : Codes \cup {0}, by : Nat])
  <2>1. entry' = Append(entry, ne)
    BY <1>2, <1>6 DEF proc_create_insert
  <2>2. entry \in Seq([pcb : Procs, termed : BOOLEAN, p_termed : BOOLEAN,
                       exitcode : Codes \cup {0}, by : Nat])
    BY <1>0 DEF Parts, TypeOK
  <2>3. QED
    BY <1>4, <1>6, <2>1, <2>2
<1>8. entry'[g + 1] = ne
  BY <1>0, <1>4, <1>6, <1>7 DEF Parts, TypeOK
<1>9. /\ Global_Proc_Table' = [Global_Proc_Table EXCEPT ![p] = g + 1]
      /\ mem' = [mem EXCEPT ![n].pid = p]
      /\ inst' = [inst EXCEPT ![n] = g + 1]
      /\ passed' = Append(passed, NULL)
      /\ pc' = [pc EXCEPT ![a] = "count_load"]
      /\ UNCHANGED <<GLOBAL_PROC_COUNT, new_proc, tmp, target, panicked>>
  BY <1>2, <1>3, <1>7 DEF proc_create_insert, Goto, locals, InSlot
<1>10. /\ Global_Proc_Table'[p] = g + 1
       /\ \A q \in Pids : q # p => Global_Proc_Table'[q] = Global_Proc_Table[q]
       /\ \A q \in Pids : Global_Proc_Table[q] \in 0 .. g
       /\ \A q \in Pids : Global_Proc_Table[q] # 0 => q # p
  BY <1>0, <1>3, <1>4, <1>9 DEF Parts, TypeOK
<1>11. /\ mem'[n].pid = p /\ mem'[n].p_parent = mem[n].p_parent
       /\ mem'[n].p_childs = mem[n].p_childs
       /\ \A b \in Procs : b # n => mem'[b] = mem[b]
  BY <1>0, <1>9 DEF Parts, TypeOK
<1>12. /\ inst'[n] = g + 1 /\ \A b \in Procs : b # n => inst'[b] = inst[b]
       /\ \A b \in Procs : inst[b] \in 0 .. g
  BY <1>0, <1>4, <1>9 DEF Parts, TypeOK
<1>13. /\ Len(passed') = g + 1 /\ passed' \in Seq(Codes \cup {NULL}) /\ passed'[g + 1] = NULL
       /\ \A i \in 1 .. g : passed'[i] = passed[i]
  <2>1. passed \in Seq(Codes \cup {NULL}) /\ Len(passed) = g
    BY <1>0, <1>4 DEF Parts, TypeOK
  <2>2. QED
    BY <1>9, <2>1
<1>14. pc'[a] = "count_load" /\ \A b \in Actors : b # a => pc'[b] = pc[b]
  BY <1>0, <1>9 DEF Parts, TypeOK
<1>15. \A b \in Procs : /\ Running(b)' <=> Running(b)
                        /\ Running(b) => b # n
                        /\ pc'[b] \in {"wait_asleep", "wait_woken"} => pc'[b] = pc[b] /\ b # n
  BY <1>1, <1>2, <1>14 DEF Running, Actors
<1>16. TypeOK'
  <2>1. Global_Proc_Table' \in [Pids -> 0 .. Len(entry')]
    <3>1. 0 .. g \subseteq 0 .. (g + 1) /\ g + 1 \in 0 .. (g + 1)
      BY <1>4
    <3>2. Global_Proc_Table \in [Pids -> 0 .. g]
      BY <1>0, <1>4 DEF Parts, TypeOK
    <3>3. QED
      BY <1>7, <1>9, <3>1, <3>2
  <2>2. inst' \in [Procs -> 0 .. Len(entry')]
    <3>1. 0 .. g \subseteq 0 .. (g + 1) /\ g + 1 \in 0 .. (g + 1)
      BY <1>4
    <3>2. inst \in [Procs -> 0 .. g]
      BY <1>0, <1>4 DEF Parts, TypeOK
    <3>3. QED
      BY <1>7, <1>9, <3>1, <3>2
  <2>3. target' \in [Procs -> [pid : Pids, tgt_entry : 0 .. Len(entry')]]
    <3>1. 0 .. g \subseteq 0 .. (g + 1)
      BY <1>4
    <3>2. target \in [Procs -> [pid : Pids, tgt_entry : 0 .. g]]
      BY <1>0, <1>4 DEF Parts, TypeOK
    <3>3. [pid : Pids, tgt_entry : 0 .. g] \subseteq [pid : Pids, tgt_entry : 0 .. (g + 1)]
      BY <3>1
    <3>4. QED
      BY <1>7, <1>9, <3>2, <3>3
  <2>4. mem' \in [Procs -> [pid : Pids \cup {DEAD}, p_parent : Actors \cup {DEAD},
                        p_num_childs : 0 .. MAX_CHILDS,
                        p_childs : [1 .. MAX_CHILDS -> Procs \cup {NULL, DEAD}]]]
    <3>1. PICK r : r = [mem[n] EXCEPT !.pid = p]
      OBVIOUS
    <3>2. mem[n] \in [pid : Pids \cup {DEAD}, p_parent : Actors \cup {DEAD},
                      p_num_childs : 0 .. MAX_CHILDS,
                      p_childs : [1 .. MAX_CHILDS -> Procs \cup {NULL, DEAD}]]
      BY <1>0 DEF Parts, TypeOK
    <3>3. r \in [pid : Pids \cup {DEAD}, p_parent : Actors \cup {DEAD},
                 p_num_childs : 0 .. MAX_CHILDS,
                 p_childs : [1 .. MAX_CHILDS -> Procs \cup {NULL, DEAD}]]
      BY <3>1, <3>2
    <3>4. mem' = [mem EXCEPT ![n] = r]
      BY <1>9, <3>1
    <3>5. QED
      BY <1>0, <3>3, <3>4 DEF Parts, TypeOK
  <2>5. pc' \in [Actors -> Places]
    BY <1>0, <1>9 DEF Parts, TypeOK, Places
  <2>6. GLOBAL_PROC_COUNT' \in Nat /\ new_proc' \in [Actors -> Procs \cup {NULL}]
        /\ tmp' \in [Actors -> Nat] /\ raced' \in BOOLEAN /\ panicked' \in BOOLEAN
    BY <1>0, <1>9 DEF Parts, TypeOK
  <2>7. QED
    BY <1>7, <1>13, <2>1, <2>2, <2>3, <2>4, <2>5, <2>6 DEF TypeOK
<1>17. ASSUME NEW b \in Procs, b # n, Named(b) PROVE Named(b)'
  <2>1. mem[b].pid \in Pids /\ inst[b] \in 1 .. g /\ Global_Proc_Table[mem[b].pid] # 0
    <3>1. mem[b].pid # DEAD /\ inst[b] # 0 /\ Global_Proc_Table[mem[b].pid] = inst[b]
      BY <1>17 DEF Named
    <3>2. mem[b].pid \in Pids \cup {DEAD}
      BY <1>0 DEF Parts, TypeOK
    <3>3. inst[b] \in 1 .. g
      BY <1>12, <3>1
    <3>4. QED
      BY <3>1, <3>2, <3>3
  <2>2. /\ Global_Proc_Table'[mem[b].pid] = Global_Proc_Table[mem[b].pid]
        /\ entry'[inst[b]] = entry[inst[b]]
    BY <1>7, <1>10, <2>1
  <2>3. QED
    BY <1>11, <1>12, <1>17, <2>2, NamedFrame
<1>18. Named(n)'
  <2>1. p # DEAD /\ g + 1 # 0
    BY <1>3, <1>4
  <2>2. QED
    BY <1>6, <1>8, <1>10, <1>11, <1>12, <2>1 DEF Named
<1>19. TableNamesProcess'
  BY <1>0, <1>15, <1>17 DEF Parts, TableNamesProcess
<1>20. ASSUME NEW c \in Procs, c # n, Named(c) PROVE entry'[inst'[c]] = entry[inst[c]]
  BY <1>7, <1>12, <1>20 DEF Named
<1>21. ChildsAreRunning'
  <2>1. ASSUME NEW b \in Procs, Running(b)' PROVE ChildsRunning(b)'
    <3>1. ChildsRunning(b) /\ mem'[b] = mem[b] /\ inst'[b] = inst[b]
      BY <1>0, <1>11, <1>12, <1>15, <2>1 DEF Parts, ChildsAreRunning
    <3>2. ASSUME NEW c \in Procs, RunningChild(c, b)
          PROVE  /\ Running(c)' /\ mem'[c].p_parent = mem[c].p_parent
                 /\ entry'[inst'[c]].by = entry[inst[c]].by
      <4>1. Running(c) /\ c # n /\ Named(c)
        BY <1>0, <1>15, <3>2 DEF RunningChild, Parts, TableNamesProcess
      <4>2. QED
        BY <1>11, <1>15, <1>20, <4>1
    <3>3. QED
      BY <3>1, <3>2, ChildsFrame
  <2>2. QED
    BY <2>1 DEF ChildsAreRunning
<1>22. ForkInProgress'
  <2>1. NewProcess(n, a)'
    <3>1. a # KPROC => a \in Procs /\ mem'[a] = mem[a] /\ inst'[a] = inst[a]
      BY <1>2, <1>11, <1>12 DEF Actors
    <3>2. /\ mem[n].p_parent = a /\ \A i \in 1 .. MAX_CHILDS : mem[n].p_childs[i] = NULL
          /\ a # KPROC => /\ mem[a].p_num_childs < MAX_CHILDS
                          /\ \A i \in 1 .. MAX_CHILDS : mem[a].p_childs[i] # n
      BY <1>1, <1>2 DEF NewProcess
    <3>3. entry'[inst'[n]].by = IF a = KPROC THEN 0 ELSE inst'[a]
      BY <1>5, <1>6, <1>8, <1>12, <3>1
    <3>4. pc'[n] = "none"
      BY <1>2, <1>14
    <3>5. QED
      BY <1>11, <1>14, <1>18, <3>1, <3>2, <3>3, <3>4 DEF NewProcess
  <2>2. ASSUME NEW b \in Actors, b # a, Forking(b) PROVE NewProcess(new_proc[b], b)'
    <3>1. PICK m \in Procs : m = new_proc[b] /\ NewProcess(m, b) /\ m # n /\ m \in Actors
      BY <1>1, <1>2, <2>2, NewProcessApart
    <3>2. b # n
      BY <1>2, <2>2 DEF Forking
    <3>3. b # KPROC => b \in Procs /\ mem'[b] = mem[b] /\ inst'[b] = inst[b]
      BY <1>11, <1>12, <3>2 DEF Actors
    <3>4. pc[b] # "insert" => Named(m)' /\ entry'[inst'[m]].by = entry[inst[m]].by
      <4>1. pc[b] # "insert" => Named(m)
        BY <3>1 DEF NewProcess
      <4>2. QED
        BY <1>17, <1>20, <3>1, <4>1
    <3>5. /\ pc'[b] = pc[b] /\ mem'[m] = mem[m]
          /\ pc[b] = "link" => Running(m)'
          /\ pc[b] # "link" => pc'[m] = pc[m]
      <4>1. pc[a] # "none" /\ (a # KPROC => Running(a)')
        BY <1>1, <1>14 DEF Running
      <4>2. QED
        BY <1>9, <1>11, <1>14, <2>2, <3>1, <4>1, OthersKept DEF Running
    <3>6. NewProcess(m, b)'
      BY <3>1, <3>3, <3>4, <3>5, NewProcessFrame
    <3>7. QED
      BY <1>9, <3>1, <3>6
  <2>3. ASSUME NEW b \in Actors, Forking(b)' PROVE NewProcess(new_proc[b], b)'
    <3>1. CASE b = a
      BY <1>2, <1>9, <2>1, <3>1
    <3>2. CASE b # a
      BY <1>14, <2>2, <2>3, <3>2 DEF Forking
    <3>3. QED
      BY <3>1, <3>2
  <2>4. pc'[KPROC] \in {"user", "insert", "count_load", "count_store", "start"}
    BY <1>0, <1>14 DEF Parts, ForkInProgress, Actors
  <2>5. QED
    BY <2>3, <2>4 DEF ForkInProgress
<1>23. EntryInOneSlot'
  <2>1. ASSUME NEW q \in Pids, NEW r \in Pids,
               Global_Proc_Table'[q] = Global_Proc_Table'[r], Global_Proc_Table'[q] # 0
        PROVE  q = r
    <3>1. \A s \in Pids : s # p => Global_Proc_Table'[s] # g + 1
      BY <1>4, <1>10
    <3>2. CASE q = p \/ r = p
      BY <1>10, <2>1, <3>1, <3>2
    <3>3. CASE q # p /\ r # p
      BY <1>0, <1>10, <2>1, <3>3 DEF Parts, EntryInOneSlot
    <3>4. QED
      BY <3>2, <3>3
  <2>2. QED
    BY <2>1 DEF EntryInOneSlot
<1>24. DeadOrphansLeaveTable'
  <2>1. ASSUME NEW q \in Pids, Global_Proc_Table'[q] # 0
        PROVE  ~ (entry'[Global_Proc_Table'[q]].termed /\ entry'[Global_Proc_Table'[q]].p_termed)
    <3>1. CASE q = p
      BY <1>6, <1>8, <1>10, <3>1
    <3>2. CASE q # p
      <4>1. Global_Proc_Table'[q] = Global_Proc_Table[q] /\ Global_Proc_Table[q] \in 1 .. g
        BY <1>10, <2>1, <3>2
      <4>2. QED
        BY <1>0, <1>7, <2>1, <4>1 DEF Parts, DeadOrphansLeaveTable
    <3>3. QED
      BY <3>1, <3>2
  <2>2. QED
    BY <2>1 DEF DeadOrphansLeaveTable
<1>25. EntriesTellExits'
  <2>1. ASSUME NEW e \in 1 .. (g + 1)
        PROVE  /\ entry'[e].by < e
               /\ entry'[e].termed <=> passed'[e] # NULL
               /\ entry'[e].termed => entry'[e].exitcode = passed'[e]
               /\ entry'[e].p_termed => entry'[e].by # 0 /\ entry'[entry'[e].by].termed
    <3>1. CASE e = g + 1
      BY <1>5, <1>6, <1>8, <1>13, <3>1
    <3>2. CASE e # g + 1
      <4>1. e \in 1 .. g
        BY <1>4, <2>1, <3>2
      <4>2. /\ entry[e].by < e
            /\ entry[e].termed <=> passed[e] # NULL
            /\ entry[e].termed => entry[e].exitcode = passed[e]
            /\ entry[e].p_termed => entry[e].by # 0 /\ entry[entry[e].by].termed
        BY <1>0, <1>4, <4>1 DEF Parts, EntriesTellExits
      <4>3. entry'[e] = entry[e] /\ passed'[e] = passed[e] /\ entry[e].by \in Nat
        <5>1. entry[e] \in [pcb : Procs, termed : BOOLEAN, p_termed : BOOLEAN,
                             exitcode : Codes \cup {0}, by : Nat]
          BY <1>0, <1>4, <4>1, EntryType DEF Parts
        <5>2. QED
          BY <1>7, <1>13, <4>1, <5>1
      <4>4. entry[e].by # 0 => entry'[entry[e].by] = entry[entry[e].by]
        BY <1>4, <1>7, <4>1, <4>2, <4>3
      <4>5. QED
        BY <4>2, <4>3, <4>4
    <3>3. QED
      BY <3>1, <3>2
  <2>2. QED
    BY <1>7, <2>1 DEF EntriesTellExits
<1>26. FirstSlotKept'
  <2>1. 0 \in Pids
    BY DEF Pids
  <2>2. CASE entry = <<>>
    <3>1. g = 0 /\ a = KPROC
      BY <1>0, <1>1, <1>4, <2>2 DEF Parts, FirstSlotKept, Actors
    <3>2. Global_Proc_Table[0] = 0
      BY <1>10, <2>1, <3>1
    <3>3. p = 0
      BY <1>3, <2>1, <3>2 DEF FreeSlots
    <3>4. QED
      BY <1>5, <1>6, <1>7, <1>8, <1>10, <3>1, <3>3 DEF FirstSlotKept
  <2>3. CASE entry # <<>>
    <3>1. Global_Proc_Table[0] # 0 /\ entry[Global_Proc_Table[0]].by = 0
      BY <1>0, <2>3 DEF Parts, FirstSlotKept
    <3>2. Global_Proc_Table'[0] = Global_Proc_Table[0] /\ Global_Proc_Table[0] \in 1 .. g
      BY <1>10, <2>1, <3>1
    <3>3. entry' # <<>>
      BY <1>4, <1>7
    <3>4. QED
      BY <1>7, <3>1, <3>2, <3>3 DEF FirstSlotKept
  <2>4. QED
    BY <2>2, <2>3
<1>28. ASSUME NEW b \in Procs, pc'[b] \in {"wait_asleep", "wait_woken"}
       PROVE  /\ pc'[b] = pc[b] /\ b # n /\ target[b].pid \in Pids /\ target[b].tgt_entry \in 1 .. g
              /\ target[b].pid # 0
              /\ Global_Proc_Table[target[b].pid] = target[b].tgt_entry
              /\ entry[target[b].tgt_entry].by = inst[b]
  <2>1. pc'[b] = pc[b] /\ b # n
    BY <1>15, <1>28
  <2>2. target[b].pid \in Pids /\ target[b].tgt_entry \in 0 .. g
    BY <1>0, <1>4 DEF Parts, TypeOK
  <2>3. /\ target[b].pid # 0 /\ target[b].tgt_entry # 0
        /\ Global_Proc_Table[target[b].pid] = target[b].tgt_entry
        /\ entry[target[b].tgt_entry].by = inst[b]
    BY <1>0, <1>28, <2>1 DEF Parts, WaiterOwnsSlot
  <2>4. QED
    BY <2>1, <2>2, <2>3
<1>29. WaiterOwnsSlot'
  <2>1. ASSUME NEW b \in Procs, pc'[b] \in {"wait_asleep", "wait_woken"}
        PROVE  /\ Global_Proc_Table'[target[b].pid] = target[b].tgt_entry
               /\ entry'[target[b].tgt_entry].by = inst'[b]
    <3>1. /\ b # n /\ target[b].pid \in Pids /\ target[b].tgt_entry \in 1 .. g
          /\ Global_Proc_Table[target[b].pid] = target[b].tgt_entry
          /\ entry[target[b].tgt_entry].by = inst[b]
      BY <1>28, <2>1
    <3>2. Global_Proc_Table[target[b].pid] # 0
      BY <3>1
    <3>3. Global_Proc_Table'[target[b].pid] = Global_Proc_Table[target[b].pid]
      BY <1>10, <3>1, <3>2
    <3>4. entry'[target[b].tgt_entry] = entry[target[b].tgt_entry]
      BY <1>7, <3>1
    <3>5. QED
      BY <1>12, <3>1, <3>3, <3>4
  <2>2. QED
    BY <1>9, <1>28, <2>1 DEF WaiterOwnsSlot
<1>30. WaiterInformed'
  <2>1. ASSUME NEW b \in Procs, pc'[b] \in {"wait_asleep", "wait_woken"}
        PROVE  /\ pc'[b] = pc[b] /\ passed'[target[b].tgt_entry] = passed[target[b].tgt_entry]
               /\ entry'[target[b].tgt_entry] = entry[target[b].tgt_entry]
    BY <1>7, <1>13, <1>28, <2>1
  <2>2. ASSUME NEW b \in Procs
        PROVE  /\ pc'[b] = "wait_asleep" => passed'[target'[b].tgt_entry] = NULL
               /\ pc'[b] = "wait_woken" =>
                    /\ entry'[target'[b].tgt_entry].termed /\ passed'[target'[b].tgt_entry] # NULL
                    /\ entry'[target'[b].tgt_entry].exitcode = passed'[target'[b].tgt_entry]
    <3>1. CASE pc'[b] = "wait_asleep"
      <4>1. /\ pc[b] = "wait_asleep" /\ target'[b] = target[b]
            /\ passed'[target[b].tgt_entry] = passed[target[b].tgt_entry]
        BY <1>9, <2>1, <3>1
      <4>2. passed[target[b].tgt_entry] = NULL
        BY <1>0, <4>1 DEF Parts, WaiterInformed
      <4>3. QED
        BY <3>1, <4>1, <4>2
    <3>2. CASE pc'[b] = "wait_woken"
      <4>1. /\ pc[b] = "wait_woken" /\ target'[b] = target[b]
            /\ passed'[target[b].tgt_entry] = passed[target[b].tgt_entry]
            /\ entry'[target[b].tgt_entry] = entry[target[b].tgt_entry]
        BY <1>9, <2>1, <3>2
      <4>2. /\ entry[target[b].tgt_entry].termed /\ passed[target[b].tgt_entry] # NULL
            /\ entry[target[b].tgt_entry].exitcode = passed[target[b].tgt_entry]
        BY <1>0, <4>1 DEF Parts, WaiterInformed
      <4>3. QED
        BY <3>2, <4>1, <4>2
    <3>3. QED
      BY <3>1, <3>2
  <2>3. QED
    BY <2>2 DEF WaiterInformed
<1>31. Parts'
  BY <1>16, <1>19, <1>21, <1>22, <1>23, <1>24, <1>25, <1>26, <1>29, <1>30 DEF Parts
<1>32. QED
  BY <1>31 DEF Parts, IInv, TablesAgree

----------------------------------------------------------------------------
(* Waiting *)

(* A named process' pid is a slot, and its entry is one of those made.     *)
LEMMA NamedType ==
  ASSUME IInv, NEW m \in Procs, Named(m)
  PROVE  /\ mem[m].pid \in Pids /\ inst[m] \in 1 .. Len(entry)
         /\ Global_Proc_Table[mem[m].pid] = inst[m] /\ entry[inst[m]].pcb = m
         /\ ~ entry[inst[m]].termed /\ mem[m].pid # DEAD
<1>1. TypeOK
  BY PartsOfIInv DEF Parts
<1>2. /\ mem[m].pid # DEAD /\ inst[m] # 0 /\ Global_Proc_Table[mem[m].pid] = inst[m]
      /\ entry[inst[m]].pcb = m /\ ~ entry[inst[m]].termed
  BY DEF Named
<1>3. mem[m].pid \in Pids \cup {DEAD}
  BY <1>1 DEF TypeOK
<1>4. inst[m] \in 0 .. Len(entry) /\ Len(entry) \in Nat
  BY <1>1 DEF TypeOK
<1>5. QED
  BY <1>2, <1>3, <1>4

(* A child that a running process noted is named, and that process made    *)
(* it.                                                                     *)
LEMMA ChildNamed ==
  ASSUME IInv, NEW a \in Procs, Running(a), NEW c \in Children(a)
  PROVE  /\ c \in Procs /\ Running(c) /\ Named(c) /\ mem[c].p_parent = a
         /\ entry[inst[c]].by = inst[a]
<1>1. TableNamesProcess /\ ChildsAreRunning
  BY PartsOfIInv DEF Parts
<1>2. PICK i \in 1 .. MAX_CHILDS : c = mem[a].p_childs[i] /\ c # NULL
  BY DEF Children
<1>3. RunningChild(c, a)
  BY <1>1, <1>2 DEF ChildsAreRunning, ChildsRunning
<1>4. QED
  BY <1>1, <1>3 DEF RunningChild, TableNamesProcess

(* A parent starts to wait.                                                *)
LEMMA WaitpidStep ==
  ASSUME IInv, NEW a \in Actors, NEW p \in Pids, sys_waitpid(a, p)
  PROVE  IInv'
<1> USE ProcTableConstants
<1>0. Parts
  BY PartsOfIInv
<1>1. a \in Procs /\ pc[a] = "user" /\ p # 0 /\ IsChild(a, p)
  BY DEF sys_waitpid, At, Actors
<1>2. PICK c \in Children(a) : mem[c].pid = p
  BY <1>1 DEF IsChild
<1>3. Running(a)
  BY <1>1 DEF Running
<1>4. c \in Procs /\ Named(c) /\ entry[inst[c]].by = inst[a]
  BY <1>1, <1>3, ChildNamed
<1>5. PICK e \in 1 .. Len(entry) : /\ e = inst[c] /\ Global_Proc_Table[p] = e
                                   /\ entry[e].by = inst[a] /\ ~ entry[e].termed
  BY <1>2, <1>4, NamedType
<1>6. /\ target' = [target EXCEPT ![a] = [pid |-> p, tgt_entry |-> e]]
      /\ pc' = [pc EXCEPT ![a] = "wait_asleep"]
      /\ UNCHANGED <<Global_Proc_Table, entry, GLOBAL_PROC_COUNT, mem, new_proc, tmp, inst, passed, raced, panicked>>
  BY <1>5 DEF sys_waitpid, Goto, table, history
<1>7. /\ a # KPROC /\ pc'[a] = "wait_asleep" /\ \A b \in Actors : b # a => pc'[b] = pc[b]
      /\ target'[a].pid = p /\ target'[a].tgt_entry = e
      /\ \A b \in Procs : b # a => target'[b] = target[b]
  BY <1>0, <1>1, <1>6 DEF Parts, TypeOK
<1>8. TypeOK'
  <2>1. pc' \in [Actors -> Places]
    BY <1>0, <1>6 DEF Parts, TypeOK, Places
  <2>2. target' \in [Procs -> [pid : Pids, tgt_entry : 0 .. Len(entry)]]
    <3>1. [pid |-> p, tgt_entry |-> e] \in [pid : Pids, tgt_entry : 0 .. Len(entry)]
      BY <1>5
    <3>2. target \in [Procs -> [pid : Pids, tgt_entry : 0 .. Len(entry)]]
      BY <1>0 DEF Parts, TypeOK
    <3>3. QED
      BY <1>6, <3>1, <3>2
  <2>3. QED
    BY <1>0, <1>6, <2>1, <2>2 DEF Parts, TypeOK
<1>9. \A b \in Procs : Running(b)' <=> Running(b)
  BY <1>1, <1>7 DEF Running, Actors
<1>10. TableNamesProcess' /\ ChildsAreRunning'
  BY <1>1, <1>3, <1>6, <1>9, ProcsFrame
<1>11. ForkInProgress'
  <2>1. ~ Forking(a)'
    BY <1>7 DEF Forking
  <2>2. ASSUME NEW b \in Actors, b # a, Forking(b)'
        PROVE  /\ pc'[b] = pc[b]
               /\ pc[b] = "link" => Running(new_proc[b])'
               /\ pc[b] # "link" => pc'[new_proc[b]] = pc[new_proc[b]]
    <3>1. Forking(b)
      BY <1>7, <2>2 DEF Forking
    <3>2. a \in Actors /\ pc[a] # "none" /\ Running(a)'
      BY <1>1, <1>3, <1>9 DEF Actors
    <3>3. QED
      BY <1>6, <1>7, <2>2, <3>1, <3>2, OthersKept
  <2>3. pc'[KPROC] \in {"user", "insert", "count_load", "count_store", "start"}
    BY <1>0, <1>7 DEF Parts, ForkInProgress, Actors
  <2>4. QED
    BY <1>6, <2>1, <2>2, <2>3, ForkFrame
<1>13. EntryInOneSlot' /\ DeadOrphansLeaveTable' /\ EntriesTellExits'
  BY <1>0, <1>6 DEF Parts, EntryInOneSlot, DeadOrphansLeaveTable, EntriesTellExits
<1>14. FirstSlotKept'
  <2>1. entry # <<>>
    BY <1>0, <1>1 DEF Parts, FirstSlotKept
  <2>2. QED
    BY <1>0, <1>6, <2>1 DEF Parts, FirstSlotKept
<1>15. \A b \in Procs : b # a => pc'[b] = pc[b]
  BY <1>7 DEF Actors
<1>16. WaiterOwnsSlot'
  <2>1. ASSUME NEW b \in Procs, pc'[b] \in {"wait_asleep", "wait_woken"}
        PROVE  /\ target'[b].pid # 0 /\ target'[b].tgt_entry # 0
               /\ Global_Proc_Table'[target'[b].pid] = target'[b].tgt_entry
               /\ entry'[target'[b].tgt_entry].by = inst'[b]
    <3>1. CASE b = a
      BY <1>1, <1>5, <1>6, <1>7, <3>1
    <3>2. CASE b # a
      BY <1>0, <1>6, <1>7, <1>15, <2>1, <3>2 DEF Parts, WaiterOwnsSlot
    <3>3. QED
      BY <3>1, <3>2
  <2>2. QED
    BY <2>1 DEF WaiterOwnsSlot
<1>17. WaiterInformed'
  <2>1. passed[e] = NULL
    BY <1>0, <1>5 DEF Parts, EntriesTellExits
  <2>2. ASSUME NEW b \in Procs
        PROVE  /\ pc'[b] = "wait_asleep" => passed'[target'[b].tgt_entry] = NULL
               /\ pc'[b] = "wait_woken" =>
                    /\ entry'[target'[b].tgt_entry].termed /\ passed'[target'[b].tgt_entry] # NULL
                    /\ entry'[target'[b].tgt_entry].exitcode = passed'[target'[b].tgt_entry]
    <3>1. CASE b = a
      BY <1>6, <1>7, <2>1, <3>1
    <3>2. CASE b # a
      BY <1>0, <1>6, <1>7, <1>15, <3>2 DEF Parts, WaiterInformed
    <3>3. QED
      BY <3>1, <3>2
  <2>3. QED
    BY <2>2 DEF WaiterInformed
<1>18. Parts'
  BY <1>8, <1>10, <1>11, <1>13, <1>14, <1>16, <1>17 DEF Parts
<1>19. QED
  BY <1>18 DEF Parts, IInv, TablesAgree

(* The parent takes the status; the slot it clears is no running process'  *)
(* and no other waiter's.                                                  *)
LEMMA CollectStep ==
  ASSUME IInv, NEW a \in Procs, sys_waitpid_collect(a)
  PROVE  IInv'
<1> USE ProcTableConstants
<1>0. Parts
  BY PartsOfIInv
<1>1. /\ pc[a] = "wait_woken" /\ pc' = [pc EXCEPT ![a] = "user"]
      /\ new_proc' = [new_proc EXCEPT ![a] = NULL]
      /\ \/ Global_Proc_Table' = [Global_Proc_Table EXCEPT ![target[a].pid] = 0]
         \/ UNCHANGED Global_Proc_Table
      /\ target' = [target EXCEPT ![a] = NoTarget]
      /\ UNCHANGED <<entry, GLOBAL_PROC_COUNT, mem, tmp, inst, passed, raced, panicked>>
  BY DEF sys_waitpid_collect, At, Return, Goto, history
<1>2. PICK p \in Pids : p = target[a].pid
  BY <1>0 DEF Parts, TypeOK
<1>3. PICK e : e = target[a].tgt_entry
  OBVIOUS
<1>4. p # 0 /\ Global_Proc_Table[p] = e /\ entry[e].by = inst[a] /\ entry[e].termed
  BY <1>0, <1>1, <1>2, <1>3 DEF Parts, WaiterOwnsSlot, WaiterInformed
<1>5. \A q \in Pids : /\ Global_Proc_Table'[q] \in {Global_Proc_Table[q], 0}
                      /\ q # p => Global_Proc_Table'[q] = Global_Proc_Table[q]
  BY <1>0, <1>1, <1>2 DEF Parts, TypeOK
<1>6. /\ a \in Actors /\ a # KPROC /\ pc'[a] = "user" /\ \A b \in Actors : b # a => pc'[b] = pc[b]
      /\ \A b \in Actors : b # a => new_proc'[b] = new_proc[b]
      /\ \A b \in Procs : b # a => target'[b] = target[b]
  BY <1>0, <1>1 DEF Parts, TypeOK, Actors
<1>7. ASSUME NEW m \in Procs, Named(m)
      PROVE  Global_Proc_Table'[mem[m].pid] = Global_Proc_Table[mem[m].pid]
  <2>1. /\ mem[m].pid \in Pids /\ Global_Proc_Table[mem[m].pid] = inst[m]
        /\ ~ entry[inst[m]].termed
    BY <1>7, NamedType
  <2>2. mem[m].pid # p
    BY <1>4, <2>1
  <2>3. QED
    BY <1>5, <2>1, <2>2
<1>8. TypeOK'
  <2>1. pc' \in [Actors -> Places] /\ new_proc' \in [Actors -> Procs \cup {NULL}]
    BY <1>0, <1>1 DEF Parts, TypeOK, Places
  <2>2. Len(entry) \in Nat /\ 0 \in 0 .. Len(entry) /\ 0 \in Pids
    BY <1>0 DEF Parts, TypeOK, Pids
  <2>3. Global_Proc_Table' \in [Pids -> 0 .. Len(entry)]
    <3>1. Global_Proc_Table \in [Pids -> 0 .. Len(entry)]
      BY <1>0 DEF Parts, TypeOK
    <3>2. QED
      BY <1>1, <2>2, <3>1
  <2>4. target' \in [Procs -> [pid : Pids, tgt_entry : 0 .. Len(entry)]]
    <3>1. NoTarget \in [pid : Pids, tgt_entry : 0 .. Len(entry)]
      BY <2>2 DEF NoTarget
    <3>2. target \in [Procs -> [pid : Pids, tgt_entry : 0 .. Len(entry)]]
      BY <1>0 DEF Parts, TypeOK
    <3>3. QED
      BY <1>1, <3>1, <3>2
  <2>5. QED
    BY <1>0, <1>1, <2>1, <2>3, <2>4 DEF Parts, TypeOK
<1>9. Running(a) /\ \A b \in Procs : Running(b)' <=> Running(b)
  BY <1>1, <1>6 DEF Running, Actors
<1>10. TableNamesProcess' /\ ChildsAreRunning'
  BY <1>1, <1>7, <1>9, ProcsFrame
<1>11. ForkInProgress'
  <2>1. ~ Forking(a)'
    BY <1>6 DEF Forking
  <2>2. ASSUME NEW b \in Actors, b # a, Forking(b)'
        PROVE  /\ pc'[b] = pc[b] /\ new_proc'[b] = new_proc[b]
               /\ pc[b] = "link" => Running(new_proc[b])'
               /\ pc[b] # "link" => pc'[new_proc[b]] = pc[new_proc[b]]
    <3>1. Forking(b)
      BY <1>6, <2>2 DEF Forking
    <3>2. pc[a] # "none" /\ Running(a)'
      BY <1>1, <1>9
    <3>3. QED
      BY <1>6, <2>2, <3>1, <3>2, OthersKept
  <2>3. pc'[KPROC] \in {"user", "insert", "count_load", "count_store", "start"}
    BY <1>0, <1>6 DEF Parts, ForkInProgress, Actors
  <2>4. QED
    BY <1>1, <1>6, <1>7, <2>1, <2>2, <2>3, ForkFrame
<1>13. EntryInOneSlot'
  <2>1. ASSUME NEW q \in Pids, NEW r \in Pids,
               Global_Proc_Table'[q] = Global_Proc_Table'[r], Global_Proc_Table'[q] # 0
        PROVE  q = r
    BY <1>0, <1>5, <2>1 DEF Parts, EntryInOneSlot
  <2>2. QED
    BY <2>1 DEF EntryInOneSlot
<1>14. DeadOrphansLeaveTable'
  <2>1. ASSUME NEW q \in Pids, Global_Proc_Table'[q] # 0
        PROVE  ~ (entry[Global_Proc_Table'[q]].termed /\ entry[Global_Proc_Table'[q]].p_termed)
    BY <1>0, <1>5, <2>1 DEF Parts, DeadOrphansLeaveTable
  <2>2. QED
    BY <1>1, <2>1 DEF DeadOrphansLeaveTable
<1>15. EntriesTellExits'
  BY <1>0, <1>1 DEF Parts, EntriesTellExits
<1>16. FirstSlotKept'
  <2>1. entry # <<>> /\ 0 \in Pids
    BY <1>0, <1>1 DEF Parts, FirstSlotKept, Pids
  <2>2. Global_Proc_Table'[0] = Global_Proc_Table[0]
    BY <1>4, <1>5, <2>1
  <2>3. QED
    BY <1>0, <1>1, <2>1, <2>2 DEF Parts, FirstSlotKept
<1>17. ASSUME NEW b \in Procs, pc'[b] \in {"wait_asleep", "wait_woken"}
       PROVE  /\ b # a /\ pc'[b] = pc[b] /\ target'[b] = target[b]
              /\ target[b].pid \in Pids
              /\ target[b].pid # 0 /\ target[b].tgt_entry # 0
              /\ Global_Proc_Table[target[b].pid] = target[b].tgt_entry
              /\ entry[target[b].tgt_entry].by = inst[b]
  <2>1. b # a /\ pc'[b] = pc[b] /\ target'[b] = target[b]
    BY <1>6, <1>17 DEF Actors
  <2>2. QED
    BY <1>0, <1>17, <2>1 DEF Parts, TypeOK, WaiterOwnsSlot
<1>18. WaiterOwnsSlot'
  <2>1. ASSUME NEW b \in Procs, pc'[b] \in {"wait_asleep", "wait_woken"}
        PROVE  Global_Proc_Table'[target[b].pid] = target[b].tgt_entry
    <3>1. Named(a) /\ Named(b)
      BY <1>0, <1>9, <1>17, <2>1 DEF Parts, TableNamesProcess, Running
    <3>2. inst[a] # inst[b]
      BY <1>17, <2>1, <3>1 DEF Named
    <3>3. target[b].pid # p
      BY <1>4, <1>17, <2>1, <3>2
    <3>4. QED
      BY <1>5, <1>17, <2>1, <3>3
  <2>2. QED
    BY <1>1, <1>17, <2>1 DEF WaiterOwnsSlot
<1>19. WaiterInformed'
  <2>1. ASSUME NEW b \in Procs
        PROVE  /\ pc'[b] = "wait_asleep" => passed'[target'[b].tgt_entry] = NULL
               /\ pc'[b] = "wait_woken" =>
                    /\ entry'[target'[b].tgt_entry].termed /\ passed'[target'[b].tgt_entry] # NULL
                    /\ entry'[target'[b].tgt_entry].exitcode = passed'[target'[b].tgt_entry]
    BY <1>0, <1>1, <1>17 DEF Parts, WaiterInformed
  <2>2. QED
    BY <2>1 DEF WaiterInformed
<1>20. Parts'
  BY <1>8, <1>10, <1>11, <1>13, <1>14, <1>15, <1>16, <1>18, <1>19 DEF Parts
<1>21. QED
  BY <1>20 DEF Parts, IInv, TablesAgree

----------------------------------------------------------------------------
(* Exit *)

(* thread_exit: nobody knows the process by its address any more.          *)
LEMMA ThreadExitStep ==
  ASSUME IInv, NEW a \in Procs, thread_exit(a)
  PROVE  IInv'
<1> USE ProcTableConstants
<1>0. Parts
  BY PartsOfIInv
<1>1. /\ pc[a] = "dying" /\ pc' = [pc EXCEPT ![a] = "none"]
      /\ mem' = [mem EXCEPT ![a] = Freed] /\ inst' = [inst EXCEPT ![a] = 0]
      /\ UNCHANGED <<Global_Proc_Table, entry, GLOBAL_PROC_COUNT, new_proc, tmp, target, passed, raced, panicked>>
  BY DEF thread_exit, At, Goto, table, locals
<1>2. /\ a \in Actors /\ a # KPROC /\ pc'[a] = "none" /\ \A b \in Actors : b # a => pc'[b] = pc[b]
      /\ \A b \in Procs : b # a => mem'[b] = mem[b] /\ inst'[b] = inst[b] /\ pc'[b] = pc[b]
  BY <1>0, <1>1 DEF Parts, TypeOK, Actors
<1>3. ~ Running(a) /\ ~ Running(a)' /\ \A b \in Procs : b # a => (Running(b)' <=> Running(b))
  BY <1>1, <1>2 DEF Running
<1>4. TypeOK'
  <2>1. Freed \in [pid : Pids \cup {DEAD}, p_parent : Actors \cup {DEAD},
                   p_num_childs : 0 .. MAX_CHILDS,
                   p_childs : [1 .. MAX_CHILDS -> Procs \cup {NULL, DEAD}]]
    <3>1. [i \in 1 .. MAX_CHILDS |-> DEAD] \in [1 .. MAX_CHILDS -> Procs \cup {NULL, DEAD}]
      OBVIOUS
    <3>2. 0 \in 0 .. MAX_CHILDS
      OBVIOUS
    <3>3. QED
      BY <3>1, <3>2 DEF Freed
  <2>2. mem' \in [Procs -> [pid : Pids \cup {DEAD}, p_parent : Actors \cup {DEAD},
                        p_num_childs : 0 .. MAX_CHILDS,
                        p_childs : [1 .. MAX_CHILDS -> Procs \cup {NULL, DEAD}]]]
    BY <1>0, <1>1, <2>1 DEF Parts, TypeOK
  <2>3. pc' \in [Actors -> Places]
    BY <1>0, <1>1 DEF Parts, TypeOK, Places
  <2>4. inst' \in [Procs -> 0 .. Len(entry)]
    <3>1. Len(entry) \in Nat /\ inst \in [Procs -> 0 .. Len(entry)]
      BY <1>0 DEF Parts, TypeOK
    <3>2. QED
      BY <1>1, <3>1
  <2>5. QED
    BY <1>0, <1>1, <2>2, <2>3, <2>4 DEF Parts, TypeOK
<1>5. ASSUME NEW b \in Procs, b # a, Named(b) PROVE Named(b)'
  BY <1>1, <1>2, <1>5, NamedFrame
<1>6. TableNamesProcess'
  BY <1>0, <1>3, <1>5 DEF Parts, TableNamesProcess
<1>7. ChildsAreRunning'
  <2>1. ASSUME NEW b \in Procs, Running(b)' PROVE ChildsRunning(b)'
    <3>1. ChildsRunning(b) /\ mem'[b] = mem[b] /\ inst'[b] = inst[b]
      BY <1>0, <1>2, <1>3, <2>1 DEF Parts, ChildsAreRunning
    <3>2. ASSUME NEW c \in Procs, RunningChild(c, b)
          PROVE  /\ Running(c)' /\ mem'[c].p_parent = mem[c].p_parent
                 /\ entry'[inst'[c]].by = entry[inst[c]].by
      BY <1>1, <1>2, <1>3, <3>2 DEF RunningChild
    <3>3. QED
      BY <3>1, <3>2, ChildsFrame
  <2>2. QED
    BY <2>1 DEF ChildsAreRunning
<1>8. ForkInProgress'
  <2>1. ASSUME NEW b \in Actors, Forking(b)' PROVE NewProcess(new_proc[b], b)'
    <3>1. b # a /\ Forking(b)
      BY <1>2, <2>1 DEF Forking
    <3>2. PICK m \in Procs : m = new_proc[b] /\ NewProcess(m, b) /\ m # a /\ (pc[b] = "link" => Running(m)')
      BY <1>1, <1>3, <3>1, NewProcessApart
    <3>3. b # KPROC => b \in Procs
      BY DEF Actors
    <3>4. pc[b] # "insert" => Named(m)'
      BY <1>5, <3>2 DEF NewProcess
    <3>5. pc'[b] = pc[b]
      BY <1>2, <3>1
    <3>6. NewProcess(m, b)'
      BY <1>1, <1>2, <3>1, <3>2, <3>3, <3>4, <3>5, NewProcessFrame
    <3>7. QED
      BY <1>1, <3>2, <3>6
  <2>2. pc'[KPROC] \in {"user", "insert", "count_load", "count_store", "start"}
    BY <1>0, <1>2 DEF Parts, ForkInProgress, Actors
  <2>3. QED
    BY <2>1, <2>2 DEF ForkInProgress
<1>10. EntryInOneSlot' /\ DeadOrphansLeaveTable' /\ EntriesTellExits'
  BY <1>0, <1>1 DEF Parts, EntryInOneSlot, DeadOrphansLeaveTable, EntriesTellExits
<1>11. FirstSlotKept'
  <2>1. entry # <<>>
    BY <1>0, <1>1 DEF Parts, FirstSlotKept
  <2>2. QED
    BY <1>0, <1>1, <2>1 DEF Parts, FirstSlotKept
<1>12. ASSUME NEW b \in Procs, pc'[b] \in {"wait_asleep", "wait_woken"}
       PROVE  b # a /\ pc'[b] = pc[b] /\ inst'[b] = inst[b]
  BY <1>2, <1>12
<1>13. WaiterOwnsSlot'
  BY <1>0, <1>1, <1>12 DEF Parts, WaiterOwnsSlot
<1>14. WaiterInformed'
  BY <1>0, <1>1, <1>12 DEF Parts, WaiterInformed
<1>15. Parts'
  BY <1>4, <1>6, <1>7, <1>8, <1>10, <1>11, <1>13, <1>14 DEF Parts
<1>16. QED
  BY <1>15 DEF Parts, IInv, TablesAgree

(* The exiting process leaves its parent's array, whoever is at the        *)
(* parent's address now, and nothing else moves.                           *)
LEMMA LeaveParentStep ==
  ASSUME TypeOK, NEW a \in Procs, LeaveParent(a)
  PROVE  /\ mem' \in [Procs -> [pid : Pids \cup {DEAD}, p_parent : Actors \cup {DEAD},
                        p_num_childs : 0 .. MAX_CHILDS,
                        p_childs : [1 .. MAX_CHILDS -> Procs \cup {NULL, DEAD}]]]
         /\ \A b \in Procs : /\ mem'[b].pid = mem[b].pid /\ mem'[b].p_parent = mem[b].p_parent
                             /\ mem'[b].p_num_childs = mem[b].p_num_childs
         /\ \A b \in Procs : \A i \in 1 .. MAX_CHILDS :
              mem'[b].p_childs[i] = mem[b].p_childs[i] \/ mem'[b].p_childs[i] = NULL
         /\ \A i \in 1 .. MAX_CHILDS :
              /\ mem[a].p_parent \in Procs
              /\ mem'[mem[a].p_parent].p_childs[i] = a
              => \E j \in 1 .. MAX_CHILDS : j # i /\ mem[mem[a].p_parent].p_childs[j] = a
                                            /\ mem[mem[a].p_parent].p_childs[i] = a
<1> USE ProcTableConstants
<1>1. CASE mem[a].p_parent \notin Procs
  <2>1. mem' = mem
    BY <1>1 DEF LeaveParent
  <2>2. QED
    BY <1>1, <2>1 DEF TypeOK
<1>2. CASE mem[a].p_parent \in Procs
  <2>1. PICK q \in Procs : q = mem[a].p_parent
    BY <1>2
  <2>2. PICK f \in [1 .. MAX_CHILDS -> Procs \cup {NULL, DEAD}] : f = mem[q].p_childs
    BY DEF TypeOK
  <2>3. PICK f2 : f2 = ReplaceFirst(f, a, NULL)
    OBVIOUS
  <2>4. /\ f2 \in [1 .. MAX_CHILDS -> Procs \cup {NULL, DEAD}]
        /\ \/ f2 = f /\ \A i \in 1 .. MAX_CHILDS : f[i] # a
           \/ \E k \in 1 .. MAX_CHILDS : /\ f[k] = a /\ f2[k] = NULL
                                         /\ \A i \in 1 .. MAX_CHILDS : i # k => f2[i] = f[i]
    BY <2>3, ReplaceFirstAt
  <2>5. PICK r : r = [mem[q] EXCEPT !.p_childs = f2]
    OBVIOUS
  <2>6. mem' = [mem EXCEPT ![q] = r]
    BY <1>2, <2>1, <2>2, <2>3, <2>5 DEF LeaveParent
  <2>7. mem[q] \in [pid : Pids \cup {DEAD}, p_parent : Actors \cup {DEAD},
                    p_num_childs : 0 .. MAX_CHILDS,
                    p_childs : [1 .. MAX_CHILDS -> Procs \cup {NULL, DEAD}]]
    BY DEF TypeOK
  <2>8. r \in [pid : Pids \cup {DEAD}, p_parent : Actors \cup {DEAD},
               p_num_childs : 0 .. MAX_CHILDS,
               p_childs : [1 .. MAX_CHILDS -> Procs \cup {NULL, DEAD}]]
    BY <2>4, <2>5, <2>7
  <2>9. /\ r.pid = mem[q].pid /\ r.p_parent = mem[q].p_parent
        /\ r.p_num_childs = mem[q].p_num_childs /\ r.p_childs = f2
    BY <2>5, <2>7
  <2>10. mem'[q] = r /\ \A b \in Procs : b # q => mem'[b] = mem[b]
    BY <2>6 DEF TypeOK
  <2>11. mem' \in [Procs -> [pid : Pids \cup {DEAD}, p_parent : Actors \cup {DEAD},
                        p_num_childs : 0 .. MAX_CHILDS,
                        p_childs : [1 .. MAX_CHILDS -> Procs \cup {NULL, DEAD}]]]
    BY <2>6, <2>8 DEF TypeOK
  <2>12. \A i \in 1 .. MAX_CHILDS : f2[i] = f[i] \/ f2[i] = NULL
    BY <2>4
  <2>13. ASSUME NEW i \in 1 .. MAX_CHILDS, f2[i] = a
         PROVE  \E j \in 1 .. MAX_CHILDS : j # i /\ f[j] = a /\ f[i] = a
    BY <2>4, <2>13 DEF Actors
  <2>14. QED
    BY <2>1, <2>2, <2>9, <2>10, <2>11, <2>12, <2>13
<1>3. QED
  BY <1>1, <1>2

(* The assertions of sys__exit hold for a running process.                 *)
LEMMA NoExitPanic ==
  ASSUME IInv, NEW a \in Procs, Running(a)
  PROVE  /\ ~ ExitPanics(a) /\ EntryOf(a) = inst[a]
         /\ \A c \in Children(a) : EntryOf(c) = inst[c]
<1>1. ASSUME NEW m \in Procs, Named(m) PROVE EntryOf(m) = inst[m] /\ EntryOf(m) # 0
  BY <1>1 DEF Named, EntryOf
<1>2. Named(a)
  BY PartsOfIInv DEF Parts, TableNamesProcess
<1>3. \A c \in Children(a) : c \in Procs /\ Named(c)
  BY ChildNamed
<1>4. QED
  BY <1>1, <1>2, <1>3 DEF ExitPanics

(* sys__exit marks the children's entries and its own, clears its slot if  *)
(* nobody can collect it, and wakes who waits.                             *)
LEMMA ExitStep ==
  ASSUME IInv, NEW a \in Actors, NEW code \in Codes, sys__exit(a, code),
         \A b \in Procs : ~ (pc[b] = "link" /\ new_proc[b] = a), raced' \in BOOLEAN
  PROVE  IInv'
<1> USE ProcTableConstants
<1>0. Parts
  BY PartsOfIInv
<1>1. a \in Procs /\ pc[a] = "user" /\ a # KPROC /\ Running(a)
  BY DEF sys__exit, At, Actors, Running
<1>2. /\ ~ ExitPanics(a) /\ EntryOf(a) = inst[a]
      /\ \A c \in Children(a) : EntryOf(c) = inst[c]
  BY <1>1, NoExitPanic
<1>3. Exits(a, code)
  BY <1>2 DEF sys__exit
<1>4. PICK g \in Nat : g = Len(entry) /\ DOMAIN entry = 1 .. g
  BY <1>0 DEF Parts, TypeOK
<1>5. Named(a)
  BY <1>0, <1>1 DEF Parts, TableNamesProcess
<1>6. PICK e \in 1 .. g : /\ e = inst[a] /\ Global_Proc_Table[mem[a].pid] = e /\ mem[a].pid \in Pids
                          /\ entry[e].pcb = a /\ ~ entry[e].termed
  BY <1>1, <1>4, <1>5, NamedType
<1>7. PICK p \in Pids : p = mem[a].pid
  BY <1>6
<1>8. PICK O : O = {EntryOf(c) : c \in Children(a)}
  OBVIOUS
<1>9. ASSUME NEW o \in O
      PROVE  /\ o \in 1 .. g /\ o # e /\ entry[o].by = e /\ ~ entry[o].termed
             /\ \E c \in Procs : Running(c) /\ mem[c].p_parent = a /\ o = inst[c]
  <2>1. PICK c \in Children(a) : o = inst[c]
    BY <1>2, <1>8
  <2>2. c \in Procs /\ Running(c) /\ Named(c) /\ mem[c].p_parent = a /\ entry[inst[c]].by = inst[a]
    BY <1>1, ChildNamed
  <2>3. o \in 1 .. g /\ entry[o].by = e /\ ~ entry[o].termed
    BY <1>4, <1>6, <2>1, <2>2, NamedType
  <2>4. e < o
    BY <1>0, <1>4, <2>3 DEF Parts, EntriesTellExits
  <2>5. QED
    BY <2>1, <2>2, <2>3, <2>4
<1>10. PICK marked : marked = [x \in 1 .. g |-> IF x \in O THEN Orphaned(entry[x]) ELSE entry[x]]
  OBVIOUS
<1>11. /\ entry' = [marked EXCEPT ![e] = Terminated(marked[e], code)]
       /\ Global_Proc_Table' = IF FreesSlot(marked[e])
                               THEN [Global_Proc_Table EXCEPT ![p] = 0] ELSE Global_Proc_Table
       /\ pc' = [b \in Actors |-> IF b = a THEN "dying"
                                  ELSE IF b \in Waiters(e) THEN "wait_woken" ELSE pc[b]]
       /\ LeaveParent(a) /\ passed' = [passed EXCEPT ![e] = code]
       /\ UNCHANGED <<GLOBAL_PROC_COUNT, new_proc, tmp, target, inst, panicked>>
  BY <1>2, <1>3, <1>4, <1>6, <1>7, <1>8, <1>10 DEF Exits, locals
<1>12. ASSUME NEW x \in 1 .. g
       PROVE  entry[x] \in [pcb : Procs, termed : BOOLEAN, p_termed : BOOLEAN,
                            exitcode : Codes \cup {0}, by : Nat]
  BY <1>0, <1>4, EntryType DEF Parts
<1>13. ASSUME NEW x \in 1 .. g
       PROVE  /\ marked[x] \in [pcb : Procs, termed : BOOLEAN, p_termed : BOOLEAN,
                                exitcode : Codes \cup {0}, by : Nat]
              /\ marked[x].pcb = entry[x].pcb /\ marked[x].by = entry[x].by
              /\ marked[x].termed = entry[x].termed /\ marked[x].exitcode = entry[x].exitcode
              /\ marked[x].p_termed = (IF x \in O THEN TRUE ELSE entry[x].p_termed)
  <2>1. CASE x \in O
    <3>1. marked[x] = [entry[x] EXCEPT !.p_termed = TRUE]
      BY <1>10, <2>1 DEF Orphaned
    <3>2. QED
      BY <1>12, <2>1, <3>1
  <2>2. CASE x \notin O
    BY <1>10, <1>12, <2>2
  <2>3. QED
    BY <2>1, <2>2
<1>14. e \notin O /\ marked[e] = entry[e]
  BY <1>9, <1>10
<1>15. /\ entry'[e] \in [pcb : Procs, termed : BOOLEAN, p_termed : BOOLEAN,
                         exitcode : Codes \cup {0}, by : Nat]
       /\ entry'[e].pcb = entry[e].pcb /\ entry'[e].by = entry[e].by
       /\ entry'[e].termed = TRUE /\ entry'[e].exitcode = code
       /\ entry'[e].p_termed = entry[e].p_termed
  <2>1. entry'[e] = [entry[e] EXCEPT !.termed = TRUE, !.exitcode = code]
    BY <1>10, <1>11, <1>14 DEF Terminated
  <2>2. QED
    BY <1>12, <2>1
<1>16. ASSUME NEW x \in 1 .. g, x # e PROVE entry'[x] = marked[x]
  BY <1>10, <1>11, <1>16
<1>17. ASSUME NEW x \in 1 .. g
       PROVE  /\ entry'[x].pcb = entry[x].pcb /\ entry'[x].by = entry[x].by
              /\ entry'[x].termed = (IF x = e THEN TRUE ELSE entry[x].termed)
              /\ entry'[x].exitcode = (IF x = e THEN code ELSE entry[x].exitcode)
              /\ entry'[x].p_termed = (IF x \in O THEN TRUE ELSE entry[x].p_termed)
  <2>1. CASE x = e
    BY <1>14, <1>15, <2>1
  <2>2. CASE x # e
    <3>1. entry'[x] = marked[x]
      BY <1>16, <2>2
    <3>2. QED
      BY <1>13, <2>2, <3>1
  <2>3. QED
    BY <2>1, <2>2
<1>18. /\ entry' \in Seq([pcb : Procs, termed : BOOLEAN, p_termed : BOOLEAN,
                          exitcode : Codes \cup {0}, by : Nat])
       /\ Len(entry') = g
  <2>1. PICK R : R = [pcb : Procs, termed : BOOLEAN, p_termed : BOOLEAN,
                      exitcode : Codes \cup {0}, by : Nat]
    OBVIOUS
  <2>2. DOMAIN entry' = 1 .. g /\ entry' = [x \in 1 .. g |-> entry'[x]]
    BY <1>10, <1>11
  <2>3. \A x \in 1 .. g : entry'[x] \in R
    BY <1>13, <1>15, <1>16, <2>1
  <2>4. entry' \in [1 .. g -> R]
    BY <2>2, <2>3
  <2>5. entry' \in Seq(R) /\ Len(entry') = g
    BY <1>4, <2>4
  <2>6. QED
    BY <2>1, <2>5
<1>19. /\ Global_Proc_Table \in [Pids -> 0 .. g]
       /\ \A q \in Pids : q # p => Global_Proc_Table'[q] = Global_Proc_Table[q]
       /\ entry[e].p_termed => Global_Proc_Table'[p] = 0
       /\ ~ entry[e].p_termed => Global_Proc_Table'[p] = e
       /\ Global_Proc_Table[p] = e
  BY <1>0, <1>4, <1>6, <1>7, <1>11, <1>14 DEF Parts, TypeOK, FreesSlot
<1>20. /\ pc'[a] = "dying"
       /\ \A b \in Actors : b # a => /\ b \in Waiters(e) => pc'[b] = "wait_woken"
                                     /\ b \notin Waiters(e) => pc'[b] = pc[b]
  BY <1>1, <1>11 DEF Actors
<1>21. \A b \in Procs : b \in Waiters(e) <=> pc[b] = "wait_asleep" /\ target[b].tgt_entry = e
  BY DEF Waiters
<1>22. ASSUME NEW b \in Actors, b # a
       PROVE  (pc[b] # "wait_asleep" => pc'[b] = pc[b])
              /\ (pc'[b] # "wait_woken" => pc'[b] = pc[b])
  BY <1>20, <1>22 DEF Waiters
<1>23. /\ ~ Running(a)' /\ \A b \in Procs : b # a => (Running(b)' <=> Running(b))
  <2>1. ~ Running(a)'
    BY <1>20 DEF Running
  <2>2. ASSUME NEW b \in Procs, b # a PROVE Running(b)' <=> Running(b)
    <3>1. CASE b \in Waiters(e)
      BY <1>20, <1>21, <2>2, <3>1 DEF Running, Actors
    <3>2. CASE b \notin Waiters(e)
      BY <1>20, <2>2, <3>2 DEF Running, Actors
    <3>3. QED
      BY <3>1, <3>2
  <2>3. QED
    BY <2>1, <2>2
<1>24. /\ mem' \in [Procs -> [pid : Pids \cup {DEAD}, p_parent : Actors \cup {DEAD},
                        p_num_childs : 0 .. MAX_CHILDS,
                        p_childs : [1 .. MAX_CHILDS -> Procs \cup {NULL, DEAD}]]]
       /\ \A b \in Procs : /\ mem'[b].pid = mem[b].pid /\ mem'[b].p_parent = mem[b].p_parent
                           /\ mem'[b].p_num_childs = mem[b].p_num_childs
       /\ \A b \in Procs : \A i \in 1 .. MAX_CHILDS :
            mem'[b].p_childs[i] = mem[b].p_childs[i] \/ mem'[b].p_childs[i] = NULL
       /\ \A i \in 1 .. MAX_CHILDS :
            /\ mem[a].p_parent \in Procs
            /\ mem'[mem[a].p_parent].p_childs[i] = a
            => \E j \in 1 .. MAX_CHILDS : j # i /\ mem[mem[a].p_parent].p_childs[j] = a
                                          /\ mem[mem[a].p_parent].p_childs[i] = a
  BY <1>0, <1>1, <1>11, LeaveParentStep DEF Parts
<1>25. TypeOK'
  <2>1. Global_Proc_Table' \in [Pids -> 0 .. Len(entry')]
    BY <1>11, <1>18, <1>19
  <2>2. pc' \in [Actors -> Places]
    <3>1. pc \in [Actors -> Places]
      BY <1>0 DEF Parts, TypeOK
    <3>2. QED
      BY <1>11, <3>1 DEF Places
  <2>3. passed' \in Seq(Codes \cup {NULL}) /\ Len(passed') = Len(entry')
    <3>1. passed \in Seq(Codes \cup {NULL}) /\ Len(passed) = g
      BY <1>0, <1>4 DEF Parts, TypeOK
    <3>2. passed' \in Seq(Codes \cup {NULL}) /\ Len(passed') = g
      BY <1>11, <3>1
    <3>3. QED
      BY <1>18, <3>2
  <2>4. target' \in [Procs -> [pid : Pids, tgt_entry : 0 .. Len(entry')]]
        /\ inst' \in [Procs -> 0 .. Len(entry')]
    BY <1>0, <1>4, <1>11, <1>18 DEF Parts, TypeOK
  <2>5. GLOBAL_PROC_COUNT' \in Nat /\ new_proc' \in [Actors -> Procs \cup {NULL}]
        /\ tmp' \in [Actors -> Nat] /\ raced' \in BOOLEAN /\ panicked' \in BOOLEAN
    BY <1>0, <1>11 DEF Parts, TypeOK
  <2>6. QED
    BY <1>18, <1>24, <2>1, <2>2, <2>3, <2>4, <2>5 DEF TypeOK
<1>26. ASSUME NEW m \in Procs, m # a, Named(m)
       PROVE  Named(m)' /\ entry'[inst'[m]].by = entry[inst[m]].by
  <2>1. /\ mem[m].pid \in Pids /\ inst[m] \in 1 .. g /\ Global_Proc_Table[mem[m].pid] = inst[m]
        /\ entry[inst[m]].pcb = m
    BY <1>4, <1>26, NamedType
  <2>2. inst[m] # e /\ mem[m].pid # p
    BY <1>6, <1>19, <1>26, <2>1
  <2>3. /\ entry'[inst[m]].pcb = entry[inst[m]].pcb /\ entry'[inst[m]].by = entry[inst[m]].by
        /\ entry'[inst[m]].termed = entry[inst[m]].termed
    BY <1>17, <2>1, <2>2
  <2>4. Global_Proc_Table'[mem[m].pid] = Global_Proc_Table[mem[m].pid]
    BY <1>19, <2>1, <2>2
  <2>5. inst'[m] = inst[m] /\ mem'[m].pid = mem[m].pid
    BY <1>11, <1>24
  <2>6. QED
    BY <1>26, <2>3, <2>4, <2>5, NamedFrame
<1>27. TableNamesProcess'
  BY <1>0, <1>23, <1>26 DEF Parts, TableNamesProcess
<1>28. ChildsAreRunning'
  <2>1. ASSUME NEW b \in Procs, Running(b)' PROVE ChildsRunning(b)'
    <3>1. b # a /\ ChildsRunning(b)
      BY <1>0, <1>23, <2>1 DEF Parts, ChildsAreRunning
    <3>2. ASSUME NEW c \in Procs, c # a, RunningChild(c, b) PROVE RunningChild(c, b)'
      <4>1. Named(c) /\ Running(c) /\ mem[c].p_parent = b /\ entry[inst[c]].by = inst[b]
        BY <1>0, <3>2 DEF RunningChild, Parts, TableNamesProcess
      <4>2. /\ Running(c)' /\ mem'[c].p_parent = b /\ entry'[inst'[c]].by = entry[inst[c]].by
            /\ inst'[b] = inst[b]
        BY <1>11, <1>23, <1>24, <1>26, <3>2, <4>1
      <4>3. QED
        BY <4>1, <4>2 DEF RunningChild
    <3>3. ASSUME NEW i \in 1 .. MAX_CHILDS, NEW c, mem'[b].p_childs[i] = c, c # NULL
          PROVE  RunningChild(c, b)' /\ \A j \in 1 .. MAX_CHILDS : mem'[b].p_childs[j] = c => j = i
      <4>1. mem[b].p_childs[i] = c
        BY <1>24, <3>3
      <4>2. RunningChild(c, b) /\ \A j \in 1 .. MAX_CHILDS : mem[b].p_childs[j] = c => j = i
        BY <3>1, <3>3, <4>1 DEF ChildsRunning
      <4>3. c \in Procs /\ mem[c].p_parent = b
        BY <4>2 DEF RunningChild
      <4>4. c # a
        <5>1. SUFFICES ASSUME c = a PROVE FALSE
          OBVIOUS
        <5>2. b = mem[a].p_parent /\ mem'[b].p_childs[i] = a
          BY <3>3, <4>3, <5>1
        <5>3. \E j \in 1 .. MAX_CHILDS : j # i /\ mem[b].p_childs[j] = a
          BY <1>24, <5>2
        <5>4. QED
          BY <4>2, <5>1, <5>3
      <4>5. \A j \in 1 .. MAX_CHILDS : mem'[b].p_childs[j] = c => mem[b].p_childs[j] = c
        BY <1>24, <3>3
      <4>6. QED
        BY <3>2, <4>2, <4>3, <4>4, <4>5
    <3>4. QED
      BY <3>3 DEF ChildsRunning
  <2>2. QED
    BY <2>1 DEF ChildsAreRunning
<1>29. ForkInProgress'
  <2>1. ASSUME NEW b \in Actors, Forking(b)' PROVE NewProcess(new_proc[b], b)'
    <3>1. b # a /\ pc'[b] = pc[b] /\ Forking(b)
      BY <1>20, <1>22, <2>1 DEF Forking
    <3>2. PICK m \in Procs : /\ m = new_proc[b] /\ NewProcess(m, b) /\ m # a /\ m \in Actors
                             /\ pc[b] = "link" => Running(m)
                             /\ pc[b] # "link" => pc[m] = "none"
      BY <1>1, <3>1, NewProcessApart
    <3>3. /\ pc[b] = "link" => Running(m)'
          /\ pc[b] # "link" => pc'[m] = "none"
          /\ b # KPROC => b \in Procs
      BY <1>22, <1>23, <3>2 DEF Actors
    <3>4. /\ mem[m].p_parent = b
          /\ pc[b] # "link" => \A i \in 1 .. MAX_CHILDS : mem[m].p_childs[i] = NULL
          /\ pc[b] # "insert" => Named(m)
          /\ pc[b] # "insert" => entry[inst[m]].by = IF b = KPROC THEN 0 ELSE inst[b]
          /\ b # KPROC => /\ mem[b].p_num_childs < MAX_CHILDS
                          /\ \A i \in 1 .. MAX_CHILDS : mem[b].p_childs[i] # m
      BY <3>2 DEF NewProcess
    <3>5. /\ mem'[m].p_parent = b
          /\ pc[b] # "link" => \A i \in 1 .. MAX_CHILDS : mem'[m].p_childs[i] = NULL
      BY <1>24, <3>4
    <3>6. b # KPROC => /\ mem'[b].p_num_childs < MAX_CHILDS
                       /\ \A i \in 1 .. MAX_CHILDS : mem'[b].p_childs[i] # m
      <4>1. m # NULL
        BY <3>2 DEF Actors
      <4>2. ASSUME b # KPROC, NEW i \in 1 .. MAX_CHILDS PROVE mem'[b].p_childs[i] # m
        <5>1. b \in Procs /\ mem[b].p_childs[i] # m
          BY <3>3, <3>4, <4>2
        <5>2. mem'[b].p_childs[i] = mem[b].p_childs[i] \/ mem'[b].p_childs[i] = NULL
          BY <1>24, <5>1
        <5>3. QED
          BY <4>1, <5>1, <5>2
      <4>3. b # KPROC => mem'[b].p_num_childs < MAX_CHILDS
        BY <1>24, <3>3, <3>4
      <4>4. QED
        BY <4>2, <4>3
    <3>7. pc[b] # "insert" => /\ Named(m)' /\ entry'[inst'[m]].by = IF b = KPROC THEN 0 ELSE inst'[b]
      BY <1>11, <1>26, <3>2, <3>4
    <3>8. NewProcess(m, b)'
      BY <3>1, <3>3, <3>4, <3>5, <3>6, <3>7 DEF NewProcess
    <3>9. QED
      BY <1>11, <3>2, <3>8
  <2>2. pc'[KPROC] \in {"user", "insert", "count_load", "count_store", "start"}
    BY <1>0, <1>1, <1>22 DEF Parts, ForkInProgress, Actors
  <2>3. QED
    BY <2>1, <2>2 DEF ForkInProgress
<1>31. \A q \in Pids : Global_Proc_Table'[q] # 0 => Global_Proc_Table'[q] = Global_Proc_Table[q]
  BY <1>19
<1>32. EntryInOneSlot'
  <2>1. ASSUME NEW q \in Pids, NEW r \in Pids,
               Global_Proc_Table'[q] = Global_Proc_Table'[r], Global_Proc_Table'[q] # 0
        PROVE  q = r
    BY <1>0, <1>31, <2>1 DEF Parts, EntryInOneSlot
  <2>2. QED
    BY <2>1 DEF EntryInOneSlot
<1>33. DeadOrphansLeaveTable'
  <2>1. ASSUME NEW q \in Pids, NEW x, x = Global_Proc_Table'[q], x # 0
        PROVE  ~ (entry'[x].termed /\ entry'[x].p_termed)
    <3>1. x = Global_Proc_Table[q] /\ x \in 1 .. g
      BY <1>4, <1>19, <1>31, <2>1
    <3>2. CASE x = e
      <4>1. q = p
        BY <1>0, <1>19, <2>1, <3>1, <3>2 DEF Parts, EntryInOneSlot
      <4>2. ~ entry[e].p_termed
        BY <1>19, <2>1, <4>1
      <4>3. QED
        BY <1>15, <3>2, <4>2
    <3>3. CASE x # e
      <4>1. ~ (entry[x].termed /\ entry[x].p_termed)
        BY <1>0, <2>1, <3>1 DEF Parts, DeadOrphansLeaveTable
      <4>2. QED
        BY <1>9, <1>17, <3>1, <3>3, <4>1
    <3>4. QED
      BY <3>2, <3>3
  <2>2. QED
    BY <2>1 DEF DeadOrphansLeaveTable
<1>34. /\ passed'[e] = code /\ code # NULL
       /\ \A x \in 1 .. g : x # e => passed'[x] = passed[x]
  <2>1. passed \in Seq(Codes \cup {NULL}) /\ Len(passed) = g
    BY <1>0, <1>4 DEF Parts, TypeOK
  <2>2. QED
    BY <1>11, <2>1
<1>35. EntriesTellExits'
  <2>1. ASSUME NEW x \in 1 .. g
        PROVE  /\ entry'[x].by < x
               /\ entry'[x].termed <=> passed'[x] # NULL
               /\ entry'[x].termed => entry'[x].exitcode = passed'[x]
               /\ entry'[x].p_termed => entry'[x].by # 0 /\ entry'[entry'[x].by].termed
    <3>1. /\ entry[x].by < x
          /\ entry[x].termed <=> passed[x] # NULL
          /\ entry[x].termed => entry[x].exitcode = passed[x]
          /\ entry[x].p_termed => entry[x].by # 0 /\ entry[entry[x].by].termed
      BY <1>0, <1>4 DEF Parts, EntriesTellExits
    <3>2. entry'[x].by = entry[x].by
      BY <1>17
    <3>3. /\ entry'[x].termed <=> passed'[x] # NULL
          /\ entry'[x].termed => entry'[x].exitcode = passed'[x]
      <4>1. CASE x = e
        BY <1>15, <1>34, <4>1
      <4>2. CASE x # e
        BY <1>17, <1>34, <3>1, <4>2
      <4>3. QED
        BY <4>1, <4>2
    <3>4. ASSUME entry'[x].p_termed
          PROVE  entry[x].by # 0 /\ entry'[entry[x].by].termed
      <4>1. CASE x \in O
        BY <1>9, <1>15, <4>1
      <4>2. CASE x \notin O
        <5>1. entry[x].by # 0 /\ entry[entry[x].by].termed
          BY <1>17, <3>1, <3>4, <4>2
        <5>2. entry[x].by \in Nat
          BY <1>12
        <5>3. entry[x].by \in 1 .. g
          BY <1>4, <3>1, <5>1, <5>2
        <5>4. QED
          BY <1>17, <5>1, <5>3
      <4>3. QED
        BY <4>1, <4>2
    <3>5. QED
      BY <3>1, <3>2, <3>3, <3>4
  <2>2. QED
    BY <1>18, <2>1 DEF EntriesTellExits
<1>36. FirstSlotKept'
  <2>1. 0 \in Pids /\ entry # <<>>
    BY <1>0, <1>1 DEF Parts, FirstSlotKept, Pids
  <2>2. Global_Proc_Table[0] # 0 /\ entry[Global_Proc_Table[0]].by = 0 /\ Global_Proc_Table[0] \in 1 .. g
    BY <1>0, <1>4, <1>19, <2>1 DEF Parts, FirstSlotKept
  <2>3. Global_Proc_Table'[0] = Global_Proc_Table[0]
    <3>1. CASE p = 0
      <4>1. entry[e].by = 0
        BY <1>19, <2>2, <3>1
      <4>2. ~ entry[e].p_termed
        BY <1>0, <1>4, <4>1 DEF Parts, EntriesTellExits
      <4>3. QED
        BY <1>19, <3>1, <4>2
    <3>2. CASE p # 0
      BY <1>19, <2>1, <3>2
    <3>3. QED
      BY <3>1, <3>2
  <2>4. entry' # <<>>
    <3>1. g # 0
      BY <1>6
    <3>2. QED
      BY <1>18, <3>1
  <2>5. entry'[Global_Proc_Table[0]].by = 0
    BY <1>17, <2>2
  <2>6. QED
    BY <2>2, <2>3, <2>4, <2>5 DEF FirstSlotKept
<1>37. ASSUME NEW b \in Procs, pc'[b] \in {"wait_asleep", "wait_woken"}
       PROVE  /\ b # a /\ pc[b] \in {"wait_asleep", "wait_woken"}
              /\ target[b].pid \in Pids /\ target[b].tgt_entry \in 1 .. g
              /\ target[b].pid # 0
              /\ Global_Proc_Table[target[b].pid] = target[b].tgt_entry
              /\ entry[target[b].tgt_entry].by = inst[b]
  <2>1. b # a
    BY <1>20, <1>37
  <2>2. pc[b] \in {"wait_asleep", "wait_woken"}
    BY <1>22, <1>37, <2>1 DEF Actors
  <2>3. target[b] \in [pid : Pids, tgt_entry : 0 .. g]
    BY <1>0, <1>4 DEF Parts, TypeOK
  <2>4. /\ target[b].pid # 0 /\ target[b].tgt_entry # 0
        /\ Global_Proc_Table[target[b].pid] = target[b].tgt_entry
        /\ entry[target[b].tgt_entry].by = inst[b]
    BY <1>0, <2>2 DEF Parts, WaiterOwnsSlot
  <2>5. QED
    BY <1>4, <2>1, <2>2, <2>3, <2>4
<1>38. WaiterOwnsSlot'
  <2>1. ASSUME NEW b \in Procs, pc'[b] \in {"wait_asleep", "wait_woken"}
        PROVE  /\ Global_Proc_Table'[target[b].pid] = target[b].tgt_entry
               /\ entry'[target[b].tgt_entry].by = inst'[b]
    <3>1. entry'[target[b].tgt_entry].by = inst'[b]
      BY <1>11, <1>17, <1>37, <2>1
    <3>2. CASE target[b].pid # p
      BY <1>19, <1>37, <2>1, <3>1, <3>2
    <3>3. CASE target[b].pid = p
      <4>1. target[b].tgt_entry = e /\ entry[e].by = inst[b]
        BY <1>19, <1>37, <2>1, <3>3
      <4>2. Running(b)
        BY <1>37, <2>1 DEF Running
      <4>3. ~ entry[inst[b]].termed
        BY <1>0, <4>2 DEF Parts, TableNamesProcess, Named
      <4>4. ~ entry[e].p_termed
        BY <1>0, <1>4, <4>1, <4>3 DEF Parts, EntriesTellExits
      <4>5. QED
        BY <1>19, <3>1, <3>3, <4>1, <4>4
    <3>4. QED
      BY <3>2, <3>3
  <2>2. QED
    BY <1>11, <1>37, <2>1 DEF WaiterOwnsSlot
<1>39. WaiterInformed'
  <2>1. ASSUME NEW b \in Procs, NEW x, x = target[b].tgt_entry, pc'[b] = "wait_asleep"
        PROVE  passed'[x] = NULL
    <3>1. b # a /\ pc[b] = "wait_asleep" /\ x # e /\ x \in 1 .. g
      BY <1>20, <1>21, <1>22, <1>37, <2>1 DEF Actors
    <3>2. passed[x] = NULL
      BY <1>0, <2>1, <3>1 DEF Parts, WaiterInformed
    <3>3. QED
      BY <1>34, <3>1, <3>2
  <2>2. ASSUME NEW b \in Procs, NEW x, x = target[b].tgt_entry, pc'[b] = "wait_woken"
        PROVE  entry'[x].termed /\ passed'[x] # NULL /\ entry'[x].exitcode = passed'[x]
    <3>1. b # a /\ b \in Actors /\ x \in 1 .. g
      BY <1>37, <2>2 DEF Actors
    <3>2. CASE x = e
      BY <1>15, <1>34, <3>2
    <3>3. CASE x # e
      <4>1. pc[b] = "wait_woken"
        BY <1>20, <1>21, <2>2, <3>1, <3>3
      <4>2. entry[x].termed /\ passed[x] # NULL /\ entry[x].exitcode = passed[x]
        BY <1>0, <2>2, <4>1 DEF Parts, WaiterInformed
      <4>3. QED
        BY <1>17, <1>34, <3>1, <3>3, <4>2
    <3>4. QED
      BY <3>2, <3>3
  <2>3. QED
    BY <1>11, <2>1, <2>2 DEF WaiterInformed
<1>40. Parts'
  BY <1>25, <1>27, <1>28, <1>29, <1>32, <1>33, <1>35, <1>36, <1>38, <1>39 DEF Parts
<1>41. QED
  BY <1>40 DEF Parts, IInv, TablesAgree

----------------------------------------------------------------------------
(* The theorems *)

(* The boot leaves nothing to agree on.                                    *)
LEMMA InitIInv == Init => IInv
<1> USE ProcTableConstants
<1>1. SUFFICES ASSUME Init PROVE Parts
  BY PartsOfIInv
<1>2. Len(entry) = 0 /\ entry = <<>> /\ passed = <<>> /\ Len(passed) = 0
  BY <1>1 DEF Init
<1>3. /\ \A a \in Procs : pc[a] = "none" /\ target[a] = NoTarget /\ inst[a] = 0
      /\ pc[KPROC] = "user"
  BY <1>1 DEF Init, Actors
<1>4. TypeOK
  <2>1. Freed \in [pid : Pids \cup {DEAD}, p_parent : Actors \cup {DEAD},
                   p_num_childs : 0 .. MAX_CHILDS,
                   p_childs : [1 .. MAX_CHILDS -> Procs \cup {NULL, DEAD}]]
    <3>1. [i \in 1 .. MAX_CHILDS |-> DEAD] \in [1 .. MAX_CHILDS -> Procs \cup {NULL, DEAD}]
      OBVIOUS
    <3>2. 0 \in 0 .. MAX_CHILDS
      OBVIOUS
    <3>3. QED
      BY <3>1, <3>2 DEF Freed
  <2>2. mem \in [Procs -> [pid : Pids \cup {DEAD}, p_parent : Actors \cup {DEAD},
                        p_num_childs : 0 .. MAX_CHILDS,
                        p_childs : [1 .. MAX_CHILDS -> Procs \cup {NULL, DEAD}]]]
    BY <1>1, <2>1 DEF Init
  <2>3. 0 \in 0 .. Len(entry) /\ 0 \in Pids
    BY <1>2 DEF Pids
  <2>4. target \in [Procs -> [pid : Pids, tgt_entry : 0 .. Len(entry)]]
    BY <1>1, <2>3 DEF Init, NoTarget
  <2>5. Global_Proc_Table \in [Pids -> 0 .. Len(entry)] /\ inst \in [Procs -> 0 .. Len(entry)]
    BY <1>1, <2>3 DEF Init
  <2>6. pc \in [Actors -> Places] /\ new_proc \in [Actors -> Procs \cup {NULL}]
        /\ tmp \in [Actors -> Nat]
    BY <1>1 DEF Init, Places
  <2>7. /\ entry \in Seq([pcb : Procs, termed : BOOLEAN, p_termed : BOOLEAN,
                          exitcode : Codes \cup {0}, by : Nat])
        /\ passed \in Seq(Codes \cup {NULL}) /\ Len(passed) = Len(entry)
    BY <1>2
  <2>8. GLOBAL_PROC_COUNT \in Nat /\ raced \in BOOLEAN /\ panicked \in BOOLEAN
    BY <1>1 DEF Init
  <2>9. QED
    BY <2>2, <2>4, <2>5, <2>6, <2>7, <2>8 DEF TypeOK
<1>5. TableNamesProcess /\ ChildsAreRunning
  BY <1>3 DEF TableNamesProcess, ChildsAreRunning, Running
<1>6. ForkInProgress
  BY <1>3 DEF ForkInProgress, Forking, Actors
<1>7. EntryInOneSlot /\ DeadOrphansLeaveTable
  BY <1>1 DEF Init, EntryInOneSlot, DeadOrphansLeaveTable
<1>8. EntriesTellExits
  BY <1>2 DEF EntriesTellExits
<1>9. FirstSlotKept
  BY <1>2, <1>3 DEF FirstSlotKept
<1>11. WaiterOwnsSlot /\ WaiterInformed
  BY <1>3 DEF WaiterOwnsSlot, WaiterInformed
<1>12. QED
  BY <1>4, <1>5, <1>6, <1>7, <1>8, <1>9, <1>11 DEF Parts

(* A step that does not race keeps the invariant.                          *)
LEMMA StepIInv ==
  ASSUME IInv, [Next]_vars, raced' = FALSE
  PROVE  IInv'
<1>0. raced' \in BOOLEAN
  OBVIOUS
<1>1. ASSUME NEW a \in Actors, Continue(a) PROVE IInv'
  <2>1. CASE proc_create_insert(a)
    <3>1. FreeSlots # {}
      BY <2>1 DEF proc_create_insert
    <3>2. QED
      BY <1>0, <2>1, <3>1, InsertStep
  <2>2. CASE proc_create_nomem(a) \/ fork_fails(a)
    BY <2>2, CreateFailsStep
  <2>3. CASE proc_create_count_load(a) \/ proc_create_count_store(a)
    BY <2>3, CountStep
  <2>4. CASE thread_fork(a)
    BY <2>4, ThreadForkStep
  <2>5. CASE a # KPROC /\ sys_fork_link(a)
    BY <2>5, LinkStep DEF Actors
  <2>6. CASE a # KPROC /\ sys_fork_pid(a)
    BY <2>6, PidStep DEF Actors
  <2>7. CASE a # KPROC /\ (enter_forked_process(a) \/ runprogram_fails(a))
    BY <2>7, FirstStepStep DEF Actors
  <2>8. CASE a # KPROC /\ thread_exit(a)
    BY <2>8, ThreadExitStep DEF Actors
  <2>9. CASE a # KPROC /\ sys_waitpid_collect(a)
    BY <2>9, CollectStep DEF Actors
  <2>10. QED
    BY <1>1, <2>1, <2>2, <2>3, <2>4, <2>5, <2>6, <2>7, <2>8, <2>9 DEF Continue
<1>2. ASSUME NEW a \in Actors, Call(a) PROVE IInv'
  <2>1. CASE proc_create(a)
    BY <2>1, CreateStep
  <2>2. ASSUME NEW code \in Codes, sys__exit(a, code) PROVE IInv'
    <3>1. a \in Procs /\ Running(a)
      BY <2>2 DEF sys__exit, At, Actors, Running
    <3>2. Exits(a, code)
      BY <2>2, <3>1, NoExitPanic DEF sys__exit
    <3>3. \A b \in Procs : ~ (pc[b] = "link" /\ new_proc[b] = a)
      BY <3>2 DEF Exits
    <3>4. QED
      BY <1>0, <2>2, <3>3, ExitStep
  <2>3. ASSUME NEW p \in Pids, sys_waitpid(a, p) PROVE IInv'
    BY <2>3, WaitpidStep
  <2>4. QED
    BY <1>2, <2>1, <2>2, <2>3 DEF Call
<1>3. CASE UNCHANGED vars
  <2>1. UNCHANGED <<Global_Proc_Table, entry, GLOBAL_PROC_COUNT, mem, pc, new_proc, tmp,
                    target, inst, passed, raced, panicked>>
    BY <1>3 DEF vars
  <2>2. Parts
    BY PartsOfIInv
  <2>3. TypeOK' /\ EntryInOneSlot' /\ DeadOrphansLeaveTable' /\ EntriesTellExits'
    BY <2>1, <2>2 DEF Parts, TypeOK, EntryInOneSlot, DeadOrphansLeaveTable, EntriesTellExits
  <2>4. TableNamesProcess' /\ ChildsAreRunning'
    BY <2>1, <2>2 DEF Parts, TableNamesProcess, ChildsAreRunning, Running, Named,
         ChildsRunning, RunningChild
  <2>5. ForkInProgress'
    BY <2>1, <2>2 DEF Parts, ForkInProgress, Forking, NewProcess, Named, Running
  <2>6. FirstSlotKept'
    BY <2>1, <2>2 DEF Parts, FirstSlotKept
  <2>7. WaiterOwnsSlot' /\ WaiterInformed'
    BY <2>1, <2>2 DEF Parts, WaiterOwnsSlot, WaiterInformed
  <2>8. QED
    BY <2>3, <2>4, <2>5, <2>6, <2>7 DEF IInv, TablesAgree
<1>4. QED
  BY <1>1, <1>2, <1>3 DEF Next

(* What has raced stays so, and only an assertion of sys__exit stops the   *)
(* kernel.                                                                 *)
LEMMA RacedStep ==
  ASSUME raced \in BOOLEAN, [Next]_vars
  PROVE  /\ raced' \in BOOLEAN /\ (raced => raced')
         /\ \/ UNCHANGED panicked
            \/ \E a \in Procs : pc[a] = "user" /\ ExitPanics(a)
<1>1. ASSUME NEW a \in Actors, Continue(a)
      PROVE  UNCHANGED panicked /\ raced' \in BOOLEAN /\ (raced => raced')
  <2>1. CASE proc_create_insert(a)
    BY <2>1 DEF proc_create_insert
  <2>2. CASE ~ proc_create_insert(a)
    BY <1>1, <2>2 DEF Continue, proc_create_nomem, proc_create_count_load,
         proc_create_count_store, fork_fails, thread_fork, sys_fork_link, sys_fork_pid,
         enter_forked_process, runprogram_fails, thread_exit, sys_waitpid_collect, history
  <2>3. QED
    BY <2>1, <2>2
<1>2. ASSUME NEW a \in Actors, NEW code \in Codes, sys__exit(a, code)
      PROVE  /\ raced' \in BOOLEAN /\ (raced => raced')
             /\ UNCHANGED panicked \/ (a \in Procs /\ pc[a] = "user" /\ ExitPanics(a))
  <2>1. a \in Procs /\ pc[a] = "user"
    BY <1>2 DEF sys__exit, At, Actors
  <2>2. CASE ExitPanics(a)
    BY <1>2, <2>1, <2>2 DEF sys__exit, history
  <2>3. CASE ~ ExitPanics(a)
    BY <1>2, <2>3 DEF sys__exit, Exits
  <2>4. QED
    BY <2>2, <2>3
<1>3. ASSUME NEW a \in Actors, proc_create(a) \/ \E p \in Pids : sys_waitpid(a, p)
      PROVE  UNCHANGED panicked /\ UNCHANGED raced
  BY <1>3 DEF proc_create, sys_waitpid, history
<1>4. CASE UNCHANGED vars
  BY <1>4 DEF vars
<1>5. QED
  BY <1>1, <1>2, <1>3, <1>4 DEF Next, Call

(* Until something raced, the invariant holds and the kernel runs.         *)
CalmInv == raced \in BOOLEAN /\ (~ raced => IInv /\ ~ panicked)

(* So it is always.                                                        *)
LEMMA CalmAlways == Spec => []CalmInv
<1>1. Init => CalmInv
  BY InitIInv DEF Init, CalmInv
<1>2. CalmInv /\ [Next]_vars => CalmInv'
  <2>1. SUFFICES ASSUME CalmInv, [Next]_vars PROVE CalmInv'
    OBVIOUS
  <2>2. /\ raced' \in BOOLEAN /\ (raced => raced')
        /\ \/ UNCHANGED panicked
           \/ \E a \in Procs : pc[a] = "user" /\ ExitPanics(a)
    BY <2>1, RacedStep DEF CalmInv
  <2>4. ASSUME ~ raced' PROVE IInv' /\ ~ panicked'
    <3>1. raced' = FALSE /\ IInv /\ ~ panicked
      BY <2>1, <2>2, <2>4 DEF CalmInv
    <3>2. ~ \E a \in Procs : pc[a] = "user" /\ ExitPanics(a)
      BY <3>1, NoExitPanic DEF Running
    <3>3. ~ panicked'
      BY <2>2, <3>1, <3>2
    <3>4. IInv'
      BY <2>1, <3>1, StepIInv
    <3>5. QED
      BY <3>3, <3>4
  <2>5. QED
    BY <2>2, <2>4 DEF CalmInv
<1>3. QED
  BY <1>1, <1>2, PTL DEF Spec

(* proc_create, fork, _exit, waitpid and thread_exit keep the process      *)
(* table, the entries and the child arrays in agreement, with any number   *)
(* of processes, slots and children, up to the exit of a child that its    *)
(* parent has not noted or the creation of a process for which the table   *)
(* has no slot: nothing else sets them at odds.                            *)
THEOREM ProcTableSafe == Spec => []ProcInv
<1>1. CalmInv => ProcInv
  BY DEF CalmInv, IInv, ProcInv
<1>2. QED
  BY <1>1, CalmAlways, PTL

(* Up to then sys_waitpid clears the slot of its own child and returns the *)
(* code that child passed to _exit.                                        *)
THEOREM WaitersServed == Spec => []WaiterServed
<1>1. CalmInv => WaiterServed
  BY DEF CalmInv, IInv, WaiterServed
<1>2. QED
  BY <1>1, CalmAlways, PTL

(* The assertions of sys__exit about the table fail after such an exit or  *)
(* such a creation only.                                                   *)
THEOREM ExitNeverPanics == Spec => []ExitsSafely
<1>1. CalmInv => ExitsSafely
  BY NoExitPanic DEF CalmInv, ExitsSafely, ExitAssertionsHold, Running
<1>2. QED
  BY <1>1, CalmAlways, PTL

----------------------------------------------------------------------------
(* Whatever the races do *)

(* What a struct proc and a table entry may hold then.                     *)
Structs == [pid : Pids \cup {DEAD}, p_parent : Actors \cup {DEAD}, p_num_childs : Nat,
            p_childs : [1 .. MAX_CHILDS -> Procs \cup {NULL, DEAD}]]

Entries == [pcb : Procs \cup {NULL}, termed : BOOLEAN, p_termed : BOOLEAN,
            exitcode : Codes \cup {0}, by : Nat]

(* The types that need no agreement between the processes.                 *)
RaceTypes ==
  /\ Global_Proc_Table \in [Pids -> 0 .. Len(entry)]
  /\ entry \in Seq(Entries)
  /\ mem \in [Procs -> Structs]
  /\ pc \in [Actors -> Places]
  /\ new_proc \in [Actors -> Procs \cup {NULL}]
  /\ target \in [Procs -> [pid : Pids, tgt_entry : 0 .. Len(entry)]]
  /\ inst \in [Procs -> 0 .. Len(entry)]

(* Who waits waits for an entry.                                           *)
WaitersHaveEntry ==
  \A a \in Procs : pc[a] \in {"wait_asleep", "wait_woken"} => target[a].tgt_entry # 0

(* What holds with the races open.                                         *)
RaceInv == RaceTypes /\ WaitersHaveEntry /\ WaiterNotForgotten /\ EntryInOneSlot

(* The entries are records, with or without the races.                     *)
LEMMA RaceEntry ==
  ASSUME RaceTypes, NEW e \in 1 .. Len(entry)
  PROVE  entry[e] \in Entries
BY DEF RaceTypes

(* A step that leaves the table, the entries and the waiters alone.        *)
LEMMA RaceSame ==
  ASSUME RaceInv, UNCHANGED <<Global_Proc_Table, entry, target>>,
         \A b \in Procs : pc'[b] \in {"wait_asleep", "wait_woken"} => pc'[b] = pc[b],
         mem' \in [Procs -> Structs], pc' \in [Actors -> Places],
         new_proc' \in [Actors -> Procs \cup {NULL}],
         inst' \in [Procs -> 0 .. Len(entry)]
  PROVE  RaceInv'
<1>1. RaceTypes'
  BY DEF RaceInv, RaceTypes
<1>2. WaitersHaveEntry' /\ WaiterNotForgotten'
  BY DEF RaceInv, WaitersHaveEntry, WaiterNotForgotten
<1>3. EntryInOneSlot'
  BY DEF RaceInv, EntryInOneSlot
<1>4. QED
  BY <1>1, <1>2, <1>3 DEF RaceInv

(* A creation, its failures and the new process' first steps.              *)
LEMMA RaceCreate ==
  ASSUME RaceInv, NEW a \in Actors,
         \/ proc_create(a) \/ proc_create_nomem(a) \/ fork_fails(a)
         \/ proc_create_count_load(a) \/ proc_create_count_store(a)
         \/ thread_fork(a)
         \/ a \in Procs /\ (sys_fork_pid(a) \/ enter_forked_process(a) \/ runprogram_fails(a)
                            \/ thread_exit(a))
  PROVE  RaceInv'
<1> USE ProcTableConstants
<1>0. /\ mem \in [Procs -> Structs] /\ pc \in [Actors -> Places]
      /\ new_proc \in [Actors -> Procs \cup {NULL}] /\ inst \in [Procs -> 0 .. Len(entry)]
      /\ 0 \in 0 .. Len(entry)
  BY DEF RaceInv, RaceTypes
<1>1. Freed \in Structs
  <2>1. [i \in 1 .. MAX_CHILDS |-> DEAD] \in [1 .. MAX_CHILDS -> Procs \cup {NULL, DEAD}]
    OBVIOUS
  <2>2. QED
    BY <2>1 DEF Freed, Structs
<1>2. [pid |-> DEAD, p_parent |-> a, p_num_childs |-> 0,
       p_childs |-> [i \in 1 .. MAX_CHILDS |-> NULL]] \in Structs
  <2>1. [i \in 1 .. MAX_CHILDS |-> NULL] \in [1 .. MAX_CHILDS -> Procs \cup {NULL, DEAD}]
    OBVIOUS
  <2>2. QED
    BY <2>1 DEF Structs
<1>3. UNCHANGED <<Global_Proc_Table, entry, target>>
  BY DEF proc_create, proc_create_nomem, fork_fails, proc_create_count_load,
       proc_create_count_store, thread_fork, sys_fork_pid, enter_forked_process, runprogram_fails, thread_exit,
       table, locals
<1>4. /\ \E x \in Actors \cup {NULL}, l1, l2 \in Places \ {"wait_asleep", "wait_woken"} :
           pc' = [pc EXCEPT ![a] = l1] \/ pc' = [pc EXCEPT ![a] = l1, ![x] = l2]
  <2>1. CASE thread_fork(a)
    <3>1. new_proc[a] \in Actors \cup {NULL}
      BY <1>0 DEF Actors
    <3>2. PICK l1 \in Places \ {"wait_asleep", "wait_woken"} : l1 = IF a = KPROC THEN "user" ELSE "link"
      BY DEF Places
    <3>3. "ready" \in Places \ {"wait_asleep", "wait_woken"}
      BY DEF Places
    <3>4. pc' = [pc EXCEPT ![a] = l1, ![new_proc[a]] = "ready"]
      BY <2>1, <3>2 DEF thread_fork
    <3>5. QED
      BY <3>1, <3>2, <3>3, <3>4
  <2>2. CASE ~ thread_fork(a)
    <3>1. \E l1 \in Places \ {"wait_asleep", "wait_woken"} : pc' = [pc EXCEPT ![a] = l1]
      BY <2>2 DEF proc_create, proc_create_nomem, fork_fails, proc_create_count_load,
           proc_create_count_store, sys_fork_pid, enter_forked_process, runprogram_fails,
           thread_exit, Return, Goto, Places
    <3>2. QED
      BY <3>1
  <2>3. QED
    BY <2>1, <2>2
<1>5. /\ pc' \in [Actors -> Places]
      /\ \A b \in Actors : pc'[b] \in {"wait_asleep", "wait_woken"} => pc'[b] = pc[b]
  BY <1>0, <1>4
<1>6. mem' \in [Procs -> Structs] /\ new_proc' \in [Actors -> Procs \cup {NULL}]
  <2>1. CASE proc_create(a)
    BY <1>0, <1>2, <2>1 DEF proc_create
  <2>2. CASE proc_create_nomem(a) \/ fork_fails(a)
    <3>1. CASE proc_create_nomem(a)
      BY <1>0, <1>1, <3>1 DEF proc_create_nomem, Return
    <3>2. CASE fork_fails(a)
      BY <1>0, <1>1, <3>2 DEF fork_fails, Return
    <3>3. QED
      BY <2>2, <3>1, <3>2
  <2>3. CASE thread_fork(a)
    BY <1>0, <2>3 DEF thread_fork
  <2>4. CASE a \in Procs /\ thread_exit(a)
    BY <1>0, <1>1, <2>4 DEF thread_exit, locals
  <2>5. CASE \/ proc_create_count_load(a) \/ proc_create_count_store(a)
             \/ enter_forked_process(a) \/ runprogram_fails(a)
    BY <1>0, <2>5 DEF proc_create_count_load, proc_create_count_store, enter_forked_process,
         runprogram_fails, locals
  <2>6. CASE sys_fork_pid(a)
    BY <1>0, <2>6 DEF sys_fork_pid, Return
  <2>7. QED
    BY <2>1, <2>2, <2>3, <2>4, <2>5, <2>6
<1>7. inst' \in [Procs -> 0 .. Len(entry)]
  <2>1. inst' = inst \/ (a \in Procs /\ inst' = [inst EXCEPT ![a] = 0])
    BY DEF proc_create, proc_create_nomem, fork_fails, proc_create_count_load,
         proc_create_count_store, thread_fork, sys_fork_pid, enter_forked_process, runprogram_fails, thread_exit,
         history
  <2>2. QED
    BY <1>0, <2>1
<1>8. \A b \in Procs : pc'[b] \in {"wait_asleep", "wait_woken"} => pc'[b] = pc[b]
  BY <1>5 DEF Actors
<1>9. QED
  BY <1>3, <1>5, <1>6, <1>7, <1>8, RaceSame

(* The new entry, with a slot or without.                                  *)
LEMMA RaceInsert ==
  ASSUME RaceInv, NEW a \in Actors, proc_create_insert(a)
  PROVE  RaceInv'
<1> USE ProcTableConstants
<1>0. /\ RaceTypes /\ WaitersHaveEntry /\ WaiterNotForgotten /\ EntryInOneSlot
  BY DEF RaceInv
<1>1. PICK g \in Nat : g = Len(entry)
  BY <1>0 DEF RaceTypes
<1>2. PICK n \in Procs \cup {NULL} : n = new_proc[a]
  BY <1>0 DEF RaceTypes
<1>3. PICK ne \in Entries : ne = NewEntry(a, n)
  <2>1. PICK by \in Nat : by = IF a = KPROC THEN 0 ELSE inst[a]
    BY <1>0, <1>1 DEF RaceTypes, Actors
  <2>2. NewEntry(a, n) = [pcb |-> n, termed |-> FALSE, p_termed |-> FALSE, exitcode |-> 0, by |-> by]
    BY <2>1 DEF NewEntry
  <2>3. PICK ne : ne = [pcb |-> n, termed |-> FALSE, p_termed |-> FALSE, exitcode |-> 0, by |-> by]
    OBVIOUS
  <2>4. ne \in Entries
    BY <2>1, <2>3 DEF Entries
  <2>5. QED
    BY <2>2, <2>3, <2>4
<1>4. /\ entry' \in Seq(Entries) /\ Len(entry') = g + 1 /\ \A i \in 1 .. g : entry'[i] = entry[i]
  <2>1. entry' = Append(entry, ne)
    BY <1>2, <1>3 DEF proc_create_insert
  <2>2. entry \in Seq(Entries)
    BY <1>0 DEF RaceTypes
  <2>3. QED
    BY <1>1, <2>1, <2>2
<1>5. /\ inst' = [inst EXCEPT ![n] = g + 1] /\ pc' = [pc EXCEPT ![a] = "count_load"]
      /\ UNCHANGED <<new_proc, target>>
  BY <1>2, <1>4 DEF proc_create_insert, Goto, locals
<1>6. \/ UNCHANGED <<Global_Proc_Table, mem>>
      \/ \E p \in Pids : /\ Global_Proc_Table[p] = 0
                         /\ Global_Proc_Table' = [Global_Proc_Table EXCEPT ![p] = g + 1]
                         /\ mem' = [mem EXCEPT ![n].pid = p]
  <2>1. CASE FreeSlots = {}
    BY <2>1 DEF proc_create_insert
  <2>2. CASE FreeSlots # {}
    <3>1. FreeSlots \in SUBSET Nat
      BY DEF FreeSlots, Pids
    <3>2. PICK p : p = First(FreeSlots)
      OBVIOUS
    <3>3. p \in FreeSlots
      BY <2>2, <3>1, <3>2, FirstIsLeast
    <3>4. p \in Pids /\ Global_Proc_Table[p] = 0
      BY <3>3 DEF FreeSlots
    <3>5. /\ Global_Proc_Table' = [Global_Proc_Table EXCEPT ![p] = g + 1]
          /\ mem' = [mem EXCEPT ![n].pid = p]
      BY <1>2, <1>4, <2>2, <3>2 DEF proc_create_insert, InSlot
    <3>6. QED
      BY <3>4, <3>5
  <2>3. QED
    BY <2>1, <2>2
<1>7. 0 .. g \subseteq 0 .. (g + 1) /\ g + 1 \in 0 .. (g + 1)
  BY <1>1
<1>8. RaceTypes'
  <2>1. Global_Proc_Table' \in [Pids -> 0 .. (g + 1)]
    <3>1. Global_Proc_Table \in [Pids -> 0 .. g]
      BY <1>0, <1>1 DEF RaceTypes
    <3>2. QED
      BY <1>6, <1>7, <3>1
  <2>2. mem' \in [Procs -> Structs]
    <3>1. mem \in [Procs -> Structs]
      BY <1>0 DEF RaceTypes
    <3>2. ASSUME NEW p \in Pids, mem' = [mem EXCEPT ![n].pid = p] PROVE mem' \in [Procs -> Structs]
      <4>1. CASE n \in Procs
        <5>1. PICK r : r = [mem[n] EXCEPT !.pid = p]
          OBVIOUS
        <5>2. mem[n] \in Structs
          BY <3>1, <4>1
        <5>3. r \in Structs
          BY <5>1, <5>2 DEF Structs
        <5>4. mem' = [mem EXCEPT ![n] = r]
          BY <3>2, <5>1
        <5>5. QED
          BY <3>1, <5>3, <5>4
      <4>2. CASE n \notin Procs
        BY <3>1, <3>2, <4>2
      <4>3. QED
        BY <4>1, <4>2
    <3>3. QED
      BY <1>6, <3>1, <3>2
  <2>3. inst' \in [Procs -> 0 .. (g + 1)]
    <3>1. inst \in [Procs -> 0 .. g]
      BY <1>0, <1>1 DEF RaceTypes
    <3>2. QED
      BY <1>5, <1>7, <3>1
  <2>4. target' \in [Procs -> [pid : Pids, tgt_entry : 0 .. (g + 1)]]
    <3>1. target \in [Procs -> [pid : Pids, tgt_entry : 0 .. g]]
      BY <1>0, <1>1 DEF RaceTypes
    <3>2. [pid : Pids, tgt_entry : 0 .. g] \subseteq [pid : Pids, tgt_entry : 0 .. (g + 1)]
      BY <1>7
    <3>3. QED
      BY <1>5, <3>1, <3>2
  <2>5. pc' \in [Actors -> Places] /\ new_proc' \in [Actors -> Procs \cup {NULL}]
    BY <1>0, <1>5 DEF RaceTypes, Places
  <2>6. QED
    BY <1>4, <2>1, <2>2, <2>3, <2>4, <2>5 DEF RaceTypes
<1>9. ASSUME NEW b \in Procs, pc'[b] \in {"wait_asleep", "wait_woken"}
      PROVE  pc'[b] = pc[b] /\ target[b].tgt_entry \in 1 .. g
  <2>1. pc'[b] = pc[b]
    BY <1>0, <1>5, <1>9 DEF RaceTypes, Actors
  <2>2. target[b] \in [pid : Pids, tgt_entry : 0 .. g]
    BY <1>0, <1>1 DEF RaceTypes
  <2>3. target[b].tgt_entry # 0
    BY <1>0, <1>9, <2>1 DEF WaitersHaveEntry
  <2>4. QED
    BY <1>1, <2>1, <2>2, <2>3
<1>10. WaitersHaveEntry' /\ WaiterNotForgotten'
  BY <1>0, <1>4, <1>5, <1>9 DEF WaitersHaveEntry, WaiterNotForgotten
<1>11. EntryInOneSlot'
  <2>1. \A q \in Pids : Global_Proc_Table[q] \in 0 .. g
    BY <1>0, <1>1 DEF RaceTypes
  <2>2. \A q \in Pids : Global_Proc_Table[q] # g + 1
    BY <1>1, <2>1
  <2>3. ASSUME NEW p \in Pids, Global_Proc_Table' = [Global_Proc_Table EXCEPT ![p] = g + 1],
               NEW q \in Pids, NEW r \in Pids,
               Global_Proc_Table'[q] = Global_Proc_Table'[r], Global_Proc_Table'[q] # 0
        PROVE  q = r
    <3>1. Global_Proc_Table'[p] = g + 1 /\ \A s \in Pids : s # p => Global_Proc_Table'[s] = Global_Proc_Table[s]
      BY <1>0, <2>3 DEF RaceTypes
    <3>2. CASE q = p \/ r = p
      BY <2>2, <2>3, <3>1, <3>2
    <3>3. CASE q # p /\ r # p
      BY <1>0, <2>3, <3>1, <3>3 DEF EntryInOneSlot
    <3>4. QED
      BY <3>2, <3>3
  <2>4. CASE UNCHANGED Global_Proc_Table
    BY <1>0, <2>4 DEF EntryInOneSlot
  <2>5. QED
    BY <1>6, <2>3, <2>4 DEF EntryInOneSlot
<1>12. QED
  BY <1>8, <1>10, <1>11 DEF RaceInv

(* The parent notes the child, or what is at the child's address now.      *)
LEMMA RaceLink ==
  ASSUME RaceInv, NEW a \in Procs, sys_fork_link(a)
  PROVE  RaceInv'
<1> USE ProcTableConstants
<1>0. RaceTypes /\ a \in Actors
  BY DEF RaceInv, Actors
<1>1. /\ pc' = [pc EXCEPT ![a] = "pid"]
      /\ mem' = [mem EXCEPT ![a].p_num_childs = @ + 1,
                            ![a].p_childs = ReplaceFirst(@, NULL, new_proc[a])]
      /\ UNCHANGED <<Global_Proc_Table, entry, new_proc, target, inst>>
  BY DEF sys_fork_link, Goto, table, locals, history
<1>2. mem[a] \in Structs
  BY <1>0 DEF RaceTypes
<1>3. PICK n \in Procs \cup {NULL, DEAD} : n = new_proc[a]
  BY <1>0 DEF RaceTypes
<1>4. PICK f \in [1 .. MAX_CHILDS -> Procs \cup {NULL, DEAD}] : f = mem[a].p_childs
  BY <1>2 DEF Structs
<1>5. PICK f2 : f2 = ReplaceFirst(f, NULL, n)
  OBVIOUS
<1>6. f2 \in [1 .. MAX_CHILDS -> Procs \cup {NULL, DEAD}]
  BY <1>5, ReplaceFirstAt
<1>7. PICK k \in Nat : k = mem[a].p_num_childs + 1
  BY <1>2 DEF Structs
<1>8. PICK r : r = [mem[a] EXCEPT !.p_num_childs = k, !.p_childs = f2]
  OBVIOUS
<1>9. r \in Structs
  BY <1>2, <1>6, <1>8 DEF Structs
<1>10. mem' = [mem EXCEPT ![a] = r]
  BY <1>0, <1>1, <1>2, <1>3, <1>4, <1>5, <1>7, <1>8 DEF RaceTypes, Structs
<1>11. mem' \in [Procs -> Structs]
  BY <1>0, <1>9, <1>10 DEF RaceTypes
<1>12. /\ pc' \in [Actors -> Places] /\ new_proc' \in [Actors -> Procs \cup {NULL}]
       /\ inst' \in [Procs -> 0 .. Len(entry)]
  BY <1>0, <1>1 DEF RaceTypes, Places
<1>13. \A b \in Procs : pc'[b] \in {"wait_asleep", "wait_woken"} => pc'[b] = pc[b]
  BY <1>0, <1>1 DEF RaceTypes, Actors
<1>14. QED
  BY <1>1, <1>11, <1>12, <1>13, RaceSame

(* sys__exit stops the kernel or wakes all who wait for the entry that it  *)
(* marks, whosever that is.                                                *)
LEMMA RaceExit ==
  ASSUME RaceInv, NEW a \in Actors, NEW code \in Codes, sys__exit(a, code)
  PROVE  RaceInv'
<1> USE ProcTableConstants
<1>0. RaceTypes /\ WaitersHaveEntry /\ WaiterNotForgotten /\ EntryInOneSlot
  BY DEF RaceInv
<1>1. a \in Procs /\ a # KPROC
  BY DEF sys__exit, Actors
<1>2. CASE ExitPanics(a)
  <2>1. UNCHANGED <<Global_Proc_Table, entry, mem, pc, new_proc, target, inst>>
    BY <1>2 DEF sys__exit, table, locals, history
  <2>2. QED
    BY <1>0, <2>1, RaceSame DEF RaceTypes
<1>3. CASE ~ ExitPanics(a)
  <2>1. Exits(a, code)
    BY <1>3 DEF sys__exit
  <2>2. PICK g \in Nat : g = Len(entry) /\ DOMAIN entry = 1 .. g
    BY <1>0 DEF RaceTypes
  <2>3. PICK p : p = mem[a].pid
    OBVIOUS
  <2>4. p \in Pids \cup {DEAD}
    <3>1. mem[a] \in Structs
      BY <1>0, <1>1 DEF RaceTypes
    <3>2. QED
      BY <2>3, <3>1 DEF Structs
  <2>5. PICK e : e = EntryOf(a)
    OBVIOUS
  <2>6. e \in 1 .. g /\ p \in Pids
    <3>1. e # 0
      BY <1>3, <2>5 DEF ExitPanics
    <3>2. p \in Pids /\ e = Global_Proc_Table[p]
      BY <2>3, <2>4, <2>5, <3>1 DEF EntryOf
    <3>3. QED
      BY <1>0, <2>2, <3>1, <3>2 DEF RaceTypes
  <2>7. PICK O : O = {EntryOf(c) : c \in Children(a)}
    OBVIOUS
  <2>8. PICK marked : marked = [x \in 1 .. g |-> IF x \in O THEN Orphaned(entry[x]) ELSE entry[x]]
    OBVIOUS
  <2>9. /\ entry' = [marked EXCEPT ![e] = Terminated(marked[e], code)]
        /\ \/ UNCHANGED Global_Proc_Table
           \/ Global_Proc_Table' = [Global_Proc_Table EXCEPT ![p] = 0]
        /\ pc' = [b \in Actors |-> IF b = a THEN "dying"
                                   ELSE IF b \in Waiters(e) THEN "wait_woken" ELSE pc[b]]
        /\ LeaveParent(a)
        /\ UNCHANGED <<new_proc, target, inst>>
    BY <2>1, <2>2, <2>3, <2>5, <2>7, <2>8 DEF Exits, locals
  <2>10. ASSUME NEW x \in 1 .. g
         PROVE  marked[x] \in Entries /\ marked[x].termed = entry[x].termed
    <3>1. entry[x] \in Entries
      BY <1>0, <2>2, RaceEntry
    <3>2. marked[x] = [entry[x] EXCEPT !.p_termed = TRUE] \/ marked[x] = entry[x]
      BY <2>8 DEF Orphaned
    <3>3. QED
      BY <3>1, <3>2 DEF Entries
  <2>11. ASSUME NEW x \in 1 .. g
         PROVE  /\ entry'[x] \in Entries
                /\ entry'[x].termed = (IF x = e THEN TRUE ELSE entry[x].termed)
    <3>1. CASE x = e
      <4>1. entry'[x] = [marked[x] EXCEPT !.termed = TRUE, !.exitcode = code]
        BY <2>6, <2>8, <2>9, <3>1 DEF Terminated
      <4>2. QED
        BY <2>10, <3>1, <4>1 DEF Entries
    <3>2. CASE x # e
      <4>1. entry'[x] = marked[x]
        BY <2>8, <2>9, <3>2
      <4>2. QED
        BY <2>10, <3>2, <4>1
    <3>3. QED
      BY <3>1, <3>2
  <2>12. entry' \in Seq(Entries) /\ Len(entry') = g
    <3>1. DOMAIN entry' = 1 .. g /\ entry' = [x \in 1 .. g |-> entry'[x]]
      BY <2>8, <2>9
    <3>2. entry' \in [1 .. g -> Entries]
      BY <2>11, <3>1
    <3>3. QED
      BY <2>2, <3>2
  <2>13. mem' \in [Procs -> Structs]
    <3>1. mem \in [Procs -> Structs]
      BY <1>0 DEF RaceTypes
    <3>2. CASE mem[a].p_parent \notin Procs
      BY <2>9, <3>1, <3>2 DEF LeaveParent
    <3>3. CASE mem[a].p_parent \in Procs
      <4>1. PICK q \in Procs : q = mem[a].p_parent
        BY <3>3
      <4>2. mem[q] \in Structs
        BY <3>1
      <4>3. PICK f \in [1 .. MAX_CHILDS -> Procs \cup {NULL, DEAD}] : f = mem[q].p_childs
        BY <4>2 DEF Structs
      <4>4. PICK f2 : f2 = ReplaceFirst(f, a, NULL)
        OBVIOUS
      <4>5. f2 \in [1 .. MAX_CHILDS -> Procs \cup {NULL, DEAD}]
        BY <4>4, ReplaceFirstAt
      <4>6. PICK r : r = [mem[q] EXCEPT !.p_childs = f2]
        OBVIOUS
      <4>7. r \in Structs
        BY <4>2, <4>5, <4>6 DEF Structs
      <4>8. mem' = [mem EXCEPT ![q] = r]
        BY <2>9, <3>3, <4>1, <4>3, <4>4, <4>6 DEF LeaveParent
      <4>9. QED
        BY <3>1, <4>7, <4>8
    <3>4. QED
      BY <3>2, <3>3
  <2>14. RaceTypes'
    <3>1. Global_Proc_Table' \in [Pids -> 0 .. g] /\ inst' \in [Procs -> 0 .. g]
      <4>1. Global_Proc_Table \in [Pids -> 0 .. g] /\ inst \in [Procs -> 0 .. g] /\ 0 \in 0 .. g
        BY <1>0, <2>2 DEF RaceTypes
      <4>2. QED
        BY <2>9, <4>1
    <3>2. target' \in [Procs -> [pid : Pids, tgt_entry : 0 .. g]]
      BY <1>0, <2>2, <2>9 DEF RaceTypes
    <3>3. pc' \in [Actors -> Places] /\ new_proc' \in [Actors -> Procs \cup {NULL}]
      <4>1. pc \in [Actors -> Places]
        BY <1>0 DEF RaceTypes
      <4>2. pc' \in [Actors -> Places]
        BY <2>9, <4>1 DEF Places
      <4>3. QED
        BY <1>0, <2>9, <4>2 DEF RaceTypes
    <3>4. QED
      BY <2>12, <2>13, <3>1, <3>2, <3>3 DEF RaceTypes
  <2>15. /\ pc'[a] = "dying"
         /\ \A b \in Procs : b # a =>
              pc'[b] = IF pc[b] = "wait_asleep" /\ target[b].tgt_entry = e THEN "wait_woken" ELSE pc[b]
    BY <1>1, <2>9 DEF Actors, Waiters
  <2>16. ASSUME NEW b \in Procs, pc'[b] \in {"wait_asleep", "wait_woken"}
         PROVE  /\ b # a /\ target[b].tgt_entry \in 1 .. g
                /\ pc'[b] = pc[b] \/ (pc'[b] = "wait_woken" /\ target[b].tgt_entry = e)
                /\ pc'[b] = "wait_asleep" => target[b].tgt_entry # e
                /\ pc[b] \in {"wait_asleep", "wait_woken"}
    <3>1. /\ b # a
          /\ pc'[b] = pc[b] \/ (pc'[b] = "wait_woken" /\ target[b].tgt_entry = e)
          /\ pc'[b] = "wait_asleep" => target[b].tgt_entry # e
          /\ pc[b] \in {"wait_asleep", "wait_woken"}
      BY <2>15, <2>16
    <3>2. target[b] \in [pid : Pids, tgt_entry : 0 .. g]
      BY <1>0, <2>2 DEF RaceTypes
    <3>3. target[b].tgt_entry # 0
      BY <1>0, <3>1 DEF WaitersHaveEntry
    <3>4. QED
      BY <2>2, <3>1, <3>2, <3>3
  <2>17. WaitersHaveEntry'
    BY <1>0, <2>9, <2>16 DEF WaitersHaveEntry
  <2>18. WaiterNotForgotten'
    <3>1. ASSUME NEW b \in Procs, pc'[b] = "wait_asleep" PROVE ~ entry'[target[b].tgt_entry].termed
      BY <1>0, <2>11, <2>16, <3>1 DEF WaiterNotForgotten
    <3>2. ASSUME NEW b \in Procs, pc'[b] = "wait_woken" PROVE entry'[target[b].tgt_entry].termed
      BY <1>0, <2>11, <2>16, <3>2 DEF WaiterNotForgotten
    <3>3. QED
      BY <2>9, <3>1, <3>2 DEF WaiterNotForgotten
  <2>19. EntryInOneSlot'
    <3>1. \A q \in Pids : Global_Proc_Table'[q] # 0 => Global_Proc_Table'[q] = Global_Proc_Table[q]
      BY <1>0, <2>9 DEF RaceTypes
    <3>2. ASSUME NEW q \in Pids, NEW r \in Pids,
                 Global_Proc_Table'[q] = Global_Proc_Table'[r], Global_Proc_Table'[q] # 0
          PROVE  q = r
      BY <1>0, <3>1, <3>2 DEF EntryInOneSlot
    <3>3. QED
      BY <3>2 DEF EntryInOneSlot
  <2>20. QED
    BY <2>14, <2>17, <2>18, <2>19 DEF RaceInv
<1>4. QED
  BY <1>2, <1>3

(* sys_waitpid sleeps on an entry that is not terminated, and is done      *)
(* with one that is.                                                       *)
LEMMA RaceWaitpid ==
  ASSUME RaceInv, NEW a \in Actors,
         (\E p \in Pids : sys_waitpid(a, p)) \/ (a \in Procs /\ sys_waitpid_collect(a))
  PROVE  RaceInv'
<1> USE ProcTableConstants
<1>0. RaceTypes /\ WaitersHaveEntry /\ WaiterNotForgotten /\ EntryInOneSlot
  BY DEF RaceInv
<1>1. ASSUME NEW p \in Pids, sys_waitpid(a, p) PROVE RaceInv'
  <2>1. PICK e : e = Global_Proc_Table[p]
    OBVIOUS
  <2>2. a \in Procs /\ e # 0 /\ e \in 0 .. Len(entry)
    BY <1>0, <1>1, <2>1 DEF sys_waitpid, Actors, RaceTypes
  <2>3. PICK l \in {"wait_woken", "wait_asleep"} :
          /\ l = "wait_woken" <=> entry[e].termed
          /\ pc' = [pc EXCEPT ![a] = l]
    BY <1>1, <2>1 DEF sys_waitpid, Goto
  <2>4. /\ target' = [target EXCEPT ![a] = [pid |-> p, tgt_entry |-> e]]
        /\ UNCHANGED <<Global_Proc_Table, entry, mem, new_proc, inst>>
    BY <1>1, <2>1 DEF sys_waitpid, table, history
  <2>5. RaceTypes'
    <3>1. [pid |-> p, tgt_entry |-> e] \in [pid : Pids, tgt_entry : 0 .. Len(entry)]
      BY <2>2
    <3>2. target' \in [Procs -> [pid : Pids, tgt_entry : 0 .. Len(entry)]]
      BY <1>0, <2>4, <3>1 DEF RaceTypes
    <3>3. pc' \in [Actors -> Places]
      BY <1>0, <2>3 DEF RaceTypes, Places
    <3>4. QED
      BY <1>0, <2>4, <3>2, <3>3 DEF RaceTypes
  <2>6. /\ pc'[a] = l /\ target'[a].tgt_entry = e
        /\ \A b \in Procs : b # a => pc'[b] = pc[b] /\ target'[b] = target[b]
    BY <1>0, <2>2, <2>3, <2>4 DEF RaceTypes, Actors
  <2>7. WaitersHaveEntry' /\ EntryInOneSlot'
    BY <1>0, <2>2, <2>4, <2>6 DEF WaitersHaveEntry, EntryInOneSlot
  <2>8. WaiterNotForgotten'
    BY <1>0, <2>3, <2>4, <2>6 DEF WaiterNotForgotten
  <2>9. QED
    BY <2>5, <2>7, <2>8 DEF RaceInv
<1>2. ASSUME a \in Procs, sys_waitpid_collect(a) PROVE RaceInv'
  <2>1. PICK p \in Pids : p = target[a].pid
    BY <1>0, <1>2 DEF RaceTypes
  <2>2. /\ \/ Global_Proc_Table' = [Global_Proc_Table EXCEPT ![p] = 0]
           \/ UNCHANGED Global_Proc_Table
        /\ pc' = [pc EXCEPT ![a] = "user"] /\ new_proc' = [new_proc EXCEPT ![a] = NULL]
        /\ target' = [target EXCEPT ![a] = NoTarget]
        /\ UNCHANGED <<entry, mem, inst>>
    BY <1>2, <2>1 DEF sys_waitpid_collect, Return, Goto, history
  <2>3. 0 \in 0 .. Len(entry) /\ 0 \in Pids
    BY <1>0 DEF RaceTypes, Pids
  <2>4. RaceTypes'
    <3>1. NoTarget \in [pid : Pids, tgt_entry : 0 .. Len(entry)]
      BY <2>3 DEF NoTarget
    <3>2. target' \in [Procs -> [pid : Pids, tgt_entry : 0 .. Len(entry)]]
      BY <1>0, <2>2, <3>1 DEF RaceTypes
    <3>3. pc' \in [Actors -> Places] /\ new_proc' \in [Actors -> Procs \cup {NULL}]
      BY <1>0, <2>2 DEF RaceTypes, Places
    <3>4. Global_Proc_Table' \in [Pids -> 0 .. Len(entry)]
      BY <1>0, <2>2, <2>3 DEF RaceTypes
    <3>5. QED
      BY <1>0, <2>2, <3>2, <3>3, <3>4 DEF RaceTypes
  <2>5. /\ pc'[a] = "user"
        /\ \A b \in Procs : b # a => pc'[b] = pc[b] /\ target'[b] = target[b]
    BY <1>0, <1>2, <2>2 DEF RaceTypes, Actors
  <2>6. WaitersHaveEntry' /\ WaiterNotForgotten'
    BY <1>0, <2>2, <2>5 DEF WaitersHaveEntry, WaiterNotForgotten
  <2>7. EntryInOneSlot'
    <3>1. \A q \in Pids : Global_Proc_Table'[q] # 0 => Global_Proc_Table'[q] = Global_Proc_Table[q]
      BY <1>0, <2>2 DEF RaceTypes
    <3>2. ASSUME NEW q \in Pids, NEW r \in Pids,
                 Global_Proc_Table'[q] = Global_Proc_Table'[r], Global_Proc_Table'[q] # 0
          PROVE  q = r
      BY <1>0, <3>1, <3>2 DEF EntryInOneSlot
    <3>3. QED
      BY <3>2 DEF EntryInOneSlot
  <2>8. QED
    BY <2>4, <2>6, <2>7 DEF RaceInv
<1>3. QED
  BY <1>1, <1>2

(* With the races open the table may no longer name every process, but no  *)
(* wakeup of sys_waitpid is lost, KASSERT(tgt_entry->termed) holds, and an *)
(* entry is in one slot.                                                   *)
THEOREM WaitersNotForgotten == Spec => [](WaiterNotForgotten /\ EntryInOneSlot)
<1>1. Init => RaceInv
  <2>1. SUFFICES ASSUME Init PROVE RaceInv
    OBVIOUS
  <2>2. IInv
    BY <2>1, InitIInv
  <2>3. mem \in [Procs -> Structs]
    <3>1. [i \in 1 .. MAX_CHILDS |-> DEAD] \in [1 .. MAX_CHILDS -> Procs \cup {NULL, DEAD}]
      OBVIOUS
    <3>2. Freed \in Structs
      BY <3>1 DEF Freed, Structs
    <3>3. QED
      BY <2>1, <3>2 DEF Init
  <2>4. entry \in Seq(Entries)
    BY <2>1 DEF Init
  <2>5. RaceTypes
    BY <2>2, <2>3, <2>4, PartsOfIInv DEF Parts, TypeOK, RaceTypes
  <2>6. \A b \in Procs : pc[b] = "none"
    BY <2>1, ProcTableConstants DEF Init, Actors
  <2>7. WaitersHaveEntry /\ WaiterNotForgotten
    BY <2>6 DEF WaitersHaveEntry, WaiterNotForgotten
  <2>8. QED
    BY <2>2, <2>5, <2>7, PartsOfIInv DEF Parts, RaceInv
<1>2. RaceInv /\ [Next]_vars => RaceInv'
  <2>1. SUFFICES ASSUME RaceInv, [Next]_vars PROVE RaceInv'
    OBVIOUS
  <2>2. ASSUME NEW a \in Actors, Continue(a) PROVE RaceInv'
    <3>1. a # KPROC => a \in Procs
      BY DEF Actors
    <3>2. CASE proc_create_insert(a)
      BY <2>1, <3>2, RaceInsert
    <3>3. CASE a # KPROC /\ sys_fork_link(a)
      BY <2>1, <3>1, <3>3, RaceLink
    <3>4. CASE a # KPROC /\ sys_waitpid_collect(a)
      BY <2>1, <3>1, <3>4, RaceWaitpid
    <3>5. CASE \/ proc_create_nomem(a) \/ fork_fails(a)
               \/ proc_create_count_load(a) \/ proc_create_count_store(a) \/ thread_fork(a)
               \/ a # KPROC /\ (sys_fork_pid(a) \/ enter_forked_process(a)
                               \/ runprogram_fails(a) \/ thread_exit(a))
      BY <2>1, <3>1, <3>5, RaceCreate
    <3>6. QED
      BY <2>2, <3>2, <3>3, <3>4, <3>5 DEF Continue
  <2>3. ASSUME NEW a \in Actors, Call(a) PROVE RaceInv'
    <3>1. CASE proc_create(a)
      BY <2>1, <3>1, RaceCreate
    <3>2. ASSUME NEW code \in Codes, sys__exit(a, code) PROVE RaceInv'
      BY <2>1, <3>2, RaceExit
    <3>3. ASSUME NEW p \in Pids, sys_waitpid(a, p) PROVE RaceInv'
      BY <2>1, <3>3, RaceWaitpid
    <3>4. QED
      BY <2>3, <3>1, <3>2, <3>3 DEF Call
  <2>4. CASE UNCHANGED vars
    <3>1. UNCHANGED <<Global_Proc_Table, entry, mem, pc, new_proc, target, inst>>
      BY <2>4 DEF vars
    <3>2. QED
      BY <2>1, <3>1, RaceSame DEF RaceInv, RaceTypes
  <2>5. QED
    BY <2>1, <2>2, <2>3, <2>4 DEF Next
<1>3. RaceInv => WaiterNotForgotten /\ EntryInOneSlot
  BY DEF RaceInv
<1>4. QED
  BY <1>1, <1>2, <1>3, PTL DEF Spec

============================================================================
