----------------------------- MODULE ProcTable -----------------------------
(***************************************************************************)
(* Process creation, exit and waiting: proc_create, sys_fork, sys__exit,   *)
(* sys_waitpid, thread_exit and the menu's common_prog, over the global    *)
(* process table and the heap of struct proc.                              *)
(*                                                                         *)
(* A struct proc is known by its address, and kmalloc hands a freed        *)
(* address out again; kfree overwrites what is freed, so a pid read        *)
(* through a stale pointer is DEAD, or the pid of the block's new owner,   *)
(* which is taken to be a struct proc again.                               *)
(* Table entries (pt_entry) are never freed: each is the number of the     *)
(* proc_create that made it.  What runs under GPT_lock is one step, and    *)
(* cv_wait lets the lock go and sleeps in one step: see Synch.             *)
(***************************************************************************)
EXTENDS Naturals, Sequences, FiniteSets

CONSTANTS
  Procs,         (* addresses of struct proc on the heap                   *)
  KPROC,         (* kproc, in which the menu runs                          *)
  MAX_PROCS,     (* slots of Global_Proc_Table                             *)
  MAX_CHILDS,    (* slots of p_childs                                      *)
  Codes,         (* exit codes programs pass to _exit                      *)
  NULL,          (* the null pointer                                       *)
  DEAD           (* what is read from freed memory                         *)

Pids == 0 .. (MAX_PROCS - 1)
Actors == Procs \cup {KPROC}

ASSUME ProcTableConstants ==
  /\ MAX_PROCS \in Nat \ {0}
  /\ MAX_CHILDS \in Nat
  /\ KPROC \notin Procs
  /\ {NULL, DEAD} \cap (Actors \cup Nat \cup Codes) = {} /\ NULL # DEAD

VARIABLES
  Global_Proc_Table,  (* pid -> number of the entry, 0 for NULL            *)
  entry,              (* the pt_entry records, in order of creation        *)
  GLOBAL_PROC_COUNT,
  mem,                (* address -> the struct proc there                  *)
  pc,                 (* where each process' thread is                     *)
  new_proc,           (* sys_fork's local: the process being created       *)
  tmp,                (* GLOBAL_PROC_COUNT as loaded by its ++             *)
  target,             (* sys_waitpid's locals: target_pid and tgt_entry    *)
  inst,               (* history: the entry made for the process at an     *)
                      (* address                                           *)
  passed,             (* history: the code each process passed to _exit    *)
  raced,              (* history: a child has exited before its parent had *)
                      (* noted it, or a new process has found no free slot *)
  panicked            (* the kernel stopped                                *)

table == <<Global_Proc_Table, entry, GLOBAL_PROC_COUNT>>
locals == <<new_proc, tmp, target>>
history == <<inst, passed, raced>>
vars == <<Global_Proc_Table, entry, GLOBAL_PROC_COUNT, mem, pc, new_proc, tmp,
          target, inst, passed, raced, panicked>>

(* A freed struct proc: kfree fills it.                                    *)
Freed ==
  [pid |-> DEAD, p_parent |-> DEAD, p_num_childs |-> 0,
   p_childs |-> [i \in 1 .. MAX_CHILDS |-> DEAD]]

NoTarget == [pid |-> 0, tgt_entry |-> 0]

(* file_table_bootstrap has wiped the table; kproc is counted, no program  *)
(* has run.                                                                *)
Init ==
  /\ Global_Proc_Table = [p \in Pids |-> 0]
  /\ entry = <<>>
  /\ GLOBAL_PROC_COUNT = 1
  /\ mem = [a \in Procs |-> Freed]
  /\ pc = [a \in Actors |-> IF a = KPROC THEN "user" ELSE "none"]
  /\ new_proc = [a \in Actors |-> NULL]
  /\ tmp = [a \in Actors |-> 0]
  /\ target = [a \in Procs |-> NoTarget]
  /\ inst = [a \in Procs |-> 0]
  /\ passed = <<>>
  /\ raced = FALSE
  /\ panicked = FALSE

First(S) == CHOOSE i \in S : \A j \in S : i <= j

At(a, place) == ~ panicked /\ pc[a] = place

Goto(a, place) == pc' = [pc EXCEPT ![a] = place]

(* A system call returns to its caller.  One that is refused before it has *)
(* changed anything is no step here: the tests for it are guards below.    *)
Return(a) ==
  /\ Goto(a, "user")
  /\ new_proc' = [new_proc EXCEPT ![a] = NULL]

----------------------------------------------------------------------------
(* proc_create, called by sys_fork and by the menu's common_prog           *)

(* The menu starts a program only when no thread of the last one is left.  *)
MayCreate(a) ==
  /\ At(a, "user")
  /\ a = KPROC => \A b \in Procs : pc[b] = "none"

(* ENPROC from sys_fork, NULL from proc_create                             *)
ProcsFull == GLOBAL_PROC_COUNT >= MAX_PROCS

(* EMPROC from sys_fork                                                    *)
ChildsFull(a) == a # KPROC /\ mem[a].p_num_childs >= MAX_CHILDS

proc_create(a) ==
  /\ MayCreate(a)
  /\ ~ ProcsFull
  /\ ~ ChildsFull(a)
  /\ \E n \in Procs :
       /\ mem[n] = Freed
       /\ pc[n] = "none"
       /\ mem' = [mem EXCEPT ![n] =
                    [pid |-> DEAD, p_parent |-> a, p_num_childs |-> 0,
                     p_childs |-> [i \in 1 .. MAX_CHILDS |-> NULL]]]
       /\ new_proc' = [new_proc EXCEPT ![a] = n]
  /\ Goto(a, "insert")
  /\ UNCHANGED <<table, tmp, target, history, panicked>>

FreeSlots == {p \in Pids : Global_Proc_Table[p] = 0}

NewEntry(a, n) ==
  [pcb |-> n, termed |-> FALSE, p_termed |-> FALSE, exitcode |-> 0,
   by |-> IF a = KPROC THEN 0 ELSE inst[a]]

InSlot(p, e) == [Global_Proc_Table EXCEPT ![p] = e]

(* Under GPT_lock: the entry goes to the first free slot.  If no slot is   *)
(* free the process keeps whatever its pid field held.                     *)
proc_create_insert(a) ==
  /\ At(a, "insert")
  /\ LET n == new_proc[a]
         p == First(FreeSlots)
     IN /\ entry' = Append(entry, NewEntry(a, n))
        /\ IF FreeSlots = {}
           THEN UNCHANGED <<Global_Proc_Table, mem>>
           ELSE /\ Global_Proc_Table' = InSlot(p, Len(entry'))
                /\ mem' = [mem EXCEPT ![n].pid = p]
        /\ inst' = [inst EXCEPT ![n] = Len(entry')]
        /\ passed' = Append(passed, NULL)
        /\ raced' = (raced \/ FreeSlots = {})
  /\ Goto(a, "count_load")
  /\ UNCHANGED <<GLOBAL_PROC_COUNT, locals, panicked>>

(* create_entry fails: the process is freed again.                         *)
proc_create_nomem(a) ==
  /\ At(a, "insert")
  /\ mem' = [mem EXCEPT ![new_proc[a]] = Freed]
  /\ Return(a)
  /\ UNCHANGED <<table, tmp, target, history, panicked>>

(* GLOBAL_PROC_COUNT++, without the lock: a load and a store.              *)
proc_create_count_load(a) ==
  /\ At(a, "count_load")
  /\ tmp' = [tmp EXCEPT ![a] = GLOBAL_PROC_COUNT]
  /\ Goto(a, "count_store")
  /\ UNCHANGED <<table, mem, new_proc, target, history, panicked>>

proc_create_count_store(a) ==
  /\ At(a, "count_store")
  /\ GLOBAL_PROC_COUNT' = tmp[a] + 1
  /\ tmp' = [tmp EXCEPT ![a] = 0]
  /\ Goto(a, "start")
  /\ UNCHANGED <<Global_Proc_Table, entry, mem, new_proc, target,
                 history, panicked>>

----------------------------------------------------------------------------
(* sys_fork and common_prog after proc_create                              *)

(* as_copy, the trapframe's kmalloc or thread_fork fails: proc_destroy.    *)
(* The table entry stays.                                                  *)
fork_fails(a) ==
  /\ At(a, "start")
  /\ mem' = [mem EXCEPT ![new_proc[a]] = Freed]
  /\ Return(a)
  /\ UNCHANGED <<table, tmp, target, history, panicked>>

(* thread_fork: the child is runnable from here on.                        *)
thread_fork(a) ==
  /\ At(a, "start")
  /\ pc' = [pc EXCEPT ![a] = IF a = KPROC THEN "user" ELSE "link",
                      ![new_proc[a]] = "ready"]
  /\ new_proc' = IF a = KPROC THEN [new_proc EXCEPT ![a] = NULL] ELSE new_proc
  /\ UNCHANGED <<table, mem, tmp, target, history, panicked>>

(* Replace the first occurrence of a pointer in a p_childs array, if any.  *)
ReplaceFirst(childs, old, new) ==
  LET at == {i \in DOMAIN childs : childs[i] = old} IN
  IF at = {} THEN childs ELSE [childs EXCEPT ![First(at)] = new]

(* The parent notes the child under its own p_mutex, not under GPT_lock.   *)
sys_fork_link(a) ==
  /\ At(a, "link")
  /\ mem' = [mem EXCEPT
               ![a].p_num_childs = @ + 1,
               ![a].p_childs = ReplaceFirst(@, NULL, new_proc[a])]
  /\ Goto(a, "pid")
  /\ UNCHANGED <<table, locals, history, panicked>>

(* sys_fork returns the pid it reads from the child's struct proc, which   *)
(* may have been freed in the meantime.                                    *)
sys_fork_pid(a) ==
  /\ At(a, "pid")
  /\ Return(a)
  /\ UNCHANGED <<table, mem, tmp, target, history, panicked>>

(* The child reaches user mode (enter_forked_process, or runprogram for a  *)
(* program of the menu).                                                   *)
enter_forked_process(n) ==
  /\ At(n, "ready")
  /\ Goto(n, "user")
  /\ UNCHANGED <<table, mem, locals, history, panicked>>

(* runprogram fails: cmd_progthread returns and thread_startup calls       *)
(* thread_exit, without sys__exit.                                         *)
runprogram_fails(n) ==
  /\ At(n, "ready")
  /\ mem[n].p_parent = KPROC
  /\ Goto(n, "dying")
  /\ UNCHANGED <<table, mem, locals, history, panicked>>

----------------------------------------------------------------------------
(* sys__exit *)

Children(a) == {mem[a].p_childs[i] : i \in 1 .. MAX_CHILDS} \ {NULL}

(* Global_Proc_Table[x->pid]; 0 stands for NULL.  Indexed by a pid that    *)
(* was read from freed memory it is an access to an unmapped address.      *)
EntryOf(x) == IF mem[x].pid = DEAD THEN 0 ELSE Global_Proc_Table[mem[x].pid]

(* KASSERT(current != NULL), KASSERT(child != NULL), or the fault above.   *)
ExitPanics(a) == EntryOf(a) = 0 \/ \E c \in Children(a) : EntryOf(c) = 0

(* Mutant: the exiting process stays in its parent's p_childs.             *)
LeaveParent_stays(a) == UNCHANGED mem

(* The exiting process takes itself out of its parent's p_childs, through  *)
(* a p_parent that may point to freed memory.                              *)
LeaveParent(a) ==
  LET parent == mem[a].p_parent IN
  IF parent \in Procs
  THEN mem' = [mem EXCEPT ![parent].p_childs = ReplaceFirst(@, a, NULL)]
  ELSE UNCHANGED mem

(* Mutant: nobody is woken.                                                *)
Waiters_none(e) == {}

(* Whom the cv_broadcast on entry e wakes.                                 *)
Waiters(e) == {b \in Procs : pc[b] = "wait_asleep" /\ target[b].tgt_entry = e}

(* Mutant: the exit code is not stored.                                    *)
Terminated_no_code(x, code) == [x EXCEPT !.termed = TRUE]

Terminated(x, code) == [x EXCEPT !.termed = TRUE, !.exitcode = code]

Orphaned(x) == [x EXCEPT !.p_termed = TRUE]

(* Mutant: the slot is freed although the parent may still ask for it.     *)
FreesSlot_always(x) == TRUE

FreesSlot(x) == x.p_termed

(* The critical section of sys__exit, when its assertions hold.            *)
Exits(a, code) ==
  /\ LET e == EntryOf(a)
         orphans == {EntryOf(c) : c \in Children(a)}
         marked == [x \in DOMAIN entry |->
                      IF x \in orphans THEN Orphaned(entry[x]) ELSE entry[x]]
     IN /\ entry' = [marked EXCEPT ![e] = Terminated(@, code)]
        /\ Global_Proc_Table' =
             IF FreesSlot(marked[e])
             THEN [Global_Proc_Table EXCEPT ![mem[a].pid] = 0]
             ELSE Global_Proc_Table
        /\ pc' = [b \in Actors |-> IF b = a THEN "dying"
                                   ELSE IF b \in Waiters(e) THEN "wait_woken"
                                   ELSE pc[b]]
  /\ LeaveParent(a)
  /\ passed' = [passed EXCEPT ![inst[a]] = code]
  /\ raced' = (raced \/ \E b \in Procs : pc[b] = "link" /\ new_proc[b] = a)
  /\ UNCHANGED <<GLOBAL_PROC_COUNT, locals, inst, panicked>>

sys__exit(a, code) ==
  /\ At(a, "user")
  /\ a # KPROC
  /\ IF ExitPanics(a)
       THEN panicked' = TRUE /\ UNCHANGED <<table, mem, pc, locals, history>>
       ELSE Exits(a, code)

(* thread_exit: proc_remthread frees the struct proc.                      *)
thread_exit(a) ==
  /\ At(a, "dying")
  /\ mem' = [mem EXCEPT ![a] = Freed]
  /\ Goto(a, "none")
  /\ inst' = [inst EXCEPT ![a] = 0]
  /\ UNCHANGED <<table, locals, passed, raced, panicked>>

----------------------------------------------------------------------------
(* sys_waitpid *)

(* Otherwise the answer is ECHILD.                                         *)
IsChild(a, p) == \E c \in Children(a) : mem[c].pid = p

(* A pid that is positive (and within the table: the code relies on its    *)
(* caller for that), in use (else ESRCH) and a child's; options are 0.     *)
sys_waitpid(a, p) ==
  /\ At(a, "user")
  /\ a # KPROC
  /\ p # 0 /\ Global_Proc_Table[p] # 0 /\ IsChild(a, p)
  /\ target' = [target EXCEPT ![a] =
                  [pid |-> p, tgt_entry |-> Global_Proc_Table[p]]]
  /\ Goto(a, IF entry[Global_Proc_Table[p]].termed
             THEN "wait_woken" ELSE "wait_asleep")
  /\ UNCHANGED <<table, mem, new_proc, tmp, history, panicked>>

(* Back under GPT_lock: the caller gets the status and the slot is freed,  *)
(* unless the copyout fails.  (KASSERT(tgt_entry->termed): WaiterInformed.) *)
sys_waitpid_collect(a) ==
  /\ At(a, "wait_woken")
  /\ Return(a)
  /\ \/ Global_Proc_Table' = [Global_Proc_Table EXCEPT ![target[a].pid] = 0]
     \/ UNCHANGED Global_Proc_Table
  /\ target' = [target EXCEPT ![a] = NoTarget]
  /\ UNCHANGED <<entry, GLOBAL_PROC_COUNT, mem, tmp, history, panicked>>

----------------------------------------------------------------------------

(* The steps inside a call, which the scheduler carries on with ...        *)
Continue(a) ==
  \/ proc_create_insert(a)
  \/ proc_create_nomem(a)
  \/ proc_create_count_load(a)
  \/ proc_create_count_store(a)
  \/ fork_fails(a)
  \/ thread_fork(a)
  \/ a # KPROC /\ sys_fork_link(a)
  \/ a # KPROC /\ sys_fork_pid(a)
  \/ a # KPROC /\ enter_forked_process(a)
  \/ a # KPROC /\ runprogram_fails(a)
  \/ a # KPROC /\ thread_exit(a)
  \/ a # KPROC /\ sys_waitpid_collect(a)

(* ... and the calls a program, or who types at the menu, chooses.         *)
Call(a) ==
  \/ proc_create(a)
  \/ \E code \in Codes : sys__exit(a, code)
  \/ \E p \in Pids : sys_waitpid(a, p)

Next == \E a \in Actors : Continue(a) \/ Call(a)

Spec == Init /\ [][Next]_vars

FairSpec == Spec /\ \A a \in Actors : WF_vars(Continue(a))

----------------------------------------------------------------------------
(* Properties *)

Places == {"none", "ready", "user", "insert", "count_load", "count_store",
           "start", "link", "pid", "wait_asleep", "wait_woken", "dying"}

TypeOK ==
  /\ Global_Proc_Table \in [Pids -> 0 .. Len(entry)]
  /\ entry \in Seq([pcb : Procs, termed : BOOLEAN, p_termed : BOOLEAN,
                    exitcode : Codes \cup {0}, by : Nat])
  /\ GLOBAL_PROC_COUNT \in Nat
  /\ mem \in [Procs -> [pid : Pids \cup {DEAD}, p_parent : Actors \cup {DEAD},
                        p_num_childs : 0 .. MAX_CHILDS,
                        p_childs : [1 .. MAX_CHILDS -> Procs \cup {NULL, DEAD}]]]
  /\ pc \in [Actors -> Places]
  /\ new_proc \in [Actors -> Procs \cup {NULL}]
  /\ tmp \in [Actors -> Nat]
  /\ target \in [Procs -> [pid : Pids, tgt_entry : 0 .. Len(entry)]]
  /\ inst \in [Procs -> 0 .. Len(entry)]
  /\ passed \in Seq(Codes \cup {NULL}) /\ Len(passed) = Len(entry)
  /\ raced \in BOOLEAN /\ panicked \in BOOLEAN

(* Processes that can still call sys__exit.                                *)
Running(a) == pc[a] \notin {"none", "dying"}

(* The table finds the process at an address under its own pid, and its    *)
(* entry does not say that it has exited.                                  *)
Named(a) ==
  /\ mem[a].pid # DEAD
  /\ inst[a] # 0 /\ Global_Proc_Table[mem[a].pid] = inst[a]
  /\ entry[inst[a]].pcb = a /\ ~ entry[inst[a]].termed

(* The table finds every running process under its own pid: no two share   *)
(* a pid, and no slot was taken away from its process.                     *)
TableNamesProcess == \A a \in Procs : Running(a) => Named(a)

(* A child that a noted, and that still runs.                              *)
RunningChild(c, a) ==
  c \in Procs /\ Running(c) /\ mem[c].p_parent = a /\ entry[inst[c]].by = inst[a]

ChildsRunning(a) ==
  \A i \in 1 .. MAX_CHILDS : mem[a].p_childs[i] # NULL =>
    /\ RunningChild(mem[a].p_childs[i], a)
    /\ \A j \in 1 .. MAX_CHILDS : mem[a].p_childs[j] = mem[a].p_childs[i] => j = i

(* p_childs names running children only, each once: sys__exit takes a      *)
(* process out of its parent's array before its struct proc is freed.      *)
ChildsAreRunning == \A a \in Procs : Running(a) => ChildsRunning(a)

Forking(a) == pc[a] \in {"insert", "count_load", "count_store", "start", "link"}

(* The process n that a creates is a's alone until thread_fork, is in the  *)
(* table from its insertion on, runs but does not end before a has noted   *)
(* it, and there is room to note it.                                       *)
NewProcess(n, a) ==
  /\ n \in Procs /\ mem[n].p_parent = a
  /\ IF pc[a] = "link" THEN Running(n)
     ELSE pc[n] = "none" /\ \A i \in 1 .. MAX_CHILDS : mem[n].p_childs[i] = NULL
  /\ pc[a] # "insert" => Named(n)
  /\ pc[a] # "insert" => entry[inst[n]].by = IF a = KPROC THEN 0 ELSE inst[a]
  /\ a # KPROC => /\ mem[a].p_num_childs < MAX_CHILDS
                  /\ \A i \in 1 .. MAX_CHILDS : mem[a].p_childs[i] # n

(* While a process is created nobody else has it.                          *)
ForkInProgress ==
  /\ pc[KPROC] \in {"user", "insert", "count_load", "count_store", "start"}
  /\ \A a \in Actors : Forking(a) => NewProcess(new_proc[a], a)

(* The assertions of sys__exit ("Proc table invariant invalid") hold       *)
(* whenever a process may call it.                                         *)
ExitAssertionsHold == \A a \in Procs : pc[a] = "user" => ~ ExitPanics(a)

(* While a parent waits, the slot of the pid it waits for is not freed and *)
(* given to another process: the slot sys_waitpid clears, by pid, when it  *)
(* wakes is its child's.                                                   *)
WaiterOwnsSlot ==
  \A a \in Procs : pc[a] \in {"wait_asleep", "wait_woken"} =>
    /\ target[a].pid # 0 /\ target[a].tgt_entry # 0
    /\ Global_Proc_Table[target[a].pid] = target[a].tgt_entry
    /\ entry[target[a].tgt_entry].by = inst[a]

(* A parent sleeps in sys_waitpid only while the process it waits for has  *)
(* not exited, and when it is awake the entry has the code that process    *)
(* passed to _exit: one "if" around cv_wait is enough, and                 *)
(* KASSERT(tgt_entry->termed) holds.                                       *)
WaiterInformed ==
  \A a \in Procs :
    LET e == target[a].tgt_entry IN
    /\ pc[a] = "wait_asleep" => passed[e] = NULL
    /\ pc[a] = "wait_woken" =>
         entry[e].termed /\ passed[e] # NULL /\ entry[e].exitcode = passed[e]

(* Whatever the races did: a sleeping parent's target entry is not         *)
(* terminated and a woken one's is, so no wakeup is lost and               *)
(* KASSERT(tgt_entry->termed) holds.                                       *)
WaiterNotForgotten ==
  \A a \in Procs :
    /\ pc[a] = "wait_asleep" => ~ entry[target[a].tgt_entry].termed
    /\ pc[a] = "wait_woken" => entry[target[a].tgt_entry].termed

(* Whatever the races did, an entry is in one slot only, so that clearing  *)
(* a slot in sys__exit or sys_waitpid makes its process unknown.           *)
EntryInOneSlot ==
  \A p, q \in Pids :
    Global_Proc_Table[p] = Global_Proc_Table[q] /\ Global_Proc_Table[p] # 0 => p = q

(* The slot of a process that outlived its parent is free once it exited:  *)
(* nobody could collect it.                                                *)
DeadOrphansLeaveTable ==
  \A p \in Pids : Global_Proc_Table[p] # 0 =>
    LET e == entry[Global_Proc_Table[p]] IN ~ (e.termed /\ e.p_termed)

(* The entries tell what happened: a process was made by an older one; an  *)
(* entry is marked terminated, with the code, when its process passed one  *)
(* to _exit; and it is marked an orphan's only after its maker has exited. *)
EntriesTellExits ==
  \A e \in 1 .. Len(entry) :
    /\ entry[e].by < e
    /\ entry[e].termed <=> passed[e] # NULL
    /\ entry[e].termed => entry[e].exitcode = passed[e]
    /\ entry[e].p_termed => entry[e].by # 0 /\ entry[entry[e].by].termed

(* Slot 0 goes to the first program of the menu and stays taken.           *)
FirstSlotKept ==
  /\ entry = <<>> => \A a \in Procs : pc[a] = "none"
  /\ entry # <<>> => Global_Proc_Table[0] # 0 /\ entry[Global_Proc_Table[0]].by = 0

(* man/syscall/fork.html: fork returns the child's pid in the parent.      *)
ForkReturnsChild ==
  [][\A a \in Procs : sys_fork_pid(a) =>
       /\ mem[new_proc[a]].pid # DEAD
       /\ mem[new_proc[a]].p_parent = a]_vars

(* A parent whose awaited child has exited gets out of sys_waitpid.        *)
WaiterReturns ==
  \A a \in Procs :
    (pc[a] \in {"wait_asleep", "wait_woken"} /\ passed[target[a].tgt_entry] # NULL)
      ~> pc[a] = "user" \/ raced

(* man/syscall/waitpid.html: "If that process has exited already, waitpid  *)
(* returns immediately": a process whose child's exit is in the table is   *)
(* not refused by sys_waitpid.                                             *)
WaitpidAfterExit ==
  \A a \in Procs, p \in Pids \ {0} :
    LET e == entry[Global_Proc_Table[p]] IN
    pc[a] = "user" /\ Global_Proc_Table[p] # 0 /\ e.by = inst[a] /\ e.termed
      => IsChild(a, p)

(* Taken together: while processes are created, exit and are waited for,   *)
(* and addresses and slots are used again, the table, the entries and the  *)
(* child arrays tell the same story.                                       *)
TablesAgree ==
  /\ TableNamesProcess /\ ChildsAreRunning /\ ForkInProgress
  /\ EntryInOneSlot /\ DeadOrphansLeaveTable /\ EntriesTellExits /\ FirstSlotKept

(* Only two things can set them at odds: the exit of a child that its      *)
(* parent has not noted yet, and an insertion into a full table.           *)
ProcInv == ~ raced => TypeOK /\ TablesAgree

(* Until then a parent in sys_waitpid waits for its own child, whose slot  *)
(* nobody else gets, and is told the code that child passed to _exit.      *)
WaiterServed == ~ raced => WaiterOwnsSlot /\ WaiterInformed

(* And until then sys__exit meets its assertions.                          *)
ExitsSafely == ~ raced => ExitAssertionsHold /\ ~ panicked

============================================================================
