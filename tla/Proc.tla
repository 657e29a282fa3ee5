------------------------------- MODULE Proc -------------------------------
(***************************************************************************)
(* The process table of the kernel: fork, exit, wait, blocking reads, the  *)
(* boot process that turns into init, and the round-robin scheduler behind *)
(* the timer interrupt (src/proc/proc.c, src/proc/schedule.c,              *)
(* src/sys/timer.c, the wake-up loop of src/io/tty.c).                     *)
(*                                                                         *)
(* Every gate of the IDT is an interrupt gate, so a system call runs with  *)
(* interrupts off and is one step up to the point where it yields with     *)
(* int $0x20; what it does when it is resumed is another step.  Processes  *)
(* in user mode, the boot code of pid 0 and the tty driver (pid 1) run     *)
(* with interrupts on and can lose the processor at any instruction.       *)
(***************************************************************************)
EXTENDS Integers, FiniteSets

CONSTANTS PROC_MAX_CNT, \* slots of proc_table (32 in proc.h)
          QUANTUM,      \* timer ticks between two forced switches (4)
          RamFather     \* what the father word of an unused slot may hold at boot

ASSUME CountAssumption == PROC_MAX_CNT \in Nat /\ PROC_MAX_CNT >= 2
ASSUME QuantumAssumption == QUANTUM \in Nat \ {0}

Pids == 0 .. PROC_MAX_CNT - 1
Ttys == {0, 1}

STATUS == {"EMPTY", "READY", "WAITING_INPUT", "WAITING", "HANGING", "DEAD"}

\* Where the saved context of a process resumes: outside the kernel, or after
\* the int $0x20 of sys_wait, sys_std_read or sys_exit.
Contexts == {"user", "wait", "read", "exit"}

\* The program a process runs.  Pid 0 forks both shells and becomes init; a
\* shell is first a copy of the boot code, then any user program.
Programs == {"fork0", "fork1", "exec_init", "init", "driver",
             "exec_shell0", "exec_shell1", "user"}

VARIABLES
    current_proc, \* the running process
    stat,         \* pcb->stat
    father,       \* pcb->father, which outlives the process in its slot
    tty,          \* pcb->tty
    ctx,          \* where the process resumes
    prog,         \* what it runs
    ticks,        \* timer ticks, modulo QUANTUM
    current_tty,  \* the terminal on the screen
    dirs          \* slots whose page directory frame is allocated

vars == <<current_proc, stat, father, tty, ctx, prog, ticks, current_tty, dirs>>

TypeOK ==
    /\ current_proc \in Pids
    /\ stat \in [Pids -> STATUS]
    /\ father \in [Pids -> Pids \cup RamFather]
    /\ tty \in [Pids -> Ttys]
    /\ ctx \in [Pids -> Contexts]
    /\ prog \in [Pids -> Programs]
    /\ ticks \in 0 .. QUANTUM - 1
    /\ current_tty \in Ttys
    /\ dirs \subseteq Pids

-----------------------------------------------------------------------------
(* What main() leaves behind: pid 0 about to run init_start, pid 1 the tty *)
(* driver on the kernel's own page directory, every other slot EMPTY and   *)
(* otherwise untouched.                                                    *)

Init ==
    /\ current_proc = 0
    /\ stat = [p \in Pids |-> IF p \in {0, 1} THEN "READY" ELSE "EMPTY"]
    /\ father \in {f \in [Pids -> {0} \cup RamFather] : f[0] = 0 /\ f[1] = 0}
    /\ tty = [p \in Pids |-> 0]
    /\ ctx = [p \in Pids |-> "user"]
    /\ prog = [p \in Pids |-> CASE p = 0 -> "fork0"
                                [] p = 1 -> "driver"
                                [] OTHER -> "user"]
    /\ ticks = 0
    /\ current_tty = 0
    /\ dirs = {0}

-----------------------------------------------------------------------------
(* The scheduler.                                                          *)

\* (Mutant of Before: the scan restarts at slot 0 every time.)
FromZero(i) == {j \in Pids : j < i}

\* The slots the scan meets before slot i, starting after the running one.
Before(i) ==
    {j \in Pids : (j - current_proc - 1) % PROC_MAX_CNT
                    < (i - current_proc - 1) % PROC_MAX_CNT}

\* (Mutant of Swept: the branch for DEAD slots is missing.)
SweptNone(st, i) == {j \in {} : st[j] = "DEAD"}

\* Dead processes the scan passes over on its way to i.
Swept(st, i) == {j \in Before(i) : st[j] = "DEAD"}

\* (Mutant of Schedule: the slot is freed, its page directory is not.)
ScheduleKeepsDirs(st) ==
    \E i \in Pids :
        /\ st[i] = "READY"
        /\ \A j \in Before(i) : st[j] # "READY"
        /\ current_proc' = i
        /\ stat' = [j \in Pids |-> IF j \in Swept(st, i) THEN "EMPTY" ELSE st[j]]
        /\ UNCHANGED dirs

\* schedule(): the first READY process of the scan runs; dead ones met on the
\* way lose their page directory and their slot.
Schedule(st) ==
    \E i \in Pids :
        /\ st[i] = "READY"
        /\ \A j \in Before(i) : st[j] # "READY"
        /\ current_proc' = i
        /\ stat' = [j \in Pids |-> IF j \in Swept(st, i) THEN "EMPTY" ELSE st[j]]
        /\ dirs' = dirs \ Swept(st, i)

\* (Mutant of MustSwitch: the status of the running process is not looked at.)
MustSwitchOnTick(st) == ticks' = 0

\* The test of timer_handler, for the tick that is being counted.
MustSwitch(st) == ticks' = 0 \/ st[current_proc] # "READY"

\* timer_handler(), as the interrupt or as the int $0x20 of a system call that
\* has set the statuses to st.
Timer(st) ==
    /\ ticks' = (ticks + 1) % QUANTUM
    /\ \/ MustSwitch(st) /\ Schedule(st)
       \/ /\ ~MustSwitch(st)
          /\ stat' = st
          /\ UNCHANGED <<current_proc, dirs>>

\* The running process executes program code, interrupts on.
Running(programs) == ctx[current_proc] = "user" /\ prog[current_proc] \in programs

TimerIRQ ==
    /\ Running(Programs)
    /\ Timer(stat)
    /\ UNCHANGED <<father, tty, ctx, prog, current_tty>>

-----------------------------------------------------------------------------
(* fork and the boot code.                                                 *)

\* (Mutant of FreeSlots: the slot of an exited process counts as free.)
UnusedSlots == {c \in Pids : stat[c] \in {"EMPTY", "HANGING"}}

\* sys_fork takes the first EMPTY slot; a DEAD one is not free yet.
FreeSlots == {c \in Pids : stat[c] = "EMPTY"}
FirstFree(c) == c \in FreeSlots /\ \A d \in FreeSlots : c <= d

\* What the caller and the child of a fork run next.
AfterFork(program) ==
    CASE program = "fork0" -> "fork1"
      [] program = "fork1" -> "exec_init"
      [] OTHER -> program
ChildProgram(program) ==
    CASE program = "fork0" -> "exec_shell0"
      [] program = "fork1" -> "exec_shell1"
      [] OTHER -> program

\* The new pcb is a copy of the caller's but for its pid and father.
ForkInto(c) ==
    LET p == current_proc IN
    /\ FirstFree(c)
    /\ stat' = [stat EXCEPT ![c] = stat[p]]
    /\ father' = [father EXCEPT ![c] = p]
    /\ tty' = [tty EXCEPT ![c] = tty[p]]
    /\ ctx' = [ctx EXCEPT ![c] = "user"]
    /\ prog' = [prog EXCEPT ![p] = AfterFork(prog[p]), ![c] = ChildProgram(prog[p])]
    /\ dirs' = dirs \cup {c}
    /\ UNCHANGED <<current_proc, ticks, current_tty>>

\* No slot: fork returns -1 and the caller goes on.
ForkFails ==
    /\ FreeSlots = {}
    /\ prog' = [prog EXCEPT ![current_proc] = AfterFork(prog[current_proc])]
    /\ UNCHANGED <<current_proc, stat, father, tty, ctx, ticks, current_tty, dirs>>

Fork == Running({"user"}) /\ ((\E c \in Pids : ForkInto(c)) \/ ForkFails)

BootFork == Running({"fork0", "fork1"}) /\ ((\E c \in Pids : ForkInto(c)) \/ ForkFails)

\* A copy of the boot code becomes a shell, the second one on tty 1.  (exec fails
\* only if the file is missing: shell.elf and init.elf are taken to be there.)
BootExecShell ==
    /\ Running({"exec_shell0", "exec_shell1"})
    /\ prog' = [prog EXCEPT ![current_proc] = "user"]
    /\ tty' = [tty EXCEPT ![current_proc] =
                 IF prog[current_proc] = "exec_shell1" THEN 1 ELSE @]
    /\ UNCHANGED <<current_proc, stat, father, ctx, ticks, current_tty, dirs>>

BootExecInit ==
    /\ Running({"exec_init"})
    /\ prog' = [prog EXCEPT ![current_proc] = "init"]
    /\ UNCHANGED <<current_proc, stat, father, tty, ctx, ticks, current_tty, dirs>>

-----------------------------------------------------------------------------
(* exit and wait.                                                          *)

\* The slots sys_wait takes for children: whatever their status.
Children(p) == {i \in Pids \ {p} : father[i] = p}
Zombies(p) == {i \in Children(p) : stat[i] = "HANGING"}

\* (Mutants of Adopt: no adoption, only of the living, or by no process.)
AdoptNothing(p) == father
AdoptLiving(p) ==
    [i \in Pids |-> IF i \in Children(p) \ Zombies(p) THEN 0 ELSE father[i]]
AdoptNobody(p) == [i \in Pids |-> IF i \in Children(p) THEN -1 ELSE father[i]]

\* The children of an exiting process pass to init.
Adopt(p) == [i \in Pids |-> IF i \in Children(p) THEN 0 ELSE father[i]]

\* (Mutants of ExitStat: the father is not woken; or is woken by a process
\* that takes its death for reported.)
ExitStatNoWake(p) == [stat EXCEPT ![p] = "HANGING"]
ExitStatDead(p) ==
    [i \in Pids |-> CASE i = p /\ stat[father[p]] = "WAITING" -> "DEAD"
                      [] i = p /\ stat[father[p]] # "WAITING" -> "HANGING"
                      [] i = father[p] /\ i # p /\ stat[i] = "WAITING" -> "READY"
                      [] OTHER -> stat[i]]

\* The statuses at the int $0x20 of sys_exit: the process hangs, and a father
\* already waiting is made ready.
ExitStat(p) ==
    [i \in Pids |-> CASE i = p -> "HANGING"
                      [] i = father[p] /\ i # p /\ stat[i] = "WAITING" -> "READY"
                      [] OTHER -> stat[i]]

Exit ==
    /\ Running({"user"})
    /\ father' = Adopt(current_proc)
    /\ ctx' = [ctx EXCEPT ![current_proc] = "exit"]
    /\ Timer(ExitStat(current_proc))
    /\ UNCHANGED <<tty, prog, current_tty>>

\* sys_wait found hanging children: the first one dies and its pid is returned.
WaitReap ==
    \E z \in Zombies(current_proc) :
        /\ \A y \in Zombies(current_proc) : z <= y
        /\ stat' = [stat EXCEPT ![z] = "DEAD"]
        /\ ctx' = [ctx EXCEPT ![current_proc] = "user"]
        /\ UNCHANGED <<current_proc, father, tty, prog, ticks, current_tty, dirs>>

\* No slot names the caller as its father: wait returns -1.
WaitNone ==
    /\ Children(current_proc) = {}
    /\ ctx' = [ctx EXCEPT ![current_proc] = "user"]
    /\ UNCHANGED <<current_proc, stat, father, tty, prog, ticks, current_tty, dirs>>

WaitBlock ==
    /\ Children(current_proc) # {}
    /\ Zombies(current_proc) = {}
    /\ ctx' = [ctx EXCEPT ![current_proc] = "wait"]
    /\ Timer([stat EXCEPT ![current_proc] = "WAITING"])
    /\ UNCHANGED <<father, tty, prog, current_tty>>

\* One turn of the loop of sys_wait.
WaitTurn == WaitReap \/ WaitNone \/ WaitBlock

Wait == Running({"user"}) /\ WaitTurn
InitWait == Running({"init"}) /\ WaitTurn
WaitResume == ctx[current_proc] = "wait" /\ WaitTurn

-----------------------------------------------------------------------------
(* Reading a line, and the keys of the tty driver that matter here.        *)

StdRead ==
    /\ Running({"user"})
    /\ ctx' = [ctx EXCEPT ![current_proc] = "read"]
    /\ Timer([stat EXCEPT ![current_proc] = "WAITING_INPUT"])
    /\ UNCHANGED <<father, tty, prog, current_tty>>

StdReadReturn ==
    /\ ctx[current_proc] = "read"
    /\ ctx' = [ctx EXCEPT ![current_proc] = "user"]
    /\ UNCHANGED <<current_proc, stat, father, tty, prog, ticks, current_tty, dirs>>

\* (Mutant of WakeReader: every process of the tty is made ready.)
WakeAnyone(r) ==
    /\ Running({"driver"})
    /\ stat[r] # "EMPTY"
    /\ tty[r] = current_tty
    /\ stat' = [stat EXCEPT ![r] = "READY"]
    /\ UNCHANGED <<current_proc, father, tty, ctx, prog, ticks, current_tty, dirs>>

\* One turn of the loop that Enter starts: a reader of the shown tty is woken.
WakeReader(r) ==
    /\ Running({"driver"})
    /\ stat[r] = "WAITING_INPUT"
    /\ tty[r] = current_tty
    /\ stat' = [stat EXCEPT ![r] = "READY"]
    /\ UNCHANGED <<current_proc, father, tty, ctx, prog, ticks, current_tty, dirs>>

\* Ctrl-Alt-F1 and Ctrl-Alt-F2.
SwitchTty(t) ==
    /\ Running({"driver"})
    /\ current_tty' = t
    /\ UNCHANGED <<current_proc, stat, father, tty, ctx, prog, ticks, dirs>>

-----------------------------------------------------------------------------
Next ==
    \/ TimerIRQ
    \/ Fork \/ BootFork \/ BootExecShell \/ BootExecInit
    \/ Exit \/ Wait \/ InitWait \/ WaitResume
    \/ StdRead \/ StdReadReturn
    \/ \E r \in Pids : WakeReader(r)
    \/ \E t \in Ttys : SwitchTty(t)

Spec == Init /\ [][Next]_vars

\* The 8259 keeps a tick that arrives with interrupts off and delivers it at
\* the next instruction that runs with them on; the processor carries on with
\* kernel code, boot code and the loop of init.  No user program owes a call.
Fairness ==
    /\ SF_vars(TimerIRQ)
    /\ WF_vars(WaitResume)
    /\ WF_vars(StdReadReturn)
    /\ SF_vars(BootFork)
    /\ SF_vars(BootExecShell)
    /\ SF_vars(BootExecInit)
    /\ SF_vars(InitWait)

FairSpec == Spec /\ Fairness

-----------------------------------------------------------------------------
(* Properties.                                                             *)

Alive(p) == stat[p] \in {"READY", "WAITING", "WAITING_INPUT"}

\* sys_exit writes through proc_table[pcb->father] and leaves its exit status
\* to that process: the father of every process that still holds its slot is
\* a process that can still call wait.
FatherAlive ==
    \A p \in Pids : stat[p] # "EMPTY" => father[p] \in Pids /\ Alive(father[p])

\* A process blocked in wait has no child that hangs already (it would sleep
\* next to it): the test of line 74 and the scan of sys_wait miss no exit.
\* Pid 0 is left out: exit hands it orphans without waking it.
NoLostWakeup ==
    \A p \in Pids \ {0} : stat[p] = "WAITING" => Zombies(p) = {}

\* Who is woken from wait finds a hanging child at its next scan: it neither
\* returns -1 nor goes back to sleep.
WokenFindsZombie ==
    \A p \in Pids : stat[p] = "READY" /\ ctx[p] = "wait" => Zombies(p) # {}

\* exit gives orphans, hanging ones among them, to init and does not wake it.
\* While init sleeps next to a hanging child it has a living one besides the
\* driver, whose exit will wake it: no zombie is left to nobody's exit.
InitCanBeWoken ==
    stat[0] = "WAITING" /\ Zombies(0) # {} => \E c \in Children(0) \ {1} : Alive(c)

\* The scan of schedule() ends, because the tty driver never blocks, and the
\* process it leaves running is one that may run.
SchedulerSafe == stat[1] = "READY" /\ stat[current_proc] = "READY"

\* A slot holds a page directory exactly while it is in use (pid 1 runs on the
\* kernel's): no directory leaks, and cr3 never points at a freed one.
DirsExact == dirs = {p \in Pids \ {1} : stat[p] # "EMPTY"}

\* The status in the pcb and the place where the process resumes agree; in
\* particular an exited process is never run again (line 83 is not reached).
StatMatchesContext ==
    \A p \in Pids :
        /\ stat[p] \in {"HANGING", "DEAD"} => ctx[p] = "exit"
        /\ stat[p] = "WAITING" => ctx[p] = "wait"
        /\ stat[p] = "WAITING_INPUT" => ctx[p] = "read"
        /\ stat[p] = "READY" => ctx[p] # "exit"

\* Following the fathers from any process in use leads to init: every family
\* without pid 0 has a member whose father is outside it, so no cycle of
\* fathers is ever cut off from the process that adopts its orphans.
FathersLeadToInit ==
    \A family \in SUBSET {p \in Pids \ {0} : stat[p] # "EMPTY"} :
        family # {} => \E p \in family : father[p] \notin family

\* The family tree the process table stands for.  A process whose death was
\* reported is gone, although its slot waits for the scheduler's scan.
InTree(p) == stat[p] \notin {"EMPTY", "DEAD"}
LifeOf == [p \in Pids |-> IF ~InTree(p) THEN "free"
                          ELSE IF stat[p] = "HANGING" THEN "zombie" ELSE "alive"]
ParentOf == [p \in Pids |-> IF InTree(p) THEN father[p] ELSE 0]

Life == INSTANCE ProcLife WITH Slots <- Pids, Root <- 0, Driver <- 1,
                               life <- LifeOf, parent <- ParentOf

\* fork, exit and wait, with the scheduler and the terminals around them, keep
\* the promises of ProcLife: each death is reported once, to a live parent.
ImplementsLife == Life!LifeSpec

\* Round robin: a process that may run is run.
ReadyRuns == \A p \in Pids : stat[p] = "READY" ~> current_proc = p

\* A process whose exit was reported gives its slot back, whoever runs.
SlotReturns == \A p \in Pids : stat[p] = "DEAD" ~> stat[p] = "EMPTY"
=============================================================================
