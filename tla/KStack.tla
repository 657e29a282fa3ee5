------------------------------- MODULE KStack -------------------------------
(***************************************************************************)
(* The kernel stacks: where interrupts and system calls put their frames   *)
(* (src/sys/int.asm, src/sys/syscall.asm), which frame a process is        *)
(* resumed from (kstktop), where the processor enters the kernel from user *)
(* mode (tss.esp0), what fork builds for a child and exec for a program,   *)
(* and init_start, whose locals are on such a stack.                       *)
(*                                                                         *)
(* A stack address is <<page, words>>: the page is the slot of the process *)
(* whose 0x1000 bytes it is in, the words count from its pcb, down to      *)
(* -STACK.  Interrupts are off in system calls; the program, init_start,   *)
(* the driver and the first run of a child (syscall_resume) can be         *)
(* interrupted at any place.  Which process schedule() finds is left open: *)
(* module Proc has that, and this module every order Proc allows.          *)
(***************************************************************************)
EXTENDS Integers

CONSTANTS PROC_MAX_CNT,
          STACK,      \* words of a page below the pcb (994)
          DEPTH,      \* words a system call uses below its frame, at most
          Depths,     \* words it uses where it yields
          BootSps,    \* stack pointers of init_start, where interrupted
          LowSp,      \* the lowest of them (in the stub of exec)
          StubSp,     \* stack pointer where init_start calls int $0x80 for fork
          DriverSps,  \* stack pointers of the driver, where interrupted
          Pops,       \* words syscall_resume has popped where it is interrupted
          MaxGen      \* generations of forks (bound)

Pids == 0 .. PROC_MAX_CNT - 1
Full == 19  \* words of isr_param_t
Inner == 17 \* without esp and ss, when the interrupt came in kernel mode

ASSUME SlotAssumption == PROC_MAX_CNT \in Nat /\ PROC_MAX_CNT >= 2
ASSUME StackAssumption == STACK \in Nat /\ DEPTH \in Nat /\ MaxGen \in Nat
ASSUME DepthAssumption == Depths \subseteq Inner .. DEPTH
ASSUME BootAssumption ==
    LowSp \in Int /\ BootSps \cup {StubSp} \subseteq LowSp .. Inner
ASSUME DriverAssumption == DriverSps \subseteq LowSp - DEPTH .. Inner
ASSUME PopAssumption == Pops \subseteq 1 .. 14

VARIABLES
    current,  \* current_proc
    esp0,     \* tss.esp0
    kstktop,  \* of each pcb
    at,       \* where each process is: see Places
    param,    \* where the frame of the process's system call is
    popped,   \* words of it that syscall_resume has popped
    eax,      \* of init_start: what fork returned
    bp,       \* the page that its frame pointer points into
    pid,      \* the variable of that name, on each page
    entry,    \* where each process enters the kernel from user mode (history)
    gen,      \* generations of forks before it (history)
    role,     \* what became of a process of init_start (history)
    cut       \* init_start lost the processor between store and test (history)

boot == <<eax, bp, pid, role>>
vars == <<current, esp0, kstktop, at, param, popped, boot, entry, gen, cut>>

None == -1
BootPlaces == {"fork1", "store1", "test1", "shell1", "fork2", "store2", "test2", "shell2", "init"}
\* "call": in a system call that yielded; "fresh1", "fresh2": a child of init_start
\* and "fresh" one of a program, in syscall_resume.
Places == BootPlaces \cup {"free", "user", "call", "fresh", "fresh1", "fresh2", "driver"}
Fresh == {"fresh", "fresh1", "fresh2"}
Addresses == Pids \X Int

Alive(p) == at[p] # "free"

TypeOK ==
    /\ current \in Pids /\ at \in [Pids -> Places]
    /\ esp0 \in Addresses /\ kstktop \in [Pids -> Addresses]
    /\ param \in [Pids -> Int] /\ popped \in [Pids -> 0 .. 14]
    /\ entry \in [Pids -> Int] /\ gen \in [Pids -> 0 .. MaxGen]
    /\ eax \in [Pids -> Pids \cup {None}] /\ pid \in [Pids -> Pids \cup {None}]
    /\ bp \in [Pids -> Pids]
    /\ role \in [Pids -> {"boot", "init", "shell1", "shell2", "program"}]
    /\ cut \in BOOLEAN

\* main() sets up pid 0 and the driver and starts pid 0: kstktop is the pcb.
Init ==
    /\ current = 0 /\ esp0 = <<0, Full>>
    /\ kstktop = [p \in Pids |-> <<p, 0>>]
    /\ at = [p \in Pids |-> CASE p = 0 -> "fork1" [] p = 1 -> "driver" [] OTHER -> "free"]
    /\ param = [p \in Pids |-> 0] /\ popped = [p \in Pids |-> 0]
    /\ eax = [p \in Pids |-> 0] /\ pid = [p \in Pids |-> 0] /\ bp = [p \in Pids |-> p]
    /\ role = [p \in Pids |-> IF p = 0 THEN "boot" ELSE "program"]
    /\ entry = [p \in Pids |-> 0] /\ gen = [p \in Pids |-> 0] /\ cut = FALSE

-----------------------------------------------------------------------------
Plus(a, n) == <<a[1], a[2] + n>>

\* Where the stack pointer of init_start and of the driver is.
Sps(p) == IF at[p] = "driver" THEN DriverSps ELSE BootSps

\* Where common_handler saves a frame: on the stack in use, or, from user mode,
\* on the one that tss.esp0 names.
Frames(p) ==
    CASE at[p] = "user" -> {Plus(esp0, -Full)}
      [] at[p] \in Fresh -> {<<p, param[p] + popped[p] - Inner>>}
      [] OTHER -> {<<p, s - Inner>> : s \in Sps(p)}

\* (Mutant: tss is not set.)
schedule_no_tss(q, tops) == current' = q /\ UNCHANGED esp0

\* schedule() goes to q: tss is set to the end of its frame.
schedule(q, tops) == current' = q /\ esp0' = Plus(tops[q], Full)

\* Any interrupt; the timer's may call schedule().
Interrupt ==
    \E frame \in Frames(current) :
        /\ at[current] # "call"
        /\ kstktop' = [kstktop EXCEPT ![current] = frame]
        /\ \/ UNCHANGED <<current, esp0, cut>>
           \/ \E q \in Pids : Alive(q) /\ schedule(q, kstktop')
                /\ cut' = (cut \/ (at[current] \in {"test1", "test2"} /\ q # current))
        /\ UNCHANGED <<at, param, popped, boot, entry, gen>>

\* A system call that yields: sys_wait, sys_std_read.  int $0x20 puts a frame at
\* some depth of the call; schedule() goes to another process.
Yield(q) ==
    LET frame == IF at[current] = "user" THEN esp0[2] - Full ELSE param[current] IN
    /\ at[current] \in {"user", "call"}
    /\ Alive(q) /\ q # current
    /\ \E d \in Depths : kstktop' = [kstktop EXCEPT ![current] = <<esp0[1], frame - d>>]
    /\ at' = [at EXCEPT ![current] = "call"]
    /\ param' = [param EXCEPT ![current] = frame]
    /\ schedule(q, kstktop')
    /\ UNCHANGED <<popped, boot, entry, gen, cut>>

\* (Mutant of syscall_handler: tss keeps what schedule() set.)
KeepTss(p, frame) == esp0

\* syscall_handler sets tss to the end of the call's frame.
AfterCall(p, frame) == <<p, frame + Full>>

\* The call ends in user mode.
Return ==
    /\ at[current] = "call"
    /\ at' = [at EXCEPT ![current] = "user"]
    /\ esp0' = AfterCall(current, param[current])
    /\ param' = [param EXCEPT ![current] = 0]
    /\ UNCHANGED <<current, kstktop, popped, boot, entry, gen, cut>>

\* sys_exit, which yields for good and leaves the slot to a later fork; pid 0 and
\* pid 1 run endless loops.
Exit(q) ==
    /\ at[current] = "user" /\ current \notin {0, 1}
    /\ Alive(q) /\ q # current
    /\ at' = [at EXCEPT ![current] = "free"]
    /\ \E d \in Depths :
           kstktop' = [kstktop EXCEPT ![current] = <<esp0[1], esp0[2] - Full - d>>]
    /\ schedule(q, kstktop')
    /\ role' = [role EXCEPT ![current] = "program"]
    /\ entry' = [entry EXCEPT ![current] = 0]
    /\ gen' = [gen EXCEPT ![current] = 0]
    /\ UNCHANGED <<param, popped, eax, bp, pid, cut>>

-----------------------------------------------------------------------------
(* fork.                                                                   *)

\* (Mutant of ChildFrame: a whole isr_param_t below the copied frame.)
ChildFrameFull(a) == Plus(a, -Full)

\* The frame that fork builds under the copy of the call's frame.
ChildFrame(a) == Plus(a, -Inner)

\* Only param->ebp, the frame pointer of the stub, is moved to the child's page.
\* That of init_start was saved on the stack by the stub, and is copied as it is.
FramePointer(c) == bp[current]

\* (Mutant: the frame has the eax of the father's return.)
ChildEaxNewPid(c) == c

\* The frame that fork builds has 0 for eax, and syscall_resume leaves eax alone.
ChildEax(c) == 0

\* sys_fork makes c of the current process, whose call's frame is at a.
Child(c, a) ==
    LET new_param == <<a[1] + c - current, a[2]>> IN
    /\ c # current /\ at[c] = "free" /\ gen[current] < MaxGen
    /\ kstktop' = [kstktop EXCEPT ![c] = ChildFrame(new_param)]
    /\ param' = [param EXCEPT ![c] = a[2]]
    /\ gen' = [gen EXCEPT ![c] = gen[current] + 1]
    /\ esp0' = AfterCall(current, a[2])

\* A program calls fork.
Fork(c) ==
    /\ at[current] = "user"
    /\ Child(c, Plus(esp0, -Full))
    /\ at' = [at EXCEPT ![c] = "fresh"]
    /\ role' = [role EXCEPT ![c] = "program"]
    /\ UNCHANGED <<current, popped, eax, bp, pid, entry, cut>>

\* init_start calls fork: all of its page is copied, its variable too.
BootFork(c, n) ==
    LET first == n = 1 IN
    /\ at[current] = IF first THEN "fork1" ELSE "fork2"
    /\ Child(c, <<current, StubSp - Inner>>)
    /\ at' = [at EXCEPT ![current] = IF first THEN "store1" ELSE "store2",
                        ![c] = IF first THEN "fresh1" ELSE "fresh2"]
    /\ eax' = [eax EXCEPT ![current] = c, ![c] = ChildEax(c)]
    /\ bp' = [bp EXCEPT ![c] = FramePointer(c)]
    /\ pid' = [pid EXCEPT ![c] = pid[current]]
    /\ role' = [role EXCEPT ![c] = "boot"]
    /\ UNCHANGED <<current, popped, entry, cut>>

\* No slot is left: fork returns -1.
BootForkFails ==
    /\ at[current] \in {"fork1", "fork2"}
    /\ \A c \in Pids : Alive(c)
    /\ at' = [at EXCEPT ![current] = IF @ = "fork1" THEN "store1" ELSE "store2"]
    /\ eax' = [eax EXCEPT ![current] = None]
    /\ esp0' = AfterCall(current, StubSp - Inner)
    /\ UNCHANGED <<current, kstktop, param, popped, bp, pid, role, entry, gen, cut>>

\* The child's first run pops the frame of the call, interrupts on.
Pop(k) ==
    /\ at[current] \in Fresh
    /\ k > popped[current]
    /\ popped' = [popped EXCEPT ![current] = k]
    /\ UNCHANGED <<current, esp0, kstktop, at, param, boot, entry, gen, cut>>

FirstReturn ==
    /\ at[current] \in Fresh
    /\ at' = [at EXCEPT ![current] = CASE @ = "fresh" -> "user"
                                       [] @ = "fresh1" -> "store1"
                                       [] @ = "fresh2" -> "store2"]
    /\ entry' = [entry EXCEPT ![current] = esp0[2]]
    /\ param' = [param EXCEPT ![current] = 0]
    /\ popped' = [popped EXCEPT ![current] = 0]
    /\ UNCHANGED <<current, esp0, kstktop, boot, gen, cut>>

-----------------------------------------------------------------------------
(* init_start and exec.                                                    *)

BootStore ==
    /\ at[current] \in {"store1", "store2"}
    /\ pid' = [pid EXCEPT ![bp[current]] = eax[current]]
    /\ at' = [at EXCEPT ![current] = IF @ = "store1" THEN "test1" ELSE "test2"]
    /\ UNCHANGED <<current, esp0, kstktop, param, popped, eax, bp, role, entry, gen, cut>>

BootTest ==
    LET child == pid[bp[current]] = 0 IN
    /\ at[current] \in {"test1", "test2"}
    /\ at' = [at EXCEPT ![current] =
                 IF @ = "test1" THEN (IF child THEN "shell1" ELSE "fork2")
                 ELSE (IF child THEN "shell2" ELSE "init")]
    /\ eax' = [eax EXCEPT ![current] = 0]
    /\ UNCHANGED <<current, esp0, kstktop, param, popped, bp, pid, role, entry, gen, cut>>

\* sys_exec from init_start: the initial context is in the pcb, and tss stays as
\* it is.  (shell.elf and init.elf are taken to be on the disk.)
BootExec ==
    /\ at[current] \in {"shell1", "shell2", "init"}
    /\ role' = [role EXCEPT ![current] = at[current]]
    /\ at' = [at EXCEPT ![current] = "user"]
    /\ kstktop' = [kstktop EXCEPT ![current] = <<current, 0>>]
    /\ entry' = [entry EXCEPT ![current] = esp0[2]]
    /\ UNCHANGED <<current, esp0, param, popped, eax, bp, pid, gen, cut>>

\* sys_exec from a program.
Exec ==
    /\ at[current] = "user"
    /\ kstktop' = [kstktop EXCEPT ![current] = <<current, 0>>]
    /\ UNCHANGED <<current, esp0, at, param, popped, boot, entry, gen, cut>>

Next ==
    \/ Interrupt
    \/ \E q \in Pids : Yield(q) \/ Exit(q)
    \/ Return
    \/ \E c \in Pids : Fork(c) \/ (\E n \in {1, 2} : BootFork(c, n))
    \/ BootForkFails
    \/ \E k \in Pops : Pop(k)
    \/ FirstReturn
    \/ BootStore \/ BootTest \/ BootExec \/ Exec

Spec == Init /\ [][Next]_vars

-----------------------------------------------------------------------------
(* Properties.                                                             *)

\* In user mode the processor is told to enter the kernel on the stack of the
\* running process, and at the same place for the whole life of the process,
\* whatever calls, yields, interrupts and execs came before (and the
\* variables keep their types).
OwnStack == TypeOK /\ (at[current] = "user" => esp0 = <<current, entry[current]>>)

\* The documentation (switching processes) says that kstktop is where the process
\* last saved its context.  Of every process that does not run it names a whole
\* frame on its own page, where its last interrupt put it: not a frame of an
\* earlier interrupt, of its father or of what exec set up.
ContextSaved ==
    \A p \in Pids \ {current} : Alive(p) =>
        CASE at[p] = "user" -> kstktop[p] = <<p, entry[p] - Full>>
          [] at[p] = "call" -> /\ param[p] = entry[p] - Full
                               /\ kstktop[p] \in {p} \X {param[p] - d : d \in Depths}
          [] at[p] \in Fresh -> kstktop[p] = <<p, param[p] + popped[p] - Inner>>
          [] OTHER -> kstktop[p] \in {p} \X ({0} \cup {s - Inner : s \in Sps(p)})

\* The documentation says that a process and its kernel stack take 0x1000 bytes.
\* Each generation of forks enters the kernel 17 words lower (or less, when its
\* first run was interrupted), so they do for as many generations as Fit.
Fit == (STACK + LowSp + 2 - Full - DEPTH) \div Inner
StackFits ==
    \A p \in Pids : Alive(p) /\ gen[p] <= Fit => kstktop[p][2] >= -STACK

\* The documentation (init.elf) says that pid 0 forks twice, starts a shell on
\* each terminal and becomes init.  So it is, unless a process of init_start
\* lost the processor between storing pid and testing it.
InitRoles ==
    /\ role[0] \in {"boot", "init"}
    /\ \A p, q \in Pids \ {0} :
           /\ role[p] # "init"
           /\ role[p] = role[q] /\ role[p] \in {"shell1", "shell2"} => p = q
BootRoles == cut \/ InitRoles
=============================================================================
