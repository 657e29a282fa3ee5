---------------------------- MODULE ProcProofs ----------------------------
(***************************************************************************)
(* Proofs about module Proc, for every size of the process table, every    *)
(* quantum and every content of the RAM at boot: its safety invariants are *)
(* invariants of Spec, and Spec implements the family tree of ProcLife.    *)
(***************************************************************************)
EXTENDS Proc, TLAPS

\* The two processes the kernel sets up itself: pid 0 runs the boot code and
\* then init, which only calls fork and wait; pid 1 is the driver.
KernelProcs ==
    /\ prog[0] \in {"fork0", "fork1", "exec_init", "init"}
    /\ prog[1] = "driver"
    /\ \A p \in Pids \ {0, 1} : prog[p] \in {"exec_shell0", "exec_shell1", "user"}
    /\ stat[0] \in {"READY", "WAITING"}
    /\ ctx[1] = "user"
    /\ father[0] = 0
    /\ father[1] = 0

\* The invariants of Proc need each other: that the father a process wakes is
\* alive, that the woken one finds it, and that adoption leaves no cycle.
IInv ==
    /\ TypeOK
    /\ KernelProcs
    /\ SchedulerSafe
    /\ StatMatchesContext
    /\ FatherAlive
    /\ NoLostWakeup
    /\ WokenFindsZombie
    /\ DirsExact
    /\ FathersLeadToInit

-----------------------------------------------------------------------------
(* Facts about single operators.                                           *)

LEMMA KernelPids == 0 \in Pids /\ 1 \in Pids
BY CountAssumption DEF Pids

\* What a timer tick makes of the statuses st it finds: only DEAD slots
\* change, they become EMPTY, and they take their page directory with them.
LEMMA TimerEffect ==
    ASSUME TypeOK, NEW st \in [Pids -> STATUS], Timer(st)
    PROVE  /\ current_proc' \in Pids
           /\ st[current_proc'] = "READY"
           /\ ticks' \in 0 .. QUANTUM - 1
           /\ stat' \in [Pids -> STATUS]
           /\ \A j \in Pids : st[j] # "DEAD" => stat'[j] = st[j]
           /\ \A j \in Pids : st[j] = "DEAD" => stat'[j] \in {"DEAD", "EMPTY"}
           /\ dirs' \subseteq Pids
           /\ \A j \in Pids :
                j \in dirs' <=> j \in dirs /\ (st[j] = "DEAD" => stat'[j] = "DEAD")
<1>1. ticks' \in 0 .. QUANTUM - 1
  BY QuantumAssumption DEF Timer, TypeOK
<1>2. CASE Schedule(st)
  <2>1. PICK i \in Pids :
          /\ st[i] = "READY"
          /\ current_proc' = i
          /\ stat' = [j \in Pids |-> IF j \in Swept(st, i) THEN "EMPTY" ELSE st[j]]
          /\ dirs' = dirs \ Swept(st, i)
    BY <1>2 DEF Schedule
  <2>2. \A j \in Pids : j \in Swept(st, i) => st[j] = "DEAD"
    BY DEF Swept
  <2>3. \A j \in Pids : stat'[j] = IF j \in Swept(st, i) THEN "EMPTY" ELSE st[j]
    BY <2>1
  <2>4. stat' \in [Pids -> STATUS]
    BY <2>1 DEF STATUS
  <2> QED
    BY <1>1, <2>1, <2>2, <2>3, <2>4 DEF TypeOK
<1>3. CASE ~MustSwitch(st) /\ stat' = st /\ UNCHANGED <<current_proc, dirs>>
  BY <1>1, <1>3 DEF MustSwitch, TypeOK
<1> QED
  BY <1>2, <1>3 DEF Timer

\* The statuses an exit leaves for the tick: the process hangs, and at most
\* its father changes with it, from WAITING to READY.
LEMMA ExitStatEffect ==
    ASSUME TypeOK, NEW p \in Pids
    PROVE  /\ ExitStat(p) \in [Pids -> STATUS]
           /\ ExitStat(p)[p] = "HANGING"
           /\ \A i \in Pids \ {p} :
                ExitStat(p)[i] = IF i = father[p] /\ stat[i] = "WAITING"
                                 THEN "READY" ELSE stat[i]
BY DEF ExitStat, TypeOK, STATUS

-----------------------------------------------------------------------------
(* Every action preserves IInv.                                            *)

LEMMA InitInv == Init => IInv
<1> SUFFICES ASSUME Init PROVE IInv
  OBVIOUS
<1> USE KernelPids
<1>1. TypeOK
  BY QuantumAssumption DEF Init, TypeOK, STATUS, Ttys, Contexts, Programs
<1>2. KernelProcs /\ SchedulerSafe /\ StatMatchesContext /\ DirsExact
  BY DEF Init, KernelProcs, SchedulerSafe, StatMatchesContext, DirsExact
<1>3. FatherAlive /\ NoLostWakeup /\ WokenFindsZombie
  BY DEF Init, FatherAlive, Alive, NoLostWakeup, WokenFindsZombie, Zombies, Children
<1>4. FathersLeadToInit
  BY DEF Init, FathersLeadToInit
<1> QED
  BY <1>1, <1>2, <1>3, <1>4 DEF IInv

LEMMA TimerIRQInv == IInv /\ TimerIRQ => IInv'
<1> SUFFICES ASSUME IInv, TimerIRQ PROVE IInv'
  OBVIOUS
<1> USE KernelPids
<1>1. /\ current_proc' \in Pids
      /\ stat[current_proc'] = "READY"
      /\ ticks' \in 0 .. QUANTUM - 1
      /\ stat' \in [Pids -> STATUS]
      /\ \A j \in Pids : stat[j] # "DEAD" => stat'[j] = stat[j]
      /\ \A j \in Pids : stat[j] = "DEAD" => stat'[j] \in {"DEAD", "EMPTY"}
      /\ dirs' \subseteq Pids
      /\ \A j \in Pids :
           j \in dirs' <=> j \in dirs /\ (stat[j] = "DEAD" => stat'[j] = "DEAD")
  <2>1. TypeOK /\ stat \in [Pids -> STATUS] /\ Timer(stat)
    BY DEF IInv, TypeOK, TimerIRQ
  <2> QED
    BY <2>1, TimerEffect
<1>2. UNCHANGED <<father, tty, ctx, prog, current_tty>>
  BY DEF TimerIRQ
<1>3. TypeOK'
  BY <1>1, <1>2 DEF IInv, TypeOK
<1>4. KernelProcs' /\ SchedulerSafe' /\ StatMatchesContext'
  BY <1>1, <1>2 DEF IInv, KernelProcs, SchedulerSafe, StatMatchesContext
<1>5. FatherAlive'
  BY <1>1, <1>2 DEF IInv, FatherAlive, Alive
<1>6. NoLostWakeup' /\ WokenFindsZombie'
  BY <1>1, <1>2 DEF IInv, NoLostWakeup, WokenFindsZombie, Zombies, Children
<1>7. DirsExact'
  BY <1>1, KernelPids DEF IInv, TypeOK, DirsExact
<1>8. FathersLeadToInit'
  BY <1>1, <1>2 DEF IInv, FathersLeadToInit
<1> QED
  BY <1>3, <1>4, <1>5, <1>6, <1>7, <1>8 DEF IInv

\* Nothing points at an unused slot, so the child of a fork starts with no
\* children, and no circle of fathers goes through it.
LEMMA ForkIntoInv ==
    ASSUME IInv, Running({"user", "fork0", "fork1"}), NEW c \in Pids, ForkInto(c)
    PROVE  IInv'
<1> DEFINE p == current_proc
<1> USE KernelPids
<1>1. /\ p \in Pids /\ stat[p] = "READY" /\ stat[1] = "READY" /\ ctx[p] = "user"
      /\ prog[p] \in {"user", "fork0", "fork1"}
  BY DEF IInv, TypeOK, SchedulerSafe, Running
<1>2. stat[c] = "EMPTY" /\ c # p /\ c # 0 /\ c # 1
  BY <1>1 DEF ForkInto, FirstFree, FreeSlots, IInv, KernelProcs
<1>3. \A q \in Pids : stat[q] # "EMPTY" => father[q] # c
  BY <1>2 DEF IInv, FatherAlive, Alive
<1>4. /\ stat' = [stat EXCEPT ![c] = "READY"]
      /\ father' = [father EXCEPT ![c] = p]
      /\ tty' = [tty EXCEPT ![c] = tty[p]]
      /\ ctx' = [ctx EXCEPT ![c] = "user"]
      /\ dirs' = dirs \cup {c}
      /\ UNCHANGED <<current_proc, ticks, current_tty>>
  BY <1>1 DEF ForkInto
<1>5. /\ AfterFork(prog[p]) \in {"user", "fork1", "exec_init"}
      /\ ChildProgram(prog[p]) \in {"user", "exec_shell0", "exec_shell1"}
      /\ prog[p] = "user" => AfterFork(prog[p]) = "user"
      /\ prog[p] # "user" => AfterFork(prog[p]) # "user"
  BY <1>1 DEF AfterFork, ChildProgram
<1>6. prog' = [prog EXCEPT ![p] = AfterFork(prog[p]), ![c] = ChildProgram(prog[p])]
  BY DEF ForkInto
<1>7. TypeOK'
  BY <1>1, <1>4, <1>5, <1>6 DEF IInv, TypeOK, STATUS, Contexts, Programs
<1>8. KernelProcs'
  <2>1. prog[p] = "user" <=> p \notin {0, 1}
    BY <1>1 DEF IInv, KernelProcs
  <2> QED
    BY <1>1, <1>2, <1>4, <1>5, <1>6, <2>1 DEF IInv, TypeOK, KernelProcs
<1>9. SchedulerSafe' /\ StatMatchesContext'
  BY <1>1, <1>2, <1>4 DEF IInv, TypeOK, SchedulerSafe, StatMatchesContext
<1>10. FatherAlive'
  BY <1>1, <1>2, <1>4 DEF IInv, TypeOK, FatherAlive, Alive
<1>11. \A q \in Pids : stat'[q] # stat[q] \/ father'[q] # father[q] => q = c
  BY <1>4 DEF IInv, TypeOK
<1>12. \A q \in Pids \ {c} : Zombies(q)' = Zombies(q)
  BY <1>1, <1>2, <1>4 DEF IInv, TypeOK, Zombies, Children
<1>13. NoLostWakeup' /\ WokenFindsZombie'
  BY <1>2, <1>4, <1>12 DEF IInv, TypeOK, NoLostWakeup, WokenFindsZombie
<1>14. DirsExact'
  BY <1>2, <1>4 DEF IInv, TypeOK, DirsExact
<1>15. FathersLeadToInit'
  <2> SUFFICES ASSUME NEW family \in SUBSET {q \in Pids \ {0} : stat'[q] # "EMPTY"},
                      family # {}
               PROVE  \E q \in family : father'[q] \notin family
    BY DEF FathersLeadToInit
  <2>1. CASE family \subseteq {c}
    BY <1>1, <1>2, <1>4, <2>1 DEF IInv, TypeOK
  <2>2. CASE ~(family \subseteq {c})
    <3>1. family \ {c} \in SUBSET {q \in Pids \ {0} : stat[q] # "EMPTY"}
      BY <1>4 DEF IInv, TypeOK
    <3>2. PICK q \in family \ {c} : father[q] \notin family \ {c}
      BY <2>2, <3>1 DEF IInv, FathersLeadToInit
    <3>3. father'[q] = father[q] /\ father[q] # c
      BY <1>3, <1>4, <3>1, <3>2 DEF IInv, TypeOK
    <3> QED
      BY <3>2, <3>3
  <2> QED
    BY <2>1, <2>2
<1> QED
  BY <1>7, <1>8, <1>9, <1>10, <1>13, <1>14, <1>15 DEF IInv

\* Steps that only move a process on in its own code.
LEMMA OwnStepInv ==
    ASSUME IInv, UNCHANGED <<current_proc, stat, father, ticks, dirs>>,
           \/ (ForkFails /\ Running({"user", "fork0", "fork1"}))
           \/ BootExecShell \/ BootExecInit \/ (\E t \in Ttys : SwitchTty(t))
    PROVE  IInv'
<1> USE KernelPids
<1>1. TypeOK' /\ KernelProcs' /\ ctx' = ctx
  <2>1. CASE ForkFails /\ Running({"user", "fork0", "fork1"})
    <3>1. /\ AfterFork(prog[current_proc]) \in {"user", "fork1", "exec_init"}
          /\ prog[current_proc] = "user" => AfterFork(prog[current_proc]) = "user"
          /\ prog[current_proc] # "user" => AfterFork(prog[current_proc]) # "user"
      BY <2>1 DEF Running, AfterFork
    <3>2. /\ prog' = [prog EXCEPT ![current_proc] = AfterFork(prog[current_proc])]
          /\ UNCHANGED <<tty, ctx, current_tty>>
          /\ prog[current_proc] \in {"user", "fork0", "fork1"}
      BY <2>1 DEF ForkFails, Running
    <3> QED
      BY <3>1, <3>2 DEF IInv, TypeOK, KernelProcs, Programs
  <2>2. CASE BootExecShell
    BY <2>2 DEF BootExecShell, Running, IInv, TypeOK, KernelProcs, Programs, Ttys
  <2>3. CASE BootExecInit
    BY <2>3 DEF BootExecInit, Running, IInv, TypeOK, KernelProcs, Programs
  <2>4. CASE \E t \in Ttys : SwitchTty(t)
    BY <2>4 DEF SwitchTty, IInv, TypeOK, KernelProcs
  <2> QED
    BY <2>1, <2>2, <2>3, <2>4
<1>2. SchedulerSafe' /\ StatMatchesContext' /\ FatherAlive' /\ DirsExact'
  BY <1>1 DEF IInv, SchedulerSafe, StatMatchesContext, FatherAlive, Alive, DirsExact
<1>3. NoLostWakeup' /\ WokenFindsZombie' /\ FathersLeadToInit'
  BY <1>1 DEF IInv, NoLostWakeup, WokenFindsZombie, FathersLeadToInit, Zombies, Children
<1> QED
  BY <1>1, <1>2, <1>3 DEF IInv

\* The effect of a tick at the end of a system call that leaves st behind.
LEMMA YieldEffect ==
    ASSUME IInv, NEW st \in [Pids -> STATUS], Timer(st),
           st[0] \in {"READY", "WAITING"}, st[1] = "READY"
    PROVE  /\ current_proc' \in Pids
           /\ ticks' \in 0 .. QUANTUM - 1
           /\ stat' \in [Pids -> STATUS]
           /\ SchedulerSafe'
           /\ stat'[0] \in {"READY", "WAITING"}
           /\ \A j \in Pids : st[j] # "DEAD" => stat'[j] = st[j]
           /\ \A j \in Pids : st[j] = "DEAD" => stat'[j] \in {"DEAD", "EMPTY"}
           /\ dirs' \subseteq Pids
           /\ \A j \in Pids :
                j \in dirs' <=> j \in dirs /\ (st[j] = "DEAD" => stat'[j] = "DEAD")
BY TimerEffect, KernelPids DEF IInv, SchedulerSafe

LEMMA ExitInv == IInv /\ Exit => IInv'
<1> SUFFICES ASSUME IInv, Exit PROVE IInv'
  OBVIOUS
<1> DEFINE p == current_proc
           st == ExitStat(p)
<1> USE KernelPids
<1>1. p \in Pids \ {0, 1} /\ stat[p] = "READY" /\ ctx[p] = "user"
  BY DEF Exit, Running, IInv, TypeOK, SchedulerSafe, KernelProcs
<1>2. father[p] \in Pids /\ father[p] # p /\ Alive(father[p])
  <2>1. {p} \in SUBSET {q \in Pids \ {0} : stat[q] # "EMPTY"}
    BY <1>1
  <2> QED
    BY <1>1, <2>1 DEF IInv, FathersLeadToInit, FatherAlive
<1>3. /\ st \in [Pids -> STATUS]
      /\ st[p] = "HANGING"
      /\ \A i \in Pids \ {p} :
           st[i] = IF i = father[p] /\ stat[i] = "WAITING" THEN "READY" ELSE stat[i]
  BY <1>1, ExitStatEffect DEF IInv
<1>4. st[0] \in {"READY", "WAITING"} /\ st[1] = "READY"
  BY <1>1, <1>3 DEF IInv, KernelProcs, SchedulerSafe
<1>5. /\ current_proc' \in Pids
      /\ ticks' \in 0 .. QUANTUM - 1
      /\ stat' \in [Pids -> STATUS]
      /\ SchedulerSafe'
      /\ stat'[0] \in {"READY", "WAITING"}
      /\ \A j \in Pids : st[j] # "DEAD" => stat'[j] = st[j]
      /\ \A j \in Pids : st[j] = "DEAD" => stat'[j] \in {"DEAD", "EMPTY"}
      /\ dirs' \subseteq Pids
      /\ \A j \in Pids :
           j \in dirs' <=> j \in dirs /\ (st[j] = "DEAD" => stat'[j] = "DEAD")
  <2>1. Timer(st)
    BY DEF Exit
  <2> QED
    BY <1>3, <1>4, <2>1, YieldEffect
<1>6. /\ father' \in [Pids -> Pids \cup RamFather]
      /\ \A i \in Pids : father'[i] = IF i # p /\ father[i] = p THEN 0 ELSE father[i]
  BY DEF Exit, Adopt, Children, IInv, TypeOK
<1>7. ctx' = [ctx EXCEPT ![p] = "exit"] /\ UNCHANGED <<tty, prog, current_tty>>
  BY DEF Exit
<1>8. TypeOK'
  BY <1>5, <1>6, <1>7 DEF IInv, TypeOK, Contexts
<1>9. KernelProcs' /\ StatMatchesContext'
  BY <1>1, <1>3, <1>5, <1>6, <1>7
  DEF IInv, TypeOK, KernelProcs, StatMatchesContext, SchedulerSafe
<1>10. FatherAlive'
  <2>1. \A q \in Pids \ {p} : Alive(q) => stat'[q] \in {"READY", "WAITING", "WAITING_INPUT"}
    BY <1>3, <1>5 DEF Alive
  <2> QED
    BY <1>1, <1>2, <1>3, <1>5, <1>6, <2>1 DEF IInv, FatherAlive, Alive
<1>11. NoLostWakeup'
  <2> SUFFICES ASSUME NEW q \in Pids \ {0}, stat'[q] = "WAITING",
                      NEW i \in Pids \ {q}, father'[i] = q, stat'[i] = "HANGING"
               PROVE  FALSE
    BY DEF NoLostWakeup, Zombies, Children
  <2>1. stat[q] = "WAITING" /\ q # father[p] /\ q # p
    BY <1>3, <1>5
  <2>2. i # p /\ father[i] = q /\ stat[i] = "HANGING"
    BY <1>3, <1>5, <1>6, <2>1
  <2> QED
    BY <2>1, <2>2 DEF IInv, NoLostWakeup, Zombies, Children
<1>12. WokenFindsZombie'
  <2> SUFFICES ASSUME NEW q \in Pids, stat'[q] = "READY", ctx'[q] = "wait"
               PROVE  \E i \in Pids \ {q} : father'[i] = q /\ stat'[i] = "HANGING"
    BY DEF WokenFindsZombie, Zombies, Children
  <2>1. q # p /\ ctx[q] = "wait"
    BY <1>1, <1>7 DEF IInv, TypeOK
  <2>2. CASE q = father[p]
    BY <1>1, <1>2, <1>3, <1>5, <1>6, <2>2
  <2>3. CASE q # father[p]
    <3>1. stat[q] = "READY"
      BY <1>3, <1>5, <2>1, <2>3
    <3>2. PICK i \in Pids \ {q} : father[i] = q /\ stat[i] = "HANGING"
      BY <2>1, <3>1 DEF IInv, WokenFindsZombie, Zombies, Children
    <3> QED
      BY <1>1, <1>3, <1>5, <1>6, <2>1, <3>2
  <2> QED
    BY <2>2, <2>3
<1>13. DirsExact'
  BY <1>1, <1>3, <1>5 DEF IInv, TypeOK, DirsExact
<1>14. FathersLeadToInit'
  <2> SUFFICES ASSUME NEW family \in SUBSET {q \in Pids \ {0} : stat'[q] # "EMPTY"},
                      family # {}
               PROVE  \E q \in family : father'[q] \notin family
    BY DEF FathersLeadToInit
  <2>1. family \in SUBSET {q \in Pids \ {0} : stat[q] # "EMPTY"}
    BY <1>1, <1>3, <1>5
  <2>2. PICK q \in family : father[q] \notin family
    BY <2>1 DEF IInv, FathersLeadToInit
  <2> QED
    BY <1>6, <2>1, <2>2
<1> QED
  BY <1>5, <1>8, <1>9, <1>10, <1>11, <1>12, <1>13, <1>14 DEF IInv

\* The callers of wait, and what is known of the running one.
LEMMA WaitTurnInv ==
    ASSUME IInv, Running({"user", "init"}) \/ ctx[current_proc] = "wait", WaitTurn
    PROVE  IInv'
<1> DEFINE p == current_proc
<1> USE KernelPids
<1>1. p \in Pids \ {1} /\ stat[p] = "READY"
  BY DEF Running, IInv, TypeOK, SchedulerSafe, KernelProcs
<1>2. CASE WaitReap
  <2>1. PICK z \in Zombies(p) :
          /\ stat' = [stat EXCEPT ![z] = "DEAD"]
          /\ ctx' = [ctx EXCEPT ![p] = "user"]
          /\ UNCHANGED <<current_proc, father, tty, prog, ticks, current_tty, dirs>>
    BY <1>2 DEF WaitReap
  <2>2. z \in Pids \ {0, 1} /\ z # p /\ father[z] = p /\ stat[z] = "HANGING"
    BY <2>1 DEF Zombies, Children, IInv, KernelProcs, SchedulerSafe
  <2>3. TypeOK' /\ KernelProcs' /\ SchedulerSafe' /\ StatMatchesContext' /\ DirsExact'
    BY <1>1, <2>1, <2>2
    DEF IInv, TypeOK, STATUS, Contexts, KernelProcs, SchedulerSafe,
        StatMatchesContext, DirsExact
  <2>4. FatherAlive'
    BY <2>1, <2>2 DEF IInv, TypeOK, FatherAlive, Alive
  <2>5. NoLostWakeup' /\ WokenFindsZombie'
    <3>1. \A q \in Pids : Zombies(q)' \subseteq Zombies(q)
      BY <2>1, <2>2 DEF IInv, TypeOK, Zombies, Children
    <3>2. \A q \in Pids \ {p} : Zombies(q)' = Zombies(q)
      BY <2>1, <2>2 DEF IInv, TypeOK, Zombies, Children
    <3> QED
      BY <1>1, <2>1, <2>2, <3>1, <3>2 DEF IInv, TypeOK, NoLostWakeup, WokenFindsZombie
  <2>6. FathersLeadToInit'
    BY <2>1, <2>2 DEF IInv, TypeOK, FathersLeadToInit
  <2> QED
    BY <2>3, <2>4, <2>5, <2>6 DEF IInv
<1>3. CASE WaitNone
  <2>1. /\ ctx' = [ctx EXCEPT ![p] = "user"]
        /\ UNCHANGED <<current_proc, stat, father, tty, prog, ticks, current_tty, dirs>>
    BY <1>3 DEF WaitNone
  <2>2. TypeOK' /\ KernelProcs' /\ SchedulerSafe' /\ StatMatchesContext' /\ DirsExact'
    BY <1>1, <2>1
    DEF IInv, TypeOK, Contexts, KernelProcs, SchedulerSafe, StatMatchesContext, DirsExact
  <2>3. FatherAlive' /\ NoLostWakeup' /\ WokenFindsZombie' /\ FathersLeadToInit'
    BY <1>1, <2>1
    DEF IInv, TypeOK, FatherAlive, Alive, NoLostWakeup, WokenFindsZombie,
        FathersLeadToInit, Zombies, Children
  <2> QED
    BY <2>2, <2>3 DEF IInv
<1>4. CASE WaitBlock
  <2> DEFINE st == [stat EXCEPT ![p] = "WAITING"]
  <2>1. /\ Zombies(p) = {}
        /\ ctx' = [ctx EXCEPT ![p] = "wait"]
        /\ Timer(st)
        /\ UNCHANGED <<father, tty, prog, current_tty>>
    BY <1>4 DEF WaitBlock
  <2>2. /\ st \in [Pids -> STATUS]
        /\ \A i \in Pids : st[i] = IF i = p THEN "WAITING" ELSE stat[i]
    BY DEF IInv, TypeOK, STATUS
  <2>3. st[0] \in {"READY", "WAITING"} /\ st[1] = "READY"
    BY <1>1, <2>2 DEF IInv, KernelProcs, SchedulerSafe
  <2>4. /\ current_proc' \in Pids
        /\ ticks' \in 0 .. QUANTUM - 1
        /\ stat' \in [Pids -> STATUS]
        /\ SchedulerSafe'
        /\ stat'[0] \in {"READY", "WAITING"}
        /\ \A j \in Pids : st[j] # "DEAD" => stat'[j] = st[j]
        /\ \A j \in Pids : st[j] = "DEAD" => stat'[j] \in {"DEAD", "EMPTY"}
        /\ dirs' \subseteq Pids
        /\ \A j \in Pids :
             j \in dirs' <=> j \in dirs /\ (st[j] = "DEAD" => stat'[j] = "DEAD")
    BY <2>1, <2>2, <2>3, YieldEffect
  <2> HIDE DEF st
  <2>5. TypeOK'
    BY <2>1, <2>4 DEF IInv, TypeOK, Contexts
  <2>9. KernelProcs' /\ StatMatchesContext'
    BY <1>1, <2>1, <2>2, <2>4 DEF IInv, TypeOK, KernelProcs, StatMatchesContext
  <2>10. DirsExact'
    BY <1>1, <2>2, <2>4 DEF IInv, TypeOK, DirsExact
  <2>6. FatherAlive' /\ FathersLeadToInit'
    BY <1>1, <2>1, <2>2, <2>4 DEF IInv, FatherAlive, Alive, FathersLeadToInit
  <2>7. \A q \in Pids : Zombies(q)' = Zombies(q)
    BY <1>1, <2>1, <2>2, <2>4 DEF Zombies, Children
  <2>8. NoLostWakeup' /\ WokenFindsZombie'
    BY <1>1, <2>1, <2>2, <2>4, <2>7 DEF IInv, TypeOK, NoLostWakeup, WokenFindsZombie
  <2> QED
    BY <2>4, <2>5, <2>6, <2>8, <2>9, <2>10 DEF IInv
<1> QED
  BY <1>2, <1>3, <1>4 DEF WaitTurn

LEMMA StdReadInv == IInv /\ StdRead => IInv'
<1> SUFFICES ASSUME IInv, StdRead PROVE IInv'
  OBVIOUS
<1> DEFINE p == current_proc
           st == [stat EXCEPT ![p] = "WAITING_INPUT"]
<1> USE KernelPids
<1>1. p \in Pids \ {0, 1} /\ stat[p] = "READY"
  BY DEF StdRead, Running, IInv, TypeOK, SchedulerSafe, KernelProcs
<1>2. /\ ctx' = [ctx EXCEPT ![p] = "read"]
      /\ Timer(st)
      /\ UNCHANGED <<father, tty, prog, current_tty>>
  BY DEF StdRead
<1>3. /\ st \in [Pids -> STATUS]
      /\ \A i \in Pids : st[i] = IF i = p THEN "WAITING_INPUT" ELSE stat[i]
  BY DEF IInv, TypeOK, STATUS
<1>4. st[0] \in {"READY", "WAITING"} /\ st[1] = "READY"
  BY <1>1, <1>3 DEF IInv, KernelProcs, SchedulerSafe
<1>5. /\ current_proc' \in Pids
      /\ ticks' \in 0 .. QUANTUM - 1
      /\ stat' \in [Pids -> STATUS]
      /\ SchedulerSafe'
      /\ stat'[0] \in {"READY", "WAITING"}
      /\ \A j \in Pids : st[j] # "DEAD" => stat'[j] = st[j]
      /\ \A j \in Pids : st[j] = "DEAD" => stat'[j] \in {"DEAD", "EMPTY"}
      /\ dirs' \subseteq Pids
      /\ \A j \in Pids :
           j \in dirs' <=> j \in dirs /\ (st[j] = "DEAD" => stat'[j] = "DEAD")
  BY <1>2, <1>3, <1>4, YieldEffect
<1> HIDE DEF st
<1>6. TypeOK'
  BY <1>2, <1>5 DEF IInv, TypeOK, Contexts
<1>10. KernelProcs' /\ StatMatchesContext'
  BY <1>1, <1>2, <1>3, <1>5 DEF IInv, TypeOK, KernelProcs, StatMatchesContext
<1>11. DirsExact'
  BY <1>1, <1>3, <1>5 DEF IInv, TypeOK, DirsExact
<1>7. FatherAlive' /\ FathersLeadToInit'
  BY <1>1, <1>2, <1>3, <1>5 DEF IInv, FatherAlive, Alive, FathersLeadToInit
<1>8. \A q \in Pids : Zombies(q)' = Zombies(q)
  BY <1>1, <1>2, <1>3, <1>5 DEF Zombies, Children
<1>9. NoLostWakeup' /\ WokenFindsZombie'
  BY <1>1, <1>2, <1>3, <1>5, <1>8 DEF IInv, TypeOK, NoLostWakeup, WokenFindsZombie
<1> QED
  BY <1>5, <1>6, <1>7, <1>9, <1>10, <1>11 DEF IInv

LEMMA StdReadReturnInv == IInv /\ StdReadReturn => IInv'
<1> SUFFICES ASSUME IInv, StdReadReturn PROVE IInv'
  OBVIOUS
<1> USE KernelPids
<1>1. /\ current_proc \in Pids /\ stat[current_proc] = "READY"
      /\ ctx' = [ctx EXCEPT ![current_proc] = "user"]
      /\ UNCHANGED <<current_proc, stat, father, tty, prog, ticks, current_tty, dirs>>
  BY DEF StdReadReturn, IInv, TypeOK, SchedulerSafe
<1>2. TypeOK' /\ KernelProcs' /\ SchedulerSafe' /\ StatMatchesContext' /\ DirsExact'
  BY <1>1
  DEF IInv, TypeOK, Contexts, KernelProcs, SchedulerSafe, StatMatchesContext, DirsExact
<1>3. FatherAlive' /\ NoLostWakeup' /\ WokenFindsZombie' /\ FathersLeadToInit'
  BY <1>1
  DEF IInv, TypeOK, FatherAlive, Alive, NoLostWakeup, WokenFindsZombie,
      FathersLeadToInit, Zombies, Children
<1> QED
  BY <1>2, <1>3 DEF IInv

LEMMA WakeReaderInv ==
    ASSUME IInv, NEW r \in Pids, WakeReader(r)
    PROVE  IInv'
<1> USE KernelPids
<1>1. /\ stat[r] = "WAITING_INPUT" /\ ctx[r] = "read"
      /\ stat' = [stat EXCEPT ![r] = "READY"]
      /\ UNCHANGED <<current_proc, father, tty, ctx, prog, ticks, current_tty, dirs>>
  BY DEF WakeReader, IInv, StatMatchesContext
<1>2. TypeOK' /\ KernelProcs' /\ SchedulerSafe' /\ StatMatchesContext' /\ DirsExact'
  BY <1>1
  DEF IInv, TypeOK, STATUS, KernelProcs, SchedulerSafe, StatMatchesContext, DirsExact
<1>3. FatherAlive' /\ FathersLeadToInit'
  BY <1>1 DEF IInv, TypeOK, FatherAlive, Alive, FathersLeadToInit
<1>4. \A q \in Pids : Zombies(q)' = Zombies(q)
  BY <1>1 DEF IInv, TypeOK, Zombies, Children
<1>5. NoLostWakeup' /\ WokenFindsZombie'
  BY <1>1, <1>4 DEF IInv, TypeOK, NoLostWakeup, WokenFindsZombie
<1> QED
  BY <1>2, <1>3, <1>5 DEF IInv

LEMMA StepInv == IInv /\ [Next]_vars => IInv'
<1> SUFFICES ASSUME IInv, [Next]_vars PROVE IInv'
  OBVIOUS
<1>1. CASE TimerIRQ
  BY <1>1, TimerIRQInv
<1>2. CASE Fork \/ BootFork
  <2>1. Running({"user", "fork0", "fork1"})
    BY <1>2 DEF Fork, BootFork, Running
  <2>2. CASE \E c \in Pids : ForkInto(c)
    BY <2>1, <2>2, ForkIntoInv
  <2>3. CASE ForkFails
    <3>1. UNCHANGED <<current_proc, stat, father, ticks, dirs>>
      BY <2>3 DEF ForkFails
    <3> QED
      BY <2>1, <2>3, <3>1, OwnStepInv
  <2> QED
    BY <1>2, <2>2, <2>3 DEF Fork, BootFork
<1>3. CASE BootExecShell \/ BootExecInit \/ \E t \in Ttys : SwitchTty(t)
  <2>1. UNCHANGED <<current_proc, stat, father, ticks, dirs>>
    BY <1>3 DEF BootExecShell, BootExecInit, SwitchTty
  <2> QED
    BY <1>3, <2>1, OwnStepInv
<1>4. CASE Exit
  BY <1>4, ExitInv
<1>5. CASE Wait \/ InitWait \/ WaitResume
  <2>1. (Running({"user", "init"}) \/ ctx[current_proc] = "wait") /\ WaitTurn
    BY <1>5 DEF Wait, InitWait, WaitResume, Running
  <2> QED
    BY <2>1, WaitTurnInv
<1>6. CASE StdRead \/ StdReadReturn
  BY <1>6, StdReadInv, StdReadReturnInv
<1>7. CASE \E r \in Pids : WakeReader(r)
  BY <1>7, WakeReaderInv
<1>8. CASE UNCHANGED vars
  <2>1. UNCHANGED <<current_proc, stat, father, tty, ctx, prog, ticks, current_tty, dirs>>
    BY <1>8 DEF vars
  <2> QED
    BY <2>1
    DEF IInv, TypeOK, KernelProcs, SchedulerSafe, StatMatchesContext, FatherAlive, Alive,
        NoLostWakeup, WokenFindsZombie, DirsExact, FathersLeadToInit, Zombies, Children
<1> QED
  BY <1>1, <1>2, <1>3, <1>4, <1>5, <1>6, <1>7, <1>8 DEF Next

LEMMA Invariance == Spec => []IInv
<1>1. Init => IInv
  BY InitInv
<1>2. IInv /\ [Next]_vars => IInv'
  BY StepInv
<1> QED
  BY <1>1, <1>2, PTL DEF Spec

-----------------------------------------------------------------------------
(* The theorems.                                                           *)

\* The variables keep their types; in particular the father of a slot is a
\* slot of the table or what the RAM held at boot, whoever exits or adopts.
THEOREM TypeCorrect == Spec => []TypeOK
<1>1. IInv => TypeOK
  BY DEF IInv
<1> QED
  BY <1>1, Invariance, PTL

\* exit always finds a living father to report to and to wake (proc.c:64).
THEOREM ExitFindsFather == Spec => []FatherAlive
<1>1. IInv => FatherAlive
  BY DEF IInv
<1> QED
  BY <1>1, Invariance, PTL

\* No exit and no adoption makes a circle of fathers: every process in use
\* descends from init, so orphans always have an adopter (proc.c:69).
THEOREM FamilyTree == Spec => []FathersLeadToInit
<1>1. IInv => FathersLeadToInit
  BY DEF IInv
<1> QED
  BY <1>1, Invariance, PTL

\* The test of exit and the scan of wait lose no exit between them: no father
\* but init sleeps next to a hanging child (proc.c:74 and 90).
THEOREM ExitWaitHandshake == Spec => []NoLostWakeup
<1>1. IInv => NoLostWakeup
  BY DEF IInv
<1> QED
  BY <1>1, Invariance, PTL

\* A father woken from wait finds the child it was woken for (proc.c:75).
THEOREM WokenFatherReaps == Spec => []WokenFindsZombie
<1>1. IInv => WokenFindsZombie
  BY DEF IInv
<1> QED
  BY <1>1, Invariance, PTL

\* The scan of schedule() always ends and runs a process that may run.
THEOREM Scheduling == Spec => []SchedulerSafe
<1>1. IInv => SchedulerSafe
  BY DEF IInv
<1> QED
  BY <1>1, Invariance, PTL

\* Statuses agree with the place a process resumes at; an exited process never
\* comes back to line 83 of proc.c.
THEOREM ExitedNeverRuns == Spec => []StatMatchesContext
<1>1. IInv => StatMatchesContext
  BY DEF IInv
<1> QED
  BY <1>1, Invariance, PTL

\* Page directories are neither leaked nor freed under a process that uses them.
THEOREM DirectoriesExact == Spec => []DirsExact
<1>1. IInv => DirsExact
  BY DEF IInv
<1> QED
  BY <1>1, Invariance, PTL

-----------------------------------------------------------------------------
(* init can be woken.  The strengthening says that the driver has no       *)
(* children, so that who descends from a living process descends from init *)
(* or from another living one.                                             *)

FatherNotDriver == \A p \in Pids : stat[p] # "EMPTY" => father[p] # 1

WakeInv == FatherNotDriver /\ InitCanBeWoken

\* Steps after which init sleeps only if it did before, next to no more
\* zombies, and that keep its living children.
LEMMA SleepKept ==
    ASSUME InitCanBeWoken,
           stat'[0] = "WAITING" => stat[0] = "WAITING",
           Zombies(0)' \subseteq Zombies(0),
           \A c \in Pids \ {0, 1} :
               father[c] = 0 /\ Alive(c) => father'[c] = 0 /\ Alive(c)'
    PROVE  InitCanBeWoken'
BY DEF InitCanBeWoken, Children

\* Steps that change no father, make no zombie and start or end no process.
LEMMA QuietStep ==
    ASSUME IInv, WakeInv, UNCHANGED father,
           stat'[0] = "WAITING" => stat[0] = "WAITING",
           \A j \in Pids : /\ stat[j] = "EMPTY" => stat'[j] = "EMPTY"
                           /\ stat'[j] = "HANGING" => stat[j] = "HANGING"
                           /\ Alive(j) => Alive(j)'
    PROVE  WakeInv'
<1>1. FatherNotDriver'
  BY DEF WakeInv, FatherNotDriver
<1>2. Zombies(0)' \subseteq Zombies(0)
  BY DEF Zombies, Children
<1> QED
  BY <1>1, <1>2, SleepKept DEF WakeInv

LEMMA ForkWake ==
    ASSUME IInv, WakeInv, Running({"user", "fork0", "fork1"}), NEW c \in Pids, ForkInto(c)
    PROVE  WakeInv'
<1> DEFINE p == current_proc
<1> USE KernelPids
<1>1. p \in Pids \ {1} /\ stat[p] = "READY"
  BY DEF IInv, TypeOK, SchedulerSafe, KernelProcs, Running
<1>2. stat[c] = "EMPTY" /\ c \notin {0, 1, p}
  BY <1>1 DEF ForkInto, FirstFree, FreeSlots, IInv, KernelProcs, SchedulerSafe
<1>3. stat' = [stat EXCEPT ![c] = "READY"] /\ father' = [father EXCEPT ![c] = p]
  BY <1>1 DEF ForkInto
<1>4. FatherNotDriver'
  BY <1>1, <1>2, <1>3 DEF IInv, TypeOK, WakeInv, FatherNotDriver
<1>5. Zombies(0)' \subseteq Zombies(0)
  BY <1>2, <1>3 DEF IInv, TypeOK, Zombies, Children
<1>6. \A d \in Pids \ {0, 1} : father[d] = 0 /\ Alive(d) => father'[d] = 0 /\ Alive(d)'
  BY <1>2, <1>3 DEF IInv, TypeOK, Alive
<1>7. stat'[0] = stat[0]
  BY <1>2, <1>3 DEF IInv, TypeOK
<1> QED
  BY <1>4, <1>5, <1>6, <1>7, SleepKept DEF WakeInv

\* An exit that leaves init asleep is not that of a child of init.  The father
\* of the process that exits is alive, so there are living processes besides
\* pid 0 and pid 1, and one of them is a child of init.
LEMMA ExitWake == IInv /\ WakeInv /\ Exit => WakeInv'
<1> SUFFICES ASSUME IInv, WakeInv, Exit PROVE WakeInv'
  OBVIOUS
<1> DEFINE p == current_proc
           st == ExitStat(p)
           F == {q \in Pids \ {0, 1} : Alive(q)}
<1> USE KernelPids
<1>1. p \in Pids \ {0, 1} /\ stat[p] = "READY"
  BY DEF Exit, Running, IInv, TypeOK, SchedulerSafe, KernelProcs
<1>2. /\ st \in [Pids -> STATUS]
      /\ st[p] = "HANGING"
      /\ \A i \in Pids \ {p} :
           st[i] = IF i = father[p] /\ stat[i] = "WAITING" THEN "READY" ELSE stat[i]
  BY <1>1, ExitStatEffect DEF IInv
<1>3. /\ \A j \in Pids : st[j] # "DEAD" => stat'[j] = st[j]
      /\ \A j \in Pids : st[j] = "DEAD" => stat'[j] \in {"DEAD", "EMPTY"}
  <2>1. TypeOK /\ Timer(st)
    BY DEF Exit, IInv
  <2> QED
    BY <1>2, <2>1, TimerEffect
<1>4. \A i \in Pids : father'[i] = IF i # p /\ father[i] = p THEN 0 ELSE father[i]
  BY DEF Exit, Adopt, Children, IInv, TypeOK
<1> HIDE DEF st
<1>5. FatherNotDriver'
  <2>1. \A j \in Pids : stat[j] = "EMPTY" => stat'[j] = "EMPTY"
    BY <1>1, <1>2, <1>3
  <2> QED
    BY <1>4, <2>1 DEF WakeInv, FatherNotDriver
<1>6. InitCanBeWoken'
  <2> SUFFICES ASSUME stat'[0] = "WAITING"
               PROVE  \E c \in Pids \ {0, 1} : father'[c] = 0 /\ Alive(c)'
    BY DEF InitCanBeWoken, Children
  <2>1. stat[0] # "DEAD" /\ st[0] = stat'[0]
    BY <1>1, <1>2, <1>3 DEF IInv, KernelProcs
  <2>2. stat[0] = "WAITING" /\ father[p] # 0
    BY <1>1, <1>2, <2>1
  <2>3. father[p] \in F
    BY <1>1, <2>2 DEF IInv, FatherAlive, Alive, WakeInv, FatherNotDriver
  <2>4. PICK c \in F : father[c] \notin F
    <3>1. F \in SUBSET {q \in Pids \ {0} : stat[q] # "EMPTY"}
      BY DEF Alive
    <3> QED
      BY <2>3, <3>1 DEF IInv, FathersLeadToInit
  <2>5. father[c] = 0 /\ c # p
    BY <2>2, <2>3, <2>4 DEF IInv, FatherAlive, Alive, WakeInv, FatherNotDriver
  <2>6. father'[c] = 0
    BY <1>1, <1>4, <2>4, <2>5
  <2>7. Alive(c)'
    BY <1>2, <1>3, <2>4, <2>5 DEF Alive
  <2> QED
    BY <2>4, <2>6, <2>7
<1> QED
  BY <1>5, <1>6 DEF WakeInv

\* init goes to sleep only next to no zombie; the others change nothing here.
LEMMA WaitWake ==
    ASSUME IInv, WakeInv, Running({"user", "init"}) \/ ctx[current_proc] = "wait", WaitTurn
    PROVE  WakeInv'
<1> DEFINE p == current_proc
<1> USE KernelPids
<1>1. p \in Pids \ {1} /\ stat[p] = "READY"
  BY DEF Running, IInv, TypeOK, SchedulerSafe, KernelProcs
<1>2. CASE WaitReap
  <2>1. PICK z \in Zombies(p) : stat' = [stat EXCEPT ![z] = "DEAD"] /\ father' = father
    BY <1>2 DEF WaitReap
  <2>2. z \in Pids \ {0} /\ stat[z] = "HANGING"
    BY <2>1 DEF Zombies, Children, IInv, KernelProcs
  <2> QED
    BY <2>1, <2>2, QuietStep DEF IInv, TypeOK, Alive
<1>3. CASE WaitNone
  BY <1>3, QuietStep DEF WaitNone, Alive
<1>4. CASE WaitBlock
  <2> DEFINE st == [stat EXCEPT ![p] = "WAITING"]
  <2>1. /\ st \in [Pids -> STATUS]
        /\ \A i \in Pids : st[i] = IF i = p THEN "WAITING" ELSE stat[i]
    BY <1>1 DEF IInv, TypeOK, STATUS
  <2>2. /\ \A j \in Pids : st[j] # "DEAD" => stat'[j] = st[j]
        /\ \A j \in Pids : st[j] = "DEAD" => stat'[j] \in {"DEAD", "EMPTY"}
        /\ father' = father
    <3>1. TypeOK /\ Timer(st)
      BY <1>4 DEF IInv, WaitBlock
    <3> QED
      BY <1>4, <2>1, <3>1, TimerEffect DEF WaitBlock
  <2> HIDE DEF st
  <2>3. CASE p # 0
    <3>1. stat'[0] = "WAITING" => stat[0] = "WAITING"
      BY <2>1, <2>2, <2>3 DEF IInv, KernelProcs
    <3>2. \A j \in Pids : /\ stat[j] = "EMPTY" => stat'[j] = "EMPTY"
                          /\ stat'[j] = "HANGING" => stat[j] = "HANGING"
                          /\ Alive(j) => Alive(j)'
      BY <1>1, <2>1, <2>2 DEF Alive
    <3> QED
      BY <2>2, <3>1, <3>2, QuietStep
  <2>4. CASE p = 0
    <3>1. Zombies(0)' = {}
      BY <1>4, <2>1, <2>2, <2>4 DEF WaitBlock, Zombies, Children
    <3>2. FatherNotDriver'
      BY <1>1, <2>1, <2>2 DEF WakeInv, FatherNotDriver
    <3> QED
      BY <3>1, <3>2 DEF WakeInv, InitCanBeWoken
  <2> QED
    BY <2>3, <2>4
<1> QED
  BY <1>2, <1>3, <1>4 DEF WaitTurn

LEMMA ReadWake == IInv /\ WakeInv /\ StdRead => WakeInv'
<1> SUFFICES ASSUME IInv, WakeInv, StdRead PROVE WakeInv'
  OBVIOUS
<1> DEFINE p == current_proc
           st == [stat EXCEPT ![p] = "WAITING_INPUT"]
<1> USE KernelPids
<1>1. p \in Pids \ {0, 1} /\ stat[p] = "READY"
  BY DEF StdRead, Running, IInv, TypeOK, SchedulerSafe, KernelProcs
<1>2. /\ st \in [Pids -> STATUS]
      /\ \A i \in Pids : st[i] = IF i = p THEN "WAITING_INPUT" ELSE stat[i]
  BY DEF IInv, TypeOK, STATUS
<1>3. /\ \A j \in Pids : st[j] # "DEAD" => stat'[j] = st[j]
      /\ \A j \in Pids : st[j] = "DEAD" => stat'[j] \in {"DEAD", "EMPTY"}
      /\ father' = father
  <2>1. TypeOK /\ Timer(st) /\ father' = father
    BY DEF IInv, StdRead
  <2> QED
    BY <1>2, <2>1, TimerEffect
<1> HIDE DEF st
<1>4. \A j \in Pids : /\ stat[j] = "EMPTY" => stat'[j] = "EMPTY"
                      /\ stat'[j] = "HANGING" => stat[j] = "HANGING"
                      /\ Alive(j) => Alive(j)'
  BY <1>1, <1>2, <1>3 DEF Alive
<1>5. stat'[0] = "WAITING" => stat[0] = "WAITING"
  BY <1>1, <1>2, <1>3 DEF IInv, KernelProcs
<1> QED
  BY <1>3, <1>4, <1>5, QuietStep

LEMMA StepWake == IInv /\ WakeInv /\ [Next]_vars => WakeInv'
<1> SUFFICES ASSUME IInv, WakeInv, [Next]_vars PROVE WakeInv'
  OBVIOUS
<1> USE KernelPids
<1>1. CASE TimerIRQ
  <2>1. /\ \A j \in Pids : stat[j] # "DEAD" => stat'[j] = stat[j]
        /\ \A j \in Pids : stat[j] = "DEAD" => stat'[j] \in {"DEAD", "EMPTY"}
        /\ father' = father
    BY <1>1, TimerEffect DEF TimerIRQ, IInv, TypeOK
  <2>2. \A j \in Pids : /\ stat[j] = "EMPTY" => stat'[j] = "EMPTY"
                        /\ stat'[j] = "HANGING" => stat[j] = "HANGING"
                        /\ Alive(j) => Alive(j)'
    BY <2>1 DEF Alive
  <2>3. stat'[0] = "WAITING" => stat[0] = "WAITING"
    BY <2>1
  <2> QED
    BY <2>1, <2>2, <2>3, QuietStep
<1>2. CASE \E c \in Pids : ForkInto(c) /\ (Fork \/ BootFork)
  <2>1. Running({"user", "fork0", "fork1"})
    BY <1>2 DEF Fork, BootFork, Running
  <2> QED
    BY <1>2, <2>1, ForkWake
<1>3. CASE Exit
  BY <1>3, ExitWake
<1>4. CASE Wait \/ InitWait \/ WaitResume
  <2>1. (Running({"user", "init"}) \/ ctx[current_proc] = "wait") /\ WaitTurn
    BY <1>4 DEF Wait, InitWait, WaitResume, Running
  <2> QED
    BY <2>1, WaitWake
<1>5. CASE StdRead
  BY <1>5, ReadWake
<1>6. CASE \E r \in Pids : WakeReader(r)
  <2>1. PICK r \in Pids : stat[r] = "WAITING_INPUT" /\ stat' = [stat EXCEPT ![r] = "READY"]
                          /\ father' = father
    BY <1>6 DEF WakeReader
  <2> QED
    BY <2>1, QuietStep DEF IInv, TypeOK, Alive
<1>7. CASE UNCHANGED <<stat, father>>
  BY <1>7, QuietStep DEF Alive
<1> QED
  BY <1>1, <1>2, <1>3, <1>4, <1>5, <1>6, <1>7
  DEF Next, Fork, BootFork, ForkFails, BootExecShell, BootExecInit, StdReadReturn,
      SwitchTty, vars

\* exit hands orphans that hang already to init without waking it (proc.c:69):
\* while init sleeps next to one, a living child of init is there to wake it.
THEOREM OrphansReachInit == Spec => []InitCanBeWoken
<1>1. Init => WakeInv
  BY KernelPids DEF Init, WakeInv, FatherNotDriver, InitCanBeWoken
<1>2. IInv /\ WakeInv /\ [Next]_vars => WakeInv'
  BY StepWake
<1>3. WakeInv => InitCanBeWoken
  BY DEF WakeInv
<1> QED
  BY <1>1, <1>2, <1>3, Invariance, PTL DEF Spec

-----------------------------------------------------------------------------
(* Proc implements ProcLife: fork is Spawn, exit is Die, the reaping turn  *)
(* of wait is Reap, and every other step leaves the family tree alone.     *)

LEMMA TreeUnchanged ==
    ASSUME TypeOK, stat' \in [Pids -> STATUS], UNCHANGED father,
           \A j \in Pids : InTree(j)' = InTree(j),
           \A j \in Pids : InTree(j) => (stat'[j] = "HANGING" <=> stat[j] = "HANGING")
    PROVE  UNCHANGED <<LifeOf, ParentOf>>
BY DEF LifeOf, ParentOf

LEMMA InitImplements == Init => Life!LifeInit
BY KernelPids DEF Init, Life!LifeInit, LifeOf, ParentOf, InTree

LEMMA ForkImplements ==
    ASSUME IInv, NEW c \in Pids, ForkInto(c)
    PROVE  Life!Spawn(current_proc, c)
<1> DEFINE p == current_proc
<1>1. p \in Pids /\ stat[p] = "READY" /\ stat[c] = "EMPTY" /\ c # p
  BY DEF IInv, TypeOK, SchedulerSafe, ForkInto, FirstFree, FreeSlots
<1>2. stat' = [stat EXCEPT ![c] = "READY"] /\ father' = [father EXCEPT ![c] = p]
  BY <1>1 DEF ForkInto
<1> QED
  BY <1>1, <1>2 DEF Life!Spawn, LifeOf, ParentOf, InTree, IInv, TypeOK

LEMMA ReapImplements ==
    ASSUME IInv, WaitReap
    PROVE  \E z \in Pids : Life!Reap(z)
<1> DEFINE p == current_proc
<1>1. PICK z \in Zombies(p) : stat' = [stat EXCEPT ![z] = "DEAD"] /\ father' = father
  BY DEF WaitReap
<1>2. /\ z \in Pids /\ father[z] = p /\ stat[z] = "HANGING"
      /\ p \in Pids /\ stat[p] = "READY"
  BY <1>1 DEF Zombies, Children, IInv, TypeOK, SchedulerSafe
<1>3. Life!Reap(z)
  BY <1>1, <1>2 DEF Life!Reap, LifeOf, ParentOf, InTree, IInv, TypeOK
<1> QED
  BY <1>2, <1>3

LEMMA ExitImplements ==
    ASSUME IInv, Exit
    PROVE  Life!Die(current_proc)
<1> DEFINE p == current_proc
           st == ExitStat(p)
<1> USE KernelPids
<1>1. p \in Pids \ {0, 1} /\ stat[p] = "READY"
  BY DEF Exit, Running, IInv, TypeOK, SchedulerSafe, KernelProcs
<1>2. father[p] \in Pids /\ father[p] # p /\ Alive(father[p])
  <2>1. {p} \in SUBSET {q \in Pids \ {0} : stat[q] # "EMPTY"}
    BY <1>1
  <2> QED
    BY <1>1, <2>1 DEF IInv, FathersLeadToInit, FatherAlive
<1>3. /\ st \in [Pids -> STATUS]
      /\ st[p] = "HANGING"
      /\ \A i \in Pids \ {p} :
           st[i] = IF i = father[p] /\ stat[i] = "WAITING" THEN "READY" ELSE stat[i]
  BY <1>1, ExitStatEffect DEF IInv
<1>4. /\ stat' \in [Pids -> STATUS]
      /\ \A j \in Pids : st[j] # "DEAD" => stat'[j] = st[j]
      /\ \A j \in Pids : st[j] = "DEAD" => stat'[j] \in {"DEAD", "EMPTY"}
  <2>1. TypeOK /\ Timer(st)
    BY DEF Exit, IInv
  <2> QED
    BY <1>3, <2>1, TimerEffect
<1>5. /\ father' \in [Pids -> Pids \cup RamFather]
      /\ \A i \in Pids : father'[i] = IF i # p /\ father[i] = p THEN 0 ELSE father[i]
  BY DEF Exit, Adopt, Children, IInv, TypeOK
<1> HIDE DEF st
<1>6. LifeOf[p] = "alive" /\ ParentOf[p] = father[p] /\ LifeOf[father[p]] = "alive"
  BY <1>1, <1>2 DEF LifeOf, ParentOf, InTree, Alive
<1>7. \A j \in Pids : InTree(j)' <=> InTree(j)
  BY <1>1, <1>3, <1>4 DEF InTree
<1>8. LifeOf' = [LifeOf EXCEPT ![p] = "zombie"]
  <2>1. \A j \in Pids \ {p} : stat'[j] = "HANGING" <=> stat[j] = "HANGING"
    BY <1>3, <1>4
  <2>2. stat'[p] = "HANGING" /\ InTree(p)
    BY <1>1, <1>3, <1>4 DEF InTree
  <2> QED
    BY <1>1, <1>7, <2>1, <2>2 DEF LifeOf
<1>9. ParentOf' = [q \in Pids |-> IF ParentOf[q] = p THEN 0 ELSE ParentOf[q]]
  BY <1>1, <1>2, <1>5, <1>7 DEF ParentOf
<1> QED
  BY <1>1, <1>6, <1>8, <1>9 DEF Life!Die

LEMMA StepImplements ==
    IInv /\ IInv' /\ [Next]_vars => [Life!LifeNext]_<<LifeOf, ParentOf>>
<1> SUFFICES ASSUME IInv, IInv', [Next]_vars
             PROVE  [Life!LifeNext]_<<LifeOf, ParentOf>>
  OBVIOUS
<1>1. TypeOK /\ TypeOK' /\ current_proc \in Pids /\ stat' \in [Pids -> STATUS]
  BY DEF IInv, TypeOK
<1>2. CASE TimerIRQ
  <2>1. /\ \A j \in Pids : stat[j] # "DEAD" => stat'[j] = stat[j]
        /\ \A j \in Pids : stat[j] = "DEAD" => stat'[j] \in {"DEAD", "EMPTY"}
    BY <1>1, <1>2, TimerEffect DEF TimerIRQ, TypeOK
  <2>2. UNCHANGED father
    BY <1>2 DEF TimerIRQ
  <2> QED
    BY <1>1, <2>1, <2>2, TreeUnchanged DEF InTree
<1>3. CASE Fork \/ BootFork
  <2>1. CASE \E c \in Pids : ForkInto(c)
    BY <1>1, <2>1, ForkImplements DEF Life!LifeNext
  <2>2. CASE ForkFails
    BY <1>1, <2>2, TreeUnchanged DEF ForkFails, InTree
  <2> QED
    BY <1>3, <2>1, <2>2 DEF Fork, BootFork
<1>4. CASE Exit
  BY <1>1, <1>4, ExitImplements DEF Life!LifeNext
<1>5. CASE WaitTurn
  <2>1. CASE WaitReap
    BY <2>1, ReapImplements DEF Life!LifeNext
  <2>2. CASE WaitNone
    BY <1>1, <2>2, TreeUnchanged DEF WaitNone, InTree
  <2>3. CASE WaitBlock
    <3> DEFINE st == [stat EXCEPT ![current_proc] = "WAITING"]
    <3>1. /\ st \in [Pids -> STATUS]
          /\ \A i \in Pids : st[i] = IF i = current_proc THEN "WAITING" ELSE stat[i]
      BY <1>1 DEF TypeOK, STATUS
    <3>2. /\ \A j \in Pids : st[j] # "DEAD" => stat'[j] = st[j]
          /\ \A j \in Pids : st[j] = "DEAD" => stat'[j] \in {"DEAD", "EMPTY"}
      BY <1>1, <2>3, <3>1, TimerEffect DEF WaitBlock
    <3>3. stat[current_proc] = "READY" /\ UNCHANGED father
      BY <2>3 DEF WaitBlock, IInv, SchedulerSafe
    <3> HIDE DEF st
    <3> QED
      BY <1>1, <3>1, <3>2, <3>3, TreeUnchanged DEF InTree
  <2> QED
    BY <1>5, <2>1, <2>2, <2>3 DEF WaitTurn
<1>6. CASE StdRead
  <2> DEFINE st == [stat EXCEPT ![current_proc] = "WAITING_INPUT"]
  <2>1. /\ st \in [Pids -> STATUS]
        /\ \A i \in Pids : st[i] = IF i = current_proc THEN "WAITING_INPUT" ELSE stat[i]
    BY <1>1 DEF TypeOK, STATUS
  <2>2. /\ \A j \in Pids : st[j] # "DEAD" => stat'[j] = st[j]
        /\ \A j \in Pids : st[j] = "DEAD" => stat'[j] \in {"DEAD", "EMPTY"}
    BY <1>1, <1>6, <2>1, TimerEffect DEF StdRead
  <2>3. stat[current_proc] = "READY" /\ UNCHANGED father
    BY <1>6 DEF StdRead, IInv, SchedulerSafe
  <2> HIDE DEF st
  <2> QED
    BY <1>1, <2>1, <2>2, <2>3, TreeUnchanged DEF InTree
<1>7. CASE \E r \in Pids : WakeReader(r)
  BY <1>1, <1>7, TreeUnchanged DEF WakeReader, InTree, TypeOK
<1>8. CASE UNCHANGED <<stat, father>>
  BY <1>8 DEF LifeOf, ParentOf, InTree
<1> QED
  BY <1>2, <1>3, <1>4, <1>5, <1>6, <1>7, <1>8
  DEF Next, Wait, InitWait, WaitResume, BootExecShell, BootExecInit, StdReadReturn,
      SwitchTty, vars

\* Whatever the scheduler, the terminals and the user programs do, fork, exit
\* and wait keep the promises of ProcLife: a process is born to a live father,
\* and its death is reported exactly once, to a live father, init at the last.
THEOREM ImplementsProcLife == Spec => ImplementsLife
<1>1. Init => Life!LifeInit
  BY InitImplements
<1>2. IInv /\ IInv' /\ [Next]_vars => [Life!LifeNext]_<<LifeOf, ParentOf>>
  BY StepImplements
<1> QED
  BY <1>1, <1>2, Invariance, PTL DEF Spec, ImplementsLife, Life!LifeSpec
=============================================================================
