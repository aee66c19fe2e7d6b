---------------------------------- MODULE Aru ----------------------------------
(***************************************************************************)
(* The whole machine: emulator, processor and shell as concurrent          *)
(* processes over the shared signal memory.  Every step is one step of one *)
(* thread of one process.                                                  *)
(***************************************************************************)
EXTENDS Emulator, Shell, Cpu

vars == << sharedVars, emuVars, shellVars, coreVars, cpuVars >>

Init == SharedInit /\ EmuInit /\ ShellInit /\ CpuInit

EmuStep   == EmuNext /\ UNCHANGED << shellVars, coreVars, cpuVars >>
ShellAuto == ShellWork /\ UNCHANGED << emuVars, coreVars, cpuVars >>
PersonStep == ShellAsked /\ UNCHANGED << emuVars, coreVars, cpuVars >>
CpuStep   == CpuThread /\ UNCHANGED << emuVars, shellVars >>
CoreStep  == CoreThread /\ UNCHANGED << emuVars, shellVars >>

Next == EmuStep \/ ShellAuto \/ PersonStep \/ CpuStep \/ CoreStep

Spec == Init /\ [][Next]_vars

(* The operating system runs every thread; nobody has to type a command.   *)
Fairness ==
  WF_vars(EmuStep) /\ WF_vars(ShellAuto) /\ WF_vars(CpuStep) /\ WF_vars(CoreStep)

FairSpec == Spec /\ Fairness

-----------------------------------------------------------------------------
(* Safety *)

(* Every variable has its type; the counterpart of the declarations in     *)
(* emSignal.h and of the program points of the three main functions.       *)
TypeOK == SharedTypeOK /\ EmuTypeOK /\ ShellTypeOK /\ CpuTypeOK

(* The shell takes commands only when the PIDs are known, both children    *)
(* handle SIGUSR1, and the processor waits for the shutdown.               *)
AtPrompt == shellPc \notin {"start", "waitReady", "waitKernel"}
BootOrder ==
  AtPrompt => /\ pids
              /\ \A p \in Procs : proc[p] \in {"armed", "dead"}
              /\ cpuPc \in {"waitShutdown", "exiting"}

(* "The shell must run after the kernel has finished running and the cpu   *)
(* is idle" (main of shell.c): when the shell leaves its boot, the core is *)
(* idle behind the kernel's _init, and nothing else is under way.          *)
KernelFirst ==
  [][(~AtPrompt /\ AtPrompt') =>
       IDLE /\ LockFree /\ IR = "usrSetup" /\ PRIV = "kernel" /\ pending = {}]_vars

(* Nobody is poked before the PID words hold PIDs (kill(-1) goes to every  *)
(* process of the user) and before its own handler is installed (SIGUSR1   *)
(* terminates a process that does not handle it).                          *)
PokesArmed ==
  [][\A p \in pending' \ pending : pids /\ proc[p] = "armed"]_vars

(* sinit(new = false) makes the whole page one free block again, so a      *)
(* process maps the heap before any process has allocated from it.         *)
HeapKept ==
  [][\A p \in Procs : (proc[p] = "booting" /\ proc'[p] = "armed") => ~heapUsed]_vars

(* The signal heap has no lock: the shell and the emulator never allocate  *)
(* or free at the same time.                                               *)
HeapExclusive == ~(ShellInHeap /\ EmuInHeap)

(* _usrSetup enters the program that the user asked for last. *)
RightImage ==
  [][(IR = "usrSetup" /\ IR' = "user") => userText = shellProg]_vars

(* An idle core is resumed where a program is set up, or behind the write  *)
(* that it was waiting for, once that is on the console: never behind a    *)
(* hlt, and never early.                                                   *)
Shown(w) == console # << >> /\ console[Len(console)] = w
ResumePoint ==
  [][(IDLE /\ ~IDLE') => \/ IR' = "usrSetup"
                         \/ IR' = "writeDone" /\ Shown(<< userText, ix >>)]_vars

(* The prompt is back only when the whole machine has come to rest: the    *)
(* core is idle, no handler runs and no poke is under way.                 *)
PromptQuiet ==
  (shellPc = "prompt" /\ proc["shell"] = "armed") =>
     /\ IDLE /\ LockFree
     /\ emuH = "none" /\ shellH = "none" /\ cpuH = "none"
     /\ pending = {}

(* fault() and the handler on the core thread: the core thread never waits *)
(* for idleLock while it holds it.                                         *)
NoSelfDeadlock == corePc # "stuck"

(* "No need to set PRIV as it ended as kernel" (handleSIGUSR1 of cpu.c).   *)
ExecFromKernel == [][(cpuH = "exec" /\ cpuH' = "resume1") => PRIV = "kernel"]_vars

(* When the shell reports a faulted program and refers to the core dump,   *)
(* the dump is the one of that program.                                    *)
ErrorHasDump == outcome = "error" => dumped

-----------------------------------------------------------------------------
(* Liveness *)

AllDead == \A p \in Procs : proc[p] = "dead"

(* The three processes find each other and the prompt appears. *)
BootCompletes == <>(shellPc = "prompt")

(* A program that the shell has started is reported, or its system call    *)
(* that no kernel knows ends the shell.                                    *)
RunReturns ==
  (shellPc = "waitExit") ~> (shellPc = "prompt" \/ proc["shell"] = "dead")

(* The command `exit' ends all three processes. *)
ShutdownCompletes == (shellPc = "waitShutdown") ~> AllDead

(* When the shell has crashed or was told of a fault, nobody stays behind. *)
FaultEndsAll == (proc["shell"] = "dead") ~> AllDead

-----------------------------------------------------------------------------
(* What the machine promises to its user. *)

Phase ==
  IF proc["shell"] = "dead" THEN "closed"
  ELSE CASE ~AtPrompt -> "boot"
         [] shellPc = "prompt" -> "prompt"
         [] shellPc = "waitShutdown" -> "closing"
         [] OTHER -> "running"

S == INSTANCE Session WITH phase <- Phase, prog <- shellProg,
                           printed <- console, report <- outcome

(* The machine implements its promise (module Session). *)
SessionSpec == S!Spec
===============================================================================
