--------------------------------- MODULE Core ---------------------------------
(***************************************************************************)
(* The core thread of iaru0 (runCore): it runs the kernel and the user     *)
(* program until the processor halts, then goes idle and tells the         *)
(* emulator or the shell.  The lock idleLock is held for a whole cycle.    *)
(*                                                                         *)
(* Instructions are abstracted to what the protocol can see of them.  One  *)
(* step of the model runs a stretch of code: the kernel's _init, its user  *)
(* set-up, one user instruction, or one system call with the exception     *)
(* vector and the handler that serve it, up to the next `hlt' or `eret'.   *)
(***************************************************************************)
EXTENDS EmSignal

CONSTANTS
  Code,        \* program -> its instructions
  CycleLimit   \* cycles after which runCore stops a program (500)

(* op: any instruction without effect on the protocol; loop: a branch to   *)
(* itself; write, exit: system calls; badcall: a system call that the      *)
(* vector has no entry for; abort: an access outside the user's space;     *)
(* badop: an invalid opcode; div0: a division by zero.                     *)
Instr == {"op", "loop", "write", "exit", "badcall", "abort", "badop", "div0"}

ASSUME CodeAssumption ==
  \A p \in Programs : Code[p] \in Seq(Instr) /\ Len(Code[p]) <= MaxLen
ASSUME CycleLimitAssumption == CycleLimit \in Nat

VARIABLES
  corePc,         \* where runCore is
  IR,             \* the code that the core runs next
  ix,             \* the next instruction of the user program
  PRIV,           \* privilege bit of CSTR
  ioBit,          \* bit 13 of CSTR: the next hlt is an IO request
  savedIoBit,     \* the same bit in the CSTR saved by the exception vector
  status,         \* core.status
  runningCycles,
  IDLE,
  userPS,         \* CPU's pointer to a process state: none, the one PS_PTR
                  \* points at (or pointed at last), an older one
  psPtr,          \* the kernel's PS_PTR is not null
  excpCur,        \* excpType of the process state of PS_PTR
  excpOld         \* excpType of the older one

coreVars == << corePc, IR, ix, PRIV, ioBit, savedIoBit, status, runningCycles,
               IDLE, userPS, psPtr, excpCur, excpOld >>
regVars  == << ix, PRIV, ioBit, savedIoBit >>
psVars   == << userPS, psPtr, excpCur, excpOld >>

(* Code locations: the kernel's _init, _usrSetup, the user program, the    *)
(* end of _writeHndlr after its hlt, what lies behind the hlt of           *)
(* _exitHndlr (_excpHndlr1), the hlt of _excpHndlr1, _excpHndlr0, its hlt, *)
(* and the zeros behind the kernel text.                                   *)
Locations == {"init", "usrSetup", "user", "writeDone", "excpHndlr1", "hlt1",
              "excpHndlr0", "hlt0", "textEnd"}

CoreTypeOK ==
  /\ corePc \in {"off", "loop", "check", "halted", "faultWait", "sys",
                 "raise", "stuck"}
  /\ IR \in Locations
  /\ ix \in 1 .. MaxLen + 1
  /\ PRIV \in {"kernel", "user"}
  /\ ioBit \in BOOLEAN
  /\ savedIoBit \in BOOLEAN
  /\ status \in {"RUNNING", "HLT", "IO"}
  /\ runningCycles \in 0 .. CycleLimit
  /\ IDLE \in BOOLEAN
  /\ userPS \in {"null", "cur", "old"}
  /\ psPtr \in BOOLEAN
  /\ excpCur \in {"SYSCALL", "ABORT"}
  /\ excpOld \in {"SYSCALL", "ABORT"}

CoreInit ==
  /\ corePc = "off"
  /\ IR = "init"
  /\ ix = 1
  /\ PRIV = "user"
  /\ ioBit = FALSE
  /\ savedIoBit = FALSE
  /\ status = "RUNNING"
  /\ runningCycles = 0
  /\ IDLE = FALSE
  /\ userPS = "null"
  /\ psPtr = FALSE
  /\ excpCur = "SYSCALL"
  /\ excpOld = "SYSCALL"

LockFree == corePc \in {"off", "loop"}

(* The user instruction at ix; behind the code there are zeros. *)
UserInstr ==
  IF userText \in Programs /\ ix \in DOMAIN Code[userText]
  THEN Code[userText][ix] ELSE "badop"

(* A hlt stops the core, or asks for IO when bit 13 of CSTR is set. *)
HaltStatus == IF ioBit THEN "IO" ELSE "HLT"

CycleTo(loc) ==
  /\ corePc = "loop" /\ ~IDLE
  /\ corePc' = "check"
  /\ IR' = loc
  /\ UNCHANGED << runningCycles, IDLE >>

(* exception(): the process state becomes userPS, the mode kernel. *)
Exception == userPS' = "cur" /\ PRIV' = "kernel"

-----------------------------------------------------------------------------
(* Kernel code *)

KernelInit ==
  /\ IR = "init"
  /\ CycleTo("usrSetup")
  /\ status' = "HLT"
  /\ UNCHANGED << regVars, psVars, sharedVars >>

(* _usrSetup allocates and clears a process state, behind the one that was *)
(* not destroyed if there is one, and enters the program in user mode.     *)
UserSetup ==
  /\ IR = "usrSetup" /\ PRIV = "kernel"
  /\ CycleTo("user")
  /\ ix' = 1
  /\ PRIV' = "user"
  /\ psPtr' = TRUE
  /\ excpCur' = "SYSCALL"
  /\ IF psPtr /\ userPS = "cur"
     THEN userPS' = "old" /\ excpOld' = excpCur
     ELSE UNCHANGED << userPS, excpOld >>
  /\ UNCHANGED << ioBit, savedIoBit, status, sharedVars >>

(* In user mode the kernel text may not be fetched. *)
SetupAborts ==
  /\ IR = "usrSetup" /\ PRIV = "user"
  /\ CycleTo("hlt0")
  /\ Exception
  /\ excpCur' = "ABORT"
  /\ UNCHANGED << ix, ioBit, savedIoBit, status, psPtr, excpOld, sharedVars >>

(* The hlt at the end of an exception handler. *)
HandlerHalts ==
  /\ IR \in {"hlt1", "hlt0"}
  /\ CycleTo(IF IR = "hlt1" THEN "excpHndlr0" ELSE "textEnd")
  /\ status' = HaltStatus
  /\ UNCHANGED << regVars, psVars, sharedVars >>

(* Deviation: the handler returns to the system call itself. *)
WriteReturnsToCall ==
  /\ IR = "writeDone"
  /\ CycleTo("user")
  /\ ioBit' = savedIoBit
  /\ PRIV' = "user"
  /\ ix' = ix
  /\ UNCHANGED << savedIoBit, status, psVars, sharedVars >>

(* _writeHndlr behind its hlt: clear bit 13, restore, eret. *)
WriteReturns ==
  /\ IR = "writeDone"
  /\ CycleTo("user")
  /\ ioBit' = savedIoBit
  /\ PRIV' = "user"
  /\ ix' = ix + 1
  /\ UNCHANGED << savedIoBit, status, psVars, sharedVars >>

(* An exception handler marks the process state. *)
MarkAbort ==
  /\ IR \in {"excpHndlr1", "excpHndlr0"} /\ psPtr
  /\ CycleTo(IF IR = "excpHndlr1" THEN "hlt1" ELSE "hlt0")
  /\ excpCur' = "ABORT"
  /\ UNCHANGED << regVars, status, userPS, psPtr, excpOld, sharedVars >>

(* fault(): an invalid access or an invalid opcode in kernel mode. *)
Fault(loc) ==
  /\ corePc = "loop" /\ ~IDLE
  /\ corePc' = "raise"
  /\ IR' = loc
  /\ signalType' = "UNIVERSAL"
  /\ SetSignal("UNIVERSAL", "FAULT")
  /\ Poke({"shell"})
  /\ UNCHANGED << ioBit, savedIoBit, ix, status, runningCycles, IDLE, psPtr, excpCur, excpOld >>
  /\ UNCHANGED << metaVars, memVars, ackMask, pids, proc >>

KernelFault ==
  /\ \/ IR = "excpHndlr1" /\ ~psPtr /\ Fault("hlt1")
     \/ IR = "excpHndlr0" /\ ~psPtr /\ Fault("hlt0")
     \/ IR = "textEnd" /\ Fault("textEnd")
  /\ UNCHANGED << PRIV, userPS >>

-----------------------------------------------------------------------------
(* User code *)

UserAt(i) == IR = "user" /\ UserInstr = i

UserStep ==
  /\ UserAt("op") \/ UserAt("loop")
  /\ CycleTo("user")
  /\ ix' = IF UserInstr = "op" THEN ix + 1 ELSE ix
  /\ UNCHANGED << PRIV, ioBit, savedIoBit, status, psVars, sharedVars >>

SyscallWrite ==
  /\ UserAt("write")
  /\ CycleTo("writeDone")
  /\ Exception
  /\ savedIoBit' = ioBit
  /\ ioBit' = TRUE
  /\ status' = "IO"
  /\ UNCHANGED << ix, psPtr, excpCur, excpOld, sharedVars >>

(* _exitHndlr destroys the process state and halts. *)
SyscallExit ==
  /\ UserAt("exit")
  /\ CycleTo("excpHndlr1")
  /\ Exception
  /\ psPtr' = FALSE
  /\ status' = HaltStatus
  /\ UNCHANGED << ix, ioBit, savedIoBit, excpCur, excpOld, sharedVars >>

UserAborts ==
  /\ UserAt("abort") \/ UserAt("badop")
  /\ CycleTo(IF UserInstr = "abort" THEN "textEnd" ELSE "excpHndlr0")
  /\ Exception
  /\ excpCur' = "ABORT"
  /\ status' = HaltStatus
  /\ UNCHANGED << ix, ioBit, savedIoBit, psPtr, excpOld, sharedVars >>

BadSyscall ==
  /\ UserAt("badcall")
  /\ Exception
  /\ Fault("textEnd")

(* SIGFPE is not handled: the processor dies and tells nobody. *)
DivideByZero ==
  /\ UserAt("div0")
  /\ corePc = "loop" /\ ~IDLE
  /\ Exit("cpu")
  /\ UNCHANGED << coreVars, pageVars, metaVars, memVars, pids, pending >>

-----------------------------------------------------------------------------
(* The rest of a cycle of runCore *)

(* fault() raises SIGUSR1 on the core thread itself, which still holds     *)
(* idleLock; the handler looks at the page that signalType names by now.   *)
Raised ==
  /\ corePc = "raise"
  /\ LET ints == interrupts[signalType] IN
       IF "FAULT" \in ints
       THEN Exit("cpu") /\ UNCHANGED corePc
       ELSE /\ corePc' = IF {"EXEC", "SYS"} \cap ints # {} THEN "stuck" ELSE "check"
            /\ UNCHANGED proc
  /\ UNCHANGED << IR, regVars, status, runningCycles, IDLE, psVars >>
  /\ UNCHANGED << pageVars, metaVars, memVars, pids, pending >>

(* More than CycleLimit cycles stop the core whatever it is doing. *)
Cycle == runningCycles + 1
(* Deviation: no cycle limit. *)
StatusUnlimited == status

StatusNow == IF Cycle > CycleLimit THEN "HLT" ELSE status

KeepsRunning ==
  /\ corePc = "check" /\ StatusNow = "RUNNING"
  /\ corePc' = "loop"
  /\ runningCycles' = Cycle
  /\ UNCHANGED << IR, regVars, status, IDLE, psVars, sharedVars >>

GoesIdle ==
  /\ corePc = "check" /\ StatusNow = "HLT"
  /\ corePc' = "halted"
  /\ status' = "HLT"
  /\ IDLE' = TRUE
  /\ UNCHANGED << IR, regVars, runningCycles, psVars, sharedVars >>

AsksIO ==
  /\ corePc = "check" /\ StatusNow = "IO"
  /\ corePc' = "sys"
  /\ runningCycles' = Cycle
  /\ IDLE' = TRUE
  /\ signalType' = "EMU_CPU"
  /\ UNCHANGED << IR, regVars, status, psVars >>
  /\ UNCHANGED << metaVars, osVars, memVars, interrupts, ackMask >>

(* x10 points at the kernel's request structure in _writeHndlr only. *)
SendsSys ==
  /\ corePc = "sys"
  /\ SetSysSignal(IF IR = "writeDone" THEN << userText, ix >> ELSE NoWrite)
  /\ Poke({"emulator"})
  /\ corePc' = "loop"
  /\ UNCHANGED << IR, regVars, status, runningCycles, IDLE, psVars >>
  /\ UNCHANGED << memVars, signalType, ackMask, unionTag, loadprog, ioData, execEntry, pids, proc >>

Aborted == \/ userPS = "cur" /\ excpCur # "SYSCALL"
           \/ userPS = "old" /\ excpOld # "SYSCALL"

HaltOf(pc) ==
  /\ corePc = "halted"
  /\ corePc' = pc
  /\ UNCHANGED << IR, regVars, status, IDLE, psVars >>

(* Without a process state only the main thread of iaru0 is woken. *)
HaltsKernel ==
  /\ userPS = "null"
  /\ HaltOf("loop")
  /\ runningCycles' = 0
  /\ UNCHANGED sharedVars

HaltsExit ==
  /\ userPS # "null" /\ ~Aborted
  /\ HaltOf("loop")
  /\ runningCycles' = 0
  /\ interrupts' = [interrupts EXCEPT !["SHELL_CPU"] = @ \cup {"EXIT"}]
  /\ UNCHANGED << metaVars, osVars, memVars, signalType, ackMask >>

HaltsAborted ==
  /\ Aborted
  /\ HaltOf("faultWait")
  /\ signalType' = "UNIVERSAL"
  /\ SetSignal("UNIVERSAL", "FAULT")
  /\ Poke({"emulator"})
  /\ dumped' = FALSE
  /\ UNCHANGED << runningCycles, metaVars, ackMask, pids, proc, heapUsed, userText >>

(* Deviation: the core does not wait for the dump. *)
FaultNotAcked ==
  /\ corePc = "faultWait"
  /\ corePc' = "loop"
  /\ runningCycles' = 0
  /\ SetSignal("SHELL_CPU", "ERROR")
  /\ UNCHANGED << IR, regVars, status, IDLE, psVars >>
  /\ UNCHANGED << metaVars, osVars, memVars, signalType, ackMask >>

(* The acknowledge of the dump is only read. *)
FaultAcked ==
  /\ corePc = "faultWait"
  /\ "FAULT" \in ackMask["UNIVERSAL"]
  /\ corePc' = "loop"
  /\ runningCycles' = 0
  /\ SetSignal("SHELL_CPU", "ERROR")
  /\ UNCHANGED << IR, regVars, status, IDLE, psVars >>
  /\ UNCHANGED << metaVars, osVars, memVars, signalType, ackMask >>

-----------------------------------------------------------------------------
CoreKernel == KernelInit \/ UserSetup \/ SetupAborts \/ HandlerHalts
                \/ WriteReturns \/ MarkAbort \/ KernelFault
CoreUser == UserStep \/ SyscallWrite \/ SyscallExit \/ UserAborts
              \/ BadSyscall \/ DivideByZero
CoreCycle == CoreKernel \/ CoreUser
CoreEndsCycle == Raised \/ KeepsRunning \/ GoesIdle \/ AsksIO \/ SendsSys
                   \/ HaltsKernel \/ HaltsExit \/ HaltsAborted \/ FaultAcked
===============================================================================
