---------------------------------- MODULE Cpu ----------------------------------
(***************************************************************************)
(* The processor `iaru0': its main thread boots the core thread of module  *)
(* Core and then waits for the shutdown; its SIGUSR1 handler, which        *)
(* normally interrupts the main thread, starts or resumes the core.        *)
(*                                                                         *)
(* A poke that arrives while the main thread is in its handler is          *)
(* delivered to the core thread, whatever that is doing.                   *)
(***************************************************************************)
EXTENDS Core

(* Timing assumption on the handler: while it has yet to acknowledge, or   *)
(* to resume the core a second time, the core begins no cycle.  Nothing in *)
(* the code enforces it.  It says nothing of pokes: those may arrive at    *)
(* any time, on either thread.                                             *)
CONSTANT PromptResume

ASSUME PromptResumeAssumption == PromptResume \in BOOLEAN

VARIABLES
  cpuPc,     \* where the main thread is
  cpuH,      \* where the SIGUSR1 handler on it is, "none" outside it
  cpuPage    \* the handler's sigType

cpuVars == << cpuPc, cpuH, cpuPage >>

CpuTypeOK ==
  /\ CoreTypeOK
  /\ cpuPc \in {"start", "waitReady", "waitExec", "waitIdle", "waitShutdown",
                "exiting"}
  /\ cpuH \in {"none", "type", "ints", "exec", "resume1", "ackExec", "run2",
               "resume2"}
  /\ cpuPage \in Pages

CpuInit ==
  /\ CoreInit
  /\ cpuPc = "start"
  /\ cpuH = "none"
  /\ cpuPage = "UNIVERSAL"

CpuAt(from) == cpuH = "none" /\ cpuPc = from
CpuGoto(to) == cpuPc' = to /\ UNCHANGED << cpuH, cpuPage >>
CpuHandlerGoto(to) == cpuH' = to /\ UNCHANGED << cpuPc, cpuPage >>

-----------------------------------------------------------------------------
(* main *)

(* sinit(new = false) and redefineSignal. *)
CpuStart ==
  /\ proc["cpu"] = "booting"
  /\ cpuPc = "start"
  /\ proc' = [proc EXCEPT !["cpu"] = "armed"]
  /\ CpuGoto("waitReady")
  /\ UNCHANGED << coreVars, pageVars, metaVars, memVars, pids, pending >>

CpuWaitReady ==
  /\ CpuAt("waitReady")
  /\ "READY" \in interrupts["UNIVERSAL"]
  /\ CpuGoto("waitExec")
  /\ UNCHANGED << coreVars, sharedVars >>

(* The registers are set up for the kernel and the core thread is created. *)
WaitExec ==
  /\ CpuAt("waitExec")
  /\ "EXEC" \in interrupts["SHELL_CPU"]
  /\ IR' = execEntry
  /\ PRIV' = "kernel"
  /\ status' = "RUNNING"
  /\ corePc' = "loop"
  /\ CpuGoto("waitIdle")
  /\ UNCHANGED << ix, ioBit, savedIoBit, runningCycles, IDLE, psVars, sharedVars >>

(* Deviation: the kernel is acknowledged before it has run. *)
WaitIdleEarly ==
  /\ CpuAt("waitIdle")
  /\ LockFree
  /\ AckSignal("SHELL_CPU", "EXEC")
  /\ CpuGoto("waitShutdown")
  /\ UNCHANGED << coreVars, metaVars, osVars, memVars, signalType, interrupts >>

(* The condition variable is signalled when the kernel's _init has halted. *)
WaitIdle ==
  /\ CpuAt("waitIdle")
  /\ IDLE /\ LockFree
  /\ AckSignal("SHELL_CPU", "EXEC")
  /\ CpuGoto("waitShutdown")
  /\ UNCHANGED << coreVars, metaVars, osVars, memVars, signalType, interrupts >>

(* Deviation: the shutdown is not acknowledged. *)
CpuShutdownSilent ==
  /\ CpuAt("waitShutdown")
  /\ "SHUTDOWN" \in interrupts["UNIVERSAL"]
  /\ CpuGoto("exiting")
  /\ UNCHANGED << coreVars, sharedVars >>

CpuShutdown ==
  /\ CpuAt("waitShutdown")
  /\ "SHUTDOWN" \in interrupts["UNIVERSAL"]
  /\ AckSignal("UNIVERSAL", "SHUTDOWN")
  /\ CpuGoto("exiting")
  /\ UNCHANGED << coreVars, metaVars, osVars, memVars, signalType, interrupts >>

CpuExit ==
  /\ CpuAt("exiting")
  /\ Exit("cpu")
  /\ UNCHANGED << coreVars, cpuVars, pageVars, metaVars, memVars, pids, pending >>

-----------------------------------------------------------------------------
(* handleSIGUSR1 on the main thread *)

CpuSignal ==
  /\ cpuH = "none"
  /\ "cpu" \in pending
  /\ pending' = pending \ {"cpu"}
  /\ CpuHandlerGoto("type")
  /\ UNCHANGED << coreVars, pageVars, metaVars, memVars, pids, proc >>

CpuReadType ==
  /\ cpuH = "type"
  /\ cpuPage' = signalType
  /\ cpuH' = "ints"
  /\ UNCHANGED << cpuPc, coreVars, sharedVars >>

CpuFaulted ==
  /\ cpuH = "ints"
  /\ "FAULT" \in interrupts[cpuPage]
  /\ Exit("cpu")
  /\ UNCHANGED << coreVars, cpuVars, pageVars, metaVars, memVars, pids, pending >>

(* EXEC and SYS are enabled in different pages. *)
CpuReadInts ==
  /\ cpuH = "ints"
  /\ "FAULT" \notin interrupts[cpuPage]
  /\ CpuHandlerGoto(CASE "EXEC" \in interrupts[cpuPage] -> "exec"
                      [] "SYS" \in interrupts[cpuPage] -> "run2"
                      [] OTHER -> "none")
  /\ UNCHANGED << coreVars, sharedVars >>

CpuExec ==
  /\ cpuH = "exec"
  /\ IR' = execEntry
  /\ status' = "RUNNING"
  /\ CpuHandlerGoto("resume1")
  /\ UNCHANGED << corePc, regVars, runningCycles, IDLE, psVars, sharedVars >>

(* case emSIG_EXEC_IDX: clear IDLE under the lock, *)
ResumeExec ==
  /\ cpuH = "resume1"
  /\ LockFree
  /\ IDLE' = FALSE
  /\ CpuHandlerGoto("ackExec")
  /\ UNCHANGED << corePc, IR, regVars, status, runningCycles, psVars, sharedVars >>

(* acknowledge, and fall through into case emSIG_SYS_IDX. *)
AckExec ==
  /\ cpuH = "ackExec"
  /\ AckSignal(cpuPage, "EXEC")
  /\ CpuHandlerGoto("run2")
  /\ UNCHANGED << coreVars, metaVars, osVars, memVars, signalType, interrupts >>

RunAgain ==
  /\ cpuH = "run2"
  /\ status' = "RUNNING"
  /\ CpuHandlerGoto("resume2")
  /\ UNCHANGED << corePc, IR, regVars, runningCycles, IDLE, psVars, sharedVars >>

ResumeSys ==
  /\ cpuH = "resume2"
  /\ LockFree
  /\ IDLE' = FALSE
  /\ CpuHandlerGoto("none")
  /\ UNCHANGED << corePc, IR, regVars, status, runningCycles, psVars, sharedVars >>

-----------------------------------------------------------------------------
(* handleSIGUSR1 on the core thread.  It blocks for ever on idleLock when  *)
(* it has interrupted a cycle, because its own thread holds the lock.      *)
CoreSignal ==
  /\ cpuH # "none"
  /\ "cpu" \in pending
  /\ corePc \notin {"off", "stuck"}
  /\ pending' = pending \ {"cpu"}
  /\ LET ints == interrupts[signalType] IN
       IF "FAULT" \in ints \/ {"EXEC", "SYS"} \cap ints = {}
       THEN /\ proc' = IF "FAULT" \in ints
                       THEN [proc EXCEPT !["cpu"] = "dead"] ELSE proc
            /\ UNCHANGED << coreVars, ackMask >>
       ELSE /\ IR' = IF "EXEC" \in ints THEN execEntry ELSE IR
            /\ status' = "RUNNING"
            /\ corePc' = IF LockFree THEN corePc ELSE "stuck"
            /\ IDLE' = IF LockFree THEN FALSE ELSE IDLE
            /\ IF "EXEC" \in ints /\ LockFree
               THEN AckSignal(signalType, "EXEC") ELSE UNCHANGED ackMask
            /\ UNCHANGED << regVars, runningCycles, psVars, proc >>
  /\ UNCHANGED << cpuVars, metaVars, memVars, signalType, interrupts, pids >>

-----------------------------------------------------------------------------
CpuMain == CpuWaitReady \/ WaitExec \/ WaitIdle \/ CpuShutdown \/ CpuExit
CpuHandler == CpuSignal \/ CpuReadType \/ CpuFaulted \/ CpuReadInts \/ CpuExec
                \/ ResumeExec \/ AckExec \/ RunAgain \/ ResumeSys

(* The core may begin a cycle: not, with PromptResume, before the handler  *)
(* that resumed it has returned.                                           *)
MayCycle == PromptResume => cpuH \notin {"ackExec", "run2", "resume2"}

CpuThread ==
  \/ CpuStart
  \/ proc["cpu"] = "armed" /\ (CpuMain \/ CpuHandler)

CoreThread ==
  /\ proc["cpu"] = "armed"
  /\ \/ MayCycle /\ CoreCycle /\ UNCHANGED cpuVars
     \/ CoreEndsCycle /\ UNCHANGED cpuVars
     \/ CoreSignal
===============================================================================
