------------------------------- MODULE AruProofs -------------------------------
(***************************************************************************)
(* Proofs about the machine, for every set of programs, every code, every  *)
(* cycle limit, every behaviour of the signal heap and any number of       *)
(* commands: its types, and the order of its boot; and, in the second      *)
(* part, about the first command.                                          *)
(***************************************************************************)
EXTENDS Aru, TLAPS

-----------------------------------------------------------------------------
(* Types *)

(* What the types of the shared variables need to be kept: a load request  *)
(* names a program, and an exec request names an entry point.              *)
SharedInv ==
  /\ SharedTypeOK
  /\ unionTag = "loadprog" => loadprog \in Programs
  /\ \A g \in Pages : "EXEC" \in interrupts[g] => execEntry # "none"

(* The shell is behind a command only if there was one. *)
ShellInv ==
  /\ ShellTypeOK
  /\ shellPc \in {"loadType", "setLoad", "waitLoad", "argv"} => shellProg \in Programs

(* Behind a write the core knows which instruction it was. *)
CpuInv ==
  /\ CpuTypeOK
  /\ IR = "writeDone" => ix \in 1 .. MaxLen /\ userText \in Programs
  /\ cpuH = "exec" => execEntry # "none"

TInv == SharedInv /\ EmuTypeOK /\ ShellInv /\ CpuInv

(* What a request or an acknowledge does to a page, and a poke to the       *)
(* pending signals.                                                        *)
LEMMA EnableType ==
  /\ \A g \in Pages : IntEnable[g] \subseteq Bits
  /\ \A g \in Pages : "EXEC" \in IntEnable[g] <=> g = "SHELL_CPU"
  BY DEF IntEnable, Pages, Bits

LEMMA SetSignalType ==
  ASSUME interrupts \in [Pages -> SUBSET Bits], NEW g \in Pages, NEW b,
         SetSignal(g, b)
  PROVE  /\ interrupts' \in [Pages -> SUBSET Bits]
         /\ \A h \in Pages : \A c \in interrupts'[h] : c = b \/ c \in interrupts[h]
         /\ \A h \in Pages : interrupts[h] \subseteq interrupts'[h]
  BY EnableType DEF SetSignal

LEMMA AckSignalType ==
  ASSUME ackMask \in [Pages -> SUBSET Bits], NEW g \in Pages, NEW b,
         AckSignal(g, b)
  PROVE  /\ ackMask' \in [Pages -> SUBSET Bits]
         /\ \A h \in Pages : \A c \in ackMask'[h] : c = b \/ c \in ackMask[h]
  BY EnableType DEF AckSignal

LEMMA PokeType ==
  ASSUME pending \subseteq Procs, NEW Q \in SUBSET Procs, Poke(Q)
  PROVE  /\ pending' \subseteq Procs
         /\ \A p \in pending' \ pending : proc[p] # "dead"
  BY DEF Poke

(* The emulator keeps the types. *)
LEMMA EmuTInv == ASSUME TInv, EmuStep PROVE TInv'
  <1>. USE DEF TInv, EmuStep, EmuTypeOK, emuVars, SharedInv, SharedTypeOK,
         Procs, Pages, Bits, ProcStates, pageVars, metaVars, osVars, memVars,
         sharedVars
  <1>1. /\ SharedInv'
        /\ EmuTypeOK'
        /\ userText \in Programs => userText' \in Programs
        /\ execEntry # "none" => execEntry' # "none"
    <2>1. CASE ForkCPU
      BY <2>1 DEF ForkCPU, EmuMainAt, EmuGoto
    <2>2. CASE ForkShell
      BY <2>2 DEF ForkShell, EmuMainAt, EmuGoto
    <2>3. CASE SetPIDs
      BY <2>3 DEF SetPIDs, EmuMainAt, EmuGoto
    <2>4. CASE SetupKernel
      BY <2>4, SetSignalType DEF SetupKernel, EmuMainAt, SetExecSignal, EmuGoto
    <2>5. CASE SetReady
      BY <2>5, SetSignalType DEF SetReady, EmuMainAt, EmuGoto
    <2>6. CASE WaitShell
      BY <2>6 DEF WaitShell, EmuMainAt, EmuGoto
    <2>7. CASE WaitCPU
      BY <2>7 DEF WaitCPU, EmuMainAt, Exit
    <2>8. CASE EmuSignal
      BY <2>8 DEF EmuSignal, EmuHandlerAt, EmuHandlerGoto
    <2>9. CASE EmuReadType
      BY <2>9 DEF EmuReadType, EmuHandlerAt
    <2>10. CASE EmuReadInts
      BY <2>10 DEF EmuReadInts, EmuHandlerAt
    <2>11. CASE LoadBinary
      BY <2>11 DEF LoadBinary, EmuHandlerAt, NamedFile, EmuHandlerGoto
    <2>12. CASE LoadFatal
      BY <2>12 DEF LoadFatal, EmuHandlerAt, NamedFile, Exit
    <2>13. CASE AckLoad
      BY <2>13 DEF AckLoad, EmuHandlerAt, EmuHandlerGoto
    <2>14. CASE DumpCore
      BY <2>14 DEF DumpCore, EmuHandlerAt, EmuHandlerGoto
    <2>15. CASE DumpFails
      BY <2>15, SetSignalType, PokeType DEF DumpFails, EmuHandlerAt, EmuFault,
           Exit
    <2>16. CASE AllocBuffer
      <3>1. SharedInv'
        <4>1. heapUsed' \in BOOLEAN
          BY <2>16, Zenon DEF AllocBuffer, TInv, SharedInv, SharedTypeOK
        <4>2. QED
          BY <4>1, <2>16 DEF AllocBuffer, EmuHandlerAt, EmuHandlerGoto
      <3>2. EmuTypeOK'
        BY <2>16 DEF AllocBuffer, EmuHandlerAt, EmuHandlerGoto
      <3>3. userText \in Programs => userText' \in Programs
        BY <2>16 DEF AllocBuffer, EmuHandlerAt, EmuHandlerGoto
      <3>4. execEntry # "none" => execEntry' # "none"
        BY <2>16 DEF AllocBuffer, EmuHandlerAt, EmuHandlerGoto
      <3>. QED BY <3>1, <3>2, <3>3, <3>4
    <2>17. CASE AllocFails
      BY <2>17, SetSignalType, PokeType DEF AllocFails, EmuHandlerAt, EmuFault,
           Exit
    <2>18. CASE NoRequest
      BY <2>18 DEF NoRequest, EmuHandlerAt, EmuHandlerGoto
    <2>19. CASE WriteType
      BY <2>19 DEF WriteType, EmuHandlerAt, EmuHandlerGoto
    <2>20. CASE SetIO
      BY <2>20, SetSignalType, PokeType DEF SetIO, EmuHandlerAt, SetIOSignal,
           EmuHandlerGoto
    <2>21. CASE WaitIO
      BY <2>21 DEF WaitIO, EmuHandlerAt, EmuHandlerGoto
    <2>22. CASE SysType
      BY <2>22 DEF SysType, EmuHandlerAt, EmuHandlerGoto
    <2>23. CASE AckSys
      BY <2>23, PokeType DEF AckSys, EmuHandlerAt, EmuHandlerGoto
    <2>. QED BY <2>1, <2>2, <2>3, <2>4, <2>5, <2>6, <2>7, <2>8, <2>9, <2>10,
          <2>11, <2>12, <2>13, <2>14, <2>15, <2>16, <2>17, <2>18, <2>19, <2>20,
          <2>21, <2>22, <2>23
         DEF EmuNext, EmuBoot, EmuWait, EmuHandler, EmuLoad, EmuDump, EmuSys
  <1>2. ShellInv' /\ CpuInv'
    BY <1>1 DEF ShellInv, ShellTypeOK, shellVars, CpuInv, CpuTypeOK, CoreTypeOK,
          coreVars, cpuVars
  <1>. QED BY <1>1, <1>2

(* The shell keeps the types. *)
LEMMA ShellTInv == ASSUME TInv, (ShellAuto \/ PersonStep) PROVE TInv'
  <1>. USE DEF TInv, ShellInv, ShellTypeOK, shellVars, SharedInv, SharedTypeOK,
         Procs, Pages, Bits, ProcStates, pageVars, metaVars, osVars, memVars,
         sharedVars
  <1>1. /\ SharedInv'
        /\ ShellInv'
        /\ userText' = userText
        /\ execEntry # "none" => execEntry' # "none"
    <2>1. CASE ShellStart
      BY <2>1 DEF ShellStart, ShellGoto
    <2>2. CASE ShellWaitReady
      BY <2>2 DEF ShellWaitReady, ShellAt, ShellGoto
    <2>3. CASE WaitKernel
      BY <2>3 DEF WaitKernel, ShellAt, ShellGoto
    <2>4. CASE CopyArgv
      <3>1. SharedInv'
        <4>1. heapUsed' \in BOOLEAN
          BY <2>4, Zenon DEF CopyArgv, TInv, SharedInv, SharedTypeOK
        <4>2. QED
          BY <4>1, <2>4 DEF CopyArgv, ShellAt, ShellGoto
      <3>2. ShellInv'
        BY <2>4 DEF CopyArgv, ShellAt, ShellGoto
      <3>3. userText' = userText
        BY <2>4 DEF CopyArgv, ShellAt, ShellGoto
      <3>4. execEntry # "none" => execEntry' # "none"
        BY <2>4 DEF CopyArgv, ShellAt, ShellGoto
      <3>. QED BY <3>1, <3>2, <3>3, <3>4
    <2>5. CASE RefuseCommand
      <3>1. SharedInv'
        <4>1. heapUsed' \in BOOLEAN
          BY <2>5, Zenon DEF RefuseCommand, TInv, SharedInv, SharedTypeOK
        <4>2. QED
          BY <4>1, <2>5 DEF RefuseCommand, ShellAt
      <3>2. ShellInv'
        BY <2>5 DEF RefuseCommand, ShellAt
      <3>3. userText' = userText
        BY <2>5 DEF RefuseCommand, ShellAt
      <3>4. execEntry # "none" => execEntry' # "none"
        BY <2>5 DEF RefuseCommand, ShellAt
      <3>. QED BY <3>1, <3>2, <3>3, <3>4
    <2>6. CASE ArgvCrash
      BY <2>6, SetSignalType, PokeType DEF ArgvCrash, ShellAt, ShellCrash, Exit
    <2>7. CASE LoadType
      BY <2>7 DEF LoadType, ShellAt, ShellGoto
    <2>8. CASE SendLoad
      BY <2>8, SetSignalType, PokeType DEF SendLoad, ShellAt, SetLoadSignal,
           ShellGoto
    <2>9. CASE LoadCrash
      BY <2>9, PokeType DEF LoadCrash, ShellAt, ShellCrash, Exit
    <2>10. CASE WaitLoad
      BY <2>10 DEF WaitLoad, ShellAt, ShellGoto
    <2>11. CASE ExecType
      BY <2>11 DEF ExecType, ShellAt, ShellGoto
    <2>12. CASE SendExec
      BY <2>12, SetSignalType, PokeType DEF SendExec, ShellAt, SetExecSignal,
           ShellGoto
    <2>13. CASE WaitExit
      BY <2>13 DEF WaitExit, ShellAt
    <2>14. CASE WaitShutdown
      BY <2>14 DEF WaitShutdown, ShellAt, Exit
    <2>15. CASE ShellSignal
      BY <2>15 DEF ShellSignal, ShellHandlerGoto
    <2>16. CASE ShellReadType
      BY <2>16 DEF ShellReadType
    <2>17. CASE ShellReadInts
      BY <2>17 DEF ShellReadInts, ShellHandlerGoto
    <2>18. CASE ShellFaulted
      BY <2>18 DEF ShellFaulted, Exit
    <2>19. CASE PrintWrite
      BY <2>19 DEF PrintWrite
    <2>20. CASE AckIO
      BY <2>20 DEF AckIO, ShellHandlerGoto
    <2>21. CASE SendShutdown
      BY <2>21, SetSignalType DEF SendShutdown, ShellAt, ShellGoto
    <2>22. CASE EmptyLine
      BY <2>22, SetSignalType, PokeType DEF EmptyLine, ShellAt, ShellCrash,
           Exit
    <2>23. CASE \E p \in Programs : RunCommand(p)
      BY <2>23, MaxRunsAssumption DEF RunCommand, ShellAt
    <2>. QED BY <2>1, <2>2, <2>3, <2>4, <2>5, <2>6, <2>7, <2>8, <2>9, <2>10,
          <2>11, <2>12, <2>13, <2>14, <2>15, <2>16, <2>17, <2>18, <2>19, <2>20,
          <2>21, <2>22, <2>23
         DEF ShellAuto, PersonStep, ShellAsked, ShellUser, ShellWork,
             ShellBoot, ShellLoad, ShellExec, ShellHandler
  <1>2. EmuTypeOK' /\ CpuInv'
    BY <1>1 DEF ShellAuto, PersonStep, EmuTypeOK, emuVars, CpuInv, CpuTypeOK,
          CoreTypeOK, coreVars, cpuVars
  <1>. QED BY <1>1, <1>2

(* The processor's main thread and its handler keep the types. *)
LEMMA CpuTInv == ASSUME TInv, CpuStep PROVE TInv'
  <1>. USE DEF TInv, CpuStep, CpuInv, CpuTypeOK, CoreTypeOK, Locations,
         coreVars, cpuVars, regVars, psVars, SharedInv, SharedTypeOK, Procs,
         Pages, Bits, ProcStates, pageVars, metaVars, osVars, memVars,
         sharedVars
  <1>1. /\ SharedInv'
        /\ CpuInv'
    <2>1. CASE CpuStart
      BY <2>1 DEF CpuStart, CpuGoto
    <2>2. CASE CpuWaitReady
      BY <2>2 DEF CpuWaitReady, CpuAt, CpuGoto
    <2>3. CASE WaitExec
      BY <2>3 DEF WaitExec, CpuAt, CpuGoto
    <2>4. CASE WaitIdle
      BY <2>4, AckSignalType DEF WaitIdle, CpuAt, LockFree, CpuGoto
    <2>5. CASE CpuShutdown
      BY <2>5, AckSignalType DEF CpuShutdown, CpuAt, CpuGoto
    <2>6. CASE CpuExit
      BY <2>6 DEF CpuExit, CpuAt, Exit
    <2>7. CASE CpuSignal
      BY <2>7 DEF CpuSignal, CpuHandlerGoto
    <2>8. CASE CpuReadType
      BY <2>8 DEF CpuReadType
    <2>9. CASE CpuFaulted
      BY <2>9 DEF CpuFaulted, Exit
    <2>10. CASE CpuReadInts
      BY <2>10 DEF CpuReadInts, CpuHandlerGoto
    <2>11. CASE CpuExec
      BY <2>11 DEF CpuExec, CpuHandlerGoto
    <2>12. CASE ResumeExec
      <3>1. SharedInv'
        BY <2>12 DEF ResumeExec, LockFree, CpuHandlerGoto
      <3>2. CpuInv'
        <4>1. IDLE' \in BOOLEAN
          BY <2>12, Zenon DEF ResumeExec
        <4>2. QED
          BY <4>1, <2>12 DEF ResumeExec, LockFree, CpuHandlerGoto
      <3>. QED BY <3>1, <3>2
    <2>13. CASE AckExec
      BY <2>13, AckSignalType DEF AckExec, CpuHandlerGoto
    <2>14. CASE RunAgain
      BY <2>14 DEF RunAgain, CpuHandlerGoto
    <2>15. CASE ResumeSys
      <3>1. SharedInv'
        BY <2>15 DEF ResumeSys, LockFree, CpuHandlerGoto
      <3>2. CpuInv'
        <4>1. IDLE' \in BOOLEAN
          BY <2>15, Zenon DEF ResumeSys
        <4>2. QED
          BY <4>1, <2>15 DEF ResumeSys, LockFree, CpuHandlerGoto
      <3>. QED BY <3>1, <3>2
    <2>. QED BY <2>1, <2>2, <2>3, <2>4, <2>5, <2>6, <2>7, <2>8, <2>9, <2>10,
          <2>11, <2>12, <2>13, <2>14, <2>15
         DEF CpuThread, CpuMain, CpuHandler
  <1>2. EmuTypeOK' /\ ShellInv'
    BY DEF EmuTypeOK, emuVars, ShellInv, ShellTypeOK, shellVars
  <1>. QED BY <1>1, <1>2

(* What the handler does when it runs on the core thread. *)
LEMMA CoreSignalEffect ==
  ASSUME CoreSignal
  PROVE  /\ pending' = pending \ {"cpu"}
         /\ proc' \in {proc, [proc EXCEPT !["cpu"] = "dead"]}
         /\ ackMask' = ackMask \/ AckSignal(signalType, "EXEC")
         /\ IDLE' = IDLE \/ IDLE' = FALSE
         /\ IR' = IR \/ (IR' = execEntry /\ "EXEC" \in interrupts[signalType])
         /\ status' \in {status, "RUNNING"}
         /\ corePc' \in {corePc, "stuck"}
         /\ UNCHANGED << regVars, runningCycles, psVars, cpuVars >>
         /\ UNCHANGED << metaVars, memVars, signalType, interrupts, pids >>
  <1>. DEFINE ints == interrupts[signalType]
  <1>1. /\ pending' = pending \ {"cpu"}
        /\ UNCHANGED << cpuVars, metaVars, memVars, signalType, interrupts, pids >>
    BY DEF CoreSignal
  <1>2. CASE "FAULT" \in ints \/ {"EXEC", "SYS"} \cap ints = {}
    <2>1. /\ UNCHANGED << coreVars, ackMask >>
          /\ proc' = IF "FAULT" \in ints THEN [proc EXCEPT !["cpu"] = "dead"] ELSE proc
      BY <1>2 DEF CoreSignal
    <2>2. QED
      BY <1>1, <2>1 DEF coreVars, regVars, psVars
  <1>3. CASE ~("FAULT" \in ints \/ {"EXEC", "SYS"} \cap ints = {})
    <2>1. /\ IR' = IF "EXEC" \in ints THEN execEntry ELSE IR
          /\ status' = "RUNNING"
          /\ corePc' = IF LockFree THEN corePc ELSE "stuck"
          /\ IDLE' = IF LockFree THEN FALSE ELSE IDLE
          /\ IF "EXEC" \in ints /\ LockFree
             THEN AckSignal(signalType, "EXEC") ELSE UNCHANGED ackMask
          /\ UNCHANGED << regVars, runningCycles, psVars, proc >>
      BY <1>3 DEF CoreSignal
    <2>2. QED
      BY <1>1, <2>1
  <1>. QED BY <1>2, <1>3

(* The core thread keeps the types. *)
LEMMA CoreTInv == ASSUME TInv, CoreStep PROVE TInv'
  <1>. USE DEF TInv, CoreStep, CpuInv, CpuTypeOK, CoreTypeOK, Locations,
         coreVars, cpuVars, regVars, psVars, SharedInv, SharedTypeOK, Procs,
         Pages, Bits, ProcStates, pageVars, metaVars, osVars, memVars,
         sharedVars
  <1>1. /\ SharedInv'
        /\ CpuInv'
    <2>1. CASE KernelInit /\ UNCHANGED cpuVars
      BY <2>1 DEF KernelInit, CycleTo
    <2>2. CASE UserSetup /\ UNCHANGED cpuVars
      BY <2>2, MaxLenAssumption DEF UserSetup, CycleTo
    <2>3. CASE SetupAborts /\ UNCHANGED cpuVars
      BY <2>3 DEF SetupAborts, CycleTo, Exception
    <2>4. CASE HandlerHalts /\ UNCHANGED cpuVars
      BY <2>4 DEF HandlerHalts, CycleTo, HaltStatus
    <2>5. CASE WriteReturns /\ UNCHANGED cpuVars
      BY <2>5, MaxLenAssumption DEF WriteReturns, CycleTo
    <2>6. CASE MarkAbort /\ UNCHANGED cpuVars
      BY <2>6 DEF MarkAbort, CycleTo
    <2>7. CASE KernelFault /\ UNCHANGED cpuVars
      BY <2>7, SetSignalType, PokeType DEF KernelFault, Fault
    <2>8. CASE UserStep /\ UNCHANGED cpuVars
      BY <2>8, CodeAssumption, MaxLenAssumption DEF UserStep, UserAt, CycleTo,
           UserInstr
    <2>9. CASE SyscallWrite /\ UNCHANGED cpuVars
      BY <2>9, CodeAssumption, MaxLenAssumption DEF SyscallWrite, UserAt,
           CycleTo, Exception, UserInstr
    <2>10. CASE SyscallExit /\ UNCHANGED cpuVars
      <3>1. SharedInv'
        BY <2>10 DEF SyscallExit, UserAt, CycleTo, Exception, HaltStatus,
             UserInstr
      <3>2. CpuInv'
        <4>1. psPtr' \in BOOLEAN
          BY <2>10, Zenon DEF SyscallExit
        <4>2. QED
          BY <4>1, <2>10 DEF SyscallExit, UserAt, CycleTo, Exception,
               HaltStatus, UserInstr
      <3>. QED BY <3>1, <3>2
    <2>11. CASE UserAborts /\ UNCHANGED cpuVars
      BY <2>11 DEF UserAborts, UserAt, CycleTo, UserInstr, Exception,
           HaltStatus
    <2>12. CASE BadSyscall /\ UNCHANGED cpuVars
      BY <2>12, SetSignalType, PokeType DEF BadSyscall, UserAt, Exception,
           Fault, UserInstr
    <2>13. CASE DivideByZero /\ UNCHANGED cpuVars
      BY <2>13 DEF DivideByZero, UserAt, Exit, UserInstr
    <2>14. CASE Raised /\ UNCHANGED cpuVars
      BY <2>14 DEF Raised, Exit
    <2>15. CASE KeepsRunning /\ UNCHANGED cpuVars
      BY <2>15, CycleLimitAssumption DEF KeepsRunning, StatusNow, Cycle
    <2>16. CASE GoesIdle /\ UNCHANGED cpuVars
      BY <2>16, CycleLimitAssumption DEF GoesIdle, StatusNow, Cycle
    <2>17. CASE AsksIO /\ UNCHANGED cpuVars
      BY <2>17, CycleLimitAssumption DEF AsksIO, StatusNow, Cycle
    <2>18. CASE SendsSys /\ UNCHANGED cpuVars
      BY <2>18, SetSignalType, PokeType DEF SendsSys, SetSysSignal, Writes
    <2>19. CASE HaltsKernel /\ UNCHANGED cpuVars
      BY <2>19, CycleLimitAssumption DEF HaltsKernel, HaltOf
    <2>20. CASE HaltsExit /\ UNCHANGED cpuVars
      BY <2>20, CycleLimitAssumption DEF HaltsExit, Aborted, HaltOf
    <2>21. CASE HaltsAborted /\ UNCHANGED cpuVars
      <3>1. SharedInv'
        <4>1. dumped' \in BOOLEAN
          BY <2>21, Zenon DEF HaltsAborted
        <4>2. QED
          BY <4>1, <2>21, SetSignalType, PokeType, CycleLimitAssumption DEF
               HaltsAborted, Aborted, HaltOf
      <3>2. CpuInv'
        BY <2>21, SetSignalType, PokeType, CycleLimitAssumption DEF
             HaltsAborted, Aborted, HaltOf
      <3>. QED BY <3>1, <3>2
    <2>22. CASE FaultAcked /\ UNCHANGED cpuVars
      BY <2>22, SetSignalType, CycleLimitAssumption DEF FaultAcked
    <2>23. CASE CoreSignal
      <3>1. SharedInv'
        <4>1. ackMask' \in [Pages -> SUBSET Bits]
          BY <2>23, CoreSignalEffect, AckSignalType
        <4>2. proc' \in [Procs -> ProcStates]
          <5>1. proc' = proc \/ proc' = [proc EXCEPT !["cpu"] = "dead"]
            BY <2>23, CoreSignalEffect, Zenon
          <5>2. QED
            BY <5>1
        <4>3. pending' \subseteq Procs
          BY <2>23, CoreSignalEffect
        <4>4. UNCHANGED << metaVars, memVars, signalType, interrupts, pids >>
          BY <2>23, CoreSignalEffect
        <4>5. QED
          BY <4>1, <4>2, <4>3, <4>4
      <3>2. CpuInv'
        <4>1. IDLE' \in BOOLEAN
          BY <2>23, CoreSignalEffect, Zenon
        <4>2. /\ IR' = IR \/ (IR' = execEntry /\ execEntry # "none")
              /\ status' \in {status, "RUNNING"} /\ corePc' \in {corePc, "stuck"}
          BY <2>23, CoreSignalEffect
        <4>3. UNCHANGED << regVars, runningCycles, psVars, cpuVars, metaVars, memVars >>
          BY <2>23, CoreSignalEffect
        <4>4. QED
          BY <4>1, <4>2, <4>3
      <3>. QED BY <3>1, <3>2
    <2>. QED BY <2>1, <2>2, <2>3, <2>4, <2>5, <2>6, <2>7, <2>8, <2>9, <2>10,
          <2>11, <2>12, <2>13, <2>14, <2>15, <2>16, <2>17, <2>18, <2>19, <2>20,
          <2>21, <2>22, <2>23
         DEF CoreThread, CoreCycle, CoreKernel, CoreUser, CoreEndsCycle
  <1>2. EmuTypeOK' /\ ShellInv'
    BY DEF EmuTypeOK, emuVars, ShellInv, ShellTypeOK, shellVars
  <1>. QED BY <1>1, <1>2

(* The initial states have their types. *)
LEMMA TInvInit == ASSUME Init PROVE TInv
  <1>1. pids \in BOOLEAN /\ heapUsed \in BOOLEAN /\ dumped \in BOOLEAN
    BY Zenon DEF Init, SharedInit
  <1>2. SharedInv
    BY <1>1 DEF Init, SharedInit, SharedInv, SharedTypeOK, Pages, Bits, Procs,
       ProcStates
  <1>3. EmuTypeOK
    BY DEF Init, EmuInit, EmuTypeOK, Pages
  <1>4. ShellInv
    BY MaxRunsAssumption DEF Init, ShellInit, ShellInv, ShellTypeOK, Pages
  <1>5. /\ ioBit \in BOOLEAN /\ savedIoBit \in BOOLEAN
        /\ IDLE \in BOOLEAN /\ psPtr \in BOOLEAN
    BY Zenon DEF Init, CpuInit, CoreInit
  <1>6. CpuInv
    BY <1>5, MaxLenAssumption, CycleLimitAssumption DEF Init, CpuInit, CoreInit,
       CpuInv, CpuTypeOK, CoreTypeOK, Locations, Pages
  <1>. QED BY <1>2, <1>3, <1>4, <1>6 DEF TInv

(* Every reachable state has its types. *)
LEMMA TInvHolds == Spec => []TInv
  <1>1. Init => TInv
    BY TInvInit
  <1>2. TInv /\ [Next]_vars => TInv'
    <2>. SUFFICES ASSUME TInv, [Next]_vars PROVE TInv'
      OBVIOUS
    <2>1. CASE Next
      BY <2>1, EmuTInv, ShellTInv, CpuTInv, CoreTInv DEF Next
    <2>2. CASE UNCHANGED vars
      BY <2>2 DEF vars, sharedVars, pageVars, metaVars, osVars, memVars, emuVars,
         shellVars, coreVars, cpuVars, TInv, SharedInv, SharedTypeOK, EmuTypeOK,
         ShellInv, ShellTypeOK, CpuInv, CpuTypeOK, CoreTypeOK
    <2>. QED BY <2>1, <2>2
  <1>. QED BY <1>1, <1>2, PTL DEF Spec

(* The variables of the four state machines keep their types.              *)
THEOREM TypeCorrect == Spec => []TypeOK
  <1>1. TInv => TypeOK
    BY DEF TInv, SharedInv, ShellInv, CpuInv, TypeOK
  <1>. QED BY <1>1, TInvHolds, PTL

-----------------------------------------------------------------------------
(* The order of the boot *)

(* Behind the boot: what the first prompt waited for, which stays so.      *)
Booted ==
  /\ pids
  /\ \A p \in Procs : proc[p] \in {"armed", "dead"}
  /\ "READY" \in interrupts["UNIVERSAL"]
  /\ emuPc \in {"waitShell", "waitCPU"}
  /\ cpuPc \in {"waitShutdown", "exiting"}

(* What the emulator has done by which point of its boot. *)
EmuOrder ==
  /\ proc["emulator"] \in {"armed", "dead"}
  /\ emuPc = "forkCPU" => proc["cpu"] = "none"
  /\ emuPc \in {"forkCPU", "forkShell"} => proc["shell"] = "none"
  /\ emuPc \in {"setupKernel", "setReady", "waitShell", "waitCPU"} => pids
  /\ "READY" \in interrupts["UNIVERSAL"] => emuPc \in {"waitShell", "waitCPU"}

(* Each child starts by installing its handler and goes on when READY is   *)
(* set; the processor acknowledges the kernel's run last.                  *)
ChildOrder ==
  /\ shellPc = "start" <=> proc["shell"] \in {"none", "booting"}
  /\ cpuPc = "start" <=> proc["cpu"] \in {"none", "booting"}
  /\ shellPc \notin {"start", "waitReady"} => "READY" \in interrupts["UNIVERSAL"]
  /\ "EXEC" \in ackMask["SHELL_CPU"] => cpuPc \in {"waitShutdown", "exiting"}

(* Nobody pokes, handles a poke or allocates. *)
BootQuiet ==
  /\ pending = {}
  /\ emuH = "none" /\ shellH = "none" /\ cpuH = "none"
  /\ ~heapUsed
  /\ execEntry \in {"none", "init"}

(* The core is not created, in the kernel's _init, or idle behind it.      *)
CoreBoot ==
  /\ userPS = "null"
  /\ IF cpuPc \in {"start", "waitReady", "waitExec"}
     THEN corePc = "off" /\ ~IDLE
     ELSE /\ PRIV = "kernel"
          /\ \/ corePc = "loop" /\ ~IDLE /\ IR = "init"
             \/ corePc = "check" /\ ~IDLE /\ IR = "usrSetup" /\ status = "HLT"
             \/ corePc \in {"halted", "loop"} /\ IDLE /\ IR = "usrSetup"
  /\ cpuPc \in {"waitShutdown", "exiting"} => IDLE /\ corePc = "loop"

Booting == EmuOrder /\ ChildOrder /\ BootQuiet /\ CoreBoot

(* The invariant of the boot. *)
BInv == TInv /\ (AtPrompt => Booted) /\ (~AtPrompt => Booting)

(* The emulator keeps the machine booted and pokes only armed processes.   *)
LEMMA EmuBooted ==
  ASSUME SharedTypeOK, AtPrompt, Booted, EmuStep
  PROVE  AtPrompt' /\ Booted' /\ \A p \in pending' \ pending : proc[p] = "armed"
  <1>. USE DEF Booted, AtPrompt, SharedTypeOK, Procs, Pages, Bits, EmuStep,
         shellVars, cpuVars
  <1>1. CASE ForkCPU
    BY <1>1 DEF ForkCPU, EmuMainAt, EmuGoto, pageVars, metaVars, memVars
  <1>2. CASE ForkShell
    BY <1>2 DEF ForkShell, EmuMainAt, EmuGoto, pageVars, metaVars, memVars
  <1>3. CASE SetPIDs
    BY <1>3 DEF SetPIDs, EmuMainAt, EmuGoto, pageVars, metaVars, memVars
  <1>4. CASE SetupKernel
    BY <1>4, SetSignalType DEF SetupKernel, EmuMainAt, SetExecSignal, EmuGoto,
         osVars, memVars
  <1>5. CASE SetReady
    BY <1>5, SetSignalType DEF SetReady, EmuMainAt, EmuGoto, metaVars, osVars,
         memVars
  <1>6. CASE WaitShell
    BY <1>6 DEF WaitShell, EmuMainAt, EmuGoto, sharedVars, pageVars, metaVars,
         osVars, memVars
  <1>7. CASE WaitCPU
    BY <1>7 DEF WaitCPU, EmuMainAt, Exit, emuVars, pageVars, metaVars, memVars
  <1>8. CASE EmuSignal
    BY <1>8 DEF EmuSignal, EmuHandlerAt, EmuHandlerGoto, pageVars, metaVars,
         memVars
  <1>9. CASE EmuReadType
    BY <1>9 DEF EmuReadType, EmuHandlerAt, sharedVars, pageVars, metaVars,
         osVars, memVars
  <1>10. CASE EmuReadInts
    BY <1>10 DEF EmuReadInts, EmuHandlerAt, sharedVars, pageVars, metaVars,
         osVars, memVars
  <1>11. CASE LoadBinary
    BY <1>11 DEF LoadBinary, EmuHandlerAt, EmuHandlerGoto, pageVars, metaVars,
         osVars
  <1>12. CASE LoadFatal
    BY <1>12 DEF LoadFatal, EmuHandlerAt, Exit, emuVars, pageVars, metaVars,
         memVars
  <1>13. CASE AckLoad
    BY <1>13 DEF AckLoad, EmuHandlerAt, EmuHandlerGoto, metaVars, osVars,
         memVars
  <1>14. CASE DumpCore
    BY <1>14 DEF DumpCore, EmuHandlerAt, EmuHandlerGoto, metaVars, osVars
  <1>15. CASE DumpFails
    BY <1>15, SetSignalType, PokeType DEF DumpFails, EmuHandlerAt, EmuFault,
         Exit, emuVars, metaVars, memVars
  <1>16. CASE AllocBuffer
    BY <1>16 DEF AllocBuffer, EmuHandlerAt, EmuHandlerGoto, pageVars, metaVars,
         osVars
  <1>17. CASE AllocFails
    BY <1>17, SetSignalType, PokeType DEF AllocFails, EmuHandlerAt, EmuFault,
         Exit, emuVars, metaVars, memVars
  <1>18. CASE NoRequest
    BY <1>18 DEF NoRequest, EmuHandlerAt, EmuHandlerGoto, sharedVars, pageVars,
         metaVars, osVars, memVars
  <1>19. CASE WriteType
    BY <1>19 DEF WriteType, EmuHandlerAt, EmuHandlerGoto, metaVars, osVars,
         memVars
  <1>20. CASE SetIO
    BY <1>20, SetSignalType, PokeType DEF SetIO, EmuHandlerAt, SetIOSignal,
         EmuHandlerGoto, memVars
  <1>21. CASE WaitIO
    BY <1>21 DEF WaitIO, EmuHandlerAt, EmuHandlerGoto, metaVars, osVars,
         memVars
  <1>22. CASE SysType
    BY <1>22 DEF SysType, EmuHandlerAt, EmuHandlerGoto, metaVars, osVars,
         memVars
  <1>23. CASE AckSys
    BY <1>23, PokeType DEF AckSys, EmuHandlerAt, EmuHandlerGoto, metaVars,
         memVars
  <1>. QED BY <1>1, <1>2, <1>3, <1>4, <1>5, <1>6, <1>7, <1>8, <1>9, <1>10,
        <1>11, <1>12, <1>13, <1>14, <1>15, <1>16, <1>17, <1>18, <1>19, <1>20,
        <1>21, <1>22, <1>23
    DEF EmuNext, EmuBoot, EmuWait, EmuHandler, EmuLoad, EmuDump, EmuSys

(* So does the shell. *)
LEMMA ShellBooted ==
  ASSUME SharedTypeOK, AtPrompt, Booted, (ShellAuto \/ PersonStep)
  PROVE  AtPrompt' /\ Booted' /\ \A p \in pending' \ pending : proc[p] = "armed"
  <1>. USE DEF Booted, AtPrompt, SharedTypeOK, Procs, Pages, Bits, ShellAuto,
         PersonStep, emuVars, cpuVars
  <1>1. CASE ShellStart
    BY <1>1 DEF ShellStart, ShellGoto, pageVars, metaVars, memVars
  <1>2. CASE ShellWaitReady
    BY <1>2 DEF ShellWaitReady, ShellAt, ShellGoto, sharedVars, pageVars,
         metaVars, osVars, memVars
  <1>3. CASE WaitKernel
    BY <1>3 DEF WaitKernel, ShellAt, ShellGoto, metaVars, osVars, memVars
  <1>4. CASE CopyArgv
    BY <1>4 DEF CopyArgv, ShellAt, ShellGoto, pageVars, metaVars, osVars
  <1>5. CASE RefuseCommand
    BY <1>5 DEF RefuseCommand, ShellAt, pageVars, metaVars, osVars
  <1>6. CASE ArgvCrash
    BY <1>6, SetSignalType, PokeType DEF ArgvCrash, ShellAt, ShellCrash, Exit,
         shellVars, metaVars, memVars
  <1>7. CASE LoadType
    BY <1>7 DEF LoadType, ShellAt, ShellGoto, metaVars, osVars, memVars
  <1>8. CASE SendLoad
    BY <1>8, SetSignalType, PokeType DEF SendLoad, ShellAt, SetLoadSignal,
         ShellGoto, memVars
  <1>9. CASE LoadCrash
    BY <1>9, PokeType DEF LoadCrash, ShellAt, ShellCrash, Exit, shellVars,
         metaVars, memVars
  <1>10. CASE WaitLoad
    BY <1>10 DEF WaitLoad, ShellAt, ShellGoto, sharedVars, pageVars, metaVars,
         osVars, memVars
  <1>11. CASE ExecType
    BY <1>11 DEF ExecType, ShellAt, ShellGoto, metaVars, osVars, memVars
  <1>12. CASE SendExec
    BY <1>12, SetSignalType, PokeType DEF SendExec, ShellAt, SetExecSignal,
         ShellGoto, memVars
  <1>13. CASE WaitExit
    BY <1>13 DEF WaitExit, ShellAt, metaVars, osVars, memVars
  <1>14. CASE WaitShutdown
    BY <1>14 DEF WaitShutdown, ShellAt, Exit, shellVars, pageVars, metaVars,
         memVars
  <1>15. CASE ShellSignal
    BY <1>15 DEF ShellSignal, ShellHandlerGoto, pageVars, metaVars, memVars
  <1>16. CASE ShellReadType
    BY <1>16 DEF ShellReadType, sharedVars, pageVars, metaVars, osVars, memVars
  <1>17. CASE ShellReadInts
    BY <1>17 DEF ShellReadInts, ShellHandlerGoto, sharedVars, pageVars,
         metaVars, osVars, memVars
  <1>18. CASE ShellFaulted
    BY <1>18 DEF ShellFaulted, Exit, shellVars, pageVars, metaVars, memVars
  <1>19. CASE PrintWrite
    BY <1>19 DEF PrintWrite, sharedVars, pageVars, metaVars, osVars, memVars
  <1>20. CASE AckIO
    BY <1>20 DEF AckIO, ShellHandlerGoto, metaVars, osVars, memVars
  <1>21. CASE SendShutdown
    BY <1>21, SetSignalType DEF SendShutdown, ShellAt, ShellGoto, metaVars,
         osVars, memVars
  <1>22. CASE EmptyLine
    BY <1>22, SetSignalType, PokeType DEF EmptyLine, ShellAt, ShellCrash, Exit,
         shellVars, metaVars, memVars
  <1>23. CASE \E p \in Programs : RunCommand(p)
    BY <1>23 DEF RunCommand, ShellAt, sharedVars, pageVars, metaVars, osVars,
         memVars
  <1>. QED BY <1>1, <1>2, <1>3, <1>4, <1>5, <1>6, <1>7, <1>8, <1>9, <1>10,
        <1>11, <1>12, <1>13, <1>14, <1>15, <1>16, <1>17, <1>18, <1>19, <1>20,
        <1>21, <1>22, <1>23
    DEF ShellAsked, ShellUser, ShellWork, ShellBoot, ShellLoad, ShellExec,
        ShellHandler

(* So does the processor, on its main thread *)
LEMMA CpuBooted ==
  ASSUME SharedTypeOK, AtPrompt, Booted, CpuStep
  PROVE  AtPrompt' /\ Booted' /\ \A p \in pending' \ pending : proc[p] = "armed"
  <1>. USE DEF Booted, AtPrompt, SharedTypeOK, Procs, Pages, Bits, CpuStep,
         emuVars, shellVars
  <1>1. CASE CpuStart
    BY <1>1 DEF CpuStart, CpuGoto, coreVars, pageVars, metaVars, memVars
  <1>2. CASE CpuWaitReady
    BY <1>2 DEF CpuWaitReady, CpuAt, CpuGoto, coreVars, sharedVars, pageVars,
         metaVars, osVars, memVars
  <1>3. CASE WaitExec
    BY <1>3 DEF WaitExec, CpuAt, CpuGoto, psVars, sharedVars, pageVars,
         metaVars, osVars, memVars
  <1>4. CASE WaitIdle
    BY <1>4, AckSignalType DEF WaitIdle, CpuAt, LockFree, CpuGoto, coreVars,
         metaVars, osVars, memVars
  <1>5. CASE CpuShutdown
    BY <1>5, AckSignalType DEF CpuShutdown, CpuAt, CpuGoto, coreVars, metaVars,
         osVars, memVars
  <1>6. CASE CpuExit
    BY <1>6 DEF CpuExit, CpuAt, Exit, coreVars, cpuVars, pageVars, metaVars,
         memVars
  <1>7. CASE CpuSignal
    BY <1>7 DEF CpuSignal, CpuHandlerGoto, coreVars, pageVars, metaVars,
         memVars
  <1>8. CASE CpuReadType
    BY <1>8 DEF CpuReadType, coreVars, sharedVars, pageVars, metaVars, osVars,
         memVars
  <1>9. CASE CpuFaulted
    BY <1>9 DEF CpuFaulted, Exit, coreVars, cpuVars, pageVars, metaVars,
         memVars
  <1>10. CASE CpuReadInts
    BY <1>10 DEF CpuReadInts, CpuHandlerGoto, coreVars, sharedVars, pageVars,
         metaVars, osVars, memVars
  <1>11. CASE CpuExec
    BY <1>11 DEF CpuExec, CpuHandlerGoto, regVars, psVars, sharedVars,
         pageVars, metaVars, osVars, memVars
  <1>12. CASE ResumeExec
    BY <1>12 DEF ResumeExec, LockFree, CpuHandlerGoto, regVars, psVars,
         sharedVars, pageVars, metaVars, osVars, memVars
  <1>13. CASE AckExec
    BY <1>13, AckSignalType DEF AckExec, CpuHandlerGoto, coreVars, metaVars,
         osVars, memVars
  <1>14. CASE RunAgain
    BY <1>14 DEF RunAgain, CpuHandlerGoto, regVars, psVars, sharedVars,
         pageVars, metaVars, osVars, memVars
  <1>15. CASE ResumeSys
    BY <1>15 DEF ResumeSys, LockFree, CpuHandlerGoto, regVars, psVars,
         sharedVars, pageVars, metaVars, osVars, memVars
  <1>. QED BY <1>1, <1>2, <1>3, <1>4, <1>5, <1>6, <1>7, <1>8, <1>9, <1>10,
        <1>11, <1>12, <1>13, <1>14, <1>15
    DEF CpuThread, CpuMain, CpuHandler

(* and on the core thread. *)
LEMMA CoreBooted ==
  ASSUME SharedTypeOK, AtPrompt, Booted, CoreStep
  PROVE  AtPrompt' /\ Booted' /\ \A p \in pending' \ pending : proc[p] = "armed"
  <1>. USE DEF Booted, AtPrompt, SharedTypeOK, Procs, Pages, Bits, CoreStep,
         emuVars, shellVars
  <1>1. CASE KernelInit /\ UNCHANGED cpuVars
    BY <1>1 DEF KernelInit, CycleTo, regVars, psVars, sharedVars, pageVars,
         metaVars, osVars, memVars, cpuVars
  <1>2. CASE UserSetup /\ UNCHANGED cpuVars
    BY <1>2 DEF UserSetup, CycleTo, sharedVars, pageVars, metaVars, osVars,
         memVars, cpuVars
  <1>3. CASE SetupAborts /\ UNCHANGED cpuVars
    BY <1>3 DEF SetupAborts, CycleTo, Exception, sharedVars, pageVars,
         metaVars, osVars, memVars, cpuVars
  <1>4. CASE HandlerHalts /\ UNCHANGED cpuVars
    BY <1>4 DEF HandlerHalts, CycleTo, regVars, psVars, sharedVars, pageVars,
         metaVars, osVars, memVars, cpuVars
  <1>5. CASE WriteReturns /\ UNCHANGED cpuVars
    BY <1>5 DEF WriteReturns, CycleTo, psVars, sharedVars, pageVars, metaVars,
         osVars, memVars, cpuVars
  <1>6. CASE MarkAbort /\ UNCHANGED cpuVars
    BY <1>6 DEF MarkAbort, CycleTo, regVars, sharedVars, pageVars, metaVars,
         osVars, memVars, cpuVars
  <1>7. CASE KernelFault /\ UNCHANGED cpuVars
    <2>1. PICK l : Fault(l)
      BY <1>7, Zenon DEF KernelFault
    <2>2. QED
      BY <1>7, SetSignalType, PokeType, <2>1 DEF Fault, metaVars, memVars,
         cpuVars
  <1>8. CASE UserStep /\ UNCHANGED cpuVars
    BY <1>8 DEF UserStep, UserAt, CycleTo, psVars, sharedVars, pageVars,
         metaVars, osVars, memVars, cpuVars
  <1>9. CASE SyscallWrite /\ UNCHANGED cpuVars
    BY <1>9 DEF SyscallWrite, UserAt, CycleTo, Exception, sharedVars, pageVars,
         metaVars, osVars, memVars, cpuVars
  <1>10. CASE SyscallExit /\ UNCHANGED cpuVars
    BY <1>10 DEF SyscallExit, UserAt, CycleTo, Exception, sharedVars, pageVars,
         metaVars, osVars, memVars, cpuVars
  <1>11. CASE UserAborts /\ UNCHANGED cpuVars
    BY <1>11 DEF UserAborts, UserAt, CycleTo, Exception, sharedVars, pageVars,
         metaVars, osVars, memVars, cpuVars
  <1>12. CASE BadSyscall /\ UNCHANGED cpuVars
    BY <1>12, SetSignalType, PokeType DEF BadSyscall, UserAt, Exception, Fault,
         metaVars, memVars, cpuVars
  <1>13. CASE DivideByZero /\ UNCHANGED cpuVars
    BY <1>13 DEF DivideByZero, UserAt, Exit, coreVars, pageVars, metaVars,
         memVars, cpuVars
  <1>14. CASE Raised /\ UNCHANGED cpuVars
    BY <1>14 DEF Raised, Exit, regVars, psVars, pageVars, metaVars, memVars,
         cpuVars
  <1>15. CASE KeepsRunning /\ UNCHANGED cpuVars
    BY <1>15 DEF KeepsRunning, regVars, psVars, sharedVars, pageVars, metaVars,
         osVars, memVars, cpuVars
  <1>16. CASE GoesIdle /\ UNCHANGED cpuVars
    BY <1>16 DEF GoesIdle, regVars, psVars, sharedVars, pageVars, metaVars,
         osVars, memVars, cpuVars
  <1>17. CASE AsksIO /\ UNCHANGED cpuVars
    BY <1>17 DEF AsksIO, regVars, psVars, metaVars, osVars, memVars, cpuVars
  <1>18. CASE SendsSys /\ UNCHANGED cpuVars
    BY <1>18, SetSignalType, PokeType DEF SendsSys, SetSysSignal, regVars,
         psVars, memVars, cpuVars
  <1>19. CASE HaltsKernel /\ UNCHANGED cpuVars
    BY <1>19 DEF HaltsKernel, HaltOf, sharedVars, regVars, psVars, pageVars,
         metaVars, osVars, memVars, cpuVars
  <1>20. CASE HaltsExit /\ UNCHANGED cpuVars
    BY <1>20 DEF HaltsExit, HaltOf, metaVars, osVars, memVars, regVars, psVars,
         cpuVars
  <1>21. CASE HaltsAborted /\ UNCHANGED cpuVars
    BY <1>21, SetSignalType, PokeType DEF HaltsAborted, HaltOf, metaVars,
         regVars, psVars, cpuVars
  <1>22. CASE FaultAcked /\ UNCHANGED cpuVars
    BY <1>22, SetSignalType DEF FaultAcked, regVars, psVars, metaVars, osVars,
         memVars, cpuVars
  <1>23. CASE CoreSignal
    BY <1>23, CoreSignalEffect DEF cpuVars
  <1>. QED BY <1>1, <1>2, <1>3, <1>4, <1>5, <1>6, <1>7, <1>8, <1>9, <1>10,
        <1>11, <1>12, <1>13, <1>14, <1>15, <1>16, <1>17, <1>18, <1>19, <1>20,
        <1>21, <1>22, <1>23
    DEF CoreThread, CoreCycle, CoreKernel, CoreUser, CoreEndsCycle
(* Before the prompt the emulator only boots, *)
LEMMA EmuBooting ==
  ASSUME SharedTypeOK, ~AtPrompt, Booting, EmuStep
  PROVE  ~AtPrompt' /\ Booting'
  <1>. USE DEF Booting, EmuOrder, ChildOrder, BootQuiet, CoreBoot,
         SharedTypeOK, AtPrompt, Procs, Pages, Bits, ProcStates, EmuStep,
         emuVars, shellVars, coreVars, cpuVars, pageVars, metaVars, osVars,
         memVars, sharedVars
  <1>1. CASE ForkCPU
    BY <1>1 DEF ForkCPU, EmuMainAt, EmuGoto
  <1>2. CASE ForkShell
    BY <1>2 DEF ForkShell, EmuMainAt, EmuGoto
  <1>3. CASE SetPIDs
    BY <1>3 DEF SetPIDs, EmuMainAt, EmuGoto
  <1>4. CASE SetupKernel
    BY <1>4 DEF SetupKernel, EmuMainAt, SetExecSignal, EmuGoto, SetSignal,
         IntEnable
  <1>5. CASE SetReady
    BY <1>5 DEF SetReady, EmuMainAt, SetSignal, EmuGoto, IntEnable
  <1>6. CASE WaitShell
    BY <1>6 DEF WaitShell, EmuMainAt, EmuGoto
  <1>7. CASE WaitCPU
    BY <1>7 DEF WaitCPU, EmuMainAt, Exit
  <1>8. ~(EmuHandler)
    BY DEF EmuHandler, EmuSignal, EmuReadType, EmuReadInts, EmuLoad,
         LoadBinary, LoadFatal, AckLoad, EmuDump, DumpCore, DumpFails, EmuSys,
         AllocBuffer, AllocFails, NoRequest, WriteType, SetIO, WaitIO, SysType,
         AckSys, EmuHandlerAt
  <1>. QED BY <1>1, <1>2, <1>3, <1>4, <1>5, <1>6, <1>7, <1>8
    DEF EmuNext, EmuBoot, EmuWait

(* the shell only waits, in the end for the idle core, *)
LEMMA ShellBooting ==
  ASSUME SharedTypeOK, ~AtPrompt, Booting, (ShellAuto \/ PersonStep)
  PROVE  /\ ~AtPrompt' => Booting'
         /\ AtPrompt' => /\ Booted' /\ pending = {} /\ pending' = {}
                         /\ IDLE /\ LockFree /\ IR = "usrSetup" /\ PRIV = "kernel"
  <1>. USE DEF Booting, EmuOrder, ChildOrder, BootQuiet, CoreBoot,
         SharedTypeOK, AtPrompt, Procs, Pages, Bits, ProcStates, ShellAuto,
         PersonStep, emuVars, shellVars, coreVars, cpuVars, pageVars, metaVars,
         osVars, memVars, sharedVars
  <1>1. CASE ShellStart
    BY <1>1 DEF ShellStart, ShellGoto
  <1>2. CASE ShellWaitReady
    BY <1>2 DEF ShellWaitReady, ShellAt, ShellGoto
  <1>3. CASE WaitKernel
    BY <1>3 DEF WaitKernel, Booted, LockFree, ShellAt, ShellGoto
  <1>4. ~(ShellLoad \/ ShellExec \/ WaitShutdown \/ ShellHandler \/ ShellAsked)
    BY DEF ShellLoad, CopyArgv, RefuseCommand, ArgvCrash, LoadType, SendLoad,
         LoadCrash, WaitLoad, ShellExec, ExecType, SendExec, WaitExit,
         WaitShutdown, ShellHandler, ShellSignal, ShellReadType, ShellReadInts,
         ShellFaulted, PrintWrite, AckIO, ShellAsked, ShellUser, SendShutdown,
         EmptyLine, RunCommand, ShellAt
  <1>. QED BY <1>1, <1>2, <1>3, <1>4
    DEF ShellWork, ShellBoot

(* the main thread of the processor starts the core and waits for it, *)
LEMMA CpuBooting ==
  ASSUME SharedInv, ~AtPrompt, Booting, CpuStep
  PROVE  ~AtPrompt' /\ Booting'
  <1>. USE DEF SharedInv, Booting, EmuOrder, ChildOrder, BootQuiet, CoreBoot,
         SharedTypeOK, AtPrompt, Procs, Pages, Bits, ProcStates, CpuStep,
         emuVars, shellVars, coreVars, cpuVars, regVars, psVars, pageVars,
         metaVars, osVars, memVars, sharedVars
  <1>1. CASE CpuStart
    BY <1>1 DEF CpuStart, CpuGoto
  <1>2. CASE CpuWaitReady
    BY <1>2 DEF CpuWaitReady, CpuAt, CpuGoto
  <1>3. CASE WaitExec
    BY <1>3 DEF WaitExec, CpuAt, CpuGoto
  <1>4. CASE WaitIdle
    BY <1>4 DEF WaitIdle, CpuAt, LockFree, AckSignal, CpuGoto, IntEnable
  <1>5. CASE CpuShutdown
    BY <1>5 DEF CpuShutdown, CpuAt, AckSignal, CpuGoto, IntEnable
  <1>6. CASE CpuExit
    BY <1>6 DEF CpuExit, CpuAt, Exit
  <1>7. ~(CpuHandler)
    BY DEF CpuHandler, CpuSignal, CpuReadType, CpuFaulted, CpuReadInts,
         CpuExec, ResumeExec, AckExec, RunAgain, ResumeSys
  <1>. QED BY <1>1, <1>2, <1>3, <1>4, <1>5, <1>6, <1>7
    DEF CpuThread, CpuMain

(* and the core runs the kernel's _init to its hlt. *)
LEMMA CoreBooting ==
  ASSUME SharedTypeOK, ~AtPrompt, Booting, CoreStep
  PROVE  ~AtPrompt' /\ Booting'
  <1>. USE DEF Booting, EmuOrder, ChildOrder, BootQuiet, CoreBoot,
         SharedTypeOK, AtPrompt, Procs, Pages, Bits, ProcStates, CoreStep,
         emuVars, shellVars, coreVars, cpuVars, regVars, psVars, pageVars,
         metaVars, osVars, memVars, sharedVars
  <1>1. CASE KernelInit /\ UNCHANGED cpuVars
    BY <1>1 DEF KernelInit, CycleTo
  <1>2. CASE GoesIdle /\ UNCHANGED cpuVars
    BY <1>2 DEF GoesIdle, StatusNow, Cycle
  <1>3. CASE HaltsKernel /\ UNCHANGED cpuVars
    BY <1>3 DEF HaltsKernel, HaltOf
  <1>4. ~(\/ UserSetup \/ SetupAborts \/ HandlerHalts \/ WriteReturns \/ MarkAbort
          \/ KernelFault \/ CoreUser \/ Raised \/ KeepsRunning \/ AsksIO \/ SendsSys
          \/ HaltsExit \/ HaltsAborted \/ FaultAcked \/ CoreSignal)
    BY DEF UserSetup, SetupAborts, HandlerHalts, WriteReturns, MarkAbort,
         KernelFault, Fault, CoreUser, UserStep, SyscallWrite, SyscallExit,
         UserAborts, BadSyscall, DivideByZero, UserAt, Raised, KeepsRunning,
         AsksIO, StatusNow, SendsSys, Aborted, HaltsExit, HaltsAborted, HaltOf,
         FaultAcked, CoreSignal, CycleTo
  <1>. QED BY <1>1, <1>2, <1>3, <1>4
    DEF CoreThread, CoreCycle, CoreKernel, CoreEndsCycle

(* One step of the booted machine, and one of the booting machine.         *)
LEMMA BootedStep ==
  ASSUME SharedTypeOK, AtPrompt, Booted, Next
  PROVE  AtPrompt' /\ Booted' /\ \A p \in pending' \ pending : proc[p] = "armed"
  BY EmuBooted, ShellBooted, CpuBooted, CoreBooted DEF Next

LEMMA BootingStep ==
  ASSUME SharedInv, ~AtPrompt, Booting, Next
  PROVE  /\ ~AtPrompt' => Booting'
         /\ AtPrompt' => /\ Booted' /\ pending = {} /\ pending' = {}
                         /\ IDLE /\ LockFree /\ IR = "usrSetup" /\ PRIV = "kernel"
  BY EmuBooting, ShellBooting, CpuBooting, CoreBooting DEF Next, SharedInv

(* The invariant of the boot holds. *)
LEMMA BInvHolds == Spec => []BInv
  <1>1. Init => BInv
    BY TInvInit DEF Init, SharedInit, EmuInit, ShellInit, CpuInit, CoreInit, BInv,
       AtPrompt, Booting, EmuOrder, ChildOrder, BootQuiet, CoreBoot, Procs, Pages
  <1>2. BInv /\ TInv' /\ [Next]_vars => BInv'
    <2>. SUFFICES ASSUME BInv, TInv', [Next]_vars PROVE BInv'
      OBVIOUS
    <2>1. CASE Next
      BY <2>1, BootedStep, BootingStep DEF BInv, TInv, SharedInv
    <2>2. CASE UNCHANGED vars
      BY <2>2 DEF vars, sharedVars, pageVars, metaVars, osVars, memVars, emuVars,
         shellVars, coreVars, cpuVars, BInv, AtPrompt, Booted, Booting, EmuOrder,
         ChildOrder, BootQuiet, CoreBoot
    <2>. QED BY <2>1, <2>2
  <1>. QED BY <1>1, <1>2, TInvHolds, PTL DEF Spec

(* The shell takes commands only when the PIDs are stored, every process   *)
(* handles SIGUSR1 and the processor waits for the shutdown.               *)
THEOREM BootOrdered == Spec => []BootOrder
  <1>1. BInv => BootOrder
    BY DEF BInv, BootOrder, Booted
  <1>. QED BY <1>1, BInvHolds, PTL

(* The shell leaves its boot only behind the kernel's _init, with the core *)
(* idle and nothing under way (main of shell.c).                           *)
THEOREM KernelRunsFirst == Spec => KernelFirst
  <1>1. BInv /\ [Next]_vars
          => [(~AtPrompt /\ AtPrompt') =>
                IDLE /\ LockFree /\ IR = "usrSetup" /\ PRIV = "kernel" /\ pending = {}]_vars
    BY BootingStep DEF BInv, TInv, SharedInv
  <1>. QED BY <1>1, BInvHolds, PTL DEF Spec, KernelFirst

(* A poke always goes to a process whose PID is known and whose handler is *)
(* installed (kill in emSignal.c's users).                                 *)
THEOREM PokesReachArmed == Spec => PokesArmed
  <1>1. BInv /\ [Next]_vars
          => [\A p \in pending' \ pending : pids /\ proc[p] = "armed"]_vars
    <2>. SUFFICES ASSUME BInv, Next
                  PROVE  \A p \in pending' \ pending : pids /\ proc[p] = "armed"
      OBVIOUS
    <2>1. CASE AtPrompt
      BY <2>1, BootedStep DEF BInv, TInv, SharedInv, Booted
    <2>2. CASE ~AtPrompt
      BY <2>2, BootingStep DEF BInv, TInv, SharedInv, Booting, BootQuiet
    <2>. QED BY <2>1, <2>2
  <1>. QED BY <1>1, BInvHolds, PTL DEF Spec, PokesArmed

(* Every process has mapped the heap before anything is allocated in it    *)
(* (sinit, which makes it one free block).                                 *)
THEOREM HeapMappedFirst == Spec => HeapKept
  <1>1. BInv => \A p \in Procs : proc[p] = "booting" => ~heapUsed
    BY DEF BInv, Booted, Booting, BootQuiet
  <1>2. BInv /\ [Next]_vars
          => [\A p \in Procs : (proc[p] = "booting" /\ proc'[p] = "armed") => ~heapUsed]_vars
    BY <1>1
  <1>. QED BY <1>2, BInvHolds, PTL DEF Spec, HeapKept

-----------------------------------------------------------------------------
(***************************************************************************)
(* Part two: the first command after the boot, for every set of            *)
(* programs, every code, every cycle limit, every behaviour of the signal  *)
(* heap, of the loader and of the dump file.  A second command finds bits  *)
(* that the first one left behind, and then most of what is proved here    *)
(* is false (runs stale_load, stale_dump and user_mode), though the signal *)
(* heap is still safe in it; without the timing assumption PromptResume    *)
(* part of it is false in the first command already (run fall_through).    *)
(*                                                                         *)
(* The invariant follows the protocol: it is a disjunction of phases, each *)
(* of which names the one thread that moves and what the others have left  *)
(* for it in the signal memory.                                            *)
(***************************************************************************)
(* The console of the model is long enough for the writes of a program,    *)
(* each of which is at a place of its own.                                 *)
ConsoleKept == MaxLen <= MaxConsole

-----------------------------------------------------------------------------
(* The phases of the one command *)

(* A bit is only ever set in the page that enables it. *)
BitsInPlace == \A g \in Pages : interrupts[g] \subseteq IntEnable[g]

NoHandler == emuH = "none" /\ shellH = "none" /\ cpuH = "none"
Still == NoHandler /\ pending = {}

(* Nothing has been reported, printed or faulted yet. *)
Clean ==
  /\ {"EXIT", "ERROR"} \cap interrupts["SHELL_CPU"] = {}
  /\ "FAULT" \notin interrupts["UNIVERSAL"]
  /\ "FAULT" \notin ackMask["UNIVERSAL"]
  /\ "IO" \notin ackMask["EMU_SHELL"]
  /\ outcome # "error"

(* The core stands before the kernel's _usrSetup, as the boot left it. *)
Untouched ==
  /\ Clean
  /\ corePc = "loop" /\ IR = "usrSetup" /\ PRIV = "kernel" /\ ~ioBit
  /\ console = << >>

(* Until the request to load is sent, *)
Fresh ==
  /\ shellPc \in {"prompt", "argv", "hung", "loadType", "setLoad", "waitShutdown"}
  /\ shellPc \notin {"prompt", "waitShutdown"} => runs >= 1
  /\ Untouched /\ IDLE /\ Still
  /\ "LOAD" \notin ackMask["EMU_SHELL"]
  /\ shellPc = "setLoad" => signalType = "EMU_SHELL"

(* while the emulator serves it, or is gone with it, *)
LoadServed ==
  /\ "LOAD" \notin ackMask["EMU_SHELL"]
  /\ pending = {}
  /\ emuH \in {"type", "ints", "load", "ackLoad"}
  /\ emuH # "type" => emuPage = "EMU_SHELL"
  /\ emuH = "ackLoad" => userText = shellProg

Loading ==
  /\ shellPc = "waitLoad" /\ runs >= 1
  /\ Untouched /\ IDLE
  /\ shellH = "none" /\ cpuH = "none"
  /\ signalType = "EMU_SHELL"
  /\ unionTag = "loadprog" /\ loadprog = shellProg
  /\ \/ "LOAD" \notin ackMask["EMU_SHELL"] /\ pending = {"emulator"} /\ emuH = "none"
     \/ LoadServed
     \/ Still /\ ("LOAD" \in ackMask["EMU_SHELL"] => userText = shellProg)

(* and until the processor is told. *)
Loaded ==
  /\ shellPc \in {"execType", "setExec"} /\ runs >= 1
  /\ Untouched /\ IDLE /\ Still
  /\ userText = shellProg
  /\ shellPc = "setExec" => signalType = "SHELL_CPU"

Early == Fresh \/ Loading \/ Loaded

(* The processor's handler starts the core. *)
Starting ==
  /\ Untouched
  /\ emuH = "none" /\ shellH = "none"
  /\ userText = shellProg
  /\ execEntry = "usrSetup" /\ signalType = "SHELL_CPU"
  /\ cpuH \notin {"none", "type"} => cpuPage = "SHELL_CPU"
  /\ cpuH \notin {"none", "type", "ints", "exec"} => status = "RUNNING"
  /\ \/ pending \subseteq {"cpu"} /\ cpuH = "none" /\ IDLE
     \/ pending = {} /\ cpuH \in {"type", "ints", "exec", "resume1"} /\ IDLE
     \/ pending = {} /\ cpuH \in {"ackExec", "run2", "resume2"} /\ ~IDLE

(* The core runs: a cycle begins, *)
Begins ==
  /\ corePc = "loop" /\ ~IDLE /\ status = "RUNNING"
  /\ \/ /\ IR = "usrSetup" /\ PRIV = "kernel" /\ ~ioBit
        /\ console = << >> /\ userText = shellProg
     \/ IR = "user" /\ ~ioBit /\ Len(console) < ix
     \/ IR = "writeDone" /\ ~savedIoBit /\ Len(console) <= ix

(* or it ends, and then the core goes on, asks for IO or has halted.       *)
Ends ==
  /\ corePc = "check" /\ ~IDLE
  /\ \/ IR = "user" /\ status = "RUNNING" /\ ~ioBit /\ Len(console) < ix
     \/ IR = "writeDone" /\ status = "IO" /\ ~savedIoBit /\ Len(console) < ix
     \/ status = "HLT"

Running ==
  /\ Clean /\ Still
  /\ Begins \/ Ends \/ (corePc = "halted" /\ IDLE)

(* A write request: the core waits behind it, *)
ThisWrite == << userText, ix >>
WriteShown == Len(console) <= ix /\ (ConsoleKept => Shown(ThisWrite))
WriteUnshown == Len(console) < ix

(* sends it,                                                               *)
Requested ==
  /\ WriteUnshown /\ NoHandler
  /\ signalType = "EMU_CPU"
  /\ \/ corePc = "sys" /\ pending = {}
     \/ corePc = "loop" /\ pending \subseteq {"emulator"} /\ ioReq = ThisWrite

(* the emulator takes it,                                                  *)
TakenByEmu ==
  /\ WriteUnshown
  /\ corePc = "loop" /\ pending = {}
  /\ cpuH = "none" /\ shellH = "none"
  /\ emuH \in {"type", "ints", "alloc", "hung", "type2", "setIO"}
  /\ emuH # "type" => emuPage = "EMU_CPU"
  /\ emuH \in {"type", "ints"} => ioReq = ThisWrite /\ signalType = "EMU_CPU"
  /\ emuH \notin {"type", "ints"} => emuWrite = ThisWrite
  /\ emuH = "setIO" => signalType = "EMU_SHELL"

(* the shell prints and acknowledges it,                                   *)
PrintedByShell ==
  /\ corePc = "loop"
  /\ cpuH = "none" /\ emuH = "waitIO" /\ emuPage = "EMU_CPU"
  /\ signalType = "EMU_SHELL"
  /\ unionTag = "ioData" /\ ioData = ThisWrite
  /\ "IO" \notin ackMask["EMU_SHELL"] \/ (WriteShown /\ shellH = "none" /\ pending = {})
  /\ shellH \notin {"none", "type"} => shellPage = "EMU_SHELL"
  /\ \/ pending \subseteq {"shell"} /\ shellH = "none" /\ WriteUnshown
     \/ pending = {} /\ shellH \in {"type", "ints", "print"} /\ WriteUnshown
     \/ pending = {} /\ shellH \in {"ackIO", "none"} /\ WriteShown

(* the emulator passes that on,                                            *)
PassedOn ==
  /\ WriteShown
  /\ corePc = "loop" /\ pending = {}
  /\ cpuH = "none" /\ shellH = "none" /\ emuH \in {"type3", "ackSys"}
  /\ emuPage = "EMU_CPU"
  /\ emuH = "ackSys" => signalType = "EMU_CPU"

(* and the processor's handler resumes the core.                           *)
Resuming ==
  /\ WriteShown
  /\ corePc = "loop"
  /\ emuH = "none" /\ shellH = "none"
  /\ cpuH \in {"none", "type", "ints", "run2", "resume2"}
  /\ cpuH = "none" \/ pending = {}
  /\ pending \subseteq {"cpu"}
  /\ signalType = "EMU_CPU"
  /\ cpuH \notin {"none", "type"} => cpuPage = "EMU_CPU"
  /\ cpuH = "resume2" => status = "RUNNING"

AskFrame ==
  /\ IR = "writeDone" /\ IDLE /\ ~savedIoBit
  /\ {"EXIT", "ERROR"} \cap interrupts["SHELL_CPU"] = {}
  /\ "FAULT" \notin interrupts["UNIVERSAL"]
  /\ "FAULT" \notin ackMask["UNIVERSAL"]
  /\ outcome # "error"

Asking ==
  /\ AskFrame
  /\ \/ PrintedByShell
     \/ /\ "IO" \notin ackMask["EMU_SHELL"]
        /\ Requested \/ TakenByEmu \/ PassedOn \/ Resuming

(* The core waits for the dump of an aborted program. *)
Dumping ==
  /\ corePc = "faultWait" /\ IDLE
  /\ {"EXIT", "ERROR"} \cap interrupts["SHELL_CPU"] = {}
  /\ outcome # "error"
  /\ signalType = "UNIVERSAL"
  /\ shellH = "none" /\ cpuH = "none"
  /\ \/ pending = {"emulator"} /\ emuH = "none" /\ "FAULT" \notin ackMask["UNIVERSAL"]
     \/ /\ pending = {} /\ emuH \in {"type", "ints", "dump"}
        /\ emuH # "type" => emuPage = "UNIVERSAL"
        /\ "FAULT" \notin ackMask["UNIVERSAL"]
     \/ Still /\ ("FAULT" \in ackMask["UNIVERSAL"] => dumped)

(* The program has ended: nothing moves but the shell. *)
Ended ==
  /\ corePc = "loop" /\ IDLE /\ Still
  /\ "ERROR" \in interrupts["SHELL_CPU"] \/ outcome = "error" => dumped

Late ==
  /\ runs >= 1
  /\ \/ shellPc = "waitExit" /\ (Starting \/ Running \/ Asking \/ Dumping \/ Ended)
     \/ shellPc \in {"prompt", "waitShutdown"} /\ Ended

(* Somebody has set FAULT, and the others are about to follow it. *)
Doomed ==
  /\ \/ proc["shell"] = "dead"
     \/ shellPc = "waitExit" /\ {"EXIT", "ERROR"} \cap interrupts["SHELL_CPU"] = {}
  /\ signalType = "UNIVERSAL" /\ "FAULT" \in interrupts["UNIVERSAL"]
  /\ pending \subseteq {"cpu", "shell"}
  /\ cpuH \in {"none", "type", "ints"} /\ (cpuH = "ints" => cpuPage = "UNIVERSAL")
  /\ shellH \in {"none", "type", "ints"} /\ (shellH = "ints" => shellPage = "UNIVERSAL")
  /\ emuH = "none" \/ (proc["emulator"] = "dead" /\ shellPc = "waitExit")
  /\ \/ corePc = "loop" /\ IDLE
     \/ corePc = "raise"
     \/ corePc = "faultWait" /\ "FAULT" \notin ackMask["UNIVERSAL"]
  /\ outcome = "error" => dumped

Phases == Early \/ Late \/ Doomed

-----------------------------------------------------------------------------
(* Who moves *)

(* The steps of the booted machine: a main thread that only waits, the     *)
(* shell's main thread, one of the three handlers, or the core.            *)
Waits  == \/ EmuWait /\ UNCHANGED << shellVars, coreVars, cpuVars >>
          \/ (CpuShutdown \/ CpuExit) /\ UNCHANGED << emuVars, shellVars >>
EmuActs == /\ proc["emulator"] = "armed"
           /\ EmuHandler /\ UNCHANGED << shellVars, coreVars, cpuVars >>
ShellMain == /\ proc["shell"] = "armed"
             /\ ShellLoad \/ ShellExec \/ WaitShutdown \/ ShellUser
             /\ UNCHANGED << emuVars, coreVars, cpuVars >>
ShellActs == /\ proc["shell"] = "armed"
             /\ ShellHandler /\ UNCHANGED << emuVars, coreVars, cpuVars >>
CpuActs == CpuHandler /\ UNCHANGED << emuVars, shellVars >>
CoreActs == CoreThread /\ UNCHANGED << emuVars, shellVars >>

(* Behind the boot every step is one of these. *)
LEMMA BootedKinds ==
  ASSUME AtPrompt, Booted, Next
  PROVE  Waits \/ EmuActs \/ ShellMain \/ ShellActs \/ CpuActs \/ CoreActs
  <1>. USE DEF AtPrompt, Booted, Procs
  <1>1. ~EmuBoot
    BY DEF EmuBoot, ForkCPU, ForkShell, SetPIDs, SetupKernel, SetReady, EmuMainAt
  <1>2. ~ShellStart /\ ~ShellBoot
    BY DEF ShellStart, ShellBoot, ShellWaitReady, WaitKernel, ShellAt
  <1>3. ~CpuStart /\ ~CpuWaitReady /\ ~WaitExec /\ ~WaitIdle
    BY DEF CpuStart, CpuWaitReady, WaitExec, WaitIdle, CpuAt
  <1>4. CASE EmuStep
    BY <1>4, <1>1 DEF EmuStep, EmuNext, Waits, EmuActs
  <1>5. CASE ShellAuto
    BY <1>5, <1>2 DEF ShellAuto, ShellWork, ShellMain, ShellActs
  <1>6. CASE PersonStep
    BY <1>6 DEF PersonStep, ShellAsked, ShellMain
  <1>7. CASE CpuStep
    BY <1>7, <1>3 DEF CpuStep, CpuThread, CpuMain, Waits, CpuActs
  <1>8. CASE CoreStep
    BY <1>8 DEF CoreStep, CoreActs
  <1>. QED BY <1>4, <1>5, <1>6, <1>7, <1>8 DEF Next

(* A handler moves when it has been entered or a poke is pending. *)
LEMMA EmuRests ==
  ASSUME emuH = "none", "emulator" \notin pending PROVE ~EmuActs
  BY DEF EmuActs, EmuHandler, EmuSignal, EmuReadType, EmuReadInts, EmuLoad,
     LoadBinary, LoadFatal, AckLoad, EmuDump, DumpCore, DumpFails, EmuSys,
     AllocBuffer, AllocFails, NoRequest, WriteType, SetIO, WaitIO, SysType,
     AckSys, EmuHandlerAt

(* And so does the shell's, *)
LEMMA ShellRests ==
  ASSUME shellH = "none", "shell" \notin pending PROVE ~ShellActs
  BY DEF ShellActs, ShellHandler, ShellSignal, ShellReadType, ShellReadInts,
     ShellFaulted, PrintWrite, AckIO

(* and the processor's. *)
LEMMA CpuRests ==
  ASSUME cpuH = "none", "cpu" \notin pending PROVE ~CpuActs
  BY DEF CpuActs, CpuHandler, CpuSignal, CpuReadType, CpuFaulted, CpuReadInts,
     CpuExec, ResumeExec, AckExec, RunAgain, ResumeSys

(* An idle core moves only when a poke finds the main thread handling      *)
(* another one.                                                            *)
LEMMA CoreRests ==
  ASSUME corePc = "loop", IDLE, cpuH = "none" \/ "cpu" \notin pending
  PROVE  ~CoreActs
  <1>1. ~CoreCycle
    BY DEF CoreCycle, CoreKernel, KernelInit, UserSetup, SetupAborts,
       HandlerHalts, WriteReturns, MarkAbort, KernelFault, Fault, CoreUser,
       UserStep, SyscallWrite, SyscallExit, UserAborts, BadSyscall,
       DivideByZero, CycleTo
  <1>2. ~CoreEndsCycle
    BY DEF CoreEndsCycle, Raised, KeepsRunning, GoesIdle, AsksIO, SendsSys,
       HaltsKernel, HaltsExit, HaltsAborted, HaltOf, FaultAcked
  <1>. QED BY <1>1, <1>2 DEF CoreActs, CoreThread, CoreSignal

(* The shell's main thread waits for the program until it is told, *)
LEMMA ShellWaitsExit ==
  ASSUME shellPc = "waitExit", {"EXIT", "ERROR"} \cap interrupts["SHELL_CPU"] = {}
  PROVE  ~ShellMain
  BY DEF ShellMain, ShellLoad, CopyArgv, RefuseCommand, ArgvCrash, LoadType,
     SendLoad, LoadCrash, WaitLoad, ShellExec, ExecType, SendExec, WaitExit,
     WaitShutdown, ShellUser, SendShutdown, EmptyLine, RunCommand, ShellAt

(* What the waiting main threads of the emulator and of the processor      *)
(* change is nothing that a phase is about.                                *)
SameAcks == \A g \in Pages : \A b \in {"LOAD", "IO", "FAULT"} :
              b \in ackMask'[g] <=> b \in ackMask[g]
PhaseVars == << shellVars, coreVars, emuH, emuPage, emuWrite, cpuH, cpuPage,
                signalType, interrupts, metaVars, memVars, pending >>

(* They leave the phase variables alone, set one acknowledge at most, and  *)
(* revive nobody.                                                          *)
LEMMA WaitsEffect ==
  ASSUME TInv, Waits
  PROVE  /\ UNCHANGED PhaseVars
         /\ SameAcks
         /\ \A p \in Procs : proc[p] = "dead" => proc'[p] = "dead"
  <1>. USE DEF Waits, PhaseVars, SameAcks, emuVars, cpuVars, pageVars, metaVars,
         osVars, memVars, sharedVars, TInv, SharedInv, SharedTypeOK
  <1>1. CASE WaitShell /\ UNCHANGED << shellVars, coreVars, cpuVars >>
    BY <1>1 DEF WaitShell, EmuGoto
  <1>2. CASE WaitCPU /\ UNCHANGED << shellVars, coreVars, cpuVars >>
    BY <1>2 DEF WaitCPU, Exit, Procs
  <1>3. CASE CpuShutdown /\ UNCHANGED << emuVars, shellVars >>
    BY <1>3, AckSignalType DEF CpuShutdown, CpuGoto, AckSignal, Pages
  <1>4. CASE CpuExit /\ UNCHANGED << emuVars, shellVars >>
    BY <1>4 DEF CpuExit, Exit, Procs
  <1>. QED BY <1>1, <1>2, <1>3, <1>4 DEF EmuWait

-----------------------------------------------------------------------------
(* Bits *)

(* setX sets a bit where the page enables it. *)
LEMMA SetSignalInPlace ==
  ASSUME interrupts \in [Pages -> SUBSET Bits], BitsInPlace,
         NEW g \in Pages, NEW b, SetSignal(g, b)
  PROVE  BitsInPlace'
  BY DEF BitsInPlace, SetSignal, IntEnable

(* The emulator sets bits in their pages only, *)
LEMMA EmuBits == ASSUME SharedTypeOK, BitsInPlace, EmuStep PROVE BitsInPlace'
  <1>. USE DEF SharedTypeOK, emuVars, pageVars, metaVars, osVars, memVars, sharedVars
  <1>1. CASE EmuBoot
    BY <1>1, SetSignalInPlace
    DEF EmuBoot, ForkCPU, ForkShell, SetPIDs, SetupKernel, SetReady,
        SetExecSignal, Pages, BitsInPlace
  <1>2. CASE EmuWait
    BY <1>2 DEF EmuWait, WaitShell, WaitCPU, BitsInPlace
  <1>3. CASE EmuFault
    BY <1>3, SetSignalInPlace DEF EmuFault, Pages
  <1>4. CASE SetIO
    BY <1>4, SetSignalInPlace DEF SetIO, SetIOSignal, Pages
  <1>5. CASE EmuHandler /\ ~EmuFault /\ ~SetIO
    <2>1. interrupts' = interrupts
      BY <1>5 DEF EmuHandler, EmuSignal, EmuReadType, EmuReadInts, EmuLoad,
         LoadBinary, LoadFatal, AckLoad, EmuDump, DumpCore, DumpFails, EmuSys,
         AllocBuffer, AllocFails, NoRequest, WriteType, WaitIO, SysType, AckSys
    <2>. QED BY <2>1 DEF BitsInPlace
  <1>. QED BY <1>1, <1>2, <1>3, <1>4, <1>5 DEF EmuStep, EmuNext

(* so does the shell, *)
LEMMA ShellBits ==
  ASSUME SharedTypeOK, BitsInPlace, ShellAuto \/ PersonStep PROVE BitsInPlace'
  <1>. USE DEF SharedTypeOK, pageVars, metaVars, osVars, memVars, sharedVars
  <1>1. CASE ArgvCrash \/ EmptyLine \/ SendShutdown
    BY <1>1, SetSignalInPlace DEF ArgvCrash, EmptyLine, SendShutdown, Pages
  <1>2. CASE SendLoad \/ SendExec
    BY <1>2, SetSignalInPlace
    DEF SendLoad, SendExec, SetLoadSignal, SetExecSignal, Pages
  <1>3. CASE LoadCrash
    BY <1>3 DEF LoadCrash, BitsInPlace, IntEnable, Pages
  <1>4. CASE WaitKernel \/ WaitExit
    BY <1>4 DEF WaitKernel, WaitExit, BitsInPlace, Pages
  <1>5. CASE \/ ShellStart \/ ShellWaitReady \/ CopyArgv \/ RefuseCommand \/ LoadType
             \/ WaitLoad \/ ExecType \/ WaitShutdown \/ ShellHandler
             \/ \E p \in Programs : RunCommand(p)
    <2>1. interrupts' = interrupts
      BY <1>5 DEF ShellStart, ShellWaitReady, CopyArgv, RefuseCommand, LoadType,
         WaitLoad, ExecType, WaitShutdown, ShellHandler, ShellSignal,
         ShellReadType, ShellReadInts, ShellFaulted, PrintWrite, AckIO, RunCommand
    <2>. QED BY <2>1 DEF BitsInPlace
  <1>. QED BY <1>1, <1>2, <1>3, <1>4, <1>5
       DEF ShellAuto, PersonStep, ShellAsked, ShellUser, ShellWork, ShellBoot,
           ShellLoad, ShellExec

(* the processor's main thread sets none, *)
LEMMA CpuBits == ASSUME BitsInPlace, CpuStep PROVE BitsInPlace'
  <1>1. interrupts' = interrupts
    BY DEF CpuStep, CpuThread, CpuStart, CpuMain, CpuWaitReady, WaitExec,
       WaitIdle, CpuShutdown, CpuExit, CpuHandler, CpuSignal, CpuReadType,
       CpuFaulted, CpuReadInts, CpuExec, ResumeExec, AckExec, RunAgain,
       ResumeSys, pageVars, sharedVars
  <1>. QED BY <1>1 DEF BitsInPlace

(* and the core sets them in their pages; *)
LEMMA CoreBits == ASSUME SharedTypeOK, BitsInPlace, CoreStep PROVE BitsInPlace'
  <1>. USE DEF SharedTypeOK, pageVars, sharedVars
  <1>1. CASE \E l : Fault(l)
    BY <1>1, SetSignalInPlace DEF Fault, Pages
  <1>2. CASE SendsSys \/ HaltsAborted \/ FaultAcked
    BY <1>2, SetSignalInPlace DEF SendsSys, SetSysSignal, HaltsAborted,
       FaultAcked, Pages
  <1>3. CASE HaltsExit
    BY <1>3 DEF HaltsExit, BitsInPlace, IntEnable, Pages
  <1>4. CASE CoreSignal
    BY <1>4 DEF CoreSignal, BitsInPlace
  <1>5. CASE \/ KernelInit \/ UserSetup \/ SetupAborts \/ HandlerHalts \/ WriteReturns
             \/ MarkAbort \/ UserStep \/ SyscallWrite \/ SyscallExit \/ UserAborts
             \/ DivideByZero \/ Raised \/ KeepsRunning \/ GoesIdle \/ AsksIO
             \/ HaltsKernel
    <2>1. interrupts' = interrupts
      BY <1>5 DEF KernelInit, UserSetup, SetupAborts, HandlerHalts, WriteReturns,
         MarkAbort, UserStep, SyscallWrite, SyscallExit, UserAborts, DivideByZero,
         Raised, KeepsRunning, GoesIdle, AsksIO, HaltsKernel
    <2>. QED BY <2>1 DEF BitsInPlace
  <1>6. KernelFault \/ BadSyscall => \E l : Fault(l)
    BY Zenon DEF KernelFault, BadSyscall
  <1>. QED BY <1>1, <1>2, <1>3, <1>4, <1>5, <1>6
       DEF CoreStep, CoreThread, CoreCycle, CoreKernel, CoreUser, CoreEndsCycle

(* so every bit is where it is enabled. *)
LEMMA BitsStay == ASSUME TInv, BitsInPlace, Next PROVE BitsInPlace'
  BY EmuBits, ShellBits, CpuBits, CoreBits DEF Next, TInv, SharedInv

(* What the bits of a page can be. *)
LEMMA BitPages ==
  ASSUME BitsInPlace, NEW g \in Pages
  PROVE  /\ "LOAD"  \in interrupts[g] => g = "EMU_SHELL"
         /\ "IO"    \in interrupts[g] => g = "EMU_SHELL"
         /\ "SYS"   \in interrupts[g] => g = "EMU_CPU"
         /\ "EXEC"  \in interrupts[g] => g = "SHELL_CPU"
         /\ "FAULT" \in interrupts[g] => g = "UNIVERSAL"
  BY DEF BitsInPlace, IntEnable, Pages

-----------------------------------------------------------------------------
(* Before the program runs *)

(* A main thread that waits leaves every phase as it is. *)
LEMMA WaitsKeep ==
  ASSUME TInv, Waits
  PROVE  /\ Early => Early'
         /\ Starting => Starting'
         /\ Running => Running'
         /\ Asking => Asking'
         /\ Dumping => Dumping'
         /\ Ended => Ended'
         /\ Doomed => Doomed'
  <1>. USE WaitsEffect
           DEF PhaseVars, SameAcks, shellVars, coreVars, metaVars, memVars, Pages,
               Procs, Still, NoHandler, Clean, Untouched
  <1>1. Early => Early'
    BY DEF Early, Fresh, Loading, LoadServed, Loaded
  <1>2. Starting => Starting'
    BY DEF Starting
  <1>3. Running => Running'
    BY DEF Running, Begins, Ends
  <1>4. Asking => Asking'
    <2>1. WriteShown <=> WriteShown'
      BY DEF WriteShown, Shown, ThisWrite
    <2>2. WriteUnshown <=> WriteUnshown'
      BY DEF WriteUnshown
    <2>3. PrintedByShell => PrintedByShell'
      BY <2>1, <2>2 DEF PrintedByShell, ThisWrite
    <2>4. Requested => Requested'
      BY <2>1, <2>2 DEF Requested, ThisWrite
    <2>5. TakenByEmu => TakenByEmu'
      BY <2>1, <2>2 DEF TakenByEmu, ThisWrite
    <2>6. PassedOn => PassedOn'
      BY <2>1, <2>2 DEF PassedOn
    <2>7. Resuming => Resuming'
      BY <2>1, <2>2 DEF Resuming
    <2>. QED BY <2>3, <2>4, <2>5, <2>6, <2>7 DEF Asking, AskFrame
  <1>5. Dumping => Dumping'
    BY DEF Dumping
  <1>6. Ended => Ended'
    BY DEF Ended
  <1>7. Doomed => Doomed'
    BY DEF Doomed
  <1>. QED BY <1>1, <1>2, <1>3, <1>4, <1>5, <1>6, <1>7

(* The shell faults the processor and dies: its crash in any phase in      *)
(* which nothing else is under way.                                        *)
LEMMA CrashDooms ==
  ASSUME TInv, ShellCrash, "FAULT" \in interrupts'["UNIVERSAL"],
         UNCHANGED << emuVars, coreVars, cpuVars >>,
         Still, corePc = "loop", IDLE, outcome = "error" => dumped
  PROVE  Doomed'
  BY PokeType DEF TInv, SharedInv, SharedTypeOK, ShellCrash, Exit, Poke, Still, NoHandler,
     Doomed, Procs, shellVars, emuVars, coreVars, cpuVars, memVars

(* Before the request to load nothing moves but the shell. *)
LEMMA FreshStep ==
  ASSUME TInv, Fresh, ShellMain
  PROVE  Early' \/ Doomed'
  <1>. USE DEF TInv, SharedInv, SharedTypeOK, ShellInv, ShellTypeOK, Fresh, Early,
         Untouched, Clean, Still, NoHandler, Procs, Pages, Bits, ShellAt, ShellGoto,
         emuVars, shellVars, coreVars, cpuVars, pageVars, metaVars, osVars, memVars,
         sharedVars
  <1>1. CASE (\E p \in Programs : RunCommand(p)) /\ UNCHANGED << emuVars, coreVars, cpuVars >>
    BY <1>1 DEF RunCommand
  <1>2. CASE CopyArgv /\ UNCHANGED << emuVars, coreVars, cpuVars >>
    BY <1>2 DEF CopyArgv
  <1>3. CASE RefuseCommand /\ UNCHANGED << emuVars, coreVars, cpuVars >>
    BY <1>3 DEF RefuseCommand
  <1>4. CASE LoadType /\ UNCHANGED << emuVars, coreVars, cpuVars >>
    BY <1>4 DEF LoadType
  <1>5. CASE SendLoad /\ UNCHANGED << emuVars, coreVars, cpuVars >>
    BY <1>5, SetSignalType DEF SendLoad, SetLoadSignal, Poke, Loading
  <1>6. CASE SendShutdown /\ UNCHANGED << emuVars, coreVars, cpuVars >>
    BY <1>6, SetSignalType DEF SendShutdown
  <1>7. CASE WaitShutdown /\ UNCHANGED << emuVars, coreVars, cpuVars >>
    BY <1>7 DEF WaitShutdown, Exit
  <1>8. CASE (ArgvCrash \/ EmptyLine) /\ UNCHANGED << emuVars, coreVars, cpuVars >>
    <2>1. ShellCrash /\ "FAULT" \in interrupts'["UNIVERSAL"]
      BY <1>8 DEF ArgvCrash, EmptyLine, SetSignal, IntEnable
    <2>. QED BY <1>8, <2>1, CrashDooms
  <1>9. CASE LoadCrash /\ UNCHANGED << emuVars, coreVars, cpuVars >>
    <2>1. ShellCrash /\ "FAULT" \in interrupts'["UNIVERSAL"]
      BY <1>9 DEF LoadCrash
    <2>. QED BY <1>9, <2>1, CrashDooms
  <1>10. ~WaitLoad /\ ~ShellExec
    BY DEF WaitLoad, ShellExec, ExecType, SendExec, WaitExit
  <1>. QED BY <1>1, <1>2, <1>3, <1>4, <1>5, <1>6, <1>7, <1>8, <1>9, <1>10
       DEF ShellMain, ShellLoad, ShellUser

(* While the shell waits for the load, the emulator's handler moves, *)
LEMMA LoadingEmu ==
  ASSUME TInv, BitsInPlace, Loading, EmuActs
  PROVE  Loading'
  <1>. USE DEF TInv, SharedInv, SharedTypeOK, EmuTypeOK, Loading, LoadServed,
         Untouched, Clean, Still, NoHandler, Procs, Pages, Bits, EmuHandlerAt,
         EmuHandlerGoto, emuVars, shellVars, coreVars, cpuVars, pageVars, metaVars,
         osVars, memVars, sharedVars
  <1>1. CASE EmuSignal /\ UNCHANGED << shellVars, coreVars, cpuVars >>
    BY <1>1 DEF EmuSignal
  <1>2. CASE EmuReadType /\ UNCHANGED << shellVars, coreVars, cpuVars >>
    BY <1>2 DEF EmuReadType
  <1>3. CASE EmuReadInts /\ UNCHANGED << shellVars, coreVars, cpuVars >>
    <2>1. emuH = "ints" /\ emuPage = "EMU_SHELL" /\ pending = {}
      BY <1>3 DEF EmuReadInts
    <2>2. "SYS" \notin interrupts[emuPage] /\ "FAULT" \notin interrupts[emuPage]
      BY <2>1, BitPages
    <2>3. emuH' = IF "LOAD" \in interrupts[emuPage] THEN "load" ELSE "none"
      BY <1>3, <2>2 DEF EmuReadInts
    <2>4. UNCHANGED << emuPage, sharedVars >>
      BY <1>3 DEF EmuReadInts
    <2>. QED BY <1>3, <2>1, <2>3, <2>4
  <1>4. CASE LoadBinary /\ UNCHANGED << shellVars, coreVars, cpuVars >>
    BY <1>4 DEF LoadBinary
  <1>5. CASE LoadFatal /\ UNCHANGED << shellVars, coreVars, cpuVars >>
    BY <1>5 DEF LoadFatal, Exit
  <1>6. CASE AckLoad /\ UNCHANGED << shellVars, coreVars, cpuVars >>
    BY <1>6 DEF AckLoad
  <1>7. ~EmuDump /\ ~EmuSys
    BY DEF EmuDump, DumpCore, DumpFails, EmuSys, AllocBuffer, AllocFails,
       NoRequest, WriteType, SetIO, WaitIO, SysType, AckSys
  <1>. QED BY <1>1, <1>2, <1>3, <1>4, <1>5, <1>6, <1>7
       DEF EmuActs, EmuHandler, EmuLoad

(* and the shell goes on when the program is in memory. *)
LEMMA LoadingShell ==
  ASSUME TInv, Loading, ShellMain
  PROVE  Loaded'
  <1>1. CASE WaitLoad /\ UNCHANGED << emuVars, coreVars, cpuVars >>
    BY <1>1 DEF WaitLoad, ShellAt, ShellGoto, Loading, LoadServed, Loaded,
       Untouched, Clean, Still, NoHandler, emuVars, coreVars, cpuVars, pageVars,
       metaVars, osVars, memVars, sharedVars
  <1>2. ~(\/ CopyArgv \/ RefuseCommand \/ ArgvCrash \/ LoadType \/ SendLoad
          \/ LoadCrash \/ ShellExec \/ WaitShutdown \/ ShellUser)
    BY DEF Loading, CopyArgv, RefuseCommand, ArgvCrash, LoadType, SendLoad,
       LoadCrash, ShellExec, ExecType, SendExec, WaitExit, WaitShutdown,
       ShellUser, SendShutdown, EmptyLine, RunCommand, ShellAt
  <1>. QED BY <1>1, <1>2 DEF ShellMain, ShellLoad

(* With the program in memory the shell tells the processor. *)
LEMMA LoadedShell ==
  ASSUME TInv, Loaded, ShellMain
  PROVE  Loaded' \/ (runs' >= 1 /\ shellPc' = "waitExit" /\ Starting')
  <1>. USE DEF TInv, SharedInv, SharedTypeOK, Loaded, Untouched, Clean, Still,
         NoHandler, Procs, Pages, Bits, ShellAt, ShellGoto, emuVars, coreVars,
         cpuVars, pageVars, metaVars, osVars, memVars, sharedVars
  <1>1. CASE ExecType /\ UNCHANGED << emuVars, coreVars, cpuVars >>
    BY <1>1 DEF ExecType
  <1>2. CASE SendExec /\ UNCHANGED << emuVars, coreVars, cpuVars >>
    BY <1>2, SetSignalType DEF SendExec, SetExecSignal, Poke, Starting
  <1>3. ~(ShellLoad \/ WaitExit \/ WaitShutdown \/ ShellUser)
    BY DEF ShellLoad, CopyArgv, RefuseCommand, ArgvCrash, LoadType, SendLoad,
       LoadCrash, WaitLoad, WaitExit, WaitShutdown, ShellUser, SendShutdown,
       EmptyLine, RunCommand
  <1>. QED BY <1>1, <1>2, <1>3 DEF ShellMain, ShellExec

(* Before the processor is told the core waits, whatever the constants. *)
LEMMA EarlyStep ==
  ASSUME TInv, BitsInPlace, AtPrompt, Booted, Early, Next
  PROVE  Early' \/ Doomed' \/ (runs' >= 1 /\ shellPc' = "waitExit" /\ Starting')
  <1>1. ~ShellActs /\ ~CpuActs /\ ~CoreActs
    <2>1. /\ shellH = "none" /\ "shell" \notin pending
          /\ cpuH = "none" /\ "cpu" \notin pending
          /\ corePc = "loop" /\ IDLE
      BY DEF Early, Fresh, Loading, LoadServed, Loaded, Still, NoHandler, Untouched
    <2>. QED BY <2>1, ShellRests, CpuRests, CoreRests
  <1>2. CASE Waits
    BY <1>2, WaitsKeep
  <1>3. CASE EmuActs
    <2>1. ~Fresh /\ ~Loaded
      BY <1>3, EmuRests DEF Fresh, Loaded, Still, NoHandler
    <2>. QED BY <1>3, <2>1, LoadingEmu DEF Early
  <1>4. CASE ShellMain
    BY <1>4, FreshStep, LoadingShell, LoadedShell DEF Early
  <1>. QED BY <1>1, <1>2, <1>3, <1>4, BootedKinds

(* When FAULT is set the processes end one after the other. *)
LEMMA DoomedStep ==
  ASSUME TInv, BitsInPlace, AtPrompt, Booted, Doomed, Next
  PROVE  Doomed'
  <1>. USE DEF TInv, SharedInv, SharedTypeOK, Doomed, Procs, Pages, Bits, ProcStates,
         emuVars, shellVars, coreVars, cpuVars, pageVars, metaVars, osVars, memVars,
         sharedVars
  <1>1. CASE Waits
    BY <1>1, WaitsKeep
  <1>2. ~EmuActs /\ ~ShellMain
    <2>1. ~EmuActs
      BY EmuRests DEF EmuActs
    <2>2. ~ShellMain
      BY ShellWaitsExit DEF ShellMain
    <2>. QED BY <2>1, <2>2
  <1>3. CASE ShellActs
    <2>1. CASE ShellSignal /\ UNCHANGED << emuVars, coreVars, cpuVars >>
      BY <2>1 DEF ShellSignal, ShellHandlerGoto
    <2>2. CASE ShellReadType /\ UNCHANGED << emuVars, coreVars, cpuVars >>
      BY <2>2 DEF ShellReadType
    <2>3. CASE ShellFaulted /\ UNCHANGED << emuVars, coreVars, cpuVars >>
      BY <2>3 DEF ShellFaulted, Exit
    <2>4. ~ShellReadInts /\ ~PrintWrite /\ ~AckIO
      BY DEF ShellReadInts, PrintWrite, AckIO
    <2>. QED BY <1>3, <2>1, <2>2, <2>3, <2>4 DEF ShellActs, ShellHandler
  <1>4. CASE CpuActs
    <2>1. CASE CpuSignal /\ UNCHANGED << emuVars, shellVars >>
      BY <2>1 DEF CpuSignal, CpuHandlerGoto
    <2>2. CASE CpuReadType /\ UNCHANGED << emuVars, shellVars >>
      BY <2>2 DEF CpuReadType
    <2>3. CASE CpuFaulted /\ UNCHANGED << emuVars, shellVars >>
      BY <2>3 DEF CpuFaulted, Exit
    <2>4. ~(CpuReadInts \/ CpuExec \/ ResumeExec \/ AckExec \/ RunAgain \/ ResumeSys)
      BY DEF CpuReadInts, CpuExec, ResumeExec, AckExec, RunAgain, ResumeSys
    <2>. QED BY <1>4, <2>1, <2>2, <2>3, <2>4 DEF CpuActs, CpuHandler
  <1>5. CASE CoreActs
    <2>1. CASE CoreSignal /\ UNCHANGED << emuVars, shellVars >>
      BY <2>1 DEF CoreSignal
    <2>2. CASE Raised /\ UNCHANGED << emuVars, shellVars, cpuVars >>
      BY <2>2 DEF Raised, Exit, regVars, psVars
    <2>3. ~CoreCycle
      BY DEF CoreCycle, CoreKernel, KernelInit, UserSetup, SetupAborts,
         HandlerHalts, WriteReturns, MarkAbort, KernelFault, Fault, CoreUser,
         UserStep, SyscallWrite, SyscallExit, UserAborts, BadSyscall,
         DivideByZero, CycleTo
    <2>4. ~(\/ KeepsRunning \/ GoesIdle \/ AsksIO \/ SendsSys \/ HaltsKernel
            \/ HaltsExit \/ HaltsAborted \/ FaultAcked)
      BY DEF KeepsRunning, GoesIdle, AsksIO, SendsSys, HaltsKernel, HaltsExit,
         HaltsAborted, HaltOf, FaultAcked
    <2>. QED BY <1>5, <2>1, <2>2, <2>3, <2>4 DEF CoreActs, CoreThread, CoreEndsCycle
  <1>. QED BY <1>1, <1>2, <1>3, <1>4, <1>5, BootedKinds

-----------------------------------------------------------------------------
(* The program runs *)

(* The handler of the processor starts the core, and with PromptResume it  *)
(* has returned before the core begins a cycle.                            *)
LEMMA StartingCpu ==
  ASSUME TInv, BitsInPlace, Starting, CpuActs
  PROVE  Starting' \/ Running'
  <1>. USE DEF TInv, SharedInv, SharedTypeOK, CpuInv, CpuTypeOK, Starting, Untouched,
         Clean, Procs, Pages, Bits, CpuHandlerGoto, emuVars, shellVars, coreVars,
         cpuVars, regVars, psVars, pageVars, metaVars, osVars, memVars, sharedVars
  <1>1. CASE CpuSignal /\ UNCHANGED << emuVars, shellVars >>
    BY <1>1 DEF CpuSignal
  <1>2. CASE CpuReadType /\ UNCHANGED << emuVars, shellVars >>
    BY <1>2 DEF CpuReadType
  <1>3. CASE CpuFaulted /\ UNCHANGED << emuVars, shellVars >>
    BY <1>3 DEF CpuFaulted, Exit
  <1>4. CASE CpuReadInts /\ UNCHANGED << emuVars, shellVars >>
    <2>1. cpuH = "ints" /\ cpuPage = "SHELL_CPU"
      BY <1>4 DEF CpuReadInts
    <2>2. "SYS" \notin interrupts[cpuPage]
      BY <2>1, BitPages
    <2>3. cpuH' \in {"exec", "none"}
      BY <1>4, <2>2 DEF CpuReadInts
    <2>4. UNCHANGED << cpuPage, coreVars, sharedVars >>
      BY <1>4 DEF CpuReadInts
    <2>. QED BY <1>4, <2>1, <2>3, <2>4
  <1>5. CASE CpuExec /\ UNCHANGED << emuVars, shellVars >>
    BY <1>5 DEF CpuExec
  <1>6. CASE ResumeExec /\ UNCHANGED << emuVars, shellVars >>
    BY <1>6 DEF ResumeExec
  <1>7. CASE AckExec /\ UNCHANGED << emuVars, shellVars >>
    BY <1>7, AckSignalType DEF AckExec
  <1>8. CASE RunAgain /\ UNCHANGED << emuVars, shellVars >>
    BY <1>8 DEF RunAgain
  <1>9. CASE ResumeSys /\ UNCHANGED << emuVars, shellVars >>
    BY <1>9 DEF ResumeSys, Running, Begins, Still, NoHandler
  <1>. QED BY <1>1, <1>2, <1>3, <1>4, <1>5, <1>6, <1>7, <1>8, <1>9
       DEF CpuActs, CpuHandler

(* Nothing else moves while it does so. *)
LEMMA StartingStep ==
  ASSUME PromptResume, TInv, BitsInPlace, AtPrompt, Booted, Starting,
         shellPc = "waitExit", Next
  PROVE  Starting' \/ Running'
  <1>1. ~EmuActs /\ ~ShellActs /\ ~ShellMain
    BY EmuRests, ShellRests, ShellWaitsExit DEF Starting, Untouched, Clean
  <1>2. ~CoreActs
    <2>1. CASE IDLE
      BY <2>1, CoreRests DEF Starting, Untouched
    <2>2. CASE ~IDLE
      <3>1. ~MayCycle
        BY <2>2, Zenon DEF MayCycle, Starting
      <3>2. ~CoreEndsCycle /\ ~CoreSignal
        BY <2>2 DEF Starting, Untouched, CoreSignal, CoreEndsCycle, Raised,
           KeepsRunning, GoesIdle, AsksIO, SendsSys, HaltsKernel, HaltsExit,
           HaltsAborted, HaltOf, FaultAcked
      <3>. QED BY <3>1, <3>2 DEF CoreActs, CoreThread
    <2>. QED BY <2>1, <2>2
  <1>3. CASE Waits
    BY <1>3, WaitsKeep
  <1>. QED BY <1>1, <1>2, <1>3, StartingCpu, BootedKinds

(* A cycle of the running core. *)
LEMMA RunningCycle ==
  ASSUME TInv, shellPc = "waitExit", Running, CoreCycle,
         UNCHANGED << emuVars, shellVars, cpuVars >>
  PROVE  Running' \/ Doomed'
  <1>. USE DEF TInv, SharedInv, SharedTypeOK, ShellInv, ShellTypeOK, CpuInv, CpuTypeOK,
         CoreTypeOK, Running, Begins, Ends, Clean, Still, NoHandler, Procs, Pages, Bits,
         emuVars, shellVars, cpuVars, coreVars, regVars, psVars, pageVars, metaVars,
         osVars, memVars, sharedVars
  <1>1. /\ corePc = "loop" /\ ~IDLE /\ Begins
        /\ ~KernelInit /\ ~SetupAborts /\ ~HandlerHalts /\ ~MarkAbort /\ ~KernelFault
    BY DEF CoreCycle, CoreKernel, KernelInit, UserSetup, SetupAborts, HandlerHalts,
       WriteReturns, MarkAbort, KernelFault, Fault, CoreUser, UserStep, SyscallWrite,
       SyscallExit, UserAborts, BadSyscall, DivideByZero, CycleTo
  <1>2. CASE UserSetup
    BY <1>1, <1>2 DEF UserSetup, CycleTo
  <1>3. CASE WriteReturns
    BY <1>1, <1>3 DEF WriteReturns, CycleTo
  <1>4. CASE UserStep
    BY <1>1, <1>4 DEF UserStep, UserAt, CycleTo
  <1>5. CASE SyscallWrite
    BY <1>1, <1>5 DEF SyscallWrite, UserAt, CycleTo
  <1>6. CASE SyscallExit
    BY <1>1, <1>6 DEF SyscallExit, UserAt, CycleTo, HaltStatus
  <1>7. CASE UserAborts
    BY <1>1, <1>7 DEF UserAborts, UserAt, CycleTo, HaltStatus
  <1>8. CASE DivideByZero
    BY <1>1, <1>8 DEF DivideByZero, Exit
  <1>9. CASE BadSyscall
    <2>1. "FAULT" \in interrupts'["UNIVERSAL"]
      BY <1>9 DEF BadSyscall, Fault, SetSignal, IntEnable
    <2>2. {"EXIT", "ERROR"} \cap interrupts'["SHELL_CPU"] = {}
      BY <1>9, SetSignalType DEF BadSyscall, Fault
    <2>. QED BY <1>9, <2>1, <2>2, PokeType DEF BadSyscall, Fault, Poke, Doomed
  <1>. QED BY <1>1, <1>2, <1>3, <1>4, <1>5, <1>6, <1>7, <1>8, <1>9
       DEF CoreCycle, CoreKernel, CoreUser

(* The end of a cycle: the core goes on, asks for IO or halts. *)
LEMMA RunningEnds ==
  ASSUME TInv, shellPc = "waitExit", Running, CoreEndsCycle,
         UNCHANGED << emuVars, shellVars, cpuVars >>
  PROVE  Running' \/ Asking' \/ Dumping' \/ Ended'
  <1>. USE DEF TInv, SharedInv, SharedTypeOK, ShellInv, ShellTypeOK, CpuInv, CpuTypeOK,
         CoreTypeOK, Running, Begins, Ends, Clean, Still, NoHandler, Procs, Pages, Bits,
         emuVars, shellVars, cpuVars, coreVars, regVars, psVars, pageVars, metaVars,
         osVars, memVars, sharedVars
  <1>1. CASE KeepsRunning
    BY <1>1 DEF KeepsRunning, StatusNow
  <1>2. CASE GoesIdle
    BY <1>2 DEF GoesIdle
  <1>3. CASE AsksIO
    <2>1. status = "IO"
      BY <1>3 DEF AsksIO, StatusNow
    <2>. QED BY <1>3, <2>1 DEF AsksIO, Asking, AskFrame, Requested, WriteUnshown
  <1>4. CASE HaltsKernel
    BY <1>4 DEF HaltsKernel, HaltOf, Ended
  <1>5. CASE HaltsExit
    BY <1>5 DEF HaltsExit, HaltOf, Ended
  <1>6. CASE HaltsAborted
    BY <1>6, SetSignalType DEF HaltsAborted, HaltOf, Poke, Dumping
  <1>7. ~Raised /\ ~SendsSys /\ ~FaultAcked
    BY DEF Raised, SendsSys, FaultAcked
  <1>. QED BY <1>1, <1>2, <1>3, <1>4, <1>5, <1>6, <1>7 DEF CoreEndsCycle

(* While the core runs nothing else moves. *)
LEMMA RunningStep ==
  ASSUME TInv, AtPrompt, Booted, Running, shellPc = "waitExit", Next
  PROVE  Running' \/ Asking' \/ Dumping' \/ Ended' \/ Doomed'
  <1>1. ~EmuActs /\ ~ShellActs /\ ~ShellMain /\ ~CpuActs /\ ~CoreSignal
    BY EmuRests, ShellRests, ShellWaitsExit, CpuRests
    DEF Running, Clean, Still, NoHandler, CoreSignal
  <1>2. CASE Waits
    BY <1>2, WaitsKeep
  <1>3. CASE CoreActs
    <2>1. \/ CoreCycle /\ UNCHANGED << emuVars, shellVars, cpuVars >>
          \/ CoreEndsCycle /\ UNCHANGED << emuVars, shellVars, cpuVars >>
      BY <1>1, <1>3 DEF CoreActs, CoreThread
    <2>. QED BY <2>1, RunningCycle, RunningEnds
  <1>. QED BY <1>1, <1>2, <1>3, BootedKinds

(* While the core waits for the dump, the emulator's handler writes it,    *)
LEMMA DumpingEmu ==
  ASSUME TInv, BitsInPlace, shellPc = "waitExit", Dumping, EmuActs
  PROVE  Dumping' \/ Doomed'
  <1>. USE DEF TInv, SharedInv, SharedTypeOK, EmuTypeOK, Dumping, Still, NoHandler,
         Procs, Pages, Bits, EmuHandlerAt, EmuHandlerGoto, emuVars, shellVars,
         coreVars, cpuVars, pageVars, metaVars, osVars, memVars, sharedVars
  <1>1. CASE EmuSignal /\ UNCHANGED << shellVars, coreVars, cpuVars >>
    BY <1>1 DEF EmuSignal
  <1>2. CASE EmuReadType /\ UNCHANGED << shellVars, coreVars, cpuVars >>
    BY <1>2 DEF EmuReadType
  <1>3. CASE EmuReadInts /\ UNCHANGED << shellVars, coreVars, cpuVars >>
    <2>1. emuH = "ints" /\ emuPage = "UNIVERSAL" /\ pending = {}
      BY <1>3 DEF EmuReadInts
    <2>2. "SYS" \notin interrupts[emuPage] /\ "LOAD" \notin interrupts[emuPage]
      BY <2>1, BitPages
    <2>3. emuH' = IF "FAULT" \in interrupts[emuPage] THEN "dump" ELSE "none"
      BY <1>3, <2>2 DEF EmuReadInts
    <2>4. UNCHANGED << emuPage, sharedVars >>
      BY <1>3 DEF EmuReadInts
    <2>. QED BY <1>3, <2>1, <2>3, <2>4
  <1>4. CASE DumpCore /\ UNCHANGED << shellVars, coreVars, cpuVars >>
    BY <1>4 DEF DumpCore
  <1>5. CASE DumpFails /\ UNCHANGED << shellVars, coreVars, cpuVars >>
    <2>1. "FAULT" \in interrupts'["UNIVERSAL"]
      BY <1>5 DEF DumpFails, EmuFault, SetSignal, IntEnable
    <2>. QED BY <1>5, <2>1, SetSignalType, PokeType
         DEF DumpFails, EmuFault, Exit, Poke, Doomed
  <1>6. ~EmuLoad /\ ~EmuSys
    BY DEF EmuLoad, LoadBinary, LoadFatal, AckLoad, EmuSys, AllocBuffer,
       AllocFails, NoRequest, WriteType, SetIO, WaitIO, SysType, AckSys
  <1>. QED BY <1>1, <1>2, <1>3, <1>4, <1>5, <1>6 DEF EmuActs, EmuHandler, EmuDump

(* and only then the core goes on and reports the fault. *)
LEMMA DumpingStep ==
  ASSUME TInv, BitsInPlace, AtPrompt, Booted, Dumping, shellPc = "waitExit", Next
  PROVE  Dumping' \/ Ended' \/ Doomed'
  <1>1. ~ShellActs /\ ~ShellMain /\ ~CpuActs
    BY ShellRests, ShellWaitsExit, CpuRests DEF Dumping, Still, NoHandler
  <1>2. CASE Waits
    BY <1>2, WaitsKeep
  <1>3. CASE EmuActs
    BY <1>3, DumpingEmu
  <1>4. CASE CoreActs
    <2>1. ~CoreSignal
      BY DEF CoreSignal, Dumping
    <2>2. ~CoreCycle
      BY DEF Dumping, CoreCycle, CoreKernel, KernelInit, UserSetup, SetupAborts,
         HandlerHalts, WriteReturns, MarkAbort, KernelFault, Fault, CoreUser,
         UserStep, SyscallWrite, SyscallExit, UserAborts, BadSyscall,
         DivideByZero, CycleTo
    <2>3. ~(\/ Raised \/ KeepsRunning \/ GoesIdle \/ AsksIO \/ SendsSys \/ HaltsKernel
            \/ HaltsExit \/ HaltsAborted)
      BY DEF Dumping, Raised, KeepsRunning, GoesIdle, AsksIO, SendsSys, HaltsKernel,
         HaltsExit, HaltsAborted, HaltOf
    <2>4. CASE FaultAcked /\ UNCHANGED << emuVars, shellVars, cpuVars >>
      BY <2>4, SetSignalType
      DEF FaultAcked, Dumping, Ended, Still, NoHandler, TInv, SharedInv, SharedTypeOK,
          Pages, emuVars, shellVars, cpuVars, metaVars, osVars, memVars
    <2>. QED BY <1>4, <2>1, <2>2, <2>3, <2>4 DEF CoreActs, CoreThread, CoreEndsCycle
  <1>. QED BY <1>1, <1>2, <1>3, <1>4, BootedKinds

(* The core sends its request, *)
LEMMA RequestedStep ==
  ASSUME TInv, BitsInPlace, AtPrompt, Booted, AskFrame, Requested,
         "IO" \notin ackMask["EMU_SHELL"], shellPc = "waitExit", Next
  PROVE  Asking'
  <1>. USE DEF TInv, SharedInv, SharedTypeOK, AskFrame, Requested, NoHandler,
         WriteUnshown, ThisWrite, Procs, Pages, Bits, emuVars, shellVars, cpuVars,
         coreVars, regVars, psVars, pageVars, metaVars, osVars, memVars, sharedVars
  <1>1. ~ShellActs /\ ~ShellMain /\ ~CpuActs
    BY ShellRests, ShellWaitsExit, CpuRests
  <1>2. CASE Waits
    BY <1>2, WaitsKeep DEF Asking
  <1>3. CASE EmuActs
    <2>1. "emulator" \in pending
      BY <1>3, EmuRests
    <2>2. EmuSignal
      BY <1>3 DEF EmuActs, EmuHandler, EmuReadType, EmuReadInts, EmuLoad, LoadBinary,
         LoadFatal, AckLoad, EmuDump, DumpCore, DumpFails, EmuSys, AllocBuffer,
         AllocFails, NoRequest, WriteType, SetIO, WaitIO, SysType, AckSys,
         EmuHandlerAt
    <2>. QED BY <1>3, <2>1, <2>2
         DEF EmuActs, EmuSignal, EmuHandlerGoto, TakenByEmu, Asking
  <1>4. CASE CoreActs
    <2>1. corePc = "sys"
      BY <1>4, CoreRests
    <2>2. SendsSys /\ UNCHANGED << emuVars, shellVars, cpuVars >>
      BY <1>4, <2>1 DEF CoreActs, CoreThread, CoreSignal, CoreCycle, CoreKernel,
         KernelInit, UserSetup, SetupAborts, HandlerHalts, WriteReturns, MarkAbort,
         KernelFault, Fault, CoreUser, UserStep, SyscallWrite, SyscallExit,
         UserAborts, BadSyscall, DivideByZero, CycleTo, CoreEndsCycle, Raised,
         KeepsRunning, GoesIdle, AsksIO, HaltsKernel, HaltsExit, HaltsAborted,
         HaltOf, FaultAcked
    <2>3. ioReq' = ThisWrite /\ SetSignal("EMU_CPU", "SYS")
      BY <2>2 DEF SendsSys, SetSysSignal
    <2>4. /\ pending = {} /\ pending' \subseteq {"emulator"} /\ corePc' = "loop"
          /\ UNCHANGED << userText, ix, console, signalType, ackMask, outcome >>
          /\ UNCHANGED << IR, IDLE, savedIoBit, emuH, shellH, cpuH >>
      BY <2>1, <2>2 DEF SendsSys, Poke
    <2>5. /\ {"EXIT", "ERROR"} \cap interrupts'["SHELL_CPU"] = {}
          /\ "FAULT" \notin interrupts'["UNIVERSAL"]
      BY <2>3, SetSignalType
    <2>. QED BY <2>3, <2>4, <2>5 DEF Asking
  <1>. QED BY <1>1, <1>2, <1>3, <1>4, BootedKinds

(* the emulator's handler takes it and asks the shell, *)
LEMMA TakenEmu ==
  ASSUME TInv, BitsInPlace, AskFrame, TakenByEmu, EmuActs,
         "IO" \notin ackMask["EMU_SHELL"], shellPc = "waitExit"
  PROVE  Asking' \/ Doomed'
  <1>. USE DEF TInv, SharedInv, SharedTypeOK, EmuTypeOK, AskFrame, TakenByEmu,
         WriteUnshown, ThisWrite, Procs, Pages, Bits, EmuHandlerAt, EmuHandlerGoto,
         emuVars, shellVars, cpuVars, coreVars, regVars, psVars, pageVars, metaVars,
         osVars, memVars, sharedVars
  <1>1. ThisWrite # NoWrite
    BY NoWriteAssumption DEF CpuInv, Writes
  <1>2. CASE EmuReadType /\ UNCHANGED << shellVars, coreVars, cpuVars >>
    BY <1>2 DEF EmuReadType, Asking
  <1>3. CASE EmuReadInts /\ UNCHANGED << shellVars, coreVars, cpuVars >>
    <2>1. emuH = "ints" /\ emuPage = "EMU_CPU" /\ pending = {} /\ ioReq = ThisWrite
      BY <1>3 DEF EmuReadInts
    <2>2. "LOAD" \notin interrupts[emuPage] /\ "FAULT" \notin interrupts[emuPage]
      BY <2>1, BitPages
    <2>3. emuH' = IF "SYS" \in interrupts[emuPage] THEN "alloc" ELSE "none"
      BY <1>3, <2>2 DEF EmuReadInts
    <2>4. /\ UNCHANGED << emuPage, sharedVars >>
          /\ emuWrite' = IF "SYS" \in interrupts[emuPage] THEN ioReq ELSE emuWrite
      BY <1>3 DEF EmuReadInts
    <2>. QED BY <1>3, <2>1, <2>3, <2>4 DEF Asking, Requested, NoHandler
  <1>4. CASE AllocBuffer /\ UNCHANGED << shellVars, coreVars, cpuVars >>
    BY <1>4 DEF AllocBuffer, Asking
  <1>5. CASE AllocFails /\ UNCHANGED << shellVars, coreVars, cpuVars >>
    <2>1. "FAULT" \in interrupts'["UNIVERSAL"]
      BY <1>5 DEF AllocFails, EmuFault, SetSignal, IntEnable
    <2>. QED BY <1>5, <2>1, SetSignalType, PokeType
         DEF AllocFails, EmuFault, Exit, Poke, Doomed
  <1>6. CASE WriteType /\ UNCHANGED << shellVars, coreVars, cpuVars >>
    BY <1>6 DEF WriteType, Asking
  <1>7. CASE SetIO /\ UNCHANGED << shellVars, coreVars, cpuVars >>
    BY <1>7, SetSignalType DEF SetIO, SetIOSignal, Poke, PrintedByShell, Asking
  <1>8. ~(EmuSignal \/ EmuLoad \/ EmuDump \/ NoRequest \/ WaitIO \/ SysType \/ AckSys)
    BY <1>1 DEF EmuSignal, EmuLoad, LoadBinary, LoadFatal, AckLoad, EmuDump,
       DumpCore, DumpFails, NoRequest, WaitIO, SysType, AckSys
  <1>. QED BY <1>2, <1>3, <1>4, <1>5, <1>6, <1>7, <1>8
       DEF EmuActs, EmuHandler, EmuSys

(* the shell's handler prints what was asked and acknowledges it,          *)
LEMMA PrintedShell ==
  ASSUME TInv, BitsInPlace, AskFrame, PrintedByShell, ShellActs,
         shellPc = "waitExit"
  PROVE  Asking'
  <1>. USE DEF TInv, SharedInv, SharedTypeOK, ShellInv, ShellTypeOK, AskFrame,
         PrintedByShell, Asking, ThisWrite, Procs, Pages, Bits, ShellHandlerGoto,
         emuVars, shellVars, cpuVars, coreVars, pageVars, metaVars, osVars, memVars,
         sharedVars
  <1>1. CASE ShellSignal /\ UNCHANGED << emuVars, coreVars, cpuVars >>
    BY <1>1 DEF ShellSignal, WriteUnshown
  <1>2. CASE ShellReadType /\ UNCHANGED << emuVars, coreVars, cpuVars >>
    BY <1>2 DEF ShellReadType, WriteUnshown
  <1>3. CASE ShellReadInts /\ UNCHANGED << emuVars, coreVars, cpuVars >>
    BY <1>3 DEF ShellReadInts, WriteUnshown
  <1>4. CASE PrintWrite /\ UNCHANGED << emuVars, coreVars, cpuVars >>
    <2>1. /\ shellH = "print" /\ pending = {} /\ WriteUnshown
          /\ "IO" \notin ackMask["EMU_SHELL"]
      BY <1>4 DEF PrintWrite
    <2>2. Len(console) < ix /\ ix <= MaxLen /\ Len(console) \in Nat
      BY <2>1, MaxLenAssumption DEF WriteUnshown, CpuInv
    <2>3. CASE Len(console) < MaxConsole
      <3>1. console' = Append(console, ThisWrite)
        BY <1>4, <2>3 DEF PrintWrite
      <3>2. Len(console') = Len(console) + 1 /\ console'[Len(console')] = ThisWrite
        BY <3>1
      <3>3. console' # << >>
        BY <3>2, <2>2
      <3>4. WriteShown'
        <4>1. UNCHANGED << userText, ix >>
          BY <1>4 DEF PrintWrite
        <4>2. Len(console') <= ix'
          BY <2>2, <3>2, <4>1 DEF CpuInv, CpuTypeOK, CoreTypeOK
        <4>. QED BY <3>2, <3>3, <4>1, <4>2 DEF WriteShown, Shown, ConsoleKept
      <3>. QED BY <1>4, <2>1, <3>4 DEF PrintWrite
    <2>4. CASE ~(Len(console) < MaxConsole)
      <3>1. console' = console
        BY <1>4, <2>4 DEF PrintWrite
      <3>2. ~ConsoleKept
        BY <2>2, <2>4, MaxLenAssumption, MaxConsoleAssumption
        DEF ConsoleKept, CpuInv, CpuTypeOK, CoreTypeOK
      <3>3. Len(console') <= ix'
        BY <1>4, <2>2, <3>1 DEF CpuInv, CpuTypeOK, CoreTypeOK
      <3>4. WriteShown'
        BY <3>2, <3>3 DEF WriteShown, ConsoleKept
      <3>. QED BY <1>4, <2>1, <3>4 DEF PrintWrite
    <2>. QED BY <2>3, <2>4
  <1>5. CASE AckIO /\ UNCHANGED << emuVars, coreVars, cpuVars >>
    <2>1. WriteShown /\ WriteShown' /\ pending' = {} /\ shellH' = "none"
      BY <1>5 DEF AckIO, WriteShown, Shown
    <2>. QED BY <1>5, <2>1 DEF AckIO
  <1>6. ~ShellFaulted
    BY BitPages DEF ShellFaulted
  <1>. QED BY <1>1, <1>2, <1>3, <1>4, <1>5, <1>6 DEF ShellActs, ShellHandler

(* the emulator's handler sees that, *)
LEMMA PrintedEmu ==
  ASSUME TInv, AskFrame, PrintedByShell, EmuActs
  PROVE  Asking'
  <1>1. CASE WaitIO /\ UNCHANGED << shellVars, coreVars, cpuVars >>
    <2>1. WriteShown /\ shellH = "none" /\ pending = {}
      BY <1>1 DEF WaitIO, PrintedByShell
    <2>2. WriteShown'
      BY <1>1, <2>1 DEF WaitIO, WriteShown, Shown, ThisWrite, shellVars, coreVars,
         memVars
    <2>. QED BY <1>1, <2>1, <2>2
         DEF WaitIO, EmuHandlerGoto, AskFrame, PrintedByShell, PassedOn, Asking, TInv,
             SharedInv, SharedTypeOK, Pages, shellVars, coreVars, cpuVars, metaVars,
             osVars, memVars
  <1>2. ~(\/ EmuSignal \/ EmuReadType \/ EmuReadInts \/ EmuLoad \/ EmuDump \/ AllocBuffer
          \/ AllocFails \/ NoRequest \/ WriteType \/ SetIO \/ SysType \/ AckSys)
    BY DEF PrintedByShell, EmuSignal, EmuReadType, EmuReadInts, EmuLoad, LoadBinary,
       LoadFatal, AckLoad, EmuDump, DumpCore, DumpFails, AllocBuffer, AllocFails,
       NoRequest, WriteType, SetIO, SysType, AckSys, EmuHandlerAt
  <1>. QED BY <1>1, <1>2 DEF EmuActs, EmuHandler, EmuSys

(* passes it on to the processor, *)
LEMMA PassedEmu ==
  ASSUME TInv, AskFrame, PassedOn, EmuActs, "IO" \notin ackMask["EMU_SHELL"]
  PROVE  Asking'
  <1>. USE DEF AskFrame, PassedOn, Asking, EmuHandlerAt, EmuHandlerGoto, TInv, SharedInv,
         SharedTypeOK, Procs, Pages, shellVars, coreVars, cpuVars, metaVars, osVars,
         memVars
  <1>1. CASE SysType /\ UNCHANGED << shellVars, coreVars, cpuVars >>
    <2>1. WriteShown'
      BY <1>1 DEF SysType, WriteShown, Shown, ThisWrite
    <2>. QED BY <1>1, <2>1 DEF SysType
  <1>2. CASE AckSys /\ UNCHANGED << shellVars, coreVars, cpuVars >>
    <2>1. WriteShown'
      BY <1>2 DEF AckSys, WriteShown, Shown, ThisWrite
    <2>. QED BY <1>2, <2>1 DEF AckSys, Poke, Resuming
  <1>3. ~(\/ EmuSignal \/ EmuReadType \/ EmuReadInts \/ EmuLoad \/ EmuDump \/ AllocBuffer
          \/ AllocFails \/ NoRequest \/ WriteType \/ SetIO \/ WaitIO)
    BY DEF EmuSignal, EmuReadType, EmuReadInts, EmuLoad, LoadBinary,
       LoadFatal, AckLoad, EmuDump, DumpCore, DumpFails, AllocBuffer, AllocFails,
       NoRequest, WriteType, SetIO, WaitIO
  <1>. QED BY <1>1, <1>2, <1>3 DEF EmuActs, EmuHandler, EmuSys

(* whose handler resumes the core. *)
LEMMA ResumingCpu ==
  ASSUME TInv, BitsInPlace, AskFrame, Resuming, CpuActs,
         "IO" \notin ackMask["EMU_SHELL"]
  PROVE  Asking' \/ Running'
  <1>. USE DEF TInv, SharedInv, SharedTypeOK, CpuInv, CpuTypeOK, CoreTypeOK, AskFrame,
         Resuming, Procs, Pages, Bits, CpuHandlerGoto, emuVars, shellVars, coreVars,
         regVars, psVars, pageVars, metaVars, osVars, memVars, sharedVars
  <1>1. WriteShown'
    <2>1. UNCHANGED << console, userText, ix >>
      BY DEF CpuActs, CpuHandler, CpuSignal, CpuReadType, CpuFaulted, CpuReadInts,
         CpuExec, ResumeExec, AckExec, RunAgain, ResumeSys
    <2>. QED BY <2>1 DEF WriteShown, Shown, ThisWrite
  <1>2. CASE CpuSignal /\ UNCHANGED << emuVars, shellVars >>
    BY <1>1, <1>2 DEF CpuSignal, Asking
  <1>3. CASE CpuReadType /\ UNCHANGED << emuVars, shellVars >>
    BY <1>1, <1>3 DEF CpuReadType, Asking
  <1>4. CASE CpuReadInts /\ UNCHANGED << emuVars, shellVars >>
    <2>1. cpuH = "ints" /\ cpuPage = "EMU_CPU"
      BY <1>4 DEF CpuReadInts
    <2>2. "EXEC" \notin interrupts[cpuPage]
      BY <2>1, BitPages
    <2>3. cpuH' \in {"run2", "none"}
      BY <1>4, <2>2 DEF CpuReadInts
    <2>4. UNCHANGED << cpuPage, coreVars, sharedVars >>
      BY <1>4 DEF CpuReadInts
    <2>. QED BY <1>1, <1>4, <2>1, <2>3, <2>4 DEF Asking
  <1>5. CASE RunAgain /\ UNCHANGED << emuVars, shellVars >>
    BY <1>1, <1>5 DEF RunAgain, Asking
  <1>6. CASE ResumeSys /\ UNCHANGED << emuVars, shellVars >>
    BY <1>6 DEF ResumeSys, WriteShown, Running, Begins, Clean, Still, NoHandler
  <1>7. ~(CpuFaulted \/ CpuExec \/ ResumeExec \/ AckExec)
    BY BitPages DEF CpuFaulted, CpuExec, ResumeExec, AckExec
  <1>. QED BY <1>2, <1>3, <1>4, <1>5, <1>6, <1>7 DEF CpuActs, CpuHandler

(* All along nothing else moves. *)
LEMMA AskingStep ==
  ASSUME TInv, BitsInPlace, AtPrompt, Booted, Asking, shellPc = "waitExit", Next
  PROVE  Asking' \/ Running' \/ Doomed'
  <1>1. CASE Requested /\ "IO" \notin ackMask["EMU_SHELL"]
    BY <1>1, RequestedStep DEF Asking
  <1>2. ASSUME corePc = "loop" PROVE Asking' \/ Running' \/ Doomed'
    <2>1. ~ShellMain
      BY ShellWaitsExit DEF Asking, AskFrame
    <2>2. CASE Waits
      BY <2>2, WaitsKeep
    <2>3. CASE TakenByEmu /\ "IO" \notin ackMask["EMU_SHELL"]
      <3>1. ~ShellActs /\ ~CpuActs /\ ~CoreActs
        BY <2>3, ShellRests, CpuRests, CoreRests DEF TakenByEmu, Asking, AskFrame
      <3>. QED BY <2>1, <2>2, <2>3, <3>1, TakenEmu, BootedKinds DEF Asking
    <2>4. CASE PrintedByShell
      <3>1. ~CpuActs /\ ~CoreActs
        BY <2>4, CpuRests, CoreRests DEF PrintedByShell, Asking, AskFrame
      <3>. QED BY <2>1, <2>2, <2>4, <3>1, PrintedShell, PrintedEmu, BootedKinds
           DEF Asking
    <2>5. CASE PassedOn /\ "IO" \notin ackMask["EMU_SHELL"]
      <3>1. ~ShellActs /\ ~CpuActs /\ ~CoreActs
        BY <2>5, ShellRests, CpuRests, CoreRests DEF PassedOn, Asking, AskFrame
      <3>. QED BY <2>1, <2>2, <2>5, <3>1, PassedEmu, BootedKinds DEF Asking
    <2>6. CASE Resuming /\ "IO" \notin ackMask["EMU_SHELL"]
      <3>1. ~ShellActs /\ ~EmuActs /\ ~CoreActs
        BY <1>2, <2>6, ShellRests, EmuRests, CoreRests DEF Resuming, Asking, AskFrame
      <3>. QED BY <2>1, <2>2, <2>6, <3>1, ResumingCpu, BootedKinds DEF Asking
    <2>. QED BY <1>1, <2>3, <2>4, <2>5, <2>6 DEF Asking
  <1>. QED BY <1>1, <1>2
       DEF Asking, TakenByEmu, PrintedByShell, PassedOn, Resuming

(* The program has ended: the shell reports it, and takes no other command *)
(* as the first one.                                                       *)
LEMMA EndedStep ==
  ASSUME TInv, AtPrompt, Booted, Ended, runs >= 1, runs' <= 1,
         shellPc \in {"waitExit", "prompt", "waitShutdown"}, Next
  PROVE  \/ /\ Ended' /\ runs' >= 1
            /\ shellPc' \in {"waitExit", "prompt", "waitShutdown"}
         \/ Doomed'
  <1>. USE DEF TInv, SharedInv, SharedTypeOK, ShellInv, ShellTypeOK, Ended, Still,
         NoHandler, Procs, Pages, Bits, ShellAt, ShellGoto, emuVars, shellVars,
         coreVars, cpuVars, pageVars, metaVars, osVars, memVars, sharedVars
  <1>1. ~EmuActs /\ ~ShellActs /\ ~CpuActs /\ ~CoreActs
    BY EmuRests, ShellRests, CpuRests, CoreRests
  <1>2. CASE Waits
    BY <1>2, WaitsKeep, WaitsEffect DEF PhaseVars
  <1>3. CASE ShellMain
    <2>1. CASE WaitExit /\ UNCHANGED << emuVars, coreVars, cpuVars >>
      BY <2>1 DEF WaitExit
    <2>2. CASE SendShutdown /\ UNCHANGED << emuVars, coreVars, cpuVars >>
      BY <2>2, SetSignalType DEF SendShutdown
    <2>3. CASE WaitShutdown /\ UNCHANGED << emuVars, coreVars, cpuVars >>
      BY <2>3 DEF WaitShutdown
    <2>4. CASE EmptyLine /\ UNCHANGED << emuVars, coreVars, cpuVars >>
      <3>1. ShellCrash /\ "FAULT" \in interrupts'["UNIVERSAL"]
        BY <2>4 DEF EmptyLine, SetSignal, IntEnable
      <3>. QED BY <2>4, <3>1, CrashDooms
    <2>5. ~\E p \in Programs : RunCommand(p)
      BY MaxRunsAssumption DEF RunCommand
    <2>6. ~ShellLoad /\ ~ExecType /\ ~SendExec
      BY DEF ShellLoad, CopyArgv, RefuseCommand, ArgvCrash, LoadType, SendLoad,
         LoadCrash, WaitLoad, ExecType, SendExec
    <2>. QED BY <1>3, <2>1, <2>2, <2>3, <2>4, <2>5, <2>6
         DEF ShellMain, ShellExec, ShellUser
  <1>. QED BY <1>1, <1>2, <1>3, BootedKinds

-----------------------------------------------------------------------------
(* The invariant of the first command *)

(* Without a step of its main thread the shell stays at its command, and   *)
(* only a command counts as a run.                                         *)
LEMMA ShellStays ==
  ASSUME AtPrompt, Booted, Next, ~ShellMain
  PROVE  UNCHANGED << shellPc, runs >>
  <1>1. CASE ShellActs
    BY <1>1 DEF ShellActs, ShellHandler, ShellSignal, ShellReadType, ShellReadInts,
       ShellFaulted, PrintWrite, AckIO, ShellHandlerGoto, shellVars
  <1>2. CASE Waits \/ EmuActs \/ CpuActs \/ CoreActs
    BY <1>2 DEF Waits, EmuActs, CpuActs, CoreActs, shellVars
  <1>. QED BY <1>1, <1>2, BootedKinds

(* A step starts one command at most. *)
LEMMA RunsGrow == ASSUME Next PROVE runs' = runs \/ runs' = runs + 1
  <1>1. CASE ShellAuto
    BY <1>1
    DEF ShellAuto, ShellWork, ShellStart, ShellBoot, ShellWaitReady, WaitKernel,
        ShellLoad, CopyArgv, RefuseCommand, ArgvCrash, ShellCrash, LoadType, SendLoad,
        LoadCrash, WaitLoad, ShellExec, ExecType, SendExec, WaitExit, WaitShutdown,
        ShellHandler, ShellSignal, ShellReadType, ShellReadInts, ShellFaulted,
        PrintWrite, AckIO, ShellGoto, ShellHandlerGoto, shellVars
  <1>2. CASE PersonStep
    BY <1>2 DEF PersonStep, ShellAsked, ShellUser, SendShutdown, EmptyLine, ShellCrash,
       RunCommand, ShellGoto, shellVars
  <1>3. CASE EmuStep \/ CpuStep \/ CoreStep
    BY <1>3 DEF EmuStep, CpuStep, CoreStep, shellVars
  <1>. QED BY <1>1, <1>2, <1>3 DEF Next

(* The phases follow each other. *)
LEMMA PhasesStep ==
  ASSUME PromptResume, TInv, BitsInPlace, AtPrompt, Booted, Phases, runs' <= 1, Next
  PROVE  Phases'
  <1>1. CASE Early
    BY <1>1, EarlyStep DEF Phases, Late
  <1>2. CASE Doomed
    BY <1>2, DoomedStep DEF Phases
  <1>3. CASE Late /\ Ended
    BY <1>3, EndedStep DEF Phases, Late
  <1>4. CASE Late /\ ~Ended
    <2>1. shellPc = "waitExit" /\ runs >= 1 /\ (Starting \/ Running \/ Asking \/ Dumping)
      BY <1>4 DEF Late
    <2>2. Starting' \/ Running' \/ Asking' \/ Dumping' \/ Ended' \/ Doomed'
      BY <2>1, StartingStep, RunningStep, AskingStep, DumpingStep
    <2>3. {"EXIT", "ERROR"} \cap interrupts["SHELL_CPU"] = {}
      BY <2>1 DEF Starting, Untouched, Running, Asking, AskFrame, Dumping, Clean
    <2>4. UNCHANGED << shellPc, runs >>
      BY <2>1, <2>3, ShellWaitsExit, ShellStays
    <2>. QED BY <2>1, <2>2, <2>4 DEF Phases, Late
  <1>. QED BY <1>1, <1>2, <1>3, <1>4 DEF Phases

(* Without the timing assumption this much remains. *)
Past == runs >= 1 /\ shellPc \in {"waitExit", "prompt", "waitShutdown"}

(* What is past stays past until the next command. *)
LEMMA PastStep ==
  ASSUME TInv, AtPrompt, Booted, Past, runs' <= 1, Next
  PROVE  Past'
  <1>1. CASE ShellMain
    <2>. USE DEF Past, ShellAt, TInv, ShellInv, ShellTypeOK
    <2>1. CASE ShellExec \/ WaitShutdown \/ SendShutdown \/ EmptyLine
      BY <2>1 DEF ShellExec, ExecType, SendExec, WaitExit, WaitShutdown, SendShutdown,
         EmptyLine, ShellCrash, ShellGoto, shellVars
    <2>2. ~ShellLoad
      BY DEF ShellLoad, CopyArgv, RefuseCommand, ArgvCrash, LoadType, SendLoad,
         LoadCrash, WaitLoad
    <2>3. ~\E p \in Programs : RunCommand(p)
      BY MaxRunsAssumption DEF RunCommand
    <2>. QED BY <1>1, <2>1, <2>2, <2>3 DEF ShellMain, ShellUser
  <1>2. CASE ~ShellMain
    BY <1>2, ShellStays DEF Past
  <1>. QED BY <1>1, <1>2

(* During the boot everything that the first command needs is clear. *)
BootClean ==
  /\ Clean
  /\ ~ioBit
  /\ console = << >>
  /\ "LOAD" \notin ackMask["EMU_SHELL"]

(* It stays so, and the first prompt is fresh. *)
LEMMA BootCleanStep ==
  ASSUME TInv, ~AtPrompt, Booting, BootClean, Next
  PROVE  /\ ~AtPrompt' => BootClean'
         /\ AtPrompt' => Fresh'
  <1>. USE DEF TInv, SharedInv, SharedTypeOK, Booting, BootQuiet, BootClean, Clean, Pages,
         emuVars, shellVars, coreVars, cpuVars, regVars, psVars, pageVars, metaVars,
         osVars, memVars, sharedVars
  <1>1. ~EmuActs /\ ~ShellActs /\ ~CpuActs /\ ~CoreSignal
    BY EmuRests, ShellRests, CpuRests DEF CoreSignal
  <1>2. CASE EmuStep
    <2>1. EmuBoot \/ EmuWait
      BY <1>1, <1>2 DEF EmuStep, EmuNext, EmuActs
    <2>2. BootClean'
      BY <1>2, <2>1, SetSignalType
      DEF EmuStep, EmuBoot, ForkCPU, ForkShell, SetPIDs, SetupKernel, SetExecSignal,
          SetReady, EmuWait, WaitShell, WaitCPU
    <2>. QED BY <1>2, <2>2 DEF EmuStep, AtPrompt
  <1>3. CASE ShellAuto \/ PersonStep
    <2>1. ShellStart \/ ShellWaitReady \/ WaitKernel
      BY <1>1, <1>3
      DEF AtPrompt, ShellAuto, PersonStep, ShellAsked, ShellUser, ShellWork, ShellActs,
          ShellBoot, ShellLoad, CopyArgv, RefuseCommand, ArgvCrash, LoadType, SendLoad,
          LoadCrash, WaitLoad, ShellExec, ExecType, SendExec, WaitExit, WaitShutdown,
          SendShutdown, EmptyLine, RunCommand, ShellAt
    <2>2. CASE ShellStart \/ ShellWaitReady
      BY <1>3, <2>2 DEF ShellAuto, PersonStep, ShellStart, ShellWaitReady, ShellGoto,
         AtPrompt
    <2>3. CASE WaitKernel
      <3>1. /\ shellPc' = "prompt" /\ console' = << >> /\ outcome' = outcome
            /\ pending' = {} /\ emuH' = "none" /\ shellH' = "none" /\ cpuH' = "none"
        BY <1>3, <2>3 DEF ShellAuto, PersonStep, WaitKernel, ShellGoto
      <3>2. /\ IDLE' /\ corePc' = "loop" /\ IR' = "usrSetup" /\ PRIV' = "kernel"
            /\ ~ioBit'
        BY <1>3, <2>3
        DEF ShellAuto, PersonStep, WaitKernel, ShellAt, ChildOrder, CoreBoot
      <3>3. /\ {"EXIT", "ERROR"} \cap interrupts'["SHELL_CPU"] = {}
            /\ "FAULT" \notin interrupts'["UNIVERSAL"]
            /\ "FAULT" \notin ackMask'["UNIVERSAL"]
            /\ "IO" \notin ackMask'["EMU_SHELL"]
            /\ "LOAD" \notin ackMask'["EMU_SHELL"]
        BY <2>3 DEF WaitKernel
      <3>. QED BY <3>1, <3>2, <3>3 DEF Fresh, Untouched, Still, NoHandler, AtPrompt
    <2>. QED BY <2>1, <2>2, <2>3
  <1>4. CASE CpuStep
    <2>1. CpuStart \/ CpuMain
      BY <1>1, <1>4 DEF CpuStep, CpuThread, CpuActs
    <2>2. BootClean'
      BY <1>4, <2>1, AckSignalType
      DEF CpuStep, CpuStart, CpuMain, CpuWaitReady, WaitExec, WaitIdle, CpuShutdown,
          CpuExit
    <2>. QED BY <1>4, <2>2 DEF CpuStep, AtPrompt
  <1>5. CASE CoreStep
    <2>1. KernelInit \/ GoesIdle \/ HaltsKernel
      BY <1>1, <1>5
      DEF CoreStep, CoreThread, CoreCycle, CoreKernel, CoreEndsCycle, CoreBoot,
          UserSetup, SetupAborts, HandlerHalts, WriteReturns, MarkAbort, KernelFault,
          Fault, CoreUser, UserStep, SyscallWrite, SyscallExit, UserAborts,
          BadSyscall, DivideByZero, UserAt, Raised, KeepsRunning, AsksIO, StatusNow,
          SendsSys, Aborted, HaltsExit, HaltsAborted, HaltOf, FaultAcked, CycleTo
    <2>2. BootClean'
      BY <1>5, <2>1 DEF CoreStep, KernelInit, GoesIdle, HaltsKernel, HaltOf
    <2>. QED BY <1>5, <2>2 DEF CoreStep, AtPrompt
  <1>. QED BY <1>2, <1>3, <1>4, <1>5 DEF Next

(* The invariant, for as long as there was one command at most, and what   *)
(* remains of it without the timing assumption.                            *)
Common == BInv /\ BitsInPlace /\ (~AtPrompt => BootClean)
CInv == Common /\ (AtPrompt /\ runs <= 1 => Phases)
HInv == Common /\ (AtPrompt /\ runs <= 1 => Early \/ Doomed \/ Past)

(* The invariant holds when the emulator starts, *)
LEMMA CommonInit == ASSUME Init PROVE Common
  <1>1. BitsInPlace
    BY DEF Init, SharedInit, BitsInPlace
  <1>2. BootClean /\ ~AtPrompt
    BY DEF Init, SharedInit, ShellInit, CpuInit, CoreInit, BootClean, Clean, Pages,
       AtPrompt
  <1>3. BInv
    BY TInvInit DEF Init, SharedInit, EmuInit, ShellInit, CpuInit, CoreInit, BInv,
       AtPrompt, Booting, EmuOrder, ChildOrder, BootQuiet, CoreBoot, Procs, Pages
  <1>. QED BY <1>1, <1>2, <1>3 DEF Common

(* and its first three parts are kept by every step. *)
LEMMA CommonStep ==
  ASSUME Common, BInv', Next
  PROVE  /\ Common'
         /\ ~AtPrompt /\ AtPrompt' => Fresh'
         /\ AtPrompt => AtPrompt' /\ Booted /\ TInv
  <1>1. BitsInPlace'
    BY BitsStay DEF Common, BInv
  <1>2. CASE AtPrompt
    BY <1>1, <1>2, BootedStep DEF Common, BInv, TInv, SharedInv
  <1>3. CASE ~AtPrompt
    BY <1>1, <1>3, BootCleanStep DEF Common, BInv
  <1>. QED BY <1>2, <1>3

(* A step that changes nothing keeps everything. *)
LEMMA SameState ==
  ASSUME UNCHANGED vars
  PROVE  /\ BitsInPlace <=> BitsInPlace'
         /\ AtPrompt <=> AtPrompt'
         /\ BootClean => BootClean'
         /\ Early => Early'
         /\ Late => Late'
         /\ Doomed => Doomed'
         /\ Past => Past'
         /\ runs' = runs
  <1>. USE DEF vars, sharedVars, pageVars, metaVars, osVars, memVars, emuVars, shellVars,
         coreVars, cpuVars, Still, NoHandler, Clean, Untouched
  <1>1. Early => Early'
    BY DEF Early, Fresh, Loading, LoadServed, Loaded
  <1>2. Late => Late'
    <2>1. Starting => Starting'
      BY DEF Starting
    <2>2. Running => Running'
      BY DEF Running, Begins, Ends
    <2>3. Asking => Asking'
      BY DEF Asking, AskFrame, Requested, TakenByEmu, PrintedByShell, PassedOn,
         Resuming, WriteShown, WriteUnshown, Shown, ThisWrite
    <2>4. (Dumping => Dumping') /\ (Ended => Ended')
      BY DEF Dumping, Ended
    <2>. QED BY <2>1, <2>2, <2>3, <2>4 DEF Late
  <1>3. Doomed => Doomed'
    BY DEF Doomed
  <1>4. /\ BitsInPlace <=> BitsInPlace'
        /\ AtPrompt <=> AtPrompt'
        /\ BootClean => BootClean'
        /\ Past => Past'
        /\ runs' = runs
    BY DEF BitsInPlace, AtPrompt, BootClean, Past
  <1>. QED BY <1>1, <1>2, <1>3, <1>4

(* The first command goes through its phases, if the handler returns in    *)
(* time.                                                                   *)
LEMMA CInvHolds == ASSUME PromptResume PROVE Spec => []CInv
  <1>1. Init => CInv
    BY CommonInit DEF CInv, Init, ShellInit, AtPrompt
  <1>2. CInv /\ BInv' /\ [Next]_vars => CInv'
    <2>. SUFFICES ASSUME CInv, BInv', [Next]_vars PROVE CInv'
      OBVIOUS
    <2>1. CASE Next
      <3>1. SUFFICES ASSUME AtPrompt', runs' <= 1 PROVE Phases'
        BY <2>1, CommonStep DEF CInv
      <3>2. CASE ~AtPrompt
        BY <2>1, <3>1, <3>2, CommonStep DEF CInv, Phases, Early
      <3>3. CASE AtPrompt
        <4>1. TInv /\ Booted /\ BitsInPlace
          BY <2>1, <3>3, CommonStep DEF CInv, Common
        <4>2. runs <= 1
          BY <2>1, <3>1, <4>1, RunsGrow, MaxRunsAssumption
          DEF TInv, ShellInv, ShellTypeOK, BInv
        <4>. QED BY <2>1, <3>1, <3>3, <4>1, <4>2, PhasesStep DEF CInv
      <3>. QED BY <3>2, <3>3
    <2>2. CASE UNCHANGED vars
      BY <2>2, SameState DEF CInv, Common, Phases
    <2>. QED BY <2>1, <2>2
  <1>. QED BY <1>1, <1>2, BInvHolds, PTL DEF Spec

(* Without that assumption it still leaves the heap when it has started.   *)
LEMMA HInvHolds == Spec => []HInv
  <1>1. Init => HInv
    BY CommonInit DEF HInv, Init, ShellInit, AtPrompt
  <1>2. HInv /\ BInv' /\ [Next]_vars => HInv'
    <2>. SUFFICES ASSUME HInv, BInv', [Next]_vars PROVE HInv'
      OBVIOUS
    <2>1. CASE Next
      <3>1. SUFFICES ASSUME AtPrompt', runs' <= 1 PROVE (Early \/ Doomed \/ Past)'
        BY <2>1, CommonStep DEF HInv
      <3>2. CASE ~AtPrompt
        BY <2>1, <3>1, <3>2, CommonStep DEF HInv, Early
      <3>3. CASE AtPrompt
        <4>1. TInv /\ Booted /\ BitsInPlace
          BY <2>1, <3>3, CommonStep DEF HInv, Common
        <4>2. runs <= 1
          BY <2>1, <3>1, <4>1, RunsGrow, MaxRunsAssumption
          DEF TInv, ShellInv, ShellTypeOK, BInv
        <4>3. CASE Early
          BY <2>1, <3>3, <4>1, <4>3, EarlyStep DEF Past
        <4>. QED BY <2>1, <3>1, <3>3, <4>1, <4>2, <4>3, DoomedStep, PastStep DEF HInv
      <3>. QED BY <3>2, <3>3
    <2>2. CASE UNCHANGED vars
      BY <2>2, SameState DEF HInv, Common
    <2>. QED BY <2>1, <2>2
  <1>. QED BY <1>1, <1>2, BInvHolds, PTL DEF Spec

-----------------------------------------------------------------------------
(* What the invariant says of the states of the first command *)

(* While the handler of the processor runs, nobody pokes the processor     *)
(* again, except to tell it of a fault: the handler does not run on the    *)
(* core thread too.                                                        *)
LEMMA BusyHandlerUnpoked ==
  ASSUME Phases, cpuH # "none", "cpu" \in pending
  PROVE  "FAULT" \in interrupts[signalType]
  <1>1. ~Early
    BY DEF Early, Fresh, Loading, Loaded, Still, NoHandler
  <1>2. ~Late
    BY DEF Late, Starting, Running, Begins, Ends, Asking, AskFrame, Requested, TakenByEmu,
       PrintedByShell, PassedOn, Resuming, Dumping, Ended, Still, NoHandler
  <1>. QED BY <1>1, <1>2 DEF Phases, Doomed

(* The core is never found waiting for the lock that its own thread holds, *)
(* for as long as there was one command and the core that the handler of   *)
(* cpu.c resumes begins no cycle before that returns.  Both ways in which  *)
(* the handler gets onto the core thread are steps of the machine: raise   *)
(* in fault() and a poke while the main thread is in its handler.          *)
THEOREM LockNotHeldTwice ==
  ASSUME PromptResume PROVE Spec => [](runs <= 1 => NoSelfDeadlock)
  <1>1. CInv => (runs <= 1 => NoSelfDeadlock)
    <2>1. Booting => corePc # "stuck"
      BY DEF Booting, CoreBoot
    <2>2. Phases => corePc # "stuck"
      BY DEF Phases, Early, Fresh, Loading, Loaded, Late, Starting, Untouched, Running,
         Begins, Ends, Asking, AskFrame, Requested, TakenByEmu, PrintedByShell,
         PassedOn, Resuming, Dumping, Ended, Doomed
    <2>. QED BY <2>1, <2>2 DEF CInv, Common, BInv, NoSelfDeadlock
  <1>. QED BY <1>1, CInvHolds, PTL

(* When the prompt is back after the first command, or was never left, the *)
(* core is idle, no handler runs and no poke is under way (the loop of     *)
(* main of shell.c).                                                       *)
THEOREM QuietAtPrompt ==
  ASSUME PromptResume PROVE Spec => [](runs <= 1 => PromptQuiet)
  <1>1. CInv => (runs <= 1 => PromptQuiet)
    <2>1. SUFFICES ASSUME CInv, runs <= 1, shellPc = "prompt", proc["shell"] = "armed"
                   PROVE  IDLE /\ corePc = "loop" /\ Still
      BY DEF PromptQuiet, LockFree, Still, NoHandler
    <2>2. Phases
      BY <2>1 DEF CInv, AtPrompt
    <2>. QED BY <2>1, <2>2 DEF Phases, Early, Fresh, Loading, Loaded, Late, Ended,
       Doomed, Untouched
  <1>. QED BY <1>1, CInvHolds, PTL

(* When the first command is reported as faulted, the dump that the shell  *)
(* refers to is the one of its program (runCore, handleSIGUSR1 of          *)
(* emulator.c and main of shell.c).                                        *)
THEOREM FaultIsDumped ==
  ASSUME PromptResume PROVE Spec => [](runs <= 1 => ErrorHasDump)
  <1>1. CInv => (runs <= 1 => ErrorHasDump)
    <2>1. BootClean => outcome # "error"
      BY DEF BootClean, Clean
    <2>2. Phases => (outcome = "error" => dumped)
      BY DEF Phases, Early, Fresh, Loading, Loaded, Late, Starting, Untouched, Clean,
         Running, Asking, AskFrame, Dumping, Ended, Doomed
    <2>. QED BY <2>1, <2>2 DEF CInv, Common, ErrorHasDump
  <1>. QED BY <1>1, CInvHolds, PTL

(* The shell and the emulator are never both in the signal heap during the *)
(* first command (runProgram and setLoadSignal of the shell, the write     *)
(* requests of handleSIGUSR1 in emulator.c), whatever the processor's      *)
(* handler is overtaken by.                                                *)
THEOREM OneInHeap == Spec => [](runs <= 1 => HeapExclusive)
  <1>1. HInv => (runs <= 1 => HeapExclusive)
    <2>1. ~AtPrompt => ~ShellInHeap
      BY DEF AtPrompt, ShellInHeap
    <2>2. Early \/ Doomed \/ Past => HeapExclusive
      BY DEF Early, Fresh, Loading, LoadServed, Loaded, Still, NoHandler, Doomed, Past,
         HeapExclusive, ShellInHeap, EmuInHeap
    <2>. QED BY <2>1, <2>2 DEF HInv, HeapExclusive
  <1>. QED BY <1>1, HInvHolds, PTL

-----------------------------------------------------------------------------
(* The heap during a second command *)

(* The second command begins where the first one has come to rest, *)
Again ==
  /\ shellPc \in {"argv", "hung", "loadType", "setLoad"}
  /\ corePc = "loop" /\ IDLE /\ Still
  /\ outcome # "error"

(* and from its request on the shell is out of the heap for good.          *)
OutOfHeap ==
  shellPc \in {"waitLoad", "execType", "setExec", "waitExit", "prompt", "waitShutdown"}

AInv == CInv /\ (AtPrompt /\ runs = 2 => Again \/ OutOfHeap \/ Doomed)

(* A second command can only follow the rest of the first one.             *)
LEMMA SecondCommand ==
  ASSUME TInv, AtPrompt, Booted, Phases, runs = 1, runs' = 2, Next
  PROVE  Again'
  <1>1. ShellMain
    BY ShellStays DEF TInv, ShellInv, ShellTypeOK
  <1>2. ~(ShellLoad \/ ShellExec \/ WaitShutdown \/ SendShutdown \/ EmptyLine)
    <2>1. SUFFICES ASSUME \/ ShellLoad \/ ShellExec \/ WaitShutdown \/ SendShutdown
                          \/ EmptyLine
                   PROVE  runs' = runs
      OBVIOUS
    <2>. QED BY <2>1
         DEF ShellLoad, CopyArgv, RefuseCommand, ArgvCrash, ShellCrash, LoadType,
             SendLoad, LoadCrash, WaitLoad, ShellExec, ExecType, SendExec, WaitExit,
             WaitShutdown, SendShutdown, EmptyLine, ShellGoto, shellVars
  <1>3. PICK p \in Programs : RunCommand(p)
    BY <1>1, <1>2 DEF ShellMain, ShellUser
  <1>4. shellPc = "prompt" /\ proc["shell"] = "armed"
    BY <1>1, <1>3 DEF RunCommand, ShellAt, ShellMain
  <1>5. IDLE /\ corePc = "loop" /\ Still
    BY <1>4 DEF Phases, Early, Fresh, Loading, Loaded, Late, Ended, Doomed, Untouched
  <1>. QED BY <1>1, <1>3, <1>5
       DEF ShellMain, RunCommand, Again, Still, NoHandler, emuVars, coreVars, cpuVars,
           osVars, sharedVars

(* Until its request nothing moves but the shell. *)
LEMMA AgainStep ==
  ASSUME TInv, AtPrompt, Booted, Again, Next
  PROVE  Again' \/ OutOfHeap' \/ Doomed'
  <1>. USE DEF Again, OutOfHeap, Still, NoHandler, ShellAt, ShellGoto
  <1>1. ~EmuActs /\ ~ShellActs /\ ~CpuActs /\ ~CoreActs
    BY EmuRests, ShellRests, CpuRests, CoreRests
  <1>2. CASE Waits
    BY <1>2, WaitsEffect DEF PhaseVars, shellVars, coreVars
  <1>3. CASE ShellMain
    <2>1. CASE CopyArgv \/ RefuseCommand \/ LoadType \/ SendLoad
      BY <1>3, <2>1
      DEF ShellMain, CopyArgv, RefuseCommand, LoadType, SendLoad, emuVars, shellVars,
          coreVars, cpuVars, osVars
    <2>2. CASE ArgvCrash \/ LoadCrash
      <3>1. ShellCrash /\ "FAULT" \in interrupts'["UNIVERSAL"]
        BY <2>2 DEF ArgvCrash, LoadCrash, SetSignal, IntEnable, TInv, SharedInv,
           SharedTypeOK, Pages
      <3>. QED BY <1>3, <3>1, CrashDooms DEF ShellMain
    <2>3. ~(WaitLoad \/ ShellExec \/ WaitShutdown \/ ShellUser)
      BY DEF WaitLoad, ShellExec, ExecType, SendExec, WaitExit, WaitShutdown,
         ShellUser, SendShutdown, EmptyLine, RunCommand
    <2>. QED BY <1>3, <2>1, <2>2, <2>3 DEF ShellMain, ShellLoad
  <1>. QED BY <1>1, <1>2, <1>3, BootedKinds

(* Only a command leads back to the heap. *)
LEMMA OutOfHeapStep ==
  ASSUME AtPrompt, Booted, OutOfHeap, runs' = runs, runs \in Nat, Next
  PROVE  OutOfHeap'
  <1>. USE DEF OutOfHeap, ShellAt, ShellGoto
  <1>1. CASE ShellMain
    <2>1. CASE WaitLoad \/ ShellExec \/ WaitShutdown \/ SendShutdown \/ EmptyLine
      BY <2>1 DEF WaitLoad, ShellExec, ExecType, SendExec, WaitExit, WaitShutdown,
         SendShutdown, EmptyLine, ShellCrash, shellVars
    <2>2. ~(CopyArgv \/ RefuseCommand \/ ArgvCrash \/ LoadType \/ SendLoad \/ LoadCrash)
      BY DEF CopyArgv, RefuseCommand, ArgvCrash, LoadType, SendLoad, LoadCrash
    <2>3. ~\E p \in Programs : RunCommand(p)
      BY DEF RunCommand
    <2>. QED BY <1>1, <2>1, <2>2, <2>3 DEF ShellMain, ShellLoad, ShellUser
  <1>2. CASE ~ShellMain
    BY <1>2, ShellStays
  <1>. QED BY <1>1, <1>2

(* The second command has left the heap before the emulator enters it. *)
LEMMA AInvHolds == ASSUME PromptResume PROVE Spec => []AInv
  <1>1. Init => AInv
    BY CommonInit DEF AInv, CInv, Init, ShellInit, AtPrompt
  <1>2. AInv /\ BInv' /\ CInv' /\ [Next]_vars => AInv'
    <2>. SUFFICES ASSUME AInv, BInv', CInv', [Next]_vars PROVE AInv'
      OBVIOUS
    <2>1. CASE Next
      <3>1. SUFFICES ASSUME AtPrompt', runs' = 2 PROVE (Again \/ OutOfHeap \/ Doomed)'
        BY DEF AInv
      <3>2. CASE ~AtPrompt
        <4>1. Fresh'
          BY <2>1, <3>1, <3>2, CommonStep DEF AInv, CInv
        <4>. QED BY <4>1 DEF Fresh, Untouched, Clean, Again, OutOfHeap
      <3>3. CASE AtPrompt
        <4>1. TInv /\ Booted /\ BitsInPlace
          BY <2>1, <3>3, CommonStep DEF AInv, CInv, Common
        <4>2. runs \in Nat
          BY <4>1, MaxRunsAssumption DEF TInv, ShellInv, ShellTypeOK
        <4>3. CASE runs = 1
          BY <2>1, <3>1, <3>3, <4>1, <4>3, SecondCommand DEF AInv, CInv
        <4>4. CASE runs = 2
          BY <2>1, <3>1, <3>3, <4>1, <4>2, <4>4, AgainStep, OutOfHeapStep, DoomedStep
          DEF AInv
        <4>. QED BY <2>1, <3>1, <4>2, <4>3, <4>4, RunsGrow
      <3>. QED BY <3>2, <3>3
    <2>2. CASE UNCHANGED vars
      <3>1. (Again => Again') /\ (OutOfHeap => OutOfHeap')
        BY <2>2 DEF Again, OutOfHeap, Still, NoHandler, vars, sharedVars, pageVars,
           metaVars, osVars, memVars, emuVars, shellVars, coreVars, cpuVars
      <3>. QED BY <2>2, <3>1, SameState DEF AInv
    <2>. QED BY <2>1, <2>2
  <1>. QED BY <1>1, <1>2, BInvHolds, CInvHolds, PTL DEF Spec

(* With a handler that returns in time that is so in a second command too  *)
(* (run again); in a third one it is not.                                  *)
THEOREM OneInHeapAgain ==
  ASSUME PromptResume, MaxRuns <= 2 PROVE Spec => []HeapExclusive
  <1>1. AInv => HeapExclusive
    <2>. SUFFICES ASSUME AInv PROVE HeapExclusive
      OBVIOUS
    <2>1. CASE ~AtPrompt
      BY <2>1 DEF AtPrompt, ShellInHeap, HeapExclusive
    <2>2. CASE AtPrompt /\ runs <= 1
      BY <2>2 DEF AInv, CInv, Phases, Early, Fresh, Loading, Loaded, Late, Still,
         NoHandler, Doomed, HeapExclusive, ShellInHeap, EmuInHeap
    <2>3. CASE AtPrompt /\ runs = 2
      BY <2>3 DEF AInv, Again, OutOfHeap, Still, NoHandler, Doomed, HeapExclusive,
         ShellInHeap, EmuInHeap
    <2>4. runs <= 1 \/ runs = 2
      BY MaxRunsAssumption DEF AInv, CInv, Common, BInv, TInv, ShellInv, ShellTypeOK
    <2>. QED BY <2>1, <2>2, <2>3, <2>4
  <1>. QED BY <1>1, AInvHolds, PTL

-----------------------------------------------------------------------------
(* What the invariant says of the steps of the first command *)

(* A program is entered by _usrSetup only. *)
LEMMA EntersProgram ==
  ASSUME TInv, Next, IR = "usrSetup", IR' = "user"
  PROVE  UserSetup
  <1>1. CASE CoreStep
    <2>1. CASE CoreCycle
      BY <2>1 DEF CoreCycle, CoreKernel, KernelInit, SetupAborts, HandlerHalts,
         WriteReturns, MarkAbort, KernelFault, Fault, CoreUser, UserStep,
         SyscallWrite, SyscallExit, UserAborts, BadSyscall, DivideByZero, UserAt,
         CycleTo, coreVars
    <2>2. ~CoreEndsCycle
      BY DEF CoreEndsCycle, Raised, KeepsRunning, GoesIdle, AsksIO, SendsSys,
         HaltsKernel, HaltsExit, HaltsAborted, HaltOf, FaultAcked
    <2>3. ~CoreSignal
      BY DEF CoreSignal, TInv, SharedInv, SharedTypeOK, coreVars
    <2>. QED BY <1>1, <2>1, <2>2, <2>3 DEF CoreStep, CoreThread
  <1>2. ~CpuStep
    BY DEF CpuStep, CpuThread, CpuStart, CpuMain, CpuWaitReady, WaitExec, WaitIdle,
       CpuShutdown, CpuExit, CpuHandler, CpuSignal, CpuReadType, CpuFaulted,
       CpuReadInts, CpuExec, ResumeExec, AckExec, RunAgain, ResumeSys, coreVars,
       TInv, SharedInv, SharedTypeOK
  <1>3. ~EmuStep /\ ~ShellAuto /\ ~PersonStep
    BY DEF EmuStep, ShellAuto, PersonStep, coreVars
  <1>. QED BY <1>1, <1>2, <1>3 DEF Next

(* What the first command runs is the program that was asked for: when     *)
(* _usrSetup enters user memory, the loader has put it there.              *)
THEOREM FirstImageRight ==
  ASSUME PromptResume, MaxRuns <= 1 PROVE Spec => RightImage
  <1>1. CInv /\ [Next]_vars
          => [(IR = "usrSetup" /\ IR' = "user") => userText = shellProg]_vars
    <2>. SUFFICES ASSUME CInv, Next, IR = "usrSetup", IR' = "user"
                  PROVE  userText = shellProg
      OBVIOUS
    <2>1. corePc = "loop" /\ ~IDLE
      BY EntersProgram DEF UserSetup, CycleTo, CInv, Common, BInv
    <2>2. AtPrompt
      BY <2>1 DEF CInv, Common, BInv, Booting, CoreBoot
    <2>3. Phases
      BY <2>2, MaxRunsAssumption DEF CInv, Common, BInv, TInv, ShellInv, ShellTypeOK
    <2>. QED BY <2>1, <2>3 DEF Phases, Early, Fresh, Loading, Loaded, Late, Starting,
       Untouched, Running, Begins, Ends, Asking, AskFrame, Dumping, Ended, Doomed
  <1>. QED BY <1>1, CInvHolds, PTL DEF Spec, RightImage

(* An idle core is resumed by the processor's handler only, on whichever   *)
(* of its two threads.                                                     *)
LEMMA OnlyHandlerResumes ==
  ASSUME Next, IDLE, ~IDLE'
  PROVE  ResumeExec \/ ResumeSys \/ CoreSignal
  <1>1. CoreStep => CoreSignal
    BY DEF CoreStep, CoreThread, CoreCycle, CoreKernel, KernelInit, UserSetup,
       SetupAborts, HandlerHalts, WriteReturns, MarkAbort, KernelFault, Fault,
       CoreUser, UserStep, SyscallWrite, SyscallExit, UserAborts, BadSyscall,
       DivideByZero, CycleTo, coreVars, CoreEndsCycle, Raised, KeepsRunning,
       GoesIdle, AsksIO, SendsSys, HaltsKernel, HaltsExit, HaltsAborted, HaltOf,
       FaultAcked
  <1>2. CASE CpuStep
    BY <1>2 DEF CpuStep, CpuThread, CpuStart, CpuMain, CpuWaitReady, WaitExec, WaitIdle,
       CpuShutdown, CpuExit, CpuHandler, CpuSignal, CpuReadType, CpuFaulted,
       CpuReadInts, CpuExec, AckExec, RunAgain, coreVars
  <1>3. ~EmuStep /\ ~ShellAuto /\ ~PersonStep
    <2>1. IDLE' # IDLE
      OBVIOUS
    <2>. QED BY <2>1 DEF EmuStep, ShellAuto, PersonStep, coreVars
  <1>. QED BY <1>1, <1>2, <1>3 DEF Next

(* In the first command an idle core is resumed at the set-up of the       *)
(* program, or behind a write that is on the console (the two cases of     *)
(* handleSIGUSR1 in cpu.c), however long the program and its output are.   *)
THEOREM FirstResumesRight ==
  ASSUME PromptResume, MaxRuns <= 1, ConsoleKept PROVE Spec => ResumePoint
  <1>1. CInv /\ [Next]_vars
          => [(IDLE /\ ~IDLE') => \/ IR' = "usrSetup"
                                  \/ IR' = "writeDone" /\ Shown(<< userText, ix >>)]_vars
    <2>. SUFFICES ASSUME CInv, Next, IDLE, ~IDLE'
                  PROVE  \/ IR' = "usrSetup"
                         \/ IR' = "writeDone" /\ Shown(<< userText, ix >>)
      OBVIOUS
    <2>0. ResumeExec \/ ResumeSys \/ CoreSignal
      BY OnlyHandlerResumes
    <2>3. AtPrompt
      BY <2>0 DEF ResumeExec, ResumeSys, CoreSignal, CInv, Common, BInv, Booting, BootQuiet
    <2>4. Phases
      BY <2>3, MaxRunsAssumption DEF CInv, Common, BInv, TInv, ShellInv, ShellTypeOK
    <2>1. ResumeExec \/ ResumeSys
      <3>. SUFFICES ASSUME CoreSignal PROVE FALSE
        BY <2>0
      <3>1. "cpu" \in pending /\ cpuH # "none"
        BY DEF CoreSignal
      <3>2. "FAULT" \notin interrupts[signalType]
        BY DEF CoreSignal, coreVars
      <3>. QED BY <2>4, <3>1, <3>2, BusyHandlerUnpoked
    <2>2. cpuH \in {"resume1", "resume2"} /\ IR' = IR
      BY <2>1 DEF ResumeExec, ResumeSys
    <2>5. CASE Late /\ Starting
      BY <2>2, <2>5 DEF Starting, Untouched
    <2>6. CASE Late /\ Asking
      <3>1. Resuming /\ IR = "writeDone"
        BY <2>2, <2>6 DEF Asking, AskFrame, Requested, NoHandler, TakenByEmu,
           PrintedByShell, PassedOn
      <3>. QED BY <2>2, <3>1 DEF Resuming, WriteShown, ThisWrite
    <2>. QED BY <2>2, <2>4, <2>5, <2>6 DEF Phases, Early, Fresh, Loading, Loaded, Late,
       Running, Dumping, Ended, Doomed, Still, NoHandler
  <1>. QED BY <1>1, CInvHolds, PTL DEF Spec, ResumePoint

(* A program is started in kernel mode (the comment "No need to set PRIV   *)
(* as it ended as kernel" of handleSIGUSR1 in cpu.c): so it is in the      *)
(* first command, and in a later one it is not (run user_mode).            *)
THEOREM FirstExecFromKernel ==
  ASSUME PromptResume, MaxRuns <= 1 PROVE Spec => ExecFromKernel
  <1>1. CInv => (cpuH = "exec" => PRIV = "kernel")
    <2>. SUFFICES ASSUME CInv, cpuH = "exec" PROVE PRIV = "kernel"
      OBVIOUS
    <2>1. AtPrompt
      BY DEF CInv, Common, BInv, Booting, BootQuiet
    <2>2. Phases
      BY <2>1, MaxRunsAssumption DEF CInv, Common, BInv, TInv, ShellInv, ShellTypeOK
    <2>. QED BY <2>2 DEF Phases, Early, Fresh, Loading, Loaded, Late, Starting,
       Untouched, Running, Asking, Requested, TakenByEmu, PrintedByShell, PassedOn,
       Resuming, Dumping, Ended, Doomed, Still, NoHandler
  <1>2. CInv /\ [Next]_vars
          => [(cpuH = "exec" /\ cpuH' = "resume1") => PRIV = "kernel"]_vars
    BY <1>1
  <1>. QED BY <1>2, CInvHolds, PTL DEF Spec, ExecFromKernel

-----------------------------------------------------------------------------
(***************************************************************************)
(* The refinement: the machine implements module Session, for every set of *)
(* programs, every code and every length of output.  One command runs its  *)
(* program from its start, shows each of its writes once and in order, and *)
(* is reported by how it ended.                                            *)
(*                                                                         *)
(* The phases say which thread moves.  What is added to them is what the   *)
(* core and the console have to do with the program: the place that the    *)
(* core has come to, and that all writes before it are shown.              *)
(***************************************************************************)

(* The heap, the dump file and their users do not fail.                    *)
NothingFails == HeapOutcomes \subseteq {"ok", "hang"} /\ ~DumpMayFail

(* The cycle limit stops no program but one that loops: an instruction     *)
(* takes two cycles at most, and one is spent before the program.          *)
LimitLargeEnough == 2 * MaxLen + 1 <= CycleLimit

OneCommand == PromptResume /\ MaxRuns <= 1

-----------------------------------------------------------------------------
(* What the core and the console have to do with the program *)

(* All writes of the program before the place i are on the console. *)
ShownBefore(i) ==
  /\ S!LastShown \in 0 .. i - 1
  /\ \A j \in S!LastShown + 1 .. i - 1 : Code[userText][j] # "write"

(* Before the program nothing is left of an earlier one. *)
AtStart == userPS = "null" /\ runningCycles = 0 /\ unionTag # "ioData"

(* The core has come to a place of the program that was asked for. *)
InProgram ==
  /\ userText \in Programs /\ userText = shellProg
  /\ ix \in 1 .. Len(Code[userText]) + 1
  /\ S!Reaches(userText, ix)

(* Before an instruction; the limit on cycles is far unless that loops. *)
AtInstr ==
  /\ ShownBefore(ix)
  /\ psPtr /\ userPS \in {"null", "cur"} /\ excpCur = "SYSCALL"
  /\ \/ UserInstr = "loop"
     \/ /\ status = "RUNNING"
        /\ runningCycles <= IF corePc = "check" THEN 2 * ix - 2 ELSE 2 * ix - 1

(* The request to write is on its way to the console. *)
ToPrint ==
  \/ corePc \in {"check", "sys"}
  \/ pending \cap {"emulator", "shell"} # {}
  \/ emuH \in {"type", "ints", "alloc", "hung", "type2", "setIO"}
  \/ shellH \in {"type", "ints", "print"}

(* Behind a write the core waits until it is shown. *)
AtWrite ==
  /\ UserInstr = "write"
  /\ psPtr /\ userPS = "cur" /\ excpCur = "SYSCALL" /\ status # "HLT"
  /\ runningCycles <= IF corePc = "check" THEN 2 * ix - 1 ELSE 2 * ix
  /\ ToPrint => ShownBefore(ix)
  /\ ~IDLE /\ corePc = "loop" => S!LastShown = ix

(* Behind the instruction that ended the program. *)
AtEnd ==
  /\ ShownBefore(ix)
  /\ userPS = "cur"
  /\ IR = "excpHndlr1" => UserInstr = "exit" /\ excpCur = "SYSCALL"
  /\ IR = "excpHndlr0" => UserInstr = "badop" /\ excpCur = "ABORT"
  /\ IR = "textEnd" => IF corePc = "raise" THEN UserInstr = "badcall"
                       ELSE UserInstr = "abort" /\ excpCur = "ABORT"

EndLocations == {"excpHndlr1", "excpHndlr0", "textEnd"}

Place ==
  \/ IR = "usrSetup" /\ AtStart
  \/ IR = "user" /\ InProgram /\ AtInstr
  \/ IR = "writeDone" /\ InProgram /\ AtWrite
  \/ IR \in EndLocations /\ InProgram /\ AtEnd

(* A halted core has set its status; what is reported is how the program   *)
(* ended.                                                                  *)
Reported ==
  /\ corePc = "halted" => status = "HLT"
  /\ corePc = "raise" => IR = "textEnd"
  /\ corePc = "faultWait" => IR \in {"excpHndlr0", "textEnd"}
  /\ "EXIT" \in interrupts["SHELL_CPU"] =>
       IR = "excpHndlr1" \/ (IR = "user" /\ UserInstr = "loop")
  /\ "ERROR" \in interrupts["SHELL_CPU"] =>
       IR \in {"excpHndlr0", "textEnd"} /\ corePc # "raise"

(* The shell is poked for a write, or because the processor has faulted. *)
ShellPoked == "shell" \in pending \/ shellH # "none"
PokedFor ==
  \/ proc["shell"] = "dead"
  \/ corePc = "raise"
  \/ IR = "writeDone" /\ IDLE /\ "FAULT" \notin interrupts["UNIVERSAL"]

Named == shellPc \in {"execType", "setExec", "waitExit"} => shellProg \in Programs

Followed == Place /\ Reported /\ (ShellPoked => PokedFor) /\ Named

-----------------------------------------------------------------------------
(* The steps that do not move the core *)

(* What such a step must leave alone. *)
Unmoved == UNCHANGED << coreVars, userText, shellProg, console >>
SameReports ==
  \A b \in {"EXIT", "ERROR"} :
    b \in interrupts'["SHELL_CPU"] => b \in interrupts["SHELL_CPU"]

(* The place stays, unless a request comes up or the union turns to one.   *)
LEMMA PlaceStays ==
  ASSUME Place, Reported, Unmoved, SameReports,
         IR = "writeDone" /\ ToPrint' => ToPrint,
         IR = "usrSetup" => unionTag' # "ioData"
  PROVE  Place' /\ Reported'
  <1>. USE DEF Unmoved, coreVars
  <1>1. /\ \A i : ShownBefore(i) => ShownBefore(i)'
        /\ S!LastShown' = S!LastShown
    BY DEF ShownBefore, S!LastShown
  <1>2. InProgram => InProgram'
    BY DEF InProgram, S!Reaches
  <1>3. UserInstr' = UserInstr
    BY DEF UserInstr
  <1>4. /\ AtInstr => AtInstr'
        /\ AtEnd => AtEnd'
    BY <1>1, <1>3 DEF AtInstr, AtEnd
  <1>5. AtWrite /\ IR = "writeDone" => AtWrite'
    BY <1>1, <1>3 DEF AtWrite
  <1>6. AtStart /\ IR = "usrSetup" => AtStart'
    BY DEF AtStart
  <1>7. Reported'
    BY <1>3 DEF Reported, SameReports
  <1>. QED BY <1>2, <1>4, <1>5, <1>6, <1>7 DEF Place

(* A waiting main thread changes none of this. *)
LEMMA WaitsFollow ==
  ASSUME TInv, Waits, Followed
  PROVE  Followed'
  <1>1. /\ Unmoved /\ SameReports /\ (ToPrint' => ToPrint) /\ unionTag' = unionTag
        /\ (ShellPoked' => ShellPoked) /\ (PokedFor => PokedFor') /\ (Named => Named')
    BY WaitsEffect
    DEF PhaseVars, Unmoved, SameReports, ToPrint, ShellPoked, PokedFor, Named,
        shellVars, coreVars, metaVars, memVars, Procs
  <1>2. IR = "usrSetup" => unionTag' # "ioData"
    BY <1>1 DEF Followed, Place, AtStart, EndLocations
  <1>3. Place' /\ Reported'
    BY <1>1, <1>2, PlaceStays DEF Followed
  <1>. QED BY <1>1, <1>3 DEF Followed

-----------------------------------------------------------------------------
(* Before the program runs *)

(* During the boot there is no process state and no cycle is counted. *)
LEMMA BootStart ==
  ASSUME TInv, ~AtPrompt, Booting, AtStart, Next
  PROVE  AtStart'
  <1>. USE DEF AtStart, Booting, BootQuiet, CoreBoot, coreVars, psVars, metaVars,
         sharedVars
  <1>1. ~EmuActs /\ ~ShellActs /\ ~CpuActs /\ ~CoreSignal
    BY EmuRests, ShellRests, CpuRests DEF CoreSignal
  <1>2. CASE EmuStep
    <2>1. EmuBoot \/ EmuWait
      BY <1>1, <1>2 DEF EmuStep, EmuNext, EmuActs
    <2>. QED BY <1>2, <2>1
         DEF EmuStep, EmuBoot, ForkCPU, ForkShell, SetPIDs, SetupKernel, SetReady,
             EmuWait, WaitShell, WaitCPU
  <1>3. CASE ShellAuto \/ PersonStep
    <2>1. ShellStart \/ ShellWaitReady \/ WaitKernel
      BY <1>1, <1>3
      DEF AtPrompt, ShellAuto, PersonStep, ShellAsked, ShellUser, ShellWork, ShellActs,
          ShellBoot, ShellLoad, CopyArgv, RefuseCommand, ArgvCrash, LoadType, SendLoad,
          LoadCrash, WaitLoad, ShellExec, ExecType, SendExec, WaitExit, WaitShutdown,
          SendShutdown, EmptyLine, RunCommand, ShellAt
    <2>. QED BY <1>3, <2>1
         DEF ShellAuto, PersonStep, ShellStart, ShellWaitReady, WaitKernel
  <1>4. CASE CpuStep
    <2>1. CpuStart \/ CpuMain
      BY <1>1, <1>4 DEF CpuStep, CpuThread, CpuActs
    <2>. QED BY <2>1
         DEF CpuStart, CpuMain, CpuWaitReady, WaitExec, WaitIdle, CpuShutdown, CpuExit
  <1>5. CASE CoreStep
    <2>1. KernelInit \/ GoesIdle \/ HaltsKernel
      BY <1>1, <1>5
      DEF CoreStep, CoreThread, CoreCycle, CoreKernel, CoreEndsCycle, UserSetup,
          SetupAborts, HandlerHalts, WriteReturns, MarkAbort, KernelFault, Fault,
          CoreUser, UserStep, SyscallWrite, SyscallExit, UserAborts, BadSyscall,
          DivideByZero, UserAt, Raised, KeepsRunning, AsksIO, StatusNow, SendsSys,
          Aborted, HaltsExit, HaltsAborted, HaltOf, FaultAcked, CycleTo
    <2>. QED BY <2>1 DEF KernelInit, CycleTo, GoesIdle, HaltsKernel, HaltOf
  <1>. QED BY <1>2, <1>3, <1>4, <1>5 DEF Next

(* The first prompt finds it so. *)
LEMMA FreshFollowed == ASSUME Fresh, AtStart PROVE Followed
  BY DEF Fresh, Untouched, Clean, Still, NoHandler, Followed, Place, Reported,
     ShellPoked, Named

(* Until the processor is told, the shell and the emulator's handler move. *)
LEMMA EarlyFollows ==
  ASSUME NothingFails, TInv, BitsInPlace, AtPrompt, Booted, Early, Followed, Next
  PROVE  Followed'
  <1>1. ~ShellActs /\ ~CpuActs /\ ~CoreActs
    <2>1. /\ shellH = "none" /\ "shell" \notin pending
          /\ cpuH = "none" /\ "cpu" \notin pending
          /\ corePc = "loop" /\ IDLE
      BY DEF Early, Fresh, Loading, LoadServed, Loaded, Still, NoHandler, Untouched
    <2>. QED BY <2>1, ShellRests, CpuRests, CoreRests
  <1>2. CASE Waits
    BY <1>2, WaitsFollow
  <1>3. /\ IR = "usrSetup" /\ corePc = "loop" /\ AtStart
        /\ {"EXIT", "ERROR"} \cap interrupts["SHELL_CPU"] = {}
        /\ ~ShellPoked
    BY DEF Early, Fresh, Loading, LoadServed, Loaded, Untouched, Clean, Still,
       NoHandler, Followed, Place, EndLocations, ShellPoked
  <1>4. SUFFICES ASSUME EmuActs \/ ShellMain
                 PROVE  /\ UNCHANGED coreVars
                        /\ unionTag' # "ioData"
                        /\ {"EXIT", "ERROR"} \cap interrupts'["SHELL_CPU"] = {}
                        /\ ShellPoked' => PokedFor'
                        /\ Named'
    BY <1>1, <1>2, <1>3, BootedKinds DEF Followed, Place, Reported, AtStart, coreVars
  <1>. USE DEF TInv, SharedInv, SharedTypeOK, AtStart, ShellPoked, Named, Procs, Pages,
         Bits, coreVars, emuVars, shellVars, cpuVars, pageVars, metaVars, osVars,
         memVars, sharedVars
  <1>5. CASE EmuActs
    <2>1. Loading
      BY <1>5, EmuRests DEF Early, Fresh, Loaded, Still, NoHandler
    <2>2. Loading'
      BY <1>5, <2>1, LoadingEmu
    <2>3. UNCHANGED << coreVars, shellVars >>
      BY <1>5 DEF EmuActs
    <2>. QED BY <2>2, <2>3 DEF Loading, LoadServed, Untouched, Clean, Still, NoHandler,
         Followed
  <1>6. CASE ShellMain
    <2>1. UNCHANGED << coreVars, emuVars, cpuVars >>
      BY <1>6 DEF ShellMain
    <2>2. CASE \/ CopyArgv \/ RefuseCommand \/ LoadType \/ WaitLoad \/ ExecType
               \/ WaitShutdown \/ \E p \in Programs : RunCommand(p)
      BY <1>3, <2>1, <2>2
      DEF CopyArgv, RefuseCommand, LoadType, WaitLoad, ExecType, WaitShutdown,
          RunCommand, ShellAt, ShellGoto, ShellInv, Followed
    <2>3. CASE SendLoad
      BY <1>3, <2>1, <2>3, SetSignalType
      DEF SendLoad, SetLoadSignal, Poke, ShellGoto
    <2>4. CASE SendExec
      BY <1>3, <2>1, <2>4, SetSignalType
      DEF SendExec, SetExecSignal, Poke, ShellAt, ShellGoto, Followed
    <2>5. CASE SendShutdown
      BY <1>3, <2>1, <2>5, SetSignalType DEF SendShutdown, ShellGoto
    <2>6. CASE ArgvCrash \/ EmptyLine
      BY <1>3, <2>1, <2>6, SetSignalType
      DEF ArgvCrash, EmptyLine, ShellCrash, Exit, ShellAt, PokedFor
    <2>7. ~LoadCrash
      BY <1>3 DEF LoadCrash
    <2>8. ~WaitExit
      BY <1>3 DEF WaitExit
    <2>. QED BY <1>6, <2>2, <2>3, <2>4, <2>5, <2>6, <2>7, <2>8
         DEF ShellMain, ShellLoad, ShellExec, ShellUser
  <1>. QED BY <1>4, <1>5, <1>6

(* When FAULT is set the core stays where it is. *)
LEMMA DoomedFollows ==
  ASSUME TInv, BitsInPlace, AtPrompt, Booted, Doomed, Followed, Next
  PROVE  Followed'
  <1>. USE DEF TInv, SharedInv, SharedTypeOK, Doomed, Procs, Pages, Bits, ProcStates,
         emuVars, shellVars, coreVars, cpuVars, pageVars, metaVars, osVars, memVars,
         sharedVars
  <1>1. CASE Waits
    BY <1>1, WaitsFollow
  <1>2. ~EmuActs /\ ~ShellMain
    <2>1. ~EmuActs
      BY EmuRests DEF EmuActs
    <2>2. ~ShellMain
      BY ShellWaitsExit DEF ShellMain
    <2>. QED BY <2>1, <2>2
  <1>3. SUFFICES ASSUME ShellActs \/ CpuActs \/ CoreActs
                 PROVE  /\ Unmoved /\ UNCHANGED << interrupts, unionTag, shellPc >>
                        /\ (ToPrint' => ToPrint) /\ (ShellPoked' => ShellPoked)
                        /\ proc["shell"] = "dead" => proc'["shell"] = "dead"
    <2>1. CASE ShellActs \/ CpuActs \/ CoreActs
      <3>1. IR = "usrSetup" => unionTag' # "ioData"
        BY <1>3, <2>1 DEF Followed, Place, AtStart, EndLocations
      <3>2. Place' /\ Reported'
        BY <1>3, <2>1, <3>1, PlaceStays DEF Followed, SameReports
      <3>3. (PokedFor => PokedFor') /\ (Named => Named')
        BY <1>3, <2>1 DEF PokedFor, Named, Unmoved
      <3>. QED BY <1>3, <2>1, <3>2, <3>3 DEF Followed
    <2>. QED BY <1>1, <1>2, <2>1, BootedKinds
  <1>. USE DEF Unmoved, ToPrint, ShellPoked
  <1>4. CASE ShellActs
    <2>1. CASE (ShellSignal \/ ShellReadType) /\ UNCHANGED << emuVars, coreVars, cpuVars >>
      BY <2>1 DEF ShellSignal, ShellReadType, ShellHandlerGoto
    <2>2. CASE ShellFaulted /\ UNCHANGED << emuVars, coreVars, cpuVars >>
      BY <2>2 DEF ShellFaulted, Exit
    <2>3. ~ShellReadInts /\ ~PrintWrite /\ ~AckIO
      BY DEF ShellReadInts, PrintWrite, AckIO
    <2>. QED BY <1>4, <2>1, <2>2, <2>3 DEF ShellActs, ShellHandler
  <1>5. CASE CpuActs
    <2>1. CASE (CpuSignal \/ CpuReadType) /\ UNCHANGED << emuVars, shellVars >>
      BY <2>1 DEF CpuSignal, CpuReadType, CpuHandlerGoto
    <2>2. CASE CpuFaulted /\ UNCHANGED << emuVars, shellVars >>
      BY <2>2 DEF CpuFaulted, Exit
    <2>3. ~(CpuReadInts \/ CpuExec \/ ResumeExec \/ AckExec \/ RunAgain \/ ResumeSys)
      BY DEF CpuReadInts, CpuExec, ResumeExec, AckExec, RunAgain, ResumeSys
    <2>. QED BY <1>5, <2>1, <2>2, <2>3 DEF CpuActs, CpuHandler
  <1>6. CASE CoreActs
    <2>1. CASE CoreSignal /\ UNCHANGED << emuVars, shellVars >>
      BY <2>1 DEF CoreSignal
    <2>2. CASE Raised /\ UNCHANGED << emuVars, shellVars, cpuVars >>
      BY <2>2 DEF Raised, Exit, regVars, psVars
    <2>3. ~CoreCycle
      BY DEF CoreCycle, CoreKernel, KernelInit, UserSetup, SetupAborts,
         HandlerHalts, WriteReturns, MarkAbort, KernelFault, Fault, CoreUser,
         UserStep, SyscallWrite, SyscallExit, UserAborts, BadSyscall,
         DivideByZero, CycleTo
    <2>4. ~(\/ KeepsRunning \/ GoesIdle \/ AsksIO \/ SendsSys \/ HaltsKernel
            \/ HaltsExit \/ HaltsAborted \/ FaultAcked)
      BY DEF KeepsRunning, GoesIdle, AsksIO, SendsSys, HaltsKernel, HaltsExit,
         HaltsAborted, HaltOf, FaultAcked
    <2>. QED BY <1>6, <2>1, <2>2, <2>3, <2>4 DEF CoreActs, CoreThread, CoreEndsCycle
  <1>. QED BY <1>3, <1>4, <1>5, <1>6

-----------------------------------------------------------------------------
(* The program runs *)

(* The handler of the processor starts the core and leaves the rest.       *)
LEMMA StartingFollows ==
  ASSUME PromptResume, TInv, BitsInPlace, AtPrompt, Booted, Starting, Followed,
         shellPc = "waitExit", Next
  PROVE  Followed'
  <1>1. ~EmuActs /\ ~ShellActs /\ ~ShellMain
    BY EmuRests, ShellRests, ShellWaitsExit DEF Starting, Untouched, Clean
  <1>2. ~CoreActs
    <2>1. CASE IDLE
      BY <2>1, CoreRests DEF Starting, Untouched
    <2>2. CASE ~IDLE
      <3>1. ~MayCycle
        BY <2>2, Zenon DEF MayCycle, Starting
      <3>2. ~CoreEndsCycle /\ ~CoreSignal
        BY <2>2 DEF Starting, Untouched, CoreSignal, CoreEndsCycle, Raised,
           KeepsRunning, GoesIdle, AsksIO, SendsSys, HaltsKernel, HaltsExit,
           HaltsAborted, HaltOf, FaultAcked
      <3>. QED BY <3>1, <3>2 DEF CoreActs, CoreThread
    <2>. QED BY <2>1, <2>2
  <1>3. CASE Waits
    BY <1>3, WaitsFollow
  <1>4. CASE CpuActs
    <2>1. Starting' \/ Running'
      BY <1>4, StartingCpu
    <2>2. /\ UNCHANGED << userPS, runningCycles, interrupts, shellH, shellPc, shellProg >>
          /\ UNCHANGED << unionTag, corePc >>
          /\ pending' \subseteq pending
          /\ IR' = "usrSetup"
      BY <1>4
      DEF CpuActs, CpuHandler, CpuSignal, CpuReadType, CpuFaulted, CpuReadInts, CpuExec,
          ResumeExec, AckExec, RunAgain, ResumeSys, CpuHandlerGoto, Starting, Untouched,
          coreVars, shellVars, psVars, sharedVars, pageVars, metaVars, osVars
    <2>3. IR = "usrSetup" /\ corePc = "loop" /\ AtStart /\ ~ShellPoked
          /\ {"EXIT", "ERROR"} \cap interrupts["SHELL_CPU"] = {}
      BY DEF Starting, Untouched, Clean, Followed, Place, EndLocations, ShellPoked
    <2>. QED BY <2>2, <2>3 DEF Followed, Place, Reported, AtStart, ShellPoked, Named
  <1>. QED BY <1>1, <1>2, <1>3, <1>4, BootedKinds

(* The program's code, and where the core can be in it. *)
LEMMA InstrHere ==
  ASSUME TInv, InProgram
  PROVE  /\ MaxLen \in Nat /\ ix \in Nat /\ ix >= 1
         /\ Len(Code[userText]) \in Nat /\ Len(Code[userText]) <= MaxLen
         /\ ix <= Len(Code[userText]) + 1
         /\ UserInstr = S!InstrAt(userText, ix)
         /\ UserInstr # "badop" => ix <= Len(Code[userText]) /\ UserInstr = Code[userText][ix]
         /\ runningCycles \in Nat
  <1>1. Code[userText] \in Seq(Instr) /\ Len(Code[userText]) <= MaxLen
    BY CodeAssumption DEF InProgram
  <1>2. DOMAIN Code[userText] = 1 .. Len(Code[userText]) /\ Len(Code[userText]) \in Nat
    BY <1>1
  <1>. QED BY <1>1, <1>2, MaxLenAssumption, CycleLimitAssumption
       DEF InProgram, UserInstr, S!InstrAt, TInv, CpuInv, CpuTypeOK, CoreTypeOK

(* A step over an instruction that does not stop the program. *)
LEMMA NextPlace ==
  ASSUME TInv, InProgram, UserInstr \in {"op", "write"},
         ix' = ix + 1, UNCHANGED << userText, shellProg, console >>,
         \/ UserInstr = "op" /\ ShownBefore(ix)
         \/ S!LastShown = ix
  PROVE  InProgram' /\ ShownBefore(ix)'
  <1>1. ix <= Len(Code[userText]) /\ Code[userText][ix] \in {"op", "write"} /\ ix \in Nat
        /\ Len(Code[userText]) \in Nat
    BY InstrHere
  <1>2. InProgram'
    <2>1. S!Reaches(userText', ix')
      <3>1. SUFFICES ASSUME NEW j \in 1 .. ix PROVE Code[userText][j] \notin S!Stops
        BY <1>1 DEF S!Reaches
      <3>2. CASE j = ix
        BY <1>1, <3>2 DEF S!Stops
      <3>3. CASE j # ix
        BY <1>1, <3>3 DEF InProgram, S!Reaches
      <3>. QED BY <3>2, <3>3
    <2>. QED BY <1>1, <2>1 DEF InProgram, S!Reaches
  <1>3. S!LastShown' = S!LastShown
    BY DEF S!LastShown
  <1>4. CASE UserInstr = "op" /\ ShownBefore(ix)
    <2>1. Code[userText][ix] = "op"
      BY <1>4, InstrHere
    <2>2. S!LastShown \in 0 .. ix
      BY <1>1, <1>4 DEF ShownBefore
    <2>3. ASSUME NEW j \in S!LastShown + 1 .. ix PROVE Code[userText][j] # "write"
      BY <1>1, <1>4, <2>1 DEF ShownBefore
    <2>. QED BY <1>1, <1>2, <1>3, <2>2, <2>3 DEF ShownBefore
  <1>5. CASE S!LastShown = ix
    BY <1>1, <1>2, <1>3, <1>5 DEF ShownBefore
  <1>. QED BY <1>4, <1>5

(* A cycle of the running core. *)
LEMMA RunningCycleFollows ==
  ASSUME TInv, shellPc = "waitExit", Running, CoreCycle, Followed,
         UNCHANGED << emuVars, shellVars, cpuVars >>
  PROVE  Followed'
  <1>1. /\ corePc = "loop" /\ ~IDLE /\ Begins
        /\ ~KernelInit /\ ~SetupAborts /\ ~HandlerHalts /\ ~MarkAbort /\ ~KernelFault
    BY DEF Running, Begins, Ends, CoreCycle, CoreKernel, KernelInit, UserSetup,
       SetupAborts, HandlerHalts, WriteReturns, MarkAbort, KernelFault, Fault, CoreUser,
       UserStep, SyscallWrite, SyscallExit, UserAborts, BadSyscall, DivideByZero, CycleTo
  <1>2. /\ ~ShellPoked
        /\ {"EXIT", "ERROR"} \cap interrupts["SHELL_CPU"] = {}
        /\ UNCHANGED << shellPc, shellProg, console, shellH >>
    BY DEF Running, Clean, Still, NoHandler, ShellPoked, shellVars
  <1>. USE DEF sharedVars, osVars, memVars, pageVars, regVars, psVars
  (* A step inside the core: its new place is what remains to be shown. *)
  <1>3. ASSUME corePc' = "check", UNCHANGED sharedVars, Place',
               IR' # "textEnd" \/ UserInstr' # "badcall"
        PROVE  Followed'
    BY <1>2, <1>3 DEF Followed, Reported, ShellPoked, Named
  <1>4. CASE UserSetup
    <2>1. /\ IR = "usrSetup" /\ AtStart /\ console = << >> /\ userText = shellProg
          /\ status = "RUNNING"
      BY <1>1, <1>4 DEF UserSetup, Begins, Followed, Place, EndLocations
    <2>2. /\ corePc' = "check" /\ IR' = "user" /\ ix' = 1 /\ psPtr' /\ userPS' = "null"
          /\ excpCur' = "SYSCALL" /\ status' = "RUNNING" /\ runningCycles' = 0
          /\ UNCHANGED sharedVars
      BY <1>4, <2>1 DEF UserSetup, CycleTo, AtStart
    <2>3. userText \in Programs
      BY <2>1 DEF Followed, Named
    <2>4. Len(Code[userText]) \in Nat
      BY <2>3, CodeAssumption
    <2>5. InProgram'
      BY <1>2, <2>1, <2>2, <2>3, <2>4 DEF InProgram, S!Reaches
    <2>6. ShownBefore(ix)'
      BY <1>2, <2>1, <2>2 DEF ShownBefore, S!LastShown
    <2>7. AtInstr'
      BY <2>2, <2>6 DEF AtInstr
    <2>. QED BY <1>3, <2>2, <2>5, <2>7 DEF Place
  <1>5. CASE WriteReturns
    <2>1. IR = "writeDone" /\ InProgram /\ AtWrite /\ status = "RUNNING"
      BY <1>1, <1>5 DEF WriteReturns, Begins, Followed, Place, EndLocations
    <2>2. /\ corePc' = "check" /\ IR' = "user" /\ ix' = ix + 1
          /\ UNCHANGED << psPtr, userPS, excpCur, status, runningCycles, sharedVars >>
      BY <1>5 DEF WriteReturns, CycleTo
    <2>3. UserInstr = "write" /\ S!LastShown = ix
      BY <1>1, <2>1 DEF AtWrite
    <2>4. InProgram' /\ ShownBefore(ix)'
      BY <1>2, <2>1, <2>2, <2>3, NextPlace
    <2>5. runningCycles' <= 2 * ix' - 2
      BY <1>1, <2>1, <2>2, InstrHere DEF AtWrite
    <2>6. AtInstr'
      BY <2>1, <2>2, <2>4, <2>5 DEF AtInstr, AtWrite
    <2>. QED BY <1>3, <2>2, <2>4, <2>6 DEF Place
  <1>6. CASE CoreUser
    <2>1. IR = "user" /\ InProgram /\ AtInstr /\ ~ioBit
      BY <1>1, <1>6
      DEF CoreUser, UserStep, SyscallWrite, SyscallExit, UserAborts, BadSyscall,
          DivideByZero, UserAt, Begins, Followed, Place, EndLocations
    <2>2. ASSUME UNCHANGED << ix, userText >>
          PROVE  /\ InProgram' /\ ShownBefore(ix)' /\ UserInstr' = UserInstr
                 /\ S!LastShown' = S!LastShown
      BY <1>2, <2>1, <2>2
      DEF InProgram, S!Reaches, AtInstr, ShownBefore, S!LastShown, UserInstr
    <2>3. CASE UserStep /\ UserInstr = "loop"
      <3>1. /\ corePc' = "check" /\ IR' = "user"
            /\ UNCHANGED << ix, psPtr, userPS, excpCur, sharedVars >>
        BY <2>3 DEF UserStep, CycleTo
      <3>2. AtInstr'
        BY <2>1, <2>2, <2>3, <3>1 DEF AtInstr
      <3>. QED BY <1>3, <2>2, <3>1, <3>2 DEF Place
    <2>4. CASE UserStep /\ UserInstr = "op"
      <3>1. /\ corePc' = "check" /\ IR' = "user" /\ ix' = ix + 1
            /\ UNCHANGED << psPtr, userPS, excpCur, status, runningCycles, sharedVars >>
        BY <2>4 DEF UserStep, CycleTo
      <3>2. InProgram' /\ ShownBefore(ix)'
        BY <1>2, <2>1, <2>4, <3>1, NextPlace DEF AtInstr
      <3>3. status = "RUNNING" /\ runningCycles' <= 2 * ix' - 2
        BY <1>1, <2>1, <2>4, <3>1, InstrHere DEF AtInstr
      <3>4. AtInstr'
        BY <2>1, <3>1, <3>2, <3>3 DEF AtInstr
      <3>. QED BY <1>3, <3>1, <3>2, <3>4 DEF Place
    <2>5. CASE SyscallWrite
      <3>1. /\ corePc' = "check" /\ IR' = "writeDone" /\ userPS' = "cur" /\ status' = "IO"
            /\ UNCHANGED << ix, psPtr, excpCur, runningCycles, sharedVars >>
            /\ UserInstr = "write"
        BY <2>5 DEF SyscallWrite, CycleTo, Exception, UserAt
      <3>2. runningCycles <= 2 * ix - 1
        BY <1>1, <2>1, <3>1 DEF AtInstr
      <3>3. AtWrite'
        BY <2>1, <2>2, <3>1, <3>2 DEF AtInstr, AtWrite
      <3>. QED BY <1>3, <2>2, <3>1, <3>3 DEF Place
    <2>6. CASE SyscallExit
      <3>1. /\ corePc' = "check" /\ IR' = "excpHndlr1" /\ userPS' = "cur"
            /\ UNCHANGED << ix, excpCur, sharedVars >> /\ UserInstr = "exit"
        BY <2>6 DEF SyscallExit, CycleTo, Exception, UserAt
      <3>2. AtEnd'
        BY <2>1, <2>2, <3>1 DEF AtInstr, AtEnd
      <3>. QED BY <1>3, <2>2, <3>1, <3>2 DEF Place, EndLocations
    <2>7. CASE UserAborts
      <3>1. /\ corePc' = "check" /\ userPS' = "cur" /\ excpCur' = "ABORT"
            /\ IR' = IF UserInstr = "abort" THEN "textEnd" ELSE "excpHndlr0"
            /\ UNCHANGED << ix, sharedVars >> /\ UserInstr \in {"abort", "badop"}
        BY <2>7 DEF UserAborts, CycleTo, Exception, UserAt
      <3>2. AtEnd'
        BY <2>1, <2>2, <3>1 DEF AtInstr, AtEnd
      <3>. QED BY <1>3, <2>2, <3>1, <3>2 DEF Place, EndLocations
    <2>8. CASE BadSyscall
      <3>1. /\ corePc' = "raise" /\ IR' = "textEnd" /\ userPS' = "cur"
            /\ UserInstr = "badcall" /\ UNCHANGED << ix, userText >>
        BY <2>8 DEF BadSyscall, Fault, Exception, UserAt
      <3>2. AtEnd'
        BY <2>1, <2>2, <3>1 DEF AtInstr, AtEnd
      <3>3. {"EXIT", "ERROR"} \cap interrupts'["SHELL_CPU"] = {}
        BY <1>2, <2>8, SetSignalType
        DEF BadSyscall, Fault, TInv, SharedInv, SharedTypeOK, Pages, Bits
      <3>. QED BY <1>2, <2>2, <3>1, <3>2, <3>3
           DEF Followed, Place, Reported, PokedFor, Named, EndLocations
    <2>9. CASE DivideByZero
      <3>1. UNCHANGED << coreVars, pageVars, metaVars, memVars, pending >>
        BY <2>9 DEF DivideByZero
      <3>2. Unmoved /\ SameReports /\ unionTag' = unionTag
        BY <1>2, <3>1 DEF Unmoved, SameReports, metaVars
      <3>3. Place' /\ Reported'
        BY <2>1, <3>2, PlaceStays DEF Followed
      <3>. QED BY <1>2, <3>1, <3>3 DEF Followed, ShellPoked, Named
    <2>. QED BY <1>6, <2>3, <2>4, <2>5, <2>6, <2>7, <2>8, <2>9
         DEF CoreUser, UserStep, UserAt
  <1>. QED BY <1>1, <1>4, <1>5, <1>6 DEF CoreCycle, CoreKernel

(* The end of a cycle.  Only a looping program meets the limit. *)
LEMMA RunningEndsFollows ==
  ASSUME LimitLargeEnough, TInv, shellPc = "waitExit", Running, CoreEndsCycle, Followed,
         UNCHANGED << emuVars, shellVars, cpuVars >>
  PROVE  Followed'
  <1>1. /\ ~ShellPoked /\ ~Raised /\ ~SendsSys /\ ~FaultAcked
        /\ {"EXIT", "ERROR"} \cap interrupts["SHELL_CPU"] = {}
        /\ UNCHANGED << shellPc, shellProg, console, shellH >>
    BY DEF Running, Begins, Ends, Clean, Still, NoHandler, ShellPoked, Raised, SendsSys,
       FaultAcked, shellVars
  <1>. USE DEF sharedVars, osVars, memVars, pageVars, regVars, psVars
  <1>2. ASSUME UNCHANGED << IR, regVars, psVars, userText >>
        PROVE  /\ InProgram => InProgram'
               /\ ShownBefore(ix) => ShownBefore(ix)'
               /\ UserInstr' = UserInstr
    BY <1>1, <1>2 DEF InProgram, S!Reaches, ShownBefore, S!LastShown, UserInstr
  <1>3. CASE KeepsRunning
    <2>1. /\ corePc = "check" /\ corePc' = "loop" /\ status = "RUNNING"
          /\ runningCycles' = runningCycles + 1
          /\ UNCHANGED << IR, regVars, status, IDLE, psVars, sharedVars >>
      BY <1>3 DEF KeepsRunning, StatusNow, Cycle
    <2>2. IR = "user" /\ InProgram /\ AtInstr
      BY <2>1 DEF Running, Begins, Ends, Followed, Place, EndLocations
    <2>3. AtInstr'
      BY <1>2, <2>1, <2>2, InstrHere DEF AtInstr
    <2>. QED BY <1>1, <1>2, <2>1, <2>2, <2>3
         DEF Followed, Place, Reported, ShellPoked, Named
  <1>4. CASE GoesIdle
    <2>1. /\ corePc = "check" /\ corePc' = "halted" /\ status' = "HLT" /\ IDLE'
          /\ status = "HLT" \/ runningCycles + 1 > CycleLimit
          /\ UNCHANGED << IR, regVars, runningCycles, psVars, sharedVars >>
      BY <1>4 DEF GoesIdle, StatusNow, Cycle
    <2>2. Place'
      <3>1. CASE IR = "usrSetup"
        BY <2>1, <3>1 DEF Followed, Place, EndLocations, AtStart, metaVars
      <3>2. CASE IR = "user"
        <4>1. InProgram /\ AtInstr
          BY <3>2 DEF Followed, Place, EndLocations
        <4>2. UserInstr = "loop"
          <5>1. SUFFICES ASSUME UserInstr # "loop" PROVE FALSE
            OBVIOUS
          <5>2. status = "RUNNING" /\ runningCycles <= 2 * ix - 2
            BY <2>1, <4>1, <5>1 DEF AtInstr
          <5>. QED BY <2>1, <4>1, <5>2, InstrHere, CycleLimitAssumption
               DEF LimitLargeEnough
        <4>. QED BY <1>2, <2>1, <3>2, <4>1, <4>2 DEF AtInstr, Place
      <3>3. IR # "writeDone"
        <4>1. SUFFICES ASSUME IR = "writeDone" PROVE FALSE
          OBVIOUS
        <4>2. InProgram /\ AtWrite
          BY <4>1 DEF Followed, Place, EndLocations
        <4>3. status # "HLT" /\ runningCycles <= 2 * ix - 1 /\ UserInstr = "write"
          BY <2>1, <4>2 DEF AtWrite
        <4>. QED BY <2>1, <4>2, <4>3, InstrHere, CycleLimitAssumption
             DEF LimitLargeEnough
      <3>4. CASE IR \in EndLocations
        BY <1>2, <2>1, <3>4 DEF Followed, Place, EndLocations, AtEnd
      <3>. QED BY <3>1, <3>2, <3>3, <3>4 DEF Followed, Place
    <2>. QED BY <1>1, <2>1, <2>2 DEF Followed, Reported, ShellPoked, Named
  <1>5. CASE AsksIO
    <2>1. /\ corePc = "check" /\ corePc' = "sys" /\ status = "IO" /\ IDLE'
          /\ runningCycles' = runningCycles + 1
          /\ UNCHANGED << IR, regVars, status, psVars, osVars, memVars, interrupts >>
      BY <1>5 DEF AsksIO, StatusNow, Cycle
    <2>2. IR = "writeDone" /\ InProgram /\ AtWrite
      BY <2>1 DEF Running, Begins, Ends, Followed, Place, EndLocations
    <2>3. AtWrite'
      <3>1. ToPrint
        BY <2>1 DEF ToPrint
      <3>. QED BY <1>2, <2>1, <2>2, <3>1, InstrHere DEF AtWrite
    <2>. QED BY <1>1, <1>2, <2>1, <2>2, <2>3
         DEF Followed, Place, Reported, ShellPoked, Named
  <1>6. CASE HaltsKernel \/ HaltsExit \/ HaltsAborted
    <2>1. /\ corePc = "halted" /\ status = "HLT"
          /\ corePc' = IF HaltsAborted THEN "faultWait" ELSE "loop"
          /\ runningCycles' \in {0, runningCycles}
          /\ UNCHANGED << IR, regVars, status, IDLE, psVars, userText, unionTag >>
      BY <1>6
      DEF Followed, Reported, HaltsKernel, HaltsExit, HaltsAborted, HaltOf, metaVars
    <2>2. IDLE /\ pending = {}
      BY <2>1 DEF Running, Begins, Ends, Still
    <2>3. IR # "writeDone"
      BY <2>1 DEF Followed, Place, EndLocations, AtWrite
    <2>4. Place'
      <3>1. CASE IR = "usrSetup"
        BY <2>1, <3>1 DEF Followed, Place, EndLocations, AtStart
      <3>2. CASE IR = "user"
        BY <1>2, <2>1, <3>2 DEF Followed, Place, EndLocations, AtInstr
      <3>3. CASE IR \in EndLocations
        BY <1>2, <2>1, <3>3 DEF Followed, Place, EndLocations, AtEnd
      <3>. QED BY <2>3, <3>1, <3>2, <3>3 DEF Followed, Place
    <2>5. CASE HaltsKernel
      BY <1>1, <2>1, <2>4, <2>5
      DEF HaltsKernel, HaltsAborted, Aborted, Followed, Reported, ShellPoked, Named
    <2>6. CASE HaltsExit
      <3>1. IR = "excpHndlr1" \/ (IR = "user" /\ UserInstr = "loop")
        BY <2>1, <2>3, <2>6
        DEF HaltsExit, Aborted, Followed, Place, EndLocations, AtStart, AtInstr, AtEnd
      <3>2. /\ corePc' = "loop" /\ UNCHANGED << osVars, userText, ix >>
            /\ "ERROR" \notin interrupts'["SHELL_CPU"]
        BY <1>1, <2>1, <2>6
        DEF HaltsExit, HaltsAborted, TInv, SharedInv, SharedTypeOK, Pages
      <3>. QED BY <1>1, <1>2, <2>1, <2>4, <3>1, <3>2
           DEF Followed, Reported, ShellPoked, Named
    <2>7. CASE HaltsAborted
      <3>1. IR \in {"excpHndlr0", "textEnd"}
        BY <2>1, <2>3, <2>7
        DEF HaltsAborted, Aborted, Followed, Place, EndLocations, AtStart, AtInstr, AtEnd
      <3>2. "shell" \notin pending'
        BY <2>2, <2>7, PokeType DEF HaltsAborted, Poke, Procs
      <3>3. {"EXIT", "ERROR"} \cap interrupts'["SHELL_CPU"] = {}
        BY <1>1, <2>7, SetSignalType
        DEF HaltsAborted, TInv, SharedInv, SharedTypeOK, Pages, Bits
      <3>. QED BY <1>1, <2>1, <2>4, <2>7, <3>1, <3>2, <3>3
           DEF Followed, Reported, ShellPoked, Named
    <2>. QED BY <1>6, <2>5, <2>6, <2>7
  <1>. QED BY <1>1, <1>3, <1>4, <1>5, <1>6 DEF CoreEndsCycle

(* The core follows the program. *)
LEMMA RunningFollows ==
  ASSUME LimitLargeEnough, TInv, AtPrompt, Booted, Running, Followed,
         shellPc = "waitExit", Next
  PROVE  Followed'
  <1>1. ~EmuActs /\ ~ShellActs /\ ~ShellMain /\ ~CpuActs /\ ~CoreSignal
    BY EmuRests, ShellRests, ShellWaitsExit, CpuRests
    DEF Running, Clean, Still, NoHandler, CoreSignal
  <1>2. CASE Waits
    BY <1>2, WaitsFollow
  <1>3. CASE CoreActs
    <2>1. \/ CoreCycle /\ UNCHANGED << emuVars, shellVars, cpuVars >>
          \/ CoreEndsCycle /\ UNCHANGED << emuVars, shellVars, cpuVars >>
      BY <1>1, <1>3 DEF CoreActs, CoreThread
    <2>. QED BY <2>1, RunningCycleFollows, RunningEndsFollows
  <1>. QED BY <1>1, <1>2, <1>3, BootedKinds

-----------------------------------------------------------------------------
(* The program asks for a write *)

(* The request goes from the core to the emulator and to the shell, and    *)
(* the place of the core stays with it.                                    *)
LEMMA StillAsking ==
  ASSUME AskFrame, Followed, Unmoved, ToPrint' => ToPrint,
         {"EXIT", "ERROR"} \cap interrupts'["SHELL_CPU"] = {},
         "FAULT" \notin interrupts'["UNIVERSAL"]
  PROVE  Followed'
  <1>1. IR = "writeDone" /\ InProgram /\ IDLE
    BY DEF AskFrame, Followed, Place, EndLocations
  <1>2. Place' /\ Reported'
    BY <1>1, PlaceStays DEF Followed, SameReports
  <1>3. PokedFor' /\ Named'
    BY <1>1 DEF PokedFor, Named, InProgram, Unmoved, coreVars
  <1>. QED BY <1>2, <1>3 DEF Followed

(* The core sends it, *)
LEMMA AskingCore ==
  ASSUME TInv, AtPrompt, AskFrame, Followed, SendsSys,
         UNCHANGED << emuVars, shellVars, cpuVars >>
  PROVE  Followed'
  <1>1. /\ corePc = "sys" /\ corePc' = "loop"
        /\ UNCHANGED << IR, regVars, status, runningCycles, IDLE, psVars, memVars >>
        /\ SetSignal("EMU_CPU", "SYS")
    BY DEF SendsSys, SetSysSignal
  <1>2. IR = "writeDone" /\ InProgram /\ AtWrite /\ IDLE
    BY DEF AskFrame, Followed, Place, EndLocations
  <1>3. ToPrint
    BY <1>1 DEF ToPrint
  <1>4. /\ InProgram' /\ ShownBefore(ix)' /\ UserInstr' = UserInstr
    BY <1>1, <1>2, <1>3
    DEF regVars, memVars, shellVars, InProgram, S!Reaches, AtWrite, ShownBefore,
        S!LastShown, UserInstr
  <1>5. AtWrite'
    BY <1>1, <1>2, <1>4 DEF AtWrite, regVars, psVars
  <1>6. /\ {"EXIT", "ERROR"} \cap interrupts'["SHELL_CPU"] = {}
        /\ "FAULT" \notin interrupts'["UNIVERSAL"]
    BY <1>1, SetSignalType
    DEF AskFrame, TInv, SharedInv, SharedTypeOK, Pages, Bits
  <1>. QED BY <1>1, <1>2, <1>4, <1>5, <1>6
       DEF Followed, Place, Reported, PokedFor, Named, InProgram

(* the emulator passes it to the shell and back to the processor, *)
LEMMA AskingEmu ==
  ASSUME NothingFails, TInv, AskFrame, Followed, EmuActs,
         emuH \notin {"load", "ackLoad", "dump"}
  PROVE  Followed'
  <1>. USE DEF AskFrame, TInv, SharedInv, SharedTypeOK, Procs, Pages, Bits, EmuHandlerAt,
         EmuHandlerGoto, Unmoved, ToPrint, shellVars, coreVars, pageVars, metaVars,
         osVars, memVars, sharedVars
  <1>. SUFFICES /\ Unmoved /\ (ToPrint' => ToPrint)
                /\ {"EXIT", "ERROR"} \cap interrupts'["SHELL_CPU"] = {}
                /\ "FAULT" \notin interrupts'["UNIVERSAL"]
    BY StillAsking
  <1>1. UNCHANGED << shellVars, coreVars >>
    BY DEF EmuActs
  <1>2. CASE EmuSignal \/ EmuReadType \/ EmuReadInts \/ AllocBuffer \/ NoRequest
    BY <1>1, <1>2 DEF EmuSignal, EmuReadType, EmuReadInts, AllocBuffer, NoRequest
  <1>3. CASE SetIO
    BY <1>1, <1>3, SetSignalType DEF SetIO, SetIOSignal
  <1>4. CASE WriteType \/ WaitIO \/ SysType
    BY <1>1, <1>4 DEF WriteType, WaitIO, SysType
  <1>5. CASE AckSys
    BY <1>1, <1>5 DEF AckSys, Poke
  <1>6. ~EmuLoad /\ ~EmuDump
    BY DEF EmuLoad, LoadBinary, LoadFatal, AckLoad, EmuDump, DumpCore, DumpFails
  <1>7. ~AllocFails
    BY DEF AllocFails, NothingFails
  <1>. QED BY <1>2, <1>3, <1>4, <1>5, <1>6, <1>7 DEF EmuActs, EmuHandler, EmuSys

(* the shell prints it, *)
LEMMA AskingShell ==
  ASSUME ConsoleKept, TInv, AskFrame, Followed, PrintedByShell, ShellActs
  PROVE  Followed'
  <1>. USE DEF AskFrame, ShellHandlerGoto, coreVars, pageVars, metaVars, osVars, memVars,
         sharedVars
  <1>1. UNCHANGED coreVars
    BY DEF ShellActs
  <1>2. CASE PrintWrite
    <2>1. IR = "writeDone" /\ InProgram /\ AtWrite /\ IDLE
      BY DEF Followed, Place, EndLocations
    <2>2. /\ shellH = "print" /\ shellH' = "ackIO" /\ pending = {} /\ WriteUnshown
          /\ unionTag = "ioData" /\ ioData = ThisWrite /\ emuH = "waitIO"
          /\ corePc = "loop"
          /\ UNCHANGED << shellPc, shellProg, sharedVars, emuH >>
      BY <1>2 DEF PrintWrite, PrintedByShell, ShellActs, emuVars
    <2>3. Len(console) < MaxConsole /\ Len(console) \in Nat
      BY <2>1, <2>2, InstrHere, MaxConsoleAssumption
      DEF WriteUnshown, ConsoleKept, AtWrite, TInv, ShellInv, ShellTypeOK
    <2>4. console' = Append(console, << userText, ix >>)
      BY <1>2, <2>2, <2>3 DEF PrintWrite, ThisWrite
    <2>5. ~ToPrint'
      BY <1>1, <2>2 DEF ToPrint
    <2>6. InProgram' /\ UserInstr' = UserInstr
      BY <1>1, <2>1, <2>2 DEF InProgram, S!Reaches, UserInstr
    <2>7. AtWrite'
      BY <1>1, <2>1, <2>5, <2>6 DEF AtWrite
    <2>. QED BY <1>1, <2>1, <2>2, <2>6, <2>7
         DEF Followed, Place, Reported, PokedFor, Named, InProgram
  <1>3. CASE ShellHandler /\ ~PrintWrite
    <2>1. Unmoved /\ (ToPrint' => ToPrint) /\ UNCHANGED interrupts
      BY <1>1, <1>3
      DEF ShellActs, ShellHandler, ShellSignal, ShellReadType, ShellReadInts, ShellFaulted,
          AckIO, Unmoved, ToPrint, emuVars, shellVars
    <2>. QED BY <2>1, StillAsking
  <1>. QED BY <1>2, <1>3 DEF ShellActs

(* and when it is on the console the processor resumes the core. *)
LEMMA AskingCpu ==
  ASSUME ConsoleKept, TInv, AskFrame, Followed, Resuming, CpuActs
  PROVE  Followed'
  <1>. USE DEF AskFrame, CpuHandlerGoto, coreVars, regVars, psVars, pageVars, metaVars,
         osVars, memVars, sharedVars, shellVars, emuVars
  <1>1. IR = "writeDone" /\ InProgram /\ AtWrite
    BY DEF Followed, Place, EndLocations
  <1>2. S!LastShown = ix
    BY <1>1, InstrHere DEF Resuming, WriteShown, Shown, ThisWrite, S!LastShown
  <1>3. CASE CpuSignal \/ CpuReadType \/ CpuReadInts \/ CpuFaulted \/ AckExec
    <2>1. Unmoved /\ (ToPrint' => ToPrint) /\ UNCHANGED interrupts
      BY <1>3
      DEF CpuActs, CpuSignal, CpuReadType, CpuReadInts, CpuFaulted, AckExec, Unmoved,
          ToPrint
    <2>. QED BY <2>1, StillAsking
  <1>4. CASE RunAgain \/ ResumeSys
    <2>1. /\ status' \in {"RUNNING", status}
          /\ UNCHANGED << corePc, IR, regVars, runningCycles, psVars, sharedVars >>
          /\ UNCHANGED << emuVars, shellVars >>
          /\ RunAgain => UNCHANGED IDLE
          /\ ~RunAgain => "shell" \notin pending /\ shellH = "none"
      BY <1>4 DEF CpuActs, RunAgain, ResumeSys, Resuming
    <2>2. InProgram' /\ UserInstr' = UserInstr /\ S!LastShown' = ix'
          /\ (ShownBefore(ix) => ShownBefore(ix)')
      BY <1>1, <1>2, <2>1 DEF InProgram, S!Reaches, UserInstr, S!LastShown, ShownBefore
    <2>3. AtWrite'
      BY <1>1, <2>1, <2>2 DEF AtWrite, ToPrint
    <2>4. corePc' = "loop" /\ ("shell" \in pending' \/ shellH' # "none" => IDLE')
      BY <2>1 DEF Resuming
    <2>. QED BY <1>1, <2>1, <2>2, <2>3, <2>4
         DEF Followed, Place, Reported, ShellPoked, PokedFor, Named, InProgram
  <1>5. ~CpuExec /\ ~ResumeExec
    BY DEF Resuming, CpuExec, ResumeExec
  <1>. QED BY <1>3, <1>4, <1>5 DEF CpuActs, CpuHandler

(* So the core keeps its place until the write is shown. *)
LEMMA AskingFollows ==
  ASSUME NothingFails, ConsoleKept, TInv, BitsInPlace, AtPrompt, Booted, Asking, Followed,
         shellPc = "waitExit", Next
  PROVE  Followed'
  <1>1. ~ShellMain
    BY ShellWaitsExit DEF Asking, AskFrame
  <1>2. CASE Waits
    BY <1>2, WaitsFollow
  <1>3. CASE EmuActs
    <2>1. emuH \notin {"load", "ackLoad", "dump"}
      BY DEF Asking, Requested, NoHandler, TakenByEmu, PrintedByShell, PassedOn, Resuming
    <2>. QED BY <1>3, <2>1, AskingEmu DEF Asking
  <1>4. CASE ShellActs
    <2>1. PrintedByShell
      BY <1>4, ShellRests
      DEF Asking, Requested, NoHandler, TakenByEmu, PassedOn, Resuming
    <2>. QED BY <1>4, <2>1, AskingShell DEF Asking
  <1>5. CASE CpuActs
    <2>1. Resuming
      BY <1>5, CpuRests
      DEF Asking, Requested, NoHandler, TakenByEmu, PrintedByShell, PassedOn
    <2>. QED BY <1>5, <2>1, AskingCpu DEF Asking
  <1>6. CASE CoreActs
    <2>1. corePc = "sys" /\ cpuH = "none"
      BY <1>6, CoreRests
      DEF Asking, AskFrame, Requested, NoHandler, TakenByEmu, PrintedByShell, PassedOn,
          Resuming
    <2>2. SendsSys /\ UNCHANGED << emuVars, shellVars, cpuVars >>
      BY <1>6, <2>1
      DEF CoreActs, CoreThread, CoreSignal, CoreCycle, CoreKernel,
          KernelInit, UserSetup, SetupAborts, HandlerHalts, WriteReturns, MarkAbort,
          KernelFault, Fault, CoreUser, UserStep, SyscallWrite, SyscallExit,
          UserAborts, BadSyscall, DivideByZero, CycleTo, CoreEndsCycle, Raised,
          KeepsRunning, GoesIdle, AsksIO, HaltsKernel, HaltsExit, HaltsAborted,
          HaltOf, FaultAcked
    <2>. QED BY <2>2, AskingCore DEF Asking
  <1>. QED BY <1>1, <1>2, <1>3, <1>4, <1>5, <1>6, BootedKinds

-----------------------------------------------------------------------------
(* The program has ended *)

(* The emulator dumps an aborted program, and the core reports it. *)
LEMMA DumpingFollows ==
  ASSUME NothingFails, TInv, AtPrompt, Booted, Dumping, Followed, shellPc = "waitExit",
         Next
  PROVE  Followed'
  <1>1. ~ShellActs /\ ~ShellMain /\ ~CpuActs
    BY ShellRests, ShellWaitsExit, CpuRests DEF Dumping, Still, NoHandler
  <1>2. CASE Waits
    BY <1>2, WaitsFollow
  <1>3. /\ IR \in {"excpHndlr0", "textEnd"} /\ InProgram /\ AtEnd /\ corePc = "faultWait"
        /\ ~ShellPoked
        /\ {"EXIT", "ERROR"} \cap interrupts["SHELL_CPU"] = {}
    BY DEF Dumping, Followed, Reported, Place, EndLocations, ShellPoked, Still, NoHandler
  <1>4. CASE EmuActs
    <2>. USE DEF coreVars, shellVars, pageVars, metaVars, osVars, memVars, sharedVars
    <2>1. EmuSignal \/ EmuReadType \/ EmuReadInts \/ DumpCore
      BY <1>4
      DEF EmuActs, EmuHandler, EmuLoad, LoadBinary, LoadFatal, AckLoad, EmuDump,
          DumpFails, NothingFails, EmuSys, AllocBuffer, AllocFails, NoRequest, WriteType,
          SetIO, WaitIO, SysType, AckSys, EmuHandlerAt, Dumping, Still, NoHandler
    <2>2. /\ Unmoved /\ UNCHANGED << interrupts, shellPc, shellH >>
          /\ pending' \subseteq pending
      BY <1>4, <2>1
      DEF EmuActs, EmuSignal, EmuReadType, EmuReadInts, DumpCore, Unmoved
    <2>3. Place' /\ Reported'
      BY <1>3, <2>2, PlaceStays DEF Followed, SameReports
    <2>. QED BY <1>3, <2>2, <2>3 DEF Followed, ShellPoked, Named, Unmoved
  <1>5. CASE CoreActs
    <2>1. FaultAcked /\ UNCHANGED << emuVars, shellVars, cpuVars >>
      BY <1>3, <1>5
      DEF CoreActs, CoreThread, CoreSignal, Dumping, CoreCycle, CoreKernel, KernelInit,
          UserSetup, SetupAborts, HandlerHalts, WriteReturns, MarkAbort, KernelFault,
          Fault, CoreUser, UserStep, SyscallWrite, SyscallExit, UserAborts, BadSyscall,
          DivideByZero, CycleTo, CoreEndsCycle, Raised, KeepsRunning, GoesIdle, AsksIO,
          SendsSys, HaltsKernel, HaltsExit, HaltsAborted, HaltOf
    <2>2. /\ corePc' = "loop" /\ SetSignal("SHELL_CPU", "ERROR")
          /\ UNCHANGED << IR, regVars, status, IDLE, psVars, osVars, memVars, shellVars >>
      BY <2>1 DEF FaultAcked
    <2>3. InProgram' /\ AtEnd'
      BY <1>3, <2>2
      DEF InProgram, S!Reaches, AtEnd, ShownBefore, S!LastShown, UserInstr, regVars,
          psVars, memVars, shellVars
    <2>4. "EXIT" \notin interrupts'["SHELL_CPU"]
      BY <1>3, <2>2, SetSignalType DEF TInv, SharedInv, SharedTypeOK, Pages, Bits
    <2>. QED BY <1>3, <2>2, <2>3, <2>4
         DEF Followed, Place, Reported, ShellPoked, Named, EndLocations, osVars, shellVars
  <1>. QED BY <1>1, <1>2, <1>4, <1>5, BootedKinds

(* What the shell does then leaves the core where it is. *)
LEMMA EndedFollows ==
  ASSUME TInv, AtPrompt, Booted, Ended, Followed, runs >= 1, runs' <= 1,
         shellPc \in {"waitExit", "prompt", "waitShutdown"}, Next
  PROVE  Followed'
  <1>. USE DEF TInv, SharedInv, SharedTypeOK, Pages, Bits, ShellAt, ShellGoto, Unmoved,
         SameReports, emuVars, shellVars, coreVars, cpuVars, pageVars, metaVars, osVars,
         memVars, sharedVars
  <1>1. ~EmuActs /\ ~ShellActs /\ ~CpuActs /\ ~CoreActs
    BY EmuRests, ShellRests, CpuRests, CoreRests DEF Ended, Still, NoHandler
  <1>2. CASE Waits
    BY <1>2, WaitsFollow
  <1>3. CASE ShellMain
    <2>1. WaitExit \/ SendShutdown \/ WaitShutdown \/ EmptyLine
      <3>1. ~\E p \in Programs : RunCommand(p)
        BY MaxRunsAssumption DEF RunCommand, ShellInv, ShellTypeOK
      <3>. QED BY <1>3, <3>1
           DEF ShellMain, ShellLoad, CopyArgv, RefuseCommand, ArgvCrash, LoadType, SendLoad,
               LoadCrash, WaitLoad, ShellExec, ExecType, SendExec, ShellUser
    <2>2. /\ Unmoved /\ UNCHANGED << unionTag, shellH >>
          /\ "shell" \in pending' => "shell" \in pending
          /\ "emulator" \in pending' => "emulator" \in pending
          /\ emuH' = emuH
      BY <1>3, <2>1
      DEF ShellMain, WaitExit, SendShutdown, WaitShutdown, EmptyLine, ShellCrash, Poke
    <2>3. SameReports
      <3>1. CASE WaitExit
        BY <3>1 DEF WaitExit
      <3>2. CASE SendShutdown \/ EmptyLine
        BY <3>2, SetSignalType DEF SendShutdown, EmptyLine
      <3>3. CASE WaitShutdown
        BY <3>3 DEF WaitShutdown
      <3>. QED BY <2>1, <3>1, <3>2, <3>3
    <2>4. Place' /\ Reported'
      <3>1. ToPrint' => ToPrint
        BY <2>2 DEF ToPrint
      <3>2. IR = "usrSetup" => unionTag' # "ioData"
        BY <2>2 DEF Followed, Place, EndLocations, AtStart
      <3>. QED BY <2>2, <2>3, <3>1, <3>2, PlaceStays DEF Followed
    <2>5. ~ShellPoked'
      BY <2>2 DEF ShellPoked, Ended, Still, NoHandler
    <2>6. Named'
      BY <2>1, <2>2
      DEF Named, Followed, WaitExit, SendShutdown, WaitShutdown, EmptyLine, ShellCrash
    <2>. QED BY <2>4, <2>5, <2>6 DEF Followed
  <1>. QED BY <1>1, <1>2, <1>3, BootedKinds

-----------------------------------------------------------------------------
(* The invariant *)

(* In every phase of the command a step keeps to the program. *)
LEMMA FollowedStep ==
  ASSUME PromptResume, ConsoleKept, NothingFails, LimitLargeEnough, TInv, BitsInPlace,
         AtPrompt, Booted, Phases, Followed, runs' <= 1, Next
  PROVE  Followed'
  <1>1. CASE Early
    BY <1>1, EarlyFollows
  <1>2. CASE Doomed
    BY <1>2, DoomedFollows
  <1>3. CASE Late /\ Ended
    BY <1>3, EndedFollows DEF Late
  <1>4. CASE Late /\ ~Ended
    BY <1>4, StartingFollows, RunningFollows, AskingFollows, DumpingFollows DEF Late
  <1>. QED BY <1>1, <1>2, <1>3, <1>4 DEF Phases

Follows == IF AtPrompt THEN Followed ELSE AtStart

(* The core stands where the program and the console say, at all times. *)
LEMMA FollowsHolds ==
  ASSUME OneCommand, ConsoleKept, NothingFails, LimitLargeEnough
  PROVE  Spec => [](CInv /\ Follows)
  <1>1. Init => Follows
    BY DEF Init, SharedInit, ShellInit, CpuInit, CoreInit, Follows, AtPrompt, AtStart
  <1>2. CInv /\ CInv' /\ Follows /\ [Next]_vars => Follows'
    <2>. SUFFICES ASSUME CInv, CInv', Follows, [Next]_vars PROVE Follows'
      OBVIOUS
    <2>1. CASE Next
      <3>1. /\ ~AtPrompt /\ AtPrompt' => Fresh'
            /\ AtPrompt => AtPrompt' /\ Booted /\ TInv /\ BitsInPlace
            /\ ~AtPrompt => Booting /\ TInv
        BY <2>1, CommonStep DEF CInv, Common, BInv
      <3>2. runs <= 1 /\ runs' <= 1
        BY MaxRunsAssumption
        DEF OneCommand, CInv, Common, BInv, TInv, ShellInv, ShellTypeOK
      <3>3. CASE AtPrompt
        BY <2>1, <3>1, <3>2, <3>3, FollowedStep DEF CInv, Follows, OneCommand
      <3>4. CASE ~AtPrompt
        <4>1. AtStart'
          BY <2>1, <3>1, <3>4, BootStart DEF Follows
        <4>2. CASE AtPrompt'
          <5>1. (Fresh /\ AtStart => Followed)'
            BY FreshFollowed DEF Fresh, Untouched, Clean, Still, NoHandler, Followed,
               Place, Reported, ShellPoked, Named
          <5>. QED BY <3>1, <3>4, <4>1, <4>2, <5>1 DEF Follows
        <4>. QED BY <4>1, <4>2 DEF Follows
      <3>. QED BY <3>3, <3>4
    <2>2. CASE UNCHANGED vars
      BY <2>2
      DEF vars, sharedVars, pageVars, metaVars, osVars, memVars, emuVars, shellVars,
          coreVars, cpuVars, Follows, AtPrompt, AtStart, Followed, Place, InProgram,
          S!Reaches, AtInstr, AtWrite, AtEnd, ShownBefore, S!LastShown, UserInstr,
          ToPrint, EndLocations, Reported, ShellPoked, PokedFor, Named
    <2>. QED BY <2>1, <2>2
  <1>3. OneCommand => PromptResume
    BY DEF OneCommand
  <1>. QED BY <1>1, <1>2, <1>3, CInvHolds, PTL DEF Spec

-----------------------------------------------------------------------------
(* What the session makes of the place *)

(* At an instruction that ends the program everything is shown, *)
LEMMA AllShown ==
  ASSUME TInv, InProgram, ShownBefore(ix), UserInstr \in S!Stops
  PROVE  S!Unshown = {} /\ S!EndsBy(shellProg, UserInstr)
  <1>1. /\ ix \in Nat /\ ix >= 1 /\ Len(Code[shellProg]) \in Nat
        /\ ix <= Len(Code[shellProg]) + 1
        /\ ix <= Len(Code[shellProg]) => UserInstr = Code[shellProg][ix]
        /\ UserInstr = S!InstrAt(shellProg, ix) /\ S!Reaches(shellProg, ix)
    BY InstrHere DEF InProgram, S!InstrAt
  <1>2. ASSUME NEW i \in S!Unshown PROVE FALSE
    <2>1. /\ i \in Nat /\ i >= S!LastShown + 1 /\ i <= Len(Code[shellProg])
          /\ S!LastShown \in Nat
          /\ Code[shellProg][i] = "write" /\ S!Reaches(shellProg, i)
      BY <1>1 DEF S!Unshown, ShownBefore
    <2>2. ~(i < ix)
      BY <1>1, <2>1 DEF ShownBefore, InProgram
    <2>3. i # ix
      BY <1>1, <2>1 DEF S!Stops
    <2>4. ~(i > ix)
      BY <1>1, <2>1 DEF S!Reaches
    <2>. QED BY <1>1, <2>1, <2>2, <2>3, <2>4
  <1>. QED BY <1>1, <1>2 DEF S!EndsBy

(* and at a write this is the next one to be shown. *)
LEMMA NextShown ==
  ASSUME TInv, InProgram, ShownBefore(ix), UserInstr = "write"
  PROVE  ix \in S!Unshown /\ \A j \in S!Unshown : ix <= j
  <1>1. /\ ix \in Nat /\ Len(Code[shellProg]) \in Nat /\ ix <= Len(Code[shellProg])
        /\ Code[shellProg][ix] = "write" /\ S!Reaches(shellProg, ix)
        /\ S!LastShown \in Nat /\ S!LastShown + 1 <= ix
    BY InstrHere DEF InProgram, ShownBefore
  <1>2. ASSUME NEW j \in S!Unshown, j < ix PROVE FALSE
    BY <1>1, <1>2 DEF S!Unshown, ShownBefore, InProgram
  <1>. QED BY <1>1, <1>2 DEF S!Unshown

-----------------------------------------------------------------------------
(* The steps *)

(* The person sees no step of another process than the shell, *)
LEMMA OthersStutter ==
  ASSUME BInv, EmuStep \/ CpuStep \/ CoreStep
  PROVE  UNCHANGED S!sessionVars
  <1>. USE DEF BInv, TInv, SharedInv, SharedTypeOK, Procs, osVars, sharedVars
  <1>1. UNCHANGED shellVars
    BY DEF EmuStep, CpuStep, CoreStep
  <1>2. proc'["shell"] = "dead" <=> proc["shell"] = "dead"
    <2>1. CASE EmuStep
      <3>1. CASE EmuBoot
        <4>1. proc["shell"] = "none" \/ ~ForkShell
          BY DEF Booting, Booted, EmuOrder, ForkShell, EmuMainAt
        <4>. QED BY <3>1, <4>1 DEF EmuBoot, ForkCPU, ForkShell, SetPIDs, SetupKernel, SetReady
      <3>2. CASE EmuWait \/ EmuSignal \/ EmuReadType \/ EmuReadInts
        BY <3>2 DEF EmuWait, WaitShell, WaitCPU, Exit, EmuSignal, EmuReadType, EmuReadInts
      <3>3. CASE EmuLoad \/ EmuDump
        BY <3>3 DEF EmuLoad, LoadBinary, LoadFatal, AckLoad, EmuDump, DumpCore, DumpFails,
           EmuFault, Exit
      <3>4. CASE EmuSys
        BY <3>4 DEF EmuSys, AllocBuffer, AllocFails, EmuFault, Exit, NoRequest, WriteType,
           SetIO, WaitIO, SysType, AckSys
      <3>. QED BY <2>1, <3>1, <3>2, <3>3, <3>4 DEF EmuStep, EmuNext, EmuHandler
    <2>2. CASE CpuStep
      BY <2>2
      DEF CpuStep, CpuThread, CpuStart, CpuMain, CpuWaitReady, WaitExec, WaitIdle,
          CpuShutdown, CpuExit, Exit, CpuHandler, CpuSignal, CpuReadType, CpuFaulted,
          CpuReadInts, CpuExec, ResumeExec, AckExec, RunAgain, ResumeSys
    <2>3. CASE CoreStep
      <3>1. CASE CoreCycle
        BY <3>1
        DEF CoreCycle, CoreKernel, KernelInit, UserSetup, SetupAborts, HandlerHalts,
            WriteReturns, MarkAbort, KernelFault, Fault, CoreUser, UserStep, SyscallWrite,
            SyscallExit, UserAborts, BadSyscall, DivideByZero, Exit
      <3>2. CASE CoreEndsCycle
        BY <3>2
        DEF CoreEndsCycle, Raised, Exit, KeepsRunning, GoesIdle, AsksIO, SendsSys,
            HaltsKernel, HaltsExit, HaltsAborted, FaultAcked
      <3>3. CASE CoreSignal
        BY <3>3 DEF CoreSignal
      <3>. QED BY <2>3, <3>1, <3>2, <3>3 DEF CoreStep, CoreThread
    <2>. QED BY <2>1, <2>2, <2>3
  <1>. QED BY <1>1, <1>2 DEF S!sessionVars, Phase, AtPrompt, shellVars

(* and none of its boot but the last. *)
LEMMA BootShown ==
  ASSUME BInv, ~AtPrompt, ShellAuto \/ PersonStep
  PROVE  S!Boot \/ UNCHANGED S!sessionVars
  <1>. USE DEF BInv, TInv, SharedInv, SharedTypeOK, Procs, ShellGoto, osVars, sharedVars,
         Phase, AtPrompt
  <1>1. ShellStart \/ (proc["shell"] = "armed" /\ (ShellWaitReady \/ WaitKernel))
    BY DEF Booting, BootQuiet, ShellAuto, PersonStep, ShellAsked, ShellUser, ShellWork,
       ShellHandler, ShellSignal, ShellReadType, ShellReadInts, ShellFaulted, PrintWrite,
       AckIO, ShellBoot, ShellLoad, CopyArgv, RefuseCommand, ArgvCrash, LoadType,
       SendLoad, LoadCrash, WaitLoad, ShellExec, ExecType, SendExec, WaitExit,
       WaitShutdown, SendShutdown, EmptyLine, RunCommand, ShellAt
  <1>2. CASE ShellStart
    BY <1>2 DEF ShellStart, S!sessionVars
  <1>3. CASE proc["shell"] = "armed" /\ ShellWaitReady
    BY <1>3 DEF ShellWaitReady, ShellAt, S!sessionVars
  <1>4. CASE proc["shell"] = "armed" /\ WaitKernel
    BY <1>4 DEF WaitKernel, ShellAt, S!Boot
  <1>. QED BY <1>1, <1>2, <1>3, <1>4

(* The handler of the shell shows the next write, or ends the session when *)
(* the system call does not exist.                                         *)
LEMMA HandlerShown ==
  ASSUME ConsoleKept, BInv, BitsInPlace, AtPrompt, Phases, Followed, ShellActs
  PROVE  S!Show \/ S!Crash \/ UNCHANGED S!sessionVars
  <1>. USE DEF BInv, TInv, SharedInv, SharedTypeOK, Procs, ShellHandlerGoto, osVars,
         sharedVars, shellVars, Phase, AtPrompt
  <1>1. proc["shell"] = "armed" /\ ShellHandler
    BY DEF ShellActs
  <1>2. CASE ShellSignal \/ ShellReadType \/ ShellReadInts \/ AckIO
    BY <1>2 DEF ShellSignal, ShellReadType, ShellReadInts, AckIO, S!sessionVars
  <1>3. CASE ShellFaulted
    <2>1. "FAULT" \in interrupts["UNIVERSAL"]
      BY <1>3, BitPages DEF ShellFaulted, ShellInv, ShellTypeOK, Pages
    <2>2. corePc = "raise"
      BY <1>1, <1>3, <2>1 DEF ShellFaulted, Followed, ShellPoked, PokedFor
    <2>3. shellPc = "waitExit"
      BY <1>1, <2>2
      DEF Phases, Early, Fresh, Loading, Loaded, Untouched, Late, Starting, Running, Begins,
          Ends, Asking, Requested, TakenByEmu, PrintedByShell, PassedOn, Resuming, Dumping,
          Ended, Doomed
    <2>4. InProgram /\ ShownBefore(ix) /\ UserInstr = "badcall"
      BY <2>2 DEF Followed, Reported, Place, EndLocations, AtEnd
    <2>5. S!Unshown = {} /\ S!EndsBy(shellProg, "badcall")
      BY <2>4, AllShown DEF S!Stops
    <2>. QED BY <1>1, <1>3, <2>3, <2>5 DEF ShellFaulted, Exit, S!Crash
  <1>4. CASE PrintWrite
    <2>1. shellPc = "waitExit" /\ Asking /\ PrintedByShell
      BY <1>1, <1>4
      DEF PrintWrite, Phases, Early, Fresh, Loading, Loaded, Late, Starting, Running, Asking,
          Requested, TakenByEmu, PassedOn, Resuming, Dumping, Ended, Doomed, Still,
          NoHandler
    <2>2. InProgram /\ ShownBefore(ix) /\ UserInstr = "write"
      BY <1>4, <2>1
      DEF PrintWrite, ToPrint, Asking, AskFrame, Followed, Place, EndLocations, AtWrite
    <2>3. Len(console) < MaxConsole
      BY <1>4, <2>1, <2>2, InstrHere, MaxConsoleAssumption
      DEF PrintWrite, PrintedByShell, WriteUnshown, ConsoleKept, ShellInv, ShellTypeOK
    <2>4. console' = Append(console, << shellProg, ix >>)
      BY <1>4, <2>1, <2>2, <2>3 DEF PrintWrite, PrintedByShell, ThisWrite, InProgram
    <2>5. Phase = "running" /\ Phase' = "running"
      BY <1>1, <1>4, <2>1 DEF PrintWrite
    <2>6. UNCHANGED << shellProg, outcome >>
      BY <1>4 DEF PrintWrite
    <2>. QED BY <2>2, <2>4, <2>5, <2>6, NextShown DEF S!Show
  <1>. QED BY <1>1, <1>2, <1>3, <1>4 DEF ShellHandler

(* The main thread takes the command, and refuses or reports it. *)
LEMMA MainShown ==
  ASSUME NothingFails, BInv, AtPrompt, Phases, Followed, ShellMain
  PROVE  \/ \E p \in Programs : S!Command(p)
         \/ S!Refuse \/ S!Finish \/ S!Close
         \/ UNCHANGED S!sessionVars
  <1>. USE DEF BInv, TInv, SharedInv, SharedTypeOK, Procs, ShellAt, ShellGoto, osVars,
         sharedVars, shellVars, Phase, AtPrompt
  <1>1. proc["shell"] = "armed"
    BY DEF ShellMain
  <1>2. ASSUME shellPc \in {"argv", "setLoad"} PROVE Fresh
    BY <1>1, <1>2
    DEF Phases, Early, Loading, Loaded, Late, Doomed
  <1>3. CASE \E p \in Programs : RunCommand(p)
    <2>1. PICK p \in Programs : RunCommand(p)
      BY <1>3
    <2>2. S!Command(p)
      BY <1>1, <2>1 DEF RunCommand, S!Command
    <2>. QED BY <2>2
  <1>4. CASE CopyArgv \/ LoadType \/ SendLoad \/ WaitLoad \/ ExecType \/ SendExec
    BY <1>1, <1>4
    DEF CopyArgv, LoadType, SendLoad, WaitLoad, ExecType, SendExec, S!sessionVars
  <1>5. CASE RefuseCommand
    BY <1>1, <1>2, <1>5 DEF RefuseCommand, Fresh, Untouched, S!Refuse
  <1>6. ~ArgvCrash
    BY DEF ArgvCrash, NothingFails
  <1>7. ~LoadCrash
    BY <1>2 DEF LoadCrash, Fresh, Untouched, Followed, Place, EndLocations, AtStart
  <1>8. CASE WaitExit
    <2>1. PICK b \in {"EXIT", "ERROR"} :
            /\ b \in interrupts["SHELL_CPU"]
            /\ outcome' = IF b = "EXIT" THEN "exit" ELSE "error"
      BY <1>8 DEF WaitExit
    <2>2. /\ InProgram /\ ShownBefore(ix)
          /\ UserInstr \in IF b = "EXIT" THEN {"exit", "loop"} ELSE {"abort", "badop"}
      BY <2>1 DEF Followed, Reported, Place, EndLocations, AtInstr, AtEnd
    <2>3. S!Unshown = {} /\ S!EndsBy(shellProg, UserInstr)
      BY <2>2, AllShown DEF S!Stops
    <2>4. outcome' = S!ReportOf(UserInstr)
      BY <2>1, <2>2 DEF S!ReportOf
    <2>5. /\ Phase = "running" /\ Phase' = "prompt"
          /\ UNCHANGED << shellProg, console >>
      BY <1>1, <1>8 DEF WaitExit
    <2>. QED BY <2>2, <2>3, <2>4, <2>5 DEF S!Finish
  <1>9. CASE SendShutdown \/ WaitShutdown \/ EmptyLine
    <2>1. CASE SendShutdown
      BY <1>1, <2>1 DEF SendShutdown, S!Close
    <2>2. CASE WaitShutdown
      <3>1. Phase = "closing"
        BY <1>1, <2>2 DEF WaitShutdown
      <3>2. proc'["shell"] = "dead" /\ UNCHANGED << shellProg, console, outcome >>
        BY <2>2 DEF WaitShutdown, Exit
      <3>3. Phase' = "closed"
        BY <3>2, Zenon DEF Phase
      <3>. QED BY <3>1, <3>2, <3>3, Zenon DEF S!Close
    <2>3. CASE EmptyLine
      <3>1. Phase = "prompt"
        BY <1>1, <2>3 DEF EmptyLine
      <3>2. proc'["shell"] = "dead" /\ UNCHANGED << shellProg, console, outcome >>
        BY <2>3 DEF EmptyLine, ShellCrash, Exit
      <3>3. Phase' = "closed"
        BY <3>2, Zenon DEF Phase
      <3>. QED BY <3>1, <3>2, <3>3, Zenon DEF S!Close
    <2>. QED BY <1>9, <2>1, <2>2, <2>3
  <1>. QED BY <1>3, <1>4, <1>5, <1>6, <1>7, <1>8, <1>9
       DEF ShellMain, ShellLoad, ShellExec, ShellUser

(* Every step of the machine is a step of the session, or is not seen. *)
LEMMA SessionStep ==
  ASSUME OneCommand, ConsoleKept, NothingFails, CInv, Follows, [Next]_vars
  PROVE  [S!Next]_S!sessionVars
  <1>1. CASE UNCHANGED vars
    BY <1>1 DEF vars, sharedVars, osVars, shellVars, S!sessionVars, Phase, AtPrompt
  <1>2. BInv /\ BitsInPlace
    BY DEF CInv, Common
  <1>3. CASE EmuStep \/ CpuStep \/ CoreStep
    BY <1>2, <1>3, OthersStutter
  <1>4. CASE (ShellAuto \/ PersonStep) /\ ~AtPrompt
    BY <1>2, <1>4, BootShown DEF S!Next
  <1>5. CASE (ShellAuto \/ PersonStep) /\ AtPrompt
    <2>1. Next /\ Booted /\ Phases /\ Followed
      BY <1>2, <1>5, MaxRunsAssumption
      DEF Next, BInv, CInv, Follows, OneCommand, TInv, ShellInv, ShellTypeOK
    <2>2. CASE ShellMain
      BY <1>2, <1>5, <2>1, <2>2, MainShown DEF S!Next
    <2>3. CASE ShellActs
      BY <1>2, <1>5, <2>1, <2>3, HandlerShown DEF S!Next
    <2>4. ShellMain \/ ShellActs
      BY <1>5, <2>1
      DEF ShellAuto, PersonStep, ShellWork, ShellAsked, ShellStart, ShellBoot,
          ShellWaitReady, WaitKernel, ShellAt, AtPrompt, ShellMain, ShellActs
    <2>. QED BY <2>2, <2>3, <2>4
  <1>. QED BY <1>1, <1>3, <1>4, <1>5 DEF Next

(* The machine implements the session that its user is promised (module    *)
(* Session), for every set of programs and every code: a command runs its  *)
(* program from the start and alone, its writes appear once and in order,  *)
(* and the prompt is back when all of them are shown, with a report of how *)
(* the program ended.  It is so for one command after the boot, when the   *)
(* heap and the dump file do not fail, the cycle limit is above what a     *)
(* program that does not loop can use, and the handler of the processor    *)
(* returns in time.                                                        *)
THEOREM SessionImplemented ==
  ASSUME OneCommand, ConsoleKept, NothingFails, LimitLargeEnough
  PROVE  Spec => SessionSpec
  <1>1. Init => S!Init
    BY DEF Init, SharedInit, ShellInit, S!Init, Phase, AtPrompt, Procs
  <1>2. CInv /\ Follows /\ [Next]_vars => [S!Next]_S!sessionVars
    BY SessionStep
  <1>. QED BY <1>1, <1>2, FollowsHolds, PTL DEF Spec, SessionSpec, S!Spec
===============================================================================
