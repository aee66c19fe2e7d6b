------------------------------- MODULE Emulator -------------------------------
(***************************************************************************)
(* The emulator process `ruemu': its main thread boots the other two       *)
(* processes and then waits for their exit; everything else it does, it    *)
(* does inside its SIGUSR1 handler, which interrupts the main thread and   *)
(* cannot be interrupted by a second SIGUSR1.                              *)
(***************************************************************************)
EXTENDS EmSignal

CONSTANTS
  Unloadable,    \* programs whose file loadBinary refuses (dFatal)
  DumpMayFail    \* fopen of the core dump may fail

ASSUME UnloadableAssumption == Unloadable \subseteq Programs
ASSUME DumpMayFailAssumption == DumpMayFail \in BOOLEAN

VARIABLES
  emuPc,     \* where the main thread is
  emuH,      \* where the SIGUSR1 handler is, "none" outside it
  emuPage,   \* the handler's sigType
  emuWrite   \* the write that handleSysSignal has taken from the metadata

emuVars == << emuPc, emuH, emuPage, emuWrite >>

EmuTypeOK ==
  /\ emuPc \in {"forkCPU", "forkShell", "setPIDs", "setupKernel", "setReady",
                "waitShell", "waitCPU"}
  /\ emuH \in {"none", "type", "ints", "load", "ackLoad", "dump", "alloc",
               "hung", "type2", "setIO", "waitIO", "type3", "ackSys"}
  /\ emuPage \in Pages
  /\ emuWrite \in Writes \cup {NoWrite}

EmuInit ==
  /\ emuPc = "forkCPU"
  /\ emuH = "none"
  /\ emuPage = "UNIVERSAL"
  /\ emuWrite = NoWrite

EmuMainAt(from) == emuH = "none" /\ emuPc = from
EmuHandlerAt(from) == emuH = from
EmuGoto(to) == emuPc' = to /\ UNCHANGED << emuH, emuPage, emuWrite >>
EmuHandlerGoto(to) == emuH' = to /\ UNCHANGED << emuPc, emuPage, emuWrite >>

-----------------------------------------------------------------------------
(* main: boot *)

ForkCPU ==
  /\ EmuMainAt("forkCPU")
  /\ proc' = [proc EXCEPT !["cpu"] = "booting"]
  /\ EmuGoto("forkShell")
  /\ UNCHANGED << pageVars, metaVars, memVars, pids, pending >>

(* Deviation: the PIDs are never stored. *)
ForkShellNoPIDs ==
  /\ EmuMainAt("forkShell")
  /\ proc' = [proc EXCEPT !["shell"] = "booting"]
  /\ EmuGoto("setupKernel")
  /\ UNCHANGED << pageVars, metaVars, memVars, pids, pending >>

ForkShell ==
  /\ EmuMainAt("forkShell")
  /\ proc' = [proc EXCEPT !["shell"] = "booting"]
  /\ EmuGoto("setPIDs")
  /\ UNCHANGED << pageVars, metaVars, memVars, pids, pending >>

SetPIDs ==
  /\ EmuMainAt("setPIDs")
  /\ pids' = TRUE
  /\ EmuGoto("setupKernel")
  /\ UNCHANGED << pageVars, metaVars, memVars, pending, proc >>

(* Deviation: the exec signal is forgotten. *)
SetupKernelNoExec ==
  /\ EmuMainAt("setupKernel")
  /\ EmuGoto("setReady")
  /\ UNCHANGED sharedVars

(* The kernel image is copied, then the exec signal of SHELL_CPU is set.   *)
SetupKernel ==
  /\ EmuMainAt("setupKernel")
  /\ SetExecSignal("init")
  /\ EmuGoto("setReady")
  /\ UNCHANGED << osVars, memVars, signalType, ackMask, unionTag, loadprog, ioData, ioReq >>

SetReady ==
  /\ EmuMainAt("setReady")
  /\ SetSignal("UNIVERSAL", "READY")
  /\ EmuGoto("waitShell")
  /\ UNCHANGED << metaVars, osVars, memVars, signalType, ackMask >>

(* waitpid(shellPID), then waitpid(CPUPID), then return from main. *)
WaitShell ==
  /\ EmuMainAt("waitShell")
  /\ proc["shell"] = "dead"
  /\ EmuGoto("waitCPU")
  /\ UNCHANGED sharedVars

WaitCPU ==
  /\ EmuMainAt("waitCPU")
  /\ proc["cpu"] = "dead"
  /\ Exit("emulator")
  /\ UNCHANGED emuVars
  /\ UNCHANGED << pageVars, metaVars, memVars, pids, pending >>

-----------------------------------------------------------------------------
(* handleSIGUSR1 *)

EmuSignal ==
  /\ EmuHandlerAt("none")
  /\ "emulator" \in pending
  /\ pending' = pending \ {"emulator"}
  /\ EmuHandlerGoto("type")
  /\ UNCHANGED << pageVars, metaVars, memVars, pids, proc >>

EmuReadType ==
  /\ EmuHandlerAt("type")
  /\ emuPage' = signalType
  /\ emuH' = "ints"
  /\ UNCHANGED << emuPc, emuWrite >>
  /\ UNCHANGED sharedVars

(* The scan of the interrupt bits.  LOAD, SYS and FAULT, the bits that it  *)
(* acts on, are each enabled in one page only, so a scan acts at most once.*)
EmuReadInts ==
  /\ EmuHandlerAt("ints")
  /\ emuH' = CASE "LOAD"  \in interrupts[emuPage] -> "load"
               [] "SYS"   \in interrupts[emuPage] -> "alloc"
               [] "FAULT" \in interrupts[emuPage] -> "dump"
               [] OTHER -> "none"
  /\ emuWrite' = IF "SYS" \in interrupts[emuPage] THEN ioReq ELSE emuWrite
  /\ UNCHANGED << emuPc, emuPage >>
  /\ UNCHANGED sharedVars

(* handleLoadSignal.  programOffset is read from the union: after a write  *)
(* it holds the stream number and names no file.                           *)
NamedFile == unionTag = "loadprog" /\ loadprog \notin Unloadable

LoadBinary ==
  /\ EmuHandlerAt("load")
  /\ NamedFile
  /\ userText' = loadprog
  /\ EmuHandlerGoto("ackLoad")
  /\ UNCHANGED << pageVars, metaVars, osVars, heapUsed, dumped >>

(* loadBinary ends the emulator; nobody else is told. *)
LoadFatal ==
  /\ EmuHandlerAt("load")
  /\ ~NamedFile
  /\ Exit("emulator")
  /\ UNCHANGED emuVars
  /\ UNCHANGED << pageVars, metaVars, memVars, pids, pending >>

AckLoad ==
  /\ EmuHandlerAt("ackLoad")
  /\ ackMask' = [ackMask EXCEPT ![emuPage] = @ \cup {"LOAD"}]
  /\ EmuHandlerGoto("none")
  /\ UNCHANGED << metaVars, osVars, memVars, signalType, interrupts >>

(* handleFaultSignal: the core dump of an aborted user program. *)
DumpCore ==
  /\ EmuHandlerAt("dump")
  /\ ackMask' = [ackMask EXCEPT ![emuPage] = @ \cup {"FAULT"}]
  /\ dumped' = TRUE
  /\ EmuHandlerGoto("none")
  /\ UNCHANGED << metaVars, osVars, heapUsed, userText, signalType, interrupts >>

(* The emulator gives up: it faults the others and exits.  This is the     *)
(* body of fault() in backend-os.c followed by dFatal, the branch of       *)
(* handleFaultSignal that cannot open the dump file, and handleSIGSEGV.    *)
EmuFault ==
  /\ signalType' = "UNIVERSAL"
  /\ SetSignal("UNIVERSAL", "FAULT")
  /\ Poke({"cpu", "shell"})
  /\ Exit("emulator")
  /\ UNCHANGED emuVars
  /\ UNCHANGED << metaVars, memVars, ackMask, pids >>

DumpFails == EmuHandlerAt("dump") /\ DumpMayFail /\ EmuFault

(* handleSysSignal with a kernel structure whose fd is ARU_STDOUT calls    *)
(* ruWrite, which first allocates the buffer; any other fd does nothing.   *)
AllocBuffer ==
  /\ EmuHandlerAt("alloc")
  /\ emuWrite # NoWrite
  /\ \/ /\ "ok" \in HeapOutcomes
        /\ heapUsed' = TRUE
        /\ EmuHandlerGoto("type2")
     \/ /\ "hang" \in HeapOutcomes
        /\ heapUsed' = heapUsed
        /\ EmuHandlerGoto("hung")
  /\ UNCHANGED << pageVars, metaVars, osVars, userText, dumped >>

AllocFails ==
  /\ EmuHandlerAt("alloc")
  /\ emuWrite # NoWrite
  /\ {"null", "segv"} \cap HeapOutcomes # {}
  /\ EmuFault

NoRequest ==
  /\ EmuHandlerAt("alloc")
  /\ emuWrite = NoWrite
  /\ EmuHandlerGoto("type3")
  /\ UNCHANGED sharedVars

WriteType ==
  /\ EmuHandlerAt("type2")
  /\ signalType' = "EMU_SHELL"
  /\ EmuHandlerGoto("setIO")
  /\ UNCHANGED << metaVars, osVars, memVars, interrupts, ackMask >>

(* Deviation: ruWrite does not wait for the shell. *)
SetIONoWait ==
  /\ EmuHandlerAt("setIO")
  /\ SetIOSignal(emuWrite)
  /\ Poke({"shell"})
  /\ EmuHandlerGoto("type3")
  /\ UNCHANGED << memVars, signalType, ackMask, loadprog, ioReq, execEntry, pids, proc >>

SetIO ==
  /\ EmuHandlerAt("setIO")
  /\ SetIOSignal(emuWrite)
  /\ Poke({"shell"})
  /\ EmuHandlerGoto("waitIO")
  /\ UNCHANGED << memVars, signalType, ackMask, loadprog, ioReq, execEntry, pids, proc >>

(* Deviation: the acknowledge bit is cleared without waiting for it. *)
WaitIONoSpin ==
  /\ EmuHandlerAt("waitIO")
  /\ ackMask' = [ackMask EXCEPT !["EMU_SHELL"] = @ \ {"IO"}]
  /\ EmuHandlerGoto("type3")
  /\ UNCHANGED << metaVars, osVars, memVars, signalType, interrupts >>

(* Deviation: ruWrite resumes the processor itself, as its caller does     *)
(* again.                                                                  *)
WaitIOPokes ==
  /\ EmuHandlerAt("waitIO")
  /\ "IO" \in ackMask["EMU_SHELL"]
  /\ ackMask' = [ackMask EXCEPT !["EMU_SHELL"] = @ \ {"IO"}]
  /\ Poke({"cpu"})
  /\ EmuHandlerGoto("type3")
  /\ UNCHANGED << metaVars, memVars, signalType, interrupts, pids, proc >>

(* ruWrite spins on the acknowledge bit and clears it. *)
WaitIO ==
  /\ EmuHandlerAt("waitIO")
  /\ "IO" \in ackMask["EMU_SHELL"]
  /\ ackMask' = [ackMask EXCEPT !["EMU_SHELL"] = @ \ {"IO"}]
  /\ EmuHandlerGoto("type3")
  /\ UNCHANGED << metaVars, osVars, memVars, signalType, interrupts >>

SysType ==
  /\ EmuHandlerAt("type3")
  /\ signalType' = "EMU_CPU"
  /\ EmuHandlerGoto("ackSys")
  /\ UNCHANGED << metaVars, osVars, memVars, interrupts, ackMask >>

(* Deviation: the processor is not poked. *)
AckSysNoPoke ==
  /\ EmuHandlerAt("ackSys")
  /\ ackMask' = [ackMask EXCEPT ![emuPage] = @ \cup {"SYS"}]
  /\ EmuHandlerGoto("none")
  /\ UNCHANGED << metaVars, osVars, memVars, signalType, interrupts >>

AckSys ==
  /\ EmuHandlerAt("ackSys")
  /\ ackMask' = [ackMask EXCEPT ![emuPage] = @ \cup {"SYS"}]
  /\ Poke({"cpu"})
  /\ EmuHandlerGoto("none")
  /\ UNCHANGED << metaVars, memVars, signalType, interrupts, pids, proc >>

-----------------------------------------------------------------------------
EmuBoot == ForkCPU \/ ForkShell \/ SetPIDs \/ SetupKernel \/ SetReady
EmuWait == WaitShell \/ WaitCPU
EmuLoad == LoadBinary \/ LoadFatal \/ AckLoad
EmuDump == DumpCore \/ DumpFails
EmuSys  == AllocBuffer \/ AllocFails \/ NoRequest \/ WriteType \/ SetIO
             \/ WaitIO \/ SysType \/ AckSys
EmuHandler == EmuSignal \/ EmuReadType \/ EmuReadInts \/ EmuLoad \/ EmuDump \/ EmuSys

EmuNext == proc["emulator"] = "armed" /\ (EmuBoot \/ EmuWait \/ EmuHandler)

(* The heap is being changed by ruWrite or by the sfree of setIOSignal. *)
EmuInHeap == emuH \in {"alloc", "type2", "setIO"} /\ emuWrite # NoWrite
===============================================================================
