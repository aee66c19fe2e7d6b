-------------------------------- MODULE Shell --------------------------------
(***************************************************************************)
(* The shell process `ash': a single thread that boots, then reads         *)
(* commands and runs one program at a time, and a SIGUSR1 handler that     *)
(* prints what programs write.  The handler may interrupt the thread       *)
(* anywhere; the thread continues when the handler returns.                *)
(***************************************************************************)
EXTENDS EmSignal

CONSTANTS
  MaxRuns,       \* bound on the number of programs the user asks for
  MaxConsole     \* bound on the number of writes the console remembers

ASSUME MaxRunsAssumption == MaxRuns \in Nat
ASSUME MaxConsoleAssumption == MaxConsole \in Nat

VARIABLES
  shellPc,     \* where the main thread is
  shellH,      \* where the SIGUSR1 handler is, "none" outside it
  shellPage,   \* the handler's sigType
  shellProg,   \* the program of the last command
  runs,        \* how many programs the user has asked for
  console,     \* the writes printed since the last command, oldest first
  outcome      \* what the shell has reported of the last command

shellVars == << shellPc, shellH, shellPage, shellProg, runs, console, outcome >>

ShellTypeOK ==
  /\ shellPc \in {"start", "waitReady", "waitKernel", "prompt", "argv", "hung",
                  "loadType", "setLoad", "waitLoad", "execType", "setExec",
                  "waitExit", "waitShutdown"}
  /\ shellH \in {"none", "type", "ints", "print", "ackIO"}
  /\ shellPage \in Pages
  /\ shellProg \in Programs \cup {NoProg}
  /\ runs \in 0 .. MaxRuns
  /\ console \in Seq(Writes \cup {NoWrite})
  /\ outcome \in {"none", "refused", "exit", "error"}

ShellInit ==
  /\ shellPc = "start"
  /\ shellH = "none"
  /\ shellPage = "UNIVERSAL"
  /\ shellProg = NoProg
  /\ runs = 0
  /\ console = << >>
  /\ outcome = "none"

ShellAt(from) == shellH = "none" /\ shellPc = from
ShellGoto(to) ==
  /\ shellPc' = to
  /\ UNCHANGED << shellH, shellPage, shellProg, runs, console, outcome >>
ShellHandlerGoto(to) ==
  /\ shellH' = to
  /\ UNCHANGED << shellPc, shellPage, shellProg, runs, console, outcome >>

-----------------------------------------------------------------------------
(* main: boot *)

(* sinit(new = false) and redefineSignal, before which a SIGUSR1 would     *)
(* terminate the process.                                                  *)
ShellStart ==
  /\ proc["shell"] = "booting"
  /\ shellPc = "start"
  /\ proc' = [proc EXCEPT !["shell"] = "armed"]
  /\ ShellGoto("waitReady")
  /\ UNCHANGED << pageVars, metaVars, memVars, pids, pending >>

ShellWaitReady ==
  /\ ShellAt("waitReady")
  /\ "READY" \in interrupts["UNIVERSAL"]
  /\ ShellGoto("waitKernel")
  /\ UNCHANGED sharedVars

(* Deviation: the shell does not wait for the kernel. *)
WaitKernelNoSpin ==
  /\ ShellAt("waitKernel")
  /\ ackMask' = [ackMask EXCEPT !["SHELL_CPU"] = @ \ {"EXEC"}]
  /\ interrupts' = [interrupts EXCEPT !["SHELL_CPU"] = @ \ {"EXIT"}]
  /\ ShellGoto("prompt")
  /\ UNCHANGED << metaVars, osVars, memVars, signalType >>

(* Spin on the exec acknowledge, then clear it and a possible EXIT bit. *)
WaitKernel ==
  /\ ShellAt("waitKernel")
  /\ "EXEC" \in ackMask["SHELL_CPU"]
  /\ ackMask' = [ackMask EXCEPT !["SHELL_CPU"] = @ \ {"EXEC"}]
  /\ interrupts' = [interrupts EXCEPT !["SHELL_CPU"] = @ \ {"EXIT"}]
  /\ ShellGoto("prompt")
  /\ UNCHANGED << metaVars, osVars, memVars, signalType >>

-----------------------------------------------------------------------------
(* main: one command.  Commands that only read the signal memory or change *)
(* the shell's own environment are not steps of this model.                *)

RunCommand(p) ==
  /\ ShellAt("prompt")
  /\ runs < MaxRuns
  /\ runs' = runs + 1
  /\ shellProg' = p
  /\ console' = << >>
  /\ outcome' = "none"
  /\ shellPc' = "argv"
  /\ UNCHANGED << shellH, shellPage >>
  /\ UNCHANGED sharedVars

(* runProgram copies argv to the signal heap and looks for the program in  *)
(* PATH; any failure frees the copies and ends the command.                *)
CopyArgv ==
  /\ ShellAt("argv")
  /\ \/ /\ "ok" \in HeapOutcomes
        /\ heapUsed' = TRUE
        /\ ShellGoto("loadType")
     \/ /\ "hang" \in HeapOutcomes
        /\ heapUsed' = heapUsed
        /\ ShellGoto("hung")
  /\ UNCHANGED << pageVars, metaVars, osVars, userText, dumped >>

RefuseCommand ==
  /\ ShellAt("argv")
  /\ shellPc' = "prompt"
  /\ outcome' = "refused"
  /\ heapUsed' \in {heapUsed, TRUE}
  /\ UNCHANGED << shellH, shellPage, shellProg, runs, console >>
  /\ UNCHANGED << pageVars, metaVars, osVars, userText, dumped >>

(* Deviation: the processor is not told. *)
ShellCrashSilent ==
  /\ signalType' = "UNIVERSAL"
  /\ Exit("shell")
  /\ UNCHANGED shellVars
  /\ UNCHANGED << metaVars, memVars, ackMask, pids, pending >>

(* handleSIGSEGV: the shell faults the processor and exits. *)
ShellCrash ==
  /\ signalType' = "UNIVERSAL"
  /\ Poke({"cpu"})
  /\ Exit("shell")
  /\ UNCHANGED shellVars
  /\ UNCHANGED << metaVars, memVars, ackMask, pids >>

ArgvCrash ==
  /\ ShellAt("argv")
  /\ "segv" \in HeapOutcomes
  /\ SetSignal("UNIVERSAL", "FAULT")
  /\ ShellCrash

LoadType ==
  /\ ShellAt("loadType")
  /\ signalType' = "EMU_SHELL"
  /\ ShellGoto("setLoad")
  /\ UNCHANGED << metaVars, osVars, memVars, interrupts, ackMask >>

SendLoad ==
  /\ ShellAt("setLoad")
  /\ SetLoadSignal(shellProg)
  /\ Poke({"emulator"})
  /\ ShellGoto("waitLoad")
  /\ UNCHANGED << memVars, signalType, ackMask, ioData, ioReq, execEntry, pids, proc >>

(* setLoadSignal frees the previous request.  When the union describes a   *)
(* write, the bytes that were written are taken for pointers: whether that *)
(* crashes depends on them.                                                *)
LoadCrash ==
  /\ ShellAt("setLoad")
  /\ unionTag = "ioData"
  /\ interrupts' = [interrupts EXCEPT !["EMU_SHELL"] = @ \cup {"LOAD"},
                                      !["UNIVERSAL"] = @ \cup {"FAULT"}]
  /\ ShellCrash

(* Deviation: the shell does not wait for the program to be loaded. *)
WaitLoadNoSpin ==
  /\ ShellAt("waitLoad")
  /\ ShellGoto("execType")
  /\ UNCHANGED sharedVars

(* The acknowledge bit is only read. *)
WaitLoad ==
  /\ ShellAt("waitLoad")
  /\ "LOAD" \in ackMask["EMU_SHELL"]
  /\ ShellGoto("execType")
  /\ UNCHANGED sharedVars

ExecType ==
  /\ ShellAt("execType")
  /\ signalType' = "SHELL_CPU"
  /\ ShellGoto("setExec")
  /\ UNCHANGED << metaVars, osVars, memVars, interrupts, ackMask >>

SendExec ==
  /\ ShellAt("setExec")
  /\ SetExecSignal("usrSetup")
  /\ Poke({"cpu"})
  /\ ShellGoto("waitExit")
  /\ UNCHANGED << memVars, signalType, ackMask, unionTag, loadprog, ioData, ioReq, pids, proc >>

(* Deviation: the shell does not wait for the program. *)
WaitExitNoSpin ==
  /\ ShellAt("waitExit")
  /\ interrupts' = [interrupts EXCEPT !["SHELL_CPU"] = @ \ {"EXIT"}]
  /\ outcome' = "exit"
  /\ shellPc' = "prompt"
  /\ UNCHANGED << shellH, shellPage, shellProg, runs, console >>
  /\ UNCHANGED << metaVars, osVars, memVars, signalType, ackMask >>

(* The loop of main that waits for EXIT or ERROR; EXIT is looked at first  *)
(* and only the bit that is reported is cleared.                           *)
WaitExit ==
  /\ ShellAt("waitExit")
  /\ \E b \in {"EXIT", "ERROR"} :
       /\ b \in interrupts["SHELL_CPU"]
       /\ b = "ERROR" => "EXIT" \notin interrupts["SHELL_CPU"]
       /\ interrupts' = [interrupts EXCEPT !["SHELL_CPU"] = @ \ {b}]
       /\ outcome' = IF b = "EXIT" THEN "exit" ELSE "error"
  /\ shellPc' = "prompt"
  /\ UNCHANGED << shellH, shellPage, shellProg, runs, console >>
  /\ UNCHANGED << metaVars, osVars, memVars, signalType, ackMask >>

(* The command `exit'. *)
SendShutdown ==
  /\ ShellAt("prompt")
  /\ SetSignal("UNIVERSAL", "SHUTDOWN")
  /\ ShellGoto("waitShutdown")
  /\ UNCHANGED << metaVars, osVars, memVars, signalType, ackMask >>

WaitShutdown ==
  /\ ShellAt("waitShutdown")
  /\ "SHUTDOWN" \in ackMask["UNIVERSAL"]
  /\ Exit("shell")
  /\ UNCHANGED shellVars
  /\ UNCHANGED << pageVars, metaVars, memVars, pids, pending >>

(* An empty line: eval dereferences a null command. *)
EmptyLine ==
  /\ ShellAt("prompt")
  /\ SetSignal("UNIVERSAL", "FAULT")
  /\ ShellCrash

-----------------------------------------------------------------------------
(* handleSIGUSR1 *)

ShellSignal ==
  /\ shellH = "none"
  /\ "shell" \in pending
  /\ pending' = pending \ {"shell"}
  /\ ShellHandlerGoto("type")
  /\ UNCHANGED << pageVars, metaVars, memVars, pids, proc >>

ShellReadType ==
  /\ shellH = "type"
  /\ shellPage' = signalType
  /\ shellH' = "ints"
  /\ UNCHANGED << shellPc, shellProg, runs, console, outcome >>
  /\ UNCHANGED sharedVars

(* IO is enabled in one page, FAULT in another one. *)
ShellReadInts ==
  /\ shellH = "ints"
  /\ "FAULT" \notin interrupts[shellPage]
  /\ ShellHandlerGoto(IF "IO" \in interrupts[shellPage] THEN "print" ELSE "none")
  /\ UNCHANGED sharedVars

ShellFaulted ==
  /\ shellH = "ints"
  /\ "FAULT" \in interrupts[shellPage]
  /\ Exit("shell")
  /\ UNCHANGED shellVars
  /\ UNCHANGED << pageVars, metaVars, memVars, pids, pending >>

(* writeConsole.  The stream is read from the metadata union: when that    *)
(* holds a load request, its first word is no stream and nothing happens.  *)
PrintWrite ==
  /\ shellH = "print"
  /\ console' = IF unionTag = "ioData" /\ Len(console) < MaxConsole
                THEN Append(console, ioData) ELSE console
  /\ shellH' = "ackIO"
  /\ UNCHANGED << shellPc, shellPage, shellProg, runs, outcome >>
  /\ UNCHANGED sharedVars

AckIO ==
  /\ shellH = "ackIO"
  /\ ackMask' = [ackMask EXCEPT ![shellPage] = @ \cup {"IO"}]
  /\ ShellHandlerGoto("none")
  /\ UNCHANGED << metaVars, osVars, memVars, signalType, interrupts >>

-----------------------------------------------------------------------------
ShellBoot == ShellWaitReady \/ WaitKernel
ShellLoad == CopyArgv \/ RefuseCommand \/ ArgvCrash \/ LoadType \/ SendLoad
               \/ LoadCrash \/ WaitLoad
ShellExec == ExecType \/ SendExec \/ WaitExit
ShellUser == SendShutdown \/ EmptyLine \/ \E p \in Programs : RunCommand(p)
ShellHandler == ShellSignal \/ ShellReadType \/ ShellReadInts \/ ShellFaulted
                  \/ PrintWrite \/ AckIO

(* What the shell does by itself, and what it does because of the user. *)
ShellWork ==
  \/ ShellStart
  \/ /\ proc["shell"] = "armed"
     /\ ShellBoot \/ ShellLoad \/ ShellExec \/ WaitShutdown \/ ShellHandler
ShellAsked == proc["shell"] = "armed" /\ ShellUser

ShellNext == ShellWork \/ ShellAsked

(* The heap is being changed by runProgram or the sfree of setLoadSignal. *)
ShellInHeap == shellPc \in {"argv", "loadType", "setLoad"}
===============================================================================
