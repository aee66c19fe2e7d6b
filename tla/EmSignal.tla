------------------------------- MODULE EmSignal -------------------------------
(***************************************************************************)
(* The shared signal memory (SigMem) through which the emulator `ruemu',   *)
(* the processor `iaru0' and the shell `ash' talk, and the SIGUSR1 "poke"  *)
(* that tells a process to look at it.                                     *)
(*                                                                         *)
(* A process that wants something of another one writes the number of a    *)
(* signal page in the single word `signalType', sets an interrupt bit in   *)
(* that page together with its metadata, and pokes the other process.  The *)
(* answer is an acknowledge bit in the same page, on which the first       *)
(* process spins.  The three processes extend this module.                 *)
(*                                                                         *)
(* payloadValid is left out: no code reads it.  setX and ackX write a bit  *)
(* of one 32-bit word with a read-modify-write that is modelled as atomic. *)
(***************************************************************************)
EXTENDS Naturals, Sequences

CONSTANTS
  Programs,      \* names of the programs a user may ask the shell to run
  NoProg,        \* the user memory before anything was loaded
  NoWrite,       \* a metadata word that describes no write request
  MaxLen,        \* bound on the length of a program's code
  HeapOutcomes   \* what smalloc may do: return a block or NULL, crash, hang

ASSUME NoProgAssumption == NoProg \notin Programs
ASSUME MaxLenAssumption == MaxLen \in Nat
ASSUME HeapOutcomesAssumption == HeapOutcomes \subseteq {"ok", "null", "segv", "hang"}

Procs == {"emulator", "shell", "cpu"}
Pages == {"UNIVERSAL", "EMU_SHELL", "EMU_CPU", "SHELL_CPU"}
Bits  == {"SHUTDOWN", "FAULT", "READY", "SYS", "CPU_SAVE", "IO", "LOAD",
          "ERROR", "EXIT", "KILL", "EXEC"}

(* A write request is identified by the program and the place of the       *)
(* instruction that makes it; the bytes themselves are abstracted.         *)
Writes == Programs \X (1 .. MaxLen)

ASSUME NoWriteAssumption == NoWrite \notin Writes

VARIABLES
  signalType,    \* the page the last sender wants its receiver to look at
  interrupts,    \* page -> interrupt bits that are set
  ackMask,       \* page -> acknowledge bits that are set
  unionTag,      \* member of the EMU_SHELL metadata union written last
  loadprog,      \* that union read as loadprog: the program to load
  ioData,        \* that union read as syscall.ioData: the write to print
  ioReq,         \* metadata of EMU_CPU: the write the core asks for
  execEntry,     \* metadata of SHELL_CPU: the kernel entry point to run
  pids,          \* the PID words hold PIDs (they start as -1)
  pending,       \* processes with a SIGUSR1 pending (at most one each)
  proc,          \* life of each process
  heapUsed,      \* something has been allocated in the signal heap
  userText,      \* emulated memory: the program in the user text section
  dumped         \* iaru0.admp describes the latest abort of a user program

pageVars == << signalType, interrupts, ackMask >>
metaVars == << unionTag, loadprog, ioData, ioReq, execEntry >>
osVars   == << pids, pending, proc >>
memVars  == << heapUsed, userText, dumped >>

sharedVars == << pageVars, metaVars, osVars, memVars >>

(* none: not forked; booting: running with the default disposition of      *)
(* SIGUSR1; armed: its handler is installed; dead: it has exited.          *)
ProcStates == {"none", "booting", "armed", "dead"}

SharedTypeOK ==
  /\ signalType \in Pages
  /\ interrupts \in [Pages -> SUBSET Bits]
  /\ ackMask \in [Pages -> SUBSET Bits]
  /\ unionTag \in {"none", "loadprog", "ioData"}
  /\ loadprog \in Programs \cup {NoProg}
  /\ ioData \in Writes \cup {NoWrite}
  /\ ioReq \in Writes \cup {NoWrite}
  /\ execEntry \in {"none", "init", "usrSetup"}
  /\ pids \in BOOLEAN
  /\ pending \subseteq Procs
  /\ proc \in [Procs -> ProcStates]
  /\ heapUsed \in BOOLEAN
  /\ userText \in Programs \cup {NoProg}
  /\ dumped \in BOOLEAN

(* The bits of each page that setX and ackX accept; nothing changes them.  *)
IntEnable ==
  [g \in Pages |->
     CASE g = "UNIVERSAL" -> {"SHUTDOWN", "FAULT", "READY"}
       [] g = "EMU_SHELL" -> {"LOAD", "IO"}
       [] g = "EMU_CPU"   -> {"CPU_SAVE", "SYS"}
       [] g = "SHELL_CPU" -> {"ERROR", "EXIT", "KILL", "EXEC"}]

(* The state in which createSignalMemory, sinit(new) and setupSignals      *)
(* leave the signal memory, before any process is forked.                  *)
SharedInit ==
  /\ signalType = "UNIVERSAL"
  /\ interrupts = [g \in Pages |-> {}]
  /\ ackMask = [g \in Pages |-> {}]
  /\ unionTag = "none"
  /\ loadprog = NoProg
  /\ ioData = NoWrite
  /\ ioReq = NoWrite
  /\ execEntry = "none"
  /\ pids = FALSE
  /\ pending = {}
  /\ proc = [p \in Procs |-> IF p = "emulator" THEN "armed" ELSE "none"]
  /\ heapUsed = FALSE
  /\ userText = NoProg
  /\ dumped = FALSE

-----------------------------------------------------------------------------
(* The setX and ackX functions: the bit is set when the page enables it.   *)

SetSignal(g, b) ==
  interrupts' = IF b \in IntEnable[g]
                THEN [interrupts EXCEPT ![g] = @ \cup {b}]
                ELSE interrupts

AckSignal(g, b) ==
  ackMask' = IF b \in IntEnable[g]
             THEN [ackMask EXCEPT ![g] = @ \cup {b}]
             ELSE ackMask

(* setLoadSignal: the request overwrites the union of the page. *)
SetLoadSignal(p) ==
  /\ SetSignal("EMU_SHELL", "LOAD")
  /\ unionTag' = "loadprog"
  /\ loadprog' = p

(* setIOSignal, on the same union. *)
SetIOSignal(w) ==
  /\ SetSignal("EMU_SHELL", "IO")
  /\ unionTag' = "ioData"
  /\ ioData' = w

SetSysSignal(w) ==
  /\ SetSignal("EMU_CPU", "SYS")
  /\ ioReq' = w

SetExecSignal(entry) ==
  /\ SetSignal("SHELL_CPU", "EXEC")
  /\ execEntry' = entry

(* kill(pid, SIGUSR1): the signal becomes pending, coalescing with one     *)
(* that already is; a process that has exited ignores it.                  *)
Poke(S) == pending' = pending \cup {p \in S : proc[p] # "dead"}

Exit(p) == proc' = [proc EXCEPT ![p] = "dead"]
===============================================================================
