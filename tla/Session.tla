-------------------------------- MODULE Session --------------------------------
(***************************************************************************)
(* What the machine promises the person at its console.  A command runs    *)
(* its program alone and from its start; what appears on the console is    *)
(* what the program writes, once and in order; and when the prompt is back *)
(* everything that the program wrote has been shown and the report says    *)
(* how it ended.  Module Aru is shown to implement this module.            *)
(***************************************************************************)
EXTENDS Naturals, Sequences

CONSTANTS
  Programs,      \* names of programs
  Code,          \* program -> its instructions (see module Core)
  NoProg         \* no program has been asked for yet

VARIABLES
  phase,         \* boot, prompt, running, closing, closed
  prog,          \* the program of the last command
  printed,       \* what is on the console since that command
  report         \* how the last command ended

sessionVars == << phase, prog, printed, report >>

(* Instructions behind which no instruction of the program is reached. *)
Stops == {"exit", "badcall", "abort", "badop", "div0", "loop"}

(* The instruction at a place; behind the code of a program there are      *)
(* zeros, which are no instruction.                                        *)
InstrAt(p, i) == IF i <= Len(Code[p]) THEN Code[p][i] ELSE "badop"

(* A run of p gets to the place i, *)
Reaches(p, i) == \A j \in 1 .. i - 1 : Code[p][j] \notin Stops

(* and this is the instruction that ends it.                               *)
EndsBy(p, instr) ==
  /\ instr \in Stops
  /\ \E i \in 1 .. Len(Code[p]) + 1 : Reaches(p, i) /\ InstrAt(p, i) = instr

(* The write that is on the console already, and those of the run that are *)
(* still to come.                                                          *)
LastShown == IF printed = << >> THEN 0 ELSE printed[Len(printed)][2]
Unshown ==
  {i \in LastShown + 1 .. Len(Code[prog]) :
     Code[prog][i] = "write" /\ Reaches(prog, i)}

(* How the end of a run is reported; one that loops is stopped, and counts *)
(* as having exited.                                                       *)
ReportOf(instr) == IF instr \in {"exit", "loop"} THEN "exit" ELSE "error"

Init ==
  /\ phase = "boot"
  /\ prog = NoProg
  /\ printed = << >>
  /\ report = "none"

Boot ==
  /\ phase = "boot"
  /\ phase' = "prompt"
  /\ UNCHANGED << prog, printed, report >>

Command(p) ==
  /\ phase = "prompt"
  /\ phase' = "running"
  /\ prog' = p
  /\ printed' = << >>
  /\ report' = "none"

Refuse ==
  /\ phase = "running" /\ printed = << >>
  /\ phase' = "prompt"
  /\ report' = "refused"
  /\ UNCHANGED << prog, printed >>

(* The next write of the program appears. *)
Show ==
  /\ phase = "running"
  /\ \E i \in Unshown :
       /\ \A j \in Unshown : i <= j
       /\ printed' = Append(printed, << prog, i >>)
  /\ UNCHANGED << phase, prog, report >>

Finish ==
  /\ phase = "running" /\ Unshown = {}
  /\ \E instr \in {"exit", "loop", "abort", "badop"} :
       EndsBy(prog, instr) /\ report' = ReportOf(instr)
  /\ phase' = "prompt"
  /\ UNCHANGED << prog, printed >>

(* A system call that does not exist takes the whole machine down. *)
Crash ==
  /\ phase = "running" /\ Unshown = {}
  /\ EndsBy(prog, "badcall")
  /\ phase' = "closed"
  /\ UNCHANGED << prog, printed, report >>

(* The command `exit', or a line that crashes the shell. *)
Close ==
  /\ \/ phase = "prompt" /\ phase' \in {"closing", "closed"}
     \/ phase = "closing" /\ phase' = "closed"
  /\ UNCHANGED << prog, printed, report >>

Next == Boot \/ (\E p \in Programs : Command(p)) \/ Refuse \/ Show \/ Finish
          \/ Crash \/ Close

Spec == Init /\ [][Next]_sessionVars
===============================================================================
