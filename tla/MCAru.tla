--------------------------------- MODULE MCAru ---------------------------------
(* Values of the constants of module Aru for TLC. *)
EXTENDS Aru

(* One program for each way in which a run can go. *)
CodeOf ==
  [ quiet   |-> << "exit" >>,
    writer  |-> << "write", "op", "write", "exit" >>,
    loops   |-> << "write", "loop" >>,
    spins   |-> << "loop" >>,
    faulty  |-> << "write", "abort", "write" >>,
    invalid |-> << "badop" >>,
    runsOff |-> << "op" >>,
    unknown |-> << "write", "badcall" >>,
    divides |-> << "div0" >> ]

MCCode == [p \in Programs |-> CodeOf[p]]
===============================================================================
