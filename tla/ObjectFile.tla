------------------------------ MODULE ObjectFile ------------------------------
(***************************************************************************)
(* The object file: how generator.c lays out the sections and merges the   *)
(* exception vector from its two streams, and where loadBinary and         *)
(* setupKernel put the sections.                                           *)
(*                                                                         *)
(* A byte is named by where it comes from: << s, i, k >> is byte k of item *)
(* i of section s, or, for s = TEXT, of the ith instruction.  Offsets are  *)
(* counted from the end of the string table.                               *)
(***************************************************************************)
EXTENDS Integers, Sequences, FiniteSets, FiniteSetsExt, Functions, SequencesExt

CONSTANT Starts   \* kernel or not -> section -> the address of its start

DATA  == 0
CONST == 1
BSS   == 2
TEXT  == 3
EVT   == 4
IVT   == 5
Sections == DATA .. IVT
Tables   == {DATA, CONST, BSS, EVT}    \* the sections that have a data table

(* Address 0 is the ivt's; a program has no vector; its text is elsewhere  *)
(* than its data and constants.                                            *)
ASSUME StartsAssumption ==
  /\ Starts \in [BOOLEAN -> [Sections -> Int]]
  /\ \A kern \in BOOLEAN : Starts[kern][TEXT] > 0
  /\ Starts[TRUE][EVT] > 0
  /\ Starts[FALSE][TEXT] \notin {Starts[FALSE][DATA], Starts[FALSE][CONST]}

Byte == {DATA, CONST, TEXT, EVT} \X Nat \X Nat
Junk == << IVT, 0, 0 >>        \* what malloc left, or what is behind the file

ItemBytes(s, i, size) == [k \in 1 .. size |-> << s, i, k >>]
WordBytes(i) == ItemBytes(TEXT, i, 4)
Fit(bytes, size) == [k \in 1 .. size |-> IF k <= Len(bytes) THEN bytes[k] ELSE Junk]

-----------------------------------------------------------------------------
(* The payload. *)

(* An item of negative size is copied as one that is longer than any       *)
(* buffer, if there is memory for it at all: that ends the assembler.      *)
Endless(items) == \E i \in DOMAIN items : items[i].size < 0

(* generateData and generateConst *)
generateData(s, items) ==
  FlattenSeq([i \in DOMAIN items |-> ItemBytes(s, i, items[i].size)])

(* An instruction at address 0 is a marker of the vector, or one of the    *)
(* ivt; each one switches between text and vector.                         *)
Marks(instrs) == {i \in DOMAIN instrs : instrs[i].addr = 0}
InText(instrs, i) ==
  i \notin Marks(instrs) /\ Cardinality({j \in Marks(instrs) : j < i}) % 2 = 0

generateText(instrs) ==
  FlattenSeq([i \in DOMAIN instrs |->
                IF InText(instrs, i) THEN WordBytes(i) ELSE << >>])

(* Deviation: at the same address the instruction comes first. *)
NotAfter(a, b) == a <= b + 4

Before(a, b) == a < b

(* generateEVT: the next instruction is written while its address is the   *)
(* lower one; the end of the vector is noticed behind an instruction only; *)
(* it is over when the items are.  i and d: the next instruction and item; *)
(* crash: behind the end of the stream.                                    *)
MergeRound(instrs, items, m) ==
  IF m.d > Len(items) \/ m.crash THEN m
  ELSE IF m.ended \/ (m.i <= Len(instrs) /\ ~Before(instrs[m.i].addr, items[m.d].addr))
  THEN [m EXCEPT !.d = @ + 1, !.bytes = @ \o ItemBytes(EVT, m.d, items[m.d].size)]
  ELSE IF m.i >= Len(instrs) THEN [m EXCEPT !.crash = TRUE]
  ELSE [m EXCEPT !.i = @ + 1, !.ended = instrs[m.i + 1].addr = 0,
                 !.bytes = @ \o WordBytes(m.i)]

generateEVT(instrs, items) ==
  LET begin == [i |-> IF items = << >> THEN 1 ELSE 1 + Min(Marks(instrs)), d |-> 1,
                ended |-> FALSE, crash |-> FALSE, bytes |-> << >>]
      merge[n \in Nat] ==
        IF n = 0 THEN begin ELSE MergeRound(instrs, items, merge[n - 1])
  IN  merge[Len(instrs) + Len(items)]

-----------------------------------------------------------------------------
(* The headers: in the order of the sections, .bss counted like a section  *)
(* that has bytes.                                                         *)

(* Deviation: a section begins where the last but one ends. *)
OffsetSkips(size, s) ==
  LET off[t \in 0 .. 6] ==
        IF t < 2 THEN 0 ELSE off[t - 1] + IF t - 2 \in DOMAIN size THEN size[t - 2] ELSE 0
  IN  off[s]

Offset(size, s) ==
  LET off[t \in 0 .. 6] ==
        IF t = 0 THEN 0 ELSE off[t - 1] + IF t - 1 \in DOMAIN size THEN size[t - 1] ELSE 0
  IN  off[s]

(* size: of the sections that are present. *)
generateSectionHeaders(size) ==
  [s \in DOMAIN size |-> [size |-> size[s], off |-> Offset(size, s)]]

(* generateBinary and writeBinary *)
Payload(size, data, instrs, evt) ==
  LET part(s, bytes) == IF s \in DOMAIN size THEN Fit(bytes, size[s]) ELSE << >> IN
  part(DATA, generateData(DATA, data[DATA])) \o part(CONST, generateData(CONST, data[CONST]))
    \o part(TEXT, generateText(instrs)) \o part(EVT, evt)

-----------------------------------------------------------------------------
(* Loading. *)

ByteAt(bin, p) ==
  IF p + 1 \in DOMAIN bin.payload THEN bin.payload[p + 1] ELSE Junk

(* Deviation: the kernel's text goes behind its data. *)
TextBehind(kern) ==
  IF kern THEN [s \in {DATA, TEXT, EVT} |-> Starts[TRUE][IF s = TEXT THEN DATA ELSE s]]
          ELSE [s \in {CONST, DATA, TEXT} |-> Starts[FALSE][TEXT]]

(* Where loadBinary, for a program, and setupKernel put each section. *)
Base(kern) ==
  IF kern THEN [s \in {DATA, TEXT, EVT} |-> Starts[TRUE][s]]
          ELSE [s \in {CONST, DATA, TEXT} |-> Starts[FALSE][TEXT]]

(* What is at an address then: the copies are made in the order of the     *)
(* headers, and the last one stays.                                        *)
Loaded(bin, a) ==
  LET base == Base(bin.kern)
      here == {s \in DOMAIN bin.heads \cap DOMAIN base :
                 base[s] <= a /\ a < base[s] + bin.heads[s].size} IN
  IF here = {} THEN Junk
  ELSE LET s == Max(here) IN ByteAt(bin, bin.heads[s].off + a - base[s])
===============================================================================
