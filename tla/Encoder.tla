------------------------------- MODULE Encoder -------------------------------
(***************************************************************************)
(* The operand fields of instructions: what the encoder accepts and writes *)
(* (encoder.c) and what the core makes of them (extractImm and nextIR in   *)
(* core.c).  Opcodes and the fields of registers are left out.             *)
(***************************************************************************)
EXTENDS Evaluator

CONSTANTS
  ImmBits,     \* 14, the immediate of an I-type instruction
  LowBits,     \* 4, what ld leaves for its last instruction
  OffsetBits,  \* 9, the offset of a load or store
  BcBits,      \* 19, a conditional branch
  BiBits,      \* 24, ub and call
  KeptBits,    \* 21, what is left of them behind the shifts of nextIR
  TestedBits   \* the bits of 0xc000, 0xf000000 and 0x80000

ASSUME FieldsAssumption ==
  /\ ImmBits \in Nat \ {0} /\ LowBits \in Nat \ {0} /\ OffsetBits \in 1 .. WordBits
  /\ BcBits \in 1 .. WordBits /\ BiBits \in 1 .. WordBits /\ KeptBits \in 1 .. BiBits
  /\ 2 * ImmBits + LowBits = WordBits
  /\ BcBits + 2 < WordBits /\ BiBits + 2 <= WordBits
  /\ TestedBits \subseteq 0 .. WordBits - 1
  /\ \E i \in TestedBits : i >= OffsetBits - 1

(* Of a load or store, of an I-type instruction, of the two branches.      *)
Kinds == {"M", "I", "Bc", "Bi"}
Bits(kind) == CASE kind = "M" -> OffsetBits [] kind = "I" -> ImmBits
                [] kind = "Bc" -> BcBits [] kind = "Bi" -> BiBits

Signed(x, bits) ==
  LET u == x % Pow2[bits] IN IF u >= Pow2[bits - 1] THEN u - Pow2[bits] ELSE u
InRange(x, bits) == -(Pow2[bits - 1]) <= x /\ x < Pow2[bits - 1]

(* getImmediateEncoding: the cases fall through, so every immediate has to *)
(* pass all the tests behind its own.                                      *)
AcceptsImmediate(kind, x) ==
  /\ kind = "M" => InRange(x, OffsetBits)
  /\ \A i \in TestedBits : Bit(x, i) = 0

(* encodeBiBc *)
BranchOffset(target, addr) == Quotient(Wrap(target - addr), 4)
AcceptsBranch(kind, target, addr) ==
  target % 4 = 0 /\ InRange(BranchOffset(target, addr), Bits(kind))

(* Deviation: the displacement of a branch is taken from its end. *)
FromNext(kind, x, addr) ==
  (IF kind \in {"Bc", "Bi"} THEN BranchOffset(x, addr + 4) ELSE x) % Pow2[Bits(kind)]

(* Deviation: the field is not cut to its bits. *)
Unmasked(kind, x, addr) == IF kind \in {"Bc", "Bi"} THEN BranchOffset(x, addr) ELSE x

Accepts(kind, x, addr) ==
  IF kind \in {"Bc", "Bi"} THEN AcceptsBranch(kind, x, addr)
                           ELSE AcceptsImmediate(kind, x)
Field(kind, x, addr) ==
  (IF kind \in {"Bc", "Bi"} THEN BranchOffset(x, addr) ELSE x) % Pow2[Bits(kind)]

-----------------------------------------------------------------------------
(* What the core reads in a field: an immediate, an offset, or the next IR *)
(* of a branch that is taken.                                              *)
extractImm(kind, field) == IF kind = "I" THEN field ELSE Signed(field, Bits(kind))

nextIR(kind, field, ir) ==
  LET imm == extractImm(kind, field) IN
  Wrap(ir + 4 * (IF kind = "Bi" THEN Signed(imm, KeptBits) ELSE imm % Pow2[BcBits]))

Decoded(kind, field, ir) ==
  IF kind \in {"Bc", "Bi"} THEN nextIR(kind, field, ir) ELSE extractImm(kind, field)

-----------------------------------------------------------------------------
(* ld of a word: the shares of the two moves and of the addition. *)

High(v) == (v \div Pow2[ImmBits + LowBits]) % Pow2[ImmBits]
Low(v)  == v % Pow2[LowBits]

(* Deviation: the share in the middle has one bit less. *)
MidShort(v) == (v \div Pow2[LowBits]) % Pow2[ImmBits - 1]

Mid(v)  == (v \div Pow2[LowBits]) % Pow2[ImmBits]
===============================================================================
