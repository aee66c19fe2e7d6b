------------------------------ MODULE MCAssembler ------------------------------
(* Values of the constants of module Assembler for TLC. *)
EXTENDS Assembler

(* A program and the kernel lie as far apart as in the code, in words of   *)
(* 16 bits; .const starts where .data does.                                *)
MCStarts ==
  [kern \in BOOLEAN |->
     IF kern THEN << >> @@ (DATA :> 40960) @@ (CONST :> 40960) @@ (BSS :> 40960)
                        @@ (TEXT :> 47104) @@ (EVT :> 64) @@ (IVT :> 0)
             ELSE << >> @@ (DATA :> 512) @@ (CONST :> 512) @@ (BSS :> 256)
                        @@ (TEXT :> 1024) @@ (EVT :> 64) @@ (IVT :> 0)]

-----------------------------------------------------------------------------
(* Expressions and lines. *)

SYMB(n) == Tok("SYMB", 0, n)
LPAREN == Tok("LPAREN", 0, "")
RPAREN == Tok("RPAREN", 0, "")
Num(v)  == IF v < 0 THEN << OP("-"), INT(-v) >> ELSE << INT(v) >>
Name(n) == << SYMB(n) >>
Next1(n) == << SYMB(n), OP("+"), INT(1) >>

Code(label, op, name, args, n) == [label |-> label, op |-> op, name |-> name, args |-> args, n |-> n]
Plainly(op, name, args, n) == Code(None, op, name, args, n)
Section(s)  == Plainly("section", None, << >>, s)
Set(n, e)   == Plainly("set", n, << e >>, 0)
Globl(n)    == Plainly("glob", n, << >>, 0)
Ends        == Plainly("end", None, << >>, 0)
Vals(w, as) == Plainly("values", None, as, w)
Literal(n)  == Plainly("literal", None, << >>, n)
Zero(e)     == Plainly("zero", None, << e >>, 0)
Fill(e, v)  == Plainly("fill", None, << e, v >>, 0)
Align       == Plainly("align", None, << >>, 0)
Label(n)    == Code(n, "label", None, << >>, 0)
Plain       == Plainly("plain", None, << >>, 0)
Instruction(op, e) == Plainly(op, None, << e >>, 0)
LD(rd, e, n) == Plainly("ld", rd, << e >>, n)

Entry   == << Globl("_init"), Code("_init", "plain", None, << >>, 0) >>
Text0   == << Section(TEXT) >> \o Entry
Bodies(lines, n) == UNION {[1 .. k -> lines] : k \in 0 .. n}
Source1(kern, lines) == [kern |-> kern, lines |-> lines]

-----------------------------------------------------------------------------
(* Names in every order of use, declaration and definition. *)
NameLines ==
  {Set("a", Num(4)), Set("a", Next1("b")), Set("a", Next1("a")), Set("b", Name("a")),
   Set("b", Name(LP)), Label("a"), Code("b", "plain", None, << >>, 0), Globl("a"),
   Instruction("Bi", Name("a"))}
NameFiles ==
  {Source1(FALSE, Text0 \o b) : b \in Bodies(NameLines, 3)}
    \cup {Source1(FALSE, Text0 \o b \o << Section(DATA), Vals(4, << Name("a") >>), Label("b") >>) :
            b \in Bodies(NameLines, 2)}
    \cup {Source1(FALSE, << l, Section(CONST), m >> \o Text0) : l \in NameLines, m \in NameLines}
    \cup {Source1(TRUE, << Section(EVT), l, Section(TEXT), m >> \o Entry) :
            l \in NameLines, m \in NameLines}

(* A .set that mentions its own name through another one.                  *)
RoundFiles ==
  {Source1(FALSE, << Set("b", Num(1) \o << OP("+"), SYMB("_init"), OP("+"), SYMB("a") >>) >> \o Text0 \o
     << Set("a", Name("b")) >> \o b) : b \in Bodies({Label("a"), Globl("a"), Plain}, 2)}

(* Meanings that change behind their use, in the source or when a text is  *)
(* freed, and instructions at address 0.                                   *)
LateLines ==
  {Set("a", Next1("b")), Set("b", Num(4)), Set("b", << >>), Label("b"), Zero(Name("b")),
   Zero(Num(-1028)), LD("x", Name("a"), 1)}
LateFiles == {Source1(FALSE, Text0 \o b) : b \in Bodies(LateLines, 3)}

(* Expressions with two operators, signs and parentheses, and some that    *)
(* are none.                                                               *)
Expressions ==
  {x \o << OP(o) >> \o y \o << OP(p) >> \o z :
     x \in {Num(13), Num(-13)}, y \in {Num(6)}, z \in {Num(3)}, o \in Operators, p \in Operators}
    \cup {Num(13) \o << OP(o), LPAREN >> \o y \o << OP(p) >> \o Num(2) \o << RPAREN >> :
            y \in {Num(3), Num(-3)}, o \in Operators, p \in Operators}
    \cup {<< OP("~") >> \o Num(5) \o << OP(o) >> \o Num(-4) : o \in Operators}
    \cup {Num(1) \o Num(2), << LPAREN >> \o Num(1), Num(1) \o << OP("+") >>, << >>,
          << OP("+") >> \o Num(1), Num(1) \o << OP("/") >> \o Num(0), << RPAREN >>,
          Num(-5) \o << OP("/") >> \o Num(2), Num(-5) \o << OP(">>") >> \o Num(1),
          Num(200) \o << OP("*") >> \o Num(200), << OP("-"), OP("-") >> \o Num(7)}
ExprFiles ==
  {Source1(FALSE, << Vals(4, << e >>) >> \o Text0) : e \in Expressions}
    \cup {Source1(FALSE, << Vals(w, << Num(3), Num(v) >>) >> \o Text0) :
            w \in {1, 2}, v \in {-1, 15, 16, 255, 256, 4095, 4096, 8192}}

(* The layout: sections and data in every order, in a program and a kernel. *)
DataLines ==
  {Section(DATA), Section(CONST), Section(BSS), Section(TEXT), Section(EVT), Ends, Plain, Align,
   Vals(1, << Num(1), Num(2) >>), Vals(4, << Num(1) >>), Literal(3), Zero(Num(4)),
   Fill(Num(2), Num(7))}
LayoutFiles ==
  {Source1(FALSE, b \o Text0 \o c) :
     b \in Bodies(DataLines, 3), c \in {<< >>, << Section(BSS), Zero(Num(4)) >>}}
    \cup {Source1(TRUE, << Section(EVT), Plain, Vals(4, << Num(9) >>), Section(DATA) >> \o b \o Text0) :
            b \in Bodies(DataLines, 2)}
    \cup {Source1(FALSE, << l >> \o Text0) :
            l \in {Fill(Name("a"), Num(1)), Fill(Num(0), Num(1)), Fill(Num(-2), Num(1)), Fill(<< >>, Num(1)),
                   Fill(Name(LP) \o << OP("+") >> \o Num(5), Num(1)),
                   Zero(Name("a")), Zero(Num(1) \o << OP("/") >> \o Num(0)), Zero(Num(-1))}}
    \cup {Source1(FALSE, << Section(s), Vals(1, << Num(1) >>), Zero(Num(-241)), z >> \o Text0) :
            s \in {DATA, CONST, BSS}, z \in {Align, Zero(Num(255))}}
    \cup {Source1(TRUE, << Section(EVT), Plain, Zero(Num(-241)), Zero(Num(255)), Plain, Section(DATA) >> \o Text0)}

(* Operands at the edges of their fields; ld in both forms. *)
Operands(kern) ==
  {Instruction("M", Num(v)) : v \in {-17, -16, -1, 0, 1, 15, 16}}
    \cup {Instruction("I", Num(v)) : v \in {-1, 0, 1, 64, 127, 128, 255, 256, 512, 576, 1024, 4096}}
    \cup {Instruction("I", << OP("-"), INT(-32768) >>)}
    \cup {Instruction(k, Num((IF kern THEN 47104 - 65536 ELSE 1024) + 4 + v)) :
            k \in {"Bc", "Bi"},
            v \in {-132, -128, -124, -68, -64, -60, -20, -16, -4, -2, 0, 4, 12, 16, 60, 64, 124, 128}}
    \cup {LD(rd, e, n) : rd \in {"x", "c0"}, n \in {0, 1},
            e \in {Num(3), Num(-1), Num(1040), Num(4660), Num(-18424), Name("a"), Name("b"),
                   Next1("b"), Name(LP), Num(1) \o << OP("/") >> \o Num(0), << >>}}
OperandFiles ==
  {Source1(FALSE, << Set("a", Num(1030)) >> \o Text0 \o << o >> \o t) :
     o \in Operands(FALSE), t \in {<< Label("b") >>, << Plain, Set("b", Num(21554)) >>, << >>}}
    \cup {Source1(TRUE, << Set("a", Num(-18000)), Section(EVT), Plain >> \o Text0 \o << o, Label("b") >>) :
            o \in Operands(TRUE)}

(* The vector, in front of the text, behind it and without end. *)
VectorLines ==
  {Plain, Vals(4, << Num(5) >>), Vals(1, << Num(5) >>), LD("x", Num(4660), 0), LD("x", Name("a"), 1),
   Zero(Num(4)), Section(IVT)}
VectorFiles ==
  {Source1(TRUE, << Section(EVT) >> \o b \o Text0 \o << Label("a") >>) : b \in Bodies(VectorLines, 4)}
    \cup {Source1(TRUE, Text0 \o << Label("a"), Section(EVT) >> \o b) : b \in Bodies(VectorLines, 2)}
    \cup {Source1(TRUE, Text0 \o << Zero(Num(-32767)), Zero(Num(-14341)) >> \o b \o
                     << Section(EVT), Vals(4, << Num(5) >>) >> \o c) :
            b \in Bodies({Plain}, 2), c \in Bodies({Plain}, 1)}
    \cup {Source1(TRUE, Text0), Source1(TRUE, << Section(EVT), Section(TEXT), Section(EVT) >> \o Entry)}

MCFiles ==
  NameFiles \cup RoundFiles \cup LateFiles \cup ExprFiles \cup LayoutFiles \cup OperandFiles
    \cup VectorFiles
===============================================================================
