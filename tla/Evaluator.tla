------------------------------ MODULE Evaluator ------------------------------
(***************************************************************************)
(* The expression evaluator of the assembler (evaluator.c): precedence     *)
(* climbing over a sequence of tokens, on words of WordBits bits.  What    *)
(* the lexer does with characters is left out; what it hands on is not: a  *)
(* token that fits nowhere ends the expression without an error.           *)
(***************************************************************************)
EXTENDS Integers, Sequences, FiniteSets

CONSTANTS
  WordBits,   \* 32
  Names,      \* the symbols of the program
  MaxCalls    \* calls and rounds of the evaluator within one another

ASSUME WordBitsAssumption == WordBits \in Nat /\ WordBits >= 4
ASSUME MaxCallsAssumption == MaxCalls \in Nat

-----------------------------------------------------------------------------
(* Words: int32_t, in two's complement. *)

Pow2[n \in Nat] == IF n = 0 THEN 1 ELSE 2 * Pow2[n - 1]

Modulus == Pow2[WordBits]
Half    == Pow2[WordBits - 1]
Word    == -Half .. Half - 1
Wrap(x) == ((x + Half) % Modulus) - Half

Bit(x, i) == (x \div Pow2[i]) % 2

(* table: the bit that two bits give. *)
BitByBit(table, x, y) ==
  LET low[i \in 0 .. WordBits] ==
        IF i = 0 THEN 0
        ELSE low[i - 1] + Pow2[i - 1] * table[Bit(x, i - 1)][Bit(y, i - 1)]
  IN  Wrap(low[WordBits])

BitAnd == [i \in {0, 1} |-> [j \in {0, 1} |-> i * j]]
BitXor == [i \in {0, 1} |-> [j \in {0, 1} |-> (i + j) % 2]]
BitOr  == [i \in {0, 1} |-> [j \in {0, 1} |-> i + j - i * j]]

(* C's division rounds towards zero; the machine traps where there is no   *)
(* quotient, and takes the shift count modulo the width.                   *)
Abs(x) == IF x < 0 THEN -x ELSE x
Quotient(x, y) == LET q == Abs(x) \div Abs(y) IN IF (x < 0) = (y < 0) THEN q ELSE -q
Traps(op, x, y) == op = "/" /\ (y = 0 \/ (x = -Half /\ y = -1))
Shift(y) == Pow2[y % WordBits]

Apply(op, x, y) ==
  CASE op = "+"  -> Wrap(x + y)
    [] op = "-"  -> Wrap(x - y)
    [] op = "*"  -> Wrap(x * y)
    [] op = "/"  -> Quotient(x, y)
    [] op = "<<" -> Wrap(x * Shift(y))
    [] op = ">>" -> x \div Shift(y)
    [] op = "&"  -> BitByBit(BitAnd, x, y)
    [] op = "^"  -> BitByBit(BitXor, x, y)
    [] op = "|"  -> BitByBit(BitOr, x, y)

Unary(op, x) == IF op = "-" THEN Wrap(-x) ELSE -1 - x

-----------------------------------------------------------------------------
(* Tokens, and what a symbol stands for. *)

LP == "@"    \* the location pointer, the first entry of every symbol table

ASSUME NamesAssumption == LP \notin Names

(* "?": characters that are no operator.                                   *)
Operators == {"|", "^", "&", "<<", ">>", "+", "-", "*", "/"}
Texts == Operators \cup {"", "~", "?"}

(* BAD is the text behind a pointer that is none: reading it is fatal.     *)
Token == [type : {"INT", "OP", "LPAREN", "RPAREN", "END", "BAD"}, val : Word, text : Texts]
           \cup [type : {"SYMB"}, val : {0}, text : Names \cup {LP}]
Tok(type, val, text) == [type |-> type, val |-> val, text |-> text]
INT(v) == Tok("INT", v, "")
OP(op) == Tok("OP", 0, op)
END    == Tok("END", 0, "")
Expr   == Seq(Token)

precedence(op) ==
  CASE op = "|" -> 1
    [] op = "^" -> 2
    [] op = "&" -> 3
    [] op \in {"<<", ">>"} -> 4
    [] op \in {"+", "-"} -> 5
    [] op \in {"*", "/"} -> 6
    [] OTHER -> -1

(* What a name means: nothing yet, a value, or the text of a .set that is  *)
(* evaluated where it is used.                                             *)
Meaning == [def : BOOLEAN, isExpr : BOOLEAN, expr : Expr, value : Word]

(* pos: the current token; ok: canEval; trap: the process is killed; seen: *)
(* the names that were looked up, in order.                                *)
Lexer == [pos : Nat \ {0}, val : Word, ok : BOOLEAN, trap : BOOLEAN, seen : Seq(Names \cup {LP})]

nextToken(l) == [l EXCEPT !.pos = @ + 1]
Curr(toks, l) == IF l.pos <= Len(toks) THEN toks[l.pos] ELSE END
CannotEval(l) == [l EXCEPT !.ok = FALSE, !.val = -1]

(* Deviation: the operand on the right takes operators of the same         *)
(* precedence, too.                                                        *)
RightOperand(op) == precedence(op) - 1

OperandPrecedence(op) == precedence(op)

(* A call of one of the three functions; callee gives the result of each   *)
(* call that it makes itself.                                              *)
Calls == [what : {"parse", "_eval", "loop"}, toks : Expr, prec : 0 .. 6, l : Lexer]
To(what, toks, prec, l) == [what |-> what, toks |-> toks, prec |-> prec, l |-> l]

(* An operand. *)
parse(env, callee, toks, l) ==
  LET tok == Curr(toks, l)
      sub == callee[To("_eval", toks, 0, nextToken(l))]
      neg == callee[To("parse", toks, 0, nextToken(l))]
      saw == [nextToken(l) EXCEPT !.seen = Append(@, tok.text)]
      is  == env[tok.text]
      inner == callee[To("_eval", is.expr, 0, [saw EXCEPT !.pos = 1])]
  IN
  CASE tok.type = "INT" -> [nextToken(l) EXCEPT !.val = tok.val]
    [] tok.type = "SYMB" ->
         IF ~is.def THEN CannotEval(saw)
         ELSE IF ~is.isExpr THEN [saw EXCEPT !.val = is.value]
         ELSE [inner EXCEPT !.pos = saw.pos]
    [] tok.type = "LPAREN" ->
         IF Curr(toks, sub).type = "RPAREN" THEN nextToken(sub) ELSE CannotEval(sub)
    [] tok.type = "OP" /\ tok.text \in {"-", "~"} ->
         IF neg.ok THEN [neg EXCEPT !.val = Unary(tok.text, @)] ELSE CannotEval(neg)
    [] tok.type = "BAD" -> [CannotEval(l) EXCEPT !.trap = TRUE]
    [] OTHER -> CannotEval(l)

(* The rest of an expression, behind its first operand: one more operator  *)
(* that binds tighter than prec, and so on.                                *)
loop(callee, toks, prec, l) ==
  LET tok == Curr(toks, l)
      one == callee[To("_eval", toks, OperandPrecedence(tok.text), nextToken(l))] IN
  IF l.trap \/ tok.type # "OP" \/ precedence(tok.text) <= prec THEN l
  ELSE callee[To("loop", toks, prec,
         IF ~one.ok \/ one.trap THEN one
         ELSE IF Traps(tok.text, l.val, one.val) THEN [one EXCEPT !.trap = TRUE]
         ELSE [one EXCEPT !.val = Apply(tok.text, l.val, one.val)])]

Call(env, callee) ==
  [c \in Calls |->
     CASE c.what = "parse" -> parse(env, callee, c.toks, c.l)
       [] c.what = "loop"  -> loop(callee, c.toks, c.prec, c.l)
       [] c.what = "_eval" ->
            callee[To("loop", c.toks, c.prec, callee[To("parse", c.toks, 0, c.l)])]]

(* The calls that have room for n more of them within one another; without *)
(* room the stack is full, which is how a .set ends that means itself.     *)
Overflow == [c \in Calls |-> [c.l EXCEPT !.trap = TRUE]]
Evaluation(env) ==
  LET ev[n \in Nat] == IF n = 0 THEN Overflow ELSE Call(env, ev[n - 1])
  IN  ev[MaxCalls]

Start == [pos |-> 1, val |-> 0, ok |-> TRUE, trap |-> FALSE, seen |-> << >>]

(* eval: what is left of the tokens is not looked at. *)
Eval(expr, env) == Evaluation(env)[To("_eval", expr, 0, Start)]

-----------------------------------------------------------------------------
(* What an expression means: its operators bind as in C, from left to      *)
(* right at the same level.  The one that is applied last is the rightmost *)
(* of the lowest level outside parentheses.                                *)

Levels == << {"|"}, {"^"}, {"&"}, {"<<", ">>"}, {"+", "-"}, {"*", "/"} >>
Level(op) == CHOOSE n \in DOMAIN Levels : op \in Levels[n]

DepthAt(toks, k) ==
  Cardinality({j \in 1 .. k : toks[j].type = "LPAREN"})
    - Cardinality({j \in 1 .. k : toks[j].type = "RPAREN"})

(* A sign behind an operand is an operator. *)
Binary(toks) ==
  {k \in 2 .. Len(toks) :
     /\ toks[k].type = "OP" /\ toks[k].text \in Operators
     /\ toks[k - 1].type \in {"INT", "SYMB", "RPAREN"}
     /\ DepthAt(toks, k) = 0}
LastApplied(toks) ==
  CHOOSE k \in Binary(toks) :
    \A j \in Binary(toks) :
      \/ Level(toks[k].text) < Level(toks[j].text)
      \/ Level(toks[k].text) = Level(toks[j].text) /\ k >= j

(* The set of the values of toks: empty if it is no expression or has no   *)
(* value.  den: the same for everything that is shorter.                   *)
Meant(value, den, toks) ==
  LET k == LastApplied(toks)
      n == Len(toks) IN
  CASE n = 0 -> {}
    [] n > 0 /\ Binary(toks) # {} ->
         LET xs == den[SubSeq(toks, 1, k - 1)]
             ys == den[SubSeq(toks, k + 1, n)] IN
         {Apply(toks[k].text, p[1], p[2]) :
            p \in {q \in xs \X ys : ~Traps(toks[k].text, q[1], q[2])}}
    [] n = 1 /\ toks[1].type = "INT"  -> {toks[1].val}
    [] n = 1 /\ toks[1].type = "SYMB" -> {value[toks[1].text]}
    [] n > 1 /\ Binary(toks) = {} /\ toks[1].type = "OP" /\ toks[1].text \in {"-", "~"} ->
         {Unary(toks[1].text, x) : x \in den[Tail(toks)]}
    [] n > 2 /\ Binary(toks) = {} /\ toks[1].type = "LPAREN" /\ toks[n].type = "RPAREN" ->
         den[SubSeq(toks, 2, n - 1)]
    [] OTHER -> {}
Denotes(value) == LET den[toks \in Expr] == Meant(value, den, toks) IN den
===============================================================================
