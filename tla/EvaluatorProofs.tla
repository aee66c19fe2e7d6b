---------------------------- MODULE EvaluatorProofs ----------------------------
(***************************************************************************)
(* Proofs about module Evaluator: words stay words, an evaluation ends in  *)
(* a state of the lexer, and its value is the one that the expression      *)
(* means.                                                                  *)
(***************************************************************************)
EXTENDS Evaluator, Recursion, SequenceTheorems, FiniteSetTheorems

-----------------------------------------------------------------------------
(* Powers of two. *)

(* The recursion that defines Pow2 has a solution. *)
LEMMA Pow2Defined ==
  /\ Pow2[0] = 1
  /\ \A n \in Nat \ {0} : Pow2[n] = 2 * Pow2[n - 1]
<1>. DEFINE twice == [x \in Nat |-> 2 * x]
            F == [n \in Nat |-> twice]
<1>1. Steps(F, Nat, Nat) /\ \A n \in Nat : F[n] = twice
  BY DEF Steps
<1>2. \A x \in Nat : twice[x] = 2 * x
  OBVIOUS
<1>. HIDE DEF F, twice
<1>a. PICK h \in [Nat -> Nat] :
           h[0] = 1 /\ \A n \in Nat \ {0} : h[n] = F[n][h[n - 1]]
  <2>. DEFINE S == Nat
              x == 1
  <2>1. x \in S /\ Steps(F, Nat, S)
    BY <1>1
  <2>. HIDE DEF S, x
  <2>2. \E h \in [Nat -> S] : h[0] = x /\ \A n \in Nat \ {0} : h[n] = F[n][h[n - 1]]
    BY <2>1, RecursionExists
  <2>. QED BY <2>2 DEF S, x
<1>b. \A n \in Nat \ {0} : h[n] = 2 * h[n - 1]
  <2>. TAKE n \in Nat \ {0}
  <2>1. n \in Nat /\ n - 1 \in Nat
    OBVIOUS
  <2>2. h[n - 1] \in Nat /\ h[n] = F[n][h[n - 1]]
    BY <1>a, <2>1
  <2>. QED BY <1>1, <1>2, <2>1, <2>2
<1>3. h = [n \in Nat |-> IF n = 0 THEN 1 ELSE 2 * h[n - 1]]
  BY <1>a, <1>b
<1>4. Pow2 = [n \in Nat |-> IF n = 0 THEN 1 ELSE 2 * Pow2[n - 1]]
  BY <1>3, Zenon DEF Pow2
<1>. QED BY <1>4

(* They are positive, and each one is twice the one before it. *)
LEMMA Pow2Type == \A n \in Nat : Pow2[n] \in Nat \ {0}
<1>. DEFINE T == {n \in Nat : Pow2[n] \in Nat \ {0}}
<1>1. 0 \in T
  BY Pow2Defined
<1>2. ASSUME NEW n \in Nat, n \in T PROVE n + 1 \in T
  <2>1. Pow2[n + 1] = 2 * Pow2[n]
    BY Pow2Defined
  <2>. QED BY <1>2, <2>1
<1>3. Nat \subseteq T
  <2>. HIDE DEF T
  <2>. QED BY <1>1, <1>2, Induction
<1>. QED BY <1>3

(* The powers grow. *)
LEMMA Pow2Grows ==
  ASSUME NEW m \in Nat, NEW n \in Nat, m <= n
  PROVE  Pow2[m] <= Pow2[n]
<1>. DEFINE T == {k \in Nat : m <= k => Pow2[m] <= Pow2[k]}
<1>1. 0 \in T
  BY Pow2Type
<1>2. ASSUME NEW k \in Nat, k \in T PROVE k + 1 \in T
  <2>1. Pow2[k + 1] = 2 * Pow2[k]
    BY Pow2Defined
  <2>2. Pow2[k] \in Nat /\ Pow2[k + 1] \in Nat /\ Pow2[m] \in Nat
    BY Pow2Type
  <2>. QED BY <1>2, <2>1, <2>2
<1>3. Nat \subseteq T
  <2>. HIDE DEF T
  <2>. QED BY <1>1, <1>2, Induction
<1>. QED BY <1>3

(* The halves of a word. *)
LEMMA Words ==
  /\ Half \in Nat /\ Half >= 8 /\ Modulus = 2 * Half
  /\ Word = -Half .. Half - 1
  /\ \A x \in Int : Wrap(x) \in Word
<1>1. WordBits \in Nat /\ WordBits >= 4 /\ WordBits - 1 \in Nat
  BY WordBitsAssumption
<1>2. Modulus = 2 * Half
  BY <1>1, Pow2Defined DEF Modulus, Half
<1>3. Half \in Nat \ {0}
  BY <1>1, Pow2Type DEF Half
<1>4. Pow2[3] = 8
  <2>1. Pow2[1] = 2
    BY Pow2Defined
  <2>2. Pow2[2] = 4
    BY <2>1, Pow2Defined
  <2>. QED BY <2>2, Pow2Defined
<1>5. Half >= 8
  BY <1>1, <1>4, Pow2Grows DEF Half
<1>6. ASSUME NEW x \in Int PROVE Wrap(x) \in Word
  <2>1. Modulus \in Nat \ {0}
    BY <1>2, <1>3
  <2>2. (x + Half) % Modulus \in 0 .. Modulus - 1
    BY <1>3, <2>1
  <2>. QED BY <1>2, <1>3, <2>2 DEF Wrap, Word
<1>. QED BY <1>2, <1>3, <1>5, <1>6 DEF Word

-----------------------------------------------------------------------------
(* The operations. *)

(* A quotient that is rounded down lies between 0 and its dividend.        *)
LEMMA DivBounds ==
  ASSUME NEW a \in Nat, NEW b \in Nat \ {0}
  PROVE  /\ a \div b \in 0 .. a
         /\ b >= 2 /\ a > 0 => a \div b < a
         /\ a > 0 => (-a) \div b \in -a .. -1
<1>. DEFINE q == a \div b
             r == a % b
<1>2. q \in Int /\ r \in 0 .. b - 1 /\ a = b * q + r
  OBVIOUS
<1>. DEFINE p == (-a) \div b
             t == (-a) % b
<1>4. p \in Int /\ t \in 0 .. b - 1 /\ -a = b * p + t
  OBVIOUS
<1>. HIDE DEF q, r, p, t
<1>5. q >= 0
  <2>1. CASE q <= -1
    <3>1. b * q <= b * (-1)
      BY <2>1, <1>2
    <3>. QED BY <1>2, <3>1
  <2>. QED BY <2>1, <1>2
<1>6. q <= a
  <2>1. b * q >= 1 * q
    BY <1>2, <1>5
  <2>. QED BY <1>2, <2>1
<1>7. ASSUME b >= 2, a > 0 PROVE q < a
  <2>1. b * q >= 2 * q
    BY <1>2, <1>5, <1>7
  <2>. QED BY <1>2, <1>5, <1>7, <2>1
<1>8. ASSUME a > 0 PROVE p <= -1
  <2>1. CASE p >= 0
    <3>1. b * p >= 0
      BY <2>1, <1>4
    <3>. QED BY <1>4, <1>8, <3>1
  <2>. QED BY <2>1, <1>4
<1>9. ASSUME a > 0 PROVE p >= -a
  <2>1. CASE p <= -a - 1
    <3>1. b * p <= b * (-a - 1)
      BY <2>1, <1>4
    <3>2. b * (-a - 1) <= 1 * (-a - 1) - (b - 1)
      <4>1. (b - 1) * (-a - 1) <= (b - 1) * (-1)
        BY <1>9
      <4>2. b * (-a - 1) = (b - 1) * (-a - 1) + (-a - 1)
        OBVIOUS
      <4>. QED BY <4>1, <4>2
    <3>. QED BY <1>4, <3>1, <3>2
  <2>. QED BY <2>1, <1>4
<1>. QED BY <1>2, <1>4, <1>5, <1>6, <1>7, <1>8, <1>9 DEF q, p

(* A quotient of words that does not trap is a word.                       *)
LEMMA QuotientType ==
  ASSUME NEW x \in Word, NEW y \in Word, ~Traps("/", x, y)
  PROVE  Quotient(x, y) \in Word
<1>1. Half \in Nat /\ Half >= 8 /\ Word = -Half .. Half - 1
  BY Words
<1>2. y # 0 /\ ~(x = -Half /\ y = -1)
  BY DEF Traps
<1>3. Abs(x) \in 0 .. Half /\ Abs(y) \in Nat \ {0}
  BY <1>1, <1>2 DEF Abs
<1>. DEFINE q == Abs(x) \div Abs(y)
<1>4. q \in 0 .. Abs(x) /\ (Abs(y) >= 2 /\ Abs(x) > 0 => q < Abs(x))
  BY <1>3, DivBounds
<1>. HIDE DEF q
<1>5. CASE (x < 0) = (y < 0)
  <2>1. q < Half
    <3>1. CASE x = -Half
      <4>1. Abs(y) >= 2 /\ Abs(x) = Half
        BY <1>1, <1>2, <1>5, <3>1 DEF Abs
      <4>. QED BY <4>1, <1>1, <1>4
    <3>2. CASE x # -Half
      <4>1. Abs(x) < Half
        BY <1>1, <3>2 DEF Abs
      <4>. QED BY <4>1, <1>1, <1>3, <1>4
    <3>. QED BY <3>1, <3>2
  <2>2. Quotient(x, y) = q
    BY <1>5 DEF Quotient, q
  <2>. QED BY <1>1, <1>3, <1>4, <2>1, <2>2
<1>6. CASE (x < 0) # (y < 0)
  <2>1. Quotient(x, y) = -q
    BY <1>6 DEF Quotient, q
  <2>. QED BY <1>1, <1>3, <1>4, <2>1
<1>. QED BY <1>5, <1>6

(* The factor of a shift is a power of two.                                *)
LEMMA ShiftType == \A y \in Word : Shift(y) \in Nat \ {0}
<1>. TAKE y \in Word
<1>1. y \in Int /\ WordBits \in Nat /\ WordBits >= 4
  BY Words, WordBitsAssumption
<1>2. y % WordBits \in Nat
  BY <1>1
<1>. QED BY <1>2, Pow2Type DEF Shift

(* So is what is shifted to the right.                                     *)
LEMMA ShiftedRight ==
  ASSUME NEW x \in Word, NEW y \in Word
  PROVE  x \div Shift(y) \in Word
<1>1. Half \in Nat /\ Word = -Half .. Half - 1
  BY Words
<1>. DEFINE b == Shift(y)
<1>2. b \in Nat \ {0}
  BY ShiftType
<1>. HIDE DEF b
<1>3. CASE x >= 0
  <2>1. x \in Nat /\ x \div b \in 0 .. x
    BY <1>1, <1>2, <1>3, DivBounds
  <2>. QED BY <1>1, <2>1 DEF b
<1>4. CASE x < 0
  <2>. DEFINE a == -x
  <2>1. a \in Nat /\ a > 0 /\ -a = x
    BY <1>1, <1>4
  <2>. HIDE DEF a
  <2>2. (-a) \div b \in -a .. -1
    BY <1>2, <2>1, DivBounds
  <2>. QED BY <1>1, <2>1, <2>2 DEF b
<1>. QED BY <1>1, <1>3, <1>4

Table == [{0, 1} -> [{0, 1} -> {0, 1}]]

(* The tables of the bitwise operators are tables of bits. *)
LEMMA Tables2 == BitAnd \in Table /\ BitXor \in Table /\ BitOr \in Table
<1>1. BitAnd \in Table
  BY DEF BitAnd, Table
<1>2. BitXor \in Table
  BY DEF BitXor, Table
<1>3. BitOr \in Table
  BY DEF BitOr, Table
<1>. QED BY <1>1, <1>2, <1>3

(* A bit is 0 or 1. *)
LEMMA BitType == \A x \in Int : \A i \in Nat : Bit(x, i) \in {0, 1}
<1>. TAKE x \in Int
<1>. TAKE i \in Nat
<1>1. Pow2[i] \in Nat \ {0}
  BY Pow2Type
<1>2. x \div Pow2[i] \in Int
  BY <1>1
<1>. QED BY <1>2 DEF Bit

(* The bits are summed up to an integer, and cut to a word.                *)
LEMMA BitByBitType ==
  ASSUME NEW table \in Table, NEW x \in Int, NEW y \in Int
  PROVE  BitByBit(table, x, y) \in Word
<1>. DEFINE share == [i \in 1 .. WordBits |->
                        Pow2[i - 1] * table[Bit(x, i - 1)][Bit(y, i - 1)]]
            Body(low) == [i \in 0 .. WordBits |->
                            IF i = 0 THEN 0
                            ELSE low[i - 1] + Pow2[i - 1] * table[Bit(x, i - 1)][Bit(y, i - 1)]]
            F == [i \in 1 .. WordBits |-> [s \in Int |-> s + share[i]]]
<1>1. WordBits \in Nat
  BY WordBitsAssumption
<1>2. share \in [1 .. WordBits -> Int]
  <2>. SUFFICES ASSUME NEW i \in 1 .. WordBits
                PROVE  Pow2[i - 1] * table[Bit(x, i - 1)][Bit(y, i - 1)] \in Int
    OBVIOUS
  <2>1. i - 1 \in Nat
    BY <1>1
  <2>2. Pow2[i - 1] \in Int
    BY <2>1, Pow2Type
  <2>3. table[Bit(x, i - 1)][Bit(y, i - 1)] \in Int
    BY <2>1, BitType DEF Table
  <2>. QED BY <2>2, <2>3
<1>3. \A i \in 1 .. WordBits : share[i] = Pow2[i - 1] * table[Bit(x, i - 1)][Bit(y, i - 1)]
  OBVIOUS
<1>. HIDE DEF share
<1>4. Steps(F, 1 .. WordBits, Int)
  BY <1>2 DEF Steps
<1>5. \A i \in 1 .. WordBits : \A s \in Int : F[i][s] = s + share[i]
  OBVIOUS
<1>. HIDE DEF F
<1>6. PICK h \in [0 .. WordBits -> Int] :
              h[0] = 0 /\ \A i \in 1 .. WordBits : h[i] = F[i][h[i - 1]]
  <2>. DEFINE S == Int
              s == 0
  <2>1. s \in S /\ Steps(F, 1 .. WordBits, S)
    BY <1>4
  <2>. HIDE DEF S, s
  <2>2. \E h \in [0 .. WordBits -> S] :
           h[0] = s /\ \A i \in 1 .. WordBits : h[i] = F[i][h[i - 1]]
    BY <1>1, <2>1, BoundedRecursionExists
  <2>. QED BY <2>2 DEF S, s
<1>7. ASSUME NEW i \in 1 .. WordBits PROVE h[i] = h[i - 1] + share[i]
  <2>1. i - 1 \in 0 .. WordBits
    BY <1>1
  <2>. QED BY <1>5, <1>6, <2>1
<1>8. h = Body(h)
  BY <1>1, <1>3, <1>6, <1>7
<1>. DEFINE low == CHOOSE f : f = Body(f)
<1>9. low = Body(low)
  <2>. HIDE DEF Body
  <2>. QED BY <1>8, Zenon
<1>. HIDE DEF low
<1>. DEFINE T == {i \in 0 .. WordBits : low[i] \in Int}
<1>10. 0 \in T
  BY <1>1, <1>9
<1>11. ASSUME NEW i \in 0 .. WordBits - 1, i \in T PROVE i + 1 \in T
  <2>1. i + 1 \in 1 .. WordBits /\ i + 1 \in 0 .. WordBits /\ (i + 1) - 1 = i /\ i + 1 # 0
    BY <1>1
  <2>2. low[i + 1] = low[i] + share[i + 1]
    BY <1>3, <1>9, <2>1
  <2>. QED BY <1>2, <1>11, <2>1, <2>2
<1>12. 0 .. WordBits \subseteq T
  <2>. HIDE DEF T
  <2>. QED BY <1>1, <1>10, <1>11, BoundedInduction
<1>13. low[WordBits] \in Int
  BY <1>1, <1>12
<1>14. BitByBit(table, x, y) = Wrap(low[WordBits])
  BY DEF BitByBit, low
<1>. QED BY <1>13, <1>14, Words

(* An operator that does not trap gives a word.                            *)
LEMMA ApplyType ==
  ASSUME NEW op \in Operators, NEW x \in Word, NEW y \in Word, ~Traps(op, x, y)
  PROVE  Apply(op, x, y) \in Word
<1>1. x \in Int /\ y \in Int /\ \A z \in Int : Wrap(z) \in Word
  BY Words
<1>2. CASE op = "/"
  BY <1>2, QuotientType DEF Apply
<1>3. CASE op = "*"
  <2>1. x * y \in Int
    BY <1>1
  <2>2. Apply(op, x, y) = Wrap(x * y)
    BY <1>3 DEF Apply
  <2>. QED BY <1>1, <2>1, <2>2
<1>4. CASE op = "<<"
  <2>1. x * Shift(y) \in Int
    BY <1>1, ShiftType
  <2>2. Apply(op, x, y) = Wrap(x * Shift(y))
    BY <1>4 DEF Apply
  <2>. QED BY <1>1, <2>1, <2>2
<1>5. CASE op = ">>"
  BY <1>5, ShiftedRight DEF Apply
<1>6. CASE op \in {"+", "-"}
  <2>1. x + y \in Int /\ x - y \in Int
    BY <1>1
  <2>2. Apply(op, x, y) \in {Wrap(x + y), Wrap(x - y)}
    BY <1>6 DEF Apply
  <2>. QED BY <1>1, <2>1, <2>2
<1>7. CASE op \in {"&", "^", "|"}
  <2>1. Apply(op, x, y) \in {BitByBit(BitAnd, x, y), BitByBit(BitXor, x, y), BitByBit(BitOr, x, y)}
    BY <1>7 DEF Apply
  <2>. QED BY <1>1, <2>1, BitByBitType, Tables2
<1>. QED BY <1>2, <1>3, <1>4, <1>5, <1>6, <1>7 DEF Operators

(* The operators before a value yield a word. *)
LEMMA UnaryType == \A op, x : x \in Word => Unary(op, x) \in Word
<1>. SUFFICES ASSUME NEW op, NEW x \in Word PROVE Unary(op, x) \in Word
  OBVIOUS
<1>1. x \in Int /\ -x \in Int /\ -1 - x \in Word /\ \A z \in Int : Wrap(z) \in Word
  BY Words
<1>. QED BY <1>1 DEF Unary

(* Operators have a precedence of 1 to 6, everything else has none.        *)
LEMMA PrecedenceType ==
  \A op : precedence(op) > 0 => op \in Operators /\ precedence(op) \in 1 .. 6
  BY DEF precedence, Operators

-----------------------------------------------------------------------------
(* States of the lexer. *)

(* The tokens of an expression, and the end behind them.                   *)
LEMMA CurrType ==
  ASSUME NEW toks \in Expr, NEW l \in Lexer
  PROVE  /\ Curr(toks, l) \in Token
         /\ Curr(toks, l).val \in Word
         /\ Curr(toks, l).type = "SYMB" => Curr(toks, l).text \in Names \cup {LP}
<1>1. END \in Token
  <2>1. 0 \in Word
    BY Words
  <2>. QED BY <2>1 DEF END, Tok, Token, Texts
<1>2. l.pos \in Nat \ {0}
  BY DEF Lexer
<1>3. Curr(toks, l) \in Token
  BY <1>1, <1>2 DEF Curr, Expr
<1>4. 0 \in Word
  BY Words
<1>. QED BY <1>3, <1>4 DEF Token

(* What becomes of a state of the lexer when parts of it are changed.      *)
LEMMA LexerSteps ==
  ASSUME NEW l \in Lexer
  PROVE  /\ l.pos \in Nat \ {0} /\ l.val \in Word
         /\ nextToken(l) \in Lexer /\ CannotEval(l) \in Lexer
         /\ [l EXCEPT !.trap = TRUE] \in Lexer
         /\ \A v \in Word : [l EXCEPT !.val = v] \in Lexer
         /\ \A p \in Nat \ {0} : [l EXCEPT !.pos = p] \in Lexer
         /\ \A n \in Names \cup {LP} :
              [l EXCEPT !.seen = Append(@, n)] \in Lexer
<1>1. -1 \in Word
  BY Words
<1>2. l.seen \in Seq(Names \cup {LP})
  BY DEF Lexer
<1>3. \A n \in Names \cup {LP} : Append(l.seen, n) \in Seq(Names \cup {LP})
  BY <1>2
<1>4. l.pos \in Nat \ {0} /\ l.val \in Word
  BY DEF Lexer
<1>5. \A p \in Nat \ {0} : [l EXCEPT !.pos = p] \in Lexer
  BY DEF Lexer
<1>6. nextToken(l) \in Lexer
  BY <1>4, <1>5 DEF nextToken
<1>7. CannotEval(l) \in Lexer
  BY <1>1 DEF Lexer, CannotEval
<1>8. [l EXCEPT !.trap = TRUE] \in Lexer /\ \A v \in Word : [l EXCEPT !.val = v] \in Lexer
  BY DEF Lexer
<1>9. \A n \in Names \cup {LP} : [l EXCEPT !.seen = Append(@, n)] \in Lexer
  BY <1>3 DEF Lexer
<1>. QED BY <1>4, <1>5, <1>6, <1>7, <1>8, <1>9

(* The calls that can be made.                                             *)
LEMMA ToType ==
  ASSUME NEW what \in {"parse", "_eval", "loop"}, NEW toks \in Expr, NEW prec \in 0 .. 6,
         NEW l \in Lexer
  PROVE  To(what, toks, prec, l) \in Calls
  BY DEF To, Calls

(* parse, loop and with them each call return a state of the lexer. *)
LEMMA ParseType ==
  ASSUME NEW env \in [Names \cup {LP} -> Meaning], NEW callee \in [Calls -> Lexer],
         NEW toks \in Expr, NEW l \in Lexer
  PROVE  parse(env, callee, toks, l) \in Lexer
<1>. DEFINE tok == Curr(toks, l)
            next == nextToken(l)
            sub == callee[To("_eval", toks, 0, next)]
            neg == callee[To("parse", toks, 0, next)]
            saw == [next EXCEPT !.seen = Append(@, tok.text)]
            is == env[tok.text]
            inner == callee[To("_eval", is.expr, 0, [saw EXCEPT !.pos = 1])]
<1>1. tok \in Token /\ tok.val \in Word
  BY CurrType
<1>2. next \in Lexer
  BY LexerSteps
<1>3. sub \in Lexer /\ neg \in Lexer
  <2>1. To("_eval", toks, 0, next) \in Calls /\ To("parse", toks, 0, next) \in Calls
    BY <1>2 DEF To, Calls
  <2>. QED BY <2>1
<1>4. CASE tok.type = "INT"
  <2>1. parse(env, callee, toks, l) = [next EXCEPT !.val = tok.val]
    BY <1>4 DEF parse
  <2>. QED BY <1>1, <1>2, <2>1, LexerSteps
<1>5. CASE tok.type = "SYMB"
  <2>1. tok.text \in Names \cup {LP}
    BY <1>5, CurrType
  <2>2. saw \in Lexer
    BY <1>2, <2>1, LexerSteps
  <2>3. is \in Meaning
    BY <2>1
  <2>4. is.expr \in Expr /\ is.value \in Word
    BY <2>3 DEF Meaning
  <2>5. inner \in Lexer
    <3>1. [saw EXCEPT !.pos = 1] \in Lexer
      <4>. HIDE DEF saw
      <4>1. 1 \in Nat \ {0}
        OBVIOUS
      <4>. QED BY <2>2, <4>1, LexerSteps
    <3>2. To("_eval", is.expr, 0, [saw EXCEPT !.pos = 1]) \in Calls
      BY <2>4, <3>1 DEF To, Calls
    <3>. QED BY <3>2
  <2>6. /\ CannotEval(saw) \in Lexer
        /\ [saw EXCEPT !.val = is.value] \in Lexer
        /\ [inner EXCEPT !.pos = saw.pos] \in Lexer
    <3>. HIDE DEF saw, inner, is
    <3>. QED BY <2>2, <2>4, <2>5, LexerSteps
  <2>7. parse(env, callee, toks, l) =
           IF ~is.def THEN CannotEval(saw)
           ELSE IF ~is.isExpr THEN [saw EXCEPT !.val = is.value]
           ELSE [inner EXCEPT !.pos = saw.pos]
    BY <1>5 DEF parse
  <2>. QED BY <2>6, <2>7
<1>6. CASE tok.type = "LPAREN"
  <2>1. parse(env, callee, toks, l) \in {nextToken(sub), CannotEval(sub)}
    BY <1>6 DEF parse
  <2>. QED BY <1>3, <2>1, LexerSteps
<1>7. CASE tok.type = "OP" /\ tok.text \in {"-", "~"}
  <2>1. [neg EXCEPT !.val = Unary(tok.text, @)] \in Lexer
    <3>1. Unary(tok.text, neg.val) \in Word
      BY <1>3, LexerSteps, UnaryType
    <3>. QED BY <1>3, <3>1, LexerSteps
  <2>2. parse(env, callee, toks, l) =
           IF neg.ok THEN [neg EXCEPT !.val = Unary(tok.text, @)] ELSE CannotEval(neg)
    BY <1>7 DEF parse
  <2>. QED BY <1>3, <2>1, <2>2, LexerSteps
<1>8. CASE tok.type = "BAD"
  <2>1. parse(env, callee, toks, l) = [CannotEval(l) EXCEPT !.trap = TRUE]
    BY <1>8 DEF parse
  <2>. QED BY <2>1, LexerSteps
<1>9. CASE ~(tok.type \in {"INT", "SYMB", "LPAREN", "BAD"}) /\ ~(tok.type = "OP" /\ tok.text \in {"-", "~"})
  <2>1. parse(env, callee, toks, l) = CannotEval(l)
    BY <1>9 DEF parse
  <2>. QED BY <2>1, LexerSteps
<1>. QED BY <1>4, <1>5, <1>6, <1>7, <1>8, <1>9

(* The operators behind a value leave a state of the lexer. *)
LEMMA LoopType ==
  ASSUME NEW callee \in [Calls -> Lexer], NEW toks \in Expr, NEW prec \in 0 .. 6, NEW l \in Lexer
  PROVE  loop(callee, toks, prec, l) \in Lexer
<1>. DEFINE tok == Curr(toks, l)
            one == callee[To("_eval", toks, OperandPrecedence(tok.text), nextToken(l))]
            rest == IF ~one.ok \/ one.trap THEN one
                    ELSE IF Traps(tok.text, l.val, one.val) THEN [one EXCEPT !.trap = TRUE]
                    ELSE [one EXCEPT !.val = Apply(tok.text, l.val, one.val)]
<1>1. CASE l.trap \/ tok.type # "OP" \/ precedence(tok.text) <= prec
  BY <1>1 DEF loop
<1>2. CASE ~(l.trap \/ tok.type # "OP" \/ precedence(tok.text) <= prec)
  <2>1. tok.text \in Operators /\ precedence(tok.text) \in 1 .. 6
    <3>1. precedence(tok.text) \in Int
      BY DEF precedence
    <3>. QED BY <1>2, <3>1, PrecedenceType
  <2>2. one \in Lexer
    <3>1. To("_eval", toks, OperandPrecedence(tok.text), nextToken(l)) \in Calls
      <4>1. OperandPrecedence(tok.text) \in 0 .. 6
        BY <2>1 DEF OperandPrecedence
      <4>. QED BY <4>1, LexerSteps, ToType
    <3>. QED BY <3>1
  <2>3. rest \in Lexer
    <3>. HIDE DEF one
    <3>1. CASE Traps(tok.text, l.val, one.val)
      BY <2>2, <3>1, LexerSteps
    <3>2. CASE ~Traps(tok.text, l.val, one.val)
      <4>1. Apply(tok.text, l.val, one.val) \in Word
        BY <2>1, <2>2, <3>2, LexerSteps, ApplyType
      <4>. QED BY <2>2, <3>2, <4>1, LexerSteps
    <3>. QED BY <3>1, <3>2
  <2>4. To("loop", toks, prec, rest) \in Calls
    <3>. HIDE DEF rest
    <3>. QED BY <2>3 DEF To, Calls
  <2>5. loop(callee, toks, prec, l) = callee[To("loop", toks, prec, rest)]
    BY <1>2 DEF loop
  <2>. QED BY <2>4, <2>5
<1>. QED BY <1>1, <1>2

(* One call, if the calls that it makes have results.                      *)
LEMMA CallType ==
  ASSUME NEW env \in [Names \cup {LP} -> Meaning], NEW callee \in [Calls -> Lexer]
  PROVE  Call(env, callee) \in [Calls -> Lexer]
<1>. DEFINE result(c) ==
       CASE c.what = "parse" -> parse(env, callee, c.toks, c.l)
         [] c.what = "loop"  -> loop(callee, c.toks, c.prec, c.l)
         [] c.what = "_eval" ->
              callee[To("loop", c.toks, c.prec, callee[To("parse", c.toks, 0, c.l)])]
<1>1. ASSUME NEW c \in Calls PROVE result(c) \in Lexer
  <2>1. c.what \in {"parse", "_eval", "loop"} /\ c.toks \in Expr /\ c.prec \in 0 .. 6 /\ c.l \in Lexer
    BY DEF Calls
  <2>2. CASE c.what = "parse"
    <3>1. result(c) = parse(env, callee, c.toks, c.l)
      BY <2>2
    <3>. QED BY <2>1, <3>1, ParseType
  <2>3. CASE c.what = "loop"
    <3>1. result(c) = loop(callee, c.toks, c.prec, c.l)
      BY <2>3
    <3>. QED BY <2>1, <3>1, LoopType
  <2>4. CASE c.what = "_eval"
    <3>. DEFINE first == callee[To("parse", c.toks, 0, c.l)]
    <3>1. first \in Lexer
      <4>1. To("parse", c.toks, 0, c.l) \in Calls
        BY <2>1 DEF To, Calls
      <4>. QED BY <4>1
    <3>2. result(c) = callee[To("loop", c.toks, c.prec, first)]
      BY <2>4
    <3>. HIDE DEF first
    <3>3. To("loop", c.toks, c.prec, first) \in Calls
      BY <2>1, <3>1 DEF To, Calls
    <3>. QED BY <3>2, <3>3
  <2>. QED BY <2>1, <2>2, <2>3, <2>4
<1>2. Call(env, callee) = [c \in Calls |-> result(c)]
  BY DEF Call
<1>. HIDE DEF result
<1>. QED BY <1>1, <1>2

(* The calls that have room for n more: each is made of the ones before.   *)
Unfolds(env, ev) ==
  /\ ev[0] = Overflow
  /\ \A n \in Nat : ev[n] \in [Calls -> Lexer] /\ ev[n + 1] = Call(env, ev[n])
  /\ Evaluation(env) = ev[MaxCalls]

(* The depths of the recursion can be taken one by one. *)
LEMMA EvaluationUnfolded ==
  ASSUME NEW env \in [Names \cup {LP} -> Meaning]
  PROVE  \E ev : Unfolds(env, ev)
<1>. DEFINE Results == [Calls -> Lexer]
            once == [g \in Results |-> Call(env, g)]
            Body(ev) == [n \in Nat |-> IF n = 0 THEN Overflow ELSE Call(env, ev[n - 1])]
<1>1. Overflow \in Results
  <2>1. \A c \in Calls : [c.l EXCEPT !.trap = TRUE] \in Lexer
    BY LexerSteps DEF Calls
  <2>. QED BY <2>1 DEF Overflow
<1>2. once \in [Results -> Results] /\ \A g \in Results : once[g] = Call(env, g)
  BY CallType
<1>3. PICK h \in [Nat -> Results] :
              h[0] = Overflow /\ \A n \in Nat \ {0} : h[n] = once[h[n - 1]]
  <2>. HIDE DEF once, Results
  <2>. QED BY <1>1, <1>2, IterationExists
<1>4. ASSUME NEW n \in Nat \ {0} PROVE h[n] = Call(env, h[n - 1])
  <2>1. h[n - 1] \in Results
    BY <1>3
  <2>. HIDE DEF once, Results
  <2>. QED BY <1>2, <1>3, <2>1
<1>5. h = Body(h)
  BY <1>3, <1>4
<1>. DEFINE ev == CHOOSE f : f = Body(f)
<1>6. ev = Body(ev)
  <2>. HIDE DEF Body
  <2>. QED BY <1>5, Zenon
<1>. HIDE DEF ev
<1>7. ev[0] = Overflow /\ \A n \in Nat : ev[n + 1] = Call(env, ev[n])
  BY <1>6
<1>. DEFINE T == {n \in Nat : ev[n] \in Results}
<1>8. 0 \in T
  <2>. HIDE DEF Results
  <2>. QED BY <1>1, <1>7
<1>9. ASSUME NEW n \in Nat, n \in T PROVE n + 1 \in T
  <2>1. ev[n + 1] = Call(env, ev[n]) /\ ev[n] \in Results
    BY <1>7, <1>9
  <2>2. ev[n + 1] \in Results
    BY <2>1, CallType
  <2>. QED BY <2>2
<1>10. Nat \subseteq T
  <2>. HIDE DEF T
  <2>. QED BY <1>8, <1>9, Induction
<1>11. Evaluation(env) = ev[MaxCalls]
  BY DEF Evaluation, ev
<1>. QED BY <1>7, <1>10, <1>11 DEF Unfolds

(* An evaluation ends in a state of the lexer, whatever it is given.       *)
LEMMA EvalType ==
  ASSUME NEW env \in [Names \cup {LP} -> Meaning], NEW expr \in Expr
  PROVE  Eval(expr, env) \in Lexer
<1>1. PICK ev : Unfolds(env, ev)
  BY EvaluationUnfolded
<1>2. Evaluation(env) \in [Calls -> Lexer]
  BY <1>1, MaxCallsAssumption DEF Unfolds
<1>3. Start \in Lexer
  BY Words DEF Start, Lexer
<1>4. To("_eval", expr, 0, Start) \in Calls
  BY <1>3, ToType
<1>. QED BY <1>2, <1>4 DEF Eval

-----------------------------------------------------------------------------
(* What an expression means: its value is defined, and it has at most one. *)

(* What may be put for the names of an expression. *)
Valuation == [Names \cup {LP} -> Word]
Meanings == [Expr -> SUBSET Word]

(* What an expression means is chosen among the equation's solutions. *)
LEMMA DenotesUnfolded ==
  ASSUME NEW value
  PROVE  Denotes(value) = CHOOSE den : den = [toks \in Expr |-> Meant(value, den, toks)]
  BY DEF Denotes

(* The levels of the grammar are the precedences of the parser.            *)
LEMMA LevelIs == \A op \in Operators : Level(op) = precedence(op) /\ Level(op) \in 1 .. 6
<1>. TAKE op \in Operators
<1>1. DOMAIN Levels = 1 .. 6
  BY DEF Levels
<1>2. /\ Levels[1] = {"|"} /\ Levels[2] = {"^"} /\ Levels[3] = {"&"}
      /\ Levels[4] = {"<<", ">>"} /\ Levels[5] = {"+", "-"} /\ Levels[6] = {"*", "/"}
  BY DEF Levels
<1>3. precedence(op) \in 1 .. 6 /\ op \in Levels[precedence(op)]
  BY <1>2 DEF Operators, precedence
<1>4. \A n \in 1 .. 6 : op \in Levels[n] => n = precedence(op)
  BY <1>2 DEF precedence
<1>5. Level(op) = CHOOSE n \in 1 .. 6 : op \in Levels[n]
  BY <1>1 DEF Level
<1>6. Level(op) \in 1 .. 6 /\ op \in Levels[Level(op)]
  BY <1>3, <1>5
<1>. QED BY <1>3, <1>4, <1>6

(* The operator that is applied last: no operator outside of parentheses   *)
(* has a lower level, and none behind it has the same.                     *)
IsLast(toks, ks, k) ==
  /\ k \in ks
  /\ \A j \in ks : \/ Level(toks[k].text) < Level(toks[j].text)
                   \/ Level(toks[k].text) = Level(toks[j].text) /\ k >= j

(* There is one. *)
LEMMA LastExists ==
  ASSUME NEW toks \in Expr, Binary(toks) # {}
  PROVE  /\ IsLast(toks, Binary(toks), LastApplied(toks))
         /\ Binary(toks) \subseteq 2 .. Len(toks)
         /\ \A k \in Binary(toks) : toks[k].text \in Operators
<1>. DEFINE B == Binary(toks)
            p(k) == Level(toks[k].text)
<1>1. B \subseteq 2 .. Len(toks) /\ Len(toks) \in Nat /\ \A k \in B : toks[k].text \in Operators
  BY DEF Binary, Expr
<1>2. \A k \in B : p(k) \in 1 .. 6
  BY <1>1, LevelIs
<1>. DEFINE L == {p(k) : k \in B}
<1>3. L \subseteq Nat /\ L # {}
  BY <1>2
<1>4. PICK m \in L : \A x \in L : m <= x
  <2>. HIDE DEF L
  <2>. QED BY <1>3, LeastElement
<1>. DEFINE R == {Len(toks) - k : k \in {j \in B : p(j) = m}}
<1>5. R \subseteq Nat /\ R # {}
  BY <1>1, <1>4
<1>6. PICK r \in R : \A x \in R : r <= x
  <2>. HIDE DEF R
  <2>. QED BY <1>5, LeastElement
<1>7. PICK k \in B : p(k) = m /\ r = Len(toks) - k
  BY <1>6
<1>8. ASSUME NEW j \in B PROVE p(k) < p(j) \/ (p(k) = p(j) /\ k >= j)
  <2>1. p(j) \in L
    OBVIOUS
  <2>2. m <= p(j) /\ p(j) \in Nat /\ m \in Nat
    BY <1>2, <1>3, <1>4, <2>1
  <2>3. CASE p(j) = m
    <3>1. Len(toks) - j \in R
      BY <2>3
    <3>2. r <= Len(toks) - j
      BY <1>6, <3>1
    <3>3. j \in Int /\ k \in Int
      BY <1>1
    <3>. QED BY <1>1, <1>7, <2>3, <3>2, <3>3
  <2>4. CASE p(j) # m
    BY <1>7, <2>2, <2>4
  <2>. QED BY <2>3, <2>4
<1>9. IsLast(toks, Binary(toks), k)
  BY <1>7, <1>8 DEF IsLast
<1>10. LastApplied(toks) = CHOOSE i : i \in Binary(toks) /\ \A j \in Binary(toks) :
           \/ Level(toks[i].text) < Level(toks[j].text)
           \/ Level(toks[i].text) = Level(toks[j].text) /\ i >= j
  BY Zenon DEF LastApplied
<1>11. LastApplied(toks) = CHOOSE i : IsLast(toks, Binary(toks), i)
  BY <1>10, Zenon DEF IsLast
<1>12. IsLast(toks, Binary(toks), LastApplied(toks))
  BY <1>9, <1>11, Zenon
<1>. QED BY <1>1, <1>12

(* The parts of an expression are shorter expressions.                     *)
LEMMA Shorter ==
  ASSUME NEW toks \in Expr, NEW k \in 1 .. Len(toks)
  PROVE  /\ SubSeq(toks, 1, k - 1) \in Expr /\ Len(SubSeq(toks, 1, k - 1)) < Len(toks)
         /\ SubSeq(toks, k + 1, Len(toks)) \in Expr
         /\ Len(SubSeq(toks, k + 1, Len(toks))) < Len(toks)
         /\ Tail(toks) \in Expr /\ Len(Tail(toks)) < Len(toks)
         /\ Len(toks) > 2 => SubSeq(toks, 2, Len(toks) - 1) \in Expr
                             /\ Len(SubSeq(toks, 2, Len(toks) - 1)) < Len(toks)
<1>1. Len(toks) \in Nat /\ toks \in Seq(Token)
  BY DEF Expr
<1>2. Len(SubSeq(toks, 1, k - 1)) = k - 1 /\ SubSeq(toks, 1, k - 1) \in Seq(Token)
  BY <1>1
<1>3. Len(SubSeq(toks, k + 1, Len(toks))) = Len(toks) - k /\ SubSeq(toks, k + 1, Len(toks)) \in Seq(Token)
  BY <1>1
<1>4. Tail(toks) \in Seq(Token) /\ Len(Tail(toks)) = Len(toks) - 1
  BY <1>1
<1>5. Len(toks) > 2 => Len(SubSeq(toks, 2, Len(toks) - 1)) = Len(toks) - 2
                       /\ SubSeq(toks, 2, Len(toks) - 1) \in Seq(Token)
  BY <1>1
<1>6. k - 1 < Len(toks) /\ Len(toks) - k < Len(toks) /\ Len(toks) - 1 < Len(toks)
       /\ Len(toks) - 2 < Len(toks)
  BY <1>1
<1>. QED BY <1>2, <1>3, <1>4, <1>5, <1>6 DEF Expr

(* The shapes of an expression that has a meaning; each has one.           *)
IsSum(toks)    == Binary(toks) # {}
IsNumber(toks) == Binary(toks) = {} /\ Len(toks) = 1 /\ toks[1].type = "INT"
IsName(toks)   == Binary(toks) = {} /\ Len(toks) = 1 /\ toks[1].type = "SYMB"
IsUnary(toks)  == /\ Binary(toks) = {} /\ Len(toks) > 1
                  /\ toks[1].type = "OP" /\ toks[1].text \in {"-", "~"}
IsParen(toks)  == /\ Binary(toks) = {} /\ Len(toks) > 2
                  /\ toks[1].type = "LPAREN" /\ toks[Len(toks)].type = "RPAREN"

(* The values that an operator makes of the values of its operands.        *)
Combine(op, xs, ys) == {Apply(op, p[1], p[2]) : p \in {q \in xs \X ys : ~Traps(op, q[1], q[2])}}

(* The shapes that an expression can have, and what each one means. *)
LEMMA MeantCases ==
  ASSUME NEW value, NEW den, NEW toks \in Expr
  PROVE  LET k == LastApplied(toks) n == Len(toks) m == Meant(value, den, toks) IN
         /\ IsSum(toks) => m = Combine(toks[k].text, den[SubSeq(toks, 1, k - 1)],
                                       den[SubSeq(toks, k + 1, n)])
         /\ IsNumber(toks) => m = {toks[1].val}
         /\ IsName(toks) => m = {value[toks[1].text]}
         /\ IsUnary(toks) => m = {Unary(toks[1].text, x) : x \in den[Tail(toks)]}
         /\ IsParen(toks) => m = den[SubSeq(toks, 2, n - 1)]
         /\ ~(IsSum(toks) \/ IsNumber(toks) \/ IsName(toks) \/ IsUnary(toks) \/ IsParen(toks))
              => m = {}
<1>. DEFINE k == LastApplied(toks)
            n == Len(toks)
            m == Meant(value, den, toks)
<1>1. n \in Nat
  BY DEF Expr
<1>2. Binary(toks) # {} => n >= 2
  BY <1>1 DEF Binary
<1>3. IsSum(toks) => m = Combine(toks[k].text, den[SubSeq(toks, 1, k - 1)], den[SubSeq(toks, k + 1, n)])
  BY <1>1, <1>2 DEF Meant, Combine, IsSum
<1>4. IsNumber(toks) => m = {toks[1].val}
  BY <1>1 DEF Meant, IsNumber
<1>5. IsName(toks) => m = {value[toks[1].text]}
  BY <1>1 DEF Meant, IsName
<1>6. IsUnary(toks) => m = {Unary(toks[1].text, x) : x \in den[Tail(toks)]}
  BY <1>1 DEF Meant, IsUnary
<1>7. IsParen(toks) => m = den[SubSeq(toks, 2, n - 1)]
  BY <1>1 DEF Meant, IsParen
<1>8. ~(IsSum(toks) \/ IsNumber(toks) \/ IsName(toks) \/ IsUnary(toks) \/ IsParen(toks)) => m = {}
  BY <1>1, <1>2 DEF Meant, IsSum, IsNumber, IsName, IsUnary, IsParen
<1>. HIDE DEF k, n, m
<1>. QED BY <1>3, <1>4, <1>5, <1>6, <1>7, <1>8 DEF k, n, m

(* Only what is shorter matters. *)
LEMMA MeantLocal ==
  ASSUME NEW value, NEW f, NEW g, NEW toks \in Expr,
         \A s \in Expr : Len(s) < Len(toks) => f[s] = g[s]
  PROVE  Meant(value, f, toks) = Meant(value, g, toks)
<1>. DEFINE k == LastApplied(toks)
            n == Len(toks)
<1>1. n \in Nat
  BY DEF Expr
<1>2. CASE IsSum(toks)
  <2>1. k \in 1 .. n
    BY <1>1, <1>2, LastExists DEF IsLast, IsSum
  <2>2. f[SubSeq(toks, 1, k - 1)] = g[SubSeq(toks, 1, k - 1)]
        /\ f[SubSeq(toks, k + 1, n)] = g[SubSeq(toks, k + 1, n)]
    BY <2>1, Shorter
  <2>. QED BY <1>2, <2>2, MeantCases
<1>3. CASE IsUnary(toks)
  <2>1. 1 \in 1 .. n
    BY <1>1, <1>3 DEF IsUnary
  <2>2. f[Tail(toks)] = g[Tail(toks)]
    BY <2>1, Shorter
  <2>3. Meant(value, f, toks) = {Unary(toks[1].text, x) : x \in f[Tail(toks)]}
    BY <1>3, MeantCases
  <2>4. Meant(value, g, toks) = {Unary(toks[1].text, x) : x \in g[Tail(toks)]}
    BY <1>3, MeantCases
  <2>. QED BY <2>2, <2>3, <2>4
<1>4. CASE IsParen(toks)
  <2>1. 1 \in 1 .. n /\ n > 2
    BY <1>1, <1>4 DEF IsParen
  <2>2. f[SubSeq(toks, 2, n - 1)] = g[SubSeq(toks, 2, n - 1)]
    BY <2>1, Shorter
  <2>. QED BY <1>4, <2>2, MeantCases
<1>5. CASE IsNumber(toks)
  <2>1. Meant(value, f, toks) = {toks[1].val}
    BY <1>5, MeantCases
  <2>2. Meant(value, g, toks) = {toks[1].val}
    BY <1>5, MeantCases
  <2>. QED BY <2>1, <2>2
<1>6. CASE IsName(toks)
  <2>1. Meant(value, f, toks) = {value[toks[1].text]}
    BY <1>6, MeantCases
  <2>2. Meant(value, g, toks) = {value[toks[1].text]}
    BY <1>6, MeantCases
  <2>. QED BY <2>1, <2>2
<1>7. CASE ~(IsSum(toks) \/ IsUnary(toks) \/ IsParen(toks) \/ IsNumber(toks) \/ IsName(toks))
  <2>1. Meant(value, f, toks) = {}
    BY <1>7, MeantCases
  <2>2. Meant(value, g, toks) = {}
    BY <1>7, MeantCases
  <2>. QED BY <2>1, <2>2
<1>. QED BY <1>2, <1>3, <1>4, <1>5, <1>6, <1>7

(* The meanings of an expression are words. *)
LEMMA CombineType ==
  ASSUME NEW op \in Operators, NEW xs \in SUBSET Word, NEW ys \in SUBSET Word
  PROVE  Combine(op, xs, ys) \in SUBSET Word
<1>1. ASSUME NEW p \in xs \X ys, ~Traps(op, p[1], p[2]) PROVE Apply(op, p[1], p[2]) \in Word
  <2>1. p[1] \in Word /\ p[2] \in Word
    OBVIOUS
  <2>. QED BY <1>1, <2>1, ApplyType
<1>. QED BY <1>1 DEF Combine

(* An expression means words. *)
LEMMA MeantType ==
  ASSUME NEW value \in Valuation, NEW den \in Meanings, NEW toks \in Expr
  PROVE  Meant(value, den, toks) \in SUBSET Word
<1>. DEFINE k == LastApplied(toks)
            n == Len(toks)
<1>1. n \in Nat /\ toks \in Seq(Token)
  BY DEF Expr
<1>2. CASE IsSum(toks)
  <2>1. k \in 1 .. n /\ toks[k].text \in Operators
    BY <1>1, <1>2, LastExists DEF IsLast, IsSum
  <2>2. den[SubSeq(toks, 1, k - 1)] \in SUBSET Word /\ den[SubSeq(toks, k + 1, n)] \in SUBSET Word
    BY <2>1, Shorter DEF Meanings
  <2>. QED BY <1>2, <2>1, <2>2, MeantCases, CombineType
<1>3. CASE IsUnary(toks)
  <2>1. 1 \in 1 .. n
    BY <1>1, <1>3 DEF IsUnary
  <2>2. den[Tail(toks)] \in SUBSET Word
    BY <2>1, Shorter DEF Meanings
  <2>3. {Unary(toks[1].text, x) : x \in den[Tail(toks)]} \in SUBSET Word
    BY <2>2, UnaryType
  <2>. QED BY <1>3, <2>3, MeantCases
<1>4. CASE IsParen(toks)
  <2>1. 1 \in 1 .. n /\ n > 2
    BY <1>1, <1>4 DEF IsParen
  <2>2. den[SubSeq(toks, 2, n - 1)] \in SUBSET Word
    BY <2>1, Shorter DEF Meanings
  <2>. QED BY <1>4, <2>2, MeantCases
<1>5. CASE IsNumber(toks)
  <2>1. toks[1] \in Token
    BY <1>1, <1>5 DEF IsNumber
  <2>0. 0 \in Word
    BY Words
  <2>2. toks[1].val \in Word
    BY <2>0, <2>1 DEF Token
  <2>. QED BY <1>5, <2>2, MeantCases
<1>6. CASE IsName(toks)
  <2>1. toks[1] \in Token /\ toks[1].type = "SYMB"
    BY <1>1, <1>6 DEF IsName
  <2>2. toks[1].text \in Names \cup {LP}
    BY <2>1 DEF Token
  <2>3. value[toks[1].text] \in Word
    BY <2>2 DEF Valuation
  <2>. QED BY <1>6, <2>3, MeantCases
<1>7. CASE ~(IsSum(toks) \/ IsUnary(toks) \/ IsParen(toks) \/ IsNumber(toks) \/ IsName(toks))
  BY <1>7, MeantCases
<1>. QED BY <1>2, <1>3, <1>4, <1>5, <1>6, <1>7

(* The recursion that defines Denotes has a solution.                      *)
LEMMA DenotesDefined ==
  ASSUME NEW value \in Valuation
  PROVE  /\ Denotes(value) \in Meanings
         /\ \A toks \in Expr : Denotes(value)[toks] = Meant(value, Denotes(value), toks)
<1>. DEFINE step == [g \in Meanings |-> [toks \in Expr |-> Meant(value, g, toks)]]
            none == [toks \in Expr |-> {}]
<1>1. step \in [Meanings -> Meanings] /\ none \in Meanings
  <2>1. \A g \in Meanings : [toks \in Expr |-> Meant(value, g, toks)] \in Meanings
    BY MeantType DEF Meanings
  <2>2. none \in Meanings
    BY DEF Meanings
  <2>. QED BY <2>1, <2>2 
<1>2. PICK h \in [Nat -> Meanings] :
             h[0] = none /\ \A n \in Nat \ {0} : h[n] = step[h[n - 1]]
  <2>. HIDE DEF step, none
  <2>. QED BY <1>1, IterationExists
<1>3. ASSUME NEW n \in Nat, NEW toks \in Expr
      PROVE  h[n + 1][toks] = Meant(value, h[n], toks)
  <2>1. h[n + 1] = step[h[n]] /\ h[n] \in Meanings
    BY <1>2
  <2>2. \A g \in Meanings : step[g][toks] = Meant(value, g, toks)
    OBVIOUS
  <2>. HIDE DEF step
  <2>. QED BY <2>1, <2>2
<1>4. \A n \in Nat : \A s \in Expr : Len(s) < n => h[n][s] = h[n + 1][s]
  <2>. DEFINE T == {n \in Nat : \A s \in Expr : Len(s) < n => h[n][s] = h[n + 1][s]}
  <2>1. 0 \in T
    BY DEF Expr
  <2>2. ASSUME NEW n \in Nat, n \in T PROVE n + 1 \in T
    <3>1. ASSUME NEW s \in Expr, Len(s) < n + 1 PROVE h[n + 1][s] = h[(n + 1) + 1][s]
      <4>1. Len(s) \in Nat /\ n + 1 \in Nat
        BY DEF Expr
      <4>2. \A t \in Expr : Len(t) < Len(s) => h[n][t] = h[n + 1][t]
        <5>. TAKE t \in Expr
        <5>1. Len(t) \in Nat
          BY DEF Expr
        <5>. QED BY <2>2, <3>1, <4>1, <5>1
      <4>3. Meant(value, h[n], s) = Meant(value, h[n + 1], s)
        BY <4>2, MeantLocal
      <4>4. h[(n + 1) + 1][s] = Meant(value, h[n + 1], s)
        BY <1>3, <4>1
      <4>. QED BY <1>3, <4>3, <4>4
    <3>. QED BY <3>1
  <2>3. Nat \subseteq T
    <3>. HIDE DEF T
    <3>. QED BY <2>1, <2>2, Induction
  <2>. QED BY <2>3
<1>5. ASSUME NEW s \in Expr, NEW m \in Nat
      PROVE  h[Len(s) + 1][s] = h[Len(s) + 1 + m][s]
  <2>0. Len(s) \in Nat
    BY DEF Expr
  <2>. DEFINE T == {n \in Nat : h[Len(s) + 1][s] = h[Len(s) + 1 + n][s]}
  <2>1. 0 \in T
    BY <2>0
  <2>2. ASSUME NEW n \in Nat, n \in T PROVE n + 1 \in T
    <3>1. Len(s) + 1 + n \in Nat /\ Len(s) < Len(s) + 1 + n /\ (Len(s) + 1 + n) + 1 = Len(s) + 1 + (n + 1)
      BY <2>0
    <3>2. h[Len(s) + 1 + n][s] = h[(Len(s) + 1 + n) + 1][s]
      BY <1>4, <3>1
    <3>. QED BY <2>2, <3>1, <3>2
  <2>3. Nat \subseteq T
    <3>. HIDE DEF T
    <3>. QED BY <2>1, <2>2, Induction
  <2>. QED BY <2>3
<1>. DEFINE d == [s \in Expr |-> h[Len(s) + 1][s]]
<1>6. ASSUME NEW toks \in Expr PROVE d[toks] = Meant(value, d, toks)
  <2>1. Len(toks) \in Nat
    BY DEF Expr
  <2>2. d[toks] = Meant(value, h[Len(toks)], toks)
    BY <1>3, <2>1
  <2>3. \A s \in Expr : Len(s) < Len(toks) => h[Len(toks)][s] = d[s]
    <3>. SUFFICES ASSUME NEW s \in Expr, Len(s) < Len(toks) PROVE h[Len(toks)][s] = h[Len(s) + 1][s]
      OBVIOUS
    <3>1. Len(s) \in Nat
      BY DEF Expr
    <3>. DEFINE m == Len(toks) - (Len(s) + 1)
    <3>2. m \in Nat /\ Len(s) + 1 + m = Len(toks)
      BY <2>1, <3>1
    <3>. HIDE DEF m
    <3>. QED BY <1>5, <3>2
  <2>. HIDE DEF d
  <2>. QED BY <2>2, <2>3, MeantLocal
<1>7. d \in Meanings
  <2>1. \A s \in Expr : h[Len(s) + 1] \in Meanings
    BY <1>2 DEF Expr
  <2>2. \A s \in Expr : h[Len(s) + 1][s] \in SUBSET Word
    BY <2>1 DEF Meanings
  <2>. QED BY <2>2 DEF Meanings
<1>8. d = [toks \in Expr |-> Meant(value, d, toks)]
  <2>1. d = [s \in Expr |-> d[s]]
    OBVIOUS
  <2>. HIDE DEF d
  <2>. QED BY <1>6, <2>1
<1>. HIDE DEF d
<1>9. Denotes(value) = [toks \in Expr |-> Meant(value, Denotes(value), toks)]
  BY <1>8, DenotesUnfolded, Zenon
<1>. DEFINE e == Denotes(value)
<1>. HIDE DEF e
<1>10. e = [toks \in Expr |-> Meant(value, e, toks)]
  BY <1>9 DEF e
<1>11. \A toks \in Expr : e[toks] = Meant(value, e, toks)
  BY <1>10
<1>12. \A n \in Nat : \A s \in Expr : Len(s) < n => e[s] = d[s]
  <2>. DEFINE T == {n \in Nat : \A s \in Expr : Len(s) < n => e[s] = d[s]}
  <2>1. 0 \in T
    BY DEF Expr
  <2>2. ASSUME NEW n \in Nat, n \in T PROVE n + 1 \in T
    <3>1. ASSUME NEW s \in Expr, Len(s) < n + 1 PROVE e[s] = d[s]
      <4>2. \A t \in Expr : Len(t) < Len(s) => e[t] = d[t]
        <5>. TAKE t \in Expr
        <5>1. Len(t) \in Nat /\ Len(s) \in Nat
          BY DEF Expr
        <5>. QED BY <2>2, <3>1, <5>1
      <4>3. Meant(value, e, s) = Meant(value, d, s)
        BY <4>2, MeantLocal
      <4>. QED BY <1>6, <1>11, <4>3
    <3>. QED BY <3>1
  <2>3. Nat \subseteq T
    <3>. HIDE DEF T
    <3>. QED BY <2>1, <2>2, Induction
  <2>. QED BY <2>3
<1>13. \A s \in Expr : e[s] \in SUBSET Word
  <2>. TAKE s \in Expr
  <2>1. Len(s) \in Nat /\ Len(s) < Len(s) + 1
    BY DEF Expr
  <2>2. e[s] = d[s]
    BY <1>12, <2>1
  <2>. QED BY <1>7, <2>2 DEF Meanings
<1>14. e \in Meanings
  <2>1. e = [s \in Expr |-> e[s]]
    BY <1>10
  <2>. QED BY <1>13, <2>1 DEF Meanings
<1>. QED BY <1>11, <1>14 DEF e

(* Induction on the length of an expression. *)
LEMMA LengthInduction ==
  ASSUME NEW T,
         \A toks \in Expr : (\A s \in Expr : Len(s) < Len(toks) => s \in T) => toks \in T
  PROVE  Expr \subseteq T
<1>. DEFINE U == {n \in Nat : \A s \in Expr : Len(s) < n => s \in T}
<1>1. 0 \in U
  BY DEF Expr
<1>2. ASSUME NEW n \in Nat, n \in U PROVE n + 1 \in U
  <2>1. ASSUME NEW s \in Expr, Len(s) < n + 1 PROVE s \in T
    <3>1. \A t \in Expr : Len(t) < Len(s) => t \in T
      <4>. TAKE t \in Expr
      <4>1. Len(t) \in Nat /\ Len(s) \in Nat
        BY DEF Expr
      <4>. QED BY <1>2, <2>1, <4>1
    <3>. QED BY <3>1
  <2>. QED BY <2>1
<1>3. Nat \subseteq U
  <2>. HIDE DEF U
  <2>. QED BY <1>1, <1>2, Induction
<1>4. ASSUME NEW s \in Expr PROVE s \in T
  <2>1. Len(s) \in Nat /\ Len(s) + 1 \in Nat /\ Len(s) < Len(s) + 1
    BY DEF Expr
  <2>2. Len(s) + 1 \in U
    BY <1>3, <2>1
  <2>. QED BY <2>1, <2>2
<1>. QED BY <1>4

(* An expression has one value at most. *)
LEMMA OneValue ==
  ASSUME NEW value \in Valuation, NEW toks \in Expr,
         NEW x \in Denotes(value)[toks], NEW y \in Denotes(value)[toks]
  PROVE  x = y
<1>. DEFINE d == Denotes(value)
            One(S) == \A u \in S, v \in S : u = v
            T == {s \in Expr : One(d[s])}
<1>. HIDE DEF d
<1>1. ASSUME NEW s \in Expr, \A t \in Expr : Len(t) < Len(s) => t \in T PROVE s \in T
  <2>. DEFINE k == LastApplied(s)
              n == Len(s)
  <2>1. n \in Nat
    BY DEF Expr
  <2>2. d[s] = Meant(value, d, s)
    BY DenotesDefined DEF d
  <2>3. CASE IsSum(s)
    <3>1. k \in 1 .. n
      BY <2>1, <2>3, LastExists DEF IsLast, IsSum
    <3>. DEFINE xs == d[SubSeq(s, 1, k - 1)]
                ys == d[SubSeq(s, k + 1, n)]
    <3>2. One(xs) /\ One(ys)
      BY <1>1, <3>1, Shorter
    <3>3. d[s] = Combine(s[k].text, xs, ys)
      BY <2>2, <2>3, MeantCases
    <3>. HIDE DEF xs, ys
    <3>4. \A p \in xs \X ys, q \in xs \X ys : p = q
      BY <3>2
    <3>5. One(Combine(s[k].text, xs, ys))
      BY <3>4 DEF Combine
    <3>. QED BY <3>3, <3>5
  <2>4. CASE IsUnary(s)
    <3>1. One(d[Tail(s)])
      <4>1. 1 \in 1 .. n
        BY <2>1, <2>4 DEF IsUnary
      <4>. QED BY <1>1, <4>1, Shorter
    <3>2. d[s] = {Unary(s[1].text, u) : u \in d[Tail(s)]}
      BY <2>2, <2>4, MeantCases
    <3>. QED BY <3>1, <3>2
  <2>5. CASE IsParen(s)
    <3>1. One(d[SubSeq(s, 2, n - 1)])
      <4>1. 1 \in 1 .. n /\ n > 2
        BY <2>1, <2>5 DEF IsParen
      <4>. QED BY <1>1, <4>1, Shorter
    <3>2. d[s] = d[SubSeq(s, 2, n - 1)]
      BY <2>2, <2>5, MeantCases
    <3>. QED BY <3>1, <3>2
  <2>6. CASE IsNumber(s)
    <3>1. d[s] = {s[1].val}
      BY <2>2, <2>6, MeantCases
    <3>. QED BY <3>1
  <2>7. CASE IsName(s)
    <3>1. d[s] = {value[s[1].text]}
      BY <2>2, <2>7, MeantCases
    <3>. QED BY <3>1
  <2>8. CASE ~(IsSum(s) \/ IsUnary(s) \/ IsParen(s) \/ IsNumber(s) \/ IsName(s))
    <3>1. d[s] = {}
      BY <2>2, <2>8, MeantCases
    <3>. QED BY <3>1
  <2>. QED BY <2>3, <2>4, <2>5, <2>6, <2>7, <2>8
<1>2. Expr \subseteq T
  <2>. HIDE DEF T
  <2>. QED BY <1>1, LengthInduction
<1>3. One(d[toks])
  BY <1>2
<1>. QED BY <1>3 DEF d

(* The meaning of each shape. *)
LEMMA Meanings5 ==
  ASSUME NEW value \in Valuation, NEW s \in Expr
  PROVE  LET k == LastApplied(s) n == Len(s) d == Denotes(value) IN
         /\ IsSum(s) => d[s] = Combine(s[k].text, d[SubSeq(s, 1, k - 1)], d[SubSeq(s, k + 1, n)])
         /\ IsNumber(s) => d[s] = {s[1].val}
         /\ IsName(s) => d[s] = {value[s[1].text]}
         /\ IsUnary(s) => d[s] = {Unary(s[1].text, x) : x \in d[Tail(s)]}
         /\ IsParen(s) => d[s] = d[SubSeq(s, 2, n - 1)]
         /\ ~(IsSum(s) \/ IsNumber(s) \/ IsName(s) \/ IsUnary(s) \/ IsParen(s)) => d[s] = {}
<1>1. Denotes(value)[s] = Meant(value, Denotes(value), s)
  BY DenotesDefined
<1>. DEFINE d == Denotes(value)
<1>. HIDE DEF d
<1>2. d[s] = Meant(value, d, s)
  BY <1>1 DEF d
<1>. QED BY <1>2, MeantCases DEF d

-----------------------------------------------------------------------------
(* Parts of an expression, by their places in it. *)

Paren(tok) == IF tok.type = "LPAREN" THEN 1 ELSE IF tok.type = "RPAREN" THEN -1 ELSE 0

(* The depth is counted token by token. *)
LEMMA DepthStep ==
  ASSUME NEW toks
  PROVE  /\ DepthAt(toks, 0) = 0
         /\ \A k \in Nat : /\ DepthAt(toks, k) \in Int
                           /\ DepthAt(toks, k + 1) = DepthAt(toks, k) + Paren(toks[k + 1])
<1>. DEFINE S(t, k) == {j \in 1 .. k : toks[j].type = t}
<1>1. ASSUME NEW t, NEW k \in Nat
      PROVE  /\ IsFiniteSet(S(t, k)) /\ Cardinality(S(t, k)) \in Nat
             /\ S(t, k + 1) = IF toks[k + 1].type = t THEN S(t, k) \cup {k + 1} ELSE S(t, k)
             /\ Cardinality(S(t, k + 1)) = Cardinality(S(t, k)) + (IF toks[k + 1].type = t THEN 1 ELSE 0)
  <2>1. IsFiniteSet(1 .. k)
    BY FS_Interval
  <2>2. IsFiniteSet(S(t, k))
    BY <2>1, FS_Subset
  <2>3. Cardinality(S(t, k)) \in Nat
    BY <2>2, FS_CardinalityType
  <2>4. S(t, k + 1) = IF toks[k + 1].type = t THEN S(t, k) \cup {k + 1} ELSE S(t, k)
    OBVIOUS
  <2>5. k + 1 \notin S(t, k)
    OBVIOUS
  <2>. HIDE DEF S
  <2>6. Cardinality(S(t, k) \cup {k + 1}) = Cardinality(S(t, k)) + 1
    BY <2>2, <2>5, FS_AddElement
  <2>. QED BY <2>2, <2>3, <2>4, <2>6
<1>2. \A k : DepthAt(toks, k) = Cardinality(S("LPAREN", k)) - Cardinality(S("RPAREN", k))
  BY DEF DepthAt
<1>3. \A t : S(t, 0) = {}
  OBVIOUS
<1>. HIDE DEF S
<1>4. DepthAt(toks, 0) = 0
  BY <1>2, <1>3, FS_EmptySet
<1>5. ASSUME NEW k \in Nat
      PROVE  DepthAt(toks, k) \in Int /\ DepthAt(toks, k + 1) = DepthAt(toks, k) + Paren(toks[k + 1])
  <2>. DEFINE u == Cardinality(S("LPAREN", k))
              v == Cardinality(S("RPAREN", k))
              u2 == Cardinality(S("LPAREN", k + 1))
              v2 == Cardinality(S("RPAREN", k + 1))
  <2>1. u \in Nat /\ u2 = u + (IF toks[k + 1].type = "LPAREN" THEN 1 ELSE 0)
    BY <1>1
  <2>2. v \in Nat /\ v2 = v + (IF toks[k + 1].type = "RPAREN" THEN 1 ELSE 0)
    BY <1>1
  <2>3. DepthAt(toks, k) = u - v /\ DepthAt(toks, k + 1) = u2 - v2
    BY <1>2
  <2>. HIDE DEF u, v, u2, v2
  <2>. QED BY <2>1, <2>2, <2>3 DEF Paren
<1>. QED BY <1>4, <1>5

(* The tokens from a to b. *)
LEMMA PartIs ==
  ASSUME NEW toks \in Expr, NEW a \in 1 .. Len(toks), NEW b \in a .. Len(toks)
  PROVE  /\ SubSeq(toks, a, b) \in Expr /\ Len(SubSeq(toks, a, b)) = b - a + 1
         /\ \A i \in 1 .. b - a + 1 : SubSeq(toks, a, b)[i] = toks[a + i - 1]
         /\ \A c \in Int, e \in Int : 1 <= c /\ e <= b - a + 1 =>
              SubSeq(SubSeq(toks, a, b), c, e) = SubSeq(toks, a + c - 1, a + e - 1)
         /\ Tail(SubSeq(toks, a, b)) = SubSeq(toks, a + 1, b)
<1>1. toks \in Seq(Token) /\ Len(toks) \in Nat
  BY DEF Expr
<1>. DEFINE s == SubSeq(toks, a, b)
<1>2. s \in Seq(Token) /\ Len(s) = b - a + 1 /\ \A i \in 1 .. b - a + 1 : s[i] = toks[a + i - 1]
  BY <1>1
<1>3. ASSUME NEW c \in Int, NEW e \in Int, 1 <= c, e <= b - a + 1
      PROVE  SubSeq(s, c, e) = SubSeq(toks, a + c - 1, a + e - 1)
  <2>1. SubSeq(s, c, e) = [i \in 1 .. e - c + 1 |-> s[c + i - 1]]
    BY <1>2, <1>3 DEF SubSeq
  <2>2. SubSeq(toks, a + c - 1, a + e - 1)
            = [i \in 1 .. (a + e - 1) - (a + c - 1) + 1 |-> toks[(a + c - 1) + i - 1]]
    BY <1>1, <1>3 DEF SubSeq
  <2>3. (a + e - 1) - (a + c - 1) + 1 = e - c + 1
    OBVIOUS
  <2>4. \A i \in 1 .. e - c + 1 : s[c + i - 1] = toks[(a + c - 1) + i - 1]
    <3>. TAKE i \in 1 .. e - c + 1
    <3>1. c + i - 1 \in 1 .. b - a + 1 /\ a + (c + i - 1) - 1 = (a + c - 1) + i - 1
      BY <1>3
    <3>. QED BY <1>2, <3>1
  <2>. HIDE DEF s
  <2>. QED BY <2>1, <2>2, <2>3, <2>4
<1>4. Tail(s) = SubSeq(toks, a + 1, b)
  <2>1. Tail(s) = SubSeq(s, 2, Len(s))
    BY <1>2 DEF Tail, SubSeq
  <2>2. SubSeq(s, 2, b - a + 1) = SubSeq(toks, a + 2 - 1, a + (b - a + 1) - 1)
    BY <1>3
  <2>3. a + 2 - 1 = a + 1 /\ a + (b - a + 1) - 1 = b
    OBVIOUS
  <2>. QED BY <1>2, <2>1, <2>2, <2>3
<1>. QED BY <1>2, <1>3, <1>4 DEF Expr

(* The depth in a part is counted from its start. *)
LEMMA DepthShift ==
  ASSUME NEW toks \in Expr, NEW a \in 1 .. Len(toks), NEW b \in a .. Len(toks),
         NEW k \in 0 .. b - a + 1
  PROVE  DepthAt(SubSeq(toks, a, b), k) = DepthAt(toks, a - 1 + k) - DepthAt(toks, a - 1)
<1>. DEFINE s == SubSeq(toks, a, b)
            N == b - a + 1
            T == {i \in 0 .. N : DepthAt(s, i) = DepthAt(toks, a - 1 + i) - DepthAt(toks, a - 1)}
<1>0. Len(toks) \in Nat /\ N \in Nat /\ a - 1 \in Nat
  BY DEF Expr
<1>1. 0 \in T
  <2>1. DepthAt(s, 0) = 0 /\ DepthAt(toks, a - 1) \in Int /\ a - 1 + 0 = a - 1
    BY <1>0, DepthStep
  <2>. QED BY <1>0, <2>1
<1>2. ASSUME NEW i \in 0 .. N - 1, i \in T PROVE i + 1 \in T
  <2>1. i \in Nat /\ i + 1 \in 0 .. N /\ i + 1 \in 1 .. b - a + 1
    BY <1>0
  <2>2. s[i + 1] = toks[a + (i + 1) - 1]
    BY <2>1, PartIs
  <2>3. a + (i + 1) - 1 = (a - 1 + i) + 1 /\ a - 1 + i \in Nat /\ a - 1 + (i + 1) = (a - 1 + i) + 1
    BY <1>0, <2>1
  <2>4. DepthAt(s, i + 1) = DepthAt(s, i) + Paren(s[i + 1])
    BY <2>1, DepthStep
  <2>5. DepthAt(toks, (a - 1 + i) + 1) = DepthAt(toks, a - 1 + i) + Paren(toks[(a - 1 + i) + 1])
    BY <2>3, DepthStep
  <2>6. DepthAt(s, i) = DepthAt(toks, a - 1 + i) - DepthAt(toks, a - 1)
    BY <1>2
  <2>7. DepthAt(toks, a - 1 + i) \in Int /\ DepthAt(toks, a - 1) \in Int
        /\ Paren(toks[(a - 1 + i) + 1]) \in Int
    BY <1>0, <2>3, DepthStep DEF Paren
  <2>. DEFINE p == Paren(toks[(a - 1 + i) + 1])
  <2>8. Paren(s[i + 1]) = p
    BY <2>2, <2>3
  <2>. HIDE DEF s, p
  <2>9. DepthAt(s, i + 1) = DepthAt(toks, a - 1 + (i + 1)) - DepthAt(toks, a - 1)
    BY <2>3, <2>4, <2>5, <2>6, <2>7, <2>8 DEF p
  <2>. QED BY <2>1, <2>9
<1>3. 0 .. N \subseteq T
  <2>. HIDE DEF T, N
  <2>. QED BY <1>0, <1>1, <1>2, BoundedInduction
<1>. QED BY <1>3

(* The operators of a part outside of the parentheses in it, by their      *)
(* places in the whole.                                                    *)
OpsIn(toks, a, b) ==
  {k \in a + 1 .. b :
     /\ toks[k].type = "OP" /\ toks[k].text \in Operators
     /\ toks[k - 1].type \in {"INT", "SYMB", "RPAREN"}
     /\ DepthAt(toks, k) = DepthAt(toks, a - 1)}

(* The binary operators of a part, counted from the whole. *)
LEMMA OpsShift ==
  ASSUME NEW toks \in Expr, NEW a \in 1 .. Len(toks), NEW b \in a .. Len(toks)
  PROVE  \A i \in Int : i \in Binary(SubSeq(toks, a, b)) <=> i + a - 1 \in OpsIn(toks, a, b)
<1>. DEFINE s == SubSeq(toks, a, b)
<1>. TAKE i \in Int
<1>0. Len(toks) \in Nat /\ a - 1 \in Nat
  BY DEF Expr
<1>1. Len(s) = b - a + 1
  BY PartIs
<1>2. i \in 2 .. Len(s) <=> i + a - 1 \in a + 1 .. b
  BY <1>0, <1>1
<1>3. ASSUME i \in 2 .. Len(s)
      PROVE  /\ s[i] = toks[i + a - 1] /\ s[i - 1] = toks[(i + a - 1) - 1]
             /\ DepthAt(s, i) = 0 <=> DepthAt(toks, i + a - 1) = DepthAt(toks, a - 1)
  <2>1. i \in 1 .. b - a + 1 /\ i - 1 \in 1 .. b - a + 1 /\ i \in 0 .. b - a + 1
    BY <1>0, <1>1, <1>3
  <2>2. s[i] = toks[a + i - 1] /\ s[i - 1] = toks[a + (i - 1) - 1]
    BY <2>1, PartIs
  <2>3. a + i - 1 = i + a - 1 /\ a + (i - 1) - 1 = (i + a - 1) - 1 /\ a - 1 + i = i + a - 1
        /\ i + a - 1 \in Nat
    BY <1>0, <2>1
  <2>4. DepthAt(s, i) = DepthAt(toks, a - 1 + i) - DepthAt(toks, a - 1)
    BY <2>1, DepthShift
  <2>5. DepthAt(toks, i + a - 1) \in Int /\ DepthAt(toks, a - 1) \in Int
    BY <1>0, <2>3, DepthStep
  <2>. HIDE DEF s
  <2>. QED BY <2>2, <2>3, <2>4, <2>5
<1>4. i \in Binary(s) <=> /\ i \in 2 .. Len(s)
                         /\ s[i].type = "OP" /\ s[i].text \in Operators
                         /\ s[i - 1].type \in {"INT", "SYMB", "RPAREN"}
                         /\ DepthAt(s, i) = 0
  BY DEF Binary
<1>. HIDE DEF s
<1>5. i \in Binary(s) <=> i + a - 1 \in OpsIn(toks, a, b)
  BY <1>2, <1>3, <1>4 DEF OpsIn
<1>. QED BY <1>5 DEF s

(* The values of a part. *)
ValueOf(value, toks, a, b) == Denotes(value)[SubSeq(toks, a, b)]

(* An empty part means nothing. *)
LEMMA NothingMeant ==
  ASSUME NEW value \in Valuation, NEW toks \in Expr, NEW a \in Int, NEW b \in Int, b < a
  PROVE  ValueOf(value, toks, a, b) = {}
<1>1. SubSeq(toks, a, b) = << >>
  BY DEF SubSeq
<1>2. << >> \in Expr /\ Len(<< >>) = 0
  BY DEF Expr
<1>3. Denotes(value)[<< >>] = Meant(value, Denotes(value), << >>)
  BY <1>2, DenotesDefined
<1>4. Binary(<< >>) = {}
  BY DEF Binary
<1>5. Meant(value, Denotes(value), << >>) = {}
  <2>1. ~(IsSum(<< >>) \/ IsNumber(<< >>) \/ IsName(<< >>) \/ IsUnary(<< >>) \/ IsParen(<< >>))
    BY <1>2, <1>4 DEF IsSum, IsNumber, IsName, IsUnary, IsParen
  <2>. QED BY <1>2, <2>1, MeantCases
<1>. QED BY <1>1, <1>3, <1>5 DEF ValueOf

(* The last operator of a part combines what is on its sides.              *)
LEMMA LastOfPart ==
  ASSUME NEW value \in Valuation, NEW toks \in Expr, NEW a \in 1 .. Len(toks), NEW b \in a .. Len(toks),
         OpsIn(toks, a, b) # {}
  PROVE  \E q : /\ IsLast(toks, OpsIn(toks, a, b), q)
                /\ ValueOf(value, toks, a, b) =
                     Combine(toks[q].text, ValueOf(value, toks, a, q - 1), ValueOf(value, toks, q + 1, b))
<1>. DEFINE s == SubSeq(toks, a, b)
            B == Binary(s)
            k == LastApplied(s)
            q == k + a - 1
            O == OpsIn(toks, a, b)
<1>0. Len(toks) \in Nat /\ O \subseteq a + 1 .. b
  BY DEF Expr, OpsIn
<1>1. s \in Expr /\ Len(s) = b - a + 1
  BY PartIs
<1>2. \A i \in Int : i \in B <=> i + a - 1 \in O
  BY OpsShift
<1>3. B # {}
  <2>1. PICK o \in O : TRUE
    OBVIOUS
  <2>2. o \in Int /\ o - a + 1 \in Int /\ (o - a + 1) + a - 1 = o
    BY <1>0, <2>1
  <2>3. (o - a + 1) + a - 1 \in O
    BY <2>1, <2>2
  <2>4. o - a + 1 \in B
    BY <1>2, <2>2, <2>3
  <2>. QED BY <2>4
<1>4. IsLast(s, B, k) /\ B \subseteq 2 .. Len(s)
  BY <1>1, <1>3, LastExists
<1>5. k \in B /\ k \in 2 .. b - a + 1
  BY <1>1, <1>4 DEF IsLast
<1>6. \A i \in 2 .. b - a + 1 : s[i] = toks[i + a - 1]
  <2>. TAKE i \in 2 .. b - a + 1
  <2>1. i \in 1 .. b - a + 1 /\ a + i - 1 = i + a - 1
    OBVIOUS
  <2>. QED BY <2>1, PartIs
<1>7. q \in O
  BY <1>2, <1>5
<1>8. ASSUME NEW j \in O
      PROVE  \/ Level(toks[q].text) < Level(toks[j].text)
             \/ Level(toks[q].text) = Level(toks[j].text) /\ q >= j
  <2>. DEFINE i == j - a + 1
  <2>1. j \in Int /\ i \in Int /\ i + a - 1 = j
    BY <1>0
  <2>2. i \in B
    BY <1>2, <2>1
  <2>3. i \in 2 .. b - a + 1
    BY <1>1, <1>4, <2>2
  <2>4. s[i] = toks[j] /\ s[k] = toks[q]
    BY <1>5, <1>6, <2>1, <2>3
  <2>5. \/ Level(s[k].text) < Level(s[i].text)
        \/ Level(s[k].text) = Level(s[i].text) /\ k >= i
    BY <1>4, <2>2 DEF IsLast
  <2>6. k >= i => q >= j
    BY <1>5, <2>1
  <2>. HIDE DEF i, q, s, k, O, B
  <2>. QED BY <2>4, <2>5, <2>6
<1>9. IsLast(toks, O, q)
  BY <1>7, <1>8 DEF IsLast
<1>10. Denotes(value)[s] = Combine(s[k].text, Denotes(value)[SubSeq(s, 1, k - 1)],
                                  Denotes(value)[SubSeq(s, k + 1, Len(s))])
  <2>1. IsSum(s)
    BY <1>3 DEF IsSum
  <2>. HIDE DEF s
  <2>. QED BY <1>1, <2>1, Meanings5
<1>11. SubSeq(s, 1, k - 1) = SubSeq(toks, a, q - 1) /\ SubSeq(s, k + 1, Len(s)) = SubSeq(toks, q + 1, b)
  <2>1. 1 <= 1 /\ k - 1 <= b - a + 1 /\ 1 <= k + 1 /\ b - a + 1 <= b - a + 1
        /\ k \in Int /\ k - 1 \in Int /\ k + 1 \in Int /\ b - a + 1 \in Int
    BY <1>5
  <2>. HIDE DEF k
  <2>2. SubSeq(s, 1, k - 1) = SubSeq(toks, a + 1 - 1, a + (k - 1) - 1)
    BY <2>1, PartIs
  <2>3. SubSeq(s, k + 1, b - a + 1) = SubSeq(toks, a + (k + 1) - 1, a + (b - a + 1) - 1)
    BY <2>1, PartIs
  <2>4. a + 1 - 1 = a /\ a + (k - 1) - 1 = q - 1 /\ a + (k + 1) - 1 = q + 1 /\ a + (b - a + 1) - 1 = b
    BY <2>1
  <2>. HIDE DEF s, k, q
  <2>. QED BY <1>1, <2>2, <2>3, <2>4
<1>12. s[k] = toks[q]
  BY <1>5, <1>6
<1>13. ValueOf(value, toks, a, b) =
         Combine(toks[q].text, ValueOf(value, toks, a, q - 1), ValueOf(value, toks, q + 1, b))
  <2>. HIDE DEF k, q
  <2>. QED BY <1>10, <1>11, <1>12 DEF ValueOf, s
<1>. HIDE DEF q
<1>. QED BY <1>9, <1>13

(* A part without an operator is an operand, if it has a value.            *)
Operand(value, toks, a, b) ==
  LET v == ValueOf(value, toks, a, b) t == toks[a] IN
  \/ a = b /\ t.type = "INT" /\ v = {t.val}
  \/ a = b /\ t.type = "SYMB" /\ v = {value[t.text]}
  \/ /\ a < b /\ t.type = "OP" /\ t.text \in {"-", "~"}
     /\ OpsIn(toks, a + 1, b) = {}
     /\ v = {Unary(t.text, x) : x \in ValueOf(value, toks, a + 1, b)}
  \/ /\ a + 1 < b /\ t.type = "LPAREN" /\ toks[b].type = "RPAREN"
     /\ v = ValueOf(value, toks, a + 1, b - 1)

(* A part that means something and has no binary operator is an operand. *)
LEMMA OperandPart ==
  ASSUME NEW value \in Valuation, NEW toks \in Expr, NEW a \in 1 .. Len(toks), NEW b \in a .. Len(toks),
         OpsIn(toks, a, b) = {}, ValueOf(value, toks, a, b) # {}
  PROVE  Operand(value, toks, a, b)
<1>. DEFINE s == SubSeq(toks, a, b)
            d == Denotes(value)
            v == ValueOf(value, toks, a, b)
<1>0. Len(toks) \in Nat
  BY DEF Expr
<1>1. s \in Expr /\ Len(s) = b - a + 1 /\ Tail(s) = SubSeq(toks, a + 1, b)
  BY PartIs
<1>2. \A i \in 1 .. b - a + 1 : s[i] = toks[a + i - 1]
  BY PartIs
<1>3. Binary(s) = {}
  <2>1. \A i \in Binary(s) : i \in Int
    BY DEF Binary
  <2>2. \A i \in Int : i \in Binary(s) <=> i + a - 1 \in OpsIn(toks, a, b)
    BY OpsShift
  <2>. QED BY <2>1, <2>2
<1>4. s[1] = toks[a] /\ s[Len(s)] = toks[b]
  <2>1. 1 \in 1 .. b - a + 1 /\ b - a + 1 \in 1 .. b - a + 1 /\ a + 1 - 1 = a /\ a + (b - a + 1) - 1 = b
    BY <1>0
  <2>. QED BY <1>1, <1>2, <2>1
<1>5. v = d[s]
  BY DEF ValueOf
<1>6. CASE IsNumber(s)
  <2>1. d[s] = {s[1].val}
    BY <1>1, <1>6, Meanings5
  <2>2. a = b /\ toks[a].type = "INT"
    BY <1>0, <1>1, <1>4, <1>6 DEF IsNumber
  <2>. QED BY <1>4, <1>5, <2>1, <2>2 DEF Operand
<1>7. CASE IsName(s)
  <2>1. d[s] = {value[s[1].text]}
    BY <1>1, <1>7, Meanings5
  <2>2. a = b /\ toks[a].type = "SYMB"
    BY <1>0, <1>1, <1>4, <1>7 DEF IsName
  <2>. QED BY <1>4, <1>5, <2>1, <2>2 DEF Operand
<1>8. CASE IsUnary(s)
  <2>1. d[s] = {Unary(s[1].text, x) : x \in d[Tail(s)]}
    BY <1>1, <1>8, Meanings5
  <2>2. a < b /\ toks[a].type = "OP" /\ toks[a].text \in {"-", "~"}
    BY <1>0, <1>1, <1>4, <1>8 DEF IsUnary
  <2>3. d[Tail(s)] = ValueOf(value, toks, a + 1, b)
    BY <1>1 DEF ValueOf
  <2>4. OpsIn(toks, a + 1, b) = {}
    <3>1. DepthAt(toks, a) = DepthAt(toks, a - 1)
      <4>1. a - 1 \in Nat /\ (a - 1) + 1 = a
        BY <1>0
      <4>2. DepthAt(toks, a) = DepthAt(toks, a - 1) + Paren(toks[a]) /\ DepthAt(toks, a - 1) \in Int
        BY <4>1, DepthStep
      <4>3. Paren(toks[a]) = 0
        BY <2>2 DEF Paren
      <4>. QED BY <4>2, <4>3
    <3>2. OpsIn(toks, a + 1, b) \subseteq OpsIn(toks, a, b)
      <4>1. (a + 1) - 1 = a /\ \A k \in (a + 1) + 1 .. b : k \in a + 1 .. b
        BY <1>0
      <4>. QED BY <3>1, <4>1 DEF OpsIn
    <3>. QED BY <3>2
  <2>. HIDE DEF s, d
  <2>5. v = {Unary(toks[a].text, x) : x \in ValueOf(value, toks, a + 1, b)}
    BY <1>4, <1>5, <2>1, <2>3
  <2>. QED BY <2>2, <2>4, <2>5 DEF Operand
<1>9. CASE IsParen(s)
  <2>1. d[s] = d[SubSeq(s, 2, Len(s) - 1)]
    BY <1>1, <1>9, Meanings5
  <2>2. a + 1 < b /\ toks[a].type = "LPAREN" /\ toks[b].type = "RPAREN"
    BY <1>0, <1>1, <1>4, <1>9 DEF IsParen
  <2>3. SubSeq(s, 2, Len(s) - 1) = SubSeq(toks, a + 1, b - 1)
    <3>1. 2 \in Int /\ b - a \in Int /\ 1 <= 2 /\ b - a <= b - a + 1
      BY <1>0
    <3>2. SubSeq(s, 2, b - a) = SubSeq(toks, a + 2 - 1, a + (b - a) - 1)
      BY <3>1, PartIs
    <3>3. Len(s) - 1 = b - a /\ a + 2 - 1 = a + 1 /\ a + (b - a) - 1 = b - 1
      BY <1>0, <1>1
    <3>. HIDE DEF s
    <3>. QED BY <3>2, <3>3
  <2>4. v = ValueOf(value, toks, a + 1, b - 1)
    BY <1>5, <2>1, <2>3 DEF ValueOf
  <2>. QED BY <2>2, <2>4 DEF Operand
<1>10. CASE ~(IsNumber(s) \/ IsName(s) \/ IsUnary(s) \/ IsParen(s))
  <2>1. ~IsSum(s)
    BY <1>3 DEF IsSum
  <2>2. d[s] = {}
    BY <1>1, <1>10, <2>1, Meanings5
  <2>. QED BY <1>5, <2>2
<1>. QED BY <1>6, <1>7, <1>8, <1>9, <1>10

(* The operators of the parts in front of an operator and behind it.       *)
LEMMA OpsOfParts ==
  ASSUME NEW toks \in Expr, NEW a \in 1 .. Len(toks), NEW b \in a .. Len(toks)
  PROVE  /\ OpsIn(toks, a, b) \subseteq a + 1 .. b
         /\ \A k \in OpsIn(toks, a, b) : toks[k].type = "OP" /\ toks[k].text \in Operators
                                     /\ precedence(toks[k].text) \in 1 .. 6
         /\ \A e \in a .. b : OpsIn(toks, a, e) = {k \in OpsIn(toks, a, b) : k <= e}
         /\ \A q \in OpsIn(toks, a, b) : OpsIn(toks, q + 1, b) = {k \in OpsIn(toks, a, b) : k > q}
<1>0. Len(toks) \in Nat
  BY DEF Expr
<1>1. OpsIn(toks, a, b) \subseteq a + 1 .. b
  BY DEF OpsIn
<1>2. \A k \in OpsIn(toks, a, b) : toks[k].type = "OP" /\ toks[k].text \in Operators
                                     /\ precedence(toks[k].text) \in 1 .. 6
  <2>. TAKE k \in OpsIn(toks, a, b)
  <2>1. toks[k].type = "OP" /\ toks[k].text \in Operators
    BY DEF OpsIn
  <2>. QED BY <2>1, LevelIs
<1>3. ASSUME NEW e \in a .. b PROVE OpsIn(toks, a, e) = {k \in OpsIn(toks, a, b) : k <= e}
  BY <1>0 DEF OpsIn
<1>4. ASSUME NEW q \in OpsIn(toks, a, b) PROVE OpsIn(toks, q + 1, b) = {k \in OpsIn(toks, a, b) : k > q}
  <2>1. q \in a + 1 .. b /\ toks[q].type = "OP" /\ DepthAt(toks, q) = DepthAt(toks, a - 1)
    BY DEF OpsIn
  <2>2. (q + 1) - 1 = q
    BY <1>0, <2>1
  <2>3. ASSUME NEW k \in OpsIn(toks, q + 1, b) PROVE k \in OpsIn(toks, a, b) /\ k > q
    <3>1. k \in (q + 1) + 1 .. b
      BY DEF OpsIn
    <3>2. k \in a + 1 .. b /\ k > q
      BY <1>0, <2>1, <3>1
    <3>. QED BY <2>1, <2>2, <3>2 DEF OpsIn
  <2>4. ASSUME NEW k \in OpsIn(toks, a, b), k > q PROVE k \in OpsIn(toks, q + 1, b)
    <3>1. toks[k - 1].type \in {"INT", "SYMB", "RPAREN"} /\ k \in a + 1 .. b
      BY DEF OpsIn
    <3>2. k - 1 # q
      BY <2>1, <3>1
    <3>3. k \in (q + 1) + 1 .. b
      BY <1>0, <2>1, <2>4, <3>1, <3>2
    <3>. QED BY <2>1, <2>2, <3>3 DEF OpsIn
  <2>. QED BY <2>3, <2>4
<1>. QED BY <1>1, <1>2, <1>3, <1>4

(* The operand on the right of operator k ends at e: all operators in it   *)
(* bind tighter than k, the one behind it does not.                        *)
Prec(toks, k) == precedence(toks[k].text)
RightOf(toks, a, b, k, e) ==
  /\ e \in k .. b
  /\ e = b \/ (e + 1 \in OpsIn(toks, a, b) /\ Prec(toks, e + 1) <= Prec(toks, k))
  /\ \A j \in OpsIn(toks, a, b) : k < j /\ j <= e => Prec(toks, k) < Prec(toks, j)

(* The operator that is applied last, by precedence.                       *)
LEMMA LastBinds ==
  ASSUME NEW toks \in Expr, NEW a \in 1 .. Len(toks), NEW b \in a .. Len(toks),
         NEW q, IsLast(toks, OpsIn(toks, a, b), q)
  PROVE  /\ q \in OpsIn(toks, a, b)
         /\ \A j \in OpsIn(toks, a, b) :
              Prec(toks, q) < Prec(toks, j) \/ (Prec(toks, q) = Prec(toks, j) /\ q >= j)
<1>1. \A j \in OpsIn(toks, a, b) : Level(toks[j].text) = Prec(toks, j)
  BY OpsOfParts, LevelIs DEF Prec
<1>2. q \in OpsIn(toks, a, b)
  BY DEF IsLast
<1>3. Level(toks[q].text) = Prec(toks, q)
  BY <1>1, <1>2
<1>4. ASSUME NEW j \in OpsIn(toks, a, b)
      PROVE  Prec(toks, q) < Prec(toks, j) \/ (Prec(toks, q) = Prec(toks, j) /\ q >= j)
  <2>1. Level(toks[j].text) = Prec(toks, j)
    BY <1>1
  <2>2. \/ Level(toks[q].text) < Level(toks[j].text)
        \/ Level(toks[q].text) = Level(toks[j].text) /\ q >= j
    BY DEF IsLast
  <2>3. \/ Prec(toks, q) < Prec(toks, j)
        \/ Prec(toks, q) = Prec(toks, j) /\ q >= j
    BY <1>3, <2>1, <2>2, Zenon
  <2>. QED BY <2>3
<1>. QED BY <1>2, <1>4

(* If a part has a value, so has the operand on the right of each          *)
(* operator, and all in front of one that does not bind tighter.           *)
PartsHave(value, toks, a, b) ==
  \A k \in OpsIn(toks, a, b) :
    /\ (\A j \in OpsIn(toks, a, b) : j < k => Prec(toks, k) <= Prec(toks, j)) =>
         ValueOf(value, toks, a, k - 1) # {}
    /\ \A e \in k .. b : RightOf(toks, a, b, k, e) => ValueOf(value, toks, k + 1, e) # {}

(* A part means something only if its own parts do. *)
LEMMA PartsHaveValues ==
  ASSUME NEW value \in Valuation, NEW toks \in Expr, NEW a \in 1 .. Len(toks), NEW b \in a .. Len(toks),
         ValueOf(value, toks, a, b) # {}
  PROVE  PartsHave(value, toks, a, b)
<1>. DEFINE V(c, e) == ValueOf(value, toks, c, e)
            T == {n \in Nat : \A c \in 1 .. Len(toks) : \A e \in c .. Len(toks) :
                                e - c < n /\ V(c, e) # {} => PartsHave(value, toks, c, e)}
<1>0. Len(toks) \in Nat
  BY DEF Expr
<1>1. 0 \in T
  BY <1>0
<1>2. ASSUME NEW n \in Nat, n \in T PROVE n + 1 \in T
  <2>. SUFFICES ASSUME NEW c \in 1 .. Len(toks), NEW e \in c .. Len(toks),
                       e - c < n + 1, V(c, e) # {}
                PROVE  PartsHave(value, toks, c, e)
    OBVIOUS
  <2>. DEFINE O == OpsIn(toks, c, e)
              P(k) == Prec(toks, k)
  <2>1. O \subseteq c + 1 .. e /\ \A k \in O : P(k) \in 1 .. 6
    BY OpsOfParts DEF Prec
  <2>2. CASE O = {}
    BY <2>2 DEF PartsHave
  <2>3. CASE O # {}
    <3>1. PICK q : /\ IsLast(toks, O, q)
                   /\ V(c, e) = Combine(toks[q].text, V(c, q - 1), V(q + 1, e))
      BY <2>3, LastOfPart
    <3>2. q \in O /\ \A j \in O : P(q) < P(j) \/ (P(q) = P(j) /\ q >= j)
      BY <3>1, LastBinds
    <3>3. V(c, q - 1) # {} /\ V(q + 1, e) # {}
      BY <3>1 DEF Combine
    <3>4. q \in Int /\ c <= q - 1 /\ q + 1 <= e
      <4>1. q \in c + 1 .. e
        BY <2>1, <3>2
      <4>2. ~(q - 1 < c) /\ ~(e < q + 1)
        BY <1>0, <3>3, <4>1, NothingMeant
      <4>. QED BY <1>0, <4>1, <4>2
    <3>5. PartsHave(value, toks, c, q - 1) /\ PartsHave(value, toks, q + 1, e)
      <4>1. q - 1 \in c .. Len(toks) /\ (q - 1) - c < n
        BY <1>0, <3>4
      <4>2. q + 1 \in 1 .. Len(toks) /\ e \in q + 1 .. Len(toks) /\ e - (q + 1) < n
        BY <1>0, <3>4
      <4>. QED BY <1>2, <3>3, <4>1, <4>2
    <3>6. OpsIn(toks, c, q - 1) = {k \in O : k <= q - 1} /\ OpsIn(toks, q + 1, e) = {k \in O : k > q}
      <4>1. q - 1 \in c .. e
        BY <1>0, <3>4
      <4>. QED BY <3>2, <4>1, OpsOfParts
    <3>7. ASSUME NEW k \in O PROVE k \in Int /\ c + 1 <= k /\ k <= e
      BY <2>1
    <3>8. ASSUME NEW k \in O, k < q
          PROVE  /\ (\A j \in O : j < k => P(k) <= P(j)) => V(c, k - 1) # {}
                 /\ \A f \in k .. e : RightOf(toks, c, e, k, f) => V(k + 1, f) # {}
      <4>1. k \in OpsIn(toks, c, q - 1)
        BY <3>4, <3>6, <3>7, <3>8
      <4>2. ASSUME \A j \in O : j < k => P(k) <= P(j) PROVE V(c, k - 1) # {}
        <5>1. \A j \in OpsIn(toks, c, q - 1) : j < k => P(k) <= P(j)
          BY <3>6, <4>2
        <5>. QED BY <3>5, <4>1, <5>1 DEF PartsHave
      <4>3. ASSUME NEW f \in k .. e, RightOf(toks, c, e, k, f) PROVE V(k + 1, f) # {}
        <5>1. f <= q - 1
          <6>1. SUFFICES ASSUME q <= f PROVE FALSE
            BY <3>4, <3>7
          <6>2. P(k) < P(q)
            BY <3>2, <3>8, <4>3, <6>1 DEF RightOf
          <6>3. P(q) <= P(k) /\ P(q) \in Int /\ P(k) \in Int
            BY <2>1, <3>2
          <6>. QED BY <6>2, <6>3
        <5>2. f = q - 1 \/ (f + 1 \in OpsIn(toks, c, q - 1) /\ P(f + 1) <= P(k))
          <6>1. SUFFICES ASSUME f # q - 1 PROVE f + 1 \in OpsIn(toks, c, q - 1) /\ P(f + 1) <= P(k)
            OBVIOUS
          <6>2. f # e /\ f + 1 <= q - 1
            BY <3>4, <3>7, <5>1, <6>1
          <6>. QED BY <3>6, <4>3, <6>2 DEF RightOf
        <5>3. RightOf(toks, c, q - 1, k, f) /\ f \in k .. q - 1
          <6>1. f \in k .. q - 1
            BY <3>4, <3>7, <5>1
          <6>2. \A j \in OpsIn(toks, c, q - 1) : k < j /\ j <= f => P(k) < P(j)
            BY <3>6, <4>3 DEF RightOf
          <6>. QED BY <5>2, <6>1, <6>2 DEF RightOf
        <5>. QED BY <3>5, <4>1, <5>3 DEF PartsHave
      <4>. QED BY <4>2, <4>3
    <3>9. ASSUME NEW k \in O, k = q
          PROVE  /\ (\A j \in O : j < k => P(k) <= P(j)) => V(c, k - 1) # {}
                 /\ \A f \in k .. e : RightOf(toks, c, e, k, f) => V(k + 1, f) # {}
      <4>1. ASSUME NEW f \in k .. e, RightOf(toks, c, e, k, f) PROVE f = e
        <5>1. SUFFICES ASSUME f + 1 \in O, P(f + 1) <= P(k) PROVE FALSE
          BY <4>1 DEF RightOf
        <5>2. P(q) < P(f + 1) \/ (P(q) = P(f + 1) /\ q >= f + 1)
          BY <3>2, <5>1
        <5>3. P(q) \in Int /\ P(f + 1) \in Int /\ ~(q >= f + 1)
          BY <2>1, <3>2, <3>4, <3>9, <5>1
        <5>. QED BY <3>9, <5>1, <5>2, <5>3
      <4>. QED BY <3>3, <3>9, <4>1
    <3>10. ASSUME NEW k \in O, k > q
           PROVE  /\ (\A j \in O : j < k => P(k) <= P(j)) => V(c, k - 1) # {}
                  /\ \A f \in k .. e : RightOf(toks, c, e, k, f) => V(k + 1, f) # {}
      <4>1. k \in OpsIn(toks, q + 1, e)
        BY <3>6, <3>10
      <4>2. ~(\A j \in O : j < k => P(k) <= P(j))
        <5>1. P(q) < P(k) \/ (P(q) = P(k) /\ q >= k)
          BY <3>2
        <5>2. P(q) \in Int /\ P(k) \in Int /\ k \in Int /\ ~(q >= k)
          BY <2>1, <3>2, <3>4, <3>7, <3>10
        <5>3. ~(P(k) <= P(q))
          BY <5>1, <5>2
        <5>. QED BY <3>2, <3>4, <3>10, <5>3
      <4>3. ASSUME NEW f \in k .. e, RightOf(toks, c, e, k, f) PROVE V(k + 1, f) # {}
        <5>1. f = e \/ (f + 1 \in OpsIn(toks, q + 1, e) /\ P(f + 1) <= P(k))
          <6>1. f + 1 > q
            BY <3>4, <3>7, <3>10
          <6>. QED BY <3>6, <4>3, <6>1 DEF RightOf
        <5>2. \A j \in OpsIn(toks, q + 1, e) : k < j /\ j <= f => P(k) < P(j)
          BY <3>6, <4>3 DEF RightOf
        <5>3. RightOf(toks, q + 1, e, k, f)
          BY <5>1, <5>2 DEF RightOf
        <5>. QED BY <3>5, <4>1, <5>3 DEF PartsHave
      <4>. QED BY <4>2, <4>3
    <3>11. \A k \in O : k < q \/ k = q \/ k > q
      BY <3>4, <3>7
    <3>. HIDE DEF O, V
    <3>12. \A k \in O : /\ (\A j \in O : j < k => P(k) <= P(j)) => V(c, k - 1) # {}
                       /\ \A f \in k .. e : RightOf(toks, c, e, k, f) => V(k + 1, f) # {}
      BY <3>8, <3>9, <3>10, <3>11
    <3>. QED BY <3>12 DEF PartsHave, O, V
  <2>. QED BY <2>2, <2>3
<1>3. Nat \subseteq T
  <2>. HIDE DEF T
  <2>. QED BY <1>1, <1>2, Induction
<1>4. b - a + 1 \in T /\ b - a < b - a + 1
  BY <1>0, <1>3
<1>. QED BY <1>4

(* All in front of an operator that binds no tighter, and the operand on   *)
(* its right, are combined by it.                                          *)
LEMMA Combined ==
  ASSUME NEW value \in Valuation, NEW toks \in Expr, NEW a \in 1 .. Len(toks), NEW b \in a .. Len(toks),
         NEW k \in OpsIn(toks, a, b), NEW e \in k .. b, RightOf(toks, a, b, k, e),
         \A j \in OpsIn(toks, a, b) : j < k => Prec(toks, k) <= Prec(toks, j)
  PROVE  ValueOf(value, toks, a, e) =
           Combine(toks[k].text, ValueOf(value, toks, a, k - 1), ValueOf(value, toks, k + 1, e))
<1>. DEFINE O == OpsIn(toks, a, b)
            P(j) == Prec(toks, j)
<1>0. Len(toks) \in Nat
  BY DEF Expr
<1>1. O \subseteq a + 1 .. b /\ \A j \in O : P(j) \in 1 .. 6
  BY OpsOfParts DEF Prec
<1>2. k \in a + 1 .. b /\ e \in a .. b /\ e \in a .. Len(toks)
  BY <1>0, <1>1
<1>3. OpsIn(toks, a, e) = {j \in O : j <= e}
  BY <1>2, OpsOfParts
<1>4. k \in OpsIn(toks, a, e)
  BY <1>2, <1>3
<1>5. PICK q : /\ IsLast(toks, OpsIn(toks, a, e), q)
               /\ ValueOf(value, toks, a, e) =
                    Combine(toks[q].text, ValueOf(value, toks, a, q - 1), ValueOf(value, toks, q + 1, e))
  BY <1>2, <1>4, LastOfPart
<1>6. q \in OpsIn(toks, a, e) /\ (P(q) < P(k) \/ (P(q) = P(k) /\ q >= k))
  BY <1>2, <1>4, <1>5, LastBinds
<1>7. q \in O /\ q <= e /\ q \in Int /\ k \in Int /\ P(q) \in Int /\ P(k) \in Int
  BY <1>1, <1>2, <1>3, <1>6
<1>8. ~(q < k)
  BY <1>6, <1>7
<1>9. ~(q > k)
  BY <1>6, <1>7 DEF RightOf
<1>10. q = k
  BY <1>7, <1>8, <1>9
<1>11. ValueOf(value, toks, a, e) =
         Combine(toks[k].text, ValueOf(value, toks, a, k - 1), ValueOf(value, toks, k + 1, e))
  BY <1>5, <1>10
<1>. QED BY <1>11

(* What the operator gives on a value of all that is in front of it and    *)
(* one of the operand on its right is a value of the two together, if what *)
(* is in front does not bind weaker.                                       *)
LEMMA Grows ==
  ASSUME NEW value \in Valuation, NEW toks \in Expr, NEW a \in 1 .. Len(toks), NEW b \in a .. Len(toks),
         NEW k \in OpsIn(toks, a, b), NEW e \in k .. b, RightOf(toks, a, b, k, e),
         \A j \in OpsIn(toks, a, b) : j < k => Prec(toks, k) <= Prec(toks, j),
         NEW x \in ValueOf(value, toks, a, k - 1), NEW y \in ValueOf(value, toks, k + 1, e),
         ~Traps(toks[k].text, x, y)
  PROVE  Apply(toks[k].text, x, y) \in ValueOf(value, toks, a, e)
<1>1. ValueOf(value, toks, a, e) =
         Combine(toks[k].text, ValueOf(value, toks, a, k - 1), ValueOf(value, toks, k + 1, e))
  BY Combined
<1>2. Apply(toks[k].text, x, y) \in Combine(toks[k].text, ValueOf(value, toks, a, k - 1), ValueOf(value, toks, k + 1, e))
  <2>. DEFINE p == << x, y >>
  <2>1. p \in ValueOf(value, toks, a, k - 1) \X ValueOf(value, toks, k + 1, e) /\ p[1] = x /\ p[2] = y
    OBVIOUS
  <2>. HIDE DEF p
  <2>2. ~Traps(toks[k].text, p[1], p[2]) /\ Apply(toks[k].text, x, y) = Apply(toks[k].text, p[1], p[2])
    BY <2>1
  <2>. QED BY <2>1, <2>2 DEF Combine
<1>. QED BY <1>1, <1>2

(* There is an end of the operand on the right. *)
LEMMA RightExists ==
  ASSUME NEW toks \in Expr, NEW a \in 1 .. Len(toks), NEW b \in a .. Len(toks),
         NEW k \in OpsIn(toks, a, b)
  PROVE  \E e \in k .. b : RightOf(toks, a, b, k, e)
<1>. DEFINE O == OpsIn(toks, a, b)
            W == {j \in O : j > k /\ Prec(toks, j) <= Prec(toks, k)}
<1>0. Len(toks) \in Nat
  BY DEF Expr
<1>1. O \subseteq a + 1 .. b /\ \A j \in O : Prec(toks, j) \in 1 .. 6
  BY OpsOfParts DEF Prec
<1>2. k \in a + 1 .. b
  BY <1>1
<1>3. CASE W = {}
  <2>1. b \in k .. b
    BY <1>0, <1>2
  <2>2. ASSUME NEW j \in O, k < j PROVE Prec(toks, k) < Prec(toks, j)
    <3>1. j \in Int /\ Prec(toks, j) \in Int /\ Prec(toks, k) \in Int
      BY <1>1
    <3>2. ~(j > k /\ Prec(toks, j) <= Prec(toks, k))
      BY <1>3
    <3>. QED BY <1>2, <2>2, <3>1, <3>2
  <2>3. RightOf(toks, a, b, k, b)
    BY <2>1, <2>2 DEF RightOf
  <2>. QED BY <2>1, <2>3
<1>4. CASE W # {}
  <2>1. W \subseteq Nat
    BY <1>0, <1>1
  <2>2. PICK m \in W : \A j \in W : m <= j
    <3>. HIDE DEF W
    <3>. QED BY <1>4, <2>1, LeastElement
  <2>3. m \in O /\ m \in a + 1 .. b /\ m > k /\ Prec(toks, m) <= Prec(toks, k)
    BY <1>1, <2>2
  <2>4. m - 1 \in k .. b /\ (m - 1) + 1 = m
    BY <1>0, <1>2, <2>3
  <2>5. ASSUME NEW j \in O, k < j, j <= m - 1 PROVE Prec(toks, k) < Prec(toks, j)
    <3>1. j \in Int /\ Prec(toks, j) \in Int /\ Prec(toks, k) \in Int
      BY <1>1
    <3>2. j \notin W
      BY <2>2, <2>3, <2>5, <3>1
    <3>3. ~(Prec(toks, j) <= Prec(toks, k))
      BY <1>2, <2>5, <3>1, <3>2
    <3>. QED BY <3>1, <3>3
  <2>6. RightOf(toks, a, b, k, m - 1)
    BY <2>3, <2>4, <2>5 DEF RightOf
  <2>. QED BY <2>4, <2>6
<1>. QED BY <1>3, <1>4

-----------------------------------------------------------------------------
(* The parser finds the value. *)

(* A state of the lexer with a value. *)
Fine(l) == l.ok /\ ~l.trap

(* What cannot be evaluated stays so. *)
Keeps(callee) == \A c \in Calls : Fine(callee[c]) => Fine(c.l)

(* A call has read the tokens from a to b, and has a value of theirs.      *)
Took(value, toks, r, a, b) == Fine(r) => r.pos = b + 1 /\ r.val \in ValueOf(value, toks, a, b)

(* Behind b there is no operator that binds tighter than prec, in front of *)
(* it there are only such.                                                 *)
StopsAt(toks, b, prec) ==
  b < Len(toks) => toks[b + 1].type # "OP" \/ precedence(toks[b + 1].text) <= prec
Above(toks, a, b, prec) == \A j \in OpsIn(toks, a, b) : prec < Prec(toks, j)

(* What each of the three functions does with a part that has a value.     *)
ParseRight(value, toks, l, a, b, r) ==
  l.pos = a /\ OpsIn(toks, a, b) = {} /\ ValueOf(value, toks, a, b) # {} => Took(value, toks, r, a, b)
EvalRight(value, toks, prec, l, a, b, r) ==
  /\ l.pos = a /\ ValueOf(value, toks, a, b) # {}
  /\ Above(toks, a, b, prec) /\ StopsAt(toks, b, prec)
  => Took(value, toks, r, a, b)
LoopRight(value, toks, prec, l, a, b, k, r) ==
  /\ l.pos = k /\ l.val \in ValueOf(value, toks, a, k - 1) /\ ValueOf(value, toks, a, b) # {}
  /\ Above(toks, a, b, prec) /\ StopsAt(toks, b, prec)
  /\ k = b + 1 \/ (k \in OpsIn(toks, a, b) /\ \A j \in OpsIn(toks, a, b) : j < k => Prec(toks, k) <= Prec(toks, j))
  => Took(value, toks, r, a, b)

AllRight(value, toks, g) ==
  \A a \in 1 .. Len(toks) : \A b \in a .. Len(toks) : \A l \in Lexer :
    /\ ParseRight(value, toks, l, a, b, g[To("parse", toks, 0, l)])
    /\ \A prec \in 0 .. 6 :
         /\ EvalRight(value, toks, prec, l, a, b, g[To("_eval", toks, prec, l)])
         /\ \A k \in 1 .. Len(toks) + 1 :
              LoopRight(value, toks, prec, l, a, b, k, g[To("loop", toks, prec, l)])

(* The names of an expression have the values that they are meant to have. *)
Agrees(env, value, toks) ==
  \A i \in 1 .. Len(toks) : toks[i].type = "SYMB" /\ env[toks[i].text].def =>
    ~env[toks[i].text].isExpr /\ env[toks[i].text].value = value[toks[i].text]

(* What the steps of the lexer do to its fields. *)
LEMMA LexerFields ==
  ASSUME NEW l \in Lexer
  PROVE  /\ nextToken(l).pos = l.pos + 1 /\ nextToken(l).val = l.val
         /\ nextToken(l).ok = l.ok /\ nextToken(l).trap = l.trap
         /\ CannotEval(l).ok = FALSE /\ CannotEval(l).trap = l.trap
         /\ l.ok \in BOOLEAN /\ l.trap \in BOOLEAN
         /\ \A v : /\ [l EXCEPT !.val = v].pos = l.pos /\ [l EXCEPT !.val = v].val = v
                  /\ [l EXCEPT !.val = v].ok = l.ok /\ [l EXCEPT !.val = v].trap = l.trap
         /\ \A p : /\ [l EXCEPT !.pos = p].pos = p /\ [l EXCEPT !.pos = p].val = l.val
                  /\ [l EXCEPT !.pos = p].ok = l.ok /\ [l EXCEPT !.pos = p].trap = l.trap
         /\ \A n : /\ [l EXCEPT !.seen = Append(@, n)].pos = l.pos
                  /\ [l EXCEPT !.seen = Append(@, n)].ok = l.ok
                  /\ [l EXCEPT !.seen = Append(@, n)].trap = l.trap
         /\ [l EXCEPT !.trap = TRUE].trap = TRUE
  BY DEF Lexer, nextToken, CannotEval

(* A call keeps what cannot be evaluated, if the calls that it makes do.   *)
LEMMA ParseKeeps ==
  ASSUME NEW env \in [Names \cup {LP} -> Meaning], NEW g \in [Calls -> Lexer], Keeps(g),
         NEW toks \in Expr, NEW l \in Lexer, Fine(parse(env, g, toks, l))
  PROVE  Fine(l)
<1>. DEFINE tok == Curr(toks, l)
            next == nextToken(l)
            saw == [next EXCEPT !.seen = Append(@, tok.text)]
            is == env[tok.text]
            sub == g[To("_eval", toks, 0, next)]
            neg == g[To("parse", toks, 0, next)]
            r == parse(env, g, toks, l)
<1>1. next \in Lexer /\ (Fine(next) => Fine(l))
  BY LexerSteps, LexerFields DEF Fine
<1>2. sub \in Lexer /\ neg \in Lexer /\ (Fine(sub) => Fine(next)) /\ (Fine(neg) => Fine(next))
  <2>1. To("_eval", toks, 0, next) \in Calls /\ To("parse", toks, 0, next) \in Calls
    BY <1>1, ToType
  <2>2. To("_eval", toks, 0, next).l = next /\ To("parse", toks, 0, next).l = next
    BY DEF To
  <2>. HIDE DEF next
  <2>. QED BY <2>1, <2>2 DEF Keeps
<1>3. CASE tok.type = "INT"
  <2>1. r = [next EXCEPT !.val = tok.val]
    BY <1>3 DEF parse
  <2>2. r.ok = next.ok /\ r.trap = next.trap
    <3>. HIDE DEF next, tok, r
    <3>. QED BY <1>1, <2>1, LexerFields
  <2>. HIDE DEF next
  <2>. QED BY <1>1, <2>2 DEF Fine
<1>4. CASE tok.type = "SYMB"
  <2>1. tok.text \in Names \cup {LP}
    BY <1>4, CurrType
  <2>2. saw \in Lexer /\ saw.ok = next.ok /\ saw.trap = next.trap
    <3>. DEFINE name == tok.text
    <3>. HIDE DEF next, name
    <3>1. [next EXCEPT !.seen = Append(@, name)] \in Lexer
      BY <1>1, <2>1, LexerSteps DEF name
    <3>2. [next EXCEPT !.seen = Append(@, name)].ok = next.ok
      BY <1>1, LexerFields
    <3>3. [next EXCEPT !.seen = Append(@, name)].trap = next.trap
      BY <1>1, LexerFields
    <3>4. saw = [next EXCEPT !.seen = Append(@, name)]
      BY DEF name
    <3>. HIDE DEF saw
    <3>. QED BY <3>1, <3>2, <3>3, <3>4
  <2>3. is.expr \in Expr
    BY <2>1 DEF Meaning
  <2>. DEFINE from == [saw EXCEPT !.pos = 1]
              inner == g[To("_eval", is.expr, 0, from)]
  <2>4. from \in Lexer /\ from.ok = saw.ok /\ from.trap = saw.trap
    <3>. HIDE DEF saw
    <3>1. 1 \in Nat \ {0}
      OBVIOUS
    <3>2. from \in Lexer
      BY <2>2, <3>1, LexerSteps
    <3>3. from.ok = saw.ok
      BY <2>2, LexerFields
    <3>4. from.trap = saw.trap
      BY <2>2, LexerFields
    <3>. QED BY <3>2, <3>3, <3>4
  <2>5. inner \in Lexer /\ (Fine(inner) => Fine(from))
    <3>. HIDE DEF from
    <3>1. To("_eval", is.expr, 0, from) \in Calls
      <4>. DEFINE x == is.expr
      <4>. HIDE DEF x
      <4>1. x \in Expr /\ from \in Lexer
        BY <2>3, <2>4 DEF x
      <4>2. To("_eval", x, 0, from) \in Calls
        BY <4>1, ToType
      <4>. QED BY <4>2 DEF x
    <3>2. To("_eval", is.expr, 0, from).l = from
      BY DEF To
    <3>. DEFINE c == To("_eval", is.expr, 0, from)
    <3>. HIDE DEF is, c
    <3>3. g[c] \in Lexer /\ (Fine(g[c]) => Fine(c.l))
      BY <3>1 DEF Keeps, c
    <3>. QED BY <3>2, <3>3 DEF c
  <2>6. r = IF ~is.def THEN CannotEval(saw)
            ELSE IF ~is.isExpr THEN [saw EXCEPT !.val = is.value]
            ELSE [inner EXCEPT !.pos = saw.pos]
    BY <1>4 DEF parse
  <2>. HIDE DEF saw, is, inner, from, next, r
  <2>7. CASE ~is.def
    <3>1. r.ok = FALSE
      BY <2>2, <2>6, <2>7, LexerFields
    <3>. QED BY <3>1 DEF Fine, r
  <2>8. CASE is.def /\ ~is.isExpr
    <3>1. r.ok = saw.ok /\ r.trap = saw.trap
      BY <2>2, <2>6, <2>8, LexerFields
    <3>. QED BY <1>1, <2>2, <3>1 DEF Fine, r
  <2>9. CASE is.def /\ is.isExpr
    <3>1. r.ok = inner.ok /\ r.trap = inner.trap
      BY <2>5, <2>6, <2>9, LexerFields
    <3>. QED BY <1>1, <2>2, <2>4, <2>5, <3>1 DEF Fine, r
  <2>. QED BY <2>7, <2>8, <2>9
<1>5. CASE tok.type = "LPAREN"
  <2>1. r = IF Curr(toks, sub).type = "RPAREN" THEN nextToken(sub) ELSE CannotEval(sub)
    BY <1>5 DEF parse
  <2>. HIDE DEF sub, r, next
  <2>2. Fine(r) => Fine(sub)
    BY <1>2, <2>1, LexerFields DEF Fine
  <2>. QED BY <1>1, <1>2, <2>2 DEF r
<1>6. CASE tok.type = "OP" /\ tok.text \in {"-", "~"}
  <2>1. r = IF neg.ok THEN [neg EXCEPT !.val = Unary(tok.text, neg.val)] ELSE CannotEval(neg)
    BY <1>6 DEF parse
  <2>. HIDE DEF neg, r, next, tok
  <2>. DEFINE v == Unary(tok.text, neg.val)
  <2>. HIDE DEF v
  <2>2. [neg EXCEPT !.val = v].trap = neg.trap /\ CannotEval(neg).ok = FALSE
    <3>1. [neg EXCEPT !.val = v].trap = neg.trap
      BY <1>2, LexerFields
    <3>2. CannotEval(neg).ok = FALSE
      BY <1>2, LexerFields
    <3>. QED BY <3>1, <3>2
  <2>3. r = IF neg.ok THEN [neg EXCEPT !.val = v] ELSE CannotEval(neg)
    BY <2>1 DEF v
  <2>4. Fine(r) => Fine(neg)
    BY <2>2, <2>3 DEF Fine
  <2>. QED BY <1>1, <1>2, <2>4 DEF r
<1>7. CASE ~(tok.type \in {"INT", "SYMB", "LPAREN"}) /\ ~(tok.type = "OP" /\ tok.text \in {"-", "~"})
  <2>1. r = CannotEval(l) \/ r = [CannotEval(l) EXCEPT !.trap = TRUE]
    BY <1>7 DEF parse
  <2>. DEFINE d == CannotEval(l)
  <2>2. d \in Lexer /\ d.ok = FALSE
    BY LexerSteps, LexerFields
  <2>3. [d EXCEPT !.trap = TRUE].trap = TRUE
    <3>. HIDE DEF d
    <3>. QED BY <2>2, LexerFields
  <2>. HIDE DEF d
  <2>4. r = d \/ r = [d EXCEPT !.trap = TRUE]
    BY <2>1 DEF d
  <2>. HIDE DEF r
  <2>5. ~Fine(r)
    BY <2>2, <2>3, <2>4 DEF Fine
  <2>. QED BY <2>5 DEF r
<1>. QED BY <1>3, <1>4, <1>5, <1>6, <1>7

(* An error in front of an operator stays one behind its operand. *)
LEMMA LoopKeeps ==
  ASSUME NEW g \in [Calls -> Lexer], Keeps(g), NEW toks \in Expr, NEW prec \in 0 .. 6,
         NEW l \in Lexer, Fine(loop(g, toks, prec, l))
  PROVE  Fine(l)
<1>. DEFINE tok == Curr(toks, l)
            next == nextToken(l)
            p == OperandPrecedence(tok.text)
            one == g[To("_eval", toks, p, next)]
            sum == IF ~one.ok \/ one.trap THEN one
                   ELSE IF Traps(tok.text, l.val, one.val) THEN [one EXCEPT !.trap = TRUE]
                   ELSE [one EXCEPT !.val = Apply(tok.text, l.val, one.val)]
            r == loop(g, toks, prec, l)
<1>1. CASE l.trap \/ tok.type # "OP" \/ precedence(tok.text) <= prec
  <2>1. r = l
    BY <1>1 DEF loop
  <2>. QED BY <2>1
<1>2. CASE ~(l.trap \/ tok.type # "OP" \/ precedence(tok.text) <= prec)
  <2>1. r = g[To("loop", toks, prec, sum)]
    BY <1>2 DEF loop
  <2>2. next \in Lexer /\ (Fine(next) => Fine(l))
    BY LexerSteps, LexerFields DEF Fine
  <2>0. tok.text \in Operators /\ precedence(tok.text) \in 1 .. 6
    <3>1. precedence(tok.text) \in Int
      BY DEF precedence
    <3>. QED BY <1>2, <3>1, PrecedenceType
  <2>3. p \in 0 .. 6
    BY <2>0 DEF OperandPrecedence
  <2>4. one \in Lexer /\ (Fine(one) => Fine(next))
    <3>. HIDE DEF next, p
    <3>1. To("_eval", toks, p, next) \in Calls
      BY <2>2, <2>3, ToType
    <3>2. To("_eval", toks, p, next).l = next
      BY DEF To
    <3>. QED BY <3>1, <3>2 DEF Keeps
  <2>. DEFINE v == Apply(tok.text, l.val, one.val)
  <2>5. one.ok /\ ~one.trap /\ ~Traps(tok.text, l.val, one.val) => v \in Word
    <3>1. l.val \in Word /\ one.val \in Word
      <4>. HIDE DEF one
      <4>. QED BY <2>4, LexerSteps
    <3>. HIDE DEF one, tok
    <3>. QED BY <2>0, <3>1, ApplyType
  <2>6. sum \in Lexer /\ (Fine(sum) => Fine(one))
    <3>. HIDE DEF one, v
    <3>1. CASE ~one.ok \/ one.trap
      <4>1. sum = one
        BY <3>1
      <4>. QED BY <2>4, <4>1
    <3>2. CASE one.ok /\ ~one.trap /\ Traps(tok.text, l.val, one.val)
      <4>1. sum = [one EXCEPT !.trap = TRUE]
        BY <3>2
      <4>. HIDE DEF sum
      <4>. QED BY <2>4, <3>2, <4>1, LexerSteps DEF Fine
    <3>3. CASE one.ok /\ ~one.trap /\ ~Traps(tok.text, l.val, one.val)
      <4>1. sum = [one EXCEPT !.val = v]
        BY <3>3 DEF v
      <4>. HIDE DEF sum
      <4>2. sum \in Lexer
        BY <2>4, <2>5, <3>3, <4>1, LexerSteps
      <4>. QED BY <3>3, <4>2 DEF Fine
    <3>. QED BY <3>1, <3>2, <3>3
  <2>7. Fine(r) => Fine(sum)
    <3>. HIDE DEF sum, r
    <3>1. To("loop", toks, prec, sum) \in Calls
      BY <2>6, ToType
    <3>2. To("loop", toks, prec, sum).l = sum
      BY DEF To
    <3>. QED BY <2>1, <3>1, <3>2 DEF Keeps
  <2>. HIDE DEF next, one, sum
  <2>. QED BY <2>2, <2>4, <2>6, <2>7
<1>. QED BY <1>1, <1>2

(* What the result of a call is, by what is called.                        *)
LEMMA CallCases ==
  ASSUME NEW env, NEW g, NEW toks \in Expr, NEW prec \in 0 .. 6, NEW l \in Lexer
  PROVE  /\ Call(env, g)[To("parse", toks, prec, l)] = parse(env, g, toks, l)
         /\ Call(env, g)[To("loop", toks, prec, l)] = loop(g, toks, prec, l)
         /\ Call(env, g)[To("_eval", toks, prec, l)] =
              g[To("loop", toks, prec, g[To("parse", toks, 0, l)])]
<1>. DEFINE result(c) ==
       CASE c.what = "parse" -> parse(env, g, c.toks, c.l)
         [] c.what = "loop"  -> loop(g, c.toks, c.prec, c.l)
         [] c.what = "_eval" ->
              g[To("loop", c.toks, c.prec, g[To("parse", c.toks, 0, c.l)])]
<1>1. Call(env, g) = [c \in Calls |-> result(c)]
  BY DEF Call
<1>2. \A what \in {"parse", "_eval", "loop"} :
        LET c == To(what, toks, prec, l) IN
        c \in Calls /\ c.what = what /\ c.toks = toks /\ c.prec = prec /\ c.l = l
  BY DEF To, Calls
<1>. DEFINE p == To("parse", toks, prec, l)
            o == To("loop", toks, prec, l)
            e == To("_eval", toks, prec, l)
<1>3. /\ p \in Calls /\ p.what = "parse" /\ p.toks = toks /\ p.prec = prec /\ p.l = l
      /\ o \in Calls /\ o.what = "loop" /\ o.toks = toks /\ o.prec = prec /\ o.l = l
      /\ e \in Calls /\ e.what = "_eval" /\ e.toks = toks /\ e.prec = prec /\ e.l = l
  BY <1>2
<1>. HIDE DEF p, o, e
<1>4. result(p) = parse(env, g, toks, l)
  BY <1>3
<1>5. result(o) = loop(g, toks, prec, l)
  BY <1>3
<1>6. result(e) = g[To("loop", toks, prec, g[To("parse", toks, 0, l)])]
  BY <1>3
<1>. HIDE DEF result
<1>7. Call(env, g)[p] = result(p) /\ Call(env, g)[o] = result(o) /\ Call(env, g)[e] = result(e)
  BY <1>1, <1>3
<1>. QED BY <1>4, <1>5, <1>6, <1>7 DEF p, o, e

(* Each call hands on the errors of the calls that it makes. *)
LEMMA CallKeeps ==
  ASSUME NEW env \in [Names \cup {LP} -> Meaning], NEW g \in [Calls -> Lexer], Keeps(g)
  PROVE  Keeps(Call(env, g))
<1>. SUFFICES ASSUME NEW c \in Calls, Fine(Call(env, g)[c]) PROVE Fine(c.l)
  BY DEF Keeps
<1>1. /\ c.what \in {"parse", "_eval", "loop"} /\ c.toks \in Expr /\ c.prec \in 0 .. 6 /\ c.l \in Lexer
      /\ c = To(c.what, c.toks, c.prec, c.l)
  BY DEF Calls, To
<1>2. CASE c.what = "parse"
  <2>1. Call(env, g)[c] = parse(env, g, c.toks, c.l)
    BY <1>1, <1>2, CallCases
  <2>. QED BY <1>1, <2>1, ParseKeeps
<1>3. CASE c.what = "loop"
  <2>1. Call(env, g)[c] = loop(g, c.toks, c.prec, c.l)
    BY <1>1, <1>3, CallCases
  <2>. QED BY <1>1, <2>1, LoopKeeps
<1>4. CASE c.what = "_eval"
  <2>. DEFINE first == g[To("parse", c.toks, 0, c.l)]
  <2>1. Call(env, g)[c] = g[To("loop", c.toks, c.prec, first)]
    BY <1>1, <1>4, CallCases
  <2>2. first \in Lexer /\ (Fine(first) => Fine(c.l))
    <3>1. To("parse", c.toks, 0, c.l) \in Calls /\ To("parse", c.toks, 0, c.l).l = c.l
      BY <1>1 DEF To, Calls
    <3>. QED BY <3>1 DEF Keeps
  <2>. HIDE DEF first
  <2>3. To("loop", c.toks, c.prec, first) \in Calls /\ To("loop", c.toks, c.prec, first).l = first
    BY <1>1, <2>2 DEF To, Calls
  <2>. QED BY <2>1, <2>2, <2>3 DEF Keeps
<1>. QED BY <1>1, <1>2, <1>3, <1>4

(* The token at a place of the expression. *)
LEMMA CurrIs ==
  ASSUME NEW toks \in Expr, NEW l \in Lexer, l.pos \in 1 .. Len(toks)
  PROVE  Curr(toks, l) = toks[l.pos]
<1>1. Len(toks) \in Nat
  BY DEF Expr
<1>. QED BY <1>1 DEF Curr

(* If the calls that it makes find the values of their parts, the parser   *)
(* finds that of an operand.                                               *)
LEMMA ParseFinds ==
  ASSUME NEW value \in Valuation, NEW env \in [Names \cup {LP} -> Meaning],
         NEW g \in [Calls -> Lexer], NEW toks \in Expr, Agrees(env, value, toks),
         AllRight(value, toks, g), NEW a \in 1 .. Len(toks), NEW b \in a .. Len(toks), NEW l \in Lexer
  PROVE  ParseRight(value, toks, l, a, b, parse(env, g, toks, l))
<1>. DEFINE r == parse(env, g, toks, l)
            tok == Curr(toks, l)
            next == nextToken(l)
            V == ValueOf(value, toks, a, b)
<1>. SUFFICES ASSUME l.pos = a, OpsIn(toks, a, b) = {}, V # {}, Fine(r)
              PROVE  r.pos = b + 1 /\ r.val \in V
  BY DEF ParseRight, Took
<1>0. Len(toks) \in Nat /\ a \in Int /\ b \in Int
  BY DEF Expr
<1>1. tok = toks[a]
  BY CurrIs
<1>2. next \in Lexer /\ next.pos = a + 1
  BY LexerSteps, LexerFields
<1>3. Operand(value, toks, a, b)
  BY OperandPart
<1>4. CASE a = b /\ tok.type = "INT" /\ V = {tok.val}
  <2>. DEFINE v == tok.val
  <2>1. r = [next EXCEPT !.val = v]
    BY <1>4 DEF parse
  <2>. HIDE DEF next, v, tok, V
  <2>2. [next EXCEPT !.val = v].pos = next.pos
    BY <1>2, LexerFields
  <2>3. [next EXCEPT !.val = v].val = v
    BY <1>2, LexerFields
  <2>. QED BY <1>2, <1>4, <2>1, <2>2, <2>3 DEF v
<1>5. CASE a = b /\ tok.type = "SYMB" /\ V = {value[tok.text]}
  <2>. DEFINE name == tok.text
              saw == [next EXCEPT !.seen = Append(@, name)]
              is == env[name]
              v == is.value
              inner == g[To("_eval", is.expr, 0, [saw EXCEPT !.pos = 1])]
  <2>1. r = IF ~is.def THEN CannotEval(saw)
            ELSE IF ~is.isExpr THEN [saw EXCEPT !.val = v]
            ELSE [inner EXCEPT !.pos = saw.pos]
    BY <1>5 DEF parse
  <2>2. name \in Names \cup {LP}
    BY <1>5, CurrType
  <2>3. is.def => ~is.isExpr /\ v = value[name]
    BY <1>0, <1>1, <1>5 DEF Agrees
  <2>4. saw \in Lexer /\ saw.pos = a + 1
    <3>. HIDE DEF next, name
    <3>1. saw \in Lexer
      BY <1>2, <2>2, LexerSteps
    <3>2. saw.pos = next.pos
      BY <1>2, LexerFields
    <3>. QED BY <1>2, <3>1, <3>2
  <2>. HIDE DEF next, saw, is, v, inner
  <2>5. CannotEval(saw).ok = FALSE
    BY <2>4, LexerFields
  <2>6. is.def
    <3>. SUFFICES ASSUME ~is.def PROVE FALSE
      OBVIOUS
    <3>1. r = CannotEval(saw)
      BY <2>1
    <3>. HIDE DEF r
    <3>. QED BY <2>5, <3>1 DEF Fine
  <2>7. r = [saw EXCEPT !.val = v]
    BY <2>1, <2>3, <2>6
  <2>8. [saw EXCEPT !.val = v].pos = saw.pos
    BY <2>4, LexerFields
  <2>9. [saw EXCEPT !.val = v].val = v
    BY <2>4, LexerFields
  <2>. HIDE DEF r, V, name
  <2>10. V = {v}
    BY <1>5, <2>3, <2>6 DEF name
  <2>. QED BY <1>0, <1>5, <2>4, <2>7, <2>8, <2>9, <2>10
<1>6. CASE /\ a < b /\ tok.type = "OP" /\ tok.text \in {"-", "~"} /\ OpsIn(toks, a + 1, b) = {}
           /\ V = {Unary(tok.text, x) : x \in ValueOf(value, toks, a + 1, b)}
  <2>. DEFINE op == tok.text
              neg == g[To("parse", toks, 0, next)]
              W == ValueOf(value, toks, a + 1, b)
              v == Unary(op, neg.val)
  <2>1. r = IF neg.ok THEN [neg EXCEPT !.val = v] ELSE CannotEval(neg)
    BY <1>6 DEF parse
  <2>2. W # {}
    <3>. HIDE DEF W
    <3>. QED BY <1>6 DEF W
  <2>3. neg \in Lexer
    <3>. HIDE DEF next
    <3>. QED BY <1>2, ToType
  <2>4. Took(value, toks, neg, a + 1, b)
    <3>1. a + 1 \in 1 .. Len(toks) /\ b \in (a + 1) .. Len(toks)
      BY <1>0, <1>6
    <3>2. ParseRight(value, toks, next, a + 1, b, neg)
      <4>. HIDE DEF next
      <4>. QED BY <1>2, <3>1 DEF AllRight
    <3>. HIDE DEF next, neg
    <3>. QED BY <1>2, <1>6, <2>2, <3>2 DEF ParseRight, W
  <2>. HIDE DEF neg, v, next
  <2>5. CannotEval(neg).ok = FALSE
    BY <2>3, LexerFields
  <2>6. [neg EXCEPT !.val = v].pos = neg.pos
    BY <2>3, LexerFields
  <2>7. [neg EXCEPT !.val = v].val = v
    BY <2>3, LexerFields
  <2>8. [neg EXCEPT !.val = v].trap = neg.trap
    BY <2>3, LexerFields
  <2>. HIDE DEF r, op, W, V
  <2>9. neg.ok
    BY <2>1, <2>5 DEF Fine
  <2>10. r = [neg EXCEPT !.val = v]
    BY <2>1, <2>9
  <2>11. neg.pos = b + 1 /\ neg.val \in W
    BY <2>4, <2>8, <2>9, <2>10 DEF Took, Fine, W
  <2>12. V = {Unary(op, x) : x \in W}
    BY <1>6 DEF op, W
  <2>. QED BY <2>6, <2>7, <2>10, <2>11, <2>12 DEF v
<1>7. CASE /\ a + 1 < b /\ tok.type = "LPAREN" /\ toks[b].type = "RPAREN"
           /\ V = ValueOf(value, toks, a + 1, b - 1)
  <2>. DEFINE sub == g[To("_eval", toks, 0, next)]
  <2>1. r = IF Curr(toks, sub).type = "RPAREN" THEN nextToken(sub) ELSE CannotEval(sub)
    BY <1>7 DEF parse
  <2>2. sub \in Lexer
    <3>. HIDE DEF next
    <3>. QED BY <1>2, ToType
  <2>3. Took(value, toks, sub, a + 1, b - 1)
    <3>1. a + 1 \in 1 .. Len(toks) /\ b - 1 \in (a + 1) .. Len(toks) /\ (b - 1) + 1 = b
      BY <1>0, <1>7
    <3>2. EvalRight(value, toks, 0, next, a + 1, b - 1, sub)
      <4>. HIDE DEF next
      <4>1. 0 \in 0 .. 6
        OBVIOUS
      <4>. QED BY <1>2, <3>1, <4>1 DEF AllRight
    <3>3. Above(toks, a + 1, b - 1, 0)
      <4>1. \A k \in OpsIn(toks, a + 1, b - 1) : precedence(toks[k].text) \in 1 .. 6
        BY <3>1, OpsOfParts
      <4>. QED BY <4>1 DEF Above, Prec
    <3>4. StopsAt(toks, b - 1, 0)
      BY <1>7, <3>1 DEF StopsAt
    <3>. HIDE DEF next, sub
    <3>. QED BY <1>2, <1>7, <3>2, <3>3, <3>4 DEF EvalRight
  <2>. HIDE DEF sub, next
  <2>4. /\ CannotEval(sub).ok = FALSE
        /\ nextToken(sub).pos = sub.pos + 1 /\ nextToken(sub).val = sub.val
        /\ nextToken(sub).ok = sub.ok /\ nextToken(sub).trap = sub.trap
    BY <2>2, LexerFields
  <2>. HIDE DEF r
  <2>5. r = nextToken(sub)
    BY <2>1, <2>4 DEF Fine
  <2>6. Fine(sub)
    BY <2>4, <2>5 DEF Fine
  <2>7. sub.pos = b /\ sub.val \in V
    BY <1>0, <1>7, <2>3, <2>6 DEF Took
  <2>. QED BY <2>4, <2>5, <2>7
<1>. QED BY <1>1, <1>3, <1>4, <1>5, <1>6, <1>7 DEF Operand

(* Behind the last token of a part the loop ends.                          *)
LEMMA LoopStops ==
  ASSUME NEW g \in [Calls -> Lexer], NEW toks \in Expr, NEW b \in 1 .. Len(toks), NEW prec \in 0 .. 6,
         NEW l \in Lexer, l.pos = b + 1, StopsAt(toks, b, prec)
  PROVE  loop(g, toks, prec, l) = l
<1>. DEFINE tok == Curr(toks, l)
<1>0. Len(toks) \in Nat /\ b \in Int
  BY DEF Expr
<1>1. tok.type # "OP" \/ precedence(tok.text) <= prec
  <2>1. CASE b < Len(toks)
    <3>1. tok = toks[b + 1]
      BY <1>0, <2>1, CurrIs
    <3>. QED BY <2>1, <3>1 DEF StopsAt
  <2>2. CASE ~(b < Len(toks))
    <3>1. l.pos = b + 1 /\ ~(l.pos <= Len(toks))
      BY <1>0, <2>2
    <3>2. tok = END
      BY <3>1 DEF Curr
    <3>3. END.type # "OP"
      BY DEF END, Tok
    <3>. HIDE DEF tok
    <3>. QED BY <3>2, <3>3
  <2>. QED BY <2>1, <2>2
<1>. QED BY <1>1 DEF loop

(* In front of an operator of the part it goes on. *)
LEMMA OperatorHere ==
  ASSUME NEW toks \in Expr, NEW a \in 1 .. Len(toks), NEW b \in a .. Len(toks),
         NEW prec \in 0 .. 6, Above(toks, a, b, prec), NEW k \in OpsIn(toks, a, b)
  PROVE  /\ toks[k].type = "OP" /\ toks[k].text \in Operators /\ prec < precedence(toks[k].text)
         /\ OperandPrecedence(toks[k].text) = Prec(toks, k) /\ Prec(toks, k) \in 0 .. 6
         /\ k \in a + 1 .. b /\ k + 1 \in 1 .. Len(toks) + 1
<1>0. Len(toks) \in Nat /\ a \in Int /\ b \in Int /\ prec \in Int
  BY DEF Expr
<1>1. /\ k \in a + 1 .. b /\ toks[k].type = "OP" /\ toks[k].text \in Operators
      /\ Prec(toks, k) = precedence(toks[k].text) /\ precedence(toks[k].text) \in 1 .. 6
  BY OpsOfParts DEF Prec
<1>2. prec < Prec(toks, k) /\ OperandPrecedence(toks[k].text) = Prec(toks, k)
  BY <1>1 DEF Above, OperandPrecedence
<1>3. Prec(toks, k) \in 0 .. 6 /\ prec < precedence(toks[k].text) /\ k + 1 \in 1 .. Len(toks) + 1
  BY <1>0, <1>1, <1>2
<1>. QED BY <1>1, <1>2, <1>3

(* e is the end of the operand on the right of k, and behind it there is   *)
(* nothing more of the part or an operator that binds no tighter.          *)
Continues(value, toks, a, b, k, e) ==
  /\ e \in k + 1 .. Len(toks) /\ k + 1 \in 1 .. Len(toks)
  /\ RightOf(toks, a, b, k, e) /\ ValueOf(value, toks, k + 1, e) # {}
  /\ Above(toks, k + 1, e, Prec(toks, k)) /\ StopsAt(toks, e, Prec(toks, k))
  /\ \/ e + 1 = b + 1
     \/ /\ e + 1 \in OpsIn(toks, a, b)
        /\ \A j \in OpsIn(toks, a, b) : j < e + 1 => Prec(toks, e + 1) <= Prec(toks, j)

(* Such an end exists. *)
LEMMA LoopGoesOn ==
  ASSUME NEW value \in Valuation, NEW toks \in Expr, NEW a \in 1 .. Len(toks), NEW b \in a .. Len(toks),
         NEW prec \in 0 .. 6, ValueOf(value, toks, a, b) # {}, Above(toks, a, b, prec), StopsAt(toks, b, prec),
         NEW k \in OpsIn(toks, a, b),
         \A j \in OpsIn(toks, a, b) : j < k => Prec(toks, k) <= Prec(toks, j)
  PROVE  \E e \in k + 1 .. b : Continues(value, toks, a, b, k, e)
<1>. DEFINE O == OpsIn(toks, a, b)
            p == Prec(toks, k)
<1>0. Len(toks) \in Nat /\ a \in Int /\ b \in Int /\ prec \in Int
  BY DEF Expr
<1>1. /\ O \subseteq a + 1 .. b /\ k \in a + 1 .. b
      /\ toks[k].type = "OP" /\ toks[k].text \in Operators /\ Prec(toks, k) = precedence(toks[k].text)
      /\ \A j \in O : Prec(toks, j) \in 1 .. 6
  BY OpsOfParts DEF Prec
<1>2. p \in 1 .. 6 /\ prec < p /\ OperandPrecedence(toks[k].text) = p
  BY <1>1 DEF Above, OperandPrecedence
<1>3. PICK e \in k .. b : RightOf(toks, a, b, k, e)
  BY RightExists
<1>4. ValueOf(value, toks, k + 1, e) # {}
  BY <1>3, PartsHaveValues DEF PartsHave
<1>5. e \in k + 1 .. b /\ k + 1 \in 1 .. Len(toks) /\ e \in k + 1 .. Len(toks)
  <2>1. e \in Int /\ e + 0 = e
    BY <1>0
  <2>2. ~(e < k + 1)
    <3>1. k + 1 \in Int
      BY <1>0, <1>1
    <3>. QED BY <1>4, <2>1, <3>1, NothingMeant
  <2>. QED BY <1>0, <1>1, <2>1, <2>2
<1>6. Above(toks, k + 1, e, p)
  <2>1. OpsIn(toks, k + 1, b) = {j \in O : j > k}
    BY OpsOfParts
  <2>2. OpsIn(toks, k + 1, e) = {j \in OpsIn(toks, k + 1, b) : j <= e}
    <3>1. b \in k + 1 .. Len(toks)
      BY <1>0, <1>5
    <3>. QED BY <1>5, <3>1, OpsOfParts
  <2>3. \A j \in OpsIn(toks, k + 1, e) : j \in O /\ k < j /\ j <= e
    BY <1>0, <1>1, <2>1, <2>2
  <2>. HIDE DEF O
  <2>. QED BY <1>3, <2>3 DEF Above, RightOf, O
<1>7. StopsAt(toks, e, p)
  <2>1. CASE e = b
    <3>1. b < Len(toks) => toks[b + 1].type # "OP" \/ precedence(toks[b + 1].text) <= prec
      BY DEF StopsAt
    <3>2. precedence(toks[b + 1].text) \in Int
      BY DEF precedence
    <3>. HIDE DEF p
    <3>. QED BY <1>0, <1>2, <2>1, <3>1, <3>2 DEF StopsAt
  <2>2. CASE e # b
    <3>1. Prec(toks, e + 1) <= Prec(toks, k)
      BY <1>3, <2>2 DEF RightOf
    <3>. QED BY <3>1 DEF StopsAt, Prec
  <2>. QED BY <2>1, <2>2
<1>8. e + 1 = b + 1 \/ (e + 1 \in O /\ \A j \in O : j < e + 1 => Prec(toks, e + 1) <= Prec(toks, j))
  <2>. SUFFICES ASSUME e # b PROVE e + 1 \in O /\ \A j \in O : j < e + 1 => Prec(toks, e + 1) <= Prec(toks, j)
    OBVIOUS
  <2>1. e + 1 \in O /\ Prec(toks, e + 1) <= Prec(toks, k)
    BY <1>3 DEF RightOf
  <2>2. ASSUME NEW j \in O, j < e + 1 PROVE Prec(toks, e + 1) <= Prec(toks, j)
    <3>1. j \in Int /\ e \in Int /\ k \in Int /\ Prec(toks, j) \in Int /\ Prec(toks, k) \in Int /\ Prec(toks, e + 1) \in Int
      BY <1>1, <2>1
    <3>2. CASE j < k
      BY <2>1, <3>1, <3>2
    <3>3. CASE j = k
      BY <2>1, <3>3
    <3>4. CASE k < j /\ j <= e
      <4>1. Prec(toks, k) < Prec(toks, j)
        BY <1>3, <3>4 DEF RightOf
      <4>. QED BY <2>1, <3>1, <4>1
    <3>. QED BY <2>2, <3>1, <3>2, <3>3, <3>4
  <2>. QED BY <2>1, <2>2
<1>. QED BY <1>3, <1>4, <1>5, <1>6, <1>7, <1>8 DEF Continues

(* The same for the rest of an expression: the operand on the right of the *)
(* next operator is found, and the two are one operand then.               *)
LEMMA LoopFinds ==
  ASSUME NEW value \in Valuation, NEW g \in [Calls -> Lexer], Keeps(g), NEW toks \in Expr,
         AllRight(value, toks, g), NEW a \in 1 .. Len(toks), NEW b \in a .. Len(toks),
         NEW prec \in 0 .. 6, NEW l \in Lexer, NEW k \in 1 .. Len(toks) + 1
  PROVE  LoopRight(value, toks, prec, l, a, b, k, loop(g, toks, prec, l))
<1>. DEFINE r == loop(g, toks, prec, l)
            tok == Curr(toks, l)
            next == nextToken(l)
            O == OpsIn(toks, a, b)
            V(c, e) == ValueOf(value, toks, c, e)
<1>. SUFFICES ASSUME l.pos = k, l.val \in V(a, k - 1), V(a, b) # {}, Above(toks, a, b, prec),
                     StopsAt(toks, b, prec), Fine(r),
                     k = b + 1 \/ (k \in O /\ \A j \in O : j < k => Prec(toks, k) <= Prec(toks, j))
              PROVE  r.pos = b + 1 /\ r.val \in V(a, b)
  BY DEF LoopRight, Took
<1>0. Len(toks) \in Nat /\ a \in Int /\ b \in Int /\ k \in Int /\ prec \in Int
  BY DEF Expr
<1>1. CASE k = b + 1
  <2>1. r = l
    BY <1>0, <1>1, LoopStops
  <2>2. k - 1 = b
    BY <1>0, <1>1
  <2>. QED BY <1>1, <2>1, <2>2
<1>2. CASE k \in O /\ \A j \in O : j < k => Prec(toks, k) <= Prec(toks, j)
  <2>. DEFINE p == OperandPrecedence(tok.text)
              one == g[To("_eval", toks, p, next)]
              v == Apply(tok.text, l.val, one.val)
              sum == IF ~one.ok \/ one.trap THEN one
                     ELSE IF Traps(tok.text, l.val, one.val) THEN [one EXCEPT !.trap = TRUE]
                     ELSE [one EXCEPT !.val = v]
  <2>0. PICK e \in k + 1 .. b : Continues(value, toks, a, b, k, e)
    BY <1>2, LoopGoesOn
  <2>1. /\ e \in Int /\ k + 1 <= e /\ e <= b
        /\ e \in k + 1 .. Len(toks) /\ k + 1 \in 1 .. Len(toks)
        /\ RightOf(toks, a, b, k, e) /\ V(k + 1, e) # {}
        /\ Above(toks, k + 1, e, Prec(toks, k)) /\ StopsAt(toks, e, Prec(toks, k))
        /\ e + 1 = b + 1 \/ (e + 1 \in O /\ \A j \in O : j < e + 1 => Prec(toks, e + 1) <= Prec(toks, j))
    <3>1. e \in Int /\ k + 1 <= e /\ e <= b
      BY <1>0
    <3>. QED BY <2>0, <3>1 DEF Continues
  <2>2. /\ toks[k].type = "OP" /\ toks[k].text \in Operators /\ prec < precedence(toks[k].text)
        /\ OperandPrecedence(toks[k].text) = Prec(toks, k) /\ Prec(toks, k) \in 0 .. 6
        /\ k \in a + 1 .. b /\ k + 1 \in 1 .. Len(toks) + 1
    BY <1>2, OperatorHere
  <2>3. tok = toks[k]
    <3>1. k \in 1 .. Len(toks)
      BY <1>0, <2>2
    <3>. QED BY <3>1, CurrIs
  <2>4. p = Prec(toks, k) /\ p \in 0 .. 6
    BY <2>2, <2>3
  <2>6. next \in Lexer /\ next.pos = k + 1
    BY LexerSteps, LexerFields
  <2>7. one \in Lexer
    <3>. HIDE DEF next, p
    <3>. QED BY <2>4, <2>6, ToType
  <2>8. Took(value, toks, one, k + 1, e)
    <3>1. EvalRight(value, toks, p, next, k + 1, e, one)
      <4>. HIDE DEF next, p
      <4>. QED BY <2>1, <2>2, <2>4, <2>6 DEF AllRight
    <3>. HIDE DEF next, one, p
    <3>. QED BY <2>1, <2>4, <2>6, <3>1 DEF EvalRight
  <2>9. ~l.trap
    <3>1. Fine(l)
      BY LoopKeeps
    <3>. QED BY <3>1 DEF Fine
  <2>10. r = g[To("loop", toks, prec, sum)]
    <3>1. ~(l.trap \/ tok.type # "OP" \/ precedence(tok.text) <= prec)
      <4>1. precedence(toks[k].text) \in Int
        BY DEF precedence
      <4>. HIDE DEF tok
      <4>. QED BY <1>0, <2>2, <2>3, <2>9, <4>1
    <3>. QED BY <3>1 DEF loop
  <2>11. l.val \in Word /\ one.val \in Word
    <3>. HIDE DEF one
    <3>. QED BY <2>7, LexerSteps
  <2>. HIDE DEF one
  <2>12. [one EXCEPT !.trap = TRUE].trap = TRUE
    BY <2>7, LexerFields
  <2>13. sum \in Lexer
    <3>1. ~Traps(tok.text, l.val, one.val) => v \in Word
      <4>. HIDE DEF tok
      <4>. QED BY <2>2, <2>3, <2>11, ApplyType
    <3>2. [one EXCEPT !.trap = TRUE] \in Lexer
      BY <2>7, LexerSteps
    <3>3. ~Traps(tok.text, l.val, one.val) => [one EXCEPT !.val = v] \in Lexer
      <4>. HIDE DEF v, tok
      <4>. QED BY <2>7, <3>1, LexerSteps
    <3>. HIDE DEF v, tok
    <3>. QED BY <2>7, <3>2, <3>3
  <2>14. Fine(sum)
    <3>. HIDE DEF sum, r
    <3>1. To("loop", toks, prec, sum) \in Calls
      BY <2>13, ToType
    <3>2. To("loop", toks, prec, sum).l = sum
      BY DEF To
    <3>. QED BY <2>10, <3>1, <3>2 DEF Keeps
  <2>15. one.ok /\ ~one.trap /\ ~Traps(tok.text, l.val, one.val)
    <3>. HIDE DEF v, tok
    <3>. QED BY <2>12, <2>14 DEF Fine
  <2>16. sum = [one EXCEPT !.val = v]
    BY <2>15
  <2>17. sum.pos = one.pos /\ sum.val = v
    <3>. HIDE DEF v
    <3>1. [one EXCEPT !.val = v].pos = one.pos
      BY <2>7, LexerFields
    <3>2. [one EXCEPT !.val = v].val = v
      BY <2>7, LexerFields
    <3>. HIDE DEF sum
    <3>. QED BY <2>16, <3>1, <3>2
  <2>18. one.pos = e + 1 /\ one.val \in V(k + 1, e)
    BY <2>8, <2>15 DEF Took, Fine
  <2>19. v \in V(a, e)
    <3>. DEFINE x == l.val y == one.val
    <3>1. x \in V(a, k - 1) /\ y \in V(k + 1, e) /\ ~Traps(toks[k].text, x, y)
      BY <2>3, <2>15, <2>18
    <3>2. e \in k .. b
      BY <1>0, <2>2
    <3>. HIDE DEF x, y
    <3>3. Apply(toks[k].text, x, y) \in V(a, e)
      BY <1>2, <2>1, <3>1, <3>2, Grows
    <3>. QED BY <2>3, <3>3 DEF x, y
  <2>20. LoopRight(value, toks, prec, sum, a, b, e + 1, r)
    <3>1. e + 1 \in 1 .. Len(toks) + 1
      BY <1>0, <2>1
    <3>. HIDE DEF sum, r
    <3>. QED BY <2>10, <2>13, <3>1 DEF AllRight
  <2>21. e + 1 - 1 = e
    BY <2>1
  <2>. HIDE DEF sum, r, v
  <2>22. Took(value, toks, r, a, b)
    BY <2>1, <2>17, <2>18, <2>19, <2>20, <2>21 DEF LoopRight
  <2>. QED BY <2>22 DEF Took
<1>. QED BY <1>1, <1>2

(* The first operand of a part ends in front of k. *)
BeginsUpTo(value, toks, a, b, k) ==
  /\ OpsIn(toks, a, k - 1) = {} /\ ValueOf(value, toks, a, k - 1) # {}
  /\ k - 1 \in a .. Len(toks) /\ k \in 1 .. Len(toks) + 1 /\ (k - 1) + 1 = k
  /\ \/ k = b + 1
     \/ k \in OpsIn(toks, a, b) /\ \A j \in OpsIn(toks, a, b) : ~(j < k)

(* A part that has a value begins with an operand that has one.            *)
LEMMA FirstOperand ==
  ASSUME NEW value \in Valuation, NEW toks \in Expr, NEW a \in 1 .. Len(toks), NEW b \in a .. Len(toks),
         ValueOf(value, toks, a, b) # {}
  PROVE  \E k \in a + 1 .. b + 1 : BeginsUpTo(value, toks, a, b, k)
<1>. DEFINE O == OpsIn(toks, a, b)
            V(c, e) == ValueOf(value, toks, c, e)
<1>0. Len(toks) \in Nat /\ a \in Int /\ b \in Int /\ O \subseteq a + 1 .. b
  BY OpsOfParts DEF Expr
<1>1. PICK k \in a + 1 .. b + 1 :
        /\ OpsIn(toks, a, k - 1) = {} /\ V(a, k - 1) # {}
        /\ k = b + 1 \/ (k \in O /\ \A j \in O : ~(j < k))
  <2>1. CASE O = {}
    <3>1. b + 1 \in a + 1 .. b + 1 /\ (b + 1) - 1 = b
      BY <1>0
    <3>. QED BY <2>1, <3>1
  <2>2. CASE O # {}
    <3>1. O \subseteq Nat
      BY <1>0
    <3>2. PICK k \in O : \A j \in O : k <= j
      <4>. HIDE DEF O
      <4>. QED BY <2>2, <3>1, LeastElement
    <3>3. k \in a + 1 .. b + 1 /\ k - 1 \in a .. b /\ \A j \in O : ~(j < k) /\ ~(j <= k - 1)
      BY <1>0, <3>2
    <3>4. V(a, k - 1) # {}
      BY <3>2, <3>3, PartsHaveValues DEF PartsHave
    <3>5. OpsIn(toks, a, k - 1) = {}
      <4>1. OpsIn(toks, a, k - 1) = {j \in O : j <= k - 1}
        BY <3>3, OpsOfParts
      <4>. QED BY <3>3, <4>1
    <3>. QED BY <3>2, <3>3, <3>4, <3>5
  <2>. QED BY <2>1, <2>2
<1>2. k - 1 \in a .. Len(toks) /\ k \in 1 .. Len(toks) + 1 /\ (k - 1) + 1 = k
  BY <1>0
<1>. QED BY <1>1, <1>2 DEF BeginsUpTo

(* The same for a whole part: its first operand, then the rest. *)
LEMMA EvalFinds ==
  ASSUME NEW value \in Valuation, NEW g \in [Calls -> Lexer], Keeps(g), NEW toks \in Expr,
         AllRight(value, toks, g), NEW a \in 1 .. Len(toks), NEW b \in a .. Len(toks),
         NEW prec \in 0 .. 6, NEW l \in Lexer
  PROVE  EvalRight(value, toks, prec, l, a, b, g[To("loop", toks, prec, g[To("parse", toks, 0, l)])])
<1>. DEFINE first == g[To("parse", toks, 0, l)]
            r == g[To("loop", toks, prec, first)]
            O == OpsIn(toks, a, b)
            V(c, e) == ValueOf(value, toks, c, e)
<1>. SUFFICES ASSUME l.pos = a, V(a, b) # {}, Above(toks, a, b, prec), StopsAt(toks, b, prec)
              PROVE  Took(value, toks, r, a, b)
  BY DEF EvalRight
<1>. PICK k \in a + 1 .. b + 1 : BeginsUpTo(value, toks, a, b, k)
  BY FirstOperand
<1>1. /\ OpsIn(toks, a, k - 1) = {} /\ V(a, k - 1) # {}
      /\ k - 1 \in a .. Len(toks) /\ k \in 1 .. Len(toks) + 1 /\ (k - 1) + 1 = k
      /\ k = b + 1 \/ (k \in O /\ \A j \in O : ~(j < k))
  BY DEF BeginsUpTo
<1>2. first \in Lexer
  BY ToType
<1>3. Took(value, toks, first, a, k - 1)
  <2>1. ParseRight(value, toks, l, a, k - 1, first)
    BY <1>1 DEF AllRight
  <2>. HIDE DEF first
  <2>. QED BY <1>1, <2>1 DEF ParseRight
<1>4. LoopRight(value, toks, prec, first, a, b, k, r)
  <2>. HIDE DEF first
  <2>. QED BY <1>1, <1>2 DEF AllRight
<1>5. Fine(r) => Fine(first)
  <2>. HIDE DEF first
  <2>1. To("loop", toks, prec, first) \in Calls
    BY <1>2, ToType
  <2>2. To("loop", toks, prec, first).l = first
    BY DEF To
  <2>. QED BY <2>1, <2>2 DEF Keeps
<1>. HIDE DEF first, r
<1>6. CASE Fine(r)
  <2>1. first.pos = k /\ first.val \in V(a, k - 1)
    BY <1>1, <1>3, <1>5, <1>6 DEF Took
  <2>. QED BY <1>1, <1>4, <2>1 DEF LoopRight
<1>7. CASE ~Fine(r)
  BY <1>7 DEF Took
<1>. QED BY <1>6, <1>7

(* One more call keeps what the calls find.                                *)
LEMMA CallFinds ==
  ASSUME NEW value \in Valuation, NEW env \in [Names \cup {LP} -> Meaning],
         NEW g \in [Calls -> Lexer], Keeps(g), NEW toks \in Expr, Agrees(env, value, toks),
         AllRight(value, toks, g)
  PROVE  AllRight(value, toks, Call(env, g))
<1>. DEFINE h == Call(env, g)
<1>. SUFFICES ASSUME NEW a \in 1 .. Len(toks), NEW b \in a .. Len(toks), NEW l \in Lexer
              PROVE  /\ ParseRight(value, toks, l, a, b, h[To("parse", toks, 0, l)])
                     /\ \A prec \in 0 .. 6 :
                          /\ EvalRight(value, toks, prec, l, a, b, h[To("_eval", toks, prec, l)])
                          /\ \A k \in 1 .. Len(toks) + 1 :
                               LoopRight(value, toks, prec, l, a, b, k, h[To("loop", toks, prec, l)])
  BY DEF AllRight
<1>1. h[To("parse", toks, 0, l)] = parse(env, g, toks, l)
  BY CallCases
<1>2. ASSUME NEW prec \in 0 .. 6
      PROVE  /\ EvalRight(value, toks, prec, l, a, b, h[To("_eval", toks, prec, l)])
             /\ \A k \in 1 .. Len(toks) + 1 :
                  LoopRight(value, toks, prec, l, a, b, k, h[To("loop", toks, prec, l)])
  <2>1. /\ h[To("_eval", toks, prec, l)] = g[To("loop", toks, prec, g[To("parse", toks, 0, l)])]
        /\ h[To("loop", toks, prec, l)] = loop(g, toks, prec, l)
    BY CallCases
  <2>. HIDE DEF h
  <2>. QED BY <2>1, EvalFinds, LoopFinds
<1>3. ParseRight(value, toks, l, a, b, parse(env, g, toks, l))
  BY ParseFinds
<1>. HIDE DEF h
<1>. QED BY <1>1, <1>2, <1>3

(* However many calls there is room for, they find what they come back with. *)
LEMMA EvaluationFinds ==
  ASSUME NEW value \in Valuation, NEW env \in [Names \cup {LP} -> Meaning], NEW expr \in Expr,
         Agrees(env, value, expr), NEW ev, Unfolds(env, ev)
  PROVE  \A n \in Nat : Keeps(ev[n]) /\ AllRight(value, expr, ev[n])
<1>. DEFINE T == {n \in Nat : Keeps(ev[n]) /\ AllRight(value, expr, ev[n])}
<1>1. Unfolds(env, ev)
  OBVIOUS
<1>2. 0 \in T
  <2>1. \A c \in Calls : ~Fine(Overflow[c])
    <3>1. \A c \in Calls : Overflow[c] = [c.l EXCEPT !.trap = TRUE] /\ c.l \in Lexer
      BY DEF Overflow, Calls
    <3>2. \A l \in Lexer : [l EXCEPT !.trap = TRUE].trap = TRUE
      BY LexerFields
    <3>3. TAKE c \in Calls
    <3>. DEFINE m == c.l
    <3>4. m \in Lexer /\ Overflow[c] = [m EXCEPT !.trap = TRUE]
      BY <3>1
    <3>. HIDE DEF m
    <3>5. [m EXCEPT !.trap = TRUE].trap = TRUE
      BY <3>2, <3>4
    <3>. QED BY <3>4, <3>5 DEF Fine
  <2>2. ev[0] = Overflow
    BY <1>1 DEF Unfolds
  <2>3. Keeps(ev[0])
    BY <2>1, <2>2 DEF Keeps
  <2>4. AllRight(value, expr, ev[0])
    <3>1. \A what \in {"parse", "_eval", "loop"} : \A prec \in 0 .. 6 : \A l \in Lexer :
            ~Fine(ev[0][To(what, expr, prec, l)])
      BY <2>1, <2>2, ToType
    <3>2. 0 \in 0 .. 6
      OBVIOUS
    <3>3. \A what \in {"parse", "_eval", "loop"} : \A prec \in 0 .. 6 : \A l \in Lexer : \A a, b :
            Took(value, expr, ev[0][To(what, expr, prec, l)], a, b)
      BY <3>1 DEF Took
    <3>. QED BY <3>2, <3>3 DEF AllRight, ParseRight, EvalRight, LoopRight
  <2>. QED BY <2>3, <2>4
<1>3. ASSUME NEW n \in Nat, n \in T PROVE n + 1 \in T
  <2>1. /\ ev[n] \in [Calls -> Lexer] /\ ev[n + 1] = Call(env, ev[n])
        /\ Keeps(ev[n]) /\ AllRight(value, expr, ev[n])
    BY <1>1, <1>3 DEF Unfolds
  <2>2. Keeps(Call(env, ev[n])) /\ AllRight(value, expr, Call(env, ev[n]))
    BY <2>1, CallKeeps, CallFinds
  <2>. QED BY <2>1, <2>2
<1>4. Nat \subseteq T
  <2>. HIDE DEF T
  <2>. QED BY <1>2, <1>3, Induction
<1>. QED BY <1>4

(* All of an expression that means something is a part of it, behind which *)
(* and around which there is nothing.                                      *)
LEMMA WholePart ==
  ASSUME NEW value \in Valuation, NEW expr \in Expr, Denotes(value)[expr] # {}
  PROVE  /\ Len(expr) \in Nat /\ 1 \in 1 .. Len(expr) /\ Len(expr) \in 1 .. Len(expr)
         /\ ValueOf(value, expr, 1, Len(expr)) = Denotes(value)[expr]
         /\ Start \in Lexer /\ Start.pos = 1 /\ Fine(Start)
         /\ Above(expr, 1, Len(expr), 0) /\ StopsAt(expr, Len(expr), 0)
<1>. DEFINE n == Len(expr)
<1>1. n \in Nat /\ n # 0
  <2>1. n \in Nat
    BY DEF Expr
  <2>2. ASSUME n = 0 PROVE FALSE
    <3>1. expr = << >>
      BY <2>2 DEF Expr
    <3>2. SubSeq(expr, 1, 0) = << >>
      BY DEF SubSeq
    <3>3. ValueOf(value, expr, 1, 0) = {}
      BY NothingMeant
    <3>. QED BY <3>1, <3>2, <3>3 DEF ValueOf
  <2>. QED BY <2>1, <2>2
<1>2. ValueOf(value, expr, 1, n) = Denotes(value)[expr]
  <2>1. SubSeq(expr, 1, n) = expr
    BY DEF Expr
  <2>. QED BY <2>1 DEF ValueOf
<1>3. 1 \in 1 .. n /\ n \in 1 .. n /\ 0 \in 0 .. 6
  BY <1>1
<1>4. Start \in Lexer /\ Start.pos = 1 /\ Fine(Start)
  BY Words DEF Start, Lexer, Fine
<1>5. Above(expr, 1, n, 0)
  <2>1. \A k \in OpsIn(expr, 1, n) : precedence(expr[k].text) \in 1 .. 6
    BY <1>3, OpsOfParts
  <2>. QED BY <2>1 DEF Above, Prec
<1>6. StopsAt(expr, n, 0)
  BY <1>1 DEF StopsAt
<1>. QED BY <1>1, <1>2, <1>3, <1>4, <1>5, <1>6

(* Precedence climbing is right: whatever the expression, if it has a      *)
(* meaning, the names in it have the values that are meant, and eval()     *)
(* comes back with a value, then the value is what the expression means.   *)
THEOREM EvaluatorIsRight ==
  ASSUME NEW value \in Valuation, NEW env \in [Names \cup {LP} -> Meaning], NEW expr \in Expr,
         Agrees(env, value, expr), Denotes(value)[expr] # {},
         Eval(expr, env).ok, ~Eval(expr, env).trap
  PROVE  Denotes(value)[expr] = {Eval(expr, env).val}
<1>. DEFINE r == Eval(expr, env)
            n == Len(expr)
<1>1. PICK ev : Unfolds(env, ev)
  BY EvaluationUnfolded
<1>2. AllRight(value, expr, Evaluation(env))
  BY <1>1, EvaluationFinds, MaxCallsAssumption DEF Unfolds
<1>3. /\ n \in Nat /\ 1 \in 1 .. n /\ n \in 1 .. n /\ ValueOf(value, expr, 1, n) = Denotes(value)[expr]
      /\ Start \in Lexer /\ Start.pos = 1 /\ Above(expr, 1, n, 0) /\ StopsAt(expr, n, 0)
  BY WholePart
<1>4. EvalRight(value, expr, 0, Start, 1, n, r)
  <2>1. 0 \in 0 .. 6
    OBVIOUS
  <2>. QED BY <1>2, <1>3, <2>1 DEF AllRight, Eval
<1>5. Took(value, expr, r, 1, n)
  <2>. HIDE DEF r, n
  <2>. QED BY <1>3, <1>4 DEF EvalRight
<1>6. r.val \in Denotes(value)[expr]
  BY <1>3, <1>5 DEF Took, Fine
<1>. HIDE DEF r
<1>7. \A x, y \in Denotes(value)[expr] : x = y
  BY OneValue
<1>8. Denotes(value)[expr] = {r.val}
  BY <1>6, <1>7
<1>. QED BY <1>8 DEF r

-----------------------------------------------------------------------------
(* The parser comes back with the value. *)

(* Two calls for each token are enough: with room for n of them within one *)
(* another, whoever is called with a part that has a value and has few     *)
(* enough tokens comes back with one.                                      *)
Sure(l, r) == Fine(l) => Fine(r)
ParseEnds(value, toks, l, a, b, r) ==
  l.pos = a /\ OpsIn(toks, a, b) = {} /\ ValueOf(value, toks, a, b) # {} => Sure(l, r)
EvalEnds(value, toks, prec, l, a, b, r) ==
  /\ l.pos = a /\ ValueOf(value, toks, a, b) # {}
  /\ Above(toks, a, b, prec) /\ StopsAt(toks, b, prec)
  => Sure(l, r)
LoopEnds(value, toks, prec, l, a, b, k, r) ==
  /\ l.pos = k /\ l.val \in ValueOf(value, toks, a, k - 1) /\ ValueOf(value, toks, a, b) # {}
  /\ Above(toks, a, b, prec) /\ StopsAt(toks, b, prec)
  /\ k = b + 1 \/ (k \in OpsIn(toks, a, b) /\ \A j \in OpsIn(toks, a, b) : j < k => Prec(toks, k) <= Prec(toks, j))
  => Sure(l, r)

AllEnd(value, toks, g, n) ==
  \A a \in 1 .. Len(toks) : \A b \in a .. Len(toks) : \A l \in Lexer :
    /\ 2 * (b - a) + 1 <= n => ParseEnds(value, toks, l, a, b, g[To("parse", toks, 0, l)])
    /\ \A prec \in 0 .. 6 :
         /\ 2 * (b - a) + 2 <= n => EvalEnds(value, toks, prec, l, a, b, g[To("_eval", toks, prec, l)])
         /\ \A k \in 1 .. Len(toks) + 1 : 2 * (b - k) + 3 <= n =>
              LoopEnds(value, toks, prec, l, a, b, k, g[To("loop", toks, prec, l)])

(* Each name in an expression has the value that it is meant to have.      *)
Knows(env, value, toks) ==
  \A i \in 1 .. Len(toks) : toks[i].type = "SYMB" =>
    /\ env[toks[i].text].def /\ ~env[toks[i].text].isExpr
    /\ env[toks[i].text].value = value[toks[i].text]

(* The steps of the lexer end nothing. *)
LEMMA FineSteps ==
  ASSUME NEW l \in Lexer, Fine(l)
  PROVE  /\ Fine(nextToken(l)) /\ \A v : Fine([l EXCEPT !.val = v])
         /\ \A n : Fine([l EXCEPT !.seen = Append(@, n)])
<1>1. Fine(nextToken(l))
  BY LexerFields DEF Fine
<1>2. \A v : Fine([l EXCEPT !.val = v])
  BY LexerFields DEF Fine
<1>3. \A n : Fine([l EXCEPT !.seen = Append(@, n)])
  BY LexerFields DEF Fine
<1>. QED BY <1>1, <1>2, <1>3

(* An operand that has a value is parsed. *)
LEMMA ParseSure ==
  ASSUME NEW value \in Valuation, NEW env \in [Names \cup {LP} -> Meaning],
         NEW g \in [Calls -> Lexer], NEW toks \in Expr, Knows(env, value, toks),
         AllRight(value, toks, g), NEW n \in Nat, AllEnd(value, toks, g, n),
         NEW a \in 1 .. Len(toks), NEW b \in a .. Len(toks), NEW l \in Lexer,
         2 * (b - a) + 1 <= n + 1
  PROVE  ParseEnds(value, toks, l, a, b, parse(env, g, toks, l))
<1>. DEFINE r == parse(env, g, toks, l)
            tok == Curr(toks, l)
            next == nextToken(l)
            V == ValueOf(value, toks, a, b)
<1>. SUFFICES ASSUME l.pos = a, OpsIn(toks, a, b) = {}, V # {}, Fine(l)
              PROVE  Fine(r)
  BY DEF ParseEnds, Sure
<1>0. Len(toks) \in Nat /\ a \in Int /\ b \in Int /\ n \in Int
  BY DEF Expr
<1>1. tok = toks[a]
  BY CurrIs
<1>2. next \in Lexer /\ next.pos = a + 1 /\ Fine(next)
  BY LexerSteps, LexerFields, FineSteps
<1>3. Operand(value, toks, a, b)
  BY OperandPart
<1>4. CASE tok.type = "INT"
  <2>. DEFINE v == tok.val
  <2>1. r = [next EXCEPT !.val = v]
    BY <1>4 DEF parse
  <2>. HIDE DEF next, v, tok
  <2>2. Fine([next EXCEPT !.val = v])
    BY <1>2, FineSteps
  <2>. QED BY <2>1, <2>2
<1>5. CASE tok.type = "SYMB"
  <2>. DEFINE name == tok.text
              saw == [next EXCEPT !.seen = Append(@, name)]
              is == env[name]
              v == is.value
              inner == g[To("_eval", is.expr, 0, [saw EXCEPT !.pos = 1])]
  <2>1. r = IF ~is.def THEN CannotEval(saw)
            ELSE IF ~is.isExpr THEN [saw EXCEPT !.val = v]
            ELSE [inner EXCEPT !.pos = saw.pos]
    BY <1>5 DEF parse
  <2>2. is.def /\ ~is.isExpr
    BY <1>0, <1>1, <1>5 DEF Knows
  <2>3. name \in Names \cup {LP}
    BY <1>5, CurrType
  <2>. HIDE DEF next, is, v, inner, name
  <2>4. saw \in Lexer /\ Fine(saw)
    BY <1>2, <2>3, LexerSteps, FineSteps
  <2>. HIDE DEF saw
  <2>5. Fine([saw EXCEPT !.val = v])
    BY <2>4, FineSteps
  <2>. QED BY <2>1, <2>2, <2>5
<1>6. CASE /\ a < b /\ tok.type = "OP" /\ tok.text \in {"-", "~"} /\ OpsIn(toks, a + 1, b) = {}
           /\ V = {Unary(tok.text, x) : x \in ValueOf(value, toks, a + 1, b)}
  <2>. DEFINE neg == g[To("parse", toks, 0, next)]
              v == Unary(tok.text, neg.val)
  <2>1. r = IF neg.ok THEN [neg EXCEPT !.val = v] ELSE CannotEval(neg)
    BY <1>6 DEF parse
  <2>2. ValueOf(value, toks, a + 1, b) # {}
    <3>. DEFINE W == ValueOf(value, toks, a + 1, b)
    <3>. HIDE DEF W
    <3>. QED BY <1>6 DEF W
  <2>3. neg \in Lexer
    <3>. HIDE DEF next
    <3>. QED BY <1>2, ToType
  <2>4. Fine(neg)
    <3>1. a + 1 \in 1 .. Len(toks) /\ b \in (a + 1) .. Len(toks) /\ 2 * (b - (a + 1)) + 1 <= n
      BY <1>0, <1>6
    <3>2. ParseEnds(value, toks, next, a + 1, b, neg)
      <4>. HIDE DEF next
      <4>. QED BY <1>2, <3>1 DEF AllEnd
    <3>. HIDE DEF next, neg
    <3>. QED BY <1>2, <1>6, <2>2, <3>2 DEF ParseEnds, Sure
  <2>. HIDE DEF neg, v, next, r
  <2>5. neg.ok
    BY <2>4 DEF Fine
  <2>6. Fine([neg EXCEPT !.val = v])
    BY <2>3, <2>4, FineSteps
  <2>7. r = [neg EXCEPT !.val = v]
    BY <2>1, <2>5
  <2>. QED BY <2>6, <2>7
<1>7. CASE /\ a + 1 < b /\ tok.type = "LPAREN" /\ toks[b].type = "RPAREN"
           /\ V = ValueOf(value, toks, a + 1, b - 1)
  <2>. DEFINE sub == g[To("_eval", toks, 0, next)]
  <2>1. r = IF Curr(toks, sub).type = "RPAREN" THEN nextToken(sub) ELSE CannotEval(sub)
    BY <1>7 DEF parse
  <2>2. sub \in Lexer
    <3>. HIDE DEF next
    <3>. QED BY <1>2, ToType
  <2>3. Fine(sub) /\ sub.pos = b
    <3>1. a + 1 \in 1 .. Len(toks) /\ b - 1 \in (a + 1) .. Len(toks) /\ (b - 1) + 1 = b
          /\ 2 * ((b - 1) - (a + 1)) + 2 <= n
      <4>1. a + 1 < b
        BY <1>7
      <4>2. a + 1 \in 1 .. Len(toks) /\ b - 1 \in (a + 1) .. Len(toks) /\ (b - 1) + 1 = b
        BY <1>0, <4>1
      <4>3. 2 * ((b - 1) - (a + 1)) + 2 <= n
        BY <1>0
      <4>. QED BY <4>2, <4>3
    <3>2. EvalEnds(value, toks, 0, next, a + 1, b - 1, sub) /\ EvalRight(value, toks, 0, next, a + 1, b - 1, sub)
      <4>. HIDE DEF next
      <4>1. 0 \in 0 .. 6
        OBVIOUS
      <4>2. EvalEnds(value, toks, 0, next, a + 1, b - 1, sub)
        BY <1>2, <3>1, <4>1 DEF AllEnd
      <4>3. EvalRight(value, toks, 0, next, a + 1, b - 1, sub)
        BY <1>2, <3>1, <4>1 DEF AllRight
      <4>. QED BY <4>2, <4>3
    <3>3. Above(toks, a + 1, b - 1, 0)
      <4>1. \A k \in OpsIn(toks, a + 1, b - 1) : precedence(toks[k].text) \in 1 .. 6
        BY <3>1, OpsOfParts
      <4>. QED BY <4>1 DEF Above, Prec
    <3>4. StopsAt(toks, b - 1, 0)
      BY <1>7, <3>1 DEF StopsAt
    <3>. HIDE DEF next, sub
    <3>5. Fine(sub) /\ Took(value, toks, sub, a + 1, b - 1)
      BY <1>2, <1>7, <3>2, <3>3, <3>4 DEF EvalRight, EvalEnds, Sure
    <3>. QED BY <3>1, <3>5 DEF Took
  <2>. HIDE DEF sub, next
  <2>4. Curr(toks, sub).type = "RPAREN"
    <3>1. Curr(toks, sub) = toks[b]
      BY <1>0, <2>2, <2>3, CurrIs
    <3>. QED BY <1>7, <3>1
  <2>5. Fine(nextToken(sub))
    BY <2>2, <2>3, FineSteps
  <2>. HIDE DEF r
  <2>. QED BY <2>1, <2>4, <2>5
<1>. QED BY <1>1, <1>3, <1>4, <1>5, <1>6, <1>7 DEF Operand

(* Where there is a value no quotient was impossible. *)
LEMMA NoneTraps ==
  ASSUME NEW value \in Valuation, NEW toks \in Expr, NEW a \in 1 .. Len(toks), NEW b \in a .. Len(toks),
         ValueOf(value, toks, a, b) # {}, NEW k \in OpsIn(toks, a, b), NEW e \in k .. b,
         RightOf(toks, a, b, k, e),
         \A j \in OpsIn(toks, a, b) : j < k => Prec(toks, k) <= Prec(toks, j),
         NEW x \in ValueOf(value, toks, a, k - 1), NEW y \in ValueOf(value, toks, k + 1, e)
  PROVE  ~Traps(toks[k].text, x, y)
<1>. DEFINE O == OpsIn(toks, a, b)
            X == ValueOf(value, toks, a, k - 1)
            Y == ValueOf(value, toks, k + 1, e)
            op == toks[k].text
<1>0. Len(toks) \in Nat /\ O \subseteq a + 1 .. b /\ \A j \in O : Prec(toks, j) \in 1 .. 6
  BY OpsOfParts DEF Expr, Prec
<1>1. ValueOf(value, toks, a, e) # {}
  <2>1. CASE e = b
    BY <2>1
  <2>2. CASE e # b
    <3>1. e + 1 \in O /\ Prec(toks, e + 1) <= Prec(toks, k)
      BY <2>2 DEF RightOf
    <3>2. ASSUME NEW j \in O, j < e + 1 PROVE Prec(toks, e + 1) <= Prec(toks, j)
      <4>1. j \in Int /\ e \in Int /\ k \in Int /\ Prec(toks, j) \in Int /\ Prec(toks, k) \in Int /\ Prec(toks, e + 1) \in Int
        BY <1>0, <3>1
      <4>2. CASE j < k
        BY <3>1, <4>1, <4>2
      <4>3. CASE j = k
        BY <3>1, <4>3
      <4>4. CASE k < j /\ j <= e
        <5>1. Prec(toks, k) < Prec(toks, j)
          BY <4>4 DEF RightOf
        <5>. QED BY <3>1, <4>1, <5>1
      <4>. QED BY <1>0, <3>2, <4>1, <4>2, <4>3, <4>4
    <3>3. (e + 1) - 1 = e
      BY <1>0
    <3>. QED BY <3>1, <3>2, <3>3, PartsHaveValues DEF PartsHave
  <2>. QED BY <2>1, <2>2
<1>2. ValueOf(value, toks, a, e) = Combine(op, X, Y)
  BY Combined
<1>3. (\A u, v \in X : u = v) /\ (\A u, v \in Y : u = v)
  <2>1. SubSeq(toks, a, k - 1) \in Expr /\ SubSeq(toks, k + 1, e) \in Expr
    <3>1. k \in Int /\ k - 1 \in Int /\ e \in Int
      BY <1>0
    <3>. QED BY <1>0, <3>1 DEF Expr
  <2>. QED BY <2>1, OneValue DEF ValueOf
<1>. HIDE DEF X, Y, op
<1>4. PICK p \in X \X Y : ~Traps(op, p[1], p[2])
  BY <1>1, <1>2 DEF Combine
<1>5. p[1] = x /\ p[2] = y
  BY <1>3, <1>4 DEF X, Y
<1>. QED BY <1>4, <1>5 DEF op

(* The rest of an expression that has a value is gone through to its end.  *)
LEMMA LoopSure ==
  ASSUME NEW value \in Valuation, NEW g \in [Calls -> Lexer], Keeps(g), NEW toks \in Expr,
         AllRight(value, toks, g), NEW n \in Nat, AllEnd(value, toks, g, n),
         NEW a \in 1 .. Len(toks), NEW b \in a .. Len(toks),
         NEW prec \in 0 .. 6, NEW l \in Lexer, NEW k \in 1 .. Len(toks) + 1, 2 * (b - k) + 3 <= n + 1
  PROVE  LoopEnds(value, toks, prec, l, a, b, k, loop(g, toks, prec, l))
<1>. DEFINE r == loop(g, toks, prec, l)
            tok == Curr(toks, l)
            next == nextToken(l)
            O == OpsIn(toks, a, b)
            V(c, e) == ValueOf(value, toks, c, e)
<1>. SUFFICES ASSUME l.pos = k, l.val \in V(a, k - 1), V(a, b) # {}, Above(toks, a, b, prec),
                     StopsAt(toks, b, prec), Fine(l),
                     k = b + 1 \/ (k \in O /\ \A j \in O : j < k => Prec(toks, k) <= Prec(toks, j))
              PROVE  Fine(r)
  BY DEF LoopEnds, Sure
<1>0. Len(toks) \in Nat /\ a \in Int /\ b \in Int /\ k \in Int /\ prec \in Int /\ n \in Int
  BY DEF Expr
<1>1. CASE k = b + 1
  BY <1>0, <1>1, LoopStops
<1>2. CASE k \in O /\ \A j \in O : j < k => Prec(toks, k) <= Prec(toks, j)
  <2>. DEFINE p == OperandPrecedence(tok.text)
              one == g[To("_eval", toks, p, next)]
              v == Apply(tok.text, l.val, one.val)
              sum == [one EXCEPT !.val = v]
  <2>0. PICK e \in k + 1 .. b : Continues(value, toks, a, b, k, e)
    BY <1>2, LoopGoesOn
  <2>1. /\ e \in Int /\ k + 1 <= e /\ e <= b
        /\ e \in k + 1 .. Len(toks) /\ k + 1 \in 1 .. Len(toks)
        /\ RightOf(toks, a, b, k, e) /\ V(k + 1, e) # {}
        /\ Above(toks, k + 1, e, Prec(toks, k)) /\ StopsAt(toks, e, Prec(toks, k))
        /\ e + 1 = b + 1 \/ (e + 1 \in O /\ \A j \in O : j < e + 1 => Prec(toks, e + 1) <= Prec(toks, j))
    <3>1. e \in Int /\ k + 1 <= e /\ e <= b
      BY <1>0
    <3>. QED BY <2>0, <3>1 DEF Continues
  <2>2. /\ toks[k].type = "OP" /\ toks[k].text \in Operators /\ prec < precedence(toks[k].text)
        /\ OperandPrecedence(toks[k].text) = Prec(toks, k) /\ Prec(toks, k) \in 0 .. 6
        /\ k \in a + 1 .. b /\ k + 1 \in 1 .. Len(toks) + 1
    BY <1>2, OperatorHere
  <2>3. tok = toks[k] /\ p = Prec(toks, k) /\ p \in 0 .. 6
    <3>1. k \in 1 .. Len(toks)
      BY <1>0, <2>2
    <3>2. tok = toks[k]
      BY <3>1, CurrIs
    <3>. QED BY <2>2, <3>2
  <2>4. next \in Lexer /\ next.pos = k + 1 /\ Fine(next)
    BY LexerSteps, LexerFields, FineSteps
  <2>5. one \in Lexer
    <3>. HIDE DEF next, p
    <3>. QED BY <2>3, <2>4, ToType
  <2>6. Fine(one) /\ one.pos = e + 1 /\ one.val \in V(k + 1, e)
    <3>1. EvalRight(value, toks, p, next, k + 1, e, one)
      <4>. HIDE DEF next, p
      <4>. QED BY <2>1, <2>2, <2>3, <2>4 DEF AllRight
    <3>2. EvalEnds(value, toks, p, next, k + 1, e, one)
      <4>1. 2 * (e - (k + 1)) + 2 <= n
        <5>1. e \in Int /\ k + 1 <= e /\ e <= b
          BY <2>1
        <5>. QED BY <1>0, <5>1
      <4>. HIDE DEF next, p
      <4>. QED BY <2>1, <2>2, <2>3, <2>4, <4>1 DEF AllEnd
    <3>. HIDE DEF next, one, p
    <3>3. Fine(one)
      BY <2>1, <2>3, <2>4, <3>2 DEF EvalEnds, Sure
    <3>. QED BY <2>1, <2>3, <2>4, <3>1, <3>3 DEF EvalRight, Took
  <2>. HIDE DEF one
  <2>7. ~Traps(tok.text, l.val, one.val)
    <3>. DEFINE x == l.val y == one.val
    <3>1. x \in V(a, k - 1) /\ y \in V(k + 1, e) /\ e \in k .. b
      BY <1>0, <2>1, <2>2, <2>6
    <3>. HIDE DEF x, y
    <3>2. ~Traps(toks[k].text, x, y)
      BY <1>2, <2>1, <3>1, NoneTraps
    <3>. QED BY <2>3, <3>2 DEF x, y
  <2>8. r = g[To("loop", toks, prec, sum)]
    <3>1. ~(l.trap \/ tok.type # "OP" \/ precedence(tok.text) <= prec)
      <4>. HIDE DEF tok
      <4>1. tok.type = "OP" /\ prec < precedence(tok.text) /\ ~l.trap
        BY <2>2, <2>3 DEF Fine
      <4>2. precedence(tok.text) \in Int
        BY DEF precedence
      <4>3. ~(precedence(tok.text) <= prec)
        BY <1>0, <4>1, <4>2
      <4>. QED BY <4>1, <4>3
    <3>2. ~(~one.ok \/ one.trap)
      BY <2>6 DEF Fine
    <3>. QED BY <2>7, <3>1, <3>2 DEF loop, one
  <2>9. v \in Word
    <3>1. l.val \in Word /\ one.val \in Word
      BY <2>5, LexerSteps
    <3>. HIDE DEF tok
    <3>. QED BY <2>2, <2>3, <2>7, <3>1, ApplyType
  <2>10. v \in V(a, e)
    <3>. DEFINE x == l.val y == one.val
    <3>1. x \in V(a, k - 1) /\ y \in V(k + 1, e) /\ e \in k .. b /\ ~Traps(toks[k].text, x, y)
      BY <1>0, <2>1, <2>2, <2>3, <2>6, <2>7
    <3>. HIDE DEF x, y
    <3>2. Apply(toks[k].text, x, y) \in V(a, e)
      BY <1>2, <2>1, <3>1, Grows
    <3>. QED BY <2>3, <3>2 DEF x, y
  <2>. HIDE DEF v
  <2>11. sum \in Lexer /\ sum.pos = e + 1 /\ sum.val = v /\ Fine(sum)
    <3>1. sum \in Lexer
      BY <2>5, <2>9, LexerSteps
    <3>2. sum.pos = one.pos /\ sum.val = v
      BY <2>5, LexerFields
    <3>3. Fine(sum)
      BY <2>5, <2>6, FineSteps
    <3>. HIDE DEF sum
    <3>. QED BY <2>6, <3>1, <3>2, <3>3
  <2>12. LoopEnds(value, toks, prec, sum, a, b, e + 1, r)
    <3>1. e + 1 \in 1 .. Len(toks) + 1 /\ 2 * (b - (e + 1)) + 3 <= n
      <4>1. e \in Int /\ k + 1 <= e /\ e <= b
        BY <2>1
      <4>. QED BY <1>0, <4>1
    <3>. HIDE DEF sum, r
    <3>. QED BY <2>8, <2>11, <3>1 DEF AllEnd
  <2>13. e + 1 - 1 = e
    BY <2>1
  <2>. HIDE DEF sum, r
  <2>. QED BY <2>1, <2>10, <2>11, <2>12, <2>13 DEF LoopEnds, Sure
<1>. HIDE DEF r
<1>. QED BY <1>1, <1>2

(* So is a whole part. *)
LEMMA EvalSure ==
  ASSUME NEW value \in Valuation, NEW g \in [Calls -> Lexer], Keeps(g), NEW toks \in Expr,
         AllRight(value, toks, g), NEW n \in Nat, AllEnd(value, toks, g, n),
         NEW a \in 1 .. Len(toks), NEW b \in a .. Len(toks),
         NEW prec \in 0 .. 6, NEW l \in Lexer, 2 * (b - a) + 2 <= n + 1
  PROVE  EvalEnds(value, toks, prec, l, a, b, g[To("loop", toks, prec, g[To("parse", toks, 0, l)])])
<1>. DEFINE first == g[To("parse", toks, 0, l)]
            r == g[To("loop", toks, prec, first)]
            O == OpsIn(toks, a, b)
            V(c, e) == ValueOf(value, toks, c, e)
<1>. SUFFICES ASSUME l.pos = a, V(a, b) # {}, Above(toks, a, b, prec), StopsAt(toks, b, prec), Fine(l)
              PROVE  Fine(r)
  BY DEF EvalEnds, Sure
<1>0. Len(toks) \in Nat /\ a \in Int /\ b \in Int /\ n \in Int
  BY DEF Expr
<1>. PICK k \in a + 1 .. b + 1 : BeginsUpTo(value, toks, a, b, k)
  BY FirstOperand
<1>1. /\ OpsIn(toks, a, k - 1) = {} /\ V(a, k - 1) # {}
      /\ k - 1 \in a .. Len(toks) /\ k \in 1 .. Len(toks) + 1 /\ (k - 1) + 1 = k
      /\ k = b + 1 \/ (k \in O /\ \A j \in O : ~(j < k))
  BY DEF BeginsUpTo
<1>2. first \in Lexer
  BY ToType
<1>3. Fine(first) /\ first.pos = k /\ first.val \in V(a, k - 1)
  <2>1. 2 * ((k - 1) - a) + 1 <= n
    BY <1>0
  <2>2. ParseRight(value, toks, l, a, k - 1, first) /\ ParseEnds(value, toks, l, a, k - 1, first)
    BY <1>1, <2>1 DEF AllRight, AllEnd
  <2>. HIDE DEF first
  <2>. QED BY <1>1, <2>2 DEF ParseRight, ParseEnds, Sure, Took
<1>4. LoopEnds(value, toks, prec, first, a, b, k, r)
  <2>1. 2 * (b - k) + 3 <= n
    BY <1>0
  <2>. HIDE DEF first
  <2>. QED BY <1>1, <1>2, <2>1 DEF AllEnd
<1>. HIDE DEF first, r
<1>. QED BY <1>1, <1>3, <1>4 DEF LoopEnds, Sure

(* With room for one more call, one more call comes back. *)
LEMMA CallSure ==
  ASSUME NEW value \in Valuation, NEW env \in [Names \cup {LP} -> Meaning],
         NEW g \in [Calls -> Lexer], Keeps(g), NEW toks \in Expr, Knows(env, value, toks),
         AllRight(value, toks, g), NEW n \in Nat, AllEnd(value, toks, g, n)
  PROVE  AllEnd(value, toks, Call(env, g), n + 1)
<1>. DEFINE h == Call(env, g)
<1>. SUFFICES ASSUME NEW a \in 1 .. Len(toks), NEW b \in a .. Len(toks), NEW l \in Lexer
              PROVE  /\ 2 * (b - a) + 1 <= n + 1 => ParseEnds(value, toks, l, a, b, h[To("parse", toks, 0, l)])
                     /\ \A prec \in 0 .. 6 :
                          /\ 2 * (b - a) + 2 <= n + 1 => EvalEnds(value, toks, prec, l, a, b, h[To("_eval", toks, prec, l)])
                          /\ \A k \in 1 .. Len(toks) + 1 : 2 * (b - k) + 3 <= n + 1 =>
                               LoopEnds(value, toks, prec, l, a, b, k, h[To("loop", toks, prec, l)])
  BY DEF AllEnd
<1>1. h[To("parse", toks, 0, l)] = parse(env, g, toks, l)
  BY CallCases
<1>2. ASSUME NEW prec \in 0 .. 6
      PROVE  /\ 2 * (b - a) + 2 <= n + 1 => EvalEnds(value, toks, prec, l, a, b, h[To("_eval", toks, prec, l)])
             /\ \A k \in 1 .. Len(toks) + 1 : 2 * (b - k) + 3 <= n + 1 =>
                  LoopEnds(value, toks, prec, l, a, b, k, h[To("loop", toks, prec, l)])
  <2>1. /\ h[To("_eval", toks, prec, l)] = g[To("loop", toks, prec, g[To("parse", toks, 0, l)])]
        /\ h[To("loop", toks, prec, l)] = loop(g, toks, prec, l)
    BY CallCases
  <2>. HIDE DEF h
  <2>. QED BY <2>1, EvalSure, LoopSure
<1>3. 2 * (b - a) + 1 <= n + 1 => ParseEnds(value, toks, l, a, b, parse(env, g, toks, l))
  BY ParseSure
<1>. HIDE DEF h
<1>. QED BY <1>1, <1>2, <1>3

(* Where there is room for two calls a token, the value is found. *)
LEMMA FindsWithRoom ==
  ASSUME NEW value \in Valuation, NEW env \in [Names \cup {LP} -> Meaning], NEW expr \in Expr,
         Knows(env, value, expr), Denotes(value)[expr] # {}, NEW ev, Unfolds(env, ev),
         NEW room \in Nat, 2 * Len(expr) <= room
  PROVE  Fine(ev[room][To("_eval", expr, 0, Start)])
<1>. DEFINE n == Len(expr)
            r == ev[room][To("_eval", expr, 0, Start)]
<1>1. Unfolds(env, ev)
  OBVIOUS
<1>2. Agrees(env, value, expr)
  BY DEF Knows, Agrees
<1>3. \A m \in Nat : Keeps(ev[m]) /\ AllRight(value, expr, ev[m])
  BY <1>1, <1>2, EvaluationFinds
<1>. DEFINE T == {m \in Nat : AllEnd(value, expr, ev[m], m)}
<1>4. 0 \in T
  <2>1. Len(expr) \in Nat
    BY DEF Expr
  <2>. SUFFICES AllEnd(value, expr, ev[0], 0)
    OBVIOUS
  <2>2. ASSUME NEW a \in 1 .. Len(expr), NEW b \in a .. Len(expr), NEW l \in Lexer, NEW prec \in 0 .. 6,
               NEW k \in 1 .. Len(expr) + 1, 2 * (b - k) + 3 <= 0
        PROVE  LoopEnds(value, expr, prec, l, a, b, k, ev[0][To("loop", expr, prec, l)])
    <3>1. k \in Int /\ a \in Int /\ b \in Int /\ k # b + 1 /\ ~(k <= b)
      BY <2>1, <2>2
    <3>2. OpsIn(expr, a, b) \subseteq a + 1 .. b
      BY OpsOfParts
    <3>. QED BY <3>1, <3>2 DEF LoopEnds
  <2>3. \A a \in 1 .. Len(expr) : \A b \in a .. Len(expr) : ~(2 * (b - a) + 1 <= 0) /\ ~(2 * (b - a) + 2 <= 0)
    BY <2>1
  <2>. QED BY <2>2, <2>3 DEF AllEnd
<1>5. ASSUME NEW m \in Nat, m \in T PROVE m + 1 \in T
  <2>1. ev[m] \in [Calls -> Lexer] /\ ev[m + 1] = Call(env, ev[m])
    BY <1>1 DEF Unfolds
  <2>2. AllEnd(value, expr, Call(env, ev[m]), m + 1)
    BY <1>3, <1>5, <2>1, CallSure
  <2>. QED BY <2>1, <2>2
<1>6. Nat \subseteq T
  <2>. HIDE DEF T
  <2>. QED BY <1>4, <1>5, Induction
<1>7. AllEnd(value, expr, ev[room], room)
  BY <1>6
<1>. HIDE DEF T
<1>8. /\ n \in Nat /\ 1 \in 1 .. n /\ n \in 1 .. n /\ ValueOf(value, expr, 1, n) = Denotes(value)[expr]
      /\ Start \in Lexer /\ Start.pos = 1 /\ Fine(Start)
      /\ Above(expr, 1, n, 0) /\ StopsAt(expr, n, 0)
  BY WholePart
<1>9. EvalEnds(value, expr, 0, Start, 1, n, r)
  <2>1. 0 \in 0 .. 6 /\ 2 * (n - 1) + 2 <= room
    BY <1>8
  <2>. QED BY <1>7, <1>8, <2>1 DEF AllEnd
<1>10. Fine(r)
  <2>. HIDE DEF r, n
  <2>. QED BY <1>8, <1>9 DEF EvalEnds, Sure
<1>. QED BY <1>10

(* The evaluator is total: every expression that has a meaning, and whose  *)
(* names are known, is evaluated to it; two calls a token are room enough. *)
THEOREM EvaluatorFinds ==
  ASSUME NEW value \in Valuation, NEW env \in [Names \cup {LP} -> Meaning], NEW expr \in Expr,
         Knows(env, value, expr), Denotes(value)[expr] # {}, 2 * Len(expr) <= MaxCalls
  PROVE  /\ Eval(expr, env).ok /\ ~Eval(expr, env).trap
         /\ Denotes(value)[expr] = {Eval(expr, env).val}
<1>1. PICK ev : Unfolds(env, ev)
  BY EvaluationUnfolded
<1>2. Fine(ev[MaxCalls][To("_eval", expr, 0, Start)])
  BY <1>1, FindsWithRoom, MaxCallsAssumption
<1>3. Eval(expr, env).ok /\ ~Eval(expr, env).trap
  BY <1>1, <1>2 DEF Fine, Eval, Unfolds
<1>4. Agrees(env, value, expr)
  BY DEF Knows, Agrees
<1>. QED BY <1>3, <1>4, EvaluatorIsRight

-----------------------------------------------------------------------------
(* The names that are looked up. *)

(* What a state of the lexer has seen.                                     *)
Heard(l) == {l.seen[i] : i \in 1 .. Len(l.seen)}

(* r has read on from l to p and looked up nothing more.                   *)
Passes(r, l, p) ==
  r.pos = p /\ r.trap = l.trap /\ (r.ok => l.ok) /\ Heard(r) = Heard(l)

(* The steps of the lexer look up nothing.                                 *)
LEMMA HeardSteps ==
  ASSUME NEW l \in Lexer
  PROVE  /\ l.pos \in Nat \ {0} /\ l.ok \in BOOLEAN /\ l.trap \in BOOLEAN
         /\ Passes(l, l, l.pos) /\ Passes(nextToken(l), l, l.pos + 1)
         /\ Passes(CannotEval(l), l, l.pos) /\ CannotEval(l).ok = FALSE
<1>1. l.pos \in Nat \ {0} /\ l.ok \in BOOLEAN /\ l.trap \in BOOLEAN
  BY DEF Lexer
<1>2. ASSUME NEW r, r.seen = l.seen PROVE Heard(r) = Heard(l)
  BY <1>2 DEF Heard
<1>3. nextToken(l).seen = l.seen /\ CannotEval(l).seen = l.seen
  BY DEF Lexer, nextToken, CannotEval
<1>4. Passes(l, l, l.pos) /\ Passes(nextToken(l), l, l.pos + 1)
  BY <1>2, <1>3, LexerFields DEF Passes
<1>5. Passes(CannotEval(l), l, l.pos) /\ CannotEval(l).ok = FALSE
  <2>1. CannotEval(l).pos = l.pos
    BY DEF Lexer, CannotEval
  <2>. QED BY <1>2, <1>3, <2>1, LexerFields DEF Passes
<1>. QED BY <1>1, <1>4, <1>5

(* Another value or place, or the end of the process.                      *)
LEMMA HeardChanges ==
  ASSUME NEW l \in Lexer, NEW v
  PROVE  /\ Passes([l EXCEPT !.val = v], l, l.pos) /\ Passes([l EXCEPT !.pos = v], l, v)
         /\ Heard([l EXCEPT !.trap = TRUE]) = Heard(l)
         /\ [l EXCEPT !.trap = TRUE].pos = l.pos /\ [l EXCEPT !.trap = TRUE].ok = l.ok
         /\ [l EXCEPT !.trap = TRUE].trap = TRUE
<1>1. ASSUME NEW r, r.seen = l.seen PROVE Heard(r) = Heard(l)
  BY <1>1 DEF Heard
<1>. DEFINE a == [l EXCEPT !.val = v]
            b == [l EXCEPT !.pos = v]
            c == [l EXCEPT !.trap = TRUE]
<1>2. a.seen = l.seen /\ b.seen = l.seen /\ c.seen = l.seen
  BY DEF Lexer
<1>3. a.pos = l.pos /\ a.ok = l.ok /\ a.trap = l.trap /\ b.pos = v /\ b.ok = l.ok /\ b.trap = l.trap
      /\ c.pos = l.pos /\ c.ok = l.ok /\ c.trap = TRUE
  BY DEF Lexer
<1>. HIDE DEF a, b, c
<1>4. Passes(a, l, l.pos) /\ Passes(b, l, v)
  BY <1>1, <1>2, <1>3 DEF Passes
<1>5. Heard(c) = Heard(l)
  BY <1>1, <1>2
<1>. QED BY <1>3, <1>4, <1>5 DEF a, b, c

(* A symbol is looked up.                                                  *)
LEMMA HeardName ==
  ASSUME NEW l \in Lexer, NEW n
  PROVE  LET saw == [l EXCEPT !.seen = Append(@, n)] IN
         saw.pos = l.pos /\ saw.ok = l.ok /\ saw.trap = l.trap /\ Heard(saw) = Heard(l) \cup {n}
<1>. DEFINE q == l.seen
            a == [l EXCEPT !.seen = Append(@, n)]
<1>1. a.seen = Append(q, n) /\ q \in Seq(Names \cup {LP})
  BY DEF Lexer
<1>2. Len(q) \in Nat /\ Len(Append(q, n)) = Len(q) + 1 /\ Append(q, n)[Len(q) + 1] = n
      /\ \A i \in 1 .. Len(q) : Append(q, n)[i] = q[i]
  BY <1>1
<1>. HIDE DEF a, q
<1>3. Heard(a) = {q[i] : i \in 1 .. Len(q)} \cup {n}
  <2>1. 1 .. Len(q) + 1 = 1 .. Len(q) \cup {Len(q) + 1}
    BY <1>2
  <2>. QED BY <1>1, <1>2, <2>1 DEF Heard
<1>4. Heard(l) = {q[i] : i \in 1 .. Len(q)}
  BY DEF Heard, q
<1>5. a.pos = l.pos /\ a.ok = l.ok /\ a.trap = l.trap
  BY DEF Lexer, a
<1>. QED BY <1>3, <1>4, <1>5 DEF a

(* What an operand reads and looks up.                                     *)
LEMMA ParseDoes ==
  ASSUME NEW env \in [Names \cup {LP} -> Meaning], NEW g \in [Calls -> Lexer], NEW toks \in Expr,
         NEW l \in Lexer
  PROVE  LET tok == Curr(toks, l)
             next == nextToken(l)
             sub == g[To("_eval", toks, 0, next)]
             neg == g[To("parse", toks, 0, next)]
             is == env[tok.text]
             r == parse(env, g, toks, l) IN
         /\ next \in Lexer /\ Passes(next, l, l.pos + 1) /\ sub \in Lexer /\ neg \in Lexer
         /\ tok.type = "INT" => Passes(r, l, l.pos + 1)
         /\ tok.type = "SYMB" =>
              /\ tok.text \in Names \cup {LP} /\ is.expr \in Expr
              /\ \E saw \in Lexer :
                   /\ saw.pos = 1 /\ saw.ok = l.ok /\ saw.trap = l.trap
                   /\ Heard(saw) = Heard(l) \cup {tok.text}
                   /\ IF is.def /\ is.isExpr
                      THEN Passes(r, g[To("_eval", is.expr, 0, saw)], l.pos + 1)
                      ELSE Passes(r, saw, l.pos + 1)
         /\ tok.type = "LPAREN" =>
              Passes(r, sub, IF Curr(toks, sub).type = "RPAREN" THEN sub.pos + 1 ELSE sub.pos)
         /\ tok.type = "OP" /\ tok.text \in {"-", "~"} => Passes(r, neg, neg.pos)
         /\ tok.type = "BAD" => r.trap /\ Heard(r) = Heard(l)
         /\ ~(tok.type \in {"INT", "SYMB", "LPAREN", "BAD"} \/ (tok.type = "OP" /\ tok.text \in {"-", "~"}))
              => Passes(r, l, l.pos)
<1>. DEFINE tok == Curr(toks, l)
            next == nextToken(l)
            sub == g[To("_eval", toks, 0, next)]
            neg == g[To("parse", toks, 0, next)]
            is == env[tok.text]
            saw == [next EXCEPT !.seen = Append(@, tok.text)]
            from == [saw EXCEPT !.pos = 1]
            inner == g[To("_eval", is.expr, 0, from)]
            r == parse(env, g, toks, l)
<1>1. next \in Lexer /\ Passes(next, l, l.pos + 1)
  BY LexerSteps, HeardSteps
<1>2. sub \in Lexer /\ neg \in Lexer
  <2>. HIDE DEF next
  <2>. QED BY <1>1, ToType
<1>3. ASSUME tok.type = "INT" PROVE Passes(r, l, l.pos + 1)
  <2>1. r = [next EXCEPT !.val = tok.val]
    BY <1>3 DEF parse
  <2>2. Passes(r, next, next.pos)
    <3>. HIDE DEF next, tok, r
    <3>. QED BY <1>1, <2>1, HeardChanges
  <2>. HIDE DEF next, r
  <2>. QED BY <1>1, <2>2 DEF Passes
<1>4. ASSUME tok.type = "SYMB"
      PROVE  /\ tok.text \in Names \cup {LP} /\ is.expr \in Expr
             /\ from \in Lexer /\ from.pos = 1 /\ from.ok = l.ok /\ from.trap = l.trap
             /\ Heard(from) = Heard(l) \cup {tok.text}
             /\ IF is.def /\ is.isExpr THEN Passes(r, inner, l.pos + 1)
                ELSE Passes(r, from, l.pos + 1)
  <2>1. tok.text \in Names \cup {LP}
    BY <1>4, CurrType
  <2>2. is.expr \in Expr
    BY <2>1 DEF Meaning
  <2>3. /\ saw \in Lexer /\ saw.pos = l.pos + 1 /\ saw.trap = l.trap /\ (saw.ok => l.ok)
        /\ saw.ok = l.ok /\ Heard(saw) = Heard(l) \cup {tok.text}
    <3>. DEFINE name == tok.text
    <3>0. next.ok = l.ok
      BY LexerFields
    <3>. HIDE DEF next, name
    <3>1. [next EXCEPT !.seen = Append(@, name)] \in Lexer
      BY <1>1, <2>1, LexerSteps DEF name
    <3>3. saw = [next EXCEPT !.seen = Append(@, name)]
      BY DEF name
    <3>2. /\ saw.pos = next.pos /\ saw.ok = next.ok /\ saw.trap = next.trap
          /\ Heard(saw) = Heard(next) \cup {name}
      BY <1>1, <3>3, HeardName
    <3>. HIDE DEF saw
    <3>. QED BY <1>1, <3>0, <3>1, <3>2, <3>3 DEF Passes, name
  <2>4. from \in Lexer /\ Passes(from, saw, 1) /\ from.ok = saw.ok
    <3>. HIDE DEF saw
    <3>1. 1 \in Nat \ {0}
      OBVIOUS
    <3>2. from \in Lexer
      BY <2>3, <3>1, LexerSteps
    <3>3. from.ok = saw.ok
      BY <2>3, LexerFields
    <3>. QED BY <2>3, <3>2, <3>3, HeardChanges
  <2>5. inner \in Lexer
    <3>. HIDE DEF from
    <3>. DEFINE x == is.expr
    <3>. HIDE DEF x
    <3>1. x \in Expr /\ from \in Lexer
      BY <2>2, <2>4 DEF x
    <3>2. To("_eval", x, 0, from) \in Calls
      BY <3>1, ToType
    <3>. QED BY <3>2 DEF x
  <2>6. r = IF ~is.def THEN CannotEval(saw)
            ELSE IF ~is.isExpr THEN [saw EXCEPT !.val = is.value]
            ELSE [inner EXCEPT !.pos = saw.pos]
    BY <1>4 DEF parse
  <2>. HIDE DEF saw, from, inner, r, is, tok, next
  <2>7. is.def /\ is.isExpr => Passes(r, inner, l.pos + 1)
    BY <2>3, <2>5, <2>6, HeardChanges
  <2>8. ~(is.def /\ is.isExpr) => Passes(r, saw, l.pos + 1)
    <3>1. Passes(CannotEval(saw), saw, saw.pos)
      BY <2>3, HeardSteps
    <3>2. Passes([saw EXCEPT !.val = is.value], saw, saw.pos)
      BY <2>3, HeardChanges
    <3>. QED BY <2>3, <2>6, <3>1, <3>2
  <2>. QED BY <2>1, <2>2, <2>3, <2>4, <2>7, <2>8 DEF Passes
<1>5. ASSUME tok.type = "LPAREN"
      PROVE  Passes(r, sub, IF Curr(toks, sub).type = "RPAREN" THEN sub.pos + 1 ELSE sub.pos)
  <2>1. r = IF Curr(toks, sub).type = "RPAREN" THEN nextToken(sub) ELSE CannotEval(sub)
    BY <1>5 DEF parse
  <2>. HIDE DEF sub, r
  <2>. QED BY <1>2, <2>1, HeardSteps
<1>6. ASSUME tok.type = "OP" /\ tok.text \in {"-", "~"} PROVE Passes(r, neg, neg.pos)
  <2>. DEFINE v == Unary(tok.text, neg.val)
  <2>1. r = IF neg.ok THEN [neg EXCEPT !.val = v] ELSE CannotEval(neg)
    BY <1>6 DEF parse
  <2>. HIDE DEF neg, r, v
  <2>. QED BY <1>2, <2>1, HeardSteps, HeardChanges
<1>7. ASSUME tok.type = "BAD" PROVE r.trap /\ Heard(r) = Heard(l)
  <2>. DEFINE d == CannotEval(l)
  <2>1. r = [d EXCEPT !.trap = TRUE]
    BY <1>7 DEF parse
  <2>2. d \in Lexer /\ Heard(d) = Heard(l)
    BY LexerSteps, HeardSteps DEF Passes
  <2>. HIDE DEF d, r
  <2>. QED BY <2>1, <2>2, HeardChanges
<1>8. ASSUME ~(tok.type \in {"INT", "SYMB", "LPAREN", "BAD"} \/ (tok.type = "OP" /\ tok.text \in {"-", "~"}))
      PROVE  Passes(r, l, l.pos)
  <2>1. r = CannotEval(l)
    BY <1>8 DEF parse
  <2>. HIDE DEF r
  <2>. QED BY <2>1, HeardSteps
<1>. HIDE DEF tok, next, sub, neg, is, saw, r
<1>9. tok.type = "SYMB" => \E w \in Lexer :
         /\ w.pos = 1 /\ w.ok = l.ok /\ w.trap = l.trap
         /\ Heard(w) = Heard(l) \cup {tok.text}
         /\ IF is.def /\ is.isExpr
            THEN Passes(r, g[To("_eval", is.expr, 0, w)], l.pos + 1)
            ELSE Passes(r, w, l.pos + 1)
  BY <1>4
<1>. HIDE DEF from
<1>10. tok.type = "SYMB" => tok.text \in Names \cup {LP} /\ is.expr \in Expr
  BY <1>4
<1>. QED BY <1>1, <1>2, <1>3, <1>5, <1>6, <1>7, <1>8, <1>9, <1>10 DEF tok, next, sub, neg, is, r

(* What the rest of an expression reads and looks up.                      *)
LEMMA LoopDoes ==
  ASSUME NEW g \in [Calls -> Lexer], NEW toks \in Expr, NEW prec \in 0 .. 6, NEW l \in Lexer
  PROVE  LET tok == Curr(toks, l)
             next == nextToken(l)
             p == OperandPrecedence(tok.text)
             one == g[To("_eval", toks, p, next)]
             r == loop(g, toks, prec, l) IN
         IF l.trap \/ tok.type # "OP" \/ precedence(tok.text) <= prec THEN r = l
         ELSE /\ next \in Lexer /\ Passes(next, l, l.pos + 1) /\ p \in 0 .. 6 /\ one \in Lexer
              /\ \E sum \in Lexer :
                   /\ r = g[To("loop", toks, prec, sum)]
                   /\ sum.pos = one.pos /\ Heard(sum) = Heard(one) /\ (sum.ok => one.ok)
                   /\ one.trap => sum.trap
                   /\ ~one.ok \/ tok.text # "/" => sum.trap = one.trap
<1>. DEFINE tok == Curr(toks, l)
            next == nextToken(l)
            p == OperandPrecedence(tok.text)
            one == g[To("_eval", toks, p, next)]
            v == Apply(tok.text, l.val, one.val)
            traps == Traps(tok.text, l.val, one.val)
            sum == IF ~one.ok \/ one.trap THEN one
                   ELSE IF traps THEN [one EXCEPT !.trap = TRUE]
                   ELSE [one EXCEPT !.val = v]
            r == loop(g, toks, prec, l)
            stops == l.trap \/ tok.type # "OP" \/ precedence(tok.text) <= prec
<1>1. stops => r = l
  BY DEF loop
<1>2. ASSUME ~stops
      PROVE  /\ next \in Lexer /\ Passes(next, l, l.pos + 1) /\ p \in 0 .. 6 /\ one \in Lexer
             /\ sum \in Lexer /\ r = g[To("loop", toks, prec, sum)]
             /\ sum.pos = one.pos /\ Heard(sum) = Heard(one) /\ (sum.ok => one.ok)
             /\ (one.trap => sum.trap) /\ (~one.ok \/ tok.text # "/" => sum.trap = one.trap)
  <2>1. r = g[To("loop", toks, prec, sum)]
    BY <1>2 DEF loop
  <2>2. next \in Lexer /\ Passes(next, l, l.pos + 1)
    BY LexerSteps, HeardSteps
  <2>3. tok.text \in Operators /\ precedence(tok.text) \in 1 .. 6
    <3>1. precedence(tok.text) \in Int
      BY DEF precedence
    <3>. QED BY <1>2, <3>1, PrecedenceType
  <2>4. p \in 0 .. 6
    BY <2>3 DEF OperandPrecedence
  <2>5. one \in Lexer
    <3>. HIDE DEF next, p
    <3>. QED BY <2>2, <2>4, ToType
  <2>6. ~traps => v \in Word
    <3>1. l.val \in Word /\ one.val \in Word
      <4>. HIDE DEF one
      <4>. QED BY <2>5, LexerSteps
    <3>. HIDE DEF one, tok
    <3>. QED BY <2>3, <3>1, ApplyType
  <2>8. traps => tok.text = "/"
    BY DEF Traps
  <2>. HIDE DEF one, v, traps, next, p, tok
  <2>7. /\ sum \in Lexer /\ sum.pos = one.pos /\ Heard(sum) = Heard(one) /\ (sum.ok => one.ok)
        /\ (one.trap => sum.trap) /\ (~one.ok \/ tok.text # "/" => sum.trap = one.trap)
    <3>1. CASE ~one.ok \/ one.trap
      <4>1. sum = one
        BY <3>1
      <4>. QED BY <2>5, <4>1
    <3>2. CASE ~(~one.ok \/ one.trap) /\ traps
      <4>1. sum = [one EXCEPT !.trap = TRUE]
        BY <3>2
      <4>. HIDE DEF sum
      <4>. QED BY <2>5, <2>8, <3>2, <4>1, LexerSteps, HeardChanges
    <3>3. CASE ~(~one.ok \/ one.trap) /\ ~traps
      <4>1. sum = [one EXCEPT !.val = v]
        BY <3>3
      <4>. HIDE DEF sum
      <4>2. sum \in Lexer
        BY <2>5, <2>6, <3>3, <4>1, LexerSteps
      <4>3. Passes(sum, one, one.pos)
        BY <2>5, <4>1, HeardChanges
      <4>. QED BY <4>2, <4>3 DEF Passes
    <3>. QED BY <3>1, <3>2, <3>3
  <2>. HIDE DEF sum, r
  <2>. QED BY <2>1, <2>2, <2>4, <2>5, <2>7
<1>. HIDE DEF sum, r, one, next, p, tok
<1>3. ~stops => \E x \in Lexer :
         /\ r = g[To("loop", toks, prec, x)]
         /\ x.pos = one.pos /\ Heard(x) = Heard(one) /\ (x.ok => one.ok)
         /\ one.trap => x.trap
         /\ ~one.ok \/ tok.text # "/" => x.trap = one.trap
  BY <1>2
<1>. QED BY <1>1, <1>2, <1>3 DEF r, one, next, p, tok

-----------------------------------------------------------------------------
(* The names that a call looks up. *)

(* A process that has ended stays so, and no name is forgotten.            *)
Hears(g) == \A c \in Calls : ~g[c].trap => ~c.l.trap /\ Heard(c.l) \subseteq Heard(g[c])
Heeds(r, l) == ~r.trap => ~l.trap /\ Heard(l) \subseteq Heard(r)

(* A call that is made within a call is heard. *)
LEMMA HearsOf ==
  ASSUME NEW g \in [Calls -> Lexer], Hears(g), NEW what \in {"parse", "_eval", "loop"},
         NEW toks \in Expr, NEW prec \in 0 .. 6, NEW l \in Lexer
  PROVE  g[To(what, toks, prec, l)] \in Lexer /\ Heeds(g[To(what, toks, prec, l)], l)
<1>1. To(what, toks, prec, l) \in Calls
  BY ToType
<1>2. To(what, toks, prec, l).l = l
  BY DEF To
<1>. QED BY <1>1, <1>2 DEF Hears, Heeds

(* An operand that is parsed forgets no name. *)
LEMMA ParseHears ==
  ASSUME NEW env \in [Names \cup {LP} -> Meaning], NEW g \in [Calls -> Lexer], Hears(g),
         NEW toks \in Expr, NEW l \in Lexer
  PROVE  Heeds(parse(env, g, toks, l), l)
<1>. DEFINE tok == Curr(toks, l)
            next == nextToken(l)
            sub == g[To("_eval", toks, 0, next)]
            neg == g[To("parse", toks, 0, next)]
            is == env[tok.text]
            r == parse(env, g, toks, l)
<1>1. /\ next \in Lexer /\ Passes(next, l, l.pos + 1)
      /\ tok.type = "INT" => Passes(r, l, l.pos + 1)
      /\ tok.type = "SYMB" =>
           /\ tok.text \in Names \cup {LP} /\ is.expr \in Expr
           /\ \E saw \in Lexer :
                /\ saw.pos = 1 /\ saw.ok = l.ok /\ saw.trap = l.trap
                /\ Heard(saw) = Heard(l) \cup {tok.text}
                /\ IF is.def /\ is.isExpr
                   THEN Passes(r, g[To("_eval", is.expr, 0, saw)], l.pos + 1)
                   ELSE Passes(r, saw, l.pos + 1)
      /\ tok.type = "LPAREN" => \E p : Passes(r, sub, p)
      /\ tok.type = "OP" /\ tok.text \in {"-", "~"} => Passes(r, neg, neg.pos)
      /\ tok.type = "BAD" => r.trap
      /\ ~(tok.type \in {"INT", "SYMB", "LPAREN", "BAD"} \/ (tok.type = "OP" /\ tok.text \in {"-", "~"}))
              => Passes(r, l, l.pos)
  BY ParseDoes
<1>. HIDE DEF tok, next, is, r
<1>2. Heeds(sub, next) /\ Heeds(neg, next)
  BY <1>1, HearsOf
<1>3. CASE tok.type = "SYMB"
  <2>1. PICK saw \in Lexer :
           /\ saw.trap = l.trap /\ Heard(saw) = Heard(l) \cup {tok.text}
           /\ IF is.def /\ is.isExpr
              THEN Passes(r, g[To("_eval", is.expr, 0, saw)], l.pos + 1)
              ELSE Passes(r, saw, l.pos + 1)
    BY <1>1, <1>3
  <2>2. Heeds(g[To("_eval", is.expr, 0, saw)], saw)
    <3>. DEFINE x == is.expr
    <3>. HIDE DEF x
    <3>1. x \in Expr
      BY <1>1, <1>3 DEF x
    <3>2. Heeds(g[To("_eval", x, 0, saw)], saw)
      BY <3>1, HearsOf
    <3>. QED BY <3>2 DEF x
  <2>3. CASE is.def /\ is.isExpr
    BY <2>1, <2>2, <2>3 DEF Heeds, Passes, r
  <2>4. CASE ~(is.def /\ is.isExpr)
    BY <2>1, <2>4 DEF Heeds, Passes, r
  <2>. QED BY <2>3, <2>4
<1>. HIDE DEF sub, neg
<1>4. CASE tok.type = "LPAREN" \/ (tok.type = "OP" /\ tok.text \in {"-", "~"})
  BY <1>1, <1>2, <1>4 DEF Heeds, Passes, r
<1>5. CASE tok.type = "INT" \/ tok.type = "BAD" \/
           ~(tok.type \in {"INT", "SYMB", "LPAREN", "BAD"} \/ (tok.type = "OP" /\ tok.text \in {"-", "~"}))
  BY <1>1, <1>5 DEF Heeds, Passes, r
<1>. QED BY <1>3, <1>4, <1>5

(* Nor does an operator with the operand behind it. *)
LEMMA LoopHears ==
  ASSUME NEW g \in [Calls -> Lexer], Hears(g), NEW toks \in Expr, NEW prec \in 0 .. 6, NEW l \in Lexer
  PROVE  Heeds(loop(g, toks, prec, l), l)
<1>. DEFINE tok == Curr(toks, l)
            next == nextToken(l)
            p == OperandPrecedence(tok.text)
            one == g[To("_eval", toks, p, next)]
            r == loop(g, toks, prec, l)
            stops == l.trap \/ tok.type # "OP" \/ precedence(tok.text) <= prec
<1>1. /\ stops => r = l
      /\ ~stops =>
           /\ next \in Lexer /\ Passes(next, l, l.pos + 1) /\ p \in 0 .. 6 /\ one \in Lexer
           /\ \E sum \in Lexer :
                /\ r = g[To("loop", toks, prec, sum)]
                /\ sum.pos = one.pos /\ Heard(sum) = Heard(one) /\ (sum.ok => one.ok)
                /\ one.trap => sum.trap
                /\ ~one.ok => sum.trap = one.trap
  BY LoopDoes
<1>. HIDE DEF tok, next, p, r, stops
<1>2. CASE stops
  BY <1>1, <1>2 DEF Heeds, r
<1>3. CASE ~stops
  <2>1. Heeds(one, next)
    BY <1>1, <1>3, HearsOf
  <2>2. PICK sum \in Lexer : r = g[To("loop", toks, prec, sum)] /\ Heard(sum) = Heard(one) /\ (one.trap => sum.trap)
    BY <1>1, <1>3
  <2>3. Heeds(r, sum)
    BY <2>2, HearsOf
  <2>. HIDE DEF one
  <2>. QED BY <1>1, <1>3, <2>1, <2>2, <2>3 DEF Heeds, Passes, r
<1>. QED BY <1>2, <1>3

(* If the calls that it makes forget nothing, a call does not either. *)
LEMMA CallHears ==
  ASSUME NEW env \in [Names \cup {LP} -> Meaning], NEW g \in [Calls -> Lexer], Hears(g)
  PROVE  Hears(Call(env, g))
<1>. SUFFICES ASSUME NEW c \in Calls PROVE Heeds(Call(env, g)[c], c.l)
  BY DEF Hears, Heeds
<1>1. /\ c.what \in {"parse", "_eval", "loop"} /\ c.toks \in Expr /\ c.prec \in 0 .. 6 /\ c.l \in Lexer
      /\ c = To(c.what, c.toks, c.prec, c.l)
  BY DEF Calls, To
<1>2. CASE c.what = "parse"
  <2>1. Call(env, g)[c] = parse(env, g, c.toks, c.l)
    BY <1>1, <1>2, CallCases
  <2>. QED BY <1>1, <2>1, ParseHears
<1>3. CASE c.what = "loop"
  <2>1. Call(env, g)[c] = loop(g, c.toks, c.prec, c.l)
    BY <1>1, <1>3, CallCases
  <2>. QED BY <1>1, <2>1, LoopHears
<1>4. CASE c.what = "_eval"
  <2>. DEFINE first == g[To("parse", c.toks, 0, c.l)]
  <2>1. Call(env, g)[c] = g[To("loop", c.toks, c.prec, first)]
    BY <1>1, <1>4, CallCases
  <2>2. first \in Lexer /\ Heeds(first, c.l)
    BY <1>1, HearsOf
  <2>. HIDE DEF first
  <2>3. Heeds(g[To("loop", c.toks, c.prec, first)], first)
    BY <1>1, <2>2, HearsOf
  <2>. QED BY <2>1, <2>2, <2>3 DEF Heeds
<1>. QED BY <1>1, <1>2, <1>3, <1>4

(* Without room every call ends the process. *)
LEMMA NoRoom == \A c \in Calls : Overflow[c].trap = TRUE
<1>1. \A c \in Calls : Overflow[c] = [c.l EXCEPT !.trap = TRUE] /\ c.l \in Lexer
  BY DEF Overflow, Calls
<1>2. ASSUME NEW c \in Calls PROVE Overflow[c].trap = TRUE
  <2>. DEFINE m == c.l
  <2>1. m \in Lexer /\ Overflow[c] = [m EXCEPT !.trap = TRUE]
    BY <1>1
  <2>. HIDE DEF m
  <2>2. [m EXCEPT !.trap = TRUE].trap = TRUE
    BY <2>1, HeardChanges
  <2>. QED BY <2>1, <2>2
<1>. QED BY <1>2

(* Every evaluation. *)
LEMMA EvaluationHears ==
  ASSUME NEW env \in [Names \cup {LP} -> Meaning], NEW ev, Unfolds(env, ev)
  PROVE  \A n \in Nat : Hears(ev[n])
<1>. DEFINE T == {n \in Nat : Hears(ev[n])}
<1>1. 0 \in T
  BY NoRoom DEF Hears, Unfolds
<1>2. ASSUME NEW n \in Nat, n \in T PROVE n + 1 \in T
  <2>1. ev[n] \in [Calls -> Lexer] /\ ev[n + 1] = Call(env, ev[n]) /\ Hears(ev[n])
    BY <1>2 DEF Unfolds
  <2>. QED BY <2>1, CallHears
<1>3. Nat \subseteq T
  <2>. HIDE DEF T
  <2>. QED BY <1>1, <1>2, Induction
<1>. QED BY <1>3

-----------------------------------------------------------------------------
(* What an expression looks up by itself. *)

(* An evaluation that knows nothing, from which no value comes: what it    *)
(* looks up are the names of the expression, as far as it is parsed.       *)
Unheard == [n \in Names \cup {LP} |-> [def |-> FALSE, isExpr |-> FALSE, expr |-> << >>, value |-> 0]]
Blind == [pos |-> 1, val |-> 0, ok |-> FALSE, trap |-> FALSE, seen |-> << >>]
Looks(e) == Heard(Evaluation(Unheard)[To("_eval", e, 0, Blind)])

(* The states at the start of the two evaluations that are compared. *)
LEMMA BlindTypes ==
  /\ Unheard \in [Names \cup {LP} -> Meaning] /\ \A n \in Names \cup {LP} : ~Unheard[n].def
  /\ Blind \in Lexer /\ Blind.pos = 1 /\ ~Blind.ok /\ ~Blind.trap /\ Heard(Blind) = {}
  /\ Start \in Lexer /\ Start.pos = 1 /\ ~Start.trap /\ Heard(Start) = {}
<1>1. 0 \in Word /\ << >> \in Expr
  BY Words DEF Expr
<1>2. Unheard \in [Names \cup {LP} -> Meaning] /\ \A n \in Names \cup {LP} : ~Unheard[n].def
  BY <1>1 DEF Unheard, Meaning
<1>3. Blind \in Lexer /\ Start \in Lexer
  BY <1>1 DEF Blind, Start, Lexer
<1>4. Blind.seen = << >> /\ Start.seen = << >> /\ Blind.pos = 1 /\ Start.pos = 1
      /\ ~Blind.ok /\ ~Blind.trap /\ ~Start.trap
  BY DEF Blind, Start
<1>5. Heard(Blind) = {} /\ Heard(Start) = {}
  BY <1>4 DEF Heard
<1>. QED BY <1>2, <1>3, <1>4, <1>5

(* The names that are in an expression. *)
SymbolsOf(toks) == {toks[i].text : i \in {k \in 1 .. Len(toks) : toks[k].type = "SYMB"}}

(* A name that is read is in the expression. *)
LEMMA SymbolRead ==
  ASSUME NEW toks \in Expr, NEW l \in Lexer, Curr(toks, l).type = "SYMB"
  PROVE  Curr(toks, l).text \in SymbolsOf(toks)
<1>1. Len(toks) \in Nat /\ l.pos \in Nat \ {0}
  BY DEF Expr, Lexer
<1>2. END.type # "SYMB"
  BY DEF END, Tok
<1>3. l.pos \in 1 .. Len(toks) /\ Curr(toks, l) = toks[l.pos]
  BY <1>1, <1>2 DEF Curr
<1>. QED BY <1>3 DEF SymbolsOf

(* A call that knows nothing looks up only names of its expression.        *)
Inside(g) == \A c \in Calls : Heard(g[c]) \subseteq Heard(c.l) \cup SymbolsOf(c.toks)

(* A call within a call keeps to the names of its expression. *)
LEMMA InsideOf ==
  ASSUME NEW g \in [Calls -> Lexer], Inside(g), NEW what \in {"parse", "_eval", "loop"},
         NEW toks \in Expr, NEW prec \in 0 .. 6, NEW l \in Lexer
  PROVE  /\ g[To(what, toks, prec, l)] \in Lexer
         /\ Heard(g[To(what, toks, prec, l)]) \subseteq Heard(l) \cup SymbolsOf(toks)
<1>1. To(what, toks, prec, l) \in Calls
  BY ToType
<1>2. To(what, toks, prec, l).l = l /\ To(what, toks, prec, l).toks = toks
  BY DEF To
<1>. QED BY <1>1, <1>2 DEF Inside

(* If the calls that it makes keep to the expression, a call does too. *)
LEMMA CallInside ==
  ASSUME NEW g \in [Calls -> Lexer], Inside(g)
  PROVE  Inside(Call(Unheard, g))
<1>1. ASSUME NEW toks \in Expr, NEW l \in Lexer
      PROVE  Heard(parse(Unheard, g, toks, l)) \subseteq Heard(l) \cup SymbolsOf(toks)
  <2>. DEFINE tok == Curr(toks, l)
              next == nextToken(l)
              sub == g[To("_eval", toks, 0, next)]
              neg == g[To("parse", toks, 0, next)]
              is == Unheard[tok.text]
              r == parse(Unheard, g, toks, l)
  <2>1. /\ next \in Lexer /\ Passes(next, l, l.pos + 1)
        /\ tok.type = "INT" => Passes(r, l, l.pos + 1)
        /\ tok.type = "SYMB" =>
              /\ tok.text \in Names \cup {LP}
              /\ \E saw \in Lexer :
                   /\ saw.pos = 1 /\ saw.ok = l.ok /\ saw.trap = l.trap
                   /\ Heard(saw) = Heard(l) \cup {tok.text}
                   /\ IF is.def /\ is.isExpr
                      THEN Passes(r, g[To("_eval", is.expr, 0, saw)], l.pos + 1)
                      ELSE Passes(r, saw, l.pos + 1)
        /\ tok.type = "LPAREN" => \E p : Passes(r, sub, p)
        /\ tok.type = "OP" /\ tok.text \in {"-", "~"} => Passes(r, neg, neg.pos)
        /\ tok.type = "BAD" => r.trap /\ Heard(r) = Heard(l)
        /\ ~(tok.type \in {"INT", "SYMB", "LPAREN", "BAD"} \/ (tok.type = "OP" /\ tok.text \in {"-", "~"}))
                => Passes(r, l, l.pos)
    <3>. DEFINE env == Unheard
    <3>1. env \in [Names \cup {LP} -> Meaning]
      BY BlindTypes
    <3>. HIDE DEF env
    <3>. QED BY <3>1, ParseDoes DEF env
  <2>2. Heard(sub) \subseteq Heard(next) \cup SymbolsOf(toks)
        /\ Heard(neg) \subseteq Heard(next) \cup SymbolsOf(toks)
    <3>. HIDE DEF next
    <3>. QED BY <2>1, InsideOf
  <2>3. tok.type = "SYMB" => tok.text \in SymbolsOf(toks)
    BY SymbolRead
  <2>4. tok.type = "SYMB" => ~is.def
    BY <2>1, BlindTypes
  <2>. HIDE DEF tok, next, sub, neg, is, r
  <2>5. tok.type = "SYMB" => \E saw \in Lexer :
           Heard(saw) = Heard(l) \cup {tok.text} /\ Passes(r, saw, l.pos + 1)
    BY <2>1, <2>4
  <2>. QED BY <2>1, <2>2, <2>3, <2>5 DEF Passes, r
<1>2. ASSUME NEW toks \in Expr, NEW prec \in 0 .. 6, NEW l \in Lexer
      PROVE  Heard(loop(g, toks, prec, l)) \subseteq Heard(l) \cup SymbolsOf(toks)
  <2>. DEFINE tok == Curr(toks, l)
              next == nextToken(l)
              p == OperandPrecedence(tok.text)
              one == g[To("_eval", toks, p, next)]
              r == loop(g, toks, prec, l)
  <2>1. \/ r = l
        \/ /\ next \in Lexer /\ Passes(next, l, l.pos + 1) /\ p \in 0 .. 6 /\ one \in Lexer
           /\ \E sum \in Lexer : r = g[To("loop", toks, prec, sum)] /\ Heard(sum) = Heard(one)
    BY LoopDoes
  <2>. HIDE DEF tok, next, p, r
  <2>2. CASE r = l
    BY <2>2 DEF r
  <2>3. CASE r # l
    <3>1. Heard(one) \subseteq Heard(next) \cup SymbolsOf(toks)
      BY <2>1, <2>3, InsideOf
    <3>2. PICK sum \in Lexer : r = g[To("loop", toks, prec, sum)] /\ Heard(sum) = Heard(one)
      BY <2>1, <2>3
    <3>3. Heard(r) \subseteq Heard(sum) \cup SymbolsOf(toks)
      BY <3>2, InsideOf
    <3>. HIDE DEF one
    <3>. QED BY <2>1, <2>3, <3>1, <3>2, <3>3 DEF Passes, r
  <2>. QED BY <2>2, <2>3
<1>. SUFFICES ASSUME NEW c \in Calls
              PROVE  Heard(Call(Unheard, g)[c]) \subseteq Heard(c.l) \cup SymbolsOf(c.toks)
  BY DEF Inside
<1>3. /\ c.what \in {"parse", "_eval", "loop"} /\ c.toks \in Expr /\ c.prec \in 0 .. 6 /\ c.l \in Lexer
      /\ c = To(c.what, c.toks, c.prec, c.l)
  BY DEF Calls, To
<1>4. CASE c.what = "parse"
  <2>1. Call(Unheard, g)[c] = parse(Unheard, g, c.toks, c.l)
    BY <1>3, <1>4, CallCases
  <2>. QED BY <1>1, <1>3, <2>1
<1>5. CASE c.what = "loop"
  <2>1. Call(Unheard, g)[c] = loop(g, c.toks, c.prec, c.l)
    BY <1>3, <1>5, CallCases
  <2>. QED BY <1>2, <1>3, <2>1
<1>6. CASE c.what = "_eval"
  <2>. DEFINE first == g[To("parse", c.toks, 0, c.l)]
  <2>1. Call(Unheard, g)[c] = g[To("loop", c.toks, c.prec, first)]
    BY <1>3, <1>6, CallCases
  <2>2. first \in Lexer /\ Heard(first) \subseteq Heard(c.l) \cup SymbolsOf(c.toks)
    BY <1>3, InsideOf
  <2>. HIDE DEF first
  <2>3. Heard(g[To("loop", c.toks, c.prec, first)]) \subseteq Heard(first) \cup SymbolsOf(c.toks)
    BY <1>3, <2>2, InsideOf
  <2>. QED BY <2>1, <2>2, <2>3
<1>. QED BY <1>3, <1>4, <1>5, <1>6

(* Only names of the expression are looked up in it.                       *)
LEMMA LooksInside ==
  ASSUME NEW e \in Expr
  PROVE  Looks(e) \subseteq SymbolsOf(e)
<1>1. PICK ev : Unfolds(Unheard, ev)
  BY BlindTypes, EvaluationUnfolded
<1>. DEFINE T == {n \in Nat : Inside(ev[n])}
<1>2. 0 \in T
  <2>1. \A c \in Calls : Overflow[c] = [c.l EXCEPT !.trap = TRUE] /\ c.l \in Lexer
    BY DEF Overflow, Calls
  <2>2. ASSUME NEW c \in Calls PROVE Heard(Overflow[c]) = Heard(c.l)
    <3>. DEFINE m == c.l
    <3>1. m \in Lexer /\ Overflow[c] = [m EXCEPT !.trap = TRUE]
      BY <2>1
    <3>. HIDE DEF m
    <3>2. Heard([m EXCEPT !.trap = TRUE]) = Heard(m)
      BY <3>1, HeardChanges
    <3>. QED BY <3>1, <3>2 DEF m
  <2>. QED BY <1>1, <2>2 DEF Inside, Unfolds
<1>3. ASSUME NEW n \in Nat, n \in T PROVE n + 1 \in T
  <2>1. ev[n] \in [Calls -> Lexer] /\ ev[n + 1] = Call(Unheard, ev[n]) /\ Inside(ev[n])
    BY <1>1, <1>3 DEF Unfolds
  <2>. QED BY <2>1, CallInside
<1>4. Nat \subseteq T
  <2>. HIDE DEF T
  <2>. QED BY <1>2, <1>3, Induction
<1>5. Evaluation(Unheard) \in [Calls -> Lexer] /\ Inside(Evaluation(Unheard))
  BY <1>1, <1>4, MaxCallsAssumption DEF Unfolds
<1>6. Heard(Evaluation(Unheard)[To("_eval", e, 0, Blind)]) \subseteq Heard(Blind) \cup SymbolsOf(e)
  BY <1>5, BlindTypes, InsideOf
<1>. QED BY <1>6, BlindTypes DEF Looks

(* The state k of an evaluation that knows nothing is where the state l    *)
(* is, and has looked up the same names but for those of xs.               *)
Follows(xs, l, k) ==
  ~l.trap => /\ ~k.trap /\ ~k.ok /\ l.pos = k.pos
             /\ Heard(k) \subseteq Heard(l) /\ Heard(l) \subseteq Heard(k) \cup xs

(* The names of the expressions that names stand for.                      *)
Nested(env) == UNION {Looks(env[n].expr) : n \in {m \in Names \cup {LP} : env[m].def /\ env[m].isExpr}}

(* Each call of the evaluation g is followed by the same call of b. *)
AllFollow(env, g, b) ==
  \A xs : Nested(env) \subseteq xs =>
    \A what \in {"parse", "_eval", "loop"} : \A toks \in Expr : \A prec \in 0 .. 6 : \A l, k \in Lexer :
      Follows(xs, l, k) => Follows(xs, g[To(what, toks, prec, l)], b[To(what, toks, prec, k)])

(* The lexers stay together when both read on. *)
LEMMA PassesFollow ==
  ASSUME NEW xs, NEW l, NEW k, NEW r, NEW s, NEW p, NEW q, Follows(xs, l, k),
         Passes(r, l, p), Passes(s, k, q), ~l.trap => p = q
  PROVE  Follows(xs, r, s)
  BY DEF Passes, Follows

(* The same token is read. *)
LEMMA SameToken ==
  ASSUME NEW xs, NEW l, NEW k, NEW toks, Follows(xs, l, k), ~l.trap
  PROVE  Curr(toks, l) = Curr(toks, k)
  BY DEF Follows, Curr

(* An operand; full: a complete evaluation that knows nothing.             *)
LEMMA ParseFollows ==
  ASSUME NEW env \in [Names \cup {LP} -> Meaning], NEW g \in [Calls -> Lexer], Hears(g),
         NEW b \in [Calls -> Lexer], AllFollow(env, g, b), AllFollow(env, g, Evaluation(Unheard)),
         NEW xs, Nested(env) \subseteq xs, NEW toks \in Expr, NEW l \in Lexer, NEW k \in Lexer,
         Follows(xs, l, k)
  PROVE  Follows(xs, parse(env, g, toks, l), parse(Unheard, b, toks, k))
<1>. DEFINE tok == Curr(toks, l)
            r == parse(env, g, toks, l)
            s == parse(Unheard, b, toks, k)
            ln == nextToken(l)
            kn == nextToken(k)
            lsub == g[To("_eval", toks, 0, ln)]
            ksub == b[To("_eval", toks, 0, kn)]
            lneg == g[To("parse", toks, 0, ln)]
            kneg == b[To("parse", toks, 0, kn)]
            is == env[tok.text]
            un == Unheard[Curr(toks, k).text]
<1>. SUFFICES ASSUME ~r.trap PROVE Follows(xs, r, s)
  BY DEF Follows
<1>1. ~l.trap /\ Heard(l) \subseteq Heard(r)
  BY ParseHears DEF Heeds
<1>2. Curr(toks, k) = tok /\ l.pos = k.pos /\ ~k.trap /\ ~k.ok
  BY <1>1, SameToken DEF Follows
<1>3. /\ ln \in Lexer /\ Passes(ln, l, l.pos + 1) /\ lsub \in Lexer /\ lneg \in Lexer
      /\ tok.type = "INT" => Passes(r, l, l.pos + 1)
      /\ tok.type = "SYMB" =>
           /\ tok.text \in Names \cup {LP} /\ is.expr \in Expr
           /\ \E saw \in Lexer :
                /\ saw.pos = 1 /\ saw.ok = l.ok /\ saw.trap = l.trap
                /\ Heard(saw) = Heard(l) \cup {tok.text}
                /\ IF is.def /\ is.isExpr
                   THEN Passes(r, g[To("_eval", is.expr, 0, saw)], l.pos + 1)
                   ELSE Passes(r, saw, l.pos + 1)
      /\ tok.type = "LPAREN" =>
           Passes(r, lsub, IF Curr(toks, lsub).type = "RPAREN" THEN lsub.pos + 1 ELSE lsub.pos)
      /\ tok.type = "OP" /\ tok.text \in {"-", "~"} => Passes(r, lneg, lneg.pos)
      /\ tok.type = "BAD" => r.trap
      /\ ~(tok.type \in {"INT", "SYMB", "LPAREN", "BAD"} \/ (tok.type = "OP" /\ tok.text \in {"-", "~"}))
              => Passes(r, l, l.pos)
  BY ParseDoes
<1>4. LET t == Curr(toks, k) IN
      /\ kn \in Lexer /\ Passes(kn, k, k.pos + 1) /\ ksub \in Lexer /\ kneg \in Lexer
      /\ t.type = "INT" => Passes(s, k, k.pos + 1)
      /\ t.type = "SYMB" =>
           /\ t.text \in Names \cup {LP} /\ un.expr \in Expr
           /\ \E saw \in Lexer :
                /\ saw.pos = 1 /\ saw.ok = k.ok /\ saw.trap = k.trap
                /\ Heard(saw) = Heard(k) \cup {t.text}
                /\ IF un.def /\ un.isExpr
                   THEN Passes(s, b[To("_eval", un.expr, 0, saw)], k.pos + 1)
                   ELSE Passes(s, saw, k.pos + 1)
      /\ t.type = "LPAREN" =>
           Passes(s, ksub, IF Curr(toks, ksub).type = "RPAREN" THEN ksub.pos + 1 ELSE ksub.pos)
      /\ t.type = "OP" /\ t.text \in {"-", "~"} => Passes(s, kneg, kneg.pos)
      /\ ~(t.type \in {"INT", "SYMB", "LPAREN", "BAD"} \/ (t.type = "OP" /\ t.text \in {"-", "~"}))
              => Passes(s, k, k.pos)
  <2>. DEFINE e == Unheard
  <2>1. e \in [Names \cup {LP} -> Meaning]
    BY BlindTypes
  <2>. HIDE DEF e
  <2>. QED BY <2>1, ParseDoes DEF e
<1>5. Follows(xs, ln, kn)
  <2>. HIDE DEF ln, kn
  <2>. QED BY <1>2, <1>3, <1>4, PassesFollow
<1>6. Follows(xs, lsub, ksub) /\ Follows(xs, lneg, kneg)
  <2>1. 0 \in 0 .. 6
    OBVIOUS
  <2>. HIDE DEF ln, kn
  <2>. QED BY <1>3, <1>4, <1>5, <2>1 DEF AllFollow
<1>. HIDE DEF r, s, ln, kn, is, un
<1>7. CASE tok.type = "SYMB"
  <2>. DEFINE name == tok.text
  <2>1. ~un.def /\ name \in Names \cup {LP}
    BY <1>2, <1>3, <1>7, BlindTypes DEF un
  <2>2. PICK lsaw \in Lexer :
                /\ lsaw.pos = 1 /\ lsaw.ok = l.ok /\ lsaw.trap = l.trap
                /\ Heard(lsaw) = Heard(l) \cup {name}
                /\ IF is.def /\ is.isExpr
                   THEN Passes(r, g[To("_eval", is.expr, 0, lsaw)], l.pos + 1)
                   ELSE Passes(r, lsaw, l.pos + 1)
    BY <1>3, <1>7
  <2>3. PICK ksaw \in Lexer :
                /\ ksaw.pos = 1 /\ ksaw.ok = k.ok /\ ksaw.trap = k.trap
                /\ Heard(ksaw) = Heard(k) \cup {name}
                /\ Passes(s, ksaw, k.pos + 1)
    <3>. DEFINE t == Curr(toks, k)
    <3>1. t.type = "SYMB" /\ t.text = name
      BY <1>2, <1>7
    <3>. HIDE DEF t, name, tok
    <3>2. \E saw \in Lexer :
             /\ saw.pos = 1 /\ saw.ok = k.ok /\ saw.trap = k.trap
             /\ Heard(saw) = Heard(k) \cup {name}
             /\ IF un.def /\ un.isExpr
                THEN Passes(s, b[To("_eval", un.expr, 0, saw)], k.pos + 1)
                ELSE Passes(s, saw, k.pos + 1)
      BY <1>4, <3>1 DEF t
    <3>. QED BY <2>1, <3>2
  <2>. HIDE DEF tok, name
  <2>4. Heard(k) \subseteq Heard(l) /\ Heard(l) \subseteq Heard(k) \cup xs
    BY <1>1 DEF Follows
  <2>5. CASE ~(is.def /\ is.isExpr)
    <3>1. Passes(r, lsaw, l.pos + 1)
      BY <2>2, <2>5
    <3>. QED BY <1>2, <2>2, <2>3, <2>4, <3>1 DEF Follows, Passes
  <2>6. CASE is.def /\ is.isExpr
    <3>. DEFINE x == is.expr
                inner == g[To("_eval", x, 0, lsaw)]
                full == Evaluation(Unheard)
                alone == full[To("_eval", x, 0, Blind)]
                ys == xs \cup Heard(lsaw)
    <3>1. Passes(r, inner, l.pos + 1)
      BY <2>2, <2>6
    <3>2. x \in Expr
      BY <1>3, <1>7
    <3>3. Looks(x) \subseteq xs
      BY <2>1, <2>6 DEF Nested, is, name
    <3>4. Heard(lsaw) \subseteq Heard(inner)
      <4>1. Heeds(inner, lsaw)
        <5>. HIDE DEF x
        <5>. QED BY <3>2, HearsOf
      <4>. QED BY <3>1, <4>1 DEF Heeds, Passes
    <3>5. Follows(ys, lsaw, Blind)
      BY <2>2, BlindTypes DEF Follows
    <3>6. Follows(ys, inner, alone)
      <4>1. 0 \in 0 .. 6 /\ Nested(env) \subseteq ys
        OBVIOUS
      <4>. HIDE DEF x, ys, full
      <4>. QED BY <3>2, <3>5, <4>1, BlindTypes DEF AllFollow, full
    <3>7. Heard(alone) = Looks(x)
      BY DEF Looks
    <3>. HIDE DEF inner, alone, x
    <3>8. Heard(inner) \subseteq Looks(x) \cup xs \cup Heard(lsaw)
      BY <3>1, <3>6, <3>7 DEF Follows, Passes
    <3>. QED BY <1>2, <2>2, <2>3, <2>4, <3>1, <3>3, <3>4, <3>8 DEF Follows, Passes
  <2>. QED BY <2>5, <2>6
<1>8. CASE tok.type = "LPAREN"
  <2>. DEFINE p == IF Curr(toks, lsub).type = "RPAREN" THEN lsub.pos + 1 ELSE lsub.pos
              q == IF Curr(toks, ksub).type = "RPAREN" THEN ksub.pos + 1 ELSE ksub.pos
  <2>1. Passes(r, lsub, p) /\ Passes(s, ksub, q)
    BY <1>2, <1>3, <1>4, <1>8
  <2>. HIDE DEF lsub, ksub
  <2>2. ~lsub.trap => p = q
    <3>1. ~lsub.trap => Curr(toks, lsub) = Curr(toks, ksub)
      BY <1>6, SameToken
    <3>. QED BY <1>6, <3>1 DEF Follows
  <2>. HIDE DEF p, q
  <2>. QED BY <1>6, <2>1, <2>2, PassesFollow
<1>9. CASE tok.type = "OP" /\ tok.text \in {"-", "~"}
  <2>1. Passes(r, lneg, lneg.pos) /\ Passes(s, kneg, kneg.pos)
    BY <1>2, <1>3, <1>4, <1>9
  <2>. HIDE DEF lneg, kneg
  <2>. QED BY <1>6, <2>1, PassesFollow DEF Follows
<1>10. CASE ~(tok.type \in {"SYMB", "LPAREN"} \/ (tok.type = "OP" /\ tok.text \in {"-", "~"}))
  <2>1. \E p : Passes(r, l, p) /\ Passes(s, k, p)
    BY <1>2, <1>3, <1>4, <1>10
  <2>. QED BY <2>1, PassesFollow
<1>. QED BY <1>7, <1>8, <1>9, <1>10

(* The rest of an expression. *)
LEMMA LoopFollows ==
  ASSUME NEW env \in [Names \cup {LP} -> Meaning], NEW g \in [Calls -> Lexer], Hears(g),
         NEW b \in [Calls -> Lexer], AllFollow(env, g, b),
         NEW xs, Nested(env) \subseteq xs, NEW toks \in Expr, NEW prec \in 0 .. 6,
         NEW l \in Lexer, NEW k \in Lexer, Follows(xs, l, k)
  PROVE  Follows(xs, loop(g, toks, prec, l), loop(b, toks, prec, k))
<1>. DEFINE tok == Curr(toks, l)
            t == Curr(toks, k)
            r == loop(g, toks, prec, l)
            s == loop(b, toks, prec, k)
            ln == nextToken(l)
            kn == nextToken(k)
            p == OperandPrecedence(tok.text)
            q == OperandPrecedence(t.text)
            lone == g[To("_eval", toks, p, ln)]
            kone == b[To("_eval", toks, q, kn)]
            stops == tok.type # "OP" \/ precedence(tok.text) <= prec
<1>. SUFFICES ASSUME ~r.trap PROVE Follows(xs, r, s)
  BY DEF Follows
<1>1. ~l.trap
  BY LoopHears DEF Heeds
<1>2. t = tok /\ l.pos = k.pos /\ ~k.trap /\ ~k.ok
  BY <1>1, SameToken DEF Follows
<1>3. IF stops THEN r = l
      ELSE /\ ln \in Lexer /\ Passes(ln, l, l.pos + 1) /\ p \in 0 .. 6 /\ lone \in Lexer
           /\ \E sum \in Lexer :
                /\ r = g[To("loop", toks, prec, sum)]
                /\ sum.pos = lone.pos /\ Heard(sum) = Heard(lone) /\ (sum.ok => lone.ok)
                /\ lone.trap => sum.trap
                /\ ~lone.ok => sum.trap = lone.trap
  BY <1>1, LoopDoes
<1>4. IF stops THEN s = k
      ELSE /\ kn \in Lexer /\ Passes(kn, k, k.pos + 1) /\ q \in 0 .. 6 /\ kone \in Lexer
           /\ \E sum \in Lexer :
                /\ s = b[To("loop", toks, prec, sum)]
                /\ sum.pos = kone.pos /\ Heard(sum) = Heard(kone) /\ (sum.ok => kone.ok)
                /\ kone.trap => sum.trap
                /\ ~kone.ok => sum.trap = kone.trap
  <2>. DEFINE halts == k.trap \/ t.type # "OP" \/ precedence(t.text) <= prec
  <2>1. IF halts THEN s = k
        ELSE /\ kn \in Lexer /\ Passes(kn, k, k.pos + 1) /\ q \in 0 .. 6 /\ kone \in Lexer
             /\ \E sum \in Lexer :
                  /\ s = b[To("loop", toks, prec, sum)]
                  /\ sum.pos = kone.pos /\ Heard(sum) = Heard(kone) /\ (sum.ok => kone.ok)
                  /\ kone.trap => sum.trap
                  /\ ~kone.ok => sum.trap = kone.trap
    BY LoopDoes
  <2>2. halts = stops
    BY <1>2
  <2>. HIDE DEF t, s, kn, q, kone, stops, halts
  <2>. QED BY <2>1, <2>2
<1>5. p = q
  BY <1>2
<1>. HIDE DEF tok, t, r, s, ln, kn, p, q, stops
<1>6. CASE stops
  BY <1>3, <1>4, <1>6
<1>7. CASE ~stops
  <2>1. Follows(xs, ln, kn)
    BY <1>2, <1>3, <1>4, <1>7, PassesFollow
  <2>2. Follows(xs, lone, kone)
    BY <1>3, <1>4, <1>5, <1>7, <2>1 DEF AllFollow
  <2>3. PICK x \in Lexer : /\ r = g[To("loop", toks, prec, x)]
                           /\ x.pos = lone.pos /\ Heard(x) = Heard(lone) /\ (lone.trap => x.trap)
    BY <1>3, <1>7
  <2>4. PICK y \in Lexer : /\ s = b[To("loop", toks, prec, y)]
                           /\ y.pos = kone.pos /\ Heard(y) = Heard(kone) /\ (y.ok => kone.ok)
                           /\ (~kone.ok => y.trap = kone.trap)
    BY <1>4, <1>7
  <2>. HIDE DEF lone, kone
  <2>5. Follows(xs, x, y)
    BY <2>2, <2>3, <2>4 DEF Follows
  <2>. QED BY <2>3, <2>4, <2>5 DEF AllFollow
<1>. QED BY <1>6, <1>7

(* One more call on both sides: b is one that knows no name.              *)
LEMMA CallFollows ==
  ASSUME NEW env \in [Names \cup {LP} -> Meaning], NEW g \in [Calls -> Lexer], Hears(g),
         NEW b \in [Calls -> Lexer], AllFollow(env, g, b), AllFollow(env, g, Evaluation(Unheard))
  PROVE  AllFollow(env, Call(env, g), Call(Unheard, b))
<1>. SUFFICES ASSUME NEW xs, Nested(env) \subseteq xs, NEW what \in {"parse", "_eval", "loop"},
                     NEW toks \in Expr, NEW prec \in 0 .. 6, NEW l \in Lexer, NEW k \in Lexer,
                     Follows(xs, l, k)
              PROVE  Follows(xs, Call(env, g)[To(what, toks, prec, l)], Call(Unheard, b)[To(what, toks, prec, k)])
  BY DEF AllFollow
<1>1. CASE what = "parse"
  <2>1. /\ Call(env, g)[To(what, toks, prec, l)] = parse(env, g, toks, l)
        /\ Call(Unheard, b)[To(what, toks, prec, k)] = parse(Unheard, b, toks, k)
    BY <1>1, CallCases
  <2>. QED BY <2>1, ParseFollows
<1>2. CASE what = "loop"
  <2>1. /\ Call(env, g)[To(what, toks, prec, l)] = loop(g, toks, prec, l)
        /\ Call(Unheard, b)[To(what, toks, prec, k)] = loop(b, toks, prec, k)
    BY <1>2, CallCases
  <2>. QED BY <2>1, LoopFollows
<1>3. CASE what = "_eval"
  <2>. DEFINE x == g[To("parse", toks, 0, l)]
              y == b[To("parse", toks, 0, k)]
  <2>1. /\ Call(env, g)[To(what, toks, prec, l)] = g[To("loop", toks, prec, x)]
        /\ Call(Unheard, b)[To(what, toks, prec, k)] = b[To("loop", toks, prec, y)]
    BY <1>3, CallCases
  <2>2. Follows(xs, x, y) /\ x \in Lexer /\ y \in Lexer
    <3>1. 0 \in 0 .. 6 /\ To("parse", toks, 0, l) \in Calls /\ To("parse", toks, 0, k) \in Calls
      BY ToType
    <3>. QED BY <3>1 DEF AllFollow
  <2>. HIDE DEF x, y
  <2>. QED BY <2>1, <2>2 DEF AllFollow
<1>. QED BY <1>1, <1>2, <1>3

(* What an evaluation looks up: the names of the expression, as far as it  *)
(* is parsed, and names of the expressions that names stand for.           *)
LEMMA EvalLooks ==
  ASSUME NEW env \in [Names \cup {LP} -> Meaning], NEW e \in Expr, ~Eval(e, env).trap
  PROVE  /\ Looks(e) \subseteq Heard(Eval(e, env))
         /\ Heard(Eval(e, env)) \subseteq Looks(e) \cup Nested(env)
<1>1. PICK ev : Unfolds(env, ev)
  BY EvaluationUnfolded
<1>2. PICK bl : Unfolds(Unheard, bl)
  BY BlindTypes, EvaluationUnfolded
<1>3. MaxCalls \in Nat /\ Evaluation(env) = ev[MaxCalls] /\ Evaluation(Unheard) = bl[MaxCalls]
  BY <1>1, <1>2, MaxCallsAssumption DEF Unfolds
<1>. DEFINE T == {n \in Nat : \A m \in n .. MaxCalls : AllFollow(env, ev[n], bl[m])}
<1>4. 0 \in T
  <2>1. \A c \in Calls : ev[0][c].trap
    <3>1. \A c \in Calls : Overflow[c] = [c.l EXCEPT !.trap = TRUE] /\ c.l \in Lexer
      BY DEF Overflow, Calls
    <3>2. TAKE c \in Calls
    <3>. DEFINE m == c.l
    <3>3. m \in Lexer /\ ev[0][c] = [m EXCEPT !.trap = TRUE]
      BY <1>1, <3>1 DEF Unfolds
    <3>. HIDE DEF m
    <3>. QED BY <3>3, HeardChanges
  <2>2. \A b : AllFollow(env, ev[0], b)
    BY <2>1, ToType DEF AllFollow, Follows
  <2>. QED BY <2>2
<1>5. ASSUME NEW n \in Nat, n \in T PROVE n + 1 \in T
  <2>1. ASSUME NEW m \in n + 1 .. MaxCalls PROVE AllFollow(env, ev[n + 1], bl[m])
    <3>1. m - 1 \in n .. MaxCalls /\ MaxCalls \in n .. MaxCalls /\ m - 1 \in Nat /\ (m - 1) + 1 = m
      BY <1>3
    <3>2. ev[n] \in [Calls -> Lexer] /\ ev[n + 1] = Call(env, ev[n])
      BY <1>1 DEF Unfolds
    <3>3. bl[m - 1] \in [Calls -> Lexer] /\ bl[m] = Call(Unheard, bl[m - 1])
      BY <1>2, <3>1 DEF Unfolds
    <3>4. Hears(ev[n])
      BY <1>1, EvaluationHears
    <3>5. AllFollow(env, ev[n], bl[m - 1]) /\ AllFollow(env, ev[n], Evaluation(Unheard))
      BY <1>3, <1>5, <3>1
    <3>. QED BY <3>2, <3>3, <3>4, <3>5, CallFollows
  <2>. QED BY <2>1
<1>6. AllFollow(env, Evaluation(env), Evaluation(Unheard))
  <2>1. Nat \subseteq T
    <3>. HIDE DEF T
    <3>. QED BY <1>4, <1>5, Induction
  <2>2. MaxCalls \in MaxCalls .. MaxCalls
    BY <1>3
  <2>. QED BY <1>3, <2>1, <2>2
<1>. DEFINE xs == Nested(env)
            r == Eval(e, env)
            s == Evaluation(Unheard)[To("_eval", e, 0, Blind)]
<1>7. Follows(xs, Start, Blind)
  BY BlindTypes DEF Follows
<1>8. Follows(xs, r, s)
  <2>1. 0 \in 0 .. 6 /\ Nested(env) \subseteq xs
    OBVIOUS
  <2>. HIDE DEF xs
  <2>. QED BY <1>6, <1>7, <2>1, BlindTypes DEF AllFollow, Eval
<1>9. Heard(s) = Looks(e)
  BY DEF Looks
<1>. HIDE DEF r, s
<1>. QED BY <1>8, <1>9 DEF Follows, r

-----------------------------------------------------------------------------
(* More room. *)

(* What does not run out of room in g has the same result in h.            *)
Extends(g, h) == \A c \in Calls : ~g[c].trap => h[c] = g[c]

LEMMA ExtendsOf ==
  ASSUME NEW g \in [Calls -> Lexer], NEW h \in [Calls -> Lexer], Extends(g, h),
         NEW what \in {"parse", "_eval", "loop"}, NEW toks \in Expr, NEW prec \in 0 .. 6, NEW l \in Lexer
  PROVE  LET r == g[To(what, toks, prec, l)] IN
         r \in Lexer /\ (~r.trap => h[To(what, toks, prec, l)] = r)
<1>1. To(what, toks, prec, l) \in Calls
  BY ToType
<1>. QED BY <1>1 DEF Extends

(* An operand is the same if the calls that it makes are. *)
LEMMA ParseExtends ==
  ASSUME NEW env \in [Names \cup {LP} -> Meaning], NEW g \in [Calls -> Lexer], NEW h \in [Calls -> Lexer],
         Extends(g, h), NEW toks \in Expr, NEW l \in Lexer, ~parse(env, g, toks, l).trap
  PROVE  parse(env, h, toks, l) = parse(env, g, toks, l)
<1>. DEFINE tok == Curr(toks, l)
            next == nextToken(l)
            is == env[tok.text]
            saw == [next EXCEPT !.seen = Append(@, tok.text)]
            from == [saw EXCEPT !.pos = 1]
            sub(f) == f[To("_eval", toks, 0, next)]
            neg(f) == f[To("parse", toks, 0, next)]
            inner(f) == f[To("_eval", is.expr, 0, from)]
            r(f) == parse(env, f, toks, l)
<1>1. next \in Lexer
  BY LexerSteps
<1>2. /\ sub(g) \in Lexer /\ (~sub(g).trap => sub(h) = sub(g))
      /\ neg(g) \in Lexer /\ (~neg(g).trap => neg(h) = neg(g))
  <2>. HIDE DEF next
  <2>. QED BY <1>1, ExtendsOf
<1>3. CASE tok.type = "SYMB"
  <2>1. tok.text \in Names \cup {LP} /\ is.expr \in Expr
    BY <1>3, CurrType DEF Meaning
  <2>2. from \in Lexer
    <3>1. saw \in Lexer
      <4>. DEFINE name == tok.text
      <4>. HIDE DEF next, name
      <4>1. [next EXCEPT !.seen = Append(@, name)] \in Lexer
        BY <1>1, <2>1, LexerSteps DEF name
      <4>. QED BY <4>1 DEF name
    <3>2. 1 \in Nat \ {0}
      OBVIOUS
    <3>. HIDE DEF saw
    <3>. QED BY <3>1, <3>2, LexerSteps
  <2>3. inner(g) \in Lexer /\ (~inner(g).trap => inner(h) = inner(g))
    <3>. DEFINE x == is.expr
    <3>. HIDE DEF from, x
    <3>1. x \in Expr /\ from \in Lexer
      BY <2>1, <2>2 DEF x
    <3>2. LET c == To("_eval", x, 0, from) IN g[c] \in Lexer /\ (~g[c].trap => h[c] = g[c])
      BY <3>1, ExtendsOf
    <3>. QED BY <3>2 DEF x
  <2>4. \A f : r(f) = IF ~is.def THEN CannotEval(saw)
                      ELSE IF ~is.isExpr THEN [saw EXCEPT !.val = is.value]
                      ELSE [inner(f) EXCEPT !.pos = saw.pos]
    BY <1>3 DEF parse
  <2>5. [inner(g) EXCEPT !.pos = saw.pos].trap = inner(g).trap
    <3>. HIDE DEF inner, saw
    <3>. QED BY <2>3, HeardChanges DEF Passes
  <2>. HIDE DEF inner, saw, is
  <2>6. CASE is.def /\ is.isExpr
    BY <2>3, <2>4, <2>5, <2>6
  <2>7. CASE ~(is.def /\ is.isExpr)
    BY <2>4, <2>7
  <2>. QED BY <2>6, <2>7
<1>4. CASE tok.type = "LPAREN"
  <2>1. \A f : r(f) = IF Curr(toks, sub(f)).type = "RPAREN" THEN nextToken(sub(f)) ELSE CannotEval(sub(f))
    BY <1>4 DEF parse
  <2>2. nextToken(sub(g)).trap = sub(g).trap /\ CannotEval(sub(g)).trap = sub(g).trap
    <3>. HIDE DEF sub
    <3>. QED BY <1>2, HeardSteps DEF Passes
  <2>. HIDE DEF sub
  <2>. QED BY <1>2, <2>1, <2>2
<1>5. CASE tok.type = "OP" /\ tok.text \in {"-", "~"}
  <2>1. \A f : r(f) = IF neg(f).ok THEN [neg(f) EXCEPT !.val = Unary(tok.text, @)] ELSE CannotEval(neg(f))
    BY <1>5 DEF parse
  <2>2. \A v : [neg(g) EXCEPT !.val = v].trap = neg(g).trap
    <3>. HIDE DEF neg
    <3>. QED BY <1>2, HeardChanges DEF Passes
  <2>3. [neg(g) EXCEPT !.val = Unary(tok.text, @)].trap = neg(g).trap /\ CannotEval(neg(g)).trap = neg(g).trap
    <3>. HIDE DEF neg
    <3>. QED BY <1>2, <2>2, HeardSteps DEF Passes
  <2>. HIDE DEF neg
  <2>. QED BY <1>2, <2>1, <2>3
<1>6. CASE tok.type \notin {"SYMB", "LPAREN"} /\ ~(tok.type = "OP" /\ tok.text \in {"-", "~"})
  BY <1>6 DEF parse
<1>. QED BY <1>3, <1>4, <1>5, <1>6

(* So is the rest of an expression. *)
LEMMA LoopExtends ==
  ASSUME NEW g \in [Calls -> Lexer], Hears(g), NEW h \in [Calls -> Lexer],
         Extends(g, h), NEW toks \in Expr, NEW prec \in 0 .. 6, NEW l \in Lexer, ~loop(g, toks, prec, l).trap
  PROVE  loop(h, toks, prec, l) = loop(g, toks, prec, l)
<1>. DEFINE tok == Curr(toks, l)
            next == nextToken(l)
            p == OperandPrecedence(tok.text)
            one(f) == f[To("_eval", toks, p, next)]
            sum(f) == IF ~one(f).ok \/ one(f).trap THEN one(f)
                      ELSE IF Traps(tok.text, l.val, one(f).val) THEN [one(f) EXCEPT !.trap = TRUE]
                      ELSE [one(f) EXCEPT !.val = Apply(tok.text, l.val, one(f).val)]
            r(f) == loop(f, toks, prec, l)
            stops == l.trap \/ tok.type # "OP" \/ precedence(tok.text) <= prec
<1>1. \A f : r(f) = IF stops THEN l ELSE f[To("loop", toks, prec, sum(f))]
  BY DEF loop
<1>2. CASE ~stops
  <2>1. next \in Lexer /\ p \in 0 .. 6 /\ one(g) \in Lexer
    BY <1>2, LoopDoes
  <2>2. ~one(g).trap => one(h) = one(g)
    <3>. HIDE DEF next, p
    <3>. QED BY <2>1, ExtendsOf
  <2>3. sum(g) \in Lexer /\ (one(g).trap => sum(g).trap)
    <3>1. tok.text \in Operators /\ l.val \in Word
      <4>1. precedence(tok.text) \in Int
        BY DEF precedence
      <4>2. tok.text \in Operators
        BY <1>2, <4>1, PrecedenceType
      <4>. QED BY <4>2, LexerSteps
    <3>. DEFINE x == one(g)
    <3>2. x \in Lexer /\ x.val \in Word
      BY <2>1, LexerSteps
    <3>. HIDE DEF x
    <3>3. ~Traps(tok.text, l.val, x.val) => Apply(tok.text, l.val, x.val) \in Word
      BY <3>1, <3>2, ApplyType
    <3>4. /\ ~Traps(tok.text, l.val, x.val) => [x EXCEPT !.val = Apply(tok.text, l.val, x.val)] \in Lexer
          /\ [x EXCEPT !.trap = TRUE] \in Lexer
      BY <3>2, <3>3, LexerSteps
    <3>. QED BY <3>2, <3>4 DEF x
  <2>4. LET s == g[To("loop", toks, prec, sum(g))] IN
        s \in Lexer /\ Heeds(s, sum(g)) /\ (~s.trap => h[To("loop", toks, prec, sum(g))] = s)
    <3>. HIDE DEF sum
    <3>. QED BY <2>3, ExtendsOf, HearsOf
  <2>5. ~one(g).trap
    <3>. HIDE DEF one, sum
    <3>. QED BY <1>1, <1>2, <2>3, <2>4 DEF Heeds
  <2>6. sum(h) = sum(g)
    <3>. HIDE DEF one
    <3>. QED BY <2>2, <2>5
  <2>. HIDE DEF sum, one
  <2>. QED BY <1>1, <1>2, <2>4, <2>6
<1>. HIDE DEF sum, one
<1>. QED BY <1>1, <1>2

(* One more call on both sides. *)
LEMMA CallExtends ==
  ASSUME NEW env \in [Names \cup {LP} -> Meaning], NEW g \in [Calls -> Lexer], Hears(g),
         NEW h \in [Calls -> Lexer], Extends(g, h)
  PROVE  Extends(Call(env, g), Call(env, h))
<1>. SUFFICES ASSUME NEW c \in Calls, ~Call(env, g)[c].trap PROVE Call(env, h)[c] = Call(env, g)[c]
  BY DEF Extends
<1>1. /\ c.what \in {"parse", "_eval", "loop"} /\ c.toks \in Expr /\ c.prec \in 0 .. 6 /\ c.l \in Lexer
      /\ c = To(c.what, c.toks, c.prec, c.l)
  BY DEF Calls, To
<1>2. CASE c.what = "parse"
  <2>1. \A f : Call(env, f)[c] = parse(env, f, c.toks, c.l)
    BY <1>1, <1>2, CallCases
  <2>. QED BY <1>1, <2>1, ParseExtends
<1>3. CASE c.what = "loop"
  <2>1. \A f : Call(env, f)[c] = loop(f, c.toks, c.prec, c.l)
    BY <1>1, <1>3, CallCases
  <2>. QED BY <1>1, <2>1, LoopExtends
<1>4. CASE c.what = "_eval"
  <2>. DEFINE first(f) == f[To("parse", c.toks, 0, c.l)]
  <2>1. \A f : Call(env, f)[c] = f[To("loop", c.toks, c.prec, first(f))]
    BY <1>1, <1>4, CallCases
  <2>2. first(g) \in Lexer /\ (~first(g).trap => first(h) = first(g))
    BY <1>1, ExtendsOf
  <2>. HIDE DEF first
  <2>3. LET s == g[To("loop", c.toks, c.prec, first(g))] IN
        s \in Lexer /\ Heeds(s, first(g)) /\ (~s.trap => h[To("loop", c.toks, c.prec, first(g))] = s)
    BY <1>1, <2>2, ExtendsOf, HearsOf
  <2>. QED BY <2>1, <2>2, <2>3 DEF Heeds
<1>. QED BY <1>1, <1>2, <1>3, <1>4

(* With more room a call that comes back has the same result. *)
LEMMA MoreRoom ==
  ASSUME NEW env \in [Names \cup {LP} -> Meaning], NEW ev, Unfolds(env, ev)
  PROVE  \A n \in Nat, d \in Nat : Extends(ev[n], ev[n + d])
<1>0. \A n \in Nat : ev[n] \in [Calls -> Lexer] /\ ev[n + 1] = Call(env, ev[n]) /\ Hears(ev[n])
  BY EvaluationHears DEF Unfolds
<1>. DEFINE S == {n \in Nat : Extends(ev[n], ev[n + 1])}
<1>1. 0 \in S
  BY NoRoom DEF Extends, Unfolds
<1>2. ASSUME NEW n \in Nat, n \in S PROVE n + 1 \in S
  <2>1. Extends(ev[n], ev[n + 1])
    BY <1>2
  <2>3. /\ n + 1 \in Nat /\ ev[n] \in [Calls -> Lexer] /\ Hears(ev[n]) /\ ev[n + 1] \in [Calls -> Lexer]
        /\ ev[n + 1] = Call(env, ev[n]) /\ ev[(n + 1) + 1] = Call(env, ev[n + 1])
    BY <1>0
  <2>2. Extends(Call(env, ev[n]), Call(env, ev[n + 1]))
    BY <2>1, <2>3, CallExtends
  <2>. QED BY <2>2, <2>3
<1>3. \A n \in Nat : Extends(ev[n], ev[n + 1])
  <2>1. Nat \subseteq S
    <3>. HIDE DEF S
    <3>. QED BY <1>1, <1>2, Induction
  <2>. QED BY <2>1
<1>4. ASSUME NEW n \in Nat PROVE \A d \in Nat : Extends(ev[n], ev[n + d])
  <2>. DEFINE T == {d \in Nat : Extends(ev[n], ev[n + d])}
  <2>1. 0 \in T
    BY DEF Extends
  <2>2. ASSUME NEW d \in Nat, d \in T PROVE d + 1 \in T
    <3>1. Extends(ev[n], ev[n + d]) /\ Extends(ev[n + d], ev[(n + d) + 1])
      BY <1>3, <2>2
    <3>2. Extends(ev[n], ev[(n + d) + 1])
      BY <3>1 DEF Extends
    <3>. QED BY <3>2
  <2>3. Nat \subseteq T
    <3>. HIDE DEF T
    <3>. QED BY <2>1, <2>2, Induction
  <2>. QED BY <2>3
<1>. QED BY <1>4

(* Whatever room there is: an expression with a meaning and with known     *)
(* names has this value, or it is too long for the stack.                  *)
THEOREM EvaluatorEnds ==
  ASSUME NEW value \in Valuation, NEW env \in [Names \cup {LP} -> Meaning], NEW expr \in Expr,
         Knows(env, value, expr), Denotes(value)[expr] # {}, ~Eval(expr, env).trap
  PROVE  Eval(expr, env).ok /\ Denotes(value)[expr] = {Eval(expr, env).val}
<1>1. PICK ev : Unfolds(env, ev)
  BY EvaluationUnfolded
<1>. DEFINE more == 2 * Len(expr)
            c == To("_eval", expr, 0, Start)
            r == ev[MaxCalls + more][c]
<1>2. more \in Nat /\ MaxCalls \in Nat /\ MaxCalls + more \in Nat /\ more <= MaxCalls + more
  BY MaxCallsAssumption DEF Expr
<1>3. Fine(r)
  BY <1>1, <1>2, FindsWithRoom
<1>4. Extends(ev[MaxCalls], ev[MaxCalls + more])
  BY <1>1, <1>2, MoreRoom
<1>5. c \in Calls /\ Eval(expr, env) = ev[MaxCalls][c]
  <2>1. Start \in Lexer /\ 0 \in 0 .. 6
    BY WholePart
  <2>. QED BY <1>1, <2>1, ToType DEF Eval, Unfolds
<1>. HIDE DEF c, more
<1>6. Eval(expr, env) = r
  BY <1>4, <1>5 DEF Extends
<1>7. Eval(expr, env).ok
  BY <1>3, <1>6 DEF Fine
<1>8. Agrees(env, value, expr)
  BY DEF Knows, Agrees
<1>. QED BY <1>7, <1>8, EvaluatorIsRight

-----------------------------------------------------------------------------
(* What a meaning depends on. *)

Tokens(e) == {e[i] : i \in 1 .. Len(e)}

(* The parts of an expression have its tokens. *)
LEMMA TokensOfParts ==
  ASSUME NEW e \in Expr, NEW k \in 1 .. Len(e)
  PROVE  /\ Tokens(SubSeq(e, 1, k - 1)) \subseteq Tokens(e)
         /\ Tokens(SubSeq(e, k + 1, Len(e))) \subseteq Tokens(e)
         /\ Tokens(Tail(e)) \subseteq Tokens(e)
         /\ Len(e) > 2 => Tokens(SubSeq(e, 2, Len(e) - 1)) \subseteq Tokens(e)
<1>1. Len(e) \in Nat /\ e \in Seq(Token)
  BY DEF Expr
<1>2. ASSUME NEW a \in Int, NEW b \in Int, 1 <= a, b <= Len(e)
      PROVE  Tokens(SubSeq(e, a, b)) \subseteq Tokens(e)
  <2>. SUFFICES ASSUME NEW i \in 1 .. Len(SubSeq(e, a, b)) PROVE SubSeq(e, a, b)[i] \in Tokens(e)
    BY DEF Tokens
  <2>1. Len(SubSeq(e, a, b)) = IF a <= b THEN b - a + 1 ELSE 0
    BY <1>1, <1>2
  <2>2. a <= b /\ a + i - 1 \in 1 .. Len(e)
    BY <1>1, <1>2, <2>1
  <2>3. SubSeq(e, a, b)[i] = e[a + i - 1]
    BY <1>1, <1>2, <2>1, <2>2
  <2>. QED BY <2>2, <2>3 DEF Tokens
<1>3. Tokens(Tail(e)) \subseteq Tokens(e)
  <2>1. e # << >>
    BY <1>1
  <2>2. Len(Tail(e)) = Len(e) - 1 /\ \A i \in 1 .. Len(e) - 1 : Tail(e)[i] = e[i + 1]
    BY <1>1, <2>1
  <2>3. \A i \in 1 .. Len(e) - 1 : i + 1 \in 1 .. Len(e)
    BY <1>1
  <2>. QED BY <2>2, <2>3 DEF Tokens
<1>4. k - 1 \in Int /\ k - 1 <= Len(e) /\ k + 1 \in Int /\ 1 <= k + 1 /\ Len(e) - 1 \in Int /\ Len(e) - 1 <= Len(e)
  BY <1>1
<1>. QED BY <1>1, <1>2, <1>3, <1>4

(* The meaning of an expression depends on the values of its names only;   *)
(* whether it has one depends on them in a quotient only.                  *)
SameNames(v, w, ts) == \A t \in ts : t.type = "SYMB" => v[t.text] = w[t.text]
NoQuotient(ts) == \A t \in ts : t.type = "OP" => t.text # "/"

LEMMA MeaningDepends ==
  ASSUME NEW v \in Valuation, NEW w \in Valuation
  PROVE  \A e \in Expr :
           /\ SameNames(v, w, Tokens(e)) => Denotes(v)[e] = Denotes(w)[e]
           /\ NoQuotient(Tokens(e)) => (Denotes(v)[e] = {} <=> Denotes(w)[e] = {})
<1>. DEFINE c == Denotes(v)
            d == Denotes(w)
            Same(s) == SameNames(v, w, Tokens(s)) => c[s] = d[s]
            Both(s) == NoQuotient(Tokens(s)) => (c[s] = {} <=> d[s] = {})
            T == {s \in Expr : Same(s) /\ Both(s)}
<1>0. \A s, r : Tokens(r) \subseteq Tokens(s) =>
        /\ SameNames(v, w, Tokens(s)) => SameNames(v, w, Tokens(r))
        /\ NoQuotient(Tokens(s)) => NoQuotient(Tokens(r))
  BY DEF SameNames, NoQuotient
<1>. HIDE DEF c, d
<1>1. ASSUME NEW s \in Expr, \A t \in Expr : Len(t) < Len(s) => t \in T PROVE s \in T
  <2>. DEFINE k == LastApplied(s)
              n == Len(s)
  <2>1. n \in Nat
    BY DEF Expr
  <2>2. \A m \in {c, d} :
         /\ IsSum(s) => m[s] = Combine(s[k].text, m[SubSeq(s, 1, k - 1)], m[SubSeq(s, k + 1, n)])
         /\ IsNumber(s) => m[s] = {s[1].val}
         /\ IsUnary(s) => m[s] = {Unary(s[1].text, x) : x \in m[Tail(s)]}
         /\ IsParen(s) => m[s] = m[SubSeq(s, 2, n - 1)]
         /\ ~(IsSum(s) \/ IsNumber(s) \/ IsName(s) \/ IsUnary(s) \/ IsParen(s)) => m[s] = {}
    BY Meanings5 DEF c, d
  <2>3. IsName(s) => c[s] = {v[s[1].text]} /\ d[s] = {w[s[1].text]}
    BY Meanings5 DEF c, d
  <2>4. CASE IsSum(s)
    <3>1. k \in 1 .. n /\ s[k].text \in Operators
      BY <2>1, <2>4, LastExists DEF IsLast, IsSum
    <3>. DEFINE x == SubSeq(s, 1, k - 1)
                y == SubSeq(s, k + 1, n)
    <3>2. Same(x) /\ Same(y) /\ Both(x) /\ Both(y)
      BY <1>1, <3>1, Shorter
    <3>3. Tokens(x) \subseteq Tokens(s) /\ Tokens(y) \subseteq Tokens(s) /\ s[k] \in Tokens(s)
      BY <3>1, TokensOfParts DEF Tokens
    <3>4. c[s] = Combine(s[k].text, c[x], c[y]) /\ d[s] = Combine(s[k].text, d[x], d[y])
      BY <2>2, <2>4
    <3>5. s[k].type = "OP"
      BY <2>1, <2>4, LastExists DEF IsLast, IsSum, Binary
    <3>. HIDE DEF x, y, k, n
    <3>6. Same(s)
      BY <1>0, <3>2, <3>3, <3>4
    <3>7. \A xs, ys : s[k].text # "/" => (Combine(s[k].text, xs, ys) = {} <=> xs = {} \/ ys = {})
      <4>. DEFINE op == s[k].text
      <4>. HIDE DEF op
      <4>. SUFFICES ASSUME NEW xs, NEW ys, op # "/" PROVE Combine(op, xs, ys) = {} <=> xs = {} \/ ys = {}
        BY DEF op
      <4>1. {q \in xs \X ys : ~Traps(op, q[1], q[2])} = xs \X ys
        BY DEF Traps
      <4>2. Combine(op, xs, ys) = {Apply(op, p[1], p[2]) : p \in xs \X ys}
        BY <4>1 DEF Combine
      <4>3. ASSUME NEW x1 \in xs, NEW y1 \in ys PROVE Combine(op, xs, ys) # {}
        <5>1. << x1, y1 >> \in xs \X ys
          OBVIOUS
        <5>. QED BY <4>2, <5>1
      <4>4. xs = {} \/ ys = {} => xs \X ys = {}
        OBVIOUS
      <4>. QED BY <4>2, <4>3, <4>4
    <3>8. Both(s)
      BY <1>0, <3>2, <3>3, <3>4, <3>5, <3>7 DEF NoQuotient
    <3>. QED BY <3>6, <3>8
  <2>5. CASE IsUnary(s)
    <3>1. Same(Tail(s)) /\ Both(Tail(s)) /\ Tokens(Tail(s)) \subseteq Tokens(s)
      <4>1. 1 \in 1 .. n
        BY <2>1, <2>5 DEF IsUnary
      <4>. QED BY <1>1, <4>1, Shorter, TokensOfParts
    <3>2. /\ c[s] = {Unary(s[1].text, u) : u \in c[Tail(s)]}
          /\ d[s] = {Unary(s[1].text, u) : u \in d[Tail(s)]}
      BY <2>2, <2>5
    <3>3. Same(s)
      BY <1>0, <3>1, <3>2
    <3>4. (c[s] = {} <=> c[Tail(s)] = {}) /\ (d[s] = {} <=> d[Tail(s)] = {})
      BY <3>2
    <3>. QED BY <1>0, <3>1, <3>3, <3>4
  <2>6. CASE IsParen(s)
    <3>. DEFINE x == SubSeq(s, 2, n - 1)
    <3>1. Same(x) /\ Both(x) /\ Tokens(x) \subseteq Tokens(s)
      <4>1. 1 \in 1 .. n /\ n > 2
        BY <2>1, <2>6 DEF IsParen
      <4>. QED BY <1>1, <4>1, Shorter, TokensOfParts
    <3>2. c[s] = c[x] /\ d[s] = d[x]
      BY <2>2, <2>6
    <3>. HIDE DEF x
    <3>. QED BY <1>0, <3>1, <3>2
  <2>7. CASE IsName(s)
    <3>1. s[1] \in Tokens(s) /\ s[1].type = "SYMB"
      BY <2>7 DEF IsName, Tokens
    <3>. QED BY <2>3, <2>7, <3>1 DEF SameNames
  <2>8. CASE IsNumber(s) \/ ~(IsSum(s) \/ IsNumber(s) \/ IsName(s) \/ IsUnary(s) \/ IsParen(s))
    BY <2>2, <2>8
  <2>. QED BY <2>4, <2>5, <2>6, <2>7, <2>8
<1>2. Expr \subseteq T
  <2>. HIDE DEF T
  <2>. QED BY <1>1, LengthInduction
<1>. QED BY <1>2 DEF c, d

-----------------------------------------------------------------------------
(* A text behind a pointer that is none. *)

(* It ends the process. *)
LEMMA BadEnds ==
  ASSUME NEW env \in [Names \cup {LP} -> Meaning], NEW e \in Expr, Curr(e, Start).type = "BAD"
  PROVE  Eval(e, env).trap
<1>1. PICK ev : Unfolds(env, ev)
  BY EvaluationUnfolded
<1>2. \A n \in Nat : Hears(ev[n]) /\ ev[n] \in [Calls -> Lexer] /\ ev[n + 1] = Call(env, ev[n])
  BY <1>1, EvaluationHears DEF Unfolds
<1>3. Start \in Lexer /\ 0 \in 0 .. 6
  BY BlindTypes
<1>4. \A c \in Calls : ev[0][c].trap
  BY <1>1, NoRoom DEF Unfolds
<1>5. To("parse", e, 0, Start) \in Calls /\ To("_eval", e, 0, Start) \in Calls
  BY <1>3, ToType
<1>6. ASSUME NEW n \in Nat PROVE ev[n][To("parse", e, 0, Start)].trap
  <2>1. CASE n = 0
    BY <1>4, <1>5, <2>1
  <2>2. CASE n # 0
    <3>1. n - 1 \in Nat /\ ev[n - 1] \in [Calls -> Lexer] /\ ev[(n - 1) + 1] = Call(env, ev[n - 1]) /\ (n - 1) + 1 = n
      BY <1>2, <2>2
    <3>2. ev[n][To("parse", e, 0, Start)] = parse(env, ev[n - 1], e, Start)
      BY <1>3, <3>1, CallCases
    <3>3. parse(env, ev[n - 1], e, Start).trap
      BY <1>3, <3>1, ParseDoes
    <3>. QED BY <3>2, <3>3
  <2>. QED BY <2>1, <2>2
<1>7. ASSUME NEW n \in Nat PROVE ev[n][To("_eval", e, 0, Start)].trap
  <2>1. CASE n = 0
    BY <1>4, <1>5, <2>1
  <2>2. CASE n # 0
    <3>1. /\ n - 1 \in Nat /\ ev[n - 1] \in [Calls -> Lexer] /\ Hears(ev[n - 1])
          /\ ev[(n - 1) + 1] = Call(env, ev[n - 1]) /\ (n - 1) + 1 = n
      BY <1>2, <2>2
    <3>. DEFINE first == ev[n - 1][To("parse", e, 0, Start)]
    <3>2. ev[n][To("_eval", e, 0, Start)] = ev[n - 1][To("loop", e, 0, first)]
      BY <1>3, <3>1, CallCases
    <3>3. first \in Lexer /\ first.trap
      BY <1>5, <1>6, <3>1
    <3>. HIDE DEF first
    <3>4. Heeds(ev[n - 1][To("loop", e, 0, first)], first)
      BY <1>3, <3>1, <3>3, HearsOf
    <3>. QED BY <3>2, <3>3, <3>4 DEF Heeds
  <2>. QED BY <2>1, <2>2
<1>. QED BY <1>1, <1>7, MaxCallsAssumption DEF Eval, Unfolds

-----------------------------------------------------------------------------
(* What does not end the process. *)

(* The tokens that are left; r comes back from l, and has not gone back.   *)
Left(toks, l) == IF l.pos > Len(toks) THEN 0 ELSE Len(toks) + 1 - l.pos
Back(r, l) == ~r.trap /\ r.pos >= l.pos

(* Tokens that are read without harm: no pointer that is none, no quotient *)
(* and no name with a text of its own.                                     *)
Harmless(env, t) ==
  /\ t.type # "BAD" /\ (t.type = "OP" => t.text # "/")
  /\ t.type = "SYMB" => ~(env[t.text].def /\ env[t.text].isExpr)

(* Two calls for each token that is left, and one or two more, are enough. *)
AllBack(toks, g, n) ==
  \A l \in Lexer : ~l.trap =>
    /\ 2 * Left(toks, l) + 1 <= n => Back(g[To("parse", toks, 0, l)], l)
    /\ \A prec \in 0 .. 6 :
         /\ 2 * Left(toks, l) + 1 <= n => Back(g[To("loop", toks, prec, l)], l)
         /\ 2 * Left(toks, l) + 2 <= n => Back(g[To("_eval", toks, prec, l)], l)

(* What is read is one token less of those that are left.                  *)
LEMMA LeftSteps ==
  ASSUME NEW toks \in Expr, NEW l \in Lexer
  PROVE  /\ Left(toks, l) \in Nat /\ l.pos \in Nat \ {0}
         /\ \A k \in Lexer : k.pos >= l.pos => Left(toks, k) <= Left(toks, l)
         /\ Curr(toks, l).type # "END" =>
              \A k \in Lexer : k.pos >= l.pos + 1 => Left(toks, k) <= Left(toks, l) - 1
         /\ Curr(toks, l) = END \/ Curr(toks, l) \in {toks[i] : i \in 1 .. Len(toks)}
<1>. DEFINE n == Len(toks)
<1>1. n \in Nat /\ l.pos \in Nat \ {0} /\ \A k \in Lexer : k.pos \in Nat \ {0}
  BY DEF Expr, Lexer
<1>2. l.pos > n => Curr(toks, l).type = "END" /\ Curr(toks, l) = END
  <2>1. END.type = "END"
    BY DEF END, Tok
  <2>2. l.pos > n => ~(l.pos <= n)
    BY <1>1
  <2>. QED BY <2>1, <2>2 DEF Curr
<1>3. l.pos <= n => Curr(toks, l) \in {toks[i] : i \in 1 .. n}
  BY <1>1 DEF Curr
<1>. HIDE DEF n
<1>. QED BY <1>1, <1>2, <1>3 DEF Left, n

(* A call that is made within a call. *)
LEMMA BackOf ==
  ASSUME NEW g \in [Calls -> Lexer], NEW toks \in Expr, NEW n \in Nat, AllBack(toks, g, n),
         NEW prec \in 0 .. 6, NEW l \in Lexer, ~l.trap
  PROVE  /\ 2 * Left(toks, l) + 1 <= n =>
              /\ g[To("parse", toks, 0, l)] \in Lexer /\ Back(g[To("parse", toks, 0, l)], l)
              /\ g[To("loop", toks, prec, l)] \in Lexer /\ Back(g[To("loop", toks, prec, l)], l)
         /\ 2 * Left(toks, l) + 2 <= n => Back(g[To("_eval", toks, prec, l)], l)
<1>1. 0 \in 0 .. 6
  OBVIOUS
<1>2. g[To("parse", toks, 0, l)] \in Lexer /\ g[To("loop", toks, prec, l)] \in Lexer
  BY <1>1, ToType
<1>. QED BY <1>2 DEF AllBack

(* An operand comes back if the calls that it makes do. *)
LEMMA ParseBack ==
  ASSUME NEW env \in [Names \cup {LP} -> Meaning], NEW g \in [Calls -> Lexer], NEW toks \in Expr,
         \A i \in 1 .. Len(toks) : Harmless(env, toks[i]), NEW n \in Nat, AllBack(toks, g, n),
         NEW l \in Lexer, ~l.trap, 2 * Left(toks, l) + 1 <= n + 1
  PROVE  Back(parse(env, g, toks, l), l)
<1>. DEFINE tok == Curr(toks, l)
            next == nextToken(l)
            sub == g[To("_eval", toks, 0, next)]
            neg == g[To("parse", toks, 0, next)]
            is == env[tok.text]
            r == parse(env, g, toks, l)
<1>1. /\ next \in Lexer /\ Passes(next, l, l.pos + 1) /\ sub \in Lexer /\ neg \in Lexer
      /\ tok.type = "INT" => Passes(r, l, l.pos + 1)
      /\ tok.type = "SYMB" =>
           \E saw \in Lexer :
             /\ saw.trap = l.trap
             /\ IF is.def /\ is.isExpr
                THEN Passes(r, g[To("_eval", is.expr, 0, saw)], l.pos + 1)
                ELSE Passes(r, saw, l.pos + 1)
      /\ tok.type = "LPAREN" =>
           Passes(r, sub, IF Curr(toks, sub).type = "RPAREN" THEN sub.pos + 1 ELSE sub.pos)
      /\ tok.type = "OP" /\ tok.text \in {"-", "~"} => Passes(r, neg, neg.pos)
      /\ ~(tok.type \in {"INT", "SYMB", "LPAREN", "BAD"} \/ (tok.type = "OP" /\ tok.text \in {"-", "~"}))
           => Passes(r, l, l.pos)
  BY ParseDoes
<1>2. Harmless(env, tok)
  <2>1. Harmless(env, END)
    BY DEF Harmless, END, Tok
  <2>2. tok = END \/ tok \in {toks[i] : i \in 1 .. Len(toks)}
    BY LeftSteps
  <2>. HIDE DEF tok
  <2>. QED BY <2>1, <2>2
<1>3. /\ l.pos \in Nat \ {0} /\ sub.pos \in Nat \ {0} /\ Left(toks, l) \in Nat /\ Left(toks, next) \in Nat
      /\ tok.type # "END" => Left(toks, next) <= Left(toks, l) - 1
  <2>. HIDE DEF sub, next, tok
  <2>1. next.pos >= l.pos + 1 /\ l.pos \in Nat \ {0} /\ sub.pos \in Nat \ {0}
    BY <1>1, LeftSteps DEF Passes
  <2>. QED BY <1>1, <2>1, LeftSteps DEF tok
<1>4. ~next.trap /\ next.pos = l.pos + 1
  BY <1>1 DEF Passes
<1>5. tok.type # "END" => Back(neg, next)
  <2>. HIDE DEF next, tok
  <2>. QED BY <1>1, <1>3, <1>4 DEF AllBack
<1>6. tok.type # "END" => Back(sub, next)
  <2>1. 0 \in 0 .. 6
    OBVIOUS
  <2>. HIDE DEF next, tok
  <2>. QED BY <1>1, <1>3, <1>4, <2>1 DEF AllBack
<1>. HIDE DEF tok, next, sub, neg, is, r
<1>7. CASE tok.type = "SYMB"
  <2>1. ~(is.def /\ is.isExpr)
    BY <1>2, <1>7 DEF Harmless, is
  <2>2. r.trap = l.trap /\ r.pos = l.pos + 1
    BY <1>1, <1>7, <2>1 DEF Passes
  <2>. QED BY <1>3, <2>2 DEF Back, r
<1>8. CASE tok.type = "LPAREN"
  <2>1. r.trap = sub.trap /\ (r.pos = sub.pos + 1 \/ r.pos = sub.pos)
    BY <1>1, <1>8 DEF Passes
  <2>. QED BY <1>3, <1>4, <1>6, <1>8, <2>1 DEF Back, r
<1>9. CASE tok.type = "OP" /\ tok.text \in {"-", "~"}
  <2>1. r.trap = neg.trap /\ r.pos = neg.pos /\ neg.pos \in Nat
    BY <1>1, <1>9, LeftSteps DEF Passes
  <2>. QED BY <1>3, <1>4, <1>5, <1>9, <2>1 DEF Back, r
<1>10. CASE ~(tok.type \in {"SYMB", "LPAREN"} \/ (tok.type = "OP" /\ tok.text \in {"-", "~"}))
  <2>1. tok.type # "BAD"
    BY <1>2 DEF Harmless
  <2>2. r.trap = l.trap /\ (r.pos = l.pos + 1 \/ r.pos = l.pos)
    BY <1>1, <1>10, <2>1 DEF Passes
  <2>. QED BY <1>3, <2>2 DEF Back, r
<1>. QED BY <1>7, <1>8, <1>9, <1>10

(* So does the rest of an expression. *)
LEMMA LoopBack ==
  ASSUME NEW env, NEW g \in [Calls -> Lexer], NEW toks \in Expr,
         \A i \in 1 .. Len(toks) : Harmless(env, toks[i]), NEW n \in Nat, AllBack(toks, g, n),
         NEW prec \in 0 .. 6, NEW l \in Lexer, ~l.trap, 2 * Left(toks, l) + 1 <= n + 1
  PROVE  Back(loop(g, toks, prec, l), l)
<1>. DEFINE tok == Curr(toks, l)
            next == nextToken(l)
            p == OperandPrecedence(tok.text)
            one == g[To("_eval", toks, p, next)]
            r == loop(g, toks, prec, l)
<1>1. \/ r = l
      \/ /\ tok.type = "OP" /\ next \in Lexer /\ Passes(next, l, l.pos + 1) /\ p \in 0 .. 6 /\ one \in Lexer
         /\ \E sum \in Lexer :
              /\ r = g[To("loop", toks, prec, sum)] /\ sum.pos = one.pos
              /\ tok.text # "/" => sum.trap = one.trap
  BY LoopDoes
<1>2. tok = END \/ tok \in {toks[i] : i \in 1 .. Len(toks)}
  BY LeftSteps
<1>3. END.type # "OP"
  BY DEF END, Tok
<1>4. /\ l.pos \in Nat \ {0} /\ Left(toks, l) \in Nat
      /\ \A k \in Lexer : Left(toks, k) \in Nat /\ k.pos \in Nat \ {0}
      /\ tok.type # "END" => \A k \in Lexer : k.pos >= l.pos + 1 => Left(toks, k) <= Left(toks, l) - 1
  BY LeftSteps
<1>. HIDE DEF tok, next, p, one, r
<1>5. CASE r = l
  BY <1>4, <1>5 DEF Back, r
<1>6. CASE r # l
  <2>1. tok.type = "OP" /\ tok.type # "END" /\ tok.text # "/"
    BY <1>1, <1>2, <1>3, <1>6 DEF Harmless
  <2>2. next \in Lexer /\ ~next.trap /\ next.pos = l.pos + 1 /\ p \in 0 .. 6 /\ one \in Lexer
    BY <1>1, <1>6 DEF Passes
  <2>3. Left(toks, next) \in Nat /\ Left(toks, next) <= Left(toks, l) - 1
    BY <1>4, <2>1, <2>2
  <2>4. Back(one, next)
    <3>1. 2 * Left(toks, next) + 2 <= n
      BY <1>4, <2>3
    <3>. QED BY <2>2, <3>1, BackOf DEF one
  <2>5. PICK sum \in Lexer : r = g[To("loop", toks, prec, sum)] /\ sum.pos = one.pos /\ sum.trap = one.trap
    BY <1>1, <1>6, <2>1
  <2>6. ~sum.trap /\ sum.pos >= l.pos + 1
    BY <2>2, <2>4, <2>5 DEF Back
  <2>7. Left(toks, sum) \in Nat /\ Left(toks, sum) <= Left(toks, l) - 1
    BY <1>4, <2>1, <2>6
  <2>8. r \in Lexer /\ Back(r, sum)
    <3>1. 2 * Left(toks, sum) + 1 <= n
      BY <1>4, <2>7
    <3>. QED BY <2>5, <2>6, <3>1, BackOf
  <2>. QED BY <1>4, <2>5, <2>6, <2>8 DEF Back, r
<1>. QED BY <1>5, <1>6

(* One more call, with room for one more. *)
LEMMA CallBack ==
  ASSUME NEW env \in [Names \cup {LP} -> Meaning], NEW g \in [Calls -> Lexer], NEW toks \in Expr,
         \A i \in 1 .. Len(toks) : Harmless(env, toks[i]), NEW n \in Nat, AllBack(toks, g, n)
  PROVE  AllBack(toks, Call(env, g), n + 1)
<1>. SUFFICES ASSUME NEW l \in Lexer, ~l.trap
              PROVE  /\ 2 * Left(toks, l) + 1 <= n + 1 => Back(Call(env, g)[To("parse", toks, 0, l)], l)
                     /\ \A prec \in 0 .. 6 :
                          /\ 2 * Left(toks, l) + 1 <= n + 1 => Back(Call(env, g)[To("loop", toks, prec, l)], l)
                          /\ 2 * Left(toks, l) + 2 <= n + 1 => Back(Call(env, g)[To("_eval", toks, prec, l)], l)
  BY DEF AllBack
<1>0. 0 \in 0 .. 6
  OBVIOUS
<1>1. 2 * Left(toks, l) + 1 <= n + 1 => Back(Call(env, g)[To("parse", toks, 0, l)], l)
  <2>1. Call(env, g)[To("parse", toks, 0, l)] = parse(env, g, toks, l)
    BY <1>0, CallCases
  <2>. QED BY <2>1, ParseBack
<1>2. ASSUME NEW prec \in 0 .. 6, 2 * Left(toks, l) + 1 <= n + 1
      PROVE  Back(Call(env, g)[To("loop", toks, prec, l)], l)
  <2>1. Call(env, g)[To("loop", toks, prec, l)] = loop(g, toks, prec, l)
    BY CallCases
  <2>2. Back(loop(g, toks, prec, l), l)
    BY <1>2, LoopBack
  <2>. QED BY <2>1, <2>2
<1>3. ASSUME NEW prec \in 0 .. 6, 2 * Left(toks, l) + 2 <= n + 1
      PROVE  Back(Call(env, g)[To("_eval", toks, prec, l)], l)
  <2>. DEFINE first == g[To("parse", toks, 0, l)]
  <2>1. Call(env, g)[To("_eval", toks, prec, l)] = g[To("loop", toks, prec, first)]
    BY CallCases
  <2>2. first \in Lexer
    BY <1>0, ToType
  <2>3. Left(toks, l) \in Nat /\ l.pos \in Nat \ {0}
    BY LeftSteps
  <2>4. Back(first, l)
    <3>1. 2 * Left(toks, l) + 1 <= n
      BY <1>3, <2>3
    <3>. QED BY <3>1, BackOf
  <2>. HIDE DEF first
  <2>5. Left(toks, first) \in Nat /\ Left(toks, first) <= Left(toks, l) /\ first.pos \in Nat \ {0}
    BY <2>2, <2>4, LeftSteps DEF Back
  <2>6. ~first.trap /\ 2 * Left(toks, first) + 1 <= n
    BY <1>3, <2>3, <2>4, <2>5 DEF Back
  <2>7. g[To("loop", toks, prec, first)] \in Lexer /\ Back(g[To("loop", toks, prec, first)], first)
    BY <2>2, <2>6, BackOf
  <2>8. g[To("loop", toks, prec, first)].pos \in Nat
    BY <2>7, LeftSteps
  <2>. QED BY <2>1, <2>3, <2>4, <2>5, <2>7, <2>8 DEF Back
<1>. QED BY <1>1, <1>2, <1>3

(* An evaluation comes back, with or without a value, if there is room for *)
(* two calls a token, and no token that could end the process.             *)
LEMMA EvalBack ==
  ASSUME NEW env \in [Names \cup {LP} -> Meaning], NEW e \in Expr,
         \A i \in 1 .. Len(e) : Harmless(env, e[i]), 2 * Len(e) + 2 <= MaxCalls
  PROVE  ~Eval(e, env).trap
<1>1. PICK ev : Unfolds(env, ev)
  BY EvaluationUnfolded
<1>2. \A n \in Nat : ev[n] \in [Calls -> Lexer] /\ ev[n + 1] = Call(env, ev[n])
  BY <1>1 DEF Unfolds
<1>. DEFINE T == {n \in Nat : AllBack(e, ev[n], n)}
<1>3. 0 \in T
  BY LeftSteps DEF AllBack
<1>4. ASSUME NEW n \in Nat, n \in T PROVE n + 1 \in T
  <2>1. AllBack(e, ev[n], n) /\ ev[n] \in [Calls -> Lexer] /\ ev[n + 1] = Call(env, ev[n])
    BY <1>2, <1>4
  <2>2. AllBack(e, Call(env, ev[n]), n + 1)
    BY <2>1, CallBack
  <2>. QED BY <2>1, <2>2
<1>5. MaxCalls \in T
  <2>1. Nat \subseteq T
    <3>. HIDE DEF T
    <3>. QED BY <1>3, <1>4, Induction
  <2>. QED BY <2>1, MaxCallsAssumption
<1>6. Start \in Lexer /\ Start.pos = 1 /\ ~Start.trap /\ Len(e) \in Nat
  BY BlindTypes DEF Expr
<1>7. Left(e, Start) = Len(e)
  BY <1>6 DEF Left
<1>8. Back(ev[MaxCalls][To("_eval", e, 0, Start)], Start)
  BY <1>5, <1>6, <1>7, MaxCallsAssumption DEF AllBack
<1>. QED BY <1>1, <1>8 DEF Back, Eval, Unfolds
===============================================================================
