------------------------------ MODULE Assembler ------------------------------
(***************************************************************************)
(* arxsm: the first pass reads a line a step and fills the tables, the     *)
(* second resolves symbols, completes data, encodes and writes the object  *)
(* file.  A line is what is left of its text behind the tokeniser and the  *)
(* tests of directive names, registers and operand counts.                 *)
(***************************************************************************)
EXTENDS Encoder, ObjectFile

CONSTANTS
  Files,      \* the source files: lines, and whether option -k is given
  None,       \* no label, no name
  ByteBits    \* 8

(* The text of a deferred .set is freed with its line.  What a later       *)
(* evaluation finds there is any text: one that is no expression, another  *)
(* expression.  A label over such a symbol replaces the pointer.           *)
Garbage == {<< OP("?") >>, << INT(0) >>}
BadPointer == << Tok("BAD", 0, "") >>

Ops == {"label", "section", "set", "glob", "end", "values", "literal", "zero", "fill",
        "align", "plain", "I", "M", "Bc", "Bi", "ld"}
(* n: the section; the width of values; the size of a literal; 1 for ld =. *)
(* name: the symbol of .set and .glob; the register of ld.                 *)
Line == [label : Names \cup {None}, op : Ops, name : Names \cup {None, "x", "c0"},
         args : Seq(Expr), n : Nat]

(* What the parser has made sure of.                                       *)
WellFormed(l) ==
  /\ l.op = "section" => l.n \in Sections
  /\ l.op = "values" => l.n \in {1, 2, 4}
  /\ l.op \in {"set", "glob"} => l.name \in Names
  /\ l.op = "ld" => l.name \in {"x", "c0"}
  /\ l.op \in {"set", "zero", "ld"} \cup Kinds => Len(l.args) = 1
  /\ l.op = "fill" => Len(l.args) = 2
  /\ \A a \in DOMAIN l.args : \A i \in DOMAIN l.args[a] : l.args[a][i].type # "BAD"

ASSUME ByteBitsAssumption == ByteBits \in Nat /\ WordBits = 4 * ByteBits
ASSUME NoneAssumption == None \notin Names
ASSUME FilesAssumption ==
  \A f \in Files :
    /\ f.kern \in BOOLEAN /\ f.lines \in Seq(Line)
    /\ \A j \in DOMAIN f.lines : WellFormed(f.lines[j])

VARIABLES
  file,     \* the source
  pc,       \* pass1, resolve, complete, encode, generate, written; fatal, crash
  at,       \* the loop's line, symbol or instruction
  symbs,    \* SymbolTable
  lp, present, active,   \* SectionTable
  data,     \* DataTable
  instrs,   \* InstructionStream
  evt,      \* evtDefined: none (0x00), open (0xf0), closed (0xff)
  bin       \* the object file

tables == << symbs, lp, present, active, data, instrs, evt >>
vars == << file, pc, at, tables, bin >>

(* Flags and union of a symbol; reference flags are never read.            *)
Symbol(name, sect, meaning, type, glob) ==
  [name |-> name, sect |-> sect, is |-> meaning, type |-> type, glob |-> glob]
Unknown  == [def |-> FALSE, isExpr |-> FALSE, expr |-> << >>, value |-> 0]
Holds(v) == [def |-> TRUE, isExpr |-> FALSE, expr |-> << >>, value |-> Wrap(v)]
Text(e)  == [def |-> TRUE, isExpr |-> TRUE, expr |-> e, value |-> 0]

(* line, here and in data items, is for the properties only.               *)
Instr(addr, kind, instr, rd, rs, expr) ==
  [addr |-> addr, kind |-> kind, instr |-> instr, rd |-> rd, rs |-> rs,
   expr |-> expr, field |-> 0, line |-> at]
Marker == Instr(0, "marker", "marker", None, None, << >>)

Nobin == [kern |-> FALSE, entry |-> 0, heads |-> << >>, payload |-> << >>]

Init ==
  /\ file \in Files
  /\ pc = "pass1"
  /\ at = 1
  /\ lp = Starts[file.kern]
  /\ symbs = << Symbol(LP, DATA, Holds(0), 0, FALSE) >>
  /\ present = [s \in Sections |-> FALSE]
  /\ active = DATA
  /\ data = [s \in Tables |-> << >>]
  /\ instrs = << >>
  /\ evt = "none"
  /\ bin = Nobin

-----------------------------------------------------------------------------
(* The symbol table. *)

(* The first entry of a name, 0 if there is none. *)
getSymbEntry(s, name) ==
  IF \E k \in DOMAIN s : s[k].name = name
  THEN CHOOSE k \in DOMAIN s : s[k].name = name /\ \A j \in 1 .. k - 1 : s[j].name # name
  ELSE 0

Env(s) == [n \in Names \cup {LP} |->
             LET k == getSymbEntry(s, n) IN IF k = 0 THEN Unknown ELSE s[k].is]

(* An evaluation enters the names that it does not know. *)
Enter(s, name) ==
  IF getSymbEntry(s, name) # 0 THEN s
  ELSE Append(s, Symbol(name, DATA, Unknown, 0, FALSE))
After(s, r) ==
  LET table[k \in 0 .. Len(r.seen)] ==
        IF k = 0 THEN s ELSE Enter(table[k - 1], r.seen[k])
  IN  table[Len(r.seen)]

(* Only the lower two bits of the old section are cleared. *)
UpdateSection(old) == IF old >= EVT /\ active < EVT THEN active + EVT ELSE active

(* Deviation: a symbol that has been used keeps its value. *)
FirstUse(s, name) ==
  LET k == getSymbEntry(s, name) IN
  IF k = 0 THEN Append(s, Symbol(name, active, Holds(lp[active]), 0, FALSE))
  ELSE [s EXCEPT ![k].sect = UpdateSection(@), ![k].is.def = TRUE]

(* handleLabel: `flags |= (0 << 7)` leaves the flag of an expression.      *)
handleLabel(s, name) ==
  LET k == getSymbEntry(s, name) IN
  IF k = 0 THEN Append(s, Symbol(name, active, Holds(lp[active]), 0, FALSE))
  ELSE [s EXCEPT ![k].sect = UpdateSection(@),
                 ![k].is = IF @.isExpr THEN Text(BadPointer) ELSE Holds(lp[active])]

(* The table when the line's first token is behind. *)
AtLine ==
  LET s == [symbs EXCEPT ![1] = Symbol(LP, active, Holds(lp[active]), 0, FALSE)]
      label == file.lines[at].label IN
  IF label = None THEN s ELSE handleLabel(s, label)

-----------------------------------------------------------------------------
(* One line. *)

Reads(ops) == pc = "pass1" /\ at <= Len(file.lines) /\ file.lines[at].op \in ops
line == file.lines[at]

(* handleError(FATAL) exits; a signal kills the assembler. *)
Stop(how) == pc' = how /\ UNCHANGED << file, at, tables, bin >>

(* The end of a line that left the active section a and the stream s.      *)
EndLine(a, s) ==
  LET opens == a = EVT /\ evt = "none"
      closes == a # EVT /\ evt = "open" IN
  /\ IF (~file.kern /\ a >= EVT) \/ (a = EVT /\ evt = "closed")
     THEN pc' = "fatal" /\ UNCHANGED << evt, instrs >>
     ELSE /\ pc' = pc
          /\ evt' = IF opens THEN "open" ELSE IF closes THEN "closed" ELSE evt
          /\ instrs' = IF opens \/ closes THEN Append(s, Marker) ELSE s
  /\ active' = a
  /\ at' = at + 1
  /\ UNCHANGED << file, bin >>

LabelLine ==
  /\ Reads({"label", "align"})
  /\ symbs' = AtLine
  /\ EndLine(active, instrs)
  /\ UNCHANGED << lp, present, data >>

SectionDirective ==
  /\ Reads({"section"})
  /\ symbs' = AtLine
  /\ present' = [present EXCEPT ![line.n] = TRUE]
  /\ EndLine(line.n, instrs)
  /\ UNCHANGED << lp, data >>

SetEntry(s, k, meaning) ==
  [s EXCEPT ![k].sect = UpdateSection(@), ![k].is = meaning, ![k].type = 1]

setDirective ==
  LET s == AtLine
      k == getSymbEntry(s, line.name)
      r == Eval(line.args[1], Env(s))
      meaning == IF r.ok THEN Holds(r.val) ELSE Text(line.args[1]) IN
  /\ Reads({"set"})
  /\ IF k # 0 /\ s[k].is.def THEN Stop("fatal")
     ELSE IF r.trap THEN Stop("crash")
     ELSE /\ symbs' = IF k # 0 THEN SetEntry(After(s, r), k, meaning)
                      ELSE Append(After(s, r), Symbol(line.name, active, meaning, 1, FALSE))
          /\ EndLine(active, instrs)
          /\ UNCHANGED << lp, present, data >>

(* Deviation: .glob defines the symbol's section only. *)
GlobNew(s, name) ==
  IF getSymbEntry(s, name) # 0 THEN s ELSE Append(s, Symbol(name, active, Unknown, 0, TRUE))

Glob(s, name) ==
  LET k == getSymbEntry(s, name) IN
  IF k # 0 THEN [s EXCEPT ![k].glob = TRUE]
  ELSE Append(s, Symbol(name, active, Unknown, 0, TRUE))

globDirective ==
  /\ Reads({"glob"})
  /\ symbs' = Glob(AtLine, line.name)
  /\ EndLine(active, instrs)
  /\ UNCHANGED << lp, present, data >>

(* .end leaves the loop before the line is over. *)
endDirective ==
  /\ Reads({"end"})
  /\ symbs' = AtLine
  /\ at' = Len(file.lines) + 1
  /\ UNCHANGED << file, pc, lp, present, active, data, instrs, evt, bin >>

(* Deviation: items are counted, not their bytes. *)
CountOnly(width, args) == Len(args)

SizeOf(width, args) == width * Len(args)

(* initDataEntry and addDataEntry: text and ivt have no table, but their   *)
(* location pointer moves.  done: data is not NULL.                        *)
AddItem(size, width, args, done) ==
  /\ lp' = [lp EXCEPT ![active] = @ + size]
  /\ data' = IF active \notin Tables THEN data
             ELSE [data EXCEPT ![active] =
                     Append(@, [addr |-> lp[active], size |-> size, width |-> width,
                                args |-> args, vals |-> << >>, done |-> done, line |-> at])]
  /\ EndLine(active, instrs)
  /\ UNCHANGED present

(* The sections that refuse a directive; the test for .zero is never true. *)
validateSection(op) ==
  active \in (CASE op = "values" -> {BSS, TEXT}
                [] op \in {"literal", "fill"} -> {BSS, TEXT, EVT, IVT}
                [] OTHER -> {})

(* .byte, .hword, .word: evaluated in the second pass.  .string, .float.   *)
valuesDirective ==
  /\ Reads({"values"})
  /\ IF validateSection("values") THEN Stop("fatal")
     ELSE symbs' = AtLine /\ AddItem(SizeOf(line.n, line.args), line.n, line.args, FALSE)

literalDirective ==
  /\ Reads({"literal"})
  /\ IF validateSection("literal") THEN Stop("fatal")
     ELSE symbs' = AtLine /\ AddItem(line.n, 1, << >>, TRUE)

(* calloc refuses a negative size, and leaves the item without data.       *)
zeroDirective ==
  LET r == Eval(line.args[1], Env(AtLine)) IN
  /\ Reads({"zero"})
  /\ IF r.trap THEN Stop("crash")
     ELSE IF ~r.ok THEN Stop("fatal")
     ELSE symbs' = After(AtLine, r) /\ AddItem(r.val, 1, line.args, ~(r.val < 0))

(* The length is evaluated without a table: a name is a NULL pointer.  The *)
(* loop for a length of zero has no end; what a negative one asks for may  *)
(* be there or not.                                                        *)
NoTable == [n \in Names \cup {LP} |-> Text(BadPointer)]
fillDirective ==
  LET r == Eval(line.args[1], NoTable) IN
  /\ Reads({"fill"})
  /\ IF validateSection("fill") THEN Stop("fatal")
     ELSE IF r.trap \/ (r.ok /\ r.val = 0) THEN Stop("crash")
     ELSE IF ~r.ok THEN Stop("fatal")
     ELSE IF r.val \notin 1 .. Half THEN Stop("fatal") \/ Stop("crash")
     ELSE symbs' = AtLine /\ AddItem(r.val, 1, [i \in 1 .. r.val |-> line.args[2]], FALSE)

(* handleInstruction and main behind it: new instructions, and the bytes   *)
(* that the handler has counted itself.                                    *)
AddInstrs(s, new, extra) ==
  LET here == [lp EXCEPT ![active] = @ + extra] IN
  /\ symbs' = s
  /\ lp' = [here EXCEPT ![IF evt = "open" THEN EVT ELSE TEXT] = @ + 4]
  /\ EndLine(active, instrs \o new)
  /\ UNCHANGED << present, data >>

Misplaced == active < TEXT \/ lp[TEXT] % 4 # 0

(* handleI, handleR, handleIR, handleBi, handleBu, handleBc, handleS, and  *)
(* handleM for a register: operands are evaluated in the second pass.      *)
handleInstruction ==
  /\ Reads(Kinds \cup {"plain"})
  /\ IF Misplaced THEN Stop("fatal")
     ELSE AddInstrs(AtLine,
            << Instr(lp[active], line.op, line.op, None, None,
                     IF line.op = "plain" THEN << >> ELSE line.args[1]) >>, 0)

(* ld of an address or a literal in six or seven instructions.  A value    *)
(* that is not known yet leaves its expression with the first one.         *)
Decomposition(a, rd, v, isExpr, literal, expr) ==
  << Instr(a, IF isExpr THEN "special" ELSE "I", "mv", rd, "xz", IF isExpr THEN expr ELSE << INT(High(v)) >>),
     Instr(a + 4, "I", "lsl", rd, rd, << INT(ImmBits + LowBits) >>),
     Instr(a + 8, "I", "mv", "c0", "xz", << INT(IF isExpr THEN 0 ELSE Mid(v)) >>),
     Instr(a + 12, "I", "lsl", "c0", "c0", << INT(LowBits) >>),
     Instr(a + 16, "plain", "or", rd, "c0", << >>),
     Instr(a + 20, "I", "add", rd, rd, << INT(IF isExpr THEN 0 ELSE Low(v)) >>) >>
    \o IF literal THEN << >> ELSE << Instr(a + 44, "plain", "ld", rd, rd, << >>) >>

handleLd ==
  LET s == AtLine
      r == Eval(line.args[1], Env(s))
      literal == line.n = 1
      offset == Wrap(r.val - lp[TEXT]) IN
  /\ Reads({"ld"})
  /\ IF Misplaced THEN Stop("fatal")
     ELSE IF r.trap THEN Stop("crash")
     ELSE IF r.ok /\ ~literal /\ InRange(offset, OffsetBits)
     THEN AddInstrs(After(s, r),
            << Instr(lp[active], "M", "ld", line.name, "ir", << INT(offset) >>) >>, 0)
     ELSE AddInstrs(After(s, r),
            Decomposition(lp[active], line.name, r.val, ~r.ok, literal, line.args[1]),
            IF literal THEN 20 ELSE 24)

-----------------------------------------------------------------------------
(* Between the passes. *)

Size(s) == lp[s] - Starts[file.kern][s]
Confirmed ==
  LET init == getSymbEntry(symbs, "_init") IN
  /\ present[TEXT] /\ Size(TEXT) # 0
  /\ file.kern => evt # "none"
  /\ init # 0 /\ symbs[init].glob /\ symbs[init].sect = TEXT
  /\ \A k \in DOMAIN symbs : symbs[k].is.def

(* Deviation: a vector that ends with the file is not closed. *)
Unclosed == instrs

Closed == IF evt = "open" THEN Append(instrs, Marker) ELSE instrs

EndOfFile ==
  /\ pc = "pass1" /\ at > Len(file.lines)
  /\ instrs' = Closed
  /\ evt' = IF evt = "open" THEN "closed" ELSE evt
  /\ present' = [s \in Sections |-> present[s] /\ Size(s) # 0]
  /\ pc' = IF Confirmed THEN "resolve" ELSE "fatal"
  /\ at' = 1
  /\ UNCHANGED << file, symbs, lp, active, data, bin >>

(* The freed text of a deferred .set is used for something else. *)
Reuse ==
  /\ pc \in {"pass1", "resolve"}
  /\ \E k \in DOMAIN symbs, text \in Garbage :
       /\ symbs[k].is.isExpr /\ symbs[k].is.expr \notin Garbage \cup {BadPointer}
       /\ symbs' = [symbs EXCEPT ![k].is = Text(text)]
  /\ UNCHANGED << file, pc, at, lp, present, active, data, instrs, evt, bin >>

-----------------------------------------------------------------------------
(* The second pass. *)

(* The loop's next round, or the first one of the next loop. *)
Round(n, next) ==
  IF at < n THEN at' = at + 1 /\ pc' = pc ELSE at' = 1 /\ pc' = next

resolveSymbols ==
  LET r == Eval(symbs[at].is.expr, Env(symbs)) IN
  /\ pc = "resolve"
  /\ IF ~symbs[at].is.isExpr THEN UNCHANGED symbs /\ Round(Len(symbs), "complete")
     ELSE IF r.trap THEN pc' = "crash" /\ UNCHANGED << symbs, at >>
     ELSE IF ~r.ok THEN pc' = "fatal" /\ UNCHANGED << symbs, at >>
     ELSE /\ symbs' = [symbs EXCEPT ![at].is = Holds(r.val)]
          /\ Round(Len(symbs), "complete")
  /\ UNCHANGED << file, lp, present, active, data, instrs, evt, bin >>

(* _completeData tests the byte behind the ones that it keeps, and casts.  *)
TooLarge(width, v) ==
  \E i \in ByteBits * width .. ByteBits * (width + 1) - 1 : width < 4 /\ Bit(v, i) = 1
LowBytes(width, v) == IF width < 4 THEN v % Pow2[ByteBits * width] ELSE v

(* A .zero of negative size is an item without data: malloc refuses so     *)
(* much, and the value is written to NULL, or does not.                    *)
Incomplete == {p \in {DATA, CONST, EVT} \X (1 .. Len(file.lines)) :
                 p[2] \in DOMAIN data[p[1]] /\ ~data[p[1]][p[2]].done}
completeData ==
  /\ pc = "complete"
  /\ IF Incomplete = {} THEN pc' = "encode" /\ UNCHANGED data
     ELSE LET p == CHOOSE q \in Incomplete : \A o \in Incomplete :
                     q[1] < o[1] \/ (q[1] = o[1] /\ q[2] <= o[2])
              item == data[p[1]][p[2]]
              rs == [j \in DOMAIN item.args |-> Eval(item.args[j], Env(symbs))]
              bad == {j \in DOMAIN rs : \/ rs[j].trap \/ ~rs[j].ok
                                        \/ TooLarge(item.width, rs[j].val)} IN
          IF bad # {}
          THEN pc' = (IF rs[Min(bad)].trap THEN "crash" ELSE "fatal") /\ UNCHANGED data
          ELSE \/ item.size < 0 /\ pc' = "crash" /\ UNCHANGED data
               \/ /\ data' = [data EXCEPT ![p[1]][p[2]] =
                                [item EXCEPT !.done = TRUE,
                                             !.vals = [j \in DOMAIN rs |-> LowBytes(item.width, rs[j].val)]]]
                  /\ UNCHANGED pc
  /\ UNCHANGED << file, at, symbs, lp, present, active, instrs, evt, bin >>

(* encodeSpecial: the shares of the value go into the first, third and     *)
(* sixth instruction; then the first is encoded like any other.            *)
Special(v) ==
  [instrs EXCEPT ![at].kind = "I", ![at].expr = << INT(High(v)) >>,
                 ![at].field = High(v),
                 ![at + 2].expr = << INT(Mid(v)) >>, ![at + 5].expr = << INT(Low(v)) >>]

(* encode, with encodeI, encodeM and encodeBiBc: what has address 0 is     *)
(* passed over, plain instructions have no operand left.                   *)
encode ==
  LET i == instrs[at]
      r == Eval(i.expr, Env(symbs))
      stop == IF r.trap THEN "crash" ELSE "fatal" IN
  /\ pc = "encode"
  /\ IF at > Len(instrs) THEN pc' = "generate" /\ UNCHANGED << instrs, at >>
     ELSE /\ IF i.addr = 0 \/ i.kind = "plain" THEN pc' = pc /\ UNCHANGED instrs
             ELSE IF r.trap \/ ~r.ok THEN pc' = stop /\ UNCHANGED instrs
             ELSE IF i.kind = "special" THEN pc' = pc /\ instrs' = Special(r.val)
             ELSE IF ~Accepts(i.kind, r.val, i.addr) THEN pc' = "fatal" /\ UNCHANGED instrs
             ELSE pc' = pc /\ instrs' = [instrs EXCEPT ![at].field = Field(i.kind, r.val, i.addr)]
          /\ at' = at + 1
  /\ UNCHANGED << file, symbs, lp, present, active, data, evt, bin >>

(* Writing behind the vector's buffer is fatal, or is not.  The vector is  *)
(* made even where it is empty.                                            *)
Generate ==
  LET size == [s \in {t \in Sections : present[t]} |-> Size(s)]
      endless == \E s \in {DATA, CONST, EVT} : (present[s] \/ s = EVT) /\ Endless(data[s])
      vector == generateEVT(instrs, data[EVT])
      init == symbs[getSymbEntry(symbs, "_init")] IN
  /\ pc = "generate"
  /\ \/ /\ endless \/ vector.crash \/ Len(vector.bytes) > Size(EVT)
        /\ pc' = "crash"
        /\ UNCHANGED bin
     \/ /\ ~endless /\ ~vector.crash
        /\ pc' = "written"
        /\ bin' = [kern |-> file.kern, entry |-> init.is.value,
                   heads |-> generateSectionHeaders(size),
                   payload |-> Payload(size, data, instrs, vector.bytes)]
  /\ UNCHANGED << file, at, tables >>

(* Every way through the program ends. *)
Exited == pc \in {"written", "fatal", "crash"} /\ UNCHANGED vars

Next ==
  \/ LabelLine \/ SectionDirective \/ setDirective \/ globDirective \/ endDirective
  \/ valuesDirective \/ literalDirective \/ zeroDirective \/ fillDirective
  \/ handleInstruction \/ handleLd
  \/ EndOfFile \/ Reuse
  \/ resolveSymbols \/ completeData \/ encode \/ Generate
  \/ Exited

Spec == Init /\ [][Next]_vars

-----------------------------------------------------------------------------
Symbols == [name : Names \cup {LP}, sect : 0 .. 7, is : Meaning, type : {0, 1},
            glob : BOOLEAN]
Items == [addr : Int, size : Int, width : {1, 2, 4}, args : Seq(Expr), vals : Seq(Word),
          done : BOOLEAN, line : Nat]
Registers == {None, "x", "c0", "xz", "ir"}
Instrs == [addr : Int, kind : Kinds \cup {"plain", "marker", "special"},
           instr : Kinds \cup {"plain", "marker", "mv", "lsl", "or", "add", "ld"},
           rd : Registers, rs : Registers, expr : Expr, field : 0 .. Modulus - 1, line : Nat]

TypeOK ==
  /\ pc \in {"pass1", "resolve", "complete", "encode", "generate", "written", "fatal",
             "crash"}
  /\ at \in Nat
  /\ symbs \in Seq(Symbols) /\ symbs[1].name = LP
  /\ lp \in [Sections -> Int] /\ present \in [Sections -> BOOLEAN] /\ active \in Sections
  /\ data \in [Tables -> Seq(Items)]
  /\ instrs \in Seq(Instrs)
  /\ evt \in {"none", "open", "closed"}
  /\ bin.payload \in Seq(Byte \cup {Junk})

(* The items of .data, .const and .bss adjoin: the first one begins at the *)
(* section's start, the next one where its predecessor ends, the location  *)
(* pointer is behind the last one, and each one has room for its values.   *)
(* Eight directives move the pointer, each one by its own arithmetic.      *)
Adjoin(items, start, end) ==
  /\ items = << >> => start = end
  /\ items # << >> => items[1].addr = start /\ items[Len(items)].addr + items[Len(items)].size = end
  /\ \A k \in 1 .. Len(items) - 1 : items[k + 1].addr = items[k].addr + items[k].size
ItemsAdjoin ==
  \A s \in {DATA, CONST, BSS} :
    /\ Adjoin(data[s], Starts[file.kern][s], lp[s])
    /\ \A k \in DOMAIN data[s] :
         data[s][k].done \/ data[s][k].size = data[s][k].width * Len(data[s][k].args)
                         \/ data[s][k].size < 0

-----------------------------------------------------------------------------
(* What the source says.  Lines behind .end are not part of it.            *)

Source == {j \in DOMAIN file.lines : \A i \in 1 .. j - 1 : file.lines[i].op # "end"}
At(j) == file.lines[j]
SectionAt(j) ==
  LET before == {i \in Source : i < j /\ At(i).op = "section"} IN
  IF before = {} THEN DATA ELSE At(Max(before)).n
NamesIn(e) == {e[i].text : i \in {k \in DOMAIN e : e[k].type = "SYMB"}} \ {LP}
Uses(e, op) == \E i \in DOMAIN e : e[i].type # "INT" /\ e[i].text = op

Labels(n) == {j \in Source : At(j).label = n}
Sets(n)   == {j \in Source : At(j).op = "set" /\ At(j).name = n}
Defs(n)   == Labels(n) \cup Sets(n)

MentionsItself(n) == \E j \in Sets(n) : n \in NamesIn(At(j).args[1])

(* The value that the object file gives to a name. *)
ValueAt(n) == Env(symbs)[n].value
Values(lpAt) == [n \in Names \cup {LP} |-> IF n = LP THEN lpAt ELSE ValueAt(n)]
Denotation(e, lpAt) == Denotes(Values(lpAt))[e]

IsInstr(j) == At(j).op \in Kinds \cup {"plain", "ld"}
DataBytes(j) ==
  CASE At(j).op = "values" -> At(j).n * Len(At(j).args)
    [] At(j).op = "literal" -> At(j).n
    [] At(j).op \in {"zero", "fill"} -> CHOOSE v \in Denotation(At(j).args[1], 0) : TRUE
    [] At(j).op = "ld" -> IF At(j).n = 1 THEN 20 ELSE 24
    [] OTHER -> 0
(* An instruction of the ivt is counted with the text, except for what ld  *)
(* is longer.                                                              *)
BytesIn(s, j) ==
  (IF SectionAt(j) = s THEN DataBytes(j) ELSE 0)
    + IF IsInstr(j) /\ s = (IF SectionAt(j) = EVT THEN EVT ELSE TEXT) THEN 4 ELSE 0
(* Where the location pointer of section s is in front of line j. *)
PointerAt(s, j) ==
  LET behind[i \in 0 .. j - 1] ==
        IF i = 0 THEN Starts[file.kern][s] ELSE behind[i - 1] + BytesIn(s, i)
  IN  behind[j - 1]
AddressOf(j) == PointerAt(SectionAt(j), j)

(* A .set that is known where it is: its text is an expression, whose      *)
(* names have one definition each, in front of it, and are labels or       *)
(* constants.  A quotient of the location pointer need not have a value.   *)
IsExpression(j) ==
  LET e == At(j).args[1] IN
  Denotation(e, 0) # {} /\ (Uses(e, LP) => ~Uses(e, "/"))
Tame(j) ==
  /\ IsExpression(j)
  /\ \A m \in NamesIn(At(j).args[1]) :
       \E i \in 1 .. j : Defs(m) = {i} /\ (i \in Sets(m) => i # j /\ IsExpression(i) /\ NamesIn(At(i).args[1]) = {})

(* What e means at line j it means in the end: nothing that it names is    *)
(* defined again, or was deferred before.                                  *)
Lasting(e, j) ==
  ~Uses(e, LP) /\ \A n \in NamesIn(e) : Cardinality(Defs(n)) = 1 /\ \A i \in Sets(n) : i < j => Tame(i)

(* The addresses follow from the lines: no ld takes the short form, and    *)
(* the length of a .zero or .fill is one that is known there and lasts.    *)
Measured(j) ==
  LET e == At(j).args[1] IN
  /\ IsExpression(j) /\ ~Uses(e, LP)
  /\ At(j).op = "fill" => NamesIn(e) = {}
  /\ \A n \in NamesIn(e) : \E i \in 1 .. j : Defs(n) = {i} /\ (i \in Sets(n) => Tame(i))
Countable ==
  /\ \A i \in DOMAIN instrs : ~(instrs[i].instr = "ld" /\ instrs[i].rs = "ir")
  /\ \A j \in Source : At(j).op \in {"zero", "fill"} => Measured(j)

(* In the object file a label has the address of the line where it was     *)
(* last defined, counted over the lines in front of it whatever was used   *)
(* or declared before, and a .set of what was known has its meaning there. *)
SymbolsMean ==
  pc = "written" =>
    \A n \in Names :
      /\ Labels(n) # {} /\ Countable => ValueAt(n) = Wrap(AddressOf(Max(Labels(n))))
      /\ Labels(n) = {} /\ Countable =>
           \A j \in Sets(n) : Tame(j) /\ Denotation(At(j).args[1], Wrap(AddressOf(j))) # {} =>
             ValueAt(n) \in Denotation(At(j).args[1], Wrap(AddressOf(j)))

(* In whatever order a name is used, declared global and defined: it has a *)
(* definition and one entry, is global iff a .glob names it, of type 1 iff *)
(* a .set does, and has the section of its last definition unless a vector *)
(* has a part in it.  A .set that mentions its own name makes a second     *)
(* entry.                                                                  *)
Linkage ==
  pc = "written" =>
    \A k \in 2 .. Len(symbs) :
      LET n == symbs[k].name IN
      /\ Defs(n) # {}
      /\ ~MentionsItself(n) =>
           /\ getSymbEntry(symbs, n) = k
           /\ symbs[k].glob <=> \E j \in Source : At(j).op = "glob" /\ At(j).name = n
           /\ symbs[k].type = 1 <=> Sets(n) # {}
           /\ symbs[k].sect % EVT = SectionAt(Max(Defs(n))) % EVT
           /\ \/ symbs[k].sect = SectionAt(Max(Defs(n)))
              \/ \E j \in Source : SectionAt(j) >= EVT /\
                   (j \in Defs(n) \/ (At(j).op = "glob" /\ At(j).name = n))

(* What .byte, .hword, .word and .fill put into the file is what their     *)
(* expressions mean by the grammar, with the values of the symbol table,   *)
(* or its lower bytes if it has a bit behind them; no value of which a bit *)
(* is in the byte just behind them gets into the file.                     *)
DataMean ==
  pc = "written" =>
    \A s \in {DATA, CONST, EVT} : \A k \in DOMAIN data[s] : \A j \in DOMAIN data[s][k].vals :
      LET e == data[s][k].args[j]
          stored == data[s][k].vals[j]
          bits == ByteBits * data[s][k].width IN
      ~Uses(e, LP) =>
        \A v \in Denotation(e, 0) :
          /\ stored = v <=> \A b \in bits .. WordBits - 1 : Bit(v, b) = 0
          /\ bits < WordBits => /\ stored = v % Pow2[bits]
                               /\ \A b \in bits .. bits + ByteBits - 1 : Bit(v, b) = 0

-----------------------------------------------------------------------------
(* What the instructions of a long ld leave in the registers.              *)
Execute(regs, i) ==
  [regs EXCEPT ![i.rd] =
     CASE i.instr = "mv"  -> i.field
       [] i.instr = "lsl" -> Wrap(regs[i.rs] * Pow2[i.field])
       [] i.instr = "or"  -> BitByBit(BitOr, regs[i.rd], regs[i.rs])
       [] i.instr = "add" -> Wrap(regs[i.rs] + i.field)]
Group(j) == SelectSeq(instrs, LAMBDA i : i.line = j /\ i.instr \in {"mv", "lsl", "or", "add"})

(* ld of an address or literal leaves it in its register, known in the     *)
(* first pass or in the second, unless the register is c0, in which the    *)
(* middle share overwrites the high one.  What has address 0 is passed     *)
(* over, and what a deferred .set meant at this line may change.           *)
LdExact ==
  pc = "written" =>
    \A j \in Source : At(j).op = "ld" /\ Group(j) # << >> /\ (\A i \in DOMAIN Group(j) : Group(j)[i].addr # 0) =>
      LET e == At(j).args[1]
          regs == FoldLeft(Execute, [r \in {"x", "c0"} |-> 0], Group(j)) IN
      Lasting(e, j) =>
        \A v \in Denotation(e, 0) : regs[At(j).name] = v <=> At(j).name = "x" \/ High(v) = 0

(* What the core decodes is the operand of the source: an offset as it is  *)
(* (and never a negative one), an immediate unless a bit outside its field *)
(* is not tested, a conditional branch if it goes forward, ub and call     *)
(* within the words that survive the shifts of nextIR.                     *)
OperandsDecoded ==
  pc = "written" =>
    \A i \in DOMAIN instrs :
      LET x == instrs[i]
          reads == Decoded(x.kind, x.field, x.addr) IN
      x.kind \in Kinds /\ x.addr # 0 /\ x.addr % 4 = 0 /\ ~Uses(x.expr, LP) =>
        \A v \in Denotation(x.expr, 0) :
          CASE x.kind = "M"  -> reads = v /\ v >= 0
            [] x.kind = "I"  -> reads = v <=> \A b \in ImmBits .. WordBits - 1 : Bit(v, b) = 0
            [] x.kind = "Bc" -> reads = v <=> BranchOffset(v, x.addr) >= 0
            [] x.kind = "Bi" -> reads = v <=> InRange(BranchOffset(v, x.addr), KeptBits)

-----------------------------------------------------------------------------
(* Where bytes are. *)

PlacedAt(bin_, off, what, size, s, i) ==
  \A k \in 1 .. size : ByteAt(bin_, off + what.addr - Starts[bin_.kern][s] + k - 1) = << s, i, k >>
PlacedItems(off, s) ==
  \A i \in DOMAIN data[s] : PlacedAt(bin, off, data[s][i], data[s][i].size, s, i)

InSection(i, s) == instrs[i].kind # "marker" /\ SectionAt(instrs[i].line) = s
LastOfLd(i) == instrs[i].instr = "ld" /\ instrs[i].rs # "ir"
PlacedInstrs(off) ==
  \A i \in DOMAIN instrs : InSection(i, TEXT) /\ ~LastOfLd(i) =>
    \A k \in 1 .. 4 : ByteAt(bin, off + instrs[i].addr - Starts[bin.kern][TEXT] + k - 1) = << TEXT, i, k >>

(* The text has no gap and no instruction of the ivt. *)
PureText ==
  \A j \in Source : /\ At(j).op = "zero" => SectionAt(j) # TEXT
                    /\ IsInstr(j) => SectionAt(j) # IVT
HasBss == BSS \in DOMAIN bin.heads

(* The header of each section that is present leads to its bytes, each one *)
(* at the place of its address, with exceptions: behind .bss, which the    *)
(* headers count although it has no bytes, and in a text with gaps.        *)
FileExact ==
  pc = "written" =>
    /\ DATA \in DOMAIN bin.heads => PlacedItems(bin.heads[DATA].off, DATA)
    /\ CONST \in DOMAIN bin.heads => PlacedItems(bin.heads[CONST].off, CONST)
    /\ PureText => PlacedInstrs(bin.heads[TEXT].off - (IF HasBss THEN Size(BSS) ELSE 0))

(* The vector is written as it was assembled if it has instructions, ends  *)
(* with an item, and no item is close behind an ld of seven instructions,  *)
(* whose last one is recorded 20 bytes too far.                            *)
VectorWhole ==
  /\ PureText
  /\ \E i \in DOMAIN instrs : InSection(i, EVT)
  /\ \E d \in DOMAIN data[EVT] : data[EVT][d].addr + data[EVT][d].size = lp[EVT]
                               /\ data[EVT][d].size > 0
  /\ \A i \in DOMAIN instrs, d \in DOMAIN data[EVT] :
       InSection(i, EVT) /\ LastOfLd(i) =>
         data[EVT][d].addr \notin instrs[i].addr - 20 .. instrs[i].addr
VectorExact ==
  pc = "written" /\ VectorWhole =>
    LET off == Len(bin.payload) - Size(EVT) IN
    /\ PlacedItems(off, EVT)
    /\ \A i \in DOMAIN instrs : InSection(i, EVT) =>
         \A k \in 1 .. 4 :
           ByteAt(bin, off + instrs[i].addr - (IF LastOfLd(i) THEN 20 ELSE 0)
                         - Starts[TRUE][EVT] + k - 1) = << TEXT, i, k >>

(* When the file is loaded, each instruction is at its address, in the     *)
(* kernel also the data; but no byte of the data or constants of a program *)
(* is at its own address.  Again a .bss moves everything.                  *)
LoadedExact ==
  pc = "written" /\ ~HasBss =>
    /\ PureText =>
         \A i \in DOMAIN instrs : InSection(i, TEXT) /\ ~LastOfLd(i) =>
           \A k \in 1 .. 4 : Loaded(bin, instrs[i].addr + k - 1) = << TEXT, i, k >>
    /\ \A s \in {DATA, CONST} : \A i \in DOMAIN data[s] : \A k \in 1 .. data[s][i].size :
         Loaded(bin, data[s][i].addr + k - 1) = << s, i, k >>
           <=> bin.kern /\ s = DATA /\ DATA \in DOMAIN bin.heads

(* The assembler is killed only over a quotient or an expression that is   *)
(* too long for the stack, a .set that was deferred, a .fill whose length  *)
(* has a name or is not positive, a .zero of negative length, items of a   *)
(* vector that has no instruction, or an instruction that has address 0    *)
(* like the markers of the vector.                                         *)
TooLong(e) == MaxCalls < 2 * Len(e) + 4
HasName(e) == \E i \in DOMAIN e : e[i].type = "SYMB"
CrashCause ==
  pc = "crash" =>
    \/ \E j \in Source : \E a \in DOMAIN At(j).args : Uses(At(j).args[a], "/") \/ TooLong(At(j).args[a])
    \/ \E j \in Source : At(j).op = "set" /\ ~Tame(j)
    \/ \E j \in Source : At(j).op = "fill" /\
         (HasName(At(j).args[1]) \/ \A v \in Denotation(At(j).args[1], 0) : v <= 0)
    \/ \E s \in {DATA, CONST, EVT} : \E d \in DOMAIN data[s] : data[s][d].size < 0
    \/ data[EVT] # << >> /\ \A i \in DOMAIN instrs : ~InSection(i, EVT)
    \/ \E i \in DOMAIN instrs : instrs[i].kind # "marker" /\ instrs[i].addr = 0
===============================================================================
