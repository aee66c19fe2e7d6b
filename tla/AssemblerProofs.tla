---------------------------- MODULE AssemblerProofs ----------------------------
(***************************************************************************)
(* Proofs about module Assembler: the items of a section adjoin, the       *)
(* exception vector is opened and closed once, every variable has its      *)
(* type, and the values of items and the fields of instructions are what   *)
(* their expressions mean.                                                 *)
(***************************************************************************)
EXTENDS Assembler, EvaluatorProofs, SequenceTheorems

ItemFields == {"addr", "size", "width", "args", "vals", "done", "line"}

(* What the actions rely on: the tables are functions, the data tables     *)
(* hold sequences of records of these fields, the loop has a line.         *)
Shape ==
  /\ file \in Files
  /\ at \in Nat \ {0}
  /\ lp = [s \in Sections |-> lp[s]]
  /\ data = [s \in Tables |-> data[s]]
  /\ \A s \in Tables : \E S : data[s] \in Seq(S)
  /\ \A s \in Tables : \A k \in 1 .. Len(data[s]) : DOMAIN data[s][k] = ItemFields

Inv == Shape /\ active \in Sections /\ ItemsAdjoin

Filled(item) ==
  item.done \/ item.size = item.width * Len(item.args) \/ item.size < 0

(* The numbers of the sections. *)
LEMMA SectionNumbers ==
  /\ Sections = 0 .. 5
  /\ Tables = {0, 1, 2, 4} /\ Tables \subseteq Sections
  /\ {DATA, CONST, BSS} = {0, 1, 2}
  /\ TEXT = 3 /\ EVT = 4 /\ IVT = 5
  BY DEF Sections, Tables, DATA, CONST, BSS, TEXT, EVT, IVT

(* The line that is read is a line of the file, as the parser leaves it.   *)
LEMMA LineRead ==
  ASSUME file \in Files, at \in Nat \ {0}, NEW ops, Reads(ops)
  PROVE  /\ at \in DOMAIN file.lines /\ at \in 1 .. Len(file.lines)
         /\ line \in Line /\ line.op \in ops /\ WellFormed(line)
<1>1. file.lines \in Seq(Line)
  BY FilesAssumption
<1>2. at \in 1 .. Len(file.lines)
  BY <1>1 DEF Reads
<1>3. at \in DOMAIN file.lines
  BY <1>1, <1>2
<1>4. line \in Line
  BY <1>1, <1>2 DEF line
<1> QED BY <1>2, <1>3, <1>4, FilesAssumption DEF Reads, line

-----------------------------------------------------------------------------
(* An item behind the others. *)
LEMMA AppendItem ==
  ASSUME NEW S, NEW q \in Seq(S), NEW e
  PROVE  /\ Append(q, e) \in Seq(S \cup {e})
         /\ Append(q, e) # << >>
         /\ Len(q) \in Nat
         /\ Len(Append(q, e)) = Len(q) + 1
         /\ \A k \in 1 .. Len(q) : Append(q, e)[k] = q[k]
         /\ Append(q, e)[Len(q) + 1] = e
<1>1. q \in Seq(S \cup {e})
  BY SMT
<1> QED BY <1>1, AppendProperties, LenProperties

(* It adjoins if it has the address of the location pointer and moves the  *)
(* pointer by its size.                                                    *)
LEMMA AppendAdjoins ==
  ASSUME NEW S, NEW q \in Seq(S), NEW e, NEW start, NEW end, NEW end2,
         Adjoin(q, start, end), e.addr = end, e.addr + e.size = end2
  PROVE  Adjoin(Append(q, e), start, end2)
<1> DEFINE r == Append(q, e)
<1>1. /\ r # << >> /\ Len(q) \in Nat /\ Len(r) = Len(q) + 1
      /\ \A k \in 1 .. Len(q) : r[k] = q[k]
      /\ r[Len(q) + 1] = e
  BY AppendItem
<1>2. q = << >> <=> Len(q) = 0
  BY EmptySeq, LenProperties
<1> HIDE DEF r
<1>3. r[1].addr = start
  <2>1. CASE q = << >>
    BY <2>1, <1>1, <1>2 DEF Adjoin
  <2>2. CASE q # << >>
    BY <2>2, <1>1, <1>2 DEF Adjoin
  <2> QED BY <2>1, <2>2
<1>4. r[Len(r)].addr + r[Len(r)].size = end2
  BY <1>1
<1>5. ASSUME NEW k \in 1 .. Len(r) - 1
      PROVE  r[k + 1].addr = r[k].addr + r[k].size
  <2>1. CASE k < Len(q)
    BY <2>1, <1>1 DEF Adjoin
  <2>2. CASE k = Len(q)
    BY <2>2, <1>1, <1>2 DEF Adjoin
  <2> QED BY <2>1, <2>2, <1>1
<1>6. Adjoin(r, start, end2)
  BY <1>1, <1>3, <1>4, <1>5 DEF Adjoin
<1> QED BY <1>6 DEF r

(* The same items, but for what is in them: nothing moves. *)
LEMMA SameAdjoins ==
  ASSUME NEW q, NEW r, NEW start, NEW end, Adjoin(q, start, end),
         Len(q) \in Nat, Len(r) = Len(q), r = << >> <=> q = << >>,
         q = << >> <=> Len(q) = 0,
         \A k \in 1 .. Len(q) : r[k].addr = q[k].addr /\ r[k].size = q[k].size
  PROVE  Adjoin(r, start, end)
<1>1. CASE q = << >>
  BY <1>1 DEF Adjoin
<1>2. CASE q # << >>
  <2>1. r[1].addr = start /\ r[Len(r)].addr + r[Len(r)].size = end
    BY <1>2 DEF Adjoin
  <2>2. \A k \in 1 .. Len(r) - 1 : r[k + 1].addr = r[k].addr + r[k].size
    BY <1>2 DEF Adjoin
  <2> QED BY <1>2, <2>1, <2>2 DEF Adjoin
<1> QED BY <1>1, <1>2

-----------------------------------------------------------------------------
(* The parts of the invariant, a section at a time. *)
SectionOK(s) ==
  /\ Adjoin(data[s], Starts[file.kern][s], lp[s])
  /\ \A k \in DOMAIN data[s] : Filled(data[s][k])

LEMMA BySection == ItemsAdjoin <=> \A s \in {DATA, CONST, BSS} : SectionOK(s)
  BY DEF ItemsAdjoin, SectionOK, Filled

(* A step that leaves data and the pointers of .data, .const and .bss.     *)
LEMMA NothingAdded ==
  ASSUME Inv, file' = file, at' \in Nat \ {0}, active' \in Sections, data' = data,
         lp' = [s \in Sections |-> lp'[s]],
         \A s \in {DATA, CONST, BSS} : lp'[s] = lp[s]
  PROVE  Inv'
<1>1. Shape'
  BY DEF Inv, Shape
<1>2. ItemsAdjoin'
  BY DEF Inv, ItemsAdjoin
<1> QED BY <1>1, <1>2 DEF Inv

(* A directive that adds an item, or moves the pointer of a section        *)
(* without a table.                                                        *)
LEMMA ItemAdded ==
  ASSUME Inv, NEW size, NEW width, NEW args, NEW done,
         AddItem(size, width, args, done),
         done \/ size = width * Len(args) \/ size < 0
  PROVE  Inv'
<1> DEFINE e == [addr |-> lp[active], size |-> size, width |-> width, args |-> args,
                 vals |-> << >>, done |-> done, line |-> at]
<1>1. /\ lp' = [lp EXCEPT ![active] = @ + size]
      /\ data' = IF active \notin Tables THEN data
                 ELSE [data EXCEPT ![active] = Append(@, e)]
      /\ file' = file /\ active' = active /\ at' = at + 1
  BY DEF AddItem, EndLine
<1>2. /\ e.addr = lp[active] /\ e.size = size /\ e.width = width /\ e.args = args
      /\ e.done = done /\ DOMAIN e = ItemFields
  BY DEF ItemFields
<1> HIDE DEF e
<1>3. /\ lp' = [s \in Sections |-> lp'[s]]
      /\ \A s \in Sections : s # active => lp'[s] = lp[s]
      /\ lp'[active] = lp[active] + size
  BY <1>1 DEF Inv, Shape
<1>4. /\ data' = [s \in Tables |-> data'[s]]
      /\ \A s \in Tables : s # active => data'[s] = data[s]
      /\ active \in Tables => data'[active] = Append(data[active], e)
  BY <1>1 DEF Inv, Shape
<1>5. ASSUME active \in Tables
      PROVE  /\ \E S : data'[active] \in Seq(S)
             /\ \A k \in 1 .. Len(data'[active]) :
                  \/ k \in 1 .. Len(data[active]) /\ data'[active][k] = data[active][k]
                  \/ data'[active][k] = e
             /\ Adjoin(data[active], Starts[file.kern][active], lp[active]) =>
                  Adjoin(data'[active], Starts[file.kern][active], lp'[active])
  <2>1. PICK S : data[active] \in Seq(S)
    BY <1>5 DEF Inv, Shape
  <2>2. /\ data'[active] \in Seq(S \cup {e})
        /\ Len(data[active]) \in Nat /\ Len(data'[active]) = Len(data[active]) + 1
        /\ \A k \in 1 .. Len(data[active]) : data'[active][k] = data[active][k]
        /\ data'[active][Len(data[active]) + 1] = e
    BY <2>1, <1>4, <1>5, AppendItem
  <2>3. e.addr + e.size = lp'[active]
    BY <1>2, <1>3
  <2>4. ASSUME Adjoin(data[active], Starts[file.kern][active], lp[active])
        PROVE  Adjoin(Append(data[active], e), Starts[file.kern][active], lp'[active])
    <3>1. e.addr = lp[active]
      BY <1>2
    <3> QED BY <2>1, <2>3, <2>4, <3>1, AppendAdjoins, Zenon
  <2>5. ASSUME NEW k \in 1 .. Len(data'[active])
        PROVE  \/ k \in 1 .. Len(data[active]) /\ data'[active][k] = data[active][k]
               \/ data'[active][k] = e
    <3>1. k \in 1 .. Len(data[active]) \/ k = Len(data[active]) + 1
      BY <2>2
    <3> QED BY <3>1, <2>2
  <2>6. Append(data[active], e) = data'[active]
    BY <1>4, <1>5
  <2>7. \E T : data'[active] \in Seq(T)
    BY <2>2
  <2> QED BY <2>4, <2>5, <2>6, <2>7
<1>6. \A s \in Tables : \E S : data'[s] \in Seq(S)
  BY <1>4, <1>5 DEF Inv, Shape
<1>7. \A s \in Tables : \A k \in 1 .. Len(data'[s]) : DOMAIN data'[s][k] = ItemFields
  <2> SUFFICES ASSUME NEW s \in Tables, NEW k \in 1 .. Len(data'[s])
               PROVE  DOMAIN data'[s][k] = ItemFields
    OBVIOUS
  <2>1. CASE s # active
    BY <2>1, <1>4 DEF Inv, Shape
  <2>2. CASE s = active
    <3>1. (k \in 1 .. Len(data[s]) /\ data'[s][k] = data[s][k]) \/ data'[s][k] = e
      BY <2>2, <1>5
    <3> QED BY <3>1, <1>2 DEF Inv, Shape
  <2> QED BY <2>1, <2>2
<1>8. Shape'
  BY <1>1, <1>3, <1>4, <1>6, <1>7 DEF Inv, Shape
<1>9. ASSUME NEW s \in {DATA, CONST, BSS}
      PROVE  SectionOK(s)'
  <2>1. SectionOK(s) /\ s \in Tables /\ s \in Sections
    BY BySection, SectionNumbers DEF Inv
  <2>2. CASE s # active
    BY <2>1, <2>2, <1>1, <1>3, <1>4 DEF SectionOK, Filled
  <2>3. CASE s = active
    <3>1. Adjoin(data[s], Starts[file.kern][s], lp[s])'
      BY <2>1, <2>3, <1>1, <1>5 DEF SectionOK
    <3>2. ASSUME NEW k \in DOMAIN data'[s]
          PROVE  Filled(data'[s][k])
      <4>1. PICK S : data'[s] \in Seq(S)
        BY <1>6, <2>1
      <4>2. PICK T : data[s] \in Seq(T)
        BY <2>1 DEF Inv, Shape
      <4>3. DOMAIN data'[s] = 1 .. Len(data'[s]) /\ DOMAIN data[s] = 1 .. Len(data[s])
        BY <4>1, <4>2, LenProperties
      <4>4. (k \in DOMAIN data[s] /\ data'[s][k] = data[s][k]) \/ data'[s][k] = e
        BY <4>3, <1>5, <2>1, <2>3, <3>2
      <4> QED BY <4>4, <1>2, <2>1 DEF SectionOK, Filled
    <3> QED BY <3>1, <3>2 DEF SectionOK, Filled
  <2> QED BY <2>2, <2>3
<1>10. ItemsAdjoin'
  BY <1>9 DEF ItemsAdjoin, SectionOK, Filled
<1> QED BY <1>1, <1>8, <1>10 DEF Inv

(* The item completeData takes up, and what it computes for it. *)
NextItem ==
  CHOOSE q \in Incomplete : \A o \in Incomplete :
    q[1] < o[1] \/ (q[1] = o[1] /\ q[2] <= o[2])
Results ==
  LET item == data[NextItem[1]][NextItem[2]] IN
  [j \in DOMAIN item.args |-> Eval(item.args[j], Env(symbs))]
Computed ==
  [j \in DOMAIN Results |-> LowBytes(data[NextItem[1]][NextItem[2]].width, Results[j].val)]

(* completeData ends its part, fails, or fills in the values of the first   *)
(* item that waits for them; it touches the data tables only.              *)
LEMMA CompleteEffect ==
  ASSUME completeData
  PROVE  /\ pc = "complete" /\ pc' \in {"complete", "encode", "fatal", "crash"}
         /\ UNCHANGED << file, at, symbs, lp, present, active, instrs, evt, bin >>
         /\ \/ data' = data
            \/ /\ Incomplete # {}
               /\ data' = [data EXCEPT ![NextItem[1]][NextItem[2]] =
                              [data[NextItem[1]][NextItem[2]] EXCEPT !.done = TRUE,
                                                                    !.vals = Computed]]
<1> DEFINE item == data[NextItem[1]][NextItem[2]]
           bad == {j \in DOMAIN Results : \/ Results[j].trap \/ ~Results[j].ok
                                          \/ TooLarge(item.width, Results[j].val)}
           stop == IF Results[Min(bad)].trap THEN "crash" ELSE "fatal"
           Completed == data' = [data EXCEPT ![NextItem[1]][NextItem[2]] =
                                   [item EXCEPT !.done = TRUE, !.vals = Computed]]
<1>1. /\ pc = "complete"
      /\ UNCHANGED << file, at, symbs, lp, present, active, instrs, evt, bin >>
      /\ IF Incomplete = {} THEN pc' = "encode" /\ UNCHANGED data
         ELSE IF bad # {} THEN pc' = stop /\ UNCHANGED data
         ELSE \/ item.size < 0 /\ pc' = "crash" /\ UNCHANGED data
              \/ Completed /\ UNCHANGED pc
  BY DEF completeData, NextItem, Results, Computed
<1>2. stop \in {"crash", "fatal"}
  OBVIOUS
<1>3. Completed => data' = [data EXCEPT ![NextItem[1]][NextItem[2]] =
                              [item EXCEPT !.done = TRUE, !.vals = Computed]]
  OBVIOUS
<1> HIDE DEF bad, stop, Completed
<1>4. pc' \in {"complete", "encode", "fatal", "crash"}
  BY ONLY <1>1, <1>2
<1>5. data' = data \/ (Incomplete # {} /\ Completed)
  BY ONLY <1>1
<1> QED BY <1>1, <1>3, <1>4, <1>5, Zenon

(* completeData fills in the values of an item and moves nothing, whatever *)
(* item it chooses.                                                        *)
LEMMA ItemCompleted ==
  ASSUME Inv, NEW s0, NEW k0, NEW vals, UNCHANGED << file, at, lp, active >>,
         data' = [data EXCEPT ![s0][k0] =
                    [data[s0][k0] EXCEPT !.done = TRUE, !.vals = vals]]
  PROVE  Inv'
<1> DEFINE it == [data[s0][k0] EXCEPT !.done = TRUE, !.vals = vals]
<1>1. /\ data' = [s \in Tables |-> data'[s]]
      /\ \A s \in Tables : data'[s] = IF s = s0 THEN [data[s] EXCEPT ![k0] = it] ELSE data[s]
  BY DEF Inv, Shape
<1>2. ASSUME s0 \in Tables, k0 \in 1 .. Len(data[s0])
      PROVE  /\ it.addr = data[s0][k0].addr /\ it.size = data[s0][k0].size
             /\ it.done = TRUE /\ DOMAIN it = ItemFields
  <2>1. DOMAIN data[s0][k0] = ItemFields
    BY <1>2 DEF Inv, Shape
  <2> QED BY <2>1 DEF ItemFields
<1> HIDE DEF it
<1>3. ASSUME NEW s \in Tables
      PROVE  /\ \E T : data'[s] \in Seq(T) /\ data[s] \in Seq(T)
             /\ Len(data[s]) \in Nat /\ Len(data'[s]) = Len(data[s])
             /\ \A k \in 1 .. Len(data[s]) :
                  \/ data'[s][k] = data[s][k]
                  \/ s = s0 /\ k = k0 /\ data'[s][k] = it
  <2>1. PICK S : data[s] \in Seq(S)
    BY DEF Inv, Shape
  <2>2. CASE s = s0 /\ k0 \in 1 .. Len(data[s])
    <3>1. data[s] \in Seq(S \cup {it})
      BY <2>1
    <3>2. data'[s] = [data[s] EXCEPT ![k0] = it]
      BY <1>1, <2>2
    <3>3. data'[s] \in Seq(S \cup {it}) /\ Len(data'[s]) = Len(data[s]) /\ Len(data[s]) \in Nat
      BY <3>1, <3>2, <2>2, ExceptSeq, LenProperties
    <3>4. \A k \in 1 .. Len(data[s]) : data'[s][k] = IF k = k0 THEN it ELSE data[s][k]
      BY <3>1, <3>2
    <3> QED BY <3>1, <3>3, <3>4, <2>2
  <2>3. CASE ~(s = s0 /\ k0 \in 1 .. Len(data[s]))
    <3>1. data'[s] = data[s]
      BY <1>1, <2>1, <2>3
    <3> QED BY <2>1, <3>1, LenProperties
  <2> QED BY <2>2, <2>3
<1>4. Shape'
  <2>1. \A s \in Tables : \E T : data'[s] \in Seq(T)
    BY <1>3
  <2>2. ASSUME NEW s \in Tables, NEW k \in 1 .. Len(data'[s])
        PROVE  DOMAIN data'[s][k] = ItemFields
    <3>1. k \in 1 .. Len(data[s]) /\ DOMAIN data[s][k] = ItemFields
      BY <1>3 DEF Inv, Shape
    <3> QED BY <3>1, <1>2, <1>3
  <2> QED BY <1>1, <2>1, <2>2 DEF Inv, Shape
<1>5. ASSUME NEW s \in {DATA, CONST, BSS}
      PROVE  SectionOK(s)'
  <2>1. SectionOK(s) /\ s \in Tables
    BY BySection, SectionNumbers DEF Inv
  <2>2. PICK T : data'[s] \in Seq(T) /\ data[s] \in Seq(T)
    BY <1>3, <2>1
  <2>3. Adjoin(data'[s], Starts[file.kern][s], lp[s])
    <3>1. \A k \in 1 .. Len(data[s]) : /\ data'[s][k].addr = data[s][k].addr
                                       /\ data'[s][k].size = data[s][k].size
      BY <1>2, <1>3, <2>1
    <3>2. /\ data[s] = << >> <=> Len(data[s]) = 0
          /\ data'[s] = << >> <=> Len(data'[s]) = 0
      BY <2>2, EmptySeq, LenProperties
    <3>3. Len(data[s]) \in Nat /\ Len(data'[s]) = Len(data[s])
      BY <1>3, <2>1
    <3>4. Adjoin(data[s], Starts[file.kern][s], lp[s])
      BY <2>1 DEF SectionOK
    <3> QED BY <3>1, <3>2, <3>3, <3>4, SameAdjoins
  <2>4. ASSUME NEW k \in DOMAIN data'[s]
        PROVE  Filled(data'[s][k])
    <3>1. k \in 1 .. Len(data[s]) /\ k \in DOMAIN data[s]
      BY <2>1, <2>2, <1>3
    <3>2. CASE data'[s][k] = data[s][k]
      BY <3>1, <3>2, <2>1 DEF SectionOK
    <3>3. CASE s = s0 /\ k = k0 /\ data'[s][k] = it
      BY <3>1, <3>3, <1>2, <2>1 DEF Filled
    <3> QED BY <3>1, <3>2, <3>3, <1>3, <2>1
  <2> QED BY <2>3, <2>4 DEF SectionOK, Filled
<1>6. ItemsAdjoin'
  BY <1>5 DEF ItemsAdjoin, SectionOK, Filled
<1> QED BY <1>4, <1>6 DEF Inv

(* The values of a .fill are as many as its length. *)
LEMMA FillLength ==
  ASSUME NEW n \in 1 .. Half, NEW v
  PROVE  n = 1 * Len([i \in 1 .. n |-> v])
<1>1. n \in Nat
  OBVIOUS
<1> DEFINE f == [i \in 1 .. n |-> v]
<1>2. f \in Seq({v}) /\ DOMAIN f = 1 .. n
  BY <1>1
<1>3. Len(f) = n
  BY <1>1, <1>2, LenProperties
<1> QED BY <1>1, <1>3

-----------------------------------------------------------------------------
(* Init and every step. *)

LEMMA InvInit == Init => Inv
<1> SUFFICES ASSUME Init PROVE Inv
  OBVIOUS
<1>1. /\ file \in Files /\ at = 1 /\ active \in Sections
      /\ lp = Starts[file.kern] /\ data = [s \in Tables |-> << >>]
  BY SectionNumbers DEF Init, DATA
<1>2. lp \in [Sections -> Int]
  BY <1>1, FilesAssumption, StartsAssumption
<1>3. \A s \in Tables : data[s] \in Seq({}) /\ Len(data[s]) = 0
  BY <1>1
<1>4. Shape
  BY <1>1, <1>2, <1>3 DEF Shape
<1>5. ASSUME NEW s \in {DATA, CONST, BSS} PROVE SectionOK(s)
  <2>1. data[s] = << >> /\ lp[s] = Starts[file.kern][s]
    BY <1>1, SectionNumbers
  <2>2. Len(<< >>) = 0 /\ DOMAIN << >> = {}
    OBVIOUS
  <2>3. Adjoin(<< >>, lp[s], lp[s])
    BY <2>2 DEF Adjoin
  <2> QED BY <2>1, <2>2, <2>3 DEF SectionOK
<1> QED BY <1>1, <1>4, <1>5, BySection DEF Inv

(* The process that ends keeps its tables. *)
LEMMA Stopped ==
  ASSUME Inv, NEW how, Stop(how)
  PROVE  Inv'
<1>1. UNCHANGED << file, at, lp, active, data >>
  BY DEF Stop, tables
<1> QED BY <1>1, NothingAdded DEF Inv, Shape

(* A line that adds no item. *)
LEMMA LineEnded ==
  ASSUME Inv, NEW a \in Sections, NEW s, EndLine(a, s), UNCHANGED << lp, data >>
  PROVE  Inv'
<1>1. file' = file /\ at' = at + 1 /\ active' = a
  BY DEF EndLine
<1> QED BY <1>1, NothingAdded DEF Inv, Shape

(* An instruction moves the pointers of text, evt and ivt only, where it   *)
(* may be.                                                                 *)
LEMMA InstrsAdded ==
  ASSUME Inv, NEW s, NEW new, NEW extra, AddInstrs(s, new, extra), ~Misplaced
  PROVE  Inv'
<1>1. active \in {TEXT, EVT, IVT}
  BY SectionNumbers DEF Inv, Misplaced
<1> DEFINE here == [lp EXCEPT ![active] = @ + extra]
<1>2. /\ lp' = [here EXCEPT ![IF evt = "open" THEN EVT ELSE TEXT] = @ + 4]
      /\ file' = file /\ at' = at + 1 /\ active' = active /\ data' = data
  BY DEF AddInstrs, EndLine
<1>3. /\ here = [t \in Sections |-> here[t]]
      /\ \A t \in {DATA, CONST, BSS} : here[t] = lp[t]
  BY <1>1 DEF Inv, Shape, DATA, CONST, BSS, TEXT, EVT, IVT
<1> HIDE DEF here
<1>4. /\ lp' = [t \in Sections |-> lp'[t]]
      /\ \A t \in {DATA, CONST, BSS} : lp'[t] = lp[t]
  BY <1>2, <1>3 DEF DATA, CONST, BSS, TEXT, EVT
<1> QED BY <1>2, <1>4, NothingAdded DEF Inv, Shape

LEMMA InvNext == Inv /\ [Next]_vars => Inv'
<1> SUFFICES ASSUME Inv, [Next]_vars PROVE Inv'
  OBVIOUS
<1> USE DEF Inv
<1>1. CASE LabelLine
  BY <1>1, LineEnded DEF LabelLine
<1>2. CASE SectionDirective
  <2>1. line.n \in Sections
    BY <1>2, LineRead DEF SectionDirective, Shape, WellFormed
  <2> QED BY <1>2, <2>1, LineEnded DEF SectionDirective
<1>3. CASE setDirective
  <2>1. CASE \E how : Stop(how)
    BY <2>1, Stopped
  <2>2. CASE EndLine(active, instrs) /\ UNCHANGED << lp, data >>
    BY <2>2, LineEnded
  <2> QED BY <1>3, <2>1, <2>2 DEF setDirective
<1>4. CASE globDirective
  BY <1>4, LineEnded DEF globDirective
<1>5. CASE endDirective
  <2>1. at' \in Nat \ {0}
    BY <1>5, FilesAssumption, LenProperties DEF endDirective, Shape
  <2> QED BY <1>5, <2>1, NothingAdded DEF endDirective, Shape
<1>6. CASE valuesDirective
  <2>1. CASE \E how : Stop(how)
    BY <2>1, Stopped
  <2>2. CASE AddItem(SizeOf(line.n, line.args), line.n, line.args, FALSE)
    BY <2>2, ItemAdded DEF SizeOf
  <2> QED BY <1>6, <2>1, <2>2 DEF valuesDirective
<1>7. CASE literalDirective
  <2>1. CASE \E how : Stop(how)
    BY <2>1, Stopped
  <2>2. CASE AddItem(line.n, 1, << >>, TRUE)
    BY <2>2, ItemAdded
  <2> QED BY <1>7, <2>1, <2>2 DEF literalDirective
<1>8. CASE zeroDirective
  <2>1. CASE \E how : Stop(how)
    BY <2>1, Stopped
  <2>2. CASE \E v : AddItem(v, 1, line.args, ~(v < 0))
    BY <2>2, ItemAdded
  <2> QED BY <1>8, <2>1, <2>2 DEF zeroDirective
<1>9. CASE fillDirective
  <2>1. CASE \E how : Stop(how)
    BY <2>1, Stopped
  <2>2. CASE \E v \in 1 .. Half : AddItem(v, 1, [i \in 1 .. v |-> line.args[2]], FALSE)
    BY <2>2, ItemAdded, FillLength
  <2> QED BY <1>9, <2>1, <2>2 DEF fillDirective
<1>10. CASE handleInstruction
  <2>1. CASE \E how : Stop(how)
    BY <2>1, Stopped
  <2>2. CASE ~Misplaced /\ \E s, new, extra : AddInstrs(s, new, extra)
    BY <2>2, InstrsAdded
  <2> QED BY <1>10, <2>1, <2>2 DEF handleInstruction
<1>11. CASE handleLd
  <2>1. CASE \E how : Stop(how)
    BY <2>1, Stopped
  <2>2. CASE ~Misplaced /\ \E s, new, extra : AddInstrs(s, new, extra)
    BY <2>2, InstrsAdded
  <2> QED BY <1>11, <2>1, <2>2 DEF handleLd
<1>12. CASE EndOfFile
  BY <1>12, NothingAdded DEF EndOfFile, Shape
<1>13. CASE Reuse
  BY <1>13, NothingAdded DEF Reuse, Shape
<1>14. CASE resolveSymbols
  <2>1. at' \in Nat \ {0}
    BY <1>14 DEF resolveSymbols, Round, Shape
  <2> QED BY <1>14, <2>1, NothingAdded DEF resolveSymbols, Shape
<1>15. CASE completeData
  <2>1. UNCHANGED << file, at, lp, active >>
    BY <1>15, CompleteEffect
  <2>2. CASE data' = data
    BY <2>1, <2>2, NothingAdded DEF Shape
  <2> DEFINE s == NextItem[1]
             k == NextItem[2]
             Put(vals) == [data EXCEPT ![s][k] =
                             [data[s][k] EXCEPT !.done = TRUE, !.vals = vals]]
  <2>3. data' = data \/ data' = Put(Computed)
    BY <1>15, CompleteEffect
  <2> HIDE DEF s, k
  <2>4. CASE data' = Put(Computed)
    BY <2>1, <2>4, ItemCompleted
  <2> QED BY <2>2, <2>3, <2>4
<1>16. CASE encode
  <2>1. at' \in Nat \ {0}
    BY <1>16 DEF encode, Shape
  <2> QED BY <1>16, <2>1, NothingAdded DEF encode, Shape
<1>17. CASE Generate
  BY <1>17, NothingAdded DEF Generate, tables, Shape
<1>18. CASE UNCHANGED vars
  BY <1>18, NothingAdded DEF vars, tables, Shape
<1> QED
  BY <1>1, <1>2, <1>3, <1>4, <1>5, <1>6, <1>7, <1>8, <1>9, <1>10, <1>11, <1>12, <1>13,
     <1>14, <1>15, <1>16, <1>17, <1>18 DEF Next, Exited

(* The items of .data, .const and .bss adjoin, for every file, every       *)
(* width of a word and every start of the sections.                        *)
THEOREM ItemsStayTogether == Spec => []ItemsAdjoin
<1>1. Inv => ItemsAdjoin
  BY DEF Inv
<1> QED BY InvInit, InvNext, <1>1, PTL DEF Spec

-----------------------------------------------------------------------------
(* The exception vector: an instruction counts for .evt while the vector   *)
(* is open, data while .evt is active.                                     *)

PassTwo == {"resolve", "complete", "encode", "generate", "written"}

(* In the first pass the vector is open exactly while .evt is active; a    *)
(* program has neither vector nor items of one; what the second pass       *)
(* reads is closed in a kernel, and was never opened in a program.         *)
VectorOnce ==
  pc # "fatal" =>
    /\ pc = "pass1" => (evt = "open" <=> active = EVT)
    /\ ~file.kern => active < EVT /\ evt = "none" /\ data[EVT] = << >>
    /\ pc \in PassTwo => (evt = "closed" <=> file.kern)

VectorInv ==
  /\ Inv
  /\ evt \in {"none", "open", "closed"}
  /\ VectorOnce

(* A line keeps it, or is fatal, if it adds no item to a program's vector. *)
LEMMA VectorLine ==
  ASSUME VectorInv, pc = "pass1", NEW a \in Sections, NEW s, EndLine(a, s),
         data'[EVT] = data[EVT] \/ active = EVT
  PROVE  evt' \in {"none", "open", "closed"} /\ VectorOnce'
<1>1. file.kern \in BOOLEAN
  BY FilesAssumption DEF VectorInv, Inv, Shape
<1> QED
  BY <1>1 DEF VectorInv, VectorOnce, EndLine, EVT, PassTwo, Sections, DATA, IVT

(* An ending process keeps it. *)
LEMMA VectorStop ==
  ASSUME VectorInv, pc # "fatal", NEW how \in {"fatal", "crash"}, Stop(how)
  PROVE  evt' \in {"none", "open", "closed"} /\ VectorOnce'
  BY DEF VectorInv, VectorOnce, Stop, tables, PassTwo

(* So does what changes none of its variables. *)
LEMMA VectorSame ==
  ASSUME VectorInv, UNCHANGED << file, active, evt >>, data'[EVT] = data[EVT] \/ file.kern,
         \/ pc' = pc
         \/ pc # "fatal" /\ pc' \in {"fatal", "crash"}
         \/ pc \in PassTwo /\ pc' \in PassTwo
  PROVE  evt' \in {"none", "open", "closed"} /\ VectorOnce'
  BY DEF VectorInv, VectorOnce, PassTwo

(* AddItem changes the items of .evt only where .evt is active. *)
LEMMA VectorItem ==
  ASSUME VectorInv, pc = "pass1", NEW size, NEW width, NEW args, NEW done,
         AddItem(size, width, args, done)
  PROVE  evt' \in {"none", "open", "closed"} /\ VectorOnce'
<1>1. data'[EVT] = data[EVT] \/ active = EVT
  BY DEF AddItem, VectorInv, Inv, Shape
<1>2. EndLine(active, instrs)
  BY DEF AddItem
<1> QED BY <1>1, <1>2, VectorLine DEF VectorInv, Inv

LEMMA VectorInit == Init => VectorInv
<1> SUFFICES ASSUME Init PROVE VectorInv
  OBVIOUS
<1> QED BY InvInit DEF Init, VectorInv, VectorOnce, DATA, EVT, Tables, PassTwo

LEMMA VectorNext == VectorInv /\ [Next]_vars => VectorInv'
<1> SUFFICES ASSUME VectorInv, [Next]_vars
             PROVE  evt' \in {"none", "open", "closed"} /\ VectorOnce'
  BY InvNext DEF VectorInv
<1>a. active \in Sections
  BY DEF VectorInv, Inv
<1>1. CASE LabelLine
  BY <1>1, <1>a, VectorLine DEF LabelLine, Reads
<1>2. CASE SectionDirective
  <2>1. line.n \in Sections
    BY <1>2, LineRead DEF SectionDirective, VectorInv, Inv, Shape, WellFormed
  <2> QED BY <1>2, <2>1, VectorLine DEF SectionDirective, Reads
<1>3. CASE setDirective
  <2>1. CASE pc = "pass1" /\ (Stop("fatal") \/ Stop("crash"))
    BY <2>1, VectorStop
  <2>2. CASE pc = "pass1" /\ EndLine(active, instrs) /\ data' = data
    BY <2>2, <1>a, VectorLine
  <2> QED BY <1>3, <2>1, <2>2 DEF setDirective, Reads
<1>4. CASE globDirective
  BY <1>4, <1>a, VectorLine DEF globDirective, Reads
<1>5. CASE endDirective
  BY <1>5, VectorSame DEF endDirective
<1>6. CASE valuesDirective
  <2>1. CASE pc = "pass1" /\ Stop("fatal")
    BY <2>1, VectorStop
  <2> QED BY <1>6, <2>1, VectorItem DEF valuesDirective, Reads
<1>7. CASE literalDirective
  <2>1. CASE pc = "pass1" /\ Stop("fatal")
    BY <2>1, VectorStop
  <2> QED BY <1>7, <2>1, VectorItem DEF literalDirective, Reads
<1>8. CASE zeroDirective
  <2>1. CASE pc = "pass1" /\ (Stop("fatal") \/ Stop("crash"))
    BY <2>1, VectorStop
  <2>2. CASE pc = "pass1" /\ \E v : AddItem(v, 1, line.args, ~(v < 0))
    BY <2>2, VectorItem
  <2> QED BY <1>8, <2>1, <2>2 DEF zeroDirective, Reads
<1>9. CASE fillDirective
  <2>1. CASE pc = "pass1" /\ (Stop("fatal") \/ Stop("crash"))
    BY <2>1, VectorStop
  <2>2. CASE pc = "pass1" /\ \E v : AddItem(v, 1, [i \in 1 .. v |-> line.args[2]], FALSE)
    BY <2>2, VectorItem
  <2> QED BY <1>9, <2>1, <2>2 DEF fillDirective, Reads
<1>10. CASE handleInstruction
  <2>1. CASE pc = "pass1" /\ Stop("fatal")
    BY <2>1, VectorStop
  <2>2. CASE pc = "pass1" /\ \E s : EndLine(active, s) /\ data' = data
    BY <2>2, <1>a, VectorLine
  <2> QED BY <1>10, <2>1, <2>2 DEF handleInstruction, Reads, AddInstrs
<1>11. CASE handleLd
  <2>1. CASE pc = "pass1" /\ (Stop("fatal") \/ Stop("crash"))
    BY <2>1, VectorStop
  <2>2. CASE pc = "pass1" /\ \E s, new, extra : AddInstrs(s, new, extra)
    BY <2>2, <1>a, VectorLine DEF AddInstrs
  <2> QED BY <1>11, <2>1, <2>2 DEF handleLd, Reads
<1>12. CASE EndOfFile
  <2>1. file.kern \in BOOLEAN
    BY FilesAssumption DEF VectorInv, Inv, Shape
  <2> QED BY <1>12, <2>1 DEF EndOfFile, Confirmed, VectorInv, VectorOnce, PassTwo
<1>13. CASE Reuse
  BY <1>13, VectorSame DEF Reuse
<1>14. CASE resolveSymbols
  BY <1>14, VectorSame DEF resolveSymbols, Round, PassTwo
<1>15. CASE completeData
  <2>1. /\ ~PassTwo' = ~PassTwo /\ UNCHANGED << file, instrs, evt >> /\ pc' # "pass1"
        /\ \/ data' = data
           \/ \E p, new : data' = [data EXCEPT ![p[1]][p[2]] = new]
    BY <1>15, CompleteEffect DEF PassTwo
  <2>2. CASE file.kern
    BY <1>15, <2>1, <2>2, CompleteEffect, VectorSame DEF PassTwo
  <2>3. CASE ~file.kern
    <3>1. data[EVT] = << >> /\ EVT \in Tables /\ data = [s \in Tables |-> data[s]]
      BY <1>15, <2>3, CompleteEffect, SectionNumbers DEF VectorInv, VectorOnce, Inv, Shape
    <3>2. ASSUME NEW p, NEW new, data' = [data EXCEPT ![p[1]][p[2]] = new]
          PROVE  data'[EVT] = data[EVT]
      <4>1. data'[EVT] = IF p[1] = EVT THEN [data[EVT] EXCEPT ![p[2]] = new] ELSE data[EVT]
        BY <3>1, <3>2
      <4>2. [data[EVT] EXCEPT ![p[2]] = new] = << >>
        BY <3>1
      <4> QED BY <4>1, <4>2, <3>1
    <3>3. data'[EVT] = data[EVT]
      BY <2>1, <3>2
    <3> QED BY <1>15, <2>1, <3>3, CompleteEffect, VectorSame DEF PassTwo
  <2> QED BY <2>2, <2>3
<1>16. CASE encode
  BY <1>16, VectorSame DEF encode, PassTwo
<1>17. CASE Generate
  BY <1>17, VectorSame DEF Generate, tables, PassTwo
<1>18. CASE UNCHANGED vars
  BY <1>18, VectorSame DEF vars, tables
<1> QED
  BY <1>1, <1>2, <1>3, <1>4, <1>5, <1>6, <1>7, <1>8, <1>9, <1>10, <1>11, <1>12, <1>13,
     <1>14, <1>15, <1>16, <1>17, <1>18 DEF Next, Exited

(* Every kernel's vector is opened at most once and closed before it is    *)
(* read, and no program has one.                                           *)
THEOREM OneVector == Spec => []VectorOnce
<1>1. VectorInv => VectorOnce
  BY DEF VectorInv
<1> QED BY VectorInit, VectorNext, <1>1, PTL DEF Spec

-----------------------------------------------------------------------------
(* Types.  What a symbol can mean, and the symbol table. *)

(* What a symbol can mean. *)
LEMMA MeaningTypes ==
  /\ Unknown \in Meaning
  /\ \A v \in Int : Holds(v) \in Meaning
  /\ \A e \in Expr : Text(e) \in Meaning
<1>1. 0 \in Word /\ << >> \in Expr /\ \A v \in Int : Wrap(v) \in Word
  BY Words DEF Expr
<1> QED BY <1>1 DEF Unknown, Holds, Text, Meaning

LEMMA TokenTypes ==
  /\ \A v \in Word : INT(v) \in Token
  /\ \A e \in Garbage \cup {BadPointer} : e \in Expr
<1>1. 0 \in Word
  BY Words
<1>2. ASSUME NEW v \in Word, NEW t \in {"INT", "OP", "BAD"}, NEW x \in {"", "?"}
      PROVE  Tok(t, v, x) \in Token
  BY DEF Tok, Token, Texts
<1>3. \A t \in Token : << t >> \in Expr
  BY DEF Expr
<1>4. OP("?") \in Token /\ INT(0) \in Token /\ Tok("BAD", 0, "") \in Token /\ \A v \in Word : INT(v) \in Token
  BY <1>1, <1>2 DEF OP, INT
<1> QED BY <1>3, <1>4 DEF Garbage, BadPointer

(* A table begins with the location pointer. *)
SymbolTables == {s \in Seq(Symbols) : Len(s) > 0 /\ s[1].name = LP}

LEMMA SymbolType ==
  ASSUME NEW name \in Names \cup {LP}, NEW sect \in 0 .. 7, NEW meaning \in Meaning, NEW type \in {0, 1},
         NEW glob \in BOOLEAN
  PROVE  Symbol(name, sect, meaning, type, glob) \in Symbols
  BY DEF Symbol, Symbols

LEMMA EntryOf ==
  ASSUME NEW s \in Seq(Symbols), NEW name
  PROVE  /\ getSymbEntry(s, name) \in 0 .. Len(s)
         /\ getSymbEntry(s, name) # 0 =>
              /\ getSymbEntry(s, name) \in DOMAIN s
              /\ s[getSymbEntry(s, name)] \in Symbols
              /\ s[getSymbEntry(s, name)].name = name
              /\ \A j \in 1 .. getSymbEntry(s, name) - 1 : s[j].name # name
         /\ getSymbEntry(s, name) = 0 => \A k \in DOMAIN s : s[k].name # name
<1>1. DOMAIN s = 1 .. Len(s) /\ Len(s) \in Nat
  BY LenProperties
<1>2. CASE \E k \in DOMAIN s : s[k].name = name
  <2> DEFINE K == {k \in DOMAIN s : s[k].name = name}
             First(k) == s[k].name = name /\ \A j \in 1 .. k - 1 : s[j].name # name
  <2>1. PICK k \in K : \A j \in K : k <= j
    <3>1. K \subseteq Nat /\ K # {}
      BY <1>1, <1>2
    <3> HIDE DEF K
    <3> QED BY <3>1, LeastElement
  <2>2. k \in DOMAIN s /\ First(k)
    BY <1>1, <2>1
  <2>3. getSymbEntry(s, name) = CHOOSE i \in DOMAIN s : First(i)
    BY <1>2 DEF getSymbEntry
  <2> HIDE DEF First
  <2>4. getSymbEntry(s, name) \in DOMAIN s /\ First(getSymbEntry(s, name))
    BY <2>2, <2>3
  <2> QED BY <1>1, <2>4 DEF First
<1>3. CASE ~\E k \in DOMAIN s : s[k].name = name
  BY <1>1, <1>3 DEF getSymbEntry
<1> QED BY <1>2, <1>3

LEMMA EnvType ==
  ASSUME NEW s \in Seq(Symbols)
  PROVE  Env(s) \in [Names \cup {LP} -> Meaning]
<1>1. ASSUME NEW n
      PROVE  (LET k == getSymbEntry(s, n) IN IF k = 0 THEN Unknown ELSE s[k].is) \in Meaning
  <2>1. \A x \in Symbols : x.is \in Meaning
    BY DEF Symbols
  <2> QED BY <2>1, EntryOf, MeaningTypes
<1> QED BY <1>1 DEF Env

(* An entry behind the others, an entry that is changed. *)
LEMMA TableSteps ==
  ASSUME NEW s \in SymbolTables
  PROVE  /\ s \in Seq(Symbols) /\ Len(s) \in Nat \ {0} /\ DOMAIN s = 1 .. Len(s)
         /\ \A e \in Symbols : Append(s, e) \in SymbolTables
         /\ \A k \in 1 .. Len(s), e \in Symbols :
              e.name = s[k].name => [s EXCEPT ![k] = e] \in SymbolTables
<1>1. s \in Seq(Symbols) /\ Len(s) \in Nat \ {0} /\ s[1].name = LP /\ DOMAIN s = 1 .. Len(s)
  BY LenProperties DEF SymbolTables
<1>2. ASSUME NEW e \in Symbols PROVE Append(s, e) \in SymbolTables
  <2>1. Append(s, e) \in Seq(Symbols) /\ Len(Append(s, e)) = Len(s) + 1
    BY <1>1
  <2>2. Append(s, e)[1] = s[1]
    BY <1>1
  <2> DEFINE t == Append(s, e)
  <2>3. t \in Seq(Symbols) /\ Len(t) > 0 /\ t[1].name = LP
    BY <1>1, <2>1, <2>2
  <2> HIDE DEF t
  <2>4. t \in SymbolTables
    BY <2>3 DEF SymbolTables
  <2> QED BY <2>4 DEF t
<1>3. ASSUME NEW k \in 1 .. Len(s), NEW e \in Symbols, e.name = s[k].name
      PROVE  [s EXCEPT ![k] = e] \in SymbolTables
  <2>1. [s EXCEPT ![k] = e] \in Seq(Symbols) /\ Len([s EXCEPT ![k] = e]) = Len(s)
    BY <1>1, ExceptSeq
  <2>2. [s EXCEPT ![k] = e][1].name = LP
    BY <1>1, <1>3
  <2> QED BY <1>1, <2>1, <2>2 DEF SymbolTables
<1> QED BY <1>1, <1>2, <1>3

(* After an evaluation the names that it looked up are in the table. *)
LEMMA EnterType ==
  ASSUME NEW s \in SymbolTables, NEW n \in Names \cup {LP}
  PROVE  Enter(s, n) \in SymbolTables
<1>1. Symbol(n, DATA, Unknown, 0, FALSE) \in Symbols
  <2>1. DATA \in 0 .. 7 /\ 0 \in {0, 1} /\ FALSE \in BOOLEAN
    BY DEF DATA
  <2> QED BY <2>1, SymbolType, MeaningTypes
<1> QED BY <1>1, TableSteps DEF Enter

(* What an evaluation makes of the table, a name at a time. *)
LEMMA AfterSteps ==
  ASSUME NEW s \in SymbolTables, NEW r \in Lexer
  PROVE  \E h \in [0 .. Len(r.seen) -> SymbolTables] :
            /\ h[0] = s /\ h[Len(r.seen)] = After(s, r)
            /\ \A k \in 1 .. Len(r.seen) : r.seen[k] \in Names \cup {LP} /\ h[k] = Enter(h[k - 1], r.seen[k])
<1> DEFINE N == Len(r.seen)
           F == [k \in 1 .. N |-> [t \in SymbolTables |-> Enter(t, r.seen[k])]]
           Body(table) == [k \in 0 .. N |-> IF k = 0 THEN s ELSE Enter(table[k - 1], r.seen[k])]
<1>1. r.seen \in Seq(Names \cup {LP}) /\ N \in Nat
  BY LenProperties DEF Lexer
<1>2. \A k \in 1 .. N : r.seen[k] \in Names \cup {LP}
  BY <1>1, ElementOfSeq
<1>3. Steps(F, 1 .. N, SymbolTables)
  BY <1>2, EnterType DEF Steps
<1>4. \A k \in 1 .. N : \A t \in SymbolTables : F[k][t] = Enter(t, r.seen[k])
  OBVIOUS
<1> HIDE DEF F, N
<1>5. PICK h \in [0 .. N -> SymbolTables] :
              h[0] = s /\ \A k \in 1 .. N : h[k] = F[k][h[k - 1]]
  BY <1>1, <1>3, BoundedRecursionExists
<1>6. ASSUME NEW k \in 1 .. N PROVE h[k] = Enter(h[k - 1], r.seen[k])
  <2>1. k - 1 \in 0 .. N
    BY <1>1
  <2> QED BY <1>4, <1>5, <2>1
<1>7. h = Body(h)
  <2>1. \A k \in 0 .. N : h[k] = IF k = 0 THEN s ELSE Enter(h[k - 1], r.seen[k])
    BY <1>1, <1>5, <1>6
  <2> QED BY <1>5, <2>1
<1> DEFINE table == CHOOSE f : f = Body(f)
<1>8. table = Body(table)
  <2> HIDE DEF Body
  <2> QED BY <1>7, Zenon
<1>9. After(s, r) = table[N]
  BY DEF After, N
<1> HIDE DEF table
<1> DEFINE T == {k \in 0 .. N : table[k] = h[k]}
<1>10. 0 \in T
  BY <1>1, <1>5, <1>8
<1>11. ASSUME NEW k \in 0 .. N - 1, k \in T PROVE k + 1 \in T
  <2>1. k + 1 \in 1 .. N /\ k + 1 \in 0 .. N /\ (k + 1) - 1 = k /\ k + 1 # 0
    BY <1>1
  <2>2. table[k + 1] = Enter(table[k], r.seen[k + 1])
    BY <1>8, <2>1
  <2>3. h[k + 1] = Enter(h[k], r.seen[k + 1])
    BY <1>6, <2>1
  <2> QED BY <1>11, <2>1, <2>2, <2>3
<1>12. 0 .. N \subseteq T
  <2> HIDE DEF T
  <2> QED BY <1>1, <1>10, <1>11, BoundedInduction
<1>13. h[N] = After(s, r)
  BY <1>1, <1>9, <1>12
<1> QED BY <1>2, <1>5, <1>6, <1>13 DEF N

LEMMA AfterType ==
  ASSUME NEW s \in SymbolTables, NEW r \in Lexer
  PROVE  After(s, r) \in SymbolTables
<1>1. Len(r.seen) \in Nat
  BY LenProperties DEF Lexer
<1> QED BY <1>1, AfterSteps

(* Names are entered behind the others. *)
LEMMA AfterGrows ==
  ASSUME NEW s \in SymbolTables, NEW r \in Lexer
  PROVE  /\ Len(s) <= Len(After(s, r))
         /\ \A k \in 1 .. Len(s) : After(s, r)[k] = s[k]
<1>1. Len(r.seen) \in Nat /\ Len(s) \in Nat
  BY LenProperties, TableSteps DEF Lexer
<1>2. PICK h \in [0 .. Len(r.seen) -> SymbolTables] :
            /\ h[0] = s /\ h[Len(r.seen)] = After(s, r)
            /\ \A k \in 1 .. Len(r.seen) : r.seen[k] \in Names \cup {LP} /\ h[k] = Enter(h[k - 1], r.seen[k])
  BY AfterSteps
<1> DEFINE N == Len(r.seen)
           T == {i \in 0 .. N : Len(s) <= Len(h[i]) /\ \A k \in 1 .. Len(s) : h[i][k] = s[k]}
<1>3. 0 \in T
  BY <1>1, <1>2
<1>4. ASSUME NEW i \in 0 .. N - 1, i \in T PROVE i + 1 \in T
  <2>1. i + 1 \in 1 .. N /\ i \in 0 .. N /\ i + 1 \in 0 .. N /\ (i + 1) - 1 = i
    BY <1>1
  <2>2. h[i] \in SymbolTables /\ h[i + 1] = Enter(h[i], r.seen[i + 1])
    BY <1>2, <2>1
  <2>3. h[i] \in Seq(Symbols) /\ Len(h[i]) \in Nat
    BY <2>2, TableSteps
  <2>4. \A e : Len(Append(h[i], e)) = Len(h[i]) + 1 /\ \A k \in 1 .. Len(h[i]) : Append(h[i], e)[k] = h[i][k]
    BY <2>3, AppendItem
  <2>5. \/ h[i + 1] = h[i] 
        \/ \E e : h[i + 1] = Append(h[i], e)
    BY <2>2 DEF Enter
  <2>6. Len(h[i]) <= Len(h[i + 1]) /\ \A k \in 1 .. Len(h[i]) : h[i + 1][k] = h[i][k]
    BY <2>3, <2>4, <2>5
  <2>7. Len(h[i + 1]) \in Nat
    BY <1>2, <2>1, TableSteps
  <2> QED BY <1>1, <1>4, <2>1, <2>3, <2>6, <2>7
<1>5. N \in T
  <2>1. 0 .. N \subseteq T
    <3> HIDE DEF T
    <3> QED BY <1>1, <1>3, <1>4, BoundedInduction
  <2> QED BY <1>1, <2>1
<1> QED BY <1>2, <1>5

LEMMA SectionKept ==
  ASSUME NEW old \in 0 .. 7, active \in Sections
  PROVE  UpdateSection(old) \in 0 .. 7
  BY SectionNumbers DEF UpdateSection

(* The entry of k is replaced. *)
LEMMA LabelEntry ==
  ASSUME NEW s \in SymbolTables, NEW name \in Names, active \in Sections, lp \in [Sections -> Int]
  PROVE  LET k == getSymbEntry(s, name)
             e == [s[k] EXCEPT !.sect = UpdateSection(@),
                               !.is = IF @.isExpr THEN Text(BadPointer) ELSE Holds(lp[active])]
             new == Symbol(name, active, Holds(lp[active]), 0, FALSE) IN
         /\ k = 0 => new \in Symbols /\ handleLabel(s, name) = Append(s, new)
         /\ k # 0 => /\ k \in 1 .. Len(s) /\ s[k].name = name /\ e \in Symbols /\ e.name = name
                     /\ handleLabel(s, name) = [s EXCEPT ![k] = e]
         /\ handleLabel(s, name) \in SymbolTables
<1> DEFINE k == getSymbEntry(s, name)
           meaning == IF s[k].is.isExpr THEN Text(BadPointer) ELSE Holds(lp[active])
           e == [s[k] EXCEPT !.sect = UpdateSection(@),
                             !.is = IF @.isExpr THEN Text(BadPointer) ELSE Holds(lp[active])]
           new == Symbol(name, active, Holds(lp[active]), 0, FALSE)
<1>1. s \in Seq(Symbols) /\ DOMAIN s = 1 .. Len(s)
  BY TableSteps
<1>2. Holds(lp[active]) \in Meaning /\ Text(BadPointer) \in Meaning
  BY MeaningTypes, TokenTypes
<1>3. ASSUME k = 0
      PROVE  /\ new \in Symbols /\ handleLabel(s, name) = Append(s, new)
             /\ handleLabel(s, name) \in SymbolTables
  <2>1. active \in 0 .. 7 /\ 0 \in {0, 1} /\ FALSE \in BOOLEAN
    BY SectionNumbers
  <2>2. new \in Symbols
    BY <1>2, <2>1, SymbolType
  <2>3. handleLabel(s, name) = Append(s, new)
    BY <1>3 DEF handleLabel
  <2> HIDE DEF new
  <2> QED BY <2>2, <2>3, TableSteps
<1>4. ASSUME k # 0 
      PROVE  /\ k \in 1 .. Len(s) /\ s[k].name = name /\ e \in Symbols /\ e.name = name
             /\ handleLabel(s, name) = [s EXCEPT ![k] = e]
             /\ handleLabel(s, name) \in SymbolTables
  <2>1. k \in 1 .. Len(s) /\ s[k] \in Symbols /\ s[k].name = name
    BY <1>1, <1>4, EntryOf
  <2>2. meaning \in Meaning
    BY <1>2
  <2>3. UpdateSection(s[k].sect) \in 0 .. 7
    BY <2>1, SectionKept DEF Symbols
  <2>4. e = [s[k] EXCEPT !.sect = UpdateSection(s[k].sect), !.is = meaning]
    BY <2>1 DEF Symbols
  <2>5. handleLabel(s, name) = [s EXCEPT ![k] = e]
    BY <1>1, <1>4, <2>1 DEF handleLabel, Symbols
  <2> HIDE DEF k, meaning
  <2>6. e \in Symbols /\ e.name = name
    BY <2>1, <2>2, <2>3, <2>4 DEF Symbols
  <2>7. [s EXCEPT ![k] = e] \in SymbolTables
    <3> HIDE DEF e
    <3> QED BY <2>1, <2>6, TableSteps
  <2> QED BY <2>1, <2>5, <2>6, <2>7
<1> QED BY <1>3, <1>4

LEMMA AtLineType ==
  ASSUME symbs \in SymbolTables, active \in Sections, lp \in [Sections -> Int],
         line.label \in Names \cup {None}
  PROVE  AtLine \in SymbolTables
<1> DEFINE s == [symbs EXCEPT ![1] = Symbol(LP, active, Holds(lp[active]), 0, FALSE)]
<1>1. s \in SymbolTables
  <2>1. active \in 0 .. 7 /\ 0 \in {0, 1} /\ FALSE \in BOOLEAN
    BY SectionNumbers
  <2>2. Symbol(LP, active, Holds(lp[active]), 0, FALSE) \in Symbols
    BY <2>1, MeaningTypes, SymbolType
  <2>3. 1 \in 1 .. Len(symbs) /\ symbs[1].name = LP
    BY TableSteps DEF SymbolTables
  <2>4. Symbol(LP, active, Holds(lp[active]), 0, FALSE).name = LP
    BY DEF Symbol
  <2> QED BY <2>2, <2>3, <2>4, TableSteps
<1>2. AtLine = IF line.label = None THEN s ELSE handleLabel(s, line.label)
  BY DEF AtLine, line
<1> HIDE DEF s
<1>3. ASSUME line.label # None PROVE handleLabel(s, line.label) \in SymbolTables
  <2>1. line.label \in Names
    BY <1>3
  <2> QED BY <1>1, <2>1, LabelEntry
<1> QED BY <1>1, <1>2, <1>3

LEMMA SetEntryType ==
  ASSUME NEW s \in SymbolTables, NEW k \in 1 .. Len(s), NEW meaning \in Meaning, active \in Sections
  PROVE  LET e == [s[k] EXCEPT !.sect = UpdateSection(@), !.is = meaning, !.type = 1] IN
         /\ e \in Symbols /\ e.name = s[k].name /\ SetEntry(s, k, meaning) = [s EXCEPT ![k] = e]
         /\ SetEntry(s, k, meaning) \in SymbolTables
<1> DEFINE e == [s[k] EXCEPT !.sect = UpdateSection(@), !.is = meaning, !.type = 1]
<1>1. s \in Seq(Symbols) /\ DOMAIN s = 1 .. Len(s)
  BY TableSteps
<1>2. s[k] \in Symbols
  BY <1>1
<1>3. UpdateSection(s[k].sect) \in 0 .. 7
  BY <1>2, SectionKept DEF Symbols
<1>4. e \in Symbols /\ e.name = s[k].name
  BY <1>2, <1>3 DEF Symbols
<1>5. SetEntry(s, k, meaning) = [s EXCEPT ![k] = e]
  BY <1>1, <1>2 DEF SetEntry, Symbols
<1> HIDE DEF e
<1>6. [s EXCEPT ![k] = e] \in SymbolTables
  BY <1>4, TableSteps
<1> QED BY <1>4, <1>5, <1>6 DEF e

LEMMA GlobType ==
  ASSUME NEW s \in SymbolTables, NEW name \in Names, active \in Sections
  PROVE  LET k == getSymbEntry(s, name)
             e == [s[k] EXCEPT !.glob = TRUE]
             new == Symbol(name, active, Unknown, 0, TRUE) IN
         /\ k = 0 => new \in Symbols /\ Glob(s, name) = Append(s, new)
         /\ k # 0 => /\ k \in 1 .. Len(s) /\ s[k].name = name /\ e \in Symbols /\ e.name = name
                     /\ Glob(s, name) = [s EXCEPT ![k] = e]
         /\ Glob(s, name) \in SymbolTables
<1> DEFINE k == getSymbEntry(s, name)
           e == [s[k] EXCEPT !.glob = TRUE]
           new == Symbol(name, active, Unknown, 0, TRUE)
<1>1. s \in Seq(Symbols) /\ DOMAIN s = 1 .. Len(s)
  BY TableSteps
<1>2. ASSUME k = 0 PROVE new \in Symbols /\ Glob(s, name) = Append(s, new) /\ Glob(s, name) \in SymbolTables
  <2>1. active \in 0 .. 7 /\ 0 \in {0, 1} /\ TRUE \in BOOLEAN
    BY SectionNumbers
  <2>2. new \in Symbols
    BY <2>1, SymbolType, MeaningTypes
  <2>3. Glob(s, name) = Append(s, new)
    BY <1>2 DEF Glob
  <2> QED BY <2>2, <2>3, TableSteps
<1>3. ASSUME k # 0
      PROVE  /\ k \in 1 .. Len(s) /\ s[k].name = name /\ e \in Symbols /\ e.name = name
             /\ Glob(s, name) = [s EXCEPT ![k] = e] /\ Glob(s, name) \in SymbolTables
  <2>1. k \in 1 .. Len(s) /\ s[k] \in Symbols /\ s[k].name = name
    BY <1>1, <1>3, EntryOf
  <2>2. Glob(s, name) = [s EXCEPT ![k] = e]
    BY <1>1, <1>3, <2>1 DEF Glob
  <2> HIDE DEF k
  <2>3. e \in Symbols /\ e.name = name
    BY <2>1 DEF Symbols
  <2>4. [s EXCEPT ![k] = e] \in SymbolTables
    <3> HIDE DEF e
    <3> QED BY <2>1, <2>3, TableSteps
  <2> QED BY <2>1, <2>2, <2>3, <2>4
<1> QED BY <1>2, <1>3

(* A power of two is greater than its exponent. *)
LEMMA Pow2Exceeds == \A n \in Nat : n < Pow2[n]
<1> DEFINE T == {n \in Nat : n < Pow2[n]}
<1>1. 0 \in T
  BY Pow2Defined
<1>2. ASSUME NEW n \in Nat, n \in T PROVE n + 1 \in T
  <2>1. Pow2[n + 1] = 2 * Pow2[n] /\ Pow2[n] \in Nat
    BY Pow2Defined, Pow2Type
  <2> QED BY <1>2, <2>1
<1>3. Nat \subseteq T
  <2> HIDE DEF T
  <2> QED BY <1>1, <1>2, Induction
<1> QED BY <1>3

(* The shares of ld, and its two shifts, are operands. *)
LEMMA Shares ==
  /\ \A v \in Word : /\ High(v) \in 0 .. Half - 1 /\ Mid(v) \in 0 .. Half - 1
                     /\ Low(v) \in 0 .. Half - 1
  /\ ImmBits + LowBits \in Word /\ LowBits \in Word
<1>1. Half \in Nat /\ Word = -Half .. Half - 1
  BY Words
<1>2. /\ ImmBits \in Nat /\ LowBits \in Nat /\ WordBits \in Nat /\ WordBits - 1 \in Nat
      /\ ImmBits <= WordBits - 1 /\ LowBits <= WordBits - 1 /\ ImmBits + LowBits <= WordBits - 1
  BY FieldsAssumption, WordBitsAssumption
<1>3. WordBits - 1 < Half
  BY <1>2, Pow2Exceeds DEF Half
<1>4. /\ Pow2[ImmBits] \in 1 .. Half /\ Pow2[LowBits] \in 1 .. Half
      /\ Pow2[ImmBits + LowBits] \in Nat \ {0}
  BY <1>2, Pow2Type, Pow2Grows DEF Half
<1>5. ASSUME NEW a \in Int, NEW b \in 1 .. Half PROVE a % b \in 0 .. Half - 1
  BY <1>1
<1>6. ASSUME NEW v \in Word
      PROVE  High(v) \in 0 .. Half - 1 /\ Mid(v) \in 0 .. Half - 1 /\ Low(v) \in 0 .. Half - 1
  <2>1. v \in Int
    BY <1>1
  <2>2. v \div Pow2[ImmBits + LowBits] \in Int /\ v \div Pow2[LowBits] \in Int
    BY <1>4, <2>1
  <2> QED BY <1>4, <1>5, <2>1, <2>2 DEF High, Mid, Low
<1> QED BY <1>1, <1>2, <1>3, <1>6

Fields == 0 .. Modulus - 1

(* A field has at most as many bits as a word. *)
LEMMA FieldType ==
  ASSUME NEW kind \in Kinds, NEW x \in Word, NEW addr \in Int
  PROVE  Field(kind, x, addr) \in Fields
<1>1. Bits(kind) \in Nat /\ Bits(kind) <= WordBits /\ WordBits \in Nat
  <2>1. /\ OffsetBits \in 1 .. WordBits /\ BcBits \in 1 .. WordBits /\ BiBits \in 1 .. WordBits
        /\ ImmBits \in Nat /\ ImmBits <= WordBits /\ WordBits \in Nat
    BY FieldsAssumption, WordBitsAssumption
  <2> QED BY <2>1 DEF Bits, Kinds
<1>2. Pow2[Bits(kind)] \in 1 .. Modulus
  BY <1>1, Pow2Type, Pow2Grows DEF Modulus
<1>3. BranchOffset(x, addr) \in Int
  <2>1. x - addr \in Int /\ 4 \in Word
    BY Words
  <2>2. Wrap(x - addr) \in Word
    BY <2>1, Words
  <2>3. ~Traps("/", Wrap(x - addr), 4)
    BY DEF Traps
  <2> QED BY <2>1, <2>2, <2>3, QuotientType, Words DEF BranchOffset
<1>4. x \in Int
  BY Words
<1>5. ASSUME NEW a \in Int PROVE a % Pow2[Bits(kind)] \in Fields
  <2>1. Modulus \in Nat
    BY Words
  <2> QED BY <1>2, <2>1 DEF Fields
<1> QED BY <1>3, <1>4, <1>5 DEF Field

(* An instruction that a line adds. *)
LEMMA InstrType ==
  ASSUME at \in Nat, NEW addr \in Int, NEW kind \in Kinds \cup {"plain", "marker", "special"},
         NEW instr \in Kinds \cup {"plain", "marker", "mv", "lsl", "or", "add", "ld"},
         NEW rd \in Registers, NEW rs \in Registers, NEW expr \in Expr
  PROVE  /\ Instr(addr, kind, instr, rd, rs, expr) \in Instrs
         /\ Instr(addr, kind, instr, rd, rs, expr).addr = addr
         /\ Instr(addr, kind, instr, rd, rs, expr).kind = kind
<1>1. 0 \in 0 .. Modulus - 1
  BY Words
<1> QED BY <1>1 DEF Instr, Instrs

(* The markers of the vector are at address 0. *)
Streams == {q \in Seq(Instrs) : \A i \in 1 .. Len(q) : q[i].kind = "marker" => q[i].addr = 0}

LEMMA StreamSteps ==
  ASSUME NEW q \in Streams
  PROVE  /\ q \in Seq(Instrs) /\ Len(q) \in Nat /\ DOMAIN q = 1 .. Len(q)
         /\ \A i \in 1 .. Len(q) : q[i] \in Instrs /\ (q[i].kind = "marker" => q[i].addr = 0)
         /\ at \in Nat => Append(q, Marker) \in Streams
         /\ \A r \in Streams : q \o r \in Streams
         /\ \A i \in 1 .. Len(q), e \in Instrs :
               e.kind # "marker" => [q EXCEPT ![i] = e] \in Streams
<1>1. /\ q \in Seq(Instrs) /\ Len(q) \in Nat /\ DOMAIN q = 1 .. Len(q)
      /\ \A i \in 1 .. Len(q) : q[i] \in Instrs /\ (q[i].kind = "marker" => q[i].addr = 0)
  BY LenProperties DEF Streams
<1>2. ASSUME at \in Nat PROVE Append(q, Marker) \in Streams
  <2>1. << >> \in Expr
    BY DEF Expr
  <2>2. Marker \in Instrs /\ Marker.addr = 0
    <3>1. /\ 0 \in Int /\ None \in Registers /\ "marker" \in Kinds \cup {"plain", "marker", "special"}
          /\ "marker" \in Kinds \cup {"plain", "marker", "mv", "lsl", "or", "add", "ld"}
      BY DEF Registers
    <3>2. 0 \in 0 .. Modulus - 1
      BY Words
    <3> QED BY <1>2, <2>1, <3>1, <3>2 DEF Marker, Instr, Instrs
  <2> DEFINE r == Append(q, Marker)
  <2>3. r \in Seq(Instrs) /\ Len(r) = Len(q) + 1
    BY <1>1, <2>2
  <2>4. \A i \in 1 .. Len(r) : (i \in 1 .. Len(q) /\ r[i] = q[i]) \/ r[i] = Marker
    BY <1>1, <2>2
  <2> HIDE DEF r
  <2>5. r \in Streams
    BY <1>1, <2>2, <2>3, <2>4 DEF Streams
  <2> QED BY <2>5 DEF r
<1>3. ASSUME NEW r \in Streams PROVE q \o r \in Streams
  <2>1. /\ r \in Seq(Instrs) /\ Len(r) \in Nat
        /\ \A i \in 1 .. Len(r) : r[i].kind = "marker" => r[i].addr = 0
    BY LenProperties DEF Streams
  <2> DEFINE c == q \o r
  <2>2. c \in Seq(Instrs) /\ Len(c) = Len(q) + Len(r)
    BY <1>1, <2>1
  <2>3. \A i \in 1 .. Len(c) : \/ i \in 1 .. Len(q) /\ c[i] = q[i]
                               \/ i - Len(q) \in 1 .. Len(r) /\ c[i] = r[i - Len(q)]
    BY <1>1, <2>1, <2>2
  <2> HIDE DEF c
  <2>4. c \in Streams
    BY <1>1, <2>1, <2>2, <2>3 DEF Streams
  <2> QED BY <2>4 DEF c
<1>4. ASSUME NEW i \in 1 .. Len(q), NEW e \in Instrs, e.kind # "marker"
      PROVE  [q EXCEPT ![i] = e] \in Streams
  <2> DEFINE r == [q EXCEPT ![i] = e]
  <2>1. r \in Seq(Instrs) /\ Len(r) = Len(q) /\ \A j \in 1 .. Len(q) : r[j] = IF j = i THEN e ELSE q[j]
    BY <1>1, ExceptSeq
  <2> HIDE DEF r
  <2>2. r \in Streams
    BY <1>1, <1>4, <2>1 DEF Streams
  <2> QED BY <2>2 DEF r
<1> QED BY <1>1, <1>2, <1>3, <1>4

Plain == {i \in Instrs : i.kind # "marker"}

(* What a line adds: no marker. *)
LEMMA PlainType ==
  ASSUME at \in Nat, NEW addr \in Int, NEW kind \in Kinds \cup {"plain", "special"},
         NEW instr \in Kinds \cup {"plain", "mv", "lsl", "or", "add", "ld"},
         NEW rd \in Registers, NEW rs \in Registers, NEW expr \in Expr
  PROVE  Instr(addr, kind, instr, rd, rs, expr) \in Plain
<1>1. /\ kind \in Kinds \cup {"plain", "marker", "special"} /\ kind # "marker"
      /\ instr \in Kinds \cup {"plain", "marker", "mv", "lsl", "or", "add", "ld"}
  BY DEF Kinds
<1>2. /\ Instr(addr, kind, instr, rd, rs, expr) \in Instrs
      /\ Instr(addr, kind, instr, rd, rs, expr).kind = kind
  BY <1>1, InstrType
<1> QED BY <1>1, <1>2 DEF Plain

(* The instructions of ld. *)
LEMMA DecompositionType ==
  ASSUME at \in Nat, NEW a \in Int, NEW rd \in {"x", "c0"}, NEW v \in Word, NEW isExpr \in BOOLEAN,
         NEW literal \in BOOLEAN, NEW expr \in Expr
  PROVE  /\ Decomposition(a, rd, v, isExpr, literal, expr) \in Seq(Plain)
         /\ Len(Decomposition(a, rd, v, isExpr, literal, expr)) \in {6, 7}
         /\ \A i \in 1 .. Len(Decomposition(a, rd, v, isExpr, literal, expr)) :
              Decomposition(a, rd, v, isExpr, literal, expr)[i].kind = "special" => i = 1
<1>1. /\ High(v) \in Word /\ Mid(v) \in Word /\ Low(v) \in Word /\ 0 \in Word
      /\ ImmBits + LowBits \in Word /\ LowBits \in Word
  <2>1. 0 .. Half - 1 \subseteq Word /\ 0 \in Word
    BY Words
  <2>2. High(v) \in 0 .. Half - 1 /\ Mid(v) \in 0 .. Half - 1 /\ Low(v) \in 0 .. Half - 1
    BY Shares
  <2>3. High(v) \in Word /\ Mid(v) \in Word /\ Low(v) \in Word
    BY <2>1, <2>2
  <2> QED BY <2>1, <2>3, Shares
<1>2. \A w \in Word : << INT(w) >> \in Expr
  <2>1. \A t \in Token : << t >> \in Seq(Token)
    OBVIOUS
  <2> QED BY <2>1, TokenTypes DEF Expr
<1>3. << >> \in Expr /\ rd \in Registers /\ "xz" \in Registers /\ "c0" \in Registers
  BY DEF Expr, Registers
<1>4. /\ a + 4 \in Int /\ a + 8 \in Int /\ a + 12 \in Int /\ a + 16 \in Int
      /\ a + 20 \in Int /\ a + 44 \in Int
  OBVIOUS
<1> DEFINE kind1 == IF isExpr THEN "special" ELSE "I"
           e1 == IF isExpr THEN expr ELSE << INT(High(v)) >>
           e2 == << INT(ImmBits + LowBits) >>
           e3 == << INT(IF isExpr THEN 0 ELSE Mid(v)) >>
           e4 == << INT(LowBits) >>
           e6 == << INT(IF isExpr THEN 0 ELSE Low(v)) >>
<1>5. e1 \in Expr /\ e2 \in Expr /\ e3 \in Expr /\ e4 \in Expr /\ e6 \in Expr
  BY <1>1, <1>2
<1>6. /\ kind1 \in Kinds \cup {"plain", "special"} /\ "I" \in Kinds \cup {"plain", "special"}
      /\ "plain" \in Kinds \cup {"plain", "special"}
      /\ {"mv", "lsl", "or", "add", "ld"} \subseteq Kinds \cup {"plain", "mv", "lsl", "or", "add", "ld"}
  BY DEF Kinds
<1> DEFINE i1 == Instr(a, kind1, "mv", rd, "xz", e1)
           i2 == Instr(a + 4, "I", "lsl", rd, rd, e2)
           i3 == Instr(a + 8, "I", "mv", "c0", "xz", e3)
           i4 == Instr(a + 12, "I", "lsl", "c0", "c0", e4)
           i5 == Instr(a + 16, "plain", "or", rd, "c0", << >>)
           i6 == Instr(a + 20, "I", "add", rd, rd, e6)
           i7 == Instr(a + 44, "plain", "ld", rd, rd, << >>)
<1>7. Decomposition(a, rd, v, isExpr, literal, expr) =
          << i1, i2, i3, i4, i5, i6 >> \o IF literal THEN << >> ELSE << i7 >>
  BY DEF Decomposition
<1>8. /\ i2.kind # "special" /\ i3.kind # "special" /\ i4.kind # "special"
      /\ i5.kind # "special" /\ i6.kind # "special" /\ i7.kind # "special"
  BY DEF Instr
<1> HIDE DEF kind1, e1, e2, e3, e4, e6
<1>9. i1 \in Plain /\ i2 \in Plain /\ i3 \in Plain /\ i4 \in Plain
  BY <1>3, <1>4, <1>5, <1>6, PlainType
<1>10. i5 \in Plain /\ i6 \in Plain /\ i7 \in Plain
  BY <1>3, <1>4, <1>5, <1>6, PlainType
<1> HIDE DEF i1, i2, i3, i4, i5, i6, i7
<1> DEFINE six == << i1, i2, i3, i4, i5, i6 >>
           last == IF literal THEN << >> ELSE << i7 >>
           all == six \o last
<1>11. /\ six \in Seq(Plain) /\ Len(six) = 6
       /\ \A i \in 1 .. 6 : six[i].kind = "special" => i = 1
  BY <1>8, <1>9, <1>10
<1>12. /\ last \in Seq(Plain) /\ Len(last) \in {0, 1}
       /\ \A i \in 1 .. Len(last) : last[i].kind # "special"
  BY <1>8, <1>10
<1> HIDE DEF six, last
<1>13. all \in Seq(Plain) /\ Len(all) = Len(six) + Len(last)
  <2>1. six \in Seq(Plain) /\ last \in Seq(Plain)
    BY <1>11, <1>12
  <2> HIDE DEF Plain
  <2> QED BY <2>1, ConcatProperties
<1>16. ASSUME NEW i \in 1 .. Len(all)
       PROVE  \/ i \in 1 .. 6 /\ all[i] = six[i]
              \/ i - 6 \in 1 .. Len(last) /\ all[i] = last[i - 6]
  <2>1. six \in Seq(Plain) /\ last \in Seq(Plain) /\ Len(six) = 6 /\ Len(last) \in Nat
    BY <1>11, <1>12
  <2> HIDE DEF Plain
  <2>2. all[i] = IF i <= 6 THEN six[i] ELSE last[i - 6]
    BY <2>1, <1>13, ConcatProperties
  <2> QED BY <2>1, <2>2, <1>13
<1> HIDE DEF all
<1>14. /\ all \in Seq(Plain) /\ Len(all) \in {6, 7}
       /\ \A i \in 1 .. Len(all) : all[i].kind = "special" => i = 1
  <2>1. Len(all) \in {6, 7} /\ all \in Seq(Plain)
    <3>1. Len(six) = 6 /\ Len(last) \in {0, 1} /\ Len(all) = Len(six) + Len(last)
      BY ONLY <1>11, <1>12, <1>13
    <3>2. Len(all) = 6 + 0 \/ Len(all) = 6 + 1
      BY ONLY <3>1
    <3>3. Len(all) = 6 \/ Len(all) = 7
      BY ONLY <3>2
    <3> QED BY ONLY <3>3, <1>13
  <2>2. ASSUME NEW i \in 1 .. Len(all), all[i].kind = "special"
        PROVE  i = 1
    <3>1. CASE i \in 1 .. 6 /\ all[i] = six[i]
      BY ONLY <2>2, <3>1, <1>11
    <3>2. CASE i - 6 \in 1 .. Len(last) /\ all[i] = last[i - 6]
      BY ONLY <2>2, <3>2, <1>12
    <3> QED BY <1>16, <3>1, <3>2
  <2> QED BY ONLY <2>1, <2>2
<1> QED BY <1>7, <1>14 DEF all, six, last

-----------------------------------------------------------------------------
(* The bytes of the file. *)

(* Sequences one behind the other, one at a time. *)
LEMMA FlattenSteps ==
  ASSUME NEW S, NEW q \in Seq(Seq(S))
  PROVE  \E h \in [0 .. Len(q) -> Seq(S)] :
            /\ h[0] = << >> /\ FlattenSeq(q) = h[Len(q)]
            /\ \A i \in 1 .. Len(q) : h[i] = h[i - 1] \o q[i]
<1> DEFINE N == Len(q)
           Join(i) == [r \in Seq(S) |-> IF i = 1 THEN q[i] ELSE r \o q[i]]
           F == [i \in 1 .. N |-> Join(i)]
           Body(flatten) == [i \in 1 .. N |-> IF i = 1 THEN q[i] ELSE flatten[i - 1] \o q[i]]
           flatten == CHOOSE f : f = Body(f)
<1>1. N \in Nat /\ \A i \in 1 .. N : q[i] \in Seq(S)
  BY LenProperties, ElementOfSeq
<1>2. CASE N = 0
  <2>1. q = << >>
    BY <1>2, EmptySeq
  <2>2. FlattenSeq(q) = q
    BY <1>2 DEF FlattenSeq
  <2> DEFINE h == [i \in 0 .. N |-> << >>]
  <2>3. h \in [0 .. N -> Seq(S)] /\ h[0] = << >> /\ FlattenSeq(q) = h[N]
    <3>1. << >> \in Seq(S)
      OBVIOUS
    <3> QED BY <3>1, <2>1, <2>2, <1>2
  <2>4. \A i \in 1 .. N : h[i] = h[i - 1] \o q[i]
    BY <1>2
  <2> HIDE DEF h
  <2> QED BY <2>3, <2>4
<1>3. CASE N # 0
  <2>1. Steps(F, 1 .. N, Seq(S))
    <3>1. ASSUME NEW i \in 1 .. N, NEW r \in Seq(S) PROVE F[i][r] \in Seq(S)
      <4>1. q[i] \in Seq(S) /\ r \o q[i] \in Seq(S)
        BY <1>1, ConcatProperties
      <4> QED BY <4>1
    <3> QED BY <3>1 DEF Steps
  <2>2. \A i \in 1 .. N, r \in Seq(S) : F[i][r] = IF i = 1 THEN q[i] ELSE r \o q[i]
    OBVIOUS
  <2>3. << >> \in Seq(S)
    OBVIOUS
  <2>4. PICK h \in [0 .. N -> Seq(S)] :
               h[0] = << >> /\ \A i \in 1 .. N : h[i] = F[i][h[i - 1]]
    <3> DEFINE empty == << >>
               T == Seq(S)
               M == N
    <3>1. empty \in T /\ Steps(F, 1 .. M, T) /\ M \in Nat
      BY <1>1, <2>1, <2>3
    <3> HIDE DEF empty, T, F, N, M, Body, flatten, Join
    <3>2. \E h \in [0 .. M -> T] : h[0] = empty /\ \A i \in 1 .. M : h[i] = F[i][h[i - 1]]
      BY ONLY <3>1, BoundedRecursionExists
    <3> QED BY <3>2 DEF empty, T, M
  <2>5. \A i \in 1 .. N : h[i] = IF i = 1 THEN q[i] ELSE h[i - 1] \o q[i]
    <3>1. \A i \in 1 .. N : i - 1 \in 0 .. N
      BY <1>1
    <3> HIDE DEF F
    <3> QED BY <2>2, <2>4, <3>1
  <2> DEFINE g == [i \in 1 .. N |-> h[i]]
  <2>6. g = Body(g)
    <3>1. ASSUME NEW i \in 1 .. N
          PROVE  g[i] = IF i = 1 THEN q[i] ELSE g[i - 1] \o q[i]
      <4>1. CASE i = 1
        BY <2>5, <4>1
      <4>2. CASE i # 1
        <5>1. i - 1 \in 1 .. N
          BY <1>1, <4>2
        <5> QED BY <2>5, <4>2, <5>1
      <4> QED BY <4>1, <4>2
    <3> QED BY <3>1
  <2>7. flatten = Body(flatten)
    <3> HIDE DEF Body, g
    <3> QED BY <2>6, Zenon
  <2>8. FlattenSeq(q) = flatten[N]
    BY <1>3 DEF FlattenSeq
  <2> HIDE DEF flatten, F
  <2> DEFINE T == {i \in 0 .. N : i = 0 \/ flatten[i] = h[i]}
  <2>9. 0 \in T
    BY <1>1
  <2>10. ASSUME NEW i \in 0 .. N - 1, i \in T PROVE i + 1 \in T
    <3>1. i + 1 \in 1 .. N /\ i + 1 \in 0 .. N /\ (i + 1) - 1 = i /\ (i + 1 = 1 <=> i = 0)
      BY <1>1
    <3>2. flatten[i + 1] = IF i + 1 = 1 THEN q[i + 1] ELSE flatten[i] \o q[i + 1]
      BY <2>7, <3>1
    <3>3. h[i + 1] = IF i + 1 = 1 THEN q[i + 1] ELSE h[i] \o q[i + 1]
      BY <2>5, <3>1
    <3> QED BY <2>10, <3>1, <3>2, <3>3
  <2>11. 0 .. N \subseteq T
    <3> HIDE DEF T
    <3> QED BY <1>1, <2>9, <2>10, BoundedInduction
  <2>12. flatten[N] = h[N]
    BY <1>1, <1>3, <2>11
  <2>13. \A i \in 1 .. N : h[i] = h[i - 1] \o q[i]
    <3>1. TAKE i \in 1 .. N
    <3>2. q[i] \in Seq(S) /\ << >> \o q[i] = q[i]
      BY <1>1, ConcatEmptySeq
    <3>3. CASE i = 1
      <4>1. h[i - 1] = << >> /\ h[i] = q[i]
        BY <2>4, <2>5, <3>3
      <4> QED BY <3>2, <4>1
    <3>4. CASE i # 1
      BY <2>5, <3>4
    <3> QED BY <3>3, <3>4
  <2> QED BY <2>4, <2>8, <2>12, <2>13
<1> QED BY <1>2, <1>3

LEMMA FlattenType ==
  ASSUME NEW S, NEW q \in Seq(Seq(S))
  PROVE  FlattenSeq(q) \in Seq(S)
<1>1. PICK h \in [0 .. Len(q) -> Seq(S)] : FlattenSeq(q) = h[Len(q)]
  BY FlattenSteps
<1> QED BY <1>1, LenProperties

(* The bytes of an item, of an instruction; those of the vector.           *)
LEMMA ItemBytesType ==
  ASSUME NEW S, NEW s, \A i, k \in Nat : << s, i, k >> \in S, NEW i \in Nat, NEW size \in Int
  PROVE  ItemBytes(s, i, size) \in Seq(S)
<1> DEFINE n == IF size < 0 THEN 0 ELSE size
           b == [k \in 1 .. n |-> << s, i, k >>]
<1>1. n \in Nat /\ 1 .. n = 1 .. size
  OBVIOUS
<1>2. ItemBytes(s, i, size) = b
  BY <1>1 DEF ItemBytes
<1>3. \A k \in 1 .. n : << s, i, k >> \in S
  BY <1>1
<1> HIDE DEF n
<1>4. b \in [1 .. n -> S]
  BY <1>3
<1>5. b \in Seq(S)
  BY <1>1, <1>4, SeqDef
<1> QED BY <1>2, <1>5

VectorByte == {TEXT, EVT} \X Nat \X Nat

LEMMA BytesType ==
  /\ \A s \in {DATA, CONST, TEXT, EVT}, i \in Nat, size \in Int : ItemBytes(s, i, size) \in Seq(Byte)
  /\ \A i \in Nat : WordBytes(i) \in Seq(Byte)
  /\ \A s \in {TEXT, EVT}, i \in Nat, size \in Int : ItemBytes(s, i, size) \in Seq(VectorByte)
  /\ \A i \in Nat : WordBytes(i) \in Seq(VectorByte)
  /\ \A bytes \in Seq(VectorByte) : bytes \in Seq(Byte)
<1> DEFINE S == Byte
           V == VectorByte
<1>1. /\ \A s \in {DATA, CONST, TEXT, EVT} : \A i, k \in Nat : << s, i, k >> \in S
      /\ \A s \in {TEXT, EVT} : \A i, k \in Nat : << s, i, k >> \in V
      /\ \A x \in V : x \in S
  BY DEF Byte, VectorByte
<1> HIDE DEF S, V
<1>2. ASSUME NEW s \in {DATA, CONST, TEXT, EVT}, NEW i \in Nat, NEW size \in Int
      PROVE  ItemBytes(s, i, size) \in Seq(S)
  BY <1>1, ItemBytesType
<1>3. ASSUME NEW s \in {TEXT, EVT}, NEW i \in Nat, NEW size \in Int
      PROVE  ItemBytes(s, i, size) \in Seq(V)
  BY <1>1, ItemBytesType
<1>4. TEXT \in {DATA, CONST, TEXT, EVT} /\ TEXT \in {TEXT, EVT} /\ 4 \in Int
  OBVIOUS
<1>5. \A bytes \in Seq(V) : bytes \in Seq(S)
  BY <1>1, SeqDef
<1> QED BY <1>2, <1>3, <1>4, <1>5 DEF WordBytes, S, V

(* A section that is cut or filled up to its size.                         *)

LEMMA FitType ==
  ASSUME NEW bytes \in Seq(Byte), NEW size \in Int
  PROVE  Fit(bytes, size) \in Seq(Byte \cup {Junk})
<1> DEFINE n == IF size < 0 THEN 0 ELSE size
           b == [k \in 1 .. n |-> IF k <= Len(bytes) THEN bytes[k] ELSE Junk]
<1>1. n \in Nat /\ 1 .. n = 1 .. size
  OBVIOUS
<1>2. Fit(bytes, size) = b
  BY <1>1 DEF Fit
<1>3. \A k \in 1 .. n : (IF k <= Len(bytes) THEN bytes[k] ELSE Junk) \in Byte \cup {Junk}
  BY <1>1, LenProperties, ElementOfSeq
<1> HIDE DEF n
<1>4. b \in [1 .. n -> Byte \cup {Junk}]
  BY <1>3
<1> QED BY <1>1, <1>2, <1>4, SeqDef

LEMMA generateDataType ==
  ASSUME NEW s \in {DATA, CONST}, NEW items \in Seq(Items)
  PROVE  generateData(s, items) \in Seq(Byte)
<1> DEFINE q == [i \in DOMAIN items |-> ItemBytes(s, i, items[i].size)]
<1>1. Len(items) \in Nat /\ DOMAIN items = 1 .. Len(items)
  BY LenProperties
<1>2. \A i \in 1 .. Len(items) : items[i].size \in Int
  <2>1. \A i \in 1 .. Len(items) : items[i] \in Items
    BY <1>1, ElementOfSeq
  <2>2. \A x \in Items : x.size \in Int
    BY DEF Items
  <2> QED BY <2>1, <2>2
<1>3. ASSUME NEW i \in 1 .. Len(items) PROVE ItemBytes(s, i, items[i].size) \in Seq(Byte)
  <2>1. i \in Nat /\ items[i].size \in Int /\ s \in {DATA, CONST, TEXT, EVT}
    BY <1>1, <1>2
  <2> QED BY <2>1, BytesType
<1>4. q \in [1 .. Len(items) -> Seq(Byte)]
  BY <1>1, <1>3
<1> HIDE DEF q
<1>5. q \in Seq(Seq(Byte))
  BY <1>1, <1>4, SeqDef
<1>6. FlattenSeq(q) \in Seq(Byte)
  BY <1>5, FlattenType
<1> QED BY <1>6 DEF generateData, q

LEMMA generateTextType ==
  ASSUME NEW q \in Seq(Instrs)
  PROVE  generateText(q) \in Seq(VectorByte)
<1> DEFINE words == [i \in DOMAIN q |-> IF InText(q, i) THEN WordBytes(i) ELSE << >>]
<1>1. Len(q) \in Nat /\ DOMAIN q = 1 .. Len(q)
  BY LenProperties
<1>2. \A i \in 1 .. Len(q) : (IF InText(q, i) THEN WordBytes(i) ELSE << >>) \in Seq(VectorByte)
  <2>1. << >> \in Seq(VectorByte)
    OBVIOUS
  <2> QED BY <1>1, <2>1, BytesType
<1>3. words \in [1 .. Len(q) -> Seq(VectorByte)]
  BY <1>1, <1>2
<1> HIDE DEF words
<1>4. words \in Seq(Seq(VectorByte))
  BY <1>1, <1>3, SeqDef
<1>5. FlattenSeq(words) \in Seq(VectorByte)
  BY <1>4, FlattenType
<1> QED BY <1>5 DEF generateText, words

Merges == [i : Nat, d : Nat \ {0}, ended : BOOLEAN, crash : BOOLEAN, bytes : Seq(VectorByte)]

(* A round of the merge. *)
LEMMA MergeType ==
  ASSUME NEW q, NEW items \in Seq(Items), NEW m \in Merges
  PROVE  MergeRound(q, items, m) \in Merges
<1>1. /\ m.i \in Nat /\ m.d \in Nat \ {0} /\ m.bytes \in Seq(VectorByte)
      /\ m.ended \in BOOLEAN /\ m.crash \in BOOLEAN
  BY DEF Merges
<1>2. ASSUME m.d <= Len(items)
      PROVE  [m EXCEPT !.d = @ + 1, !.bytes = @ \o ItemBytes(EVT, m.d, items[m.d].size)] \in Merges
  <2>1. items[m.d] \in Items
    BY <1>1, <1>2, LenProperties, ElementOfSeq
  <2>2. items[m.d].size \in Int
    BY <2>1 DEF Items
  <2>3. ItemBytes(EVT, m.d, items[m.d].size) \in Seq(VectorByte)
    BY <1>1, <2>2, BytesType
  <2> DEFINE b == ItemBytes(EVT, m.d, items[m.d].size)
  <2> HIDE DEF b
  <2>4. m.bytes \o b \in Seq(VectorByte) /\ m.d + 1 \in Nat \ {0}
    BY <1>1, <2>3, ConcatProperties DEF b
  <2>5. [m EXCEPT !.d = m.d + 1, !.bytes = m.bytes \o b] \in Merges
    BY <1>1, <2>4 DEF Merges
  <2> QED BY <2>5 DEF b, Merges
<1>3. [m EXCEPT !.crash = TRUE] \in Merges
  BY DEF Merges
<1>4. [m EXCEPT !.i = @ + 1, !.ended = q[m.i + 1].addr = 0, !.bytes = @ \o WordBytes(m.i)] \in Merges
  <2>1. WordBytes(m.i) \in Seq(VectorByte)
    BY <1>1, BytesType
  <2>2. m.bytes \o WordBytes(m.i) \in Seq(VectorByte) /\ m.i + 1 \in Nat /\ (q[m.i + 1].addr = 0) \in BOOLEAN
    BY <1>1, <2>1, ConcatProperties
  <2> QED BY <1>1, <2>2 DEF Merges
<1> QED
  <2>1. Len(items) \in Nat
    BY LenProperties
  <2>2. m.d > Len(items) \/ m.d <= Len(items)
    BY <1>1, <2>1
  <2> QED BY <1>2, <1>3, <1>4, <2>2 DEF MergeRound

LEMMA MergesIterated ==
  ASSUME NEW x \in Merges, NEW F \in [Merges -> Merges]
  PROVE  \E h \in [Nat -> Merges] : h[0] = x /\ \A n \in Nat \ {0} : h[n] = F[h[n - 1]]
  BY IterationExists

(* The rounds of the merge, if the vector has a mark where it has items. *)
MergeBegin(q, items) ==
  [i |-> IF items = << >> THEN 1 ELSE 1 + Min(Marks(q)), d |-> 1,
   ended |-> FALSE, crash |-> FALSE, bytes |-> << >>]

LEMMA MergeRounds ==
  ASSUME NEW q \in Seq(Instrs), NEW items \in Seq(Items), items = << >> \/ Marks(q) # {}
  PROVE  \E h \in [Nat -> Merges] :
            /\ h[0] = MergeBegin(q, items)
            /\ \A n \in Nat \ {0} : h[n] = MergeRound(q, items, h[n - 1])
            /\ generateEVT(q, items) = h[Len(q) + Len(items)]
<1> DEFINE begin == MergeBegin(q, items)
           Body(merge) == [n \in Nat |-> IF n = 0 THEN begin ELSE MergeRound(q, items, merge[n - 1])]
           merge == CHOOSE f : f = Body(f)
           F == [m \in Merges |-> MergeRound(q, items, m)]
<1>1. begin \in Merges
  <2>1. items # << >> => Min(Marks(q)) \in Nat
    <3>1. Marks(q) \subseteq Nat
      BY LenProperties DEF Marks
    <3>2. Marks(q) # {} => \E m \in Marks(q) : \A k \in Marks(q) : m <= k
      BY <3>1, LeastElement
    <3> QED BY <3>1, <3>2 DEF Min
  <2>2. (IF items = << >> THEN 1 ELSE 1 + Min(Marks(q))) \in Nat
    BY <2>1
  <2>3. << >> \in Seq(VectorByte)
    OBVIOUS
  <2> QED BY <2>2, <2>3 DEF Merges, MergeBegin
<1>2. F \in [Merges -> Merges]
  BY MergeType
<1>3. \A m \in Merges : F[m] = MergeRound(q, items, m)
  OBVIOUS
<1> HIDE DEF begin, F
<1>4. PICK h \in [Nat -> Merges] : h[0] = begin /\ \A n \in Nat \ {0} : h[n] = F[h[n - 1]]
  <2> HIDE DEF Body, merge
  <2> QED BY <1>1, <1>2, MergesIterated
<1>5. \A n \in Nat \ {0} : h[n] = MergeRound(q, items, h[n - 1])
  <2>1. \A n \in Nat \ {0} : n - 1 \in Nat
    OBVIOUS
  <2> QED BY <1>3, <1>4, <2>1
<1>6. h = Body(h)
  BY <1>4, <1>5
<1>7. merge = Body(merge)
  <2> HIDE DEF Body
  <2> QED BY <1>6, Zenon
<1>8. generateEVT(q, items) = merge[Len(q) + Len(items)]
  BY DEF generateEVT, begin, MergeBegin
<1> HIDE DEF merge
<1> DEFINE T == {n \in Nat : merge[n] = h[n]}
<1>9. 0 \in T
  BY <1>4, <1>7
<1>10. ASSUME NEW n \in Nat, n \in T PROVE n + 1 \in T
  <2>1. n + 1 \in Nat \ {0} /\ (n + 1) - 1 = n
    OBVIOUS
  <2>2. merge[n + 1] = MergeRound(q, items, merge[n])
    BY <1>7, <2>1
  <2>3. h[n + 1] = MergeRound(q, items, h[n])
    BY <1>5, <2>1
  <2> QED BY <1>10, <2>1, <2>2, <2>3
<1>11. Nat \subseteq T
  <2> HIDE DEF T
  <2> QED BY <1>9, <1>10, Induction
<1>12. Len(q) + Len(items) \in Nat
  BY LenProperties
<1>13. generateEVT(q, items) = h[Len(q) + Len(items)]
  BY <1>8, <1>11, <1>12
<1> QED BY <1>4, <1>5, <1>13 DEF begin

LEMMA generateEVTType ==
  ASSUME NEW q \in Seq(Instrs), NEW items \in Seq(Items), items = << >> \/ Marks(q) # {}
  PROVE  generateEVT(q, items) \in Merges
<1>1. PICK h \in [Nat -> Merges] : generateEVT(q, items) = h[Len(q) + Len(items)]
  BY MergeRounds
<1>2. Len(q) + Len(items) \in Nat
  BY LenProperties
<1> QED BY <1>1, <1>2

LEMMA PayloadType ==
  ASSUME NEW size, \A s \in DOMAIN size : size[s] \in Int,
         NEW d \in [Tables -> Seq(Items)], NEW q \in Seq(Instrs), NEW e \in Seq(Byte)
  PROVE  Payload(size, d, q, e) \in Seq(Byte \cup {Junk})
<1> DEFINE part(s, bytes) == IF s \in DOMAIN size THEN Fit(bytes, size[s]) ELSE << >>
           D == part(DATA, generateData(DATA, d[DATA]))
           C == part(CONST, generateData(CONST, d[CONST]))
           X == part(TEXT, generateText(q))
           E == part(EVT, e)
           S == Byte \cup {Junk}
<1>1. << >> \in Seq(S)
  OBVIOUS
<1>2. generateData(DATA, d[DATA]) \in Seq(Byte) /\ generateData(CONST, d[CONST]) \in Seq(Byte)
  BY generateDataType, SectionNumbers
<1>3. generateText(q) \in Seq(Byte)
  BY generateTextType, BytesType
<1>4. D \in Seq(S) /\ C \in Seq(S) /\ X \in Seq(S) /\ E \in Seq(S)
  BY <1>1, <1>2, <1>3, FitType
<1>5. Payload(size, d, q, e) = D \o C \o X \o E
  BY DEF Payload
<1> HIDE DEF D, C, X, E, S
<1>6. D \o C \in Seq(S)
  BY <1>4, ConcatProperties
<1>7. D \o C \o X \in Seq(S)
  BY <1>4, <1>6, ConcatProperties
<1>8. D \o C \o X \o E \in Seq(S)
  BY <1>4, <1>7, ConcatProperties
<1> QED BY <1>5, <1>8 DEF S

-----------------------------------------------------------------------------
(* The types. *)

Pcs == {"pass1", "resolve", "complete", "encode", "generate", "written", "fatal", "crash"}

(* Beyond TypeOK: every marker has address 0, the vector has one when it   *)
(* has been opened, and the loop over the symbols has one.                 *)
Types ==
  /\ pc \in Pcs
  /\ symbs \in SymbolTables
  /\ lp \in [Sections -> Int] /\ present \in [Sections -> BOOLEAN]
  /\ data \in [Tables -> Seq(Items)]
  /\ instrs \in Streams
  /\ evt # "none" => Marks(instrs) # {}
  /\ pc = "resolve" => at \in 1 .. Len(symbs)
  /\ bin.payload \in Seq(Byte \cup {Junk})

TypeInv == VectorInv /\ Types

(* A mark stays if the addresses do. *)
LEMMA MarksKept ==
  ASSUME NEW q \in Streams, NEW r \in Streams, Len(q) <= Len(r),
         \A i \in 1 .. Len(q) : r[i].addr = q[i].addr, Marks(q) # {}
  PROVE  Marks(r) # {}
<1>1. PICK i \in DOMAIN q : q[i].addr = 0
  BY DEF Marks
<1>2. i \in 1 .. Len(q) /\ Len(q) \in Nat /\ Len(r) \in Nat /\ DOMAIN r = 1 .. Len(r)
  BY <1>1, StreamSteps
<1> QED BY <1>1, <1>2 DEF Marks

LEMMA MarkerAdded ==
  ASSUME NEW q \in Streams, at \in Nat
  PROVE  Append(q, Marker) \in Streams /\ Marks(Append(q, Marker)) # {}
<1>1. q \in Seq(Instrs) /\ Len(q) \in Nat /\ Append(q, Marker) \in Streams
  BY StreamSteps
<1>2. Append(q, Marker)[Len(q) + 1] = Marker /\ Len(Append(q, Marker)) = Len(q) + 1
  <2> HIDE DEF Marker
  <2> QED BY <1>1, AppendItem
<1>3. Marker.addr = 0
  BY DEF Marker, Instr
<1>4. Len(q) + 1 \in DOMAIN Append(q, Marker)
  <2> HIDE DEF Marker
  <2> QED BY <1>1, <1>2, StreamSteps
<1> QED BY <1>1, <1>2, <1>3, <1>4 DEF Marks

(* The stream behind a line that adds instructions. *)
LEMMA StreamGrows ==
  ASSUME NEW q \in Streams, NEW new \in Seq(Plain)
  PROVE  q \o new \in Streams /\ (Marks(q) # {} => Marks(q \o new) # {})
<1>1. new \in Streams
  <2>1. new \in Seq(Instrs)
    <3>1. Plain \subseteq Instrs
      BY DEF Plain
    <3> QED BY <3>1, SeqMonotonic
  <2>2. \A i \in 1 .. Len(new) : new[i].kind # "marker"
    <3>1. \A i \in 1 .. Len(new) : new[i] \in Plain
      BY ElementOfSeq
    <3> QED BY <3>1 DEF Plain
  <2> QED BY <2>1, <2>2 DEF Streams
<1>2. q \in Seq(Instrs) /\ new \in Seq(Instrs) /\ Len(q) \in Nat /\ Len(new) \in Nat /\ q \o new \in Streams
  BY <1>1, StreamSteps
<1>3. Len(q) <= Len(q \o new) /\ \A i \in 1 .. Len(q) : (q \o new)[i] = q[i]
  BY <1>2, ConcatProperties
<1>4. \A i \in 1 .. Len(q) : (q \o new)[i].addr = q[i].addr
  BY <1>3
<1> DEFINE r == q \o new
<1> HIDE DEF r
<1>5. r \in Streams /\ Len(q) <= Len(r) /\ \A i \in 1 .. Len(q) : r[i].addr = q[i].addr
  BY <1>2, <1>3, <1>4 DEF r
<1>6. Marks(q) # {} => Marks(r) # {}
  BY <1>5, MarksKept
<1> QED BY <1>2, <1>6 DEF r

(* An instruction of the stream is changed, not its address. *)
LEMMA InstrChanged ==
  ASSUME NEW q \in Streams, NEW i \in 1 .. Len(q), NEW e \in Plain, e.addr = q[i].addr
  PROVE  [q EXCEPT ![i] = e] \in Streams /\ (Marks(q) # {} => Marks([q EXCEPT ![i] = e]) # {})
<1> DEFINE r == [q EXCEPT ![i] = e]
<1>1. e \in Instrs /\ e.kind # "marker"
  BY DEF Plain
<1>2. r \in Streams
  BY <1>1, StreamSteps
<1>3. Len(r) = Len(q) /\ \A j \in 1 .. Len(q) : r[j] = IF j = i THEN e ELSE q[j]
  <2>1. q \in Seq(Instrs)
    BY StreamSteps
  <2> QED BY <1>1, <2>1, ExceptSeq
<1>4. Len(q) \in Nat
  BY StreamSteps
<1> HIDE DEF r
<1>5. Marks(q) # {} => Marks(r) # {}
  BY <1>2, <1>3, <1>4, MarksKept
<1> QED BY <1>2, <1>5 DEF r

(* The line that is read, and the table behind its first token. *)
LEMMA LineTypes ==
  ASSUME TypeInv, NEW ops, Reads(ops)
  PROVE  /\ line \in Line /\ WellFormed(line) /\ line.op \in ops /\ pc = "pass1"
         /\ line.args \in Seq(Expr) /\ \A j \in 1 .. Len(line.args) : line.args[j] \in Expr
         /\ AtLine \in SymbolTables /\ at \in Nat \ {0} /\ active \in Sections
<1>1. /\ file \in Files /\ at \in Nat \ {0} /\ active \in Sections /\ symbs \in SymbolTables
      /\ lp \in [Sections -> Int]
  BY DEF TypeInv, VectorInv, Inv, Shape, Types
<1>2. line \in Line /\ line.op \in ops /\ WellFormed(line)
  BY <1>1, LineRead
<1>3. line.args \in Seq(Expr) /\ line.label \in Names \cup {None}
  BY <1>2 DEF Line
<1>4. \A j \in 1 .. Len(line.args) : line.args[j] \in Expr
  BY <1>3, ElementOfSeq
<1>5. AtLine \in SymbolTables
  BY <1>1, <1>3, AtLineType
<1> QED BY <1>1, <1>2, <1>3, <1>4, <1>5 DEF Reads

(* The process that ends. *)
LEMMA TypesStopped ==
  ASSUME TypeInv, NEW how \in {"fatal", "crash"}, Stop(how)
  PROVE  Types'
  BY DEF TypeInv, Types, Stop, tables, Pcs

(* The end of a line. *)
LEMMA TypesLine ==
  ASSUME TypeInv, pc = "pass1", NEW a, NEW s \in Streams, Marks(instrs) # {} => Marks(s) # {},
         EndLine(a, s), symbs' \in SymbolTables, lp' \in [Sections -> Int],
         present' \in [Sections -> BOOLEAN], data' \in [Tables -> Seq(Items)]
  PROVE  Types'
<1>1. at \in Nat
  BY DEF TypeInv, VectorInv, Inv, Shape
<1>2. pc' \in Pcs /\ pc' # "resolve" /\ bin' = bin
  BY DEF EndLine, Pcs
<1>3. \/ instrs' = instrs /\ evt' = evt
      \/ instrs' = s /\ evt' = evt
      \/ instrs' = Append(s, Marker)
  BY DEF EndLine
<1>4. instrs' \in Streams /\ (evt' # "none" => Marks(instrs') # {})
  <2>1. instrs \in Streams /\ (evt # "none" => Marks(instrs) # {})
    BY DEF TypeInv, Types
  <2> QED BY <1>1, <1>3, <2>1, MarkerAdded
<1> QED BY <1>2, <1>4 DEF TypeInv, Types

LEMMA TypesItem ==
  ASSUME TypeInv, pc = "pass1", symbs' \in SymbolTables, NEW size \in Int, NEW width \in {1, 2, 4},
         NEW args \in Seq(Expr), NEW done \in BOOLEAN, AddItem(size, width, args, done)
  PROVE  Types'
<1>1. /\ active \in Sections /\ lp \in [Sections -> Int] /\ data \in [Tables -> Seq(Items)]
      /\ at \in Nat /\ instrs \in Streams /\ present \in [Sections -> BOOLEAN]
  BY DEF TypeInv, VectorInv, Inv, Shape, Types
<1>2. lp' \in [Sections -> Int] /\ present' \in [Sections -> BOOLEAN] /\ EndLine(active, instrs)
  BY <1>1 DEF AddItem
<1> DEFINE item == [addr |-> lp[active], size |-> size, width |-> width,
                    args |-> args, vals |-> << >>, done |-> done, line |-> at]
<1>3. item \in Items
  <2>1. lp[active] \in Int /\ << >> \in Seq(Word)
    BY <1>1
  <2> QED BY <1>1, <2>1 DEF Items
<1>4. data' = IF active \notin Tables THEN data ELSE [data EXCEPT ![active] = Append(@, item)]
  BY DEF AddItem
<1> HIDE DEF item
<1>5. data' \in [Tables -> Seq(Items)]
  <2>1. \A s \in Tables : Append(data[s], item) \in Seq(Items)
    BY <1>1, <1>3, AppendProperties
  <2> QED BY <1>1, <1>4, <2>1
<1> QED BY <1>1, <1>2, <1>5, TypesLine

LEMMA TypesInstrs ==
  ASSUME TypeInv, pc = "pass1", NEW s \in SymbolTables, NEW new \in Seq(Plain), NEW extra \in Int,
         AddInstrs(s, new, extra)
  PROVE  Types'
<1>1. /\ active \in Sections /\ lp \in [Sections -> Int] /\ data \in [Tables -> Seq(Items)]
      /\ instrs \in Streams /\ present \in [Sections -> BOOLEAN]
  BY DEF TypeInv, VectorInv, Inv, Shape, Types
<1>2. /\ symbs' = s /\ present' = present /\ data' = data /\ EndLine(active, instrs \o new)
  BY DEF AddInstrs
<1> DEFINE here == [lp EXCEPT ![active] = @ + extra]
<1>3. here \in [Sections -> Int]
  BY <1>1
<1>4. lp' = [here EXCEPT ![IF evt = "open" THEN EVT ELSE TEXT] = @ + 4]
  BY DEF AddInstrs
<1> HIDE DEF here
<1>5. lp' \in [Sections -> Int]
  <2> DEFINE t == IF evt = "open" THEN EVT ELSE TEXT
  <2>1. t \in Sections /\ here[t] + 4 \in Int
    BY <1>3, SectionNumbers
  <2>2. lp' = [here EXCEPT ![t] = here[t] + 4]
    BY <1>4
  <2> HIDE DEF t
  <2> QED BY <1>3, <2>1, <2>2
<1>6. instrs \o new \in Streams /\ (Marks(instrs) # {} => Marks(instrs \o new) # {})
  BY <1>1, StreamGrows
<1> QED BY <1>1, <1>2, <1>5, <1>6, TypesLine

(* What an evaluation in the program's table gives. *)
LEMMA EvalInTable ==
  ASSUME NEW s \in SymbolTables, NEW e \in Expr
  PROVE  Eval(e, Env(s)) \in Lexer /\ Eval(e, Env(s)).val \in Word
<1>1. Eval(e, Env(s)) \in Lexer
  BY EnvType, EvalType, TableSteps
<1> QED BY <1>1 DEF Lexer

LEMMA TypesInit == Init => TypeInv
<1> SUFFICES ASSUME Init PROVE Types
  BY VectorInit DEF TypeInv
<1>1. symbs \in SymbolTables
  <2>1. 0 \in Int /\ DATA \in 0 .. 7 /\ 0 \in {0, 1} /\ FALSE \in BOOLEAN
    BY SectionNumbers
  <2> DEFINE first == Symbol(LP, DATA, Holds(0), 0, FALSE)
  <2>2. first \in Symbols
    BY <2>1, MeaningTypes, SymbolType
  <2>3. first.name = LP /\ symbs = << first >>
    BY DEF Symbol, Init
  <2> HIDE DEF first
  <2>4. symbs \in Seq(Symbols) /\ Len(symbs) = 1 /\ symbs[1] = first
    BY <2>2, <2>3
  <2> QED BY <2>3, <2>4 DEF SymbolTables
<1>2. lp \in [Sections -> Int]
  BY FilesAssumption, StartsAssumption DEF Init
<1>3. data \in [Tables -> Seq(Items)]
  <2>1. << >> \in Seq(Items)
    OBVIOUS
  <2> QED BY <2>1 DEF Init
<1>4. instrs \in Streams
  BY DEF Streams, Init
<1>5. bin.payload \in Seq(Byte \cup {Junk})
  BY DEF Init, Nobin
<1> QED BY <1>1, <1>2, <1>3, <1>4, <1>5 DEF Types, Init, Pcs

(* The lines of the first pass that add neither item nor instruction. *)
LEMMA TypesLabels ==
  ASSUME TypeInv, LabelLine \/ SectionDirective \/ globDirective \/ setDirective \/ endDirective
  PROVE  Types'
<1>1. /\ lp \in [Sections -> Int] /\ data \in [Tables -> Seq(Items)]
      /\ instrs \in Streams /\ present \in [Sections -> BOOLEAN]
  BY DEF TypeInv, Types
<1>2. CASE LabelLine
  <2>1. AtLine \in SymbolTables /\ pc = "pass1"
    BY <1>2, LineTypes DEF LabelLine
  <2>2. symbs' = AtLine /\ EndLine(active, instrs) /\ lp' = lp /\ present' = present /\ data' = data
    BY <1>2 DEF LabelLine
  <2> QED BY <1>1, <2>1, <2>2, TypesLine
<1>3. CASE SectionDirective
  <2>1. AtLine \in SymbolTables /\ pc = "pass1" /\ WellFormed(line) /\ line.op = "section"
    BY <1>3, LineTypes DEF SectionDirective
  <2>2. /\ symbs' = AtLine /\ EndLine(line.n, instrs) /\ lp' = lp /\ data' = data
        /\ present' = [present EXCEPT ![line.n] = TRUE]
    BY <1>3 DEF SectionDirective
  <2>3. line.n \in Sections
    BY <2>1 DEF WellFormed
  <2>4. present' \in [Sections -> BOOLEAN]
    BY <1>1, <2>2, <2>3
  <2> QED BY <1>1, <2>1, <2>2, <2>4, TypesLine
<1>4. CASE globDirective
  <2>1. AtLine \in SymbolTables /\ pc = "pass1" /\ WellFormed(line) /\ line.op = "glob" /\ active \in Sections
    BY <1>4, LineTypes DEF globDirective
  <2>2. /\ symbs' = Glob(AtLine, line.name) /\ EndLine(active, instrs) /\ lp' = lp /\ present' = present
        /\ data' = data
    BY <1>4 DEF globDirective
  <2>3. line.name \in Names
    BY <2>1 DEF WellFormed
  <2>4. symbs' \in SymbolTables
    BY <2>1, <2>2, <2>3, GlobType
  <2> QED BY <1>1, <2>1, <2>2, <2>4, TypesLine
<1>5. CASE setDirective
  <2> DEFINE s == AtLine
             k == getSymbEntry(s, line.name)
             r == Eval(line.args[1], Env(s))
             meaning == IF r.ok THEN Holds(r.val) ELSE Text(line.args[1])
             t == After(s, r)
             new == IF k # 0 THEN SetEntry(t, k, meaning)
                    ELSE Append(t, Symbol(line.name, active, meaning, 1, FALSE))
  <2>1. /\ AtLine \in SymbolTables /\ pc = "pass1" /\ WellFormed(line) /\ line.op = "set" /\ active \in Sections
        /\ \A j \in 1 .. Len(line.args) : line.args[j] \in Expr
    BY <1>5, LineTypes DEF setDirective
  <2>2. \/ \E how \in {"fatal", "crash"} : Stop(how)
        \/ /\ symbs' = new /\ EndLine(active, instrs) /\ lp' = lp /\ present' = present
           /\ data' = data
    BY <1>5 DEF setDirective
  <2>3. line.name \in Names /\ line.args[1] \in Expr
    BY <2>1 DEF WellFormed
  <2>4. r \in Lexer /\ r.val \in Int
    <3>1. r \in Lexer /\ r.val \in Word
      BY <2>1, <2>3, EvalInTable
    <3> HIDE DEF r
    <3> QED BY <3>1, Words
  <2>5. t \in SymbolTables
    BY <2>1, <2>4, AfterType
  <2>6. meaning \in Meaning
    BY <2>3, <2>4, MeaningTypes
  <2>7. k # 0 => k \in 1 .. Len(t)
    <3>1. k # 0 => k \in 1 .. Len(s)
      BY <2>1, EntryOf, TableSteps
    <3>2. Len(s) <= Len(t) /\ Len(s) \in Nat /\ Len(t) \in Nat
      BY <2>1, <2>4, <2>5, AfterGrows, TableSteps
    <3> QED BY <3>1, <3>2
  <2>8. Symbol(line.name, active, meaning, 1, FALSE) \in Symbols
    <3>1. active \in 0 .. 7 /\ 1 \in {0, 1} /\ FALSE \in BOOLEAN /\ line.name \in Names \cup {LP}
      BY <2>1, <2>3, SectionNumbers
    <3> QED BY <2>6, <3>1, SymbolType
  <2> HIDE DEF s, k, r, meaning, t
  <2>9. new \in SymbolTables
    BY <2>1, <2>5, <2>6, <2>7, <2>8, SetEntryType, TableSteps
  <2> QED BY <1>1, <2>1, <2>2, <2>9, TypesLine, TypesStopped
<1>6. CASE endDirective
  <2>1. AtLine \in SymbolTables /\ pc = "pass1"
    BY <1>6, LineTypes DEF endDirective
  <2> QED BY <1>6, <2>1 DEF endDirective, TypeInv, Types
<1> QED BY <1>2, <1>3, <1>4, <1>5, <1>6

(* The directives that add an item. *)
LEMMA TypesItems ==
  ASSUME TypeInv, valuesDirective \/ literalDirective \/ zeroDirective \/ fillDirective
  PROVE  Types'
<1>1. CASE valuesDirective
  <2>1. /\ AtLine \in SymbolTables /\ pc = "pass1" /\ WellFormed(line) /\ line.op = "values"
        /\ line.args \in Seq(Expr)
    BY <1>1, LineTypes DEF valuesDirective
  <2>2. \/ Stop("fatal")
        \/ symbs' = AtLine /\ AddItem(SizeOf(line.n, line.args), line.n, line.args, FALSE)
    BY <1>1 DEF valuesDirective
  <2>3. line.n \in {1, 2, 4} /\ SizeOf(line.n, line.args) \in Int /\ FALSE \in BOOLEAN
    BY <2>1, LenProperties DEF WellFormed, SizeOf
  <2> QED BY <2>1, <2>2, <2>3, TypesStopped, TypesItem
<1>2. CASE literalDirective
  <2>1. AtLine \in SymbolTables /\ pc = "pass1" /\ line \in Line
    BY <1>2, LineTypes DEF literalDirective
  <2>2. Stop("fatal") \/ (symbs' = AtLine /\ AddItem(line.n, 1, << >>, TRUE))
    BY <1>2 DEF literalDirective
  <2>3. line.n \in Int /\ 1 \in {1, 2, 4} /\ << >> \in Seq(Expr) /\ TRUE \in BOOLEAN
    BY <2>1 DEF Line
  <2> DEFINE one == 1
             empty == << >>
  <2>4. one \in {1, 2, 4} /\ empty \in Seq(Expr)
    BY <2>3
  <2>5. Stop("fatal") \/ (symbs' = AtLine /\ AddItem(line.n, one, empty, TRUE))
    BY <2>2
  <2> HIDE DEF one, empty
  <2> QED BY <2>1, <2>3, <2>4, <2>5, TypesStopped, TypesItem
<1>3. CASE zeroDirective
  <2> DEFINE r == Eval(line.args[1], Env(AtLine))
             one == 1
             done == ~(r.val < 0)
  <2>1. /\ AtLine \in SymbolTables /\ pc = "pass1" /\ WellFormed(line) /\ line.op = "zero"
        /\ line.args \in Seq(Expr) /\ \A j \in 1 .. Len(line.args) : line.args[j] \in Expr
    BY <1>3, LineTypes DEF zeroDirective
  <2>2. line.args[1] \in Expr
    BY <2>1 DEF WellFormed
  <2>3. r \in Lexer /\ r.val \in Int
    BY <2>1, <2>2, EvalInTable, Words
  <2>4. \/ \E how \in {"fatal", "crash"} : Stop(how)
        \/ symbs' = After(AtLine, r) /\ AddItem(r.val, one, line.args, done)
    BY <1>3 DEF zeroDirective
  <2>5. After(AtLine, r) \in SymbolTables
    BY <2>1, <2>3, AfterType
  <2>6. one \in {1, 2, 4} /\ done \in BOOLEAN
    OBVIOUS
  <2> HIDE DEF r, one, done
  <2> QED BY <2>1, <2>3, <2>4, <2>5, <2>6, TypesStopped, TypesItem
<1>4. CASE fillDirective
  <2> DEFINE r == Eval(line.args[1], NoTable)
             one == 1
             values == [i \in 1 .. r.val |-> line.args[2]]
  <2>1. /\ AtLine \in SymbolTables /\ pc = "pass1" /\ WellFormed(line) /\ line.op = "fill"
        /\ line.args \in Seq(Expr) /\ \A j \in 1 .. Len(line.args) : line.args[j] \in Expr
    BY <1>4, LineTypes DEF fillDirective
  <2>2. line.args[2] \in Expr
    BY <2>1 DEF WellFormed
  <2>3. \/ \E how \in {"fatal", "crash"} : Stop(how)
        \/ r.val \in 1 .. Half /\ symbs' = AtLine /\ AddItem(r.val, one, values, FALSE)
    BY <1>4 DEF fillDirective
  <2>4. ASSUME r.val \in 1 .. Half PROVE r.val \in Int /\ values \in Seq(Expr)
    <3>1. r.val \in Nat
      BY <2>4
    <3>2. values \in [1 .. r.val -> Expr]
      BY <2>2
    <3> HIDE DEF values, r
    <3>3. values \in Seq(Expr)
      BY <3>1, <3>2, SeqDef
    <3> QED BY <3>1, <3>3
  <2>5. one \in {1, 2, 4} /\ FALSE \in BOOLEAN
    OBVIOUS
  <2> HIDE DEF r, one, values
  <2> QED BY <2>1, <2>3, <2>4, <2>5, TypesStopped, TypesItem
<1> QED BY <1>1, <1>2, <1>3, <1>4

(* The lines that add instructions. *)
LEMMA TypesCode ==
  ASSUME TypeInv, handleInstruction \/ handleLd
  PROVE  Types'
<1>0. lp \in [Sections -> Int] /\ active \in Sections /\ at \in Nat /\ lp[active] \in Int /\ lp[TEXT] \in Int
  BY SectionNumbers DEF TypeInv, Types, VectorInv, Inv, Shape
<1>1. \A e \in Plain : << e >> \in Seq(Plain)
  OBVIOUS
<1>2. CASE handleInstruction
  <2> DEFINE e == IF line.op = "plain" THEN << >> ELSE line.args[1]
             i == Instr(lp[active], line.op, line.op, None, None, e)
             zero == 0
  <2>1. /\ AtLine \in SymbolTables /\ pc = "pass1" /\ WellFormed(line) /\ line.op \in Kinds \cup {"plain"}
        /\ \A j \in 1 .. Len(line.args) : line.args[j] \in Expr
    BY <1>2, LineTypes DEF handleInstruction
  <2>2. Stop("fatal") \/ AddInstrs(AtLine, << i >>, zero)
    BY <1>2 DEF handleInstruction
  <2>3. e \in Expr
    <3>1. << >> \in Expr
      BY DEF Expr
    <3>2. line.op # "plain" => line.args[1] \in Expr
      BY <2>1 DEF WellFormed
    <3> QED BY <3>1, <3>2
  <2> HIDE DEF e
  <2>4. i \in Plain
    <3>1. /\ line.op \in Kinds \cup {"plain", "special"} /\ None \in Registers
          /\ line.op \in Kinds \cup {"plain", "mv", "lsl", "or", "add", "ld"}
      BY <2>1 DEF Registers
    <3> QED BY <1>0, <2>3, <3>1, PlainType
  <2>5. zero \in Int
    OBVIOUS
  <2> HIDE DEF i, zero
  <2>6. << i >> \in Seq(Plain)
    BY <1>1, <2>4
  <2> QED BY <2>1, <2>2, <2>5, <2>6, TypesStopped, TypesInstrs
<1>3. CASE handleLd
  <2> DEFINE r == Eval(line.args[1], Env(AtLine))
             literal == line.n = 1
             offset == Wrap(r.val - lp[TEXT])
             i == Instr(lp[active], "M", "ld", line.name, "ir", << INT(offset) >>)
             six == Decomposition(lp[active], line.name, r.val, ~r.ok, literal, line.args[1])
             t == After(AtLine, r)
             zero == 0
             extra == IF literal THEN 20 ELSE 24
  <2>1. /\ AtLine \in SymbolTables /\ pc = "pass1" /\ WellFormed(line) /\ line.op = "ld"
        /\ \A j \in 1 .. Len(line.args) : line.args[j] \in Expr
    BY <1>3, LineTypes DEF handleLd
  <2>2. line.args[1] \in Expr /\ line.name \in {"x", "c0"}
    BY <2>1 DEF WellFormed
  <2>3. r \in Lexer /\ r.val \in Word /\ r.val \in Int /\ r.ok \in BOOLEAN
    <3>1. r \in Lexer /\ r.val \in Word
      BY <2>1, <2>2, EvalInTable
    <3> QED BY <3>1, Words DEF Lexer
  <2>4. t \in SymbolTables
    BY <2>1, <2>3, AfterType
  <2>5. \/ \E how \in {"fatal", "crash"} : Stop(how)
        \/ AddInstrs(t, << i >>, zero) \/ AddInstrs(t, six, extra)
    BY <1>3 DEF handleLd
  <2>6. << i >> \in Seq(Plain)
    <3> DEFINE e == << INT(offset) >>
    <3>1. offset \in Word
      BY <1>0, <2>3, Words
    <3> HIDE DEF offset, r
    <3>2. e \in Expr
      <4>1. INT(offset) \in Token
        BY <3>1, TokenTypes
      <4> QED BY <4>1 DEF Expr
    <3>3. /\ "M" \in Kinds \cup {"plain", "special"} /\ line.name \in Registers /\ "ir" \in Registers
          /\ "ld" \in Kinds \cup {"plain", "mv", "lsl", "or", "add", "ld"}
      BY <2>2 DEF Registers, Kinds
    <3> HIDE DEF e
    <3>4. Instr(lp[active], "M", "ld", line.name, "ir", e) \in Plain
      BY <1>0, <3>2, <3>3, PlainType
    <3> QED BY <1>1, <3>4 DEF e
  <2>7. six \in Seq(Plain)
    <3> DEFINE a == lp[active]
               v == r.val
               isExpr == ~r.ok
               expr == line.args[1]
               rd == line.name
    <3>1. /\ at \in Nat /\ a \in Int /\ rd \in {"x", "c0"} /\ v \in Word /\ isExpr \in BOOLEAN
          /\ literal \in BOOLEAN /\ expr \in Expr
      BY <1>0, <2>2, <2>3
    <3> HIDE DEF literal, r, a, v, isExpr, expr, rd
    <3>2. Decomposition(a, rd, v, isExpr, literal, expr) \in Seq(Plain)
      BY ONLY <3>1, DecompositionType
    <3> QED BY <3>2 DEF a, v, isExpr, expr, rd
  <2>8. zero \in Int /\ extra \in Int
    OBVIOUS
  <2> HIDE DEF t, i, six, zero, extra
  <2> QED BY <2>1, <2>4, <2>5, <2>6, <2>7, <2>8, TypesStopped, TypesInstrs
<1> QED BY <1>2, <1>3

(* The first item that is not complete. *)
LEMMA FirstIncomplete ==
  ASSUME Incomplete # {}
  PROVE  (CHOOSE q \in Incomplete : \A o \in Incomplete :
            q[1] < o[1] \/ (q[1] = o[1] /\ q[2] <= o[2])) \in Incomplete
<1> DEFINE First(q) == \A o \in Incomplete : q[1] < o[1] \/ (q[1] = o[1] /\ q[2] <= o[2])
           A == {q[1] : q \in Incomplete}
<1>1. \A q \in Incomplete : q[1] \in Nat /\ q[2] \in Nat /\ q = << q[1], q[2] >>
  BY DEF Incomplete, DATA, CONST, EVT
<1>2. PICK a \in A : \A b \in A : a <= b
  <2>1. A \subseteq Nat /\ A # {}
    BY <1>1
  <2> HIDE DEF A
  <2> QED BY <2>1, LeastElement
<1> DEFINE B == {q[2] : q \in {o \in Incomplete : o[1] = a}}
<1>3. PICK c \in B : \A b \in B : c <= b
  <2>1. B \subseteq Nat /\ B # {}
    BY <1>1
  <2> HIDE DEF B
  <2> QED BY <2>1, LeastElement
<1>4. PICK q \in Incomplete : q[1] = a /\ q[2] = c
  OBVIOUS
<1>5. First(q)
  <2>1. ASSUME NEW o \in Incomplete PROVE q[1] < o[1] \/ (q[1] = o[1] /\ q[2] <= o[2])
    <3>1. a <= o[1] /\ a \in Nat /\ o[1] \in Nat
      BY <1>1, <1>2
    <3>2. o[1] = a => c <= o[2]
      BY <1>3
    <3> QED BY <1>4, <3>1, <3>2
  <2> QED BY <2>1
<1> HIDE DEF First
<1>6. (CHOOSE p \in Incomplete : First(p)) \in Incomplete
  BY <1>5
<1> QED BY <1>6 DEF First

LEMMA TypesEndOfFile ==
  ASSUME TypeInv, EndOfFile
  PROVE  Types'
<1>1. /\ instrs \in Streams /\ at \in Nat /\ symbs \in SymbolTables
      /\ present \in [Sections -> BOOLEAN]
      /\ evt # "none" => Marks(instrs) # {}
  BY DEF TypeInv, Types, VectorInv, Inv, Shape
<1>2. instrs' \in Streams /\ (evt' # "none" => Marks(instrs') # {})
  BY <1>1, MarkerAdded DEF EndOfFile, Closed
<1>3. present' \in [Sections -> BOOLEAN]
  <2>1. \A s \in Sections : (present[s] /\ Size(s) # 0) \in BOOLEAN
    OBVIOUS
  <2>2. present' = [s \in Sections |-> present[s] /\ Size(s) # 0]
    BY DEF EndOfFile
  <2> QED BY <2>1, <2>2
<1>4. at' \in 1 .. Len(symbs')
  <2>1. Len(symbs) \in Nat \ {0}
    BY <1>1, TableSteps
  <2> QED BY <2>1 DEF EndOfFile
<1>5. pc' \in Pcs /\ UNCHANGED << symbs, lp, data, bin >>
  BY DEF EndOfFile, Pcs
<1> QED BY <1>2, <1>3, <1>4, <1>5 DEF TypeInv, Types

(* A symbol gets another meaning. *)
LEMMA MeaningChanged ==
  ASSUME NEW s \in SymbolTables, NEW k \in 1 .. Len(s), NEW meaning \in Meaning
  PROVE  /\ [s EXCEPT ![k].is = meaning] \in SymbolTables
         /\ Len([s EXCEPT ![k].is = meaning]) = Len(s)
<1> DEFINE e == [s[k] EXCEPT !.is = meaning]
<1>1. s \in Seq(Symbols) /\ s[k] \in Symbols
  BY TableSteps, ElementOfSeq
<1>2. e \in Symbols /\ e.name = s[k].name
  BY <1>1 DEF Symbols
<1>3. [s EXCEPT ![k].is = meaning] = [s EXCEPT ![k] = e]
  BY <1>1
<1> HIDE DEF e
<1>4. [s EXCEPT ![k] = e] \in SymbolTables
  BY <1>2, TableSteps
<1>5. Len([s EXCEPT ![k] = e]) = Len(s)
  BY <1>1, <1>2, ExceptSeq
<1> QED BY <1>3, <1>4, <1>5

LEMMA TypesReuse ==
  ASSUME TypeInv, Reuse
  PROVE  Types'
<1>1. symbs \in SymbolTables
  BY DEF TypeInv, Types
<1>2. PICK k \in DOMAIN symbs, text \in Garbage : symbs' = [symbs EXCEPT ![k].is = Text(text)]
  BY DEF Reuse
<1>3. k \in 1 .. Len(symbs) /\ Text(text) \in Meaning
  BY <1>1, TableSteps, TokenTypes, MeaningTypes
<1>4. symbs' \in SymbolTables /\ Len(symbs') = Len(symbs)
  <2> DEFINE meaning == Text(text)
  <2>1. meaning \in Meaning /\ symbs' = [symbs EXCEPT ![k].is = meaning]
    BY <1>2, <1>3
  <2> HIDE DEF meaning
  <2> QED BY <1>1, <1>3, <2>1, MeaningChanged
<1>5. UNCHANGED << pc, at, lp, present, data, instrs, evt, bin >>
  BY DEF Reuse
<1> QED BY <1>4, <1>5 DEF TypeInv, Types

LEMMA TypesResolve ==
  ASSUME TypeInv, resolveSymbols
  PROVE  Types'
<1> DEFINE r == Eval(symbs[at].is.expr, Env(symbs))
           meaning == Holds(r.val)
<1>1. symbs \in SymbolTables /\ at \in 1 .. Len(symbs)
  BY DEF TypeInv, Types, resolveSymbols
<1>2. symbs[at] \in Symbols
  BY <1>1, TableSteps, ElementOfSeq
<1>3. symbs[at].is.expr \in Expr
  BY <1>2 DEF Symbols, Meaning
<1>4. meaning \in Meaning
  <2>1. r.val \in Word
    BY <1>1, <1>3, EvalInTable
  <2>2. r.val \in Int
    BY <2>1, Words
  <2> HIDE DEF r
  <2> QED BY <2>2, MeaningTypes
<1>5. \/ symbs' = symbs
      \/ symbs' = [symbs EXCEPT ![at].is = meaning]
  BY DEF resolveSymbols
<1>6. \/ pc' \in {"crash", "fatal"}
      \/ Round(Len(symbs), "complete")
  BY DEF resolveSymbols
<1>7. pc = "resolve" /\ UNCHANGED << file, lp, present, active, data, instrs, evt, bin >>
  BY DEF resolveSymbols
<1> HIDE DEF r, meaning
<1>8. symbs' \in SymbolTables /\ Len(symbs') = Len(symbs) /\ Len(symbs) \in Nat
  <2>1. Len(symbs) \in Nat
    BY <1>1, TableSteps
  <2>2. [symbs EXCEPT ![at].is = meaning] \in SymbolTables /\ Len([symbs EXCEPT ![at].is = meaning]) = Len(symbs)
    BY <1>1, <1>4, MeaningChanged
  <2> QED BY <1>1, <1>5, <2>1, <2>2
<1>9. pc' \in Pcs /\ (pc' = "resolve" => at' \in 1 .. Len(symbs'))
  BY <1>1, <1>6, <1>7, <1>8 DEF Round, Pcs
<1> QED BY <1>7, <1>8, <1>9 DEF TypeInv, Types

(* The lower bytes of a word are a word. *)
LEMMA LowBytesType ==
  ASSUME NEW w \in {1, 2, 4}, NEW v \in Word
  PROVE  LowBytes(w, v) \in Word
<1>1. ByteBits \in Nat /\ WordBits = 4 * ByteBits /\ WordBits \in Nat /\ WordBits >= 4
  BY ByteBitsAssumption, WordBitsAssumption
<1>2. CASE w = 4
  BY <1>2 DEF LowBytes
<1>3. CASE w # 4
  <2>. DEFINE n == ByteBits * w
  <2>1. n \in Nat /\ WordBits - 1 \in Nat /\ n <= WordBits - 1
    <3>1. w = 1 \/ w = 2
      BY <1>3
    <3>. QED BY <1>1, <3>1
  <2>2. LowBytes(w, v) = v % Pow2[n]
    BY <1>3 DEF LowBytes
  <2>. HIDE DEF n
  <2>3. Pow2[n] \in Nat \ {0} /\ Pow2[n] <= Half
    BY <2>1, Pow2Type, Pow2Grows DEF Half
  <2>4. v \in Int /\ Half \in Nat /\ Word = -Half .. Half - 1
    BY Words
  <2>5. v % Pow2[n] \in 0 .. Pow2[n] - 1
    BY <2>3, <2>4
  <2>. QED BY <2>2, <2>3, <2>4, <2>5
<1>. QED BY <1>2, <1>3

LEMMA TypesComplete ==
  ASSUME TypeInv, completeData
  PROVE  Types'
<1> DEFINE p == NextItem
           item == data[p[1]][p[2]]
           rs == Results
           vals == Computed
           new == [item EXCEPT !.done = TRUE, !.vals = vals]
<1>1. symbs \in SymbolTables /\ data \in [Tables -> Seq(Items)]
  BY DEF TypeInv, Types
<1>2. \/ data' = data
      \/ Incomplete # {} /\ data' = [data EXCEPT ![p[1]][p[2]] = new]
  BY CompleteEffect
<1>3. ASSUME Incomplete # {}
      PROVE  [data EXCEPT ![p[1]][p[2]] = new] \in [Tables -> Seq(Items)]
  <2>1. p \in Incomplete
    <3> HIDE DEF Incomplete
    <3> QED BY <1>3, FirstIncomplete DEF NextItem
  <2> HIDE DEF p
  <2>2. p[1] \in Tables /\ p[2] \in DOMAIN data[p[1]]
    BY <2>1 DEF Incomplete, Tables
  <2>3. data[p[1]] \in Seq(Items) /\ p[2] \in 1 .. Len(data[p[1]])
    BY <1>1, <2>2, LenProperties
  <2>4. item \in Items
    BY <2>3, ElementOfSeq
  <2> HIDE DEF item
  <2>5. item.args \in Seq(Expr)
    BY <2>4 DEF Items
  <2>6. Len(item.args) \in Nat /\ DOMAIN item.args = 1 .. Len(item.args)
        /\ \A j \in 1 .. Len(item.args) : item.args[j] \in Expr
    BY <2>5, LenProperties, ElementOfSeq
  <2>7. vals \in Seq(Word)
    <3>1. \A j \in 1 .. Len(item.args) : rs[j].val \in Word
      <4>1. \A j \in 1 .. Len(item.args) : rs[j] = Eval(item.args[j], Env(symbs))
        BY <2>6 DEF Results, item, p
      <4> HIDE DEF rs
      <4> QED BY <1>1, <2>6, <4>1, EvalInTable
    <3>2. DOMAIN rs = 1 .. Len(item.args)
      BY <2>6 DEF Results, item, p
    <3>3. vals \in [1 .. Len(item.args) -> Word]
      <4>1. vals = [j \in DOMAIN rs |-> LowBytes(item.width, rs[j].val)]
        BY DEF Computed, item, p
      <4>2. item.width \in {1, 2, 4}
        BY <2>4 DEF Items
      <4> HIDE DEF rs, vals
      <4>3. \A j \in 1 .. Len(item.args) : LowBytes(item.width, rs[j].val) \in Word
        BY <3>1, <4>2, LowBytesType
      <4> QED BY <3>2, <4>1, <4>3
    <3> HIDE DEF vals
    <3> QED BY <2>6, <3>3, SeqDef
  <2> HIDE DEF rs, vals
  <2>8. new \in Items
    BY <2>4, <2>7 DEF Items
  <2> HIDE DEF new
  <2>9. [data[p[1]] EXCEPT ![p[2]] = new] \in Seq(Items)
    BY <2>3, <2>8, ExceptSeq
  <2>10. [data EXCEPT ![p[1]][p[2]] = new] = [data EXCEPT ![p[1]] = [data[p[1]] EXCEPT ![p[2]] = new]]
    BY <1>1, <2>2
  <2> QED BY <1>1, <2>2, <2>9, <2>10
<1>4. data' \in [Tables -> Seq(Items)]
  <2> HIDE DEF p, new
  <2> QED BY <1>1, <1>2, <1>3
<1>5. pc' \in Pcs /\ pc' # "resolve" /\ UNCHANGED << symbs, lp, present, instrs, evt, bin >>
  BY CompleteEffect DEF Pcs
<1> QED BY <1>4, <1>5 DEF TypeInv, Types

(* The operand of an instruction is replaced, if there is one. *)
LEMMA OperandChanged ==
  ASSUME NEW q \in Streams, NEW i \in Int, NEW e \in Expr
  PROVE  /\ [q EXCEPT ![i].expr = e] \in Streams /\ Len([q EXCEPT ![i].expr = e]) = Len(q)
         /\ \A j \in 1 .. Len(q) : [q EXCEPT ![i].expr = e][j].addr = q[j].addr
         /\ \A j \in 1 .. Len(q) : j # i => [q EXCEPT ![i].expr = e][j] = q[j]
<1> DEFINE new == [q[i] EXCEPT !.expr = e]
           r == [q EXCEPT ![i] = new]
<1>1. /\ q \in Seq(Instrs) /\ Len(q) \in Nat /\ DOMAIN q = 1 .. Len(q)
      /\ \A j \in 1 .. Len(q) : q[j] \in Instrs /\ (q[j].kind = "marker" => q[j].addr = 0)
  BY StreamSteps
<1>2. [q EXCEPT ![i].expr = e] = r
  OBVIOUS
<1>3. CASE i \in 1 .. Len(q)
  <2>1. new \in Instrs /\ new.addr = q[i].addr /\ new.kind = q[i].kind
    BY <1>1, <1>3 DEF Instrs
  <2> HIDE DEF new
  <2>2. r \in Seq(Instrs) /\ Len(r) = Len(q) /\ \A j \in 1 .. Len(q) : r[j] = IF j = i THEN new ELSE q[j]
    BY <1>1, <1>3, <2>1, ExceptSeq
  <2> HIDE DEF r
  <2>3. r \in Streams
    BY <1>1, <1>3, <2>1, <2>2 DEF Streams
  <2> QED BY <1>2, <2>1, <2>2, <2>3
<1>4. CASE i \notin 1 .. Len(q)
  <2>1. r = q
    <3> HIDE DEF new
    <3> QED BY <1>1, <1>4
  <2> QED BY <1>2, <2>1
<1> QED BY <1>3, <1>4

(* The instructions of a decomposed ld get their shares. *)
LEMMA SpecialType ==
  ASSUME instrs \in Streams, at \in 1 .. Len(instrs), instrs[at].kind # "marker", NEW v \in Word
  PROVE  Special(v) \in Streams /\ (Marks(instrs) # {} => Marks(Special(v)) # {})
<1> DEFINE h == High(v)
           x1 == << INT(High(v)) >>
           x2 == << INT(Mid(v)) >>
           x3 == << INT(Low(v)) >>
           e1 == [instrs[at] EXCEPT !.kind = "I", !.expr = x1, !.field = h]
           q1 == [instrs EXCEPT ![at] = e1]
           q2 == [q1 EXCEPT ![at + 2].expr = x2]
           q3 == [q2 EXCEPT ![at + 5].expr = x3]
<1>1. \A x \in 0 .. Half - 1 : x \in Word /\ x \in 0 .. Modulus - 1
  BY Words
<1>2. High(v) \in 0 .. Half - 1 /\ Mid(v) \in 0 .. Half - 1 /\ Low(v) \in 0 .. Half - 1
  BY Shares
<1>3. x1 \in Expr /\ x2 \in Expr /\ x3 \in Expr /\ h \in 0 .. Modulus - 1
  <2>1. \A t \in Token : << t >> \in Expr
    BY DEF Expr
  <2>2. High(v) \in Word /\ Mid(v) \in Word /\ Low(v) \in Word
    BY <1>1, <1>2
  <2> QED BY <1>1, <1>2, <2>1, <2>2, TokenTypes
<1>4. Special(v) = q3
  <2> HIDE DEF x1, x2, x3, h
  <2>1. q1 = [instrs EXCEPT ![at].kind = "I", ![at].expr = x1, ![at].field = h]
    <3>1. instrs \in Seq(Instrs)
      BY StreamSteps
    <3>2. instrs[at] \in Instrs
      BY StreamSteps
    <3> QED BY <3>1, <3>2 DEF Instrs
  <2> HIDE DEF q1
  <2> QED BY <2>1 DEF Special, x1, x2, x3, h
<1> HIDE DEF x1, x2, x3, h
<1>5. e1 \in Plain /\ e1.addr = instrs[at].addr
  <2>1. instrs[at] \in Instrs
    BY StreamSteps
  <2>2. "I" \in Kinds \cup {"plain", "marker", "special"} /\ "I" # "marker"
    BY DEF Kinds
  <2> QED BY <1>3, <2>1, <2>2 DEF Instrs, Plain
<1> HIDE DEF e1
<1>6. q1 \in Streams /\ (Marks(instrs) # {} => Marks(q1) # {})
  BY <1>5, InstrChanged
<1> HIDE DEF q1
<1>7. at + 2 \in Int /\ at + 5 \in Int
  <2>1. Len(instrs) \in Nat
    BY StreamSteps
  <2> QED BY <2>1
<1>8. q2 \in Streams /\ (Marks(q1) # {} => Marks(q2) # {})
  <2>1. q2 \in Streams /\ Len(q2) = Len(q1) /\ \A j \in 1 .. Len(q1) : q2[j].addr = q1[j].addr
    BY <1>3, <1>6, <1>7, OperandChanged
  <2>2. Len(q1) \in Nat
    BY <1>6, StreamSteps
  <2> HIDE DEF q2
  <2> QED BY <1>6, <2>1, <2>2, MarksKept
<1> HIDE DEF q2
<1>9. q3 \in Streams /\ (Marks(q2) # {} => Marks(q3) # {})
  <2>1. q3 \in Streams /\ Len(q3) = Len(q2) /\ \A j \in 1 .. Len(q2) : q3[j].addr = q2[j].addr
    BY <1>3, <1>8, <1>7, OperandChanged
  <2>2. Len(q2) \in Nat
    BY <1>8, StreamSteps
  <2> HIDE DEF q3
  <2> QED BY <1>8, <2>1, <2>2, MarksKept
<1> HIDE DEF q3
<1> QED BY <1>4, <1>6, <1>8, <1>9

LEMMA TypesEncode ==
  ASSUME TypeInv, encode
  PROVE  Types'
<1> DEFINE i == instrs[at]
           r == Eval(i.expr, Env(symbs))
           f == Field(i.kind, r.val, i.addr)
<1>1. /\ symbs \in SymbolTables /\ instrs \in Streams /\ at \in Nat \ {0}
      /\ evt # "none" => Marks(instrs) # {}
  BY DEF TypeInv, Types, VectorInv, Inv, Shape
<1>2. /\ pc = "encode" /\ pc' \in {"generate", "crash", "fatal", pc}
      /\ UNCHANGED << symbs, lp, present, data, evt, bin >>
  BY DEF encode
<1>3. \/ instrs' = instrs
      \/ at <= Len(instrs) /\ i.addr # 0 /\ i.kind = "special" /\ instrs' = Special(r.val)
      \/ /\ at <= Len(instrs) /\ i.addr # 0 /\ i.kind # "plain" /\ i.kind # "special"
         /\ instrs' = [instrs EXCEPT ![at].field = f]
  <2>1. Len(instrs) \in Nat
    BY <1>1, StreamSteps
  <2>2. CASE at > Len(instrs)
    BY <2>2 DEF encode
  <2>3. CASE at <= Len(instrs)
    <3>1. ~(at > Len(instrs))
      BY <1>1, <2>1, <2>3
    <3> QED BY <2>3, <3>1, Zenon DEF encode
  <2> QED BY <1>1, <2>1, <2>2, <2>3
<1>4. ASSUME at <= Len(instrs), i.addr # 0, i.kind # "plain"
      PROVE  at \in 1 .. Len(instrs) /\ i \in Instrs /\ i.kind # "marker" /\ r.val \in Word
  <2>1. at \in 1 .. Len(instrs)
    BY <1>1, <1>4, StreamSteps
  <2>2. i \in Instrs /\ i.kind # "marker"
    BY <1>1, <1>4, <2>1, StreamSteps
  <2>3. i.expr \in Expr
    BY <2>2 DEF Instrs
  <2> QED BY <1>1, <2>1, <2>2, <2>3, EvalInTable
<1>5. ASSUME at <= Len(instrs), i.addr # 0, i.kind = "special"
      PROVE  Special(r.val) \in Streams /\ (Marks(instrs) # {} => Marks(Special(r.val)) # {})
  <2>1. at \in 1 .. Len(instrs) /\ i.kind # "marker" /\ r.val \in Word
    BY <1>4, <1>5
  <2> HIDE DEF r
  <2> QED BY <1>1, <2>1, SpecialType
<1>6. ASSUME at <= Len(instrs), i.addr # 0, i.kind # "plain", i.kind # "special"
      PROVE  /\ [instrs EXCEPT ![at].field = f] \in Streams
             /\ Marks(instrs) # {} => Marks([instrs EXCEPT ![at].field = f]) # {}
  <2>1. at \in 1 .. Len(instrs) /\ i \in Instrs /\ i.kind # "marker" /\ r.val \in Word
    BY <1>4, <1>6
  <2>2. i.kind \in Kinds /\ i.addr \in Int
    BY <1>6, <2>1 DEF Instrs
  <2>3. f \in 0 .. Modulus - 1
    <3> HIDE DEF r, i
    <3> QED BY <2>1, <2>2, FieldType DEF Fields
  <2> HIDE DEF f
  <2> DEFINE e == [i EXCEPT !.field = f]
  <2>4. e \in Plain /\ e.addr = i.addr
    BY <2>1, <2>3 DEF Instrs, Plain
  <2>5. [instrs EXCEPT ![at].field = f] = [instrs EXCEPT ![at] = e]
    BY <1>1, <2>1, StreamSteps
  <2> HIDE DEF e
  <2> QED BY <1>1, <2>1, <2>4, <2>5, InstrChanged
<1>7. instrs' \in Streams /\ (evt' # "none" => Marks(instrs') # {})
  <2> HIDE DEF i, r, f
  <2> QED BY <1>1, <1>2, <1>3, <1>5, <1>6
<1> QED BY <1>2, <1>7 DEF TypeInv, Types, Pcs

LEMMA TypesGenerate ==
  ASSUME TypeInv, Generate
  PROVE  Types'
<1> DEFINE size == [s \in {t \in Sections : present[t]} |-> Size(s)]
           vector == generateEVT(instrs, data[EVT])
           payload == Payload(size, data, instrs, vector.bytes)
<1>1. UNCHANGED << symbs, lp, present, data, instrs, evt >>
  BY DEF Generate, tables
<1>2. pc = "generate" /\ pc' \in {"crash", "written"} /\ (bin' = bin \/ bin'.payload = payload)
  BY DEF Generate
<1>3. /\ data \in [Tables -> Seq(Items)] /\ instrs \in Seq(Instrs) /\ lp \in [Sections -> Int]
      /\ file \in Files /\ file.kern \in BOOLEAN
  BY FilesAssumption, StreamSteps DEF TypeInv, Types, VectorInv, Inv, Shape
<1>4. data[EVT] \in Seq(Items) /\ (data[EVT] = << >> \/ Marks(instrs) # {})
  <2>1. pc \in PassTwo /\ pc # "fatal"
    BY <1>2 DEF PassTwo
  <2>2. (~file.kern => data[EVT] = << >>) /\ (file.kern => evt = "closed")
    BY <1>3, <2>1 DEF TypeInv, VectorInv, VectorOnce
  <2> QED BY <1>3, <2>2, SectionNumbers DEF TypeInv, Types
<1>5. vector \in Merges
  BY <1>3, <1>4, generateEVTType
<1>6. \A s \in DOMAIN size : size[s] \in Int
  <2>1. \A s \in Sections : Size(s) \in Int
    BY <1>3, StartsAssumption DEF Size
  <2> QED BY <2>1
<1>7. payload \in Seq(Byte \cup {Junk})
  <2>1. vector.bytes \in Seq(Byte)
    BY <1>5, BytesType DEF Merges
  <2> HIDE DEF size, vector
  <2> QED BY <1>3, <1>6, <2>1, PayloadType
<1>8. bin'.payload \in Seq(Byte \cup {Junk})
  <2> HIDE DEF payload
  <2> QED BY <1>2, <1>7 DEF TypeInv, Types
<1> QED BY <1>1, <1>2, <1>8 DEF TypeInv, Types, Pcs

LEMMA TypesNext == TypeInv /\ [Next]_vars => TypeInv'
<1> SUFFICES ASSUME TypeInv, [Next]_vars PROVE Types'
  BY VectorNext DEF TypeInv
<1>1. CASE UNCHANGED vars
  BY <1>1 DEF TypeInv, Types, vars, tables
<1> QED
  BY <1>1, TypesLabels, TypesItems, TypesCode, TypesEndOfFile, TypesReuse, TypesResolve,
     TypesComplete, TypesEncode, TypesGenerate DEF Next, Exited

(* Every variable of the assembler has its type: among others the loops    *)
(* stay within the tables, an evaluation gives a word whatever the text of *)
(* an expression has become, and the file's bytes are all accounted for.   *)
THEOREM Typed == Spec => []TypeOK
<1>1. TypeInv => TypeOK
  <2> SUFFICES ASSUME TypeInv PROVE TypeOK
    OBVIOUS
  <2>1. symbs \in Seq(Symbols) /\ symbs[1].name = LP /\ instrs \in Seq(Instrs)
    BY DEF TypeInv, Types, SymbolTables, Streams
  <2> QED BY <2>1 DEF TypeInv, Types, TypeOK, VectorInv, Inv, Shape, Pcs
<1> QED BY TypesInit, TypesNext, <1>1, PTL DEF Spec

-----------------------------------------------------------------------------
(* What the core makes of the fields. *)

(* There is one quotient and one remainder. *)
LEMMA DivIs ==
  ASSUME NEW b \in Nat \ {0}, NEW q \in Int, NEW r \in 0 .. b - 1
  PROVE  (q * b + r) % b = r /\ (q * b + r) \div b = q
<1>. DEFINE a == q * b + r
            d == a \div b
            m == a % b
<1>1. a \in Int
  OBVIOUS
<1>2. d \in Int /\ m \in 0 .. b - 1 /\ a = d * b + m
  BY <1>1
<1>. HIDE DEF d, m
<1>3. ~(d >= q + 1)
  <2>. SUFFICES ASSUME d >= q + 1 PROVE FALSE
    OBVIOUS
  <2>1. d - q - 1 \in Nat
    BY <1>2
  <2>2. (d - q - 1) * b >= 0
    <3>1. \A x, y \in Nat : x * y >= 0
      OBVIOUS
    <3>. QED BY <2>1, <3>1
  <2>. QED BY <1>2, <2>1, <2>2
<1>4. ~(d <= q - 1)
  <2>. SUFFICES ASSUME d <= q - 1 PROVE FALSE
    OBVIOUS
  <2>1. q - d - 1 \in Nat
    BY <1>2
  <2>2. (q - d - 1) * b >= 0
    <3>1. \A x, y \in Nat : x * y >= 0
      OBVIOUS
    <3>. QED BY <2>1, <3>1
  <2>. QED BY <1>2, <2>1, <2>2
<1>5. d = q
  BY <1>2, <1>3, <1>4
<1>. QED BY <1>2, <1>5 DEF d, m

LEMMA SmallMod ==
  ASSUME NEW b \in Nat \ {0}, NEW r \in 0 .. b - 1
  PROVE  r % b = r /\ r \div b = 0 /\ (r - b) % b = r
<1>1. \A q \in Int : (q * b + r) % b = r /\ (q * b + r) \div b = q
  BY DivIs
<1>2. (0 * b + r) % b = r /\ (0 * b + r) \div b = 0
  BY <1>1
<1>3. ((-1) * b + r) % b = r
  BY <1>1
<1>4. 0 * b + r = r /\ (-1) * b + r = r - b
  OBVIOUS
<1>. QED BY <1>2, <1>3, <1>4

(* Wrapping is adding a multiple of the modulus. *)
LEMMA WrapIs ==
  /\ \A x \in Int : \E m \in Int : Wrap(x) = x + m * Modulus
  /\ \A y \in Word, m \in Int : Wrap(y + m * Modulus) = y
<1>1. /\ Half \in Nat /\ Half >= 8 /\ Modulus = 2 * Half /\ Word = -Half .. Half - 1
      /\ Modulus \in Nat \ {0}
  BY Words
<1>2. ASSUME NEW x \in Int PROVE \E m \in Int : Wrap(x) = x + m * Modulus
  <2>1. (x + Half) % Modulus = (x + Half) - Modulus * ((x + Half) \div Modulus)
        /\ (x + Half) \div Modulus \in Int
    BY <1>1
  <2>2. -((x + Half) \div Modulus) \in Int
    BY <2>1
  <2>3. Wrap(x) = x + (-((x + Half) \div Modulus)) * Modulus
    BY <1>1, <2>1 DEF Wrap
  <2>. QED BY <2>2, <2>3
<1>3. ASSUME NEW y \in Word, NEW m \in Int PROVE Wrap(y + m * Modulus) = y
  <2>1. y \in Int /\ y + Half \in 0 .. Modulus - 1
    BY <1>1
  <2>2. (m * Modulus + (y + Half)) % Modulus = y + Half
    BY <1>1, <2>1, DivIs
  <2>3. (y + m * Modulus) + Half = m * Modulus + (y + Half)
    BY <1>1, <2>1
  <2>. QED BY <1>1, <2>1, <2>2, <2>3 DEF Wrap
<1>. QED BY <1>2, <1>3

(* A word that is moved by less than the modulus is another one. *)
LEMMA WrapMoves ==
  ASSUME NEW y \in Word, NEW d \in Int, -Modulus < d, d < Modulus
  PROVE  Wrap(y + d) = y <=> d = 0
<1>1. /\ Half \in Nat /\ Half >= 8 /\ Modulus = 2 * Half /\ Word = -Half .. Half - 1
  BY Words
<1>2. CASE d = 0
  <2>1. Wrap(y + 0 * Modulus) = y
    BY WrapIs
  <2>2. y + 0 * Modulus = y + d
    BY <1>1, <1>2
  <2>. QED BY <1>2, <2>1, <2>2
<1>3. CASE d # 0
  <2>1. PICK m \in Int : Wrap(y + d) = (y + d) + m * Modulus
    <3>1. y + d \in Int
      BY <1>1
    <3>. QED BY <3>1, WrapIs
  <2>. SUFFICES ASSUME Wrap(y + d) = y PROVE FALSE
    BY <1>3
  <2>2. d = (-m) * Modulus
    BY <1>1, <2>1
  <2>3. m >= 1 \/ m <= -1
    BY <1>1, <1>3, <2>2
  <2>4. CASE m >= 1
    <3>1. (m - 1) * Modulus >= 0
      <4>1. \A a, b \in Nat : a * b >= 0
        OBVIOUS
      <4>. QED BY <1>1, <2>4, <4>1
    <3>. QED BY <1>1, <2>2, <3>1
  <2>5. CASE m <= -1
    <3>1. (-m - 1) * Modulus >= 0
      <4>1. \A a, b \in Nat : a * b >= 0
        OBVIOUS
      <4>. QED BY <1>1, <2>5, <4>1
    <3>. QED BY <1>1, <2>2, <3>1
  <2>. QED BY <2>3, <2>4, <2>5
<1>. QED BY <1>2, <1>3

(* A number in the range of a field comes back from it; any comes back as  *)
(* one of the range, a multiple of the field's size away.                  *)
LEMMA SignedIs ==
  ASSUME NEW bits \in Nat \ {0}, NEW x \in Int
  PROVE  /\ InRange(Signed(x, bits), bits) /\ Signed(x, bits) \in Int
         /\ \E m \in Int : x = Signed(x, bits) + m * Pow2[bits]
         /\ InRange(x, bits) => Signed(x, bits) = x
         /\ Signed(x % Pow2[bits], bits) = Signed(x, bits)
<1>. DEFINE P == Pow2[bits]
            H == Pow2[bits - 1]
            u == x % P
            q == x \div P
<1>1. P \in Nat \ {0} /\ H \in Nat \ {0} /\ P = 2 * H
  BY Pow2Type, Pow2Defined
<1>2. u \in 0 .. P - 1 /\ q \in Int /\ x = q * P + u
  BY <1>1
<1>3. Signed(x, bits) = IF u >= H THEN u - P ELSE u
  BY DEF Signed
<1>4. InRange(x, bits) <=> -H <= x /\ x < H
  BY DEF InRange
<1>5. u % P = u
  <2>. HIDE DEF u, P
  <2>. QED BY <1>1, <1>2, SmallMod
<1>6. Signed(x % Pow2[bits], bits) = IF u % P >= H THEN (u % P) - P ELSE u % P
  BY DEF Signed
<1>7. CASE u >= H
  <2>1. x = (u - P) + (q + 1) * P
    <3>. HIDE DEF u, q, P, H
    <3>. QED BY <1>1, <1>2
  <2>2. InRange(u - P, bits)
    <3>. HIDE DEF u
    <3>. QED BY <1>1, <1>2, <1>7 DEF InRange
  <2>3. InRange(x, bits) => x = u - P
    <3>. SUFFICES ASSUME InRange(x, bits) PROVE x = u - P
      OBVIOUS
    <3>1. CASE x >= 0
      <4>1. x \in 0 .. P - 1
        BY <1>1, <1>4, <3>1
      <4>2. x % P = x
        <5>. HIDE DEF P
        <5>. QED BY <1>1, <4>1, SmallMod
      <4>. QED BY <1>1, <1>4, <1>7, <4>1, <4>2
    <3>2. CASE x < 0
      <4>1. x + P \in 0 .. P - 1 /\ (x + P) - P = x
        BY <1>1, <1>4, <3>2
      <4>2. x % P = x + P
        <5>. DEFINE y == x + P
        <5>. HIDE DEF P, y
        <5>1. y \in 0 .. P - 1 /\ y - P = x
          BY <4>1 DEF y
        <5>2. (y - P) % P = y
          BY <1>1, <5>1, SmallMod
        <5>. QED BY <5>1, <5>2 DEF y
      <4>. QED BY <1>1, <4>1, <4>2
    <3>. QED BY <3>1, <3>2
  <2>. HIDE DEF u, q, P, H
  <2>4. q + 1 \in Int /\ u - P \in Int
    BY <1>1, <1>2
  <2>. QED BY <1>3, <1>5, <1>6, <1>7, <2>1, <2>2, <2>3, <2>4 DEF P
<1>8. CASE ~(u >= H)
  <2>1. x = u + q * P
    <3>. HIDE DEF u, q, P, H
    <3>. QED BY <1>1, <1>2
  <2>2. InRange(u, bits)
    <3>. HIDE DEF u
    <3>. QED BY <1>1, <1>2, <1>8 DEF InRange
  <2>3. InRange(x, bits) => x = u
    <3>. SUFFICES ASSUME InRange(x, bits) PROVE x = u
      OBVIOUS
    <3>1. CASE x >= 0
      <4>1. x \in 0 .. P - 1
        BY <1>1, <1>4, <3>1
      <4>2. x % P = x
        <5>. HIDE DEF P
        <5>. QED BY <1>1, <4>1, SmallMod
      <4>. QED BY <4>2
    <3>2. CASE x < 0
      <4>1. x + P \in 0 .. P - 1 /\ (x + P) - P = x
        BY <1>1, <1>4, <3>2
      <4>2. x % P = x + P
        <5>. DEFINE y == x + P
        <5>. HIDE DEF P, y
        <5>1. y \in 0 .. P - 1 /\ y - P = x
          BY <4>1 DEF y
        <5>2. (y - P) % P = y
          BY <1>1, <5>1, SmallMod
        <5>. QED BY <5>1, <5>2 DEF y
      <4>. QED BY <1>1, <1>4, <1>8, <4>1, <4>2
    <3>. QED BY <3>1, <3>2
  <2>. HIDE DEF u, q, P, H
  <2>4. q \in Int /\ u \in Int
    BY <1>1, <1>2
  <2>. QED BY <1>3, <1>5, <1>6, <1>8, <2>1, <2>2, <2>3, <2>4 DEF P
<1>. QED BY <1>7, <1>8

(* An offset is read as it was, and is none that is negative: the bits     *)
(* that are tested forbid it.                                              *)
LEMMA OffsetDecoded ==
  ASSUME NEW v \in Word, NEW addr, Accepts("M", v, addr)
  PROVE  Decoded("M", Field("M", v, addr), addr) = v /\ v >= 0
<1>1. v \in Int /\ OffsetBits \in Nat \ {0}
  BY Words, FieldsAssumption
<1>2. InRange(v, OffsetBits) /\ \A i \in TestedBits : Bit(v, i) = 0
  BY DEF Accepts, AcceptsImmediate
<1>3. Field("M", v, addr) = v % Pow2[OffsetBits]
  BY DEF Field, Bits
<1>4. Decoded("M", Field("M", v, addr), addr) = Signed(v % Pow2[OffsetBits], OffsetBits)
  BY <1>3 DEF Decoded, extractImm, Bits
<1>5. Signed(v % Pow2[OffsetBits], OffsetBits) = v
  BY <1>1, <1>2, SignedIs
<1>6. v >= 0
  <2>. SUFFICES ASSUME v < 0 PROVE FALSE
    BY <1>1
  <2>1. PICK i \in TestedBits : i >= OffsetBits - 1
    BY FieldsAssumption
  <2>2. i \in Nat /\ OffsetBits - 1 \in Nat
    BY <1>1, WordBitsAssumption, FieldsAssumption
  <2>. DEFINE P == Pow2[i] H == Pow2[OffsetBits - 1]
  <2>3. P \in Nat \ {0} /\ H \in Nat \ {0} /\ H <= P
    BY <2>1, <2>2, Pow2Type, Pow2Grows
  <2>4. -H <= v
    BY <1>2 DEF InRange
  <2>5. Bit(v, i) = (v \div P) % 2
    BY DEF Bit
  <2>. HIDE DEF P, H
  <2>. DEFINE r == v + P
  <2>6. r \in 0 .. P - 1 /\ (-1) * P + r = v
    BY <1>1, <2>3, <2>4
  <2>. HIDE DEF r
  <2>7. ((-1) * P + r) \div P = -1
    BY <2>3, <2>6, DivIs
  <2>8. v \div P = -1
    BY <2>6, <2>7
  <2>9. Bit(v, i) = 1
    BY <2>5, <2>8
  <2>. QED BY <1>2, <2>9
<1>. QED BY <1>4, <1>5, <1>6

(* A word without a bit from n on is a number of n bits.                   *)
LEMMA UpperBits ==
  ASSUME NEW v \in Word, NEW n \in 0 .. WordBits - 1
  PROVE  (\A b \in n .. WordBits - 1 : Bit(v, b) = 0) <=> v \in 0 .. Pow2[n] - 1
<1>0. n \in Nat /\ WordBits \in Nat /\ WordBits - 1 \in Nat /\ v \in Int
  BY WordBitsAssumption, Words
<1>1. \A b \in Nat : Pow2[b] \in Nat \ {0} /\ Pow2[b + 1] = 2 * Pow2[b]
  BY Pow2Type, Pow2Defined
<1>2. ASSUME NEW p \in Nat \ {0}, v \in 0 .. 2 * p - 1 PROVE (v \div p) % 2 = 0 <=> v \in 0 .. p - 1
  <2>1. CASE v \in 0 .. p - 1
    <3>1. v \div p = 0
      BY <2>1, SmallMod
    <3>. QED BY <2>1, <3>1
  <2>2. CASE v \notin 0 .. p - 1
    <3>1. v - p \in 0 .. p - 1
      BY <1>0, <1>2, <2>2
    <3>. DEFINE r == v - p
    <3>2. r \in 0 .. p - 1 /\ v = 1 * p + r
      BY <1>0, <3>1
    <3>. HIDE DEF r
    <3>3. (1 * p + r) \div p = 1
      BY <3>2, DivIs
    <3>4. v \div p = 1
      BY <3>2, <3>3
    <3>. QED BY <2>2, <3>4
  <2>. QED BY <2>1, <2>2
<1>3. ASSUME v \in 0 .. Pow2[n] - 1, NEW b \in n .. WordBits - 1 PROVE Bit(v, b) = 0
  <2>1. b \in Nat /\ Pow2[b] \in Nat \ {0} /\ Pow2[n] <= Pow2[b] /\ Pow2[n] \in Nat
    BY <1>0, <1>1, Pow2Grows
  <2>2. v \in 0 .. Pow2[b] - 1
    BY <1>3, <2>1
  <2>3. v \div Pow2[b] = 0
    BY <2>1, <2>2, SmallMod
  <2>. QED BY <2>3 DEF Bit
<1>4. ASSUME \A b \in n .. WordBits - 1 : Bit(v, b) = 0 PROVE v \in 0 .. Pow2[n] - 1
  <2>. DEFINE T == {k \in Nat : k <= WordBits - 1 - n => v \in 0 .. Pow2[WordBits - 1 - k] - 1}
  <2>1. 0 \in T
    <3>1. v \in -Pow2[WordBits - 1] .. Pow2[WordBits - 1] - 1
      BY Words DEF Half
    <3>2. WordBits - 1 \in n .. WordBits - 1
      BY <1>0
    <3>3. (v \div Pow2[WordBits - 1]) % 2 = 0
      BY <1>4, <3>2 DEF Bit
    <3>. DEFINE p == Pow2[WordBits - 1]
    <3>4. p \in Nat \ {0}
      BY <1>0, <1>1
    <3>. HIDE DEF p
    <3>5. v >= 0
      <4>. SUFFICES ASSUME v < 0 PROVE FALSE
        BY <1>0
      <4>. DEFINE r == v + p
      <4>1. r \in 0 .. p - 1 /\ (-1) * p + r = v
        BY <1>0, <3>1, <3>4 DEF p
      <4>. HIDE DEF r
      <4>2. ((-1) * p + r) \div p = -1
        BY <3>4, <4>1, DivIs
      <4>3. v \div p = -1
        BY <4>1, <4>2
      <4>. QED BY <3>3, <4>3 DEF p
    <3>6. WordBits - 1 - 0 = WordBits - 1
      BY <1>0
    <3>. QED BY <1>0, <3>1, <3>5, <3>6
  <2>2. ASSUME NEW k \in Nat, k \in T PROVE k + 1 \in T
    <3>. SUFFICES ASSUME k + 1 <= WordBits - 1 - n PROVE v \in 0 .. Pow2[WordBits - 1 - (k + 1)] - 1
      OBVIOUS
    <3>. DEFINE b == WordBits - 1 - (k + 1)
    <3>1. b \in n .. WordBits - 1 /\ b \in Nat /\ b + 1 = WordBits - 1 - k
      BY <1>0
    <3>2. v \in 0 .. Pow2[WordBits - 1 - k] - 1
      BY <1>0, <2>2
    <3>. HIDE DEF b
    <3>3. v \in 0 .. 2 * Pow2[b] - 1 /\ Pow2[b] \in Nat \ {0}
      BY <1>1, <3>1, <3>2
    <3>4. (v \div Pow2[b]) % 2 = 0
      BY <1>4, <3>1 DEF Bit
    <3>5. v \in 0 .. Pow2[b] - 1
      BY <1>2, <3>3, <3>4
    <3>. QED BY <3>5 DEF b
  <2>3. Nat \subseteq T
    <3>. HIDE DEF T
    <3>. QED BY <2>1, <2>2, Induction
  <2>4. WordBits - 1 - n \in Nat /\ WordBits - 1 - (WordBits - 1 - n) = n
    BY <1>0
  <2>5. WordBits - 1 - n \in T
    BY <2>3, <2>4
  <2>. QED BY <2>4, <2>5
<1>. QED BY <1>3, <1>4

(* An immediate is read as it was unless a bit outside of its field is set. *)
LEMMA ImmediateDecoded ==
  ASSUME NEW v \in Word, NEW addr
  PROVE  Decoded("I", Field("I", v, addr), addr) = v <=> \A b \in ImmBits .. WordBits - 1 : Bit(v, b) = 0
<1>1. ImmBits \in 0 .. WordBits - 1 /\ v \in Int
  BY Words, WordBitsAssumption, FieldsAssumption
<1>2. Decoded("I", Field("I", v, addr), addr) = v % Pow2[ImmBits]
  BY DEF Decoded, extractImm, Field, Bits
<1>. DEFINE p == Pow2[ImmBits]
<1>3. p \in Nat \ {0}
  BY <1>1, Pow2Type
<1>4. v % p = v <=> v \in 0 .. p - 1
  <2>. HIDE DEF p
  <2>1. v % p \in 0 .. p - 1
    BY <1>1, <1>3
  <2>2. v \in 0 .. p - 1 => v % p = v
    BY <1>3, SmallMod
  <2>. QED BY <2>1, <2>2
<1>. QED BY <1>1, <1>2, <1>4, UpperBits

LEMMA WrapAgain ==
  ASSUME NEW x \in Int, NEW m \in Int
  PROVE  Wrap(x + m * Modulus) = Wrap(x)
<1>1. PICK k \in Int : Wrap(x) = x + k * Modulus
  BY WrapIs
<1>2. Wrap(x) \in Word /\ Wrap(x) \in Int /\ Modulus \in Nat
  BY Words
<1>. DEFINE y == Wrap(x)
<1>. HIDE DEF y
<1>3. y \in Word /\ y \in Int /\ y = x + k * Modulus /\ m - k \in Int
  BY <1>1, <1>2 DEF y
<1>4. Wrap(y + (m - k) * Modulus) = y
  BY <1>3, WrapIs
<1>5. y + (m - k) * Modulus = x + m * Modulus
  BY <1>2, <1>3
<1>. QED BY <1>4, <1>5 DEF y

(* The displacement of a branch leads to its target. *)
LEMMA BranchExact ==
  ASSUME NEW v \in Word, NEW addr \in Int, v % 4 = 0, addr % 4 = 0
  PROVE  /\ BranchOffset(v, addr) \in Int
         /\ \E m \in Int : addr + 4 * BranchOffset(v, addr) = v + m * Modulus
<1>. DEFINE w == Wrap(v - addr)
            Q == Pow2[WordBits - 2]
<1>1. v \in Int /\ v - addr \in Int
  BY Words
<1>2. PICK m \in Int : w = (v - addr) + m * Modulus
  BY <1>1, WrapIs
<1>3. Q \in Int /\ Modulus = 4 * Q
  <2>1. WordBits \in Nat /\ WordBits - 1 \in Nat \ {0} /\ WordBits - 2 \in Nat /\ (WordBits - 1) - 1 = WordBits - 2
        /\ WordBits # 0
    BY WordBitsAssumption
  <2>2. Pow2[WordBits] = 2 * Pow2[WordBits - 1] /\ Pow2[WordBits - 1] = 2 * Pow2[WordBits - 2]
    BY <2>1, Pow2Defined
  <2>3. Pow2[WordBits - 2] \in Int
    BY <2>1, Pow2Type
  <2>. QED BY <2>2, <2>3 DEF Modulus
<1>. HIDE DEF Q
<1>. DEFINE t == (v \div 4) - (addr \div 4) + m * Q
<1>4. t \in Int /\ w = 4 * t
  <2>1. v = 4 * (v \div 4) /\ addr = 4 * (addr \div 4) /\ v \div 4 \in Int /\ addr \div 4 \in Int
    BY <1>1
  <2>. DEFINE V == v \div 4 A == addr \div 4 n == m * Q
  <2>2. n \in Int /\ m * Modulus = 4 * n
    BY <1>3
  <2>. HIDE DEF w, V, A, n
  <2>3. t = V - A + n
    BY DEF V, A, n
  <2>4. v = 4 * V /\ addr = 4 * A /\ V \in Int /\ A \in Int
    BY <2>1 DEF V, A
  <2>. HIDE DEF t
  <2>. QED BY <1>2, <2>2, <2>3, <2>4
<1>. HIDE DEF w, t
<1>5. Quotient(w, 4) = t
  <2>1. Abs(4) = 4
    BY DEF Abs
  <2>2. CASE t < 0
    <3>1. w < 0 /\ Abs(w) = 4 * (-t)
      BY <1>4, <2>2 DEF Abs
    <3>2. (4 * (-t)) \div 4 = -t
      BY <1>4
    <3>3. Quotient(w, 4) = -(Abs(w) \div 4)
      BY <2>1, <3>1 DEF Quotient
    <3>. QED BY <1>4, <3>1, <3>2, <3>3
  <2>3. CASE t >= 0
    <3>1. ~(w < 0) /\ Abs(w) = 4 * t
      BY <1>4, <2>3 DEF Abs
    <3>2. (4 * t) \div 4 = t
      BY <1>4
    <3>3. Quotient(w, 4) = Abs(w) \div 4
      BY <2>1, <3>1 DEF Quotient
    <3>. QED BY <3>1, <3>2, <3>3
  <2>. QED BY <1>4, <2>2, <2>3
<1>6. BranchOffset(v, addr) = t
  BY <1>5 DEF BranchOffset, w
<1>7. addr + 4 * t = v + m * Modulus
  <2>. DEFINE n == m * Modulus
  <2>1. n \in Int /\ w = (v - addr) + n
    BY <1>2, <1>3
  <2>. HIDE DEF n
  <2>2. addr + 4 * t = v + n
    BY <1>1, <1>4, <2>1
  <2>. QED BY <2>2 DEF n
<1>. QED BY <1>4, <1>6, <1>7

(* Another displacement leads elsewhere. *)
LEMMA BranchReaches ==
  ASSUME NEW v \in Word, NEW addr \in Int, v % 4 = 0, addr % 4 = 0, NEW s \in Int,
         -Modulus < 4 * (s - BranchOffset(v, addr)), 4 * (s - BranchOffset(v, addr)) < Modulus
  PROVE  Wrap(addr + 4 * s) = v <=> s = BranchOffset(v, addr)
<1>. DEFINE off == BranchOffset(v, addr)
            d == 4 * (s - off)
<1>1. off \in Int
  BY BranchExact
<1>2. PICK m \in Int : addr + 4 * off = v + m * Modulus
  BY BranchExact
<1>. HIDE DEF off
<1>0. v \in Int /\ Modulus \in Nat
  BY Words
<1>3. d \in Int /\ -Modulus < d /\ d < Modulus /\ (d = 0 <=> s = off)
  BY <1>1 DEF off
<1>4. addr + 4 * s = (v + d) + m * Modulus
  <2>. DEFINE n == m * Modulus
  <2>1. n \in Int /\ addr + 4 * off = v + n
    BY <1>0, <1>2
  <2>. HIDE DEF n
  <2>2. addr + 4 * s = (v + d) + n
    BY <1>0, <1>1, <2>1
  <2>. QED BY <2>2 DEF n
<1>. HIDE DEF d
<1>5. v + d \in Int
  BY <1>0, <1>3
<1>6. Wrap(addr + 4 * s) = Wrap(v + d)
  BY <1>4, <1>5, WrapAgain
<1>7. Wrap(v + d) = v <=> d = 0
  BY <1>3, WrapMoves
<1>. QED BY <1>3, <1>6, <1>7 DEF off

(* ub and call reach their target within the bits that nextIR keeps.       *)
LEMMA JumpDecoded ==
  ASSUME NEW v \in Word, NEW addr \in Int, addr % 4 = 0, Accepts("Bi", v, addr)
  PROVE  Decoded("Bi", Field("Bi", v, addr), addr) = v <=> InRange(BranchOffset(v, addr), KeptBits)
<1>. DEFINE off == BranchOffset(v, addr)
            s == Signed(off, KeptBits)
<1>1. v % 4 = 0 /\ InRange(off, BiBits)
  BY DEF Accepts, AcceptsBranch, Bits
<1>2. off \in Int
  BY <1>1, BranchExact
<1>3. /\ BiBits \in Nat \ {0} /\ KeptBits \in Nat \ {0} /\ KeptBits <= BiBits /\ WordBits \in Nat
      /\ BiBits + 2 <= WordBits
  BY WordBitsAssumption, FieldsAssumption
<1>. HIDE DEF off
<1>4. Decoded("Bi", Field("Bi", v, addr), addr) = Wrap(addr + 4 * s)
  <2>1. Field("Bi", v, addr) = off % Pow2[BiBits]
    BY DEF Field, Bits, off
  <2>2. Signed(off % Pow2[BiBits], BiBits) = off
    BY <1>1, <1>2, <1>3, SignedIs
  <2>3. extractImm("Bi", Field("Bi", v, addr)) = off
    BY <2>1, <2>2 DEF extractImm, Bits
  <2>. QED BY <2>3 DEF Decoded, nextIR
<1>5. s \in Int /\ InRange(s, KeptBits) /\ (InRange(off, KeptBits) => s = off)
  BY <1>2, <1>3, SignedIs
<1>. HIDE DEF s
<1>6. -Modulus < 4 * (s - off) /\ 4 * (s - off) < Modulus
  <2>1. /\ Pow2[BiBits] = 2 * Pow2[BiBits - 1] /\ Pow2[BiBits + 1] = 2 * Pow2[BiBits]
        /\ Pow2[BiBits + 2] = 2 * Pow2[BiBits + 1]
        /\ Pow2[BiBits - 1] \in Nat \ {0}
    <3>1. BiBits + 1 \in Nat \ {0} /\ BiBits + 2 \in Nat \ {0} /\ (BiBits + 2) - 1 = BiBits + 1
          /\ (BiBits + 1) - 1 = BiBits /\ BiBits - 1 \in Nat
      BY <1>3
    <3>2. /\ Pow2[BiBits] = 2 * Pow2[BiBits - 1]
          /\ Pow2[BiBits + 1] = 2 * Pow2[(BiBits + 1) - 1]
          /\ Pow2[BiBits + 2] = 2 * Pow2[(BiBits + 2) - 1]
      BY <1>3, <3>1, Pow2Defined
    <3>. QED BY <3>1, <3>2, Pow2Type
  <2>2. Pow2[KeptBits - 1] <= Pow2[BiBits - 1] /\ Pow2[KeptBits - 1] \in Nat
    BY <1>3, Pow2Type, Pow2Grows
  <2>3. Pow2[BiBits + 2] <= Modulus
    BY <1>3, Pow2Grows DEF Modulus
  <2>4. -Pow2[BiBits - 1] <= off /\ off < Pow2[BiBits - 1]
    BY <1>1 DEF InRange
  <2>5. -Pow2[KeptBits - 1] <= s /\ s < Pow2[KeptBits - 1]
    BY <1>5 DEF InRange
  <2>. DEFINE a == Pow2[BiBits - 1] b == Pow2[KeptBits - 1]
  <2>6. a \in Nat \ {0} /\ b \in Nat /\ b <= a /\ 8 * a <= Modulus /\ Modulus \in Nat
    <3>1. Modulus \in Nat
      BY Words
    <3>2. Pow2[BiBits + 2] = 8 * a
      BY <2>1
    <3>. HIDE DEF a, b
    <3>3. a \in Nat \ {0}
      BY <2>1 DEF a
    <3>4. b \in Nat /\ b <= a
      BY <2>2 DEF a, b
    <3>. QED BY <2>3, <3>1, <3>2, <3>3, <3>4
  <2>7. -a <= off /\ off < a /\ -b <= s /\ s < b
    BY <2>4, <2>5
  <2>. HIDE DEF a, b
  <2>. QED BY <1>2, <1>5, <2>6, <2>7
<1>7. Wrap(addr + 4 * s) = v <=> s = off
  BY <1>1, <1>5, <1>6, BranchReaches DEF off
<1>. QED BY <1>4, <1>5, <1>7 DEF off

(* A conditional branch reaches its target if that lies ahead.             *)
LEMMA ConditionalDecoded ==
  ASSUME NEW v \in Word, NEW addr \in Int, addr % 4 = 0, Accepts("Bc", v, addr)
  PROVE  Decoded("Bc", Field("Bc", v, addr), addr) = v <=> BranchOffset(v, addr) >= 0
<1>. DEFINE off == BranchOffset(v, addr)
            p == Pow2[BcBits]
            s == off % p
<1>1. v % 4 = 0 /\ InRange(off, BcBits)
  BY DEF Accepts, AcceptsBranch, Bits
<1>2. off \in Int
  BY <1>1, BranchExact
<1>3. BcBits \in Nat \ {0} /\ WordBits \in Nat /\ BcBits + 3 <= WordBits
  BY WordBitsAssumption, FieldsAssumption
<1>. HIDE DEF off
<1>4. Decoded("Bc", Field("Bc", v, addr), addr) = Wrap(addr + 4 * s)
  <2>1. Field("Bc", v, addr) = off % Pow2[BcBits]
    BY DEF Field, Bits, off
  <2>2. Signed(off % Pow2[BcBits], BcBits) = off
    BY <1>1, <1>2, <1>3, SignedIs
  <2>3. extractImm("Bc", Field("Bc", v, addr)) = off
    BY <2>1, <2>2 DEF extractImm, Bits
  <2>. QED BY <2>3 DEF Decoded, nextIR
<1>5. p \in Nat \ {0} /\ p = 2 * Pow2[BcBits - 1] /\ Pow2[BcBits - 1] \in Nat /\ 8 * p <= Modulus
  <2>1. /\ BcBits + 1 \in Nat \ {0} /\ BcBits + 2 \in Nat \ {0} /\ BcBits + 3 \in Nat \ {0}
        /\ (BcBits + 3) - 1 = BcBits + 2 /\ (BcBits + 2) - 1 = BcBits + 1
        /\ (BcBits + 1) - 1 = BcBits /\ BcBits - 1 \in Nat
    BY <1>3
  <2>2. /\ Pow2[BcBits] = 2 * Pow2[BcBits - 1]
        /\ Pow2[BcBits + 1] = 2 * Pow2[(BcBits + 1) - 1]
        /\ Pow2[BcBits + 2] = 2 * Pow2[(BcBits + 2) - 1]
        /\ Pow2[BcBits + 3] = 2 * Pow2[(BcBits + 3) - 1]
    BY <1>3, <2>1, Pow2Defined
  <2>3. Pow2[BcBits + 3] <= Modulus
    BY <1>3, Pow2Grows DEF Modulus
  <2>4. p \in Nat \ {0} /\ Pow2[BcBits - 1] \in Nat
    BY <1>3, <2>1, Pow2Type
  <2>. QED BY <2>1, <2>2, <2>3, <2>4
<1>6. -Pow2[BcBits - 1] <= off /\ off < Pow2[BcBits - 1]
  BY <1>1 DEF InRange
<1>7. s = IF off >= 0 THEN off ELSE off + p
  <2>. HIDE DEF p
  <2>1. CASE off >= 0
    <3>1. off \in 0 .. p - 1
      BY <1>2, <1>5, <1>6, <2>1
    <3>. QED BY <1>5, <2>1, <3>1, SmallMod
  <2>2. CASE off < 0
    <3>. DEFINE y == off + p
    <3>1. y \in 0 .. p - 1 /\ y - p = off
      BY <1>2, <1>5, <1>6, <2>2
    <3>. HIDE DEF y
    <3>2. (y - p) % p = y
      BY <1>5, <3>1, SmallMod
    <3>3. off % p = y
      BY <3>1, <3>2
    <3>. QED BY <1>2, <2>2, <3>3 DEF y
  <2>. QED BY <1>2, <2>1, <2>2
<1>. HIDE DEF s, p
<1>8. s \in Int /\ -Modulus < 4 * (s - off) /\ 4 * (s - off) < Modulus /\ (s = off <=> off >= 0)
  <2>1. Modulus \in Nat
    BY Words
  <2>. QED BY <1>2, <1>5, <1>7, <2>1
<1>9. Wrap(addr + 4 * s) = v <=> s = off
  BY <1>1, <1>8, BranchReaches DEF off
<1>. QED BY <1>4, <1>8, <1>9 DEF off

-----------------------------------------------------------------------------
(* Values of expressions in the second pass. *)

Ready == {"complete", "encode", "generate", "written"}

(* No symbol is an expression any more. *)
Settled(s) == \A k \in 1 .. Len(s) : ~s[k].is.isExpr

(* What an expression means by a symbol table, and that a value is right   *)
(* for it: the only one that it means, if it means one at all.             *)
ValuesIn(s) == [n \in Names \cup {LP} |-> IF n = LP THEN 0 ELSE Env(s)[n].value]
MeaningIn(s, e) == Denotes(ValuesIn(s))[e]
RightValue(s, e, v) ==
  ~Uses(e, LP) /\ MeaningIn(s, e) # {} => MeaningIn(s, e) = {v}

LEMMA ValuesType ==
  ASSUME NEW s \in SymbolTables
  PROVE  ValuesIn(s) \in Valuation
<1>1. Env(s) \in [Names \cup {LP} -> Meaning]
  BY EnvType, TableSteps
<1>2. \A n \in Names : Env(s)[n].value \in Word
  BY <1>1 DEF Meaning
<1>3. 0 \in Word
  BY Words
<1>. QED BY <1>2, <1>3 DEF ValuesIn, Valuation

(* In a table without expressions the evaluator is right.                  *)
LEMMA EvalMeans ==
  ASSUME NEW s \in SymbolTables, Settled(s), NEW e \in Expr,
         Eval(e, Env(s)).ok, ~Eval(e, Env(s)).trap
  PROVE  RightValue(s, e, Eval(e, Env(s)).val)
<1>. SUFFICES ASSUME ~Uses(e, LP), MeaningIn(s, e) # {}
              PROVE  MeaningIn(s, e) = {Eval(e, Env(s)).val}
  BY DEF RightValue
<1>1. Env(s) \in [Names \cup {LP} -> Meaning]
  BY EnvType, TableSteps
<1>2. \A n \in Names \cup {LP} : ~Env(s)[n].isExpr
  <2>. SUFFICES ASSUME NEW n \in Names \cup {LP} PROVE ~Env(s)[n].isExpr
    OBVIOUS
  <2>1. Env(s)[n] = IF getSymbEntry(s, n) = 0 THEN Unknown ELSE s[getSymbEntry(s, n)].is
    BY DEF Env
  <2>2. s \in Seq(Symbols) /\ DOMAIN s = 1 .. Len(s)
    BY TableSteps
  <2>3. getSymbEntry(s, n) # 0 => getSymbEntry(s, n) \in DOMAIN s
    BY <2>2, EntryOf
  <2>4. ~Unknown.isExpr
    BY DEF Unknown
  <2>. QED BY <2>1, <2>2, <2>3, <2>4 DEF Settled
<1>3. Agrees(Env(s), ValuesIn(s), e)
  <2>. SUFFICES ASSUME NEW i \in 1 .. Len(e), e[i].type = "SYMB"
                PROVE  ~Env(s)[e[i].text].isExpr /\ Env(s)[e[i].text].value = ValuesIn(s)[e[i].text]
    BY DEF Agrees
  <2>1. e \in Seq(Token) /\ DOMAIN e = 1 .. Len(e)
    BY LenProperties DEF Expr
  <2>2. e[i] \in Token
    BY <2>1, ElementOfSeq
  <2>3. e[i].text \in Names \cup {LP}
    BY <2>2 DEF Token
  <2>4. e[i].text # LP
    BY <2>1 DEF Uses
  <2>5. ValuesIn(s)[e[i].text] = Env(s)[e[i].text].value
    BY <2>3, <2>4 DEF ValuesIn
  <2>. QED BY <1>2, <2>3, <2>5
<1>4. ValuesIn(s) \in Valuation
  BY ValuesType
<1>. HIDE DEF ValuesIn
<1>. QED BY <1>1, <1>3, <1>4, EvaluatorIsRight DEF MeaningIn

(* A number means itself. *)
LEMMA NumberMeans ==
  ASSUME NEW s \in SymbolTables, NEW v \in Word
  PROVE  << INT(v) >> \in Expr /\ MeaningIn(s, << INT(v) >>) = {v}
<1>. DEFINE e == << INT(v) >>
<1>1. e \in Expr
  BY TokenTypes DEF Expr
<1>2. Len(e) = 1 /\ e[1].type = "INT" /\ e[1].val = v
  BY DEF INT, Tok
<1>. HIDE DEF e
<1>3. Binary(e) = {}
  BY <1>2 DEF Binary
<1>4. IsNumber(e)
  BY <1>2, <1>3 DEF IsNumber
<1>5. Meant(ValuesIn(s), Denotes(ValuesIn(s)), e) = {e[1].val}
  BY <1>1, <1>4, MeantCases
<1>6. Denotes(ValuesIn(s))[e] = Meant(ValuesIn(s), Denotes(ValuesIn(s)), e)
  BY <1>1, ValuesType, DenotesDefined
<1>7. MeaningIn(s, e) = {v}
  BY <1>2, <1>5, <1>6 DEF MeaningIn
<1>. QED BY <1>1, <1>7 DEF e

-----------------------------------------------------------------------------
(* The invariant. *)

(* No values yet; values that are kept of right ones, which have passed    *)
(* the test of their size; a field that is right.                          *)
NoValues(d) == \A t \in Tables : \A k \in 1 .. Len(d[t]) : d[t][k].vals = << >>
RightValues(s, item) ==
  \A j \in DOMAIN item.vals : \E v \in Word :
    /\ RightValue(s, item.args[j], v) /\ ~TooLarge(item.width, v)
    /\ item.vals[j] = LowBytes(item.width, v)
RightField(s, x) ==
  x.kind \in Kinds /\ x.addr # 0 /\ ~Uses(x.expr, LP) =>
    \A v \in MeaningIn(s, x.expr) :
      /\ v \in Word /\ x.field = Field(x.kind, v, x.addr)
      /\ x.kind = "I" \/ Accepts(x.kind, v, x.addr)

(* How far the second pass has come: the symbols in front of at have their *)
(* values, later on all of them; then the items have theirs; then the      *)
(* instructions in front of at their fields, later on all of them.         *)
Progress ==
  /\ pc = "resolve" => \A k \in 1 .. at - 1 : ~symbs[k].is.isExpr
  /\ pc \in Ready => Settled(symbs)
  /\ pc \in {"pass1", "resolve"} => NoValues(data)
  /\ pc \in Ready =>
       \A t \in Tables : \A k \in 1 .. Len(data[t]) : RightValues(symbs, data[t][k])
  /\ pc = "complete" => at = 1
  /\ pc = "encode" => \A i \in 1 .. Len(instrs) : i < at => RightField(symbs, instrs[i])
  /\ pc \in {"generate", "written"} => \A i \in 1 .. Len(instrs) : RightField(symbs, instrs[i])

MeansInv == TypeInv /\ Progress

LEMMA MeansInit == Init => MeansInv
<1>. SUFFICES ASSUME Init PROVE Progress
  BY TypesInit DEF MeansInv
<1>1. pc = "pass1" /\ data = [s \in Tables |-> << >>]
  BY DEF Init
<1>2. NoValues(data)
  BY <1>1 DEF NoValues
<1>. QED BY <1>1, <1>2 DEF Progress, Ready

(* A line adds an item without values, or none.                            *)
LEMMA LineAdds ==
  ASSUME TypeInv, NoValues(data), pc = "pass1",
         pc' \in {"pass1", "fatal", "crash"},
         \/ data' = data
         \/ \E item : item.vals = << >> /\ data' = [data EXCEPT ![active] = Append(@, item)]
  PROVE  Progress'
<1>1. data \in [Tables -> Seq(Items)]
  BY DEF TypeInv, Types
<1>2. NoValues(data')
  <2>1. CASE data' = data
    BY <2>1
  <2>2. CASE \E item : item.vals = << >> /\ data' = [data EXCEPT ![active] = Append(@, item)]
    <3>1. PICK item : item.vals = << >> /\ data' = [data EXCEPT ![active] = Append(@, item)]
      BY <2>2
    <3>. SUFFICES ASSUME NEW t \in Tables, NEW k \in 1 .. Len(data'[t])
                  PROVE  data'[t][k].vals = << >>
      BY DEF NoValues
    <3>2. CASE t # active
      BY <1>1, <3>1, <3>2 DEF NoValues
    <3>3. CASE t = active
      <4>1. data'[t] = Append(data[t], item) /\ data[t] \in Seq(Items)
        BY <1>1, <3>1, <3>3
      <4>2. /\ Len(data[t]) \in Nat /\ Len(data'[t]) = Len(data[t]) + 1
            /\ \A i \in 1 .. Len(data[t]) : data'[t][i] = data[t][i]
            /\ data'[t][Len(data[t]) + 1] = item
        BY <4>1, AppendItem
      <4>3. k \in 1 .. Len(data[t]) \/ k = Len(data[t]) + 1
        BY <4>2
      <4>. QED BY <3>1, <4>2, <4>3 DEF NoValues
    <3>. QED BY <3>2, <3>3
  <2>. QED BY <2>1, <2>2
<1>. QED BY <1>2 DEF Progress, Ready

LEMMA ItemAdds ==
  ASSUME TypeInv, NoValues(data), pc = "pass1",
         NEW size, NEW width, NEW args, NEW done, AddItem(size, width, args, done)
  PROVE  Progress'
<1>. DEFINE item == [addr |-> lp[active], size |-> size, width |-> width,
                     args |-> args, vals |-> << >>, done |-> done, line |-> at]
<1>1. item.vals = << >>
  OBVIOUS
<1>2. data' = data \/ data' = [data EXCEPT ![active] = Append(@, item)]
  BY DEF AddItem
<1>3. pc' \in {"pass1", "fatal", "crash"}
  BY DEF AddItem, EndLine
<1>. HIDE DEF item
<1>. QED BY <1>1, <1>2, <1>3, LineAdds

(* The lines, and what may become of a text meanwhile. *)
LEMMA MeansLines ==
  ASSUME MeansInv,
         \/ LabelLine \/ SectionDirective \/ setDirective \/ globDirective \/ endDirective
         \/ valuesDirective \/ literalDirective \/ zeroDirective \/ fillDirective
         \/ handleInstruction \/ handleLd
  PROVE  Progress'
<1>1. TypeInv /\ pc = "pass1" /\ NoValues(data)
  BY DEF MeansInv, Progress, LabelLine, SectionDirective, setDirective, globDirective,
         endDirective, valuesDirective, literalDirective, zeroDirective, fillDirective,
         handleInstruction, handleLd, Reads
<1>2. ASSUME NEW a, NEW s, EndLine(a, s), data' = data PROVE Progress'
  <2>1. pc' \in {"pass1", "fatal", "crash"}
    BY <1>1, <1>2 DEF EndLine
  <2>. QED BY <1>1, <1>2, <2>1, LineAdds
<1>3. ASSUME NEW how \in {"fatal", "crash"}, Stop(how) PROVE Progress'
  BY <1>3 DEF Progress, Ready, Stop
<1>4. ASSUME NEW s, NEW new, NEW extra, AddInstrs(s, new, extra) PROVE Progress'
  BY <1>2, <1>4 DEF AddInstrs
<1>5. CASE LabelLine \/ SectionDirective \/ globDirective
  BY <1>2, <1>5 DEF LabelLine, SectionDirective, globDirective
<1>6. CASE endDirective
  <2>1. pc' = pc /\ data' = data
    BY <1>6 DEF endDirective
  <2>. QED BY <1>1, <2>1, LineAdds
<1>7. CASE setDirective
  BY <1>2, <1>3, <1>7 DEF setDirective
<1>8. CASE valuesDirective \/ literalDirective
  BY <1>1, <1>3, <1>8, ItemAdds DEF valuesDirective, literalDirective
<1>9. CASE zeroDirective
  <2>1. (\E how \in {"fatal", "crash"} : Stop(how)) \/ \E v : AddItem(v, 1, line.args, ~(v < 0))
    BY <1>9 DEF zeroDirective
  <2>. QED BY <1>1, <1>3, <2>1, ItemAdds
<1>10. CASE fillDirective
  <2>1. \/ \E how \in {"fatal", "crash"} : Stop(how)
        \/ \E v : AddItem(v, 1, [i \in 1 .. v |-> line.args[2]], FALSE)
    BY <1>10 DEF fillDirective
  <2>. QED BY <1>1, <1>3, <2>1, ItemAdds
<1>11. CASE handleInstruction
  <2>1. Stop("fatal") \/ \E s, new, extra : AddInstrs(s, new, extra)
    BY <1>11 DEF handleInstruction
  <2>. QED BY <1>3, <1>4, <2>1
<1>12. CASE handleLd
  <2>1. (\E how \in {"fatal", "crash"} : Stop(how)) \/ \E s, new, extra : AddInstrs(s, new, extra)
    BY <1>12 DEF handleLd
  <2>. QED BY <1>3, <1>4, <2>1
<1>. QED BY <1>5, <1>6, <1>7, <1>8, <1>9, <1>10, <1>11, <1>12

LEMMA MeansEndOfFile ==
  ASSUME MeansInv, EndOfFile
  PROVE  Progress'
<1>1. /\ pc = "pass1" /\ pc' \in {"resolve", "fatal"} /\ at' = 1 /\ data' = data
  BY DEF EndOfFile
<1>2. NoValues(data)
  BY <1>1 DEF MeansInv, Progress
<1>3. \A k \in 1 .. at' - 1 : ~symbs'[k].is.isExpr
  BY <1>1
<1>. QED BY <1>1, <1>2, <1>3 DEF Progress, Ready

LEMMA MeansReuse ==
  ASSUME MeansInv, Reuse
  PROVE  Progress'
<1>1. /\ pc \in {"pass1", "resolve"} /\ UNCHANGED << pc, at, data, instrs >>
  BY DEF Reuse
<1>2. PICK k \in DOMAIN symbs, text \in Garbage :
        symbs[k].is.isExpr /\ symbs' = [symbs EXCEPT ![k].is = Text(text)]
  BY DEF Reuse
<1>3. NoValues(data')
  BY <1>1 DEF MeansInv, Progress
<1>4. symbs \in SymbolTables /\ (pc = "resolve" => at \in 1 .. Len(symbs))
  BY DEF MeansInv, TypeInv, Types
<1>5. Len(symbs) \in Nat /\ DOMAIN symbs = 1 .. Len(symbs)
  BY <1>4, TableSteps
<1>6. ASSUME pc = "resolve", NEW j \in 1 .. at - 1
      PROVE  ~symbs'[j].is.isExpr
  <2>1. ~symbs[j].is.isExpr /\ j \in DOMAIN symbs
    BY <1>4, <1>5, <1>6 DEF MeansInv, Progress
  <2>2. symbs'[j] = symbs[j]
    BY <1>2, <2>1
  <2>. QED BY <2>1, <2>2
<1>. QED BY <1>1, <1>3, <1>6 DEF Progress, Ready

LEMMA MeansResolve ==
  ASSUME MeansInv, resolveSymbols
  PROVE  Progress'
<1>. DEFINE r == Eval(symbs[at].is.expr, Env(symbs))
            t == [symbs EXCEPT ![at].is = Holds(r.val)]
<1>1. pc = "resolve" /\ UNCHANGED << data, instrs >> /\ NoValues(data)
  BY DEF resolveSymbols, MeansInv, Progress
<1>2. \/ pc' \in {"crash", "fatal"}
      \/ ~symbs[at].is.isExpr /\ symbs' = symbs /\ Round(Len(symbs), "complete")
      \/ symbs' = t /\ Round(Len(symbs), "complete")
  BY DEF resolveSymbols
<1>3. symbs \in SymbolTables /\ at \in 1 .. Len(symbs)
  BY <1>1 DEF MeansInv, TypeInv, Types
<1>4. symbs \in Seq(Symbols) /\ Len(symbs) \in Nat /\ DOMAIN symbs = 1 .. Len(symbs)
  BY <1>3, TableSteps
<1>5. \A k \in 1 .. at - 1 : ~symbs[k].is.isExpr
  BY <1>1 DEF MeansInv, Progress
<1>6. /\ Len(t) = Len(symbs)
      /\ \A k \in 1 .. Len(symbs) : k # at => t[k] = symbs[k]
      /\ ~t[at].is.isExpr
  <2>. DEFINE m == Holds(r.val)
  <2>1. ~m.isExpr
    BY DEF Holds
  <2>. HIDE DEF m, r
  <2>2. symbs[at] \in Symbols
    BY <1>3, <1>4, ElementOfSeq
  <2>3. t = [symbs EXCEPT ![at] = [symbs[at] EXCEPT !.is = m]]
    BY DEF m
  <2>. DEFINE e == [symbs[at] EXCEPT !.is = m]
  <2>4. e.is = m
    BY <2>2 DEF Symbols
  <2>5. t = [symbs EXCEPT ![at] = e]
    BY <2>3
  <2>. HIDE DEF e, t
  <2>6. Len(t) = Len(symbs) /\ t[at] = e /\ \A k \in 1 .. Len(symbs) : k # at => t[k] = symbs[k]
    <3>1. DOMAIN t = 1 .. Len(symbs) /\ t[at] = e /\ \A k \in 1 .. Len(symbs) : k # at => t[k] = symbs[k]
      BY <1>3, <1>4, <2>5
    <3>2. t \in Seq(Symbols \cup {e})
      <4>1. symbs \in Seq(Symbols \cup {e})
        BY <1>4
      <4>. QED BY <1>3, <2>5, <4>1, ExceptSeq
    <3>3. DOMAIN t = 1 .. Len(t) /\ Len(t) \in Nat
      BY <3>2, LenProperties
    <3>. QED BY <1>4, <3>1, <3>3
  <2>. QED BY <2>1, <2>4, <2>6
<1>7. CASE pc' \in {"crash", "fatal"}
  BY <1>7 DEF Progress, Ready
<1>8. CASE (symbs' = t \/ (~symbs[at].is.isExpr /\ symbs' = symbs)) /\ Round(Len(symbs), "complete")
  <2>1. Len(symbs') = Len(symbs) /\ \A k \in 1 .. at : ~symbs'[k].is.isExpr
    <3>1. CASE symbs' = t
      <4>. HIDE DEF t
      <4>. QED BY <1>3, <1>4, <1>5, <1>6, <3>1
    <3>2. CASE ~symbs[at].is.isExpr /\ symbs' = symbs
      BY <1>3, <1>4, <1>5, <3>2
    <3>. QED BY <1>8, <3>1, <3>2
  <2>2. \/ pc' = "resolve" /\ at' = at + 1
        \/ pc' = "complete" /\ at' = 1 /\ at = Len(symbs)
    BY <1>1, <1>3, <1>4, <1>8 DEF Round
  <2>3. pc' = "resolve" => \A k \in 1 .. at' - 1 : ~symbs'[k].is.isExpr
    BY <1>3, <1>4, <2>1, <2>2
  <2>4. pc' \in Ready => Settled(symbs')
    BY <2>1, <2>2 DEF Ready, Settled
  <2>5. NoValues(data')
    BY <1>1
  <2>6. \A u \in Tables : \A k \in 1 .. Len(data'[u]) : RightValues(symbs', data'[u][k])
    BY <2>5 DEF NoValues, RightValues
  <2>. QED BY <2>2, <2>3, <2>4, <2>5, <2>6 DEF Progress, Ready
<1>. QED BY <1>2, <1>7, <1>8

(* What completeData fills in has been evaluated without an error. *)
LEMMA CompletedFine ==
  ASSUME completeData, data' # data
  PROVE  /\ Incomplete # {} /\ pc' = pc
         /\ data' = [data EXCEPT ![NextItem[1]][NextItem[2]] =
                       [data[NextItem[1]][NextItem[2]] EXCEPT !.done = TRUE, !.vals = Computed]]
         /\ \A j \in DOMAIN Results :
              /\ Results[j].ok /\ ~Results[j].trap
              /\ ~TooLarge(data[NextItem[1]][NextItem[2]].width, Results[j].val)
<1>. DEFINE item == data[NextItem[1]][NextItem[2]]
            bad == {j \in DOMAIN Results : \/ Results[j].trap \/ ~Results[j].ok
                                           \/ TooLarge(item.width, Results[j].val)}
            stop == IF Results[Min(bad)].trap THEN "crash" ELSE "fatal"
            Completed == data' = [data EXCEPT ![NextItem[1]][NextItem[2]] =
                                    [item EXCEPT !.done = TRUE, !.vals = Computed]]
<1>1. IF Incomplete = {} THEN pc' = "encode" /\ UNCHANGED data
      ELSE IF bad # {} THEN pc' = stop /\ UNCHANGED data
      ELSE \/ item.size < 0 /\ pc' = "crash" /\ UNCHANGED data
           \/ Completed /\ UNCHANGED pc
  BY DEF completeData, NextItem, Results, Computed
<1>2. bad = {} => \A j \in DOMAIN Results :
                    Results[j].ok /\ ~Results[j].trap /\ ~TooLarge(item.width, Results[j].val)
  OBVIOUS
<1>3. Completed => data' = [data EXCEPT ![NextItem[1]][NextItem[2]] =
                              [item EXCEPT !.done = TRUE, !.vals = Computed]]
  OBVIOUS
<1>. HIDE DEF bad, stop, Completed, item
<1>4. Incomplete # {} /\ bad = {} /\ Completed /\ pc' = pc
  BY ONLY <1>1, data' # data
<1>. QED BY <1>2, <1>3, <1>4 DEF item

(* The values of the item are kept of what the expressions mean. *)
LEMMA ComputedRight ==
  ASSUME MeansInv, pc = "complete", Incomplete # {},
         \A j \in DOMAIN Results :
           /\ Results[j].ok /\ ~Results[j].trap
           /\ ~TooLarge(data[NextItem[1]][NextItem[2]].width, Results[j].val)
  PROVE  LET item == data[NextItem[1]][NextItem[2]]
             new == [item EXCEPT !.done = TRUE, !.vals = Computed] IN
         /\ NextItem[1] \in Tables /\ NextItem[2] \in 1 .. Len(data[NextItem[1]])
         /\ RightValues(symbs, new)
<1>. DEFINE p == NextItem
            item == data[p[1]][p[2]]
            vals == Computed
            new == [item EXCEPT !.done = TRUE, !.vals = vals]
<1>1. /\ symbs \in SymbolTables /\ data \in [Tables -> Seq(Items)]
      /\ Settled(symbs)
  BY DEF MeansInv, TypeInv, Types, Progress, Ready
<1>2. p \in Incomplete
  <2>. HIDE DEF Incomplete
  <2>. QED BY FirstIncomplete DEF NextItem
<1>. HIDE DEF p
<1>3. p[1] \in Tables /\ p[2] \in DOMAIN data[p[1]]
  BY <1>2 DEF Incomplete, Tables
<1>4. data[p[1]] \in Seq(Items) /\ p[2] \in 1 .. Len(data[p[1]])
  BY <1>1, <1>3, LenProperties
<1>5. item \in Items
  BY <1>4, ElementOfSeq
<1>6. /\ DOMAIN Results = DOMAIN item.args
      /\ \A j \in DOMAIN item.args : Results[j] = Eval(item.args[j], Env(symbs))
  BY DEF Results, p
<1>7. vals = [j \in DOMAIN item.args |-> LowBytes(item.width, Results[j].val)]
  BY <1>6 DEF Computed, p
<1>13. \A j \in DOMAIN Results :
        Results[j].ok /\ ~Results[j].trap /\ ~TooLarge(item.width, Results[j].val)
  BY DEF p
<1>. HIDE DEF item, vals
<1>8. new.args = item.args /\ new.vals = vals /\ new.width = item.width
  BY <1>5 DEF Items
<1>9. item.args \in Seq(Expr)
  BY <1>5 DEF Items
<1>10. \A j \in DOMAIN item.args : item.args[j] \in Expr
  BY <1>9
<1>11. ASSUME NEW j \in DOMAIN vals
       PROVE  \E v \in Word : /\ RightValue(symbs, item.args[j], v)
                              /\ ~TooLarge(item.width, v)
                              /\ vals[j] = LowBytes(item.width, v)
  <2>. DEFINE e == item.args[j]
              r == Eval(e, Env(symbs))
  <2>1. j \in DOMAIN item.args /\ vals[j] = LowBytes(item.width, r.val)
    BY <1>6, <1>7
  <2>2. e \in Expr /\ r.ok /\ ~r.trap /\ ~TooLarge(item.width, r.val)
    BY <1>6, <1>10, <1>13, <2>1
  <2>3. RightValue(symbs, e, r.val)
    <3>. HIDE DEF e
    <3>. QED BY <1>1, <2>2, EvalMeans
  <2>4. r.val \in Word
    <3>. HIDE DEF e
    <3>. QED BY <1>1, <2>2, EvalInTable
  <2>. HIDE DEF r
  <2>. QED BY <2>1, <2>2, <2>3, <2>4 DEF e
<1>. HIDE DEF new
<1>12. RightValues(symbs, new)
  BY <1>8, <1>11 DEF RightValues
<1>. QED BY <1>3, <1>4, <1>12 DEF p, item, vals, new

LEMMA MeansComplete ==
  ASSUME MeansInv, completeData
  PROVE  Progress'
<1>1. /\ pc = "complete" /\ pc' \in {"complete", "encode", "fatal", "crash"}
      /\ UNCHANGED << at, symbs, instrs >>
  BY CompleteEffect
<1>2. /\ Settled(symbs) /\ at = 1 /\ data \in [Tables -> Seq(Items)]
      /\ \A t \in Tables : \A k \in 1 .. Len(data[t]) : RightValues(symbs, data[t][k])
  BY <1>1 DEF MeansInv, TypeInv, Types, Progress, Ready
<1>3. ASSUME NEW t \in Tables, NEW k \in 1 .. Len(data'[t])
      PROVE  RightValues(symbs, data'[t][k])
  <2>1. CASE data' = data
    BY <1>2, <2>1
  <2>2. CASE data' # data
    <3>. DEFINE p == NextItem[1]
                q == NextItem[2]
                new == [data[p][q] EXCEPT !.done = TRUE, !.vals = Computed]
    <3>1. /\ Incomplete # {} /\ data' = [data EXCEPT ![p][q] = new]
          /\ \A j \in DOMAIN Results :
               /\ Results[j].ok /\ ~Results[j].trap
               /\ ~TooLarge(data[p][q].width, Results[j].val)
      BY <2>2, CompletedFine
    <3>2. p \in Tables /\ q \in 1 .. Len(data[p]) /\ RightValues(symbs, new)
      BY <1>1, <3>1, ComputedRight
    <3>. HIDE DEF p, q, new
    <3>3. data'[t] = IF t = p THEN [data[p] EXCEPT ![q] = new] ELSE data[t]
      BY <1>2, <3>1
    <3>4. CASE t # p
      BY <1>2, <3>3, <3>4
    <3>5. CASE t = p
      <4>1. data[p] \in Seq(Items \cup {new})
        <5>1. data[p] \in Seq(Items)
          BY <1>2, <3>2
        <5>. QED BY <5>1
      <4>2. /\ Len(data'[t]) = Len(data[t])
            /\ \A i \in 1 .. Len(data[t]) : data'[t][i] = IF i = q THEN new ELSE data[t][i]
        BY <3>2, <3>3, <3>5, <4>1, ExceptSeq
      <4>. QED BY <1>2, <3>2, <3>5, <4>2
    <3>. QED BY <3>4, <3>5
  <2>. QED BY <2>1, <2>2
<1>4. pc' = "encode" => \A i \in 1 .. Len(instrs') : i < at' => RightField(symbs', instrs'[i])
  BY <1>1, <1>2
<1>5. \A t \in Tables : \A k \in 1 .. Len(data'[t]) : RightValues(symbs', data'[t][k])
  BY <1>1, <1>3
<1>6. Settled(symbs')
  BY <1>1, <1>2
<1>. QED BY <1>1, <1>2, <1>4, <1>5, <1>6 DEF Progress, Ready

-----------------------------------------------------------------------------
(* Encoding. *)

(* An instruction that is encoded has the field of what its operand means. *)
LEMMA FieldRight ==
  ASSUME TypeInv, Settled(symbs), NEW x \in Instrs,
         Eval(x.expr, Env(symbs)).ok, ~Eval(x.expr, Env(symbs)).trap,
         Accepts(x.kind, Eval(x.expr, Env(symbs)).val, x.addr)
  PROVE  RightField(symbs, [x EXCEPT !.field = Field(x.kind, Eval(x.expr, Env(symbs)).val, x.addr)])
<1>. DEFINE w == Eval(x.expr, Env(symbs)).val
            y == [x EXCEPT !.field = Field(x.kind, w, x.addr)]
<1>1. symbs \in SymbolTables /\ x.expr \in Expr
  BY DEF TypeInv, Types, Instrs
<1>2. w \in Word /\ RightValue(symbs, x.expr, w)
  BY <1>1, EvalInTable, EvalMeans
<1>3. Accepts(x.kind, w, x.addr)
  OBVIOUS
<1>. HIDE DEF w
<1>4. /\ y.kind = x.kind /\ y.addr = x.addr /\ y.expr = x.expr
      /\ y.field = Field(x.kind, w, x.addr)
  BY DEF Instrs
<1>. HIDE DEF y
<1>5. RightField(symbs, y)
  BY <1>2, <1>3, <1>4 DEF RightField, RightValue
<1>. QED BY <1>5 DEF y, w

(* The first instruction of a decomposed ld. *)
LEMMA HighRight ==
  ASSUME symbs \in SymbolTables, NEW x \in Instrs, NEW v \in Word
  PROVE  RightField(symbs, [x EXCEPT !.kind = "I", !.expr = << INT(High(v)) >>, !.field = High(v)])
<1>. DEFINE h == High(v)
            e == << INT(h) >>
            y == [x EXCEPT !.kind = "I", !.expr = e, !.field = h]
<1>1. h \in Word
  <2>1. h \in 0 .. Half - 1
    BY Shares
  <2>. HIDE DEF h
  <2>. QED BY <2>1, Words
<1>2. h % Pow2[ImmBits] = h
  <2>1. ImmBits \in Nat /\ LowBits \in Nat
    BY FieldsAssumption
  <2>2. Pow2[ImmBits] \in Nat \ {0}
    BY <2>1, Pow2Type
  <2>3. ImmBits + LowBits \in Nat
    BY <2>1
  <2>4. Pow2[ImmBits + LowBits] \in Nat \ {0} /\ v \in Int
    BY <2>3, Pow2Type, Words
  <2>5. v \div Pow2[ImmBits + LowBits] \in Int
    BY <2>4
  <2>. DEFINE b == Pow2[ImmBits]
              q == v \div Pow2[ImmBits + LowBits]
  <2>6. b \in Nat \ {0} /\ q \in Int /\ h = q % b
    BY <2>2, <2>5 DEF High
  <2>. HIDE DEF b, q, h
  <2>7. h \in 0 .. b - 1
    BY <2>6
  <2>8. h % b = h
    BY <2>6, <2>7, SmallMod
  <2>. QED BY <2>8 DEF b
<1>3. MeaningIn(symbs, e) = {h}
  BY <1>1, NumberMeans
<1>4. y.kind = "I" /\ y.expr = e /\ y.field = h
  BY DEF Instrs
<1>. HIDE DEF h, e, y
<1>5. \A a : Field("I", h, a) = h
  BY <1>2 DEF Field, Bits
<1>6. RightField(symbs, y)
  BY <1>1, <1>3, <1>4, <1>5 DEF RightField
<1>. QED BY <1>6 DEF y, e, h

(* It is changed, and behind it only operands are. *)
LEMMA SpecialChanges ==
  ASSUME instrs \in Streams, at \in 1 .. Len(instrs), NEW v \in Word
  PROVE  /\ Len(Special(v)) = Len(instrs)
         /\ \A j \in 1 .. Len(instrs) : j < at => Special(v)[j] = instrs[j]
         /\ Special(v)[at] = [instrs[at] EXCEPT !.kind = "I", !.expr = << INT(High(v)) >>, !.field = High(v)]
<1>. DEFINE h == High(v)
            x1 == << INT(High(v)) >>
            x2 == << INT(Mid(v)) >>
            x3 == << INT(Low(v)) >>
            e1 == [instrs[at] EXCEPT !.kind = "I", !.expr = x1, !.field = h]
            q1 == [instrs EXCEPT ![at] = e1]
            q2 == [q1 EXCEPT ![at + 2].expr = x2]
            q3 == [q2 EXCEPT ![at + 5].expr = x3]
<1>1. instrs \in Seq(Instrs) /\ Len(instrs) \in Nat /\ DOMAIN instrs = 1 .. Len(instrs) /\ instrs[at] \in Instrs
  BY StreamSteps
<1>2. Special(v) = q3
  <2>. HIDE DEF x1, x2, x3, h
  <2>1. q1 = [instrs EXCEPT ![at].kind = "I", ![at].expr = x1, ![at].field = h]
    BY <1>1 DEF Instrs
  <2>. HIDE DEF q1
  <2>. QED BY <2>1 DEF Special, x1, x2, x3, h
<1>. HIDE DEF x1, x2, x3, h, e1
<1>3. /\ DOMAIN q3 = 1 .. Len(instrs)
      /\ \A j \in 1 .. Len(instrs) : j # at + 2 /\ j # at + 5 => q3[j] = IF j = at THEN e1 ELSE instrs[j]
  BY <1>1
<1>4. q3 = [j \in 1 .. Len(instrs) |-> q3[j]]
  BY <1>1
<1>. HIDE DEF q3
<1>5. Len(q3) = Len(instrs)
  <2>1. q3 \in Seq({q3[j] : j \in 1 .. Len(instrs)})
    BY <1>1, <1>4
  <2>. QED BY <1>1, <1>3, <2>1, LenProperties
<1>6. /\ \A j \in 1 .. Len(instrs) : j < at => q3[j] = instrs[j]
      /\ q3[at] = e1
  BY <1>1, <1>3
<1>. QED BY <1>2, <1>5, <1>6 DEF e1, x1, h

LEMMA MeansEncode ==
  ASSUME MeansInv, encode
  PROVE  Progress'
<1>. DEFINE x == instrs[at]
            r == Eval(x.expr, Env(symbs))
            y == [x EXCEPT !.field = Field(x.kind, r.val, x.addr)]
<1>1. /\ TypeInv /\ symbs \in SymbolTables /\ instrs \in Streams /\ at \in Nat \ {0}
      /\ pc = "encode" /\ Settled(symbs) /\ UNCHANGED << symbs, data >>
      /\ \A t \in Tables : \A k \in 1 .. Len(data[t]) : RightValues(symbs, data[t][k])
      /\ \A i \in 1 .. Len(instrs) : i < at => RightField(symbs, instrs[i])
  BY DEF MeansInv, TypeInv, Types, VectorInv, Inv, Shape, Progress, Ready, encode
<1>2. instrs \in Seq(Instrs) /\ Len(instrs) \in Nat
  BY <1>1, StreamSteps
<1>3. ASSUME at > Len(instrs)
      PROVE  pc' = "generate" /\ instrs' = instrs
  BY <1>3 DEF encode
<1>4. ASSUME ~(at > Len(instrs)), pc' \notin {"crash", "fatal"}
      PROVE  /\ pc' = pc /\ at' = at + 1
             /\ \/ (x.addr = 0 \/ x.kind = "plain") /\ instrs' = instrs
                \/ r.ok /\ ~r.trap /\ x.kind = "special" /\ instrs' = Special(r.val)
                \/ /\ r.ok /\ ~r.trap /\ Accepts(x.kind, r.val, x.addr)
                   /\ instrs' = [instrs EXCEPT ![at].field = Field(x.kind, r.val, x.addr)]
  BY <1>4, Zenon DEF encode
<1>5. ASSUME ~(at > Len(instrs)), pc' \notin {"crash", "fatal"}
      PROVE  /\ Len(instrs') = Len(instrs)
             /\ \A j \in 1 .. Len(instrs) : j < at => instrs'[j] = instrs[j]
             /\ RightField(symbs, instrs'[at])
  <2>1. at \in 1 .. Len(instrs)
    BY <1>1, <1>2, <1>5
  <2>2. x \in Instrs
    BY <1>1, <2>1, StreamSteps
  <2>3. CASE (x.addr = 0 \/ x.kind = "plain") /\ instrs' = instrs
    <3>1. "plain" \notin Kinds
      BY DEF Kinds
    <3>2. RightField(symbs, x)
      <4>. HIDE DEF x
      <4>. QED BY <2>3, <3>1 DEF RightField
    <3>. QED BY <2>3, <3>2
  <2>4. CASE r.ok /\ ~r.trap /\ x.kind = "special" /\ instrs' = Special(r.val)
    <3>1. r.val \in Word
      <4>1. x.expr \in Expr
        BY <2>2 DEF Instrs
      <4>. QED BY <1>1, <4>1, EvalInTable
    <3>. DEFINE v == r.val
    <3>2. v \in Word /\ instrs' = Special(v)
      BY <2>4, <3>1
    <3>. HIDE DEF v
    <3>3. /\ Len(Special(v)) = Len(instrs)
          /\ \A j \in 1 .. Len(instrs) : j < at => Special(v)[j] = instrs[j]
          /\ Special(v)[at] = [x EXCEPT !.kind = "I", !.expr = << INT(High(v)) >>, !.field = High(v)]
      BY <1>1, <2>1, <3>2, SpecialChanges
    <3>4. RightField(symbs, Special(v)[at])
      BY <1>1, <2>2, <3>2, <3>3, HighRight
    <3>. QED BY <3>2, <3>3, <3>4
  <2>5. CASE /\ r.ok /\ ~r.trap /\ Accepts(x.kind, r.val, x.addr)
             /\ instrs' = [instrs EXCEPT ![at].field = Field(x.kind, r.val, x.addr)]
    <3>1. RightField(symbs, y)
      BY <1>1, <2>2, <2>5, FieldRight
    <3>2. instrs' = [instrs EXCEPT ![at] = y]
      BY <2>5
    <3>. HIDE DEF y
    <3>3. instrs \in Seq(Instrs \cup {y})
      BY <1>2
    <3>4. Len(instrs') = Len(instrs) /\ \A j \in 1 .. Len(instrs) : instrs'[j] = IF j = at THEN y ELSE instrs[j]
      BY <2>1, <3>2, <3>3, ExceptSeq
    <3>. QED BY <1>2, <2>1, <3>1, <3>4
  <2>. HIDE DEF x, r, y
  <2>. QED BY <1>4, <1>5, <2>3, <2>4, <2>5
<1>. HIDE DEF x, r, y
<1>6. CASE at > Len(instrs)
  <2>1. \A i \in 1 .. Len(instrs') : RightField(symbs', instrs'[i])
    BY <1>1, <1>2, <1>3, <1>6
  <2>. QED BY <1>1, <1>3, <1>6, <2>1 DEF Progress, Ready
<1>7. CASE ~(at > Len(instrs)) /\ pc' \notin {"crash", "fatal"}
  <2>1. \A i \in 1 .. Len(instrs') : i < at' => RightField(symbs', instrs'[i])
    BY <1>1, <1>2, <1>4, <1>5, <1>7
  <2>2. pc' = "encode"
    BY <1>1, <1>4, <1>7
  <2>. QED BY <1>1, <2>1, <2>2 DEF Progress, Ready
<1>8. CASE pc' \in {"crash", "fatal"}
  BY <1>8 DEF Progress, Ready
<1>. QED BY <1>6, <1>7, <1>8

LEMMA MeansNext == MeansInv /\ [Next]_vars => MeansInv'
<1>. SUFFICES ASSUME MeansInv, [Next]_vars PROVE Progress'
  BY TypesNext DEF MeansInv
<1>1. CASE Generate
  <2>1. pc = "generate" /\ pc' \in {"crash", "written"} /\ UNCHANGED << symbs, data, instrs >>
    BY <1>1 DEF Generate, tables
  <2>. QED BY <2>1 DEF MeansInv, Progress, Ready
<1>2. CASE UNCHANGED vars
  BY <1>2 DEF MeansInv, Progress, vars, tables, Ready
<1>. QED
  BY <1>1, <1>2, MeansLines, MeansEndOfFile, MeansReuse, MeansResolve, MeansComplete,
     MeansEncode DEF Next, Exited

(* By the denotation of the properties. *)
LEMMA DenotationIs == \A e : Denotation(e, 0) = MeaningIn(symbs, e)
  BY DEF Denotation, Values, ValueAt, MeaningIn, ValuesIn

(* Keeping the lower bytes keeps a value if no bit is behind them. *)
LEMMA LowBytesAre ==
  ASSUME NEW w \in {1, 2, 4}, NEW v \in Word
  PROVE  LET bits == ByteBits * w IN
         /\ LowBytes(w, v) = v <=> \A b \in bits .. WordBits - 1 : Bit(v, b) = 0
         /\ bits < WordBits => LowBytes(w, v) = v % Pow2[bits]
         /\ bits < WordBits /\ ~TooLarge(w, v) =>
              \A b \in bits .. bits + ByteBits - 1 : Bit(v, b) = 0
<1>. DEFINE n == ByteBits * w
<1>1. /\ ByteBits \in Nat /\ WordBits = 4 * ByteBits /\ WordBits \in Nat /\ WordBits >= 4
  BY ByteBitsAssumption, WordBitsAssumption
<1>2. CASE w = 4
  <2>1. n = WordBits /\ LowBytes(w, v) = v
    BY <1>1, <1>2 DEF LowBytes
  <2>2. n .. WordBits - 1 = {}
    BY <1>1, <2>1
  <2>. QED BY <1>1, <2>1, <2>2
<1>3. CASE w # 4
  <2>1. n \in 0 .. WordBits - 1 /\ n \in Nat /\ n + ByteBits - 1 = ByteBits * (w + 1) - 1 /\ w < 4
    <3>1. w = 1 \/ w = 2
      BY <1>3
    <3>. QED BY <1>1, <3>1
  <2>2. LowBytes(w, v) = v % Pow2[n]
    BY <1>3, <2>1 DEF LowBytes
  <2>3. ~TooLarge(w, v) => \A b \in n .. n + ByteBits - 1 : Bit(v, b) = 0
    <3>1. ASSUME ~TooLarge(w, v), NEW b \in n .. n + ByteBits - 1
          PROVE  Bit(v, b) = 0
      <4>1. Bit(v, b) # 1
        BY <2>1, <3>1 DEF TooLarge
      <4>2. b \in Nat /\ v \in Int
        BY <1>1, <2>1, Words
      <4>3. Pow2[b] \in Nat \ {0}
        BY <4>2, Pow2Type
      <4>4. v \div Pow2[b] \in Int
        BY <4>2, <4>3
      <4>5. Bit(v, b) \in {0, 1}
        BY <4>4 DEF Bit
      <4>. QED BY <4>1, <4>5
    <3>. QED BY <3>1
  <2>. HIDE DEF n
  <2>4. Pow2[n] \in Nat \ {0} /\ v \in Int
    BY <2>1, Pow2Type, Words
  <2>5. v % Pow2[n] = v <=> v \in 0 .. Pow2[n] - 1
    <3>1. v % Pow2[n] \in 0 .. Pow2[n] - 1
      BY <2>4
    <3>2. v \in 0 .. Pow2[n] - 1 => v % Pow2[n] = v
      BY <2>4, SmallMod
    <3>. QED BY <3>1, <3>2
  <2>6. (\A b \in n .. WordBits - 1 : Bit(v, b) = 0) <=> v \in 0 .. Pow2[n] - 1
    BY <2>1, UpperBits
  <2>. QED BY <2>2, <2>3, <2>5, <2>6 DEF n
<1>. QED BY <1>2, <1>3

(* Every value of .byte, .hword, .word and .fill in the file is what its   *)
(* expression means by the grammar if no bit lies behind the bytes that    *)
(* are kept, and its lower bytes otherwise; the byte just behind is zero.  *)
THEOREM DataIsMeant == Spec => []DataMean
<1>1. MeansInv => DataMean
  <2>. SUFFICES ASSUME MeansInv, pc = "written",
                       NEW s \in {DATA, CONST, EVT}, NEW k \in DOMAIN data[s],
                       NEW j \in DOMAIN data[s][k].vals,
                       ~Uses(data[s][k].args[j], LP),
                       NEW v \in Denotation(data[s][k].args[j], 0)
                PROVE  LET stored == data[s][k].vals[j]
                           bits == ByteBits * data[s][k].width IN
                       /\ stored = v <=> \A b \in bits .. WordBits - 1 : Bit(v, b) = 0
                       /\ bits < WordBits =>
                            /\ stored = v % Pow2[bits]
                            /\ \A b \in bits .. bits + ByteBits - 1 : Bit(v, b) = 0
    BY DEF DataMean
  <2>1. s \in Tables /\ data[s] \in Seq(Items)
    BY SectionNumbers DEF MeansInv, TypeInv, Types
  <2>2. k \in 1 .. Len(data[s])
    BY <2>1
  <2>3. RightValues(symbs, data[s][k])
    BY <2>1, <2>2 DEF MeansInv, Progress, Ready
  <2>. DEFINE item == data[s][k]
  <2>4. item \in Items
    BY <2>1, <2>2, ElementOfSeq
  <2>5. item.width \in {1, 2, 4}
    BY <2>4 DEF Items
  <2>6. PICK u \in Word : /\ RightValue(symbs, item.args[j], u) /\ ~TooLarge(item.width, u)
                          /\ item.vals[j] = LowBytes(item.width, u)
    BY <2>3 DEF RightValues
  <2>7. v = u
    BY <2>6, DenotationIs DEF RightValue
  <2>. HIDE DEF item
  <2>8. LET bits == ByteBits * item.width IN
        /\ item.vals[j] = u <=> \A b \in bits .. WordBits - 1 : Bit(u, b) = 0
        /\ bits < WordBits => /\ item.vals[j] = u % Pow2[bits]
                             /\ \A b \in bits .. bits + ByteBits - 1 : Bit(u, b) = 0
    BY <2>5, <2>6, LowBytesAre
  <2>. QED BY <2>7, <2>8 DEF item
<1>. QED BY MeansInit, MeansNext, <1>1, PTL DEF Spec

(* What the core decodes from a field is what the operand means by the     *)
(* grammar, and for which operands it is not.                              *)
THEOREM OperandsAreDecoded == Spec => []OperandsDecoded
<1>1. MeansInv => OperandsDecoded
  <2>. SUFFICES ASSUME MeansInv, pc = "written", NEW i \in DOMAIN instrs,
                       instrs[i].kind \in Kinds, instrs[i].addr # 0, instrs[i].addr % 4 = 0,
                       ~Uses(instrs[i].expr, LP), NEW v \in Denotation(instrs[i].expr, 0)
                PROVE  LET x == instrs[i]
                           reads == Decoded(x.kind, x.field, x.addr) IN
                       CASE x.kind = "M"  -> reads = v /\ v >= 0
                         [] x.kind = "I"  -> reads = v <=> \A b \in ImmBits .. WordBits - 1 : Bit(v, b) = 0
                         [] x.kind = "Bc" -> reads = v <=> BranchOffset(v, x.addr) >= 0
                         [] x.kind = "Bi" -> reads = v <=> InRange(BranchOffset(v, x.addr), KeptBits)
    BY Zenon DEF OperandsDecoded
  <2>. DEFINE x == instrs[i]
  <2>1. i \in 1 .. Len(instrs) /\ x \in Instrs
    BY StreamSteps DEF MeansInv, TypeInv, Types
  <2>2. RightField(symbs, x)
    BY <2>1 DEF MeansInv, Progress
  <2>3. x.kind \in Kinds /\ x.addr # 0 /\ x.addr % 4 = 0 /\ ~Uses(x.expr, LP) /\ x.addr \in Int
    BY <2>1 DEF Instrs
  <2>4. v \in MeaningIn(symbs, x.expr)
    BY DenotationIs
  <2>. HIDE DEF x
  <2>5. v \in Word /\ x.field = Field(x.kind, v, x.addr) /\ (x.kind = "I" \/ Accepts(x.kind, v, x.addr))
    BY <2>2, <2>3, <2>4 DEF RightField
  <2>6. CASE x.kind = "M"
    <3>1. Decoded("M", Field("M", v, x.addr), x.addr) = v /\ v >= 0
      BY <2>5, <2>6, OffsetDecoded
    <3>. QED BY <2>5, <2>6, <3>1 DEF x
  <2>7. CASE x.kind = "I"
    <3>1. Decoded("I", Field("I", v, x.addr), x.addr) = v <=> \A b \in ImmBits .. WordBits - 1 : Bit(v, b) = 0
      BY <2>5, ImmediateDecoded
    <3>. QED BY <2>5, <2>7, <3>1 DEF x
  <2>8. CASE x.kind = "Bc"
    <3>1. Decoded("Bc", Field("Bc", v, x.addr), x.addr) = v <=> BranchOffset(v, x.addr) >= 0
      BY <2>3, <2>5, <2>8, ConditionalDecoded
    <3>. QED BY <2>5, <2>8, <3>1 DEF x
  <2>9. CASE x.kind = "Bi"
    <3>1. Decoded("Bi", Field("Bi", v, x.addr), x.addr) = v <=> InRange(BranchOffset(v, x.addr), KeptBits)
      BY <2>3, <2>5, <2>9, JumpDecoded
    <3>. QED BY <2>5, <2>9, <3>1 DEF x
  <2>. QED BY <2>3, <2>6, <2>7, <2>8, <2>9 DEF Kinds
<1>. QED BY MeansInit, MeansNext, <1>1, PTL DEF Spec
===============================================================================
