---------------------------- MODULE SymbolProofs ----------------------------
(***************************************************************************)
(* Theorems about module Assembler: which names the object file has, which *)
(* values they have there, and what can end the process before it is       *)
(* written.                                                                *)
(***************************************************************************)
EXTENDS PlacementProofs

-----------------------------------------------------------------------------
(* The symbol table and what the source has said.                          *)

Known(s) == {s[k].name : k \in 1 .. Len(s)}

(* The account of each name: where it is defined, the section of its last  *)
(* definition, where a .set or a .glob names it, which of these lines are  *)
(* in the vector, which .set mentions its own name.  Labels count in front *)
(* of line l, directives in front of line m.                               *)
Globs(n) == {j \in Source : At(j).op = "glob" /\ At(j).name = n}
InFront(T, i) == {j \in T : j < i}
Account(n, defs, sets, globs) ==
  [defs |-> defs, sets |-> sets, globs |-> globs,
   section |-> IF defs = {} THEN DATA ELSE SectionAt(Max(defs)),
   far |-> {j \in defs \cup globs : SectionAt(j) >= EVT},
   self |-> {j \in Sets(n) : n \in NamesIn(At(j).args[1])}]
Said(l, m) ==
  [n \in Names |-> Account(n, InFront(Labels(n), l) \cup InFront(Sets(n), m), InFront(Sets(n), m),
                           InFront(Globs(n), m))]

(* An entry agrees with the account w of its name.                         *)
Tells(e, w) ==
  /\ e.glob <=> w.globs # {}
  /\ e.type = 1 <=> w.sets # {}
  /\ w.defs # {} => e.sect = w.section \/ (w.section < EVT /\ e.sect = w.section + EVT)
  /\ e.sect >= EVT => w.far # {}
Entered(s, said, k) ==
  LET w == said[s[k].name] IN
  /\ s[k].name \in Names
  /\ s[k].is.def \/ s[k].is.isExpr => w.defs # {}
  /\ w.self = {} => Tells(s[k], w) /\ \A i \in 1 .. k - 1 : s[i].name # s[k].name
Linked(s, said) ==
  /\ \A n \in Names : said[n].defs \cup said[n].sets \cup said[n].globs # {} => n \in Known(s)
  /\ \A k \in 1 .. Len(s) : s[k].is.isExpr => Looks(s[k].is.expr) \subseteq Known(s)
  /\ \A k \in 2 .. Len(s) : Entered(s, said, k)

(* The accounts differ for one name at most, which stays defined.          *)
Update(said, new, n) ==
  /\ \A m \in Names : m # n => new[m] = said[m]
  /\ n \in Names => /\ new[n].self = said[n].self
                    /\ said[n].defs # {} => new[n].defs # {}

(* An entry changes. *)
LEMMA EntryChanged ==
  ASSUME NEW s \in SymbolTables, NEW k \in 1 .. Len(s), NEW e \in Symbols, e.name = s[k].name,
         NEW said, NEW new, Linked(s, said), Update(said, new, e.name),
         e.is.isExpr => Looks(e.is.expr) \subseteq Known(s),
         k # 1 /\ (e.is.def \/ e.is.isExpr) => new[e.name].defs # {},
         k # 1 /\ new[e.name].self = {} => Tells(e, new[e.name])
  PROVE  /\ [s EXCEPT ![k] = e] \in SymbolTables /\ Known([s EXCEPT ![k] = e]) = Known(s)
         /\ Linked([s EXCEPT ![k] = e], new)
<1> DEFINE t == [s EXCEPT ![k] = e]
<1>1. t \in SymbolTables /\ s \in Seq(Symbols) /\ Len(s) \in Nat \ {0} /\ s[1].name = LP
  BY TableSteps DEF SymbolTables
<1>2. /\ Len(t) = Len(s) /\ t[k] = e /\ \A i \in 1 .. Len(s) : i # k => t[i] = s[i]
  BY <1>1
<1>3. \A i \in 1 .. Len(s) : t[i].name = s[i].name
  BY <1>2
<1> HIDE DEF t
<1>4. Known(t) = Known(s)
  BY <1>2, <1>3 DEF Known
<1>5. ASSUME NEW n \in Names, new[n].defs \cup new[n].sets \cup new[n].globs # {} PROVE n \in Known(t)
  <2>1. CASE n = e.name
    BY <1>4, <2>1 DEF Known
  <2>2. CASE n # e.name
    BY <1>4, <1>5, <2>2 DEF Linked, Update
  <2> QED BY <2>1, <2>2
<1>6. ASSUME NEW i \in 1 .. Len(t), t[i].is.isExpr PROVE Looks(t[i].is.expr) \subseteq Known(t)
  <2>1. CASE i = k
    BY <1>2, <1>4, <1>6, <2>1
  <2>2. CASE i # k
    BY <1>2, <1>4, <1>6, <2>2 DEF Linked
  <2> QED BY <2>1, <2>2
<1>7. ASSUME NEW i \in 2 .. Len(t) PROVE Entered(t, new, i)
  <2>1. /\ i \in 2 .. Len(s) /\ i \in 1 .. Len(s) /\ Entered(s, said, i)
        /\ \A j \in 1 .. i - 1 : j \in 1 .. Len(s)
    BY <1>1, <1>2, <1>7 DEF Linked
  <2> DEFINE n == t[i].name
  <2>2. n = s[i].name /\ n \in Names
    BY <1>3, <2>1 DEF Entered
  <2>3. (\A j \in 1 .. i - 1 : s[j].name # s[i].name) <=> \A j \in 1 .. i - 1 : t[j].name # n
    BY <1>3, <2>1, <2>2
  <2>4. new[n].self = said[n].self
    BY <2>2 DEF Update
  <2>5. CASE i = k
    <3>1. t[i] = e /\ n = e.name /\ k # 1
      BY <1>2, <2>1, <2>5
    <3> HIDE DEF n
    <3>2. e.is.def \/ e.is.isExpr => new[n].defs # {}
      BY <3>1
    <3>3. new[n].self = {} => Tells(e, new[n])
      BY <3>1
    <3>4. new[n].self = {} => \A j \in 1 .. i - 1 : t[j].name # n
      BY <2>1, <2>2, <2>3, <2>4 DEF Entered
    <3> QED BY <2>2, <3>1, <3>2, <3>3, <3>4 DEF Entered
  <2>6. CASE i # k /\ n # e.name
    <3>1. new[n] = said[n] /\ t[i] = s[i]
      BY <1>2, <2>1, <2>2, <2>6 DEF Update
    <3> HIDE DEF n
    <3>2. /\ t[i].is.def \/ t[i].is.isExpr => new[n].defs # {}
          /\ new[n].self = {} => Tells(t[i], new[n])
      BY <2>1, <2>2, <3>1 DEF Entered
    <3>3. new[n].self = {} => \A j \in 1 .. i - 1 : t[j].name # n
      BY <2>1, <2>2, <2>3, <2>4 DEF Entered
    <3>4. t[i].name = n
      BY <2>2, <1>3, <2>1
    <3> QED BY <2>2, <3>2, <3>3, <3>4 DEF Entered
  <2>7. CASE i # k /\ n = e.name
    <3>1. t[i] = s[i] /\ t[i].name = n
      BY <1>2, <2>1, <2>7
    <3>2. k # 1
      BY <1>1, <2>2, <2>7, NamesAssumption
    <3>3. k \in 2 .. Len(s) /\ Entered(s, said, k)
      BY <1>1, <3>2 DEF Linked
    <3> HIDE DEF n
    <3>4. said[n].self # {}
      <4>1. CASE i < k
        <5>1. i \in 1 .. k - 1 /\ s[i].name = s[k].name
          BY <2>1, <2>2, <2>7, <4>1
        <5> QED BY <2>2, <2>7, <3>3, <5>1 DEF Entered
      <4>2. CASE k < i
        <5>1. k \in 1 .. i - 1 /\ s[k].name = s[i].name
          BY <2>1, <2>2, <2>7, <4>2
        <5> QED BY <2>1, <2>2, <2>7, <5>1 DEF Entered
      <4> QED BY <2>1, <2>7, <4>1, <4>2
    <3>5. t[i].is.def \/ t[i].is.isExpr => new[n].defs # {}
      <4>1. t[i].is.def \/ t[i].is.isExpr => said[n].defs # {}
        BY <2>1, <2>2, <3>1 DEF Entered
      <4> QED BY <2>2, <2>7, <4>1 DEF Update
    <3> QED BY <2>2, <2>4, <3>1, <3>4, <3>5 DEF Entered
  <2> QED BY <2>5, <2>6, <2>7
<1>8. Linked(t, new)
  BY <1>5, <1>6, <1>7 DEF Linked
<1> QED BY <1>1, <1>4, <1>8 DEF t

(* An entry is added. *)
LEMMA EntryAdded ==
  ASSUME NEW s \in SymbolTables, NEW e \in Symbols, e.name \in Names,
         NEW said, NEW new, Linked(s, said), Update(said, new, e.name),
         e.is.isExpr => Looks(e.is.expr) \subseteq Known(s) \cup {e.name},
         e.is.def \/ e.is.isExpr => new[e.name].defs # {},
         new[e.name].self = {} => e.name \notin Known(s) /\ Tells(e, new[e.name])
  PROVE  /\ Append(s, e) \in SymbolTables /\ Known(Append(s, e)) = Known(s) \cup {e.name}
         /\ Linked(Append(s, e), new)
<1> DEFINE t == Append(s, e)
           N == Len(s)
<1>1. t \in SymbolTables /\ s \in Seq(Symbols) /\ N \in Nat \ {0} /\ s[1].name = LP
  BY TableSteps DEF SymbolTables
<1>2. Len(t) = N + 1 /\ t[N + 1] = e /\ \A i \in 1 .. N : t[i] = s[i]
  BY <1>1, AppendItem
<1> HIDE DEF t
<1>3. Known(t) = Known(s) \cup {e.name}
  <2>1. 1 .. Len(t) = 1 .. N \cup {N + 1}
    BY <1>1, <1>2
  <2> QED BY <1>2, <2>1 DEF Known
<1>4. ASSUME NEW n \in Names, new[n].defs \cup new[n].sets \cup new[n].globs # {} PROVE n \in Known(t)
  <2>1. CASE n # e.name
    BY <1>3, <1>4, <2>1 DEF Linked, Update
  <2> QED BY <1>3, <2>1
<1>5. ASSUME NEW i \in 1 .. Len(t), t[i].is.isExpr PROVE Looks(t[i].is.expr) \subseteq Known(t)
  <2>1. CASE i = N + 1
    BY <1>2, <1>3, <1>5, <2>1
  <2>2. CASE i # N + 1
    <3>1. i \in 1 .. N
      BY <1>1, <1>2, <2>2
    <3> QED BY <1>2, <1>3, <1>5, <3>1 DEF Linked
  <2> QED BY <2>1, <2>2
<1>6. ASSUME NEW i \in 2 .. Len(t) PROVE Entered(t, new, i)
  <2> DEFINE n == t[i].name
  <2>1. CASE i = N + 1
    <3>1. t[i] = e /\ n = e.name /\ \A j \in 1 .. i - 1 : j \in 1 .. N /\ t[j].name = s[j].name
      BY <1>1, <1>2, <2>1
    <3>2. new[n].self = {} => \A j \in 1 .. i - 1 : t[j].name # n
      BY <3>1 DEF Known
    <3> HIDE DEF n
    <3>3. /\ e.is.def \/ e.is.isExpr => new[n].defs # {}
          /\ new[n].self = {} => Tells(e, new[n])
      BY <3>1
    <3> QED BY <3>1, <3>2, <3>3 DEF Entered
  <2>2. CASE i # N + 1
    <3>1. i \in 2 .. N /\ i \in 1 .. N /\ \A j \in 1 .. i - 1 : j \in 1 .. N
      BY <1>1, <1>2, <2>2
    <3>2. Entered(s, said, i) /\ t[i] = s[i] /\ n = s[i].name /\ \A j \in 1 .. i - 1 : t[j] = s[j]
      BY <1>2, <3>1 DEF Linked
    <3>3. n \in Names /\ new[n].self = said[n].self
      BY <3>2 DEF Entered, Update
    <3>4. n = e.name => new[n].self # {}
      BY <3>1, <3>2 DEF Known
    <3>5. n # e.name => new[n] = said[n]
      BY <3>3 DEF Update
    <3> HIDE DEF n
    <3>6. t[i].is.def \/ t[i].is.isExpr => new[n].defs # {}
      <4>1. t[i].is.def \/ t[i].is.isExpr => said[n].defs # {}
        BY <3>2 DEF Entered
      <4> QED BY <3>3, <3>5, <4>1 DEF Update
    <3>7. new[n].self = {} => Tells(t[i], new[n]) /\ \A j \in 1 .. i - 1 : t[j].name # n
      BY <3>2, <3>3, <3>4, <3>5 DEF Entered
    <3> QED BY <3>2, <3>3, <3>6, <3>7 DEF Entered
  <2> QED BY <2>1, <2>2
<1>7. Linked(t, new)
  BY <1>4, <1>5, <1>6 DEF Linked
<1> QED BY <1>1, <1>3, <1>7 DEF t

(* The first entry of a name, or none. *)
LEMMA EntryKnown ==
  ASSUME NEW s \in SymbolTables, NEW n
  PROVE  /\ getSymbEntry(s, n) = 0 <=> n \notin Known(s)
         /\ getSymbEntry(s, n) # 0 => /\ getSymbEntry(s, n) \in 1 .. Len(s)
                                      /\ s[getSymbEntry(s, n)] \in Symbols
                                      /\ s[getSymbEntry(s, n)].name = n
                                      /\ n \in Names => getSymbEntry(s, n) # 1
<1>1. s \in Seq(Symbols) /\ DOMAIN s = 1 .. Len(s) /\ s[1].name = LP
  BY TableSteps DEF SymbolTables
<1>2. ASSUME getSymbEntry(s, n) = 0 PROVE n \notin Known(s)
  BY <1>1, <1>2, EntryOf DEF Known
<1>3. ASSUME getSymbEntry(s, n) # 0
      PROVE  /\ getSymbEntry(s, n) \in 1 .. Len(s) /\ s[getSymbEntry(s, n)] \in Symbols
             /\ s[getSymbEntry(s, n)].name = n
  BY <1>1, <1>3, EntryOf
<1>4. getSymbEntry(s, n) # 0 => n \in Known(s)
  BY <1>3 DEF Known
<1>5. getSymbEntry(s, n) # 0 /\ n \in Names => getSymbEntry(s, n) # 1
  BY <1>1, <1>3, NamesAssumption
<1> QED BY <1>2, <1>3, <1>4, <1>5

(* An evaluation enters names that the source has not declared. *)
LEMMA EnterLinked ==
  ASSUME NEW s \in SymbolTables, NEW n \in Names \cup {LP}, NEW said, Linked(s, said)
  PROVE  Linked(Enter(s, n), said) /\ Known(Enter(s, n)) = Known(s) \cup {n}
<1>1. CASE getSymbEntry(s, n) # 0
  BY <1>1, EntryKnown DEF Enter
<1>2. CASE getSymbEntry(s, n) = 0
  <2> DEFINE e == Symbol(n, DATA, Unknown, 0, FALSE)
  <2>1. n \notin Known(s) /\ LP \in Known(s)
    BY <1>2, EntryKnown, TableSteps DEF Known, SymbolTables
  <2>2. n \in Names
    BY <2>1
  <2>3. /\ e.name = n /\ e.sect = 0 /\ e.type = 0 /\ e.glob = FALSE
        /\ e.is.def = FALSE /\ e.is.isExpr = FALSE
    BY SectionNumbers DEF Symbol, Unknown, DATA
  <2>4. e \in Symbols
    <3>1. DATA \in 0 .. 7 /\ 0 \in {0, 1} /\ FALSE \in BOOLEAN
      BY DEF DATA
    <3> QED BY <3>1, SymbolType, MeaningTypes
  <2> HIDE DEF e
  <2>5. said[n].defs = {} /\ said[n].sets = {} /\ said[n].globs = {}
    BY <2>1, <2>2 DEF Linked
  <2>6. Tells(e, said[n])
    BY <2>3, <2>5, SectionNumbers DEF Tells
  <2>7. Update(said, said, n)
    BY DEF Update
  <2>8. Enter(s, n) = Append(s, e)
    BY <1>2 DEF Enter, e
  <2>9. /\ e.is.isExpr => Looks(e.is.expr) \subseteq Known(s) \cup {e.name}
        /\ e.is.def \/ e.is.isExpr => said[e.name].defs # {}
    BY <2>3
  <2>10. /\ said[e.name].self = {} => e.name \notin Known(s) /\ Tells(e, said[e.name])
         /\ e.name \in Names /\ Update(said, said, e.name) /\ e.name = n
    BY <2>1, <2>2, <2>3, <2>6, <2>7
  <2>11. Linked(Append(s, e), said) /\ Known(Append(s, e)) = Known(s) \cup {e.name}
    BY ONLY <2>4, <2>9, <2>10, s \in SymbolTables, Linked(s, said), EntryAdded
  <2> QED BY <2>8, <2>10, <2>11
<1> QED BY <1>1, <1>2

(* After an evaluation the names that it looked up are known. *)
LEMMA AfterLinked ==
  ASSUME NEW s \in SymbolTables, NEW r \in Lexer, NEW said, Linked(s, said)
  PROVE  Linked(After(s, r), said) /\ Known(After(s, r)) = Known(s) \cup Heard(r)
<1>1. Len(r.seen) \in Nat
  BY LenProperties DEF Lexer
<1>2. PICK h \in [0 .. Len(r.seen) -> SymbolTables] :
            /\ h[0] = s /\ h[Len(r.seen)] = After(s, r)
            /\ \A k \in 1 .. Len(r.seen) : r.seen[k] \in Names \cup {LP} /\ h[k] = Enter(h[k - 1], r.seen[k])
  BY AfterSteps
<1> DEFINE N == Len(r.seen)
           Names_(i) == {r.seen[j] : j \in 1 .. i}
           T == {i \in 0 .. N : Linked(h[i], said) /\ Known(h[i]) = Known(s) \cup Names_(i)}
<1>3. 0 \in T
  <2>1. Names_(0) = {}
    OBVIOUS
  <2> HIDE DEF Names_
  <2> QED BY <1>1, <1>2, <2>1
<1>4. ASSUME NEW i \in 0 .. N - 1, i \in T PROVE i + 1 \in T
  <2>1. i + 1 \in 1 .. N /\ i \in 0 .. N /\ i + 1 \in 0 .. N /\ (i + 1) - 1 = i
    BY <1>1
  <2>2. /\ h[i] \in SymbolTables /\ h[i + 1] = Enter(h[i], r.seen[i + 1])
        /\ r.seen[i + 1] \in Names \cup {LP}
    BY <1>2, <2>1
  <2>3. Linked(h[i], said) /\ Known(h[i]) = Known(s) \cup Names_(i)
    BY <1>4
  <2>4. Names_(i + 1) = Names_(i) \cup {r.seen[i + 1]}
    <3>1. 1 .. i + 1 = 1 .. i \cup {i + 1}
      BY <2>1
    <3> QED BY <3>1
  <2> HIDE DEF Names_
  <2>5. Linked(h[i + 1], said) /\ Known(h[i + 1]) = Known(h[i]) \cup {r.seen[i + 1]}
    BY <2>2, <2>3, EnterLinked
  <2> QED BY <2>1, <2>3, <2>4, <2>5
<1>5. N \in T
  <2>1. 0 .. N \subseteq T
    <3> HIDE DEF T, N
    <3> QED BY <1>1, <1>3, <1>4, BoundedInduction
  <2> QED BY <1>1, <2>1
<1> QED BY <1>2, <1>5 DEF Heard

(* What deferred expressions of the table look up is known.                *)
LEMMA NestedKnown ==
  ASSUME NEW s \in SymbolTables, NEW said, Linked(s, said)
  PROVE  Nested(Env(s)) \subseteq Known(s)
<1>1. ASSUME NEW n \in Names \cup {LP}, Env(s)[n].def, Env(s)[n].isExpr
      PROVE  Looks(Env(s)[n].expr) \subseteq Known(s)
  <2> DEFINE k == getSymbEntry(s, n)
  <2>1. Env(s)[n] = IF k = 0 THEN Unknown ELSE s[k].is
    BY DEF Env
  <2>2. k # 0
    BY <1>1, <2>1 DEF Unknown
  <2>3. k \in 1 .. Len(s)
    BY <2>2, EntryKnown
  <2> HIDE DEF k
  <2> QED BY <1>1, <2>1, <2>2, <2>3 DEF Linked
<1> QED BY <1>1 DEF Nested

(* A text that has been freed names nothing. *)
LEMMA BadLooks ==
  \A e \in Garbage \cup {BadPointer} : e \in Expr /\ Looks(e) = {}
<1>1. ASSUME NEW e \in Garbage \cup {BadPointer} PROVE e \in Expr /\ SymbolsOf(e) = {}
  <2>1. e \in Expr
    BY TokenTypes
  <2>2. PICK t : e = << t >> /\ t.type # "SYMB"
    <3>1. OP("?").type # "SYMB" /\ INT(0).type # "SYMB" /\ Tok("BAD", 0, "").type # "SYMB"
      BY DEF OP, INT, Tok
    <3>2. e = << OP("?") >> \/ e = << INT(0) >> \/ e = << Tok("BAD", 0, "") >>
      BY DEF Garbage, BadPointer
    <3> QED BY <3>1, <3>2
  <2>3. 1 .. Len(e) = {1} /\ e[1] = t
    BY <2>2
  <2> QED BY <2>1, <2>2, <2>3 DEF SymbolsOf
<1> QED BY <1>1, LooksInside

(* The section of an entry that is defined again. *)
LEMMA SectionUpdated ==
  ASSUME NEW old \in 0 .. 7, active \in Sections
  PROVE  LET u == UpdateSection(old) IN
         /\ u = active \/ (active < EVT /\ u = active + EVT)
         /\ u >= EVT => old >= EVT \/ active >= EVT
  BY SectionNumbers DEF UpdateSection

(* The account of a name that the line defines. *)
Defined(said, new, n) ==
  /\ Update(said, new, n) /\ new[n].globs = said[n].globs
  /\ new[n].defs # {} /\ new[n].section = active
  /\ new[n].far # {} <=> said[n].far # {} \/ active >= EVT

(* An entry and its account after a definition. *)
LEMMA TellsDefined ==
  ASSUME NEW n \in Names, active \in Sections, NEW said, NEW new, Defined(said, new, n),
         NEW e, NEW old, e.sect = UpdateSection(old.sect), e.glob = old.glob, old \in Symbols,
         e.type = 1 <=> new[n].sets # {}, Tells(old, said[n])
  PROVE  Tells(e, new[n])
<1>1. old.sect \in 0 .. 7 /\ old.glob \in BOOLEAN
  BY DEF Symbols
<1> DEFINE u == UpdateSection(old.sect)
<1>2. (u = active \/ (active < EVT /\ u = active + EVT)) /\ (u >= EVT => old.sect >= EVT \/ active >= EVT)
  BY <1>1, SectionUpdated
<1> HIDE DEF u
<1>3. e.sect = u
  BY DEF u
<1> QED BY <1>1, <1>2, <1>3 DEF Tells, Defined

(* A label. *)
LEMMA LabelLinked ==
  ASSUME NEW s \in SymbolTables, NEW n \in Names, active \in Sections, lp \in [Sections -> Int],
         NEW said, NEW new, Linked(s, said), Defined(said, new, n), new[n].sets = said[n].sets
  PROVE  Linked(handleLabel(s, n), new)
<1> DEFINE k == getSymbEntry(s, n)
           meaning == IF s[k].is.isExpr THEN Text(BadPointer) ELSE Holds(lp[active])
           e == [s[k] EXCEPT !.sect = UpdateSection(@),
                             !.is = IF @.isExpr THEN Text(BadPointer) ELSE Holds(lp[active])]
           one == Symbol(n, active, Holds(lp[active]), 0, FALSE)
<1>1. Update(said, new, n) /\ new[n].defs # {}
  BY DEF Defined
<1>2. CASE k = 0
  <2>1. one \in Symbols /\ handleLabel(s, n) = Append(s, one)
    BY <1>2, LabelEntry
  <2>2. /\ one.name = n /\ one.sect = active /\ one.type = 0 /\ one.glob = FALSE
        /\ one.is.isExpr = FALSE
    BY DEF Symbol, Holds
  <2>3. n \notin Known(s)
    BY <1>2, EntryKnown
  <2> HIDE DEF one
  <2>4. said[n].sets = {} /\ said[n].globs = {}
    BY <2>3 DEF Linked
  <2>5. Tells(one, new[n])
    BY <2>2, <2>4 DEF Tells, Defined
  <2> QED BY <1>1, <2>1, <2>2, <2>3, <2>5, EntryAdded
<1>3. CASE k # 0
  <2>1. /\ k \in 1 .. Len(s) /\ s[k].name = n /\ e \in Symbols /\ e.name = n
        /\ handleLabel(s, n) = [s EXCEPT ![k] = e]
    BY <1>3, LabelEntry
  <2>2. k # 1 /\ s[k] \in Symbols
    BY <1>3, EntryKnown
  <2>3. /\ e.sect = UpdateSection(s[k].sect) /\ e.glob = s[k].glob /\ e.type = s[k].type
        /\ e.is = meaning
    BY <2>2 DEF Symbols
  <2>4. meaning.isExpr => meaning.expr = BadPointer
    BY DEF Text, Holds
  <2>5. Looks(BadPointer) = {}
    BY BadLooks
  <2> HIDE DEF e, k, meaning
  <2>6. Entered(s, said, k)
    <3>1. k \in 2 .. Len(s)
      BY <2>1, <2>2
    <3> QED BY <3>1 DEF Linked
  <2>7. new[n].self = {} => Tells(e, new[n])
    <3> SUFFICES ASSUME new[n].self = {} PROVE Tells(e, new[n])
      OBVIOUS
    <3>1. Tells(s[k], said[n])
      BY <1>1, <2>1, <2>6 DEF Entered, Update
    <3>2. e.type = 1 <=> new[n].sets # {}
      BY <2>3, <3>1 DEF Tells
    <3> DEFINE old == s[k]
    <3>3. e.sect = UpdateSection(old.sect) /\ e.glob = old.glob /\ old \in Symbols /\ Tells(old, said[n])
      BY <2>2, <2>3, <3>1
    <3> HIDE DEF old
    <3> QED
      BY ONLY <3>2, <3>3, TellsDefined, n \in Names, active \in Sections, Defined(said, new, n)
  <2>8. e.is.isExpr => Looks(e.is.expr) \subseteq Known(s)
    BY <2>3, <2>4, <2>5
  <2>9. /\ k # 1 /\ (e.is.def \/ e.is.isExpr) => new[e.name].defs # {}
        /\ k # 1 /\ new[e.name].self = {} => Tells(e, new[e.name])
        /\ Update(said, new, e.name) /\ e.name = s[k].name
    BY <1>1, <2>1, <2>7
  <2>10. Linked([s EXCEPT ![k] = e], new)
    BY ONLY <2>1, <2>8, <2>9, s \in SymbolTables, Linked(s, said), EntryChanged
  <2> QED BY <2>1, <2>10
<1> QED BY <1>2, <1>3

(* The account of a name that a .set defines. *)
LEMMA SetLinked ==
  ASSUME NEW s \in SymbolTables, NEW n \in Names, active \in Sections, NEW meaning \in Meaning,
         NEW said, NEW new, Linked(s, said), Defined(said, new, n), new[n].sets # {},
         meaning.isExpr => Looks(meaning.expr) \subseteq Known(s),
         NEW k, k = 0 \/ (k \in 2 .. Len(s) /\ s[k].name = n),
         k = 0 /\ new[n].self = {} => n \notin Known(s)
  PROVE  /\ k # 0 => Linked(SetEntry(s, k, meaning), new)
         /\ k = 0 => Linked(Append(s, Symbol(n, active, meaning, 1, FALSE)), new)
<1> DEFINE e == [s[k] EXCEPT !.sect = UpdateSection(@), !.is = meaning, !.type = 1]
           one == Symbol(n, active, meaning, 1, FALSE)
<1>1. Update(said, new, n) /\ new[n].defs # {}
  BY DEF Defined
<1>2. ASSUME k = 0 PROVE Linked(Append(s, one), new)
  <2>1. one \in Symbols
    <3>1. active \in 0 .. 7 /\ 1 \in {0, 1} /\ FALSE \in BOOLEAN /\ n \in Names \cup {LP}
      BY SectionNumbers
    <3> QED BY <3>1, SymbolType
  <2>2. /\ one.name = n /\ one.sect = active /\ one.type = 1 /\ one.glob = FALSE
        /\ one.is = meaning
    BY DEF Symbol
  <2> HIDE DEF one
  <2>3. ASSUME new[n].self = {} PROVE n \notin Known(s) /\ Tells(one, new[n])
    <3>1. n \notin Known(s)
      BY <1>2, <2>3
    <3>2. said[n].globs = {}
      BY <3>1 DEF Linked
    <3>3. Tells(one, new[n])
      BY <2>2, <3>2 DEF Tells, Defined
    <3> QED BY <3>1, <3>3
  <2>4. /\ one.is.isExpr => Looks(one.is.expr) \subseteq Known(s) \cup {one.name}
        /\ one.is.def \/ one.is.isExpr => new[one.name].defs # {}
        /\ new[one.name].self = {} => one.name \notin Known(s) /\ Tells(one, new[one.name])
        /\ one.name \in Names /\ Update(said, new, one.name)
    BY <1>1, <2>2, <2>3
  <2> QED BY ONLY <2>1, <2>4, s \in SymbolTables, Linked(s, said), EntryAdded
<1>3. ASSUME k # 0 PROVE Linked(SetEntry(s, k, meaning), new)
  <2>1. k \in 1 .. Len(s) /\ s[k].name = n /\ k # 1 /\ s[k] \in Symbols
    <3>1. k \in 2 .. Len(s) /\ s[k].name = n
      BY <1>3
    <3>2. s \in Seq(Symbols) /\ Len(s) \in Nat
      BY TableSteps
    <3>3. k \in 1 .. Len(s) /\ k # 1
      BY <3>1, <3>2
    <3> QED BY <3>1, <3>2, <3>3, ElementOfSeq
  <2>2. e \in Symbols /\ e.name = n /\ SetEntry(s, k, meaning) = [s EXCEPT ![k] = e]
    <3>1. UpdateSection(s[k].sect) \in 0 .. 7 /\ s \in Seq(Symbols)
      BY <2>1, SectionKept, TableSteps DEF Symbols
    <3> QED BY <2>1, <3>1 DEF SetEntry, Symbols
  <2>3. /\ e.sect = UpdateSection(s[k].sect) /\ e.glob = s[k].glob /\ e.type = 1
        /\ e.is = meaning
    BY <2>1 DEF Symbols
  <2> HIDE DEF e
  <2>4. Entered(s, said, k)
    <3>1. k \in 2 .. Len(s)
      BY <2>1
    <3> QED BY <3>1 DEF Linked
  <2>5. ASSUME new[n].self = {} PROVE Tells(e, new[n])
    <3> DEFINE old == s[k]
    <3>1. Tells(old, said[n])
      BY <1>1, <2>1, <2>4, <2>5 DEF Entered, Update
    <3>2. e.type = 1 <=> new[n].sets # {}
      BY <2>3
    <3>3. e.sect = UpdateSection(old.sect) /\ e.glob = old.glob /\ old \in Symbols
      BY <2>1, <2>3
    <3> HIDE DEF old
    <3> QED
      BY ONLY <3>1, <3>2, <3>3, TellsDefined, n \in Names, active \in Sections, Defined(said, new, n)
  <2>6. /\ k # 1 /\ (e.is.def \/ e.is.isExpr) => new[e.name].defs # {}
        /\ k # 1 /\ new[e.name].self = {} => Tells(e, new[e.name])
        /\ Update(said, new, e.name) /\ e.name = s[k].name
        /\ e.is.isExpr => Looks(e.is.expr) \subseteq Known(s)
    BY <1>1, <2>1, <2>2, <2>3, <2>5
  <2>7. Linked([s EXCEPT ![k] = e], new)
    BY ONLY <2>1, <2>2, <2>6, s \in SymbolTables, Linked(s, said), EntryChanged
  <2> QED BY <2>2, <2>7
<1> QED BY <1>2, <1>3

(* A .glob. *)
LEMMA GlobLinked ==
  ASSUME NEW s \in SymbolTables, NEW n \in Names, active \in Sections,
         NEW said, NEW new, Linked(s, said), Update(said, new, n), new[n].globs # {},
         new[n].defs = said[n].defs, new[n].sets = said[n].sets, new[n].section = said[n].section,
         new[n].far # {} <=> said[n].far # {} \/ active >= EVT
  PROVE  Linked(Glob(s, n), new)
<1> DEFINE k == getSymbEntry(s, n)
           e == [s[k] EXCEPT !.glob = TRUE]
           one == Symbol(n, active, Unknown, 0, TRUE)
<1>1. CASE k = 0
  <2>1. one \in Symbols /\ Glob(s, n) = Append(s, one)
    BY <1>1, GlobType
  <2>2. /\ one.name = n /\ one.sect = active /\ one.type = 0 /\ one.glob = TRUE
        /\ one.is.isExpr = FALSE /\ one.is.def = FALSE
    BY DEF Symbol, Unknown
  <2>3. n \notin Known(s)
    BY <1>1, EntryKnown
  <2> HIDE DEF one
  <2>4. new[n].sets = {} /\ new[n].defs = {}
    BY <2>3 DEF Linked
  <2>5. Tells(one, new[n])
    BY <2>2, <2>4 DEF Tells
  <2>6. /\ one.is.isExpr => Looks(one.is.expr) \subseteq Known(s) \cup {one.name}
        /\ one.is.def \/ one.is.isExpr => new[one.name].defs # {}
        /\ new[one.name].self = {} => one.name \notin Known(s) /\ Tells(one, new[one.name])
        /\ one.name \in Names /\ Update(said, new, one.name)
    BY <2>2, <2>3, <2>5
  <2>7. Linked(Append(s, one), new)
    BY ONLY <2>1, <2>6, s \in SymbolTables, Linked(s, said), EntryAdded
  <2> QED BY <2>1, <2>7
<1>2. CASE k # 0
  <2>1. /\ k \in 1 .. Len(s) /\ s[k].name = n /\ e \in Symbols /\ e.name = n
        /\ Glob(s, n) = [s EXCEPT ![k] = e]
    BY <1>2, GlobType
  <2>2. k # 1 /\ s[k] \in Symbols
    BY <1>2, EntryKnown
  <2>3. e.sect = s[k].sect /\ e.glob = TRUE /\ e.type = s[k].type /\ e.is = s[k].is
    BY <2>2 DEF Symbols
  <2> HIDE DEF e, k
  <2>4. Entered(s, said, k)
    <3>1. k \in 2 .. Len(s)
      BY <2>1, <2>2
    <3> QED BY <3>1 DEF Linked
  <2>5. ASSUME new[n].self = {} PROVE Tells(e, new[n])
    <3>1. Tells(s[k], said[n])
      BY <2>1, <2>4, <2>5 DEF Entered, Update
    <3> QED BY <2>3, <3>1 DEF Tells
  <2>6. e.is.isExpr => Looks(e.is.expr) \subseteq Known(s)
    BY <2>1, <2>3 DEF Linked
  <2>7. e.is.def \/ e.is.isExpr => new[n].defs # {}
    BY <2>1, <2>3, <2>4 DEF Entered
  <2>8. /\ k # 1 /\ (e.is.def \/ e.is.isExpr) => new[e.name].defs # {}
        /\ k # 1 /\ new[e.name].self = {} => Tells(e, new[e.name])
        /\ Update(said, new, e.name) /\ e.name = s[k].name
    BY <2>1, <2>5, <2>7
  <2>9. Linked([s EXCEPT ![k] = e], new)
    BY ONLY <2>1, <2>6, <2>8, s \in SymbolTables, Linked(s, said), EntryChanged
  <2> QED BY <2>1, <2>9
<1> QED BY <1>1, <1>2

(* Another meaning of an entry that a line has defined.                    *)
LEMMA MeaningLinked ==
  ASSUME NEW s \in SymbolTables, NEW k \in 1 .. Len(s), NEW meaning \in Meaning, NEW said, Linked(s, said),
         s[k].is.isExpr, meaning.isExpr => Looks(meaning.expr) \subseteq Known(s)
  PROVE  Linked([s EXCEPT ![k].is = meaning], said)
<1> DEFINE e == [s[k] EXCEPT !.is = meaning]
<1>1. s \in Seq(Symbols) /\ s[k] \in Symbols /\ DOMAIN s = 1 .. Len(s)
  BY TableSteps, ElementOfSeq
<1>2. /\ e \in Symbols /\ e.name = s[k].name /\ [s EXCEPT ![k].is = meaning] = [s EXCEPT ![k] = e]
      /\ e.is = meaning /\ e.sect = s[k].sect /\ e.glob = s[k].glob /\ e.type = s[k].type
  BY <1>1 DEF Symbols
<1> HIDE DEF e
<1> DEFINE n == s[k].name
<1>3. ASSUME k # 1
      PROVE  said[n].defs # {} /\ (said[n].self = {} => Tells(e, said[n]))
  <2>1. Entered(s, said, k)
    <3>1. k \in 2 .. Len(s)
      BY <1>3
    <3> QED BY <3>1 DEF Linked
  <2>2. Tells(s[k], said[n]) => Tells(e, said[n])
    BY <1>2 DEF Tells
  <2> QED BY <2>1, <2>2 DEF Entered
<1>4. /\ k # 1 /\ (e.is.def \/ e.is.isExpr) => said[e.name].defs # {}
      /\ k # 1 /\ said[e.name].self = {} => Tells(e, said[e.name])
      /\ Update(said, said, e.name) /\ e.name = s[k].name
      /\ e.is.isExpr => Looks(e.is.expr) \subseteq Known(s)
  BY <1>2, <1>3 DEF Update
<1>5. Linked([s EXCEPT ![k] = e], said)
  BY ONLY <1>2, <1>4, s \in SymbolTables, k \in 1 .. Len(s), Linked(s, said), EntryChanged
<1> QED BY <1>2, <1>5

(* What the source says up to a line, and what the line adds. *)
LEMMA SourceLines ==
  ASSUME PlaceInv, pc = "pass1", at <= Len(file.lines)
  PROVE  /\ at \in Source /\ at \in Nat /\ active = SectionAt(at) /\ line \in Line /\ WellFormed(line)
         /\ \A T \in SUBSET Source :
              /\ InFront(T, at) \subseteq 1 .. at - 1
              /\ InFront(T, at + 1) = InFront(T, at) \cup {j \in T : j = at}
         /\ \A n : /\ Labels(n) \in SUBSET Source /\ Sets(n) \in SUBSET Source /\ Globs(n) \in SUBSET Source
                   /\ at \in Labels(n) <=> line.label = n
                   /\ at \in Sets(n) <=> line.op = "set" /\ line.name = n
                   /\ at \in Globs(n) <=> line.op = "glob" /\ line.name = n
<1>1. at \in Source /\ active = SectionAt(at)
  BY DEF PlaceInv
<1>2. at \in Nat /\ at \in 1 .. Len(file.lines) /\ file.lines \in Seq(Line)
  BY PlaceState
<1>3. line \in Line /\ WellFormed(line)
  <2>1. line \in Line
    BY <1>2, ElementOfSeq DEF line
  <2>2. at \in DOMAIN file.lines /\ file \in Files
    BY <1>2, PlaceState
  <2> QED BY <2>1, <2>2, FilesAssumption DEF line
<1>4. \A j \in Source : j \in 1 .. Len(file.lines)
  BY PlaceState DEF Source
<1>5. ASSUME NEW T \in SUBSET Source
      PROVE  InFront(T, at) \subseteq 1 .. at - 1 /\ InFront(T, at + 1) = InFront(T, at) \cup {j \in T : j = at}
  <2>1. \A j \in T : j \in Nat /\ j >= 1
    BY <1>4
  <2> QED BY <1>2, <2>1 DEF InFront
<1>6. \A n : /\ Labels(n) \in SUBSET Source /\ Sets(n) \in SUBSET Source /\ Globs(n) \in SUBSET Source
             /\ at \in Labels(n) <=> line.label = n
             /\ at \in Sets(n) <=> line.op = "set" /\ line.name = n
             /\ at \in Globs(n) <=> line.op = "glob" /\ line.name = n
  BY <1>1 DEF Labels, Sets, Globs, At, line
<1> QED BY <1>1, <1>2, <1>3, <1>5, <1>6

(* The line is the last definition of a name. *)
Redefined(w, v) ==
  /\ v.self = w.self /\ v.globs = w.globs
  /\ v.defs # {} /\ v.section = active
  /\ v.far # {} <=> w.far # {} \/ active >= EVT
(* A line more among the definitions makes it the last one. *)
LEMMA AccountDefined ==
  ASSUME at \in Nat, active = SectionAt(at), NEW n, NEW defs, defs \subseteq 1 .. at, NEW sets, NEW more,
         NEW globs, NEW all, all = defs \cup {at}
  PROVE  Redefined(Account(n, defs, sets, globs), Account(n, all, more, globs))
<1> DEFINE w == Account(n, defs, sets, globs)
           v == Account(n, all, more, globs)
           T == all
<1>1. Max(T) = at
  <2>1. at \in T /\ \A y \in T : y \in Nat /\ at >= y
    OBVIOUS
  <2> HIDE DEF T
  <2>2. \A x \in T : (\A y \in T : x >= y) => x = at
    BY <2>1
  <2> QED BY <2>1, <2>2 DEF Max
<1>2. /\ v.self = w.self /\ v.globs = globs /\ w.globs = globs /\ v.sets = more /\ w.sets = sets
      /\ v.defs = T /\ v.section = IF T = {} THEN DATA ELSE SectionAt(Max(T))
      /\ v.far = {j \in T \cup globs : SectionAt(j) >= EVT}
      /\ w.far = {j \in defs \cup globs : SectionAt(j) >= EVT}
  BY DEF Account
<1>3. v.far # {} <=> w.far # {} \/ active >= EVT
  <2> HIDE DEF v, w
  <2> QED BY <1>2
<1> HIDE DEF v, w
<1>4. Redefined(w, v)
  BY <1>1, <1>2, <1>3 DEF Redefined
<1> QED BY <1>4 DEF v, w

(* The account of each name behind the label of a line. *)
LEMMA LabelSaid ==
  ASSUME PlaceInv, pc = "pass1", at <= Len(file.lines)
  PROVE  LET said == Said(at, at)
             new == Said(at + 1, at) IN
         /\ line.label \notin Names => \A n \in Names : new[n] = said[n]
         /\ line.label \in Names => Defined(said, new, line.label) /\ new[line.label].sets = said[line.label].sets
<1> DEFINE said == Said(at, at)
           new == Said(at + 1, at)
           L(n, i) == InFront(Labels(n), i)
           S(n) == InFront(Sets(n), at)
           G(n) == InFront(Globs(n), at)
<1>1. /\ at \in Nat /\ active = SectionAt(at)
      /\ \A n : /\ L(n, at) \subseteq 1 .. at - 1 /\ S(n) \subseteq 1 .. at - 1
                /\ L(n, at + 1) = L(n, at) \cup {j \in Labels(n) : j = at}
                /\ at \in Labels(n) <=> line.label = n
  BY SourceLines
<1>2. \A n \in Names : /\ said[n] = Account(n, L(n, at) \cup S(n), S(n), G(n))
                       /\ new[n] = Account(n, L(n, at + 1) \cup S(n), S(n), G(n))
  BY DEF Said
<1> HIDE DEF said, new, L, S, G
<1>3. ASSUME NEW n \in Names, n # line.label PROVE new[n] = said[n]
  <2>1. L(n, at + 1) = L(n, at)
    BY <1>1, <1>3
  <2> QED BY <1>2, <2>1
<1>4. ASSUME NEW n \in Names, n = line.label PROVE Defined(said, new, n) /\ new[n].sets = said[n].sets
  <2> DEFINE defs == L(n, at) \cup S(n)
             s == S(n)
             g == G(n)
  <2>1. L(n, at + 1) \cup S(n) = defs \cup {at}
    BY <1>1, <1>4
  <2>2. defs \subseteq 1 .. at
    BY <1>1
  <2>3. said[n] = Account(n, defs, s, g) /\ new[n] = Account(n, defs \cup {at}, s, g)
    BY <1>2, <2>1
  <2> HIDE DEF defs, s, g
  <2>4. /\ new[n].self = said[n].self /\ new[n].globs = said[n].globs /\ new[n].sets = said[n].sets
        /\ new[n].defs # {} /\ new[n].section = active
        /\ new[n].far # {} <=> said[n].far # {} \/ active >= EVT
    <3>1. at \in Nat /\ active = SectionAt(at)
      BY <1>1
    <3> DEFINE w == Account(n, defs, s, g)
               all == defs \cup {at}
               v == Account(n, all, s, g)
    <3>4. all = defs \cup {at}
      OBVIOUS
    <3> HIDE DEF all
    <3>2. Redefined(w, v)
      BY ONLY <2>2, <3>1, <3>4, AccountDefined
    <3>3. said[n] = w /\ new[n] = v
      BY <2>3 DEF all
    <3>5. w.sets = s /\ v.sets = s
      BY DEF Account
    <3> HIDE DEF w, v
    <3> QED BY <3>2, <3>3, <3>5 DEF Redefined
  <2> QED BY <1>3, <1>4, <2>4 DEF Defined, Update
<1> QED BY <1>3, <1>4 DEF said, new

(* The account of each name behind the line. *)
LEMMA LineSaid ==
  ASSUME PlaceInv, pc = "pass1", at <= Len(file.lines)
  PROVE  LET said == Said(at + 1, at)
             new == Said(at + 1, at + 1) IN
         /\ line.op \notin {"set", "glob"} => \A n \in Names : new[n] = said[n]
         /\ line.op = "set" =>
              /\ line.name \in Names /\ Defined(said, new, line.name) /\ new[line.name].sets # {}
              /\ new[line.name].self = {} => line.name \notin NamesIn(line.args[1])
         /\ line.op = "glob" =>
              /\ line.name \in Names /\ Update(said, new, line.name) /\ new[line.name].globs # {}
              /\ new[line.name].defs = said[line.name].defs /\ new[line.name].sets = said[line.name].sets
              /\ new[line.name].section = said[line.name].section
              /\ new[line.name].far # {} <=> said[line.name].far # {} \/ active >= EVT
<1> DEFINE said == Said(at + 1, at)
           new == Said(at + 1, at + 1)
           L(n) == InFront(Labels(n), at + 1)
           S(n, i) == InFront(Sets(n), i)
           G(n, i) == InFront(Globs(n), i)
<1>1. /\ at \in Nat /\ active = SectionAt(at) /\ WellFormed(line)
      /\ \A n : /\ L(n) \subseteq 1 .. at /\ S(n, at) \subseteq 1 .. at
                /\ S(n, at + 1) = S(n, at) \cup {j \in Sets(n) : j = at}
                /\ G(n, at + 1) = G(n, at) \cup {j \in Globs(n) : j = at}
                /\ at \in Sets(n) <=> line.op = "set" /\ line.name = n
                /\ at \in Globs(n) <=> line.op = "glob" /\ line.name = n
  <2>1. /\ at \in Nat /\ active = SectionAt(at) /\ WellFormed(line)
        /\ \A n : /\ InFront(Labels(n), at) \subseteq 1 .. at - 1
                  /\ L(n) = InFront(Labels(n), at) \cup {j \in Labels(n) : j = at}
                  /\ S(n, at) \subseteq 1 .. at - 1
                  /\ S(n, at + 1) = S(n, at) \cup {j \in Sets(n) : j = at}
                  /\ G(n, at + 1) = G(n, at) \cup {j \in Globs(n) : j = at}
                  /\ at \in Sets(n) <=> line.op = "set" /\ line.name = n
                  /\ at \in Globs(n) <=> line.op = "glob" /\ line.name = n
    BY SourceLines
  <2>2. at \in 1 .. at
    BY PlaceState
  <2> HIDE DEF L, S, G
  <2>3. \A n : L(n) \subseteq 1 .. at /\ S(n, at) \subseteq 1 .. at
    BY <2>1, <2>2
  <2> QED BY <2>1, <2>3
<1>2. \A n \in Names : /\ said[n] = Account(n, L(n) \cup S(n, at), S(n, at), G(n, at))
                       /\ new[n] = Account(n, L(n) \cup S(n, at + 1), S(n, at + 1), G(n, at + 1))
  BY DEF Said
<1> HIDE DEF said, new, L, S, G
<1>3. ASSUME NEW n \in Names, ~(line.op \in {"set", "glob"} /\ line.name = n) PROVE new[n] = said[n]
  <2>1. S(n, at + 1) = S(n, at) /\ G(n, at + 1) = G(n, at)
    BY <1>1, <1>3
  <2> QED BY <1>2, <2>1
<1>4. ASSUME NEW n \in Names, line.op = "set", n = line.name
      PROVE  /\ Defined(said, new, n) /\ new[n].sets # {}
             /\ new[n].self = {} => n \notin NamesIn(line.args[1])
  <2> DEFINE defs == L(n) \cup S(n, at)
             s == S(n, at)
             more == S(n, at + 1)
             g == G(n, at)
  <2>1. more = s \cup {at} /\ G(n, at + 1) = g /\ L(n) \cup more = defs \cup {at} /\ at \in Sets(n)
    <3>1. /\ more = s \cup {j \in Sets(n) : j = at} /\ G(n, at + 1) = g \cup {j \in Globs(n) : j = at}
          /\ at \in Sets(n) /\ at \notin Globs(n)
      BY <1>1, <1>4
    <3>2. {j \in Sets(n) : j = at} = {at} /\ {j \in Globs(n) : j = at} = {}
      BY <3>1
    <3>3. L(n) \cup (s \cup {at}) = (L(n) \cup s) \cup {at}
      OBVIOUS
    <3> HIDE DEF more, s, g
    <3> QED BY <3>1, <3>2, <3>3 DEF s
  <2>2. defs \subseteq 1 .. at
    BY <1>1
  <2>3. said[n] = Account(n, defs, s, g) /\ new[n] = Account(n, defs \cup {at}, more, g)
    BY <1>2, <2>1
  <2> HIDE DEF defs, s, g, more
  <2>4. /\ new[n].self = said[n].self /\ new[n].globs = said[n].globs /\ new[n].sets = more
        /\ new[n].defs # {} /\ new[n].section = active
        /\ new[n].far # {} <=> said[n].far # {} \/ active >= EVT
    <3>1. at \in Nat /\ active = SectionAt(at)
      BY <1>1
    <3> DEFINE w == Account(n, defs, s, g)
               all == defs \cup {at}
               v == Account(n, all, more, g)
    <3>4. all = defs \cup {at}
      OBVIOUS
    <3> HIDE DEF all
    <3>2. Redefined(w, v)
      BY ONLY <2>2, <3>1, <3>4, AccountDefined
    <3>3. said[n] = w /\ new[n] = v
      BY <2>3 DEF all
    <3>5. w.sets = s /\ v.sets = more
      BY DEF Account
    <3> HIDE DEF w, v
    <3> QED BY <3>2, <3>3, <3>5 DEF Redefined
  <2>5. Defined(said, new, n)
    BY <1>3, <1>4, <2>4 DEF Defined, Update
  <2>6. new[n].self = {} => n \notin NamesIn(line.args[1])
    <3>1. new[n].self = {j \in Sets(n) : n \in NamesIn(At(j).args[1])}
      BY <2>3 DEF Account
    <3> QED BY <2>1, <3>1 DEF At, line
  <2> QED BY <2>1, <2>4, <2>5, <2>6
<1>5. ASSUME NEW n \in Names, line.op = "glob", n = line.name
      PROVE  /\ Update(said, new, n) /\ new[n].globs # {}
             /\ new[n].defs = said[n].defs /\ new[n].sets = said[n].sets
             /\ new[n].section = said[n].section
             /\ new[n].far # {} <=> said[n].far # {} \/ active >= EVT
  <2> DEFINE defs == L(n) \cup S(n, at)
             s == S(n, at)
             g == G(n, at)
  <2>1. S(n, at + 1) = s /\ G(n, at + 1) = g \cup {at} /\ L(n) \cup S(n, at + 1) = defs
    <3>1. /\ S(n, at + 1) = s \cup {j \in Sets(n) : j = at} /\ G(n, at + 1) = g \cup {j \in Globs(n) : j = at}
          /\ at \notin Sets(n) /\ at \in Globs(n)
      BY <1>1, <1>5
    <3>2. {j \in Sets(n) : j = at} = {} /\ {j \in Globs(n) : j = at} = {at}
      BY <3>1
    <3> QED BY <3>1, <3>2
  <2>2. said[n] = Account(n, defs, s, g) /\ new[n] = Account(n, defs, s, g \cup {at})
    BY <1>2, <2>1
  <2> HIDE DEF defs, s, g
  <2>3. /\ new[n].defs = said[n].defs /\ new[n].sets = said[n].sets /\ new[n].section = said[n].section
        /\ new[n].self = said[n].self /\ new[n].globs = g \cup {at}
        /\ new[n].far = {j \in defs \cup (g \cup {at}) : SectionAt(j) >= EVT}
        /\ said[n].far = {j \in defs \cup g : SectionAt(j) >= EVT}
    BY <2>2 DEF Account
  <2>4. new[n].far # {} <=> said[n].far # {} \/ active >= EVT
    BY <1>1, <2>3
  <2> QED BY <1>3, <1>5, <2>3, <2>4 DEF Update
<1>6. line.op \in {"set", "glob"} => line.name \in Names
  BY <1>1 DEF WellFormed
<1> QED BY <1>3, <1>4, <1>5, <1>6 DEF said, new

-----------------------------------------------------------------------------
(* The table behind each line. *)

Upto == IF pc = "pass1" THEN at ELSE Len(file.lines) + 1
LinkInv ==
  /\ PlaceInv
  /\ pc \notin {"fatal", "crash"} =>
       /\ Linked(symbs, Said(Upto, Upto))
       /\ pc # "pass1" => \A k \in 1 .. Len(symbs) : symbs[k].is.def

(* The table behind the label of a line, its first entry set to the place. *)
LEMMA AtLineLinked ==
  ASSUME PlaceInv, pc = "pass1", at <= Len(file.lines), Linked(symbs, Said(at, at))
  PROVE  AtLine \in SymbolTables /\ Linked(AtLine, Said(at + 1, at))
<1> DEFINE first == Symbol(LP, active, Holds(lp[active]), 0, FALSE)
           s == [symbs EXCEPT ![1] = first]
           said == Said(at, at)
           new == Said(at + 1, at)
<1>1. /\ symbs \in SymbolTables /\ active \in Sections /\ lp \in [Sections -> Int] /\ lp[active] \in Int
      /\ line \in Line
  BY PlaceState, SourceLines DEF PlaceInv, TypeInv, Types
<1>2. first \in Symbols /\ first.name = LP /\ ~first.is.isExpr
  <2>1. active \in 0 .. 7 /\ 0 \in {0, 1} /\ FALSE \in BOOLEAN
    BY <1>1, SectionNumbers
  <2>2. Holds(lp[active]) \in Meaning
    BY <1>1, MeaningTypes
  <2> QED BY <2>1, <2>2, SymbolType DEF Symbol, Holds
<1> HIDE DEF first, said, new
<1>3. s \in SymbolTables /\ Linked(s, said)
  <2> DEFINE one == 1
  <2>1. one \in 1 .. Len(symbs) /\ first.name = symbs[one].name /\ Len(symbs) \in Nat \ {0}
    BY <1>1, <1>2, TableSteps DEF SymbolTables
  <2>2. Update(said, said, first.name)
    BY DEF Update
  <2>3. Linked(symbs, said)
    BY DEF said
  <2>4. one = 1
    OBVIOUS
  <2> HIDE DEF one
  <2>5. [symbs EXCEPT ![one] = first] \in SymbolTables /\ Linked([symbs EXCEPT ![one] = first], said)
    BY ONLY <1>1, <1>2, <2>1, <2>2, <2>3, <2>4, EntryChanged
  <2> QED BY <2>4, <2>5
<1>4. AtLine = IF line.label = None THEN s ELSE handleLabel(s, line.label)
  BY DEF AtLine, line, first
<1> HIDE DEF s
<1>5. CASE line.label = None
  <2>1. line.label \notin Names
    BY <1>5, NoneAssumption
  <2>2. new = said
    <3>1. \A n \in Names : new[n] = said[n]
      BY <2>1, LabelSaid DEF new, said
    <3> QED BY <3>1 DEF new, said, Said
  <2> QED BY <1>3, <1>4, <1>5, <2>2 DEF new
<1>6. CASE line.label # None
  <2> DEFINE n == line.label
  <2>1. n \in Names
    BY <1>1, <1>6 DEF Line
  <2>2. Defined(said, new, n) /\ new[n].sets = said[n].sets
    BY <2>1, LabelSaid DEF new, said
  <2> HIDE DEF n
  <2>3. handleLabel(s, n) \in SymbolTables
    BY <1>1, <1>3, <2>1, LabelEntry
  <2>4. Linked(handleLabel(s, n), new)
    BY ONLY <1>1, <1>3, <2>1, <2>2, LabelLinked
  <2> QED BY <1>4, <1>6, <2>3, <2>4 DEF n, new
<1> QED BY <1>5, <1>6

(* A line that is no .set and no .glob enters at most what it looks up.    *)
LEMMA PlainLinked ==
  ASSUME PlaceInv, pc = "pass1", at <= Len(file.lines), Linked(symbs, Said(at, at)),
         line.op \notin {"set", "glob"}
  PROVE  /\ Linked(AtLine, Said(at + 1, at + 1))
         /\ \A r \in Lexer : Linked(After(AtLine, r), Said(at + 1, at + 1))
<1>1. AtLine \in SymbolTables /\ Linked(AtLine, Said(at + 1, at))
  BY AtLineLinked
<1>2. Said(at + 1, at + 1) = Said(at + 1, at)
  <2>1. \A n \in Names : Said(at + 1, at + 1)[n] = Said(at + 1, at)[n]
    BY LineSaid
  <2> QED BY <2>1 DEF Said
<1> DEFINE said == Said(at + 1, at)
<1>3. Linked(AtLine, said)
  BY <1>1
<1> HIDE DEF said
<1>4. \A r \in Lexer : Linked(After(AtLine, r), said)
  BY <1>1, <1>3, AfterLinked
<1> QED BY <1>1, <1>2, <1>4 DEF said

(* .set. *)
LEMMA SetLineLinked ==
  ASSUME PlaceInv, Linked(symbs, Said(at, at)), setDirective
  PROVE  Stops \/ Linked(symbs', Said(at + 1, at + 1))
<1> DEFINE s == AtLine
           n == line.name
           e == line.args[1]
           k == getSymbEntry(s, n)
           r == Eval(e, Env(s))
           meaning == IF r.ok THEN Holds(r.val) ELSE Text(e)
           t == After(s, r)
           said == Said(at + 1, at)
           new == Said(at + 1, at + 1)
<1>1. /\ s \in SymbolTables /\ pc = "pass1" /\ WellFormed(line) /\ line.op = "set" /\ active \in Sections
      /\ at <= Len(file.lines) /\ \A j \in 1 .. Len(line.args) : line.args[j] \in Expr
  <2>1. Reads({"set"}) /\ TypeInv
    BY DEF setDirective, PlaceInv
  <2>2. at <= Len(file.lines)
    BY <2>1 DEF Reads
  <2> QED BY <2>1, <2>2, LineTypes
<1>2. \/ Stops
      \/ /\ ~r.trap
         /\ symbs' = IF k # 0 THEN SetEntry(t, k, meaning)
                     ELSE Append(t, Symbol(n, active, meaning, 1, FALSE))
  BY DEF setDirective, Stops
<1>3. n \in Names /\ e \in Expr
  <2>1. line.name \in Names /\ Len(line.args) = 1
    BY <1>1 DEF WellFormed
  <2> QED BY <1>1, <2>1
<1>4. r \in Lexer /\ r.val \in Int
  <2>1. r \in Lexer /\ r.val \in Word
    BY <1>1, <1>3, EvalInTable
  <2> HIDE DEF r
  <2> QED BY <2>1, Words
<1>5. meaning \in Meaning /\ (meaning.isExpr => meaning.expr = e)
  BY <1>3, <1>4, MeaningTypes DEF Text, Holds
<1>6. Linked(s, said)
  BY <1>1, AtLineLinked
<1>7. /\ Defined(said, new, n) /\ new[n].sets # {}
      /\ new[n].self = {} => n \notin NamesIn(e)
  BY <1>1, LineSaid
<1>8. t \in SymbolTables
  BY <1>1, <1>4, AfterType
<1>9. ~r.trap => Looks(e) \subseteq Heard(r) /\ Heard(r) \subseteq Looks(e) \cup Nested(Env(s))
  <2>1. Env(s) \in [Names \cup {LP} -> Meaning]
    BY <1>1, EnvType, TableSteps
  <2> DEFINE env == Env(s)
  <2> HIDE DEF s, e, env
  <2>2. env \in [Names \cup {LP} -> Meaning]
    BY <2>1 DEF env
  <2> QED BY <1>3, <2>2, EvalLooks DEF env
<1> HIDE DEF s, n, e, k, r, meaning, t, said, new
<1>10. Linked(t, said) /\ Known(t) = Known(s) \cup Heard(r)
  BY <1>1, <1>4, <1>6, AfterLinked DEF t
<1>11. Looks(e) \subseteq SymbolsOf(e) /\ Nested(Env(s)) \subseteq Known(s)
  BY <1>1, <1>3, <1>6, LooksInside, NestedKnown
<1>12. ASSUME ~r.trap, k = 0, new[n].self = {} PROVE n \notin Known(t)
  <2>1. n \notin Known(s)
    BY <1>1, <1>12, EntryKnown DEF k
  <2>2. n \notin SymbolsOf(e)
    <3>1. DOMAIN e = 1 .. Len(e)
      BY <1>3, LenProperties DEF Expr
    <3>2. SymbolsOf(e) \ {LP} = NamesIn(e)
      BY <3>1 DEF SymbolsOf, NamesIn
    <3>3. n # LP
      BY <1>3, NamesAssumption
    <3> QED BY <1>7, <1>12, <3>2, <3>3
  <2> QED BY <1>9, <1>10, <1>11, <1>12, <2>1, <2>2
<1>13. k = 0 \/ (k \in 2 .. Len(t) /\ t[k].name = n)
  <2>1. k # 0 => k \in 1 .. Len(s) /\ s[k].name = n /\ k # 1
    BY <1>1, <1>3, EntryKnown DEF k
  <2>2. Len(s) <= Len(t) /\ Len(s) \in Nat /\ Len(t) \in Nat /\ \A i \in 1 .. Len(s) : t[i] = s[i]
    BY <1>1, <1>4, <1>8, AfterGrows, TableSteps DEF t
  <2> QED BY <2>1, <2>2
<1>14. ASSUME ~r.trap
       PROVE  /\ k # 0 => Linked(SetEntry(t, k, meaning), new)
              /\ k = 0 => Linked(Append(t, Symbol(n, active, meaning, 1, FALSE)), new)
  <2>1. meaning.isExpr => Looks(meaning.expr) \subseteq Known(t)
    BY <1>5, <1>9, <1>10, <1>14
  <2>2. k = 0 /\ new[n].self = {} => n \notin Known(t)
    BY <1>12, <1>14
  <2> QED
    BY ONLY <1>1, <1>3, <1>5, <1>7, <1>8, <1>10, <1>13, <2>1, <2>2, SetLinked
<1> QED BY <1>2, <1>14 DEF new

(* What each line leaves. *)
LEMMA LineLinked ==
  ASSUME PlaceInv, pc = "pass1" => Linked(symbs, Said(at, at)), LineAction
  PROVE  /\ pc = "pass1" /\ at <= Len(file.lines)
         /\ \/ Stops
            \/ /\ UNCHANGED file /\ at' = at + 1 /\ pc' \in {"pass1", "fatal"}
               /\ Linked(symbs', Said(at + 1, at + 1))
<1>1. pc = "pass1" /\ at <= Len(file.lines) /\ (Stops \/ QuietLine \/ ItemLine \/ CodeLine)
  BY LineSteps
<1>2. Stops \/ (UNCHANGED file /\ at' = at + 1 /\ pc' \in {"pass1", "fatal"})
  <2>1. Stops \/ \E a, s : EndLine(a, s)
    BY <1>1 DEF QuietLine, ItemLine, CodeLine, AddItem, AddInstrs
  <2> QED BY <1>1, <2>1 DEF EndLine
<1>3. TypeInv /\ Linked(symbs, Said(at, at))
  BY <1>1 DEF PlaceInv
<1>4. ASSUME NEW ops, Reads(ops) PROVE line.op \in ops
  BY <1>4 DEF Reads, line
<1>5. ASSUME line.op \notin {"set", "glob"}
      PROVE  /\ Linked(AtLine, Said(at + 1, at + 1))
             /\ \A r \in Lexer : Linked(After(AtLine, r), Said(at + 1, at + 1))
  BY <1>1, <1>3, <1>5, PlainLinked
<1>6. ASSUME NEW ops, Reads(ops), \A op \in ops : op \notin {"set", "glob"}, Stops \/ symbs' = AtLine
      PROVE  Stops \/ Linked(symbs', Said(at + 1, at + 1))
  BY <1>4, <1>5, <1>6
<1>7. ASSUME LabelLine \/ SectionDirective
      PROVE  Stops \/ Linked(symbs', Said(at + 1, at + 1))
  <2>1. CASE LabelLine
    <3>1. Reads({"label", "align"}) /\ symbs' = AtLine
      BY <2>1 DEF LabelLine
    <3> QED BY <1>6, <3>1
  <2>2. CASE SectionDirective
    <3>1. Reads({"section"}) /\ symbs' = AtLine
      BY <2>2 DEF SectionDirective
    <3> QED BY <1>6, <3>1
  <2> QED BY <1>7, <2>1, <2>2
<1>8. ASSUME valuesDirective \/ literalDirective \/ fillDirective
      PROVE  Stops \/ Linked(symbs', Said(at + 1, at + 1))
  <2>1. CASE valuesDirective
    <3>1. Reads({"values"}) /\ (Stops \/ symbs' = AtLine)
      BY <2>1 DEF valuesDirective, Stops
    <3> QED BY <1>6, <3>1
  <2>2. CASE literalDirective
    <3>1. Reads({"literal"}) /\ (Stops \/ symbs' = AtLine)
      BY <2>2 DEF literalDirective, Stops
    <3> QED BY <1>6, <3>1
  <2>3. CASE fillDirective
    <3>1. Reads({"fill"}) /\ (Stops \/ symbs' = AtLine)
      BY <2>3 DEF fillDirective, Stops
    <3> QED BY <1>6, <3>1
  <2> QED BY <1>8, <2>1, <2>2, <2>3
<1>9. ASSUME handleInstruction PROVE Stops \/ Linked(symbs', Said(at + 1, at + 1))
  <2>1. Reads(Kinds \cup {"plain"}) /\ (Stops \/ symbs' = AtLine)
    BY <1>9 DEF handleInstruction, Stops, AddInstrs
  <2>2. \A op \in Kinds \cup {"plain"} : op \notin {"set", "glob"}
    BY DEF Kinds
  <2> QED BY <1>6, <2>1, <2>2
<1>10. ASSUME NEW ops, Reads(ops), \A op \in ops : op \in {"zero", "ld"},
              Stops \/ symbs' = After(AtLine, Eval(line.args[1], Env(AtLine)))
       PROVE  Stops \/ Linked(symbs', Said(at + 1, at + 1))
  <2>1. /\ line.op \in {"zero", "ld"} /\ WellFormed(line) /\ AtLine \in SymbolTables
        /\ \A j \in 1 .. Len(line.args) : line.args[j] \in Expr
    BY <1>3, <1>10, LineTypes
  <2>2. line.args[1] \in Expr
    <3>1. Len(line.args) = 1
      BY <2>1 DEF WellFormed
    <3> QED BY <2>1, <3>1
  <2> DEFINE r == Eval(line.args[1], Env(AtLine))
  <2>3. r \in Lexer
    BY <2>1, <2>2, EvalInTable
  <2>4. Stops \/ symbs' = After(AtLine, r)
    BY <1>10
  <2> HIDE DEF r
  <2>5. line.op \notin {"set", "glob"}
    BY <2>1
  <2> QED BY <1>5, <2>3, <2>4, <2>5
<1>11. ASSUME zeroDirective \/ handleLd PROVE Stops \/ Linked(symbs', Said(at + 1, at + 1))
  <2>1. CASE zeroDirective
    <3>1. /\ Reads({"zero"})
          /\ Stops \/ symbs' = After(AtLine, Eval(line.args[1], Env(AtLine)))
      BY <2>1 DEF zeroDirective, Stops
    <3> QED BY <1>10, <3>1
  <2>2. CASE handleLd
    <3>1. /\ Reads({"ld"})
          /\ Stops \/ symbs' = After(AtLine, Eval(line.args[1], Env(AtLine)))
      BY <2>2 DEF handleLd, Stops, AddInstrs
    <3> QED BY <1>10, <3>1
  <2> QED BY <1>11, <2>1, <2>2
<1>12. ASSUME setDirective PROVE Stops \/ Linked(symbs', Said(at + 1, at + 1))
  BY <1>3, <1>12, SetLineLinked
<1>13. ASSUME globDirective PROVE Stops \/ Linked(symbs', Said(at + 1, at + 1))
  <2> DEFINE s == AtLine
             said == Said(at + 1, at)
             new == Said(at + 1, at + 1)
             n == line.name
  <2>1. Reads({"glob"}) /\ symbs' = Glob(s, n)
    BY <1>13 DEF globDirective
  <2>2. line.op = "glob" /\ active \in Sections
    BY <1>4, <2>1, PlaceState
  <2>3. s \in SymbolTables /\ Linked(s, said)
    BY <1>1, <1>3, AtLineLinked
  <2>4. /\ n \in Names /\ Update(said, new, n) /\ new[n].globs # {}
        /\ new[n].defs = said[n].defs /\ new[n].sets = said[n].sets
        /\ new[n].section = said[n].section
        /\ new[n].far # {} <=> said[n].far # {} \/ active >= EVT
    BY <1>1, <2>2, LineSaid
  <2> HIDE DEF s, said, new, n
  <2>5. Linked(Glob(s, n), new)
    BY ONLY <2>2, <2>3, <2>4, GlobLinked
  <2> QED BY <2>1, <2>5 DEF new
<1>14. Stops \/ Linked(symbs', Said(at + 1, at + 1))
  BY <1>7, <1>8, <1>9, <1>11, <1>12, <1>13 DEF LineAction
<1> QED BY <1>1, <1>2, <1>14

(* The account of the whole source, wherever it is taken.                  *)
LEMMA WholeSaid ==
  ASSUME PlaceInv, pc = "pass1", NEW i \in Nat,
         \/ i > Len(file.lines)
         \/ at <= Len(file.lines) /\ line.op = "end" /\ i = at + 1
  PROVE  Said(i, i) = Said(Len(file.lines) + 1, Len(file.lines) + 1)
<1>1. /\ Len(file.lines) \in Nat /\ at \in Nat \ {0}
      /\ \A j \in Source : j \in 1 .. Len(file.lines)
  BY PlaceState DEF Source
<1>2. \A j \in Source : j < i
  <2>1. CASE i > Len(file.lines)
    BY <1>1, <2>1
  <2>2. CASE at <= Len(file.lines) /\ line.op = "end" /\ i = at + 1
    <3>1. ASSUME NEW j \in Source, ~(j < i) PROVE FALSE
      <4>1. at \in 1 .. j - 1
        BY <1>1, <2>2, <3>1
      <4>2. file.lines[at].op # "end"
        BY <4>1 DEF Source
      <4> QED BY <2>2, <4>2 DEF line
    <3> QED BY <3>1
  <2> QED BY <2>1, <2>2
<1>3. \A T \in SUBSET Source : InFront(T, i) = T /\ InFront(T, Len(file.lines) + 1) = T
  <2>1. \A j \in Source : j < i /\ j < Len(file.lines) + 1
    BY <1>1, <1>2
  <2> QED BY <2>1 DEF InFront
<1>4. \A n : /\ InFront(Labels(n), i) = InFront(Labels(n), Len(file.lines) + 1)
             /\ InFront(Sets(n), i) = InFront(Sets(n), Len(file.lines) + 1)
             /\ InFront(Globs(n), i) = InFront(Globs(n), Len(file.lines) + 1)
  <2>1. \A n : Labels(n) \in SUBSET Source /\ Sets(n) \in SUBSET Source /\ Globs(n) \in SUBSET Source
    BY DEF Labels, Sets, Globs
  <2> QED BY <1>3, <2>1
<1> QED BY <1>4 DEF Said

(* The account of the next state, if the source is the same.               *)
LEMMA LinkedNext ==
  ASSUME UNCHANGED file, NEW i, i = Upto', Linked(symbs', Said(i, i))
  PROVE  Linked(symbs, Said(Upto, Upto))'
<1>1. Source' = Source /\ \A j : SectionAt(j)' = SectionAt(j)
  BY SourceKept
<1>2. \A j : At(j)' = At(j)
  BY DEF At
<1>3. \A n : Labels(n)' = Labels(n) /\ Sets(n)' = Sets(n) /\ Globs(n)' = Globs(n)
  BY <1>1 DEF Labels, Sets, Globs, At
<1>4. \A n, d, s, g : Account(n, d, s, g)' = Account(n, d, s, g)
  BY <1>1, <1>3 DEF Account, At
<1>5. Said(i, i)' = Said(i, i)
  BY <1>3, <1>4 DEF Said
<1>6. Said(Upto, Upto)' = Said(i, i)
  BY <1>5 DEF Said
<1> DEFINE said == Said(Upto, Upto)
           new == Said(i, i)
<1>7. said' = new
  BY <1>6
<1>8. Linked(symbs', new)
  OBVIOUS
<1> HIDE DEF said, new
<1>9. Known(symbs)' = Known(symbs')
  BY DEF Known
<1>10. \A k : Entered(symbs, said, k)' <=> Entered(symbs', new, k)
  BY <1>7 DEF Entered, Tells
<1>11. \A k : Looks(symbs[k].is.expr)' = Looks(symbs'[k].is.expr)
  OBVIOUS
<1>12. Linked(symbs, said)'
  BY <1>7, <1>8, <1>9, <1>10, <1>11 DEF Linked
<1> QED BY <1>12 DEF said

(* Before the first line nothing is said. *)
LEMMA LinkInit == Init => LinkInv
<1> SUFFICES ASSUME Init PROVE LinkInv
  OBVIOUS
<1> DEFINE said == Said(1, 1)
<1>1. PlaceInv /\ pc = "pass1" /\ Upto = 1 /\ symbs = << Symbol(LP, DATA, Holds(0), 0, FALSE) >>
  BY PlaceInit DEF Init, Upto
<1>2. \A T \in SUBSET Source : InFront(T, 1) = {}
  <2>1. \A j \in Source : j \in 1 .. Len(file.lines)
    BY <1>1, PlaceState DEF Source
  <2>2. \A j \in Source : j \in Nat /\ ~(j < 1)
    BY <1>1, <2>1, PlaceState
  <2> QED BY <2>2 DEF InFront
<1>3. \A n \in Names : said[n] = Account(n, {}, {}, {})
  <2>1. \A n : Labels(n) \in SUBSET Source /\ Sets(n) \in SUBSET Source /\ Globs(n) \in SUBSET Source
    BY DEF Labels, Sets, Globs
  <2>2. \A n : InFront(Labels(n), 1) \cup InFront(Sets(n), 1) = {} /\ InFront(Sets(n), 1) = {}
                /\ InFront(Globs(n), 1) = {}
    BY <1>2, <2>1
  <2> QED BY <2>2 DEF Said
<1> HIDE DEF said
<1>4. ASSUME NEW n \in Names PROVE said[n].defs \cup said[n].sets \cup said[n].globs = {}
  <2>1. LET none == {} IN
        /\ said[n] = Account(n, none, none, none)
        /\ said[n].defs = none /\ said[n].sets = none /\ said[n].globs = none
    BY <1>3 DEF Account
  <2> QED BY <2>1
<1>5. Len(symbs) = 1 /\ ~symbs[1].is.isExpr
  BY <1>1 DEF Symbol, Holds
<1>6. Linked(symbs, said)
  BY <1>4, <1>5 DEF Linked
<1> QED BY <1>1, <1>6 DEF LinkInv, said

-----------------------------------------------------------------------------
(* The other steps. *)

(* A step that leaves the source alone and keeps or ends the agreement.    *)
LEMMA LinkStep ==
  ASSUME PlaceInv', UNCHANGED file,
         \/ pc' \in {"fatal", "crash"}
         \/ /\ Linked(symbs', Said(Upto', Upto'))
            /\ pc' # "pass1" => \A k \in 1 .. Len(symbs') : symbs'[k].is.def
  PROVE  LinkInv'
<1>1. CASE pc' \in {"fatal", "crash"}
  BY <1>1 DEF LinkInv
<1>2. CASE /\ Linked(symbs', Said(Upto', Upto'))
           /\ pc' # "pass1" => \A k \in 1 .. Len(symbs') : symbs'[k].is.def
  <2>1. PICK i : i = Upto'
    OBVIOUS
  <2>2. Linked(symbs, Said(Upto, Upto))'
    BY <1>2, <2>1, LinkedNext
  <2> QED BY <1>2, <2>2 DEF LinkInv
<1> QED BY <1>1, <1>2

(* Each line but .end keeps the agreement. *)
LEMMA LinkLines ==
  ASSUME LinkInv, PlaceInv', LineAction
  PROVE  LinkInv'
<1>1. PlaceInv /\ (pc = "pass1" => Linked(symbs, Said(at, at)))
  BY DEF LinkInv, Upto
<1>2. /\ pc = "pass1"
      /\ \/ Stops
         \/ /\ UNCHANGED file /\ at' = at + 1 /\ pc' \in {"pass1", "fatal"}
            /\ Linked(symbs', Said(at + 1, at + 1))
  BY <1>1, LineLinked
<1>3. CASE Stops
  BY <1>3, LinkStep DEF Stops, Stop
<1>4. CASE UNCHANGED file /\ at' = at + 1 /\ pc' \in {"pass1", "fatal"}
           /\ Linked(symbs', Said(at + 1, at + 1))
  <2>1. pc' = "pass1" => Upto' = at + 1
    BY <1>4 DEF Upto
  <2> QED BY <1>4, <2>1, LinkStep
<1> QED BY <1>2, <1>3, <1>4

(* .end: what is behind it is not said. *)
LEMMA LinkEnd ==
  ASSUME LinkInv, PlaceInv', endDirective
  PROVE  LinkInv'
<1> DEFINE last == Len(file.lines) + 1
           next == at + 1
<1>1. /\ PlaceInv /\ pc = "pass1" /\ at <= Len(file.lines) /\ line.op = "end"
      /\ Linked(symbs, Said(at, at)) /\ next \in Nat
  BY PlaceState DEF LinkInv, Upto, endDirective, Reads, line
<1>2. UNCHANGED file /\ pc' = "pass1" /\ Upto' = last /\ symbs' = AtLine
  BY <1>1 DEF endDirective, Upto
<1>3. Linked(AtLine, Said(next, next))
  BY <1>1, PlainLinked
<1>4. next = at + 1
  OBVIOUS
<1> HIDE DEF next
<1>5. Said(next, next) = Said(last, last)
  BY <1>1, <1>4, WholeSaid
<1> QED BY <1>2, <1>3, <1>5, LinkStep

(* The end of the file, from which only a table of definitions goes on. *)
LEMMA LinkFile ==
  ASSUME LinkInv, PlaceInv', EndOfFile
  PROVE  LinkInv'
<1> DEFINE last == Len(file.lines) + 1
<1>1. /\ PlaceInv /\ pc = "pass1" /\ at > Len(file.lines) /\ at \in Nat /\ Linked(symbs, Said(at, at))
  BY PlaceState DEF LinkInv, Upto, EndOfFile
<1>2. UNCHANGED << file, symbs >> /\ pc' = IF Confirmed THEN "resolve" ELSE "fatal"
  BY DEF EndOfFile
<1>3. Said(at, at) = Said(last, last)
  BY <1>1, WholeSaid
<1>4. Confirmed => \A k \in 1 .. Len(symbs) : symbs[k].is.def
  <2>1. DOMAIN symbs = 1 .. Len(symbs)
    BY <1>1, TableSteps DEF PlaceInv, TypeInv, Types
  <2> QED BY <2>1 DEF Confirmed
<1>5. CASE Confirmed
  <2>1. pc' = "resolve" /\ Upto' = last
    BY <1>2, <1>5 DEF Upto
  <2> QED BY <1>1, <1>2, <1>3, <1>4, <1>5, <2>1, LinkStep
<1>6. CASE ~Confirmed
  BY <1>2, <1>6, LinkStep
<1> QED BY <1>5, <1>6

(* A symbol that has a text gets another meaning. *)
LEMMA LinkMeaning ==
  ASSUME LinkInv, PlaceInv', UNCHANGED file, NEW k \in 1 .. Len(symbs), NEW meaning \in Meaning,
         pc \notin {"fatal", "crash"}, pc' = "pass1" <=> pc = "pass1", at' = at \/ pc # "pass1",
         symbs[k].is.isExpr, meaning.def, meaning.isExpr => Looks(meaning.expr) = {},
         symbs' = [symbs EXCEPT ![k].is = meaning]
  PROVE  LinkInv'
<1> DEFINE said == Said(Upto, Upto)
<1>1. PlaceInv /\ Linked(symbs, said)
  BY DEF LinkInv
<1>2. Upto' = Upto
  BY DEF Upto
<1>3. symbs \in SymbolTables
  BY <1>1 DEF PlaceInv, TypeInv, Types
<1>4. Linked(symbs', said)
  <2> HIDE DEF said
  <2>1. meaning.isExpr => Looks(meaning.expr) \subseteq Known(symbs)
    OBVIOUS
  <2> QED BY <1>1, <1>3, <2>1, MeaningLinked
<1>5. ASSUME pc' # "pass1" PROVE \A i \in 1 .. Len(symbs') : symbs'[i].is.def
  <2>1. Len(symbs') = Len(symbs)
    BY <1>3, MeaningChanged
  <2>2. symbs \in Seq(Symbols) /\ DOMAIN symbs = 1 .. Len(symbs) /\ symbs[k] \in Symbols
    BY <1>3, TableSteps, ElementOfSeq
  <2>3. symbs'[k].is = meaning /\ \A i \in 1 .. Len(symbs) : i # k => symbs'[i] = symbs[i]
    BY <2>2 DEF Symbols
  <2>4. \A i \in 1 .. Len(symbs) : symbs[i].is.def
    BY <1>5 DEF LinkInv
  <2> QED BY <2>1, <2>3, <2>4
<1> QED BY <1>2, <1>4, <1>5, LinkStep

(* The text of a symbol that was freed looks up no name of the source. *)
LEMMA LinkReuse ==
  ASSUME LinkInv, PlaceInv', Reuse
  PROVE  LinkInv'
<1>1. symbs \in SymbolTables
  BY DEF LinkInv, PlaceInv, TypeInv, Types
<1>2. PICK k \in DOMAIN symbs, text \in Garbage :
        symbs[k].is.isExpr /\ symbs' = [symbs EXCEPT ![k].is = Text(text)]
  BY DEF Reuse
<1> DEFINE meaning == Text(text)
<1>3. k \in 1 .. Len(symbs)
  BY <1>1, TableSteps
<1>4. /\ meaning \in Meaning /\ meaning.def /\ meaning.expr = text
      /\ symbs' = [symbs EXCEPT ![k].is = meaning]
  <2>1. text \in Expr
    BY BadLooks
  <2> QED BY <1>2, <2>1, MeaningTypes DEF Text
<1> HIDE DEF meaning
<1>5. meaning.isExpr => Looks(meaning.expr) = {}
  BY <1>4, BadLooks
<1>6. pc \in {"pass1", "resolve"} /\ UNCHANGED << file, pc, at >>
  BY DEF Reuse
<1> QED BY <1>2, <1>3, <1>4, <1>5, <1>6, LinkMeaning

(* What is said no longer changes, nor what is defined. *)
LEMMA LinkKept ==
  ASSUME LinkInv, PlaceInv', UNCHANGED << file, symbs >>, pc \notin {"fatal", "crash"},
         pc' = "pass1" <=> pc = "pass1", at' = at \/ pc # "pass1"
  PROVE  LinkInv'
<1>1. Upto' = Upto /\ Linked(symbs, Said(Upto, Upto))
  BY DEF Upto, LinkInv
<1>2. pc' # "pass1" => \A k \in 1 .. Len(symbs) : symbs[k].is.def
  BY DEF LinkInv
<1> QED BY <1>1, <1>2, LinkStep

(* A resolved symbol has a value instead of a text. *)
LEMMA LinkResolve ==
  ASSUME LinkInv, PlaceInv', resolveSymbols
  PROVE  LinkInv'
<1> DEFINE r == Eval(symbs[at].is.expr, Env(symbs))
           meaning == Holds(r.val)
<1>1. /\ pc = "resolve" /\ UNCHANGED file
      /\ pc' \in {"resolve", "complete", "fatal", "crash"}
      /\ \/ pc' \in {"fatal", "crash"}
         \/ symbs' = symbs
         \/ symbs[at].is.isExpr /\ symbs' = [symbs EXCEPT ![at].is = meaning]
  <2> HIDE DEF r, meaning
  <2> QED BY DEF resolveSymbols, Round, r, meaning
<1>2. symbs \in SymbolTables /\ at \in 1 .. Len(symbs)
  BY <1>1 DEF LinkInv, PlaceInv, TypeInv, Types
<1>3. meaning \in Meaning
  <2>1. symbs[at] \in Symbols
    BY <1>2, TableSteps, ElementOfSeq
  <2>2. symbs[at].is.expr \in Expr
    BY <2>1 DEF Symbols, Meaning
  <2>3. r.val \in Word
    BY <1>2, <2>2, EvalInTable
  <2> HIDE DEF r
  <2> QED BY <2>3, Words, MeaningTypes
<1>4. meaning.def /\ ~meaning.isExpr
  BY DEF Holds
<1> HIDE DEF r, meaning
<1>5. CASE pc' \in {"fatal", "crash"}
  BY <1>1, <1>5, LinkStep
<1>6. CASE symbs' = symbs
  BY <1>1, <1>5, <1>6, LinkKept
<1>7. CASE pc' \notin {"fatal", "crash"} /\ symbs[at].is.isExpr /\ symbs' = [symbs EXCEPT ![at].is = meaning]
  BY <1>1, <1>2, <1>3, <1>4, <1>7, LinkMeaning
<1> QED BY <1>1, <1>5, <1>6, <1>7

(* Every step keeps the agreement.                                         *)
LEMMA LinkNext == LinkInv /\ [Next]_vars => LinkInv'
<1> SUFFICES ASSUME LinkInv, [Next]_vars PROVE LinkInv'
  OBVIOUS
<1>1. PlaceInv'
  BY PlaceNext DEF LinkInv
<1>2. CASE UNCHANGED vars
  <2>1. UNCHANGED << file, symbs, pc, at >>
    BY <1>2 DEF vars, tables
  <2>2. CASE pc \in {"fatal", "crash"}
    BY <1>1, <2>1, <2>2, LinkStep
  <2>3. CASE pc \notin {"fatal", "crash"}
    BY <1>1, <2>1, <2>3, LinkKept
  <2> QED BY <2>2, <2>3
<1>3. CASE completeData \/ encode \/ Generate
  <2>1. /\ pc \in {"complete", "encode", "generate"} /\ UNCHANGED << file, symbs >>
        /\ pc' \in {"complete", "encode", "generate", "written", "fatal", "crash"}
    <3>1. CASE completeData
      BY <3>1, CompleteEffect
    <3>2. CASE encode
      BY <3>2 DEF encode
    <3>3. CASE Generate
      BY <3>3, Zenon DEF Generate, tables
    <3> QED BY <1>3, <3>1, <3>2, <3>3
  <2> QED BY <1>1, <2>1, LinkKept
<1> QED
  BY <1>1, <1>2, <1>3, LinkLines, LinkEnd, LinkFile, LinkReuse, LinkResolve DEF Next, Exited, LineAction

(* Lines have a last one. *)
LEMMA MaxIn ==
  ASSUME NEW N \in Nat, NEW S, S \subseteq 1 .. N, S # {}
  PROVE  Max(S) \in S
<1> DEFINE U == {u \in Nat : \A y \in S : u >= y}
<1>1. PICK u \in U : \A v \in U : u <= v
  <2>1. N \in U
    OBVIOUS
  <2>2. U \subseteq Nat
    OBVIOUS
  <2> HIDE DEF U
  <2> QED BY <2>1, <2>2, LeastElement
<1>2. u \in S
  <2> SUFFICES ASSUME u \notin S PROVE FALSE
    OBVIOUS
  <2>1. u - 1 \in U
    <3>1. u \in Nat /\ \A y \in S : y \in 1 .. N /\ u >= y /\ u # y
      OBVIOUS
    <3>2. PICK y : y \in S
      OBVIOUS
    <3>3. u - 1 \in Nat /\ \A z \in S : u - 1 >= z
      BY <3>1, <3>2
    <3> QED BY <3>3
  <2> HIDE DEF U
  <2>2. u \in Int
    BY <1>1 DEF U
  <2> QED BY <1>1, <2>1, <2>2
<1>3. \A y \in S : u >= y
  OBVIOUS
<1> QED BY <1>2, <1>3 DEF Max

(* The whole account is what the property says of the source.              *)
LEMMA LinkMeans == LinkInv => Linkage
<1> SUFFICES ASSUME LinkInv, pc = "written", NEW k \in 2 .. Len(symbs)
             PROVE  LET n == symbs[k].name IN
                    /\ Defs(n) # {}
                    /\ ~MentionsItself(n) =>
                         /\ getSymbEntry(symbs, n) = k
                         /\ symbs[k].glob <=> \E j \in Source : At(j).op = "glob" /\ At(j).name = n
                         /\ symbs[k].type = 1 <=> Sets(n) # {}
                         /\ symbs[k].sect % EVT = SectionAt(Max(Defs(n))) % EVT
                         /\ \/ symbs[k].sect = SectionAt(Max(Defs(n)))
                            \/ \E j \in Source : SectionAt(j) >= EVT /\
                                 (j \in Defs(n) \/ (At(j).op = "glob" /\ At(j).name = n))
  BY DEF Linkage
<1> DEFINE n == symbs[k].name
           last == Len(file.lines) + 1
           said == Said(last, last)
           w == said[n]
<1>1. /\ symbs \in SymbolTables /\ Linked(symbs, said) /\ PlaceInv
      /\ \A i \in 1 .. Len(symbs) : symbs[i].is.def
  BY DEF LinkInv, PlaceInv, TypeInv, Types, Upto
<1>2. /\ symbs \in Seq(Symbols) /\ Len(symbs) \in Nat /\ DOMAIN symbs = 1 .. Len(symbs)
      /\ symbs[1].name = LP /\ k \in 1 .. Len(symbs) /\ symbs[k] \in Symbols
  <2>1. symbs \in Seq(Symbols) /\ Len(symbs) \in Nat /\ DOMAIN symbs = 1 .. Len(symbs) /\ symbs[1].name = LP
    BY <1>1, TableSteps DEF SymbolTables
  <2> QED BY <2>1, ElementOfSeq
<1>3. Entered(symbs, said, k)
  BY <1>1 DEF Linked
<1>4. n \in Names /\ w.defs # {}
  BY <1>1, <1>2, <1>3 DEF Entered
<1>5. w = Account(n, Defs(n), Sets(n), Globs(n))
  <2>1. \A T \in SUBSET Source : InFront(T, last) = T
    <3>1. \A j \in Source : j \in 1 .. Len(file.lines) /\ Len(file.lines) \in Nat
      BY <1>1, PlaceState DEF Source
    <3> QED BY <3>1 DEF InFront
  <2>2. Labels(n) \in SUBSET Source /\ Sets(n) \in SUBSET Source /\ Globs(n) \in SUBSET Source
    BY DEF Labels, Sets, Globs
  <2>3. InFront(Labels(n), last) = Labels(n) /\ InFront(Sets(n), last) = Sets(n) /\ InFront(Globs(n), last) = Globs(n)
    BY <2>1, <2>2
  <2> HIDE DEF n, last
  <2> QED BY <1>4, <2>3 DEF Said, Defs
<1>6. /\ w.defs = Defs(n) /\ w.sets = Sets(n) /\ w.globs = Globs(n)
      /\ w.section = IF Defs(n) = {} THEN DATA ELSE SectionAt(Max(Defs(n)))
      /\ w.far = {j \in Defs(n) \cup Globs(n) : SectionAt(j) >= EVT}
      /\ w.self = {j \in Sets(n) : n \in NamesIn(At(j).args[1])}
  <2> HIDE DEF n, w
  <2> QED BY <1>5 DEF Account
<1> HIDE DEF said, last, w
<1>7. ASSUME ~MentionsItself(n)
      PROVE  Tells(symbs[k], w) /\ \A i \in 1 .. k - 1 : symbs[i].name # n
  <2>1. w.self = {}
    BY <1>6, <1>7 DEF MentionsItself
  <2> QED BY <1>3, <2>1 DEF Entered, w
<1>8. ASSUME ~MentionsItself(n) PROVE getSymbEntry(symbs, n) = k
  <2> DEFINE m == getSymbEntry(symbs, n)
  <2>1. m # 0 /\ m \in 1 .. Len(symbs) /\ symbs[m].name = n /\ \A j \in 1 .. m - 1 : symbs[j].name # n
    BY <1>2, EntryOf
  <2> HIDE DEF m
  <2>2. ~(m < k)
    BY <1>2, <1>7, <1>8, <2>1
  <2>3. ~(k < m)
    BY <1>2, <2>1
  <2> QED BY <1>2, <2>1, <2>2, <2>3 DEF m
<1>9. ASSUME ~MentionsItself(n)
      PROVE  symbs[k].glob <=> \E j \in Source : At(j).op = "glob" /\ At(j).name = n
  BY <1>6, <1>7, <1>9 DEF Tells, Globs
<1>10. ASSUME ~MentionsItself(n) PROVE symbs[k].type = 1 <=> Sets(n) # {}
  BY <1>6, <1>7, <1>10 DEF Tells
<1> DEFINE sect == symbs[k].sect
           section == SectionAt(Max(Defs(n)))
<1>11. ASSUME ~MentionsItself(n)
       PROVE  /\ sect = section \/ (section < EVT /\ sect = section + EVT)
              /\ sect >= EVT => w.far # {}
  BY <1>4, <1>6, <1>7, <1>11 DEF Tells
<1>12. section \in Sections /\ EVT = 4
  <2>1. section = DATA \/ \E j \in Source : At(j).op = "section" /\ section = At(j).n
    <3> DEFINE before == {i \in Source : i < Max(Defs(n)) /\ At(i).op = "section"}
    <3>1. section = IF before = {} THEN DATA ELSE At(Max(before)).n
      BY DEF SectionAt
    <3>2. before # {} => Max(before) \in before
      <4>1. before \subseteq 1 .. Len(file.lines) /\ Len(file.lines) \in Nat
        BY <1>1, PlaceState DEF Source
      <4> HIDE DEF before
      <4> QED BY <4>1, MaxIn
    <3> HIDE DEF section
    <3> QED BY <3>1, <3>2
  <2>2. \A j \in Source : At(j).op = "section" => At(j).n \in Sections
    <3>1. \A j \in Source : WellFormed(At(j))
      BY <1>1, PlaceState, FilesAssumption DEF Source, At
    <3> QED BY <3>1 DEF WellFormed
  <2> HIDE DEF section
  <2> QED BY <2>1, <2>2, SectionNumbers
<1>13. ASSUME ~MentionsItself(n) PROVE sect % EVT = section % EVT
  <2> HIDE DEF sect, section
  <2>1. section \in 0 .. 5 /\ EVT = 4
    BY <1>12, SectionNumbers
  <2>2. (section + 4) % 4 = section % 4
    BY <2>1
  <2> QED BY <1>11, <1>13, <2>1, <2>2
<1>14. ASSUME ~MentionsItself(n), sect # section
       PROVE  \E j \in Source : SectionAt(j) >= EVT /\
                (j \in Defs(n) \/ (At(j).op = "glob" /\ At(j).name = n))
  <2> HIDE DEF section
  <2>1. sect >= EVT
    <3> HIDE DEF sect
    <3> QED BY <1>11, <1>12, <1>14, SectionNumbers
  <2>2. PICK j \in Defs(n) \cup Globs(n) : SectionAt(j) >= EVT
    BY <1>6, <1>11, <1>14, <2>1
  <2> QED BY <2>2 DEF Defs, Labels, Sets, Globs
<1> QED BY <1>4, <1>6, <1>8, <1>9, <1>10, <1>13, <1>14

(* In whatever order the source uses, declares and defines a name, the     *)
(* object file has one entry for it, defined, of the right kind and place. *)
THEOREM NamesLinked == Spec => []Linkage
<1>1. Init => LinkInv
  BY LinkInit
<1>2. LinkInv /\ [Next]_vars => LinkInv'
  BY LinkNext
<1>3. LinkInv => Linkage
  BY LinkMeans
<1> QED BY <1>1, <1>2, <1>3, PTL DEF Spec

-----------------------------------------------------------------------------
(* What an evaluation finds in the table. *)

(* An entry that is changed is changed for its name only. *)
LEMMA EnvChanged ==
  ASSUME NEW s \in SymbolTables, NEW k \in 1 .. Len(s), NEW e \in Symbols, e.name = s[k].name,
         NEW n \in Names \cup {LP}
  PROVE  /\ getSymbEntry([s EXCEPT ![k] = e], n) = getSymbEntry(s, n)
         /\ Env([s EXCEPT ![k] = e])[n] = IF getSymbEntry(s, n) = k THEN e.is ELSE Env(s)[n]
<1> DEFINE t == [s EXCEPT ![k] = e]
<1>1. s \in Seq(Symbols) /\ DOMAIN s = 1 .. Len(s) /\ t \in SymbolTables
  BY TableSteps
<1>2. DOMAIN t = DOMAIN s /\ t[k] = e /\ \A i \in DOMAIN s : (i # k => t[i] = s[i]) /\ t[i].name = s[i].name
  BY <1>1
<1> HIDE DEF t
<1>3. getSymbEntry(t, n) = getSymbEntry(s, n)
  <2> DEFINE P(i) == s[i].name = n /\ \A j \in 1 .. i - 1 : s[j].name # n
             Q(i) == t[i].name = n /\ \A j \in 1 .. i - 1 : t[j].name # n
  <2>1. \A i \in DOMAIN s : P(i) <=> Q(i)
    BY <1>1, <1>2
  <2>2. (\E i \in DOMAIN s : s[i].name = n) <=> (\E i \in DOMAIN t : t[i].name = n)
    BY <1>2
  <2>3. (CHOOSE i \in DOMAIN s : P(i)) = (CHOOSE i \in DOMAIN t : Q(i))
    <3>1. \A i : i \in DOMAIN s /\ P(i) <=> i \in DOMAIN t /\ Q(i)
      BY <1>2, <2>1
    <3> HIDE DEF P, Q
    <3> QED BY <3>1, Zenon
  <2> QED BY <2>2, <2>3 DEF getSymbEntry
<1>4. getSymbEntry(s, n) # 0 => getSymbEntry(s, n) \in 1 .. Len(s)
  BY EntryKnown
<1> QED BY <1>1, <1>2, <1>3, <1>4 DEF Env, t

(* An entry behind the others is found if its name is new.                 *)
LEMMA EnvAdded ==
  ASSUME NEW s \in SymbolTables, NEW e \in Symbols, NEW n \in Names \cup {LP}
  PROVE  Env(Append(s, e))[n] = IF n \notin Known(s) /\ n = e.name THEN e.is ELSE Env(s)[n]
<1> DEFINE t == Append(s, e)
<1>1. s \in Seq(Symbols) /\ Len(s) \in Nat /\ DOMAIN s = 1 .. Len(s) /\ t \in SymbolTables
  BY TableSteps
<1>2. /\ Len(t) = Len(s) + 1 /\ DOMAIN t = 1 .. Len(s) + 1
      /\ t[Len(s) + 1] = e /\ \A i \in 1 .. Len(s) : t[i] = s[i]
  BY <1>1, AppendProperties
<1> HIDE DEF t
<1>3. CASE n \in Known(s)
  <2>1. getSymbEntry(s, n) # 0 /\ getSymbEntry(s, n) \in 1 .. Len(s)
    BY <1>3, EntryKnown
  <2>2. getSymbEntry(t, n) = getSymbEntry(s, n)
    <3>1. /\ getSymbEntry(t, n) \in DOMAIN t /\ t[getSymbEntry(t, n)].name = n
          /\ \A j \in 1 .. getSymbEntry(t, n) - 1 : t[j].name # n
      <4>1. n \in Known(t)
        BY <1>1, <1>2, <1>3 DEF Known
      <4>2. getSymbEntry(t, n) # 0
        BY <1>1, <4>1, EntryKnown
      <4> QED BY <1>1, <4>2, EntryOf, TableSteps
    <3>2. s[getSymbEntry(s, n)].name = n /\ \A j \in 1 .. getSymbEntry(s, n) - 1 : s[j].name # n
      BY <1>1, <2>1, EntryOf
    <3> QED BY <1>1, <1>2, <2>1, <3>1, <3>2
  <2> QED BY <1>2, <1>3, <2>1, <2>2 DEF Env, t
<1>4. CASE n \notin Known(s)
  <2>1. getSymbEntry(s, n) = 0 /\ \A i \in 1 .. Len(s) : s[i].name # n
    BY <1>4, EntryKnown DEF Known
  <2>2. CASE n = e.name
    <3>1. n \in Known(t)
      BY <1>1, <1>2, <2>2 DEF Known
    <3>2. getSymbEntry(t, n) \in 1 .. Len(s) + 1 /\ t[getSymbEntry(t, n)].name = n /\ getSymbEntry(t, n) # 0
      BY <1>1, <1>2, <3>1, EntryKnown
    <3>3. getSymbEntry(t, n) = Len(s) + 1
      BY <1>1, <1>2, <2>1, <3>2
    <3> QED BY <1>2, <1>4, <2>2, <3>2, <3>3 DEF Env, t
  <2>3. CASE n # e.name
    <3>1. n \notin Known(t)
      BY <1>1, <1>2, <2>1, <2>3 DEF Known
    <3>2. getSymbEntry(t, n) = 0
      BY <1>1, <3>1, EntryKnown
    <3> QED BY <2>1, <2>3, <3>2 DEF Env, t
  <2> QED BY <2>2, <2>3
<1> QED BY <1>3, <1>4

(* Names that an evaluation enters are unknown as before. *)
LEMMA EnvAfter ==
  ASSUME NEW s \in SymbolTables, NEW r \in Lexer, NEW n \in Names \cup {LP}
  PROVE  Env(After(s, r))[n] = Env(s)[n]
<1> DEFINE N == Len(r.seen)
<1>1. PICK h \in [0 .. N -> SymbolTables] :
            /\ h[0] = s /\ h[N] = After(s, r)
            /\ \A k \in 1 .. N : r.seen[k] \in Names \cup {LP} /\ h[k] = Enter(h[k - 1], r.seen[k])
  BY AfterSteps
<1>2. N \in Nat
  BY LenProperties DEF Lexer
<1>3. ASSUME NEW t \in SymbolTables, NEW m \in Names \cup {LP}
      PROVE  Env(Enter(t, m))[n] = Env(t)[n]
  <2>1. CASE getSymbEntry(t, m) # 0
    BY <2>1 DEF Enter
  <2>2. CASE getSymbEntry(t, m) = 0
    <3> DEFINE e == Symbol(m, DATA, Unknown, 0, FALSE)
    <3>1. DATA \in 0 .. 7 /\ 0 \in {0, 1} /\ FALSE \in BOOLEAN
      BY SectionNumbers
    <3>2. e \in Symbols /\ e.name = m /\ e.is = Unknown
      <4>1. e \in Symbols
        BY <3>1, MeaningTypes, SymbolType
      <4> QED BY <4>1 DEF Symbol
    <3>3. Enter(t, m) = Append(t, e)
      BY <2>2 DEF Enter
    <3>4. n \notin Known(t) => Env(t)[n] = Unknown
      BY EntryKnown DEF Env
    <3> HIDE DEF e
    <3> QED BY <3>2, <3>3, <3>4, EnvAdded
  <2> QED BY <2>1, <2>2
<1> HIDE DEF N
<1> DEFINE T == {k \in 0 .. N : Env(h[k])[n] = Env(s)[n]}
<1>4. 0 \in T
  BY <1>1, <1>2
<1>5. ASSUME NEW k \in 0 .. N - 1, k \in T PROVE k + 1 \in T
  <2>1. k + 1 \in 1 .. N /\ k + 1 \in 0 .. N /\ (k + 1) - 1 = k /\ k \in 0 .. N
    BY <1>2
  <2>2. h[k] \in SymbolTables /\ h[k + 1] = Enter(h[k], r.seen[k + 1]) /\ r.seen[k + 1] \in Names \cup {LP}
    BY <1>1, <2>1
  <2> QED BY <1>3, <1>5, <2>1, <2>2
<1>6. 0 .. N \subseteq T
  <2> HIDE DEF T
  <2> QED BY <1>2, <1>4, <1>5, BoundedInduction
<1> QED BY <1>1, <1>2, <1>6

(* A label gets the location pointer, or replaces the text of a deferred   *)
(* .set.                                                                   *)
LEMMA EnvLabel ==
  ASSUME NEW s \in SymbolTables, NEW name \in Names, active \in Sections, lp \in [Sections -> Int],
         NEW n \in Names \cup {LP}
  PROVE  Env(handleLabel(s, name))[n] =
           IF n # name THEN Env(s)[n]
           ELSE IF Env(s)[n].isExpr THEN Text(BadPointer) ELSE Holds(lp[active])
<1> DEFINE k == getSymbEntry(s, name)
           e == [s[k] EXCEPT !.sect = UpdateSection(@),
                             !.is = IF @.isExpr THEN Text(BadPointer) ELSE Holds(lp[active])]
           new == Symbol(name, active, Holds(lp[active]), 0, FALSE)
<1>1. /\ k = 0 => new \in Symbols /\ handleLabel(s, name) = Append(s, new)
      /\ k # 0 => /\ k \in 1 .. Len(s) /\ s[k].name = name /\ e \in Symbols /\ e.name = name
                  /\ handleLabel(s, name) = [s EXCEPT ![k] = e]
  BY LabelEntry
<1>2. CASE k = 0
  <2>1. new.name = name /\ new.is = Holds(lp[active])
    BY DEF Symbol
  <2>2. name \notin Known(s) /\ ~Env(s)[name].isExpr
    BY <1>2, EntryKnown DEF Env, Unknown
  <2> HIDE DEF new
  <2>3. Env(Append(s, new))[n] = IF n \notin Known(s) /\ n = new.name THEN new.is ELSE Env(s)[n]
    BY <1>1, <1>2, EnvAdded
  <2> QED BY <1>1, <1>2, <2>1, <2>2, <2>3
<1>3. CASE k # 0
  <2>1. e.is = IF s[k].is.isExpr THEN Text(BadPointer) ELSE Holds(lp[active])
    <3>1. s[k] \in Symbols
      BY <1>3, EntryKnown
    <3> QED BY <3>1 DEF Symbols
  <2>2. Env(s)[name] = s[k].is
    BY <1>3 DEF Env
  <2>3. getSymbEntry(s, n) = k <=> n = name
    <3>1. getSymbEntry(s, n) # 0 => s[getSymbEntry(s, n)].name = n
      BY EntryKnown
    <3> QED BY <1>1, <1>3, <3>1
  <2> HIDE DEF e
  <2> QED BY <1>1, <1>3, <2>1, <2>2, <2>3, EnvChanged
<1> QED BY <1>2, <1>3

(* A .glob changes no meaning. *)
LEMMA EnvGlob ==
  ASSUME NEW s \in SymbolTables, NEW name \in Names, active \in Sections, NEW n \in Names \cup {LP}
  PROVE  Env(Glob(s, name))[n] = Env(s)[n]
<1> DEFINE k == getSymbEntry(s, name)
           e == [s[k] EXCEPT !.glob = TRUE]
           new == Symbol(name, active, Unknown, 0, TRUE)
<1>1. /\ k = 0 => new \in Symbols /\ Glob(s, name) = Append(s, new)
      /\ k # 0 => /\ k \in 1 .. Len(s) /\ s[k].name = name /\ e \in Symbols /\ e.name = name
                  /\ Glob(s, name) = [s EXCEPT ![k] = e]
  BY GlobType
<1>2. CASE k = 0
  <2>1. new.name = name /\ new.is = Unknown
    BY DEF Symbol
  <2>2. n \notin Known(s) => Env(s)[n] = Unknown
    BY EntryKnown DEF Env
  <2> HIDE DEF new
  <2>3. Env(Append(s, new))[n] = IF n \notin Known(s) /\ n = new.name THEN new.is ELSE Env(s)[n]
    BY <1>1, <1>2, EnvAdded
  <2> QED BY <1>1, <1>2, <2>1, <2>2, <2>3
<1>3. CASE k # 0
  <2>1. s[k] \in Symbols
    BY <1>3, EntryKnown
  <2>2. e.is = s[k].is
    BY <2>1 DEF Symbols
  <2>3. getSymbEntry(s, n) = k => Env(s)[n] = s[k].is
    BY <1>3 DEF Env
  <2> HIDE DEF e
  <2> QED BY <1>1, <1>3, <2>2, <2>3, EnvChanged
<1> QED BY <1>2, <1>3

(* The table behind the label of a line. *)
LEMMA EnvAtLine ==
  ASSUME TypeInv, line \in Line, NEW n \in Names
  PROVE  /\ AtLine \in SymbolTables
         /\ Env(AtLine)[LP] = Holds(lp[active])
         /\ Env(AtLine)[n] =
              IF n # line.label THEN Env(symbs)[n]
              ELSE IF Env(symbs)[n].isExpr THEN Text(BadPointer) ELSE Holds(lp[active])
<1> DEFINE e == Symbol(LP, active, Holds(lp[active]), 0, FALSE)
           s == [symbs EXCEPT ![1] = e]
<1>1. /\ symbs \in SymbolTables /\ active \in Sections /\ lp \in [Sections -> Int] /\ lp[active] \in Int
      /\ line.label \in Names \cup {None}
  BY DEF TypeInv, Types, VectorInv, Inv, Line
<1>2. AtLine \in SymbolTables
  BY <1>1, AtLineType
<1>3. active \in 0 .. 7 /\ 0 \in {0, 1} /\ FALSE \in BOOLEAN /\ LP \in Names \cup {LP}
  BY <1>1, SectionNumbers
<1>4. e \in Symbols /\ e.name = LP /\ e.is = Holds(lp[active])
  <2>1. Holds(lp[active]) \in Meaning
    BY <1>1, MeaningTypes
  <2>2. e \in Symbols
    BY <1>3, <2>1, SymbolType
  <2> QED BY <2>2 DEF Symbol
<1>5. 1 \in 1 .. Len(symbs) /\ symbs[1].name = LP
  BY <1>1, TableSteps DEF SymbolTables
<1>6. getSymbEntry(symbs, LP) = 1 /\ getSymbEntry(symbs, n) # 1 /\ n # LP
  <2>1. LP \in Known(symbs)
    BY <1>5 DEF Known
  <2>2. getSymbEntry(symbs, LP) \in 1 .. Len(symbs) /\ \A j \in 1 .. getSymbEntry(symbs, LP) - 1 : symbs[j].name # LP
    <3>1. getSymbEntry(symbs, LP) # 0
      BY <1>1, <2>1, EntryKnown
    <3> QED BY <1>1, <3>1, EntryOf, TableSteps
  <2>3. getSymbEntry(symbs, LP) = 1
    BY <1>1, <1>5, <2>2
  <2>4. getSymbEntry(symbs, n) # 1
    BY <1>1, EntryKnown
  <2> QED BY <2>3, <2>4, NamesAssumption
<1> HIDE DEF e
<1>7. s \in SymbolTables /\ Env(s)[LP] = Holds(lp[active]) /\ Env(s)[n] = Env(symbs)[n]
  <2>1. e.name = symbs[1].name
    BY <1>4, <1>5
  <2>2. s \in SymbolTables
    BY <1>1, <1>4, <1>5, <2>1, TableSteps
  <2>3. Env(s)[LP] = e.is
    BY <1>1, <1>3, <1>4, <1>5, <1>6, <2>1, EnvChanged
  <2>4. Env(s)[n] = Env(symbs)[n]
    BY <1>1, <1>4, <1>5, <1>6, <2>1, EnvChanged
  <2> QED BY <1>4, <2>2, <2>3, <2>4
<1> HIDE DEF s
<1>8. AtLine = IF line.label = None THEN s ELSE handleLabel(s, line.label)
  BY DEF AtLine, line, s, e
<1>9. CASE line.label = None
  BY <1>2, <1>7, <1>8, <1>9, NoneAssumption
<1>10. CASE line.label # None
  <2>1. line.label \in Names /\ line.label # LP
    BY <1>1, <1>10, NamesAssumption
  <2>2. Env(AtLine)[LP] = Env(s)[LP]
    BY <1>1, <1>3, <1>7, <1>8, <1>10, <2>1, EnvLabel
  <2>3. Env(AtLine)[n] = IF n # line.label THEN Env(s)[n]
                         ELSE IF Env(s)[n].isExpr THEN Text(BadPointer) ELSE Holds(lp[active])
    BY <1>1, <1>7, <1>8, <1>10, <2>1, EnvLabel
  <2> QED BY <1>2, <1>7, <2>2, <2>3
<1> QED BY <1>9, <1>10

(* An evaluation leaves the entry of a name where it is. *)
LEMMA EntryAfter ==
  ASSUME NEW s \in SymbolTables, NEW r \in Lexer, NEW n, getSymbEntry(s, n) # 0
  PROVE  getSymbEntry(After(s, r), n) = getSymbEntry(s, n)
<1> DEFINE t == After(s, r)
           k == getSymbEntry(s, n)
           i == getSymbEntry(t, n)
<1>1. t \in SymbolTables /\ t \in Seq(Symbols) /\ s \in Seq(Symbols)
  BY AfterType, TableSteps
<1>2. Len(s) <= Len(t) /\ Len(s) \in Nat /\ Len(t) \in Nat /\ \A j \in 1 .. Len(s) : t[j] = s[j]
  BY <1>1, AfterGrows, TableSteps
<1>3. k \in 1 .. Len(s) /\ s[k].name = n
  BY EntryKnown
<1>4. \A j \in 1 .. k - 1 : s[j].name # n
  BY <1>1, EntryOf
<1> HIDE DEF t, k
<1>5. n \in Known(t)
  <2>1. k \in 1 .. Len(t) /\ t[k].name = n
    BY <1>2, <1>3
  <2> QED BY <2>1 DEF Known
<1>6. i # 0 /\ i \in 1 .. Len(t) /\ t[i].name = n
  BY <1>1, <1>5, EntryKnown
<1>7. \A j \in 1 .. i - 1 : t[j].name # n
  BY <1>1, <1>6, EntryOf
<1> HIDE DEF i
<1>8. ~(k < i) /\ ~(i < k)
  <2>1. k < i => k \in 1 .. i - 1 /\ t[k].name = n
    BY <1>2, <1>3, <1>6
  <2>2. i < k => i \in 1 .. k - 1 /\ s[i].name = n
    BY <1>2, <1>3, <1>6
  <2> QED BY <1>4, <1>7, <2>1, <2>2
<1>9. i = k
  BY <1>2, <1>3, <1>6, <1>8
<1> QED BY <1>9 DEF i, k, t

(* The entry of a name gets a meaning. *)
LEMMA EnvSetEntry ==
  ASSUME NEW t \in SymbolTables, NEW n \in Names, NEW k, k # 0, getSymbEntry(t, n) = k,
         NEW meaning \in Meaning, active \in Sections, NEW m \in Names
  PROVE  Env(SetEntry(t, k, meaning))[m] = IF m = n THEN meaning ELSE Env(t)[m]
<1> DEFINE e == [t[k] EXCEPT !.sect = UpdateSection(@), !.is = meaning, !.type = 1]
<1>1. k \in 1 .. Len(t) /\ t[k] \in Symbols /\ t[k].name = n
  BY EntryKnown
<1>2. e \in Symbols /\ e.name = t[k].name /\ SetEntry(t, k, meaning) = [t EXCEPT ![k] = e]
  <2>1. UpdateSection(t[k].sect) \in 0 .. 7 /\ t \in Seq(Symbols)
    BY <1>1, SectionKept, TableSteps DEF Symbols
  <2> QED BY <1>1, <2>1 DEF SetEntry, Symbols
<1>3. e.is = meaning
  BY <1>1 DEF Symbols
<1>4. getSymbEntry(t, m) = k <=> m = n
  <2>1. getSymbEntry(t, m) # 0 => t[getSymbEntry(t, m)].name = m
    BY EntryKnown
  <2> QED BY <1>1, <2>1
<1> HIDE DEF e
<1>5. Env([t EXCEPT ![k] = e])[m] = IF getSymbEntry(t, m) = k THEN e.is ELSE Env(t)[m]
  <2>1. k \in 1 .. Len(t) /\ e \in Symbols /\ e.name = t[k].name /\ m \in Names \cup {LP}
    BY <1>1, <1>2
  <2> QED BY ONLY <2>1, EnvChanged, t \in SymbolTables
<1> QED BY <1>2, <1>3, <1>4, <1>5

(* What a line leaves of the table: the meanings behind its label, but for *)
(* the name of a .set.                                                     *)
SetsName(n) == line.op = "set" /\ line.name = n
LineMeans(F) ==
  /\ \A n \in Names : ~SetsName(n) => F[n] = Env(AtLine)[n]
  /\ line.op = "set" =>
       LET r == Eval(line.args[1], Env(AtLine)) IN
       /\ line.name \in Names /\ ~Env(AtLine)[line.name].def /\ ~r.trap
       /\ line.name \notin NamesIn(line.args[1]) =>
            F[line.name] = IF r.ok THEN Holds(r.val) ELSE Text(line.args[1])

(* The meaning of a .set. *)
LEMMA EnvSet ==
  ASSUME PlaceInv, Linked(symbs, Said(at, at)), setDirective
  PROVE  Stops \/ LineMeans(Env(symbs'))
<1> DEFINE s == AtLine
           n == line.name
           e == line.args[1]
           k == getSymbEntry(s, n)
           r == Eval(e, Env(s))
           meaning == IF r.ok THEN Holds(r.val) ELSE Text(e)
           t == After(s, r)
           said == Said(at + 1, at)
           new == Symbol(n, active, meaning, 1, FALSE)
<1>1. /\ s \in SymbolTables /\ pc = "pass1" /\ WellFormed(line) /\ line.op = "set" /\ active \in Sections
      /\ at <= Len(file.lines) /\ \A j \in 1 .. Len(line.args) : line.args[j] \in Expr
  <2>1. Reads({"set"}) /\ TypeInv
    BY DEF setDirective, PlaceInv
  <2>2. at <= Len(file.lines)
    BY <2>1 DEF Reads
  <2> QED BY <2>1, <2>2, LineTypes
<1>2. \/ Stops
      \/ /\ ~r.trap /\ ~(k # 0 /\ s[k].is.def)
         /\ symbs' = IF k # 0 THEN SetEntry(t, k, meaning)
                     ELSE Append(t, Symbol(n, active, meaning, 1, FALSE))
  BY DEF setDirective, Stops
<1>3. n \in Names /\ e \in Expr
  <2>1. line.name \in Names /\ Len(line.args) = 1
    BY <1>1 DEF WellFormed
  <2> QED BY <1>1, <2>1
<1>4. r \in Lexer /\ r.val \in Int
  <2>1. r \in Lexer /\ r.val \in Word
    BY <1>1, <1>3, EvalInTable
  <2> HIDE DEF r
  <2> QED BY <2>1, Words
<1>5. meaning \in Meaning
  <2> HIDE DEF r
  <2> QED BY <1>3, <1>4, MeaningTypes
<1>6. Linked(s, said)
  BY <1>1, AtLineLinked
<1>8. t \in SymbolTables
  BY <1>1, <1>4, AfterType
<1>9. ~r.trap => Heard(r) \subseteq Looks(e) \cup Nested(Env(s))
  <2>1. Env(s) \in [Names \cup {LP} -> Meaning]
    BY <1>1, EnvType, TableSteps
  <2> DEFINE env == Env(s)
  <2> HIDE DEF s, e, env
  <2>2. env \in [Names \cup {LP} -> Meaning]
    BY <2>1 DEF env
  <2> QED BY <1>3, <2>2, EvalLooks DEF env
<1>10. Known(t) = Known(s) \cup Heard(r)
  BY <1>1, <1>4, <1>6, AfterLinked
<1>11. Looks(e) \subseteq SymbolsOf(e) /\ Nested(Env(s)) \subseteq Known(s)
  BY <1>1, <1>3, <1>6, LooksInside, NestedKnown
<1>12. ASSUME ~r.trap, k = 0, n \notin NamesIn(e) PROVE n \notin Known(t)
  <2>1. n \notin Known(s)
    BY <1>1, <1>12, EntryKnown
  <2>2. n \notin SymbolsOf(e)
    <3>1. DOMAIN e = 1 .. Len(e)
      BY <1>3, LenProperties DEF Expr
    <3>2. SymbolsOf(e) \ {LP} = NamesIn(e)
      BY <3>1 DEF SymbolsOf, NamesIn
    <3>3. n # LP
      BY <1>3, NamesAssumption
    <3> QED BY <1>12, <3>2, <3>3
  <2> QED BY <1>9, <1>10, <1>11, <1>12, <2>1, <2>2
<1>13. \A m \in Names \cup {LP} : Env(t)[m] = Env(s)[m]
  BY <1>1, <1>4, EnvAfter
<1>14. k # 0 => getSymbEntry(t, n) = k
  BY <1>1, <1>3, <1>4, EntryAfter
<1>15. new \in Symbols /\ new.name = n /\ new.is = meaning
  <2>1. active \in 0 .. 7 /\ 1 \in {0, 1} /\ FALSE \in BOOLEAN /\ n \in Names \cup {LP}
    BY <1>1, <1>3, SectionNumbers
  <2>2. new \in Symbols
    <3> HIDE DEF meaning
    <3> QED BY <1>5, <2>1, SymbolType
  <2> HIDE DEF meaning
  <2> QED BY <2>2 DEF Symbol
<1> HIDE DEF s, n, e, k, r, meaning, t, said, new
<1>18. ASSUME ~r.trap, NEW m \in Names, NEW new_, new_ = (IF k # 0 THEN SetEntry(t, k, meaning) ELSE Append(t, new))
       PROVE  /\ m # n => Env(new_)[m] = Env(s)[m]
              /\ n \notin NamesIn(e) => Env(new_)[n] = meaning
  <2>1. CASE k # 0
    <3>1. new_ = SetEntry(t, k, meaning)
      BY <1>18, <2>1
    <3>2. \A i \in Names : Env(SetEntry(t, k, meaning))[i] = IF i = n THEN meaning ELSE Env(t)[i]
      BY <1>1, <1>3, <1>5, <1>8, <1>14, <2>1, EnvSetEntry
    <3> QED BY <1>3, <1>13, <3>1, <3>2
  <2>2. CASE k = 0
    <3>1. new_ = Append(t, new)
      BY <1>18, <2>2
    <3>2. Env(new_)[m] = IF m \notin Known(t) /\ m = new.name THEN new.is ELSE Env(t)[m]
      BY <1>8, <1>15, <3>1, EnvAdded
    <3>3. Env(new_)[n] = IF n \notin Known(t) /\ n = new.name THEN new.is ELSE Env(t)[n]
      BY <1>3, <1>8, <1>15, <3>1, EnvAdded
    <3> QED BY <1>12, <1>13, <1>15, <1>18, <2>2, <3>2, <3>3
  <2> QED BY <2>1, <2>2
<1>19. ~(k # 0 /\ s[k].is.def) => ~Env(s)[n].def
  BY <1>3 DEF Env, Unknown, k
<1>20. ASSUME ~Stops PROVE LineMeans(Env(symbs'))
  <2>1. ~r.trap /\ ~(k # 0 /\ s[k].is.def) /\ symbs' = IF k # 0 THEN SetEntry(t, k, meaning) ELSE Append(t, new)
    BY <1>2, <1>20 DEF new
  <2>2. \A m \in Names : m # n => Env(symbs')[m] = Env(s)[m]
    BY <1>18, <2>1
  <2>3. n \notin NamesIn(e) => Env(symbs')[n] = meaning
    BY <1>3, <1>18, <2>1
  <2>4. n \in Names /\ ~Env(s)[n].def /\ ~r.trap
    BY <1>3, <1>19, <2>1
  <2>5. \A m \in Names : ~SetsName(m) => Env(symbs')[m] = Env(AtLine)[m]
    BY <1>1, <2>2 DEF SetsName, s, n
  <2>6. /\ line.name \in Names /\ ~Env(AtLine)[line.name].def /\ ~Eval(line.args[1], Env(AtLine)).trap
        /\ line.name \notin NamesIn(line.args[1]) =>
             Env(symbs')[line.name] = IF Eval(line.args[1], Env(AtLine)).ok
                                      THEN Holds(Eval(line.args[1], Env(AtLine)).val) ELSE Text(line.args[1])
    BY <2>3, <2>4 DEF s, n, e, r, meaning
  <2> QED BY <2>5, <2>6 DEF LineMeans
<1> QED BY <1>20

(* Every line but .set leaves the meanings behind its label.               *)
LEMMA LineEnv ==
  ASSUME PlaceInv, pc = "pass1" => Linked(symbs, Said(at, at)), LineAction \/ endDirective,
         pc' \notin {"fatal", "crash"}
  PROVE  LineMeans(Env(symbs'))
<1>1. ~Stops
  BY DEF Stops, Stop
<1>2. CASE setDirective
  <2>1. pc = "pass1"
    BY <1>2 DEF setDirective, Reads
  <2> QED BY <1>1, <1>2, <2>1, EnvSet
<1>3. CASE ~setDirective
  <2> DEFINE zero == Eval(line.args[1], Env(AtLine))
             Others == {"label", "section", "glob", "end", "values", "literal", "zero", "fill", "align", "plain",
                        "I", "M", "Bc", "Bi", "ld"}
  <2>1. /\ Reads(Others)
        /\ \/ symbs' = AtLine
           \/ Reads({"glob"}) /\ symbs' = Glob(AtLine, line.name)
           \/ Reads({"zero", "ld"}) /\ symbs' = After(AtLine, zero)
    <3>1. LabelLine \/ SectionDirective \/ endDirective \/ valuesDirective \/ literalDirective
          => Reads(Others) /\ symbs' = AtLine
      BY <1>1 DEF LabelLine, SectionDirective, endDirective, valuesDirective, literalDirective, Stops, Reads
    <3>2. globDirective => Reads({"glob"}) /\ symbs' = Glob(AtLine, line.name)
      BY DEF globDirective
    <3>3. zeroDirective => Reads({"zero"}) /\ symbs' = After(AtLine, zero)
      <4> HIDE DEF zero
      <4> QED BY <1>1 DEF zeroDirective, Stops, zero
    <3>4. fillDirective => Reads({"fill"}) /\ symbs' = AtLine
      BY <1>1 DEF fillDirective, Stops
    <3>5. handleInstruction => Reads(Kinds \cup {"plain"}) /\ symbs' = AtLine
      BY <1>1 DEF handleInstruction, AddInstrs, Stops
    <3>6. handleLd => Reads({"ld"}) /\ symbs' = After(AtLine, zero)
      <4> HIDE DEF zero
      <4> QED BY <1>1 DEF handleLd, AddInstrs, Stops, zero
    <3> HIDE DEF zero
    <3>7. Reads({"glob"}) \/ Reads({"zero"}) \/ Reads({"fill"}) \/ Reads({"ld"}) \/ Reads(Kinds \cup {"plain"})
          => Reads(Others)
      BY DEF Reads, Kinds
    <3>8. Reads({"zero"}) \/ Reads({"ld"}) => Reads({"zero", "ld"})
      BY DEF Reads
    <3> HIDE DEF Others
    <3> QED BY <1>3, <3>1, <3>2, <3>3, <3>4, <3>5, <3>6, <3>7, <3>8 DEF LineAction
  <2>2. TypeInv /\ active \in Sections
    BY DEF PlaceInv, TypeInv, VectorInv, Inv
  <2>3. line.op # "set" /\ AtLine \in SymbolTables
    <3>1. line.op \in Others /\ AtLine \in SymbolTables
      <4> HIDE DEF Others
      <4> QED BY <2>1, <2>2, LineTypes
    <3> QED BY <3>1
  <2>4. ASSUME NEW n \in Names PROVE Env(symbs')[n] = Env(AtLine)[n]
    <3>1. CASE symbs' = AtLine
      BY <3>1
    <3>2. CASE Reads({"glob"}) /\ symbs' = Glob(AtLine, line.name)
      <4>1. WellFormed(line) /\ line.op = "glob"
        <5>1. WellFormed(line) /\ line.op \in {"glob"}
          BY <2>2, <3>2, LineTypes
        <5> QED BY <5>1
      <4>2. line.name \in Names
        BY <4>1 DEF WellFormed
      <4> QED BY <2>2, <2>3, <3>2, <4>2, EnvGlob
    <3>3. CASE Reads({"zero", "ld"}) /\ symbs' = After(AtLine, zero)
      <4>1. WellFormed(line) /\ line.op \in {"zero", "ld"} /\ \A j \in 1 .. Len(line.args) : line.args[j] \in Expr
        BY <2>2, <3>3, LineTypes
      <4>2. Len(line.args) = 1
        BY <4>1 DEF WellFormed
      <4>3. line.args[1] \in Expr
        BY <4>1, <4>2
      <4>4. zero \in Lexer
        BY <2>3, <4>3, EvalInTable
      <4> HIDE DEF zero
      <4> QED BY <2>3, <3>3, <4>4, EnvAfter
    <3> QED BY <2>1, <3>1, <3>2, <3>3
  <2> QED BY <2>3, <2>4 DEF LineMeans
<1> QED BY <1>2, <1>3

-----------------------------------------------------------------------------
(* What the source means if its names have the values W.                   *)

Worth == [Names -> Word]
Vals(W, lpAt) == [n \in Names \cup {LP} |-> IF n = LP THEN lpAt ELSE W[n]]
Den(W, e, lpAt) == Denotes(Vals(W, lpAt))[e]
IsExpr(W, j) ==
  LET e == At(j).args[1] IN Den(W, e, 0) # {} /\ (Uses(e, LP) => ~Uses(e, "/"))
Known1(W, m, j) ==
  \E i \in 1 .. j : /\ Defs(m) = {i}
                    /\ i \in Sets(m) => i # j /\ IsExpr(W, i) /\ NamesIn(At(i).args[1]) = {}
TameIn(W, j) == IsExpr(W, j) /\ \A m \in NamesIn(At(j).args[1]) : Known1(W, m, j)
Known2(W, m, j) == \E i \in 1 .. j : Defs(m) = {i} /\ (i \in Sets(m) => TameIn(W, i))
MeasuredIn(W, j) ==
  LET e == At(j).args[1] IN
  /\ IsExpr(W, j) /\ ~Uses(e, LP)
  /\ At(j).op = "fill" => NamesIn(e) = {}
  /\ \A m \in NamesIn(e) : Known2(W, m, j)
LengthIn(W, j) ==
  CASE At(j).op = "values" -> At(j).n * Len(At(j).args)
    [] At(j).op = "literal" -> At(j).n
    [] At(j).op \in {"zero", "fill"} -> CHOOSE v \in Den(W, At(j).args[1], 0) : TRUE
    [] At(j).op = "ld" -> IF At(j).n = 1 THEN 20 ELSE 24
    [] OTHER -> 0
CountedIn(W, s, j) ==
  (IF SectionAt(j) = s THEN LengthIn(W, j) ELSE 0)
    + IF IsInstr(j) /\ s = (IF SectionAt(j) = EVT THEN EVT ELSE TEXT) THEN 4 ELSE 0
PointerIn(W, s, j) ==
  LET behind[i \in 0 .. j - 1] ==
        IF i = 0 THEN Starts[file.kern][s] ELSE behind[i - 1] + CountedIn(W, s, i)
  IN  behind[j - 1]
AddressIn(W, j) == PointerIn(W, SectionAt(j), j)

(* 0, and what wraps, are words; values of names are values.               *)
LEMMA WorthTypes ==
  /\ 0 \in Word
  /\ \A W \in Worth, v \in Word : Vals(W, v) \in Valuation
<1>1. 0 \in Word /\ Word \subseteq Int
  BY Words
<1> QED BY <1>1 DEF Valuation, Worth, Vals

(* The location pointer moves with each line.                              *)
LEMMA PointerSteps ==
  ASSUME NEW W, NEW s \in Sections, NEW j \in Nat, file.kern \in BOOLEAN,
         \A i \in 1 .. j : CountedIn(W, s, i) \in Int
  PROVE  /\ PointerIn(W, s, 1) = Starts[file.kern][s]
         /\ j > 0 => PointerIn(W, s, j + 1) = PointerIn(W, s, j) + CountedIn(W, s, j)
<1> DEFINE x == Starts[file.kern][s]
           b(i) == CountedIn(W, s, i)
           F == [i \in 1 .. j |-> [v \in Int |-> v + b(i)]]
<1>1. x \in Int
  BY StartsAssumption
<1>2. Steps(F, 1 .. j, Int)
  <2>1. \A i \in 1 .. j : b(i) \in Int
    OBVIOUS
  <2> HIDE DEF b
  <2>2. \A i \in 1 .. j : [v \in Int |-> v + b(i)] \in [Int -> Int]
    BY <2>1
  <2> QED BY <2>2 DEF Steps
<1>3. \A i \in 1 .. j : \A v \in Int : F[i][v] = v + b(i)
  OBVIOUS
<1> HIDE DEF F, x
<1>4. PICK h \in [0 .. j -> Int] : h[0] = x /\ \A i \in 1 .. j : h[i] = F[i][h[i - 1]]
  <2> DEFINE S == Int
             N == j
  <2>1. x \in S /\ N \in Nat /\ Steps(F, 1 .. N, S)
    BY <1>1, <1>2
  <2> HIDE DEF S, N
  <2>2. \E h \in [0 .. N -> S] : h[0] = x /\ \A n \in 1 .. N : h[n] = F[n][h[n - 1]]
    BY ONLY <2>1, BoundedRecursionExists
  <2> QED BY ONLY <2>2 DEF S, N
<1>5. ASSUME NEW i \in 1 .. j PROVE h[i] = h[i - 1] + b(i)
  <2>1. i - 1 \in 0 .. j
    OBVIOUS
  <2> QED BY <1>3, <1>4, <2>1
<1>6. ASSUME NEW m \in 1 .. j + 1 PROVE PointerIn(W, s, m) = h[m - 1]
  <2> DEFINE Body(f) == [i \in 0 .. m - 1 |-> IF i = 0 THEN x ELSE f[i - 1] + b(i)]
             g == [i \in 0 .. m - 1 |-> h[i]]
             c == CHOOSE f : f = Body(f)
  <2> HIDE DEF b
  <2>1. m - 1 \in 0 .. j /\ m - 1 \in Nat
    OBVIOUS
  <2>2. g = Body(g)
    <3>1. ASSUME NEW i \in 0 .. m - 1 PROVE h[i] = IF i = 0 THEN x ELSE g[i - 1] + b(i)
      <4>1. i # 0 => i \in 1 .. j /\ i - 1 \in 0 .. m - 1
        OBVIOUS
      <4> QED BY <1>4, <1>5, <4>1
    <3> QED BY <3>1
  <2>3. c = Body(c)
    <3> HIDE DEF Body, g
    <3> QED BY <2>2, Zenon
  <2>4. PointerIn(W, s, m) = c[m - 1]
    BY DEF PointerIn, x, b
  <2> HIDE DEF c
  <2> DEFINE T == {i \in 0 .. m - 1 : c[i] = h[i]}
  <2>5. 0 \in T
    BY <1>4, <2>1, <2>3
  <2>6. ASSUME NEW i \in 0 .. (m - 1) - 1, i \in T PROVE i + 1 \in T
    <3>1. i + 1 \in 1 .. j /\ i + 1 \in 0 .. m - 1 /\ (i + 1) - 1 = i /\ i + 1 # 0
      OBVIOUS
    <3>2. c[i + 1] = c[i] + b(i + 1)
      BY <2>3, <3>1
    <3>3. h[i + 1] = h[i] + b(i + 1)
      BY <1>5, <3>1
    <3> QED BY <2>6, <3>1, <3>2, <3>3
  <2>7. 0 .. m - 1 \subseteq T
    <3> HIDE DEF T
    <3> QED BY <2>1, <2>5, <2>6, BoundedInduction
  <2>8. c[m - 1] = h[m - 1]
    BY <2>1, <2>7
  <2> QED BY <2>4, <2>8
<1>7. PointerIn(W, s, 1) = h[0]
  BY <1>6
<1>8. ASSUME j > 0 PROVE PointerIn(W, s, j + 1) = h[j] /\ PointerIn(W, s, j) = h[j - 1] /\ h[j] = h[j - 1] + b(j)
  <2>1. j + 1 \in 1 .. j + 1 /\ (j + 1) - 1 = j /\ j \in 1 .. j + 1 /\ j \in 1 .. j
    BY <1>8
  <2> QED BY <1>5, <1>6, <2>1
<1> QED BY <1>4, <1>7, <1>8 DEF x

(* Where the names of an expression are known, and it has a meaning, the   *)
(* evaluator finds it.                                                     *)
Firm(env, n) == env[n].def /\ ~env[n].isExpr
LEMMA EvalKnown ==
  ASSUME NEW env \in [Names \cup {LP} -> Meaning], NEW e \in Expr, NEW W \in Worth, NEW v \in Word,
         \A m \in NamesIn(e) : Firm(env, m) /\ env[m].value = W[m],
         Uses(e, LP) => ~Uses(e, "/") /\ Firm(env, LP) /\ env[LP].value = v,
         Den(W, e, 0) # {}, ~Eval(e, env).trap
  PROVE  Eval(e, env).ok /\ Den(W, e, v) = {Eval(e, env).val}
<1> DEFINE a == Vals(W, 0)
           b == Vals(W, v)
<1>1. a \in Valuation /\ b \in Valuation
  BY WorthTypes
<1>2. Len(e) \in Nat /\ DOMAIN e = 1 .. Len(e) /\ \A i \in 1 .. Len(e) : e[i] \in Token
  BY LenProperties, ElementOfSeq DEF Expr
<1>3. ASSUME NEW i \in 1 .. Len(e), e[i].type = "SYMB"
      PROVE  /\ e[i].text \in Names \cup {LP}
             /\ e[i].text # LP => e[i].text \in NamesIn(e) /\ e[i].text \in Names
             /\ e[i].text = LP => Uses(e, LP)
  <2>1. e[i].text \in Names \cup {LP}
    BY <1>2, <1>3 DEF Token
  <2>2. e[i].text # LP => e[i].text \in NamesIn(e)
    BY <1>2, <1>3 DEF NamesIn
  <2>3. e[i].text = LP => Uses(e, LP)
    BY <1>2, <1>3 DEF Uses
  <2> QED BY <2>1, <2>2, <2>3
<1>4. \A n \in Names \cup {LP} : a[n] = (IF n = LP THEN 0 ELSE W[n]) /\ b[n] = (IF n = LP THEN v ELSE W[n])
  BY DEF Vals
<1>5. Denotes(b)[e] # {}
  <2>1. CASE Uses(e, LP)
    <3>1. NoQuotient(Tokens(e))
      BY <1>2, <2>1 DEF NoQuotient, Tokens, Uses
    <3>2. Denotes(a)[e] # {}
      BY DEF Den
    <3> HIDE DEF a, b
    <3> QED BY <1>1, <3>1, <3>2, MeaningDepends
  <2>2. CASE ~Uses(e, LP)
    <3>1. SameNames(a, b, Tokens(e))
      <4> HIDE DEF a, b
      <4> QED BY <1>3, <1>4, <2>2 DEF SameNames, Tokens
    <3>2. Denotes(a)[e] # {}
      BY DEF Den
    <3> HIDE DEF a, b
    <3> QED BY <1>1, <3>1, <3>2, MeaningDepends
  <2> QED BY <2>1, <2>2
<1> HIDE DEF a, b
<1>6. Knows(env, b, e)
  <2> SUFFICES ASSUME NEW i \in 1 .. Len(e), e[i].type = "SYMB"
               PROVE  /\ env[e[i].text].def /\ ~env[e[i].text].isExpr
                      /\ env[e[i].text].value = b[e[i].text]
    BY DEF Knows
  <2>1. CASE e[i].text = LP
    BY <1>3, <1>4, <2>1 DEF Firm
  <2>2. CASE e[i].text # LP
    BY <1>3, <1>4, <2>2 DEF Firm
  <2> QED BY <2>1, <2>2
<1>7. Eval(e, env).ok /\ Denotes(b)[e] = {Eval(e, env).val}
  BY <1>1, <1>5, <1>6, EvaluatorEnds
<1> QED BY <1>7 DEF Den, b

(* Without the location pointer a meaning does not depend on it.           *)
LEMMA DenAnywhere ==
  ASSUME NEW e \in Expr, ~Uses(e, LP), NEW W \in Worth, NEW v \in Word
  PROVE  Den(W, e, v) = Den(W, e, 0)
<1> DEFINE a == Vals(W, 0)
           b == Vals(W, v)
<1>1. a \in Valuation /\ b \in Valuation
  BY WorthTypes
<1>2. SameNames(a, b, Tokens(e))
  <2> SUFFICES ASSUME NEW i \in 1 .. Len(e), e[i].type = "SYMB" PROVE a[e[i].text] = b[e[i].text]
    BY DEF SameNames, Tokens
  <2>1. DOMAIN e = 1 .. Len(e) /\ e[i] \in Token
    BY LenProperties, ElementOfSeq DEF Expr
  <2>2. e[i].text # LP
    BY <2>1 DEF Uses
  <2>3. e[i].text \in Names \cup {LP}
    BY <2>1 DEF Token
  <2> QED BY <2>2, <2>3 DEF Vals
<1> HIDE DEF a, b
<1>3. Denotes(a)[e] = Denotes(b)[e]
  BY <1>1, <1>2, MeaningDepends
<1> QED BY <1>3 DEF Den, a, b

(* A name that has a meaning has a definition in front.                    *)
LEMMA DefinedBefore ==
  ASSUME symbs \in SymbolTables, NEW u, Linked(symbs, Said(u, u)), NEW n \in Names,
         Env(symbs)[n].def \/ Env(symbs)[n].isExpr
  PROVE  \E j \in Defs(n) : j < u
<1> DEFINE k == getSymbEntry(symbs, n)
           said == Said(u, u)
<1>1. k # 0 /\ Env(symbs)[n] = symbs[k].is
  BY DEF Env, Unknown
<1>2. k \in 1 .. Len(symbs) /\ symbs[k].name = n /\ k # 1 /\ Len(symbs) \in Nat
  BY <1>1, EntryKnown, TableSteps
<1>3. k \in 2 .. Len(symbs)
  BY <1>2
<1> HIDE DEF k, said
<1>4. said[n].defs # {}
  BY <1>1, <1>2, <1>3 DEF Linked, Entered, said
<1>5. said[n].defs = InFront(Labels(n), u) \cup InFront(Sets(n), u)
  BY DEF said, Said, Account
<1> QED BY <1>4, <1>5 DEF InFront, Defs

-----------------------------------------------------------------------------
(* The values of the symbols, where the lines in front of u are behind.    *)

(* W is what the names can still come to mean: a name that is known and is *)
(* not defined again has its value.                                        *)
Possible(W, env, u) ==
  \A n \in Names : Firm(env, n) /\ (\A j \in Defs(n) : j < u) => env[n].value = W[n]

(* What is known: a label that is defined once, a .set that is tame.       *)
LabelsFirm(env, u) ==
  \A n \in Names : \A i \in Labels(n) : i < u /\ Defs(n) = {i} => Firm(env, n)
SetsFirm(W, env, u) ==
  \A n \in Names : \A j \in Sets(n) : j < u /\ TameIn(W, j) => Firm(env, n)

(* All lengths in front of u are known.                                    *)
AllMeasured(W, u) ==
  \A j \in Source : j < u /\ At(j).op \in {"zero", "fill"} => MeasuredIn(W, j)

(* The values that labels and tame .sets have.                             *)
LabelsMean(W, env, u) ==
  \A n \in Names : InFront(Labels(n), u) # {} =>
    \/ env[n] = Text(BadPointer)
    \/ Firm(env, n) /\ env[n].value = Wrap(AddressIn(W, Max(InFront(Labels(n), u))))
SetsMean(W, env, u) ==
  \A n \in Names : InFront(Labels(n), u) = {} => \A j \in Sets(n) :
    LET d == Den(W, At(j).args[1], Wrap(AddressIn(W, j))) IN
    j < u /\ TameIn(W, j) /\ d # {} => env[n].value \in d

NoShort(q) == \A i \in 1 .. Len(q) : ~(q[i].instr = "ld" /\ q[i].rs = "ir")

(* The invariant, of whatever the names can still come to mean; q: the     *)
(* instructions, p: the location pointers, u: the line that is next.       *)
Means(q, p, W, env, u) ==
  /\ SetsFirm(W, env, u)
  /\ NoShort(q) /\ AllMeasured(W, u) =>
       /\ LabelsMean(W, env, u) /\ SetsMean(W, env, u)
       /\ u <= Len(file.lines) => \A s \in Sections : p[s] = PointerIn(W, s, u)
AllMean(q, p, env, u) ==
  LabelsFirm(env, u) /\ \A W \in Worth : Possible(W, env, u) => Means(q, p, W, env, u)
SymInv == LinkInv /\ (pc \notin {"fatal", "crash"} => AllMean(instrs, lp, Env(symbs), Upto))

(* A name that is known for good where a line uses it.                     *)
LEMMA KnownHere ==
  ASSUME PlaceInv, pc = "pass1", at <= Len(file.lines), Linked(symbs, Said(at, at)),
         NEW W \in Worth, LabelsFirm(Env(symbs), at), SetsFirm(W, Env(symbs), at),
         NEW F, LineMeans(F), Possible(W, F, at + 1),
         NEW m \in Names, NEW i \in 1 .. at, Defs(m) = {i}, i \in Sets(m) => i # at /\ TameIn(W, i)
  PROVE  Firm(Env(AtLine), m) /\ Env(AtLine)[m].value = W[m]
<1> DEFINE E == Env(symbs)
           L == Env(AtLine)
<1>1. /\ at \in Source /\ at \in Nat /\ line \in Line /\ TypeInv /\ symbs \in SymbolTables
      /\ at \in Labels(m) <=> line.label = m
      /\ at \in Sets(m) <=> SetsName(m)
  BY SourceLines DEF SetsName, PlaceInv, TypeInv, Types
<1>2. L[m] = IF m # line.label THEN E[m]
             ELSE IF E[m].isExpr THEN Text(BadPointer) ELSE Holds(lp[active])
  BY <1>1, EnvAtLine
<1>3. (E[m].def \/ E[m].isExpr) => \E j \in Defs(m) : j < at
  BY <1>1, DefinedBefore
<1>4. i \in Labels(m) \/ i \in Sets(m)
  BY DEF Defs
<1> HIDE DEF E, L
<1>5. ~SetsName(m)
  <2>1. SetsName(m) => at \in Defs(m)
    BY <1>1 DEF Defs
  <2> QED BY <1>1, <2>1
<1>6. F[m] = L[m]
  BY <1>5 DEF LineMeans, L
<1>7. Firm(L, m)
  <2>1. CASE i < at
    <3>1. Firm(E, m)
      BY <1>1, <1>4, <2>1 DEF LabelsFirm, SetsFirm, E
    <3>2. line.label # m
      <4>1. line.label = m => at \in Defs(m)
        BY <1>1 DEF Defs
      <4> QED BY <2>1, <4>1
    <3> QED BY <1>2, <3>1, <3>2 DEF Firm
  <2>2. CASE i = at
    <3>1. line.label = m
      BY <1>1, <1>4, <2>2
    <3>2. ~E[m].isExpr
      BY <1>1, <1>3, <2>2
    <3> QED BY <1>2, <3>1, <3>2 DEF Firm, Holds
  <2> QED BY <1>1, <2>1, <2>2
<1>8. \A j \in Defs(m) : j < at + 1
  BY <1>1
<1>9. F[m].value = W[m]
  BY <1>6, <1>7, <1>8 DEF Possible, Firm
<1> QED BY <1>6, <1>7, <1>9 DEF L

(* A word does not wrap. *)
LEMMA WrapWord == \A v \in Word : Wrap(v) = v
<1> SUFFICES ASSUME NEW v \in Word PROVE Wrap(v) = v
  OBVIOUS
<1>1. Wrap(v + 0 * Modulus) = v
  BY WrapIs
<1>2. v \in Int /\ Modulus \in Int
  BY Words
<1>3. v + 0 * Modulus = v
  BY <1>2
<1> QED BY <1>1, <1>3

(* A .set that is tame is known at its line, and has what it means there.  *)
LEMMA SetHere ==
  ASSUME PlaceInv, pc = "pass1", at <= Len(file.lines), Linked(symbs, Said(at, at)),
         NEW W \in Worth, LabelsFirm(Env(symbs), at), SetsFirm(W, Env(symbs), at),
         NEW F, LineMeans(F), Possible(W, F, at + 1), line.op = "set", TameIn(W, at)
  PROVE  /\ Firm(F, line.name) /\ ~Env(AtLine)[line.name].def
         /\ Den(W, line.args[1], Wrap(lp[active])) = {F[line.name].value}
<1> DEFINE e == line.args[1]
           L == Env(AtLine)
           r == Eval(e, L)
           n == line.name
<1>1. /\ at \in Source /\ at \in Nat /\ line \in Line /\ WellFormed(line) /\ TypeInv
      /\ at \in Sets(n)
      /\ lp[active] \in Int
  BY SourceLines, PlaceState DEF PlaceInv
<1>2. n \in Names /\ e \in Expr
  <2>1. line.name \in Names /\ Len(line.args) = 1 /\ line.args \in Seq(Expr)
    BY <1>1 DEF WellFormed, Line
  <2> QED BY <2>1, ElementOfSeq
<1>3. AtLine \in SymbolTables /\ L[LP] = Holds(lp[active]) /\ L \in [Names \cup {LP} -> Meaning]
  <2>1. AtLine \in SymbolTables /\ L[LP] = Holds(lp[active])
    BY <1>1, <1>2, EnvAtLine
  <2>2. L \in [Names \cup {LP} -> Meaning]
    BY <2>1, EnvType, TableSteps
  <2> QED BY <2>1, <2>2
<1>4. ~L[n].def /\ ~r.trap /\ (n \notin NamesIn(e) => F[n] = IF r.ok THEN Holds(r.val) ELSE Text(e))
  BY DEF LineMeans
<1>5. IsExpr(W, at) /\ \A m \in NamesIn(e) : Known1(W, m, at)
  BY DEF TameIn, line, At
<1>6. NamesIn(e) \subseteq Names
  <2> SUFFICES ASSUME NEW i \in DOMAIN e, e[i].type = "SYMB", e[i].text # LP PROVE e[i].text \in Names
    BY DEF NamesIn
  <2>1. e[i] \in Token
    BY <1>2, LenProperties, ElementOfSeq DEF Expr
  <2> QED BY <2>1 DEF Token
<1>7. ASSUME NEW m \in NamesIn(e)
      PROVE  /\ Firm(L, m) /\ L[m].value = W[m]
             /\ m # n
  <2>1. PICK i \in 1 .. at : Defs(m) = {i} /\ (i \in Sets(m) => i # at /\ IsExpr(W, i) /\ NamesIn(At(i).args[1]) = {})
    BY <1>5, <1>7 DEF Known1
  <2>2. i \in Sets(m) => i # at /\ TameIn(W, i)
    BY <2>1 DEF TameIn
  <2>3. m # n
    BY <1>1, <2>1 DEF Defs
  <2>4. Firm(Env(AtLine), m) /\ Env(AtLine)[m].value = W[m]
    BY <1>6, <1>7, <2>1, <2>2, KnownHere
  <2> QED BY <2>3, <2>4
<1> DEFINE v == Wrap(lp[active])
<1>8. v \in Word /\ Firm(L, LP) /\ L[LP].value = v
  <2>1. v \in Word
    BY <1>1, Words
  <2> QED BY <1>3, <2>1 DEF Firm, Holds
<1>9. Den(W, e, 0) # {} /\ (Uses(e, LP) => ~Uses(e, "/"))
  BY <1>5 DEF IsExpr, line, At
<1>10. r.val \in Word
  BY <1>2, <1>3, EvalInTable
<1> HIDE DEF e, L, n, v
<1>11. r.ok /\ Den(W, e, v) = {r.val}
  BY <1>2, <1>3, <1>4, <1>7, <1>8, <1>9, EvalKnown
<1> HIDE DEF r
<1>12. F[n] = Holds(r.val)
  BY <1>4, <1>7, <1>11
<1>13. Firm(F, n) /\ F[n].value = r.val
  BY <1>10, <1>12, WrapWord DEF Firm, Holds
<1> QED BY <1>4, <1>11, <1>13 DEF e, L, n, v

(* The length of a .zero is known at its line. *)
LEMMA ZeroHere ==
  ASSUME PlaceInv, pc = "pass1", at <= Len(file.lines), Linked(symbs, Said(at, at)),
         NEW W \in Worth, LabelsFirm(Env(symbs), at), SetsFirm(W, Env(symbs), at),
         NEW F, LineMeans(F), Possible(W, F, at + 1), line.op = "zero", MeasuredIn(W, at),
         ~Eval(line.args[1], Env(AtLine)).trap
  PROVE  LengthIn(W, at) = Eval(line.args[1], Env(AtLine)).val
<1> DEFINE e == line.args[1]
           L == Env(AtLine)
           r == Eval(e, L)
<1>1. /\ at \in Source /\ at \in Nat /\ line \in Line /\ WellFormed(line) /\ TypeInv
      /\ \A m : at \notin Sets(m)
  BY SourceLines DEF PlaceInv
<1>2. e \in Expr
  <2>1. Len(line.args) = 1 /\ line.args \in Seq(Expr)
    BY <1>1 DEF WellFormed, Line
  <2> QED BY <2>1, ElementOfSeq
<1>3. AtLine \in SymbolTables /\ L \in [Names \cup {LP} -> Meaning]
  <2>1. AtLine \in SymbolTables
    BY <1>1, LineTypes DEF Reads
  <2>2. L \in [Names \cup {LP} -> Meaning]
    BY <2>1, EnvType, TableSteps
  <2> QED BY <2>1, <2>2
<1>5. IsExpr(W, at) /\ ~Uses(e, LP) /\ \A m \in NamesIn(e) : Known2(W, m, at)
  BY DEF MeasuredIn, line, At
<1>6. NamesIn(e) \subseteq Names
  <2> SUFFICES ASSUME NEW i \in DOMAIN e, e[i].type = "SYMB", e[i].text # LP PROVE e[i].text \in Names
    BY DEF NamesIn
  <2>1. e[i] \in Token
    BY <1>2, LenProperties, ElementOfSeq DEF Expr
  <2> QED BY <2>1 DEF Token
<1>7. ASSUME NEW m \in NamesIn(e)
      PROVE  Firm(L, m) /\ L[m].value = W[m]
  <2>1. PICK i \in 1 .. at : Defs(m) = {i} /\ (i \in Sets(m) => TameIn(W, i))
    BY <1>5, <1>7 DEF Known2
  <2>2. i \in Sets(m) => i # at /\ TameIn(W, i)
    BY <1>1, <2>1
  <2>3. Firm(Env(AtLine), m) /\ Env(AtLine)[m].value = W[m]
    BY <1>6, <1>7, <2>1, <2>2, KnownHere
  <2> QED BY <2>3
<1>8. Den(W, e, 0) # {}
  BY <1>5 DEF IsExpr, line, At
<1>9. 0 \in Word
  BY WorthTypes
<1> HIDE DEF e, L
<1>10. Den(W, e, 0) = {r.val}
  BY <1>2, <1>3, <1>5, <1>7, <1>8, <1>9, EvalKnown DEF e, L
<1>11. LengthIn(W, at) = CHOOSE v \in Den(W, e, 0) : TRUE
  BY DEF LengthIn, e, line, At
<1> QED BY <1>10, <1>11 DEF e, L

(* So is that of a .fill. *)
LEMMA FillHere ==
  ASSUME PlaceInv, pc = "pass1", at <= Len(file.lines), NEW W \in Worth,
         line.op = "fill", MeasuredIn(W, at), ~Eval(line.args[1], NoTable).trap
  PROVE  LengthIn(W, at) = Eval(line.args[1], NoTable).val
<1> DEFINE e == line.args[1]
<1>1. line \in Line /\ WellFormed(line)
  BY SourceLines
<1>2. e \in Expr
  <2>1. Len(line.args) = 2 /\ line.args \in Seq(Expr)
    BY <1>1 DEF WellFormed, Line
  <2> QED BY <2>1, ElementOfSeq
<1>3. NoTable \in [Names \cup {LP} -> Meaning]
  <2>1. Text(BadPointer) \in Meaning
    BY MeaningTypes, TokenTypes
  <2> QED BY <2>1 DEF NoTable
<1>4. Den(W, e, 0) # {} /\ ~Uses(e, LP) /\ NamesIn(e) = {}
  BY DEF MeasuredIn, IsExpr, line, At
<1>5. 0 \in Word
  BY WorthTypes
<1> HIDE DEF e
<1>6. Den(W, e, 0) = {Eval(e, NoTable).val}
  BY <1>2, <1>3, <1>4, <1>5, EvalKnown DEF e
<1>7. LengthIn(W, at) = CHOOSE v \in Den(W, e, 0) : TRUE
  BY DEF LengthIn, e, line, At
<1> QED BY <1>6, <1>7 DEF e

-----------------------------------------------------------------------------
(* What a line does to the location pointers. *)

(* By how much the line's directive or the handler of ld moves that of the *)
(* active section.                                                         *)
SizeHere ==
  CASE line.op = "values"  -> line.n * Len(line.args)
    [] line.op = "literal" -> line.n
    [] line.op = "zero"    -> Eval(line.args[1], Env(AtLine)).val
    [] line.op = "fill"    -> Eval(line.args[1], NoTable).val
    [] line.op = "ld"      -> IF line.n = 1 THEN 20 ELSE 24
    [] OTHER -> 0
Moved ==
  \A s \in Sections :
    lp'[s] = lp[s] + (IF s = active THEN SizeHere ELSE 0)
                   + IF IsInstr(at) /\ s = (IF active = EVT THEN EVT ELSE TEXT) THEN 4 ELSE 0
(* An expression for a length has been evaluated. *)
Sized ==
  /\ line.op = "zero" => ~Eval(line.args[1], Env(AtLine)).trap
  /\ line.op = "fill" => ~Eval(line.args[1], NoTable).trap

(* The end of a line that is not fatal. *)
LEMMA LineEnds ==
  ASSUME PlaceInv, pc = "pass1", NEW a, NEW s \in Streams, EndLine(a, s), pc' # "fatal"
  PROVE  /\ UNCHANGED file /\ at' = at + 1 /\ pc' = "pass1"
         /\ NoShort(instrs') => NoShort(s)
<1>1. at \in Nat
  BY PlaceState
<1>2. /\ UNCHANGED file /\ at' = at + 1 /\ pc' = "pass1"
      /\ instrs' = s \/ instrs' = Append(s, Marker)
  BY DEF EndLine
<1>3. NoShort(Append(s, Marker)) => NoShort(s)
  <2> DEFINE t == Append(s, Marker)
  <2>1. Len(s) \in Nat /\ Len(t) = Len(s) + 1 /\ \A i \in 1 .. Len(s) : t[i] = s[i]
    BY StreamSteps, AppendProperties
  <2> HIDE DEF t
  <2>2. NoShort(t) => NoShort(s)
    BY <2>1 DEF NoShort
  <2> QED BY <2>2 DEF t
<1> QED BY <1>2, <1>3

(* New instructions take no short form away. *)
LEMMA NoShortParts ==
  ASSUME NEW q \in Streams, NEW new \in Seq(Plain), NoShort(q \o new)
  PROVE  NoShort(q) /\ NoShort(new)
<1> DEFINE t == q \o new
<1>1. /\ Len(q) \in Nat /\ Len(new) \in Nat /\ Len(t) = Len(q) + Len(new)
      /\ \A i \in 1 .. Len(q) : t[i] = q[i]
      /\ \A i \in 1 .. Len(new) : t[Len(q) + i] = new[i]
  BY StreamSteps, ConcatProperties, LenProperties
<1>2. NoShort(t)
  OBVIOUS
<1> HIDE DEF t
<1>3. \A i \in 1 .. Len(new) : Len(q) + i \in 1 .. Len(t)
  BY <1>1
<1>4. \A i \in 1 .. Len(q) : i \in 1 .. Len(t)
  BY <1>1
<1> QED BY <1>1, <1>2, <1>3, <1>4 DEF NoShort

(* Lines without an item or an instruction move nothing. *)
LEMMA QuietMoves ==
  ASSUME PlaceInv, LabelLine \/ SectionDirective \/ setDirective \/ globDirective \/ endDirective,
         pc' \notin {"fatal", "crash"}
  PROVE  /\ pc = "pass1" /\ at <= Len(file.lines) /\ UNCHANGED file /\ pc' = "pass1"
         /\ Sized /\ Moved /\ (NoShort(instrs') => NoShort(instrs))
<1> DEFINE Quiet == {"label", "align", "section", "set", "glob", "end"}
<1>1. Reads(Quiet)
  BY DEF LabelLine, SectionDirective, setDirective, globDirective, endDirective, Reads
<1>2. TypeInv
  BY DEF PlaceInv
<1>3. line.op \in Quiet /\ pc = "pass1"
  <2> HIDE DEF Quiet
  <2> QED BY <1>1, <1>2, LineTypes
<1>4. at <= Len(file.lines) /\ at \in Nat /\ instrs \in Streams /\ lp \in [Sections -> Int]
  BY <1>1, PlaceState DEF Reads
<1>5. SizeHere = 0 /\ ~IsInstr(at) /\ Sized
  BY <1>3 DEF SizeHere, Sized, IsInstr, At, line, Kinds
<1>6. lp' = lp => Moved
  BY <1>4, <1>5 DEF Moved
<1>7. CASE endDirective
  BY <1>3, <1>4, <1>5, <1>6, <1>7 DEF endDirective
<1>8. CASE ~endDirective
  <2>1. Stops \/ QuietLine
    BY <1>8, QuietSteps
  <2>2. ~Stops
    BY DEF Stops, Stop
  <2>3. lp' = lp /\ \E a : EndLine(a, instrs)
    BY <2>1, <2>2 DEF QuietLine
  <2> QED BY <1>3, <1>4, <1>5, <1>6, <2>3, LineEnds
<1> QED BY <1>7, <1>8

(* An item moves its section. *)
LEMMA ItemMoves ==
  ASSUME PlaceInv, valuesDirective \/ literalDirective \/ zeroDirective \/ fillDirective,
         pc' \notin {"fatal", "crash"}
  PROVE  /\ pc = "pass1" /\ at <= Len(file.lines) /\ UNCHANGED file /\ pc' = "pass1"
         /\ Sized /\ Moved /\ (NoShort(instrs') => NoShort(instrs))
<1>1. TypeInv /\ at \in Nat /\ instrs \in Streams /\ lp \in [Sections -> Int]
  BY PlaceState DEF PlaceInv
<1>2. ~Stops
  BY DEF Stops, Stop
<1>3. pc = "pass1" /\ at <= Len(file.lines)
  BY ItemSteps
<1>4. ASSUME NEW width, NEW args, NEW done, AddItem(SizeHere, width, args, done), SizeHere \in Int, Sized,
             line.op \in {"values", "literal", "zero", "fill"}
      PROVE  /\ UNCHANGED file /\ pc' = "pass1"
             /\ Sized /\ Moved /\ (NoShort(instrs') => NoShort(instrs))
  <2> DEFINE size == SizeHere
  <2>1. size \in Int /\ AddItem(size, width, args, done)
    BY <1>4
  <2> HIDE DEF size
  <2>2. EndLine(active, instrs) /\ \A t \in Sections : lp'[t] = IF t = active THEN lp[t] + size ELSE lp[t]
    BY <2>1, ItemEffect
  <2>3. ~IsInstr(at)
    BY <1>4 DEF IsInstr, At, line, Kinds
  <2>4. \A t \in Sections : lp[t] \in Int
    BY <1>1
  <2>5. \A t \in Sections : lp'[t] = lp[t] + (IF t = active THEN size ELSE 0) + 0
    BY <2>1, <2>2, <2>4
  <2>6. Moved
    BY <2>3, <2>5 DEF Moved, size
  <2> QED BY <1>1, <1>3, <1>4, <2>2, <2>6, LineEnds
<1>5. CASE valuesDirective
  <2>1. /\ WellFormed(line) /\ line.op = "values" /\ line.args \in Seq(Expr)
    <3>1. WellFormed(line) /\ line.op \in {"values"} /\ line.args \in Seq(Expr)
      BY <1>1, <1>5, LineTypes DEF valuesDirective
    <3> QED BY <3>1
  <2>2. AddItem(line.n * Len(line.args), line.n, line.args, FALSE)
    BY <1>2, <1>5 DEF valuesDirective, Stops, SizeOf
  <2>3. line.n * Len(line.args) \in Int
    BY <2>1, LenProperties DEF WellFormed
  <2>4. SizeHere = line.n * Len(line.args) /\ Sized
    BY <2>1 DEF SizeHere, Sized
  <2> QED BY <1>3, <1>4, <2>1, <2>2, <2>3, <2>4
<1>6. CASE literalDirective
  <2>1. line \in Line /\ line.op = "literal"
    <3>1. line \in Line /\ line.op \in {"literal"}
      BY <1>1, <1>6, LineTypes DEF literalDirective
    <3> QED BY <3>1
  <2>2. AddItem(line.n, 1, << >>, TRUE)
    BY <1>2, <1>6 DEF literalDirective, Stops
  <2>3. line.n \in Int
    BY <2>1 DEF Line
  <2>4. SizeHere = line.n /\ Sized
    BY <2>1 DEF SizeHere, Sized
  <2> QED BY <1>3, <1>4, <2>1, <2>2, <2>3, <2>4
<1>7. CASE zeroDirective
  <2> DEFINE r == Eval(line.args[1], Env(AtLine))
             done == ~(r.val < 0)
  <2>1. /\ AtLine \in SymbolTables /\ WellFormed(line) /\ line.op = "zero"
        /\ \A j \in 1 .. Len(line.args) : line.args[j] \in Expr
    <3>1. /\ AtLine \in SymbolTables /\ WellFormed(line) /\ line.op \in {"zero"}
          /\ \A j \in 1 .. Len(line.args) : line.args[j] \in Expr
      BY <1>1, <1>7, LineTypes DEF zeroDirective
    <3> QED BY <3>1
  <2>2. line.args[1] \in Expr
    BY <2>1 DEF WellFormed
  <2>3. r.val \in Int
    <3>1. r.val \in Word
      BY <2>1, <2>2, EvalInTable
    <3> HIDE DEF r
    <3> QED BY <3>1, Words
  <2>4. ~r.trap /\ AddItem(r.val, 1, line.args, done)
    BY <1>2, <1>7 DEF zeroDirective, Stops
  <2>5. SizeHere = r.val /\ Sized
    BY <2>1, <2>4 DEF SizeHere, Sized
  <2> HIDE DEF r, done
  <2>6. AddItem(SizeHere, 1, line.args, done)
    BY <2>4, <2>5
  <2> QED BY <1>3, <1>4, <2>1, <2>3, <2>5, <2>6
<1>8. CASE fillDirective
  <2> DEFINE r == Eval(line.args[1], NoTable)
             values == [i \in 1 .. r.val |-> line.args[2]]
  <2>1. line.op = "fill"
    BY <1>8 DEF fillDirective, Reads, line
  <2>2. ~r.trap /\ r.val \in 1 .. Half /\ AddItem(r.val, 1, values, FALSE)
    BY <1>2, <1>8 DEF fillDirective, Stops
  <2>3. SizeHere = r.val /\ Sized
    BY <2>1, <2>2 DEF SizeHere, Sized
  <2> HIDE DEF r, values
  <2>4. SizeHere \in Int
    BY <2>2, <2>3, Words
  <2>5. AddItem(SizeHere, 1, values, FALSE)
    <3>1. SizeHere = r.val /\ AddItem(r.val, 1, values, FALSE)
      BY <2>2, <2>3
    <3> QED BY ONLY <3>1
  <2> QED BY <1>3, <1>4, <2>1, <2>3, <2>4, <2>5
<1> QED BY <1>3, <1>5, <1>6, <1>7, <1>8

(* So do instructions, whatever the section, and ld on its own account. *)
LEMMA CodeAdds ==
  ASSUME PlaceInv, pc = "pass1", NEW s, NEW new \in Seq(Plain), NEW extra \in Int,
         AddInstrs(s, new, extra), pc' # "fatal", IsInstr(at)
  PROVE  /\ UNCHANGED file /\ pc' = "pass1"
         /\ NoShort(instrs') => NoShort(instrs) /\ NoShort(new)
         /\ extra = SizeHere => Moved
<1> DEFINE here == [lp EXCEPT ![active] = @ + extra]
           c == IF active = EVT THEN EVT ELSE TEXT
<1>1. /\ lp' = [here EXCEPT ![IF evt = "open" THEN EVT ELSE TEXT] = @ + 4]
      /\ EndLine(active, instrs \o new)
  BY DEF AddInstrs
<1>2. evt = "open" <=> active = EVT
  BY DEF PlaceInv, TypeInv, VectorInv, VectorOnce
<1>3. /\ lp \in [Sections -> Int] /\ active \in Sections /\ instrs \in Streams
      /\ TEXT \in Sections /\ EVT \in Sections
  BY PlaceState
<1>4. lp' = [here EXCEPT ![c] = @ + 4]
  BY <1>1, <1>2
<1>5. c \in Sections
  BY <1>3
<1> HIDE DEF c
<1>6. \A t \in Sections : lp'[t] = lp[t] + (IF t = active THEN extra ELSE 0) + IF t = c THEN 4 ELSE 0
  <2>1. here = [t \in Sections |-> IF t = active THEN lp[t] + extra ELSE lp[t]]
    BY ONLY <1>3
  <2> HIDE DEF here
  <2>2. lp' = [t \in Sections |-> IF t = c THEN here[t] + 4 ELSE here[t]]
    BY ONLY <1>4, <1>5, <2>1
  <2>3. \A t \in Sections : lp[t] \in Int
    BY <1>3
  <2> QED BY ONLY <2>1, <2>2, <2>3, extra \in Int
<1>7. extra = SizeHere => Moved
  BY <1>6 DEF Moved, c
<1>8. instrs \o new \in Streams
  BY <1>3, StreamGrows
<1>9. UNCHANGED file /\ pc' = "pass1" /\ (NoShort(instrs') => NoShort(instrs \o new))
  BY <1>1, <1>8, LineEnds
<1> QED BY <1>3, <1>7, <1>9, NoShortParts

(* The lines that add instructions. *)
LEMMA CodeMoves ==
  ASSUME PlaceInv, handleInstruction \/ handleLd, pc' \notin {"fatal", "crash"}
  PROVE  /\ pc = "pass1" /\ at <= Len(file.lines) /\ UNCHANGED file /\ pc' = "pass1"
         /\ Sized /\ (NoShort(instrs') => NoShort(instrs) /\ Moved)
<1>1. TypeInv /\ at \in Nat /\ lp[active] \in Int /\ lp[TEXT] \in Int
  BY PlaceState DEF PlaceInv
<1>2. ~Stops
  BY DEF Stops, Stop
<1>3. pc = "pass1" /\ at <= Len(file.lines)
  BY CodeSteps
<1>4. CASE handleInstruction
  <2> DEFINE expr == IF line.op = "plain" THEN << >> ELSE line.args[1]
             i == Instr(lp[active], line.op, line.op, None, None, expr)
  <2>1. /\ WellFormed(line) /\ line.op \in Kinds \cup {"plain"}
        /\ \A j \in 1 .. Len(line.args) : line.args[j] \in Expr
    BY <1>1, <1>4, LineTypes DEF handleInstruction
  <2>2. AddInstrs(AtLine, << i >>, 0)
    BY <1>2, <1>4 DEF handleInstruction, Stops
  <2>3. expr \in Expr
    <3>1. << >> \in Expr
      BY DEF Expr
    <3>2. line.op # "plain" => Len(line.args) = 1
      BY <2>1 DEF WellFormed
    <3> QED BY <2>1, <3>1, <3>2
  <2> HIDE DEF expr
  <2>4. i \in Plain
    <3>1. /\ None \in Registers /\ line.op \in Kinds \cup {"plain", "special"}
          /\ line.op \in Kinds \cup {"plain", "mv", "lsl", "or", "add", "ld"}
      BY <2>1 DEF Registers
    <3> QED BY <1>1, <2>3, <3>1, PlainType
  <2> HIDE DEF i
  <2>5. IsInstr(at) /\ SizeHere = 0 /\ Sized
    BY <2>1 DEF IsInstr, At, line, SizeHere, Sized, Kinds
  <2>6. << i >> \in Seq(Plain)
    BY <2>4
  <2> DEFINE new == << i >>
  <2>7. AddInstrs(AtLine, new, 0) /\ new \in Seq(Plain) /\ 0 \in Int /\ pc' # "fatal" /\ 0 = SizeHere
    BY <2>2, <2>5, <2>6
  <2> HIDE DEF new
  <2>8. /\ UNCHANGED file /\ pc' = "pass1"
        /\ NoShort(instrs') => NoShort(instrs) /\ NoShort(new)
        /\ 0 = SizeHere => Moved
    BY <1>3, <2>5, <2>7, CodeAdds
  <2> QED BY <1>3, <2>5, <2>7, <2>8
<1>5. CASE handleLd
  <2> DEFINE r == Eval(line.args[1], Env(AtLine))
             literal == line.n = 1
             offset == Wrap(r.val - lp[TEXT])
             i == Instr(lp[active], "M", "ld", line.name, "ir", << INT(offset) >>)
             six == Decomposition(lp[active], line.name, r.val, ~r.ok, literal, line.args[1])
             t == After(AtLine, r)
             extra == IF literal THEN 20 ELSE 24
  <2>1. /\ AtLine \in SymbolTables /\ WellFormed(line) /\ line.op = "ld"
        /\ \A j \in 1 .. Len(line.args) : line.args[j] \in Expr
    <3>1. /\ AtLine \in SymbolTables /\ WellFormed(line) /\ line.op \in {"ld"}
          /\ \A j \in 1 .. Len(line.args) : line.args[j] \in Expr
      BY <1>1, <1>5, LineTypes DEF handleLd
    <3> QED BY <3>1
  <2>2. line.args[1] \in Expr /\ line.name \in {"x", "c0"}
    BY <2>1 DEF WellFormed
  <2>3. r.val \in Word /\ r.val \in Int /\ r.ok \in BOOLEAN
    <3>1. r \in Lexer /\ r.val \in Word
      BY <2>1, <2>2, EvalInTable
    <3> HIDE DEF r
    <3> QED BY <3>1, Words DEF Lexer
  <2>4. IsInstr(at) /\ SizeHere = extra /\ Sized /\ extra \in Int
    BY <2>1 DEF IsInstr, At, line, SizeHere, Sized
  <2>5. \/ AddInstrs(t, << i >>, 0)
        \/ AddInstrs(t, six, extra)
    BY <1>2, <1>5 DEF handleLd, Stops
  <2>6. << i >> \in Seq(Plain) /\ ~NoShort(<< i >>)
    <3> DEFINE e == << INT(offset) >>
    <3>1. offset \in Word
      <4> DEFINE d == r.val - lp[TEXT]
      <4>1. d \in Int
        BY ONLY <1>1, <2>3
      <4> HIDE DEF d
      <4>2. Wrap(d) \in Word
        BY ONLY <4>1, Words
      <4> QED BY ONLY <4>2 DEF d
    <3> HIDE DEF offset, r
    <3>2. e \in Expr
      <4>1. INT(offset) \in Token
        BY <3>1, TokenTypes
      <4> QED BY <4>1 DEF Expr
    <3>3. /\ "M" \in Kinds \cup {"plain", "special"} /\ line.name \in Registers /\ "ir" \in Registers
          /\ "ld" \in Kinds \cup {"plain", "mv", "lsl", "or", "add", "ld"}
      BY <2>2 DEF Registers, Kinds
    <3> HIDE DEF e
    <3>4. Instr(lp[active], "M", "ld", line.name, "ir", e) \in Plain
      BY <1>1, <3>2, <3>3, PlainType
    <3>5. /\ Instr(lp[active], "M", "ld", line.name, "ir", e).instr = "ld"
          /\ Instr(lp[active], "M", "ld", line.name, "ir", e).rs = "ir"
      BY DEF Instr
    <3>6. i \in Plain /\ i.instr = "ld" /\ i.rs = "ir"
      BY <3>4, <3>5 DEF e
    <3> HIDE DEF i
    <3>7. << i >> \in Seq(Plain) /\ Len(<< i >>) = 1 /\ << i >>[1] = i
      BY <3>6
    <3> QED BY <3>6, <3>7 DEF NoShort
  <2>7. six \in Seq(Plain)
    <3> DEFINE a == lp[active]
               v == r.val
               isExpr == ~r.ok
               expr == line.args[1]
               rd == line.name
    <3>1. /\ at \in Nat /\ a \in Int /\ rd \in {"x", "c0"} /\ v \in Word /\ isExpr \in BOOLEAN
          /\ literal \in BOOLEAN /\ expr \in Expr
      BY <1>1, <2>2, <2>3
    <3> HIDE DEF literal, r, a, v, isExpr, expr, rd
    <3>2. Decomposition(a, rd, v, isExpr, literal, expr) \in Seq(Plain)
      BY ONLY <3>1, DecompositionType
    <3> QED BY <3>2 DEF a, v, isExpr, expr, rd
  <2> HIDE DEF i, six, extra, t
  <2>8. CASE AddInstrs(t, << i >>, 0)
    <3>1. 0 \in Int
      OBVIOUS
    <3> QED BY <1>3, <2>4, <2>6, <2>8, <3>1, CodeAdds
  <2>9. CASE AddInstrs(t, six, extra)
    BY <1>3, <2>4, <2>7, <2>9, CodeAdds
  <2> QED BY <2>5, <2>8, <2>9
<1> QED BY <1>4, <1>5

(* Every line. *)
LEMMA LineMoves ==
  ASSUME PlaceInv, LineAction \/ endDirective, pc' \notin {"fatal", "crash"}
  PROVE  /\ pc = "pass1" /\ at <= Len(file.lines) /\ UNCHANGED file /\ pc' = "pass1"
         /\ Sized /\ (NoShort(instrs') => NoShort(instrs) /\ Moved)
<1>1. CASE LabelLine \/ SectionDirective \/ setDirective \/ globDirective \/ endDirective
  BY <1>1, QuietMoves
<1>2. CASE valuesDirective \/ literalDirective \/ zeroDirective \/ fillDirective
  BY <1>2, ItemMoves
<1>3. CASE handleInstruction \/ handleLd
  BY <1>3, CodeMoves
<1> QED BY <1>1, <1>2, <1>3 DEF LineAction

-----------------------------------------------------------------------------
(* What a line does to what is known of the symbols. *)

(* A name at a line: it is untouched, labelled, or set.                    *)
LEMMA NameHere ==
  ASSUME PlaceInv, pc = "pass1", at <= Len(file.lines), Linked(symbs, Said(at, at)),
         NEW F, LineMeans(F), NEW n \in Names
  PROVE  /\ at \in Labels(n) <=> line.label = n
         /\ at \in Sets(n) <=> SetsName(n)
         /\ ~SetsName(n) /\ line.label # n => F[n] = Env(symbs)[n]
         /\ line.label = n => /\ ~SetsName(n)
                              /\ F[n] = IF Env(symbs)[n].isExpr THEN Text(BadPointer) ELSE Holds(lp[active])
         /\ SetsName(n) => line.label # n /\ n = line.name /\ ~Env(symbs)[n].def
         /\ Env(symbs)[n].def \/ Env(symbs)[n].isExpr => \E j \in Defs(n) : j < at
<1> DEFINE E == Env(symbs)
           L == Env(AtLine)
<1>1. /\ line \in Line /\ TypeInv /\ symbs \in SymbolTables
      /\ at \in Labels(n) <=> line.label = n
      /\ at \in Sets(n) <=> SetsName(n)
  BY SourceLines DEF SetsName, PlaceInv, TypeInv, Types
<1>2. L[n] = IF n # line.label THEN E[n]
             ELSE IF E[n].isExpr THEN Text(BadPointer) ELSE Holds(lp[active])
  BY <1>1, EnvAtLine
<1>3. E[n].def \/ E[n].isExpr => \E j \in Defs(n) : j < at
  BY <1>1, DefinedBefore
<1>4. ~SetsName(n) => F[n] = L[n]
  BY DEF LineMeans
<1>5. SetsName(n) => n = line.name /\ ~L[n].def
  BY DEF LineMeans, SetsName
<1>6. Text(BadPointer).def /\ Holds(lp[active]).def
  BY DEF Text, Holds
<1> HIDE DEF E, L
<1>7. SetsName(n) => n # line.label
  BY <1>2, <1>5, <1>6
<1> QED BY <1>1, <1>2, <1>3, <1>4, <1>5, <1>7 DEF E

(* The only definition of a label makes it known. *)
LEMMA LineLabels ==
  ASSUME PlaceInv, pc = "pass1", at <= Len(file.lines), Linked(symbs, Said(at, at)),
         NEW F, LineMeans(F), LabelsFirm(Env(symbs), at)
  PROVE  LabelsFirm(F, at + 1)
<1> DEFINE E == Env(symbs)
<1> SUFFICES ASSUME NEW n \in Names, NEW i \in Labels(n), i < at + 1, Defs(n) = {i}
             PROVE  Firm(F, n)
  BY DEF LabelsFirm
<1>1. at \in Nat /\ i \in Nat
  <2>1. at \in Nat /\ Labels(n) \in SUBSET Source /\ DOMAIN file.lines = 1 .. Len(file.lines)
    BY SourceLines, PlaceState
  <2> QED BY <2>1 DEF Source
<1>2. /\ at \in Labels(n) <=> line.label = n
      /\ at \in Sets(n) <=> SetsName(n)
      /\ ~SetsName(n) /\ line.label # n => F[n] = E[n]
      /\ line.label = n => F[n] = IF E[n].isExpr THEN Text(BadPointer) ELSE Holds(lp[active])
      /\ SetsName(n) => line.label # n
      /\ E[n].def \/ E[n].isExpr => \E j \in Defs(n) : j < at
  BY NameHere
<1> HIDE DEF E
<1>3. CASE i = at
  <2>1. line.label = n /\ ~E[n].isExpr
    BY <1>1, <1>2, <1>3
  <2> QED BY <1>2, <2>1 DEF Firm, Holds
<1>4. CASE i < at
  <2>1. Firm(E, n)
    BY <1>4 DEF LabelsFirm, E
  <2>2. at \notin Defs(n)
    BY <1>1, <1>4
  <2>3. F[n] = E[n]
    BY <1>2, <2>2 DEF Defs
  <2> QED BY <2>1, <2>3 DEF Firm
<1> QED BY <1>1, <1>3, <1>4

(* What is possible behind the line was possible in front of it. *)
LEMMA LinePossible ==
  ASSUME PlaceInv, pc = "pass1", at <= Len(file.lines), Linked(symbs, Said(at, at)),
         NEW F, LineMeans(F), NEW W, Possible(W, F, at + 1)
  PROVE  Possible(W, Env(symbs), at)
<1> DEFINE E == Env(symbs)
<1> SUFFICES ASSUME NEW n \in Names, Firm(E, n), \A j \in Defs(n) : j < at
             PROVE  E[n].value = W[n]
  BY DEF Possible
<1>1. at \in Nat /\ \A j \in Defs(n) : j \in Nat
  <2>1. /\ at \in Nat /\ DOMAIN file.lines = 1 .. Len(file.lines)
        /\ Labels(n) \in SUBSET Source /\ Sets(n) \in SUBSET Source
    BY SourceLines, PlaceState
  <2> QED BY <2>1 DEF Source, Defs
<1>2. /\ at \in Labels(n) <=> line.label = n
      /\ at \in Sets(n) <=> SetsName(n)
      /\ ~SetsName(n) /\ line.label # n => F[n] = E[n]
  BY NameHere
<1> HIDE DEF E
<1>3. at \notin Defs(n)
  BY <1>1
<1>4. F[n] = E[n]
  BY <1>2, <1>3 DEF Defs
<1>5. \A j \in Defs(n) : j < at + 1
  BY <1>1
<1> QED BY <1>4, <1>5 DEF Possible, Firm

(* A tame .set is known behind its line, and in front of others stays so. *)
LEMMA LineSets ==
  ASSUME PlaceInv, pc = "pass1", at <= Len(file.lines), Linked(symbs, Said(at, at)),
         NEW F, LineMeans(F), NEW W \in Worth, Possible(W, F, at + 1),
         LabelsFirm(Env(symbs), at), SetsFirm(W, Env(symbs), at)
  PROVE  SetsFirm(W, F, at + 1)
<1> DEFINE E == Env(symbs)
<1> SUFFICES ASSUME NEW n \in Names, NEW j \in Sets(n), j < at + 1, TameIn(W, j)
             PROVE  Firm(F, n)
  BY DEF SetsFirm
<1>1. at \in Nat /\ j \in Nat
  <2>1. at \in Nat /\ Sets(n) \in SUBSET Source /\ DOMAIN file.lines = 1 .. Len(file.lines)
    BY SourceLines, PlaceState
  <2> QED BY <2>1 DEF Source
<1>2. /\ at \in Sets(n) <=> SetsName(n)
      /\ ~SetsName(n) /\ line.label # n => F[n] = E[n]
      /\ line.label = n => F[n] = IF E[n].isExpr THEN Text(BadPointer) ELSE Holds(lp[active])
      /\ SetsName(n) => n = line.name /\ ~E[n].def
  BY NameHere
<1>3. CASE j = at
  <2>1. line.op = "set" /\ n = line.name
    BY <1>2, <1>3 DEF SetsName
  <2>2. TameIn(W, at)
    BY <1>3
  <2>3. Firm(F, line.name)
    BY <2>1, <2>2, SetHere
  <2> QED BY <2>1, <2>3
<1> HIDE DEF E
<1>4. CASE j < at
  <2>1. Firm(E, n)
    BY <1>4 DEF SetsFirm, E
  <2>2. ~SetsName(n) /\ ~E[n].isExpr
    BY <1>2, <2>1 DEF Firm
  <2>3. F[n] = E[n] \/ F[n] = Holds(lp[active])
    BY <1>2, <2>2
  <2> QED BY <2>1, <2>3 DEF Firm, Holds
<1> QED BY <1>1, <1>3, <1>4

(* The lengths of the lines that are measured are numbers. *)
LEMMA LengthsNumbers ==
  ASSUME PlaceInv, NEW u \in Nat, NEW W \in Worth, AllMeasured(W, u), NEW j \in Source, j < u
  PROVE  LengthIn(W, j) \in Int
<1>1. At(j) \in Line /\ WellFormed(At(j))
  BY PlaceState, FilesAssumption, ElementOfSeq DEF Source, At
<1>2. At(j).op \in {"zero", "fill"} => LengthIn(W, j) \in Int
  <2> SUFFICES ASSUME At(j).op \in {"zero", "fill"} PROVE LengthIn(W, j) \in Int
    OBVIOUS
  <2> DEFINE e == At(j).args[1]
             d == Den(W, e, 0)
  <2>1. Len(At(j).args) \in {1, 2} /\ At(j).args \in Seq(Expr)
    BY <1>1 DEF WellFormed, Line
  <2>2. e \in Expr
    BY <2>1, ElementOfSeq
  <2>3. d # {}
    BY DEF AllMeasured, MeasuredIn, IsExpr
  <2>4. Vals(W, 0) \in Valuation
    BY WorthTypes
  <2>5. d \in SUBSET Word
    BY <2>2, <2>4, DenotesDefined DEF Den, Meanings
  <2>6. (CHOOSE v \in d : TRUE) \in d
    <3> HIDE DEF d
    <3> QED BY <2>3
  <2>7. LengthIn(W, j) = CHOOSE v \in d : TRUE
    BY DEF LengthIn
  <2>8. LengthIn(W, j) \in Word
    <3> HIDE DEF d
    <3> QED BY <2>5, <2>6, <2>7
  <2> HIDE DEF d
  <2> QED BY ONLY <2>8, Words
<1>3. At(j).op = "values" => LengthIn(W, j) \in Int
  <2> SUFFICES ASSUME At(j).op = "values" PROVE LengthIn(W, j) \in Int
    OBVIOUS
  <2>1. At(j).n \in {1, 2, 4} /\ At(j).args \in Seq(Expr)
    BY <1>1 DEF WellFormed, Line
  <2>2. At(j).n * Len(At(j).args) \in Int
    BY <2>1, LenProperties
  <2> QED BY <2>2 DEF LengthIn
<1>4. At(j).n \in Int
  BY <1>1 DEF Line
<1> QED
  <2>1. At(j).op \notin {"zero", "fill", "values"} => LengthIn(W, j) \in Int
    BY <1>4 DEF LengthIn
  <2> QED BY <1>2, <1>3, <2>1

(* So is by how much they move the location pointers. *)
LEMMA CountsNumbers ==
  ASSUME PlaceInv, NEW u \in Nat, NEW W \in Worth, AllMeasured(W, u), NEW j \in Source, j < u, NEW s
  PROVE  CountedIn(W, s, j) \in Int
<1>1. LengthIn(W, j) \in Int
  BY LengthsNumbers
<1> QED BY <1>1 DEF CountedIn

(* The length of a line that is measured is by how much it has moved its   *)
(* section.                                                                *)
LEMMA LineCounts ==
  ASSUME PlaceInv, pc = "pass1", at <= Len(file.lines), Linked(symbs, Said(at, at)), Sized,
         NEW F, LineMeans(F), NEW W \in Worth, Possible(W, F, at + 1), AllMeasured(W, at + 1),
         LabelsFirm(Env(symbs), at), SetsFirm(W, Env(symbs), at)
  PROVE  LengthIn(W, at) = SizeHere
<1>1. at \in Source /\ at < at + 1
  BY SourceLines
<1>2. At(at) = line
  BY DEF At, line
<1>3. line.op \in {"zero", "fill"} => MeasuredIn(W, at)
  BY <1>1, <1>2 DEF AllMeasured
<1>4. CASE line.op = "zero"
  <2>1. LengthIn(W, at) = Eval(line.args[1], Env(AtLine)).val
    BY <1>3, <1>4, ZeroHere DEF Sized
  <2> QED BY <1>4, <2>1 DEF SizeHere
<1>5. CASE line.op = "fill"
  <2>1. LengthIn(W, at) = Eval(line.args[1], NoTable).val
    BY <1>3, <1>5, FillHere DEF Sized
  <2> QED BY <1>5, <2>1 DEF SizeHere
<1>6. CASE line.op \notin {"zero", "fill"}
  BY <1>2, <1>6 DEF LengthIn, SizeHere
<1> QED BY <1>4, <1>5, <1>6

(* A label gets the address of its line, or breaks what was deferred.      *)
LEMMA LineLabelled ==
  ASSUME PlaceInv, pc = "pass1", at <= Len(file.lines), Linked(symbs, Said(at, at)),
         NEW F, LineMeans(F), NEW W, LabelsMean(W, Env(symbs), at), lp[active] = AddressIn(W, at)
  PROVE  LabelsMean(W, F, at + 1)
<1> DEFINE E == Env(symbs)
<1> SUFFICES ASSUME NEW n \in Names, InFront(Labels(n), at + 1) # {}
             PROVE  \/ F[n] = Text(BadPointer)
                    \/ Firm(F, n) /\ F[n].value = Wrap(AddressIn(W, Max(InFront(Labels(n), at + 1))))
  BY DEF LabelsMean
<1>1. /\ at \in Labels(n) <=> line.label = n
      /\ ~SetsName(n) /\ line.label # n => F[n] = E[n]
      /\ line.label = n => F[n] = IF E[n].isExpr THEN Text(BadPointer) ELSE Holds(lp[active])
      /\ SetsName(n) => line.label # n /\ ~E[n].def
  BY NameHere
<1> DEFINE T == InFront(Labels(n), at + 1)
<1>2. /\ at \in Nat /\ InFront(Labels(n), at) \subseteq 1 .. at - 1
      /\ T = InFront(Labels(n), at) \cup {j \in Labels(n) : j = at}
  BY SourceLines
<1> HIDE DEF E, T
<1>3. CASE line.label = n
  <2>1. at \in T /\ \A y \in T : y \in Nat /\ at >= y
    BY <1>1, <1>2, <1>3
  <2>2. \A x \in T : (\A y \in T : x >= y) => x = at
    BY <2>1
  <2>3. Max(T) = at
    BY <2>1, <2>2 DEF Max
  <2>4. Holds(lp[active]).value = Wrap(lp[active]) /\ Holds(lp[active]).def /\ ~Holds(lp[active]).isExpr
    BY DEF Holds
  <2> QED BY <1>1, <1>3, <2>3, <2>4 DEF T, Firm
<1>4. CASE line.label # n
  <2>1. T = InFront(Labels(n), at)
    BY <1>1, <1>2, <1>4
  <2>2. \/ E[n] = Text(BadPointer)
        \/ Firm(E, n) /\ E[n].value = Wrap(AddressIn(W, Max(T)))
    BY <2>1 DEF LabelsMean, E, T
  <2>3. E[n].def
    BY <2>2 DEF Firm, Text
  <2>4. F[n] = E[n]
    BY <1>1, <1>4, <2>3
  <2> QED BY <2>2, <2>4 DEF T, Firm
<1> QED BY <1>3, <1>4

(* A .set has what its expression means at its address. *)
LEMMA LineSet ==
  ASSUME PlaceInv, pc = "pass1", at <= Len(file.lines), Linked(symbs, Said(at, at)),
         NEW F, LineMeans(F), NEW W \in Worth, Possible(W, F, at + 1),
         LabelsFirm(Env(symbs), at), SetsFirm(W, Env(symbs), at),
         SetsMean(W, Env(symbs), at), lp[active] = AddressIn(W, at)
  PROVE  SetsMean(W, F, at + 1)
<1> DEFINE E == Env(symbs)
           d(j) == Den(W, At(j).args[1], Wrap(AddressIn(W, j)))
<1> SUFFICES ASSUME NEW n \in Names, InFront(Labels(n), at + 1) = {},
                    NEW j \in Sets(n), j < at + 1, TameIn(W, j), d(j) # {}
             PROVE  F[n].value \in d(j)
  BY DEF SetsMean
<1>1. /\ at \in Labels(n) <=> line.label = n
      /\ at \in Sets(n) <=> SetsName(n)
      /\ ~SetsName(n) /\ line.label # n => F[n] = E[n]
      /\ SetsName(n) => n = line.name /\ ~E[n].def
  BY NameHere
<1>2. at \in Nat /\ j \in Nat /\ InFront(Labels(n), at) = {} /\ line.label # n
  <2>1. /\ at \in Nat /\ Labels(n) \in SUBSET Source /\ Sets(n) \in SUBSET Source
        /\ InFront(Labels(n), at + 1) = InFront(Labels(n), at) \cup {i \in Labels(n) : i = at}
        /\ DOMAIN file.lines = 1 .. Len(file.lines)
    BY SourceLines, PlaceState
  <2>2. j \in Nat
    BY <2>1 DEF Source
  <2>3. InFront(Labels(n), at) = {} /\ at \notin Labels(n)
    BY <2>1
  <2> QED BY <1>1, <2>1, <2>2, <2>3
<1>3. CASE j = at
  <2>1. line.op = "set" /\ n = line.name
    BY <1>1, <1>3 DEF SetsName
  <2>2. TameIn(W, at)
    BY <1>3
  <2>3. Den(W, line.args[1], Wrap(lp[active])) = {F[line.name].value}
    BY <2>1, <2>2, SetHere
  <2>4. d(j) = Den(W, line.args[1], Wrap(lp[active]))
    BY <1>3 DEF At, line
  <2> QED BY <2>1, <2>3, <2>4
<1>4. CASE j < at
  <2>1. Firm(E, n) /\ E[n].value \in d(j)
    BY <1>2, <1>4 DEF SetsFirm, SetsMean
  <2> HIDE DEF E, d
  <2>2. F[n] = E[n]
    BY <1>1, <1>2, <2>1 DEF Firm
  <2> QED BY <2>1, <2>2
<1> QED BY <1>2, <1>3, <1>4

(* A line leaves what the names mean behind it. *)
LEMMA LineMean ==
  ASSUME PlaceInv, LineAction \/ endDirective, pc' \notin {"fatal", "crash"},
         Linked(symbs, Said(at, at)), NEW F, LineMeans(F), AllMean(instrs, lp, Env(symbs), at)
  PROVE  AllMean(instrs', lp', F, at + 1)
<1> DEFINE E == Env(symbs)
<1>1. /\ pc = "pass1" /\ at <= Len(file.lines) /\ Sized
      /\ NoShort(instrs') => NoShort(instrs) /\ Moved
  BY LineMoves
<1>2. /\ at \in Source /\ at \in Nat \ {0} /\ active = SectionAt(at)
      /\ file.kern \in BOOLEAN /\ lp \in [Sections -> Int] /\ active \in Sections
      /\ \A i \in 1 .. at : i \in Source
  <2>1. /\ at \in Source /\ at \in Nat \ {0} /\ active = SectionAt(at)
        /\ file.kern \in BOOLEAN /\ lp \in [Sections -> Int] /\ active \in Sections
        /\ DOMAIN file.lines = 1 .. Len(file.lines)
    BY <1>1, SourceLines, PlaceState
  <2>2. \A i \in 1 .. at : i \in Source
    BY <2>1 DEF Source
  <2> QED BY <2>1, <2>2
<1>3. LabelsFirm(E, at)
  BY DEF AllMean
<1>4. LabelsFirm(F, at + 1)
  BY <1>1, <1>3, LineLabels
<1>5. ASSUME NEW W \in Worth, Possible(W, F, at + 1)
      PROVE  Means(instrs', lp', W, F, at + 1)
  <2>1. Possible(W, E, at)
    BY <1>1, <1>5, LinePossible
  <2>2. Means(instrs, lp, W, E, at)
    BY <2>1 DEF AllMean
  <2>3. SetsFirm(W, E, at)
    BY <2>2 DEF Means
  <2>4. SetsFirm(W, F, at + 1)
    BY <1>1, <1>3, <1>5, <2>3, LineSets
  <2>5. ASSUME NoShort(instrs'), AllMeasured(W, at + 1)
        PROVE  /\ LabelsMean(W, F, at + 1) /\ SetsMean(W, F, at + 1)
               /\ \A s \in Sections : lp'[s] = PointerIn(W, s, at + 1)
    <3>1. AllMeasured(W, at)
      <4> SUFFICES ASSUME NEW j \in Source, j < at, At(j).op \in {"zero", "fill"} PROVE MeasuredIn(W, j)
        BY DEF AllMeasured
      <4>1. j \in Nat
        BY PlaceState DEF Source
      <4>2. j < at + 1
        BY <1>2, <4>1
      <4> QED BY <2>5, <4>2 DEF AllMeasured
    <3>2. /\ LabelsMean(W, E, at) /\ SetsMean(W, E, at)
          /\ \A s \in Sections : lp[s] = PointerIn(W, s, at)
      BY <1>1, <2>2, <2>5, <3>1 DEF Means
    <3>3. lp[active] = AddressIn(W, at)
      BY <1>2, <3>2 DEF AddressIn
    <3>4. LabelsMean(W, F, at + 1)
      BY <1>1, <3>2, <3>3, LineLabelled
    <3>5. SetsMean(W, F, at + 1)
      BY <1>1, <1>3, <1>5, <2>3, <3>2, <3>3, LineSet
    <3>6. LengthIn(W, at) = SizeHere
      BY <1>1, <1>3, <1>5, <2>3, <2>5, LineCounts
    <3>7. ASSUME NEW s \in Sections PROVE lp'[s] = PointerIn(W, s, at + 1)
      <4>1. \A i \in 1 .. at : CountedIn(W, s, i) \in Int
        <5>1. at + 1 \in Nat /\ \A i \in 1 .. at : i < at + 1
          BY <1>2
        <5> QED BY <1>2, <2>5, <5>1, CountsNumbers
      <4>2. PointerIn(W, s, at + 1) = PointerIn(W, s, at) + CountedIn(W, s, at)
        <5>1. at \in Nat /\ at > 0 /\ file.kern \in BOOLEAN /\ s \in Sections
          BY <1>2
        <5>2. at > 0 => PointerIn(W, s, at + 1) = PointerIn(W, s, at) + CountedIn(W, s, at)
          BY ONLY <4>1, <5>1, PointerSteps
        <5> QED BY ONLY <5>1, <5>2
      <4>3. CountedIn(W, s, at) = (IF s = active THEN SizeHere ELSE 0)
                                 + IF IsInstr(at) /\ s = (IF active = EVT THEN EVT ELSE TEXT) THEN 4 ELSE 0
        <5> DEFINE c == IF s = active THEN SizeHere ELSE 0
                   i == IF IsInstr(at) /\ s = (IF active = EVT THEN EVT ELSE TEXT) THEN 4 ELSE 0
                   b == IF SectionAt(at) = s THEN LengthIn(W, at) ELSE 0
                   k == IF IsInstr(at) /\ s = (IF SectionAt(at) = EVT THEN EVT ELSE TEXT) THEN 4 ELSE 0
        <5>1. b = c /\ k = i
          <6>1. active = SectionAt(at) /\ LengthIn(W, at) = SizeHere
            BY <1>2, <3>6
          <6>2. \A x, m : (IF x = s THEN m ELSE 0) = IF s = x THEN m ELSE 0
            OBVIOUS
          <6>3. b = c
            BY <6>1, <6>2, Zenon
          <6>4. k = i
            BY <6>1, Zenon
          <6> QED BY <6>3, <6>4
        <5>2. CountedIn(W, s, at) = b + k
          BY ONLY DEF CountedIn
        <5> HIDE DEF b, c, i, k
        <5>3. CountedIn(W, s, at) = c + i
          BY ONLY <5>1, <5>2
        <5> QED BY <5>3 DEF c, i
      <4> DEFINE x == IF s = active THEN SizeHere ELSE 0
                 y == IF IsInstr(at) /\ s = (IF active = EVT THEN EVT ELSE TEXT) THEN 4 ELSE 0
      <4>4. lp'[s] = lp[s] + x + y
        BY <1>1, <2>5 DEF Moved
      <4>5. x + y = CountedIn(W, s, at) /\ x + y \in Int /\ y \in Int
        BY <1>2, <4>1, <4>3
      <4>6. x \in Int
        <5>1. LengthIn(W, at) \in Int
          <6>1. active \in Sections /\ active = SectionAt(at)
            BY <1>2
          <6>2. at + 1 \in Nat /\ at < at + 1
            BY <1>2
          <6> QED BY <1>2, <2>5, <6>2, LengthsNumbers
        <5> QED BY <3>6, <5>1
      <4> HIDE DEF x, y
      <4>7. lp[s] \in Int /\ lp[s] = PointerIn(W, s, at)
        BY <1>2, <3>2
      <4> QED BY <4>2, <4>4, <4>5, <4>6, <4>7
    <3> QED BY <3>4, <3>5, <3>7
  <2> QED BY <2>4, <2>5 DEF Means
<1> QED BY <1>4, <1>5 DEF AllMean

(* Other steps make of a known name nothing else, nor of one that lost its *)
(* text.                                                                   *)
LEMMA MeanKept ==
  ASSUME PlaceInv, NEW q, NEW p, NEW E, NEW u, AllMean(q, p, E, u), NEW r, NEW o, NEW F, NEW v,
         \A n \in Names : F[n] = E[n] \/ (E[n].isExpr /\ E[n] # Text(BadPointer)),
         NoShort(r) => NoShort(q), \A j \in Source : j < v <=> j < u,
         v <= Len(file.lines) => v = u /\ o = p
  PROVE  AllMean(r, o, F, v)
<1>1. \A n \in Names : Firm(E, n) => F[n] = E[n] /\ Firm(F, n)
  BY DEF Firm
<1>2. \A n \in Names : /\ Labels(n) \subseteq Source /\ Sets(n) \subseteq Source /\ Defs(n) \subseteq Source
                        /\ InFront(Labels(n), v) = InFront(Labels(n), u)
  <2>1. \A n \in Names : Labels(n) \subseteq Source /\ Sets(n) \subseteq Source
    BY DEF Labels, Sets
  <2> QED BY <2>1 DEF Defs, InFront
<1>3. LabelsFirm(F, v)
  <2>1. LabelsFirm(E, u)
    BY DEF AllMean
  <2> QED BY <1>1, <1>2, <2>1 DEF LabelsFirm
<1>4. ASSUME NEW W \in Worth, Possible(W, F, v)
      PROVE  Means(r, o, W, F, v)
  <2>1. Possible(W, E, u)
    BY <1>1, <1>2, <1>4 DEF Possible
  <2>2. Means(q, p, W, E, u)
    BY <2>1 DEF AllMean
  <2>3. SetsFirm(W, E, u)
    BY <2>2 DEF Means
  <2>4. SetsFirm(W, F, v)
    BY <1>1, <1>2, <2>3 DEF SetsFirm
  <2>5. ASSUME NoShort(r), AllMeasured(W, v)
        PROVE  /\ LabelsMean(W, F, v) /\ SetsMean(W, F, v)
               /\ v <= Len(file.lines) => \A s \in Sections : o[s] = PointerIn(W, s, v)
    <3>1. AllMeasured(W, u)
      BY <2>5 DEF AllMeasured
    <3>2. /\ LabelsMean(W, E, u) /\ SetsMean(W, E, u)
          /\ u <= Len(file.lines) => \A s \in Sections : p[s] = PointerIn(W, s, u)
      BY <2>2, <2>5, <3>1 DEF Means
    <3>3. LabelsMean(W, F, v)
      <4> SUFFICES ASSUME NEW n \in Names, InFront(Labels(n), v) # {}
                   PROVE  \/ F[n] = Text(BadPointer)
                          \/ Firm(F, n) /\ F[n].value = Wrap(AddressIn(W, Max(InFront(Labels(n), v))))
        BY DEF LabelsMean
      <4>1. \/ E[n] = Text(BadPointer)
            \/ Firm(E, n) /\ E[n].value = Wrap(AddressIn(W, Max(InFront(Labels(n), v))))
        BY <1>2, <3>2 DEF LabelsMean
      <4> QED BY <1>1, <4>1
    <3>4. SetsMean(W, F, v)
      <4> SUFFICES ASSUME NEW n \in Names, InFront(Labels(n), v) = {}, NEW j \in Sets(n),
                          j < v, TameIn(W, j), Den(W, At(j).args[1], Wrap(AddressIn(W, j))) # {}
                   PROVE  F[n].value \in Den(W, At(j).args[1], Wrap(AddressIn(W, j)))
        BY DEF SetsMean
      <4>1. j < u /\ InFront(Labels(n), u) = {}
        BY <1>2
      <4>2. Firm(E, n) /\ E[n].value \in Den(W, At(j).args[1], Wrap(AddressIn(W, j)))
        BY <2>3, <3>2, <4>1 DEF SetsFirm, SetsMean
      <4> QED BY <1>1, <4>2
    <3> QED BY <3>2, <3>3, <3>4
  <2> QED BY <2>4, <2>5 DEF Means
<1> QED BY <1>3, <1>4 DEF AllMean

(* What the source means is the same in the next state. *)
LEMMA MeanNext ==
  ASSUME UNCHANGED file, NEW v, v = Upto', AllMean(instrs', lp', Env(symbs'), v)
  PROVE  AllMean(instrs, lp, Env(symbs), Upto)'
<1>1. Source' = Source /\ \A j : SectionAt(j)' = SectionAt(j)
  BY SourceKept
<1>2. \A j : At(j)' = At(j)
  BY DEF At
<1>3. \A n : Labels(n)' = Labels(n) /\ Sets(n)' = Sets(n) /\ Defs(n)' = Defs(n)
  BY <1>1 DEF Labels, Sets, Defs, At
<1>4. \A W, j : IsExpr(W, j)' = IsExpr(W, j)
  BY <1>2 DEF IsExpr
<1>5. \A W, m, j : Known1(W, m, j)' = Known1(W, m, j)
  BY <1>2, <1>3, <1>4 DEF Known1
<1>6. \A W, j : TameIn(W, j)' = TameIn(W, j)
  BY <1>2, <1>4, <1>5 DEF TameIn
<1>7. \A W, m, j : Known2(W, m, j)' = Known2(W, m, j)
  BY <1>3, <1>6 DEF Known2
<1>8. \A W, j : MeasuredIn(W, j)' = MeasuredIn(W, j)
  BY <1>2, <1>4, <1>7 DEF MeasuredIn
<1>9. \A W, j : LengthIn(W, j)' = LengthIn(W, j)
  BY <1>2 DEF LengthIn
<1>10. \A W, s, j : CountedIn(W, s, j)' = CountedIn(W, s, j)
  BY <1>1, <1>2, <1>9 DEF CountedIn, IsInstr
<1>11. \A W, s, j : PointerIn(W, s, j)' = PointerIn(W, s, j)
  BY <1>10 DEF PointerIn
<1>12. \A W, j : AddressIn(W, j)' = AddressIn(W, j)
  BY <1>1, <1>11 DEF AddressIn
<1> DEFINE q == instrs
           p == lp
           E == Env(symbs)
           q1 == instrs'
           p1 == lp'
           E1 == Env(symbs')
           u == Upto
<1>13. q' = q1 /\ p' = p1 /\ E' = E1 /\ u' = v /\ Len(file.lines)' = Len(file.lines)
  BY DEF Env
<1>14. AllMean(q1, p1, E1, v)
  OBVIOUS
<1> HIDE DEF q, p, E, q1, p1, E1, u
<1>15. LabelsFirm(E, u)' <=> LabelsFirm(E1, v)
  BY <1>3, <1>13 DEF LabelsFirm, Firm
<1>16. \A W : Possible(W, E, u)' <=> Possible(W, E1, v)
  BY <1>3, <1>13 DEF Possible, Firm
<1>17. \A W : SetsFirm(W, E, u)' <=> SetsFirm(W, E1, v)
  BY <1>3, <1>6, <1>13 DEF SetsFirm, Firm
<1>18. \A W : AllMeasured(W, u)' <=> AllMeasured(W, v)
  BY <1>1, <1>2, <1>8, <1>13 DEF AllMeasured
<1>19. \A W : LabelsMean(W, E, u)' <=> LabelsMean(W, E1, v)
  BY <1>3, <1>12, <1>13 DEF LabelsMean, Firm, InFront
<1>20. \A W : SetsMean(W, E, u)' <=> SetsMean(W, E1, v)
  BY <1>2, <1>3, <1>6, <1>12, <1>13 DEF SetsMean, InFront
<1>21. NoShort(q)' <=> NoShort(q1)
  BY <1>13 DEF NoShort
<1>22. \A W : Means(q, p, W, E, u)' <=> Means(q1, p1, W, E1, v)
  BY <1>11, <1>13, <1>17, <1>18, <1>19, <1>20, <1>21 DEF Means
<1>23. AllMean(q, p, E, u)'
  BY <1>14, <1>15, <1>16, <1>22 DEF AllMean
<1> QED BY <1>23 DEF q, p, E, u

(* In front of the first line nothing has a meaning. *)
LEMMA SymInit == Init => SymInv
<1> SUFFICES ASSUME Init PROVE SymInv
  OBVIOUS
<1>1. LinkInv /\ Upto = 1 /\ lp = Starts[file.kern] /\ PlaceInv
  BY LinkInit DEF LinkInv, Init, Upto
<1>2. \A j \in Source : ~(j < 1)
  <2>1. \A j \in Source : j \in 1 .. Len(file.lines)
    BY <1>1, PlaceState DEF Source
  <2> QED BY <2>1
<1>3. \A n : Labels(n) \subseteq Source /\ Sets(n) \subseteq Source
  BY DEF Labels, Sets
<1>4. ASSUME NEW W, NEW s \in Sections PROVE lp[s] = PointerIn(W, s, 1)
  <2>1. \A i \in 1 .. 0 : CountedIn(W, s, i) \in Int
    OBVIOUS
  <2>2. file.kern \in BOOLEAN /\ 0 \in Nat
    BY <1>1, PlaceState
  <2>3. PointerIn(W, s, 1) = Starts[file.kern][s]
    BY <2>1, <2>2, PointerSteps
  <2> QED BY <1>1, <2>3
<1> DEFINE E == Env(symbs)
<1> HIDE DEF E
<1>5. LabelsFirm(E, 1)
  BY <1>2, <1>3 DEF LabelsFirm
<1>6. \A W : SetsFirm(W, E, 1) /\ SetsMean(W, E, 1)
  BY <1>2, <1>3 DEF SetsFirm, SetsMean
<1>7. \A W : LabelsMean(W, E, 1)
  BY <1>2, <1>3 DEF LabelsMean, InFront
<1>8. AllMean(instrs, lp, E, 1)
  BY <1>4, <1>5, <1>6, <1>7 DEF AllMean, Means
<1> QED BY <1>1, <1>8 DEF SymInv, E

(* Each line but .end. *)
LEMMA SymLines ==
  ASSUME SymInv, LinkInv', LineAction
  PROVE  SymInv'
<1> SUFFICES ASSUME pc' \notin {"fatal", "crash"} PROVE AllMean(instrs, lp, Env(symbs), Upto)'
  BY DEF SymInv
<1>1. PlaceInv /\ (pc = "pass1" => Linked(symbs, Said(at, at)))
  BY DEF SymInv, LinkInv, Upto
<1>2. ~Stops
  BY DEF Stops, Stop
<1>3. pc = "pass1" /\ UNCHANGED file /\ at' = at + 1 /\ pc' \in {"pass1", "fatal"}
  BY <1>1, <1>2, LineLinked
<1>4. Linked(symbs, Said(at, at)) /\ AllMean(instrs, lp, Env(symbs), at)
  BY <1>1, <1>3 DEF SymInv, Upto
<1> DEFINE F == Env(symbs')
<1>5. LineMeans(F)
  BY <1>1, LineEnv
<1> HIDE DEF F
<1>6. AllMean(instrs', lp', F, at + 1)
  BY <1>1, <1>4, <1>5, LineMean
<1>7. at + 1 = Upto'
  BY <1>3 DEF Upto
<1> QED BY <1>3, <1>6, <1>7, MeanNext DEF F

(* .end: the lines behind it mean nothing. *)
LEMMA SymEnd ==
  ASSUME SymInv, LinkInv', endDirective
  PROVE  SymInv'
<1> SUFFICES ASSUME pc' \notin {"fatal", "crash"} PROVE AllMean(instrs, lp, Env(symbs), Upto)'
  BY DEF SymInv
<1>1. /\ pc = "pass1" /\ UNCHANGED file /\ at' = Len(file.lines) + 1 /\ pc' = "pass1"
      /\ at <= Len(file.lines) /\ line.op = "end"
  BY DEF endDirective, Reads, line
<1>2. PlaceInv /\ Linked(symbs, Said(at, at)) /\ AllMean(instrs, lp, Env(symbs), at)
  BY <1>1 DEF SymInv, LinkInv, Upto
<1> DEFINE F == Env(symbs')
           v == Len(file.lines) + 1
<1>3. LineMeans(F)
  BY <1>2, LineEnv
<1>4. v = Upto'
  BY <1>1 DEF Upto
<1>5. ~(v <= Len(file.lines)) /\ \A j \in Source : j < v <=> j < at + 1
  <2>1. /\ Len(file.lines) \in Nat /\ at \in Nat \ {0}
        /\ \A j \in Source : j \in 1 .. Len(file.lines)
    BY <1>2, PlaceState DEF Source
  <2>2. ASSUME NEW j \in Source, ~(j < at + 1) PROVE FALSE
    <3>1. at \in 1 .. j - 1
      BY <2>1, <2>2
    <3>2. file.lines[at].op # "end"
      BY <3>1 DEF Source
    <3> QED BY <1>1, <3>2 DEF line
  <2>3. \A j \in Source : j < v
    BY <2>1
  <2> QED BY <2>1, <2>2, <2>3
<1> HIDE DEF F, v
<1>6. AllMean(instrs', lp', F, at + 1)
  BY <1>2, <1>3, LineMean
<1>7. AllMean(instrs', lp', F, v)
  BY <1>2, <1>5, <1>6, MeanKept
<1> QED BY <1>1, <1>4, <1>7, MeanNext DEF F

(* A step that keeps what is known. *)
Survives(n) ==
  Env(symbs')[n] = Env(symbs)[n] \/ (Env(symbs)[n].isExpr /\ Env(symbs)[n] # Text(BadPointer))
Kept ==
  /\ \A n \in Names : Survives(n)
  /\ NoShort(instrs') => NoShort(instrs)
  /\ Upto' = Upto \/ (pc = "pass1" /\ at > Len(file.lines) /\ Upto' = Len(file.lines) + 1)
  /\ lp' = lp

(* Or ends the process.                                                    *)
LEMMA SymKept ==
  ASSUME SymInv, LinkInv', UNCHANGED file,
         pc' \in {"fatal", "crash"} \/ (pc \notin {"fatal", "crash"} /\ Kept)
  PROVE  SymInv'
<1> SUFFICES ASSUME pc' \notin {"fatal", "crash"} PROVE AllMean(instrs, lp, Env(symbs), Upto)'
  BY DEF SymInv
<1> DEFINE E == Env(symbs)
           F == Env(symbs')
           u == Upto
           v == Upto'
<1>1. PlaceInv /\ AllMean(instrs, lp, E, u) /\ Kept
  BY DEF SymInv, LinkInv
<1>2. /\ \A n \in Names : F[n] = E[n] \/ (E[n].isExpr /\ E[n] # Text(BadPointer))
      /\ NoShort(instrs') => NoShort(instrs)
      /\ lp' = lp
  BY <1>1 DEF Kept, Survives
<1>3. (\A j \in Source : j < v <=> j < u) /\ (v <= Len(file.lines) => v = u)
  <2>1. CASE v = u
    BY <2>1
  <2>2. CASE pc = "pass1" /\ at > Len(file.lines) /\ v = Len(file.lines) + 1
    <3>1. /\ Len(file.lines) \in Nat /\ at \in Nat \ {0}
          /\ \A j \in Source : j \in 1 .. Len(file.lines)
      BY <1>1, PlaceState DEF Source
    <3>2. u = at
      BY <2>2 DEF Upto
    <3> HIDE DEF u, v
    <3> QED BY <2>2, <3>1, <3>2
  <2> QED BY <1>1, <2>1, <2>2 DEF Kept
<1>4. v = Upto'
  OBVIOUS
<1> HIDE DEF E, F, u, v
<1>5. AllMean(instrs', lp', F, v)
  BY <1>1, <1>2, <1>3, MeanKept
<1> QED BY <1>4, <1>5, MeanNext DEF F

(* A symbol that has a text, not the one behind the bad pointer, gets      *)
(* another meaning.                                                        *)
LEMMA MeaningKept ==
  ASSUME symbs \in SymbolTables, NEW k \in 1 .. Len(symbs), NEW meaning \in Meaning,
         symbs[k].is.isExpr, symbs[k].is # Text(BadPointer),
         symbs' = [symbs EXCEPT ![k].is = meaning], NEW n \in Names
  PROVE  Survives(n)
<1> DEFINE e == [symbs[k] EXCEPT !.is = meaning]
<1>1. symbs[k] \in Symbols /\ symbs \in Seq(Symbols)
  BY TableSteps, ElementOfSeq
<1>2. e \in Symbols /\ e.name = symbs[k].name
  BY <1>1 DEF Symbols
<1>3. symbs' = [symbs EXCEPT ![k] = e]
  BY <1>1
<1> HIDE DEF e
<1>4. Env(symbs')[n] = IF getSymbEntry(symbs, n) = k THEN e.is ELSE Env(symbs)[n]
  <2>1. n \in Names \cup {LP} /\ symbs \in SymbolTables /\ k \in 1 .. Len(symbs)
    OBVIOUS
  <2>2. Env([symbs EXCEPT ![k] = e])[n] = IF getSymbEntry(symbs, n) = k THEN e.is ELSE Env(symbs)[n]
    BY ONLY <1>2, <2>1, EnvChanged
  <2> QED BY ONLY <1>3, <2>2
<1>5. getSymbEntry(symbs, n) = k => Env(symbs)[n] = symbs[k].is
  BY DEF Env
<1> QED BY <1>4, <1>5 DEF Survives

(* The freed text of a .set. *)
LEMMA SymReuse ==
  ASSUME SymInv, LinkInv', Reuse
  PROVE  SymInv'
<1>1. symbs \in SymbolTables
  BY DEF SymInv, LinkInv, PlaceInv, TypeInv, Types
<1>2. PICK k \in DOMAIN symbs, text \in Garbage :
        /\ symbs[k].is.isExpr /\ symbs[k].is.expr # BadPointer
        /\ symbs' = [symbs EXCEPT ![k].is = Text(text)]
  BY DEF Reuse
<1> DEFINE meaning == Text(text)
<1>3. k \in 1 .. Len(symbs)
  BY <1>1, TableSteps
<1>4. meaning \in Meaning /\ symbs' = [symbs EXCEPT ![k].is = meaning]
  <2>1. text \in Expr
    BY BadLooks
  <2> QED BY <1>2, <2>1, MeaningTypes
<1> HIDE DEF meaning
<1>5. symbs[k].is # Text(BadPointer)
  BY <1>2 DEF Text
<1>6. \A n \in Names : Survives(n)
  BY <1>1, <1>2, <1>3, <1>4, <1>5, MeaningKept
<1>7. pc \in {"pass1", "resolve"} /\ UNCHANGED << file, pc, at, lp, instrs >>
  BY DEF Reuse
<1>8. Upto' = Upto /\ (NoShort(instrs') => NoShort(instrs))
  BY <1>7 DEF Upto
<1> QED BY <1>6, <1>7, <1>8, SymKept DEF Kept

(* A symbol gets its value: a broken one ends the process. *)
LEMMA SymResolve ==
  ASSUME SymInv, LinkInv', resolveSymbols
  PROVE  SymInv'
<1> DEFINE e == symbs[at].is.expr
           r == Eval(e, Env(symbs))
           meaning == Holds(r.val)
<1>1. /\ pc = "resolve" /\ UNCHANGED << file, lp, instrs >>
      /\ pc' \in {"resolve", "complete", "fatal", "crash"}
      /\ \/ pc' \in {"fatal", "crash"}
         \/ symbs' = symbs
         \/ ~r.trap /\ symbs[at].is.isExpr /\ symbs' = [symbs EXCEPT ![at].is = meaning]
  <2> HIDE DEF r, meaning
  <2> QED BY DEF resolveSymbols, Round, r, meaning, e
<1>2. symbs \in SymbolTables /\ at \in 1 .. Len(symbs)
  BY <1>1 DEF SymInv, LinkInv, PlaceInv, TypeInv, Types
<1>3. e \in Expr /\ r.val \in Word
  <2>1. symbs[at] \in Symbols
    BY <1>2, TableSteps, ElementOfSeq
  <2>2. symbs[at].is.expr \in Expr
    BY <2>1 DEF Symbols, Meaning
  <2> QED BY <1>2, <2>2, EvalInTable
<1>4. meaning \in Meaning
  <2> HIDE DEF r
  <2> QED BY <1>3, Words, MeaningTypes
<1>5. ~r.trap => symbs[at].is # Text(BadPointer)
  <2> SUFFICES ASSUME symbs[at].is = Text(BadPointer) PROVE r.trap
    OBVIOUS
  <2>1. e = BadPointer
    BY DEF Text
  <2>2. Curr(e, Start).type = "BAD"
    <3>1. \A x : Len(<< x >>) = 1 /\ << x >>[1] = x
      OBVIOUS
    <3>2. \A t, v, x : Tok(t, v, x).type = t
      BY DEF Tok
    <3> DEFINE x == Tok("BAD", 0, "")
    <3>3. x.type = "BAD"
      BY <3>2, Zenon
    <3>4. e = << x >>
      BY <2>1, Zenon DEF BadPointer
    <3> HIDE DEF e, x
    <3> QED BY <3>1, <3>3, <3>4 DEF Curr, Start
  <2>3. Env(symbs) \in [Names \cup {LP} -> Meaning]
    BY <1>2, EnvType, TableSteps
  <2> HIDE DEF e
  <2> QED BY <1>3, <2>2, <2>3, BadEnds
<1> HIDE DEF r, meaning
<1>6. Upto' = Upto \/ pc' \in {"fatal", "crash"}
  BY <1>1 DEF Upto
<1>7. NoShort(instrs') => NoShort(instrs)
  BY <1>1
<1>8. ASSUME pc' \notin {"fatal", "crash"}
      PROVE  \A n \in Names : Survives(n)
  <2>1. CASE symbs' = symbs
    BY <2>1 DEF Survives
  <2>2. CASE ~r.trap /\ symbs[at].is.isExpr /\ symbs' = [symbs EXCEPT ![at].is = meaning]
    <3>1. symbs[at].is # Text(BadPointer)
      BY <1>5, <2>2
    <3> QED BY <1>2, <1>4, <2>2, <3>1, MeaningKept
  <2> QED BY <1>1, <1>8, <2>1, <2>2
<1> QED BY <1>1, <1>6, <1>7, <1>8, SymKept DEF Kept

(* Every step. *)
LEMMA SymNext == SymInv /\ [Next]_vars => SymInv'
<1> SUFFICES ASSUME SymInv, [Next]_vars PROVE SymInv'
  OBVIOUS
<1>1. LinkInv' /\ TypeInv /\ PlaceInv
  BY LinkNext DEF SymInv, LinkInv, PlaceInv
<1>2. CASE UNCHANGED vars
  <2>1. UNCHANGED << file, symbs, pc, at, lp, instrs >>
    BY <1>2 DEF vars, tables
  <2>2. Upto' = Upto /\ (NoShort(instrs') => NoShort(instrs))
    BY <2>1 DEF Upto
  <2> QED BY <1>1, <2>1, <2>2, SymKept DEF Kept, Survives
<1>3. CASE EndOfFile
  <2>1. /\ UNCHANGED << file, symbs, lp >> /\ pc = "pass1" /\ at > Len(file.lines)
        /\ pc' \in {"resolve", "fatal"} /\ instrs' = Closed
    BY <1>3 DEF EndOfFile
  <2>2. NoShort(instrs') => NoShort(instrs)
    <3>1. CASE instrs' = instrs
      BY <3>1
    <3>2. CASE instrs' = Append(instrs, Marker)
      <4> DEFINE t == Append(instrs, Marker)
      <4>1. instrs \in Streams
        BY <1>1, PlaceState
      <4>2. Len(instrs) \in Nat /\ Len(t) = Len(instrs) + 1 /\ \A i \in 1 .. Len(instrs) : t[i] = instrs[i]
        BY <4>1, StreamSteps, AppendItem
      <4> HIDE DEF t
      <4>3. NoShort(t) => NoShort(instrs)
        BY <4>2 DEF NoShort
      <4> QED BY <3>2, <4>3 DEF t
    <3> QED BY <2>1, <3>1, <3>2 DEF Closed
  <2>3. Upto' = Len(file.lines) + 1
    BY <2>1 DEF Upto
  <2> QED BY <1>1, <2>1, <2>2, <2>3, SymKept DEF Kept, Survives
<1>4. CASE completeData \/ encode \/ Generate
  <2>1. /\ pc \in {"complete", "encode", "generate"} /\ UNCHANGED << file, symbs, lp >>
        /\ pc' \in {"complete", "encode", "generate", "written", "fatal", "crash"}
        /\ instrs' = instrs \/ encode
    <3>1. CASE completeData
      BY <3>1, CompleteEffect
    <3>2. CASE encode
      BY <3>2 DEF encode
    <3>3. CASE Generate
      BY <3>3, Zenon DEF Generate, tables
    <3> QED BY <1>4, <3>1, <3>2, <3>3
  <2>2. NoShort(instrs') => NoShort(instrs)
    <3>1. CASE encode
      <4>1. Alike(instrs, instrs')
        BY <1>1, <3>1, AlikeEncoded
      <4> QED BY <4>1 DEF Alike, NoShort
    <3> QED BY <2>1, <3>1
  <2>3. Upto' = Upto
    BY <2>1 DEF Upto
  <2> QED BY <1>1, <2>1, <2>2, <2>3, SymKept DEF Kept, Survives
<1> QED
  BY <1>1, <1>2, <1>3, <1>4, SymLines, SymEnd, SymReuse, SymResolve DEF Next, Exited, LineAction

-----------------------------------------------------------------------------
(* In the end the names have the values of the object file. *)

FileValues == [n \in Names |-> ValueAt(n)]

(* What the property says of the source is what the invariant says of it   *)
(* with these values.                                                      *)
LEMMA ValuesAgree ==
  LET W == FileValues IN
  /\ \A e, a : Den(W, e, a) = Denotation(e, a)
  /\ \A j : TameIn(W, j) <=> Tame(j)
  /\ \A j : MeasuredIn(W, j) <=> Measured(j)
  /\ \A j : AddressIn(W, j) = AddressOf(j)
<1> DEFINE W == FileValues
<1>1. \A a : Vals(W, a) = Values(a)
  BY NamesAssumption DEF Vals, Values, FileValues
<1> HIDE DEF W
<1>2. \A e, a : Den(W, e, a) = Denotation(e, a)
  BY <1>1 DEF Den, Denotation
<1>3. \A j : IsExpr(W, j) <=> IsExpression(j)
  BY <1>2 DEF IsExpr, IsExpression
<1>4. \A j : TameIn(W, j) <=> Tame(j)
  BY <1>3 DEF TameIn, Known1, Tame
<1>5. \A j : MeasuredIn(W, j) <=> Measured(j)
  BY <1>3, <1>4 DEF MeasuredIn, Known2, Measured
<1>6. \A j : LengthIn(W, j) = DataBytes(j)
  BY <1>2 DEF LengthIn, DataBytes
<1>7. \A s, j : CountedIn(W, s, j) = BytesIn(s, j)
  BY <1>6 DEF CountedIn, BytesIn
<1>8. \A s, j : PointerIn(W, s, j) = PointerAt(s, j)
  <2> SUFFICES ASSUME NEW s, NEW j PROVE PointerIn(W, s, j) = PointerAt(s, j)
    OBVIOUS
  <2> DEFINE G(b) == [i \in 0 .. j - 1 |->
                       IF i = 0 THEN Starts[file.kern][s] ELSE b[i - 1] + CountedIn(W, s, i)]
             H(b) == [i \in 0 .. j - 1 |->
                       IF i = 0 THEN Starts[file.kern][s] ELSE b[i - 1] + BytesIn(s, i)]
  <2>1. \A b : G(b) = H(b)
    BY <1>7, Zenon
  <2>2. (CHOOSE b : b = G(b)) = CHOOSE b : b = H(b)
    <3> HIDE DEF G, H
    <3> QED BY <2>1, Zenon
  <2>3. PointerIn(W, s, j) = (CHOOSE b : b = G(b))[j - 1]
    BY Zenon DEF PointerIn
  <2>4. PointerAt(s, j) = (CHOOSE b : b = H(b))[j - 1]
    BY Zenon DEF PointerAt
  <2> HIDE DEF G, H
  <2> QED BY <2>2, <2>3, <2>4
<1>9. \A j : AddressIn(W, j) = AddressOf(j)
  BY <1>8 DEF AddressIn, AddressOf
<1> QED BY <1>2, <1>4, <1>5, <1>9 DEF W

(* The invariant, when the file is written. *)
LEMMA SymMeans == SymInv /\ MeansInv => SymbolsMean
<1> SUFFICES ASSUME SymInv, MeansInv, pc = "written"
             PROVE  \A n \in Names :
                      /\ Labels(n) # {} /\ Countable => ValueAt(n) = Wrap(AddressOf(Max(Labels(n))))
                      /\ Labels(n) = {} /\ Countable =>
                           \A j \in Sets(n) : Tame(j) /\ Denotation(At(j).args[1], Wrap(AddressOf(j))) # {} =>
                             ValueAt(n) \in Denotation(At(j).args[1], Wrap(AddressOf(j)))
  BY DEF SymbolsMean
<1> DEFINE E == Env(symbs)
           u == Len(file.lines) + 1
           W == FileValues
<1>1. PlaceInv /\ symbs \in SymbolTables /\ Settled(symbs) /\ AllMean(instrs, lp, E, u)
  BY DEF SymInv, LinkInv, PlaceInv, TypeInv, Types, MeansInv, Progress, Ready, Upto
<1>2. E \in [Names \cup {LP} -> Meaning]
  BY <1>1, EnvType, TableSteps
<1>3. \A n \in Names : E[n] # Text(BadPointer)
  <2> SUFFICES ASSUME NEW n \in Names PROVE ~E[n].isExpr
    BY DEF Text
  <2>1. getSymbEntry(symbs, n) # 0 => getSymbEntry(symbs, n) \in 1 .. Len(symbs)
    BY <1>1, EntryKnown
  <2> QED BY <1>1, <2>1 DEF Env, Unknown, Settled
<1>4. W \in Worth /\ Possible(W, E, u)
  BY <1>2 DEF Worth, FileValues, ValueAt, Meaning, Possible
<1>5. Means(instrs, lp, W, E, u)
  BY <1>1, <1>4 DEF AllMean
<1>6. /\ \A e, a : Den(W, e, a) = Denotation(e, a)
      /\ \A j : TameIn(W, j) <=> Tame(j)
      /\ \A j : MeasuredIn(W, j) <=> Measured(j)
      /\ \A j : AddressIn(W, j) = AddressOf(j)
  BY ValuesAgree
<1>7. \A j \in Source : j < u
  <2>1. Len(file.lines) \in Nat /\ \A j \in Source : j \in 1 .. Len(file.lines)
    BY <1>1, PlaceState DEF Source
  <2> QED BY <2>1
<1>8. \A n : Labels(n) \subseteq Source /\ Sets(n) \subseteq Source
  BY DEF Labels, Sets
<1>9. \A n : InFront(Labels(n), u) = Labels(n)
  <2> HIDE DEF u
  <2> QED BY <1>7, <1>8 DEF InFront
<1>10. \A n \in Names : E[n].value = ValueAt(n)
  BY DEF ValueAt
<1>11. DOMAIN instrs = 1 .. Len(instrs)
  BY <1>1, PlaceState, StreamSteps
<1> HIDE DEF E, u, W
<1>12. SUFFICES ASSUME Countable
       PROVE  \A n \in Names :
                /\ Labels(n) # {} => ValueAt(n) = Wrap(AddressOf(Max(Labels(n))))
                /\ Labels(n) = {} =>
                     \A j \in Sets(n) : Tame(j) /\ Denotation(At(j).args[1], Wrap(AddressOf(j))) # {} =>
                       ValueAt(n) \in Denotation(At(j).args[1], Wrap(AddressOf(j)))
  OBVIOUS
<1>13. NoShort(instrs) /\ AllMeasured(W, u)
  BY <1>6, <1>11, <1>12 DEF Countable, NoShort, AllMeasured
<1>14. LabelsMean(W, E, u) /\ SetsMean(W, E, u)
  BY <1>5, <1>13 DEF Means
<1>15. ASSUME NEW n \in Names, Labels(n) # {}
       PROVE  ValueAt(n) = Wrap(AddressOf(Max(Labels(n))))
  <2>1. E[n].value = Wrap(AddressIn(W, Max(Labels(n))))
    BY <1>3, <1>9, <1>14, <1>15 DEF LabelsMean
  <2> QED BY <1>6, <1>10, <2>1
<1>16. ASSUME NEW n \in Names, Labels(n) = {}, NEW j \in Sets(n), Tame(j),
              Denotation(At(j).args[1], Wrap(AddressOf(j))) # {}
       PROVE  ValueAt(n) \in Denotation(At(j).args[1], Wrap(AddressOf(j)))
  <2>1. TameIn(W, j) /\ Den(W, At(j).args[1], Wrap(AddressIn(W, j))) # {} /\ j < u /\ InFront(Labels(n), u) = {}
    BY <1>6, <1>7, <1>8, <1>9, <1>16
  <2>2. E[n].value \in Den(W, At(j).args[1], Wrap(AddressIn(W, j)))
    BY <1>14, <2>1 DEF SetsMean
  <2> QED BY <1>6, <1>10, <2>2
<1> QED BY <1>15, <1>16

(* Property SymbolsMean: whatever the lines are, and in whatever order     *)
(* they label, set, use and declare their names, the object file gives     *)
(* every label the address that the lines in front of it add up to, and    *)
(* every .set of what was known the value it meant there.                  *)
THEOREM SymbolsAreMeant == Spec => []SymbolsMean
<1>1. Init => SymInv /\ MeansInv
  BY SymInit, MeansInit
<1>2. (SymInv /\ MeansInv) /\ [Next]_vars => (SymInv /\ MeansInv)'
  BY SymNext, MeansNext
<1>3. SymInv /\ MeansInv => SymbolsMean
  BY SymMeans
<1> QED BY <1>1, <1>2, <1>3, PTL DEF Spec

-----------------------------------------------------------------------------
(* What can end the process: nothing, where no expression divides, is too  *)
(* long, or is deferred.                                                   *)

Safe(e) ==
  /\ e \in Expr /\ ~Uses(e, "/") /\ \A i \in 1 .. Len(e) : e[i].type # "BAD"
  /\ 4 <= MaxCalls /\ 2 * Len(e) + 2 <= MaxCalls
NoText(env) == \A n \in Names \cup {LP} : ~env[n].isExpr

(* A number is safe. *)
LEMMA SafeNumber ==
  ASSUME NEW v \in Word, 4 <= MaxCalls
  PROVE  Safe(<< INT(v) >>)
<1> DEFINE e == << INT(v) >>
<1>1. e \in Expr
  BY TokenTypes DEF Expr
<1>2. Len(e) = 1 /\ e[1].type = "INT"
  BY DEF INT, Tok
<1> HIDE DEF e
<1>0. DOMAIN e = 1 .. 1
  BY <1>1, <1>2, LenProperties DEF Expr
<1>3. ~Uses(e, "/")
  BY <1>0, <1>2 DEF Uses
<1>4. Safe(e)
  BY <1>1, <1>2, <1>3, MaxCallsAssumption DEF Safe
<1> QED BY <1>4 DEF e

(* A safe expression comes back from the evaluator, with or without a      *)
(* value.                                                                  *)
LEMMA SafeBack ==
  ASSUME NEW env \in [Names \cup {LP} -> Meaning], NEW e, Safe(e), NoText(env) \/ ~HasName(e)
  PROVE  ~Eval(e, env).trap
<1>1. e \in Expr /\ 2 * Len(e) + 2 <= MaxCalls /\ DOMAIN e = 1 .. Len(e)
  BY LenProperties DEF Safe, Expr
<1>2. ASSUME NEW i \in 1 .. Len(e) PROVE Harmless(env, e[i])
  <2>1. e[i] \in Token /\ e[i].type # "BAD"
    BY <1>1, ElementOfSeq DEF Safe, Expr
  <2>2. e[i].type = "OP" => e[i].text # "/"
    BY <1>1 DEF Safe, Uses
  <2>3. e[i].type = "SYMB" => ~env[e[i].text].isExpr
    <3>1. ASSUME e[i].type = "SYMB" PROVE e[i].text \in Names \cup {LP} /\ HasName(e)
      BY <1>1, <2>1, <3>1 DEF Token, HasName
    <3> QED BY <3>1 DEF NoText
  <2> QED BY <2>1, <2>2, <2>3 DEF Harmless
<1> QED BY <1>1, <1>2, EvalBack

-----------------------------------------------------------------------------
(* No entry is a text. *)

(* Entries that are added or changed. *)
LEMMA SettledSteps ==
  ASSUME NEW s \in SymbolTables, Settled(s), NEW e, ~e.is.isExpr
  PROVE  Settled(Append(s, e)) /\ \A k \in 1 .. Len(s) : Settled([s EXCEPT ![k] = e])
<1>1. s \in Seq(Symbols) /\ Len(s) \in Nat /\ DOMAIN s = 1 .. Len(s)
  BY TableSteps
<1>2. Settled(Append(s, e))
  <2> DEFINE t == Append(s, e)
  <2>1. Len(t) = Len(s) + 1 /\ t[Len(s) + 1] = e /\ \A k \in 1 .. Len(s) : t[k] = s[k]
    BY <1>1, AppendItem
  <2> HIDE DEF t
  <2>2. Settled(t)
    BY <1>1, <2>1 DEF Settled
  <2> QED BY <2>2 DEF t
<1>3. ASSUME NEW k \in 1 .. Len(s) PROVE Settled([s EXCEPT ![k] = e])
  <2> DEFINE t == [s EXCEPT ![k] = e]
  <2>1. Len(t) = Len(s) /\ \A j \in 1 .. Len(s) : t[j] = IF j = k THEN e ELSE s[j]
    BY <1>1, ExceptSeq
  <2> HIDE DEF t
  <2>2. Settled(t)
    BY <2>1 DEF Settled
  <2> QED BY <2>2 DEF t
<1> QED BY <1>2, <1>3

(* An evaluation enters no text. *)
LEMMA SettledAfter ==
  ASSUME NEW s \in SymbolTables, Settled(s), NEW r \in Lexer
  PROVE  Settled(After(s, r))
<1>1. Len(r.seen) \in Nat
  BY LenProperties DEF Lexer
<1>2. PICK h \in [0 .. Len(r.seen) -> SymbolTables] :
            /\ h[0] = s /\ h[Len(r.seen)] = After(s, r)
            /\ \A k \in 1 .. Len(r.seen) : r.seen[k] \in Names \cup {LP} /\ h[k] = Enter(h[k - 1], r.seen[k])
  BY AfterSteps
<1> DEFINE N == Len(r.seen)
           T == {i \in 0 .. N : Settled(h[i])}
<1>3. 0 \in T
  BY <1>1, <1>2
<1>4. ASSUME NEW i \in 0 .. N - 1, i \in T PROVE i + 1 \in T
  <2>1. i + 1 \in 1 .. N /\ i \in 0 .. N /\ i + 1 \in 0 .. N /\ (i + 1) - 1 = i
    BY <1>1
  <2> DEFINE n == r.seen[i + 1]
             e == Symbol(n, DATA, Unknown, 0, FALSE)
  <2>2. h[i] \in SymbolTables /\ h[i + 1] = Enter(h[i], n) /\ Settled(h[i])
    BY <1>2, <1>4, <2>1
  <2>3. ~e.is.isExpr
    BY DEF Symbol, Unknown
  <2>4. Enter(h[i], n) = h[i] \/ Enter(h[i], n) = Append(h[i], e)
    BY DEF Enter
  <2> HIDE DEF e, n
  <2>5. Settled(h[i + 1])
    BY <2>2, <2>3, <2>4, SettledSteps
  <2> QED BY <2>1, <2>5
<1>5. N \in T
  <2>1. 0 .. N \subseteq T
    <3> HIDE DEF T, N
    <3> QED BY <1>1, <1>3, <1>4, BoundedInduction
  <2> QED BY <1>1, <2>1
<1> QED BY <1>2, <1>5

(* Nor does the first token of a line, nor a .glob. *)
LEMMA SettledLine ==
  ASSUME TypeInv, line \in Line, Settled(symbs)
  PROVE  AtLine \in SymbolTables /\ Settled(AtLine)
<1> DEFINE e == Symbol(LP, active, Holds(lp[active]), 0, FALSE)
           s == [symbs EXCEPT ![1] = e]
<1>1. /\ symbs \in SymbolTables /\ active \in Sections /\ lp \in [Sections -> Int]
      /\ lp[active] \in Int /\ line.label \in Names \cup {None}
  BY DEF TypeInv, Types, VectorInv, Inv, Line
<1>2. AtLine \in SymbolTables
  BY <1>1, AtLineType
<1>3. e \in Symbols /\ e.name = LP /\ ~e.is.isExpr
  <2>1. Holds(lp[active]) \in Meaning
    BY <1>1, MeaningTypes
  <2>2. active \in 0 .. 7 /\ 0 \in {0, 1} /\ FALSE \in BOOLEAN /\ LP \in Names \cup {LP}
    BY <1>1, SectionNumbers
  <2>3. e \in Symbols
    BY <2>1, <2>2, SymbolType
  <2> QED BY <2>3 DEF Symbol, Holds
<1>4. 1 \in 1 .. Len(symbs) /\ symbs[1].name = LP
  BY <1>1, TableSteps DEF SymbolTables
<1> HIDE DEF e
<1>5. s \in SymbolTables /\ Settled(s)
  BY <1>1, <1>3, <1>4, TableSteps, SettledSteps
<1> HIDE DEF s
<1>6. AtLine = IF line.label = None THEN s ELSE handleLabel(s, line.label)
  BY DEF AtLine, line, s, e
<1>7. ASSUME line.label # None PROVE Settled(handleLabel(s, line.label))
  <2> DEFINE name == line.label
             k == getSymbEntry(s, name)
             new == Symbol(name, active, Holds(lp[active]), 0, FALSE)
             d == [s[k] EXCEPT !.sect = UpdateSection(@),
                               !.is = IF @.isExpr THEN Text(BadPointer) ELSE Holds(lp[active])]
  <2>1. name \in Names
    BY <1>1, <1>7
  <2> HIDE DEF name
  <2>2. /\ k = 0 => new \in Symbols /\ handleLabel(s, name) = Append(s, new)
        /\ k # 0 => /\ k \in 1 .. Len(s) /\ d \in Symbols
                    /\ handleLabel(s, name) = [s EXCEPT ![k] = d]
    BY <1>1, <1>5, <2>1, LabelEntry
  <2>3. ~new.is.isExpr
    BY DEF Symbol, Holds
  <2>4. ASSUME k # 0 PROVE ~d.is.isExpr
    <3>1. k \in 1 .. Len(s) /\ s[k] \in Symbols
      BY <1>5, <2>2, <2>4, TableSteps, ElementOfSeq
    <3>2. ~s[k].is.isExpr
      BY <1>5, <3>1 DEF Settled
    <3>3. d.is = Holds(lp[active])
      BY <3>1, <3>2 DEF Symbols
    <3> QED BY <3>3 DEF Holds
  <2> HIDE DEF k, new, d
  <2>5. Settled(handleLabel(s, name))
    BY <1>5, <2>2, <2>3, <2>4, SettledSteps
  <2> QED BY <2>5 DEF name
<1> QED BY <1>2, <1>5, <1>6, <1>7

(* A .glob leaves no text either. *)
LEMMA SettledGlob ==
  ASSUME NEW s \in SymbolTables, Settled(s), NEW name \in Names, active \in Sections
  PROVE  Settled(Glob(s, name))
<1> DEFINE k == getSymbEntry(s, name)
           e == [s[k] EXCEPT !.glob = TRUE]
           new == Symbol(name, active, Unknown, 0, TRUE)
<1>1. /\ k = 0 => Glob(s, name) = Append(s, new)
      /\ k # 0 => k \in 1 .. Len(s) /\ Glob(s, name) = [s EXCEPT ![k] = e]
  BY GlobType
<1>2. ~new.is.isExpr
  BY DEF Symbol, Unknown
<1>3. ASSUME k # 0 PROVE ~e.is.isExpr
  <2>1. k \in 1 .. Len(s) /\ s[k] \in Symbols
    BY <1>1, <1>3, TableSteps, ElementOfSeq
  <2>2. e.is = s[k].is
    BY <2>1 DEF Symbols
  <2> QED BY <2>1, <2>2 DEF Settled
<1> HIDE DEF k, e, new
<1> QED BY <1>1, <1>2, <1>3, SettledSteps

(* A table without texts has no meaning that is one. *)
LEMMA SettledEnv ==
  ASSUME NEW s \in SymbolTables, Settled(s)
  PROVE  Env(s) \in [Names \cup {LP} -> Meaning] /\ NoText(Env(s))
<1>1. Env(s) \in [Names \cup {LP} -> Meaning]
  BY EnvType DEF SymbolTables
<1>2. ASSUME NEW n \in Names \cup {LP} PROVE ~Env(s)[n].isExpr
  <2> DEFINE k == getSymbEntry(s, n)
  <2>1. Env(s)[n] = IF k = 0 THEN Unknown ELSE s[k].is
    BY DEF Env
  <2>2. k # 0 => k \in 1 .. Len(s)
    BY EntryKnown
  <2> HIDE DEF k
  <2> QED BY <2>1, <2>2 DEF Settled, Unknown
<1> QED BY <1>1, <1>2 DEF NoText

-----------------------------------------------------------------------------
(* A source without what can end the process. *)

CalmAt(j) ==
  /\ \A a \in DOMAIN At(j).args : ~Uses(At(j).args[a], "/") /\ ~TooLong(At(j).args[a])
  /\ At(j).op = "set" => \A W \in Worth : TameIn(W, j)
Calm == \A j \in Source : CalmAt(j)

(* What the second pass evaluates is safe. *)
SafeArgs(args) == \A a \in DOMAIN args : Safe(args[a])
SafeItems(d) == \A t \in Tables : \A k \in 1 .. Len(d[t]) : SafeArgs(d[t][k].args)
SafeCode(q) == \A i \in 1 .. Len(q) : q[i].kind \notin {"plain", "marker"} => Safe(q[i].expr)

(* The operands of a line are. *)
LEMMA CalmLine ==
  ASSUME PlaceInv, pc = "pass1", at <= Len(file.lines), Calm
  PROVE  /\ SafeArgs(line.args) /\ line.args \in Seq(Expr) /\ WellFormed(line) /\ line \in Line
         /\ line.op = "set" => \A W \in Worth : TameIn(W, at)
<1>1. at \in Source /\ line \in Line /\ WellFormed(line) /\ line = At(at)
  BY SourceLines DEF At, line
<1>2. line.args \in Seq(Expr)
  BY <1>1 DEF Line
<1>3. CalmAt(at)
  BY <1>1 DEF Calm
<1>4. ASSUME NEW a \in DOMAIN line.args PROVE Safe(line.args[a])
  <2> DEFINE e == line.args[a]
  <2>1. e \in Expr /\ DOMAIN e = 1 .. Len(e) /\ Len(e) \in Nat
    <3>1. DOMAIN line.args = 1 .. Len(line.args)
      BY <1>2, LenProperties
    <3>2. e \in Expr
      BY <1>2, <1>4, <3>1, ElementOfSeq
    <3> QED BY <3>2, LenProperties DEF Expr
  <2>2. ~Uses(e, "/") /\ ~TooLong(e)
    BY <1>1, <1>3 DEF CalmAt
  <2>3. \A i \in DOMAIN e : e[i].type # "BAD"
    BY <1>1 DEF WellFormed
  <2> HIDE DEF e
  <2>4. 2 * Len(e) + 2 <= MaxCalls /\ 4 <= MaxCalls
    BY <2>1, <2>2, MaxCallsAssumption DEF TooLong
  <2>5. Safe(e)
    BY <2>1, <2>2, <2>3, <2>4 DEF Safe
  <2> QED BY <2>5 DEF e
<1> QED BY <1>1, <1>2, <1>3, <1>4 DEF SafeArgs, CalmAt

(* A marker. *)
LEMMA SafeMarker ==
  ASSUME NEW s \in Streams, SafeCode(s)
  PROVE  SafeCode(Append(s, Marker))
<1> DEFINE t == Append(s, Marker)
<1>1. s \in Seq(Instrs)
  BY StreamSteps
<1>2. Len(t) = Len(s) + 1 /\ t[Len(s) + 1] = Marker /\ (\A k \in 1 .. Len(s) : t[k] = s[k]) /\ Len(s) \in Nat
  BY <1>1, AppendItem
<1>3. Marker.kind = "marker"
  BY DEF Marker, Instr
<1> HIDE DEF t
<1>4. SafeCode(t)
  BY <1>2, <1>3 DEF SafeCode
<1> QED BY <1>4 DEF t

(* The end of a line that left safe instructions. *)
LEMMA SafeEnds ==
  ASSUME pc = "pass1", NEW a, NEW s \in Streams, EndLine(a, s), SafeCode(s), pc' # "fatal"
  PROVE  SafeCode(instrs')
<1>1. instrs' = s \/ instrs' = Append(s, Marker)
  BY DEF EndLine
<1> QED BY <1>1, SafeMarker

(* Instructions behind others. *)
LEMMA SafeParts ==
  ASSUME NEW q \in Streams, NEW new \in Seq(Plain), SafeCode(q), SafeCode(new)
  PROVE  q \o new \in Streams /\ SafeCode(q \o new)
<1> DEFINE t == q \o new
<1>1. /\ Len(q) \in Nat /\ Len(new) \in Nat /\ Len(t) = Len(q) + Len(new)
      /\ \A i \in 1 .. Len(q) : t[i] = q[i]
      /\ \A i \in 1 .. Len(new) : t[Len(q) + i] = new[i]
  BY StreamSteps, ConcatProperties, LenProperties
<1>2. t \in Streams
  BY StreamGrows
<1> HIDE DEF t
<1>3. ASSUME NEW i \in 1 .. Len(t), t[i].kind \notin {"plain", "marker"} PROVE Safe(t[i].expr)
  <2>1. CASE i <= Len(q)
    <3>1. i \in 1 .. Len(q)
      BY <1>1, <2>1
    <3> QED BY <1>1, <1>3, <3>1 DEF SafeCode
  <2>2. CASE ~(i <= Len(q))
    <3> DEFINE j == i - Len(q)
    <3>1. j \in 1 .. Len(new) /\ Len(q) + j = i
      BY <1>1, <2>2
    <3> HIDE DEF j
    <3>2. t[i] = new[j]
      BY <1>1, <3>1
    <3> QED BY <1>3, <3>1, <3>2 DEF SafeCode
  <2> QED BY <2>1, <2>2
<1>4. SafeCode(t)
  BY <1>3 DEF SafeCode
<1> QED BY <1>2, <1>4 DEF t

(* A safe item more. *)
LEMMA SafeItemAdded ==
  ASSUME TypeInv, SafeItems(data), NEW size, NEW width, NEW args, SafeArgs(args), NEW done,
         AddItem(size, width, args, done)
  PROVE  SafeItems(data')
<1> DEFINE item == [addr |-> lp[active], size |-> size, width |-> width,
                    args |-> args, vals |-> << >>, done |-> done, line |-> at]
<1>1. data \in [Tables -> Seq(Items)]
  BY DEF TypeInv, Types
<1>2. item.args = args
  OBVIOUS
<1>3. data' = IF active \notin Tables THEN data ELSE [data EXCEPT ![active] = Append(@, item)]
  BY DEF AddItem
<1> HIDE DEF item
<1>4. CASE active \notin Tables
  BY <1>3, <1>4
<1>5. CASE active \in Tables
  <2> DEFINE t == Append(data[active], item)
  <2>1. data[active] \in Seq(Items)
    BY <1>1, <1>5
  <2>2. /\ Len(t) = Len(data[active]) + 1 /\ t[Len(data[active]) + 1] = item
        /\ \A k \in 1 .. Len(data[active]) : t[k] = data[active][k]
        /\ Len(data[active]) \in Nat
    BY <2>1, AppendItem
  <2>3. \A u \in Tables : data'[u] = IF u = active THEN t ELSE data[u]
    BY <1>1, <1>3, <1>5
  <2> HIDE DEF t
  <2>4. ASSUME NEW k \in 1 .. Len(t) PROVE SafeArgs(t[k].args)
    <3>1. CASE k = Len(data[active]) + 1
      BY <1>2, <2>2, <3>1
    <3>2. CASE k # Len(data[active]) + 1
      <4>1. k \in 1 .. Len(data[active])
        BY <2>2, <3>2
      <4>2. SafeArgs(data[active][k].args)
        BY <1>5, <4>1 DEF SafeItems
      <4> QED BY <2>2, <4>1, <4>2
    <3> QED BY <3>1, <3>2
  <2> QED BY <2>3, <2>4 DEF SafeItems
<1> QED BY <1>4, <1>5

-----------------------------------------------------------------------------
(* What the lines of such a source leave. *)

Quiet == Settled(symbs) /\ SafeItems(data) /\ SafeCode(instrs)

(* A .set that leaves a value. *)
LEMMA SettledSet ==
  ASSUME NEW t \in SymbolTables, Settled(t), NEW k \in 1 .. Len(t), NEW meaning \in Meaning,
         ~meaning.isExpr, active \in Sections
  PROVE  Settled(SetEntry(t, k, meaning))
<1> DEFINE d == [t[k] EXCEPT !.sect = UpdateSection(@), !.is = meaning, !.type = 1]
<1>1. t[k] \in Symbols
  BY TableSteps, ElementOfSeq
<1>2. SetEntry(t, k, meaning) = [t EXCEPT ![k] = d]
  <2>1. UpdateSection(t[k].sect) \in 0 .. 7 /\ t \in Seq(Symbols)
    BY <1>1, SectionKept, TableSteps DEF Symbols
  <2> QED BY <1>1, <2>1 DEF SetEntry, Symbols
<1>3. ~d.is.isExpr
  BY <1>1 DEF Symbols
<1> HIDE DEF d
<1> QED BY <1>2, <1>3, SettledSteps

(* Every .set is known at its line, and leaves a value. *)
LEMMA SetSettled ==
  ASSUME SymInv, TypeInv', Calm, Settled(symbs), setDirective, pc' \notin {"fatal", "crash"}
  PROVE  Settled(symbs')
<1> DEFINE s == AtLine
           n == line.name
           e == line.args[1]
           k == getSymbEntry(s, n)
           r == Eval(e, Env(s))
           meaning == IF r.ok THEN Holds(r.val) ELSE Text(e)
           t == After(s, r)
           new == Symbol(n, active, meaning, 1, FALSE)
           F == Env(symbs')
<1>1. PlaceInv /\ TypeInv /\ pc = "pass1" /\ at <= Len(file.lines) /\ line.op = "set"
  BY DEF SymInv, LinkInv, PlaceInv, setDirective, Reads, line
<1>2. Linked(symbs, Said(at, at)) /\ AllMean(instrs, lp, Env(symbs), at)
  BY <1>1 DEF SymInv, LinkInv, Upto
<1>3. /\ WellFormed(line) /\ line \in Line /\ n \in Names /\ e \in Expr
      /\ \A W \in Worth : TameIn(W, at)
  <2>1. /\ WellFormed(line) /\ line.args \in Seq(Expr) /\ line \in Line
        /\ \A W \in Worth : TameIn(W, at)
    BY <1>1, CalmLine
  <2>2. line.name \in Names /\ Len(line.args) = 1
    BY <1>1, <2>1 DEF WellFormed
  <2> QED BY <2>1, <2>2, ElementOfSeq
<1>4. ~Stops
  BY DEF Stops, Stop
<1>5. symbs' = IF k # 0 THEN SetEntry(t, k, meaning) ELSE Append(t, new)
  BY <1>4 DEF setDirective, Stops
<1>6. LineMeans(F)
  BY <1>1, <1>2, <1>4, EnvSet
<1>7. s \in SymbolTables /\ Settled(s) /\ active \in Sections
  <2>1. active \in Sections
    BY <1>1, PlaceState
  <2> QED BY <1>1, <1>3, <2>1, SettledLine
<1>8. r \in Lexer /\ r.val \in Int /\ r.ok \in BOOLEAN
  <2>1. r \in Lexer /\ r.val \in Word
    BY <1>3, <1>7, EvalInTable
  <2> HIDE DEF r
  <2> QED BY <2>1, Words DEF Lexer
<1>9. n \notin NamesIn(e)
  <2> SUFFICES ASSUME n \in NamesIn(e) PROVE FALSE
    OBVIOUS
  <2>1. PICK W \in Worth : TRUE
    <3>1. 0 \in Word
      BY WorthTypes
    <3>2. [m \in Names |-> 0] \in Worth
      BY <3>1 DEF Worth
    <3> QED BY <3>2
  <2>2. TameIn(W, at) /\ e = At(at).args[1]
    BY <1>3 DEF At, line
  <2>3. PICK i \in 1 .. at : Defs(n) = {i} /\ (i \in Sets(n) => i # at)
    BY <2>2 DEF TameIn, Known1
  <2>4. at \in Sets(n)
    BY <1>1, SourceLines
  <2> QED BY <2>3, <2>4 DEF Defs
<1> HIDE DEF s, F
<1>10. F \in [Names \cup {LP} -> Meaning]
  <2>1. symbs' \in Seq(Symbols)
    BY TableSteps DEF TypeInv, Types
  <2> QED BY <2>1, EnvType DEF F
<1>11. Firm(F, n)
  <2> DEFINE W == [m \in Names |-> IF Firm(F, m) THEN F[m].value ELSE 0]
  <2>1. W \in Worth
    <3>1. \A m \in Names : F[m].value \in Word
      BY <1>10 DEF Meaning
    <3> QED BY <3>1, Words DEF Worth
  <2>2. Possible(W, F, at + 1)
    BY DEF Possible
  <2>3. TameIn(W, at)
    BY <1>3, <2>1
  <2> HIDE DEF W
  <2>4. Possible(W, Env(symbs), at)
    BY <1>1, <1>2, <1>6, <2>2, LinePossible
  <2>5. LabelsFirm(Env(symbs), at) /\ SetsFirm(W, Env(symbs), at)
    BY <1>2, <2>1, <2>4 DEF AllMean, Means
  <2>6. Firm(F, line.name)
    BY <1>1, <1>2, <1>6, <2>1, <2>2, <2>3, <2>5, SetHere
  <2> QED BY <2>6
<1>12. meaning = Holds(r.val)
  <2>1. F[n] = IF r.ok THEN Holds(r.val) ELSE Text(e)
    BY <1>1, <1>6, <1>9 DEF LineMeans, s
  <2> HIDE DEF r, n, e
  <2>2. Text(e).isExpr
    BY DEF Text
  <2> QED BY <1>8, <1>11, <2>1, <2>2 DEF Firm
<1>13. meaning \in Meaning /\ ~meaning.isExpr
  BY <1>8, <1>12, MeaningTypes DEF Holds
<1> HIDE DEF meaning
<1>14. t \in SymbolTables /\ Settled(t)
  <2> HIDE DEF r
  <2> QED BY <1>7, <1>8, AfterType, SettledAfter
<1>15. CASE k = 0
  <2>1. ~new.is.isExpr
    BY <1>13 DEF Symbol
  <2> HIDE DEF new, t, k
  <2> QED BY <1>5, <1>14, <1>15, <2>1, SettledSteps
<1>16. CASE k # 0
  <2>1. k \in 1 .. Len(t)
    <3>1. getSymbEntry(s, n) # 0
      BY <1>16
    <3> HIDE DEF r, n
    <3>2. getSymbEntry(t, n) = k
      BY <1>7, <1>8, <3>1, EntryAfter
    <3> HIDE DEF t
    <3>3. getSymbEntry(t, n) \in 1 .. Len(t)
      BY <1>14, <1>16, <3>2, EntryKnown
    <3> QED BY <3>2, <3>3
  <2> HIDE DEF t, k
  <2> QED BY <1>5, <1>7, <1>13, <1>14, <1>16, <2>1, SettledSet
<1> QED BY <1>15, <1>16

(* A line that adds neither item nor instruction. *)
LEMMA QuietPlain ==
  ASSUME SymInv, TypeInv', Calm, Quiet, pc' \notin {"fatal", "crash"},
         LabelLine \/ SectionDirective \/ setDirective \/ globDirective \/ endDirective
  PROVE  Quiet'
<1>1. PlaceInv /\ TypeInv /\ pc = "pass1" /\ at <= Len(file.lines)
  BY QuietMoves DEF SymInv, LinkInv, PlaceInv
<1>2. /\ AtLine \in SymbolTables /\ Settled(AtLine) /\ instrs \in Streams /\ active \in Sections
      /\ WellFormed(line)
  <2>1. line \in Line /\ WellFormed(line)
    BY <1>1, CalmLine
  <2>2. instrs \in Streams /\ active \in Sections
    BY <1>1, PlaceState
  <2> QED BY <1>1, <2>1, <2>2, SettledLine DEF Quiet
<1>3. Settled(symbs')
  <2>1. CASE setDirective
    BY <2>1, SetSettled DEF Quiet
  <2>2. CASE globDirective
    <3>1. symbs' = Glob(AtLine, line.name) /\ line.op = "glob"
      BY <2>2 DEF globDirective, Reads, line
    <3>2. line.name \in Names
      BY <1>2, <3>1 DEF WellFormed
    <3> QED BY <1>2, <3>1, <3>2, SettledGlob
  <2>3. CASE LabelLine \/ SectionDirective \/ endDirective
    <3>1. symbs' = AtLine
      BY <2>3 DEF LabelLine, SectionDirective, endDirective
    <3> QED BY <1>2, <3>1
  <2> QED BY <2>1, <2>2, <2>3
<1>4. data' = data /\ SafeCode(instrs')
  <2>1. CASE endDirective
    BY <2>1 DEF endDirective, Quiet
  <2>2. CASE ~endDirective
    <3>1. Stops \/ QuietLine
      BY <2>2, QuietSteps
    <3>2. ~Stops
      BY DEF Stops, Stop
    <3>3. data' = data /\ \E a : EndLine(a, instrs)
      BY <3>1, <3>2 DEF QuietLine
    <3> QED BY <1>1, <1>2, <3>3, SafeEnds DEF Quiet
  <2> QED BY <2>1, <2>2
<1> QED BY <1>3, <1>4 DEF Quiet

(* What a line has in front of it. *)
LEMMA QuietLineState ==
  ASSUME PlaceInv, Calm, Quiet, pc = "pass1", at <= Len(file.lines)
  PROVE  /\ AtLine \in SymbolTables /\ Settled(AtLine) /\ instrs \in Streams /\ active \in Sections
         /\ WellFormed(line) /\ SafeArgs(line.args) /\ line.args \in Seq(Expr)
         /\ DOMAIN line.args = 1 .. Len(line.args)
<1>1. line \in Line /\ WellFormed(line) /\ SafeArgs(line.args) /\ line.args \in Seq(Expr)
  BY CalmLine
<1>2. instrs \in Streams /\ active \in Sections
  BY PlaceState
<1>3. AtLine \in SymbolTables /\ Settled(AtLine)
  BY <1>1, SettledLine DEF Quiet, PlaceInv
<1> QED BY <1>1, <1>2, <1>3, LenProperties

(* A line that adds an item. *)
LEMMA QuietItem ==
  ASSUME PlaceInv, Quiet, pc = "pass1", pc' # "fatal", Settled(symbs'),
         NEW size, NEW width, NEW args, SafeArgs(args), NEW done, AddItem(size, width, args, done)
  PROVE  Quiet'
<1>1. SafeItems(data')
  BY SafeItemAdded DEF Quiet, PlaceInv
<1>2. EndLine(active, instrs)
  BY DEF AddItem
<1>3. instrs \in Streams
  BY PlaceState
<1>4. SafeCode(instrs')
  BY <1>2, <1>3, SafeEnds DEF Quiet
<1> QED BY <1>1, <1>4 DEF Quiet

(* Each of the directives that do. *)
LEMMA QuietItems ==
  ASSUME PlaceInv, Calm, Quiet, pc' \notin {"fatal", "crash"},
         valuesDirective \/ literalDirective \/ zeroDirective \/ fillDirective
  PROVE  Quiet'
<1>1. ~Stops
  BY DEF Stops, Stop
<1>2. pc = "pass1" /\ at <= Len(file.lines) /\ pc' # "fatal"
  BY ItemSteps
<1>3. /\ AtLine \in SymbolTables /\ Settled(AtLine) /\ WellFormed(line) /\ SafeArgs(line.args)
      /\ DOMAIN line.args = 1 .. Len(line.args) /\ line.args \in Seq(Expr)
  BY <1>2, QuietLineState
<1>4. CASE valuesDirective
  <2>1. symbs' = AtLine /\ AddItem(SizeOf(line.n, line.args), line.n, line.args, FALSE)
    BY <1>1, <1>4 DEF valuesDirective, Stops
  <2>2. Settled(symbs')
    BY <1>3, <2>1
  <2> QED BY <1>2, <1>3, <2>1, <2>2, QuietItem
<1>5. CASE literalDirective
  <2>1. symbs' = AtLine /\ AddItem(line.n, 1, << >>, TRUE)
    BY <1>1, <1>5 DEF literalDirective, Stops
  <2>2. Settled(symbs') /\ SafeArgs(<< >>)
    BY <1>3, <2>1 DEF SafeArgs
  <2> QED BY <1>2, <2>1, <2>2, QuietItem
<1>6. CASE zeroDirective
  <2> DEFINE r == Eval(line.args[1], Env(AtLine))
             done == ~(r.val < 0)
  <2>1. symbs' = After(AtLine, r) /\ AddItem(r.val, 1, line.args, done)
    BY <1>1, <1>6 DEF zeroDirective, Stops
  <2>2. line.args[1] \in Expr
    <3>1. line.op = "zero"
      BY <1>6 DEF zeroDirective, Reads, line
    <3>2. Len(line.args) = 1
      BY <1>3, <3>1 DEF WellFormed
    <3> QED BY <1>3, <3>2, ElementOfSeq
  <2>3. r \in Lexer
    BY <1>3, <2>2, EvalInTable
  <2> HIDE DEF r, done
  <2>4. Settled(symbs')
    BY <1>3, <2>1, <2>3, SettledAfter
  <2> QED BY <1>2, <1>3, <2>1, <2>4, QuietItem
<1>7. CASE fillDirective
  <2> DEFINE r == Eval(line.args[1], NoTable)
             values == [i \in 1 .. r.val |-> line.args[2]]
  <2>1. symbs' = AtLine /\ AddItem(r.val, 1, values, FALSE)
    BY <1>1, <1>7 DEF fillDirective, Stops
  <2>2. Safe(line.args[2])
    <3>1. line.op = "fill"
      BY <1>7 DEF fillDirective, Reads, line
    <3>2. Len(line.args) = 2
      BY <1>3, <3>1 DEF WellFormed
    <3>3. 2 \in DOMAIN line.args
      BY <1>3, <3>2
    <3> QED BY <1>3, <3>3 DEF SafeArgs
  <2> HIDE DEF r
  <2>3. SafeArgs(values)
    BY <2>2 DEF SafeArgs
  <2>4. Settled(symbs')
    BY <1>3, <2>1
  <2> HIDE DEF values
  <2> QED BY <1>2, <2>1, <2>3, <2>4, QuietItem
<1> QED BY <1>4, <1>5, <1>6, <1>7

(* A line that adds instructions. *)
LEMMA QuietInstrs ==
  ASSUME PlaceInv, Quiet, pc = "pass1", pc' # "fatal", NEW s, Settled(s),
         NEW new \in Seq(Plain), SafeCode(new), NEW extra, AddInstrs(s, new, extra)
  PROVE  Quiet'
<1>1. symbs' = s /\ EndLine(active, instrs \o new) /\ data' = data
  BY DEF AddInstrs
<1>2. instrs \in Streams
  BY PlaceState
<1>3. instrs \o new \in Streams /\ SafeCode(instrs \o new)
  BY <1>2, SafeParts DEF Quiet
<1>4. SafeCode(instrs')
  BY <1>1, <1>3, SafeEnds
<1> QED BY <1>1, <1>4 DEF Quiet

(* The instructions of a long ld. *)
LEMMA SafeDecomposition ==
  ASSUME NEW a, NEW rd, NEW v \in Word, NEW isExpr \in BOOLEAN, NEW literal \in BOOLEAN, NEW expr, Safe(expr)
  PROVE  SafeCode(Decomposition(a, rd, v, isExpr, literal, expr))
<1> DEFINE q == Decomposition(a, rd, v, isExpr, literal, expr)
           first == IF isExpr THEN expr ELSE << INT(High(v)) >>
           mid == << INT(IF isExpr THEN 0 ELSE Mid(v)) >>
           low == << INT(IF isExpr THEN 0 ELSE Low(v)) >>
           shift == << INT(ImmBits + LowBits) >>
           small == << INT(LowBits) >>
<1>1. \A w \in Word : Safe(<< INT(w) >>)
  BY SafeNumber DEF Safe
<1>2. Safe(first) /\ Safe(mid) /\ Safe(low) /\ Safe(shift) /\ Safe(small)
  <2>1. 0 \in Word /\ High(v) \in Word /\ Mid(v) \in Word /\ Low(v) \in Word
    <3>1. 0 .. Half - 1 \subseteq Word /\ 0 \in Word
      BY Words
    <3>2. High(v) \in 0 .. Half - 1 /\ Mid(v) \in 0 .. Half - 1 /\ Low(v) \in 0 .. Half - 1
      BY Shares
    <3> QED BY <3>1, <3>2
  <2> QED BY <1>1, <2>1, Shares
<1> HIDE DEF first, mid, low, shift, small
<1> DEFINE i1 == Instr(a, IF isExpr THEN "special" ELSE "I", "mv", rd, "xz", first)
           i2 == Instr(a + 4, "I", "lsl", rd, rd, shift)
           i3 == Instr(a + 8, "I", "mv", "c0", "xz", mid)
           i4 == Instr(a + 12, "I", "lsl", "c0", "c0", small)
           i5 == Instr(a + 16, "plain", "or", rd, "c0", << >>)
           i6 == Instr(a + 20, "I", "add", rd, rd, low)
           i7 == Instr(a + 44, "plain", "ld", rd, rd, << >>)
<1>3. q = << i1, i2, i3, i4, i5, i6 >> \o IF literal THEN << >> ELSE << i7 >>
  BY DEF Decomposition, first, mid, low, shift, small
<1>4. /\ i1.expr = first /\ i2.expr = shift /\ i3.expr = mid /\ i4.expr = small /\ i6.expr = low
      /\ i5.kind = "plain" /\ i7.kind = "plain"
  BY DEF Instr
<1> HIDE DEF i1, i2, i3, i4, i5, i6, i7
<1> DEFINE six == << i1, i2, i3, i4, i5, i6 >>
           last == << i7 >>
<1>5. /\ \E S : six \in Seq(S) /\ last \in Seq(S)
      /\ Len(six) = 6 /\ Len(last) = 1 /\ last[1] = i7
      /\ six[1] = i1 /\ six[2] = i2 /\ six[3] = i3 /\ six[4] = i4 /\ six[5] = i5 /\ six[6] = i6
  <2>1. six \in Seq({i1, i2, i3, i4, i5, i6, i7}) /\ last \in Seq({i1, i2, i3, i4, i5, i6, i7})
    OBVIOUS
  <2> QED BY <2>1
<1>6. q = six \/ q = six \o last
  <2>1. q = IF literal THEN six \o << >> ELSE six \o last
    BY <1>3
  <2> HIDE DEF q, six
  <2>2. six \o << >> = six
    BY <1>5, ConcatEmptySeq
  <2> QED BY <2>1, <2>2
<1> HIDE DEF q, six, last
<1>7. ASSUME NEW i \in 1 .. 6 PROVE six[i].kind \notin {"plain", "marker"} => Safe(six[i].expr)
  BY <1>2, <1>4, <1>5
<1>8. SafeCode(six)
  BY <1>5, <1>7 DEF SafeCode
<1>9. SafeCode(six \o last)
  <2> DEFINE t == six \o last
  <2>1. PICK S : six \in Seq(S) /\ last \in Seq(S)
    BY <1>5
  <2>2. /\ Len(t) = Len(six) + Len(last)
        /\ \A k \in 1 .. Len(six) + Len(last) :
             t[k] = IF k <= Len(six) THEN six[k] ELSE last[k - Len(six)]
    BY ONLY <2>1, ConcatProperties
  <2> HIDE DEF t
  <2>3. Len(t) = 7 /\ t[7] = i7 /\ \A k \in 1 .. 6 : t[k] = six[k]
    BY <1>5, <2>2
  <2>4. SafeCode(t)
    BY <1>4, <1>7, <2>3 DEF SafeCode
  <2> QED BY <2>4 DEF t
<1>10. SafeCode(q)
  BY <1>6, <1>8, <1>9
<1> QED BY <1>10 DEF q

(* The handlers that do. *)
LEMMA QuietCode ==
  ASSUME PlaceInv, Calm, Quiet, pc' \notin {"fatal", "crash"}, handleInstruction \/ handleLd
  PROVE  Quiet'
<1>1. ~Stops
  BY DEF Stops, Stop
<1>2. /\ pc = "pass1" /\ at <= Len(file.lines) /\ pc' # "fatal"
      /\ TypeInv /\ at \in Nat /\ lp[active] \in Int /\ lp[TEXT] \in Int
  BY PlaceState, CodeSteps DEF PlaceInv
<1>3. /\ AtLine \in SymbolTables /\ Settled(AtLine) /\ WellFormed(line) /\ SafeArgs(line.args)
      /\ DOMAIN line.args = 1 .. Len(line.args) /\ line.args \in Seq(Expr)
  BY <1>2, QuietLineState
<1>4. CASE handleInstruction
  <2> DEFINE expr == IF line.op = "plain" THEN << >> ELSE line.args[1]
             i == Instr(lp[active], line.op, line.op, None, None, expr)
  <2>1. line.op \in Kinds \cup {"plain"}
    BY <1>4 DEF handleInstruction, Reads, line
  <2>2. AddInstrs(AtLine, << i >>, 0)
    BY <1>1, <1>4 DEF handleInstruction, Stops
  <2>3. expr \in Expr /\ (line.op # "plain" => Safe(expr))
    <3>1. << >> \in Expr
      BY DEF Expr
    <3>2. line.op # "plain" => Len(line.args) = 1
      BY <1>3, <2>1 DEF WellFormed
    <3>3. ASSUME line.op # "plain" PROVE 1 \in DOMAIN line.args
      <4>1. Len(line.args) = 1 /\ DOMAIN line.args = 1 .. Len(line.args)
        BY <1>3, <3>2, <3>3
      <4> QED BY ONLY <4>1
    <3> QED BY <1>3, <3>1, <3>3, ElementOfSeq DEF SafeArgs
  <2> HIDE DEF expr
  <2>4. i \in Plain
    <3>1. /\ None \in Registers /\ line.op \in Kinds \cup {"plain", "special"}
          /\ line.op \in Kinds \cup {"plain", "mv", "lsl", "or", "add", "ld"}
      BY <2>1 DEF Registers
    <3> QED BY <1>2, <2>3, <3>1, PlainType
  <2>5. i.kind = line.op /\ i.expr = expr
    BY DEF Instr
  <2> HIDE DEF i
  <2> DEFINE new == << i >>
  <2>6. new \in Seq(Plain) /\ Len(new) = 1 /\ new[1] = i
    BY <2>4
  <2>7. AddInstrs(AtLine, new, 0)
    BY <2>2
  <2> HIDE DEF new
  <2>8. SafeCode(new)
    BY <2>3, <2>5, <2>6 DEF SafeCode
  <2> QED BY <1>2, <1>3, <2>6, <2>7, <2>8, QuietInstrs
<1>5. CASE handleLd
  <2> DEFINE e == line.args[1]
             r == Eval(e, Env(AtLine))
             literal == line.n = 1
             offset == Wrap(r.val - lp[TEXT])
             i == Instr(lp[active], "M", "ld", line.name, "ir", << INT(offset) >>)
             rd == line.name
             six == Decomposition(lp[active], rd, r.val, ~r.ok, literal, e)
             t == After(AtLine, r)
             extra == IF literal THEN 20 ELSE 24
  <2>1. Safe(e) /\ e \in Expr /\ rd \in {"x", "c0"}
    <3>1. line.op = "ld"
      BY <1>5 DEF handleLd, Reads, line
    <3>2. Len(line.args) = 1 /\ rd \in {"x", "c0"}
      BY <1>3, <3>1 DEF WellFormed
    <3>3. 1 \in DOMAIN line.args
      BY <1>3, <3>2
    <3> QED BY <1>3, <3>2, <3>3, ElementOfSeq DEF SafeArgs
  <2>2. \/ AddInstrs(t, << i >>, 0)
        \/ AddInstrs(t, six, extra)
    BY <1>1, <1>5 DEF handleLd, Stops
  <2> HIDE DEF e, rd
  <2>3. r \in Lexer /\ r.val \in Word
    BY <1>3, <2>1, EvalInTable
  <2> HIDE DEF r
  <2>4. r.val \in Int /\ r.ok \in BOOLEAN /\ literal \in BOOLEAN /\ lp[active] \in Int
    BY <1>2, <2>3, Words DEF Lexer
  <2>5. Settled(t)
    BY <1>3, <2>3, SettledAfter
  <2>6. CASE AddInstrs(t, << i >>, 0)
    <3> DEFINE w == << INT(offset) >>
               new == << i >>
    <3>1. offset \in Word
      <4> DEFINE d == r.val - lp[TEXT]
      <4>1. d \in Int
        BY ONLY <1>2, <2>4
      <4> HIDE DEF d
      <4>2. Wrap(d) \in Word
        BY ONLY <4>1, Words
      <4> QED BY ONLY <4>2 DEF d
    <3> HIDE DEF offset
    <3>2. Safe(w) /\ w \in Expr
      BY <2>1, <3>1, SafeNumber DEF Safe
    <3>3. /\ "M" \in Kinds \cup {"plain", "special"} /\ line.name \in Registers /\ "ir" \in Registers
          /\ "ld" \in Kinds \cup {"plain", "mv", "lsl", "or", "add", "ld"}
      BY <2>1 DEF Registers, Kinds, rd
    <3> HIDE DEF w
    <3>4. i \in Plain /\ i.expr = w
      <4>1. Instr(lp[active], "M", "ld", line.name, "ir", w) \in Plain
        BY <1>2, <3>2, <3>3, PlainType
      <4>2. Instr(lp[active], "M", "ld", line.name, "ir", w).expr = w
        BY DEF Instr
      <4> QED BY <4>1, <4>2 DEF w
    <3> HIDE DEF i
    <3>5. new \in Seq(Plain) /\ Len(new) = 1 /\ new[1] = i
      BY <3>4
    <3>6. AddInstrs(t, new, 0)
      BY <2>6
    <3> HIDE DEF new, t
    <3>7. SafeCode(new)
      BY <3>2, <3>4, <3>5 DEF SafeCode
    <3> QED BY <1>2, <2>5, <3>5, <3>6, <3>7, QuietInstrs
  <2>7. CASE AddInstrs(t, six, extra)
    <3> DEFINE a == lp[active]
               v == r.val
               isExpr == ~r.ok
    <3>1. /\ at \in Nat /\ a \in Int /\ rd \in {"x", "c0"} /\ v \in Word /\ isExpr \in BOOLEAN
          /\ literal \in BOOLEAN /\ e \in Expr /\ Safe(e)
      BY <1>2, <2>1, <2>3, <2>4
    <3> HIDE DEF literal, a, v, isExpr
    <3>2. Decomposition(a, rd, v, isExpr, literal, e) \in Seq(Plain)
      BY ONLY <3>1, DecompositionType
    <3>3. SafeCode(Decomposition(a, rd, v, isExpr, literal, e))
      BY ONLY <3>1, SafeDecomposition
    <3>4. six \in Seq(Plain) /\ SafeCode(six)
      BY <3>2, <3>3 DEF a, v, isExpr
    <3> HIDE DEF six, extra, t
    <3> QED BY <1>2, <2>5, <2>7, <3>4, QuietInstrs
  <2> QED BY <2>2, <2>6, <2>7
<1> QED BY <1>4, <1>5

-----------------------------------------------------------------------------
(* What the other steps leave. *)

(* An operand or a field more. *)
LEMMA SafeOperand ==
  ASSUME NEW q \in Streams, SafeCode(q), NEW i \in Int, NEW e, Safe(e)
  PROVE  [q EXCEPT ![i].expr = e] \in Streams /\ SafeCode([q EXCEPT ![i].expr = e])
<1> DEFINE r == [q EXCEPT ![i].expr = e]
<1>1. r \in Streams /\ Len(r) = Len(q) /\ \A j \in 1 .. Len(q) : j # i => r[j] = q[j]
  BY OperandChanged DEF Safe
<1>2. i \in 1 .. Len(q) => r[i].expr = e
  <2>1. q \in Seq(Instrs) /\ DOMAIN q = 1 .. Len(q) /\ \A j \in 1 .. Len(q) : q[j] \in Instrs
    BY StreamSteps
  <2> QED BY <2>1 DEF Instrs
<1> HIDE DEF r
<1>3. SafeCode(r)
  BY <1>1, <1>2 DEF SafeCode
<1> QED BY <1>1, <1>3 DEF r

(* An instruction that is encoded. *)
LEMMA SafeField ==
  ASSUME NEW q \in Streams, SafeCode(q), NEW i \in 1 .. Len(q), NEW f
  PROVE  SafeCode([q EXCEPT ![i].field = f])
<1> DEFINE new == [q[i] EXCEPT !.field = f]
           r == [q EXCEPT ![i] = new]
<1>1. /\ Len(q) \in Nat /\ DOMAIN q = 1 .. Len(q) /\ q \in Seq(Instrs)
      /\ \A j \in 1 .. Len(q) : q[j] \in Instrs
  BY StreamSteps
<1>2. [q EXCEPT ![i].field = f] = r
  OBVIOUS
<1>3. new.kind = q[i].kind /\ new.expr = q[i].expr
  BY <1>1 DEF Instrs
<1> HIDE DEF new
<1>4. Len(r) = Len(q) /\ \A j \in 1 .. Len(q) : r[j] = IF j = i THEN new ELSE q[j]
  BY <1>1
<1> HIDE DEF r
<1>5. SafeCode(r)
  BY <1>3, <1>4 DEF SafeCode
<1> QED BY <1>2, <1>5

(* The shares of a special ld. *)
LEMMA SafeSpecial ==
  ASSUME instrs \in Streams, SafeCode(instrs), at \in 1 .. Len(instrs),
         instrs[at].kind \notin {"plain", "marker"}, NEW v \in Word
  PROVE  SafeCode(Special(v))
<1> DEFINE h == High(v)
           x1 == << INT(High(v)) >>
           x2 == << INT(Mid(v)) >>
           x3 == << INT(Low(v)) >>
           e1 == [instrs[at] EXCEPT !.kind = "I", !.expr = x1, !.field = h]
           q1 == [instrs EXCEPT ![at] = e1]
           q2 == [q1 EXCEPT ![at + 2].expr = x2]
           q3 == [q2 EXCEPT ![at + 5].expr = x3]
<1>1. /\ instrs \in Seq(Instrs) /\ instrs[at] \in Instrs /\ Len(instrs) \in Nat
      /\ DOMAIN instrs = 1 .. Len(instrs)
  BY StreamSteps
<1>2. Safe(x1) /\ Safe(x2) /\ Safe(x3) /\ h \in 0 .. Modulus - 1
  <2>1. \A x \in 0 .. Half - 1 : x \in Word /\ x \in 0 .. Modulus - 1
    BY Words
  <2>2. High(v) \in 0 .. Half - 1 /\ Mid(v) \in 0 .. Half - 1 /\ Low(v) \in 0 .. Half - 1
    BY Shares
  <2>3. 4 <= MaxCalls
    BY DEF SafeCode, Safe
  <2>4. High(v) \in Word /\ Mid(v) \in Word /\ Low(v) \in Word /\ h \in 0 .. Modulus - 1
    BY <2>1, <2>2
  <2> HIDE DEF h
  <2> QED BY <2>3, <2>4, SafeNumber
<1>3. Special(v) = q3
  <2> HIDE DEF x1, x2, x3, h
  <2>1. q1 = [instrs EXCEPT ![at].kind = "I", ![at].expr = x1, ![at].field = h]
    BY <1>1 DEF Instrs
  <2> HIDE DEF q1
  <2> QED BY <2>1 DEF Special, x1, x2, x3, h
<1> HIDE DEF x1, x2, x3, h
<1>4. e1 \in Plain /\ e1.addr = instrs[at].addr /\ e1.expr = x1
  <2>1. "I" \in Kinds \cup {"plain", "marker", "special"} /\ "I" # "marker"
    BY DEF Kinds
  <2> QED BY <1>1, <1>2, <2>1 DEF Instrs, Plain, Safe
<1> HIDE DEF e1
<1>5. q1 \in Streams
  BY <1>4, InstrChanged
<1>6. Len(q1) = Len(instrs) /\ \A j \in 1 .. Len(instrs) : q1[j] = IF j = at THEN e1 ELSE instrs[j]
  BY <1>1
<1> HIDE DEF q1
<1>7. SafeCode(q1)
  BY <1>2, <1>4, <1>6 DEF SafeCode
<1>8. at + 2 \in Int /\ at + 5 \in Int
  BY <1>1
<1>9. q2 \in Streams /\ SafeCode(q2)
  BY <1>2, <1>5, <1>7, <1>8, SafeOperand
<1> HIDE DEF q2
<1>10. SafeCode(q3)
  BY <1>2, <1>8, <1>9, SafeOperand
<1> QED BY <1>3, <1>10

(* What is encoded. *)
LEMMA EncodedSafe ==
  ASSUME TypeInv, SafeCode(instrs), encode
  PROVE  SafeCode(instrs')
<1> DEFINE i == instrs[at]
           r == Eval(i.expr, Env(symbs))
           f == Field(i.kind, r.val, i.addr)
<1>1. instrs \in Streams /\ at \in Nat \ {0} /\ Len(instrs) \in Nat /\ symbs \in SymbolTables
  BY StreamSteps DEF TypeInv, Types, VectorInv, Inv, Shape
<1>2. \/ instrs' = instrs
      \/ at <= Len(instrs) /\ i.addr # 0 /\ i.kind # "plain" /\ instrs' = Special(r.val)
      \/ at <= Len(instrs) /\ instrs' = [instrs EXCEPT ![at].field = f]
  <2>1. CASE at > Len(instrs)
    BY <2>1 DEF encode
  <2>2. CASE at <= Len(instrs)
    <3>1. ~(at > Len(instrs))
      BY <1>1, <2>2
    <3> QED BY <2>2, <3>1, Zenon DEF encode
  <2> QED BY <1>1, <2>1, <2>2
<1> HIDE DEF f
<1>3. CASE at <= Len(instrs) /\ i.addr # 0 /\ i.kind # "plain" /\ instrs' = Special(r.val)
  <2>1. at \in 1 .. Len(instrs)
    BY <1>1, <1>3
  <2>2. instrs[at].kind # "marker" /\ instrs[at].kind # "plain" /\ instrs[at] \in Instrs
    BY <1>1, <1>3, <2>1, StreamSteps
  <2>3. i.expr \in Expr
    BY <2>2 DEF Instrs
  <2>4. r.val \in Word
    BY <1>1, <2>3, EvalInTable
  <2> HIDE DEF r, i
  <2> QED BY <1>1, <1>3, <2>1, <2>2, <2>4, SafeSpecial
<1> HIDE DEF r
<1>4. CASE at <= Len(instrs) /\ instrs' = [instrs EXCEPT ![at].field = f]
  <2>1. at \in 1 .. Len(instrs)
    BY <1>1, <1>4
  <2> QED BY <1>1, <1>4, <2>1, SafeField
<1> QED BY <1>2, <1>3, <1>4

(* What is completed. *)
LEMMA CompletedSafe ==
  ASSUME TypeInv, SafeItems(data), completeData
  PROVE  SafeItems(data')
<1> DEFINE p == NextItem
           item == data[p[1]][p[2]]
           new == [item EXCEPT !.done = TRUE, !.vals = Computed]
           d1 == [data EXCEPT ![p[1]][p[2]] = new]
<1>1. data' = data \/ data' = d1
  BY CompleteEffect
<1>2. data \in [Tables -> Seq(Items)]
  BY DEF TypeInv, Types
<1>3. ASSUME NEW t \in Tables PROVE \A k \in 1 .. Len(d1[t]) : SafeArgs(d1[t][k].args)
  <2> DEFINE q == data[t]
             r == [q EXCEPT ![p[2]] = new]
  <2>1. q \in Seq(Items) /\ Len(q) \in Nat /\ DOMAIN q = 1 .. Len(q) /\ \A k \in DOMAIN q : q[k] \in Items
    BY <1>2, LenProperties, ElementOfSeq
  <2>2. d1[t] = IF p[1] = t THEN r ELSE q
    BY <1>2
  <2>3. p[1] = t /\ p[2] \in DOMAIN q => new.args = q[p[2]].args
    BY <2>1 DEF Items
  <2>4. \A k \in 1 .. Len(q) : SafeArgs(q[k].args)
    BY DEF SafeItems
  <2> HIDE DEF new, d1, p
  <2>5. DOMAIN r = DOMAIN q /\ \A k \in DOMAIN q : r[k] = IF k = p[2] THEN new ELSE q[k]
    BY <2>1
  <2>6. Len(r) = Len(q)
    <3>1. r = [k \in 1 .. Len(q) |-> r[k]]
      BY <2>1
    <3> HIDE DEF r, q
    <3> QED BY <2>1, <3>1
  <2> HIDE DEF r, q
  <2>7. p[1] = t => \A k \in 1 .. Len(r) : SafeArgs(r[k].args)
    BY <2>1, <2>3, <2>4, <2>5, <2>6
  <2> QED BY <2>2, <2>4, <2>7
<1> HIDE DEF d1
<1> QED BY <1>1, <1>3 DEF SafeItems

(* The steps between and behind the passes. *)
LEMMA QuietSecond ==
  ASSUME PlaceInv, Quiet, EndOfFile \/ Reuse \/ resolveSymbols \/ completeData \/ encode \/ Generate
  PROVE  Quiet'
<1>1. TypeInv /\ instrs \in Streams /\ symbs \in SymbolTables
  BY DEF PlaceInv, TypeInv, Types
<1>2. Len(symbs) \in Nat /\ DOMAIN symbs = 1 .. Len(symbs)
  BY <1>1, TableSteps
<1>3. CASE EndOfFile
  <2>1. UNCHANGED << symbs, data >> /\ (instrs' = instrs \/ instrs' = Append(instrs, Marker))
    BY <1>3 DEF EndOfFile, Closed
  <2> QED BY <1>1, <2>1, SafeMarker DEF Quiet
<1>4. CASE Reuse
  BY <1>2, <1>4 DEF Reuse, Quiet, Settled
<1>5. CASE resolveSymbols
  <2>1. at \in 1 .. Len(symbs)
    BY <1>1, <1>5 DEF resolveSymbols, TypeInv, Types
  <2>2. ~symbs[at].is.isExpr
    BY <2>1 DEF Quiet, Settled
  <2>3. UNCHANGED << symbs, data, instrs >>
    BY <1>5, <2>2 DEF resolveSymbols
  <2> QED BY <2>3 DEF Quiet
<1>6. CASE completeData
  <2>1. UNCHANGED << symbs, instrs >>
    BY <1>6, CompleteEffect
  <2>2. SafeItems(data')
    BY <1>1, <1>6, CompletedSafe DEF Quiet
  <2> QED BY <2>1, <2>2 DEF Quiet
<1>7. CASE encode
  <2>1. UNCHANGED << symbs, data >>
    BY <1>7 DEF encode
  <2>2. SafeCode(instrs')
    BY <1>1, <1>7, EncodedSafe DEF Quiet
  <2> QED BY <2>1, <2>2 DEF Quiet
<1>8. CASE Generate
  <2>1. UNCHANGED << symbs, data, instrs >>
    BY <1>8 DEF Generate, tables
  <2> QED BY <2>1 DEF Quiet
<1> QED BY <1>3, <1>4, <1>5, <1>6, <1>7, <1>8

(* The source stays. *)
LEMMA FileKept == [Next]_vars => UNCHANGED file
<1> SUFFICES ASSUME [Next]_vars PROVE UNCHANGED file
  OBVIOUS
<1>1. CASE UNCHANGED vars
  BY <1>1 DEF vars
<1>2. CASE LabelLine \/ SectionDirective \/ globDirective \/ endDirective
  BY <1>2, Zenon DEF LabelLine, SectionDirective, globDirective, endDirective, EndLine
<1>3. CASE setDirective \/ handleInstruction \/ handleLd
  BY <1>3, Zenon DEF setDirective, handleInstruction, handleLd, AddInstrs, EndLine, Stop
<1>4. CASE valuesDirective \/ literalDirective \/ zeroDirective \/ fillDirective
  BY <1>4, Zenon DEF valuesDirective, literalDirective, zeroDirective, fillDirective, AddItem, EndLine, Stop
<1>5. CASE EndOfFile \/ Reuse \/ resolveSymbols \/ completeData \/ encode \/ Generate \/ Exited
  BY <1>5, Zenon DEF EndOfFile, Reuse, resolveSymbols, completeData, encode, Generate, Exited, vars
<1> QED BY <1>1, <1>2, <1>3, <1>4, <1>5, Zenon DEF Next

(* As long as the process lasts, such a source has left such tables. *)
CalmInv == Calm /\ pc \notin {"fatal", "crash"} => Quiet

(* The source is calm in every state, or in none. *)
LEMMA CalmNext ==
  ASSUME UNCHANGED file
  PROVE  Calm' <=> Calm
<1>1. Source' = Source
  BY SourceKept
<1>2. \A j : At(j)' = At(j)
  BY DEF At
<1>3. \A n : Labels(n)' = Labels(n) /\ Sets(n)' = Sets(n) /\ Defs(n)' = Defs(n)
  BY <1>1 DEF Labels, Sets, Defs, At
<1>4. \A W, j : IsExpr(W, j)' = IsExpr(W, j)
  BY <1>2 DEF IsExpr
<1>5. \A W, m, j : Known1(W, m, j)' = Known1(W, m, j)
  BY <1>2, <1>3, <1>4 DEF Known1
<1>6. \A W, j : TameIn(W, j)' = TameIn(W, j)
  BY <1>2, <1>4, <1>5 DEF TameIn
<1>7. \A j : CalmAt(j)' <=> CalmAt(j)
  BY <1>2, <1>6 DEF CalmAt
<1> QED BY <1>1, <1>7 DEF Calm

(* It has left nothing yet. *)
LEMMA QuietInit == Init => CalmInv
<1> SUFFICES ASSUME Init PROVE Quiet
  BY DEF CalmInv
<1> DEFINE first == Symbol(LP, DATA, Holds(0), 0, FALSE)
<1>1. symbs = << first >> /\ instrs = << >> /\ \A s \in Tables : data[s] = << >>
  BY DEF Init
<1>2. ~first.is.isExpr
  BY DEF Symbol, Holds
<1> HIDE DEF first
<1>3. Settled(symbs)
  BY <1>1, <1>2 DEF Settled
<1> QED BY <1>1, <1>3 DEF Quiet, SafeItems, SafeCode

(* Each step leaves such tables. *)
LEMMA QuietNext == SymInv /\ CalmInv /\ [Next]_vars => CalmInv'
<1> SUFFICES ASSUME SymInv, CalmInv, [Next]_vars, Calm', pc' \notin {"fatal", "crash"}
             PROVE  Quiet'
  BY DEF CalmInv
<1>1. PlaceInv /\ TypeInv /\ TypeInv'
  BY TypesNext DEF SymInv, LinkInv, PlaceInv
<1>2. Calm
  BY FileKept, CalmNext
<1>3. CASE UNCHANGED vars \/ Exited
  <2>1. UNCHANGED << symbs, data, instrs, pc >>
    BY <1>3 DEF Exited, vars, tables
  <2> QED BY <1>2, <2>1 DEF CalmInv, Quiet
<1>4. CASE pc \in {"fatal", "crash"}
  BY <1>1, <1>3, <1>4, QuietMoves, ItemMoves, CodeSteps, CompleteEffect
     DEF Next, EndOfFile, Reuse, resolveSymbols, encode, Generate
<1>5. CASE pc \notin {"fatal", "crash"}
  <2>1. Quiet
    BY <1>2, <1>5 DEF CalmInv
  <2>2. CASE LabelLine \/ SectionDirective \/ setDirective \/ globDirective \/ endDirective
    BY <1>1, <1>2, <2>1, <2>2, QuietPlain
  <2>3. CASE valuesDirective \/ literalDirective \/ zeroDirective \/ fillDirective
    BY <1>1, <1>2, <2>1, <2>3, QuietItems
  <2>4. CASE handleInstruction \/ handleLd
    BY <1>1, <1>2, <2>1, <2>4, QuietCode
  <2>5. CASE EndOfFile \/ Reuse \/ resolveSymbols \/ completeData \/ encode \/ Generate
    BY <1>1, <2>1, <2>5, QuietSecond
  <2> QED BY <1>3, <2>2, <2>3, <2>4, <2>5, Zenon DEF Next
<1> QED BY <1>4, <1>5

-----------------------------------------------------------------------------
(* What ends the process.                                                  *)

Cause ==
  \/ \E j \in Source : \E a \in DOMAIN At(j).args : Uses(At(j).args[a], "/") \/ TooLong(At(j).args[a])
  \/ \E j \in Source : At(j).op = "set" /\ ~Tame(j)
  \/ \E j \in Source : At(j).op = "fill" /\
       (HasName(At(j).args[1]) \/ \A v \in Denotation(At(j).args[1], 0) : v <= 0)
  \/ \E s \in {DATA, CONST, EVT} : \E d \in DOMAIN data[s] : data[s][d].size < 0
  \/ data[EVT] # << >> /\ \A i \in DOMAIN instrs : ~InSection(i, EVT)
  \/ \E i \in DOMAIN instrs : instrs[i].kind # "marker" /\ instrs[i].addr = 0

(* A cause stays one, where the tables do. *)
LEMMA CauseNext ==
  ASSUME UNCHANGED << file, symbs, data, instrs >>, Cause
  PROVE  Cause'
<1>1. Source' = Source /\ \A j : SectionAt(j)' = SectionAt(j)
  BY SourceKept
<1>2. \A j : At(j)' = At(j)
  BY DEF At
<1>3. \A n : Labels(n)' = Labels(n) /\ Sets(n)' = Sets(n) /\ Defs(n)' = Defs(n)
  BY <1>1 DEF Labels, Sets, Defs, At
<1>4. \A a : Values(a)' = Values(a)
  BY DEF Values, ValueAt, Env
<1>5. \A e, a : Denotation(e, a)' = Denotation(e, a)
  BY <1>4 DEF Denotation
<1>6. \A j : IsExpression(j)' = IsExpression(j)
  BY <1>2, <1>5 DEF IsExpression
<1>7. \A j : Tame(j)' = Tame(j)
  BY <1>2, <1>3, <1>6 DEF Tame
<1>8. \A i, s : InSection(i, s)' = InSection(i, s)
  BY <1>1 DEF InSection
<1> QED BY <1>1, <1>2, <1>5, <1>7, <1>8 DEF Cause

(* Without a cause the source is as above. *)
LEMMA CalmSource ==
  ASSUME PlaceInv, ~Cause
  PROVE  Calm
<1> DEFINE V == FileValues
<1>1. V \in Worth /\ 0 \in Word
  <2>1. Env(symbs) \in [Names \cup {LP} -> Meaning]
    BY EnvType, TableSteps DEF PlaceInv, TypeInv, Types
  <2> QED BY <2>1, WorthTypes DEF Worth, FileValues, ValueAt, Meaning
<1>2. \A j : TameIn(V, j) <=> Tame(j)
  BY ValuesAgree
<1> HIDE DEF V
<1>3. ASSUME NEW j \in Source, NEW a \in DOMAIN At(j).args
      PROVE  ~Uses(At(j).args[a], "/") /\ ~TooLong(At(j).args[a])
  BY DEF Cause
<1>4. ASSUME NEW j \in Source, At(j).op = "set"
      PROVE  At(j).args[1] \in Expr /\ ~Uses(At(j).args[1], "/")
  <2>1. At(j) \in Line /\ WellFormed(At(j))
    <3>1. file \in Files /\ file.lines \in Seq(Line) /\ j \in DOMAIN file.lines
      BY PlaceState DEF Source
    <3>2. WellFormed(file.lines[j])
      BY <3>1, FilesAssumption
    <3> QED BY <3>1, <3>2, PlaceState, ElementOfSeq DEF At
  <2>2. Len(At(j).args) = 1 /\ At(j).args \in Seq(Expr)
    BY <1>4, <2>1 DEF WellFormed, Line
  <2>3. 1 \in DOMAIN At(j).args
    BY <2>2
  <2>4. At(j).args[1] \in Expr
    BY <2>2, ElementOfSeq
  <2> QED BY <1>3, <2>3, <2>4
<1>5. ASSUME NEW W \in Worth, NEW j \in Source, At(j).op = "set"
      PROVE  IsExpr(V, j) => IsExpr(W, j)
  <2> DEFINE e == At(j).args[1]
             v == Vals(V, 0)
             w == Vals(W, 0)
  <2>1. e \in Expr /\ ~Uses(e, "/") /\ DOMAIN e = 1 .. Len(e)
    BY <1>4, <1>5, LenProperties DEF Expr
  <2>2. v \in Valuation /\ w \in Valuation
    BY <1>1, WorthTypes
  <2> HIDE DEF e, v, w
  <2>3. NoQuotient(Tokens(e))
    BY <2>1 DEF NoQuotient, Tokens, Uses
  <2>4. Denotes(v)[e] = {} <=> Denotes(w)[e] = {}
    BY <2>1, <2>2, <2>3, MeaningDepends
  <2> QED BY <2>1, <2>4 DEF IsExpr, Den, e, v, w
<1>6. \A m : \A i \in Sets(m) : i \in Source /\ At(i).op = "set"
  BY DEF Sets
<1>7. ASSUME NEW W \in Worth, NEW m, NEW j, Known1(V, m, j)
      PROVE  Known1(W, m, j)
  BY <1>5, <1>6, <1>7 DEF Known1
<1>8. ASSUME NEW W \in Worth, NEW j \in Source, At(j).op = "set"
      PROVE  TameIn(W, j)
  <2>1. TameIn(V, j)
    BY <1>2, <1>8 DEF Cause
  <2> QED BY <1>5, <1>7, <1>8, <2>1 DEF TameIn
<1> QED BY <1>3, <1>8 DEF Calm, CalmAt

(* Only an evaluation can end the process in a line. *)
LEMMA EndLasts ==
  ASSUME pc # "crash", NEW a, NEW s, EndLine(a, s)
  PROVE  pc' # "crash"
BY DEF EndLine

(* What .set, .zero and ld evaluate comes back. *)
LEMMA FirstLasts ==
  ASSUME PlaceInv, Calm, Quiet, setDirective \/ zeroDirective \/ handleLd
  PROVE  pc' # "crash"
<1> DEFINE e == line.args[1]
           r == Eval(e, Env(AtLine))
<1>1. pc = "pass1" /\ at <= Len(file.lines) /\ line.op \in {"set", "zero", "ld"}
  BY DEF setDirective, zeroDirective, handleLd, Reads, line
<1>2. ~r.trap
  <2>1. /\ AtLine \in SymbolTables /\ Settled(AtLine) /\ WellFormed(line) /\ SafeArgs(line.args)
        /\ DOMAIN line.args = 1 .. Len(line.args)
    BY <1>1, QuietLineState
  <2>2. Len(line.args) = 1
    BY <1>1, <2>1 DEF WellFormed
  <2>3. 1 \in DOMAIN line.args
    BY <2>1, <2>2
  <2>4. Safe(e)
    BY <2>1, <2>3 DEF SafeArgs
  <2>5. Env(AtLine) \in [Names \cup {LP} -> Meaning] /\ NoText(Env(AtLine))
    BY <2>1, SettledEnv
  <2> HIDE DEF e
  <2> QED BY <2>4, <2>5, SafeBack
<1>3. pc' = "fatal" \/ \E a, s : EndLine(a, s)
  <2>1. CASE setDirective
    BY <1>2, <2>1, Zenon DEF setDirective, Stop
  <2>2. CASE zeroDirective
    BY <1>2, <2>2, Zenon DEF zeroDirective, Stop, AddItem
  <2>3. CASE handleLd
    BY <1>2, <2>3, Zenon DEF handleLd, Stop, AddInstrs
  <2> QED BY <2>1, <2>2, <2>3
<1> QED BY <1>1, <1>3, EndLasts

(* The length of a .fill is a positive number. *)
LEMMA FillLasts ==
  ASSUME PlaceInv, Calm, Quiet, ~Cause, fillDirective
  PROVE  pc' # "crash"
<1> DEFINE e == line.args[1]
           r == Eval(e, NoTable)
           value == Vals(FileValues, 0)
<1>1. pc = "pass1" /\ at <= Len(file.lines) /\ line.op = "fill"
  BY DEF fillDirective, Reads, line
<1>2. at \in Source /\ At(at) = line
  BY <1>1, SourceLines DEF At, line
<1>3. ~HasName(e) /\ \E v \in Denotation(e, 0) : ~(v <= 0)
  BY <1>1, <1>2 DEF Cause
<1>4. Safe(e) /\ e \in Expr /\ DOMAIN e = 1 .. Len(e)
  <2>1. WellFormed(line) /\ SafeArgs(line.args) /\ DOMAIN line.args = 1 .. Len(line.args)
    BY <1>1, QuietLineState
  <2>2. Len(line.args) = 2
    BY <1>1, <2>1 DEF WellFormed
  <2>3. 1 \in DOMAIN line.args
    BY <2>1, <2>2
  <2>4. Safe(e)
    BY <2>1, <2>3 DEF SafeArgs
  <2> QED BY <2>4, LenProperties DEF Safe, Expr
<1>5. NoTable \in [Names \cup {LP} -> Meaning]
  <2>1. Text(BadPointer) \in Meaning
    BY MeaningTypes, TokenTypes
  <2> QED BY <2>1 DEF NoTable
<1>6. value \in Valuation
  <2>1. Env(symbs) \in [Names \cup {LP} -> Meaning]
    BY EnvType, TableSteps DEF PlaceInv, TypeInv, Types
  <2>2. FileValues \in Worth /\ 0 \in Word
    BY <2>1, WorthTypes DEF Worth, FileValues, ValueAt, Meaning
  <2> QED BY <2>2, WorthTypes
<1>7. Denotes(value)[e] = Denotation(e, 0)
  BY ValuesAgree DEF Den
<1> HIDE DEF e, value
<1>8. Knows(NoTable, value, e)
  BY <1>3, <1>4 DEF Knows, HasName
<1>9. ~Eval(e, NoTable).trap
  BY <1>3, <1>4, <1>5, SafeBack
<1>10. Eval(e, NoTable).ok /\ Denotes(value)[e] = {Eval(e, NoTable).val}
  <2>1. Denotes(value)[e] # {}
    BY <1>3, <1>7
  <2> QED BY ONLY <1>4, <1>5, <1>6, <1>8, <1>9, <2>1, EvaluatorEnds
<1>11. ~r.trap /\ r.ok /\ ~(r.val <= 0) /\ r.val \in Word
  <2>1. Eval(e, NoTable).val \in Word
    <3>1. Eval(e, NoTable) \in Lexer
      BY <1>4, <1>5, EvalType
    <3> QED BY <3>1 DEF Lexer
  <2> QED BY <1>3, <1>7, <1>9, <1>10, <2>1
<1> HIDE DEF r
<1>12. r.val # 0 /\ r.val \in 1 .. Half
  <2> DEFINE x == r.val
  <2>1. x \in -Half .. Half - 1 /\ Half \in Nat /\ ~(x <= 0)
    BY <1>11, Words
  <2> HIDE DEF x
  <2>2. x # 0 /\ x \in 1 .. Half
    BY ONLY <2>1
  <2> QED BY <2>2 DEF x
<1>13. pc' = "fatal" \/ \E a, s : EndLine(a, s)
  BY <1>11, <1>12, Zenon DEF fillDirective, Stop, AddItem, r, e
<1> QED BY <1>1, <1>13, EndLasts

(* What completeData evaluates comes back. *)
LEMMA CompletedLasts ==
  ASSUME PlaceInv, Quiet, ~Cause, completeData
  PROVE  pc' # "crash"
<1> DEFINE p == NextItem
           item == data[p[1]][p[2]]
           rs == Results
           bad == {j \in DOMAIN rs : rs[j].trap \/ ~rs[j].ok \/ TooLarge(item.width, rs[j].val)}
<1>1. pc = "complete"
  BY DEF completeData
<1>2. CASE Incomplete = {}
  BY <1>2 DEF completeData
<1>3. CASE Incomplete # {}
  <2>1. p[1] \in {DATA, CONST, EVT} /\ p[2] \in DOMAIN data[p[1]]
    <3>1. p \in Incomplete
      BY <1>3, FirstIncomplete, Zenon DEF NextItem
    <3> HIDE DEF p
    <3> QED BY <3>1 DEF Incomplete
  <2>2. item \in Items /\ SafeArgs(item.args)
    <3>1. data \in [Tables -> Seq(Items)] /\ p[1] \in Tables
      BY <2>1, SectionNumbers DEF PlaceInv, TypeInv, Types, Tables
    <3> HIDE DEF p
    <3>2. data[p[1]] \in Seq(Items)
      BY <3>1
    <3>3. p[2] \in 1 .. Len(data[p[1]])
      BY <2>1, <3>2, LenProperties
    <3> QED BY <3>1, <3>2, <3>3, ElementOfSeq DEF Quiet, SafeItems
  <2>3. Env(symbs) \in [Names \cup {LP} -> Meaning] /\ NoText(Env(symbs))
    BY SettledEnv DEF Quiet, PlaceInv, TypeInv, Types
  <2>4. DOMAIN rs = DOMAIN item.args /\ \A j \in DOMAIN item.args : rs[j] = Eval(item.args[j], Env(symbs))
    BY DEF Results
  <2>5. ~(item.size < 0)
    BY <2>1 DEF Cause
  <2>6. DOMAIN rs \subseteq Nat
    <3>1. item.args \in Seq(Expr)
      BY <2>2 DEF Items
    <3> HIDE DEF item, rs
    <3> QED BY <2>4, <3>1, LenProperties
  <2>7. \/ bad # {} /\ pc' = IF rs[Min(bad)].trap THEN "crash" ELSE "fatal"
        \/ item.size < 0
        \/ pc' = pc
    BY <1>3, Zenon DEF completeData, Results, NextItem
  <2> HIDE DEF item, rs
  <2>8. \A j \in DOMAIN rs : ~rs[j].trap
    BY <2>2, <2>3, <2>4, SafeBack DEF SafeArgs
  <2>9. bad # {} => Min(bad) \in DOMAIN rs
    <3> SUFFICES ASSUME bad # {} PROVE Min(bad) \in bad
      OBVIOUS
    <3> HIDE DEF bad
    <3>1. bad \subseteq Nat
      BY <2>6 DEF bad
    <3>2. PICK a \in bad : \A b \in bad : a <= b
      BY <3>1, LeastElement
    <3> QED BY <3>2 DEF Min
  <2> HIDE DEF bad
  <2> QED BY <1>1, <2>5, <2>7, <2>8, <2>9
<1> QED BY <1>2, <1>3

(* So does what the two loops around it evaluate. *)
LEMMA SecondLasts ==
  ASSUME PlaceInv, Quiet, ~Cause, resolveSymbols \/ encode
  PROVE  pc' # "crash"
<1>1. /\ TypeInv /\ instrs \in Streams /\ symbs \in SymbolTables /\ at \in Nat \ {0}
      /\ DOMAIN instrs = 1 .. Len(instrs) /\ Len(instrs) \in Nat
  BY PlaceState, StreamSteps DEF PlaceInv, TypeInv, Types
<1>2. CASE resolveSymbols
  <2>1. at \in 1 .. Len(symbs)
    BY <1>1, <1>2 DEF resolveSymbols, TypeInv, Types
  <2>2. ~symbs[at].is.isExpr
    BY <2>1 DEF Quiet, Settled
  <2> QED BY <1>2, <2>2 DEF resolveSymbols, Round
<1>3. CASE encode
  <2> DEFINE i == instrs[at]
             r == Eval(i.expr, Env(symbs))
             plain == at > Len(instrs) \/ i.addr = 0 \/ i.kind = "plain"
  <2>1. pc = "encode" /\ (pc' \in {"generate", "encode", "fatal"} \/ (~plain /\ r.trap))
    BY <1>3, Zenon DEF encode
  <2>2. ~plain => ~r.trap
    <3> SUFFICES ASSUME ~plain PROVE ~r.trap
      OBVIOUS
    <3>1. at \in 1 .. Len(instrs) /\ i.kind \notin {"plain", "marker"}
      BY <1>1, StreamSteps
    <3>2. Safe(i.expr)
      BY <3>1 DEF Quiet, SafeCode
    <3>3. Env(symbs) \in [Names \cup {LP} -> Meaning] /\ NoText(Env(symbs))
      BY <1>1, SettledEnv DEF Quiet
    <3> HIDE DEF i
    <3> QED BY <3>2, <3>3, SafeBack
  <2> HIDE DEF plain, r
  <2> QED BY <2>1, <2>2
<1> QED BY <1>2, <1>3

(* The vector has room in its buffer, and its pieces are there. *)
LEMMA VectorLasts ==
  ASSUME RowInv, ~Cause, Generate
  PROVE  pc' # "crash"
<1> DEFINE vector == generateEVT(instrs, data[EVT])
<1>1. pc = "generate" /\ DOMAIN instrs = 1 .. Len(instrs)
  BY PlaceState, StreamSteps DEF RowInv, Generate
<1>2. \A s \in {DATA, CONST, EVT} : ~Endless(data[s])
  BY DEF Cause, Endless
<1>3. NoNull(instrs) /\ (data[EVT] = << >> \/ \E i \in DOMAIN instrs : InSection(i, EVT))
  BY <1>1 DEF Cause, NoNull
<1>4. ~vector.crash /\ ~(Len(vector.bytes) > Size(EVT))
  BY <1>1, <1>2, <1>3, VectorFits
<1>5. \/ \E s \in {DATA, CONST, EVT} : Endless(data[s])
      \/ vector.crash \/ Len(vector.bytes) > Size(EVT)
      \/ pc' = "written"
  BY Zenon DEF Generate
<1> QED BY <1>2, <1>4, <1>5

(* No step ends the process without a cause. *)
LEMMA StepsLast ==
  ASSUME RowInv, Calm, Quiet, ~Cause, pc # "crash", Next
  PROVE  pc' # "crash"
<1>1. PlaceInv
  BY DEF RowInv
<1>2. CASE LabelLine \/ SectionDirective \/ globDirective \/ endDirective
  <2>1. pc' = pc \/ \E a, s : EndLine(a, s)
    BY <1>2, Zenon DEF LabelLine, SectionDirective, globDirective, endDirective
  <2> QED BY <2>1, EndLasts
<1>3. CASE valuesDirective \/ literalDirective \/ handleInstruction
  <2>1. pc' = "fatal" \/ \E a, s : EndLine(a, s)
    BY <1>3, Zenon DEF valuesDirective, literalDirective, handleInstruction, Stop, AddItem, AddInstrs
  <2> QED BY <2>1, EndLasts
<1>4. CASE EndOfFile \/ Reuse \/ Exited
  BY <1>4 DEF EndOfFile, Reuse, Exited, vars
<1>5. CASE setDirective \/ zeroDirective \/ handleLd
  BY <1>1, <1>5, FirstLasts
<1>6. CASE fillDirective
  BY <1>1, <1>6, FillLasts
<1>7. CASE completeData
  BY <1>1, <1>7, CompletedLasts
<1>8. CASE resolveSymbols \/ encode
  BY <1>1, <1>8, SecondLasts
<1>9. CASE Generate
  BY <1>9, VectorLasts
<1> QED BY <1>2, <1>3, <1>4, <1>5, <1>6, <1>7, <1>8, <1>9, Zenon DEF Next

(* The step that does leaves the tables. *)
LEMMA CrashChanges ==
  ASSUME Next, pc # "crash", pc' = "crash"
  PROVE  UNCHANGED << file, symbs, data, instrs >>
<1>1. \A a, s : ~EndLine(a, s)
  BY EndLasts
<1>2. Stop("crash") => UNCHANGED << file, symbs, data, instrs >>
  BY DEF Stop, tables
<1>3. CASE LabelLine \/ SectionDirective \/ globDirective \/ endDirective
  BY <1>1, <1>3, Zenon DEF LabelLine, SectionDirective, globDirective, endDirective
<1>4. CASE valuesDirective \/ literalDirective \/ handleInstruction
  <2>1. pc' = "fatal"
    BY <1>1, <1>4, Zenon DEF valuesDirective, literalDirective, handleInstruction, Stop, AddItem, AddInstrs
  <2> QED BY <2>1
<1>5. CASE setDirective \/ zeroDirective \/ handleLd \/ fillDirective
  <2>1. pc' = "fatal" \/ Stop("crash")
    <3>1. CASE setDirective
      BY <1>1, <3>1, Zenon DEF setDirective, Stop
    <3>2. CASE zeroDirective
      BY <1>1, <3>2, Zenon DEF zeroDirective, Stop, AddItem
    <3>3. CASE handleLd
      BY <1>1, <3>3, Zenon DEF handleLd, Stop, AddInstrs
    <3>4. CASE fillDirective
      BY <1>1, <3>4, Zenon DEF fillDirective, Stop, AddItem
    <3> QED BY <1>5, <3>1, <3>2, <3>3, <3>4
  <2> QED BY <1>2, <2>1
<1>6. CASE EndOfFile \/ Reuse \/ Exited
  BY <1>6 DEF EndOfFile, Reuse, Exited, vars
<1>7. CASE resolveSymbols
  BY <1>7 DEF resolveSymbols, Round
<1>8. CASE completeData
  <2>1. pc = "complete"
    BY <1>8 DEF completeData
  <2>2. UNCHANGED data
    BY <1>8, <2>1, Zenon DEF completeData
  <2> QED BY <1>8, <2>2 DEF completeData
<1>9. CASE encode
  <2>1. UNCHANGED instrs
    BY <1>9, Zenon DEF encode
  <2> QED BY <1>9, <2>1 DEF encode
<1>10. CASE Generate
  BY <1>10, Zenon DEF Generate, tables
<1> QED BY <1>3, <1>4, <1>5, <1>6, <1>7, <1>8, <1>9, <1>10, Zenon DEF Next

(* So the process ends only where there is a cause. *)
LEMMA CrashNext == SymInv /\ RowInv /\ CalmInv /\ CrashCause /\ [Next]_vars => CrashCause'
<1>a. CrashCause <=> (pc = "crash" => Cause)
  BY Zenon DEF CrashCause, Cause
<1>b. CrashCause' <=> (pc' = "crash" => Cause')
  BY Zenon DEF CrashCause, Cause
<1> SUFFICES ASSUME SymInv, RowInv, CalmInv, CrashCause, [Next]_vars, pc' = "crash"
             PROVE  Cause'
  BY <1>b
<1>1. CASE UNCHANGED vars \/ Exited
  <2>1. UNCHANGED << file, symbs, data, instrs, pc >>
    BY <1>1 DEF Exited, vars, tables
  <2> QED BY <1>a, <2>1, CauseNext
<1>2. CASE Next /\ ~Exited
  <2>1. pc \notin {"fatal", "crash"}
    BY <1>2, QuietMoves, ItemMoves, CodeSteps, CompleteEffect, Zenon
       DEF Next, LabelLine, SectionDirective, setDirective, globDirective, endDirective,
           valuesDirective, literalDirective, zeroDirective, fillDirective,
           handleInstruction, handleLd, Reads, EndOfFile, Reuse, resolveSymbols,
           completeData, encode, Generate
  <2>2. UNCHANGED << file, symbs, data, instrs >>
    BY <1>2, <2>1, CrashChanges
  <2>3. CASE Cause
    BY <2>2, <2>3, CauseNext
  <2>4. CASE ~Cause
    <3>1. Calm
      BY <2>4, CalmSource DEF RowInv
    <3>2. Quiet
      BY <2>1, <3>1 DEF CalmInv
    <3> QED BY <1>2, <2>1, <2>4, <3>1, <3>2, StepsLast
  <2> QED BY <2>3, <2>4
<1> QED BY <1>1, <1>2

(* Property CrashCause: for every source, the assembler is killed only     *)
(* over what the property lists.  No legal sequence of lines without one   *)
(* of these ends the process, and for those the vector's buffer has room.  *)
THEOREM CrashExplained == Spec => []CrashCause
<1>1. Init => SymInv /\ RowInv /\ CalmInv /\ CrashCause
  <2>1. Init => CrashCause
    BY DEF Init, CrashCause
  <2> QED BY <2>1, SymInit, RowInit, QuietInit
<1>2. (SymInv /\ RowInv /\ CalmInv /\ CrashCause) /\ [Next]_vars
        => (SymInv /\ RowInv /\ CalmInv /\ CrashCause)'
  BY SymNext, RowNext, QuietNext, CrashNext
<1> QED BY <1>1, <1>2, PTL DEF Spec

=============================================================================
