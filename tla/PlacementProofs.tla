--------------------------- MODULE PlacementProofs ---------------------------
(***************************************************************************)
(* Theorems about module Assembler: where the object file has the bytes    *)
(* of items and instructions, and where that of a kernel has those of its  *)
(* vector of exceptions.                                                   *)
(***************************************************************************)
EXTENDS AssemblerProofs, FiniteSetTheorems

-----------------------------------------------------------------------------
(* The parts of the payload. *)

(* off: how many bytes are in front of each piece, behind the last one all *)
(* of them.                                                                *)
Adds(q, off) ==
  /\ off \in [0 .. Len(q) -> Int] /\ off[0] = 0
  /\ \A i \in 1 .. Len(q) : off[i] = off[i - 1] + Len(q[i])
InRow(f, q, off) ==
  /\ Len(f) = off[Len(q)]
  /\ \A i \in 1 .. Len(q) : \A k \in 1 .. Len(q[i]) :
       off[i - 1] + k \in 1 .. Len(f) /\ f[off[i - 1] + k] = q[i][k]

(* Sequences one behind the other: where each one begins. *)
LEMMA FlattenPlaces ==
  ASSUME NEW S, NEW q \in Seq(Seq(S)), NEW off, Adds(q, off)
  PROVE  FlattenSeq(q) \in Seq(S) /\ InRow(FlattenSeq(q), q, off)
<1> USE DEF Adds, InRow
<1> DEFINE N == Len(q)
<1>1. N \in Nat /\ \A i \in 1 .. N : q[i] \in Seq(S)
  BY LenProperties, ElementOfSeq
<1>2. PICK h \in [0 .. N -> Seq(S)] :
            /\ h[0] = << >> /\ FlattenSeq(q) = h[N]
            /\ \A i \in 1 .. N : h[i] = h[i - 1] \o q[i]
  BY FlattenSteps
<1> DEFINE In(i, n) == \A k \in 1 .. Len(q[i]) :
                         off[i - 1] + k \in 1 .. Len(h[n]) /\ h[n][off[i - 1] + k] = q[i][k]
           T == {n \in 0 .. N : Len(h[n]) = off[n] /\ \A i \in 1 .. n : In(i, n)}
<1>3. 0 \in T
  BY <1>1, <1>2
<1>4. ASSUME NEW n \in 0 .. N - 1, n \in T PROVE n + 1 \in T
  <2> DEFINE m == n + 1
             a == h[n]
             b == q[m]
             c == h[m]
  <2>1. m \in 1 .. N /\ m - 1 = n /\ n \in 0 .. N /\ m \in 0 .. N /\ n \in Nat
    BY <1>1
  <2>2. a \in Seq(S) /\ b \in Seq(S) /\ c = a \o b
    BY <1>1, <1>2, <2>1
  <2>3. /\ Len(a) \in Nat /\ Len(b) \in Nat /\ Len(c) = Len(a) + Len(b)
        /\ \A k \in 1 .. Len(a) : c[k] = a[k]
        /\ \A k \in 1 .. Len(b) : c[Len(a) + k] = b[k]
    <3> HIDE DEF a, b, c
    <3>1. Len(a) \in Nat /\ Len(b) \in Nat
      BY <2>2, LenProperties
    <3> QED BY <2>2, <3>1
  <2>4. Len(a) = off[n] /\ off[m] = off[n] + Len(b)
    BY <1>4, <2>1
  <2>5. ASSUME NEW i \in 1 .. m PROVE In(i, m)
    <3>1. CASE i = m
      <4>1. \A k \in 1 .. Len(b) : Len(a) + k \in 1 .. Len(c) /\ c[Len(a) + k] = b[k]
        <5> HIDE DEF a, b, c
        <5> TAKE k \in 1 .. Len(b)
        <5>1. Len(a) + k \in 1 .. Len(a) + Len(b)
          BY <2>3
        <5> QED BY <2>3, <5>1
      <4> QED BY <4>1, <3>1, <2>1, <2>4
    <3>2. CASE i # m
      <4>1. i \in 1 .. n
        BY <2>1, <3>2
      <4>2. In(i, n)
        BY <1>4, <4>1
      <4>3. \A k : k \in 1 .. Len(a) => k \in 1 .. Len(c) /\ c[k] = a[k]
        <5> HIDE DEF a, b, c
        <5> QED BY <2>3
      <4> QED BY <4>2, <4>3
    <3> QED BY <3>1, <3>2
  <2>6. Len(c) = off[m]
    BY <2>3, <2>4
  <2> QED BY <2>1, <2>5, <2>6
<1>5. 0 .. N \subseteq T
  <2> HIDE DEF T, N
  <2> QED BY <1>1, <1>3, <1>4, BoundedInduction
<1>6. N \in T
  <2>1. N \in 0 .. N
    BY <1>1
  <2> HIDE DEF T
  <2> QED BY <1>5, <2>1
<1> QED BY <1>1, <1>2, <1>6

(* The bytes of an item. *)
LEMMA ItemPlaces ==
  ASSUME NEW s, NEW i \in Nat, NEW size \in Nat
  PROVE  /\ ItemBytes(s, i, size) \in Seq({s} \X Nat \X Nat)
         /\ Len(ItemBytes(s, i, size)) = size
         /\ \A k \in 1 .. size : ItemBytes(s, i, size)[k] = << s, i, k >>
<1> DEFINE b == [k \in 1 .. size |-> << s, i, k >>]
           S == {s} \X Nat \X Nat
<1>1. ItemBytes(s, i, size) = b
  BY DEF ItemBytes
<1>2. \A k \in 1 .. size : << s, i, k >> \in S
  OBVIOUS
<1>3. \A k \in 1 .. size : b[k] = << s, i, k >>
  OBVIOUS
<1> HIDE DEF S
<1>4. b \in [1 .. size -> S]
  BY <1>2
<1> HIDE DEF b
<1>5. b \in Seq(S) /\ Len(b) = size
  BY <1>4, SeqDef, LenProperties
<1> QED BY <1>1, <1>3, <1>5 DEF S

(* The items of a section, if each one has a size: each byte is where the  *)
(* address of its item says.                                               *)
LEMMA DataPlaces ==
  ASSUME NEW s, NEW items \in Seq(Items), NEW start \in Int, NEW end \in Int,
         Adjoin(items, start, end), ~Endless(items)
  PROVE  /\ end - start \in Nat
         /\ generateData(s, items) \in Seq({s} \X Nat \X Nat)
         /\ Len(generateData(s, items)) = end - start
         /\ \A i \in 1 .. Len(items) : \A k \in 1 .. items[i].size :
              /\ items[i].addr - start + k \in 1 .. end - start
              /\ generateData(s, items)[items[i].addr - start + k] = << s, i, k >>
<1> DEFINE N == Len(items)
           S == {s} \X Nat \X Nat
           q == [i \in DOMAIN items |-> ItemBytes(s, i, items[i].size)]
           off == [n \in 0 .. N |-> IF n = 0 THEN 0 ELSE items[n].addr + items[n].size - start]
<1>1. N \in Nat /\ DOMAIN items = 1 .. N
  BY LenProperties
<1>2. \A i \in 1 .. N : items[i].addr \in Int /\ items[i].size \in Nat
  <2>1. \A i \in 1 .. N : items[i] \in Items
    BY ElementOfSeq
  <2>2. \A x \in Items : x.addr \in Int /\ x.size \in Int
    BY DEF Items
  <2>3. \A i \in 1 .. N : ~(items[i].size < 0)
    BY <1>1 DEF Endless
  <2> QED BY <2>1, <2>2, <2>3
<1>3. \A i \in 1 .. N : /\ q[i] \in Seq(S) /\ Len(q[i]) = items[i].size
                        /\ \A k \in 1 .. items[i].size : q[i][k] = << s, i, k >>
  <2>1. TAKE i \in 1 .. N
  <2> DEFINE z == items[i].size
             b == ItemBytes(s, i, z)
  <2>2. i \in Nat /\ z \in Nat /\ q[i] = b
    BY <1>1, <1>2
  <2>3. b \in Seq({s} \X Nat \X Nat) /\ Len(b) = z /\ \A k \in 1 .. z : b[k] = << s, i, k >>
    <3> HIDE DEF z
    <3> QED BY ONLY <2>2, ItemPlaces
  <2> HIDE DEF b, q
  <2> QED BY ONLY <2>2, <2>3 DEF S, z
<1>4. q \in Seq(Seq(S)) /\ Len(q) = N
  <2>1. q = [i \in 1 .. N |-> q[i]]
    BY <1>1
  <2> HIDE DEF q, S
  <2>2. q \in [1 .. N -> Seq(S)]
    BY <1>3, <2>1
  <2> QED BY <1>1, <2>2, SeqDef, LenProperties
<1>5. off \in [0 .. N -> Int] /\ off[0] = 0
  BY <1>1, <1>2
<1>6. \A i \in 1 .. N : off[i - 1] = items[i].addr - start
  <2>1. TAKE i \in 1 .. N
  <2>2. items # << >>
    BY <1>1, <2>1, EmptySeq
  <2>3. CASE i = 1
    BY <1>1, <1>2, <2>2, <2>3 DEF Adjoin
  <2>4. CASE i # 1
    <3>1. i - 1 \in 1 .. N - 1 /\ i - 1 \in 1 .. N /\ (i - 1) + 1 = i
      BY <1>1, <2>4
    <3>2. items[i].addr = items[i - 1].addr + items[i - 1].size
      BY <3>1 DEF Adjoin
    <3> QED BY <1>1, <1>2, <3>1, <3>2
  <2> QED BY <2>3, <2>4
<1>7. \A i \in 1 .. N : off[i] = off[i - 1] + Len(q[i])
  <2>1. \A i \in 1 .. N : off[i] = items[i].addr + items[i].size - start
    BY <1>1, <1>2
  <2> HIDE DEF off, q
  <2>2. TAKE i \in 1 .. N
  <2> DEFINE x == items[i].addr
             z == items[i].size
  <2>3. /\ x \in Int /\ z \in Nat /\ Len(q[i]) = z
        /\ off[i - 1] = x - start /\ off[i] = x + z - start
    BY ONLY <1>2, <1>3, <1>6, <2>1, <2>2
  <2> HIDE DEF x, z
  <2> QED BY ONLY <2>3, start \in Int
<1>8. off[N] = end - start
  <2>1. CASE N = 0
    <3>1. items = << >>
      BY <2>1, EmptySeq
    <3> QED BY <1>1, <2>1, <3>1 DEF Adjoin
  <2>2. CASE N # 0
    <3>1. items # << >> /\ N \in 1 .. N
      BY <1>1, <2>2, EmptySeq
    <3> QED BY <1>1, <1>2, <2>2, <3>1 DEF Adjoin
  <2> QED BY <2>1, <2>2
<1>9. FlattenSeq(q) = generateData(s, items)
  BY DEF generateData
<1> HIDE DEF q, off, S
<1>10. /\ FlattenSeq(q) \in Seq(S) /\ Len(FlattenSeq(q)) = off[N]
       /\ \A i \in 1 .. N : \A k \in 1 .. Len(q[i]) :
             /\ off[i - 1] + k \in 1 .. Len(FlattenSeq(q))
             /\ FlattenSeq(q)[off[i - 1] + k] = q[i][k]
  <2>1. q \in Seq(Seq(S)) /\ Adds(q, off)
    BY ONLY <1>4, <1>5, <1>7 DEF Adds
  <2>2. FlattenSeq(q) \in Seq(S) /\ InRow(FlattenSeq(q), q, off)
    BY ONLY <2>1, FlattenPlaces
  <2> QED BY ONLY <1>4, <2>2 DEF InRow
<1>11. end - start \in Nat
  BY <1>8, <1>10, LenProperties
<1>12. ASSUME NEW i \in 1 .. N, NEW k \in 1 .. items[i].size
       PROVE  /\ items[i].addr - start + k \in 1 .. end - start
              /\ generateData(s, items)[items[i].addr - start + k] = << s, i, k >>
  <2>1. k \in 1 .. Len(q[i]) /\ q[i][k] = << s, i, k >> /\ off[i - 1] = items[i].addr - start
    BY ONLY <1>3, <1>6, <1>12
  <2> QED BY ONLY <2>1, <1>8, <1>9, <1>10
<1>13. generateData(s, items) \in Seq(S) /\ Len(generateData(s, items)) = end - start
  BY ONLY <1>8, <1>9, <1>10
<1> QED BY <1>11, <1>12, <1>13 DEF S

(* Between the start and the end of a section each byte is an item's. *)
LEMMA ItemAt ==
  ASSUME NEW items \in Seq(Items), NEW start \in Int, NEW end \in Int, Adjoin(items, start, end),
         NEW n \in 1 .. end - start
  PROVE  \E i \in 1 .. Len(items) : \E k \in 1 .. items[i].size : n = items[i].addr - start + k
<1> DEFINE N == Len(items)
           e(m) == IF m = 0 THEN 0 ELSE items[m].addr + items[m].size - start
           Here(i) == \E k \in 1 .. items[i].size : n = items[i].addr - start + k
           T == {m \in 0 .. N : n <= e(m) => \E i \in 1 .. m : Here(i)}
<1>1. N \in Nat /\ \A i \in 1 .. N : items[i].addr \in Int /\ items[i].size \in Int
  <2>1. \A i \in 1 .. N : items[i] \in Items
    BY LenProperties, ElementOfSeq
  <2> QED BY <2>1, LenProperties DEF Items
<1>2. 0 \in T
  BY <1>1
<1>3. ASSUME NEW m \in 0 .. N - 1, m \in T PROVE m + 1 \in T
  <2>1. m + 1 \in 1 .. N /\ m + 1 \in 0 .. N /\ m + 1 # 0 /\ m \in Int
    BY <1>1
  <2>2. items[m + 1].addr \in Int /\ items[m + 1].size \in Int
    BY <1>1, <2>1
  <2>3. e(m) = items[m + 1].addr - start
    <3>1. items # << >>
      BY <1>1, <2>1, EmptySeq
    <3>2. CASE m = 0
      BY <3>1, <3>2, <2>2 DEF Adjoin
    <3>3. CASE m # 0
      <4>1. m \in 1 .. N - 1 /\ m \in 1 .. N
        BY <1>1, <3>3
      <4>2. items[m + 1].addr = items[m].addr + items[m].size
        BY <4>1 DEF Adjoin
      <4> QED BY <1>1, <2>2, <3>3, <4>1, <4>2, SMTT(30)
    <3> QED BY <3>2, <3>3
  <2>4. e(m + 1) = items[m + 1].addr + items[m + 1].size - start
    BY <2>1
  <2> HIDE DEF e
  <2>5. ASSUME n <= e(m + 1) PROVE \E i \in 1 .. m + 1 : Here(i)
    <3>1. CASE n <= e(m)
      <4>1. PICK i \in 1 .. m : Here(i)
        BY <1>3, <3>1
      <4>2. i \in 1 .. m + 1
        BY <2>1
      <4> HIDE DEF Here
      <4> QED BY <4>1, <4>2
    <3>2. CASE ~(n <= e(m))
      <4> DEFINE x == items[m + 1].addr
                 z == items[m + 1].size
                 k == n - (x - start)
      <4>1. x \in Int /\ z \in Int /\ n \in Int /\ n <= x + z - start /\ ~(n <= x - start)
        BY <2>2, <2>3, <2>4, <2>5, <3>2
      <4> HIDE DEF x, z
      <4>2. k \in 1 .. z /\ n = x - start + k
        BY <4>1
      <4> HIDE DEF k
      <4>3. Here(m + 1)
        BY <4>2 DEF x, z
      <4>4. m + 1 \in 1 .. m + 1
        BY <2>1
      <4> HIDE DEF Here
      <4> QED BY <4>3, <4>4
    <3> QED BY <3>1, <3>2
  <2> HIDE DEF Here
  <2> QED BY <2>1, <2>5
<1>4. 0 .. N \subseteq T
  <2> HIDE DEF T, N
  <2> QED BY <1>1, <1>2, <1>3, BoundedInduction
<1>5. N \in T
  <2>1. N \in 0 .. N
    BY <1>1
  <2> HIDE DEF T
  <2> QED BY <1>4, <2>1
<1>6. n <= e(N)
  <2>1. CASE N = 0
    <3>1. start = end
      BY <2>1, EmptySeq DEF Adjoin
    <3> QED BY <3>1
  <2>2. CASE N # 0
    <3>1. items # << >> /\ N \in 1 .. N
      BY <1>1, <2>2, EmptySeq
    <3> QED BY <1>1, <2>2, <3>1 DEF Adjoin
  <2> QED BY <2>1, <2>2
<1> HIDE DEF e, Here
<1>7. \E i \in 1 .. N : Here(i)
  BY <1>5, <1>6
<1> QED BY <1>7 DEF Here

(* The instructions of the text; c: how many are in front. *)
LEMMA TextPlaces ==
  ASSUME NEW q \in Seq(Instrs), NEW c \in [0 .. Len(q) -> Nat], c[0] = 0,
         \A i \in 1 .. Len(q) : c[i] = c[i - 1] + IF InText(q, i) THEN 1 ELSE 0
  PROVE  /\ generateText(q) \in Seq({TEXT} \X Nat \X Nat)
         /\ Len(generateText(q)) = 4 * c[Len(q)]
         /\ \A i \in 1 .. Len(q) : InText(q, i) => \A k \in 1 .. 4 :
              /\ 4 * c[i - 1] + k \in 1 .. 4 * c[Len(q)]
              /\ generateText(q)[4 * c[i - 1] + k] = << TEXT, i, k >>
<1> DEFINE N == Len(q)
           S == {TEXT} \X Nat \X Nat
           words == [i \in DOMAIN q |-> IF InText(q, i) THEN WordBytes(i) ELSE << >>]
           off == [n \in 0 .. N |-> 4 * c[n]]
<1>1. N \in Nat /\ DOMAIN q = 1 .. N
  BY LenProperties
<1>2. \A i \in 1 .. N :
         /\ WordBytes(i) \in Seq(S) /\ Len(WordBytes(i)) = 4
         /\ \A k \in 1 .. 4 : WordBytes(i)[k] = << TEXT, i, k >>
  <2>1. TAKE i \in 1 .. N
  <2> DEFINE z == 4
             b == ItemBytes(TEXT, i, z)
             s == TEXT
  <2>2. i \in Nat /\ z \in Nat /\ WordBytes(i) = b
    BY <1>1 DEF WordBytes
  <2>3. b \in Seq({s} \X Nat \X Nat) /\ Len(b) = z /\ \A k \in 1 .. z : b[k] = << s, i, k >>
    <3> HIDE DEF z, s
    <3> QED BY ONLY <2>2, ItemPlaces DEF s
  <2> HIDE DEF b
  <2> QED BY ONLY <2>2, <2>3 DEF S, z, s
<1>3. << >> \in Seq(S) /\ Len(<< >>) = 0
  OBVIOUS
<1>4. \A i \in 1 .. N : words[i] = IF InText(q, i) THEN WordBytes(i) ELSE << >>
  BY <1>1
<1>5. \A i \in 1 .. N : words[i] \in Seq(S) /\ Len(words[i]) = IF InText(q, i) THEN 4 ELSE 0
  <2> HIDE DEF words, S
  <2> QED BY <1>2, <1>3, <1>4
<1>6. words \in Seq(Seq(S)) /\ Len(words) = N
  <2>1. words = [i \in 1 .. N |-> words[i]]
    BY <1>1
  <2> HIDE DEF words, S
  <2>2. words \in [1 .. N -> Seq(S)]
    BY <1>5, <2>1
  <2> QED BY <1>1, <2>2, SeqDef, LenProperties
<1>7. off \in [0 .. N -> Int] /\ off[0] = 0 /\ off[N] = 4 * c[N]
  BY <1>1
<1>8. \A i \in 1 .. N : off[i] = off[i - 1] + Len(words[i]) /\ off[i - 1] = 4 * c[i - 1]
  <2> HIDE DEF words
  <2>1. TAKE i \in 1 .. N
  <2>2. i \in 0 .. N /\ i - 1 \in 0 .. N
    BY <1>1
  <2>3. off[i] = 4 * c[i] /\ off[i - 1] = 4 * c[i - 1] /\ c[i] \in Nat /\ c[i - 1] \in Nat
    BY <2>2
  <2>4. CASE InText(q, i)
    BY <1>5, <2>3, <2>4
  <2>5. CASE ~InText(q, i)
    BY <1>5, <2>3, <2>5
  <2> QED BY <2>4, <2>5
<1>9. FlattenSeq(words) = generateText(q)
  BY DEF generateText
<1> HIDE DEF words, off, S
<1>10. /\ FlattenSeq(words) \in Seq(S) /\ Len(FlattenSeq(words)) = off[N]
       /\ \A i \in 1 .. N : \A k \in 1 .. Len(words[i]) :
             /\ off[i - 1] + k \in 1 .. Len(FlattenSeq(words))
             /\ FlattenSeq(words)[off[i - 1] + k] = words[i][k]
  <2>1. words \in Seq(Seq(S)) /\ Adds(words, off)
    BY ONLY <1>6, <1>7, <1>8 DEF Adds
  <2>2. FlattenSeq(words) \in Seq(S) /\ InRow(FlattenSeq(words), words, off)
    BY ONLY <2>1, FlattenPlaces
  <2> QED BY ONLY <1>6, <2>2 DEF InRow
<1>11. ASSUME NEW i \in 1 .. N, InText(q, i), NEW k \in 1 .. 4
       PROVE  /\ 4 * c[i - 1] + k \in 1 .. 4 * c[N]
              /\ generateText(q)[4 * c[i - 1] + k] = << TEXT, i, k >>
  <2>1. k \in 1 .. Len(words[i]) /\ words[i][k] = << TEXT, i, k >> /\ off[i - 1] = 4 * c[i - 1]
    BY ONLY <1>2, <1>4, <1>5, <1>8, <1>11
  <2>2. /\ off[i - 1] + k \in 1 .. Len(FlattenSeq(words))
        /\ FlattenSeq(words)[off[i - 1] + k] = words[i][k]
    BY ONLY <2>1, <1>10
  <2> QED BY ONLY <2>1, <2>2, <1>7, <1>9, <1>10
<1>12. generateText(q) \in Seq(S) /\ Len(generateText(q)) = 4 * c[N]
  BY ONLY <1>7, <1>9, <1>10
<1> QED BY <1>11, <1>12 DEF S

(* A section that is cut or filled up to its size. *)
LEMMA FitPlaces ==
  ASSUME NEW S, NEW bytes \in Seq(S), NEW size \in Nat
  PROVE  /\ Fit(bytes, size) \in Seq(S \cup {Junk}) /\ Len(Fit(bytes, size)) = size
         /\ \A k \in 1 .. size : k <= Len(bytes) => Fit(bytes, size)[k] = bytes[k]
<1> DEFINE b == [k \in 1 .. size |-> IF k <= Len(bytes) THEN bytes[k] ELSE Junk]
           T == S \cup {Junk}
<1>1. Fit(bytes, size) = b
  BY DEF Fit
<1>2. \A k \in 1 .. size : (IF k <= Len(bytes) THEN bytes[k] ELSE Junk) \in T
  BY LenProperties, ElementOfSeq
<1>3. \A k \in 1 .. size : k <= Len(bytes) => b[k] = bytes[k]
  OBVIOUS
<1> HIDE DEF T
<1>4. b \in [1 .. size -> T]
  BY <1>2
<1> HIDE DEF b
<1>5. b \in Seq(T) /\ Len(b) = size
  BY <1>4, SeqDef, LenProperties
<1> QED BY <1>1, <1>3, <1>5 DEF T

(* The headers add up the sizes of the sections in front, .bss included. *)
SizeIn(size, s) == IF s \in DOMAIN size THEN size[s] ELSE 0

(* What is counted in front of a section is a sum of sizes.                *)
LEMMA OffsetSums ==
  ASSUME NEW size, \A s \in DOMAIN size : size[s] \in Int
  PROVE  /\ Offset(size, 0) = 0 /\ Offset(size, 1) = SizeIn(size, 0)
         /\ Offset(size, 3) = SizeIn(size, 0) + SizeIn(size, 1) + SizeIn(size, 2)
<1> DEFINE z(t) == SizeIn(size, t)
           Body(f) == [t \in 0 .. 6 |-> IF t = 0 THEN 0
                                        ELSE f[t - 1] + IF t - 1 \in DOMAIN size THEN size[t - 1] ELSE 0]
           off == CHOOSE f : f = Body(f)
           Add(n) == [v \in Int |-> v + z(n - 1)]
           F == [n \in 1 .. 6 |-> Add(n)]
<1>1. \A t \in Int : z(t) \in Int
  BY DEF SizeIn
<1>2. \E h \in [0 .. 6 -> Int] : h[0] = 0 /\ \A n \in 1 .. 6 : h[n] = F[n][h[n - 1]]
  <2>1. Steps(F, 1 .. 6, Int)
    <3>1. ASSUME NEW n \in 1 .. 6 PROVE F[n] \in [Int -> Int]
      <4>1. \A v \in Int : v + z(n - 1) \in Int
        BY <1>1
      <4> QED BY <4>1
    <3>2. F = [n \in 1 .. 6 |-> F[n]]
      OBVIOUS
    <3> HIDE DEF F
    <3> QED BY <3>1, <3>2 DEF Steps
  <2> DEFINE x == 0
             N == 6
             S == Int
  <2>2. x \in S /\ N \in Nat /\ Steps(F, 1 .. N, S)
    BY <2>1
  <2> HIDE DEF F, x, N, S
  <2>3. \E h \in [0 .. N -> S] : h[0] = x /\ \A n \in 1 .. N : h[n] = F[n][h[n - 1]]
    BY ONLY <2>2, BoundedRecursionExists
  <2> QED BY ONLY <2>3 DEF x, N, S
<1>3. PICK h \in [0 .. 6 -> Int] : h[0] = 0 /\ \A n \in 1 .. 6 : h[n] = F[n][h[n - 1]]
  BY <1>2
<1>4. h = Body(h)
  <2>1. \A t \in 0 .. 6 : h[t] = Body(h)[t]
    <3>1. TAKE t \in 0 .. 6
    <3>2. CASE t = 0
      BY <1>3, <3>2
    <3>3. CASE t # 0
      <4>1. t \in 1 .. 6 /\ t - 1 \in 0 .. 6
        BY <3>3
      <4>2. h[t] = F[t][h[t - 1]] /\ h[t - 1] \in Int
        BY <1>3, <4>1
      <4>3. h[t] = h[t - 1] + z(t - 1)
        BY <4>1, <4>2
      <4> QED BY <3>3, <4>3 DEF SizeIn
    <3> QED BY <3>2, <3>3
  <2>2. Body(h) = [t \in 0 .. 6 |-> Body(h)[t]] /\ h = [t \in 0 .. 6 |-> h[t]]
    OBVIOUS
  <2> HIDE DEF Body
  <2> QED BY <2>1, <2>2
<1>5. off = Body(off)
  <2> HIDE DEF Body
  <2> QED BY <1>4
<1>6. Offset(size, 0) = off[0] /\ Offset(size, 1) = off[1] /\ Offset(size, 3) = off[3]
  BY DEF Offset
<1> HIDE DEF off
<1>7. /\ off[0] = 0 /\ off[1] = off[0] + z(0) /\ off[2] = off[1] + z(1) /\ off[3] = off[2] + z(2)
  <2>1. /\ off[0] = Body(off)[0] /\ off[1] = Body(off)[1]
        /\ off[2] = Body(off)[2] /\ off[3] = Body(off)[3]
    BY <1>5
  <2>2. /\ Body(off)[0] = 0 /\ Body(off)[1] = off[0] + z(0)
        /\ Body(off)[2] = off[1] + z(1) /\ Body(off)[3] = off[2] + z(2)
    BY DEF SizeIn
  <2> QED BY <2>1, <2>2
<1>8. z(0) \in Int /\ z(1) \in Int /\ z(2) \in Int
  BY <1>1
<1> QED BY <1>6, <1>7, <1>8

-----------------------------------------------------------------------------
(* The source and its sections do not change. *)
LEMMA SourceKept ==
  ASSUME UNCHANGED file
  PROVE  /\ Source' = Source /\ PureText' = PureText
         /\ \A j : SectionAt(j)' = SectionAt(j)
<1>1. Source' = Source
  BY DEF Source
<1>2. \A j : At(j)' = At(j)
  BY DEF At
<1>3. ASSUME NEW j PROVE SectionAt(j)' = SectionAt(j)
  BY <1>1 DEF SectionAt, At
<1>4. PureText' = PureText
  BY <1>1, <1>3 DEF PureText, At, IsInstr
<1> QED BY <1>1, <1>3, <1>4

(* The next line is in the same section, or in the one that this line      *)
(* makes the active one.                                                   *)
LEMMA SectionMoves ==
  ASSUME at \in Nat \ {0}, at \in DOMAIN file.lines, at \in Source, file.lines \in Seq(Line)
  PROVE  /\ line.op # "end" /\ at + 1 <= Len(file.lines) => at + 1 \in Source
         /\ line.op # "section" => SectionAt(at + 1) = SectionAt(at)
         /\ line.op = "section" => SectionAt(at + 1) = line.n
<1> DEFINE before(j) == {i \in Source : i < j /\ At(i).op = "section"}
<1>1. \A i \in Source : i \in Nat /\ i \in 1 .. Len(file.lines)
  BY LenProperties DEF Source
<1>2. ASSUME line.op # "end", at + 1 <= Len(file.lines) PROVE at + 1 \in Source
  <2>1. at + 1 \in DOMAIN file.lines
    BY <1>2, LenProperties
  <2>2. ASSUME NEW i \in 1 .. (at + 1) - 1 PROVE file.lines[i].op # "end"
    <3>1. i \in 1 .. at - 1 \/ i = at
      BY <2>2
    <3> QED BY <3>1, <1>2 DEF Source, line
  <2> QED BY <2>1, <2>2 DEF Source
<1>3. ASSUME line.op # "section" PROVE before(at + 1) = before(at)
  <2>1. \A i \in Source : i < at + 1 <=> i < at \/ i = at
    BY <1>1
  <2>2. At(at).op # "section"
    BY <1>3 DEF At, line
  <2> QED BY <2>1, <2>2
<1>4. ASSUME line.op = "section" PROVE at \in before(at + 1) /\ Max(before(at + 1)) = at
  <2>1. at \in before(at + 1)
    BY <1>4 DEF At, line
  <2>2. \A i \in before(at + 1) : i \in Nat /\ i <= at
    BY <1>1
  <2> HIDE DEF before
  <2>3. \A x \in before(at + 1) : (\A y \in before(at + 1) : x >= y) => x = at
    BY <2>1, <2>2
  <2>4. \A y \in before(at + 1) : at >= y
    BY <2>2
  <2> QED BY <2>1, <2>3, <2>4 DEF Max
<1>5. \A j : SectionAt(j) = IF before(j) = {} THEN DATA ELSE At(Max(before(j))).n
  BY DEF SectionAt
<1> HIDE DEF before
<1> QED BY <1>2, <1>3, <1>4, <1>5 DEF At, line

-----------------------------------------------------------------------------
(* The instructions of the text. *)

(* c: how many instructions generateText copies in front of one; t: on     *)
(* which side of the vector's markers it is, 0 for the text.               *)
Counts(q, c, t) ==
  /\ c \in [0 .. Len(q) -> Nat] /\ c[0] = 0
  /\ t \in [0 .. Len(q) -> {0, 1}] /\ t[0] = 0
  /\ \A i \in 1 .. Len(q) :
       /\ t[i] = IF q[i].addr = 0 THEN 1 - t[i - 1] ELSE t[i - 1]
       /\ c[i] = c[i - 1] + IF q[i].addr # 0 /\ t[i - 1] = 0 THEN 1 ELSE 0

(* An instruction is in the text unless a vector is open in front of it.   *)
LEMMA InTextCounts ==
  ASSUME NEW q \in Seq(Instrs), NEW c, NEW t, Counts(q, c, t)
  PROVE  \A i \in 1 .. Len(q) : InText(q, i) <=> q[i].addr # 0 /\ t[i - 1] = 0
<1> DEFINE N == Len(q)
           M(n) == {j \in Marks(q) : j < n + 1}
           T == {n \in 0 .. N : /\ IsFiniteSet(M(n)) /\ Cardinality(M(n)) \in Nat
                                /\ Cardinality(M(n)) % 2 = t[n]}
<1>1. N \in Nat /\ DOMAIN q = 1 .. N /\ \A j \in Marks(q) : j \in 1 .. N
  BY LenProperties DEF Marks
<1>2. 0 \in T
  <2>1. M(0) = {}
    BY <1>1
  <2>2. IsFiniteSet(M(0)) /\ Cardinality(M(0)) = 0
    BY <2>1, FS_EmptySet
  <2> QED BY <1>1, <2>2 DEF Counts
<1>3. ASSUME NEW n \in 0 .. N - 1, n \in T PROVE n + 1 \in T
  <2>1. n + 1 \in 1 .. N /\ n + 1 \in 0 .. N /\ (n + 1) - 1 = n /\ n \in 0 .. N
    BY <1>1
  <2>2. /\ t[n] \in {0, 1}
        /\ t[n + 1] = IF q[n + 1].addr = 0 THEN 1 - t[n] ELSE t[n]
    BY <2>1 DEF Counts
  <2>3. IsFiniteSet(M(n)) /\ Cardinality(M(n)) \in Nat /\ Cardinality(M(n)) % 2 = t[n]
    BY <1>3
  <2>4. \A j \in Marks(q) : j < (n + 1) + 1 <=> j < n + 1 \/ j = n + 1
    BY <1>1, <2>1
  <2>5. n + 1 \in Marks(q) <=> q[n + 1].addr = 0
    BY <1>1, <2>1 DEF Marks
  <2>6. CASE q[n + 1].addr = 0
    <3>1. M(n + 1) = M(n) \cup {n + 1} /\ n + 1 \notin M(n)
      BY <2>1, <2>4, <2>5, <2>6
    <3>2. IsFiniteSet(M(n + 1)) /\ Cardinality(M(n + 1)) = Cardinality(M(n)) + 1
      <4> HIDE DEF M
      <4> QED BY <2>3, <3>1, FS_AddElement
    <3> HIDE DEF M
    <3> QED BY <2>1, <2>2, <2>3, <2>6, <3>2
  <2>7. CASE q[n + 1].addr # 0
    <3>1. M(n + 1) = M(n)
      BY <2>1, <2>4, <2>5, <2>7
    <3> HIDE DEF M
    <3> QED BY <2>1, <2>2, <2>3, <2>7, <3>1
  <2> QED BY <2>6, <2>7
<1>4. 0 .. N \subseteq T
  <2> HIDE DEF T
  <2> QED BY <1>1, <1>2, <1>3, BoundedInduction
<1>5. ASSUME NEW i \in 1 .. N PROVE InText(q, i) <=> q[i].addr # 0 /\ t[i - 1] = 0
  <2>1. i - 1 \in 0 .. N /\ (i - 1) + 1 = i
    BY <1>1
  <2>2. Cardinality(M(i - 1)) % 2 = t[i - 1]
    BY <1>4, <2>1
  <2>3. M(i - 1) = {j \in Marks(q) : j < i}
    BY <2>1
  <2>4. i \in Marks(q) <=> q[i].addr = 0
    BY <1>1 DEF Marks
  <2> HIDE DEF M
  <2> QED BY <2>2, <2>3, <2>4 DEF InText
<1> QED BY <1>5

(* The instructions of the text have the addresses of their places, apart  *)
(* from the last one of an ld of seven, and are outside of the vector.     *)
AtPlace(q, c, t) ==
  \A i \in 1 .. Len(q) : q[i].kind # "marker" =>
    /\ q[i].addr > 0
    /\ SectionAt(q[i].line) = TEXT =>
         /\ t[i - 1] = 0
         /\ \/ q[i].instr = "ld" /\ q[i].rs # "ir"
            \/ q[i].addr = Starts[file.kern][TEXT] + 4 * c[i - 1]

(* A stream whose text ends at an address, the vector being open or not. *)
LaidOut(q, end, open) ==
  \E c, t : /\ Counts(q, c, t) /\ AtPlace(q, c, t)
            /\ end = Starts[file.kern][TEXT] + 4 * c[Len(q)]
            /\ t[Len(q)] = IF open THEN 1 ELSE 0

(* A marker opens or closes the vector, and moves nothing.                 *)
LEMMA MarkLaidOut ==
  ASSUME at \in Nat, NEW q \in Streams, NEW end, NEW o \in BOOLEAN, LaidOut(q, end, o)
  PROVE  LaidOut(Append(q, Marker), end, ~o)
<1> DEFINE N == Len(q)
           r == Append(q, Marker)
<1>1. PICK c, t : /\ Counts(q, c, t) /\ AtPlace(q, c, t)
                  /\ end = Starts[file.kern][TEXT] + 4 * c[N] /\ t[N] = IF o THEN 1 ELSE 0
  BY DEF LaidOut
<1>2. N \in Nat /\ q \in Seq(Instrs)
  BY StreamSteps
<1>3. Marker.addr = 0 /\ Marker.kind = "marker"
  BY DEF Marker, Instr
<1>4. Len(r) = N + 1 /\ r[N + 1] = Marker /\ \A i \in 1 .. N : r[i] = q[i]
  BY <1>2
<1> HIDE DEF r
<1> DEFINE c2 == [n \in 0 .. Len(r) |-> IF n <= N THEN c[n] ELSE c[N]]
           t2 == [n \in 0 .. Len(r) |-> IF n <= N THEN t[n] ELSE 1 - t[N]]
<1>5. /\ c \in [0 .. N -> Nat] /\ c[0] = 0 /\ t \in [0 .. N -> {0, 1}] /\ t[0] = 0
      /\ \A i \in 1 .. N : /\ t[i] = IF q[i].addr = 0 THEN 1 - t[i - 1] ELSE t[i - 1]
                           /\ c[i] = c[i - 1] + IF q[i].addr # 0 /\ t[i - 1] = 0 THEN 1 ELSE 0
  BY <1>1 DEF Counts
<1>6. /\ \A n \in 0 .. N : c2[n] = c[n] /\ t2[n] = t[n]
      /\ c2[N + 1] = c[N] /\ t2[N + 1] = 1 - t[N]
      /\ c2 \in [0 .. Len(r) -> Nat] /\ t2 \in [0 .. Len(r) -> {0, 1}]
  BY <1>2, <1>4, <1>5
<1> HIDE DEF c2, t2
<1>7. ASSUME NEW i \in 1 .. Len(r)
      PROVE  /\ t2[i] = IF r[i].addr = 0 THEN 1 - t2[i - 1] ELSE t2[i - 1]
             /\ c2[i] = c2[i - 1] + IF r[i].addr # 0 /\ t2[i - 1] = 0 THEN 1 ELSE 0
             /\ r[i].kind # "marker" => i \in 1 .. N /\ r[i] = q[i] /\ t2[i - 1] = t[i - 1]
                                        /\ c2[i - 1] = c[i - 1]
  <2>1. CASE i \in 1 .. N
    <3>1. i - 1 \in 0 .. N /\ i \in 0 .. N /\ r[i] = q[i]
      BY <2>1, <1>2, <1>4
    <3> QED BY <2>1, <3>1, <1>5, <1>6
  <2>2. CASE i = N + 1
    <3>1. i - 1 = N /\ N \in 0 .. N /\ r[i] = Marker /\ c[N] \in Nat
      BY <2>2, <1>2, <1>4, <1>5
    <3> QED BY <2>2, <3>1, <1>3, <1>6
  <2> QED BY <2>1, <2>2, <1>2, <1>4
<1>8. Counts(r, c2, t2)
  <2>1. 0 \in 0 .. N
    BY <1>2
  <2> QED BY <2>1, <1>5, <1>6, <1>7 DEF Counts
<1>9. AtPlace(r, c2, t2)
  BY <1>1, <1>7 DEF AtPlace
<1>10. end = Starts[file.kern][TEXT] + 4 * c2[Len(r)] /\ t2[Len(r)] = IF ~o THEN 1 ELSE 0
  BY <1>1, <1>4, <1>6
<1> QED BY <1>8, <1>9, <1>10 DEF LaidOut, r

(* The instructions of a line; in the text each one but the last one of an *)
(* ld of seven is 4 bytes behind its predecessor.                          *)
LEMMA MoreLaidOut ==
  ASSUME NEW q \in Streams, NEW new \in Seq(Plain), NEW end \in Int, NEW o \in BOOLEAN,
         LaidOut(q, end, o), Starts[file.kern][TEXT] \in Int,
         \A k \in 1 .. Len(new) :
           /\ new[k].addr > 0
           /\ o => SectionAt(new[k].line) # TEXT
           /\ ~o => (new[k].instr = "ld" /\ new[k].rs # "ir") \/ new[k].addr = end + 4 * (k - 1)
  PROVE  LaidOut(q \o new, IF o THEN end ELSE end + 4 * Len(new), o)
<1> DEFINE N == Len(q)
           m == Len(new)
           r == q \o new
           start == Starts[file.kern][TEXT]
<1>1. PICK c, t : /\ Counts(q, c, t) /\ AtPlace(q, c, t)
                  /\ end = start + 4 * c[N] /\ t[N] = IF o THEN 1 ELSE 0
  BY DEF LaidOut
<1>2. /\ N \in Nat /\ m \in Nat /\ q \in Seq(Instrs) /\ new \in Seq(Instrs)
      /\ \A k \in 1 .. m : new[k].kind # "marker" /\ new[k].addr \in Int
  <2>1. Plain \subseteq Instrs /\ \A e \in Plain : e.kind # "marker" /\ e.addr \in Int
    BY DEF Plain, Instrs
  <2>2. new \in Seq(Instrs) /\ \A k \in 1 .. m : new[k] \in Plain
    BY <2>1, SeqMonotonic, ElementOfSeq
  <2> QED BY <2>1, <2>2, StreamSteps, LenProperties
<1>3. /\ Len(r) = N + m /\ \A i \in 1 .. N : r[i] = q[i]
      /\ \A k \in 1 .. m : r[N + k] = new[k]
  BY <1>2, ConcatProperties
<1> HIDE DEF r, m, start
<1> DEFINE c2 == [n \in 0 .. Len(r) |-> IF n <= N THEN c[n] ELSE IF o THEN c[N] ELSE c[N] + n - N]
           t2 == [n \in 0 .. Len(r) |-> IF n <= N THEN t[n] ELSE t[N]]
<1>5. /\ c \in [0 .. N -> Nat] /\ c[0] = 0 /\ t \in [0 .. N -> {0, 1}] /\ t[0] = 0
      /\ \A i \in 1 .. N : /\ t[i] = IF q[i].addr = 0 THEN 1 - t[i - 1] ELSE t[i - 1]
                           /\ c[i] = c[i - 1] + IF q[i].addr # 0 /\ t[i - 1] = 0 THEN 1 ELSE 0
      /\ c[N] \in Nat
  <2>1. N \in 0 .. N
    BY <1>2
  <2> QED BY <1>1, <2>1 DEF Counts
<1>6. /\ \A n \in 0 .. N : c2[n] = c[n] /\ t2[n] = t[n]
      /\ \A k \in 0 .. m : c2[N + k] = (IF o THEN c[N] ELSE c[N] + k) /\ t2[N + k] = t[N]
      /\ c2 \in [0 .. Len(r) -> Nat] /\ t2 \in [0 .. Len(r) -> {0, 1}]
  <2>1. \A n \in 0 .. Len(r) : c2[n] \in Nat /\ t2[n] \in {0, 1}
    <3>1. TAKE n \in 0 .. Len(r)
    <3>2. /\ c2[n] = IF n <= N THEN c[n] ELSE IF o THEN c[N] ELSE c[N] + n - N
          /\ t2[n] = IF n <= N THEN t[n] ELSE t[N]
      OBVIOUS
    <3>3. n \in Nat /\ (n <= N => n \in 0 .. N) /\ N \in 0 .. N
      BY <1>2, <1>3
    <3>4. c[N] \in Nat /\ t[N] \in {0, 1} /\ (n <= N => c[n] \in Nat /\ t[n] \in {0, 1})
      BY <1>5, <3>3
    <3> HIDE DEF c2, t2
    <3>5. n > N => c[N] + n - N \in Nat
      BY <1>2, <3>3, <3>4
    <3> QED BY <1>2, <3>2, <3>3, <3>4, <3>5
  <2>2. \A n \in 0 .. N : c2[n] = c[n] /\ t2[n] = t[n]
    BY <1>2, <1>3
  <2>3. \A k \in 0 .. m : c2[N + k] = (IF o THEN c[N] ELSE c[N] + k) /\ t2[N + k] = t[N]
    <3>1. TAKE k \in 0 .. m
    <3> DEFINE n == N + k
    <3>2. n \in 0 .. Len(r) /\ n - N = k /\ (n <= N <=> k = 0) /\ (k = 0 => n = N) /\ c[N] \in Nat
      BY ONLY <1>2, <1>3, <1>5, <3>1 DEF m
    <3>3. /\ c2[n] = IF n <= N THEN c[n] ELSE IF o THEN c[N] ELSE c[N] + n - N
          /\ t2[n] = IF n <= N THEN t[n] ELSE t[N]
      BY <3>2
    <3> HIDE DEF c2, t2
    <3>4. c[N] + n - N = c[N] + k
      BY ONLY <1>2, <3>1, <3>2
    <3> HIDE DEF n
    <3>5. /\ c2[n] = (IF o THEN c[N] ELSE c[N] + k)
          /\ t2[n] = t[N]
      BY ONLY <3>2, <3>3, <3>4
    <3> QED BY <3>5 DEF n
  <2>4. c2 = [n \in 0 .. Len(r) |-> c2[n]] /\ t2 = [n \in 0 .. Len(r) |-> t2[n]]
    OBVIOUS
  <2> HIDE DEF c2, t2
  <2> QED BY <2>1, <2>2, <2>3, <2>4
<1> HIDE DEF c2, t2
<1>7. ASSUME NEW i \in 1 .. Len(r)
      PROVE  \/ /\ i \in 1 .. N /\ r[i] = q[i] /\ t2[i - 1] = t[i - 1] /\ c2[i - 1] = c[i - 1]
                /\ t2[i] = t[i] /\ c2[i] = c[i]
             \/ \E k \in 1 .. m :
                  /\ i = N + k /\ r[i] = new[k] /\ r[i].addr # 0 /\ t2[i - 1] = t[N] /\ t2[i] = t[N]
                  /\ c2[i - 1] = (IF o THEN c[N] ELSE c[N] + (k - 1))
                  /\ c2[i] = (IF o THEN c[N] ELSE c[N] + k)
  <2>1. CASE i \in 1 .. N
    <3>1. i - 1 \in 0 .. N /\ i \in 0 .. N
      BY <2>1, <1>2
    <3> QED BY <2>1, <3>1, <1>3, <1>6
  <2>2. CASE i \notin 1 .. N
    <3> DEFINE k == i - N
    <3>1. k \in 1 .. m /\ k \in 0 .. m /\ k - 1 \in 0 .. m /\ i = N + k /\ i - 1 = N + (k - 1)
      BY <2>2, <1>2, <1>3
    <3>2. new[k].addr # 0
      BY <3>1, <1>2, SMTT(30) DEF m
    <3> HIDE DEF k
    <3> QED BY <3>1, <3>2, <1>3, <1>6, ZenonT(40)
  <2> QED BY <2>1, <2>2
<1>8. Counts(r, c2, t2)
  <2>1. 0 \in 0 .. N
    BY <1>2
  <2>2. \A i \in 1 .. Len(r) :
          /\ t2[i] = IF r[i].addr = 0 THEN 1 - t2[i - 1] ELSE t2[i - 1]
          /\ c2[i] = c2[i - 1] + IF r[i].addr # 0 /\ t2[i - 1] = 0 THEN 1 ELSE 0
    <3>1. TAKE i \in 1 .. Len(r)
    <3>2. CASE i \in 1 .. N /\ r[i] = q[i] /\ t2[i - 1] = t[i - 1] /\ c2[i - 1] = c[i - 1]
                /\ t2[i] = t[i] /\ c2[i] = c[i]
      BY <3>2, <1>5
    <3>3. ASSUME NEW k \in 1 .. m, r[i].addr # 0, t2[i - 1] = t[N], t2[i] = t[N],
                 c2[i - 1] = (IF o THEN c[N] ELSE c[N] + (k - 1)),
                 c2[i] = (IF o THEN c[N] ELSE c[N] + k)
          PROVE  /\ t2[i] = IF r[i].addr = 0 THEN 1 - t2[i - 1] ELSE t2[i - 1]
                 /\ c2[i] = c2[i - 1] + IF r[i].addr # 0 /\ t2[i - 1] = 0 THEN 1 ELSE 0
      BY <3>3, <1>1, <1>2, <1>5
    <3> QED BY <1>7, <3>2, <3>3
  <2> QED BY <2>1, <2>2, <1>5, <1>6 DEF Counts
<1>9. AtPlace(r, c2, t2)
  <2> SUFFICES ASSUME NEW i \in 1 .. Len(r), r[i].kind # "marker"
               PROVE  /\ r[i].addr > 0
                      /\ SectionAt(r[i].line) = TEXT =>
                           /\ t2[i - 1] = 0
                           /\ \/ r[i].instr = "ld" /\ r[i].rs # "ir"
                              \/ r[i].addr = start + 4 * c2[i - 1]
    BY DEF AtPlace, start
  <2>1. CASE i \in 1 .. N /\ r[i] = q[i] /\ t2[i - 1] = t[i - 1] /\ c2[i - 1] = c[i - 1]
    BY <2>1, <1>1 DEF AtPlace, start
  <2>2. ASSUME NEW k \in 1 .. m, r[i] = new[k], t2[i - 1] = t[N],
               c2[i - 1] = (IF o THEN c[N] ELSE c[N] + (k - 1))
        PROVE  /\ r[i].addr > 0
               /\ SectionAt(r[i].line) = TEXT =>
                    /\ t2[i - 1] = 0
                    /\ \/ r[i].instr = "ld" /\ r[i].rs # "ir"
                       \/ r[i].addr = start + 4 * c2[i - 1]
    <3>1. k \in 1 .. Len(new) /\ k \in Int
      BY <1>2 DEF m
    <3>2. CASE o
      BY <2>2, <3>1, <3>2
    <3>3. CASE ~o
      <4>1. t2[i - 1] = 0 /\ c2[i - 1] = c[N] + (k - 1) /\ c[N] \in Nat /\ end = start + 4 * c[N]
            /\ start \in Int
        BY <1>1, <1>5, <2>2, <3>3 DEF start
      <4> DEFINE z == c[N]
      <4>2. end + 4 * (k - 1) = start + 4 * c2[i - 1]
        <5>1. z \in Nat /\ k \in Int /\ start \in Int /\ end = start + 4 * z /\ c2[i - 1] = z + (k - 1)
          BY <3>1, <4>1
        <5> HIDE DEF z
        <5> QED BY ONLY <5>1
      <4> QED BY <2>2, <3>1, <3>3, <4>1, <4>2
    <3> QED BY <3>2, <3>3
  <2> QED BY <1>7, <2>1, <2>2
<1>10. /\ (IF o THEN end ELSE end + 4 * m) = start + 4 * c2[Len(r)]
       /\ t2[Len(r)] = IF o THEN 1 ELSE 0
  <2>1. Len(r) = N + m /\ m \in 0 .. m /\ start \in Int
    BY <1>2, <1>3 DEF start
  <2>2. c2[N + m] = (IF o THEN c[N] ELSE c[N] + m) /\ t2[N + m] = t[N]
    BY <2>1, <1>6
  <2>3. end = start + 4 * c[N] /\ c[N] \in Nat /\ t[N] = IF o THEN 1 ELSE 0
    BY <1>1, <1>5
  <2> QED BY ONLY <1>2, <2>1, <2>2, <2>3
<1> QED BY <1>8, <1>9, <1>10 DEF LaidOut, r, m, start

(* The text is not in front of its start. *)
LEMMA TextGrows ==
  ASSUME NEW q, NEW end, NEW o, LaidOut(q, end, o), Len(q) \in Nat, file.kern \in BOOLEAN
  PROVE  end \in Int /\ end > 0
<1>1. PICK c : c \in [0 .. Len(q) -> Nat] /\ end = Starts[file.kern][TEXT] + 4 * c[Len(q)]
  BY DEF LaidOut, Counts
<1>2. c[Len(q)] \in Nat
  <2>1. Len(q) \in 0 .. Len(q)
    OBVIOUS
  <2> QED BY <1>1, <2>1
<1> DEFINE start == Starts[file.kern][TEXT]
           n == c[Len(q)]
<1>3. start \in Int /\ start > 0 /\ n \in Nat /\ end = start + 4 * n
  BY <1>1, <1>2, StartsAssumption, SectionNumbers
<1> HIDE DEF start, n
<1> QED BY ONLY <1>3

(* Streams that agree in what the layout depends on. *)
Alike(q, r) ==
  /\ Len(r) = Len(q)
  /\ \A i \in 1 .. Len(q) : /\ r[i].addr = q[i].addr /\ r[i].line = q[i].line
                            /\ r[i].instr = q[i].instr /\ r[i].rs = q[i].rs
                            /\ r[i].kind = "marker" <=> q[i].kind = "marker"

(* What the second pass changes of the instructions moves none of them.    *)
LEMMA AlikeLaidOut ==
  ASSUME NEW q, NEW r, NEW end, NEW o, Alike(q, r), LaidOut(q, end, o)
  PROVE  LaidOut(r, end, o)
<1>1. PICK c, t : /\ Counts(q, c, t) /\ AtPlace(q, c, t)
                  /\ end = Starts[file.kern][TEXT] + 4 * c[Len(q)]
                  /\ t[Len(q)] = IF o THEN 1 ELSE 0
  BY DEF LaidOut
<1>2. Counts(r, c, t)
  BY <1>1 DEF Counts, Alike
<1>3. AtPlace(r, c, t)
  BY <1>1 DEF AtPlace, Alike
<1> QED BY <1>1, <1>2, <1>3 DEF LaidOut, Alike

(* An operand is replaced. *)
LEMMA AlikeOperand ==
  ASSUME NEW q \in Streams, NEW i \in Int, NEW e
  PROVE  Alike(q, [q EXCEPT ![i].expr = e])
<1> DEFINE new == [q[i] EXCEPT !.expr = e]
           r == [q EXCEPT ![i] = new]
<1>1. /\ Len(q) \in Nat /\ DOMAIN q = 1 .. Len(q) /\ q \in Seq(Instrs)
      /\ \A j \in 1 .. Len(q) : q[j] \in Instrs
  BY StreamSteps
<1>2. [q EXCEPT ![i].expr = e] = r
  OBVIOUS
<1>3. i \in 1 .. Len(q) =>
        /\ new.addr = q[i].addr /\ new.line = q[i].line /\ new.instr = q[i].instr
        /\ new.rs = q[i].rs /\ new.kind = q[i].kind
  BY <1>1 DEF Instrs
<1> HIDE DEF new
<1>4. Len(r) = Len(q) /\ \A j \in 1 .. Len(q) : r[j] = IF j = i THEN new ELSE q[j]
  BY <1>1
<1> HIDE DEF r
<1>5. Alike(q, r)
  BY <1>3, <1>4 DEF Alike
<1> QED BY <1>2, <1>5

(* The field of an instruction is none of its place.                       *)
LEMMA AlikeField ==
  ASSUME NEW q \in Streams, NEW i \in 1 .. Len(q), NEW f
  PROVE  Alike(q, [q EXCEPT ![i].field = f])
<1> DEFINE new == [q[i] EXCEPT !.field = f]
           r == [q EXCEPT ![i] = new]
<1>1. /\ Len(q) \in Nat /\ DOMAIN q = 1 .. Len(q) /\ q \in Seq(Instrs)
      /\ \A j \in 1 .. Len(q) : q[j] \in Instrs
  BY StreamSteps
<1>2. [q EXCEPT ![i].field = f] = r
  OBVIOUS
<1>3. /\ new.addr = q[i].addr /\ new.line = q[i].line /\ new.instr = q[i].instr
      /\ new.rs = q[i].rs /\ new.kind = q[i].kind
  BY <1>1 DEF Instrs
<1> HIDE DEF new
<1>4. Len(r) = Len(q) /\ \A j \in 1 .. Len(q) : r[j] = IF j = i THEN new ELSE q[j]
  BY <1>1
<1> HIDE DEF r
<1>5. Alike(q, r)
  BY <1>3, <1>4 DEF Alike
<1> QED BY <1>2, <1>5

(* Nor are the values that the three moves of an ld get.                   *)
LEMMA AlikeSpecial ==
  ASSUME instrs \in Streams, at \in 1 .. Len(instrs), instrs[at].kind # "marker", NEW v
  PROVE  Alike(instrs, Special(v))
<1> DEFINE e1 == [instrs[at] EXCEPT !.kind = "I", !.expr = << INT(High(v)) >>, !.field = High(v)]
           q1 == [instrs EXCEPT ![at] = e1]
           e2 == [q1[at + 2] EXCEPT !.expr = << INT(Mid(v)) >>]
           q2 == [q1 EXCEPT ![at + 2] = e2]
           e3 == [q2[at + 5] EXCEPT !.expr = << INT(Low(v)) >>]
           q3 == [q2 EXCEPT ![at + 5] = e3]
           N == Len(instrs)
           Same(x, y) == /\ x.addr = y.addr /\ x.line = y.line /\ x.instr = y.instr /\ x.rs = y.rs
                         /\ x.kind = "marker" <=> y.kind = "marker"
<1>1. /\ N \in Nat /\ DOMAIN instrs = 1 .. N /\ instrs \in Seq(Instrs)
      /\ \A j \in 1 .. N : instrs[j] \in Instrs
  BY StreamSteps
<1>2. Special(v) = q3
  <2>1. q1 = [instrs EXCEPT ![at].kind = "I", ![at].expr = << INT(High(v)) >>, ![at].field = High(v)]
    BY <1>1
  <2> HIDE DEF q1
  <2> QED BY <2>1 DEF Special
<1>3. Same(e1, instrs[at]) /\ DOMAIN e1 = DOMAIN instrs[at]
  BY <1>1 DEF Instrs
<1> HIDE DEF e1
<1>4. DOMAIN q1 = 1 .. N /\ \A j \in 1 .. N : q1[j] = IF j = at THEN e1 ELSE instrs[j]
  BY <1>1
<1>5. \A j \in 1 .. N : Same(q1[j], instrs[j]) /\ DOMAIN q1[j] = DOMAIN instrs[j]
  BY <1>3, <1>4
<1> HIDE DEF q1
<1>6. at + 2 \in 1 .. N => Same(e2, q1[at + 2]) /\ DOMAIN e2 = DOMAIN q1[at + 2]
  BY <1>1, <1>5 DEF Instrs
<1> HIDE DEF e2
<1>7. DOMAIN q2 = 1 .. N /\ \A j \in 1 .. N : q2[j] = IF j = at + 2 THEN e2 ELSE q1[j]
  BY <1>4
<1>8. \A j \in 1 .. N : Same(q2[j], instrs[j]) /\ DOMAIN q2[j] = DOMAIN instrs[j]
  BY <1>5, <1>6, <1>7
<1> HIDE DEF q2
<1>9. at + 5 \in 1 .. N => Same(e3, q2[at + 5])
  BY <1>1, <1>8 DEF Instrs
<1> HIDE DEF e3
<1>10. DOMAIN q3 = 1 .. N /\ \A j \in 1 .. N : q3[j] = IF j = at + 5 THEN e3 ELSE q2[j]
  BY <1>7
<1>11. \A j \in 1 .. N : Same(q3[j], instrs[j])
  BY <1>8, <1>9, <1>10
<1>12. Len(q3) = N
  <2>1. q3 = [j \in 1 .. N |-> q3[j]]
    BY <1>10, <1>7
  <2> HIDE DEF q3
  <2> QED BY <1>1, <2>1
<1> HIDE DEF q3
<1> QED BY <1>2, <1>11, <1>12 DEF Alike

(* The second pass changes operands and fields only. *)
LEMMA AlikeEncoded ==
  ASSUME TypeInv, encode
  PROVE  Alike(instrs, instrs')
<1> DEFINE i == instrs[at]
           r == Eval(i.expr, Env(symbs))
           f == Field(i.kind, r.val, i.addr)
<1>1. instrs \in Streams /\ at \in Nat \ {0} /\ Len(instrs) \in Nat
  BY StreamSteps DEF TypeInv, Types, VectorInv, Inv, Shape
<1>2. \/ instrs' = instrs
      \/ at <= Len(instrs) /\ i.addr # 0 /\ i.kind # "plain" /\ instrs' = Special(r.val)
      \/ at <= Len(instrs) /\ instrs' = [instrs EXCEPT ![at].field = f]
  <2>1. CASE at > Len(instrs)
    BY <2>1 DEF encode
  <2>2. CASE at <= Len(instrs)
    <3>1. ~(at > Len(instrs))
      BY <1>1, <2>2
    <3> QED BY <2>2, <3>1, Zenon DEF encode
  <2> QED BY <1>1, <2>1, <2>2
<1> HIDE DEF r, f
<1>3. CASE instrs' = instrs
  BY <1>3 DEF Alike
<1>4. CASE at <= Len(instrs) /\ i.addr # 0 /\ i.kind # "plain" /\ instrs' = Special(r.val)
  <2>1. at \in 1 .. Len(instrs)
    BY <1>1, <1>4
  <2>2. instrs[at].kind # "marker"
    BY <1>1, <1>4, <2>1, StreamSteps
  <2> QED BY <1>1, <1>4, <2>1, <2>2, AlikeSpecial
<1>5. CASE at <= Len(instrs) /\ instrs' = [instrs EXCEPT ![at].field = f]
  <2>1. at \in 1 .. Len(instrs)
    BY <1>1, <1>5
  <2> QED BY <1>1, <1>5, <2>1, AlikeField
<1> QED BY <1>2, <1>3, <1>4, <1>5

-----------------------------------------------------------------------------
(* The invariant: the line that is read is part of the source, and its     *)
(* section the active one; the vector is not in front of its start unless  *)
(* an item took it there; a file that gets to the second pass has a text;  *)
(* the stream is laid out, if the source's text is pure.                   *)
PlaceInv ==
  /\ TypeInv
  /\ pc = "pass1" /\ at <= Len(file.lines) => at \in Source /\ active = SectionAt(at)
  /\ Endless(data[EVT]) \/ lp[EVT] >= Starts[file.kern][EVT]
  /\ pc \in PassTwo => present[TEXT]
  /\ PureText /\ ~Endless(data[EVT]) /\ pc \notin {"fatal", "crash"} =>
       LaidOut(instrs, lp[TEXT], evt = "open")

(* What is known of the constants and the state when a line is read.       *)
LEMMA PlaceState ==
  ASSUME PlaceInv
  PROVE  /\ file \in Files /\ file.kern \in BOOLEAN /\ file.lines \in Seq(Line)
         /\ Len(file.lines) \in Nat /\ DOMAIN file.lines = 1 .. Len(file.lines)
         /\ at \in Nat \ {0} /\ at + 1 \in Nat \ {0} /\ instrs \in Streams /\ Len(instrs) \in Nat
         /\ lp \in [Sections -> Int] /\ lp[TEXT] \in Int /\ lp[EVT] \in Int
         /\ data \in [Tables -> Seq(Items)] /\ data[EVT] \in Seq(Items)
         /\ active \in Sections /\ lp[active] \in Int
         /\ evt \in {"none", "open", "closed"} /\ pc \in Pcs /\ TEXT \in Sections /\ EVT \in Sections
         /\ Starts[file.kern][TEXT] \in Int /\ Starts[file.kern][EVT] \in Int
<1>1. file \in Files /\ file.kern \in BOOLEAN /\ file.lines \in Seq(Line)
  BY FilesAssumption DEF PlaceInv, TypeInv, VectorInv, Inv, Shape
<1>2. Len(file.lines) \in Nat /\ DOMAIN file.lines = 1 .. Len(file.lines)
  BY <1>1, LenProperties
<1>3. instrs \in Streams /\ lp \in [Sections -> Int] /\ data \in [Tables -> Seq(Items)] /\ pc \in Pcs
  BY DEF PlaceInv, TypeInv, Types
<1>4. Len(instrs) \in Nat
  BY <1>3, StreamSteps
<1>5. /\ at \in Nat \ {0} /\ active \in Sections /\ evt \in {"none", "open", "closed"}
  BY DEF PlaceInv, TypeInv, VectorInv, Inv, Shape
<1>6. TEXT \in Sections /\ EVT \in Sections /\ EVT \in Tables
  BY SectionNumbers
<1> QED BY <1>1, <1>2, <1>3, <1>4, <1>5, <1>6, StartsAssumption

(* How far behind its place the last instruction of a long ld is recorded. *)
Late(x) == IF x.instr = "ld" /\ x.rs # "ir" THEN 20 ELSE 0

(* New instructions, one behind the other from the location pointer on.    *)
Behind(new, extra) ==
  /\ 4 * Len(new) = extra + 4
  /\ \A k \in 1 .. Len(new) :
       new[k].line = at /\ new[k].addr = lp[active] + 4 * (k - 1) + Late(new[k])

(* What a line may do: end the process, move to a section or nothing, add  *)
(* an item (to the text a gap only), add instructions.                     *)
Stops == \E how \in {"fatal", "crash"} : Stop(how)
QuietLine ==
  /\ line.op # "end" /\ UNCHANGED << lp, data >>
  /\ present' = IF line.op = "section" THEN [present EXCEPT ![line.n] = TRUE] ELSE present
  /\ EndLine(IF line.op = "section" THEN line.n ELSE active, instrs)
ItemLine ==
  /\ line.op \notin {"end", "section"} /\ (active = TEXT => ~PureText)
  /\ \E size \in Int : \E width, args, done : AddItem(size, width, args, done)
CodeLine ==
  /\ IsInstr(at) /\ ~Misplaced
  /\ \E s : \E new \in Seq(Plain), extra \in Nat : AddInstrs(s, new, extra) /\ Behind(new, extra)

(* The layout of the next state. *)
LEMMA LaidOutNext ==
  ASSUME UNCHANGED file, LaidOut(instrs', lp'[TEXT], evt' = "open")
  PROVE  LaidOut(instrs, lp[TEXT], evt = "open")'
<1>1. PICK c, t : /\ Counts(instrs', c, t) /\ AtPlace(instrs', c, t)
                  /\ lp'[TEXT] = Starts[file.kern][TEXT] + 4 * c[Len(instrs')]
                  /\ t[Len(instrs')] = IF evt' = "open" THEN 1 ELSE 0
  BY DEF LaidOut
<1>2. AtPlace(instrs, c, t)'
  BY <1>1, SourceKept DEF AtPlace
<1>3. Counts(instrs, c, t)'
  BY <1>1 DEF Counts
<1> QED BY <1>1, <1>2, <1>3 DEF LaidOut

(* The end of a line that left the stream s. *)
LEMMA PlaceLine ==
  ASSUME PlaceInv, TypeInv', pc = "pass1", at <= Len(file.lines), line.op # "end", NEW a,
         a = (IF line.op = "section" THEN line.n ELSE active), NEW s \in Streams, EndLine(a, s),
         Endless(data'[EVT]) \/ lp'[EVT] >= Starts[file.kern][EVT],
         PureText /\ ~Endless(data'[EVT]) => LaidOut(s, lp'[TEXT], evt = "open")
  PROVE  PlaceInv'
<1>1. UNCHANGED file /\ at' = at + 1 /\ active' = a /\ pc' \in {"pass1", "fatal"}
  BY DEF EndLine
<1>2. at \in Source /\ active = SectionAt(at) /\ at \in DOMAIN file.lines
  BY PlaceState DEF PlaceInv
<1>3. at' <= Len(file.lines) => at' \in Source /\ active' = SectionAt(at')
  BY <1>1, <1>2, PlaceState, SectionMoves
<1>4. (at <= Len(file.lines) => at \in Source /\ active = SectionAt(at))'
  <2>1. Source' = Source /\ \A j : SectionAt(j)' = SectionAt(j)
    BY <1>1, SourceKept
  <2> QED BY <1>1, <1>3, <2>1, SourceKept DEF SectionAt, Source, At
<1>5. (Endless(data[EVT]) \/ lp[EVT] >= Starts[file.kern][EVT])'
  BY <1>1 DEF Endless
<1>6. (PureText /\ ~Endless(data[EVT]) /\ pc \notin {"fatal", "crash"} =>
         LaidOut(instrs, lp[TEXT], evt = "open"))'
  <2> SUFFICES ASSUME PureText', ~Endless(data'[EVT]), pc' # "fatal"
               PROVE  LaidOut(instrs, lp[TEXT], evt = "open")'
    BY DEF Endless
  <2>1. LaidOut(s, lp'[TEXT], evt = "open")
    BY <1>1, SourceKept
  <2>2. \/ instrs' = s /\ (evt' = "open" <=> evt = "open")
        \/ instrs' = Append(s, Marker) /\ (evt' = "open" <=> ~(evt = "open"))
    BY PlaceState DEF EndLine
  <2>3. LaidOut(instrs', lp'[TEXT], evt' = "open")
    <3> DEFINE o == evt = "open"
               e == lp'[TEXT]
    <3>1. o \in BOOLEAN /\ at \in Nat /\ LaidOut(s, e, o)
      BY <2>1, PlaceState
    <3> HIDE DEF o, e
    <3>2. LaidOut(Append(s, Marker), e, ~o)
      BY <3>1, MarkLaidOut
    <3>3. (evt' = "open") = o \/ (evt' = "open") = ~o
      BY <3>1
    <3> QED BY <2>2, <3>1, <3>2 DEF o, e
  <2> QED BY <1>1, <2>3, LaidOutNext
<1>7. (pc \in PassTwo => present[TEXT])'
  BY <1>1 DEF PassTwo
<1> QED BY <1>4, <1>5, <1>6, <1>7 DEF PlaceInv

(* What a line that adds an item does. *)
LEMMA ItemEffect ==
  ASSUME PlaceInv, NEW size \in Int, NEW width, NEW args, NEW done, AddItem(size, width, args, done)
  PROVE  /\ EndLine(active, instrs) /\ present' = present
         /\ \A t \in Sections : lp'[t] = IF t = active THEN lp[t] + size ELSE lp[t]
         /\ \E item :
              /\ item.size = size /\ item.addr = lp[active]
              /\ data'[EVT] = IF active = EVT THEN Append(data[EVT], item) ELSE data[EVT]
         /\ Endless(data[EVT]) => Endless(data'[EVT])
         /\ active = EVT /\ size < 0 => Endless(data'[EVT])
<1> DEFINE item == [addr |-> lp[active], size |-> size, width |-> width, args |-> args,
                    vals |-> << >>, done |-> done, line |-> at]
           q == data[EVT]
<1>1. /\ lp' = [lp EXCEPT ![active] = @ + size] /\ EndLine(active, instrs)
      /\ data' = IF active \notin Tables THEN data
                 ELSE [data EXCEPT ![active] = Append(@, item)]
  BY DEF AddItem
<1>2. item.size = size /\ item.addr = lp[active]
  OBVIOUS
<1> HIDE DEF item
<1>3. EVT \in Tables /\ TEXT # EVT /\ TEXT \in Sections /\ EVT \in Sections
  BY SectionNumbers
<1>4. /\ lp' = [t \in Sections |-> IF t = active THEN lp[t] + size ELSE lp[t]]
      /\ data'[EVT] = IF active = EVT THEN Append(q, item) ELSE q
  BY <1>1, <1>3, PlaceState
<1>5. Endless(q) => Endless(data'[EVT])
  <2>1. /\ Len(Append(q, item)) = Len(q) + 1 /\ Len(q) \in Nat
        /\ \A k \in 1 .. Len(q) : Append(q, item)[k] = q[k]
    BY PlaceState, AppendItem
  <2>2. DOMAIN q = 1 .. Len(q) /\ DOMAIN Append(q, item) = 1 .. Len(Append(q, item))
    BY PlaceState
  <2> DEFINE r == Append(q, item)
  <2> HIDE DEF r, q
  <2>3. Endless(q) => Endless(r)
    BY <2>1, <2>2 DEF Endless, r
  <2> QED BY <1>4, <2>3 DEF r, q
<1>6. active = EVT /\ size < 0 => Endless(data'[EVT])
  <2>1. Len(Append(q, item)) = Len(q) + 1 /\ Len(q) \in Nat /\ Append(q, item)[Len(q) + 1] = item
    BY PlaceState, AppendItem
  <2>2. DOMAIN Append(q, item) = 1 .. Len(Append(q, item))
    BY PlaceState
  <2> DEFINE r == Append(q, item)
  <2> HIDE DEF r, q
  <2>3. size < 0 => Endless(r)
    <3>1. Len(q) + 1 \in DOMAIN r
      BY <2>1, <2>2 DEF r
    <3>2. r[Len(q) + 1].size = size
      BY <1>2, <2>1 DEF r
    <3> QED BY <3>1, <3>2 DEF Endless
  <2> QED BY <1>4, <2>3 DEF r, q
<1>7. EndLine(active, instrs) /\ present' = present
  BY DEF AddItem
<1>8. \A t \in Sections : lp'[t] = IF t = active THEN lp[t] + size ELSE lp[t]
  BY <1>4
<1>9. \E new : /\ new.size = size /\ new.addr = lp[active]
              /\ data'[EVT] = IF active = EVT THEN Append(data[EVT], new) ELSE data[EVT]
  <2>1. data'[EVT] = IF active = EVT THEN Append(data[EVT], item) ELSE data[EVT]
    BY <1>4
  <2> QED BY <1>2, <2>1
<1> HIDE DEF q
<1> QED BY <1>5, <1>6, <1>7, <1>8, <1>9 DEF q

(* A line that adds an item, unless a gap to the text. *)
LEMMA PlaceItem ==
  ASSUME PlaceInv, TypeInv', pc = "pass1", at <= Len(file.lines), line.op \notin {"end", "section"},
         NEW size \in Int, NEW width, NEW args, NEW done, AddItem(size, width, args, done),
         active = TEXT => ~PureText
  PROVE  PlaceInv'
<1>1. /\ EndLine(active, instrs)
      /\ \A t \in Sections : lp'[t] = IF t = active THEN lp[t] + size ELSE lp[t]
      /\ Endless(data[EVT]) => Endless(data'[EVT])
      /\ active = EVT /\ size < 0 => Endless(data'[EVT])
  BY ItemEffect
<1>2. EVT \in Sections /\ TEXT \in Sections
  BY SectionNumbers
<1>3. Endless(data'[EVT]) \/ lp'[EVT] >= Starts[file.kern][EVT]
  <2>1. Endless(data[EVT]) \/ lp[EVT] >= Starts[file.kern][EVT]
    BY DEF PlaceInv
  <2>2. lp'[EVT] = IF active = EVT THEN lp[EVT] + size ELSE lp[EVT]
    BY <1>1, <1>2
  <2>3. lp[EVT] \in Int /\ Starts[file.kern][EVT] \in Int
    BY PlaceState
  <2> QED BY <1>1, <2>1, <2>2, <2>3
<1>4. PureText /\ ~Endless(data'[EVT]) => LaidOut(instrs, lp'[TEXT], evt = "open")
  <2>1. PureText => lp'[TEXT] = lp[TEXT]
    BY <1>1, <1>2
  <2> QED BY <1>1, <2>1 DEF PlaceInv
<1>5. active = (IF line.op = "section" THEN line.n ELSE active)
  OBVIOUS
<1>6. instrs \in Streams
  BY PlaceState
<1> QED BY <1>1, <1>3, <1>4, <1>5, <1>6, PlaceLine

(* What a line that adds instructions does: the new ones, whatever the     *)
(* section's handler has added to the location pointer, are behind it.     *)
LEMMA CodeEffect ==
  ASSUME PlaceInv, pc = "pass1", at <= Len(file.lines), IsInstr(at), ~Misplaced,
         NEW s, NEW new \in Seq(Plain), NEW extra \in Nat, AddInstrs(s, new, extra), Behind(new, extra)
  PROVE  /\ EndLine(active, instrs \o new) /\ data' = data /\ present' = present
         /\ active = SectionAt(at) /\ (evt = "open" <=> active = EVT)
         /\ lp'[EVT] = IF active = EVT THEN lp[EVT] + 4 * Len(new) ELSE lp[EVT]
         /\ active = EVT => lp'[TEXT] = lp[TEXT]
         /\ active = TEXT => lp'[TEXT] = lp[TEXT] + 4 * Len(new)
         /\ PureText /\ ~Endless(data[EVT]) =>
              /\ active \in {TEXT, EVT}
              /\ \A k \in 1 .. Len(new) : new[k].addr > 0 /\ new[k].line = at
         /\ active = EVT /\ ~Endless(data[EVT]) => \A k \in 1 .. Len(new) : new[k].addr > 0
<1> DEFINE here == [lp EXCEPT ![active] = @ + extra]
           r == instrs \o new
           open == evt = "open"
<1>0. /\ active \in Sections /\ lp \in [Sections -> Int] /\ lp[active] \in Int
      /\ lp[EVT] \in Int /\ lp[TEXT] \in Int
  BY PlaceState
<1>1. /\ lp' = [here EXCEPT ![IF evt = "open" THEN EVT ELSE TEXT] = @ + 4]
      /\ EndLine(active, r) /\ data' = data /\ present' = present
  BY DEF AddInstrs
<1>2. /\ active \in {TEXT, EVT, IVT} /\ TEXT # EVT /\ EVT # IVT /\ TEXT # IVT /\ 3 = TEXT /\ 4 = EVT
      /\ TEXT \in Sections /\ EVT \in Sections
  <2>1. active \in 0 .. 5 /\ ~(active < 3) /\ TEXT = 3 /\ EVT = 4 /\ IVT = 5 /\ Sections = 0 .. 5
    BY <1>0, SectionNumbers DEF Misplaced
  <2> QED BY ONLY <2>1
<1>3. open <=> active = EVT
  BY DEF PlaceInv, TypeInv, VectorInv, VectorOnce
<1>4. /\ here = [t \in Sections |-> IF t = active THEN lp[t] + extra ELSE lp[t]]
      /\ here \in [Sections -> Int]
  <2>1. lp = [t \in Sections |-> lp[t]] /\ \A t \in Sections : lp[t] \in Int
    BY <1>0
  <2>2. \A t \in Sections : here[t] = IF t = active THEN lp[t] + extra ELSE lp[t]
    BY ONLY <1>0, <2>1
  <2>3. here = [t \in Sections |-> here[t]]
    BY ONLY <2>1
  <2>4. \A t \in Sections : here[t] \in Int
    BY ONLY <2>1, <2>2, extra \in Nat
  <2> HIDE DEF here
  <2> QED BY ONLY <2>2, <2>3, <2>4
<1>5. /\ lp'[EVT] = IF open THEN lp[EVT] + extra + 4 ELSE lp[EVT]
      /\ ~open => lp'[TEXT] = (IF active = TEXT THEN lp[TEXT] + extra ELSE lp[TEXT]) + 4
      /\ open => lp'[TEXT] = lp[TEXT]
  <2> HIDE DEF here
  <2>1. lp' = [t \in Sections |-> IF t = (IF open THEN EVT ELSE TEXT) THEN here[t] + 4 ELSE here[t]]
    BY <1>1, <1>2, <1>4
  <2> HIDE DEF open
  <2> QED BY <1>2, <1>3, <1>4, <2>1
<1>9. ASSUME active = EVT, ~Endless(data[EVT]) PROVE lp[active] > 0
  <2>1. file.kern = TRUE
    BY <1>9, PlaceState DEF PlaceInv, TypeInv, VectorInv, VectorOnce, EVT
  <2> DEFINE b == Starts[file.kern][EVT]
  <2>2. lp[EVT] >= b
    BY <1>9 DEF PlaceInv
  <2>3. b \in Int /\ b > 0
    BY <2>1, PlaceState, StartsAssumption
  <2> HIDE DEF b
  <2>4. lp[EVT] \in Int
    BY <1>0
  <2>5. lp[EVT] > 0
    BY ONLY <2>2, <2>3, <2>4
  <2> QED BY <1>9, <2>5
<1>10. ASSUME lp[active] > 0, NEW k \in 1 .. Len(new) PROVE new[k].addr > 0
  <2> DEFINE a == lp[active]
             b == Late(new[k])
  <2>1. new[k].addr = a + 4 * (k - 1) + b /\ a \in Int /\ a > 0
    BY <1>0, <1>10 DEF Behind
  <2>2. b = 0 \/ b = 20
    BY DEF Late
  <2>3. k \in Nat /\ k >= 1
    OBVIOUS
  <2> HIDE DEF a, b
  <2> QED BY ONLY <2>1, <2>2, <2>3
<1>6. ASSUME PureText, ~Endless(data[EVT])
      PROVE  /\ active \in {TEXT, EVT}
             /\ \A k \in 1 .. Len(new) : new[k].addr > 0 /\ new[k].line = at
  <2>1. LaidOut(instrs, lp[TEXT], open)
    BY <1>6 DEF PlaceInv
  <2>2. active = SectionAt(at) /\ at \in Source /\ active # IVT
    BY <1>6 DEF PlaceInv, PureText
  <2>3. lp[active] > 0
    <3>1. CASE active = TEXT
      BY <2>1, <3>1, PlaceState, TextGrows
    <3>2. CASE active = EVT
      BY <1>6, <1>9, <3>2
    <3> QED BY <1>2, <2>2, <3>1, <3>2
  <2> QED BY <1>2, <1>10, <2>2, <2>3 DEF Behind
<1>7. active = SectionAt(at)
  BY DEF PlaceInv
<1>8. /\ lp'[EVT] = IF active = EVT THEN lp[EVT] + 4 * Len(new) ELSE lp[EVT]
      /\ active = EVT => lp'[TEXT] = lp[TEXT]
      /\ active = TEXT => lp'[TEXT] = lp[TEXT] + 4 * Len(new)
  <2>1. 4 * Len(new) = extra + 4
    BY DEF Behind
  <2> HIDE DEF open
  <2>2. CASE active = EVT
    BY <1>0, <1>2, <1>3, <1>5, <2>1, <2>2
  <2>3. CASE active # EVT
    BY <1>0, <1>2, <1>3, <1>5, <2>1, <2>3
  <2> QED BY <2>2, <2>3
<1> HIDE DEF r
<1> QED BY <1>1, <1>3, <1>6, <1>7, <1>8, <1>9, <1>10 DEF open, r

(* A line that adds instructions. *)
LEMMA PlaceInstrs ==
  ASSUME PlaceInv, TypeInv', pc = "pass1", at <= Len(file.lines), IsInstr(at), ~Misplaced,
         NEW s, NEW new \in Seq(Plain), NEW extra \in Nat, AddInstrs(s, new, extra), Behind(new, extra)
  PROVE  PlaceInv'
<1> DEFINE r == instrs \o new
           open == evt = "open"
           end == lp[TEXT]
<1>1. /\ EndLine(active, r) /\ data' = data
      /\ active = SectionAt(at) /\ (evt = "open" <=> active = EVT)
      /\ lp'[EVT] = IF active = EVT THEN lp[EVT] + 4 * Len(new) ELSE lp[EVT]
      /\ active = EVT => lp'[TEXT] = lp[TEXT]
      /\ active = TEXT => lp'[TEXT] = lp[TEXT] + 4 * Len(new)
      /\ PureText /\ ~Endless(data[EVT]) =>
           /\ active \in {TEXT, EVT}
           /\ \A k \in 1 .. Len(new) : new[k].addr > 0 /\ new[k].line = at
  BY CodeEffect
<1>2. r \in Streams
  BY PlaceState, StreamGrows
<1>3. Endless(data'[EVT]) \/ lp'[EVT] >= Starts[file.kern][EVT]
  <2>1. Endless(data[EVT]) \/ lp[EVT] >= Starts[file.kern][EVT]
    BY DEF PlaceInv
  <2>2. lp[EVT] \in Int /\ Starts[file.kern][EVT] \in Int /\ Len(new) \in Nat
    BY PlaceState, LenProperties
  <2>3. lp'[EVT] >= lp[EVT]
    BY <1>1, <2>2
  <2>4. lp'[EVT] \in Int
    BY <1>1, <2>2
  <2> HIDE DEF open, r, end
  <2> QED BY <1>1, <2>1, <2>2, <2>3, <2>4
<1>4. ASSUME PureText, ~Endless(data'[EVT])
      PROVE  LaidOut(r, lp'[TEXT], open)
  <2>1. LaidOut(instrs, end, open) /\ ~Endless(data[EVT])
    BY <1>1, <1>4 DEF PlaceInv
  <2>2. /\ instrs \in Streams /\ end \in Int /\ open \in BOOLEAN
        /\ Starts[file.kern][TEXT] \in Int /\ TEXT # EVT
    BY PlaceState, SectionNumbers
  <2>3. \A k \in 1 .. Len(new) :
           /\ new[k].addr > 0
           /\ open => SectionAt(new[k].line) # TEXT
           /\ ~open => (new[k].instr = "ld" /\ new[k].rs # "ir") \/ new[k].addr = end + 4 * (k - 1)
    <3>1. TAKE k \in 1 .. Len(new)
    <3>2. new[k].addr > 0 /\ new[k].line = at
      BY <1>1, <1>4, <2>1
    <3>3. open => SectionAt(new[k].line) # TEXT
      BY <1>1, <2>2, <3>2
    <3>4. ~open => (new[k].instr = "ld" /\ new[k].rs # "ir") \/ new[k].addr = end + 4 * (k - 1)
      <4>1. ~open => active = TEXT
        BY <1>1, <1>4, <2>1
      <4> DEFINE b == Late(new[k])
                 a == lp[active]
      <4>2. new[k].addr = a + 4 * (k - 1) + b
        BY DEF Behind
      <4>3. b = 0 \/ (new[k].instr = "ld" /\ new[k].rs # "ir")
        BY DEF Late
      <4>4. ~open => a = end
        BY <4>1
      <4>5. k \in Nat
        OBVIOUS
      <4> HIDE DEF a, b, open, end
      <4> QED BY <2>2, <4>2, <4>3, <4>4, <4>5
    <3> QED BY <3>2, <3>3, <3>4
  <2> HIDE DEF open, end
  <2>4. LaidOut(instrs \o new, IF open THEN end ELSE end + 4 * Len(new), open)
    BY <2>1, <2>2, <2>3, MoreLaidOut
  <2>5. lp'[TEXT] = IF open THEN end ELSE end + 4 * Len(new)
    BY <1>1, <1>4, <2>1 DEF open, end
  <2> QED BY <2>4, <2>5
<1>5. line.op \notin {"end", "section"}
  BY DEF IsInstr, At, line, Kinds
<1>6. active = (IF line.op = "section" THEN line.n ELSE active)
  BY <1>5
<1> HIDE DEF r
<1> QED BY <1>1, <1>2, <1>3, <1>4, <1>5, <1>6, PlaceLine DEF r

(* The process that ends. *)
LEMMA PlaceStopped ==
  ASSUME PlaceInv, TypeInv', NEW how \in {"fatal", "crash"}, Stop(how)
  PROVE  PlaceInv'
<1>1. UNCHANGED << file, lp, data >> /\ pc' \in {"fatal", "crash"}
  BY DEF Stop, tables
<1> QED BY <1>1 DEF PlaceInv, PassTwo, Endless

(* The lines that add nothing. *)
LEMMA QuietSteps ==
  ASSUME LabelLine \/ SectionDirective \/ setDirective \/ globDirective
  PROVE  pc = "pass1" /\ at <= Len(file.lines) /\ (Stops \/ QuietLine)
<1>1. CASE LabelLine
  <2>1. line.op \in {"label", "align"} /\ pc = "pass1" /\ at <= Len(file.lines)
    BY <1>1 DEF LabelLine, Reads, line
  <2> QED BY <1>1, <2>1 DEF LabelLine, QuietLine
<1>2. CASE SectionDirective
  <2>1. line.op = "section" /\ pc = "pass1" /\ at <= Len(file.lines)
    BY <1>2 DEF SectionDirective, Reads, line
  <2> QED BY <1>2, <2>1 DEF SectionDirective, QuietLine
<1>3. CASE setDirective
  <2>1. line.op = "set" /\ pc = "pass1" /\ at <= Len(file.lines)
    BY <1>3, ZenonT(40) DEF setDirective, Reads, line
  <2>2. Stops \/ (EndLine(active, instrs) /\ UNCHANGED << lp, present, data >>)
    BY <1>3 DEF setDirective, Stops
  <2> QED BY <2>1, <2>2, SMTT(30) DEF QuietLine
<1>4. CASE globDirective
  <2>1. line.op = "glob" /\ pc = "pass1" /\ at <= Len(file.lines)
    BY <1>4 DEF globDirective, Reads, line
  <2> QED BY <1>4, <2>1 DEF globDirective, QuietLine
<1> QED BY <1>1, <1>2, <1>3, <1>4

(* The lines that add an item. *)
LEMMA ItemSteps ==
  ASSUME PlaceInv, valuesDirective \/ literalDirective \/ zeroDirective \/ fillDirective
  PROVE  pc = "pass1" /\ at <= Len(file.lines) /\ (Stops \/ ItemLine)
<1>a. TypeInv /\ TEXT = 3
  BY SectionNumbers DEF PlaceInv
<1>b. \A ops : Reads(ops) => at <= Len(file.lines)
  BY DEF Reads
<1>c. ASSUME NEW size \in Int, NEW width, NEW args, NEW done, AddItem(size, width, args, done),
             line.op \notin {"end", "section"}, active = TEXT => ~PureText
      PROVE  ItemLine
  BY <1>c DEF ItemLine
<1>1. CASE valuesDirective
  <2>1. /\ pc = "pass1" /\ at <= Len(file.lines) /\ WellFormed(line) /\ line.op = "values"
        /\ line.args \in Seq(Expr)
    BY <1>1, <1>a, <1>b, LineTypes DEF valuesDirective
  <2>2. \/ Stop("fatal")
        \/ /\ AddItem(SizeOf(line.n, line.args), line.n, line.args, FALSE)
           /\ ~validateSection("values")
    BY <1>1 DEF valuesDirective
  <2>3. SizeOf(line.n, line.args) \in Int
    BY <2>1, LenProperties DEF WellFormed, SizeOf
  <2>4. ~validateSection("values") => active # TEXT
    BY DEF validateSection
  <2>5. line.op \notin {"end", "section"}
    BY <2>1
  <2> QED BY <1>c, <2>1, <2>2, <2>3, <2>4, <2>5 DEF Stops
<1>2. CASE literalDirective
  <2>1. /\ pc = "pass1" /\ at <= Len(file.lines) /\ line.op = "literal" /\ line \in Line
    BY <1>2, <1>a, <1>b, LineTypes DEF literalDirective
  <2>2. Stop("fatal") \/ (AddItem(line.n, 1, << >>, TRUE) /\ ~validateSection("literal"))
    BY <1>2 DEF literalDirective
  <2>3. line.n \in Int
    BY <2>1 DEF Line
  <2>4. ~validateSection("literal") => active # TEXT
    BY DEF validateSection
  <2>5. line.op \notin {"end", "section"}
    BY <2>1
  <2> QED BY <1>c, <2>1, <2>2, <2>3, <2>4, <2>5 DEF Stops
<1>3. CASE zeroDirective
  <2> DEFINE r == Eval(line.args[1], Env(AtLine))
             done == ~(r.val < 0)
  <2>1. /\ AtLine \in SymbolTables /\ pc = "pass1" /\ at <= Len(file.lines)
        /\ WellFormed(line) /\ line.op = "zero"
        /\ line.args \in Seq(Expr) /\ \A j \in 1 .. Len(line.args) : line.args[j] \in Expr
    BY <1>3, <1>a, <1>b, LineTypes DEF zeroDirective
  <2>2. line.args[1] \in Expr
    BY <2>1 DEF WellFormed
  <2>3. r.val \in Int
    <3>1. r.val \in Word
      BY <2>1, <2>2, EvalInTable
    <3> HIDE DEF r
    <3> QED BY <3>1, Words
  <2>4. Stops \/ AddItem(r.val, 1, line.args, done)
    BY <1>3 DEF zeroDirective, Stops
  <2>5. active = TEXT => ~PureText
    BY <2>1 DEF PlaceInv, PureText, At, line
  <2>6. line.op \notin {"end", "section"}
    BY <2>1
  <2> HIDE DEF r, done
  <2> QED BY <1>c, <2>1, <2>3, <2>4, <2>5, <2>6
<1>4. CASE fillDirective
  <2> DEFINE r == Eval(line.args[1], NoTable)
             values == [i \in 1 .. r.val |-> line.args[2]]
  <2>1. pc = "pass1" /\ at <= Len(file.lines) /\ line.op = "fill"
    BY <1>4 DEF fillDirective, Reads, line
  <2>2. \/ Stops
        \/ /\ r.val \in 1 .. Half /\ ~validateSection("fill")
           /\ AddItem(r.val, 1, values, FALSE)
    BY <1>4 DEF fillDirective, Stops
  <2>3. r.val \in 1 .. Half => r.val \in Int
    OBVIOUS
  <2>4. ~validateSection("fill") => active # TEXT
    BY DEF validateSection
  <2>5. line.op \notin {"end", "section"}
    BY <2>1
  <2> HIDE DEF r, values
  <2> QED BY <1>c, <2>1, <2>2, <2>3, <2>4, <2>5
<1> QED BY <1>1, <1>2, <1>3, <1>4

(* An ld in six or seven instructions: each one has its place, apart from  *)
(* the seventh, which is behind the line's address in any case.            *)
LEMMA DecompositionPlaces ==
  ASSUME NEW a \in Int, NEW rd \in {"x", "c0"}, NEW v, NEW isExpr, NEW literal \in BOOLEAN, NEW expr,
         NEW ld, ld = Decomposition(a, rd, v, isExpr, literal, expr)
  PROVE  /\ 4 * Len(ld) = (IF literal THEN 20 ELSE 24) + 4
         /\ \A k \in 1 .. Len(ld) :
              ld[k].line = at /\ ld[k].addr = a + 4 * (k - 1) + Late(ld[k])
<1> DEFINE i1 == Instr(a, IF isExpr THEN "special" ELSE "I", "mv", rd, "xz",
                       IF isExpr THEN expr ELSE << INT(High(v)) >>)
           i2 == Instr(a + 4, "I", "lsl", rd, rd, << INT(ImmBits + LowBits) >>)
           i3 == Instr(a + 8, "I", "mv", "c0", "xz", << INT(IF isExpr THEN 0 ELSE Mid(v)) >>)
           i4 == Instr(a + 12, "I", "lsl", "c0", "c0", << INT(LowBits) >>)
           i5 == Instr(a + 16, "plain", "or", rd, "c0", << >>)
           i6 == Instr(a + 20, "I", "add", rd, rd, << INT(IF isExpr THEN 0 ELSE Low(v)) >>)
           i7 == Instr(a + 44, "plain", "ld", rd, rd, << >>)
<1>1. ld = << i1, i2, i3, i4, i5, i6 >> \o IF literal THEN << >> ELSE << i7 >>
  BY DEF Decomposition
<1>2. /\ i1.line = at /\ i1.addr = a /\ i2.line = at /\ i2.addr = a + 4
      /\ i3.line = at /\ i3.addr = a + 8 /\ i4.line = at /\ i4.addr = a + 12
      /\ i5.line = at /\ i5.addr = a + 16 /\ i6.line = at /\ i6.addr = a + 20
      /\ i7.line = at /\ i7.addr = a + 44 /\ Late(i7) = 20
      /\ \A i \in {i1, i2, i3, i4, i5, i6} : Late(i) = 0
  BY DEF Instr, Late
<1> HIDE DEF i1, i2, i3, i4, i5, i6, i7
<1> DEFINE six == << i1, i2, i3, i4, i5, i6 >>
           last == << i7 >>
<1>3. /\ \E S : six \in Seq(S) /\ last \in Seq(S)
      /\ Len(six) = 6 /\ Len(last) = 1 /\ last[1] = i7
      /\ \A k \in 1 .. 6 : /\ six[k].line = at /\ six[k].addr = a + 4 * (k - 1)
                           /\ Late(six[k]) = 0
  <2>1. six \in Seq({i1, i2, i3, i4, i5, i6, i7}) /\ last \in Seq({i1, i2, i3, i4, i5, i6, i7})
    OBVIOUS
  <2>2. /\ Len(six) = 6 /\ Len(last) = 1 /\ last[1] = i7
        /\ six[1] = i1 /\ six[2] = i2 /\ six[3] = i3 /\ six[4] = i4 /\ six[5] = i5 /\ six[6] = i6
    OBVIOUS
  <2>3. \A k \in 1 .. 6 : /\ six[k].line = at /\ six[k].addr = a + 4 * (k - 1)
                           /\ Late(six[k]) = 0
    <3> HIDE DEF six
    <3> QED BY <1>2, <2>2
  <2> QED BY <2>1, <2>2, <2>3
<1>4. CASE literal
  <2>1. ld = six
    BY <1>1, <1>4
  <2> HIDE DEF six, last
  <2>2. Len(ld) = 6 /\ \A k \in 1 .. 6 : /\ ld[k].line = at /\ ld[k].addr = a + 4 * (k - 1)
                                         /\ Late(ld[k]) = 0
    BY ONLY <1>3, <2>1
  <2>3. ASSUME NEW k \in 1 .. 6 PROVE ld[k].addr = a + 4 * (k - 1) + Late(ld[k])
    BY ONLY <2>2, a \in Int, k \in 1 .. 6
  <2> QED BY ONLY <1>4, <2>2, <2>3
<1>5. CASE ~literal
  <2>1. ld = six \o last
    BY <1>1, <1>5
  <2> HIDE DEF six, last
  <2>2. /\ Len(ld) = 7 /\ ld[7] = i7 /\ \A k \in 1 .. 6 : ld[k] = six[k]
    <3>1. PICK S : six \in Seq(S) /\ last \in Seq(S)
      BY <1>3
    <3>2. /\ Len(six \o last) = Len(six) + Len(last)
          /\ \A k \in 1 .. Len(six) + Len(last) :
               (six \o last)[k] = IF k <= Len(six) THEN six[k] ELSE last[k - Len(six)]
      BY ONLY <3>1, ConcatProperties
    <3>3. Len(six) = 6 /\ Len(last) = 1 /\ last[1] = i7
      BY ONLY <1>3
    <3>4. Len(ld) = 7 /\ \A k \in 1 .. 7 : ld[k] = IF k <= 6 THEN six[k] ELSE last[k - 6]
      BY ONLY <2>1, <3>2, <3>3
    <3> QED BY ONLY <3>3, <3>4
  <2>3. ld[7].line = at /\ ld[7].addr = a + 44 /\ Late(ld[7]) = 20
    BY <1>2, <2>2
  <2>4. ASSUME NEW k \in 1 .. 7
        PROVE  ld[k].line = at /\ ld[k].addr = a + 4 * (k - 1) + Late(ld[k])
    <3>1. CASE k = 7
      BY <2>3, <3>1
    <3>2. CASE k # 7
      <4>1. k \in 1 .. 6
        BY <3>2
      <4>2. ld[k].line = at /\ ld[k].addr = a + 4 * (k - 1) /\ Late(ld[k]) = 0
        BY <1>3, <2>2, <4>1
      <4> QED BY <4>1, <4>2
    <3> QED BY <3>1, <3>2
  <2> QED BY <1>5, <2>2, <2>4
<1> QED BY <1>4, <1>5

(* The lines that add instructions. *)
LEMMA CodeSteps ==
  ASSUME PlaceInv, handleInstruction \/ handleLd
  PROVE  pc = "pass1" /\ at <= Len(file.lines) /\ (Stops \/ CodeLine)
<1>a. TypeInv /\ at \in Nat /\ lp[active] \in Int /\ lp[TEXT] \in Int
  BY PlaceState DEF PlaceInv
<1>b. \A ops : Reads(ops) => at <= Len(file.lines)
  BY DEF Reads
<1>c. \A e \in Plain : << e >> \in Seq(Plain) /\ Len(<< e >>) = 1 /\ << e >>[1] = e
  OBVIOUS
<1>d. ASSUME NEW s, NEW e \in Plain, e.line = at, e.addr = lp[active], Late(e) = 0,
             IsInstr(at), ~Misplaced, AddInstrs(s, << e >>, 0)
      PROVE  CodeLine
  <2> DEFINE new == << e >>
             extra == 0
  <2>1. new \in Seq(Plain) /\ Len(new) = 1 /\ new[1] = e
    BY <1>c
  <2>2. extra \in Nat /\ 4 * Len(new) = extra + 4 /\ AddInstrs(s, new, extra)
    BY <1>d, <2>1
  <2>3. \A k \in 1 .. Len(new) :
          new[k].line = at /\ new[k].addr = lp[active] + 4 * (k - 1) + Late(new[k])
    BY <1>a, <1>d, <2>1
  <2> HIDE DEF new, extra
  <2> QED BY <1>d, <2>1, <2>2, <2>3 DEF CodeLine, Behind
<1>1. CASE handleInstruction
  <2> DEFINE expr == IF line.op = "plain" THEN << >> ELSE line.args[1]
             i == Instr(lp[active], line.op, line.op, None, None, expr)
  <2>1. /\ pc = "pass1" /\ at <= Len(file.lines) /\ WellFormed(line)
        /\ line.op \in Kinds \cup {"plain"}
        /\ \A j \in 1 .. Len(line.args) : line.args[j] \in Expr
    BY <1>1, <1>a, <1>b, LineTypes DEF handleInstruction
  <2>2. Stop("fatal") \/ (~Misplaced /\ AddInstrs(AtLine, << i >>, 0))
    BY <1>1 DEF handleInstruction
  <2>3. expr \in Expr
    <3>1. << >> \in Expr
      BY DEF Expr
    <3>2. line.op # "plain" => Len(line.args) = 1
      BY <2>1 DEF WellFormed
    <3> QED BY <2>1, <3>1, <3>2
  <2> HIDE DEF expr
  <2>4. i \in Plain
    <3>1. /\ None \in Registers /\ line.op \in Kinds \cup {"plain", "special"}
          /\ line.op \in Kinds \cup {"plain", "mv", "lsl", "or", "add", "ld"}
      BY <2>1 DEF Registers
    <3> QED BY <1>a, <2>3, <3>1, PlainType
  <2>5. i.line = at /\ i.addr = lp[active] /\ Late(i) = 0
    BY <2>1 DEF Instr, Late, Kinds
  <2>6. IsInstr(at)
    BY <2>1 DEF IsInstr, At, line
  <2> HIDE DEF i
  <2> QED BY <1>d, <2>1, <2>2, <2>4, <2>5, <2>6 DEF Stops
<1>2. CASE handleLd
  <2> DEFINE r == Eval(line.args[1], Env(AtLine))
             literal == line.n = 1
             offset == Wrap(r.val - lp[TEXT])
             i == Instr(lp[active], "M", "ld", line.name, "ir", << INT(offset) >>)
             six == Decomposition(lp[active], line.name, r.val, ~r.ok, literal, line.args[1])
             t == After(AtLine, r)
             extra == IF literal THEN 20 ELSE 24
  <2>1. /\ AtLine \in SymbolTables /\ pc = "pass1" /\ at <= Len(file.lines)
        /\ WellFormed(line) /\ line.op = "ld"
        /\ \A j \in 1 .. Len(line.args) : line.args[j] \in Expr
    BY <1>2, <1>a, <1>b, LineTypes DEF handleLd
  <2>2. line.args[1] \in Expr /\ line.name \in {"x", "c0"}
    BY <2>1 DEF WellFormed
  <2>3. r \in Lexer /\ r.val \in Word /\ r.val \in Int /\ r.ok \in BOOLEAN
    <3>1. r \in Lexer /\ r.val \in Word
      BY <2>1, <2>2, EvalInTable
    <3> QED BY <3>1, Words DEF Lexer
  <2>4. IsInstr(at)
    BY <2>1 DEF IsInstr, At, line
  <2>5. \/ Stops
        \/ ~Misplaced /\ AddInstrs(t, << i >>, 0)
        \/ ~Misplaced /\ AddInstrs(t, six, extra)
    BY <1>2 DEF handleLd, Stops
  <2>6. i \in Plain /\ i.line = at /\ i.addr = lp[active] /\ Late(i) = 0
    <3> DEFINE e == << INT(offset) >>
    <3>1. offset \in Word
      <4> DEFINE d == r.val - lp[TEXT]
      <4>1. d \in Int
        BY ONLY <1>a, <2>3
      <4> HIDE DEF d
      <4>2. Wrap(d) \in Word
        BY ONLY <4>1, Words
      <4> QED BY ONLY <4>2 DEF d
    <3> HIDE DEF offset, r
    <3>2. e \in Expr
      <4>1. INT(offset) \in Token
        BY <3>1, TokenTypes
      <4> QED BY <4>1 DEF Expr
    <3>3. /\ "M" \in Kinds \cup {"plain", "special"} /\ line.name \in Registers /\ "ir" \in Registers
          /\ "ld" \in Kinds \cup {"plain", "mv", "lsl", "or", "add", "ld"}
      BY <2>2 DEF Registers, Kinds
    <3> HIDE DEF e
    <3>4. Instr(lp[active], "M", "ld", line.name, "ir", e) \in Plain
      BY <1>a, <3>2, <3>3, PlainType
    <3>5. /\ Instr(lp[active], "M", "ld", line.name, "ir", e).line = at
          /\ Instr(lp[active], "M", "ld", line.name, "ir", e).addr = lp[active]
          /\ Late(Instr(lp[active], "M", "ld", line.name, "ir", e)) = 0
      BY DEF Instr, Late
    <3> QED BY <3>4, <3>5 DEF e
  <2>7. six \in Seq(Plain) /\ Behind(six, extra)
    <3> DEFINE a == lp[active]
               v == r.val
               isExpr == ~r.ok
               expr == line.args[1]
               rd == line.name
    <3>1. /\ at \in Nat /\ a \in Int /\ rd \in {"x", "c0"} /\ v \in Word /\ isExpr \in BOOLEAN
          /\ literal \in BOOLEAN /\ expr \in Expr
      BY <1>a, <2>2, <2>3
    <3> HIDE DEF literal, r, a, v, isExpr, expr, rd
    <3>2. Decomposition(a, rd, v, isExpr, literal, expr) \in Seq(Plain)
      BY ONLY <3>1, DecompositionType
    <3> DEFINE ld == Decomposition(a, rd, v, isExpr, literal, expr)
    <3>3. ld = Decomposition(a, rd, v, isExpr, literal, expr)
      OBVIOUS
    <3> HIDE DEF ld
    <3>4. /\ 4 * Len(ld) = (IF literal THEN 20 ELSE 24) + 4
          /\ \A k \in 1 .. Len(ld) :
               ld[k].line = at /\ ld[k].addr = a + 4 * (k - 1) + Late(ld[k])
      BY ONLY <3>1, <3>3, DecompositionPlaces
    <3> QED BY <3>2, <3>4 DEF a, v, isExpr, expr, rd, ld, Behind
  <2>8. extra \in Nat
    OBVIOUS
  <2> HIDE DEF i, six, extra, t
  <2>9. CASE ~Misplaced /\ AddInstrs(t, << i >>, 0)
    BY <1>d, <2>1, <2>4, <2>6, <2>9
  <2>10. CASE ~Misplaced /\ AddInstrs(t, six, extra)
    <3>1. CodeLine
      BY <2>4, <2>7, <2>8, <2>10 DEF CodeLine
    <3> QED BY <2>1, <3>1
  <2> QED BY <2>1, <2>5, <2>9, <2>10
<1> QED BY <1>1, <1>2

(* What each line does. *)
LineAction ==
  \/ LabelLine \/ SectionDirective \/ setDirective \/ globDirective
  \/ valuesDirective \/ literalDirective \/ zeroDirective \/ fillDirective
  \/ handleInstruction \/ handleLd

(* What a line does that is not the end of the file.                       *)
LEMMA LineSteps ==
  ASSUME PlaceInv, LineAction
  PROVE  /\ pc = "pass1" /\ at <= Len(file.lines)
         /\ Stops \/ QuietLine \/ ItemLine \/ CodeLine
BY QuietSteps, ItemSteps, CodeSteps, Zenon DEF LineAction

(* .end does nothing but to leave the loop. *)
LEMMA EndEffect ==
  ASSUME PlaceInv, endDirective
  PROVE  /\ pc = "pass1" /\ pc' = pc
         /\ UNCHANGED << file, lp, present, active, data, instrs, evt >>
         /\ ~(at' <= Len(file'.lines))
<1>1. /\ pc = "pass1" /\ pc' = pc /\ UNCHANGED << file, lp, present, active, data, instrs, evt >>
      /\ at' = Len(file.lines) + 1
  BY DEF endDirective, Reads
<1>2. ~(at' <= Len(file'.lines))
  BY <1>1, PlaceState
<1> QED BY <1>1, <1>2

(* Each line keeps the invariant. *)
LEMMA PlaceLines ==
  ASSUME PlaceInv, TypeInv', LineAction \/ endDirective
  PROVE  PlaceInv'
<1>1. CASE endDirective
  <2>1. /\ pc = "pass1" /\ pc' = pc /\ UNCHANGED << file, lp, data, instrs, evt >>
        /\ ~(at' <= Len(file'.lines))
    BY <1>1, EndEffect
  <2>2. PureText /\ ~Endless(data[EVT]) => LaidOut(instrs', lp'[TEXT], evt' = "open")
    BY <2>1 DEF PlaceInv
  <2>3. (PureText /\ ~Endless(data[EVT]) => LaidOut(instrs, lp[TEXT], evt = "open"))'
    BY <2>1, <2>2, SourceKept, LaidOutNext DEF Endless
  <2>4. (Endless(data[EVT]) \/ lp[EVT] >= Starts[file.kern][EVT])'
    BY <2>1 DEF PlaceInv, Endless
  <2> QED BY <2>1, <2>3, <2>4 DEF PlaceInv, PassTwo
<1>2. CASE LineAction
  <2>1. /\ pc = "pass1" /\ at <= Len(file.lines)
        /\ Stops \/ QuietLine \/ ItemLine \/ CodeLine
    BY <1>2, LineSteps
  <2>2. CASE Stops
    BY <2>2, PlaceStopped DEF Stops
  <2>3. CASE QuietLine
    <3>1. Endless(data'[EVT]) \/ lp'[EVT] >= Starts[file.kern][EVT]
      BY <2>3 DEF PlaceInv, QuietLine
    <3>2. PureText /\ ~Endless(data'[EVT]) => LaidOut(instrs, lp'[TEXT], evt = "open")
      BY <2>1, <2>3 DEF PlaceInv, QuietLine
    <3>3. instrs \in Streams
      BY PlaceState
    <3>4. PICK a : a = (IF line.op = "section" THEN line.n ELSE active)
      OBVIOUS
    <3>5. EndLine(a, instrs) /\ line.op # "end"
      BY <2>3, <3>4 DEF QuietLine
    <3> QED BY <2>1, <3>1, <3>2, <3>3, <3>4, <3>5, PlaceLine
  <2>4. CASE ItemLine
    BY <2>1, <2>4, PlaceItem DEF ItemLine
  <2>5. CASE CodeLine
    BY <2>1, <2>5, PlaceInstrs DEF CodeLine
  <2> QED BY <2>1, <2>2, <2>3, <2>4, <2>5
<1> QED BY <1>1, <1>2

(* The first pass ends: a vector that is open is closed, and a file        *)
(* without a text is refused.                                              *)
LEMMA PlaceEnd ==
  ASSUME PlaceInv, TypeInv', EndOfFile
  PROVE  PlaceInv'
<1>1. /\ pc = "pass1" /\ UNCHANGED << file, lp, data >> /\ instrs' = Closed
      /\ evt' = IF evt = "open" THEN "closed" ELSE evt
      /\ present' = [s \in Sections |-> present[s] /\ Size(s) # 0]
      /\ pc' = IF Confirmed THEN "resolve" ELSE "fatal"
  BY DEF EndOfFile
<1>2. (Endless(data[EVT]) \/ lp[EVT] >= Starts[file.kern][EVT])'
  BY <1>1 DEF PlaceInv, Endless
<1>3. (pc \in PassTwo => present[TEXT])'
  <2>1. Confirmed => present'[TEXT]
    <3>1. Confirmed => present[TEXT] /\ Size(TEXT) # 0
      BY DEF Confirmed
    <3>2. present'[TEXT] = (present[TEXT] /\ Size(TEXT) # 0)
      BY <1>1, PlaceState
    <3> QED BY <3>1, <3>2
  <2> QED BY <1>1, <2>1 DEF PassTwo
<1>4. (PureText /\ ~Endless(data[EVT]) /\ pc \notin {"fatal", "crash"} =>
         LaidOut(instrs, lp[TEXT], evt = "open"))'
  <2> SUFFICES ASSUME PureText', ~Endless(data[EVT]) PROVE LaidOut(instrs, lp[TEXT], evt = "open")'
    BY <1>1 DEF Endless
  <2> DEFINE e == lp[TEXT]
  <2>1. LaidOut(instrs, e, evt = "open")
    BY <1>1, SourceKept DEF PlaceInv
  <2>2. LaidOut(instrs', e, evt' = "open")
    <3>1. CASE evt = "open"
      <4>1. instrs' = Append(instrs, Marker) /\ (evt' = "open") = FALSE
        BY <1>1, <3>1 DEF Closed
      <4> DEFINE o == TRUE
      <4>2. LaidOut(instrs, e, o) /\ o \in BOOLEAN /\ instrs \in Streams /\ at \in Nat
        BY <2>1, <3>1, PlaceState
      <4> HIDE DEF o, e
      <4>3. LaidOut(Append(instrs, Marker), e, ~o)
        BY ONLY <4>2, MarkLaidOut
      <4>4. ~o = FALSE
        BY DEF o
      <4> QED BY <4>1, <4>3, <4>4
    <3>2. CASE evt # "open"
      BY <1>1, <2>1, <3>2 DEF Closed
    <3> QED BY <3>1, <3>2
  <2> QED BY <1>1, <2>2, LaidOutNext
<1>5. ~(pc' = "pass1")
  BY <1>1
<1> QED BY <1>2, <1>3, <1>4, <1>5 DEF PlaceInv

(* A step that leaves the tables of sections and the stream's layout.      *)
LEMMA PlaceKept ==
  ASSUME PlaceInv, TypeInv', UNCHANGED << file, lp, evt >>,
         pc = "pass1" => UNCHANGED << at, active >>, pc # "pass1" => pc' # "pass1",
         present' = present, pc' \in PassTwo => pc \in PassTwo,
         pc' \notin {"fatal", "crash"} => pc \notin {"fatal", "crash"},
         Endless(data'[EVT]) <=> Endless(data[EVT]), Alike(instrs, instrs')
  PROVE  PlaceInv'
<1>1. Source' = Source /\ PureText' = PureText /\ \A j : SectionAt(j)' = SectionAt(j)
  BY SourceKept
<1>2. (pc = "pass1" /\ at <= Len(file.lines) => at \in Source /\ active = SectionAt(at))'
  <2> SUFFICES ASSUME pc' = "pass1", at' <= Len(file'.lines)
               PROVE  at' \in Source' /\ active' = SectionAt(at)'
    OBVIOUS
  <2>1. at' = at /\ active' = active /\ at \in Source /\ active = SectionAt(at)
    BY DEF PlaceInv
  <2>2. SectionAt(at)' = SectionAt(at)
    BY <1>1, <2>1 DEF SectionAt, At
  <2> QED BY <1>1, <2>1, <2>2
<1>3. (Endless(data[EVT]) \/ lp[EVT] >= Starts[file.kern][EVT])'
  BY DEF PlaceInv, Endless
<1>4. (PureText /\ ~Endless(data[EVT]) /\ pc \notin {"fatal", "crash"} =>
         LaidOut(instrs, lp[TEXT], evt = "open"))'
  <2> SUFFICES ASSUME PureText', ~Endless(data[EVT])', pc' \notin {"fatal", "crash"}
               PROVE  LaidOut(instrs, lp[TEXT], evt = "open")'
    OBVIOUS
  <2>1. ~Endless(data[EVT])
    BY DEF Endless
  <2>2. LaidOut(instrs, lp[TEXT], evt = "open")
    BY <1>1, <2>1 DEF PlaceInv
  <2>3. LaidOut(instrs', lp'[TEXT], evt' = "open")
    BY <2>2, AlikeLaidOut
  <2> QED BY <2>3, LaidOutNext
<1>5. (pc \in PassTwo => present[TEXT])'
  BY DEF PlaceInv
<1> QED BY <1>2, <1>3, <1>4, <1>5 DEF PlaceInv

(* The second pass changes neither address nor size. *)
SameItems(q, r) ==
  Len(r) = Len(q) /\ \A d \in 1 .. Len(q) : r[d].addr = q[d].addr /\ r[d].size = q[d].size

(* The items keep their places.                                            *)
LEMMA ItemsKept ==
  ASSUME TypeInv, completeData
  PROVE  SameItems(data[EVT], data'[EVT])
<1> DEFINE p == NextItem
           item == data[p[1]][p[2]]
           new == [item EXCEPT !.done = TRUE, !.vals = Computed]
           d1 == [data EXCEPT ![p[1]][p[2]] = new]
           q == data[EVT]
           r == [q EXCEPT ![p[2]] = new]
<1>1. data \in [Tables -> Seq(Items)] /\ EVT \in Tables /\ q \in Seq(Items) /\ Len(q) \in Nat
      /\ DOMAIN q = 1 .. Len(q) /\ \A k \in DOMAIN q : q[k] \in Items
  BY SectionNumbers, LenProperties, ElementOfSeq DEF TypeInv, Types
<1>2. data' = data \/ data' = d1
  BY CompleteEffect
<1>3. d1[EVT] = IF p[1] = EVT THEN r ELSE q
  BY <1>1
<1>4. p[1] = EVT /\ p[2] \in DOMAIN q => new.size = q[p[2]].size /\ new.addr = q[p[2]].addr
  BY <1>1 DEF Items
<1> HIDE DEF new, d1, p
<1>5. DOMAIN r = DOMAIN q /\ \A k \in DOMAIN q : r[k] = IF k = p[2] THEN new ELSE q[k]
  BY <1>1
<1>6. Len(r) = Len(q)
  <2>1. r = [k \in 1 .. Len(q) |-> r[k]]
    BY <1>1
  <2> HIDE DEF r, q
  <2> QED BY <1>1, <2>1
<1> HIDE DEF r, q
<1>7. p[1] = EVT => SameItems(q, r)
  BY <1>1, <1>4, <1>5, <1>6 DEF SameItems
<1>8. SameItems(q, q)
  BY DEF SameItems
<1>9. SameItems(q, data'[EVT])
  BY <1>2, <1>3, <1>7, <1>8 DEF q
<1> QED BY <1>9 DEF q

(* It gives no item a negative size, and takes none away.                  *)
LEMMA SizesKept ==
  ASSUME TypeInv, TypeInv', completeData
  PROVE  Endless(data[EVT])' <=> Endless(data[EVT])
<1> DEFINE q == data[EVT]
           r == data'[EVT]
<1>1. SameItems(q, r)
  BY ItemsKept
<1>2. q \in Seq(Items) /\ r \in Seq(Items)
  BY SectionNumbers DEF TypeInv, Types
<1>3. DOMAIN q = 1 .. Len(q) /\ DOMAIN r = 1 .. Len(r)
  BY <1>2, LenProperties
<1> HIDE DEF q, r
<1>4. Endless(r) <=> Endless(q)
  BY <1>1, <1>3 DEF SameItems, Endless
<1> QED BY <1>4 DEF Endless, q, r

(* A step of the second pass keeps the invariant.                          *)
LEMMA PlaceSecond ==
  ASSUME PlaceInv, TypeInv', Reuse \/ resolveSymbols \/ completeData \/ encode \/ Generate
  PROVE  PlaceInv'
<1>a. Alike(instrs, instrs)
  BY DEF Alike
<1>1. CASE Reuse
  BY <1>a, <1>1, PlaceKept DEF Reuse, PassTwo, Endless
<1>2. CASE resolveSymbols
  <2>1. /\ pc = "resolve" /\ pc' \in {"resolve", "complete", "fatal", "crash"}
        /\ UNCHANGED << file, lp, present, active, data, instrs, evt >>
    BY <1>2 DEF resolveSymbols, Round
  <2> QED BY <1>a, <2>1, PlaceKept DEF PassTwo, Endless
<1>3. CASE completeData
  <2>1. /\ pc = "complete" /\ pc' \in {"complete", "encode", "fatal", "crash"}
        /\ UNCHANGED << file, at, lp, present, active, instrs, evt >>
    BY <1>3, CompleteEffect
  <2>2. Endless(data'[EVT]) <=> Endless(data[EVT])
    BY <1>3, SizesKept DEF PlaceInv, Endless
  <2> QED BY <1>a, <2>1, <2>2, PlaceKept DEF PassTwo
<1>4. CASE encode
  <2>1. /\ pc = "encode" /\ pc' \in {"encode", "generate", "fatal", "crash"}
        /\ UNCHANGED << file, lp, present, active, data, evt >>
    BY <1>4 DEF encode
  <2>2. Alike(instrs, instrs')
    BY <1>4, AlikeEncoded DEF PlaceInv
  <2> QED BY <2>1, <2>2, PlaceKept DEF PassTwo, Endless
<1>5. CASE Generate
  <2>1. /\ pc = "generate" /\ pc' \in {"written", "crash"}
        /\ UNCHANGED << file, at, lp, present, active, data, instrs, evt >>
    BY <1>5, Zenon DEF Generate, tables
  <2> QED BY <1>a, <2>1, PlaceKept DEF PassTwo, Endless
<1> QED BY <1>1, <1>2, <1>3, <1>4, <1>5

(* The invariant holds at first.                                           *)
LEMMA PlaceInit == Init => PlaceInv
<1> SUFFICES ASSUME Init PROVE PlaceInv
  OBVIOUS
<1>1. TypeInv
  BY TypesInit
<1>2. file.lines \in Seq(Line) /\ file.kern \in BOOLEAN
  BY FilesAssumption DEF Init
<1>3. at <= Len(file.lines) => at \in Source /\ active = SectionAt(at)
  <2>1. at = 1 /\ active = DATA
    BY DEF Init
  <2>2. at <= Len(file.lines) => at \in Source
    BY <1>2, <2>1, LenProperties DEF Source
  <2>3. {i \in Source : i < 1 /\ At(i).op = "section"} = {}
    BY <1>2, LenProperties DEF Source
  <2> QED BY <2>1, <2>2, <2>3 DEF SectionAt
<1>4. Endless(data[EVT]) \/ lp[EVT] >= Starts[file.kern][EVT]
  BY <1>2, StartsAssumption, SectionNumbers DEF Init
<1>5. LaidOut(instrs, lp[TEXT], evt = "open")
  <2> DEFINE z == [n \in 0 .. 0 |-> 0]
  <2>1. z \in [0 .. 0 -> Nat] /\ z \in [0 .. 0 -> {0, 1}] /\ z[0] = 0
    OBVIOUS
  <2> HIDE DEF z
  <2>2. instrs = << >> /\ Len(instrs) = 0 /\ evt # "open" /\ lp[TEXT] = Starts[file.kern][TEXT]
    BY DEF Init
  <2>3. Counts(instrs, z, z) /\ AtPlace(instrs, z, z)
    BY <2>1, <2>2 DEF Counts, AtPlace
  <2>4. lp[TEXT] = Starts[file.kern][TEXT] + 4 * z[Len(instrs)]
    BY <1>2, <2>1, <2>2, StartsAssumption, SectionNumbers
  <2> QED BY <2>1, <2>2, <2>3, <2>4 DEF LaidOut
<1>6. ~(pc \in PassTwo)
  BY DEF Init, PassTwo
<1> QED BY <1>1, <1>3, <1>4, <1>5, <1>6 DEF PlaceInv

(* Every step keeps it.                                                    *)
LEMMA PlaceNext == PlaceInv /\ [Next]_vars => PlaceInv'
<1> SUFFICES ASSUME PlaceInv, [Next]_vars PROVE PlaceInv'
  OBVIOUS
<1>1. TypeInv'
  BY TypesNext DEF PlaceInv
<1>2. CASE UNCHANGED vars
  <2>1. Alike(instrs, instrs')
    BY <1>2 DEF Alike, vars, tables
  <2> QED BY <1>1, <1>2, <2>1, PlaceKept DEF vars, tables, Endless
<1> QED
  BY <1>1, <1>2, PlaceLines, PlaceEnd, PlaceSecond DEF Next, Exited, LineAction

-----------------------------------------------------------------------------
(* The object file. *)

(* Four sequences one behind the other, and where three of them begin. *)
LEMMA FourParts ==
  ASSUME NEW S, NEW a \in Seq(S), NEW b \in Seq(S), NEW c \in Seq(S), NEW e \in Seq(S),
         NEW p, p = a \o b \o c \o e
  PROVE  /\ Len(p) = Len(a) + Len(b) + Len(c) + Len(e) /\ DOMAIN p = 1 .. Len(p)
         /\ \A k \in 1 .. Len(a) : p[k] = a[k]
         /\ \A k \in 1 .. Len(b) : p[Len(a) + k] = b[k]
         /\ \A k \in 1 .. Len(c) : p[Len(a) + Len(b) + k] = c[k]
<1> DEFINE ab == a \o b
           abc == ab \o c
<1>1. Len(a) \in Nat /\ Len(b) \in Nat /\ Len(c) \in Nat /\ Len(e) \in Nat
  BY LenProperties
<1>2. /\ ab \in Seq(S) /\ Len(ab) = Len(a) + Len(b)
      /\ \A k \in 1 .. Len(a) + Len(b) : ab[k] = IF k <= Len(a) THEN a[k] ELSE b[k - Len(a)]
  BY ConcatProperties
<1> HIDE DEF ab
<1>3. /\ abc \in Seq(S) /\ Len(abc) = Len(ab) + Len(c)
      /\ \A k \in 1 .. Len(ab) + Len(c) : abc[k] = IF k <= Len(ab) THEN ab[k] ELSE c[k - Len(ab)]
  BY <1>2, ConcatProperties
<1>4. p = abc \o e
  BY DEF ab
<1> HIDE DEF abc
<1>5. /\ abc \o e \in Seq(S) /\ Len(abc \o e) = Len(abc) + Len(e)
      /\ \A k \in 1 .. Len(abc) + Len(e) :
           (abc \o e)[k] = IF k <= Len(abc) THEN abc[k] ELSE e[k - Len(abc)]
  BY <1>3, ConcatProperties
<1>6. DOMAIN p = 1 .. Len(p)
  BY <1>4, <1>5, LenProperties
<1>7. \A k \in 1 .. Len(a) : p[k] = a[k]
  BY ONLY <1>1, <1>2, <1>3, <1>4, <1>5
<1>8. \A k \in 1 .. Len(b) : p[Len(a) + k] = b[k]
  <2>1. TAKE k \in 1 .. Len(b)
  <2> DEFINE n == Len(a) + k
  <2>2. n \in 1 .. Len(a) + Len(b) /\ ~(n <= Len(a)) /\ n - Len(a) = k
    BY ONLY <1>1, <2>1
  <2> HIDE DEF n
  <2>3. p[n] = b[k]
    BY ONLY <1>1, <1>2, <1>3, <1>4, <1>5, <2>2
  <2> QED BY <2>3 DEF n
<1>9. \A k \in 1 .. Len(c) : p[Len(a) + Len(b) + k] = c[k]
  <2>1. TAKE k \in 1 .. Len(c)
  <2> DEFINE n == Len(a) + Len(b) + k
  <2>2. n \in 1 .. Len(ab) + Len(c) /\ ~(n <= Len(ab)) /\ n - Len(ab) = k
    BY ONLY <1>1, <1>2, <2>1
  <2> HIDE DEF n
  <2>3. p[n] = c[k]
    BY ONLY <1>1, <1>2, <1>3, <1>4, <1>5, <2>2
  <2> QED BY <2>3 DEF n
<1>10. Len(p) = Len(a) + Len(b) + Len(c) + Len(e)
  BY ONLY <1>1, <1>2, <1>3, <1>4, <1>5
<1> QED BY <1>6, <1>7, <1>8, <1>9, <1>10

(* The bytes of a section with data, in its part of the payload. *)
LEMMA DataPart ==
  ASSUME TypeInv, NEW s \in {DATA, CONST}, ~Endless(data[s]),
         NEW part, part = Fit(generateData(s, data[s]), Size(s))
  PROVE  /\ Size(s) \in Nat /\ part \in Seq(Byte \cup {Junk}) /\ Len(part) = Size(s)
         /\ \A i \in DOMAIN data[s] : \A k \in 1 .. data[s][i].size :
              /\ data[s][i].addr - Starts[file.kern][s] + k \in 1 .. Len(part)
              /\ part[data[s][i].addr - Starts[file.kern][s] + k] = << s, i, k >>
<1> DEFINE items == data[s]
           start == Starts[file.kern][s]
           end == lp[s]
           size == end - start
           bytes == generateData(s, items)
<1>1. s \in Sections /\ s \in Tables /\ s \in {DATA, CONST, BSS} /\ s \in {DATA, CONST, TEXT, EVT}
  BY SectionNumbers
<1>2. file.kern \in BOOLEAN
  BY FilesAssumption DEF TypeInv, VectorInv, Inv, Shape
<1>3. items \in Seq(Items) /\ start \in Int /\ end \in Int
  BY <1>1, <1>2, StartsAssumption DEF TypeInv, Types
<1>4. Adjoin(items, start, end)
  BY <1>1 DEF TypeInv, VectorInv, Inv, ItemsAdjoin
<1>5. ~Endless(items) /\ DOMAIN items = 1 .. Len(items)
  BY <1>3, LenProperties
<1>6. Size(s) = size
  BY DEF Size
<1> HIDE DEF items, start, end
<1>7. /\ size \in Nat /\ bytes \in Seq({s} \X Nat \X Nat) /\ Len(bytes) = size
      /\ \A i \in 1 .. Len(items) : \A k \in 1 .. items[i].size :
           /\ items[i].addr - start + k \in 1 .. size
           /\ bytes[items[i].addr - start + k] = << s, i, k >>
  BY ONLY <1>3, <1>4, <1>5, DataPlaces
<1>8. bytes \in Seq(Byte)
  BY <1>3, generateDataType
<1> HIDE DEF bytes, size
<1>9. /\ Fit(bytes, size) \in Seq(Byte \cup {Junk}) /\ Len(Fit(bytes, size)) = size
      /\ \A k \in 1 .. size : k <= Len(bytes) => Fit(bytes, size)[k] = bytes[k]
  <2> DEFINE S == Byte
  <2>1. bytes \in Seq(S) /\ size \in Nat
    BY <1>7, <1>8
  <2> HIDE DEF S
  <2>2. /\ Fit(bytes, size) \in Seq(S \cup {Junk}) /\ Len(Fit(bytes, size)) = size
        /\ \A k \in 1 .. size : k <= Len(bytes) => Fit(bytes, size)[k] = bytes[k]
    BY ONLY <2>1, FitPlaces
  <2> QED BY <2>2 DEF S
<1>10. part = Fit(bytes, size)
  BY <1>6 DEF bytes, items
<1>11. ASSUME NEW i \in DOMAIN items, NEW k \in 1 .. items[i].size
       PROVE  items[i].addr - start + k \in 1 .. Len(part) /\ part[items[i].addr - start + k] = << s, i, k >>
  <2> DEFINE n == items[i].addr - start + k
  <2>1. n \in 1 .. size /\ bytes[n] = << s, i, k >>
    BY <1>5, <1>7
  <2> HIDE DEF n
  <2>2. n <= Len(bytes)
    BY <1>7, <2>1
  <2>3. n \in 1 .. Len(part) /\ part[n] = << s, i, k >>
    BY ONLY <1>9, <1>10, <2>1, <2>2
  <2> QED BY <2>3 DEF n
<1> QED BY <1>6, <1>7, <1>9, <1>10, <1>11 DEF items, start

(* The instructions of a pure text, in its part of the payload. *)
LEMMA TextPart ==
  ASSUME PlaceInv, pc = "written", PureText, ~Endless(data[EVT]),
         NEW part, part = Fit(generateText(instrs), Size(TEXT))
  PROVE  \A i \in DOMAIN instrs : InSection(i, TEXT) /\ ~LastOfLd(i) => \A k \in 1 .. 4 :
           /\ instrs[i].addr - Starts[file.kern][TEXT] + k \in 1 .. Len(part)
           /\ part[instrs[i].addr - Starts[file.kern][TEXT] + k] = << TEXT, i, k >>
<1> DEFINE q == instrs
           N == Len(q)
           start == Starts[file.kern][TEXT]
           end == lp[TEXT]
           size == end - start
           bytes == generateText(q)
<1>1. /\ q \in Streams /\ q \in Seq(Instrs) /\ N \in Nat /\ DOMAIN q = 1 .. N
      /\ start \in Int /\ end \in Int
  BY PlaceState, StreamSteps
<1>2. PICK c, t : Counts(q, c, t) /\ AtPlace(q, c, t) /\ end = start + 4 * c[N]
  BY DEF PlaceInv, LaidOut
<1>3. /\ c \in [0 .. N -> Nat] /\ c[0] = 0
      /\ \A i \in 1 .. N : c[i] = c[i - 1] + IF q[i].addr # 0 /\ t[i - 1] = 0 THEN 1 ELSE 0
  BY <1>2 DEF Counts
<1>4. \A i \in 1 .. N : InText(q, i) <=> q[i].addr # 0 /\ t[i - 1] = 0
  BY <1>1, <1>2, InTextCounts
<1>5. \A i \in 1 .. N : c[i] = c[i - 1] + IF InText(q, i) THEN 1 ELSE 0
  BY <1>3, <1>4
<1>6. \A i \in 1 .. N : InSection(i, TEXT) /\ ~LastOfLd(i) =>
                          q[i].addr > 0 /\ t[i - 1] = 0 /\ q[i].addr = start + 4 * c[i - 1]
  BY <1>2 DEF AtPlace, InSection, LastOfLd
<1>7. \A i \in 1 .. N : q[i].addr \in Int
  <2>1. \A i \in 1 .. N : q[i] \in Instrs
    BY <1>1, StreamSteps
  <2> QED BY <2>1 DEF Instrs
<1>8. c[N] \in Nat /\ \A i \in 1 .. N : c[i - 1] \in Nat
  <2>1. N \in 0 .. N /\ \A i \in 1 .. N : i - 1 \in 0 .. N
    BY <1>1
  <2> QED BY <1>3, <2>1
<1> HIDE DEF q, start, end
<1>9. /\ bytes \in Seq({TEXT} \X Nat \X Nat) /\ Len(bytes) = 4 * c[N]
      /\ \A i \in 1 .. N : InText(q, i) => \A k \in 1 .. 4 :
           /\ 4 * c[i - 1] + k \in 1 .. 4 * c[N]
           /\ bytes[4 * c[i - 1] + k] = << TEXT, i, k >>
  BY ONLY <1>1, <1>3, <1>5, TextPlaces
<1>10. size = 4 * c[N] /\ size \in Nat /\ Size(TEXT) = size
  BY <1>1, <1>2, <1>8, SMTT(30) DEF Size, start, end
<1> HIDE DEF bytes, size
<1>11. /\ Len(Fit(bytes, size)) = size
       /\ \A k \in 1 .. size : k <= Len(bytes) => Fit(bytes, size)[k] = bytes[k]
  <2> DEFINE S == {TEXT} \X Nat \X Nat
  <2>1. bytes \in Seq(S) /\ size \in Nat
    BY <1>9, <1>10
  <2> HIDE DEF S
  <2> QED BY ONLY <2>1, FitPlaces
<1>12. part = Fit(bytes, size)
  BY <1>10 DEF bytes, q
<1>13. ASSUME NEW i \in 1 .. N, InSection(i, TEXT) /\ ~LastOfLd(i), NEW k \in 1 .. 4
       PROVE  q[i].addr - start + k \in 1 .. Len(part) /\ part[q[i].addr - start + k] = << TEXT, i, k >>
  <2>1. q[i].addr > 0 /\ t[i - 1] = 0 /\ q[i].addr = start + 4 * c[i - 1] /\ q[i].addr \in Int
    BY <1>6, <1>7, <1>13
  <2>2. InText(q, i)
    BY <1>4, <2>1
  <2> DEFINE n == 4 * c[i - 1] + k
  <2>3. n \in 1 .. 4 * c[N] /\ bytes[n] = << TEXT, i, k >>
    BY <1>9, <2>2
  <2>4. q[i].addr - start + k = n
    BY <1>1, <1>8, <2>1
  <2> HIDE DEF n
  <2>5. n \in 1 .. size /\ n <= Len(bytes)
    BY <1>8, <1>9, <1>10, <2>3
  <2> QED BY <1>11, <1>12, <2>3, <2>4, <2>5
<1> QED BY <1>1, <1>13 DEF q, start

(* What Generate writes: the sizes are those of the sections present, no   *)
(* item that is copied is endless, and v is the vector.                    *)
Sizes == [s \in {t \in Sections : present[t]} |-> Size(s)]
Made(v) ==
  /\ bin.kern = file.kern
  /\ bin.heads = generateSectionHeaders(Sizes)
  /\ bin.payload = Payload(Sizes, data, instrs, v)
  /\ \A s \in {DATA, CONST, EVT} : present[s] \/ s = EVT => ~Endless(data[s])

(* The part of a section, and what is counted in front of it.              *)
Part(s) ==
  Fit(IF s = TEXT THEN generateText(instrs) ELSE generateData(s, data[s]), Size(s))
Gap(s) == IF s = TEXT /\ HasBss THEN Size(BSS) ELSE 0

(* A part of the file has its size.                                        *)
LEMMA FitLength ==
  ASSUME NEW bytes, NEW size \in Int
  PROVE  Len(Fit(bytes, size)) = IF size < 0 THEN 0 ELSE size
<1> DEFINE n == IF size < 0 THEN 0 ELSE size
           b == [k \in 1 .. n |-> IF k <= Len(bytes) THEN bytes[k] ELSE Junk]
<1>1. n \in Nat /\ 1 .. n = 1 .. size
  OBVIOUS
<1>2. Fit(bytes, size) = b
  BY <1>1 DEF Fit
<1>3. Len(b) = n
  <2> HIDE DEF n
  <2> QED BY <1>1
<1> QED BY <1>2, <1>3

(* Each section has its part where its header says, but behind .bss. *)
LEMMA PartAt ==
  ASSUME PlaceInv, pc = "written", NEW v \in Seq(Byte), Made(v),
         NEW s \in {DATA, CONST, TEXT}, present[s]
  PROVE  /\ s \in DOMAIN bin.heads
         /\ bin.heads[s].size = Size(s) /\ bin.heads[s].off \in Int /\ Gap(s) \in Int
         /\ Size(s) \in Int /\ Len(Part(s)) = IF Size(s) < 0 THEN 0 ELSE Size(s)
         /\ \A n \in 1 .. Len(Part(s)) :
              ByteAt(bin, bin.heads[s].off - Gap(s) + n - 1) = Part(s)[n]
<1> DEFINE S == Byte \cup {Junk}
           part(t, bytes) == IF t \in DOMAIN Sizes THEN Fit(bytes, Sizes[t]) ELSE << >>
           D == part(DATA, generateData(DATA, data[DATA]))
           C == part(CONST, generateData(CONST, data[CONST]))
           X == part(TEXT, generateText(instrs))
           E == part(EVT, v)
<1>a. TypeInv
  BY DEF PlaceInv
<1>b. /\ data \in [Tables -> Seq(Items)] /\ instrs \in Seq(Instrs) /\ lp \in [Sections -> Int]
      /\ present \in [Sections -> BOOLEAN] /\ file.kern \in BOOLEAN
  BY <1>a, FilesAssumption, StreamSteps DEF TypeInv, Types, VectorInv, Inv, Shape
<1>c. DATA = 0 /\ CONST = 1 /\ BSS = 2 /\ TEXT = 3 /\ EVT = 4 /\ Sections = 0 .. 5
  BY SectionNumbers DEF DATA, CONST, BSS
<1>1. /\ \A t \in Sections : Size(t) \in Int /\ (t \in DOMAIN Sizes <=> present[t])
      /\ \A t \in DOMAIN Sizes : Sizes[t] = Size(t) /\ t \in Sections
  BY <1>b, StartsAssumption DEF Size, Sizes
<1>2. \A t \in DOMAIN Sizes : Sizes[t] \in Int
  BY <1>1
<1>3. D \in Seq(S) /\ Len(D) = SizeIn(Sizes, DATA) /\ (present[DATA] => D = Part(DATA))
  <2>1. CASE present[DATA]
    <3>1. D = Part(DATA) /\ ~Endless(data[DATA]) /\ SizeIn(Sizes, DATA) = Size(DATA)
      BY <1>1, <1>c, <2>1 DEF Made, SizeIn, Part
    <3>2. Part(DATA) = Fit(generateData(DATA, data[DATA]), Size(DATA))
      BY <1>c DEF Part
    <3> HIDE DEF D
    <3> QED BY <1>a, <3>1, <3>2, DataPart
  <2>2. CASE ~present[DATA]
    BY <1>1, <1>c, <2>2 DEF SizeIn
  <2> QED BY <2>1, <2>2
<1>4. C \in Seq(S) /\ Len(C) = SizeIn(Sizes, CONST) /\ (present[CONST] => C = Part(CONST))
  <2>1. CASE present[CONST]
    <3>1. C = Part(CONST) /\ ~Endless(data[CONST]) /\ SizeIn(Sizes, CONST) = Size(CONST)
      BY <1>1, <1>c, <2>1 DEF Made, SizeIn, Part
    <3>2. Part(CONST) = Fit(generateData(CONST, data[CONST]), Size(CONST))
      BY <1>c DEF Part
    <3> HIDE DEF C
    <3> QED BY <1>a, <3>1, <3>2, DataPart
  <2>2. CASE ~present[CONST]
    BY <1>1, <1>c, <2>2 DEF SizeIn
  <2> QED BY <2>1, <2>2
<1>5. present[TEXT]
  BY DEF PlaceInv, PassTwo
<1>6. X = Part(TEXT)
  BY <1>1, <1>5, <1>c DEF Part
<1>7. X \in Seq(S)
  <2> DEFINE bytes == generateText(instrs)
             z == Size(TEXT)
  <2>1. bytes \in Seq(Byte) /\ z \in Int
    BY <1>1, <1>b, <1>c, generateTextType, BytesType
  <2>2. X = Fit(bytes, z)
    BY <1>6 DEF Part
  <2> HIDE DEF bytes, z, X
  <2>3. Fit(bytes, z) \in Seq(Byte \cup {Junk})
    BY ONLY <2>1, FitType
  <2> QED BY <2>2, <2>3
<1>8. E \in Seq(S)
  <2>1. CASE EVT \in DOMAIN Sizes
    <3>1. Fit(v, Sizes[EVT]) \in Seq(S)
      BY <1>2, <2>1, FitType
    <3> QED BY <2>1, <3>1
  <2>2. CASE EVT \notin DOMAIN Sizes
    BY <2>2
  <2> QED BY <2>1, <2>2
<1>9. bin.payload = D \o C \o X \o E
  BY DEF Made, Payload
<1>10. \A t \in {DATA, CONST, TEXT} : present[t] =>
         t \in DOMAIN bin.heads /\ bin.heads[t].off = Offset(Sizes, t) /\ bin.heads[t].size = Size(t)
  BY <1>1, <1>c DEF Made, generateSectionHeaders
<1>11. DOMAIN bin.heads = DOMAIN Sizes
  BY DEF Made, generateSectionHeaders
<1> DEFINE p == bin.payload
           a == Len(D)
           b == Len(C)
<1> HIDE DEF D, C, X, E, S, part
<1>12. /\ DOMAIN p = 1 .. Len(p) /\ a \in Nat /\ b \in Nat /\ Len(X) \in Nat
       /\ Len(p) >= a + b + Len(X)
       /\ \A k \in 1 .. a : p[k] = D[k]
       /\ \A k \in 1 .. b : p[a + k] = C[k]
       /\ \A k \in 1 .. Len(X) : p[a + b + k] = X[k]
  <2> HIDE DEF p
  <2>0. D \in Seq(S) /\ C \in Seq(S) /\ X \in Seq(S) /\ E \in Seq(S) /\ p = D \o C \o X \o E
    BY <1>3, <1>4, <1>7, <1>8, <1>9 DEF p
  <2>1. /\ Len(p) = Len(D) + Len(C) + Len(X) + Len(E) /\ DOMAIN p = 1 .. Len(p)
        /\ \A k \in 1 .. Len(D) : p[k] = D[k]
        /\ \A k \in 1 .. Len(C) : p[Len(D) + k] = C[k]
        /\ \A k \in 1 .. Len(X) : p[Len(D) + Len(C) + k] = X[k]
    BY ONLY <2>0, FourParts
  <2>2. Len(D) \in Nat /\ Len(C) \in Nat /\ Len(X) \in Nat /\ Len(E) \in Nat
    BY ONLY <1>3, <1>4, <1>7, <1>8, LenProperties
  <2> QED BY ONLY <2>1, <2>2
<1>13. \A n \in Int : n + 1 \in 1 .. Len(p) => ByteAt(bin, n) = p[n + 1]
  BY <1>12 DEF ByteAt
<1>14. /\ Offset(Sizes, DATA) = 0 /\ Offset(Sizes, CONST) = a
       /\ Offset(Sizes, TEXT) = a + b + Gap(TEXT) /\ Gap(TEXT) \in Int
  <2> DEFINE w == Sizes
  <2>1. \A t \in DOMAIN w : w[t] \in Int
    BY <1>2
  <2> HIDE DEF w
  <2>2. /\ Offset(w, 0) = 0 /\ Offset(w, 1) = SizeIn(w, 0)
        /\ Offset(w, 3) = SizeIn(w, 0) + SizeIn(w, 1) + SizeIn(w, 2)
    BY ONLY <2>1, OffsetSums
  <2>3. SizeIn(w, 2) = Gap(TEXT) /\ Size(BSS) \in Int
    BY <1>1, <1>11, <1>c DEF SizeIn, HasBss, Gap, w
  <2>4. SizeIn(w, 0) = a /\ SizeIn(w, 1) = b
    BY <1>3, <1>4, <1>c DEF w
  <2>5. Offset(w, 0) = 0 /\ Offset(w, 1) = a /\ Offset(w, 3) = a + b + Gap(TEXT)
    BY <2>2, <2>3, <2>4
  <2>6. Gap(TEXT) \in Int
    BY <2>3 DEF Gap
  <2> QED BY <2>5, <2>6, <1>c DEF w
<1> HIDE DEF p, a, b
<1>15. ASSUME NEW n \in Int, NEW k \in 1 .. a, n = k - 1 PROVE ByteAt(bin, n) = D[k]
  <2>1. n + 1 \in 1 .. Len(p) /\ n + 1 = k
    BY ONLY <1>12, <1>15
  <2> QED BY <1>12, <1>13, <1>15, <2>1
<1>16. ASSUME NEW n \in Int, NEW k \in 1 .. b, n = a + k - 1 PROVE ByteAt(bin, n) = C[k]
  <2>1. n + 1 \in 1 .. Len(p) /\ n + 1 = a + k
    BY ONLY <1>12, <1>16
  <2> QED BY <1>12, <1>13, <1>16, <2>1
<1>17. ASSUME NEW n \in Int, NEW k \in 1 .. Len(X), n = a + b + k - 1 PROVE ByteAt(bin, n) = X[k]
  <2>1. n + 1 \in 1 .. Len(p) /\ n + 1 = a + b + k
    BY ONLY <1>12, <1>17
  <2> QED BY <1>12, <1>13, <1>17, <2>1
<1>18. s \in Sections /\ Size(s) \in Int
  BY <1>1, <1>c
<1>19. Len(Part(s)) = IF Size(s) < 0 THEN 0 ELSE Size(s)
  BY <1>18, FitLength DEF Part
<1>20. ASSUME NEW n \in 1 .. Len(Part(s))
       PROVE  ByteAt(bin, bin.heads[s].off - Gap(s) + n - 1) = Part(s)[n]
  <2>1. CASE s = DATA
    <3>1. bin.heads[s].off - Gap(s) = 0 /\ D = Part(s)
      BY <1>3, <1>10, <1>14, <1>c, <2>1 DEF Gap
    <3>2. n \in 1 .. a /\ 0 + n - 1 \in Int /\ 0 + n - 1 = n - 1
      BY <1>12, <1>20, <3>1 DEF a
    <3> QED BY <1>15, <3>1, <3>2
  <2>2. CASE s = CONST
    <3>1. bin.heads[s].off - Gap(s) = a /\ C = Part(s)
      BY <1>4, <1>10, <1>12, <1>14, <1>c, <2>2 DEF Gap
    <3>2. n \in 1 .. b /\ a + n - 1 \in Int
      BY <1>12, <1>20, <3>1 DEF b
    <3> QED BY <1>16, <3>1, <3>2
  <2>3. CASE s = TEXT
    <3>1. bin.heads[s].off - Gap(s) = a + b /\ X = Part(s)
      BY <1>6, <1>10, <1>12, <1>14, <2>3
    <3>2. n \in 1 .. Len(X) /\ a + b + n - 1 \in Int
      BY <1>12, <1>20, <3>1
    <3> QED BY <1>17, <3>1, <3>2
  <2> QED BY <2>1, <2>2, <2>3
<1>21. Gap(s) \in Int /\ bin.heads[s].off \in Int
  BY <1>10, <1>12, <1>14, <1>c DEF Gap
<1> QED BY <1>10, <1>18, <1>19, <1>20, <1>21

(* The numbers of the places.                                              *)
LEMMA PlaceNumbers ==
  ASSUME PlaceInv
  PROVE  /\ \A s \in {DATA, CONST} : \A i \in DOMAIN data[s] :
              data[s][i].addr \in Int /\ data[s][i].size \in Int
         /\ \A i \in DOMAIN instrs : instrs[i].addr \in Int
         /\ \A s \in Sections : Starts[file.kern][s] \in Int
         /\ {DATA, CONST, TEXT, EVT} \subseteq Sections
<1>1. /\ data \in [Tables -> Seq(Items)] /\ instrs \in Seq(Instrs) /\ file.kern \in BOOLEAN
  BY PlaceState, StreamSteps
<1>2. ASSUME NEW s \in {DATA, CONST}, NEW i \in DOMAIN data[s]
      PROVE  data[s][i].addr \in Int /\ data[s][i].size \in Int
  <2>1. data[s] \in Seq(Items)
    BY <1>1, SectionNumbers
  <2>2. data[s][i] \in Items
    BY <2>1, LenProperties, ElementOfSeq
  <2> QED BY <2>2 DEF Items
<1>3. ASSUME NEW i \in DOMAIN instrs PROVE instrs[i].addr \in Int
  <2>1. instrs[i] \in Instrs
    BY <1>1, LenProperties, ElementOfSeq
  <2> QED BY <2>1 DEF Instrs
<1>4. \A s \in Sections : Starts[file.kern][s] \in Int
  BY <1>1, StartsAssumption
<1>5. {DATA, CONST, TEXT, EVT} \subseteq Sections
  BY SectionNumbers
<1> QED BY <1>2, <1>3, <1>4, <1>5

(* The file that is made is exact.                                         *)
LEMMA MadeExact ==
  ASSUME PlaceInv, pc = "written", NEW v \in Seq(Byte), Made(v)
  PROVE  FileExact
<1>1. TypeInv /\ present[TEXT] /\ ~Endless(data[EVT]) /\ bin.kern = file.kern
  BY DEF PlaceInv, PassTwo, Made
<1>2. ASSUME NEW s \in {DATA, CONST}, present[s] PROVE PlacedItems(bin.heads[s].off, s)
  <2>1. s # TEXT /\ ~Endless(data[s]) /\ s \in {DATA, CONST, TEXT}
    <3>1. ~Endless(data[s])
      BY <1>2 DEF Made
    <3> QED BY ONLY <1>2, <3>1, SectionNumbers DEF DATA, CONST
  <2>2. Gap(s) = 0 /\ Part(s) = Fit(generateData(s, data[s]), Size(s))
    BY <2>1 DEF Gap, Part
  <2> SUFFICES ASSUME NEW i \in DOMAIN data[s], NEW k \in 1 .. data[s][i].size
               PROVE  ByteAt(bin, bin.heads[s].off + data[s][i].addr - Starts[file.kern][s] + k - 1)
                        = << s, i, k >>
    BY <1>1 DEF PlacedItems, PlacedAt
  <2> DEFINE x == data[s][i].addr
             y == Starts[file.kern][s]
             o == bin.heads[s].off
             n == x - y + k
  <2>3. n \in 1 .. Len(Part(s)) /\ Part(s)[n] = << s, i, k >>
    BY <1>1, <2>1, <2>2, DataPart
  <2>4. x \in Int /\ y \in Int /\ k \in Int
    BY PlaceNumbers
  <2>5. o \in Int /\ \A m \in 1 .. Len(Part(s)) : ByteAt(bin, o - Gap(s) + m - 1) = Part(s)[m]
    BY <1>2, <2>1, PartAt
  <2> HIDE DEF x, y, o
  <2>6. o - 0 + n - 1 = o + x - y + k - 1
    BY ONLY <2>4, <2>5
  <2> HIDE DEF n
  <2>7. ByteAt(bin, o - 0 + n - 1) = << s, i, k >>
    BY <2>2, <2>3, <2>5
  <2> QED BY <2>6, <2>7 DEF x, y, o
<1>3. ASSUME PureText PROVE PlacedInstrs(bin.heads[TEXT].off - (IF HasBss THEN Size(BSS) ELSE 0))
  <2>1. TEXT \in {DATA, CONST, TEXT} /\ Gap(TEXT) = (IF HasBss THEN Size(BSS) ELSE 0)
        /\ Part(TEXT) = Fit(generateText(instrs), Size(TEXT))
    BY DEF Gap, Part
  <2> DEFINE o == bin.heads[TEXT].off - Gap(TEXT)
  <2> SUFFICES ASSUME NEW i \in DOMAIN instrs, InSection(i, TEXT), ~LastOfLd(i), NEW k \in 1 .. 4
               PROVE  ByteAt(bin, o + instrs[i].addr - Starts[file.kern][TEXT] + k - 1) = << TEXT, i, k >>
    BY <1>1, <2>1 DEF PlacedInstrs
  <2> DEFINE x == instrs[i].addr
             y == Starts[file.kern][TEXT]
             n == x - y + k
  <2>2. n \in 1 .. Len(Part(TEXT)) /\ Part(TEXT)[n] = << TEXT, i, k >>
    BY <1>1, <1>3, <2>1, TextPart
  <2>3. x \in Int /\ y \in Int /\ k \in Int
    BY PlaceNumbers
  <2>4. o \in Int /\ \A m \in 1 .. Len(Part(TEXT)) : ByteAt(bin, o + m - 1) = Part(TEXT)[m]
    BY <1>1, <2>1, PartAt
  <2> HIDE DEF x, y, o
  <2>5. o + n - 1 = o + x - y + k - 1
    BY ONLY <2>3, <2>4
  <2> HIDE DEF n
  <2> QED BY <2>2, <2>4, <2>5 DEF x, y
<1>4. (DATA \in DOMAIN bin.heads => present[DATA]) /\ (CONST \in DOMAIN bin.heads => present[CONST])
  BY DEF Made, generateSectionHeaders, Sizes
<1> QED BY <1>2, <1>3, <1>4 DEF FileExact

(* The invariant: the file that is written is the one that Generate made.  *)
Vector == generateEVT(instrs, data[EVT])
Written == ~Vector.crash /\ \E v \in Seq(VectorByte) : v = Vector.bytes /\ Made(v)
FileInv == PlaceInv /\ (pc = "written" => Written)

(* Generate only writes the file. *)
LEMMA WrittenOnce ==
  ASSUME [Next]_vars
  PROVE  UNCHANGED vars \/ Generate \/ pc' # "written"
<1>1. ASSUME NEW how \in {"fatal", "crash"}, Stop(how) PROVE pc' # "written"
  BY <1>1 DEF Stop
<1>2. ASSUME NEW ops, Reads(ops), NEW a, NEW s, EndLine(a, s) PROVE pc' # "written"
  BY <1>2 DEF Reads, EndLine
<1>3. ASSUME LabelLine \/ SectionDirective \/ setDirective \/ globDirective \/ endDirective
      PROVE  pc' # "written"
  BY <1>1, <1>2, <1>3 DEF LabelLine, SectionDirective, setDirective, globDirective, endDirective, Reads
<1>4. ASSUME valuesDirective \/ literalDirective \/ zeroDirective \/ fillDirective
      PROVE  pc' # "written"
  BY <1>1, <1>2, <1>4 DEF valuesDirective, literalDirective, zeroDirective, fillDirective, AddItem
<1>5. ASSUME handleInstruction \/ handleLd PROVE pc' # "written"
  BY <1>1, <1>2, <1>5 DEF handleInstruction, handleLd, AddInstrs
<1>6. ASSUME EndOfFile \/ Reuse \/ resolveSymbols PROVE pc' # "written"
  BY <1>6 DEF EndOfFile, Reuse, resolveSymbols, Round
<1>7. ASSUME completeData PROVE pc' # "written"
  BY <1>7, CompleteEffect
<1>8. ASSUME encode PROVE pc' # "written"
  BY <1>8 DEF encode
<1> QED BY <1>3, <1>4, <1>5, <1>6, <1>7, <1>8 DEF Next, Exited

(* Every step keeps the invariant of the file.                             *)
LEMMA FileNext == FileInv /\ [Next]_vars => FileInv'
<1> SUFFICES ASSUME FileInv, [Next]_vars PROVE FileInv'
  OBVIOUS
<1>1. PlaceInv'
  BY PlaceNext DEF FileInv
<1>2. CASE UNCHANGED vars
  <2>1. UNCHANGED << file, lp, present, data, instrs, bin, pc >>
    BY <1>2 DEF vars, tables
  <2>2. Sizes' = Sizes
    BY <2>1 DEF Sizes, Size
  <2>3. ASSUME NEW v, Made(v) PROVE Made(v)'
    BY <2>1, <2>2, <2>3 DEF Made, Endless
  <2>4. Vector' = Vector
    BY <2>1 DEF Vector
  <2>5. Written => Written'
    BY <2>3, <2>4 DEF Written
  <2> QED BY <1>1, <2>1, <2>5 DEF FileInv
<1>3. CASE Generate
  <2> SUFFICES ASSUME pc' = "written" PROVE Written'
    BY <1>1 DEF FileInv
  <2> DEFINE vector == generateEVT(instrs, data[EVT]).bytes
  <2>1. /\ UNCHANGED << file, lp, present, data, instrs, evt >>
        /\ pc = "generate"
    BY <1>3, Zenon DEF Generate, tables
  <2>2. /\ ~\E s \in {DATA, CONST, EVT} : (present[s] \/ s = EVT) /\ Endless(data[s])
        /\ bin'.kern = file.kern /\ bin'.heads = generateSectionHeaders(Sizes)
        /\ bin'.payload = Payload(Sizes, data, instrs, vector)
    BY <1>3 DEF Generate, Sizes
  <2>3. vector \in Seq(VectorByte)
    <3>1. data[EVT] \in Seq(Items) /\ instrs \in Seq(Instrs)
      BY PlaceState, StreamSteps DEF FileInv
    <3>2. data[EVT] = << >> \/ Marks(instrs) # {}
      <4>1. file.kern \in BOOLEAN
        BY PlaceState DEF FileInv
      <4>2. (~file.kern => data[EVT] = << >>) /\ (file.kern => evt = "closed")
        BY <2>1, <4>1 DEF FileInv, PlaceInv, TypeInv, VectorInv, VectorOnce, PassTwo
      <4> QED BY <4>1, <4>2 DEF FileInv, PlaceInv, TypeInv, Types
    <3>3. generateEVT(instrs, data[EVT]) \in Merges
      BY <3>1, <3>2, generateEVTType
    <3> QED BY <3>3 DEF Merges
  <2>4. Sizes' = Sizes
    BY <2>1 DEF Sizes, Size
  <2>5. Vector' = Vector /\ ~Vector.crash
    BY <1>3, <2>1 DEF Generate, Vector
  <2>6. PICK v \in Seq(VectorByte) : v = Vector.bytes
    BY <2>3 DEF Vector
  <2>7. bin'.payload = Payload(Sizes, data, instrs, v)
    BY <2>2, <2>6 DEF Vector
  <2>8. Made(v)'
    BY <2>1, <2>2, <2>4, <2>7 DEF Made, Endless
  <2> QED BY <2>5, <2>6, <2>8 DEF Written
<1>4. CASE pc' # "written"
  BY <1>1, <1>4 DEF FileInv
<1> QED BY <1>2, <1>3, <1>4, WrittenOnce

(* Property FileExact: each header leads to the bytes of its section, and  *)
(* each item and each instruction of a text without gaps has the place of  *)
(* its address, but behind .bss: whatever the lines are, in whatever order *)
(* the sections are entered again, and however long each part is.          *)
THEOREM Placed == Spec => []FileExact
<1>1. Init => FileInv
  BY PlaceInit DEF FileInv, Init
<1>2. FileInv => FileExact
  <2>1. ASSUME FileInv, pc = "written" PROVE FileExact
    BY <2>1, MadeExact, BytesType DEF FileInv, Written
  <2>2. pc # "written" => FileExact
    BY DEF FileExact
  <2> QED BY <2>1, <2>2
<1> QED BY <1>1, <1>2, FileNext, PTL DEF Spec

-----------------------------------------------------------------------------
(* Loading. *)

(* A byte of data in the part of its section is at its place there.        *)
LEMMA OnlyItsPlace ==
  ASSUME TypeInv, NEW s \in {DATA, CONST}, ~Endless(data[s]), NEW n \in 1 .. Len(Part(s))
  PROVE  \E i \in DOMAIN data[s] : \E k \in 1 .. data[s][i].size :
           n = data[s][i].addr - Starts[file.kern][s] + k /\ Part(s)[n] = << s, i, k >>
<1> DEFINE items == data[s]
           start == Starts[file.kern][s]
           end == lp[s]
<1>1. s # TEXT /\ s \in Sections /\ s \in Tables /\ s \in {DATA, CONST, BSS}
  BY SectionNumbers
<1>2. file.kern \in BOOLEAN
  BY FilesAssumption DEF TypeInv, VectorInv, Inv, Shape
<1>3. items \in Seq(Items) /\ start \in Int /\ end \in Int /\ Adjoin(items, start, end)
  BY <1>1, <1>2, StartsAssumption DEF TypeInv, Types, VectorInv, Inv, ItemsAdjoin
<1>4. Part(s) = Fit(generateData(s, data[s]), Size(s))
  BY <1>1 DEF Part
<1>5. /\ Len(Part(s)) = Size(s)
      /\ \A i \in DOMAIN items : \A k \in 1 .. items[i].size :
           Part(s)[items[i].addr - start + k] = << s, i, k >>
  BY <1>4, DataPart
<1>6. n \in 1 .. end - start
  BY <1>5 DEF Size
<1> HIDE DEF items, start, end
<1>7. \E i \in 1 .. Len(items) : \E k \in 1 .. items[i].size : n = items[i].addr - start + k
  BY <1>3, <1>6, ItemAt
<1>8. DOMAIN items = 1 .. Len(items)
  BY <1>3, LenProperties
<1>9. PICK i \in 1 .. Len(items) : \E k \in 1 .. items[i].size : n = items[i].addr - start + k
  BY <1>7
<1>10. PICK k \in 1 .. items[i].size : n = items[i].addr - start + k
  BY <1>9
<1>11. i \in DOMAIN items /\ Part(s)[n] = << s, i, k >>
  BY <1>5, <1>8, <1>10
<1> QED BY <1>10, <1>11 DEF items, start

(* What stands in the payload: bytes of sections that are present, of the  *)
(* vector, and what malloc left.                                           *)
Copied == {b \in Byte : b[1] \in {DATA, CONST} => present[b[1]]} \cup {Junk}

(* What the padding adds is junk.                                          *)
LEMMA FitIn ==
  ASSUME NEW S, Junk \in S, NEW bytes \in Seq(S), NEW size \in Int
  PROVE  Fit(bytes, size) \in Seq(S)
<1> DEFINE n == IF size < 0 THEN 0 ELSE size
           b == [k \in 1 .. n |-> IF k <= Len(bytes) THEN bytes[k] ELSE Junk]
<1>1. n \in Nat /\ 1 .. n = 1 .. size
  OBVIOUS
<1>2. Fit(bytes, size) = b
  BY <1>1 DEF Fit
<1>3. \A k \in 1 .. n : (IF k <= Len(bytes) THEN bytes[k] ELSE Junk) \in S
  BY <1>1, LenProperties, ElementOfSeq
<1> HIDE DEF n
<1>4. b \in [1 .. n -> S]
  BY <1>3
<1> QED BY <1>1, <1>2, <1>4, SeqDef

(* The file has bytes of the sections that are present only.               *)
LEMMA PayloadCopied ==
  ASSUME PlaceInv, pc = "written", NEW v \in Seq(VectorByte), Made(v)
  PROVE  bin.payload \in Seq(Copied)
<1> DEFINE S == Copied
           part(t, bytes) == IF t \in DOMAIN Sizes THEN Fit(bytes, Sizes[t]) ELSE << >>
           D == part(DATA, generateData(DATA, data[DATA]))
           C == part(CONST, generateData(CONST, data[CONST]))
           X == part(TEXT, generateText(instrs))
           E == part(EVT, v)
<1>1. /\ data \in [Tables -> Seq(Items)] /\ instrs \in Seq(Instrs)
      /\ lp \in [Sections -> Int] /\ file.kern \in BOOLEAN /\ TypeInv
  BY PlaceState, StreamSteps DEF PlaceInv
<1>2. \A t \in DOMAIN Sizes : Sizes[t] \in Int /\ Sizes[t] = Size(t) /\ present[t]
  BY <1>1, StartsAssumption DEF Size, Sizes
<1>3. Junk \in S /\ << >> \in Seq(S)
  BY DEF Copied
<1>4. ASSUME NEW t \in {DATA, CONST}, present[t], t \in DOMAIN Sizes
      PROVE  Fit(generateData(t, data[t]), Sizes[t]) \in Seq(S)
  <2>1. ~Endless(data[t]) /\ t # TEXT /\ Sizes[t] = Size(t)
    <3>1. t \in {DATA, CONST, EVT} /\ t # TEXT
      BY SectionNumbers, SMTT(30)
    <3> QED BY <1>2, <1>4, <3>1 DEF Made
  <2>2. Part(t) = Fit(generateData(t, data[t]), Sizes[t])
    BY <2>1 DEF Part
  <2>3. Part(t) \in Seq(Byte \cup {Junk})
    BY <1>1, <2>1, <2>2, DataPart
  <2>4. \A n \in 1 .. Len(Part(t)) : Part(t)[n] \in S
    <3>1. TAKE n \in 1 .. Len(Part(t))
    <3>2. PICK i, k : Part(t)[n] = << t, i, k >>
      BY <1>1, <2>1, OnlyItsPlace
    <3>3. Part(t)[n] \in Byte \cup {Junk}
      BY <2>3, ElementOfSeq
    <3>4. Part(t)[n][1] = t
      BY <3>2
    <3> QED BY <1>4, <3>3, <3>4 DEF Copied
  <2> DEFINE p == Part(t)
  <2>5. Len(p) \in Nat /\ p = [n \in 1 .. Len(p) |-> p[n]]
    BY <2>3, LenProperties
  <2> HIDE DEF p, S
  <2>6. p \in [1 .. Len(p) -> S]
    BY <2>4, <2>5 DEF p
  <2>7. p \in Seq(S)
    BY <2>5, <2>6, SeqDef
  <2> QED BY <2>2, <2>7 DEF p
<1>5. D \in Seq(S) /\ C \in Seq(S)
  <2>1. (DATA \in DOMAIN Sizes => present[DATA]) /\ (CONST \in DOMAIN Sizes => present[CONST])
    BY <1>2
  <2> HIDE DEF S
  <2> QED BY <1>3, <1>4, <2>1
<1>6. ASSUME NEW t \in {TEXT, EVT}, NEW bytes \in Seq(VectorByte), t \in DOMAIN Sizes
      PROVE  Fit(bytes, Sizes[t]) \in Seq(S)
  <2>1. \A x \in VectorByte : x \in S
    <3>1. \A x \in VectorByte : x \in Byte /\ x[1] \in {TEXT, EVT}
      BY DEF VectorByte, Byte
    <3>2. \A s \in {TEXT, EVT} : s \notin {DATA, CONST}
      BY SectionNumbers DEF DATA, CONST
    <3> QED BY <3>1, <3>2 DEF Copied
  <2> HIDE DEF S
  <2>2. bytes \in Seq(S)
    BY <2>1, SeqDef
  <2> QED BY <1>2, <1>3, <1>6, <2>2, FitIn
<1>7. generateText(instrs) \in Seq(VectorByte)
  BY <1>1, generateTextType
<1>8. X \in Seq(S) /\ E \in Seq(S)
  <2> HIDE DEF S
  <2> QED BY <1>3, <1>6, <1>7
<1>9. bin.payload = D \o C \o X \o E
  BY DEF Made, Payload
<1> HIDE DEF D, C, X, E, S
<1>10. D \o C \in Seq(S)
  BY <1>5, ConcatProperties
<1>11. D \o C \o X \in Seq(S)
  BY <1>8, <1>10, ConcatProperties
<1>12. D \o C \o X \o E \in Seq(S)
  BY <1>8, <1>11, ConcatProperties
<1> QED BY <1>9, <1>12 DEF S

(* What is copied to an address, and which copy stays.                     *)
Copies(s, a) ==
  /\ s \in DOMAIN bin.heads /\ s \in DOMAIN Base(bin.kern)
  /\ Base(bin.kern)[s] <= a /\ a < Base(bin.kern)[s] + bin.heads[s].size

(* Every byte that is loaded is from the copy that stays.                  *)
LEMMA LoadedFrom ==
  ASSUME bin.kern \in BOOLEAN, NEW a
  PROVE  \/ (\A s : ~Copies(s, a)) /\ Loaded(bin, a) = Junk
         \/ \E s \in {DATA, CONST, TEXT, EVT} :
              /\ Copies(s, a) /\ \A r : Copies(r, a) => r <= s
              /\ Loaded(bin, a) = ByteAt(bin, bin.heads[s].off + a - Base(bin.kern)[s])
<1> DEFINE base == Base(bin.kern)
           here == {s \in DOMAIN bin.heads \cap DOMAIN base :
                      base[s] <= a /\ a < base[s] + bin.heads[s].size}
<1>1. Loaded(bin, a) = IF here = {} THEN Junk
                       ELSE ByteAt(bin, bin.heads[Max(here)].off + a - base[Max(here)])
  BY DEF Loaded
<1>2. \A s : s \in here <=> Copies(s, a)
  BY DEF Copies
<1>3. \A s \in here : s \in {DATA, CONST, TEXT, EVT}
  BY DEF Base
<1> HIDE DEF here, base
<1>4. CASE here = {}
  BY <1>1, <1>2, <1>4
<1>5. CASE here # {}
  <2>1. {DATA, CONST, TEXT, EVT} = {0, 1, 3, 4}
    BY SectionNumbers DEF DATA, CONST
  <2>2. \E s \in here : \A r \in here : s >= r
    BY <1>3, <1>5, <2>1
  <2>3. Max(here) \in here /\ \A r \in here : Max(here) >= r
    BY <2>2 DEF Max
  <2>4. \A r \in here : r <= Max(here)
    BY <1>3, <2>1, <2>3
  <2> QED BY <1>1, <1>2, <1>3, <1>5, <2>3, <2>4 DEF base
<1> QED BY <1>4, <1>5

(* The sections of the kernel are copied to places of their own.           *)
Separate ==
  file.kern =>
    /\ Starts[TRUE][DATA] + Size(DATA) <= Starts[TRUE][TEXT]
    /\ \A s \in {DATA, CONST, TEXT} : Starts[TRUE][EVT] + Size(EVT) <= Starts[TRUE][s]

(* The vector is not copied over another section.                          *)
LEMMA VectorApart ==
  ASSUME PlaceInv, NEW v, Made(v), Separate,
         NEW s \in {DATA, CONST, TEXT}, NEW a \in Int, Starts[file.kern][s] <= a
  PROVE  ~Copies(EVT, a)
<1>1. bin.kern = file.kern /\ file.kern \in BOOLEAN
  BY PlaceState DEF Made
<1>2. CASE file.kern = FALSE
  <2>1. DOMAIN Base(bin.kern) = {CONST, DATA, TEXT}
    BY <1>1, <1>2 DEF Base
  <2>2. EVT \notin {CONST, DATA, TEXT}
    BY SectionNumbers DEF DATA, CONST
  <2> QED BY <2>1, <2>2 DEF Copies
<1>3. CASE file.kern = TRUE
  <2> DEFINE e == Starts[TRUE][EVT]
             y == Starts[TRUE][s]
             z == Size(EVT)
             base == Base(bin.kern)
  <2>1. base[EVT] = e
    BY <1>1, <1>3, SectionNumbers DEF Base
  <2>2. EVT \in DOMAIN bin.heads => bin.heads[EVT].size = z
    BY DEF Made, generateSectionHeaders, Sizes
  <2>3. e + z <= y
    BY <1>3 DEF Separate
  <2>4. e \in Int /\ y \in Int
    BY <1>3, PlaceNumbers
  <2>5. z \in Int
    <3>1. lp[EVT] \in Int /\ Starts[file.kern][EVT] \in Int
      BY PlaceState
    <3> QED BY ONLY <3>1 DEF Size
  <2>6. y <= a
    BY <1>3
  <2> HIDE DEF e, y, z, base
  <2>7. ~(e <= a /\ a < e + z)
    BY <2>3, <2>4, <2>5, <2>6
  <2> QED BY <2>1, <2>2, <2>7 DEF Copies, base
<1> QED BY <1>1, <1>2, <1>3

(* The text is loaded to where it was assembled for.                       *)
LEMMA LoadedText ==
  ASSUME PlaceInv, pc = "written", NEW v \in Seq(VectorByte), Made(v), Separate, ~HasBss, PureText,
         NEW i \in DOMAIN instrs, InSection(i, TEXT), ~LastOfLd(i), NEW k \in 1 .. 4
  PROVE  Loaded(bin, instrs[i].addr + k - 1) = << TEXT, i, k >>
<1> DEFINE x == instrs[i].addr
           y == Starts[file.kern][TEXT]
           o == bin.heads[TEXT].off
           n == x - y + k
           a == x + k - 1
<1>1. /\ bin.kern = file.kern /\ file.kern \in BOOLEAN /\ present[TEXT] /\ ~Endless(data[EVT])
      /\ v \in Seq(Byte)
  BY PlaceState, BytesType DEF PlaceInv, PassTwo, Made
<1>2. TEXT \in {DATA, CONST, TEXT} /\ Part(TEXT) = Fit(generateText(instrs), Size(TEXT)) /\ Gap(TEXT) = 0
  BY DEF Part, Gap
<1>3. n \in 1 .. Len(Part(TEXT)) /\ Part(TEXT)[n] = << TEXT, i, k >>
  BY <1>1, <1>2, TextPart
<1>4. x \in Int /\ y \in Int /\ k \in Int
  BY PlaceNumbers
<1>5. /\ TEXT \in DOMAIN bin.heads /\ bin.heads[TEXT].size = Size(TEXT) /\ o \in Int
      /\ Size(TEXT) \in Int /\ Len(Part(TEXT)) = IF Size(TEXT) < 0 THEN 0 ELSE Size(TEXT)
      /\ \A m \in 1 .. Len(Part(TEXT)) : ByteAt(bin, o - 0 + m - 1) = Part(TEXT)[m]
  BY <1>1, <1>2, PartAt
<1>6. TEXT \in DOMAIN Base(bin.kern) /\ Base(bin.kern)[TEXT] = y
  BY <1>1, SectionNumbers DEF Base, DATA, CONST
<1>7. Copies(TEXT, a)
  <2>1. y <= a /\ a < y + Size(TEXT)
    <3> DEFINE z == Size(TEXT)
               l == Len(Part(TEXT))
    <3>1. n \in 1 .. l /\ z \in Int /\ l = (IF z < 0 THEN 0 ELSE z) /\ n = x - y + k /\ a = x + k - 1
      BY <1>3, <1>5
    <3> HIDE DEF x, y, z, l, n, a
    <3>2. y <= a /\ a < y + z
      BY ONLY <1>4, <3>1
    <3> QED BY <3>2 DEF z
  <2> HIDE DEF a, y
  <2> QED BY <1>5, <1>6, <2>1 DEF Copies
<1>8. ~Copies(EVT, a)
  <2>1. y <= a /\ a \in Int
    <3> HIDE DEF x, y
    <3> QED BY <1>3, <1>4
  <2> HIDE DEF a
  <2> QED BY <1>2, <2>1, VectorApart
<1>9. Loaded(bin, a) = ByteAt(bin, o + a - y)
  <2>1. bin.kern \in BOOLEAN
    BY <1>1
  <2> HIDE DEF a
  <2>2. PICK s \in {DATA, CONST, TEXT, EVT} :
              /\ Copies(s, a) /\ \A r : Copies(r, a) => r <= s
              /\ Loaded(bin, a) = ByteAt(bin, bin.heads[s].off + a - Base(bin.kern)[s])
    BY <1>7, <2>1, LoadedFrom
  <2>3. s = TEXT
    <3>1. TEXT <= s /\ s # EVT
      BY <1>7, <1>8, <2>2
    <3> QED BY <3>1, SectionNumbers DEF DATA, CONST
  <2> QED BY <1>6, <2>2, <2>3
<1>10. o + a - y = o - 0 + n - 1
  <2> HIDE DEF x, y, o
  <2> QED BY <1>4, <1>5
<1> HIDE DEF n, o, y
<1> QED BY <1>3, <1>5, <1>9, <1>10

(* The data of the kernel. *)
LEMMA LoadedData ==
  ASSUME PlaceInv, pc = "written", NEW v \in Seq(VectorByte), Made(v), Separate, ~HasBss,
         bin.kern, present[DATA],
         NEW i \in DOMAIN data[DATA], NEW k \in 1 .. data[DATA][i].size
  PROVE  Loaded(bin, data[DATA][i].addr + k - 1) = << DATA, i, k >>
<1> DEFINE s == DATA
           x == data[s][i].addr
           y == Starts[file.kern][s]
           o == bin.heads[s].off
           z == Size(s)
           n == x - y + k
           a == x + k - 1
<1>1. /\ bin.kern = file.kern /\ bin.kern = TRUE /\ TypeInv
      /\ v \in Seq(Byte) /\ ~Endless(data[s])
  BY PlaceState, BytesType DEF PlaceInv, Made
<1>2. /\ s \in {DATA, CONST, TEXT} /\ s \in {DATA, CONST} /\ s # TEXT
      /\ Part(s) = Fit(generateData(s, data[s]), Size(s)) /\ Gap(s) = 0
  BY SectionNumbers DEF Part, Gap, DATA
<1>3. n \in 1 .. Len(Part(s)) /\ Part(s)[n] = << s, i, k >>
  BY <1>1, <1>2, DataPart
<1>4. x \in Int /\ y \in Int /\ k \in Int
  BY <1>2, PlaceNumbers
<1>5. /\ s \in DOMAIN bin.heads /\ bin.heads[s].size = z /\ o \in Int
      /\ z \in Int /\ Len(Part(s)) = IF z < 0 THEN 0 ELSE z
      /\ \A m \in 1 .. Len(Part(s)) : ByteAt(bin, o - 0 + m - 1) = Part(s)[m]
  BY <1>1, <1>2, PartAt
<1>6. s \in DOMAIN Base(bin.kern) /\ Base(bin.kern)[s] = y
  BY <1>1, <1>2 DEF Base
<1>7. y <= a /\ a < y + z /\ a \in Int
  <2> DEFINE l == Len(Part(s))
  <2>1. n \in 1 .. l /\ z \in Int /\ l = (IF z < 0 THEN 0 ELSE z) /\ n = x - y + k /\ a = x + k - 1
    BY <1>3, <1>5
  <2> HIDE DEF x, y, z, l, n, a
  <2> QED BY ONLY <1>4, <2>1
<1>8. Copies(s, a)
  <2> HIDE DEF a, y, z, s
  <2> QED BY <1>5, <1>6, <1>7 DEF Copies
<1>9. ~Copies(EVT, a)
  <2> HIDE DEF a, s
  <2> QED BY <1>2, <1>7, VectorApart
<1>10. ~Copies(TEXT, a)
  <2> DEFINE w == Starts[TRUE][TEXT]
  <2>1. Base(bin.kern)[TEXT] = w /\ y = Starts[TRUE][DATA]
    BY <1>1, SectionNumbers DEF Base, DATA, CONST
  <2>2. y + z <= w
    BY <1>1, <2>1 DEF Separate
  <2>3. w \in Int
    BY <1>1, PlaceNumbers
  <2> HIDE DEF a, y, z, w
  <2>4. ~(w <= a)
    BY <1>4, <1>5, <1>7, <2>2, <2>3
  <2> QED BY <2>1, <2>4 DEF Copies
<1>11. Loaded(bin, a) = ByteAt(bin, o + a - y)
  <2>1. bin.kern \in BOOLEAN /\ ~Copies(CONST, a)
    BY <1>1, SectionNumbers DEF Copies, Base, CONST, DATA
  <2> HIDE DEF a
  <2>2. PICK r \in {DATA, CONST, TEXT, EVT} :
              /\ Copies(r, a)
              /\ Loaded(bin, a) = ByteAt(bin, bin.heads[r].off + a - Base(bin.kern)[r])
    BY <1>8, <2>1, LoadedFrom
  <2>3. r = s
    BY <1>9, <1>10, <2>1, <2>2
  <2> QED BY <1>6, <2>2, <2>3
<1>12. o + a - y = o - 0 + n - 1
  <2> HIDE DEF x, y, o
  <2> QED BY <1>4, <1>5
<1> HIDE DEF n, o, y
<1> QED BY <1>3, <1>5, <1>11, <1>12

(* No other byte of data or constants is at its address: it would have     *)
(* been copied from another place in the part of its section.              *)
LEMMA LoadedElsewhere ==
  ASSUME PlaceInv, pc = "written", NEW v \in Seq(VectorByte), Made(v), Separate, ~HasBss,
         NEW s \in {DATA, CONST}, NEW i \in DOMAIN data[s], NEW k \in 1 .. data[s][i].size,
         Loaded(bin, data[s][i].addr + k - 1) = << s, i, k >>
  PROVE  bin.kern /\ s = DATA /\ DATA \in DOMAIN bin.heads
<1> DEFINE x == data[s][i].addr
           a == x + k - 1
           b == << s, i, k >>
           start == Starts[file.kern][s]
<1>1. /\ bin.kern = file.kern /\ file.kern \in BOOLEAN /\ TypeInv /\ v \in Seq(Byte)
      /\ \A t \in {DATA, CONST, TEXT, EVT} : t \in DOMAIN bin.heads <=> present[t]
  <2>1. \A t \in Sections : t \in DOMAIN bin.heads <=> present[t]
    BY DEF Made, generateSectionHeaders, Sizes
  <2> QED BY <2>1, PlaceState, PlaceNumbers, BytesType DEF PlaceInv, Made
<1>2. x \in Int /\ start \in Int /\ k \in Int /\ a \in Int
  BY PlaceNumbers
<1>3. b # Junk /\ b[1] = s
  BY SectionNumbers DEF Junk, DATA, CONST
<1> HIDE DEF a, b
<1>4. Loaded(bin, a) = b
  BY DEF a, b
<1>5. PICK t \in {DATA, CONST, TEXT, EVT} :
           Copies(t, a) /\ b = ByteAt(bin, bin.heads[t].off + a - Base(bin.kern)[t])
  BY <1>1, <1>3, <1>4, LoadedFrom
<1>6. present[s]
  <2>1. bin.payload \in Seq(Copied)
    BY PayloadCopied
  <2>2. b \in Copied
    <3> DEFINE p == bin.heads[t].off + a - Base(bin.kern)[t]
    <3>1. ByteAt(bin, p) = b
      BY <1>5
    <3> HIDE DEF p
    <3>2. p + 1 \in DOMAIN bin.payload
      BY <1>3, <3>1 DEF ByteAt
    <3>3. ByteAt(bin, p) = bin.payload[p + 1]
      BY <3>2 DEF ByteAt
    <3> QED BY <2>1, <3>1, <3>2, <3>3, LenProperties, ElementOfSeq
  <2> QED BY <1>3, <2>2 DEF Copied
<1>7. /\ ~Endless(data[s]) /\ s # TEXT /\ s \in {DATA, CONST, TEXT}
      /\ Part(s) = Fit(generateData(s, data[s]), Size(s))
  <2>1. s \in {DATA, CONST, EVT} /\ s # TEXT
    BY SectionNumbers, SMTT(30) DEF DATA, CONST
  <2> QED BY <1>6, <2>1 DEF Made, Part
<1>8. x - start + k \in 1 .. Len(Part(s)) /\ Part(s)[x - start + k] = b
  BY <1>1, <1>7, DataPart DEF b
<1>9. t # EVT
  <2>1. start <= a
    <3> HIDE DEF x, start
    <3> QED BY <1>2, <1>8 DEF a
  <2> QED BY <1>2, <1>5, <1>7, <2>1, VectorApart
<1> DEFINE o == bin.heads[t].off
           y == Base(bin.kern)[t]
           n == a - y + 1
<1>10. present[t] /\ t \in {DATA, CONST, TEXT} /\ y = Base(bin.kern)[t] /\ y \in Int /\ Gap(t) = 0
  <2>1. present[t] /\ t \in {DATA, CONST, TEXT}
    BY <1>1, <1>5, <1>9 DEF Copies
  <2>2. file.kern = TRUE \/ file.kern = FALSE
    BY <1>1
  <2>3. y \in Int
    <3>1. y = Starts[TRUE][t] \/ y = Starts[FALSE][TEXT]
      BY <1>1, <1>5, <2>2 DEF Copies, Base
    <3>2. t \in Sections /\ TEXT \in Sections
      BY <2>1, PlaceNumbers
    <3> QED BY <3>1, <3>2, StartsAssumption
  <2> QED BY <2>1, <2>3 DEF Gap
<1>11. /\ o \in Int /\ Size(t) \in Int /\ n \in 1 .. Len(Part(t)) /\ Part(t)[n] = b
  <2>1. /\ bin.heads[t].size = Size(t) /\ o \in Int
        /\ Size(t) \in Int /\ Len(Part(t)) = IF Size(t) < 0 THEN 0 ELSE Size(t)
        /\ \A m \in 1 .. Len(Part(t)) : ByteAt(bin, o - 0 + m - 1) = Part(t)[m]
    BY <1>1, <1>10, PartAt
  <2>2. y <= a /\ a < y + Size(t)
    BY <1>5, <2>1 DEF Copies
  <2> DEFINE z == Size(t)
             w == Len(Part(t))
  <2>3. /\ a \in Int /\ y \in Int /\ o \in Int /\ z \in Int /\ w = IF z < 0 THEN 0 ELSE z
        /\ y <= a /\ a < y + z
    BY <1>2, <1>10, <2>1, <2>2
  <2> HIDE DEF o, y, z, w
  <2>4. n \in 1 .. w /\ o - 0 + n - 1 = o + a - y
    BY ONLY <2>3
  <2> HIDE DEF n
  <2> QED BY <1>5, <2>1, <2>4 DEF o, y, w
<1>12. t = s
  <2>1. CASE t = TEXT
    <3>1. generateText(instrs) \in Seq(VectorByte)
      BY PlaceState, StreamSteps, generateTextType
    <3> DEFINE V == VectorByte \cup {Junk}
               bytes == generateText(instrs)
               z == Size(TEXT)
    <3>2. bytes \in Seq(V) /\ Junk \in V /\ z \in Int
      <4>1. \A e \in VectorByte : e \in V
        OBVIOUS
      <4> HIDE DEF V
      <4>2. bytes \in Seq(V)
        BY <3>1, <4>1, SeqDef
      <4> QED BY <1>11, <2>1, <4>2 DEF V
    <3>3. Part(t) = Fit(bytes, z)
      BY <2>1 DEF Part
    <3> HIDE DEF V, bytes, z
    <3>4. Part(t) \in Seq(V)
      BY <3>2, <3>3, FitIn
    <3>5. b \in V
      BY <1>11, <3>4, ElementOfSeq
    <3>6. b[1] \in {TEXT, EVT}
      BY <1>3, <3>5 DEF V, VectorByte
    <3> QED BY <1>3, <3>6, SectionNumbers DEF DATA, CONST
  <2>2. CASE t \in {DATA, CONST}
    <3>1. ~Endless(data[t])
      BY <1>10, <2>2 DEF Made
    <3> HIDE DEF n, o, x, start
    <3>2. TypeInv /\ n \in 1 .. Len(Part(t)) /\ Part(t)[n] = b
      BY <1>1, <1>11
    <3>3. \E j \in DOMAIN data[t] : \E l \in 1 .. data[t][j].size :
            n = data[t][j].addr - Starts[file.kern][t] + l /\ Part(t)[n] = << t, j, l >>
      BY ONLY <2>2, <3>1, <3>2, OnlyItsPlace
    <3> QED BY ONLY <1>3, <3>2, <3>3
  <2> QED BY <1>10, <2>1, <2>2
<1>13. n = x - start + k
  <2>a. TypeInv /\ s \in {DATA, CONST} /\ ~Endless(data[s]) /\ n \in 1 .. Len(Part(s))
    BY <1>1, <1>7, <1>11, <1>12
  <2>b. \E j \in DOMAIN data[s] : \E l \in 1 .. data[s][j].size :
          n = data[s][j].addr - start + l /\ Part(s)[n] = << s, j, l >>
    <3> HIDE DEF n
    <3> QED BY ONLY <2>a, OnlyItsPlace
  <2>1. PICK j \in DOMAIN data[s] : \E l \in 1 .. data[s][j].size :
             n = data[s][j].addr - start + l /\ Part(s)[n] = << s, j, l >>
    BY <2>b
  <2>2. PICK l : n = data[s][j].addr - start + l /\ Part(s)[n] = << s, j, l >>
    BY <2>1
  <2>3. j = i /\ l = k
    BY <1>11, <1>12, <2>2 DEF b
  <2> QED BY <2>2, <2>3
<1>14. y = start
  <2>1. y \in Int /\ n = a - y + 1 /\ a = x + k - 1
    BY <1>10 DEF a
  <2> HIDE DEF x, start, y, n
  <2> QED BY ONLY <1>2, <1>13, <2>1, SMTT(30)
<1>15. bin.kern
  <2>1. ASSUME file.kern = FALSE PROVE FALSE
    <3>1. y = Starts[FALSE][TEXT]
      BY <1>1, <1>5, <2>1 DEF Copies, Base
    <3> QED BY <1>14, <2>1, <3>1, StartsAssumption
  <2> QED BY <1>1, <2>1
<1>16. s = DATA
  <2>1. bin.kern = TRUE
    BY <1>1, <1>15
  <2>2. t \in {DATA, TEXT, EVT}
    BY <1>5, <2>1 DEF Copies, Base
  <2> QED BY <1>7, <1>9, <1>12, <2>2
<1> QED BY <1>1, <1>6, <1>15, <1>16

(* The file that is made is loaded as LoadedExact says.                    *)
LEMMA MadeLoads ==
  ASSUME PlaceInv, pc = "written", NEW v \in Seq(VectorByte), Made(v), Separate
  PROVE  LoadedExact
<1> SUFFICES ASSUME ~HasBss PROVE LoadedExact
  BY DEF LoadedExact
<1>1. \A i \in DOMAIN instrs : PureText /\ InSection(i, TEXT) /\ ~LastOfLd(i) =>
        \A k \in 1 .. 4 : Loaded(bin, instrs[i].addr + k - 1) = << TEXT, i, k >>
  BY LoadedText
<1>2. ASSUME NEW s \in {DATA, CONST}, NEW i \in DOMAIN data[s], NEW k \in 1 .. data[s][i].size
      PROVE  Loaded(bin, data[s][i].addr + k - 1) = << s, i, k >>
               <=> bin.kern /\ s = DATA /\ DATA \in DOMAIN bin.heads
  <2>1. DATA \in DOMAIN bin.heads => present[DATA]
    BY DEF Made, generateSectionHeaders, Sizes
  <2>2. CASE bin.kern /\ s = DATA /\ DATA \in DOMAIN bin.heads
    BY <2>1, <2>2, LoadedData
  <2>3. CASE Loaded(bin, data[s][i].addr + k - 1) = << s, i, k >>
    BY <2>3, LoadedElsewhere
  <2> QED BY <2>2, <2>3
<1> QED BY <1>1, <1>2 DEF LoadedExact

(* Property LoadedExact: the loader has each instruction of a text without *)
(* gaps at its address, and the kernel's data, and no byte of the data or  *)
(* constants of a program; whatever the lines are, if the sections of a    *)
(* kernel are not so long that one is copied over another.                 *)
THEOREM LoadedRight == Spec => [](Separate => LoadedExact)
<1>1. Init => FileInv
  BY PlaceInit DEF FileInv, Init
<1>2. FileInv => (Separate => LoadedExact)
  <2>1. ASSUME FileInv, Separate, pc = "written" PROVE LoadedExact
    BY <2>1, MadeLoads DEF FileInv, Written
  <2>2. pc # "written" => LoadedExact
    BY DEF LoadedExact
  <2> QED BY <2>1, <2>2
<1> QED BY <1>1, <1>2, FileNext, PTL DEF Spec

-----------------------------------------------------------------------------
(* The vector: its instructions and items, in whatever order they were     *)
(* assembled, make one row of addresses, and the merge writes them so.     *)

(* One more value of a function. *)
UpTo(T, S) == [0 .. T -> S]
Longer(f, T, S, x, g) ==
  g \in [0 .. T + 1 -> S] /\ g[T + 1] = x /\ \A n \in 0 .. T : g[n] = f[n]

(* There is such a function.                                               *)
LEMMA Extended ==
  ASSUME NEW T \in Nat, NEW S, NEW f \in UpTo(T, S), NEW x \in S
  PROVE  \E g : Longer(f, T, S, x, g)
<1>0. f \in [0 .. T -> S]
  BY DEF UpTo
<1> DEFINE g == [n \in 0 .. T + 1 |-> IF n = T + 1 THEN x ELSE f[n]]
<1>1. ASSUME NEW n \in 0 .. T + 1 PROVE (IF n = T + 1 THEN x ELSE f[n]) \in S
  <2>1. n = T + 1 \/ n \in 0 .. T
    OBVIOUS
  <2> QED BY <1>0, <2>1
<1>2. g \in [0 .. T + 1 -> S]
  BY <1>1
<1>3. \A n \in 0 .. T : n \in 0 .. T + 1 /\ n # T + 1
  OBVIOUS
<1>4. T + 1 \in 0 .. T + 1
  OBVIOUS
<1>5. g[T + 1] = x /\ \A n \in 0 .. T : g[n] = f[n]
  BY <1>3, <1>4
<1> HIDE DEF g
<1>6. Longer(f, T, S, x, g)
  BY <1>2, <1>5 DEF Longer
<1> QED BY <1>6

(* The k-th instruction of the vector, which begins with the marker m, is  *)
(* recorded behind its place if it is the last one of an ld of seven.      *)
Ahead(q, i) == q[i].addr - Late(q[i])

(* The n-th piece of the vector, an instruction or an item, is where the   *)
(* one before it ends.  c[n]: how many of the first n pieces are           *)
(* instructions; z[n]: where these pieces end.                             *)
CodePiece(q, m, c, z, n) ==
  c[n] = c[n - 1] + 1 /\ z[n] = z[n - 1] + 4 /\ Ahead(q, m + c[n]) = z[n - 1]
ItemPiece(items, c, z, n) ==
  /\ c[n] = c[n - 1] /\ z[n] = z[n - 1] + items[n - c[n]].size
  /\ items[n - c[n]].addr = z[n - 1]

(* K instructions behind the marker m and N items make one row from the    *)
(* start to the end.                                                       *)
InOrder(q, m, K, items, N, start, end, c, z) ==
  /\ c \in [0 .. K + N -> Nat] /\ z \in [0 .. K + N -> Int]
  /\ c[0] = 0 /\ z[0] = start /\ c[K + N] = K /\ z[K + N] = end
  /\ \A n \in 0 .. K + N : c[n] <= K /\ n - c[n] \in 0 .. N
  /\ \A n \in 1 .. K + N : CodePiece(q, m, c, z, n) \/ ItemPiece(items, c, z, n)
Row(q, m, K, items, start, end) ==
  \E c, z : InOrder(q, m, K, items, Len(items), start, end, c, z)

(* The n-th piece is one of the instructions or of the items. *)
LEMMA PieceRange ==
  ASSUME NEW q, NEW m, NEW K \in Nat, NEW items, NEW N \in Nat, NEW start, NEW end, NEW c, NEW z,
         InOrder(q, m, K, items, N, start, end, c, z), NEW n \in 1 .. K + N
  PROVE  /\ n \in 0 .. K + N /\ n - 1 \in 0 .. K + N /\ c[n] \in Nat /\ c[n - 1] \in Nat
         /\ z[n] \in Int /\ z[n - 1] \in Int
         /\ CodePiece(q, m, c, z, n) => c[n] \in 1 .. K
         /\ ItemPiece(items, c, z, n) => n - c[n] \in 1 .. N
<1> DEFINE T == K + N
<1>1. T \in Nat /\ n \in 1 .. T
  OBVIOUS
<1>2. /\ c \in [0 .. T -> Nat] /\ z \in [0 .. T -> Int]
      /\ \A i \in 0 .. T : c[i] <= K /\ i - c[i] \in 0 .. N
  BY DEF InOrder
<1> HIDE DEF T
<1>3. n \in 0 .. T /\ n - 1 \in 0 .. T
  BY <1>1
<1>4. c[n] \in Nat /\ c[n - 1] \in Nat /\ z[n] \in Int /\ z[n - 1] \in Int
  BY <1>2, <1>3
<1>5. c[n] <= K /\ n - c[n] \in 0 .. N /\ n - 1 - c[n - 1] \in 0 .. N
  BY <1>2, <1>3
<1>6. CodePiece(q, m, c, z, n) => c[n] \in 1 .. K
  BY <1>4, <1>5 DEF CodePiece
<1>7. ItemPiece(items, c, z, n) => n - c[n] \in 1 .. N
  BY <1>1, <1>4, <1>5 DEF ItemPiece
<1> QED BY <1>3, <1>4, <1>6, <1>7 DEF T

(* A row stays one if its pieces keep their places.                        *)
LEMMA RowKept ==
  ASSUME NEW q, NEW m \in Nat, NEW K \in Nat, NEW items, NEW start, NEW end,
         Len(items) \in Nat, Row(q, m, K, items, start, end), NEW r, NEW m2, NEW new,
         \A k \in 1 .. K : Ahead(r, m2 + k) = Ahead(q, m + k), Len(new) = Len(items),
         \A d \in 1 .. Len(items) : new[d].addr = items[d].addr /\ new[d].size = items[d].size
  PROVE  Row(r, m2, K, new, start, end)
<1> DEFINE N == Len(items)
<1>1. PICK c, z : InOrder(q, m, K, items, N, start, end, c, z)
  BY DEF Row
<1>2. N \in Nat /\ Len(new) = N
  OBVIOUS
<1>3. \A d \in 1 .. N : new[d].addr = items[d].addr /\ new[d].size = items[d].size
  OBVIOUS
<1> HIDE DEF N
<1>4. ASSUME NEW n \in 1 .. K + N
      PROVE  CodePiece(r, m2, c, z, n) \/ ItemPiece(new, c, z, n)
  <2>1. /\ CodePiece(q, m, c, z, n) => c[n] \in 1 .. K
        /\ ItemPiece(items, c, z, n) => n - c[n] \in 1 .. N
    BY <1>1, <1>2, PieceRange
  <2>2. CodePiece(q, m, c, z, n) \/ ItemPiece(items, c, z, n)
    BY <1>1 DEF InOrder
  <2>3. CASE CodePiece(q, m, c, z, n)
    <3>1. Ahead(r, m2 + c[n]) = Ahead(q, m + c[n])
      BY <2>1, <2>3
    <3> QED BY <2>3, <3>1 DEF CodePiece
  <2>4. CASE ItemPiece(items, c, z, n)
    <3> DEFINE d == n - c[n]
    <3>1. d \in 1 .. N
      BY <2>1, <2>4
    <3> HIDE DEF d
    <3>2. new[d].addr = items[d].addr /\ new[d].size = items[d].size
      BY <1>3, <3>1
    <3> QED BY <2>4, <3>2 DEF ItemPiece, d
  <2> QED BY <2>2, <2>3, <2>4
<1>5. InOrder(r, m2, K, new, N, start, end, c, z)
  BY <1>1, <1>4 DEF InOrder
<1> QED BY <1>2, <1>5 DEF Row

(* An item behind the row. *)
LEMMA RowItem ==
  ASSUME NEW q, NEW m \in Nat, NEW K \in Nat, NEW items, NEW start, NEW end,
         Len(items) \in Nat, Row(q, m, K, items, start, end),
         NEW new, Len(new) = Len(items) + 1,
         \A d \in 1 .. Len(items) : new[d] = items[d],
         new[Len(items) + 1].addr = end, new[Len(items) + 1].size \in Int
  PROVE  Row(q, m, K, new, start, end + new[Len(items) + 1].size)
<1> DEFINE N == Len(items)
           T == K + N
           item == new[N + 1]
           stop == end + item.size
<1>1. /\ N \in Nat /\ T \in Nat /\ T = K + N /\ K + (N + 1) = T + 1 /\ Len(new) = N + 1
      /\ item = new[N + 1] /\ item.addr = end /\ item.size \in Int /\ stop = end + item.size
      /\ \A d \in 1 .. N : new[d] = items[d]
  OBVIOUS
<1>2. PICK c, z : InOrder(q, m, K, items, N, start, end, c, z)
  BY DEF Row
<1> HIDE DEF N, T, item, stop
<1>3. /\ c \in [0 .. T -> Nat] /\ z \in [0 .. T -> Int]
      /\ c[0] = 0 /\ z[0] = start /\ c[T] = K /\ z[T] = end
      /\ \A n \in 0 .. T : c[n] <= K /\ n - c[n] \in 0 .. N
      /\ \A n \in 1 .. T : CodePiece(q, m, c, z, n) \/ ItemPiece(items, c, z, n)
  BY <1>1, <1>2 DEF InOrder
<1>4. stop \in Int /\ c \in [0 .. T -> Nat] /\ z \in [0 .. T -> Int]
  <2>1. T \in 0 .. T
    BY <1>1
  <2>2. end \in Int
    BY <1>3, <2>1
  <2>3. stop \in Int
    BY ONLY <1>1, <2>2
  <2> QED BY ONLY <1>3, <2>3
<1>5. PICK g \in [0 .. T + 1 -> Nat] : g[T + 1] = K /\ \A n \in 0 .. T : g[n] = c[n]
  <2> DEFINE S == Nat
  <2>1. T \in Nat /\ c \in UpTo(T, S) /\ K \in S
    BY <1>1, <1>4 DEF UpTo
  <2> HIDE DEF S
  <2>2. PICK g : Longer(c, T, S, K, g)
    BY <2>1, Extended
  <2> QED BY <2>2 DEF S, Longer
<1>6. PICK w \in [0 .. T + 1 -> Int] : w[T + 1] = stop /\ \A n \in 0 .. T : w[n] = z[n]
  <2> DEFINE S == Int
  <2>1. T \in Nat /\ z \in UpTo(T, S) /\ stop \in S
    BY <1>1, <1>4 DEF UpTo
  <2> HIDE DEF S
  <2>2. PICK w : Longer(z, T, S, stop, w)
    BY <2>1, Extended
  <2> QED BY <2>2 DEF S, Longer
<1>7. 0 \in 0 .. T /\ T \in 0 .. T /\ \A n \in 0 .. T + 1 : n \in 0 .. T \/ n = T + 1
  BY <1>1
<1>8. ASSUME NEW n \in 0 .. T + 1 PROVE g[n] <= K /\ n - g[n] \in 0 .. N + 1
  <2>1. CASE n \in 0 .. T
    <3>1. g[n] = c[n] /\ c[n] <= K /\ n - c[n] \in 0 .. N
      BY <1>3, <1>5, <2>1
    <3> DEFINE x == c[n]
               y == g[n]
    <3>2. y = x /\ x <= K /\ n - x \in 0 .. N /\ x \in Nat /\ N \in Nat
      BY <1>1, <1>3, <3>1
    <3> HIDE DEF x, y
    <3>3. y <= K /\ n - y \in 0 .. N + 1
      BY ONLY <3>2, K \in Nat
    <3> QED BY <3>3 DEF y
  <2>2. CASE n = T + 1
    <3>1. n - K = N + 1
      BY <1>1, <2>2
    <3>2. g[n] = K
      BY <1>5, <2>2
    <3>3. K <= K /\ N + 1 \in 0 .. N + 1
      BY <1>1
    <3> QED BY <3>1, <3>2, <3>3
  <2> QED BY <1>7, <2>1, <2>2
<1>9. ASSUME NEW n \in 1 .. T + 1 PROVE CodePiece(q, m, g, w, n) \/ ItemPiece(new, g, w, n)
  <2>1. CASE n \in 1 .. T
    <3>1. /\ n \in 0 .. T /\ n - 1 \in 0 .. T
          /\ ItemPiece(items, c, z, n) => n - c[n] \in 1 .. N
      BY <1>1, <1>2, <2>1, PieceRange
    <3>2. g[n] = c[n] /\ w[n] = z[n] /\ g[n - 1] = c[n - 1] /\ w[n - 1] = z[n - 1]
      BY <1>5, <1>6, <3>1
    <3>3. CASE CodePiece(q, m, c, z, n)
      BY <3>2, <3>3 DEF CodePiece
    <3>4. CASE ItemPiece(items, c, z, n)
      <4>1. new[n - c[n]] = items[n - c[n]]
        BY <1>1, <3>1, <3>4
      <4> QED BY <3>2, <3>4, <4>1 DEF ItemPiece
    <3> QED BY <1>3, <2>1, <3>3, <3>4
  <2>2. CASE n = T + 1
    <3>1. n - 1 = T /\ n - K = N + 1
      BY <1>1, <2>2
    <3>2. g[n] = K /\ g[n - 1] = K /\ w[n] = stop /\ w[n - 1] = end
      BY <1>3, <1>5, <1>6, <1>7, <2>2, <3>1
    <3>3. n - g[n] = N + 1
      BY <3>1, <3>2
    <3> QED BY <1>1, <3>2, <3>3 DEF ItemPiece
  <2> QED BY <1>7, <2>1, <2>2
<1>10. g[0] = 0 /\ w[0] = start /\ g[T + 1] = K /\ w[T + 1] = stop
  BY <1>3, <1>5, <1>6, <1>7
<1>11. InOrder(q, m, K, new, N + 1, start, stop, g, w)
  BY <1>1, <1>5, <1>6, <1>8, <1>9, <1>10 DEF InOrder
<1>12. Row(q, m, K, new, start, stop)
  BY <1>1, <1>11 DEF Row
<1> QED BY <1>12 DEF stop, item, N

(* An instruction behind the row, and several. *)
LEMMA RowCode ==
  ASSUME NEW q, NEW m \in Nat, NEW K \in Nat, NEW items, NEW start, NEW end,
         Len(items) \in Nat, Row(q, m, K, items, start, end), Ahead(q, m + (K + 1)) = end
  PROVE  Row(q, m, K + 1, items, start, end + 4)
<1> DEFINE N == Len(items)
           T == K + N
           L == K + 1
           stop == end + 4
<1>1. /\ N \in Nat /\ T \in Nat /\ T = K + N /\ L + N = T + 1 /\ L = K + 1 /\ L \in Nat
      /\ stop = end + 4 /\ Ahead(q, m + L) = end
  OBVIOUS
<1>2. PICK c, z : InOrder(q, m, K, items, N, start, end, c, z)
  BY DEF Row
<1> HIDE DEF N, T, L, stop
<1>3. /\ c \in [0 .. T -> Nat] /\ z \in [0 .. T -> Int]
      /\ c[0] = 0 /\ z[0] = start /\ c[T] = K /\ z[T] = end
      /\ \A n \in 0 .. T : c[n] <= K /\ n - c[n] \in 0 .. N
      /\ \A n \in 1 .. T : CodePiece(q, m, c, z, n) \/ ItemPiece(items, c, z, n)
  BY <1>1, <1>2 DEF InOrder
<1>4. stop \in Int /\ c \in [0 .. T -> Nat] /\ z \in [0 .. T -> Int]
  <2>1. T \in 0 .. T
    BY <1>1
  <2>2. end \in Int
    BY <1>3, <2>1
  <2>3. stop \in Int
    BY ONLY <1>1, <2>2
  <2> QED BY ONLY <1>3, <2>3
<1>5. PICK g \in [0 .. T + 1 -> Nat] : g[T + 1] = L /\ \A n \in 0 .. T : g[n] = c[n]
  <2> DEFINE S == Nat
  <2>1. T \in Nat /\ c \in UpTo(T, S) /\ L \in S
    BY <1>1, <1>4 DEF UpTo
  <2> HIDE DEF S
  <2>2. PICK g : Longer(c, T, S, L, g)
    BY <2>1, Extended
  <2> QED BY <2>2 DEF S, Longer
<1>6. PICK w \in [0 .. T + 1 -> Int] : w[T + 1] = stop /\ \A n \in 0 .. T : w[n] = z[n]
  <2> DEFINE S == Int
  <2>1. T \in Nat /\ z \in UpTo(T, S) /\ stop \in S
    BY <1>1, <1>4 DEF UpTo
  <2> HIDE DEF S
  <2>2. PICK w : Longer(z, T, S, stop, w)
    BY <2>1, Extended
  <2> QED BY <2>2 DEF S, Longer
<1>7. 0 \in 0 .. T /\ T \in 0 .. T /\ \A n \in 0 .. T + 1 : n \in 0 .. T \/ n = T + 1
  BY <1>1
<1>8. ASSUME NEW n \in 0 .. T + 1 PROVE g[n] <= L /\ n - g[n] \in 0 .. N
  <2>1. CASE n \in 0 .. T
    <3>1. g[n] = c[n] /\ c[n] <= K /\ n - c[n] \in 0 .. N /\ c[n] \in Nat
      BY <1>3, <1>5, <2>1
    <3> DEFINE x == c[n]
               y == g[n]
    <3>2. y = x /\ x <= K /\ n - x \in 0 .. N /\ x \in Nat /\ N \in Nat /\ L = K + 1
      BY <1>1, <1>3, <3>1
    <3> HIDE DEF x, y
    <3>3. y <= L /\ n - y \in 0 .. N
      BY ONLY <3>2, K \in Nat
    <3> QED BY <3>3 DEF y
  <2>2. CASE n = T + 1
    <3>1. n - L = N
      BY <1>1, <2>2
    <3>2. g[n] = L
      BY <1>5, <2>2
    <3>3. L <= L /\ N \in 0 .. N
      BY <1>1
    <3> QED BY <3>1, <3>2, <3>3
  <2> QED BY <1>7, <2>1, <2>2
<1>9. ASSUME NEW n \in 1 .. T + 1 PROVE CodePiece(q, m, g, w, n) \/ ItemPiece(items, g, w, n)
  <2>1. CASE n \in 1 .. T
    <3>1. n \in 0 .. T /\ n - 1 \in 0 .. T
      BY <1>1, <1>2, <2>1, PieceRange
    <3>2. g[n] = c[n] /\ w[n] = z[n] /\ g[n - 1] = c[n - 1] /\ w[n - 1] = z[n - 1]
      BY <1>5, <1>6, <3>1
    <3> QED BY <1>3, <2>1, <3>2 DEF CodePiece, ItemPiece
  <2>2. CASE n = T + 1
    <3>1. n - 1 = T
      BY <1>1, <2>2
    <3>2. g[n] = L /\ g[n - 1] = K /\ w[n] = stop /\ w[n - 1] = end
      BY <1>3, <1>5, <1>6, <1>7, <2>2, <3>1
    <3> QED BY <1>1, <3>2 DEF CodePiece
  <2> QED BY <1>7, <2>1, <2>2
<1>10. g[0] = 0 /\ w[0] = start /\ g[T + 1] = L /\ w[T + 1] = stop
  BY <1>3, <1>5, <1>6, <1>7
<1>11. InOrder(q, m, L, items, N, start, stop, g, w)
  BY <1>1, <1>5, <1>6, <1>8, <1>9, <1>10 DEF InOrder
<1>12. Row(q, m, L, items, start, stop)
  BY <1>11 DEF Row, N
<1> QED BY <1>12 DEF stop, L

(* Instructions behind the row.                                            *)
LEMMA RowCodes ==
  ASSUME NEW q, NEW m \in Nat, NEW K \in Nat, NEW items, NEW start, NEW end \in Int,
         Len(items) \in Nat, Row(q, m, K, items, start, end), NEW L \in Nat,
         \A k \in 1 .. L : Ahead(q, m + (K + k)) = end + 4 * (k - 1)
  PROVE  Row(q, m, K + L, items, start, end + 4 * L)
<1> DEFINE T == {k \in 0 .. L : Row(q, m, K + k, items, start, end + 4 * k)}
<1>1. 0 \in T
  <2>1. K + 0 = K /\ end + 4 * 0 = end
    OBVIOUS
  <2> QED BY <2>1
<1>2. ASSUME NEW k \in 0 .. L - 1, k \in T PROVE k + 1 \in T
  <2> DEFINE J == K + k
             e == end + 4 * k
  <2>1. J \in Nat /\ J + 1 = K + (k + 1) /\ e + 4 = end + 4 * (k + 1) /\ k + 1 \in 1 .. L
    OBVIOUS
  <2>2. Ahead(q, m + (K + (k + 1))) = e
    <3> DEFINE n == k + 1
    <3>1. n \in 1 .. L /\ e = end + 4 * (n - 1)
      OBVIOUS
    <3> HIDE DEF n, e
    <3>2. Ahead(q, m + (K + n)) = e
      BY <3>1
    <3> QED BY <3>2 DEF n
  <2>3. Row(q, m, J, items, start, e)
    BY <1>2
  <2> HIDE DEF J, e
  <2>4. Row(q, m, J + 1, items, start, e + 4)
    BY <2>1, <2>2, <2>3, RowCode
  <2> QED BY <2>1, <2>4
<1>3. 0 .. L \subseteq T
  <2> HIDE DEF T
  <2> QED BY <1>1, <1>2, BoundedInduction
<1>4. L \in T
  <2>1. L \in 0 .. L
    OBVIOUS
  <2> HIDE DEF T
  <2> QED BY <1>3, <2>1
<1> QED BY <1>4

(* Where the vector is in the stream: its K instructions are behind its    *)
(* first marker m, which is still to come if there is no vector yet, and   *)
(* in front of its second one; the others are not of its section.          *)
Around(q, m, K, e) ==
  /\ m >= 1
  /\ \A i \in 1 .. Len(q) :
       /\ i \in m + 1 .. m + K => q[i].addr > 0 /\ SectionAt(q[i].line) = EVT
       /\ i < m \/ i > m + K + 1 => q[i].addr # 0 /\ SectionAt(q[i].line) # EVT
  /\ e = "none" => m = Len(q) + 1 /\ K = 0
  /\ e # "none" => m + K <= Len(q) /\ q[m].addr = 0
  /\ e = "open" => m + K = Len(q)
  /\ e = "closed" => m + K < Len(q) /\ q[m + K + 1].addr = 0

(* A vector that ends at an address, its pieces in one row. *)
VectorLaid(q, items, end, e) ==
  \E m, K \in Nat : Around(q, m, K, e) /\ Row(q, m, K, items, Starts[file.kern][EVT], end)

Begins(q, r) == \A i \in 1 .. Len(q) : r[i] = q[i]

(* The marker that opens the vector, or closes it.                         *)
LEMMA LaidMarker ==
  ASSUME NEW q, Len(q) \in Nat, NEW items, Len(items) \in Nat, NEW end, NEW e, NEW f,
         VectorLaid(q, items, end, e), (e = "none" /\ f = "open") \/ (e = "open" /\ f = "closed"),
         NEW r, Len(r) = Len(q) + 1, Begins(q, r), r[Len(q) + 1].addr = 0
  PROVE  VectorLaid(r, items, end, f)
<1>1. PICK m, K \in Nat : Around(q, m, K, e) /\ Row(q, m, K, items, Starts[file.kern][EVT], end)
  BY DEF VectorLaid
<1>2. \A k \in 1 .. K : m + k \in 1 .. Len(q)
  BY <1>1 DEF Around
<1>3. \A k \in 1 .. K : Ahead(r, m + k) = Ahead(q, m + k)
  BY <1>2 DEF Ahead, Begins
<1> DEFINE start == Starts[file.kern][EVT]
<1>4. Row(r, m, K, items, start, end)
  <2>1. Row(q, m, K, items, start, end)
    BY <1>1
  <2> HIDE DEF start
  <2> QED BY <1>3, <2>1, RowKept
<1>5. Around(r, m, K, f)
  <2> DEFINE N == Len(q)
  <2>1. /\ m \in Nat /\ K \in Nat /\ N \in Nat /\ m >= 1 /\ Len(r) = N + 1 /\ r[N + 1].addr = 0
        /\ e = "none" => m = N + 1 /\ K = 0
        /\ e # "none" => m + K <= N /\ q[m].addr = 0
        /\ e = "open" => m + K = N
    BY <1>1 DEF Around
  <2>2. \A i \in 1 .. N : r[i] = q[i]
    BY DEF Begins
  <2>3. \A i \in 1 .. N :
          /\ i \in m + 1 .. m + K => q[i].addr > 0 /\ SectionAt(q[i].line) = EVT
          /\ i < m \/ i > m + K + 1 => q[i].addr # 0 /\ SectionAt(q[i].line) # EVT
    BY <1>1 DEF Around
  <2> HIDE DEF N
  <2>4. ASSUME NEW i \in 1 .. N + 1
        PROVE  /\ i \in m + 1 .. m + K => r[i].addr > 0 /\ SectionAt(r[i].line) = EVT
               /\ i < m \/ i > m + K + 1 => r[i].addr # 0 /\ SectionAt(r[i].line) # EVT
    <3>1. CASE i \in 1 .. N
      BY <2>2, <2>3, <3>1
    <3>2. CASE i = N + 1
      <4>1. ~(i \in m + 1 .. m + K) /\ ~(i < m) /\ ~(i > m + K + 1)
        BY <2>1, <3>2
      <4> QED BY <4>1
    <3> QED BY <2>1, <3>1, <3>2
  <2>5. CASE e = "none" /\ f = "open"
    <3>1. m + K = N + 1 /\ r[m].addr = 0
      BY <2>1, <2>5
    <3> QED BY <2>1, <2>4, <2>5, <3>1 DEF Around
  <2>6. CASE e = "open" /\ f = "closed"
    <3>1. m + K + 1 = N + 1 /\ m + K < N + 1 /\ m + K <= N + 1 /\ m \in 1 .. N
      BY <2>1, <2>6, SMTT(30)
    <3>2. r[m].addr = 0
      BY <2>1, <2>2, <2>6, <3>1
    <3> QED BY <2>1, <2>4, <2>6, <3>1, <3>2 DEF Around
  <2> QED BY <2>5, <2>6
<1> QED BY <1>4, <1>5 DEF VectorLaid

(* An item behind an open vector, or any, for what the layout cares. *)
LEMMA LaidItem ==
  ASSUME NEW q, NEW items, Len(items) \in Nat, NEW end, NEW e, VectorLaid(q, items, end, e),
         NEW new, Len(new) = Len(items) + 1, \A d \in 1 .. Len(items) : new[d] = items[d],
         new[Len(items) + 1].addr = end, new[Len(items) + 1].size \in Int
  PROVE  VectorLaid(q, new, end + new[Len(items) + 1].size, e)
<1>1. PICK m, K \in Nat : Around(q, m, K, e) /\ Row(q, m, K, items, Starts[file.kern][EVT], end)
  BY DEF VectorLaid
<1> DEFINE start == Starts[file.kern][EVT]
<1>2. Row(q, m, K, new, start, end + new[Len(items) + 1].size)
  <2>1. Row(q, m, K, items, start, end)
    BY <1>1
  <2> HIDE DEF start
  <2> QED BY <2>1, RowItem
<1> QED BY <1>1, <1>2 DEF VectorLaid

(* Instructions of other sections, in front of the vector or behind it. *)
LEMMA LaidOutside ==
  ASSUME NEW q, Len(q) \in Nat, NEW items, Len(items) \in Nat, NEW end, NEW e,
         VectorLaid(q, items, end, e), e \in {"none", "closed"},
         NEW r, NEW L \in Nat, Len(r) = Len(q) + L, Begins(q, r),
         \A k \in 1 .. L : r[Len(q) + k].addr # 0 /\ SectionAt(r[Len(q) + k].line) # EVT
  PROVE  VectorLaid(r, items, end, e)
<1> DEFINE N == Len(q)
           start == Starts[file.kern][EVT]
<1>1. PICK m, K \in Nat : Around(q, m, K, e) /\ Row(q, m, K, items, start, end)
  BY DEF VectorLaid
<1>2. /\ N \in Nat /\ m >= 1 /\ Len(r) = N + L
      /\ e = "none" => m = N + 1 /\ K = 0
      /\ e # "none" => m + K <= N /\ q[m].addr = 0
      /\ e = "closed" => m + K < N /\ q[m + K + 1].addr = 0
  BY <1>1 DEF Around
<1>3. \A i \in 1 .. N :
        /\ r[i] = q[i]
        /\ i \in m + 1 .. m + K => q[i].addr > 0 /\ SectionAt(q[i].line) = EVT
        /\ i < m \/ i > m + K + 1 => q[i].addr # 0 /\ SectionAt(q[i].line) # EVT
  BY <1>1 DEF Around, Begins
<1>4. \A k \in 1 .. L : r[N + k].addr # 0 /\ SectionAt(r[N + k].line) # EVT
  OBVIOUS
<1>5. Row(q, m, K, items, start, end)
  BY <1>1
<1> HIDE DEF N, start
<1>6. ASSUME NEW i \in 1 .. N + L, ~(i \in 1 .. N)
      PROVE  r[i].addr # 0 /\ SectionAt(r[i].line) # EVT
  <2>1. i - N \in 1 .. L /\ N + (i - N) = i
    BY <1>2, <1>6
  <2> DEFINE k == i - N
  <2>2. k \in 1 .. L /\ N + k = i
    BY <2>1
  <2> HIDE DEF k
  <2>3. r[N + k].addr # 0 /\ SectionAt(r[N + k].line) # EVT
    BY <1>4, <2>2
  <2> QED BY <2>2, <2>3
<1>7. CASE e = "none"
  <2> DEFINE M == N + L + 1
  <2>1. M \in Nat /\ M >= 1 /\ M = Len(r) + 1 /\ m = N + 1 /\ K = 0
    BY <1>2, <1>7
  <2>2. Row(r, M, K, items, start, end)
    <3>1. \A k \in 1 .. K : Ahead(r, M + k) = Ahead(q, m + k)
      BY <2>1
    <3> HIDE DEF M
    <3> QED BY <1>5, <2>1, <3>1, RowKept
  <2>3. ASSUME NEW i \in 1 .. N + L
        PROVE  /\ ~(i \in M + 1 .. M + K)
               /\ r[i].addr # 0 /\ SectionAt(r[i].line) # EVT
    <3>1. ~(i \in M + 1 .. M + K)
      BY <1>2, <2>1
    <3>2. CASE i \in 1 .. N
      BY <1>2, <1>3, <2>1, <3>2
    <3> QED BY <1>6, <3>1, <3>2
  <2>4. Around(r, M, K, e)
    <3> HIDE DEF M
    <3> QED BY <1>2, <1>7, <2>1, <2>3 DEF Around
  <2> HIDE DEF M
  <2> QED BY <2>1, <2>2, <2>4 DEF VectorLaid, start
<1>8. CASE e = "closed"
  <2>0. m + K < N /\ m \in 1 .. N /\ m + K + 1 \in 1 .. N /\ q[m].addr = 0 /\ q[m + K + 1].addr = 0
    BY <1>2, <1>8, SMTT(30)
  <2>1. \A k \in 1 .. K : m + k \in 1 .. N
    BY <1>2, <2>0
  <2>2. \A k \in 1 .. K : Ahead(r, m + k) = Ahead(q, m + k)
    BY <1>3, <2>1 DEF Ahead
  <2>3. Row(r, m, K, items, start, end)
    BY <1>5, <2>2, RowKept
  <2>4. ASSUME NEW i \in 1 .. N + L
        PROVE  /\ i \in m + 1 .. m + K => r[i].addr > 0 /\ SectionAt(r[i].line) = EVT
               /\ i < m \/ i > m + K + 1 => r[i].addr # 0 /\ SectionAt(r[i].line) # EVT
    <3>1. CASE i \in 1 .. N
      BY <1>3, <3>1
    <3>2. CASE ~(i \in 1 .. N)
      <4>1. ~(i \in m + 1 .. m + K)
        BY <1>2, <2>0, <3>2
      <4> QED BY <1>6, <3>2, <4>1
    <3> QED BY <3>1, <3>2
  <2>5. m + K <= N + L /\ m + K < N + L /\ r[m].addr = 0 /\ r[m + K + 1].addr = 0
    BY <1>2, <1>3, <2>0
  <2>6. Around(r, m, K, e)
    BY <1>2, <1>8, <2>4, <2>5 DEF Around
  <2> QED BY <2>3, <2>6 DEF VectorLaid, start
<1> QED BY <1>7, <1>8

(* Instructions of the vector. *)
LEMMA LaidInside ==
  ASSUME NEW q, Len(q) \in Nat, NEW items, Len(items) \in Nat, NEW end \in Int,
         VectorLaid(q, items, end, "open"),
         NEW r, NEW L \in Nat, Len(r) = Len(q) + L, Begins(q, r),
         \A k \in 1 .. L : /\ r[Len(q) + k].addr > 0 /\ SectionAt(r[Len(q) + k].line) = EVT
                           /\ Ahead(r, Len(q) + k) = end + 4 * (k - 1)
  PROVE  VectorLaid(r, items, end + 4 * L, "open")
<1> DEFINE N == Len(q)
           start == Starts[file.kern][EVT]
           e == "open"
<1>1. PICK m, K \in Nat : Around(q, m, K, e) /\ Row(q, m, K, items, start, end)
  BY DEF VectorLaid
<1>2. N \in Nat /\ m >= 1 /\ Len(r) = N + L /\ m + K = N /\ q[m].addr = 0
  BY <1>1 DEF Around
<1>3. \A i \in 1 .. N :
        /\ r[i] = q[i]
        /\ i \in m + 1 .. m + K => q[i].addr > 0 /\ SectionAt(q[i].line) = EVT
        /\ i < m \/ i > m + K + 1 => q[i].addr # 0 /\ SectionAt(q[i].line) # EVT
  BY <1>1 DEF Around, Begins
<1>4. \A k \in 1 .. L : /\ r[N + k].addr > 0 /\ SectionAt(r[N + k].line) = EVT
                        /\ Ahead(r, N + k) = end + 4 * (k - 1)
  OBVIOUS
<1>5. Row(q, m, K, items, start, end)
  BY <1>1
<1> HIDE DEF N, start
<1>6. \A k \in 1 .. K : m + k \in 1 .. N
  <2>1. m \in Nat /\ K \in Nat /\ m + K = N
    BY <1>2
  <2> QED BY ONLY <2>1
<1>7. Row(r, m, K, items, start, end)
  <2>1. \A k \in 1 .. K : Ahead(r, m + k) = Ahead(q, m + k)
    BY <1>3, <1>6 DEF Ahead
  <2> QED BY <1>5, <2>1, RowKept
<1>8. Row(r, m, K + L, items, start, end + 4 * L)
  <2>1. ASSUME NEW k \in 1 .. L PROVE Ahead(r, m + (K + k)) = end + 4 * (k - 1)
    <3>1. m + (K + k) = N + k
      BY <1>2
    <3> QED BY <1>4, <3>1
  <2> QED BY <1>7, <2>1, RowCodes
<1> DEFINE J == K + L
<1>9. J \in Nat /\ m + J = N + L
  BY <1>2
<1>10. ASSUME NEW i \in 1 .. N + L
       PROVE  /\ i \in m + 1 .. m + J => r[i].addr > 0 /\ SectionAt(r[i].line) = EVT
              /\ i < m \/ i > m + J + 1 => r[i].addr # 0 /\ SectionAt(r[i].line) # EVT
  <2>1. CASE i \in 1 .. N
    <3>1. (i \in m + 1 .. m + J => i \in m + 1 .. m + K) /\ (i > m + J + 1 => i > m + K + 1)
      <4>1. m \in Nat /\ K \in Nat /\ L \in Nat /\ i \in 1 .. m + K
        BY <1>2, <2>1
      <4> QED BY ONLY <4>1
    <3> HIDE DEF J
    <3> QED BY <1>3, <2>1, <3>1
  <2>2. CASE ~(i \in 1 .. N)
    <3> DEFINE k == i - N
    <3>1. k \in 1 .. L /\ N + k = i /\ ~(i < m) /\ ~(i > m + J + 1)
      <4>1. m \in Nat /\ K \in Nat /\ L \in Nat /\ N = m + K /\ i \in 1 .. N + L /\ i > N
        BY <1>2, <2>2
      <4> QED BY ONLY <4>1
    <3> HIDE DEF k, J
    <3>2. r[N + k].addr > 0 /\ SectionAt(r[N + k].line) = EVT
      BY <1>4, <3>1
    <3> QED BY <3>1, <3>2
  <2> QED BY <2>1, <2>2
<1>11. m + J <= N + L /\ r[m].addr = 0
  <2>1. m \in 1 .. N
    BY <1>2
  <2> QED BY <1>2, <1>3, <1>9, <2>1
<1> HIDE DEF J
<1>12. Around(r, m, J, e)
  BY <1>2, <1>9, <1>10, <1>11 DEF Around
<1> QED BY <1>8, <1>9, <1>12 DEF VectorLaid, start, J

(* What the second pass changes does not matter. *)
LEMMA LaidAlike ==
  ASSUME NEW q, Len(q) \in Nat, NEW items, Len(items) \in Nat, NEW end, NEW e,
         VectorLaid(q, items, end, e), NEW r, Alike(q, r), NEW new, Len(new) = Len(items),
         \A d \in 1 .. Len(items) : new[d].addr = items[d].addr /\ new[d].size = items[d].size
  PROVE  VectorLaid(r, new, end, e)
<1> DEFINE start == Starts[file.kern][EVT]
<1>1. PICK m, K \in Nat : Around(q, m, K, e) /\ Row(q, m, K, items, start, end)
  BY DEF VectorLaid
<1>2. /\ Len(r) = Len(q)
      /\ \A i \in 1 .. Len(q) : /\ r[i].addr = q[i].addr /\ r[i].line = q[i].line
                                /\ Late(r[i]) = Late(q[i])
  BY DEF Alike, Late
<1>3. \A k \in 1 .. K : m + k \in 1 .. Len(q)
  BY <1>1 DEF Around
<1>4. Row(r, m, K, new, start, end)
  <2>1. \A k \in 1 .. K : Ahead(r, m + k) = Ahead(q, m + k)
    BY <1>2, <1>3 DEF Ahead
  <2>2. Row(q, m, K, items, start, end)
    BY <1>1
  <2> HIDE DEF start
  <2> QED BY <2>1, <2>2, RowKept
<1>5. Around(r, m, K, e)
  <2>1. e # "none" => m \in 1 .. Len(q)
    BY <1>1 DEF Around
  <2>2. e = "closed" => m + K + 1 \in 1 .. Len(q)
    BY <1>1 DEF Around
  <2> QED BY <1>1, <1>2, <2>1, <2>2, ZenonT(40) DEF Around
<1> QED BY <1>4, <1>5 DEF VectorLaid

(* The invariant's part, of the next state.                                *)
LEMMA LaidNext ==
  ASSUME UNCHANGED file, VectorLaid(instrs', data'[EVT], lp'[EVT], evt')
  PROVE  VectorLaid(instrs, data[EVT], lp[EVT], evt)'
<1>1. PICK m, K \in Nat : /\ Around(instrs', m, K, evt')
                          /\ Row(instrs', m, K, data'[EVT], Starts[file.kern][EVT], lp'[EVT])
  BY DEF VectorLaid
<1>2. Around(instrs, m, K, evt)'
  BY <1>1, SourceKept DEF Around
<1>3. Row(instrs, m, K, data[EVT], Starts[file.kern][EVT], lp[EVT])'
  <2>1. PICK c, z : InOrder(instrs', m, K, data'[EVT], Len(data'[EVT]),
                            Starts[file.kern][EVT], lp'[EVT], c, z)
    BY <1>1 DEF Row
  <2>2. \A n : /\ CodePiece(instrs', m, c, z, n) => CodePiece(instrs, m, c, z, n)'
               /\ ItemPiece(data'[EVT], c, z, n) => ItemPiece(data[EVT], c, z, n)'
    BY DEF CodePiece, ItemPiece, Ahead, Late
  <2>3. InOrder(instrs, m, K, data[EVT], Len(data[EVT]), Starts[file.kern][EVT], lp[EVT], c, z)'
    BY <2>1, <2>2 DEF InOrder
  <2> QED BY <2>3 DEF Row
<1> QED BY <1>2, <1>3 DEF VectorLaid

(* No instruction looks like a marker. *)
NoNull(q) == \A i \in 1 .. Len(q) : q[i].kind # "marker" => q[i].addr # 0

(* A stream without such an instruction has none in its first part.        *)
LEMMA NoNullBegins ==
  ASSUME NEW q, NEW r, NEW L \in Nat, Len(q) \in Nat, Len(r) = Len(q) + L, Begins(q, r), NoNull(r)
  PROVE  NoNull(q)
<1> SUFFICES ASSUME NEW i \in 1 .. Len(q), q[i].kind # "marker" PROVE q[i].addr # 0
  BY DEF NoNull
<1>1. i \in 1 .. Len(r) /\ r[i] = q[i]
  BY DEF Begins
<1> QED BY <1>1 DEF NoNull

(* The second pass makes none, and takes none away. *)
LEMMA NoNullAlike ==
  ASSUME NEW q, NEW r, Alike(q, r)
  PROVE  NoNull(r) <=> NoNull(q)
BY DEF NoNull, Alike

(* The invariant with the vector: once it was open its section is present, *)
(* unless it is empty; its pieces are in one row.                          *)
RowInv ==
  /\ PlaceInv
  /\ evt # "none" /\ pc \notin {"fatal", "crash"} =>
       present[EVT] \/ (pc # "pass1" /\ Size(EVT) = 0)
  /\ NoNull(instrs) /\ ~Endless(data[EVT]) /\ pc \notin {"fatal", "crash"} =>
       VectorLaid(instrs, data[EVT], lp[EVT], evt)

(* The end of a line that left the stream s. *)
LEMMA RowLine ==
  ASSUME PlaceInv, pc = "pass1", NEW a, NEW s \in Streams, EndLine(a, s),
         data' \in [Tables -> Seq(Items)], evt # "none" => present[EVT],
         present[EVT] => present'[EVT], a = EVT /\ evt = "none" => present'[EVT],
         NoNull(s) /\ ~Endless(data'[EVT]) => VectorLaid(s, data'[EVT], lp'[EVT], evt)
  PROVE  /\ (evt # "none" /\ pc \notin {"fatal", "crash"} =>
               present[EVT] \/ (pc # "pass1" /\ Size(EVT) = 0))'
         /\ (NoNull(instrs) /\ ~Endless(data[EVT]) /\ pc \notin {"fatal", "crash"} =>
               VectorLaid(instrs, data[EVT], lp[EVT], evt))'
<1> DEFINE opens == a = EVT /\ evt = "none"
           closes == a # EVT /\ evt = "open"
<1>1. /\ pc' \in {"pass1", "fatal"} /\ UNCHANGED file
      /\ pc' = "pass1" =>
           /\ evt' = IF opens THEN "open" ELSE IF closes THEN "closed" ELSE evt
           /\ instrs' = IF opens \/ closes THEN Append(s, Marker) ELSE s
  BY DEF EndLine
<1>2. pc' = "pass1" /\ evt' # "none" => present'[EVT]
  BY <1>1
<1>3. ASSUME NoNull(instrs'), ~Endless(data'[EVT]), pc' = "pass1"
      PROVE  VectorLaid(instrs, data[EVT], lp[EVT], evt)'
  <2> DEFINE items == data'[EVT]
             end == lp'[EVT]
             r == Append(s, Marker)
  <2>2. items \in Seq(Items) /\ Len(items) \in Nat
    BY SectionNumbers, LenProperties
  <2>3. Len(s) \in Nat /\ Len(r) = Len(s) + 1 /\ Begins(s, r) /\ r[Len(s) + 1] = Marker
    <3>1. Len(s) \in Nat /\ s \in Seq(Instrs)
      BY StreamSteps
    <3> QED BY <3>1, AppendItem DEF Begins
  <2>4. Marker.addr = 0
    BY DEF Marker, Instr
  <2>1. VectorLaid(s, items, end, evt)
    <3> HIDE DEF r
    <3>1. NoNull(r) => NoNull(s)
      BY <2>3, 1 \in Nat, NoNullBegins
    <3> QED BY <1>1, <1>3, <3>1 DEF r
  <2> HIDE DEF items, end, r
  <2>5. opens => VectorLaid(r, items, end, "open")
    BY <2>1, <2>2, <2>3, <2>4, LaidMarker
  <2>6. closes => VectorLaid(r, items, end, "closed")
    BY <2>1, <2>2, <2>3, <2>4, LaidMarker
  <2>7. VectorLaid(instrs', items, end, evt')
    BY <1>1, <1>3, <2>1, <2>5, <2>6 DEF r
  <2> QED BY <1>1, <2>7, LaidNext DEF items, end
<1>4. (NoNull(instrs)' <=> NoNull(instrs')) /\ (Endless(data[EVT])' <=> Endless(data'[EVT]))
  BY DEF Endless, NoNull
<1> QED BY <1>1, <1>2, <1>3, <1>4

(* A line keeps the invariant.                                             *)
LEMMA RowLines ==
  ASSUME RowInv, TypeInv', LineAction \/ endDirective
  PROVE  RowInv'
<1>0. PlaceInv /\ PlaceInv'
  BY PlaceLines DEF RowInv
<1>1. CASE endDirective
  <2>1. /\ pc = "pass1" /\ pc' = pc /\ UNCHANGED << file, lp, present, data, instrs, evt >>
    BY <1>0, <1>1, EndEffect
  <2>2. (evt # "none" /\ pc \notin {"fatal", "crash"} =>
           present[EVT] \/ (pc # "pass1" /\ Size(EVT) = 0))'
    BY <2>1 DEF RowInv
  <2>3. NoNull(instrs) /\ ~Endless(data[EVT]) => VectorLaid(instrs', data'[EVT], lp'[EVT], evt')
    BY <2>1 DEF RowInv
  <2>4. (NoNull(instrs) /\ ~Endless(data[EVT]) => VectorLaid(instrs, data[EVT], lp[EVT], evt))'
    BY <2>1, <2>3, LaidNext DEF Endless, NoNull
  <2> QED BY <1>0, <2>2, <2>4 DEF RowInv
<1>2. CASE LineAction
  <2>1. /\ pc = "pass1" /\ at <= Len(file.lines)
        /\ Stops \/ QuietLine \/ ItemLine \/ CodeLine
    BY <1>0, <1>2, LineSteps
  <2>2. evt # "none" => present[EVT]
    BY <2>1 DEF RowInv
  <2>3. data' \in [Tables -> Seq(Items)] /\ (evt = "open" <=> active = EVT)
    BY <1>0, <2>1 DEF TypeInv, Types, PlaceInv, VectorInv, VectorOnce
  <2>4. /\ instrs \in Streams /\ Len(instrs) \in Nat /\ data[EVT] \in Seq(Items)
        /\ Len(data[EVT]) \in Nat /\ lp[EVT] \in Int /\ EVT \in Sections
    BY <1>0, PlaceState, LenProperties
  <2>5. CASE Stops
    <3>1. pc' \in {"fatal", "crash"}
      BY <2>5 DEF Stops, Stop
    <3> QED BY <1>0, <3>1 DEF RowInv
  <2>6. CASE QuietLine
    <3>1. PICK a : a = (IF line.op = "section" THEN line.n ELSE active)
      OBVIOUS
    <3>2. EndLine(a, instrs) /\ UNCHANGED << lp, data >>
      BY <2>6, <3>1 DEF QuietLine
    <3>3. (present[EVT] => present'[EVT]) /\ (a = EVT /\ evt = "none" => present'[EVT])
      <4>1. present \in [Sections -> BOOLEAN]
        BY <1>0 DEF PlaceInv, TypeInv, Types
      <4> QED BY <2>3, <2>4, <2>6, <3>1, <4>1 DEF QuietLine
    <3>4. NoNull(instrs) /\ ~Endless(data'[EVT]) => VectorLaid(instrs, data'[EVT], lp'[EVT], evt)
      BY <2>1, <3>2 DEF RowInv
    <3> QED BY <1>0, <2>1, <2>2, <2>3, <2>4, <3>2, <3>3, <3>4, RowLine DEF RowInv
  <2>7. CASE ItemLine
    <3>1. PICK size \in Int : \E width, args, done : AddItem(size, width, args, done)
      BY <2>7 DEF ItemLine
    <3>2. /\ EndLine(active, instrs) /\ present' = present
          /\ \A t \in Sections : lp'[t] = IF t = active THEN lp[t] + size ELSE lp[t]
          /\ \E item :
               /\ item.size = size /\ item.addr = lp[active]
               /\ data'[EVT] = IF active = EVT THEN Append(data[EVT], item) ELSE data[EVT]
          /\ Endless(data[EVT]) => Endless(data'[EVT])
      BY <1>0, <3>1, ItemEffect
    <3>3. PICK item : /\ item.size = size /\ item.addr = lp[active]
                      /\ data'[EVT] = IF active = EVT THEN Append(data[EVT], item) ELSE data[EVT]
      BY <3>2
    <3>4. ASSUME NoNull(instrs), ~Endless(data'[EVT])
          PROVE  VectorLaid(instrs, data'[EVT], lp'[EVT], evt)
      <4>1. VectorLaid(instrs, data[EVT], lp[EVT], evt)
        BY <2>1, <3>2, <3>4 DEF RowInv
      <4>2. lp'[EVT] = IF active = EVT THEN lp[EVT] + size ELSE lp[EVT]
        BY <2>4, <3>2
      <4>3. CASE active = EVT
        <5> DEFINE q == data[EVT]
                   new == Append(q, item)
                   end == lp[EVT]
        <5>1. /\ Len(q) \in Nat /\ Len(new) = Len(q) + 1
              /\ \A d \in 1 .. Len(q) : new[d] = q[d]
              /\ new[Len(q) + 1] = item
          BY <2>4, AppendItem
        <5>2. item.addr = end /\ item.size \in Int /\ item.size = size
          BY <3>3, <4>3
        <5>3. VectorLaid(instrs, q, end, evt)
          BY <4>1
        <5> HIDE DEF q, new, end
        <5>4. VectorLaid(instrs, new, end + size, evt)
          BY <5>1, <5>2, <5>3, LaidItem
        <5> QED BY <3>3, <4>2, <4>3, <5>4 DEF q, new, end
      <4>4. CASE active # EVT
        BY <3>3, <4>1, <4>2, <4>4
      <4> QED BY <4>3, <4>4
    <3>5. active = EVT /\ evt = "none" => present'[EVT]
      BY <2>3
    <3> QED BY <1>0, <2>1, <2>2, <2>3, <2>4, <3>2, <3>4, <3>5, RowLine DEF RowInv
  <2>8. CASE CodeLine
    <3>1. PICK s : \E new \in Seq(Plain), extra \in Nat :
                     /\ IsInstr(at) /\ ~Misplaced
                     /\ AddInstrs(s, new, extra) /\ Behind(new, extra)
      BY <2>8 DEF CodeLine
    <3>2. PICK new \in Seq(Plain), extra \in Nat :
                     /\ IsInstr(at) /\ ~Misplaced
                     /\ AddInstrs(s, new, extra) /\ Behind(new, extra)
      BY <3>1
    <3> DEFINE r == instrs \o new
    <3>3. /\ EndLine(active, r) /\ data' = data /\ present' = present
          /\ active = SectionAt(at)
          /\ lp'[EVT] = IF active = EVT THEN lp[EVT] + 4 * Len(new) ELSE lp[EVT]
          /\ active = EVT /\ ~Endless(data[EVT]) => \A k \in 1 .. Len(new) : new[k].addr > 0
      BY <1>0, <2>1, <3>2, CodeEffect
    <3>4. r \in Streams
      BY <2>4, <3>2, StreamGrows
    <3>5. ASSUME NoNull(r), ~Endless(data'[EVT])
          PROVE  VectorLaid(r, data'[EVT], lp'[EVT], evt)
      <4> DEFINE q == instrs
                 items == data[EVT]
                 end == lp[EVT]
                 L == Len(new)
      <4>2. L \in Nat /\ Len(q) \in Nat /\ Len(r) = Len(q) + L /\ Begins(q, r)
            /\ \A k \in 1 .. L : r[Len(q) + k] = new[k]
        <5>1. q \in Seq(Instrs) /\ new \in Seq(Plain)
          BY <2>4, StreamSteps
        <5>2. Len(q) \in Nat /\ L \in Nat
          BY <5>1, LenProperties
        <5> HIDE DEF L
        <5> QED BY <5>1, <5>2 DEF L, Begins
      <4>1. VectorLaid(q, items, end, evt) /\ Len(items) \in Nat /\ end \in Int
        <5>1. NoNull(q)
          <6> HIDE DEF q, r, L
          <6> QED BY <3>5, <4>2, NoNullBegins
        <5> QED BY <2>1, <2>4, <3>3, <3>5, <5>1 DEF RowInv
      <4>6. \A k \in 1 .. L : r[Len(q) + k].addr # 0 /\ (active = EVT => r[Len(q) + k].addr > 0)
        <5>1. TAKE k \in 1 .. L
        <5>2. Len(q) + k \in 1 .. Len(r) /\ r[Len(q) + k] = new[k]
          BY <4>2
        <5>3. new[k].kind # "marker"
          BY <3>2 DEF Plain
        <5> HIDE DEF q, L
        <5> QED BY <3>3, <3>5, <5>2, <5>3 DEF NoNull, L
      <4>3. \A k \in 1 .. L : /\ SectionAt(r[Len(q) + k].line) = active
                              /\ Ahead(r, Len(q) + k) = lp[active] + 4 * (k - 1)
        <5>1. TAKE k \in 1 .. L
        <5>2. new[k].line = at /\ r[Len(q) + k] = new[k]
          BY <3>2, <4>2 DEF Behind
        <5>3. new[k].addr = lp[active] + 4 * (k - 1) + Late(new[k])
          BY <3>2 DEF Behind
        <5>4. lp[active] \in Int /\ Late(new[k]) \in Int /\ k \in Int
          BY <1>0, PlaceState DEF Late
        <5> DEFINE x == lp[active]
                   b == Late(new[k])
        <5>5. Ahead(r, Len(q) + k) = new[k].addr - b
          BY <5>2 DEF Ahead
        <5> HIDE DEF x, b
        <5>6. Ahead(r, Len(q) + k) = x + 4 * (k - 1)
          BY <5>3, <5>4, <5>5 DEF x, b
        <5> QED BY <3>3, <5>2, <5>6 DEF x
      <4> HIDE DEF q, items, end, L, r
      <4>4. CASE active = EVT
        <5>1. evt = "open" /\ VectorLaid(q, items, end, "open")
          BY <2>3, <4>1, <4>4
        <5>2. \A k \in 1 .. L : /\ r[Len(q) + k].addr > 0
                                /\ SectionAt(r[Len(q) + k].line) = EVT
                                /\ Ahead(r, Len(q) + k) = end + 4 * (k - 1)
          BY <4>3, <4>4, <4>6 DEF end
        <5>3. VectorLaid(r, items, end + 4 * L, "open")
          BY <4>1, <4>2, <5>1, <5>2, LaidInside
        <5> QED BY <3>3, <4>4, <5>1, <5>3 DEF items, end, L
      <4>5. CASE active # EVT
        <5>1. evt \in {"none", "closed"}
          BY <1>0, <2>3, <4>5, PlaceState
        <5>2. \A k \in 1 .. L : r[Len(q) + k].addr # 0 /\ SectionAt(r[Len(q) + k].line) # EVT
          BY <4>3, <4>5, <4>6
        <5>3. VectorLaid(r, items, end, evt)
          BY <4>1, <4>2, <5>1, <5>2, LaidOutside
        <5> QED BY <3>3, <4>5, <5>3 DEF items, end
      <4> QED BY <4>4, <4>5
    <3>6. active = EVT /\ evt = "none" => present'[EVT]
      BY <2>3
    <3> HIDE DEF r
    <3> QED BY <1>0, <2>1, <2>2, <2>3, <3>3, <3>4, <3>5, <3>6, RowLine DEF RowInv
  <2> QED BY <2>1, <2>5, <2>6, <2>7, <2>8
<1> QED BY <1>1, <1>2

(* The first pass ends. *)
LEMMA RowEnd ==
  ASSUME RowInv, TypeInv', EndOfFile
  PROVE  RowInv'
<1>0. PlaceInv /\ PlaceInv'
  BY PlaceEnd DEF RowInv
<1>1. /\ pc = "pass1" /\ UNCHANGED << file, lp, data >> /\ instrs' = Closed
      /\ evt' = IF evt = "open" THEN "closed" ELSE evt
      /\ present' = [s \in Sections |-> present[s] /\ Size(s) # 0]
      /\ pc' \in {"resolve", "fatal"}
  BY DEF EndOfFile
<1>2. (evt # "none" /\ pc \notin {"fatal", "crash"} =>
         present[EVT] \/ (pc # "pass1" /\ Size(EVT) = 0))'
  <2>1. evt' # "none" => present[EVT]
    BY <1>1 DEF RowInv
  <2>2. present'[EVT] = (present[EVT] /\ Size(EVT) # 0)
    BY <1>1, SectionNumbers
  <2>3. Size(EVT)' = Size(EVT)
    BY <1>1 DEF Size
  <2> QED BY <1>1, <2>1, <2>2, <2>3
<1>3. ASSUME NoNull(instrs'), ~Endless(data[EVT])
      PROVE  VectorLaid(instrs, data[EVT], lp[EVT], evt)'
  <2> DEFINE q == instrs
             items == data[EVT]
             end == lp[EVT]
             r == Append(q, Marker)
  <2>2. Len(items) \in Nat
    BY <1>0, PlaceState, LenProperties
  <2>3. Len(q) \in Nat /\ Len(r) = Len(q) + 1 /\ Begins(q, r) /\ r[Len(q) + 1] = Marker
    <3>1. q \in Seq(Instrs)
      BY <1>0, PlaceState, StreamSteps
    <3> QED BY <3>1, AppendItem DEF Begins
  <2>4. Marker.addr = 0
    BY DEF Marker, Instr
  <2>1. VectorLaid(q, items, end, evt)
    <3> HIDE DEF r, q
    <3>1. NoNull(r) => NoNull(q)
      BY <2>3, 1 \in Nat, NoNullBegins
    <3> QED BY <1>1, <1>3, <3>1 DEF RowInv, Closed, r, q
  <2> HIDE DEF items, end, r, q
  <2>5. evt = "open" => VectorLaid(r, items, end, "closed")
    BY <2>1, <2>2, <2>3, <2>4, LaidMarker
  <2>6. VectorLaid(instrs', items, end, evt')
    BY <1>1, <2>1, <2>5 DEF r, q, Closed
  <2> QED BY <1>1, <2>6, LaidNext DEF items, end
<1>4. (NoNull(instrs)' <=> NoNull(instrs')) /\ (Endless(data[EVT])' <=> Endless(data[EVT]))
  BY <1>1 DEF Endless, NoNull
<1> QED BY <1>0, <1>2, <1>3, <1>4 DEF RowInv

(* A step that changes neither sections nor what the layout depends on. *)
LEMMA RowSteady ==
  ASSUME RowInv, PlaceInv', UNCHANGED << file, lp, evt, present >>, pc # "pass1" => pc' # "pass1",
         pc' \notin {"fatal", "crash"} => pc \notin {"fatal", "crash"},
         Endless(data'[EVT]) <=> Endless(data[EVT]), Alike(instrs, instrs'),
         SameItems(data[EVT], data'[EVT])
  PROVE  RowInv'
<1>1. (evt # "none" /\ pc \notin {"fatal", "crash"} =>
         present[EVT] \/ (pc # "pass1" /\ Size(EVT) = 0))'
  <2>1. Size(EVT)' = Size(EVT)
    BY DEF Size
  <2> QED BY <2>1 DEF RowInv
<1>2. ASSUME NoNull(instrs), ~Endless(data[EVT]), pc \notin {"fatal", "crash"}
      PROVE  VectorLaid(instrs, data[EVT], lp[EVT], evt)'
  <2> DEFINE q == instrs
             items == data[EVT]
             end == lp[EVT]
             r == instrs'
             new == data'[EVT]
  <2>1. VectorLaid(q, items, end, evt) /\ Alike(q, r) /\ SameItems(items, new)
    BY <1>2 DEF RowInv
  <2>2. Len(q) \in Nat /\ Len(items) \in Nat
    BY PlaceState, LenProperties DEF RowInv
  <2> HIDE DEF q, items, end, r, new
  <2>3. VectorLaid(r, new, end, evt)
    BY <2>1, <2>2, LaidAlike DEF SameItems
  <2> QED BY <2>3, LaidNext DEF r, new, end
<1>3. (NoNull(instrs)' <=> NoNull(instrs)) /\ (Endless(data[EVT])' <=> Endless(data[EVT]))
  BY NoNullAlike DEF Endless, NoNull
<1> QED BY <1>1, <1>2, <1>3 DEF RowInv

(* Every step keeps it.                                                    *)
LEMMA RowNext == RowInv /\ [Next]_vars => RowInv'
<1> SUFFICES ASSUME RowInv, [Next]_vars PROVE RowInv'
  OBVIOUS
<1>1. PlaceInv /\ PlaceInv' /\ TypeInv'
  BY PlaceNext DEF RowInv, PlaceInv
<1>2. Alike(instrs, instrs) /\ SameItems(data[EVT], data[EVT])
  BY DEF Alike, SameItems
<1>3. CASE UNCHANGED vars
  BY <1>1, <1>2, <1>3, RowSteady DEF vars, tables
<1>4. CASE Reuse
  <2>1. /\ pc' = pc /\ UNCHANGED << file, lp, present, data, instrs, evt >>
    BY <1>4 DEF Reuse
  <2> QED BY <1>1, <1>2, <2>1, RowSteady
<1>5. CASE resolveSymbols
  <2>1. /\ pc = "resolve" /\ pc' \in {"resolve", "complete", "fatal", "crash"}
        /\ UNCHANGED << file, lp, present, data, instrs, evt >>
    BY <1>5 DEF resolveSymbols, Round
  <2> QED BY <1>1, <1>2, <2>1, RowSteady
<1>6. CASE completeData
  <2>1. /\ pc = "complete" /\ pc' \in {"complete", "encode", "fatal", "crash"}
        /\ UNCHANGED << file, lp, present, instrs, evt >>
    BY <1>6, CompleteEffect
  <2>2. (Endless(data'[EVT]) <=> Endless(data[EVT])) /\ SameItems(data[EVT], data'[EVT])
    BY <1>1, <1>6, SizesKept, ItemsKept DEF PlaceInv, Endless
  <2> QED BY <1>1, <1>2, <2>1, <2>2, RowSteady
<1>7. CASE encode
  <2>1. /\ pc = "encode" /\ pc' \in {"encode", "generate", "fatal", "crash"}
        /\ UNCHANGED << file, lp, present, data, evt >>
    BY <1>7 DEF encode
  <2>2. Alike(instrs, instrs')
    BY <1>1, <1>7, AlikeEncoded DEF PlaceInv
  <2> QED BY <1>1, <1>2, <2>1, <2>2, RowSteady
<1>8. CASE Generate
  <2>1. /\ pc = "generate" /\ pc' \in {"written", "crash"}
        /\ UNCHANGED << file, lp, present, data, instrs, evt >>
    BY <1>8, Zenon DEF Generate, tables
  <2> QED BY <1>1, <1>2, <2>1, RowSteady
<1> QED
  BY <1>1, <1>3, <1>4, <1>5, <1>6, <1>7, <1>8, RowLines, RowEnd DEF Next, Exited, LineAction

(* The invariant holds at first.                                           *)
LEMMA RowInit == Init => RowInv
<1> SUFFICES ASSUME Init PROVE RowInv
  OBVIOUS
<1>1. PlaceInv
  BY PlaceInit
<1>2. evt = "none" /\ instrs = << >> /\ Len(instrs) = 0 /\ data[EVT] = << >> /\ Len(data[EVT]) = 0
  BY SectionNumbers DEF Init
<1> DEFINE start == Starts[file.kern][EVT]
<1>3. lp[EVT] = start /\ start \in Int
  BY <1>1, PlaceState DEF Init
<1>4. Row(instrs, 1, 0, data[EVT], start, start)
  <2> DEFINE c == [n \in 0 .. 0 |-> 0]
             z == [n \in 0 .. 0 |-> start]
  <2>1. c \in [0 .. 0 -> Nat] /\ z \in [0 .. 0 -> Int] /\ c[0] = 0 /\ z[0] = start
    BY <1>3
  <2> HIDE DEF c, z, start
  <2>2. InOrder(instrs, 1, 0, data[EVT], 0, start, start, c, z)
    BY <2>1 DEF InOrder
  <2> QED BY <1>2, <2>2 DEF Row
<1>5. Around(instrs, 1, 0, evt)
  BY <1>2 DEF Around
<1>6. VectorLaid(instrs, data[EVT], lp[EVT], evt)
  BY <1>3, <1>4, <1>5 DEF VectorLaid
<1> QED BY <1>1, <1>2, <1>6 DEF RowInv

(* What is still to come behind the first n pieces is not in front of      *)
(* their end.                                                              *)
Later(q, m, K, items, N, end, c, z, n) ==
  /\ z[n] <= end
  /\ c[n] < K => Ahead(q, m + (c[n] + 1)) \in Int /\ Ahead(q, m + (c[n] + 1)) >= z[n]
  /\ n - c[n] < N => /\ items[n - c[n] + 1].addr \in Int
                     /\ items[n - c[n] + 1].addr >= z[n]

(* By induction from the end of the row.                                   *)
LEMMA RowOrder ==
  ASSUME NEW q, NEW m \in Nat, NEW K \in Nat, NEW items, NEW N \in Nat, NEW start, NEW end,
         NEW c, NEW z, InOrder(q, m, K, items, N, start, end, c, z),
         \A d \in 1 .. N : items[d].size \in Nat, NEW n \in 0 .. K + N
  PROVE  Later(q, m, K, items, N, end, c, z, n)
<1> DEFINE T == K + N
           L(i) == Later(q, m, K, items, N, end, c, z, i)
           D == {j \in 0 .. T : L(T - j)}
<1>1. T \in Nat /\ T = K + N
  OBVIOUS
<1>2. /\ c[K + N] = K /\ z[K + N] = end
      /\ c \in [0 .. K + N -> Nat] /\ z \in [0 .. K + N -> Int]
  BY DEF InOrder
<1>3. end \in Int
  <2>1. T \in 0 .. T /\ z \in [0 .. T -> Int] /\ z[T] = end
    BY <1>1, <1>2
  <2> HIDE DEF T
  <2> QED BY <2>1
<1>4. L(T)
  <2>1. T - c[T] = N /\ ~(c[T] < K) /\ ~(N < N)
    BY <1>2
  <2> QED BY <1>2, <1>3, <2>1 DEF Later
<1>5. ASSUME NEW i \in 1 .. T, L(i) PROVE L(i - 1)
  <2>1. /\ i \in 0 .. K + N /\ i - 1 \in 0 .. K + N /\ c[i] \in Nat /\ c[i - 1] \in Nat
        /\ z[i] \in Int /\ z[i - 1] \in Int
        /\ CodePiece(q, m, c, z, i) => c[i] \in 1 .. K
        /\ ItemPiece(items, c, z, i) => i - c[i] \in 1 .. N
    BY PieceRange
  <2>2. CodePiece(q, m, c, z, i) \/ ItemPiece(items, c, z, i)
    BY DEF InOrder
  <2>3. /\ z[i] <= end
        /\ c[i] < K => Ahead(q, m + (c[i] + 1)) \in Int /\ Ahead(q, m + (c[i] + 1)) >= z[i]
        /\ i - c[i] < N => items[i - c[i] + 1].addr \in Int /\ items[i - c[i] + 1].addr >= z[i]
    BY <1>5 DEF Later
  <2> HIDE DEF T, L, D
  <2>4. CASE CodePiece(q, m, c, z, i)
    <3>1. c[i] = c[i - 1] + 1 /\ z[i] = z[i - 1] + 4 /\ Ahead(q, m + c[i]) = z[i - 1]
      BY <2>4 DEF CodePiece
    <3>2. i - c[i] = (i - 1) - c[i - 1]
      BY <2>1, <3>1
    <3>3. z[i - 1] <= end /\ z[i] >= z[i - 1]
      BY <1>3, <2>1, <2>3, <3>1
    <3>4. (i - 1) - c[i - 1] < N => /\ items[(i - 1) - c[i - 1] + 1].addr \in Int
                                    /\ items[(i - 1) - c[i - 1] + 1].addr >= z[i - 1]
      <4> DEFINE x == items[i - c[i] + 1].addr
      <4>1. i - c[i] < N => x \in Int /\ x >= z[i]
        BY <2>3
      <4>2. x = items[(i - 1) - c[i - 1] + 1].addr
        BY <3>2
      <4> HIDE DEF x
      <4>3. i - c[i] < N => x \in Int /\ x >= z[i - 1]
        BY <2>1, <3>3, <4>1
      <4> QED BY <3>2, <4>2, <4>3
    <3>5. Ahead(q, m + (c[i - 1] + 1)) \in Int /\ Ahead(q, m + (c[i - 1] + 1)) >= z[i - 1]
      BY <2>1, <3>1
    <3> QED BY <3>3, <3>4, <3>5 DEF Later, L
  <2>5. CASE ItemPiece(items, c, z, i)
    <3>1. /\ c[i] = c[i - 1] /\ z[i] = z[i - 1] + items[i - c[i]].size
          /\ items[i - c[i]].addr = z[i - 1]
      BY <2>5 DEF ItemPiece
    <3>2. items[i - c[i]].size \in Nat /\ (i - 1) - c[i - 1] + 1 = i - c[i]
      BY <2>1, <2>5, <3>1
    <3>3. z[i - 1] <= end /\ z[i] >= z[i - 1]
      <4> DEFINE s == items[i - c[i]].size
      <4>1. s \in Nat /\ z[i] = z[i - 1] + s
        BY <3>1, <3>2
      <4> HIDE DEF s
      <4> QED BY <1>3, <2>1, <2>3, <4>1
    <3>4. c[i - 1] < K => /\ Ahead(q, m + (c[i - 1] + 1)) \in Int
                          /\ Ahead(q, m + (c[i - 1] + 1)) >= z[i - 1]
      <4> DEFINE x == Ahead(q, m + (c[i] + 1))
      <4>1. c[i] < K => x \in Int /\ x >= z[i]
        BY <2>3
      <4>2. x = Ahead(q, m + (c[i - 1] + 1))
        BY <3>1
      <4> HIDE DEF x
      <4>3. c[i] < K => x \in Int /\ x >= z[i - 1]
        BY <2>1, <3>3, <4>1
      <4> QED BY <3>1, <4>2, <4>3
    <3>5. items[(i - 1) - c[i - 1] + 1].addr = z[i - 1]
      BY <3>1, <3>2
    <3> QED BY <2>1, <3>3, <3>4, <3>5 DEF Later, L
  <2> QED BY <2>2, <2>4, <2>5
<1>6. 0 \in D
  <2>1. 0 \in 0 .. T /\ T - 0 = T
    BY <1>1
  <2> HIDE DEF T, L
  <2> QED BY <1>4, <2>1
<1>7. ASSUME NEW j \in 0 .. T - 1, j \in D PROVE j + 1 \in D
  <2> HIDE DEF T, L
  <2>1. T - j \in 1 .. T /\ (T - j) - 1 = T - (j + 1) /\ j + 1 \in 0 .. T
    BY <1>1
  <2>2. L(T - j)
    BY <1>7
  <2>3. L((T - j) - 1)
    BY <1>5, <2>1, <2>2
  <2> QED BY <2>1, <2>3
<1>8. 0 .. T \subseteq D
  <2> HIDE DEF T, L, D
  <2> QED BY <1>1, <1>6, <1>7, BoundedInduction
<1>9. T - n \in D /\ T - (T - n) = n
  <2>1. T - n \in 0 .. T /\ T - (T - n) = n
    BY <1>1
  <2> HIDE DEF D
  <2> QED BY <1>8, <2>1
<1>10. L(n)
  <2> HIDE DEF L
  <2> QED BY <1>9
<1> QED BY <1>10

(* Bytes behind others. *)
Grown(b, s, i, size, r) ==
  /\ Len(b) \in Nat /\ Len(r) = Len(b) + size
  /\ \A k \in 1 .. Len(b) : r[k] = b[k]
  /\ \A k \in 1 .. size : r[Len(b) + k] = << s, i, k >>

(* Nothing in front of them changes.                                       *)
LEMMA BytesGrow ==
  ASSUME NEW b \in Seq(VectorByte), NEW s \in {EVT, TEXT}, NEW i \in Nat, NEW size \in Nat
  PROVE  Grown(b, s, i, size, b \o ItemBytes(s, i, size))
<1> DEFINE e == ItemBytes(s, i, size)
           r == b \o e
<1>1. e \in Seq(VectorByte)
  <2>1. s \in {TEXT, EVT} /\ size \in Int
    OBVIOUS
  <2> QED BY <2>1, BytesType
<1>2. Len(e) = size /\ \A k \in 1 .. size : e[k] = << s, i, k >>
  BY ItemPlaces
<1>3. Len(b) \in Nat
  BY LenProperties
<1> HIDE DEF e
<1>4. /\ Len(r) = Len(b) + Len(e)
      /\ \A k \in 1 .. Len(b) : r[k] = b[k]
      /\ \A k \in 1 .. Len(e) : r[Len(b) + k] = e[k]
  BY <1>1, <1>3
<1> HIDE DEF r
<1>5. /\ Len(r) = Len(b) + size
      /\ \A k \in 1 .. Len(b) : r[k] = b[k]
      /\ \A k \in 1 .. size : r[Len(b) + k] = << s, i, k >>
  BY <1>2, <1>4
<1>6. Grown(b, s, i, size, r)
  BY <1>3, <1>5 DEF Grown
<1> QED BY <1>6 DEF r, e

(* The bytes of s and i are behind a place of b. *)
PieceAt(b, o, s, i, size) ==
  \A k \in 1 .. size : o + k \in 1 .. Len(b) /\ b[o + k] = << s, i, k >>

(* A piece that is written is there, and so are those that were.           *)
LEMMA PieceAdded ==
  ASSUME NEW b \in Seq(VectorByte), NEW s \in {EVT, TEXT}, NEW i \in Nat, NEW size \in Nat
  PROVE  /\ Len(b \o ItemBytes(s, i, size)) = Len(b) + size
         /\ PieceAt(b \o ItemBytes(s, i, size), Len(b), s, i, size)
         /\ \A o, t, j, n : PieceAt(b, o, t, j, n) => PieceAt(b \o ItemBytes(s, i, size), o, t, j, n)
<1> DEFINE r == b \o ItemBytes(s, i, size)
<1>0. Grown(b, s, i, size, r)
  BY BytesGrow
<1> HIDE DEF r
<1>1. /\ Len(b) \in Nat /\ Len(r) = Len(b) + size
      /\ \A k \in 1 .. Len(b) : r[k] = b[k]
      /\ \A k \in 1 .. size : r[Len(b) + k] = << s, i, k >>
  BY <1>0 DEF Grown
<1>2. \A k \in 1 .. size : Len(b) + k \in 1 .. Len(r)
  BY <1>1
<1>3. PieceAt(r, Len(b), s, i, size)
  BY <1>1, <1>2 DEF PieceAt
<1>4. ASSUME NEW o, NEW t, NEW j, NEW n, PieceAt(b, o, t, j, n) PROVE PieceAt(r, o, t, j, n)
  <2> SUFFICES ASSUME NEW k \in 1 .. n
               PROVE  o + k \in 1 .. Len(r) /\ r[o + k] = << t, j, k >>
    BY DEF PieceAt
  <2>1. o + k \in 1 .. Len(b) /\ b[o + k] = << t, j, k >>
    BY <1>4 DEF PieceAt
  <2> DEFINE p == o + k
  <2> HIDE DEF p
  <2>2. p \in 1 .. Len(r)
    BY <1>1, <2>1 DEF p
  <2> QED BY <1>1, <2>1, <2>2 DEF p
<1> QED BY <1>1, <1>3, <1>4 DEF r

(* What VectorWhole says of the row.                                       *)
Whole(q, m, K, items, N, end) ==
  /\ m + K < Len(q) /\ q[m + K + 1].addr = 0
  /\ \A k \in 1 .. K : q[m + k].addr > 0
  /\ \E d \in 1 .. N : items[d].size > 0 /\ items[d].addr + items[d].size = end
  /\ \A k \in 1 .. K, d \in 1 .. N :
       Late(q[m + k]) # 0 => items[d].addr \notin q[m + k].addr - 20 .. q[m + k].addr

(* The merge has written the first n pieces.                               *)
Merged(q, m, K, items, start, c, z, n, g) ==
  /\ g.i = m + 1 + c[n] /\ g.d = 1 + n - c[n] /\ ~g.crash /\ (g.ended <=> c[n] = K)
  /\ Len(g.bytes) = z[n] - start
  /\ \A d \in 1 .. n - c[n] : PieceAt(g.bytes, items[d].addr - start, EVT, d, items[d].size)
  /\ \A j \in 1 .. c[n] : PieceAt(g.bytes, Ahead(q, m + j) - start, TEXT, m + j, 4)

(* There is an item left as long as there is an instruction left.          *)
LEMMA ItemLeft ==
  ASSUME NEW q \in Seq(Instrs), NEW m \in Nat, NEW K \in Nat, NEW items \in Seq(Items),
         NEW N \in Nat, N = Len(items), NEW start \in Int, NEW end \in Int, NEW c, NEW z,
         InOrder(q, m, K, items, N, start, end, c, z), \A d \in 1 .. N : items[d].size \in Nat,
         Whole(q, m, K, items, N, end), NEW n \in 1 .. K + N, NEW g \in Merges,
         Merged(q, m, K, items, start, c, z, n - 1, g)
  PROVE  g.d \in 1 .. N
<1>1. /\ n \in 0 .. K + N /\ n - 1 \in 0 .. K + N /\ c[n] \in Nat /\ c[n - 1] \in Nat
      /\ z[n] \in Int /\ z[n - 1] \in Int
      /\ CodePiece(q, m, c, z, n) => c[n] \in 1 .. K
      /\ ItemPiece(items, c, z, n) => n - c[n] \in 1 .. N
  BY PieceRange
<1>2. CodePiece(q, m, c, z, n) \/ ItemPiece(items, c, z, n)
  BY DEF InOrder
<1>3. g.d = n - c[n - 1]
  BY <1>1, SMTT(30) DEF Merged
<1>4. CASE ItemPiece(items, c, z, n)
  BY <1>1, <1>3, <1>4 DEF ItemPiece
<1>5. CASE CodePiece(q, m, c, z, n)
  <2>1. (n - 1) - c[n - 1] \in 0 .. N
    BY <1>1 DEF InOrder
  <2>2. ASSUME (n - 1) - c[n - 1] = N PROVE FALSE
    <3>1. PICK d \in 1 .. N : items[d].size > 0 /\ items[d].addr + items[d].size = end
      BY DEF Whole
    <3> DEFINE a == items[d].addr
               k == items[d].size
    <3>2. k \in 1 .. k /\ k \in Nat /\ a + k = end
      BY <3>1, SMTT(30)
    <3>3. a \in Int
      <4>1. items[d] \in Items
        BY <3>1, ElementOfSeq
      <4> QED BY <4>1 DEF Items
    <3>4. PieceAt(g.bytes, a - start, EVT, d, k) /\ Len(g.bytes) = z[n - 1] - start
      BY <2>2 DEF Merged
    <3> HIDE DEF a, k
    <3>5. a - start + k \in 1 .. (z[n - 1] - start)
      BY <3>2, <3>4 DEF PieceAt
    <3>6. end <= z[n - 1]
      BY <1>1, <3>2, <3>3, <3>5, SMTT(30)
    <3>7. z[n] <= end
      <4>1. Later(q, m, K, items, N, end, c, z, n)
        BY <1>1, RowOrder
      <4> QED BY <4>1 DEF Later
    <3>8. z[n] = z[n - 1] + 4
      BY <1>5 DEF CodePiece
    <3> QED BY <1>1, <3>6, <3>7, <3>8, SMTT(30)
  <2> DEFINE x == c[n - 1]
  <2>3. x \in Nat /\ g.d = n - x /\ (n - 1) - x \in 0 .. N /\ (n - 1) - x # N
    BY <1>1, <1>3, <2>1, <2>2
  <2> HIDE DEF x
  <2> QED BY <2>3, SMTT(30)
<1> QED BY <1>2, <1>4, <1>5

(* The fields of the merge after a round.                                  *)
CodeAdded(g, i, e, b) == [g EXCEPT !.i = i, !.ended = e, !.bytes = b]

(* The fields of the merge after an instruction.                           *)
LEMMA CodeChanges ==
  ASSUME NEW g \in Merges, NEW i, NEW e, NEW b
  PROVE  CodeAdded(g, i, e, b)
           = [i |-> i, d |-> g.d, ended |-> e, crash |-> g.crash, bytes |-> b]
<1> DEFINE h == [g EXCEPT !.i = i, !.ended = e, !.bytes = b]
<1>1. DOMAIN g = {"i", "d", "ended", "crash", "bytes"}
  BY DEF Merges
<1>2. h = [x \in {"i", "d", "ended", "crash", "bytes"} |-> h[x]]
  BY <1>1
<1>3. h.i = i /\ h.d = g.d /\ h.ended = e /\ h.crash = g.crash /\ h.bytes = b
  BY <1>1
<1> HIDE DEF h
<1>4. h = [i |-> i, d |-> g.d, ended |-> e, crash |-> g.crash, bytes |-> b]
  BY <1>2, <1>3
<1> QED BY <1>4 DEF h, CodeAdded

(* The fields of the merge after an item.                                  *)
LEMMA ItemChanges ==
  ASSUME NEW g \in Merges, NEW d, NEW b
  PROVE  [g EXCEPT !.d = d, !.bytes = b]
           = [i |-> g.i, d |-> d, ended |-> g.ended, crash |-> g.crash, bytes |-> b]
<1> DEFINE h == [g EXCEPT !.d = d, !.bytes = b]
<1>1. DOMAIN g = {"i", "d", "ended", "crash", "bytes"}
  BY DEF Merges
<1>2. h = [x \in {"i", "d", "ended", "crash", "bytes"} |-> h[x]]
  BY <1>1
<1>3. h.i = g.i /\ h.d = d /\ h.ended = g.ended /\ h.crash = g.crash /\ h.bytes = b
  BY <1>1
<1> HIDE DEF h
<1>4. h = [i |-> g.i, d |-> d, ended |-> g.ended, crash |-> g.crash, bytes |-> b]
  BY <1>2, <1>3
<1> QED BY <1>4 DEF h

(* The next piece is an instruction: it is written.                        *)
LEMMA MergeCode ==
  ASSUME NEW q \in Seq(Instrs), NEW m \in Nat, NEW K \in Nat, NEW items \in Seq(Items),
         NEW N \in Nat, N = Len(items), NEW start \in Int, NEW end \in Int, NEW c, NEW z,
         InOrder(q, m, K, items, N, start, end, c, z), \A d \in 1 .. N : items[d].size \in Nat,
         Whole(q, m, K, items, N, end), NEW n \in 1 .. K + N, NEW g \in Merges,
         Merged(q, m, K, items, start, c, z, n - 1, g), CodePiece(q, m, c, z, n)
  PROVE  Merged(q, m, K, items, start, c, z, n, MergeRound(q, items, g))
<1> DEFINE j == c[n]
           p == c[n - 1]
           w == z[n - 1]
           stop == z[n]
           x == q[m + j].addr
           late == Late(q[m + j])
           y == items[g.d].addr
           b == g.bytes \o WordBytes(m + j)
           h == [i |-> m + j + 1, d |-> g.d, ended |-> q[m + j + 1].addr = 0,
                 crash |-> g.crash, bytes |-> b]
<1>0. n \in Nat /\ n >= 1 /\ m \in Nat /\ K \in Nat /\ N \in Nat /\ start \in Int
  OBVIOUS
<1>1. /\ n \in 0 .. K + N /\ j \in 1 .. K /\ p \in Nat /\ w \in Int /\ stop \in Int
      /\ j = p + 1 /\ stop = w + 4
  BY PieceRange DEF CodePiece
<1>x. x - late = w /\ Ahead(q, m + j) = w
  BY DEF CodePiece, Ahead
<1>2. /\ g.i = m + 1 + p /\ g.d = 1 + (n - 1) - p /\ ~g.crash
      /\ (g.ended <=> p = K) /\ Len(g.bytes) = w - start
      /\ \A d \in 1 .. (n - 1) - p : PieceAt(g.bytes, items[d].addr - start, EVT, d, items[d].size)
      /\ \A l \in 1 .. p : PieceAt(g.bytes, Ahead(q, m + l) - start, TEXT, m + l, 4)
  BY DEF Merged
<1>3. g.d \in 1 .. N
  BY ItemLeft
<1>4. /\ g.bytes \in Seq(VectorByte) /\ g = [i |-> g.i, d |-> g.d, ended |-> g.ended,
                                              crash |-> g.crash, bytes |-> g.bytes]
  BY DEF Merges
<1>5. n - j + 1 = g.d => items[g.d].addr >= stop
  <2>1. Later(q, m, K, items, N, end, c, z, n)
    BY <1>1, RowOrder
  <2>2. n - j < N => items[n - j + 1].addr >= stop
    BY <2>1 DEF Later
  <2>3. n - j + 1 = g.d => n - j < N
    <3>1. j \in Int
      BY <1>1
    <3> DEFINE d == g.d
    <3>2. d \in 1 .. N
      BY <1>3
    <3> HIDE DEF j, d
    <3>3. n - j + 1 = d => n - j < N
      BY ONLY <1>0, <3>1, <3>2
    <3> QED BY <3>3 DEF d
  <2> QED BY <2>2, <2>3
<1>6. /\ Merged(q, m, K, items, start, c, z, n, h) <=>
           /\ h.i = m + 1 + j /\ h.d = 1 + n - j /\ ~h.crash /\ (h.ended <=> j = K)
           /\ Len(h.bytes) = stop - start
           /\ \A d \in 1 .. n - j : PieceAt(h.bytes, items[d].addr - start, EVT, d, items[d].size)
           /\ \A l \in 1 .. j : PieceAt(h.bytes, Ahead(q, m + l) - start, TEXT, m + l, 4)
  <2> HIDE DEF h
  <2> QED BY DEF Merged
<1> HIDE DEF j, p, w, stop
<1>7. g.i = m + j /\ g.d = 1 + n - j /\ n - j + 1 = g.d /\ ~g.ended
  <2>1. /\ m + 1 + p = m + j /\ 1 + (n - 1) - p = 1 + n - j /\ n - j + 1 = 1 + n - j
        /\ p # K
    BY ONLY <1>0, <1>1
  <2> QED BY <1>2, <2>1
<1>8. x \in Int /\ y \in Int /\ m + j \in 1 .. Len(q) /\ m + j < Len(q)
  <2>1. Len(q) \in Nat /\ m + K < Len(q)
    BY LenProperties DEF Whole
  <2>2. m + j \in 1 .. Len(q) /\ m + j < Len(q)
    <3> DEFINE l == Len(q)
    <3>1. l \in Nat /\ m + K < l
      BY <2>1
    <3> HIDE DEF l
    <3>2. m + j \in 1 .. l /\ m + j < l
      BY ONLY <1>0, <1>1, <3>1
    <3> QED BY <3>2 DEF l
  <2>3. q[m + j] \in Instrs /\ items[g.d] \in Items
    BY <1>3, <2>2, ElementOfSeq
  <2> QED BY <2>2, <2>3 DEF Instrs, Items
<1>9. x < y
  <2>1. y >= stop
    BY <1>5, <1>7
  <2>2. late # 0 => y \notin x - 20 .. x
    BY <1>1, <1>3 DEF Whole
  <2>3. late \in {0, 20}
    BY DEF Late
  <2> HIDE DEF late, x, y
  <2> QED BY <1>1, <1>x, <1>8, <2>1, <2>2, <2>3
<1>10. MergeRound(q, items, g) = h
  <2>1. ~(g.d > Len(items)) /\ ~(g.i >= Len(q)) /\ Before(q[g.i].addr, items[g.d].addr)
    <3>1. Len(q) \in Nat
      BY LenProperties
    <3>2. ~(g.i >= Len(q))
      BY <1>1, <1>7, <1>8, <3>1
    <3>3. ~(g.d > Len(items))
      BY <1>3
    <3> QED BY <1>7, <1>9, <3>2, <3>3 DEF Before
  <2>2. MergeRound(q, items, g) = [g EXCEPT !.i = @ + 1, !.ended = q[g.i + 1].addr = 0,
                                            !.bytes = @ \o WordBytes(g.i)]
    BY <1>2, <1>7, <2>1 DEF MergeRound
  <2>3. PICK over : over = (q[g.i + 1].addr = 0)
    OBVIOUS
  <2> DEFINE more == g.bytes \o WordBytes(g.i)
             next == g.i + 1
  <2>4. CodeAdded(g, next, over, more)
          = [i |-> next, d |-> g.d, ended |-> over, crash |-> g.crash, bytes |-> more]
    <3> HIDE DEF more, next
    <3> QED BY CodeChanges
  <2> QED BY <1>7, <2>2, <2>3, <2>4 DEF CodeAdded
<1>11. h.ended <=> j = K
  <2>1. j # K => q[m + (j + 1)].addr > 0
    <3>1. j # K => j + 1 \in 1 .. K
      BY <1>1
    <3> QED BY <3>1 DEF Whole
  <2>2. m + (j + 1) = m + j + 1
    BY <1>1
  <2>3. q[m + K + 1].addr = 0
    BY DEF Whole
  <2>4. j = K => q[m + j + 1].addr = 0
    BY <2>3
  <2>5. j # K => q[m + j + 1].addr # 0
    BY <2>1, <2>2
  <2>6. h.ended <=> q[m + j + 1].addr = 0
    OBVIOUS
  <2> QED BY <2>4, <2>5, <2>6
<1>12. /\ Len(b) = Len(g.bytes) + 4 /\ PieceAt(b, Len(g.bytes), TEXT, m + j, 4)
       /\ \A o, s, i, k : PieceAt(g.bytes, o, s, i, k) => PieceAt(b, o, s, i, k)
  <2> DEFINE v == g.bytes
             i == m + j
  <2>1. v \in Seq(VectorByte) /\ i \in Nat /\ 4 \in Nat /\ TEXT \in {EVT, TEXT}
    <3>1. m + j \in Nat
      BY ONLY <1>0, <1>1
    <3> QED BY <1>4, <3>1
  <2> HIDE DEF v, i
  <2>2. /\ Len(v \o ItemBytes(TEXT, i, 4)) = Len(v) + 4
        /\ PieceAt(v \o ItemBytes(TEXT, i, 4), Len(v), TEXT, i, 4)
        /\ \A o, s, l, k : PieceAt(v, o, s, l, k) => PieceAt(v \o ItemBytes(TEXT, i, 4), o, s, l, k)
    BY <2>1, PieceAdded
  <2> QED BY <2>2 DEF v, i, WordBytes
<1>13. h.i = m + 1 + j /\ h.d = 1 + n - j /\ ~h.crash /\ h.bytes = b
  <2>1. h.i = m + j + 1 /\ h.d = g.d /\ h.crash = g.crash /\ h.bytes = b
    OBVIOUS
  <2>2. m + j + 1 = m + 1 + j
    BY <1>1
  <2> QED BY <1>2, <1>7, <2>1, <2>2
<1> HIDE DEF b, h, x, late, y
<1>14. \A d \in 1 .. n - j : PieceAt(b, items[d].addr - start, EVT, d, items[d].size)
  <2>1. (n - 1) - p = n - j
    BY <1>1
  <2> QED BY <1>2, <1>12, <2>1
<1>15. \A l \in 1 .. j : PieceAt(b, Ahead(q, m + l) - start, TEXT, m + l, 4)
  <2> SUFFICES ASSUME NEW l \in 1 .. j PROVE PieceAt(b, Ahead(q, m + l) - start, TEXT, m + l, 4)
    OBVIOUS
  <2>1. CASE l = j
    <3>1. Ahead(q, m + j) - start = Len(g.bytes)
      BY <1>x, <1>2
    <3> QED BY <1>12, <2>1, <3>1
  <2>2. CASE l # j
    <3>1. l \in 1 .. p
      BY <1>1, <2>2, SMTT(30)
    <3> QED BY <1>2, <1>12, <3>1
  <2> QED BY <2>1, <2>2
<1>16. Len(b) = stop - start
  BY <1>1, <1>2, <1>12
<1> QED BY <1>6, <1>10, <1>11, <1>13, <1>14, <1>15, <1>16

(* The next piece is an item: it is written.                               *)
LEMMA MergeItem ==
  ASSUME NEW q \in Seq(Instrs), NEW m \in Nat, NEW K \in Nat, NEW items \in Seq(Items),
         NEW N \in Nat, N = Len(items), NEW start \in Int, NEW end \in Int, NEW c, NEW z,
         InOrder(q, m, K, items, N, start, end, c, z), \A d \in 1 .. N : items[d].size \in Nat,
         Whole(q, m, K, items, N, end), NEW n \in 1 .. K + N, NEW g \in Merges,
         Merged(q, m, K, items, start, c, z, n - 1, g), ItemPiece(items, c, z, n)
  PROVE  Merged(q, m, K, items, start, c, z, n, MergeRound(q, items, g))
<1> DEFINE j == c[n]
           d == n - j
           w == z[n - 1]
           stop == z[n]
           size == items[d].size
           b == g.bytes \o ItemBytes(EVT, d, size)
           h == [i |-> g.i, d |-> d + 1, ended |-> g.ended, crash |-> g.crash, bytes |-> b]
<1>0. n \in Nat /\ n >= 1 /\ m \in Nat /\ K \in Nat /\ N \in Nat /\ start \in Int
  OBVIOUS
<1>1. /\ n - 1 \in 0 .. K + N /\ j \in Nat /\ c[n - 1] = j /\ w \in Int /\ stop \in Int
      /\ d \in 1 .. N /\ j <= K
  <2>1. j <= K
    BY PieceRange DEF InOrder
  <2> QED BY <2>1, PieceRange, ZenonT(40) DEF ItemPiece
<1>x. stop = w + size /\ items[d].addr = w
  BY <1>1 DEF ItemPiece
<1>2. /\ g.i = m + 1 + j /\ g.d = 1 + (n - 1) - j /\ ~g.crash
      /\ (g.ended <=> j = K) /\ Len(g.bytes) = w - start
      /\ \A l \in 1 .. (n - 1) - j : PieceAt(g.bytes, items[l].addr - start, EVT, l, items[l].size)
      /\ \A l \in 1 .. j : PieceAt(g.bytes, Ahead(q, m + l) - start, TEXT, m + l, 4)
  BY <1>1 DEF Merged
<1>3. /\ g.bytes \in Seq(VectorByte) /\ g = [i |-> g.i, d |-> g.d, ended |-> g.ended,
                                              crash |-> g.crash, bytes |-> g.bytes]
  BY DEF Merges
<1>4. j < K => Ahead(q, m + (j + 1)) >= w
  <2> DEFINE l == n - 1
  <2>1. l \in 0 .. K + N /\ z[l] = w /\ c[l] = j
    BY <1>1
  <2> HIDE DEF l, w, j
  <2>2. Later(q, m, K, items, N, end, c, z, l)
    BY <2>1, RowOrder
  <2> QED BY <2>1, <2>2 DEF Later
<1>5. /\ Merged(q, m, K, items, start, c, z, n, h) <=>
           /\ h.i = m + 1 + j /\ h.d = 1 + n - j /\ ~h.crash /\ (h.ended <=> j = K)
           /\ Len(h.bytes) = stop - start
           /\ \A l \in 1 .. n - j : PieceAt(h.bytes, items[l].addr - start, EVT, l, items[l].size)
           /\ \A l \in 1 .. j : PieceAt(h.bytes, Ahead(q, m + l) - start, TEXT, m + l, 4)
  <2> HIDE DEF h
  <2> QED BY DEF Merged
<1> HIDE DEF j, w, stop
<1>6. g.d = d /\ size \in Nat /\ d + 1 = 1 + n - j
  <2>1. size \in Nat
    BY <1>1
  <2>2. 1 + (n - 1) - j = n - j /\ n - j + 1 = 1 + n - j
    BY ONLY <1>0, <1>1
  <2> QED BY <1>2, <2>1, <2>2
<1>7. g.ended \/ (g.i <= Len(q) /\ ~Before(q[g.i].addr, items[g.d].addr))
  <2> SUFFICES ASSUME ~g.ended PROVE g.i <= Len(q) /\ ~Before(q[g.i].addr, items[g.d].addr)
    OBVIOUS
  <2>1. j < K /\ g.i = m + (j + 1)
    BY <1>1, <1>2, SMTT(30)
  <2>2. Len(q) \in Nat /\ m + K < Len(q)
    BY LenProperties DEF Whole
  <2>3. m + (j + 1) \in 1 .. Len(q)
    <3>1. j < K
      BY <2>1
    <3> QED BY ONLY <1>0, <1>1, <2>2, <3>1
  <2> DEFINE x == q[m + (j + 1)].addr
             late == Late(q[m + (j + 1)])
  <2>4. x \in Int
    <3>1. q[m + (j + 1)] \in Instrs
      BY <2>3, ElementOfSeq
    <3> QED BY <3>1 DEF Instrs
  <2>5. x - late >= w
    BY <1>4, <2>1 DEF Ahead
  <2>6. late \in {0, 20}
    BY DEF Late
  <2>7. items[g.d].addr = w
    BY <1>x, <1>6
  <2> HIDE DEF x, late
  <2>8. ~(x < w)
    BY <1>1, <2>4, <2>5, <2>6
  <2> QED BY <2>1, <2>3, <2>7, <2>8 DEF Before, x
<1>8. MergeRound(q, items, g) = h
  <2>1. ~(g.d > Len(items))
    BY <1>1, <1>6
  <2>2. MergeRound(q, items, g) = [g EXCEPT !.d = @ + 1,
                                            !.bytes = @ \o ItemBytes(EVT, g.d, items[g.d].size)]
    BY <1>2, <1>7, <2>1 DEF MergeRound
  <2> DEFINE more == g.bytes \o ItemBytes(EVT, g.d, items[g.d].size)
             next == g.d + 1
  <2>3. [g EXCEPT !.d = next, !.bytes = more]
          = [i |-> g.i, d |-> next, ended |-> g.ended, crash |-> g.crash, bytes |-> more]
    <3> HIDE DEF more, next
    <3> QED BY ItemChanges
  <2> HIDE DEF d
  <2> QED BY <1>6, <2>2, <2>3
<1>9. /\ Len(b) = Len(g.bytes) + size /\ PieceAt(b, Len(g.bytes), EVT, d, size)
      /\ \A o, s, i, k : PieceAt(g.bytes, o, s, i, k) => PieceAt(b, o, s, i, k)
  <2> DEFINE v == g.bytes
  <2>1. v \in Seq(VectorByte) /\ d \in Nat /\ size \in Nat /\ EVT \in {EVT, TEXT}
    BY <1>1, <1>3, <1>6, SMTT(30)
  <2> HIDE DEF v, d, size
  <2>2. /\ Len(v \o ItemBytes(EVT, d, size)) = Len(v) + size
        /\ PieceAt(v \o ItemBytes(EVT, d, size), Len(v), EVT, d, size)
        /\ \A o, s, l, k : PieceAt(v, o, s, l, k) => PieceAt(v \o ItemBytes(EVT, d, size), o, s, l, k)
    BY <2>1, PieceAdded
  <2> QED BY <2>2 DEF v
<1>10. h.i = m + 1 + j /\ h.d = 1 + n - j /\ ~h.crash /\ (h.ended <=> j = K) /\ h.bytes = b
  <2>1. h.i = g.i /\ h.d = d + 1 /\ h.crash = g.crash /\ h.ended = g.ended /\ h.bytes = b
    OBVIOUS
  <2> HIDE DEF h
  <2> QED BY <1>2, <1>6, <2>1
<1> HIDE DEF b, h
<1>11. \A l \in 1 .. d : PieceAt(b, items[l].addr - start, EVT, l, items[l].size)
  <2> SUFFICES ASSUME NEW l \in 1 .. d
               PROVE  PieceAt(b, items[l].addr - start, EVT, l, items[l].size)
    OBVIOUS
  <2>1. CASE l = d
    <3>1. items[d].addr - start = Len(g.bytes)
      BY <1>x, <1>2
    <3> QED BY <1>9, <2>1, <3>1
  <2>2. CASE l # d
    <3>1. l \in 1 .. (n - 1) - j
      BY <1>1, <2>2, SMTT(30)
    <3> QED BY <1>2, <1>9, <3>1
  <2> QED BY <2>1, <2>2
<1>12. \A l \in 1 .. j : PieceAt(b, Ahead(q, m + l) - start, TEXT, m + l, 4)
  BY <1>2, <1>9
<1>13. Len(b) = stop - start
  <2> HIDE DEF size
  <2> QED BY <1>1, <1>x, <1>2, <1>6, <1>9
<1> QED BY <1>5, <1>8, <1>10, <1>11, <1>12, <1>13

(* One more piece. *)
LEMMA MergeStep ==
  ASSUME NEW q \in Seq(Instrs), NEW m \in Nat, NEW K \in Nat, NEW items \in Seq(Items),
         NEW N \in Nat, N = Len(items), NEW start \in Int, NEW end \in Int, NEW c, NEW z,
         InOrder(q, m, K, items, N, start, end, c, z), \A d \in 1 .. N : items[d].size \in Nat,
         Whole(q, m, K, items, N, end), NEW n \in 1 .. K + N, NEW g \in Merges,
         Merged(q, m, K, items, start, c, z, n - 1, g)
  PROVE  Merged(q, m, K, items, start, c, z, n, MergeRound(q, items, g))
<1>1. CodePiece(q, m, c, z, n) \/ ItemPiece(items, c, z, n)
  BY DEF InOrder
<1>2. CASE CodePiece(q, m, c, z, n)
  BY <1>2, MergeCode
<1>3. CASE ItemPiece(items, c, z, n)
  BY <1>3, MergeItem
<1> QED BY <1>1, <1>2, <1>3

(* What the merge makes of a vector that is whole: every piece, at its     *)
(* place in the row.                                                       *)
AllAt(q, m, K, items, N, start, end, b) ==
  /\ Len(b) = end - start
  /\ \A d \in 1 .. N : PieceAt(b, items[d].addr - start, EVT, d, items[d].size)
  /\ \A j \in 1 .. K : PieceAt(b, Ahead(q, m + j) - start, TEXT, m + j, 4)

(* The marker in front of the vector is the first one. *)
First(q, m) == m \in Marks(q) /\ \A k \in Marks(q) : m <= k

(* The merge begins behind it.                                             *)
LEMMA FirstMark ==
  ASSUME NEW q \in Seq(Instrs), NEW m \in Nat, First(q, m)
  PROVE  Min(Marks(q)) = m
<1>1. Marks(q) \subseteq Nat
  BY LenProperties DEF Marks
<1> DEFINE S == Marks(q)
<1>2. m \in S /\ \A k \in S : m <= k
  BY DEF First
<1> HIDE DEF S
<1>3. S \subseteq Nat
  BY <1>1 DEF S
<1>4. Min(S) \in S /\ \A k \in S : Min(S) <= k
  BY <1>2 DEF Min
<1>5. Min(S) <= m /\ m <= Min(S) /\ Min(S) \in Nat
  BY <1>2, <1>3, <1>4
<1> QED BY <1>5 DEF S

(* By induction over the pieces; then the merge has nothing left to do.    *)
LEMMA MergeWritten ==
  ASSUME NEW q \in Seq(Instrs), NEW m \in Nat, NEW K \in Nat, K >= 1, NEW items \in Seq(Items),
         NEW N \in Nat, N = Len(items), NEW start \in Int, NEW end \in Int,
         Row(q, m, K, items, start, end), \A d \in 1 .. N : items[d].size \in Nat,
         Whole(q, m, K, items, N, end), First(q, m)
  PROVE  AllAt(q, m, K, items, N, start, end, generateEVT(q, items).bytes)
<1> DEFINE T == K + N
           L == Len(q) + Len(items)
<1>1. PICK c, z : InOrder(q, m, K, items, N, start, end, c, z)
  BY DEF Row
<1>2. /\ T \in Nat /\ T = K + N /\ L \in Nat /\ L >= T /\ items # << >>
  <2>1. Len(q) \in Nat /\ m + K < Len(q)
    BY LenProperties DEF Whole
  <2>2. N # 0
    BY DEF Whole
  <2> QED BY <2>1, <2>2
<1>3. /\ c[0] = 0 /\ z[0] = start /\ c[T] = K /\ z[T] = end
  BY <1>1 DEF InOrder
<1>4. PICK h \in [Nat -> Merges] :
         /\ h[0] = MergeBegin(q, items)
         /\ \A n \in Nat \ {0} : h[n] = MergeRound(q, items, h[n - 1])
         /\ generateEVT(q, items) = h[L]
  <2>1. Marks(q) # {}
    BY DEF First
  <2> QED BY <2>1, MergeRounds
<1> DEFINE J(n) == Merged(q, m, K, items, start, c, z, n, h[n])
           D == {n \in 0 .. T : J(n)}
<1> HIDE DEF L, T
<1>5. J(0)
  <2>1. /\ h[0].i = m + 1 /\ h[0].d = 1 /\ h[0].ended = FALSE /\ h[0].crash = FALSE
        /\ h[0].bytes = << >>
    <3>1. 1 + Min(Marks(q)) = m + 1
      BY FirstMark
    <3> QED BY <1>2, <1>4, <3>1 DEF MergeBegin
  <2>2. Len(<< >>) = 0
    OBVIOUS
  <2>3. /\ m + 1 = m + 1 + c[0] /\ 1 = 1 + 0 - c[0] /\ c[0] # K /\ 0 = z[0] - start
        /\ 1 .. 0 - c[0] = {} /\ 1 .. c[0] = {}
    BY <1>3
  <2>4. Len(h[0].bytes) = z[0] - start
    BY <2>1, <2>2, <2>3
  <2>5. ~h[0].crash /\ (h[0].ended <=> c[0] = K) /\ h[0].i = m + 1 + c[0] /\ h[0].d = 1 + 0 - c[0]
    BY <2>1, <2>3
  <2> QED BY <2>3, <2>4, <2>5 DEF Merged
<1>6. ASSUME NEW n \in 1 .. T, J(n - 1) PROVE J(n)
  <2> DEFINE g == h[n - 1]
  <2>1. n \in 1 .. K + N /\ n \in Nat \ {0} /\ n - 1 \in Nat
    BY <1>2
  <2>2. g \in Merges /\ h[n] = MergeRound(q, items, g)
    BY <1>4, <2>1
  <2>3. Merged(q, m, K, items, start, c, z, n - 1, g)
    BY <1>6
  <2> HIDE DEF g, J
  <2>4. Merged(q, m, K, items, start, c, z, n, MergeRound(q, items, g))
    BY <1>1, <2>1, <2>2, <2>3, MergeStep
  <2> QED BY <2>2, <2>4 DEF J
<1>7. T \in D
  <2> HIDE DEF J
  <2>1. 0 \in D
    BY <1>2, <1>5
  <2>2. ASSUME NEW n \in 0 .. T - 1, n \in D PROVE n + 1 \in D
    <3>1. n + 1 \in 1 .. T /\ n + 1 \in 0 .. T /\ (n + 1) - 1 = n
      BY <1>2
    <3> DEFINE k == n + 1
    <3>2. J(k - 1)
      BY <2>2, <3>1
    <3> HIDE DEF k
    <3>3. k \in 1 .. T
      BY <3>1 DEF k
    <3>4. J(k)
      BY <1>6, <3>2, <3>3
    <3> QED BY <3>1, <3>4 DEF k
  <2>3. T \in 0 .. T
    BY <1>2
  <2> HIDE DEF D
  <2>4. 0 .. T \subseteq D
    BY <1>2, <2>1, <2>2, BoundedInduction
  <2> QED BY <2>3, <2>4
<1> DEFINE g == h[T]
<1>8. g \in Merges /\ g.d = N + 1
  <2>1. J(T)
    BY <1>7
  <2>2. g.d = 1 + T - c[T]
    BY <2>1 DEF Merged
  <2> HIDE DEF J, D, g
  <2>3. 1 + T - c[T] = N + 1
    BY <1>2, <1>3
  <2> QED BY <1>2, <1>4, <2>2, <2>3 DEF g
<1>9. MergeRound(q, items, g) = g
  <2>1. g.d > Len(items)
    <3> HIDE DEF g
    <3> QED BY <1>8
  <2> HIDE DEF g
  <2> QED BY <2>1 DEF MergeRound
<1>10. h[L] = g
  <2> HIDE DEF g, J, D
  <2> DEFINE U == {k \in 0 .. L - T : h[T + k] = g}
  <2>1. L - T \in Nat /\ T + (L - T) = L /\ L - T \in 0 .. L - T
    BY <1>2
  <2>2. 0 \in U
    <3>1. T + 0 = T
      BY <1>2
    <3> QED BY <2>1, <3>1 DEF g
  <2>3. ASSUME NEW k \in 0 .. (L - T) - 1, k \in U PROVE k + 1 \in U
    <3>1. /\ k + 1 \in 0 .. L - T /\ T + (k + 1) \in Nat \ {0} /\ (T + (k + 1)) - 1 = T + k
      BY <1>2, <2>1
    <3>2. h[T + (k + 1)] = MergeRound(q, items, h[(T + (k + 1)) - 1])
      BY <1>4, <3>1
    <3>3. h[T + k] = g
      BY <2>3
    <3>4. h[T + (k + 1)] = g
      BY <1>9, <3>1, <3>2, <3>3
    <3> QED BY <3>1, <3>4
  <2>4. 0 .. L - T \subseteq U
    <3> DEFINE n == L - T
    <3>1. n \in Nat /\ 0 \in U /\ \A k \in 0 .. n - 1 : k \in U => k + 1 \in U
      BY <2>1, <2>2, <2>3
    <3> HIDE DEF n, U
    <3>2. 0 .. n \subseteq U
      BY <3>1, BoundedInduction
    <3> QED BY <3>2 DEF n
  <2>5. L - T \in U
    <3> HIDE DEF U
    <3> QED BY <2>1, <2>4
  <2> QED BY <2>1, <2>5
<1>11. AllAt(q, m, K, items, N, start, end, g.bytes)
  <2>1. J(T)
    BY <1>7
  <2>2. T - c[T] = N
    BY <1>2, <1>3
  <2> HIDE DEF g
  <2>3. Merged(q, m, K, items, start, c, z, T, g)
    BY <2>1 DEF g
  <2> HIDE DEF J, D
  <2> QED BY <1>3, <2>2, <2>3 DEF Merged, AllAt
<1> QED BY <1>4, <1>10, <1>11

(* The vector is the last part of the file.                                *)
LEMMA LastPart ==
  ASSUME PlaceInv, pc = "written", NEW v \in Seq(VectorByte), Made(v), present[EVT],
         Len(v) = Size(EVT), NEW n \in 1 .. Len(v)
  PROVE  ByteAt(bin, Len(bin.payload) - Size(EVT) + n - 1) = v[n]
<1> DEFINE S == Byte \cup {Junk}
           part(t, bytes) == IF t \in DOMAIN Sizes THEN Fit(bytes, Sizes[t]) ELSE << >>
           D == part(DATA, generateData(DATA, data[DATA]))
           C == part(CONST, generateData(CONST, data[CONST]))
           X == part(TEXT, generateText(instrs))
           E == part(EVT, v)
           F == D \o C \o X
<1>1. /\ data \in [Tables -> Seq(Items)] /\ instrs \in Seq(Instrs)
      /\ lp \in [Sections -> Int] /\ file.kern \in BOOLEAN
  BY PlaceState, StreamSteps
<1>2. \A t \in DOMAIN Sizes : Sizes[t] \in Int
  BY <1>1, StartsAssumption DEF Size, Sizes
<1>3. EVT \in DOMAIN Sizes /\ Sizes[EVT] = Size(EVT)
  BY PlaceState DEF Sizes
<1>4. v \in Seq(Byte) /\ Len(v) \in Nat
  BY BytesType, LenProperties
<1>5. E = Fit(v, Len(v))
  BY <1>3
<1>6. E \in Seq(S) /\ Len(E) = Len(v) /\ E[n] = v[n]
  <2> DEFINE l == Len(v)
  <2>1. l \in Nat /\ n \in 1 .. l /\ n <= Len(v)
    BY <1>4
  <2> HIDE DEF l
  <2>2. Fit(v, l) \in Seq(S) /\ Len(Fit(v, l)) = l /\ Fit(v, l)[n] = v[n]
    BY <1>4, <2>1, FitPlaces
  <2> QED BY <1>5, <2>2 DEF l
<1>7. D \in Seq(S) /\ C \in Seq(S) /\ X \in Seq(S)
  <2>1. << >> \in Seq(S)
    OBVIOUS
  <2>2. generateData(DATA, data[DATA]) \in Seq(Byte) /\ generateData(CONST, data[CONST]) \in Seq(Byte)
    BY <1>1, generateDataType, SectionNumbers
  <2>3. generateText(instrs) \in Seq(Byte)
    BY <1>1, generateTextType, BytesType
  <2> QED BY <1>2, <2>1, <2>2, <2>3, FitType
<1>8. bin.payload = F \o E
  BY DEF Made, Payload
<1> HIDE DEF D, C, X, E, S
<1>9. D \o C \in Seq(S)
  BY <1>7, ConcatProperties
<1>10. F \in Seq(S)
  BY <1>7, <1>9, ConcatProperties
<1> HIDE DEF F
<1>11. /\ Len(F \o E) = Len(F) + Len(E) /\ F \o E \in Seq(S)
       /\ \A k \in 1 .. Len(F) + Len(E) :
            (F \o E)[k] = IF k <= Len(F) THEN F[k] ELSE E[k - Len(F)]
  BY <1>6, <1>10, ConcatProperties, ZenonT(40)
<1> DEFINE P == F \o E
           l == Len(v)
<1>12. Len(F) \in Nat /\ Len(P) = Len(F) + l /\ DOMAIN P = 1 .. Len(P) /\ l \in Nat /\ n \in 1 .. l
  BY <1>4, <1>6, <1>10, <1>11, LenProperties
<1> DEFINE k == Len(F) + n
<1>13. k \in 1 .. Len(F) + l /\ ~(k <= Len(F)) /\ k - Len(F) = n /\ k \in 1 .. Len(P)
  <2> HIDE DEF P, l
  <2> QED BY ONLY <1>12
<1> HIDE DEF P, k
<1>14. P[k] = v[n]
  BY <1>6, <1>11, <1>13 DEF P
<1>15. Len(P) - l + n - 1 + 1 = k
  <2> HIDE DEF l
  <2> QED BY ONLY <1>12 DEF k
<1>16. bin.payload = P /\ Size(EVT) = l
  BY <1>8 DEF P
<1> QED BY <1>12, <1>13, <1>14, <1>15, <1>16 DEF ByteAt

(* Where the vector of the file is: between the only two markers.          *)
Between(q, m, K) ==
  /\ K >= 1 /\ First(q, m) /\ m + K < Len(q) /\ q[m + K + 1].addr = 0
  /\ \A k \in 1 .. K : q[m + k].addr > 0 /\ SectionAt(q[m + k].line) = EVT

(* An instruction of the vector is between them.                           *)
LEMMA VectorHere ==
  ASSUME RowInv, pc \in {"generate", "written"}, NoNull(instrs), ~Endless(data[EVT]),
         NEW i0 \in 1 .. Len(instrs), InSection(i0, EVT)
  PROVE  /\ file.kern = TRUE /\ evt # "none"
         /\ \E m, K \in Nat :
              /\ Between(instrs, m, K)
              /\ Row(instrs, m, K, data[EVT], Starts[TRUE][EVT], lp[EVT])
              /\ \A i \in 1 .. Len(instrs) : InSection(i, EVT) => i \in m + 1 .. m + K
<1> DEFINE q == instrs
           items == data[EVT]
           end == lp[EVT]
<1>1. PlaceInv
  BY DEF RowInv
<1>2. /\ file.kern \in BOOLEAN /\ q \in Seq(Instrs) /\ Len(q) \in Nat /\ DOMAIN q = 1 .. Len(q)
      /\ evt \in {"none", "open", "closed"}
  BY <1>1, PlaceState, StreamSteps, LenProperties
<1>3. PICK m, K \in Nat : /\ Around(q, m, K, evt)
                          /\ Row(q, m, K, items, Starts[file.kern][EVT], end)
  BY DEF RowInv, VectorLaid
<1>4. evt # "none"
  <2>1. ASSUME evt = "none" PROVE FALSE
    <3>1. m = Len(q) + 1
      BY <2>1, <1>3 DEF Around
    <3>2. i0 < m
      BY <1>2, <3>1
    <3>3. SectionAt(q[i0].line) # EVT
      BY <1>3, <3>2 DEF Around
    <3> QED BY <3>3 DEF InSection
  <2> QED BY <2>1
<1>5. evt = "closed" /\ file.kern = TRUE
  <2>1. (~file.kern => evt = "none") /\ (evt = "closed" <=> file.kern)
    BY <1>1 DEF PlaceInv, TypeInv, VectorInv, VectorOnce, PassTwo
  <2> QED BY <1>2, <1>4, <2>1
<1>6. m >= 1 /\ m + K < Len(q) /\ q[m].addr = 0 /\ q[m + K + 1].addr = 0
  BY <1>3, <1>5 DEF Around
<1>7. \A i \in 1 .. Len(q) : InSection(i, EVT) => i \in m + 1 .. m + K
  <2> SUFFICES ASSUME NEW i \in 1 .. Len(q), InSection(i, EVT) PROVE i \in m + 1 .. m + K
    OBVIOUS
  <2>1. q[i].kind # "marker" /\ SectionAt(q[i].line) = EVT
    BY DEF InSection
  <2>2. q[i].addr # 0
    BY <2>1 DEF NoNull
  <2>3. i # m /\ i # m + K + 1
    <3>1. ASSUME i = m \/ i = m + K + 1 PROVE FALSE
      <4>1. q[i].addr = 0
        BY <1>6, <3>1
      <4> QED BY <2>2, <4>1
    <3> QED BY <3>1
  <2>4. ~(i < m \/ i > m + K + 1)
    BY <1>3, <2>1 DEF Around
  <2> QED BY <2>3, <2>4
<1>8. K >= 1
  BY <1>7
<1>9. First(q, m)
  <2>1. m \in Marks(q)
    BY <1>2, <1>6 DEF Marks
  <2>2. ASSUME NEW k \in Marks(q) PROVE m <= k
    <3>1. k \in 1 .. Len(q) /\ q[k].addr = 0
      BY <1>2 DEF Marks
    <3>2. ~(k < m)
      BY <1>3, <3>1 DEF Around
    <3> QED BY <3>1, <3>2
  <2> QED BY <2>1, <2>2 DEF First
<1>10. \A k \in 1 .. K : q[m + k].addr > 0 /\ SectionAt(q[m + k].line) = EVT
  <2>1. \A k \in 1 .. K : m + k \in m + 1 .. m + K /\ m + k \in 1 .. Len(q)
    BY <1>2, <1>6
  <2> QED BY <1>3, <2>1 DEF Around
<1>11. Between(q, m, K)
  BY <1>6, <1>8, <1>9, <1>10 DEF Between
<1> QED BY <1>3, <1>4, <1>5, <1>7, <1>11

(* What VectorWhole says of the vector of the file.                        *)
LEMMA VectorFound ==
  ASSUME RowInv, pc = "written", NEW v \in Seq(VectorByte), Made(v), VectorWhole
  PROVE  /\ file.kern = TRUE /\ evt # "none"
         /\ \E m, K \in Nat :
              /\ K >= 1 /\ First(instrs, m)
              /\ Row(instrs, m, K, data[EVT], Starts[TRUE][EVT], lp[EVT])
              /\ Whole(instrs, m, K, data[EVT], Len(data[EVT]), lp[EVT])
              /\ \A i \in 1 .. Len(instrs) : InSection(i, EVT) => i \in m + 1 .. m + K
<1> DEFINE q == instrs
           items == data[EVT]
           end == lp[EVT]
<1>1. PlaceInv /\ PureText /\ ~Endless(items)
  BY DEF RowInv, Made, VectorWhole
<1>2. /\ file.kern \in BOOLEAN /\ q \in Seq(Instrs) /\ Len(q) \in Nat /\ DOMAIN q = 1 .. Len(q)
      /\ items \in Seq(Items) /\ DOMAIN items = 1 .. Len(items)
      /\ \A i \in 1 .. Len(q) : q[i].addr \in Int
  BY <1>1, PlaceState, StreamSteps, LenProperties DEF Instrs
<1>3. NoNull(q)
  <2>1. LaidOut(q, lp[TEXT], evt = "open")
    BY <1>1 DEF PlaceInv
  <2>2. \A i \in 1 .. Len(q) : q[i].kind # "marker" => q[i].addr > 0
    BY <2>1 DEF LaidOut, AtPlace
  <2>3. \A x \in Int : x > 0 => x # 0
    OBVIOUS
  <2> QED BY <1>2, <2>2, <2>3 DEF NoNull
<1>4. PICK i0 \in 1 .. Len(q) : InSection(i0, EVT)
  BY <1>2 DEF VectorWhole
<1>5. /\ file.kern = TRUE /\ evt # "none"
      /\ \E m, K \in Nat :
           /\ Between(q, m, K)
           /\ Row(q, m, K, items, Starts[TRUE][EVT], end)
           /\ \A i \in 1 .. Len(q) : InSection(i, EVT) => i \in m + 1 .. m + K
  BY <1>1, <1>3, <1>4, VectorHere
<1>6. PICK m, K \in Nat :
        /\ Between(q, m, K)
        /\ Row(q, m, K, items, Starts[TRUE][EVT], end)
        /\ \A i \in 1 .. Len(q) : InSection(i, EVT) => i \in m + 1 .. m + K
  BY <1>5
<1>8. K >= 1 /\ First(q, m) /\ m + K < Len(q) /\ q[m + K + 1].addr = 0
  BY <1>6 DEF Between
<1>9. Whole(q, m, K, items, Len(items), end)
  <2>1. \A k \in 1 .. K : m + k \in m + 1 .. m + K /\ m + k \in 1 .. Len(q)
    BY <1>2, <1>8
  <2>2. \A k \in 1 .. K : q[m + k].addr > 0 /\ SectionAt(q[m + k].line) = EVT
    BY <1>6 DEF Between
  <2>3. \E d \in 1 .. Len(items) : items[d].size > 0 /\ items[d].addr + items[d].size = end
    BY <1>2 DEF VectorWhole
  <2>4. ASSUME NEW k \in 1 .. K, NEW d \in 1 .. Len(items), Late(q[m + k]) # 0
        PROVE  items[d].addr \notin q[m + k].addr - 20 .. q[m + k].addr
    <3> DEFINE i == m + k
    <3>1. i \in DOMAIN instrs /\ d \in DOMAIN data[EVT]
      BY <1>2, <2>1
    <3>2. LastOfLd(i)
      BY <2>4 DEF Late, LastOfLd
    <3>3. q[i].kind # "marker"
      <4>1. q[i].kind = "marker" => q[i].addr = 0
        BY <1>1, <2>1, PlaceState, StreamSteps
      <4>2. q[i].addr > 0
        BY <2>2
      <4> QED BY <4>1, <4>2
    <3>4. InSection(i, EVT)
      BY <2>2, <3>3 DEF InSection
    <3> HIDE DEF i
    <3>5. items[d].addr \notin q[i].addr - 20 .. q[i].addr
      BY <3>1, <3>2, <3>4 DEF VectorWhole
    <3> QED BY <3>5 DEF i
  <2> HIDE DEF q, items, end
  <2> QED BY <1>8, <2>2, <2>3, <2>4 DEF Whole
<1> QED BY <1>5, <1>6, <1>8, <1>9

(* The vector of the file that is made is exact.                           *)
LEMMA VectorMade ==
  ASSUME RowInv, pc = "written", NEW v \in Seq(VectorByte), v = Vector.bytes, Made(v)
  PROVE  VectorExact
<1> SUFFICES ASSUME VectorWhole PROVE VectorExact
  BY DEF VectorExact
<1> DEFINE q == instrs
           items == data[EVT]
           N == Len(items)
           start == Starts[TRUE][EVT]
           end == lp[EVT]
           off == Len(bin.payload) - Size(EVT)
<1>1. /\ PlaceInv /\ ~Endless(items) /\ file.kern = TRUE /\ bin.kern = TRUE /\ evt # "none"
  BY VectorFound DEF RowInv, Made
<1>2. PICK m, K \in Nat :
         /\ K >= 1 /\ First(q, m) /\ Row(q, m, K, items, start, end)
         /\ Whole(q, m, K, items, N, end)
         /\ \A i \in 1 .. Len(q) : InSection(i, EVT) => i \in m + 1 .. m + K
  BY VectorFound
<1>3. /\ q \in Seq(Instrs) /\ Len(q) \in Nat /\ DOMAIN q = 1 .. Len(q)
      /\ items \in Seq(Items) /\ N \in Nat /\ DOMAIN items = 1 .. N
      /\ start \in Int /\ end \in Int
  BY <1>1, PlaceState, StreamSteps, LenProperties
<1>4. \A d \in 1 .. N : items[d] \in Items /\ items[d].addr \in Int /\ items[d].size \in Nat
  <2>1. TAKE d \in 1 .. N
  <2>2. items[d] \in Items
    BY <1>3, <2>1, ElementOfSeq
  <2>3. items[d].addr \in Int /\ items[d].size \in Int
    BY <2>2 DEF Items
  <2>4. ~(items[d].size < 0)
    BY <1>1, <1>3, <2>1 DEF Endless
  <2> QED BY <2>2, <2>3, <2>4
<1>5. Size(EVT) = end - start
  BY <1>1 DEF Size
<1>6. v = generateEVT(q, items).bytes
  BY DEF Vector
<1> HIDE DEF q, items, N, start, end
<1>7. AllAt(q, m, K, items, N, start, end, v)
  <2>1. N = Len(items)
    BY DEF N
  <2>2. \A d \in 1 .. N : items[d].size \in Nat
    BY <1>4
  <2>3. AllAt(q, m, K, items, N, start, end, generateEVT(q, items).bytes)
    BY <1>2, <1>3, <2>1, <2>2, MergeWritten
  <2> QED BY <1>6, <2>3
<1>8. /\ Len(v) = end - start
      /\ \A d \in 1 .. N : PieceAt(v, items[d].addr - start, EVT, d, items[d].size)
      /\ \A j \in 1 .. K : PieceAt(v, Ahead(q, m + j) - start, TEXT, m + j, 4)
  BY <1>7 DEF AllAt
<1>9. present[EVT]
  <2>1. Len(v) # 0
    <3>1. 1 \in 1 .. K
      BY <1>2
    <3>2. PieceAt(v, Ahead(q, m + 1) - start, TEXT, m + 1, 4)
      BY <1>8, <3>1
    <3>3. Ahead(q, m + 1) - start + 1 \in 1 .. Len(v)
      BY <3>2 DEF PieceAt
    <3> QED BY <3>3
  <2>2. Size(EVT) # 0
    BY <1>5, <1>8, <2>1
  <2> QED BY <1>1, <2>2 DEF RowInv
<1>10. \A n \in 1 .. Len(v) : ByteAt(bin, off + n - 1) = v[n]
  <2>1. Len(v) = Size(EVT)
    BY <1>5, <1>8
  <2> QED BY <1>1, <1>9, <2>1, LastPart
<1>11. off \in Int
  <2>1. Len(bin.payload) \in Nat
    <3>1. bin.payload \in Seq(Byte \cup {Junk})
      BY <1>1 DEF PlaceInv, TypeInv, Types
    <3> QED BY <3>1, LenProperties
  <2> QED BY <1>3, <1>5, <2>1
<1> HIDE DEF off
<1>12. ASSUME NEW x \in Int, NEW s, NEW i, NEW size \in Nat, PieceAt(v, x - start, s, i, size),
              NEW k \in 1 .. size
       PROVE  ByteAt(bin, off + x - start + k - 1) = << s, i, k >>
  <2> DEFINE n == x - start + k
  <2>1. n \in 1 .. Len(v) /\ v[n] = << s, i, k >>
    BY <1>12 DEF PieceAt
  <2>2. off + n - 1 = off + x - start + k - 1
    BY ONLY <1>3, <1>11, <1>12
  <2> HIDE DEF n
  <2> QED BY <1>10, <2>1, <2>2
<1>13. PlacedItems(off, EVT)
  <2> SUFFICES ASSUME NEW i \in DOMAIN data[EVT], NEW k \in 1 .. data[EVT][i].size
               PROVE  ByteAt(bin, off + data[EVT][i].addr - Starts[bin.kern][EVT] + k - 1)
                        = << EVT, i, k >>
    BY DEF PlacedItems, PlacedAt
  <2>1. i \in 1 .. N /\ k \in 1 .. items[i].size
    BY <1>3 DEF items
  <2>2. items[i].addr \in Int /\ items[i].size \in Nat
        /\ PieceAt(v, items[i].addr - start, EVT, i, items[i].size)
    BY <1>4, <1>8, <2>1
  <2> DEFINE x == items[i].addr
             size == items[i].size
  <2>3. x \in Int /\ size \in Nat /\ PieceAt(v, x - start, EVT, i, size) /\ k \in 1 .. size
    BY <2>1, <2>2
  <2> HIDE DEF x, size
  <2>4. ByteAt(bin, off + x - start + k - 1) = << EVT, i, k >>
    BY <1>12, <2>3
  <2>5. data[EVT][i].addr = x /\ Starts[bin.kern][EVT] = start
    BY <1>1 DEF x, items, start
  <2> QED BY <2>4, <2>5
<1>14. ASSUME NEW i \in DOMAIN instrs, InSection(i, EVT), NEW k \in 1 .. 4
       PROVE  ByteAt(bin, off + instrs[i].addr - (IF LastOfLd(i) THEN 20 ELSE 0)
                            - Starts[TRUE][EVT] + k - 1) = << TEXT, i, k >>
  <2>1. i \in m + 1 .. m + K
    BY <1>2, <1>3, <1>14 DEF q
  <2>2. i - m \in 1 .. K /\ m + (i - m) = i
    BY <1>2, <2>1
  <2>3. PieceAt(v, Ahead(q, i) - start, TEXT, i, 4)
    BY <1>8, <2>2
  <2> DEFINE x == Ahead(q, i)
             late == IF LastOfLd(i) THEN 20 ELSE 0
             y == instrs[i].addr
  <2>4. x = y - late /\ late \in Int
    BY DEF Ahead, Late, LastOfLd, q
  <2>5. y \in Int
    BY <1>1, PlaceNumbers
  <2> HIDE DEF x, late, y
  <2>6. x \in Int /\ 4 \in Nat
    BY <2>4, <2>5
  <2>7. ByteAt(bin, off + x - start + k - 1) = << TEXT, i, k >>
    BY <1>12, <2>3, <2>6 DEF x
  <2>8. off + x - start + k - 1 = off + y - late - start + k - 1
    BY ONLY <1>3, <1>11, <2>4, <2>5, <1>14
  <2> QED BY <2>7, <2>8 DEF late, y, start
<1> QED BY <1>13, <1>14 DEF VectorExact, off

(* Property VectorExact: when the vector has instructions, ends with an    *)
(* item that has bytes, and no item is close behind the last instruction   *)
(* of a long ld, generateEVT merges its two streams so that each item and  *)
(* each instruction is at the place of its address; whatever its lines are *)
(* and in whatever order.                                                  *)
THEOREM VectorRight == Spec => []VectorExact
<1>1. Init => RowInv /\ FileInv
  BY RowInit, PlaceInit DEF FileInv, Init
<1>2. RowInv /\ FileInv => VectorExact
  <2>1. ASSUME RowInv, FileInv, pc = "written" PROVE VectorExact
    <3>1. PICK v \in Seq(VectorByte) : v = Vector.bytes /\ Made(v)
      BY <2>1 DEF FileInv, Written
    <3> QED BY <2>1, <3>1, VectorMade
  <2>2. pc # "written" => VectorExact
    BY DEF VectorExact
  <2> QED BY <2>1, <2>2
<1> QED BY <1>1, <1>2, RowNext, FileNext, PTL DEF Spec

-----------------------------------------------------------------------------
(* Whatever its items are, a vector that has an instruction is written     *)
(* within its buffer.                                                      *)

(* S[d]: how many bytes the first d items have.                            *)
Sums(items, N, S) ==
  /\ S \in [0 .. N -> Nat] /\ S[0] = 0
  /\ \A d \in 1 .. N : S[d] = S[d - 1] + items[d].size

(* There are such sums, and none is above the last one. *)
LEMMA SumsExist ==
  ASSUME NEW items, NEW N \in Nat, \A d \in 1 .. N : items[d].size \in Nat
  PROVE  \E S : Sums(items, N, S)
<1> DEFINE Add(n) == [v \in Nat |-> v + items[n].size]
           F == [n \in 1 .. N |-> Add(n)]
<1>1. Steps(F, 1 .. N, Nat)
  <2>1. \A n \in 1 .. N : F[n] \in [Nat -> Nat]
    OBVIOUS
  <2>2. F = [n \in 1 .. N |-> F[n]]
    OBVIOUS
  <2> HIDE DEF F
  <2> QED BY <2>1, <2>2 DEF Steps
<1> DEFINE x == 0
           T == Nat
<1>2. x \in T /\ Steps(F, 1 .. N, T)
  BY <1>1
<1> HIDE DEF F, x, T
<1>3. \E h \in [0 .. N -> T] : h[0] = x /\ \A n \in 1 .. N : h[n] = F[n][h[n - 1]]
  BY ONLY N \in Nat, <1>2, BoundedRecursionExists
<1>4. PICK h \in [0 .. N -> Nat] : h[0] = 0 /\ \A n \in 1 .. N : h[n] = F[n][h[n - 1]]
  BY ONLY <1>3 DEF x, T
<1>5. ASSUME NEW n \in 1 .. N PROVE h[n] = h[n - 1] + items[n].size
  <2>1. n - 1 \in 0 .. N /\ h[n - 1] \in Nat
    OBVIOUS
  <2>2. F[n] = [v \in Nat |-> v + items[n].size]
    BY DEF F
  <2> QED BY <1>4, <2>1, <2>2
<1> QED BY <1>4, <1>5 DEF Sums

(* The sum of all items is the greatest one. *)
LEMMA SumsGrow ==
  ASSUME NEW items, NEW N \in Nat, \A d \in 1 .. N : items[d].size \in Nat, NEW S, Sums(items, N, S),
         NEW d \in 0 .. N
  PROVE  S[d] <= S[N]
<1> DEFINE D == {j \in 0 .. N : S[N - j] <= S[N]}
<1>1. S \in [0 .. N -> Nat] /\ \A e \in 1 .. N : S[e] = S[e - 1] + items[e].size
  BY DEF Sums
<1>2. 0 \in D
  <2>1. N \in 0 .. N /\ N - 0 = N /\ 0 \in 0 .. N /\ S[N] \in Nat
    BY <1>1
  <2> QED BY <2>1
<1>3. ASSUME NEW j \in 0 .. N - 1, j \in D PROVE j + 1 \in D
  <2>1. /\ N - j \in 1 .. N /\ N - j \in 0 .. N /\ (N - j) - 1 = N - (j + 1) /\ N - (j + 1) \in 0 .. N
        /\ j + 1 \in 0 .. N
    OBVIOUS
  <2>2. S[N - j] = S[(N - j) - 1] + items[N - j].size /\ items[N - j].size \in Nat
    BY <1>1, <2>1
  <2>3. S[N - j] \in Nat /\ S[N - (j + 1)] \in Nat /\ S[N - j] <= S[N] /\ S[N] \in Nat
    BY <1>1, <1>3, <2>1
  <2>4. S[N - j] = S[N - (j + 1)] + items[N - j].size
    BY <2>1, <2>2
  <2> DEFINE y == items[N - j].size
  <2>5. y \in Nat /\ S[N - j] = S[N - (j + 1)] + y
    BY <2>2, <2>4
  <2> HIDE DEF y
  <2> QED BY <2>1, <2>3, <2>5
<1>4. 0 .. N \subseteq D
  <2> HIDE DEF D
  <2> QED BY <1>2, <1>3, BoundedInduction
<1>5. N - d \in D /\ N - (N - d) = d
  BY <1>4
<1> QED BY <1>5

(* A word more, and an item more, of a row. *)
LEMMA OneWord ==
  ASSUME NEW n \in Int, NEW a \in Int, NEW b, b = a + 1, NEW x \in Int, NEW y, y = x + 4,
         NEW o \in Int, NEW s \in Int, x - o = 4 * a + s
  PROVE  n - b = (n - 1) - a /\ y - o = 4 * b + s
OBVIOUS

LEMMA OneItem ==
  ASSUME NEW a \in Int, NEW b, b = a, NEW x \in Int, NEW w \in Int, NEW y, y = x + w,
         NEW o \in Int, NEW s \in Int, NEW t, t = s + w, x - o = 4 * a + s
  PROVE  y - o = 4 * b + t
OBVIOUS

(* The pieces of a row make up its length. *)
LEMMA RowLength ==
  ASSUME NEW q, NEW m \in Nat, NEW K \in Nat, NEW items, NEW N \in Nat, N = Len(items),
         NEW start \in Int, NEW end, Row(q, m, K, items, start, end),
         \A d \in 1 .. N : items[d].size \in Nat, NEW S, Sums(items, N, S)
  PROVE  end - start = 4 * K + S[N]
<1>1. PICK c, z : InOrder(q, m, K, items, N, start, end, c, z)
  BY DEF Row
<1>2. /\ c \in [0 .. K + N -> Nat] /\ z \in [0 .. K + N -> Int]
      /\ c[0] = 0 /\ z[0] = start /\ c[K + N] = K /\ z[K + N] = end
      /\ \A n \in 0 .. K + N : n - c[n] \in 0 .. N
  BY <1>1 DEF InOrder
<1>3. S \in [0 .. N -> Nat] /\ S[0] = 0 /\ \A d \in 1 .. N : S[d] = S[d - 1] + items[d].size
  BY DEF Sums
<1> DEFINE T == K + N
           J(n) == z[n] - start = 4 * c[n] + S[n - c[n]]
           D == {n \in 0 .. T : J(n)}
<1>4. T \in Nat /\ T = K + N
  OBVIOUS
<1>5. 0 \in D
  <2>1. 0 - c[0] = 0 /\ 0 \in 0 .. T
    BY <1>2
  <2> QED BY <1>2, <1>3, <2>1
<1> HIDE DEF T
<1>6. ASSUME NEW n \in 1 .. T, J(n - 1) PROVE J(n)
  <2>1. /\ n \in 0 .. K + N /\ n - 1 \in 0 .. K + N /\ c[n] \in Nat /\ c[n - 1] \in Nat
        /\ z[n] \in Int /\ z[n - 1] \in Int
        /\ ItemPiece(items, c, z, n) => n - c[n] \in 1 .. N
    BY <1>1, <1>4, PieceRange
  <2>2. CodePiece(q, m, c, z, n) \/ ItemPiece(items, c, z, n)
    BY <1>1, <1>4 DEF InOrder
  <2>3. (n - 1) - c[n - 1] \in 0 .. N /\ n - c[n] \in 0 .. N /\ n \in Int
    BY <1>2, <2>1
  <2> DEFINE s == S[(n - 1) - c[n - 1]]
             t == S[n - c[n]]
  <2>4. s \in Nat /\ t \in Nat /\ z[n - 1] - start = 4 * c[n - 1] + s
    BY <1>3, <1>6, <2>3
  <2>5. CASE CodePiece(q, m, c, z, n)
    <3>1. c[n] = c[n - 1] + 1 /\ z[n] = z[n - 1] + 4
      BY <2>5 DEF CodePiece
    <3>0. n \in Int /\ c[n - 1] \in Int /\ z[n - 1] \in Int /\ start \in Int /\ s \in Int
      <4>1. n \in Int /\ start \in Int
        OBVIOUS
      <4>2. z[n - 1] \in Int
        BY ONLY <2>1
      <4>3. c[n - 1] \in Int
        <5> DEFINE k == c[n - 1]
        <5>1. k \in Nat
          BY ONLY <2>1
        <5>2. k \in Int
          <6> HIDE DEF k
          <6> QED BY ONLY <5>1
        <5> QED BY ONLY <5>2
      <4>4. s \in Int
        <5>1. s \in Nat
          BY ONLY <2>4
        <5>2. s \in Int
          <6> HIDE DEF s
          <6> QED BY ONLY <5>1
        <5> QED BY ONLY <5>2
      <4> QED BY ONLY <4>1, <4>2, <4>3, <4>4
    <3>2. n - c[n] = (n - 1) - c[n - 1] /\ z[n] - start = 4 * c[n] + s
      <4> HIDE DEF s, t
      <4> QED BY ONLY <2>4, <3>0, <3>1, OneWord
    <3>3. t = s
      BY <3>2
    <3> QED BY <3>2, <3>3
  <2>6. CASE ItemPiece(items, c, z, n)
    <3>1. c[n] = c[n - 1] /\ z[n] = z[n - 1] + items[n - c[n]].size
      BY <2>6 DEF ItemPiece
    <3> DEFINE d == n - c[n]
               y == items[d].size
    <3>2. d \in 1 .. N /\ d - 1 = (n - 1) - c[n - 1]
      BY <2>1, <2>3, <2>6, <3>1
    <3>3. y \in Nat /\ t = S[d - 1] + y /\ S[d - 1] = s
      BY <1>3, <3>2
    <3>4. t = s + y /\ z[n] = z[n - 1] + y
      BY <3>1, <3>3
    <3>5. c[n - 1] \in Int /\ z[n - 1] \in Int /\ start \in Int /\ s \in Int /\ y \in Int
      <4>1. s \in Nat /\ y \in Nat /\ c[n - 1] \in Nat /\ z[n - 1] \in Int
        BY <2>1, <2>4, <3>3
      <4> HIDE DEF s, y
      <4> QED BY <4>1
    <3>6. z[n] - start = 4 * c[n] + t
      <4> HIDE DEF s, t, d, y
      <4> QED BY ONLY <2>4, <3>1, <3>4, <3>5, OneItem
    <3> QED BY <3>6
  <2> QED BY <2>2, <2>5, <2>6
<1>7. 0 .. T \subseteq D
  <2> HIDE DEF J
  <2>1. ASSUME NEW n \in 0 .. T - 1, n \in D PROVE n + 1 \in D
    <3>1. n + 1 \in 1 .. T /\ n + 1 \in 0 .. T /\ (n + 1) - 1 = n
      BY <1>4
    <3> DEFINE k == n + 1
    <3>2. J(k - 1)
      BY <2>1, <3>1
    <3>3. k \in 1 .. T
      BY <3>1
    <3> HIDE DEF k
    <3>4. J(k)
      BY <1>6, <3>2, <3>3
    <3> QED BY <3>1, <3>4 DEF k
  <2> HIDE DEF D
  <2> QED BY <1>4, <1>5, <2>1, BoundedInduction
<1>8. J(T)
  <2>1. T \in 0 .. T
    BY <1>4
  <2> HIDE DEF J
  <2> QED BY <1>7, <2>1
<1>9. T - c[T] = N /\ c[T] = K /\ z[T] = end
  BY <1>2, <1>4
<1> QED BY <1>8, <1>9

(* The merge within the vector: instructions and items are counted by the  *)
(* bytes that are written.                                                 *)
Within(m, K, N, S, g) ==
  /\ g \in Merges /\ ~g.crash
  /\ g.i \in m + 1 .. m + K + 1 /\ g.d \in 1 .. N + 1
  /\ g.ended <=> g.i = m + K + 1
  /\ Len(g.bytes) = 4 * (g.i - m - 1) + S[g.d - 1]

(* A round stays within it.                                                *)
LEMMA RoundWithin ==
  ASSUME NEW q \in Seq(Instrs), NEW m \in Nat, NEW K \in Nat, Between(q, m, K),
         NEW items \in Seq(Items), NEW N \in Nat, N = Len(items),
         \A d \in 1 .. N : items[d].size \in Nat, NEW S, Sums(items, N, S),
         NEW g, Within(m, K, N, S, g)
  PROVE  Within(m, K, N, S, MergeRound(q, items, g))
<1> DEFINE h == MergeRound(q, items, g)
           l == Len(q)
           i == g.i
           d == g.d
           b == g.bytes
<1>1. /\ g \in Merges /\ ~g.crash /\ i \in m + 1 .. m + K + 1 /\ d \in 1 .. N + 1
      /\ (g.ended <=> i = m + K + 1) /\ Len(b) = 4 * (i - m - 1) + S[d - 1]
  BY DEF Within
<1>2. /\ l \in Nat /\ m + K < l /\ q[m + K + 1].addr = 0 /\ \A k \in 1 .. K : q[m + k].addr > 0
  BY LenProperties DEF Between
<1>3. S \in [0 .. N -> Nat] /\ \A e \in 1 .. N : S[e] = S[e - 1] + items[e].size
  BY DEF Sums
<1>4. b \in Seq(VectorByte)
  BY <1>1 DEF Merges
<1>5. CASE d > N
  <2>1. h = g
    BY <1>5 DEF MergeRound
  <2> QED BY <2>1
<1>6. CASE ~(d > N)
  <2>0. d \in 1 .. N
    BY <1>1, <1>6
  <2> DEFINE turn == g.ended \/ (i <= l /\ ~Before(q[i].addr, items[d].addr))
  <2>1. CASE turn
    <3> DEFINE size == items[d].size
               more == b \o ItemBytes(EVT, d, size)
               next == d + 1
    <3>1. h = [g EXCEPT !.d = next, !.bytes = more]
      BY <1>1, <1>6, <2>1 DEF MergeRound
    <3>2. [g EXCEPT !.d = next, !.bytes = more]
            = [i |-> g.i, d |-> next, ended |-> g.ended, crash |-> g.crash, bytes |-> more]
      <4> HIDE DEF next, more
      <4> QED BY <1>1, ItemChanges
    <3>3. h.i = i /\ h.d = next /\ h.ended = g.ended /\ h.crash = g.crash /\ h.bytes = more
      BY <3>1, <3>2
    <3>4. Len(more) = Len(b) + size
      <4>1. b \in Seq(VectorByte) /\ EVT \in {EVT, TEXT} /\ d \in Nat /\ size \in Nat
        BY <1>4, <2>0
      <4> HIDE DEF b, d, size
      <4>2. Len(b \o ItemBytes(EVT, d, size)) = Len(b) + size
        BY ONLY <4>1, PieceAdded
      <4> QED BY <4>2
    <3>5. h \in Merges
      BY <1>1, MergeType
    <3>6. next \in 1 .. N + 1 /\ next - 1 = d /\ d - 1 \in 0 .. N
      BY <2>0
    <3>7. S[next - 1] = S[d - 1] + size /\ S[d - 1] \in Nat /\ size \in Nat
      BY <1>3, <2>0, <3>6
    <3>8. Len(more) = 4 * (i - m - 1) + S[next - 1]
      <4> DEFINE s == S[d - 1]
                 t == S[next - 1]
                 x == Len(b)
      <4>1. s \in Nat /\ t = s + size /\ x = 4 * (i - m - 1) + s /\ Len(more) = x + size /\ i \in Int
        BY <1>1, <3>4, <3>7
      <4>2. size \in Nat
        BY <3>7
      <4> HIDE DEF s, t, x, size, more, i, b, d, next
      <4>3. Len(more) = 4 * (i - m - 1) + t
        BY ONLY <4>1, <4>2, m \in Nat
      <4> QED BY <4>3 DEF t
    <3>9. ~h.crash /\ h.i \in m + 1 .. m + K + 1 /\ h.d \in 1 .. N + 1 /\ (h.ended <=> h.i = m + K + 1)
          /\ Len(h.bytes) = 4 * (h.i - m - 1) + S[h.d - 1]
      <4> HIDE DEF h, next, more
      <4> QED BY <1>1, <3>3, <3>6, <3>8
    <3> HIDE DEF h
    <3>10. Within(m, K, N, S, h)
      BY ONLY <3>5, <3>9 DEF Within
    <3> QED BY <3>10 DEF h
  <2>2. CASE ~turn
    <3> DEFINE more == b \o WordBytes(i)
               next == i + 1
    <3>0. ~g.ended /\ i \in m + 1 .. m + K
      <4>1. ~g.ended /\ i # m + K + 1 /\ i \in m + 1 .. m + K + 1 /\ m \in Nat /\ K \in Nat
        BY <1>1, <2>2
      <4> HIDE DEF i
      <4> QED BY ONLY <4>1
    <3>1. i < l /\ i \in Nat /\ next \in m + 1 .. m + K + 1
      <4> HIDE DEF l, i
      <4> QED BY <1>2, <3>0
    <3>2. PICK over : over = (q[g.i + 1].addr = 0)
      OBVIOUS
    <3>3. h = CodeAdded(g, next, over, more)
      <4>1. ~(i >= Len(q))
        BY <1>2, <3>1
      <4> QED BY <1>1, <1>6, <2>2, <3>2, <4>1 DEF MergeRound, CodeAdded
    <3>4. CodeAdded(g, next, over, more)
            = [i |-> next, d |-> g.d, ended |-> over, crash |-> g.crash, bytes |-> more]
      <4> HIDE DEF next, more
      <4> QED BY <1>1, CodeChanges
    <3>5. h.i = next /\ h.d = d /\ h.ended = over /\ h.crash = g.crash /\ h.bytes = more
      <4>1. h = [i |-> next, d |-> d, ended |-> over, crash |-> g.crash, bytes |-> more]
        BY <3>3, <3>4
      <4> HIDE DEF h, next, d, more
      <4> QED BY ONLY <4>1
    <3>6. Len(more) = Len(b) + 4
      <4>1. b \in Seq(VectorByte) /\ TEXT \in {EVT, TEXT} /\ i \in Nat /\ 4 \in Nat
        BY <1>4, <3>1
      <4> HIDE DEF b, i
      <4>2. Len(b \o ItemBytes(TEXT, i, 4)) = Len(b) + 4
        BY ONLY <4>1, PieceAdded
      <4> QED BY <4>2 DEF WordBytes
    <3>7. h \in Merges
      BY <1>1, MergeType
    <3>8. over <=> next = m + K + 1
      <4>1. CASE i = m + K
        <5>1. g.i + 1 = m + K + 1
          BY <4>1
        <5> QED BY <1>2, <3>2, <4>1, <5>1
      <4>2. CASE i # m + K
        <5> DEFINE k == i + 1 - m
        <5>1. k \in 1 .. K /\ m + k = i + 1 /\ next # m + K + 1
          <6> HIDE DEF i
          <6> QED BY <3>0, <4>2
        <5>2. q[m + k].addr > 0
          BY <1>2, <5>1
        <5>3. q[i + 1].addr # 0
          BY <5>1, <5>2
        <5> QED BY <3>2, <5>1, <5>3
      <4> QED BY <4>1, <4>2
    <3>9. Len(more) = 4 * (next - m - 1) + S[d - 1]
      <4> DEFINE s == S[d - 1]
                 x == Len(b)
      <4>1. s \in Nat /\ x = 4 * (i - m - 1) + s /\ Len(more) = x + 4 /\ i \in Int /\ next = i + 1
        <5>1. d - 1 \in 0 .. N
          BY <2>0
        <5> QED BY <1>1, <1>3, <3>1, <3>6, <5>1
      <4> HIDE DEF s, x, more, i, b, d, next
      <4>2. Len(more) = 4 * (next - m - 1) + s
        BY ONLY <4>1, m \in Nat
      <4> QED BY <4>2 DEF s
    <3>10. ~h.crash /\ h.i \in m + 1 .. m + K + 1 /\ h.d \in 1 .. N + 1 /\ (h.ended <=> h.i = m + K + 1)
           /\ Len(h.bytes) = 4 * (h.i - m - 1) + S[h.d - 1]
      <4> HIDE DEF h, next, more
      <4> QED BY <1>1, <3>1, <3>5, <3>8, <3>9
    <3> HIDE DEF h
    <3>11. Within(m, K, N, S, h)
      BY ONLY <3>7, <3>10 DEF Within
    <3> QED BY <3>11 DEF h
  <2> QED BY <2>1, <2>2
<1> QED BY <1>5, <1>6

(* The whole merge does, and ends within the row.                          *)
LEMMA MergeFits ==
  ASSUME NEW q \in Seq(Instrs), NEW m \in Nat, NEW K \in Nat, Between(q, m, K),
         NEW items \in Seq(Items), items # << >>, \A d \in 1 .. Len(items) : items[d].size \in Nat,
         NEW start \in Int, NEW end, Row(q, m, K, items, start, end)
  PROVE  /\ ~generateEVT(q, items).crash
         /\ Len(generateEVT(q, items).bytes) <= end - start
<1> DEFINE N == Len(items)
           L == Len(q) + Len(items)
<1>1. N \in Nat /\ L \in Nat
  BY LenProperties
<1>2. PICK S : Sums(items, N, S)
  BY <1>1, SumsExist
<1>3. PICK h \in [Nat -> Merges] :
         /\ h[0] = MergeBegin(q, items)
         /\ \A n \in Nat \ {0} : h[n] = MergeRound(q, items, h[n - 1])
         /\ generateEVT(q, items) = h[L]
  <2>1. Marks(q) # {}
    BY DEF Between, First
  <2> QED BY <2>1, MergeRounds
<1>4. Within(m, K, N, S, h[0])
  <2>1. /\ h[0].i = m + 1 /\ h[0].d = 1 /\ h[0].ended = FALSE /\ h[0].crash = FALSE
        /\ h[0].bytes = << >>
    <3>1. 1 + Min(Marks(q)) = m + 1
      BY FirstMark DEF Between
    <3> QED BY <1>3, <3>1 DEF MergeBegin
  <2>2. Len(<< >>) = 0 /\ h[0] \in Merges
    BY <1>3
  <2>3. K >= 1 /\ S[0] = 0 /\ 1 - 1 = 0
    BY <1>2 DEF Between, Sums
  <2>4. /\ m + 1 \in m + 1 .. m + K + 1 /\ 1 \in 1 .. N + 1 /\ m + 1 # m + K + 1
        /\ 0 = 4 * (m + 1 - m - 1)
    BY <1>1, <2>3
  <2>5. Len(h[0].bytes) = 4 * (h[0].i - m - 1) + S[h[0].d - 1]
    <3>1. Len(h[0].bytes) = 0 /\ S[h[0].d - 1] = 0
      BY <2>1, <2>2, <2>3
    <3>2. h[0].i - m - 1 = 0
      BY <2>1
    <3> QED BY <3>1, <3>2
  <2> QED BY <2>1, <2>2, <2>4, <2>5 DEF Within
<1> DEFINE D == {n \in Nat : Within(m, K, N, S, h[n])}
<1>5. ASSUME NEW n \in Nat, n \in D PROVE n + 1 \in D
  <2>1. h[n + 1] = MergeRound(q, items, h[n])
    BY <1>3
  <2>2. Within(m, K, N, S, h[n])
    BY <1>5
  <2> HIDE DEF N
  <2>3. Within(m, K, N, S, MergeRound(q, items, h[n]))
    BY <1>1, <1>2, <2>2, RoundWithin DEF N
  <2> QED BY <2>1, <2>3
<1>6. Within(m, K, N, S, h[L])
  <2>1. 0 \in D
    BY <1>4
  <2> HIDE DEF D
  <2>2. Nat \subseteq D
    BY <1>5, <2>1, Induction
  <2>3. L \in D
    BY <1>1, <2>2
  <2> QED BY <2>3 DEF D
<1> DEFINE g == h[L]
<1>7. /\ ~g.crash /\ g.i \in m + 1 .. m + K + 1 /\ g.d \in 1 .. N + 1
      /\ Len(g.bytes) = 4 * (g.i - m - 1) + S[g.d - 1]
  BY <1>6 DEF Within
<1>8. end - start = 4 * K + S[N] /\ S \in [0 .. N -> Nat]
  <2>1. S \in [0 .. N -> Nat]
    BY <1>2 DEF Sums
  <2> HIDE DEF N
  <2>2. end - start = 4 * K + S[N]
    BY <1>1, <1>2, RowLength DEF N
  <2> QED BY <2>1, <2>2
<1> HIDE DEF N
<1>9. S[g.d - 1] <= S[N] /\ S[g.d - 1] \in Nat /\ S[N] \in Nat
  <2> DEFINE e == g.d - 1
  <2>1. e \in 0 .. N
    <3> DEFINE d == g.d
    <3>1. d \in 1 .. N + 1
      BY <1>7
    <3> HIDE DEF d
    <3>2. d - 1 \in 0 .. N
      BY <1>1, <3>1
    <3> QED BY <3>2 DEF d
  <2> HIDE DEF e
  <2>2. \A d \in 1 .. N : items[d].size \in Nat
    BY DEF N
  <2>3. S[e] <= S[N]
    BY ONLY <1>1, <1>2, <2>1, <2>2, SumsGrow
  <2>4. S[e] \in Nat /\ S[N] \in Nat
    BY <1>1, <1>8, <2>1
  <2> QED BY <2>3, <2>4 DEF e
<1>10. Len(g.bytes) <= end - start
  <2> DEFINE i == g.i
             s == S[g.d - 1]
             t == S[N]
             w == end - start
             x == Len(g.bytes)
  <2>1. i \in m + 1 .. m + K + 1 /\ x = 4 * (i - m - 1) + s /\ w = 4 * K + t
        /\ s <= t /\ s \in Nat /\ t \in Nat /\ m \in Nat /\ K \in Nat
    BY <1>7, <1>8, <1>9
  <2> HIDE DEF i, s, t, w, x
  <2>2. x <= w
    BY ONLY <2>1
  <2> QED BY <2>2 DEF w, x
<1> QED BY <1>3, <1>7, <1>10

(* Without items nothing is written.                                       *)
LEMMA MergeNothing ==
  ASSUME NEW q \in Seq(Instrs)
  PROVE  ~generateEVT(q, << >>).crash /\ Len(generateEVT(q, << >>).bytes) = 0
<1> DEFINE e == << >>
           L == Len(q) + Len(e)
<1>1. e \in Seq(Items) /\ Len(e) = 0 /\ L \in Nat
  <2>1. Len(q) \in Nat
    BY LenProperties
  <2> QED BY <2>1
<1>2. PICK h \in [Nat -> Merges] :
         /\ h[0] = MergeBegin(q, e)
         /\ \A n \in Nat \ {0} : h[n] = MergeRound(q, e, h[n - 1])
         /\ generateEVT(q, e) = h[L]
  BY <1>1, MergeRounds
<1> HIDE DEF L
<1>3. h[0].d = 1 /\ h[0].crash = FALSE /\ h[0].bytes = << >>
  BY <1>2 DEF MergeBegin
<1> DEFINE D == {n \in Nat : h[n] = h[0]}
<1>4. 0 \in D
  OBVIOUS
<1>5. ASSUME NEW n \in Nat, n \in D PROVE n + 1 \in D
  <2>1. h[n + 1] = MergeRound(q, e, h[n]) /\ h[n] = h[0]
    BY <1>2, <1>5
  <2>2. h[0].d > Len(e)
    BY <1>1, <1>3
  <2>3. MergeRound(q, e, h[0]) = h[0]
    <3> HIDE DEF e
    <3> QED BY <2>2 DEF MergeRound
  <2> QED BY <2>1, <2>3
<1>6. h[L] = h[0]
  <2> HIDE DEF D
  <2>1. Nat \subseteq D
    BY <1>4, <1>5, Induction
  <2> QED BY <1>1, <2>1 DEF D
<1> QED BY <1>2, <1>3, <1>6

(* The vector is made without a fault if it has an instruction, or no      *)
(* item, and no instruction looks like a marker.                           *)
LEMMA VectorFits ==
  ASSUME RowInv, pc = "generate", NoNull(instrs), ~Endless(data[EVT]),
         data[EVT] = << >> \/ \E i \in DOMAIN instrs : InSection(i, EVT)
  PROVE  /\ ~generateEVT(instrs, data[EVT]).crash
         /\ ~(Len(generateEVT(instrs, data[EVT]).bytes) > Size(EVT))
<1> DEFINE q == instrs
           items == data[EVT]
           end == lp[EVT]
           start == Starts[file.kern][EVT]
<1>1. PlaceInv
  BY DEF RowInv
<1>2. /\ q \in Seq(Instrs) /\ Len(q) \in Nat /\ DOMAIN q = 1 .. Len(q)
      /\ items \in Seq(Items) /\ Len(items) \in Nat /\ DOMAIN items = 1 .. Len(items)
      /\ start \in Int /\ end \in Int
  BY <1>1, PlaceState, StreamSteps, LenProperties
<1>3. Size(EVT) = end - start /\ end >= start
  BY <1>1 DEF Size, PlaceInv
<1>4. CASE items = << >>
  <2>1. ~generateEVT(q, items).crash /\ Len(generateEVT(q, items).bytes) = 0
    BY <1>2, <1>4, MergeNothing
  <2> DEFINE x == Len(generateEVT(q, items).bytes)
  <2>2. x = 0
    BY <2>1
  <2> HIDE DEF x, start, end
  <2>3. ~(x > Size(EVT))
    BY <1>2, <1>3, <2>2
  <2> QED BY <2>1, <2>3 DEF x
<1>5. CASE items # << >>
  <2>1. PICK i0 \in 1 .. Len(q) : InSection(i0, EVT)
    BY <1>2, <1>5
  <2>2. /\ file.kern = TRUE
        /\ \E m, K \in Nat : /\ Between(q, m, K)
                             /\ Row(q, m, K, items, Starts[TRUE][EVT], end)
    BY <2>1, VectorHere
  <2>3. PICK m, K \in Nat : Between(q, m, K) /\ Row(q, m, K, items, start, end)
    BY <2>2
  <2>4. \A d \in 1 .. Len(items) : items[d].size \in Nat
    <3>1. TAKE d \in 1 .. Len(items)
    <3>2. items[d] \in Items
      BY <1>2, ElementOfSeq
    <3>3. items[d].size \in Int
      BY <3>2 DEF Items
    <3>4. ~(items[d].size < 0)
      BY <1>2 DEF Endless
    <3> QED BY <3>3, <3>4
  <2> DEFINE v == generateEVT(q, items)
             x == Len(v.bytes)
  <2> HIDE DEF q, items, start, end
  <2>5. ~v.crash /\ x <= end - start
    BY <1>2, <1>5, <2>3, <2>4, MergeFits
  <2>6. x \in Nat
    <3>1. v \in Merges
      <4>1. Marks(q) # {}
        BY <2>3 DEF Between, First
      <4> QED BY <1>2, <4>1, generateEVTType
    <3>2. v.bytes \in Seq(VectorByte)
      BY <3>1 DEF Merges
    <3> QED BY <3>2, LenProperties
  <2> HIDE DEF v
  <2>7. ~v.crash /\ ~(x > Size(EVT))
    <3> HIDE DEF x
    <3> QED BY <1>2, <1>3, <2>5, <2>6
  <2> QED BY <2>7 DEF v, x, q, items
<1> QED BY <1>4, <1>5

=============================================================================
