----------------------------- MODULE MemoryProofs -----------------------------
(***************************************************************************)
(* What Memory promises for every memory map: the types, that a step       *)
(* writes only where its mode may, that the verdict on a store is exact,   *)
(* and that only loaded code runs.                                         *)
(***************************************************************************)
EXTENDS Memory, TLAPS

(* No step writes a byte that neither mode may write. *)
Fixed == \A a \in Address :
  ~Writable("kernel", a, 1) /\ ~Writable("user", a, 1) => mem[a] = << Loaded, 0 >>

LEMMA MapFacts ==
  /\ EVT_START \in Nat /\ SYS_LIB \in Nat /\ SYS_LIB_END \in Nat
  /\ USER_BSS \in Nat /\ USER_CONST \in Nat /\ USER_DATA \in Nat
  /\ USER_TEXT \in Nat /\ USER_HEAP \in Nat /\ USER_HEAP_END \in Nat
  /\ USER_STACK \in Nat /\ USER_STACK_END \in Nat /\ KERN_DATA \in Nat
  /\ KERN_TEXT \in Nat /\ KERN_HEAP \in Nat /\ KERN_STACK \in Nat
  /\ MemTop \in Nat
  /\ 4 <= EVT_START /\ EVT_START + 4 <= SYS_LIB /\ SYS_LIB + 4 <= SYS_LIB_END
  /\ SYS_LIB_END + 4 <= USER_BSS /\ USER_BSS + 4 <= USER_CONST
  /\ USER_CONST + 4 <= USER_DATA /\ USER_DATA + 4 <= USER_TEXT
  /\ USER_TEXT + 4 <= USER_HEAP /\ USER_HEAP + 4 <= USER_HEAP_END
  /\ USER_HEAP_END + 4 <= USER_STACK /\ USER_STACK + 4 <= USER_STACK_END
  /\ USER_STACK_END + 4 <= KERN_DATA /\ KERN_DATA + 4 <= KERN_TEXT
  /\ KERN_TEXT + 4 <= KERN_HEAP /\ KERN_HEAP + 4 <= KERN_STACK
  /\ KERN_STACK + 4 <= MemTop
  BY LayoutAssumption

(* A store that is on a writable byte leaves the section only over a       *)
(* boundary that is tested.                                                *)
LEMMA NextByte ==
  ASSUME NEW mode \in Modes, NEW x \in Address,
         Writable(mode, x, 1), Wrap(x + 1) \notin WriteCrossing(mode)
  PROVE  Wrap(x + 1) = x + 1 /\ x + 1 \in Address /\ Writable(mode, x + 1, 1)
  <1>1. CASE mode = "kernel"
    BY <1>1, MapFacts DEF Writable, Within, Wrap, WriteCrossing, Address
  <1>2. CASE mode = "user"
    BY <1>2, MapFacts DEF Writable, Within, Wrap, WriteCrossing, Address
  <1> QED BY <1>1, <1>2 DEF Modes

LEMMA StartWritable ==
  ASSUME NEW mode \in Modes, NEW x \in Address
  PROVE  WriteStart(mode, x) <=> Writable(mode, x, 1)
  <1>1. CASE mode = "kernel"
    BY <1>1, MapFacts DEF Writable, Within, WriteStart, Address
  <1>2. CASE mode = "user"
    BY <1>2, MapFacts DEF Writable, Within, WriteStart, Address
  <1> QED BY <1>1, <1>2 DEF Modes

(* Every byte that _memWrite puts in memory is in a section of its mode. *)
LEMMA WrittenContained ==
  ASSUME NEW mode \in Modes, NEW addr \in Address, NEW width \in Widths,
         WriteStart(mode, addr), NEW k \in Written(addr, width, mode)
  PROVE  /\ Wrap(addr + k) = addr + k
         /\ addr + k \in Address
         /\ Writable(mode, addr + k, 1)
  <1> USE MapFacts
  <1>0. k \in 0 .. 3 /\ \A j \in 1 .. k : Wrap(addr + j) \notin WriteCrossing(mode)
    BY DEF Written, Widths
  <1>1. Writable(mode, addr, 1)
    BY StartWritable
  <1>2. CASE k = 0
    BY <1>1, <1>2 DEF Address, Wrap
  <1>3. ASSUME k >= 1
        PROVE  addr + 1 \in Address /\ Writable(mode, addr + 1, 1) /\ Wrap(addr + 1) = addr + 1
    <2>1. Wrap(addr + 1) \notin WriteCrossing(mode)
      BY <1>0, <1>3
    <2> QED BY <1>1, <2>1, NextByte
  <1>4. ASSUME k >= 2
        PROVE  addr + 2 \in Address /\ Writable(mode, addr + 2, 1) /\ Wrap(addr + 2) = addr + 2
    <2> DEFINE x == addr + 1
    <2>1. Wrap(x + 1) \notin WriteCrossing(mode) /\ x + 1 = addr + 2
      BY <1>0, <1>4 DEF Address
    <2>2. x \in Address /\ Writable(mode, x, 1)
      BY <1>0, <1>3, <1>4
    <2> HIDE DEF x
    <2> QED BY <2>1, <2>2, NextByte
  <1>5. ASSUME k >= 3
        PROVE  addr + 3 \in Address /\ Writable(mode, addr + 3, 1) /\ Wrap(addr + 3) = addr + 3
    <2> DEFINE x == addr + 2
    <2>1. Wrap(x + 1) \notin WriteCrossing(mode) /\ x + 1 = addr + 3
      BY <1>0, <1>5 DEF Address
    <2>2. x \in Address /\ Writable(mode, x, 1)
      BY <1>0, <1>4, <1>5
    <2> HIDE DEF x
    <2> QED BY <2>1, <2>2, NextByte
  <1> QED BY <1>0, <1>2, <1>3, <1>4, <1>5

LEMMA AfterStoreEffect ==
  ASSUME TypeOK, NEW addr \in Address, NEW width \in Widths, NEW d \in Data,
         WriteStart(priv, addr)
  PROVE  /\ AfterStore(addr, width, d, priv) \in [Address -> Byte]
         /\ \A a \in Address :
              AfterStore(addr, width, d, priv)[a] # mem[a] => Writable(priv, a, 1)
  <1> DEFINE W == Written(addr, width, priv)
             M == AfterStore(addr, width, d, priv)
  <1>1. W \subseteq 0 .. 3
    BY DEF Written, Widths
  <1>2. \A k \in W : Wrap(addr + k) = addr + k /\ Writable(priv, addr + k, 1)
    BY WrittenContained DEF TypeOK
  <1>3. ASSUME NEW a \in Address
        PROVE  /\ M[a] \in Byte
               /\ M[a] # mem[a] => Writable(priv, a, 1)
    <2>1. CASE \E k \in W : a = Wrap(addr + k)
      <3> DEFINE c == CHOOSE k \in W : a = Wrap(addr + k)
      <3>1. M[a] = << d, c >>
        BY <2>1 DEF AfterStore
      <3>2. c \in W
        BY <2>1
      <3> HIDE DEF c, M, W
      <3>3. M[a] \in Byte
        BY <1>1, <3>1, <3>2 DEF Byte
      <3>4. Writable(priv, a, 1)
        BY <1>2, <2>1
      <3> QED BY <3>3, <3>4
    <2>2. CASE ~ \E k \in W : a = Wrap(addr + k)
      BY <2>2 DEF AfterStore, TypeOK
    <2> QED BY <2>1, <2>2
  <1>4. M \in [Address -> Byte]
    <2>1. M = [a \in Address |-> M[a]]
      BY Zenon DEF AfterStore
    <2> HIDE DEF M, W
    <2> QED BY <1>3, <2>1
  <1> QED BY <1>3, <1>4
LEMMA ValueType ==
  ASSUME TypeOK, NEW addr \in Address, NEW width \in Widths,
         NEW top \in TopByte(addr)
  PROVE  Value(addr, width, top) \in [0 .. 3 -> Byte]
  <1> USE MapFacts
  <1>1. top \in Byte
    <2>1. CASE OutsideMapping(addr)
      BY <2>1 DEF TopByte
    <2>2. CASE ~OutsideMapping(addr)
      <3>1. addr + 3 \in Address
        BY <2>2 DEF OutsideMapping, Address
      <3> QED BY <2>2, <3>1 DEF TopByte, TypeOK
    <2> QED BY <2>1, <2>2
  <1>2. ASSUME NEW k \in 0 .. 3, k < width, Sources(addr, width)[k] # addr + 3
        PROVE  Wrap(Sources(addr, width)[k]) \in Address
    BY <1>2 DEF Sources, Wrap, Address, Widths
  <1>3. << Loaded, 0 >> \in Byte
    BY DEF Byte
  <1>4. ASSUME NEW k \in 0 .. 3
        PROVE  (IF k >= width THEN << Loaded, 0 >>
                ELSE IF Sources(addr, width)[k] = addr + 3 THEN top
                ELSE mem[Wrap(Sources(addr, width)[k])]) \in Byte
    <2>1. CASE k >= width
      BY <2>1, <1>3
    <2>2. CASE k < width /\ Sources(addr, width)[k] = addr + 3
      BY <2>2, <1>1 DEF Widths
    <2>3. CASE k < width /\ Sources(addr, width)[k] # addr + 3
      BY <2>3, <1>2 DEF TypeOK, Widths
    <2> QED BY <2>1, <2>2, <2>3 DEF Widths
  <1> QED BY <1>4 DEF Value

LEMMA NothingType == Nothing \in Access
  BY MapFacts DEF Nothing, Access, Address, Widths, Modes, Byte

LEMMA InitInvariant == Init => TypeOK /\ Fixed
  <1> SUFFICES ASSUME Init PROVE TypeOK /\ Fixed
    OBVIOUS
  <1> USE DEF Init
  <1>1. << Loaded, 0 >> \in Byte /\ 0 \in Address /\ 0 \in 0 .. MaxAccess
    BY MapFacts, MaxAccessAssumption DEF Byte, Address
  <1>2. TypeOK
    BY <1>1, NothingType DEF TypeOK, Modes
  <1>3. Fixed
    BY DEF Fixed
  <1> QED BY <1>2, <1>3

(* What a load or a fetch does, whatever it answers. *)
LEMMA ReadEffect ==
  ASSUME TypeOK, NEW op \in {"fetch", "load"}, NEW addr \in Address,
         NEW width \in Widths, NEW err \in {"none", "section", "crossing"},
         Running, Read(op, addr, width, err)
  PROVE  TypeOK' /\ mem' = mem
  <1> USE DEF Modes
  <1>1. Nothing.val \in [0 .. 3 -> Byte]
    BY DEF Nothing, Byte
  <1>2. PICK v \in [0 .. 3 -> Byte], e \in {"none", "section", "crossing", "segv"} :
          Note(op, addr, width, e, v)
    BY <1>1, ValueType DEF Read
  <1>3. last' \in Access
    BY <1>2 DEF Note, Access, TypeOK
  <1>4. priv' \in Modes /\ accesses' \in 0 .. MaxAccess
    BY MaxAccessAssumption DEF Read, Refused, Running, TypeOK
  <1>5. alive' \in BOOLEAN
    BY Zenon DEF Read, Refused, TypeOK
  <1>6. mem' = mem /\ stored' = stored
    BY DEF Read
  <1> QED BY <1>3, <1>4, <1>5, <1>6 DEF TypeOK

(* Every step keeps the types, and what it changes is writable. *)
LEMMA NextEffect ==
  ASSUME TypeOK, Next
  PROVE  /\ TypeOK'
         /\ \A a \in Address : mem'[a] # mem[a] => Writable(priv, a, 1)
  <1>1. ASSUME NEW addr \in Address, imem(addr)
        PROVE  TypeOK' /\ mem' = mem
    <2> DEFINE valid == IF priv = "kernel" THEN validKIMemAddr(addr)
                        ELSE validUIMemAddr(addr)
               err == IF valid THEN ReadErr(priv, addr, 4) ELSE "section"
    <2>1. err \in {"none", "section", "crossing"} /\ 4 \in Widths
      BY DEF ReadErr, Widths
    <2>2. Running /\ Read("fetch", addr, 4, err)
      BY <1>1 DEF imem
    <2> HIDE DEF err
    <2> QED BY <2>1, <2>2, ReadEffect
  <1>2. ASSUME NEW addr \in Address, NEW w \in Widths, dmemRead(addr, w)
        PROVE  TypeOK' /\ mem' = mem
    <2>1. ReadErr(priv, addr, w) \in {"none", "section", "crossing"}
      BY DEF ReadErr
    <2>2. Running /\ Read("load", addr, w, ReadErr(priv, addr, w))
      BY <1>2 DEF dmemRead
    <2> QED BY <2>1, <2>2, ReadEffect
  <1>3. ASSUME NEW addr \in Address, NEW w \in Widths, NEW d \in Data,
               dmemWrite(addr, w, d)
        PROVE  /\ TypeOK'
               /\ \A a \in Address : mem'[a] # mem[a] => Writable(priv, a, 1)
    <2> DEFINE err == WriteErr(priv, addr, w)
    <2>1. err \in {"none", "section", "crossing"} /\ (err # "section" <=> WriteStart(priv, addr))
      BY DEF WriteErr
    <2>2. /\ Running
          /\ mem' = IF err = "section" THEN mem ELSE AfterStore(addr, w, d, priv)
          /\ stored' = [valid |-> err = "none" /\ w = 4, addr |-> addr, word |-> d]
          /\ Note("store", addr, w, err, Nothing.val)
          /\ Refused(err)
      BY <1>3 DEF dmemWrite
    <2> HIDE DEF err
    <2>3. /\ mem' \in [Address -> Byte]
          /\ \A a \in Address : mem'[a] # mem[a] => Writable(priv, a, 1)
      <3>1. CASE err = "section"
        BY <2>2, <3>1 DEF TypeOK
      <3>2. CASE err # "section"
        BY <2>1, <2>2, <3>2, AfterStoreEffect
      <3> QED BY <3>1, <3>2
    <2>4. Nothing.val \in [0 .. 3 -> Byte]
      BY DEF Nothing, Byte
    <2>5. last' \in Access
      BY <2>1, <2>2, <2>4 DEF Note, Access, TypeOK
    <2>6. priv' \in Modes /\ accesses' \in 0 .. MaxAccess
      BY <2>2, MaxAccessAssumption DEF Refused, Running, TypeOK, Modes
    <2>7. alive' \in BOOLEAN
      BY <2>2, Zenon DEF Refused
    <2>8. (err = "none" /\ w = 4) \in BOOLEAN
      OBVIOUS
    <2>9. stored' \in [valid : BOOLEAN, addr : Address, word : Data \cup {Loaded}]
      BY <2>2, <2>8, Zenon
    <2> QED BY <2>3, <2>5, <2>6, <2>7, <2>9 DEF TypeOK
  <1>4. ASSUME SwitchMode PROVE TypeOK' /\ mem' = mem
    BY <1>4 DEF SwitchMode, TypeOK, Modes
  <1> QED BY <1>1, <1>2, <1>3, <1>4 DEF Next

LEMMA FixedStep == TypeOK /\ Fixed /\ [Next]_vars => Fixed'
  <1> SUFFICES ASSUME TypeOK, Fixed, [Next]_vars, NEW a \in Address,
                      ~Writable("kernel", a, 1), ~Writable("user", a, 1)
               PROVE  mem'[a] = << Loaded, 0 >>
    BY DEF Fixed, Writable, Within
  <1>1. CASE Next
    BY <1>1, NextEffect DEF Fixed, TypeOK, Modes
  <1>2. CASE UNCHANGED vars
    BY <1>2 DEF vars, Fixed
  <1> QED BY <1>1, <1>2

LEMMA TypeStep == TypeOK /\ [Next]_vars => TypeOK'
  <1> SUFFICES ASSUME TypeOK, [Next]_vars PROVE TypeOK'
    OBVIOUS
  <1>1. CASE Next
    BY <1>1, NextEffect
  <1>2. CASE UNCHANGED vars
    BY <1>2 DEF vars, TypeOK
  <1> QED BY <1>1, <1>2

(* Every variable has its type, for every memory map: no access computes   *)
(* an address outside the 32-bit space, whatever it wraps around.          *)
THEOREM MemoryTypes == Spec => []TypeOK
  <1> QED BY InitInvariant, TypeStep, PTL DEF Spec

(* WriteContained for every memory map: a step changes only bytes that its *)
(* mode may write.                                                         *)
THEOREM StoresContained == Spec => WriteContained
  <1>1. TypeOK /\ [Next]_vars =>
          [\A a \in Address : mem'[a] # mem[a] => Writable(priv, a, 1)]_vars
    <2> SUFFICES ASSUME TypeOK, Next
                 PROVE  \A a \in Address : mem'[a] # mem[a] => Writable(priv, a, 1)
      BY Zenon
    <2> QED BY NextEffect
  <1> QED BY <1>1, MemoryTypes, PTL DEF Spec, WriteContained

(* What neither mode may write (the vector, the system libraries, both     *)
(* texts, the constants and the gaps) is for ever as it was loaded.        *)
THEOREM CodeStays == Spec => []Fixed
  <1> QED BY InitInvariant, TypeStep, FixedStep, PTL DEF Spec

(* A store that meets no boundary stays in the section where it starts, or *)
(* it is a wide one that ends with the kernel's heap.                      *)
LEMMA WholeStore ==
  ASSUME NEW mode \in Modes, NEW addr \in Address, NEW width \in Widths
  PROVE  WriteErr(mode, addr, width) = "none" <=>
           /\ Writable(mode, addr, width)
           /\ ~(mode = "kernel" /\ width > 1 /\ addr + width = KERN_STACK)
  <1> USE MapFacts DEF WriteErr, WriteStart, StoreCrosses, WriteCrossing,
                      Writable, Within, Wrap, Address
  <1>1. CASE width = 1
    <2>1. ~StoreCrosses(addr, width, WriteCrossing(mode))
      BY <1>1
    <2>2. CASE mode = "kernel"
      BY <1>1, <2>1, <2>2
    <2>3. CASE mode = "user"
      BY <1>1, <2>1, <2>3
    <2> QED BY <2>2, <2>3 DEF Modes
  <1>2. CASE width = 2
    <2>1. StoreCrosses(addr, width, WriteCrossing(mode)) <=>
            Wrap(addr + 1) \in WriteCrossing(mode)
      BY <1>2
    <2>2. CASE mode = "kernel"
      BY <1>2, <2>1, <2>2
    <2>3. CASE mode = "user"
      BY <1>2, <2>1, <2>3
    <2> QED BY <2>2, <2>3 DEF Modes
  <1>3. CASE width = 4
    <2>1. StoreCrosses(addr, width, WriteCrossing(mode)) <=>
            \/ Wrap(addr + 1) \in WriteCrossing(mode)
            \/ Wrap(addr + 2) \in WriteCrossing(mode)
            \/ Wrap(addr + 3) \in WriteCrossing(mode)
      BY <1>3
    <2>2. CASE mode = "kernel"
      BY <1>3, <2>1, <2>2
    <2>3. CASE mode = "user"
      BY <1>3, <2>1, <2>3
    <2> QED BY <2>2, <2>3 DEF Modes
  <1> QED BY <1>1, <1>2, <1>3 DEF Widths

(* StoreVerdict for every memory map: success is reported exactly for the  *)
(* stores within one writable section, except at the end of the kernel's   *)
(* heap.                                                                   *)
THEOREM VerdictExact == Spec => []StoreVerdict
  <1>1. Init => StoreVerdict
    BY DEF Init, Nothing, StoreVerdict
  <1>2. TypeOK /\ StoreVerdict /\ [Next]_vars => StoreVerdict'
    <2> SUFFICES ASSUME TypeOK, StoreVerdict, [Next]_vars PROVE StoreVerdict'
      OBVIOUS
    <2>1. ASSUME NEW op \in {"fetch", "load"}, NEW addr, NEW width, NEW err,
                 Read(op, addr, width, err)
          PROVE  StoreVerdict'
      BY <2>1 DEF Read, Note, StoreVerdict
    <2>2. ASSUME NEW addr \in Address, imem(addr) PROVE StoreVerdict'
      BY <2>1, <2>2 DEF imem
    <2>3. ASSUME NEW addr \in Address, NEW w \in Widths, dmemRead(addr, w)
          PROVE  StoreVerdict'
      BY <2>1, <2>3 DEF dmemRead
    <2>4. ASSUME NEW addr \in Address, NEW w \in Widths, NEW d \in Data,
                 dmemWrite(addr, w, d)
          PROVE  StoreVerdict'
      <3>1. /\ last'.op = "store" /\ last'.addr = addr /\ last'.width = w
            /\ last'.mode = priv /\ last'.err = WriteErr(priv, addr, w)
        BY <2>4 DEF dmemWrite, Note
      <3> QED BY <3>1, WholeStore DEF StoreVerdict, TypeOK
    <2>5. CASE SwitchMode \/ UNCHANGED vars
      BY <2>5 DEF SwitchMode, vars, StoreVerdict
    <2> QED BY <2>2, <2>3, <2>4, <2>5 DEF Next
  <1> QED BY <1>1, <1>2, MemoryTypes, PTL DEF Spec

LEMMA Boundaries ==
  /\ EVT_START % 4 = 0 /\ SYS_LIB % 4 = 0 /\ SYS_LIB_END % 4 = 0
  /\ USER_BSS % 4 = 0 /\ USER_TEXT % 4 = 0 /\ USER_HEAP % 4 = 0
  /\ USER_HEAP_END % 4 = 0 /\ USER_STACK % 4 = 0 /\ USER_STACK_END % 4 = 0
  /\ KERN_DATA % 4 = 0 /\ KERN_TEXT % 4 = 0 /\ KERN_HEAP % 4 = 0
  /\ MemTop % 4 = 0
  <1>1. DOMAIN Bounds = 1 .. 16
    BY DEF Bounds
  <1>2. \A k \in 1 .. 16 : Bounds[k] % 4 = 0
    BY <1>1, AlignmentAssumption
  <1>3. /\ Bounds[1] % 4 = 0 /\ Bounds[2] % 4 = 0 /\ Bounds[3] % 4 = 0
        /\ Bounds[4] % 4 = 0 /\ Bounds[7] % 4 = 0 /\ Bounds[8] % 4 = 0
        /\ Bounds[9] % 4 = 0 /\ Bounds[10] % 4 = 0 /\ Bounds[11] % 4 = 0
        /\ Bounds[12] % 4 = 0 /\ Bounds[13] % 4 = 0 /\ Bounds[14] % 4 = 0
        /\ Bounds[16] % 4 = 0
    BY <1>2
  <1> QED BY <1>3 DEF Bounds

LEMMA AlignedBelow ==
  ASSUME NEW a \in Nat, NEW b \in Nat, a % 4 = 0, b % 4 = 0, a < b
  PROVE  a + 4 <= b
  OBVIOUS

(* An instruction word that may be fetched lies in code of the mode. *)
LEMMA FetchInCode ==
  ASSUME NEW mode \in Modes, NEW addr \in Address, addr % 4 = 0,
         ReadStart(mode, addr),
         IF mode = "kernel" THEN validKIMemAddr(addr) ELSE validUIMemAddr(addr)
  PROVE  Code(mode, addr, 4)
  <1> USE MapFacts, Boundaries DEF Address
  <1>1. /\ addr < SYS_LIB => addr + 4 <= SYS_LIB
        /\ addr < SYS_LIB_END => addr + 4 <= SYS_LIB_END
        /\ addr < USER_HEAP => addr + 4 <= USER_HEAP
        /\ addr < KERN_HEAP => addr + 4 <= KERN_HEAP
    BY AlignedBelow
  <1>2. CASE mode = "kernel"
    BY <1>1, <1>2 DEF validKIMemAddr, Code, Within
  <1>3. CASE mode = "user"
    BY <1>1, <1>3 DEF validUIMemAddr, ReadStart, Code, Within
  <1> QED BY <1>2, <1>3 DEF Modes

(* Code of either mode is never writable, not even for the kernel. *)
LEMMA CodeNotWritable ==
  ASSUME NEW mode \in Modes, NEW addr \in Address, Code(mode, addr, 4),
         NEW k \in 0 .. 3
  PROVE  /\ addr + k \in Address
         /\ ~Writable("kernel", addr + k, 1) /\ ~Writable("user", addr + k, 1)
  BY MapFacts DEF Code, Writable, Within, Address, Modes

(* FetchIsCode for every memory map: nothing that runs can change what     *)
(* runs, and user code runs from its text and the system libraries only.   *)
THEOREM OnlyCodeRuns == Spec => []FetchIsCode
  <1>1. Init => FetchIsCode
    BY DEF Init, Nothing, FetchIsCode
  <1>2. TypeOK /\ Fixed /\ FetchIsCode /\ [Next]_vars => FetchIsCode'
    <2> SUFFICES ASSUME TypeOK, Fixed, FetchIsCode, [Next]_vars PROVE FetchIsCode'
      OBVIOUS
    <2>1. ASSUME NEW addr \in Address, imem(addr) PROVE FetchIsCode'
      <3> DEFINE valid == IF priv = "kernel" THEN validKIMemAddr(addr)
                          ELSE validUIMemAddr(addr)
                 err == IF valid THEN ReadErr(priv, addr, 4) ELSE "section"
      <3>1. Read("fetch", addr, 4, err)
        BY <2>1 DEF imem
      <3>2. last'.addr = addr /\ last'.mode = priv
        BY <3>1 DEF Read, Note
      <3>3. SUFFICES ASSUME last'.err = "none", addr % 4 = 0
                     PROVE  /\ Code(priv, addr, 4)
                            /\ \A k \in 0 .. 3 : last'.val[k] = << Loaded, 0 >>
        BY <3>2 DEF FetchIsCode
      <3>4. err = "none"
        BY <3>1, <3>3 DEF Read, Note
      <3>5. valid /\ ReadStart(priv, addr)
        BY <3>4 DEF ReadErr
      <3>6. Code(priv, addr, 4)
        BY <3>3, <3>5, FetchInCode DEF TypeOK
      <3>7. \A k \in 0 .. 3 : addr + k \in Address /\ mem[addr + k] = << Loaded, 0 >>
        BY <3>6, CodeNotWritable DEF TypeOK, Fixed
      <3>8. ~OutsideMapping(addr)
        BY <3>7, MapFacts DEF OutsideMapping, Address
      <3>9. PICK top \in {mem[addr + 3]} : last'.val = Value(addr, 4, top)
        BY <3>1, <3>4, <3>8 DEF Read, Note, TopByte
      <3>10. \A k \in 0 .. 3 : last'.val[k] = mem[addr + k]
        BY <3>7, <3>9, MapFacts DEF Value, Sources, Wrap, Address
      <3> QED BY <3>6, <3>7, <3>10
    <2>2. ASSUME NEW addr \in Address, NEW w \in Widths, dmemRead(addr, w)
          PROVE  FetchIsCode'
      BY <2>2 DEF dmemRead, Read, Note, FetchIsCode
    <2>3. ASSUME NEW addr \in Address, NEW w \in Widths, NEW d \in Data,
                 dmemWrite(addr, w, d)
          PROVE  FetchIsCode'
      BY <2>3 DEF dmemWrite, Note, FetchIsCode
    <2>4. CASE SwitchMode \/ UNCHANGED vars
      BY <2>4 DEF SwitchMode, vars, FetchIsCode
    <2> QED BY <2>1, <2>2, <2>3, <2>4 DEF Next
  <1> QED BY <1>1, <1>2, MemoryTypes, CodeStays, PTL DEF Spec
(* The first address of a load is tested against the sections of its mode. *)
LEMMA StartReadable ==
  ASSUME NEW mode \in Modes, NEW x \in Address
  PROVE  ReadStart(mode, x) <=> Readable(mode, x, 1)
  <1>1. CASE mode = "kernel"
    BY <1>1, MapFacts DEF Readable, Within, ReadStart, Address
  <1>2. CASE mode = "user"
    BY <1>2, MapFacts DEF Readable, Within, ReadStart, Address
  <1> QED BY <1>1, <1>2 DEF Modes

(* A load that is on a readable byte leaves its section only over a        *)
(* boundary that is tested.                                                *)
LEMMA NextReadable ==
  ASSUME NEW mode \in Modes, NEW x \in Address,
         Readable(mode, x, 1), Wrap(x + 1) \notin ReadCrossing(mode)
  PROVE  Wrap(x + 1) = x + 1 /\ x + 1 \in Address /\ Readable(mode, x + 1, 1)
  <1>1. CASE mode = "kernel"
    BY <1>1, MapFacts DEF Readable, Within, Wrap, ReadCrossing, Address
  <1>2. CASE mode = "user"
    BY <1>2, MapFacts DEF Readable, Within, Wrap, ReadCrossing, Address
  <1> QED BY <1>1, <1>2 DEF Modes

(* A word on its boundary lies within one section, or its first byte lies  *)
(* in none.                                                                *)
LEMMA AlignedReadable ==
  ASSUME NEW mode \in Modes, NEW addr \in Address, addr % 4 = 0
  PROVE  Readable(mode, addr, 1) <=> Readable(mode, addr, 4)
  <1> USE MapFacts, Boundaries DEF Address
  <1>1. /\ addr < SYS_LIB => addr + 4 <= SYS_LIB
        /\ addr < SYS_LIB_END => addr + 4 <= SYS_LIB_END
        /\ addr < USER_HEAP_END => addr + 4 <= USER_HEAP_END
        /\ addr < USER_STACK_END => addr + 4 <= USER_STACK_END
        /\ addr < MemTop => addr + 4 <= MemTop
    BY AlignedBelow
  <1>2. CASE mode = "kernel"
    BY <1>1, <1>2 DEF Readable, Within
  <1>3. CASE mode = "user"
    BY <1>1, <1>3 DEF Readable, Within
  <1> QED BY <1>2, <1>3 DEF Modes

(* No byte of a readable word on its boundary is at a tested address.      *)
LEMMA AlignedCrossesNot ==
  ASSUME NEW mode \in Modes, NEW addr \in Address, addr % 4 = 0,
         Readable(mode, addr, 4), NEW k \in 0 .. 2
  PROVE  Wrap(addr + k) \notin ReadCrossing(mode)
  <1> USE MapFacts, Boundaries DEF Address
  <1>1. addr + 4 <= MemTop
    BY DEF Readable, Within, Modes
  <1>2. Wrap(addr + k) = addr + k
    BY <1>1 DEF Wrap
  <1>3. CASE mode = "kernel"
    BY <1>2, <1>3 DEF ReadCrossing, Readable, Within
  <1>4. CASE mode = "user"
    BY <1>2, <1>4 DEF ReadCrossing, Readable, Within
  <1> QED BY <1>3, <1>4 DEF Modes

(* A word on its boundary is refused exactly where it is not readable.     *)
LEMMA AlignedVerdict ==
  ASSUME NEW mode \in Modes, NEW addr \in Address, addr % 4 = 0
  PROVE  /\ ReadErr(mode, addr, 4) = "none" <=> Readable(mode, addr, 4)
         /\ ~OutsideMapping(addr)
  <1>1. ReadStart(mode, addr) <=> Readable(mode, addr, 4)
    BY AlignedReadable, StartReadable
  <1>2. ASSUME Readable(mode, addr, 4), LoadCrosses(addr, 4, ReadCrossing(mode))
        PROVE  FALSE
    <2>1. PICK k \in 0 .. 4 - 2 : Wrap(addr + k) \in ReadCrossing(mode)
      BY <1>2 DEF LoadCrosses
    <2>2. k \in 0 .. 2
      OBVIOUS
    <2> QED BY <1>2, <2>1, <2>2, AlignedCrossesNot
  <1>3. ReadErr(mode, addr, 4) = "none" <=> Readable(mode, addr, 4)
    BY <1>1, <1>2 DEF ReadErr
  <1>4. ~OutsideMapping(addr)
    BY MapFacts, Boundaries, AlignedBelow DEF OutsideMapping, Address
  <1> QED BY <1>3, <1>4

(* A load that is not refused takes its bytes from readable places, but    *)
(* for the highest one of a load off a word boundary.                      *)
LEMMA LoadedReadable ==
  ASSUME NEW mode \in Modes, NEW addr \in Address, NEW width \in Widths,
         ReadErr(mode, addr, width) = "none",
         NEW k \in 0 .. width - 1, k # width - 1 \/ addr % 4 = 0
  PROVE  Readable(mode, Wrap(Sources(addr, width)[k]), 1)
  <1> USE MapFacts
  <1>1. /\ Readable(mode, addr, 1)
        /\ \A j \in 0 .. width - 2 : Wrap(addr + j) \notin ReadCrossing(mode)
    BY StartReadable DEF ReadErr, LoadCrosses
  <1>2. CASE addr % 4 = 0
    <2>0. Readable(mode, addr, 4)
      BY <1>2, <1>1, AlignedReadable
    <2>1. Readable(mode, addr, 4) /\ addr + 4 <= MemTop
      BY <2>0 DEF Readable, Within, Modes, Address
    <2>2. Sources(addr, width)[k] \in addr .. addr + 3
      BY DEF Sources, Widths, Address
    <2>3. Wrap(Sources(addr, width)[k]) = Sources(addr, width)[k]
      BY <2>1, <2>2 DEF Wrap, Address
    <2>4. ASSUME NEW j \in addr .. addr + 3 PROVE Readable(mode, j, 1)
      BY <2>1 DEF Readable, Within, Modes, Address
    <2> QED BY <2>2, <2>3, <2>4
  <1>3. CASE k # width - 1
    <2>1. k \in {0, 1, 2} /\ k <= width - 2 /\ Sources(addr, width)[k] = addr + k
      BY <1>3 DEF Sources, Widths
    <2>2. ASSUME k >= 1
          PROVE  addr + 1 \in Address /\ Readable(mode, addr + 1, 1) /\ Wrap(addr + 1) = addr + 1
      <3>1. 1 \in 0 .. width - 2
        BY <2>1, <2>2 DEF Widths
      <3> QED BY <3>1, <1>1, NextReadable
    <2>3. ASSUME k >= 2
          PROVE  addr + 2 \in Address /\ Readable(mode, addr + 2, 1) /\ Wrap(addr + 2) = addr + 2
      <3> DEFINE x == addr + 1
      <3>1. 2 \in 0 .. width - 2 /\ x + 1 = addr + 2
        BY <2>1, <2>3 DEF Widths, Address
      <3>2. x \in Address /\ Readable(mode, x, 1) /\ Wrap(x + 1) \notin ReadCrossing(mode)
        BY <2>1, <2>2, <2>3, <3>1, <1>1
      <3> HIDE DEF x
      <3> QED BY <3>1, <3>2, NextReadable
    <2>4. CASE k = 0
      BY <2>1, <2>4, <1>1 DEF Wrap, Address
    <2> QED BY <2>1, <2>2, <2>3, <2>4
  <1> QED BY <1>2, <1>3

(* LoadVerdict for every memory map: what a load may take its bytes from,  *)
(* and that aligned words are refused only where they are not readable.    *)
THEOREM LoadsReadable == Spec => []LoadVerdict
  <1>1. Init => LoadVerdict
    BY DEF Init, Nothing, LoadVerdict
  <1>2. TypeOK /\ LoadVerdict /\ [Next]_vars => LoadVerdict'
    <2> SUFFICES ASSUME TypeOK, LoadVerdict, [Next]_vars PROVE LoadVerdict'
      OBVIOUS
    <2>1. ASSUME NEW addr \in Address, imem(addr) PROVE LoadVerdict'
      BY <2>1 DEF imem, Read, Note, LoadVerdict
    <2>2. ASSUME NEW addr \in Address, NEW w \in Widths, dmemRead(addr, w)
          PROVE  LoadVerdict'
      <3> DEFINE err == ReadErr(priv, addr, w)
      <3>1. /\ last'.op = "load" /\ last'.addr = addr /\ last'.width = w
            /\ last'.mode = priv
            /\ \/ last'.err = err
               \/ OutsideMapping(addr) /\ last'.err = "segv"
        BY <2>2 DEF dmemRead, Read, Note
      <3>2. last'.err = "none" => err = "none"
        BY <3>1
      <3>3. priv \in Modes
        BY DEF TypeOK
      <3>4. ASSUME last'.err = "none", NEW k \in 0 .. w - 1,
                   ~(k = w - 1 /\ addr % 4 # 0)
            PROVE  Readable(priv, Wrap(Sources(addr, w)[k]), 1)
        BY <3>2, <3>3, <3>4, LoadedReadable
      <3>5. w = 4 /\ addr % 4 = 0 =>
              (last'.err = "none" <=> Readable(priv, addr, 4))
        BY <3>1, <3>3, AlignedVerdict
      <3> QED BY <3>1, <3>4, <3>5 DEF LoadVerdict
    <2>3. ASSUME NEW addr \in Address, NEW w \in Widths, NEW d \in Data,
                 dmemWrite(addr, w, d)
          PROVE  LoadVerdict'
      BY <2>3 DEF dmemWrite, Note, LoadVerdict
    <2>4. CASE SwitchMode \/ UNCHANGED vars
      BY <2>4 DEF SwitchMode, vars, LoadVerdict
    <2> QED BY <2>1, <2>2, <2>3, <2>4 DEF Next
  <1> QED BY <1>1, <1>2, MemoryTypes, PTL DEF Spec

(* The last word that was stored whole is in memory, byte by byte.         *)
InPlace ==
  stored.valid =>
    \A k \in 0 .. 3 : /\ stored.addr + k \in Address
                      /\ mem[stored.addr + k] = << stored.word, k >>

(* A word store that is not refused puts all of its four bytes in place.   *)
LEMMA WordStored ==
  ASSUME TypeOK, NEW addr \in Address, NEW d \in Data,
         WriteErr(priv, addr, 4) = "none", NEW k \in 0 .. 3
  PROVE  addr + k \in Address /\ AfterStore(addr, 4, d, priv)[addr + k] = << d, k >>
  <1> DEFINE W == Written(addr, 4, priv)
  <1>1. W = 0 .. 3 /\ WriteStart(priv, addr) /\ 4 \in Widths
    BY DEF WriteErr, StoreCrosses, Written, Widths
  <1>2. \A j \in W : Wrap(addr + j) = addr + j /\ addr + j \in Address
    BY <1>1, WrittenContained DEF TypeOK
  <1>3. addr \in Nat
    BY MapFacts DEF Address
  <1>4. \A j \in W : addr + k = Wrap(addr + j) <=> j = k
    BY <1>1, <1>2, <1>3
  <1>5. k \in W /\ addr + k = Wrap(addr + k)
    BY <1>1, <1>2
  <1> HIDE DEF W
  <1>6. (CHOOSE j \in W : addr + k = Wrap(addr + j)) = k
    BY <1>4, <1>5
  <1>7. AfterStore(addr, 4, d, priv)[addr + k] =
          << d, CHOOSE j \in W : addr + k = Wrap(addr + j) >>
    BY <1>2, <1>5 DEF AfterStore, W
  <1> QED BY <1>2, <1>5, <1>6, <1>7

LEMMA InPlaceStep == TypeOK /\ InPlace /\ [Next]_vars => InPlace'
  <1> SUFFICES ASSUME TypeOK, InPlace, [Next]_vars PROVE InPlace'
    OBVIOUS
  <1>1. ASSUME NEW addr \in Address, imem(addr) PROVE InPlace'
    BY <1>1 DEF imem, Read, InPlace
  <1>2. ASSUME NEW addr \in Address, NEW w \in Widths, dmemRead(addr, w)
        PROVE  InPlace'
    BY <1>2 DEF dmemRead, Read, InPlace
  <1>3. ASSUME NEW addr \in Address, NEW w \in Widths, NEW d \in Data,
               dmemWrite(addr, w, d), stored'.valid
        PROVE  InPlace'
    <2>1. WriteErr(priv, addr, w) = "none" /\ w = 4
          /\ stored'.addr = addr /\ stored'.word = d
      BY <1>3 DEF dmemWrite
    <2>2. mem' = AfterStore(addr, 4, d, priv)
      BY <1>3, <2>1 DEF dmemWrite
    <2> QED BY <2>1, <2>2, WordStored DEF InPlace
  <1>4. CASE SwitchMode \/ UNCHANGED vars
    BY <1>4 DEF SwitchMode, vars, InPlace
  <1> QED BY <1>1, <1>2, <1>3, <1>4 DEF Next, InPlace

(* WordReadBack for every memory map: a load finds the word that was       *)
(* stored whole, whatever was read and whatever mode ran in between.       *)
THEOREM WordsReadBack == Spec => []WordReadBack
  <1>1. Init => InPlace /\ WordReadBack
    BY DEF Init, Nothing, InPlace, WordReadBack
  <1>2. TypeOK /\ InPlace /\ WordReadBack /\ [Next]_vars => WordReadBack'
    <2> SUFFICES ASSUME TypeOK, InPlace, WordReadBack, [Next]_vars
                 PROVE  WordReadBack'
      OBVIOUS
    <2>1. ASSUME NEW addr \in Address, imem(addr) PROVE WordReadBack'
      BY <2>1 DEF imem, Read, Note, WordReadBack
    <2>2. ASSUME NEW addr \in Address, dmemRead(addr, 4), last'.err = "none",
                 stored.valid, stored.addr = addr, NEW k \in 0 .. 3
          PROVE  last'.val[k] = << stored.word, k >>
      <3>1. \A j \in 0 .. 3 : addr + j \in Address /\ mem[addr + j] = << stored.word, j >>
        BY <2>2 DEF InPlace
      <3>2. ~OutsideMapping(addr)
        BY <3>1, MapFacts DEF OutsideMapping, Address
      <3>3. last'.val = Value(addr, 4, mem[addr + 3])
        BY <2>2, <3>2 DEF dmemRead, Read, Note, TopByte
      <3>4. last'.val[k] = mem[addr + k]
        BY <3>1, <3>3, MapFacts DEF Value, Sources, Wrap, Address
      <3> QED BY <3>1, <3>4
    <2>3. ASSUME NEW addr \in Address, NEW w \in Widths, dmemRead(addr, w)
          PROVE  WordReadBack'
      <3>1. stored' = stored /\ last'.addr = addr /\ last'.width = w
        BY <2>3 DEF dmemRead, Read, Note
      <3> QED BY <2>2, <2>3, <3>1 DEF WordReadBack
    <2>4. ASSUME NEW addr \in Address, NEW w \in Widths, NEW d \in Data,
                 dmemWrite(addr, w, d)
          PROVE  WordReadBack'
      BY <2>4 DEF dmemWrite, Note, WordReadBack
    <2>5. CASE SwitchMode \/ UNCHANGED vars
      BY <2>5 DEF SwitchMode, vars, WordReadBack
    <2> QED BY <2>1, <2>3, <2>4, <2>5 DEF Next
  <1> QED BY <1>1, <1>2, InPlaceStep, MemoryTypes, PTL DEF Spec
===============================================================================
