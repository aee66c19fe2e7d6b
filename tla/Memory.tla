-------------------------------- MODULE Memory --------------------------------
(***************************************************************************)
(* The emulated memory as the core sees it: instruction fetches (imem),    *)
(* loads and stores (dmem) with the permission tests of mem.c in kernel    *)
(* and in user mode, and what fetch() and memory() make of a refusal.      *)
(*                                                                         *)
(* An access is one step: nothing else uses the memory while the core runs *)
(* (module Aru).  A stored word is a token d, and its byte k is <<d, k>>,  *)
(* so that a property can tell where a byte came from and in which order.  *)
(***************************************************************************)
EXTENDS Integers

(* The memory map of mem.h.  Limits are inclusive there; here every region *)
(* ends before the start of the next one.                                  *)
CONSTANTS
  EVT_START, SYS_LIB, SYS_LIB_END,
  USER_BSS, USER_CONST, USER_DATA, USER_TEXT, USER_HEAP, USER_HEAP_END,
  USER_STACK, USER_STACK_END,
  KERN_DATA, KERN_TEXT, KERN_HEAP, KERN_STACK,
  MemTop,      \* 2^32
  Data,        \* words that programs store
  MaxAccess    \* bound on the number of accesses

Bounds == << EVT_START, SYS_LIB, SYS_LIB_END, USER_BSS, USER_CONST, USER_DATA,
             USER_TEXT, USER_HEAP, USER_HEAP_END, USER_STACK, USER_STACK_END,
             KERN_DATA, KERN_TEXT, KERN_HEAP, KERN_STACK, MemTop >>

(* Every boundary of mem.h is a multiple of four; no region and no gap     *)
(* between two regions is empty, and address 0 belongs to none.            *)
ASSUME LayoutAssumption ==
  /\ EVT_START \in Nat /\ SYS_LIB \in Nat /\ SYS_LIB_END \in Nat
  /\ USER_BSS \in Nat /\ USER_CONST \in Nat /\ USER_DATA \in Nat
  /\ USER_TEXT \in Nat /\ USER_HEAP \in Nat /\ USER_HEAP_END \in Nat
  /\ USER_STACK \in Nat /\ USER_STACK_END \in Nat /\ KERN_DATA \in Nat
  /\ KERN_TEXT \in Nat /\ KERN_HEAP \in Nat /\ KERN_STACK \in Nat
  /\ MemTop \in Nat
  /\ 4 <= EVT_START /\ EVT_START + 4 <= SYS_LIB /\ SYS_LIB + 4 <= SYS_LIB_END
  /\ SYS_LIB_END + 4 <= USER_BSS /\ USER_BSS + 4 <= USER_CONST
  /\ USER_CONST + 4 <= USER_DATA /\ USER_DATA + 4 <= USER_TEXT
  /\ USER_TEXT + 4 <= USER_HEAP /\ USER_HEAP + 4 <= USER_HEAP_END
  /\ USER_HEAP_END + 4 <= USER_STACK /\ USER_STACK + 4 <= USER_STACK_END
  /\ USER_STACK_END + 4 <= KERN_DATA /\ KERN_DATA + 4 <= KERN_TEXT
  /\ KERN_TEXT + 4 <= KERN_HEAP /\ KERN_HEAP + 4 <= KERN_STACK
  /\ KERN_STACK + 4 <= MemTop
ASSUME AlignmentAssumption == \A k \in DOMAIN Bounds : Bounds[k] % 4 = 0
ASSUME MaxAccessAssumption == MaxAccess \in Nat

VARIABLES
  mem,      \* address -> byte
  priv,     \* privilege bit of CSTR
  alive,    \* FALSE behind fault() and behind an access outside the mapping
  last,     \* the last access
  stored,   \* the last word that a store has put in place, whole
  accesses  \* number of accesses

vars == << mem, priv, alive, last, stored, accesses >>

Address == 0 .. MemTop - 1
Widths  == {1, 2, 4}
Loaded  == "loaded"      \* the token of what was there at the beginning
Byte    == (Data \cup {Loaded}) \X (0 .. 3)
Modes   == {"kernel", "user"}

Nothing == [op |-> "none", addr |-> 0, width |-> 4, mode |-> "kernel",
            err |-> "none", val |-> [k \in 0 .. 3 |-> << Loaded, 0 >>]]

(* err: refused because of the first address (section), or of one that     *)
(* belongs to another section (crossing); segv: the processor is killed.   *)
Access == [op : {"none", "fetch", "load", "store"}, addr : Address,
           width : Widths, mode : Modes, err : {"none", "section", "crossing", "segv"},
           val : [0 .. 3 -> Byte]]

TypeOK ==
  /\ mem \in [Address -> Byte]
  /\ priv \in Modes
  /\ alive \in BOOLEAN
  /\ last \in Access
  /\ stored \in [valid : BOOLEAN, addr : Address, word : Data \cup {Loaded}]
  /\ accesses \in 0 .. MaxAccess

(* The processor starts in the kernel; loader and setupKernel are done.    *)
Init ==
  /\ mem = [a \in Address |-> << Loaded, 0 >>]
  /\ priv = "kernel"
  /\ alive = TRUE
  /\ last = Nothing
  /\ stored = [valid |-> FALSE, addr |-> 0, word |-> Loaded]
  /\ accesses = 0

-----------------------------------------------------------------------------
(* The tests of the first address.                                         *)

validKIMemAddr(addr) ==
  \/ KERN_TEXT <= addr /\ addr < KERN_HEAP
  \/ SYS_LIB <= addr /\ addr < SYS_LIB_END
  \/ EVT_START <= addr /\ addr < SYS_LIB

(* Deviation: user code may also run from its heap. *)
UserHeapRuns(addr) == USER_TEXT <= addr /\ addr < USER_HEAP_END

(* The lower bound of the system libraries is not compared with addr.      *)
validUIMemAddr(addr) ==
  \/ USER_TEXT <= addr /\ addr < USER_HEAP
  \/ addr < SYS_LIB_END /\ SYS_LIB # 0

(* Deviation: the gap below the user's space is not tested. *)
GapReadable(mode, addr) ==
  IF mode = "kernel"
  THEN \/ SYS_LIB <= addr /\ addr < SYS_LIB_END
       \/ KERN_DATA <= addr /\ addr < MemTop
       \/ EVT_START <= addr /\ addr < SYS_LIB
  ELSE ~ \/ USER_HEAP_END <= addr /\ addr < USER_STACK
         \/ addr >= USER_STACK_END
         \/ addr < SYS_LIB

ReadStart(mode, addr) ==
  IF mode = "kernel"
  THEN \/ SYS_LIB <= addr /\ addr < SYS_LIB_END
       \/ KERN_DATA <= addr /\ addr < MemTop
       \/ EVT_START <= addr /\ addr < SYS_LIB
  ELSE ~ \/ USER_HEAP_END <= addr /\ addr < USER_STACK
         \/ addr >= USER_STACK_END
         \/ addr < SYS_LIB
         \/ SYS_LIB_END <= addr /\ addr < USER_BSS

WriteStart(mode, addr) ==
  IF mode = "kernel"
  THEN addr >= KERN_DATA /\ ~(KERN_TEXT <= addr /\ addr < KERN_HEAP)
  ELSE /\ ~ \/ addr < USER_BSS
            \/ USER_HEAP_END <= addr /\ addr < USER_STACK
            \/ addr >= USER_STACK_END
       /\ ~(USER_TEXT <= addr /\ addr < USER_HEAP)
       /\ ~(USER_CONST <= addr /\ addr < USER_DATA)

(* The addresses that a further byte of an access must not be at.          *)
ReadCrossing(mode) ==
  IF mode = "kernel"
  THEN {SYS_LIB_END, SYS_LIB - 1, 0, KERN_DATA - 1}
  ELSE {USER_HEAP_END, USER_STACK - 1, USER_STACK_END, USER_BSS - 1,
        SYS_LIB_END, SYS_LIB - 1}

(* Deviation: the end of the user's data is not tested. *)
DataOverflow(mode) ==
  IF mode = "kernel"
  THEN {KERN_TEXT, KERN_HEAP - 1, KERN_DATA - 1, 0, KERN_STACK, KERN_STACK - 1}
  ELSE {USER_CONST, USER_BSS - 1, USER_DATA - 1, USER_HEAP - 1,
        USER_STACK_END, USER_HEAP_END, USER_STACK - 1}

WriteCrossing(mode) ==
  IF mode = "kernel"
  THEN {KERN_TEXT, KERN_HEAP - 1, KERN_DATA - 1, 0, KERN_STACK, KERN_STACK - 1}
  ELSE {USER_CONST, USER_BSS - 1, USER_TEXT, USER_DATA - 1, USER_HEAP - 1,
        USER_STACK_END, USER_HEAP_END, USER_STACK - 1}

-----------------------------------------------------------------------------
(* Addresses have 32 bits. *)
Wrap(a) == IF a < MemTop THEN a ELSE a - MemTop

(* Deviation: the further bytes are taken from the other end. *)
SwappedSources(addr, width) ==
  [k \in 0 .. width - 1 |-> IF k = width - 1 THEN addr + 3 ELSE addr + width - 2 - k]

(* The addresses that _memRead takes the value from, by the significance   *)
(* of the byte: the first byte is the one at addr + 3, whatever the width. *)
Sources(addr, width) ==
  [k \in 0 .. width - 1 |-> IF k = width - 1 THEN addr + 3 ELSE addr + k]

(* Some byte of the access, other than the first one, is at a bad address; *)
(* for a load the bytes 0 .. width - 2, for a store 1 .. width - 1.        *)
LoadCrosses(addr, width, bad) == \E k \in 0 .. width - 2 : Wrap(addr + k) \in bad
StoreCrosses(addr, width, bad) == \E k \in 1 .. width - 1 : Wrap(addr + k) \in bad

ReadErr(mode, addr, width) ==
  IF ~ReadStart(mode, addr) THEN "section"
  ELSE IF LoadCrosses(addr, width, ReadCrossing(mode)) THEN "crossing" ELSE "none"

(* Deviation: only the last byte is tested. *)
LastByteErr(mode, addr, width) ==
  IF ~WriteStart(mode, addr) THEN "section"
  ELSE IF width > 1 /\ Wrap(addr + width - 1) \in WriteCrossing(mode)
       THEN "crossing" ELSE "none"

WriteErr(mode, addr, width) ==
  IF ~WriteStart(mode, addr) THEN "section"
  ELSE IF StoreCrosses(addr, width, WriteCrossing(mode)) THEN "crossing" ELSE "none"

(* The bytes of a store that are in memory when _memWrite returns: those   *)
(* in front of the first crossing.                                         *)
Written(addr, width, mode) ==
  {k \in 0 .. width - 1 :
     \A j \in 1 .. k : Wrap(addr + j) \notin WriteCrossing(mode)}

(* Deviation: the bytes of the word are counted from one. *)
ShiftedStore(addr, width, d, mode) ==
  [a \in Address |->
     IF \E k \in Written(addr, width, mode) : a = Wrap(addr + k)
     THEN << d, 1 + CHOOSE k \in Written(addr, width, mode) : a = Wrap(addr + k) >>
     ELSE mem[a]]

AfterStore(addr, width, d, mode) ==
  [a \in Address |->
     IF \E k \in Written(addr, width, mode) : a = Wrap(addr + k)
     THEN << d, CHOOSE k \in Written(addr, width, mode) : a = Wrap(addr + k) >>
     ELSE mem[a]]

(* fetch() and memory() on an error: fault() in the kernel, the exception  *)
(* vector for the user.                                                    *)
Refused(err) ==
  /\ priv' = IF err = "none" THEN priv ELSE "kernel"
  /\ alive' = (err = "none" \/ priv = "user")

(* The byte at addr + 3 is read before anything but the start is tested.   *)
(* What lies behind the mapping is unknown: the read ends the process or   *)
(* gives some byte.                                                        *)
OutsideMapping(addr) == addr + 3 >= MemTop
TopByte(addr) == IF OutsideMapping(addr) THEN Byte ELSE {mem[addr + 3]}

Value(addr, width, top) ==
  [k \in 0 .. 3 |-> IF k >= width THEN << Loaded, 0 >>
                    ELSE IF Sources(addr, width)[k] = addr + 3 THEN top
                    ELSE mem[Wrap(Sources(addr, width)[k])]]

Note(op, addr, width, err, val) ==
  last' = [op |-> op, addr |-> addr, width |-> width, mode |-> priv,
           err |-> err, val |-> val]

Read(op, addr, width, err) ==
  /\ UNCHANGED << mem, stored >>
  /\ \/ \E top \in TopByte(addr) :
          /\ Note(op, addr, width, err,
                  IF err = "none" THEN Value(addr, width, top) ELSE Nothing.val)
          /\ Refused(err)
     \/ /\ err # "section" /\ OutsideMapping(addr)
        /\ Note(op, addr, width, "segv", Nothing.val)
        /\ alive' = FALSE
        /\ UNCHANGED priv

Running == alive /\ accesses < MaxAccess /\ accesses' = accesses + 1

dmemRead(addr, width) ==
  Running /\ Read("load", addr, width, ReadErr(priv, addr, width))

dmemWrite(addr, width, d) ==
  LET err == WriteErr(priv, addr, width) IN
  /\ Running
  /\ mem' = IF err = "section" THEN mem ELSE AfterStore(addr, width, d, priv)
  /\ stored' = [valid |-> err = "none" /\ width = 4, addr |-> addr, word |-> d]
  /\ Note("store", addr, width, err, Nothing.val)
  /\ Refused(err)

imem(addr) ==
  LET valid == IF priv = "kernel" THEN validKIMemAddr(addr)
               ELSE validUIMemAddr(addr) IN
  Running /\ Read("fetch", addr, 4, IF valid THEN ReadErr(priv, addr, 4) ELSE "section")

(* eret, and a system call or an invalid instruction of the user. *)
SwitchMode ==
  /\ alive
  /\ priv' = IF priv = "kernel" THEN "user" ELSE "kernel"
  /\ UNCHANGED << mem, alive, last, stored, accesses >>

Next ==
  \/ \E addr \in Address : imem(addr)
  \/ \E addr \in Address, w \in Widths : dmemRead(addr, w)
  \/ \E addr \in Address, w \in Widths, d \in Data : dmemWrite(addr, w, d)
  \/ SwitchMode

Spec == Init /\ [][Next]_vars

-----------------------------------------------------------------------------
(* What the memory map promises.                                           *)

Within(lo, hi, addr, width) == lo <= addr /\ addr + width <= hi

Writable(mode, addr, width) ==
  IF mode = "kernel"
  THEN \/ Within(KERN_DATA, KERN_TEXT, addr, width)
       \/ Within(KERN_HEAP, KERN_STACK, addr, width)
       \/ Within(KERN_STACK, MemTop, addr, width)
  ELSE \/ Within(USER_BSS, USER_CONST, addr, width)
       \/ Within(USER_DATA, USER_TEXT, addr, width)
       \/ Within(USER_HEAP, USER_HEAP_END, addr, width)
       \/ Within(USER_STACK, USER_STACK_END, addr, width)

Readable(mode, addr, width) ==
  \/ Within(SYS_LIB, SYS_LIB_END, addr, width)
  \/ IF mode = "kernel"
     THEN \/ Within(EVT_START, SYS_LIB, addr, width)
          \/ Within(KERN_DATA, MemTop, addr, width)
     ELSE \/ Within(USER_BSS, USER_HEAP_END, addr, width)
          \/ Within(USER_STACK, USER_STACK_END, addr, width)

Code(mode, addr, width) ==
  \/ Within(SYS_LIB, SYS_LIB_END, addr, width)
  \/ IF mode = "kernel"
     THEN \/ Within(EVT_START, SYS_LIB, addr, width)
          \/ Within(KERN_TEXT, KERN_HEAP, addr, width)
     ELSE Within(USER_TEXT, USER_HEAP, addr, width)

(* A step changes only bytes that the mode it runs in may write: whatever  *)
(* the start, the width and the alignment, a user program never changes    *)
(* code, constants, a gap or the kernel, the kernel never its own code or  *)
(* anything below it.  Each crossing has a test of its own in _memWrite.   *)
WriteContained ==
  [][\A a \in Address : mem'[a] # mem[a] => Writable(priv, a, 1)]_vars

(* _memWrite reports success exactly for the stores that lie within one    *)
(* writable section; only a wide store that ends with the last byte of the *)
(* kernel's heap is taken for one that comes from the stack, and refused.  *)
StoreVerdict ==
  last.op = "store" =>
    (last.err = "none" <=>
       /\ Writable(last.mode, last.addr, last.width)
       /\ ~ /\ last.mode = "kernel" /\ last.width > 1
            /\ last.addr + last.width = KERN_STACK)

(* A load that succeeds takes every byte from where its mode may read; off *)
(* a word boundary its highest byte, which _memRead does not test, may be  *)
(* one of the next section.  A word on its boundary is refused only where  *)
(* it is not readable.                                                     *)
LoadVerdict ==
  last.op = "load" =>
    /\ last.err = "none" =>
         \A k \in 0 .. last.width - 1 :
           \/ Readable(last.mode, Wrap(Sources(last.addr, last.width)[k]), 1)
           \/ k = last.width - 1 /\ last.addr % 4 # 0
    /\ last.width = 4 /\ last.addr % 4 = 0 =>
         (last.err = "none" <=> Readable(last.mode, last.addr, 4))

(* An instruction fetched from a word boundary is one that was loaded into *)
(* a code section of the mode: nothing that runs can write what runs.  The *)
(* vector is no code for the user although validUIMemAddr accepts it,      *)
(* because _memRead tests the address again.                               *)
FetchIsCode ==
  last.op = "fetch" /\ last.err = "none" /\ last.addr % 4 = 0 =>
    /\ Code(last.mode, last.addr, 4)
    /\ \A k \in 0 .. 3 : last.val[k] = << Loaded, 0 >>

(* A word that was stored whole is read back as it was, in any mode that   *)
(* may read it: _memRead assembles the bytes in the order of _memWrite.    *)
WordReadBack ==
  last.op = "load" /\ last.err = "none" /\ last.width = 4
    /\ stored.valid /\ stored.addr = last.addr =>
      \A k \in 0 .. 3 : last.val[k] = << stored.word, k >>
===============================================================================
