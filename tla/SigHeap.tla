-------------------------------- MODULE SigHeap --------------------------------
(***************************************************************************)
(* The allocator of the signal heap (sigHeap.c): one shared page of blocks *)
(* with a 16-byte header each, chained by offset into a free list.         *)
(* smalloc looks for a best fit, splits it and never merges; sfree puts a  *)
(* block back, in address order behind the first free one.                 *)
(*                                                                         *)
(* A step is one iteration of a loop of findBlock or sfree, or the         *)
(* straight code behind it.  Nothing runs concurrently here: that the      *)
(* processes take turns is a property of module Aru.  Payload bytes, and   *)
(* therefore overwritten canaries, are not modelled.                       *)
(***************************************************************************)
EXTENDS Naturals

CONSTANTS
  PageSize,     \* _PAGESIZE, 4096
  Requests      \* the sizes that clients ask for

METADATA_SIZE == 16
ALIGNMENT == 8

ASSUME PageSizeAssumption == PageSize \in Nat /\ PageSize >= 2 * METADATA_SIZE
ASSUME RequestsAssumption == Requests \subseteq Nat \ {0}

VARIABLES
  heap,    \* offset of a block -> its header
  pc,      \* idle, or the loop that runs; segv: NULL was dereferenced
  asked,   \* the size that the caller of smalloc gave
  curr,    \* the loop's block, by its offset (0 also ends the list)
  best,    \* findBlock's currBest (0: NULL)
  freed,   \* sfree's blockToFree
  live     \* block -> the size its owner asked for, until it is freed

vars == << heap, pc, asked, curr, best, freed, live >>

START == 0

(* What an allocated block has in the place of its next offset. *)
CANARY == PageSize

(* Deviation: requests are rounded down. *)
AlignDown(x) == (x \div ALIGNMENT) * ALIGNMENT

Align(x) == ((x + (ALIGNMENT - 1)) \div ALIGNMENT) * ALIGNMENT
Req == Align(asked)

Block(size, flags, next) == [size |-> size, flags |-> flags, next |-> next]
Header == [size : 0 .. PageSize, flags : BOOLEAN, next : 0 .. PageSize]

Free == {b \in DOMAIN heap : b # START /\ ~heap[b].flags}

(* sinit(new = true); flags says that the block is allocated. *)
Init ==
  /\ heap = [b \in {START, METADATA_SIZE} |->
               IF b = START
               THEN Block(METADATA_SIZE, FALSE, METADATA_SIZE)
               ELSE Block(PageSize - 2 * METADATA_SIZE, FALSE, 0)]
  /\ pc = "idle"
  /\ asked = 0
  /\ curr = 0
  /\ best = 0
  /\ freed = 0
  /\ live = [b \in {} |-> 0]

-----------------------------------------------------------------------------
(* smalloc *)

Malloc(n) ==
  /\ pc = "idle"
  /\ pc' = "find"
  /\ asked' = n
  /\ curr' = heap[START].next
  /\ best' = 0
  /\ UNCHANGED << heap, freed, live >>

(* Deviation: the last block that fits is taken. *)
LastFit(b) == heap[b].size >= Req

(* The block fits, and at least as well as the best one. *)
Better(b) ==
  /\ heap[b].size >= Req
  /\ best # 0 => heap[b].size <= heap[best].size

(* One iteration of findBlock.  It continues behind the best block, not    *)
(* behind the current one; there may be no best block.                     *)
FindStep ==
  /\ pc = "find" /\ curr # 0
  /\ LET b == IF Better(curr) THEN curr ELSE best IN
       /\ best' = b
       /\ IF b = 0 THEN pc' = "segv" /\ curr' = curr
                   ELSE pc' = pc /\ curr' = heap[b].next
  /\ UNCHANGED << heap, asked, freed, live >>

FindNothing ==
  /\ pc = "find" /\ curr = 0 /\ best = 0
  /\ pc' = "idle"
  /\ UNCHANGED << heap, asked, curr, best, freed, live >>

(* splitTruncate looks the block's predecessor up in the free list. *)
Previous(b) == CHOOSE a \in Free \cup {START} : heap[a].next = b

Rest == heap[best].size - Req
RestOff == best + METADATA_SIZE + Req
Splits == Rest > METADATA_SIZE + ALIGNMENT

(* Deviations: the rest is not shortened by its own header; the list skips *)
(* the rest.                                                               *)
SplitTooLong ==
  [b \in DOMAIN heap \cup {RestOff} |->
     CASE b = RestOff -> Block(Rest, FALSE, heap[best].next)
       [] b = best    -> Block(Req, TRUE, CANARY)
       [] b = Previous(best) -> [heap[b] EXCEPT !.next = RestOff]
       [] OTHER       -> heap[b]]
SplitLosesRest ==
  [b \in DOMAIN heap \cup {RestOff} |->
     CASE b = RestOff -> Block(Rest - METADATA_SIZE, FALSE, heap[best].next)
       [] b = best    -> Block(Req, TRUE, CANARY)
       [] b = Previous(best) -> [heap[b] EXCEPT !.next = heap[best].next]
       [] OTHER       -> heap[b]]

Split ==
  [b \in DOMAIN heap \cup {RestOff} |->
     CASE b = RestOff -> Block(Rest - METADATA_SIZE, FALSE, heap[best].next)
       [] b = best    -> Block(Req, TRUE, CANARY)
       [] b = Previous(best) -> [heap[b] EXCEPT !.next = RestOff]
       [] OTHER       -> heap[b]]

(* Deviation: the next offset is read after the canary has replaced it. *)
TruncateLate ==
  [heap EXCEPT ![Previous(best)].next = CANARY,
               ![best] = Block(Req, TRUE, CANARY)]

Truncate ==
  [heap EXCEPT ![Previous(best)].next = heap[best].next,
               ![best] = Block(Req, TRUE, CANARY)]

SplitTruncate ==
  /\ pc = "find" /\ curr = 0 /\ best # 0
  /\ heap' = IF Splits THEN Split ELSE Truncate
  /\ live' = [b \in DOMAIN live \cup {best} |->
                IF b = best THEN asked ELSE live[b]]
  /\ pc' = "idle"
  /\ UNCHANGED << asked, curr, best, freed >>

-----------------------------------------------------------------------------
(* sfree *)

(* Freeing a block that is free already does nothing. *)
StartFree(b) ==
  /\ pc = "idle"
  /\ b # START
  /\ heap[b].flags
  /\ pc' = "insert"
  /\ freed' = b
  /\ curr' = heap[START].next
  /\ live' = [a \in DOMAIN live \ {b} |-> live[a]]
  /\ UNCHANGED << heap, asked, best >>

Goes(b) == heap[b].next # 0 /\ heap[b].next < freed

InsertStep ==
  /\ pc = "insert" /\ Goes(curr)
  /\ curr' = heap[curr].next
  /\ UNCHANGED << heap, pc, asked, best, freed, live >>

(* Deviations: nothing points at the freed block; its next offset is read  *)
(* after it has been overwritten.                                          *)
LinkNot ==
  /\ pc = "insert" /\ ~Goes(curr)
  /\ heap' = [heap EXCEPT ![freed] = Block(@.size, FALSE, heap[curr].next)]
  /\ pc' = "idle"
  /\ UNCHANGED << asked, curr, best, freed, live >>
LinkLate ==
  /\ pc = "insert" /\ ~Goes(curr)
  /\ heap' = [heap EXCEPT ![curr].next = freed,
                          ![freed] = Block(@.size, FALSE, freed)]
  /\ pc' = "idle"
  /\ UNCHANGED << asked, curr, best, freed, live >>

Link ==
  /\ pc = "insert" /\ ~Goes(curr)
  /\ heap' = [heap EXCEPT ![curr].next = freed,
                          ![freed] = Block(@.size, FALSE, heap[curr].next)]
  /\ pc' = "idle"
  /\ UNCHANGED << asked, curr, best, freed, live >>

-----------------------------------------------------------------------------
Next ==
  \/ \E n \in Requests : Malloc(n)
  \/ FindStep \/ FindNothing \/ SplitTruncate
  \/ \E b \in DOMAIN heap : StartFree(b)
  \/ InsertStep \/ Link

Spec == Init /\ [][Next]_vars

(* A process that is in smalloc or sfree goes on. *)
FairSpec ==
  Spec /\ WF_vars(FindStep \/ FindNothing \/ SplitTruncate \/ InsertStep \/ Link)

-----------------------------------------------------------------------------
(* Every header has its type, and every offset that the code follows is    *)
(* the one of a header.                                                    *)
TypeOK ==
  /\ DOMAIN heap \subseteq 0 .. PageSize
  /\ START \in DOMAIN heap
  /\ heap \in [DOMAIN heap -> Header]
  /\ pc \in {"idle", "find", "segv", "insert"}
  /\ asked \in Requests \cup {0}
  /\ curr \in DOMAIN heap
  /\ best \in DOMAIN heap
  /\ freed \in DOMAIN heap
  /\ DOMAIN live \subseteq DOMAIN heap
  /\ live \in [DOMAIN live -> Requests]

(* Headers and payloads lie in the page and do not overlap, whatever       *)
(* sequence of smalloc and sfree has cut it up.                            *)
End(b) == b + METADATA_SIZE + heap[b].size
Disjoint ==
  /\ \A b \in DOMAIN heap \ {START} : End(b) <= PageSize
  /\ \A a, b \in DOMAIN heap \ {START} : a < b => End(a) <= b

(* Following the next offsets from START visits every free block and       *)
(* nothing else, and no two blocks have the same successor: no block is    *)
(* lost, handed out twice or part of a cycle.                              *)
Reached[n \in Nat] ==
  IF n = 0 THEN {heap[START].next} \ {0}
  ELSE Reached[n - 1] \cup ({heap[b].next : b \in Reached[n - 1]} \ {0})
FreeListExact ==
  /\ Reached[PageSize \div METADATA_SIZE] = Free
  /\ \A a, b \in Free \cup {START} :
       heap[a].next = heap[b].next => a = b

(* A payload is as long as its owner asked for, and the block is allocated *)
(* until the owner frees it.                                               *)
LiveFits ==
  \A b \in DOMAIN live : heap[b].flags /\ live[b] <= heap[b].size

(* When findBlock returns a block, no free block fits better.              *)
BestFit ==
  (pc = "find" /\ curr = 0 /\ best # 0) =>
     /\ best \in Free /\ heap[best].size >= Req
     /\ \A b \in Free : heap[b].size >= Req => heap[best].size <= heap[b].size

(* When findBlock returns NULL, nothing is free. *)
NullMeansFull == (pc = "find" /\ curr = 0 /\ best = 0) => Free = {}

(* The loop of sfree ends. *)
FreeReturns == (pc = "insert") ~> (pc = "idle")

(* "Finds a free block with a minimum size provided": findBlock returns, a *)
(* block or NULL.                                                          *)
FindReturns == (pc = "find") ~> (pc = "idle")
===============================================================================
