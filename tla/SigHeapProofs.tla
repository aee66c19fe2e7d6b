----------------------------- MODULE SigHeapProofs -----------------------------
(***************************************************************************)
(* Proofs about the signal heap, for every page size and every set of      *)
(* requests: the free list stays well formed, blocks never overlap, and a  *)
(* payload is never shorter than what its owner asked for.  The second     *)
(* half is about the list as a whole: what the next offsets reach from     *)
(* START, and what findBlock has seen when it returns.                     *)
(***************************************************************************)
EXTENDS SigHeap, Recursion, TLAPS

(* The free blocks and START: the headers whose next field is an offset.   *)
Listed == Free \cup {START}

(* The next offsets map Listed one-to-one onto the free blocks and 0, so   *)
(* that unlinking and inserting touch one predecessor, and they ascend     *)
(* behind the first free block, so that there is no cycle.  sfree never    *)
(* puts a block before the first one, which may therefore have any place.  *)
ListInv ==
  /\ ~heap[START].flags
  /\ \A b \in Listed : heap[b].next \in Listed
  /\ \A a, b \in Listed : heap[a].next = heap[b].next => a = b
  /\ \A b \in Free : \E a \in Listed : heap[a].next = b
  /\ \A b \in Free : b # heap[START].next => heap[b].next = 0 \/ heap[b].next > b

(* What the loops of findBlock and sfree hold in their variables.          *)
LoopInv ==
  /\ pc = "find" => /\ curr \in Listed /\ best \in Listed
                    /\ best # 0 => heap[best].size >= Req
                    /\ asked \in Requests
  /\ pc = "insert" => /\ curr \in Listed
                      /\ freed # START /\ heap[freed].flags
                      /\ freed \notin DOMAIN live
                      /\ \/ curr = heap[START].next
                         \/ curr # START /\ curr < freed

IInv == TypeOK /\ ListInv /\ LoopInv /\ Disjoint /\ LiveFits

-----------------------------------------------------------------------------
(* Rounding up to the alignment never yields less than was asked for. *)
LEMMA AlignBounds ==
  ASSUME NEW n \in Nat
  PROVE  Align(n) \in Nat /\ Align(n) >= n
  BY SMT DEF Align, ALIGNMENT

(* The initial heap of sinit is well formed. *)
LEMMA InitIInv == Init => IInv
  <1>. SUFFICES ASSUME Init PROVE IInv
    OBVIOUS
  <1>. USE PageSizeAssumption DEF Init, METADATA_SIZE, START, Block
  <1>1. /\ DOMAIN heap = {0, 16}
        /\ heap[0] = [size |-> 16, flags |-> FALSE, next |-> 16]
        /\ heap[16] = [size |-> PageSize - 32, flags |-> FALSE, next |-> 0]
        /\ DOMAIN live = {}
    OBVIOUS
  <1>2. PageSize \in Nat /\ PageSize >= 32
    OBVIOUS
  <1>3. heap[0] \in Header /\ heap[16] \in Header
    BY <1>1, <1>2 DEF Header
  <1>4. TypeOK
    BY <1>1, <1>2, <1>3 DEF TypeOK
  <1>5. ListInv
    BY <1>1 DEF ListInv, Listed, Free
  <1>6. LoopInv
    BY DEF LoopInv
  <1>7. Disjoint
    <2>1. DOMAIN heap \ {START} = {16}
      BY <1>1
    <2>2. End(16) = PageSize
      BY <1>1, <1>2 DEF End
    <2>. QED BY <2>1, <2>2, <1>2 DEF Disjoint
  <1>8. LiveFits
    BY <1>1 DEF LiveFits
  <1>. QED BY <1>4, <1>5, <1>6, <1>7, <1>8 DEF IInv

-----------------------------------------------------------------------------
(* smalloc begins at the first free block. *)
LEMMA MallocIInv == ASSUME IInv, NEW n \in Requests, Malloc(n) PROVE IInv'
  <1>. USE DEF IInv, Malloc
  <1>1. heap[START].next \in Listed
    BY DEF ListInv, Listed
  <1>2. Listed \subseteq DOMAIN heap /\ START \in Listed
    BY DEF Listed, Free, TypeOK
  <1>3. TypeOK'
    BY <1>1, <1>2 DEF TypeOK, START
  <1>4. ListInv'
    BY DEF ListInv, Listed, Free
  <1>5. LoopInv'
    BY <1>1, <1>2 DEF LoopInv, Listed, Free, START
  <1>6. Disjoint' /\ LiveFits'
    BY DEF Disjoint, End, LiveFits
  <1>. QED BY <1>3, <1>4, <1>5, <1>6

(* findBlock stays on the free list, and its best block fits. *)
LEMMA FindStepIInv == ASSUME IInv, FindStep PROVE IInv'
  <1>. USE DEF IInv, FindStep
  <1>1. Listed \subseteq DOMAIN heap
    BY DEF Listed, Free, TypeOK
  <1>2. PICK b \in Listed : /\ b # 0 => heap[b].size >= Req
                           /\ best' = b
                           /\ \/ pc' = "segv" /\ curr' = curr
                              \/ b # 0 /\ pc' = pc /\ curr' = heap[b].next
    <2>1. CASE Better(curr)
      BY <2>1 DEF LoopInv, Better
    <2>2. CASE ~Better(curr)
      BY <2>2 DEF LoopInv
    <2>. QED BY <2>1, <2>2
  <1>3. heap[b].next \in Listed
    BY <1>2 DEF ListInv
  <1>4. TypeOK'
    BY <1>1, <1>2, <1>3 DEF TypeOK
  <1>5. ListInv'
    BY DEF ListInv, Listed, Free
  <1>6. LoopInv'
    BY <1>2, <1>3 DEF LoopInv, Listed, Free, Req
  <1>7. Disjoint' /\ LiveFits'
    BY DEF Disjoint, End, LiveFits
  <1>. QED BY <1>4, <1>5, <1>6, <1>7

(* A failed smalloc changes nothing that matters. *)
LEMMA FindNothingIInv == ASSUME IInv, FindNothing PROVE IInv'
  <1>. USE DEF IInv, FindNothing
  <1>1. TypeOK'
    BY DEF TypeOK
  <1>2. ListInv' /\ LoopInv'
    BY DEF ListInv, LoopInv, Listed, Free
  <1>3. Disjoint' /\ LiveFits'
    BY DEF Disjoint, End, LiveFits
  <1>. QED BY <1>1, <1>2, <1>3

(* sfree takes the block from its owner before it is listed. *)
LEMMA StartFreeIInv ==
  ASSUME IInv, NEW b \in DOMAIN heap, StartFree(b) PROVE IInv'
  <1>. USE DEF IInv, StartFree
  <1>1. heap[START].next \in Listed
    BY DEF ListInv, Listed
  <1>2. Listed \subseteq DOMAIN heap
    BY DEF Listed, Free, TypeOK
  <1>3. TypeOK'
    BY <1>1, <1>2 DEF TypeOK
  <1>4. ListInv'
    BY DEF ListInv, Listed, Free
  <1>5. LoopInv'
    BY <1>1 DEF LoopInv, Listed, Free
  <1>6. Disjoint' /\ LiveFits'
    BY DEF Disjoint, End, LiveFits
  <1>. QED BY <1>3, <1>4, <1>5, <1>6

(* sfree walks along the list. *)
LEMMA InsertStepIInv == ASSUME IInv, InsertStep PROVE IInv'
  <1>. USE DEF IInv, InsertStep
  <1>1. heap[curr].next \in Listed
    BY DEF ListInv, LoopInv
  <1>2. Listed \subseteq DOMAIN heap
    BY DEF Listed, Free, TypeOK
  <1>3. TypeOK'
    BY <1>1, <1>2 DEF TypeOK
  <1>4. ListInv'
    BY DEF ListInv, Listed, Free
  <1>5. LoopInv'
    BY <1>1 DEF LoopInv, Listed, Free, Goes, START
  <1>6. Disjoint' /\ LiveFits'
    BY DEF Disjoint, End, LiveFits
  <1>. QED BY <1>3, <1>4, <1>5, <1>6

(* sfree puts the block behind the first free one, in address order. *)
LEMMA LinkIInv == ASSUME IInv, Link PROVE IInv'
  <1>. DEFINE old == heap[curr].next
  <1>0. TypeOK /\ ListInv /\ LoopInv /\ Disjoint /\ LiveFits
    BY DEF IInv
  <1>1. /\ curr \in Listed /\ freed # START /\ heap[freed].flags
        /\ freed \notin DOMAIN live
        /\ curr \in DOMAIN heap /\ freed \in DOMAIN heap
        /\ curr # freed /\ old \in Listed /\ ~heap[curr].flags
    BY <1>0 DEF Link, LoopInv, ListInv, Listed, Free, TypeOK
  <1>2. /\ DOMAIN heap' = DOMAIN heap
        /\ heap'[curr] = [heap[curr] EXCEPT !.next = freed]
        /\ heap'[freed] = Block(heap[freed].size, FALSE, old)
        /\ \A b \in DOMAIN heap \ {curr, freed} : heap'[b] = heap[b]
    BY <1>0, <1>1 DEF Link, TypeOK
  <1>3. \A b \in DOMAIN heap : heap[b] \in Header /\ b \in Nat
    BY <1>0 DEF TypeOK
  <1>4. /\ \A b \in DOMAIN heap : heap'[b].size = heap[b].size
        /\ heap'[curr].next = freed /\ heap'[freed].next = old
        /\ ~heap'[freed].flags /\ ~heap'[curr].flags
        /\ \A b \in DOMAIN heap \ {freed} : heap'[b].flags = heap[b].flags
        /\ \A b \in DOMAIN heap \ {curr, freed} : heap'[b].next = heap[b].next
    BY <1>1, <1>2, <1>3 DEF Block, Header
  <1>5. Listed' = Listed \cup {freed} /\ Free' = Free \cup {freed}
    BY <1>1, <1>2, <1>4 DEF Listed, Free, START
  <1>6. /\ Listed = Free \cup {START} /\ START \notin Free /\ freed \notin Listed
        /\ Listed \subseteq DOMAIN heap /\ DOMAIN heap \subseteq 0 .. PageSize
    BY <1>0, <1>1 DEF Listed, Free, TypeOK
  <1>7. TypeOK'
    <2>1. \A b \in DOMAIN heap : heap'[b] \in Header
      <3>. SUFFICES ASSUME NEW b \in DOMAIN heap PROVE heap'[b] \in Header
        OBVIOUS
      <3>1. CASE b = freed
        <4>1. heap[freed].size \in 0 .. PageSize /\ old \in 0 .. PageSize
          BY <1>1, <1>3, <1>6 DEF Header
        <4>. QED BY <3>1, <4>1, <1>2 DEF Block, Header
      <3>2. CASE b = curr
        BY <3>2, <1>1, <1>2, <1>3, <1>6 DEF Header
      <3>. QED BY <3>1, <3>2, <1>2, <1>3
    <2>2. heap' \in [DOMAIN heap -> Header]
      BY <2>1, <1>2 DEF Link
    <2>. QED BY <2>2, <1>2, <1>0 DEF TypeOK, Link
  <1>8. ListInv'
    <2>0. /\ \A b \in Listed : heap[b].next \in Listed
          /\ \A a, b \in Listed : heap[a].next = heap[b].next => a = b
          /\ \A b \in Free : \E a \in Listed : heap[a].next = b
          /\ \A b \in Free : b # heap[START].next
                              => heap[b].next = 0 \/ heap[b].next > b
      BY <1>0 DEF ListInv
    <2>1. ~heap'[START].flags
      BY <1>0, <1>1, <1>4 DEF ListInv, TypeOK
    <2>2. \A b \in Listed' : heap'[b].next \in Listed'
      BY <1>1, <1>4, <1>5, <1>6, <2>0
    <2>3. \A a, b \in Listed' : heap'[a].next = heap'[b].next => a = b
      BY <1>1, <1>4, <1>5, <1>6, <2>0
    <2>4. \A b \in Free' : \E a \in Listed' : heap'[a].next = b
      <3>. SUFFICES ASSUME NEW b \in Free'
                    PROVE  \E a \in Listed' : heap'[a].next = b
        OBVIOUS
      <3>1. CASE b = freed
        BY <3>1, <1>1, <1>4, <1>5
      <3>2. CASE b = old
        BY <3>2, <1>4, <1>5
      <3>3. CASE b # freed /\ b # old
        BY <3>3, <1>4, <1>5, <1>6, <2>0
      <3>. QED BY <3>1, <3>2, <3>3
    <2>5. \A b \in Free' : b # heap'[START].next
                             => heap'[b].next = 0 \/ heap'[b].next > b
      <3>. SUFFICES ASSUME NEW b \in Free', b # heap'[START].next
                    PROVE  heap'[b].next = 0 \/ heap'[b].next > b
        OBVIOUS
      <3>1. CASE b = freed
        <4>1. old = 0 \/ old >= freed
          BY <1>1, <1>6 DEF Link, Goes
        <4>. QED BY <3>1, <4>1, <1>1, <1>4, <1>6
      <3>2. CASE b = curr
        <4>1. curr # START /\ curr # heap[START].next
          BY <3>2, <1>1, <1>4, <1>5, <1>6
        <4>. QED BY <3>2, <4>1, <1>0, <1>1, <1>4, <1>6 DEF LoopInv, Link
      <3>3. CASE b # freed /\ b # curr
        <4>1. b \in Free /\ heap'[b].next = heap[b].next
          BY <3>3, <1>4, <1>5, <1>6
        <4>2. CASE curr # START
          BY <4>1, <4>2, <1>1, <1>4, <1>6, <2>0
        <4>3. CASE curr = START
          BY <4>1, <4>3, <1>0, <1>6, <2>0 DEF LoopInv, Link, START
        <4>. QED BY <4>2, <4>3
      <3>. QED BY <3>1, <3>2, <3>3
    <2>. QED BY <2>1, <2>2, <2>3, <2>4, <2>5 DEF ListInv
  <1>9. LoopInv'
    BY DEF LoopInv, Link
  <1>10. Disjoint'
    <2>1. \A b \in DOMAIN heap : End(b)' = End(b)
      BY <1>4 DEF End
    <2>. QED BY <2>1, <1>0, <1>2 DEF Disjoint
  <1>11. LiveFits'
    <2>1. DOMAIN live \subseteq DOMAIN heap \ {freed} /\ live' = live
      BY <1>0, <1>1 DEF Link, TypeOK
    <2>. QED BY <2>1, <1>0, <1>4 DEF LiveFits
  <1>. QED BY <1>7, <1>8, <1>9, <1>10, <1>11 DEF IInv

(* What the list and the best block are like when findBlock returns: there *)
(* is one predecessor to link past the block, and it is another block.     *)
LEMMA FoundBlock ==
  ASSUME IInv, pc = "find", best # 0
  PROVE  /\ best \in Free
         /\ Previous(best) \in Listed
         /\ heap[Previous(best)].next = best
         /\ Previous(best) # best
         /\ asked \in Requests /\ Req \in Nat /\ Req >= asked
         /\ heap[best].size \in Nat /\ heap[best].size >= Req
  <1>0. TypeOK /\ ListInv /\ LoopInv
    BY DEF IInv
  <1>1. best \in Free /\ heap[best].size >= Req /\ asked \in Requests
    BY <1>0 DEF LoopInv, Listed, START
  <1>2. Req \in Nat /\ Req >= asked
    BY <1>1, RequestsAssumption, AlignBounds DEF Req
  <1>3. heap[best].size \in Nat
    BY <1>0, <1>1, PageSizeAssumption DEF TypeOK, Free, Header
  <1>4. Previous(best) \in Listed /\ heap[Previous(best)].next = best
    <2>1. \E a \in Free \cup {START} : heap[a].next = best
      BY <1>0, <1>1 DEF ListInv, Listed
    <2>. QED BY <2>1 DEF Previous, Listed
  <1>5. Previous(best) # best
    <2>. SUFFICES ASSUME heap[best].next = best PROVE FALSE
      BY <1>4
    <2>1. CASE heap[START].next = best
      BY <2>1, <1>0, <1>1 DEF ListInv, Listed, Free
    <2>2. CASE heap[START].next # best
      BY <2>2, <1>0, <1>1 DEF ListInv, Free, TypeOK
    <2>. QED BY <2>1, <2>2
  <1>. QED BY <1>1, <1>2, <1>3, <1>4, <1>5

(* A block that is taken whole is unlinked. *)
LEMMA TruncateIInv ==
  ASSUME IInv, SplitTruncate, ~Splits PROVE IInv'
  <1>. DEFINE p == Previous(best)
              n == heap[best].next
  <1>0. TypeOK /\ ListInv /\ LoopInv /\ Disjoint /\ LiveFits
    BY DEF IInv
  <1>1. /\ best \in Free /\ p \in Listed /\ heap[p].next = best /\ p # best
        /\ asked \in Requests /\ Req \in Nat /\ Req >= asked
        /\ heap[best].size \in Nat /\ heap[best].size >= Req
    BY FoundBlock DEF SplitTruncate
  <1>2. heap' = [heap EXCEPT ![p].next = n, ![best] = Block(Req, TRUE, CANARY)]
    BY DEF SplitTruncate, Truncate
  <1>3. /\ Listed = Free \cup {START} /\ START \notin Free
        /\ Listed \subseteq DOMAIN heap /\ DOMAIN heap \subseteq 0 .. PageSize
        /\ \A b \in DOMAIN heap : heap[b] \in Header
        /\ n \in Listed
    BY <1>0, <1>1 DEF Listed, Free, TypeOK, ListInv
  <1>4. /\ DOMAIN heap' = DOMAIN heap
        /\ heap'[best] = Block(Req, TRUE, CANARY)
        /\ heap'[p] = [heap[p] EXCEPT !.next = n]
        /\ \A b \in DOMAIN heap \ {p, best} : heap'[b] = heap[b]
    BY <1>0, <1>1, <1>2, <1>3 DEF TypeOK
  <1>5. /\ heap'[best].flags /\ heap'[best].size = Req
        /\ heap'[p].next = n
        /\ \A b \in DOMAIN heap \ {best} : /\ heap'[b].flags = heap[b].flags
                                           /\ heap'[b].size = heap[b].size
        /\ \A b \in DOMAIN heap \ {p, best} : heap'[b].next = heap[b].next
    BY <1>1, <1>3, <1>4 DEF Block, Header
  <1>6. Listed' = Listed \ {best} /\ Free' = Free \ {best}
    <2>1. Free' = Free \ {best}
      BY <1>4, <1>5 DEF Free
    <2>2. best # START
      BY <1>1, <1>3
    <2>. QED BY <2>1, <2>2 DEF Listed
  <1>7. TypeOK'
    <2>1. Block(Req, TRUE, CANARY) \in Header
      <3>1. heap[best].size \in 0 .. PageSize
        BY <1>1, <1>3 DEF Header
      <3>. QED BY <3>1, <1>1, PageSizeAssumption DEF Block, Header, CANARY
    <2>2. [heap[p] EXCEPT !.next = n] \in Header
      BY <1>1, <1>3 DEF Header
    <2>3. heap' \in [DOMAIN heap -> Header]
      BY <2>1, <2>2, <1>2, <1>3, <1>4
    <2>4. DOMAIN live' \subseteq DOMAIN heap /\ live' \in [DOMAIN live' -> Requests]
      BY <1>0, <1>1, <1>3 DEF SplitTruncate, TypeOK
    <2>. QED BY <2>3, <2>4, <1>4, <1>0 DEF TypeOK, SplitTruncate
  <1>8. ListInv'
    <2>0. /\ \A b \in Listed : heap[b].next \in Listed
          /\ \A a, b \in Listed : heap[a].next = heap[b].next => a = b
          /\ \A b \in Free : \E a \in Listed : heap[a].next = b
          /\ \A b \in Free : b # heap[START].next
                              => heap[b].next = 0 \/ heap[b].next > b
      BY <1>0 DEF ListInv
    <2>1. ~heap'[START].flags
      BY <1>0, <1>1, <1>3, <1>5 DEF ListInv
    <2>2. \A b \in Listed' : heap'[b].next \in Listed'
      BY <1>1, <1>3, <1>5, <1>6, <2>0
    <2>3. \A a, b \in Listed' : heap'[a].next = heap'[b].next => a = b
      BY <1>1, <1>3, <1>5, <1>6, <2>0
    <2>4. \A b \in Free' : \E a \in Listed' : heap'[a].next = b
      <3>. SUFFICES ASSUME NEW b \in Free'
                    PROVE  \E a \in Listed' : heap'[a].next = b
        OBVIOUS
      <3>1. PICK a \in Listed : heap[a].next = b
        BY <1>6, <2>0
      <3>2. CASE a = best
        BY <3>1, <3>2, <1>1, <1>5, <1>6
      <3>3. CASE a # best
        BY <3>1, <3>3, <1>1, <1>3, <1>5, <1>6
      <3>. QED BY <3>2, <3>3
    <2>5. \A b \in Free' : b # heap'[START].next
                             => heap'[b].next = 0 \/ heap'[b].next > b
      <3>. SUFFICES ASSUME NEW b \in Free', b # heap'[START].next
                    PROVE  heap'[b].next = 0 \/ heap'[b].next > b
        OBVIOUS
      <3>0. b \in Free /\ b # best /\ b # heap[START].next
        BY <1>1, <1>3, <1>5, <1>6
      <3>1. CASE b = p
        <4>1. best > p /\ best # heap[START].next
          BY <3>0, <3>1, <1>1, <1>3, <2>0 DEF START
        <4>2. n = 0 \/ n > best
          BY <4>1, <1>1, <2>0
        <4>. QED BY <3>1, <4>1, <4>2, <1>1, <1>3, <1>5
      <3>2. CASE b # p
        BY <3>0, <3>2, <1>3, <1>5, <2>0
      <3>. QED BY <3>1, <3>2
    <2>. QED BY <2>1, <2>2, <2>3, <2>4, <2>5 DEF ListInv
  <1>9. LoopInv'
    BY DEF LoopInv, SplitTruncate
  <1>10. Disjoint'
    <2>1. \A b \in DOMAIN heap : /\ heap'[b].size <= heap[b].size
                                /\ heap'[b].size \in Nat /\ heap[b].size \in Nat
                                /\ b \in Nat
      BY <1>1, <1>3, <1>5, PageSizeAssumption DEF Header
    <2>. QED
      BY <2>1, <1>0, <1>4, PageSizeAssumption DEF Disjoint, End, METADATA_SIZE
  <1>11. LiveFits'
    BY <1>0, <1>1, <1>3, <1>5 DEF LiveFits, SplitTruncate, TypeOK
  <1>. QED BY <1>7, <1>8, <1>9, <1>10, <1>11 DEF IInv

(* A block that is split leaves a free block in its place, which lies in   *)
(* the rest of the same payload.                                           *)
LEMMA SplitIInv ==
  ASSUME IInv, SplitTruncate, Splits PROVE IInv'
  <1>. DEFINE p == Previous(best)
              n == heap[best].next
              r == RestOff
  <1>0. TypeOK /\ ListInv /\ LoopInv /\ Disjoint /\ LiveFits
    BY DEF IInv
  <1>1. /\ best \in Free /\ p \in Listed /\ heap[p].next = best /\ p # best
        /\ asked \in Requests /\ Req \in Nat /\ Req >= asked
        /\ heap[best].size \in Nat /\ heap[best].size >= Req
    BY FoundBlock DEF SplitTruncate
  <1>2. heap' = [b \in DOMAIN heap \cup {r} |->
                   CASE b = r    -> Block(Rest - METADATA_SIZE, FALSE, n)
                     [] b = best -> Block(Req, TRUE, CANARY)
                     [] b = p    -> [heap[b] EXCEPT !.next = r]
                     [] OTHER    -> heap[b]]
    BY DEF SplitTruncate, Split
  <1>3. /\ Listed = Free \cup {START} /\ START \notin Free
        /\ Listed \subseteq DOMAIN heap /\ DOMAIN heap \subseteq 0 .. PageSize
        /\ \A b \in DOMAIN heap : heap[b] \in Header
        /\ n \in Listed
    BY <1>0, <1>1 DEF Listed, Free, TypeOK, ListInv
  <1>4. /\ PageSize \in Nat /\ Rest \in Nat /\ Rest > 24 /\ best \in Nat
        /\ Rest = heap[best].size - Req
        /\ r = best + 16 + Req /\ r \in Nat /\ r > best
        /\ End(best) = best + 16 + heap[best].size
        /\ End(best) = r + Rest
        /\ End(best) <= PageSize
    BY <1>0, <1>1, <1>3, PageSizeAssumption
       DEF Splits, Rest, RestOff, End, METADATA_SIZE, ALIGNMENT, Disjoint
  <1>5. r \notin DOMAIN heap
    BY <1>0, <1>1, <1>3, <1>4 DEF Disjoint, START
  <1>6. /\ DOMAIN heap' = DOMAIN heap \cup {r}
        /\ heap'[r] = Block(Rest - METADATA_SIZE, FALSE, n)
        /\ heap'[best] = Block(Req, TRUE, CANARY)
        /\ heap'[p] = [heap[p] EXCEPT !.next = r]
        /\ \A b \in DOMAIN heap \ {p, best} : heap'[b] = heap[b]
    <2>. HIDE DEF p, n, r
    <2>. QED BY <1>1, <1>2, <1>3, <1>5
  <1>7. /\ heap'[best].flags /\ heap'[best].size = Req
        /\ ~heap'[r].flags /\ heap'[r].size = Rest - 16 /\ heap'[r].next = n
        /\ heap'[p].next = r
        /\ \A b \in DOMAIN heap \ {best} : /\ heap'[b].flags = heap[b].flags
                                           /\ heap'[b].size = heap[b].size
        /\ \A b \in DOMAIN heap \ {p, best} : heap'[b].next = heap[b].next
    <2>. HIDE DEF p, n, r
    <2>. QED BY <1>1, <1>3, <1>6 DEF Block, Header, METADATA_SIZE
  <1>. HIDE DEF p, n, r
  <1>8. Listed' = (Listed \ {best}) \cup {r} /\ Free' = (Free \ {best}) \cup {r}
    <2>0. r # START
      BY <1>4 DEF START
    <2>1. Free' = (Free \ {best}) \cup {r}
      BY <2>0, <1>5, <1>6, <1>7 DEF Free
    <2>2. best # START
      BY <1>1, <1>3
    <2>. QED BY <2>1, <2>2 DEF Listed
  <1>9. TypeOK'
    <2>1. /\ Block(Req, TRUE, CANARY) \in Header
          /\ Block(Rest - METADATA_SIZE, FALSE, n) \in Header
      BY <1>1, <1>3, <1>4 DEF Block, Header, CANARY, METADATA_SIZE
    <2>2. [heap[p] EXCEPT !.next = r] \in Header
      BY <1>1, <1>3, <1>4 DEF Header
    <2>3. \A b \in DOMAIN heap' : heap'[b] \in Header
      BY <2>1, <2>2, <1>3, <1>6
    <2>4. heap' \in [DOMAIN heap' -> Header]
      BY <2>3, <1>2
    <2>5. DOMAIN heap' \subseteq 0 .. PageSize
      BY <1>3, <1>4, <1>6
    <2>6. DOMAIN live' \subseteq DOMAIN heap' /\ live' \in [DOMAIN live' -> Requests]
      BY <1>0, <1>1, <1>3, <1>6 DEF SplitTruncate, TypeOK
    <2>. QED BY <2>4, <2>5, <2>6, <1>0, <1>6 DEF TypeOK, SplitTruncate
  <1>10. ListInv'
    <2>0. /\ \A b \in Listed : heap[b].next \in Listed
          /\ \A a, b \in Listed : heap[a].next = heap[b].next => a = b
          /\ \A b \in Free : \E a \in Listed : heap[a].next = b
          /\ \A b \in Free : b # heap[START].next
                              => heap[b].next = 0 \/ heap[b].next > b
      BY <1>0 DEF ListInv
    <2>00. n # best /\ n = heap[best].next
      BY <2>0, <1>1 DEF n
    <2>1. ~heap'[START].flags
      BY <1>0, <1>1, <1>3, <1>7 DEF ListInv
    <2>2. \A b \in Listed' : heap'[b].next \in Listed'
      BY <1>1, <1>3, <1>5, <1>7, <1>8, <2>0, <2>00
    <2>3. \A a, b \in Listed' : heap'[a].next = heap'[b].next => a = b
      BY <1>1, <1>3, <1>5, <1>7, <1>8, <2>0, <2>00
    <2>4. \A b \in Free' : \E a \in Listed' : heap'[a].next = b
      <3>. SUFFICES ASSUME NEW b \in Free'
                    PROVE  \E a \in Listed' : heap'[a].next = b
        OBVIOUS
      <3>0. CASE b = r
        BY <3>0, <1>1, <1>7, <1>8
      <3>1. CASE b # r
        <4>1. PICK a \in Listed : heap[a].next = b
          BY <3>1, <1>8, <2>0
        <4>2. CASE a = best
          BY <4>1, <4>2, <2>00, <1>7, <1>8
        <4>3. CASE a # best
          BY <4>1, <4>3, <3>1, <1>1, <1>3, <1>7, <1>8
        <4>. QED BY <4>2, <4>3
      <3>. QED BY <3>0, <3>1
    <2>5. \A b \in Free' : b # heap'[START].next
                             => heap'[b].next = 0 \/ heap'[b].next > b
      <3>. SUFFICES ASSUME NEW b \in Free', b # heap'[START].next
                    PROVE  heap'[b].next = 0 \/ heap'[b].next > b
        OBVIOUS
      <3>1. CASE b = r
        <4>1. best # heap[START].next
          BY <3>1, <1>1, <1>3, <1>7, <2>0
        <4>2. n = 0 \/ n > best
          BY <4>1, <1>1, <2>0, <2>00
        <4>3. n # 0 => n >= End(best)
          <5>1. /\ best \in DOMAIN heap \ {START}
                /\ n # 0 => n \in DOMAIN heap \ {START}
            BY <1>1, <1>3 DEF START
          <5>. QED BY <5>1, <4>2, <1>0 DEF Disjoint
        <4>. QED BY <3>1, <4>3, <1>3, <1>4, <1>7
      <3>2. CASE b = p
        <4>1. best > p
          BY <3>2, <1>1, <1>3, <1>5, <1>7, <1>8, <2>0 DEF START
        <4>. QED BY <3>2, <4>1, <1>3, <1>1, <1>4, <1>7
      <3>3. CASE b # r /\ b # p
        <4>1. b \in Free /\ b # best /\ heap'[b].next = heap[b].next
          BY <3>3, <1>3, <1>7, <1>8
        <4>2. b # heap[START].next
          BY <4>1, <3>3, <1>1, <1>3, <1>7, <2>0
        <4>. QED BY <4>1, <4>2, <2>0
      <3>. QED BY <3>1, <3>2, <3>3
    <2>. QED BY <2>1, <2>2, <2>3, <2>4, <2>5 DEF ListInv
  <1>11. LoopInv'
    BY DEF LoopInv, SplitTruncate
  <1>12. Disjoint'
    <2>1. \A b \in DOMAIN heap : heap[b].size \in Nat /\ b \in Nat
      BY <1>3, <1>4 DEF Header
    <2>. DEFINE NewEnd(b) == b + 16 + heap'[b].size
    <2>2. \A b \in DOMAIN heap \ {best} : NewEnd(b) = End(b)
      BY <1>7 DEF End, METADATA_SIZE
    <2>3. NewEnd(best) = r
      BY <1>1, <1>4, <1>7
    <2>4. NewEnd(r) = End(best)
      BY <1>1, <1>4, <1>7
    <2>5. /\ \A b \in DOMAIN heap \ {START} : End(b) <= PageSize
          /\ \A x, y \in DOMAIN heap \ {START} : x < y => End(x) <= y
          /\ \A b \in DOMAIN heap : End(b) \in Nat
      BY <2>1, <1>0 DEF Disjoint, End, METADATA_SIZE
    <2>6. best \in DOMAIN heap \ {START}
      BY <1>1, <1>3
    <2>. HIDE DEF NewEnd
    <2>7. \A b \in DOMAIN heap' \ {START} : NewEnd(b) <= PageSize
      BY <2>2, <2>3, <2>4, <2>5, <2>6, <1>4, <1>6
    <2>8. \A a, b \in DOMAIN heap' \ {START} : a < b => NewEnd(a) <= b
      <3>. SUFFICES ASSUME NEW a \in DOMAIN heap' \ {START},
                           NEW b \in DOMAIN heap' \ {START}, a < b
                    PROVE  NewEnd(a) <= b
        OBVIOUS
      <3>1. CASE a = r
        BY <3>1, <2>1, <2>4, <2>5, <2>6, <1>4, <1>6
      <3>2. CASE a = best
        BY <3>2, <2>1, <2>3, <2>5, <2>6, <1>4, <1>6
      <3>3. CASE a # r /\ a # best
        BY <3>3, <2>1, <2>2, <2>5, <2>6, <1>4, <1>6
      <3>. QED BY <3>1, <3>2, <3>3
    <2>. QED BY <2>7, <2>8 DEF Disjoint, End, NewEnd, METADATA_SIZE
  <1>13. LiveFits'
    BY <1>0, <1>1, <1>3, <1>7 DEF LiveFits, SplitTruncate, TypeOK
  <1>. QED BY <1>9, <1>10, <1>11, <1>12, <1>13 DEF IInv

-----------------------------------------------------------------------------
(* Every step of the allocator keeps the inductive invariant. *)
THEOREM HeapInvariant == Spec => []IInv
  <1>1. Init => IInv
    BY InitIInv
  <1>2. IInv /\ [Next]_vars => IInv'
    <2>. SUFFICES ASSUME IInv, [Next]_vars PROVE IInv'
      OBVIOUS
    <2>1. CASE \E n \in Requests : Malloc(n)
      BY <2>1, MallocIInv
    <2>2. CASE FindStep
      BY <2>2, FindStepIInv
    <2>3. CASE FindNothing
      BY <2>3, FindNothingIInv
    <2>4. CASE SplitTruncate
      BY <2>4, SplitIInv, TruncateIInv
    <2>5. CASE \E b \in DOMAIN heap : StartFree(b)
      BY <2>5, StartFreeIInv
    <2>6. CASE InsertStep
      BY <2>6, InsertStepIInv
    <2>7. CASE Link
      BY <2>7, LinkIInv
    <2>8. CASE UNCHANGED vars
      BY <2>8 DEF vars, IInv, TypeOK, ListInv, Listed, Free, LoopInv, Req,
                  Disjoint, End, LiveFits
    <2>. QED
      BY <2>1, <2>2, <2>3, <2>4, <2>5, <2>6, <2>7, <2>8 DEF Next
  <1>. QED BY <1>1, <1>2, PTL DEF Spec

(* The offsets that smalloc and sfree follow are always those of headers. *)
THEOREM HeapTypeCorrect == Spec => []TypeOK
  BY HeapInvariant, PTL DEF IInv

(* However the page is cut up, headers and payloads stay inside it and do  *)
(* not overlap: no client's payload runs into another block.               *)
THEOREM HeapDisjoint == Spec => []Disjoint
  BY HeapInvariant, PTL DEF IInv

(* A client's payload is as long as it asked for until it frees it. *)
THEOREM HeapLiveFits == Spec => []LiveFits
  BY HeapInvariant, PTL DEF IInv

-----------------------------------------------------------------------------
(* The free list as a whole *)

(* The blocks of s and their successors. *)
Extend(s) == s \cup ({heap[b].next : b \in s} \ {0})

(* Reached is what its defining equation says. *)
LEMMA ReachedEquation ==
  ASSUME IInv
  PROVE  /\ Reached[0] = {heap[START].next} \ {0}
         /\ \A n \in Nat : Reached[n + 1] = Extend(Reached[n])
         /\ \A n \in Nat : Reached[n] \subseteq Free
  <1>. DEFINE F == [s \in SUBSET Free |-> Extend(s)]
              x == {heap[START].next} \ {0}
  <1>1. \A b \in Listed : heap[b].next \in Free \cup {0}
    BY DEF IInv, ListInv, Listed, START
  <1>2. x \in SUBSET Free
    BY <1>1 DEF Listed
  <1>3. \A s \in SUBSET Free : Extend(s) \in SUBSET Free
    BY <1>1 DEF Listed, Extend
  <1>4. F \in [SUBSET Free -> SUBSET Free]
    BY <1>3
  <1>. DEFINE Body(f) == [n \in Nat |-> IF n = 0 THEN x ELSE
                           f[n - 1] \cup ({heap[b].next : b \in f[n - 1]} \ {0})]
  <1>5. PICK h \in [Nat -> SUBSET Free] :
               h[0] = x /\ \A n \in Nat \ {0} : h[n] = F[h[n - 1]]
    <2>. DEFINE S == SUBSET Free
    <2>1. x \in S /\ F \in [S -> S]
      BY <1>2, <1>4
    <2>. HIDE DEF F, x, S
    <2>2. \E h \in [Nat -> S] : h[0] = x /\ \A n \in Nat \ {0} : h[n] = F[h[n - 1]]
      BY <2>1, IterationExists
    <2>. QED BY <2>2 DEF S
  <1>6. h = Body(h)
    <2>1. ASSUME NEW n \in Nat
          PROVE  h[n] = IF n = 0 THEN x ELSE Extend(h[n - 1])
      <3>1. h[n] = IF n = 0 THEN x ELSE F[h[n - 1]]
        <4>. HIDE DEF F, x
        <4>. QED BY <1>5, Zenon
      <3>2. n # 0 => h[n - 1] \in SUBSET Free
        OBVIOUS
      <3>. QED BY <3>1, <3>2
    <2>2. \A n \in Nat : h[n] = Body(h)[n]
      BY <2>1 DEF Extend
    <2>. QED BY <1>5, <2>2
  <1>7. Reached = Body(Reached)
    BY <1>6 DEF Reached
  <1>8. \A n \in Nat : Reached[n] = IF n = 0 THEN x ELSE Extend(Reached[n - 1])
    <2>. HIDE DEF x
    <2>1. \A n \in Nat : Reached[n] = Body(Reached)[n]
      BY <1>7
    <2>. QED BY <2>1 DEF Extend
  <1>9. Reached[0] = x
    BY <1>8
  <1>10. ASSUME NEW n \in Nat PROVE Reached[n + 1] = Extend(Reached[n])
    <2>1. n + 1 \in Nat /\ n + 1 # 0 /\ (n + 1) - 1 = n
      OBVIOUS
    <2>. QED BY <1>8, <2>1
  <1>11. \A n \in Nat : Reached[n] \subseteq Free
    <2>. DEFINE T == {n \in Nat : Reached[n] \subseteq Free}
    <2>1. 0 \in T
      BY <1>9, <1>2
    <2>2. \A n \in Nat : n \in T => n + 1 \in T
      BY <1>10, <1>3
    <2>3. Nat \subseteq T
      <3>. HIDE DEF T
      <3>. QED BY <2>1, <2>2, Induction
    <2>. QED BY <2>3
  <1>. QED BY <1>9, <1>10, <1>11

-----------------------------------------------------------------------------
(* No header but START's lies below the end of START's own. *)
LowInv == \A b \in DOMAIN heap \ {START} : b >= METADATA_SIZE

First == heap[START].next

(* The blocks that findBlock has passed when it stands behind a: the first *)
(* one, which may have any address, and those up to a.                     *)
Passed(a) == {b \in Free : b = First \/ (a # First /\ b <= a)}

(* findBlock goes on behind its best block, the best one of those that it  *)
(* has passed; without a best block it has not left the first one.         *)
ScanInv ==
  pc = "find" =>
    /\ best = 0 => curr = First
    /\ best # 0 => /\ curr = heap[best].next
                   /\ \A b \in Passed(best) :
                        heap[b].size >= Req => heap[best].size <= heap[b].size

ScanIInv == IInv /\ LowInv /\ ScanInv

(* A free block has a predecessor on the list.                             *)
LEMMA Predecessor ==
  ASSUME IInv, NEW c, c \in Free, c # First
  PROVE  \E p \in Free : heap[p].next = c /\ (p # First => p < c)
  <1>1. TypeOK /\ ListInv
    BY DEF IInv
  <1>2. PICK p \in Listed : heap[p].next = c
    BY <1>1 DEF ListInv
  <1>3. p \in Free /\ c # 0
    BY <1>2 DEF Listed, Free, First, START
  <1>4. p # First => p < c
    BY <1>1, <1>2, <1>3 DEF ListInv, First
  <1>. QED BY <1>2, <1>3, <1>4

(* Free blocks and what they point at are offsets of headers. *)
LEMMA FreeOffsets ==
  ASSUME IInv
  PROVE  /\ Free \subseteq Nat
         /\ \A b \in Free : b # 0 /\ b \in DOMAIN heap /\ heap[b].size \in Nat
         /\ First \in Free \cup {0}
         /\ \A b \in Free : heap[b].next \in Free \cup {0}
  BY PageSizeAssumption DEF IInv, TypeOK, ListInv, Listed, Free, Header, First, START

(* Without a first block there is none. *)
LEMMA EmptyList == ASSUME IInv, First = 0 PROVE Free = {}
  <1>. SUFFICES ASSUME Free # {} PROVE FALSE
    OBVIOUS
  <1>1. PICK m \in Free : \A k \in Free : m <= k
    BY FreeOffsets, LeastElement
  <1>2. PICK p \in Free : heap[p].next = m /\ (p # First => p < m)
    <2>1. m # First
      BY FreeOffsets
    <2>. QED BY <2>1, Predecessor
  <1>. QED BY <1>1, <1>2, FreeOffsets

(* Behind the first block comes the lowest one of the others. *)
LEMMA SecondLowest ==
  ASSUME IInv, NEW c \in Free, c # First
  PROVE  heap[First].next # 0 /\ heap[First].next <= c
  <1>. DEFINE Bad == {b \in Free \ {First} :
                        ~(heap[First].next # 0 /\ heap[First].next <= b)}
  <1>. SUFFICES ASSUME Bad # {} PROVE FALSE
    OBVIOUS
  <1>1. PICK m \in Bad : \A k \in Bad : m <= k
    <2>. Bad \subseteq Nat
      BY FreeOffsets
    <2>. HIDE DEF Bad
    <2>. QED BY LeastElement
  <1>2. PICK p \in Free : heap[p].next = m /\ (p # First => p < m)
    <2>1. m \in Free /\ m # First
      OBVIOUS
    <2>. HIDE DEF Bad
    <2>. QED BY <2>1, Predecessor
  <1>3. m \in Nat /\ p \in Nat /\ m # 0 /\ m <= m
    BY FreeOffsets
  <1>4. p # First
    BY <1>1, <1>2, <1>3
  <1>5. p \notin Bad
    BY <1>1, <1>2, <1>3, <1>4
  <1>6. heap[First].next # 0 /\ heap[First].next <= p /\ p < m
    BY <1>2, <1>4, <1>5
  <1>7. heap[First].next \in Nat
    BY <1>6, FreeOffsets, EmptyList
  <1>. QED BY <1>1, <1>3, <1>6, <1>7

(* No free block lies between another one and its successor, but perhaps   *)
(* the first one.                                                          *)
LEMMA NothingBetween ==
  ASSUME IInv, NEW a \in Free, NEW c \in Free, a # First, c # First, a < c
  PROVE  heap[a].next # 0 /\ heap[a].next <= c
  <1>. DEFINE Skips(x, b) == /\ x < b
                            /\ ~(heap[x].next # 0 /\ heap[x].next <= b)
              Bad == {b \in Free \ {First} : \E x \in Free \ {First} : Skips(x, b)}
  <1>. SUFFICES ASSUME Bad # {} PROVE FALSE
    OBVIOUS
  <1>1. PICK m \in Bad : \A k \in Bad : m <= k
    <2>. Bad \subseteq Nat
      BY FreeOffsets
    <2>. HIDE DEF Bad
    <2>. QED BY LeastElement
  <1>2. PICK x \in Free \ {First} : Skips(x, m)
    OBVIOUS
  <1>3. PICK p \in Free : heap[p].next = m /\ (p # First => p < m)
    <2>1. m \in Free /\ m # First
      OBVIOUS
    <2>. HIDE DEF Bad
    <2>. QED BY <2>1, Predecessor
  <1>4. m \in Nat /\ p \in Nat /\ x \in Nat /\ m # 0
    BY FreeOffsets
  <1>5. \A b \in Free : heap[b].next \in Nat
    BY FreeOffsets
  <1>6. CASE p = First
    BY <1>2, <1>3, <1>4, <1>6, SecondLowest
  <1>7. CASE p = x
    BY <1>2, <1>3, <1>4, <1>7
  <1>8. CASE p # First /\ x < p
    <2>1. p \notin Bad
      BY <1>1, <1>3, <1>4, <1>8
    <2>2. heap[x].next # 0 /\ heap[x].next <= p
      BY <1>8, <2>1
    <2>. QED BY <1>2, <1>3, <1>4, <1>5, <1>8, <2>2
  <1>9. CASE p # First /\ p < x
    <2>1. x \notin Bad
      BY <1>1, <1>2, <1>4
    <2>2. heap[p].next <= x
      BY <1>9, <2>1
    <2>. QED BY <1>2, <1>3, <1>4, <2>2
  <1>. QED BY <1>4, <1>6, <1>7, <1>8, <1>9

-----------------------------------------------------------------------------
(* The free blocks in front of the successor of a have been passed when a  *)
(* has, and when a has no successor, all of them.                          *)
LEMMA PassedStep ==
  ASSUME IInv, NEW a, a \in Free, NEW b, b \in Free,
         heap[a].next = 0 \/ b < heap[a].next
  PROVE  b \in Passed(a)
  <1>1. a \in Nat /\ b \in Nat /\ heap[a].next \in Nat
    BY FreeOffsets
  <1>2. CASE b = First
    BY <1>2 DEF Passed
  <1>3. CASE b # First /\ a = First
    BY <1>1, <1>3, SecondLowest
  <1>4. CASE b # First /\ a # First
    BY <1>1, <1>4, NothingBetween DEF Passed
  <1>. QED BY <1>2, <1>3, <1>4

(* A step of findBlock leaves the best of the passed blocks in best. *)
LEMMA FindStepScan == ASSUME IInv, ScanInv, FindStep PROVE ScanInv'
  <1>1. /\ pc = "find" /\ curr # 0 /\ heap' = heap /\ asked' = asked
        /\ First' = First /\ Free' = Free /\ Req' = Req
        /\ TypeOK /\ ListInv /\ LoopInv
    BY DEF FindStep, First, Free, Req, IInv
  <1>2. best # 0 => best \in Free
    BY <1>1 DEF LoopInv, Listed, START
  <1>3. CASE best = 0
    <2>1. curr = First
      BY <1>1, <1>3 DEF ScanInv
    <2>2. CASE Better(curr)
      <3>1. best' = First /\ First # 0 /\ curr' = heap[First].next
        BY <1>1, <2>1, <2>2 DEF FindStep
      <3>2. \A b \in Passed(First)' : b = First
        BY <1>1 DEF Passed
      <3>3. heap[First].size \in Nat
        BY <3>1, FreeOffsets
      <3>. QED BY <1>1, <3>1, <3>2, <3>3 DEF ScanInv, Passed
    <2>3. CASE ~Better(curr)
      BY <1>3, <2>3 DEF FindStep, ScanInv
    <2>. QED BY <2>2, <2>3
  <1>4. CASE best # 0 /\ ~Better(curr)
    BY <1>1, <1>4 DEF FindStep, ScanInv, Passed
  <1>5. CASE best # 0 /\ Better(curr)
    <2>1. /\ best' = curr /\ curr' = heap[curr].next /\ curr = heap[best].next
          /\ \A b \in Passed(best) :
               heap[b].size >= Req => heap[best].size <= heap[b].size
      BY <1>1, <1>5 DEF FindStep, ScanInv
    <2>2. curr \in Free /\ best \in Free /\ curr # First
      <3>1. best \in Free /\ best # START /\ curr \in Free
        BY <1>1, <1>2, <1>5, <2>1 DEF LoopInv, Listed, START
      <3>2. best \in Listed /\ START \in Listed
        BY <3>1 DEF Listed
      <3>. QED BY <1>1, <2>1, <3>1, <3>2 DEF ListInv, First
    <2>3. ASSUME NEW b \in Passed(curr), heap[b].size >= Req
          PROVE  heap[curr].size <= heap[b].size
      <3>1. b \in Free /\ heap[b].size \in Nat /\ heap[curr].size \in Nat
            /\ heap[best].size \in Nat /\ b \in Nat /\ curr \in Nat
        BY <2>2, FreeOffsets DEF Passed
      <3>2. CASE b = curr
        BY <3>1, <3>2
      <3>3. CASE b = First \/ b < curr
        <4>1. b \in Passed(best)
          BY <2>1, <2>2, <3>1, <3>3, PassedStep DEF Passed
        <4>2. heap[curr].size <= heap[best].size
          BY <1>5 DEF Better
        <4>. QED BY <2>1, <2>3, <3>1, <4>1, <4>2
      <3>. QED BY <2>2, <3>1, <3>2, <3>3 DEF Passed
    <2>4. Passed(curr)' = Passed(curr')
      BY <1>1, <2>1 DEF Passed
    <2>. QED BY <1>1, <1>5, <2>1, <2>3 DEF ScanInv, Passed
  <1>. QED BY <1>3, <1>4, <1>5

(* Only findBlock moves the scan. *)
LEMMA ScanStep == IInv /\ ScanInv /\ [Next]_vars => ScanInv'
  <1>. SUFFICES ASSUME IInv, ScanInv, [Next]_vars PROVE ScanInv'
    OBVIOUS
  <1>1. ASSUME NEW n \in Requests, Malloc(n) PROVE ScanInv'
    BY <1>1 DEF Malloc, ScanInv, First
  <1>2. CASE FindStep
    BY <1>2, FindStepScan
  <1>3. CASE FindNothing \/ SplitTruncate \/ InsertStep \/ Link
    BY <1>3 DEF FindNothing, SplitTruncate, InsertStep, Link, ScanInv
  <1>4. ASSUME NEW b \in DOMAIN heap, StartFree(b) PROVE ScanInv'
    BY <1>4 DEF StartFree, ScanInv
  <1>5. CASE UNCHANGED vars
    BY <1>5 DEF vars, ScanInv, First, Passed, Free, Req
  <1>. QED BY <1>1, <1>2, <1>3, <1>4, <1>5 DEF Next

(* Only a split adds a header, and it adds it behind another one. *)
LEMMA LowStep == IInv /\ LowInv /\ [Next]_vars => LowInv'
  <1>. SUFFICES ASSUME IInv, LowInv, [Next]_vars PROVE LowInv'
    OBVIOUS
  <1>1. DOMAIN heap' = DOMAIN heap => LowInv'
    BY DEF LowInv
  <1>2. CASE SplitTruncate /\ Splits
    <2>1. DOMAIN heap' = DOMAIN heap \cup {RestOff}
      BY <1>2 DEF SplitTruncate, Split
    <2>2. best \in Nat /\ Req \in Nat
      BY <1>2, FoundBlock, FreeOffsets DEF SplitTruncate
    <2>3. RestOff >= METADATA_SIZE
      BY <2>2 DEF RestOff, METADATA_SIZE
    <2>. QED BY <2>1, <2>3 DEF LowInv
  <1>3. CASE SplitTruncate /\ ~Splits
    BY <1>1, <1>3 DEF SplitTruncate, Truncate
  <1>4. CASE Link
    BY <1>1, <1>4 DEF Link
  <1>5. CASE FindStep \/ FindNothing \/ InsertStep \/ UNCHANGED vars
    BY <1>1, <1>5 DEF FindStep, FindNothing, InsertStep, vars
  <1>6. ASSUME NEW n \in Requests, Malloc(n) PROVE LowInv'
    BY <1>1, <1>6 DEF Malloc
  <1>7. ASSUME NEW b \in DOMAIN heap, StartFree(b) PROVE LowInv'
    BY <1>1, <1>7 DEF StartFree
  <1>. QED BY <1>2, <1>3, <1>4, <1>5, <1>6, <1>7 DEF Next

(* What findBlock has passed is never better than what it holds, and no    *)
(* header overlaps START's.                                                *)
THEOREM ScanInvariant == Spec => []ScanIInv
  <1>1. Init => ScanInv /\ LowInv
    BY DEF Init, ScanInv, LowInv, METADATA_SIZE, START
  <1>. QED BY <1>1, ScanStep, LowStep, HeapInvariant, PTL DEF Spec, ScanIInv

(* NullMeansFull for every page and every set of requests: findBlock       *)
(* returns NULL only when nothing at all is free.                          *)
THEOREM NullOnlyWhenFull == Spec => []NullMeansFull
  <1>1. ScanIInv => NullMeansFull
    BY EmptyList DEF ScanIInv, ScanInv, NullMeansFull
  <1>. QED BY <1>1, ScanInvariant, PTL

(* BestFit for every page and every set of requests: when findBlock        *)
(* returns a block, it is a smallest one of the free blocks that are large *)
(* enough, although the scan goes on behind the best block and not behind  *)
(* the current one.                                                        *)
THEOREM FoundIsBest == Spec => []BestFit
  <1>1. ScanIInv => BestFit
    <2>. SUFFICES ASSUME ScanIInv, pc = "find", curr = 0, best # 0
                  PROVE  /\ best \in Free /\ heap[best].size >= Req
                         /\ \A b \in Free :
                              heap[b].size >= Req => heap[best].size <= heap[b].size
      BY DEF BestFit
    <2>1. best \in Free /\ heap[best].size >= Req
      BY DEF ScanIInv, IInv, LoopInv, Listed, START
    <2>2. heap[best].next = 0
      BY DEF ScanIInv, ScanInv
    <2>3. Free \subseteq Passed(best)
      BY <2>1, <2>2, PassedStep DEF ScanIInv
    <2>. QED BY <2>1, <2>3 DEF ScanIInv, ScanInv
  <1>. QED BY <1>1, ScanInvariant, PTL

-----------------------------------------------------------------------------
(* Following the list n times reaches the first block and every other one  *)
(* that starts within the first n + 1 headers' worth of bytes: a block is  *)
(* at least a header behind its predecessor.                               *)
LEMMA ReachedFar ==
  ASSUME IInv, LowInv
  PROVE  \A n \in Nat : \A b \in Free :
           b = First \/ b < 16 * (n + 1) => b \in Reached[n]
  <1>. DEFINE T == {n \in Nat : \A b \in Free :
                      b = First \/ b < 16 * (n + 1) => b \in Reached[n]}
  <1>0. \A b \in Free : b \in Nat /\ b >= 16 /\ b \in DOMAIN heap \ {START}
    BY FreeOffsets DEF LowInv, METADATA_SIZE, START
  <1>1. 0 \in T
    BY <1>0, ReachedEquation DEF First, START
  <1>2. ASSUME NEW n \in Nat, n \in T PROVE n + 1 \in T
    <2>. SUFFICES ASSUME NEW b \in Free, b = First \/ b < 16 * ((n + 1) + 1)
                  PROVE  b \in Reached[n + 1]
      OBVIOUS
    <2>1. \A c \in Free : c = First \/ c < 16 * (n + 1) => c \in Reached[n]
      BY <1>2
    <2>2. Reached[n + 1] = Extend(Reached[n])
      BY ReachedEquation
    <2>3. CASE b = First
      BY <2>1, <2>2, <2>3 DEF Extend
    <2>4. CASE b # First
      <3>1. PICK p \in Free : heap[p].next = b /\ (p # First => p < b)
        BY <2>4, Predecessor
      <3>2. p = First \/ p < 16 * (n + 1)
        <4>. SUFFICES ASSUME p # First PROVE p < 16 * (n + 1)
          OBVIOUS
        <4>1. p < b /\ heap[p].size \in Nat
          BY <3>1, FreeOffsets
        <4>2. p + 16 + heap[p].size <= b
          BY <1>0, <4>1 DEF IInv, Disjoint, End, METADATA_SIZE
        <4>. QED BY <1>0, <2>4, <4>1, <4>2
      <3>3. p \in Reached[n]
        BY <2>1, <3>2
      <3>4. b # 0
        BY <1>0
      <3>. QED BY <2>2, <3>1, <3>3, <3>4 DEF Extend
    <2>. QED BY <2>3, <2>4
  <1>3. Nat \subseteq T
    <2>. HIDE DEF T
    <2>. QED BY <1>1, <1>2, Induction
  <1>. QED BY <1>3

(* FreeListExact for every page and every set of requests: from START the  *)
(* next offsets reach the free blocks, all of them and nothing else, and   *)
(* no two blocks have the same successor.                                  *)
THEOREM ListReachesFree == Spec => []FreeListExact
  <1>1. ScanIInv => FreeListExact
    <2>. SUFFICES ASSUME ScanIInv PROVE FreeListExact
      OBVIOUS
    <2>. DEFINE N == PageSize \div METADATA_SIZE
    <2>1. N \in Nat /\ PageSize < 16 * (N + 1)
      BY PageSizeAssumption DEF METADATA_SIZE
    <2>. HIDE DEF N
    <2>2. \A b \in Free : b \in Nat /\ b <= PageSize
      BY PageSizeAssumption DEF ScanIInv, IInv, TypeOK, Free
    <2>3. \A b \in Free : b < 16 * (N + 1)
      BY <2>1, <2>2, PageSizeAssumption
    <2>4. Free \subseteq Reached[N]
      BY <2>1, <2>3, ReachedFar DEF ScanIInv
    <2>5. Reached[N] \subseteq Free
      BY <2>1, ReachedEquation DEF ScanIInv
    <2>6. \A a, b \in Free \cup {START} : heap[a].next = heap[b].next => a = b
      BY DEF ScanIInv, IInv, ListInv, Listed
    <2>. QED BY <2>4, <2>5, <2>6 DEF FreeListExact, N
  <1>. QED BY <1>1, ScanInvariant, PTL
====
