-------------------------------- MODULE Heap --------------------------------
(***************************************************************************)
(* The heap of the kernel, lwIP, mbedTLS and the application                *)
(* (FreeRTOS/portable/MemMang/heap_4.c): blocks with a header each, the     *)
(* free ones linked in the order of their addresses, first fit, and a freed *)
(* block joined with the free blocks beside it.                             *)
(*                                                                          *)
(* pvPortMalloc runs with the scheduler suspended and is one step.          *)
(* vPortFree takes the mark off the header before it suspends the           *)
(* scheduler, and is two: other tasks allocate and free between them.       *)
(* Addresses and sizes are numbers; size_t counts modulo SizeMod.           *)
(***************************************************************************)
EXTENDS Integers, FiniteSets, FiniteSetsExt, Functions

CONSTANTS portBYTE_ALIGNMENT,
          xHeapStructSize,      \* the size of a header
          ucHeap,               \* the address of the array
          configTOTAL_HEAP_SIZE,
          SizeMod,
          Requests,             \* sizes asked for
          Items                 \* pairs of a number and a size of items

NULL   == 0
xStart == 1 \* the address of the list's head, which is not in the heap

AlignedUp(n)   == ((n + portBYTE_ALIGNMENT - 1) \div portBYTE_ALIGNMENT)
                    * portBYTE_ALIGNMENT
AlignedDown(n) == (n \div portBYTE_ALIGNMENT) * portBYTE_ALIGNMENT

xBlockAllocatedBit == SizeMod \div 2
heapMINIMUM_BLOCK_SIZE == 2 * xHeapStructSize

ASSUME HeapAssumption ==
    /\ {portBYTE_ALIGNMENT, xHeapStructSize, ucHeap, SizeMod} \subseteq Nat
    /\ portBYTE_ALIGNMENT > 1
    /\ xHeapStructSize > 0 /\ xHeapStructSize % portBYTE_ALIGNMENT = 0
    /\ ucHeap > xStart
    /\ configTOTAL_HEAP_SIZE \in 4 * xHeapStructSize .. xBlockAllocatedBit - 1
    /\ Requests \subseteq 0 .. SizeMod - 1
    /\ Items \subseteq Nat \X Nat

VARIABLES
    block, \* the headers: pxNextFreeBlock, xBlockSize and its allocated bit
    pxEnd, xFreeBytesRemaining, xMinimumEverFreeBytesRemaining,
    owned,   \* the blocks the program has, with the size it asked for
    freeing  \* the blocks whose vPortFree is between its two steps

heapVars == <<block, pxEnd, xFreeBytesRemaining, xMinimumEverFreeBytesRemaining, owned,
          freeing>>

NoBlocks == [a \in {} |-> NULL]

(* f with value v at a. *)
Extended(f, a, v) == [q \in DOMAIN f \cup {a} |-> IF q = a THEN v ELSE f[q]]

HeapInit ==
    /\ block = NoBlocks
    /\ pxEnd = NULL
    /\ xFreeBytesRemaining = 0
    /\ xMinimumEverFreeBytesRemaining = 0
    /\ owned = NoBlocks
    /\ freeing = {}

Header(next, size) == [next |-> next, size |-> size, allocated |-> FALSE]

(* The rounding in pvPortMalloc of what is asked for. *)
WantedSize(n) == IF n > 0 THEN AlignedUp(n + xHeapStructSize) % SizeMod ELSE 0

-----------------------------------------------------------------------------
(* prvHeapInit: from the first aligned address to the end marker, one block. *)
StartOfHeap == AlignedUp(ucHeap)
EndOfHeap   == AlignedDown(ucHeap + configTOTAL_HEAP_SIZE - xHeapStructSize)

prvHeapInit ==
    [block |-> Extended(Extended(Extended(NoBlocks,
                   xStart, Header(StartOfHeap, 0)),
                   StartOfHeap, Header(EndOfHeap, EndOfHeap - StartOfHeap)),
                   EndOfHeap, Header(NULL, 0)),
     free  |-> EndOfHeap - StartOfHeap,
     least |-> EndOfHeap - StartOfHeap]

(* The heap that a call of pvPortMalloc works on. *)
Heap ==
    IF pxEnd = NULL THEN prvHeapInit
    ELSE [block |-> block, free |-> xFreeBytesRemaining,
          least |-> xMinimumEverFreeBytesRemaining]

-----------------------------------------------------------------------------
(* The blocks in the list but the last, which is the end marker. *)
Linked(b) == {p \in DOMAIN b : b[p].next # NULL}

(* The free block after which address a is inserted. *)
Iterator(b, a) ==
    LET From[p \in Linked(b)] == IF b[p].next < a THEN From[b[p].next] ELSE p
    IN  From[xStart]

(* Mutant: a freed block is joined with the block behind it only. *)
prvInsertBlockIntoFreeListBehind(b, a) ==
    LET p == Iterator(b, a)
        n == b[p].next
        joinsNext == a + b[a].size = n /\ b[n].next # NULL
        whole == IF joinsNext THEN Header(b[n].next, b[a].size + b[n].size)
                 ELSE Header(n, b[a].size)
    IN  Restrict([b EXCEPT ![a] = whole, ![p].next = a],
                 DOMAIN b \ (IF joinsNext THEN {n} ELSE {}))

(* prvInsertBlockIntoFreeList: with the block before it, the block behind    *)
(* it, both or neither.  A header inside a joined block is one no more.      *)
prvInsertBlockIntoFreeList(b, a) ==
    LET p == Iterator(b, a)
        n == b[p].next
        joinsPrevious == p + b[p].size = a
        joinsNext == a + b[a].size = n /\ b[n].next # NULL
        first == IF joinsPrevious THEN p ELSE a
        before == IF joinsPrevious THEN b[p].size ELSE 0
        whole == IF joinsNext THEN Header(b[n].next, before + b[a].size + b[n].size)
                 ELSE Header(n, before + b[a].size)
        inside == (IF joinsPrevious THEN {a} ELSE {}) \cup (IF joinsNext THEN {n} ELSE {})
        linked == [b EXCEPT ![p].next = first]
    IN  Restrict([linked EXCEPT ![first] = whole], DOMAIN b \ inside)

(* The block before the first that is large enough, or before the end. *)
FirstFit(b, size) ==
    LET From[p \in Linked(b)] ==
            LET n == b[p].next
            IN  IF b[n].size < size /\ b[n].next # NULL THEN From[n] ELSE p
    IN  From[xStart]

(* A block is split only if the rest is worth it. *)
Splits(rest) == rest > heapMINIMUM_BLOCK_SIZE

(* The headers after the free block behind p is taken for size bytes. *)
Taken(b, p, size) ==
    LET a == b[p].next
        rest == b[a].size - size
        unlinked == [b EXCEPT ![p].next = b[a].next]
        marked(s) == [next |-> NULL, size |-> s, allocated |-> TRUE]
    IN  IF Splits(rest)
        THEN prvInsertBlockIntoFreeList(
                 Extended([unlinked EXCEPT ![a] = marked(size)], a + size, Header(NULL, rest)),
                 a + size)
        ELSE [unlinked EXCEPT ![a] = marked(b[a].size)]

pvPortMalloc(asked) ==
    LET h == Heap
        size == WantedSize(asked)
        p == FirstFit(h.block, size)
        a == h.block[p].next
        found == /\ asked < xBlockAllocatedBit
                 /\ size > 0
                 /\ size <= h.free
                 /\ h.block[a].next # NULL
        after == Taken(h.block, p, size)
        free == h.free - after[a].size
    IN  /\ pxEnd' = EndOfHeap
        /\ IF found
           THEN /\ block' = after
                /\ xFreeBytesRemaining' = free
                /\ xMinimumEverFreeBytesRemaining' = Min({free, h.least})
                /\ owned' = Extended(owned, a, asked)
           ELSE /\ block' = h.block
                /\ xFreeBytesRemaining' = h.free
                /\ xMinimumEverFreeBytesRemaining' = h.least
                /\ UNCHANGED owned
        /\ UNCHANGED freeing

(* The product is a size_t like its factors. *)
vPortCalloc(num, item_size) == pvPortMalloc((item_size * num) % SizeMod)

(* vPortFree, outside of the scheduler's suspension and within it. *)
vPortFree(a) ==
    /\ a \in DOMAIN owned
    /\ block[a].allocated
    /\ block[a].next = NULL
    /\ block' = [block EXCEPT ![a].allocated = FALSE]
    /\ owned' = Restrict(owned, DOMAIN owned \ {a})
    /\ freeing' = freeing \cup {a}
    /\ UNCHANGED <<pxEnd, xFreeBytesRemaining, xMinimumEverFreeBytesRemaining>>

FreeSuspended(a) ==
    /\ a \in freeing
    /\ xFreeBytesRemaining' = xFreeBytesRemaining + block[a].size
    /\ block' = prvInsertBlockIntoFreeList(block, a)
    /\ freeing' = freeing \ {a}
    /\ UNCHANGED <<pxEnd, xMinimumEverFreeBytesRemaining, owned>>

HeapNext ==
    \/ \E n \in Requests : pvPortMalloc(n)
    \/ \E i \in Items : vPortCalloc(i[1], i[2])
    \/ \E a \in DOMAIN owned : vPortFree(a)
    \/ \E a \in freeing : FreeSuspended(a)

-----------------------------------------------------------------------------
HeapTypeOK ==
    /\ pxEnd \in {NULL, EndOfHeap}
    /\ \A a \in DOMAIN block :
          block[a] \in [next : Nat, size : 0 .. SizeMod - 1, allocated : BOOLEAN]
    /\ xFreeBytesRemaining \in 0 .. configTOTAL_HEAP_SIZE
    /\ DOMAIN owned \subseteq DOMAIN block
    /\ freeing \subseteq DOMAIN block

HeapBlocks == DOMAIN block \ {xStart, pxEnd}

Used == DOMAIN owned \cup freeing
Free == HeapBlocks \ Used

(* The blocks cover the heap and nothing else, without gap or overlap, from  *)
(* the first aligned address to the end marker; all are aligned and carry    *)
(* the mark if and only if the program has them, and each has room for what  *)
(* pvPortMalloc was asked for.                                               *)
Tiled ==
    /\ pxEnd + xHeapStructSize <= ucHeap + configTOTAL_HEAP_SIZE
    /\ StartOfHeap = Min(HeapBlocks)
    /\ \A a \in HeapBlocks :
          /\ a % portBYTE_ALIGNMENT = 0
          /\ block[a].size > xHeapStructSize
          /\ a + block[a].size = Min({c \in HeapBlocks \cup {pxEnd} : c > a})
          /\ block[a].allocated <=> a \in DOMAIN owned
    /\ \A a \in DOMAIN owned : block[a].size >= owned[a] + xHeapStructSize

BytesOf(b, S) == UNION {a .. a + b[a].size - 1 : a \in S}

(* The list has the free blocks, all of them, in the order of their          *)
(* addresses; no two of them touch, so that the heap does not fall into      *)
(* pieces, and xFreeBytesRemaining is the number of their bytes.             *)
FreeListExact ==
    /\ \A a \in Free \cup {xStart} :
          block[a].next = Min({c \in Free \cup {pxEnd} : c > a})
    /\ \A a \in Free : a + block[a].size \notin Free
    /\ xFreeBytesRemaining = Cardinality(BytesOf(block, Free))
    /\ xMinimumEverFreeBytesRemaining <= xFreeBytesRemaining

(* Blocks and free list are exact whatever is allocated and freed, also      *)
(* while the vPortFree of another task is half done.                         *)
HeapExact ==
    /\ HeapTypeOK
    /\ pxEnd # NULL => Tiled /\ FreeListExact
=============================================================================
