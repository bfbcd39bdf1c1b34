-------------------------------- MODULE SmallMem --------------------------------
(***************************************************************************)
(* The small memory algorithm of rt-thread/src/mem.c, which is the system  *)
(* heap of this configuration (applications/mem/rtmem.c is the same code   *)
(* under other names).                                                     *)
(*                                                                         *)
(* The heap is a chain of items, one header and one data area each, from   *)
(* offset 0 to the header heap_end.  The model keeps the headers that are  *)
(* part of the chain: a header that plug_holes absorbs is dropped (the     *)
(* code clears its pool_ptr).  A call is one step: the heap lock of        *)
(* kservice.c serialises them.  A call that fails, or asks for nothing,    *)
(* changes nothing and is a stuttering step.                               *)
(***************************************************************************)
EXTENDS Integers

CONSTANTS
  RT_ALIGN_SIZE,
  SIZEOF_STRUCT_MEM,   \* aligned length of a header
  MIN_SIZE,
  MemSize,             \* mem_size_aligned, computed by rt_smem_init
  SizeMod,             \* rt_size_t is an unsigned number below SizeMod
  Sizes                \* the sizes that callers ask for

ASSUME AlignAssumption ==
  /\ RT_ALIGN_SIZE \in Nat \ {0}
  /\ SIZEOF_STRUCT_MEM \in Nat \ {0} /\ SIZEOF_STRUCT_MEM % RT_ALIGN_SIZE = 0
  /\ MIN_SIZE \in Nat \ {0}

ASSUME MemSizeAssumption ==
  /\ MemSize \in Nat /\ MemSize % RT_ALIGN_SIZE = 0
  /\ SizeMod \in Nat \ {0}
  /\ 2 * (MemSize + SIZEOF_STRUCT_MEM + MIN_SIZE) < SizeMod

ASSUME SizesAssumption == Sizes \subseteq 0..(SizeMod - 1)

VARIABLES
  heap,    \* the items (next, prev, inuse by offset), lfree, used and max
  requested    \* history: the size its caller asked for last, by item in use

heapVars == <<heap, requested>>

Put(f, x, v) == [y \in DOMAIN f \cup {x} |-> IF y = x THEN v ELSE f[y]]
Drop(f, x) == [y \in DOMAIN f \ {x} |-> f[y]]

(* RT_ALIGN(size, RT_ALIGN_SIZE) in the arithmetic of rt_size_t.           *)
RT_ALIGN(n) ==
  LET m == (n + RT_ALIGN_SIZE - 1) % SizeMod IN m - (m % RT_ALIGN_SIZE)

MIN_SIZE_ALIGNED == RT_ALIGN(MIN_SIZE)

HeapEnd == MemSize + SIZEOF_STRUCT_MEM

Items(h) == DOMAIN h.next
Holes(h) == {i \in Items(h) : ~h.inuse[i]}
InUse(h) == {i \in Items(h) \ {HeapEnd} : h.inuse[i]}

(* Bytes of user data of an item: MEM_SIZE.                                *)
MEM_SIZE(h, i) == h.next[i] - i - SIZEOF_STRUCT_MEM

Lowest(S) == CHOOSE i \in S : \A j \in S : i <= j

-------------------------------------------------------------------------------
(* Fault: the item behind the joined ones keeps its old prev.              *)
JoinLeavesPrev(h, a, b) ==
  [h EXCEPT !.lfree = IF @ = b THEN a ELSE @,
            !.next  = Drop([@ EXCEPT ![a] = h.next[b]], b),
            !.prev  = Drop(@, b),
            !.inuse = Drop(@, b)]

(* The two halves of plug_holes: b, the item behind a, becomes part of a.  *)
Join(h, a, b) ==
  [h EXCEPT !.lfree = IF @ = b THEN a ELSE @,
            !.next  = Drop([@ EXCEPT ![a] = h.next[b]], b),
            !.prev  = Drop([@ EXCEPT ![h.next[b]] = a], b),
            !.inuse = Drop(@, b)]

PlugForward(h, m) ==
  LET n == h.next[m]
  IN  IF m # n /\ ~h.inuse[n] /\ n # HeapEnd THEN Join(h, m, n) ELSE h

PlugBackward(h, m) ==
  LET p == h.prev[m]
  IN  IF p # m /\ ~h.inuse[p] THEN Join(h, p, m) ELSE h

(* Fault: only the hole behind is plugged.                                 *)
PlugForwardOnly(h, m) == PlugForward(h, m)

plug_holes(h, m) == PlugBackward(PlugForward(h, m), m)

(* A header for the rest of item p, behind size bytes of data; the item    *)
(* after it gets its new prev, heap_end does not.                          *)
Split(h, p, size) ==
  LET q == p + SIZEOF_STRUCT_MEM + size
      n == h.next[p]
  IN  [h EXCEPT !.next  = Put([@ EXCEPT ![p] = q], q, n),
                !.prev  = Put(IF n = HeapEnd THEN @ ELSE [@ EXCEPT ![n] = q],
                              q, p),
                !.inuse = Put(@, q, FALSE)]

-------------------------------------------------------------------------------
(* rt_smem_alloc.                                                          *)

AllocSize(n) ==
  IF RT_ALIGN(n) < MIN_SIZE_ALIGNED THEN MIN_SIZE_ALIGNED ELSE RT_ALIGN(n)

(* Fault: the search gives up one place too early.                         *)
CandidatesShort(h, size) ==
  {i \in Holes(h) : h.lfree <= i /\ i < MemSize - size /\ MEM_SIZE(h, i) >= size}

(* Where the search from lfree on can stop; the chain is in address order. *)
Candidates(h, size) ==
  IF size > MemSize THEN {}
  ELSE {i \in Holes(h) : /\ h.lfree <= i
                        /\ i <= MemSize - size
                        /\ MEM_SIZE(h, i) >= size}

CanAlloc(h, n) == n # 0 /\ Candidates(h, AllocSize(n)) # {}

AllocItem(h, n) == Lowest(Candidates(h, AllocSize(n)))

(* A block is split if the rest is worth a header.                         *)
Carve(h, p, size) ==
  IF MEM_SIZE(h, p) >= size + SIZEOF_STRUCT_MEM + MIN_SIZE_ALIGNED
    THEN Split(h, p, size)
    ELSE h

(* Item p is taken into use: accounting, and the new lowest free item.     *)
Occupy(h, p) ==
  LET used == h.used + h.next[p] - p
      inuse == [h.inuse EXCEPT ![p] = TRUE]
  IN  [h EXCEPT !.inuse = inuse,
                !.used  = used,
                !.max   = IF @ < used THEN used ELSE @,
                !.lfree = IF @ # p THEN @
                          ELSE Lowest({i \in Items(h) :
                                         /\ i >= h.lfree
                                         /\ i = HeapEnd \/ ~inuse[i]})]

rt_smem_alloc(h, n) ==
  LET p == AllocItem(h, n) IN Occupy(Carve(h, p, AllocSize(n)), p)

-------------------------------------------------------------------------------
(* rt_smem_free.                                                           *)
rt_smem_free(h, p) ==
  plug_holes([h EXCEPT !.inuse = [@ EXCEPT ![p] = FALSE],
                       !.lfree = IF p < @ THEN p ELSE @,
                       !.used  = @ - (h.next[p] - p)], p)

(* The part of rt_smem_realloc that cuts item p down to size bytes.        *)
Shrinks(h, p, size) == size + SIZEOF_STRUCT_MEM + MIN_SIZE < MEM_SIZE(h, p)

Cut(h, p, size) ==
  LET q == p + SIZEOF_STRUCT_MEM + size
      s == Split(h, p, size)
  IN  plug_holes([s EXCEPT !.used  = @ - (MEM_SIZE(h, p) - size),
                           !.lfree = IF q < @ THEN q ELSE @], q)

-------------------------------------------------------------------------------
(* rt_smem_init.                                                           *)
HeapInit ==
  /\ heap = [next  |-> [i \in {0, HeapEnd} |-> HeapEnd],
             prev  |-> [i \in {0, HeapEnd} |-> i],
             inuse |-> [i \in {0, HeapEnd} |-> i = HeapEnd],
             lfree |-> 0, used |-> 0, max |-> 0]
  /\ requested = <<>>

Malloc(n) ==
  /\ CanAlloc(heap, n)
  /\ heap' = rt_smem_alloc(heap, n)
  /\ requested' = Put(requested, AllocItem(heap, n), n)

Dealloc(p) ==
  /\ heap' = rt_smem_free(heap, p)
  /\ requested' = Drop(requested, p)

(* rt_smem_realloc of a block; with RT_NULL it is rt_smem_alloc.           *)
ReallocFree(p, n) ==
  /\ RT_ALIGN(n) = 0
  /\ Dealloc(p)

ReallocSame(p, n) ==
  /\ RT_ALIGN(n) # 0 /\ RT_ALIGN(n) = MEM_SIZE(heap, p)
  /\ requested' = [requested EXCEPT ![p] = n]
  /\ UNCHANGED heap

ReallocCut(p, n) ==
  /\ RT_ALIGN(n) \notin {0, MEM_SIZE(heap, p)}
  /\ RT_ALIGN(n) <= MemSize
  /\ Shrinks(heap, p, RT_ALIGN(n))
  /\ heap' = Cut(heap, p, RT_ALIGN(n))
  /\ requested' = [requested EXCEPT ![p] = n]

(* Fault: the old block is freed first, so the copy may overlap it.        *)
MoveFreesFirst(p, n) ==
  /\ RT_ALIGN(n) \notin {0, MEM_SIZE(heap, p)}
  /\ RT_ALIGN(n) <= MemSize
  /\ ~Shrinks(heap, p, RT_ALIGN(n))
  /\ CanAlloc(rt_smem_free(heap, p), RT_ALIGN(n))
  /\ heap' = rt_smem_alloc(rt_smem_free(heap, p), RT_ALIGN(n))
  /\ requested' = Put(Drop(requested, p),
                  AllocItem(rt_smem_free(heap, p), RT_ALIGN(n)), n)

(* Also a smaller size that leaves no room for a header is a move.         *)
ReallocMove(p, n) ==
  /\ RT_ALIGN(n) \notin {0, MEM_SIZE(heap, p)}
  /\ RT_ALIGN(n) <= MemSize
  /\ ~Shrinks(heap, p, RT_ALIGN(n))
  /\ CanAlloc(heap, RT_ALIGN(n))
  /\ heap' = rt_smem_free(rt_smem_alloc(heap, RT_ALIGN(n)), p)
  /\ requested' = Drop(Put(requested, AllocItem(heap, RT_ALIGN(n)), n), p)

HeapNext ==
  \/ \E n \in Sizes : Malloc(n)
  \/ \E p \in InUse(heap) :
       \/ Dealloc(p)
       \/ \E n \in Sizes : \/ ReallocFree(p, n)
                           \/ ReallocSame(p, n)
                           \/ ReallocCut(p, n)
                           \/ ReallocMove(p, n)

HeapSpec == HeapInit /\ [][HeapNext]_heapVars

-------------------------------------------------------------------------------
(* Types; in particular headers and links lie inside the heap.             *)
HeapTypeOK ==
  /\ heap = [next |-> heap.next, prev |-> heap.prev, inuse |-> heap.inuse,
             lfree |-> heap.lfree, used |-> heap.used, max |-> heap.max]
  /\ Items(heap) \subseteq 0..HeapEnd
  /\ {0, HeapEnd} \subseteq Items(heap)
  /\ heap.next \in [Items(heap) -> Items(heap)]
  /\ heap.prev \in [Items(heap) -> 0..HeapEnd]
  /\ heap.inuse \in [Items(heap) -> BOOLEAN]
  /\ heap.lfree \in Items(heap)
  /\ heap.used \in 0..HeapEnd
  /\ heap.max \in 0..HeapEnd
  /\ DOMAIN requested = InUse(heap)

(* The chain has no gap and no overlap, and leads back: every item ends    *)
(* where the next header is, and that header names it as its predecessor   *)
(* (heap_end's prev, which nothing reads, aside).                          *)
ChainIntact ==
  \A i \in Items(heap) \ {HeapEnd} :
    /\ i + SIZEOF_STRUCT_MEM <= heap.next[i]
    /\ \A j \in Items(heap) : ~(i < j /\ j < heap.next[i])
    /\ heap.next[i] # HeapEnd => heap.prev[heap.next[i]] = i

(* "mem->next will always be used at this point: if not we have 2 unused   *)
(* structs in a row, plug_holes should have take care of this": whatever   *)
(* the order of allocs, frees and reallocs, free space is never in pieces  *)
(* that could be one.                                                      *)
NoTwoFreeInARow ==
  \A i \in Holes(heap) : heap.inuse[heap.next[i]]

(* rt_smem_alloc gives "NULL if no free memory was found", and only then:  *)
(* it finds every free block that is long enough, the last one included.   *)
AllocFailsOnlyWhenFull ==
  \A n \in Sizes \ {0} :
    ~CanAlloc(heap, n) => \A i \in Holes(heap) : MEM_SIZE(heap, i) < AllocSize(n)

(* The addresses callers hold: an item's data begins behind its header.    *)
ByAddress(f) ==
  [a \in {p + SIZEOF_STRUCT_MEM : p \in InUse(heap)} |-> f[a - SIZEOF_STRUCT_MEM]]

(* The live blocks and the sizes asked for, as the callers know them.      *)
OwnedBlocks == ByAddress([p \in InUse(heap) |-> MEM_SIZE(heap, p)])
AskedSizes == ByAddress(requested)

Abstract == INSTANCE Allocator WITH
              HeapSize <- HeapEnd,
              Requests <- Sizes,
              owned <- OwnedBlocks,
              asked <- AskedSizes

(* The heap implements the abstract allocator: "a block of memory with a   *)
(* minimum of 'size' bytes" is given out, apart from all live ones, and no *)
(* alloc, free or realloc moves, shortens or frees a block it is not about.*)
ImplementsAllocator == Abstract!Spec
===============================================================================
