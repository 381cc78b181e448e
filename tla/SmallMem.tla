------------------------------ MODULE SmallMem -------------------------------
(***************************************************************************)
(* The heap of the build (rt-thread/src/mem.c): blocks with a header in    *)
(* front, chained by offsets in both directions, first fit from the lowest *)
(* free block, and merging of neighbours when a block is freed.            *)
(*                                                                         *)
(* heap_sem makes the sections between rt_sem_take and rt_sem_release      *)
(* exclusive, so each of them is a step.  rt_realloc is one such section,  *)
(* or three: it looks at the block, allocates another one, copies and      *)
(* frees, and other threads may use the heap in between.                   *)
(***************************************************************************)
EXTENDS Integers, FiniteSets, FiniteSetsExt

CONSTANTS
    Client,             \* the threads that use the heap
    RT_ALIGN_SIZE,      \* 4 in the build
    SIZEOF_STRUCT_MEM,  \* 12 in the build
    MIN_SIZE,           \* 12 in the build
    SizeMod,            \* how many values rt_size_t has, 2^32 in the build
    mem_size_aligned,   \* bytes of data in the empty heap
    Request             \* the sizes that are asked for

\* RT_ALIGN, in rt_size_t: the largest sizes wrap around to 0.
AlignUp(n) == (((n + (RT_ALIGN_SIZE - 1)) % SizeMod) \div RT_ALIGN_SIZE) * RT_ALIGN_SIZE

MIN_SIZE_ALIGNED == AlignUp(MIN_SIZE)

ASSUME HeapAssumption ==
    /\ RT_ALIGN_SIZE \in Nat \ {0}
    /\ SIZEOF_STRUCT_MEM \in Nat \ {0} /\ AlignUp(SIZEOF_STRUCT_MEM) = SIZEOF_STRUCT_MEM
    /\ MIN_SIZE \in Nat \ {0}
    /\ mem_size_aligned \in Nat /\ AlignUp(mem_size_aligned) = mem_size_aligned
    /\ MIN_SIZE_ALIGNED <= mem_size_aligned
    /\ SizeMod \in Nat /\ mem_size_aligned + SIZEOF_STRUCT_MEM < SizeMod
    /\ MIN_SIZE + RT_ALIGN_SIZE < SizeMod
    /\ Request \subseteq 0 .. SizeMod - 1

VARIABLES
    heap,       \* the headers, by offset: used, next, prev
    lfree,      \* offset of the lowest free block
    used_mem, max_mem,
    held,       \* the blocks the clients hold, by the offset of their header:
                \* whose, and how many bytes it was given
    move        \* per client: the rt_realloc that has to move a block

vars == <<heap, lfree, used_mem, max_mem, held, move>>

NoMove == [step |-> "none", old |-> 0, size |-> 0]

\* Offset of heap_end.
End == mem_size_aligned + SIZEOF_STRUCT_MEM

\* Bytes of user data in the block at p.
Room(h, p) == h[p].next - (p + SIZEOF_STRUCT_MEM)

\* rt_system_heap_init
Init ==
    /\ heap = [p \in {0, End} |-> IF p = 0
                 THEN [used |-> FALSE, next |-> End, prev |-> 0]
                 ELSE [used |-> TRUE, next |-> End, prev |-> End]]
    /\ lfree = 0
    /\ used_mem = 0
    /\ max_mem = 0
    /\ held = << >>
    /\ move = [c \in Client |-> NoMove]

-----------------------------------------------------------------------------
(* Chain surgery *)

\* Block p is cut to size bytes of data and a free block takes the rest.  The
\* header of heap_end keeps its prev.
Split(h, p, size) ==
    LET q == p + SIZEOF_STRUCT_MEM + size
        n == h[p].next
    IN  [x \in DOMAIN h \cup {q} |->
            CASE x = p              -> [h[p] EXCEPT !.next = q]
              [] x = q              -> [used |-> FALSE, next |-> n, prev |-> p]
              [] x = n /\ n # End   -> [h[n] EXCEPT !.prev = q]
              [] OTHER              -> h[x]]

\* Block q, the successor of p, disappears into p.
Join(h, p, q) ==
    LET n == h[q].next
    IN  [x \in DOMAIN h \ {q} |->
            CASE x = p -> [h[p] EXCEPT !.next = n]
              [] x = n -> [h[n] EXCEPT !.prev = p]
              [] OTHER -> h[x]]

\* Variant: the block in front is not looked at.
plug_holes_Forward(h, low, p) ==
    LET n == h[p].next
    IN  IF n # p /\ ~h[n].used /\ n # End
          THEN [heap |-> Join(h, p, n), lfree |-> IF low = n THEN p ELSE low]
          ELSE [heap |-> h, lfree |-> low]

\* plug_holes: the free block p is joined with the next block, then with the
\* previous one.
plug_holes(h, low, p) ==
    LET n        == h[p].next
        forward  == n # p /\ ~h[n].used /\ n # End
        h1       == IF forward THEN Join(h, p, n) ELSE h
        low1     == IF forward /\ low = n THEN p ELSE low
        b        == h1[p].prev
        backward == b # p /\ ~h1[b].used
    IN  [heap  |-> IF backward THEN Join(h1, b, p) ELSE h1,
         lfree |-> IF backward /\ low1 = p THEN b ELSE low1]

\* Where the search for the next free block from p ends.
NextFree(h, p) == Min({q \in DOMAIN h : q >= p /\ (q = End \/ ~h[q].used)})

-----------------------------------------------------------------------------
(* rt_malloc *)

\* Variant: the used flag is not looked at.
Candidates_Used(size) ==
    {p \in DOMAIN heap : /\ lfree <= p
                         /\ p < mem_size_aligned - size
                         /\ Room(heap, p) >= size}

\* The blocks at which the search of rt_malloc would stop; it follows the chain
\* upwards from lfree, so it takes the lowest one.
Candidates(size) ==
    {p \in DOMAIN heap : /\ lfree <= p
                         /\ p < mem_size_aligned - size
                         /\ ~heap[p].used
                         /\ Room(heap, p) >= size}

\* The rest of block p is large enough for a header and some data.
Splits(p, size) == Room(heap, p) >= size + SIZEOF_STRUCT_MEM + MIN_SIZE_ALIGNED

\* What rt_malloc reserves for a request.
Granted(request) == Max({AlignUp(request), MIN_SIZE_ALIGNED})

\* What used_mem grows by.
Taken(p, size) == IF Splits(p, size) THEN size + SIZEOF_STRUCT_MEM
                                     ELSE heap[p].next - p

\* Block p is marked used and split, and lfree moves on if it was p.
TakeBlock(p, size) ==
    LET marked == [heap EXCEPT ![p].used = TRUE]
        h      == IF Splits(p, size) THEN Split(marked, p, size) ELSE marked
    IN  /\ heap' = h
        /\ lfree' = IF p = lfree THEN NextFree(h, p) ELSE lfree
        /\ used_mem' = used_mem + Taken(p, size)
        /\ max_mem' = Max({max_mem, used_mem + Taken(p, size)})

\* rt_malloc that succeeds.  When there is no candidate, or the request is 0 or
\* larger than the heap, it returns RT_NULL and changes nothing.  A request that
\* RT_ALIGN wraps to 0 is given the smallest block.
Malloc(c, request) ==
    LET size == Granted(request)
    IN  /\ move[c] = NoMove
        /\ request # 0
        /\ AlignUp(request) <= mem_size_aligned
        /\ Candidates(size) # {}
        /\ LET p == Min(Candidates(size))
           IN  /\ TakeBlock(p, size)
               /\ held' = [q \in DOMAIN held \cup {p} |->
                             IF q = p THEN [client |-> c, size |-> size] ELSE held[q]]
        /\ UNCHANGED move

-----------------------------------------------------------------------------
(* rt_free *)

\* Variant: the lowest-free pointer is not lowered.
Lowest_Keep(p) == lfree

\* The lowest-free pointer once block p is free.
Lowest(p) == Min({lfree, p})

\* rt_free of block p.
FreeBlock(p) ==
    LET plugged == plug_holes([heap EXCEPT ![p].used = FALSE], Lowest(p), p)
    IN  /\ heap' = plugged.heap
        /\ lfree' = plugged.lfree
        /\ used_mem' = used_mem - (heap[p].next - p)
        /\ held' = [q \in DOMAIN held \ {p} |-> held[q]]
        /\ UNCHANGED max_mem

Holds(c, p) == p \in DOMAIN held /\ held[p].client = c

Free(c, p) ==
    /\ move[c] = NoMove
    /\ Holds(c, p)
    /\ FreeBlock(p)
    /\ UNCHANGED move

-----------------------------------------------------------------------------
(* rt_realloc of block p; a newsize that is 0, or that RT_ALIGN wraps to 0, is  *)
(* rt_free, and no block is rt_malloc                                           *)

Resized(p, size) == held' = [held EXCEPT ![p].size = size]

\* The block has exactly the new size.
ReallocSame(c, p, request) ==
    /\ move[c] = NoMove /\ Holds(c, p)
    /\ AlignUp(request) # 0
    /\ AlignUp(request) = Room(heap, p)
    /\ Resized(p, AlignUp(request))
    /\ UNCHANGED <<heap, lfree, used_mem, max_mem, move>>

Shrinks(p, newsize) == newsize + SIZEOF_STRUCT_MEM + MIN_SIZE < Room(heap, p)

\* Variant: the rest is counted as used for ever.
Shrunk_Uncounted(p, newsize) == used_mem

\* used_mem without what is split off.
Shrunk(p, newsize) == used_mem - (Room(heap, p) - newsize)

\* The block is cut in place.  newsize may be below MIN_SIZE_ALIGNED here.
ReallocShrink(c, p, request) ==
    LET newsize == AlignUp(request)
        q       == p + SIZEOF_STRUCT_MEM + newsize
        plugged == plug_holes(Split(heap, p, newsize), Lowest(q), q)
    IN  /\ move[c] = NoMove /\ Holds(c, p)
        /\ newsize # 0
        /\ Shrinks(p, newsize)
        /\ heap' = plugged.heap
        /\ lfree' = plugged.lfree
        /\ used_mem' = Shrunk(p, newsize)
        /\ Resized(p, newsize)
        /\ UNCHANGED <<max_mem, move>>

\* Any other size: the heap is unlocked, and the block will be moved.
ReallocMove(c, p, request) ==
    LET newsize == AlignUp(request)
    IN  /\ move[c] = NoMove /\ Holds(c, p)
        /\ newsize # 0
        /\ newsize <= mem_size_aligned
        /\ newsize # Room(heap, p) /\ ~Shrinks(p, newsize)
        /\ move' = [move EXCEPT ![c] = [step |-> "malloc", old |-> p, size |-> newsize]]
        /\ UNCHANGED <<heap, lfree, used_mem, max_mem, held>>

\* The rt_malloc of a move; when it fails the caller keeps its old block.
MoveMalloc(c) ==
    LET size == Granted(move[c].size)
    IN  /\ move[c].step = "malloc"
        /\ \/ /\ Candidates(size) = {}
              /\ move' = [move EXCEPT ![c] = NoMove]
              /\ UNCHANGED <<heap, lfree, used_mem, max_mem, held>>
           \/ /\ Candidates(size) # {}
              /\ LET p == Min(Candidates(size))
                 IN  /\ TakeBlock(p, size)
                     /\ held' = [q \in DOMAIN held \cup {p} |->
                                   IF q = p THEN [client |-> c, size |-> size]
                                            ELSE held[q]]
              /\ move' = [move EXCEPT ![c].step = "free"]

\* The copy and the rt_free of a move.
MoveFree(c) ==
    /\ move[c].step = "free"
    /\ FreeBlock(move[c].old)
    /\ move' = [move EXCEPT ![c] = NoMove]

-----------------------------------------------------------------------------

Next ==
    \E c \in Client :
        \/ MoveMalloc(c)
        \/ MoveFree(c)
        \/ \E request \in Request : Malloc(c, request)
        \/ \E p \in DOMAIN held :
             \/ Free(c, p)
             \/ \E request \in Request :
                  \/ ReallocSame(c, p, request)
                  \/ ReallocShrink(c, p, request)
                  \/ ReallocMove(c, p, request)

Spec == Init /\ [][Next]_vars

-----------------------------------------------------------------------------
(* Safety *)

Blocks == DOMAIN heap \ {End}

\* Freed neighbours are always joined.
NoFreeNeighbours ==
    \A p \in Blocks : ~heap[p].used => heap[p].next = End \/ heap[heap[p].next].used

\* The chain is sound: every block ends where the next one starts, has room for
\* data, and is the prev of its successor, except that heap_end may keep an old
\* prev.  The used blocks are those the clients hold, their bytes fit, and no two
\* free blocks are neighbours, so that an empty heap is one block again.
ChainSound ==
    /\ 0 \in Blocks /\ End \in DOMAIN heap
    /\ heap[0].prev = 0
    /\ \A p \in Blocks :
         LET n == heap[p].next
         IN  /\ n = Min({q \in DOMAIN heap : q > p})
             /\ Room(heap, p) >= RT_ALIGN_SIZE
             /\ n # End => heap[n].prev = p
    /\ DOMAIN held = {p \in Blocks : heap[p].used}
    /\ \A p \in DOMAIN held : held[p].size <= Room(heap, p)
    /\ NoFreeNeighbours

\* used_mem is the number of bytes in the used blocks, headers included.
UsedMemCounts ==
    /\ used_mem = Cardinality(UNION {p .. heap[p].next - 1 : p \in {q \in Blocks : heap[q].used}})
    /\ used_mem <= max_mem

\* rt_malloc refuses a request only when no free block is large enough, but for
\* one that would end exactly at heap_end: its search stops below it.
NoMissedBlock ==
    \A request \in Request \ {0} :
        LET size == Granted(request)
        IN  Candidates(size) = {} =>
                \A p \in Blocks : ~heap[p].used /\ Room(heap, p) >= size =>
                                    p = mem_size_aligned - size

\* The clients hold what an allocator promises: disjoint regions in the heap
\* that no call of another client touches.
Abstract == INSTANCE Allocator WITH
    Top <- End,
    regions <- {[client |-> held[p].client, addr |-> p + SIZEOF_STRUCT_MEM,
                 size |-> held[p].size] : p \in DOMAIN held}

ImplementsAllocator == Abstract!Spec
=============================================================================
