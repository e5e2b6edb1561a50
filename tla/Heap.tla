-------------------------------- MODULE Heap --------------------------------
(***************************************************************************)
(* The kernel heap of arch/x86_64/memory.c: kmalloc, kfree and kcalloc     *)
(* over a singly linked list of block headers laid out inside one arena.   *)
(*                                                                         *)
(* A header is known by its address.  heap maps the address of every       *)
(* header on the list to its fields; its domain is empty exactly while     *)
(* heap_head is still NULL.  A header that kfree merges away leaves the    *)
(* domain: its bytes stay in memory, but no pointer leads to them.         *)
(*                                                                         *)
(* A definition called a slip is a mistake in the one that follows it,     *)
(* kept to show that a property would notice; nothing uses it.             *)
(***************************************************************************)
EXTENDS Integers

CONSTANTS
  HEAP_START,      \* address of the arena
  HEAP_SIZE,       \* payload bytes of the initial block (8 MB)
  HDR,             \* sizeof(heap_block_t)
  HEAP_MIN_BLOCK,  \* a remainder smaller than this is not split off
  ALIGN,           \* request sizes are rounded up to a multiple of this (8)
  SIZE_MOD,        \* number of values of size_t (2^64)
  Sizes,           \* arguments callers pass to kmalloc
  Counts           \* element counts callers pass to kcalloc

ASSUME HeapAssumption ==
  /\ HEAP_START \in Nat \ {0}
  /\ HDR \in Nat \ {0}
  /\ HEAP_MIN_BLOCK \in Nat \ {0}
  /\ ALIGN \in Nat \ {0}
  /\ SIZE_MOD \in Nat \ {0}
  /\ HEAP_SIZE \in Nat
  /\ HEAP_SIZE + HDR + HEAP_MIN_BLOCK < SIZE_MOD
  /\ Sizes \subseteq Nat
  /\ Counts \subseteq Nat

\* Three 8-byte fields: a header keeps the alignment of what follows it.
ASSUME HeaderAssumption == HDR % ALIGN = 0

NULL == 0

VARIABLES
  heap,   \* address of a listed header -> [size, used, next]
  live,   \* the callers: payload pointer held -> bytes asked for
  zeroed  \* the last zero fill of kcalloc: [ptr, len], len 0 at first

vars == <<heap, live, zeroed>>

-----------------------------------------------------------------------------
(* The list.                                                               *)

Block == [size : Nat, used : BOOLEAN, next : Nat]

\* Slips: no rounding at all; the + 7 left out.
RoundUpNot(n) == n
RoundUpDown(n) == n - (n % ALIGN)

\* size = (size + 7) & ~7, in the arithmetic of size_t.
RoundUp(n) == LET s == (n + (ALIGN - 1)) % SIZE_MOD IN s - (s % ALIGN)

\* The list as kmalloc finds it: the first call writes the initial header.
Arena ==
  IF DOMAIN heap = {}
  THEN [a \in {HEAP_START} |->
          [size |-> HEAP_SIZE, used |-> FALSE, next |-> NULL]]
  ELSE heap

\* A slip: used is not looked at.
FitsUsed(h, b, n) == h[b].size >= n

Fits(h, b, n) == ~h[b].used /\ h[b].size >= n

\* The walk from heap_head stops at the first block that fits.  The list is
\* in address order (HeapTiled), so that is the lowest one.
FirstFit(h, b, n) ==
  /\ Fits(h, b, n)
  /\ \A c \in DOMAIN h : Fits(h, c, n) => b <= c

\* Cut block b after n payload bytes; the rest becomes a free block.
Split(h, b, n) ==
  LET rest == b + HDR + n
  IN  [a \in DOMAIN h \cup {rest} |->
         CASE a = rest -> [size |-> h[b].size - n - HDR,
                           used |-> FALSE, next |-> h[b].next]
           [] a = b    -> [h[b] EXCEPT !.size = n, !.next = rest]
           [] OTHER    -> h[a]]

\* A slip: every block is split.
TakeSplits(h, b, n) == [Split(h, b, n) EXCEPT ![b].used = TRUE]

\* Mark block b used, after a split when the remainder is worth a block.
Take(h, b, n) ==
  LET cut == IF h[b].size >= n + HDR + HEAP_MIN_BLOCK THEN Split(h, b, n) ELSE h
  IN  [cut EXCEPT ![b].used = TRUE]

\* Slips: the header of the absorbed block is not counted; the next block is
\* absorbed in use.
ReleaseNoHeader(h, b) ==
  LET n == h[b].next
  IN  IF n # NULL /\ ~h[n].used
      THEN [a \in DOMAIN h \ {n} |->
              IF a = b THEN [size |-> h[b].size + h[n].size,
                             used |-> FALSE, next |-> h[n].next]
                       ELSE h[a]]
      ELSE [h EXCEPT ![b].used = FALSE]

ReleaseUsed(h, b) ==
  LET n == h[b].next
  IN  IF n # NULL
      THEN [a \in DOMAIN h \ {n} |->
              IF a = b THEN [size |-> h[b].size + HDR + h[n].size,
                             used |-> FALSE, next |-> h[n].next]
                       ELSE h[a]]
      ELSE [h EXCEPT ![b].used = FALSE]

\* Clear used and absorb the next block when it is free.
Release(h, b) ==
  LET n == h[b].next
  IN  IF n # NULL /\ ~h[n].used
      THEN [a \in DOMAIN h \ {n} |->
              IF a = b THEN [size |-> h[b].size + HDR + h[n].size,
                             used |-> FALSE, next |-> h[n].next]
                       ELSE h[a]]
      ELSE [h EXCEPT ![b].used = FALSE]

-----------------------------------------------------------------------------
(* The operations.                                                         *)

Init ==
  /\ heap = [a \in {} |-> [size |-> 0, used |-> FALSE, next |-> NULL]]
  /\ live = [p \in {} |-> 0]
  /\ zeroed = [ptr |-> NULL, len |-> 0]

\* kmalloc(n) finds block b: the caller, who asked for that many bytes, now
\* holds its payload.
Grant(asked, n, b) ==
  /\ b \in DOMAIN Arena
  /\ FirstFit(Arena, b, RoundUp(n))
  /\ heap' = Take(Arena, b, RoundUp(n))
  /\ live' = [p \in DOMAIN live \cup {b + HDR} |->
                IF p = b + HDR THEN asked ELSE live[p]]

\* kmalloc(n) finds none and returns NULL; the arena is set up all the same.
Refuse(n) ==
  /\ \A b \in DOMAIN Arena : ~Fits(Arena, b, RoundUp(n))
  /\ heap' = Arena
  /\ UNCHANGED live

Kmalloc(n) ==
  /\ n # 0
  /\ \/ \E b \in DOMAIN Arena : Grant(n, n, b)
     \/ Refuse(n)
  /\ UNCHANGED zeroed

\* A slip: kcalloc asks for one element and zeroes them all.
KcallocOne(num, size) ==
  LET n == (num * size) % SIZE_MOD
  IN  /\ size # 0
      /\ \/ \E b \in DOMAIN Arena :
              /\ Grant(num * size, size, b)
              /\ zeroed' = [ptr |-> b + HDR, len |-> n]
         \/ Refuse(size) /\ UNCHANGED zeroed

\* A caller of kcalloc asks for num elements of size bytes.  kcalloc takes the
\* product in size_t, and zeroes as many bytes as that.
Kcalloc(num, size) ==
  LET n == (num * size) % SIZE_MOD
  IN  /\ n # 0
      /\ \/ \E b \in DOMAIN Arena :
              /\ Grant(num * size, n, b)
              /\ zeroed' = [ptr |-> b + HDR, len |-> n]
         \/ Refuse(n) /\ UNCHANGED zeroed

\* A caller frees what it holds.
Kfree(p) ==
  /\ p \in DOMAIN live
  /\ heap' = Release(heap, p - HDR)
  /\ live' = [q \in DOMAIN live \ {p} |-> live[q]]
  /\ zeroed' = IF zeroed.ptr = p THEN [ptr |-> NULL, len |-> 0] ELSE zeroed

Alloc ==
  \/ \E n \in Sizes : Kmalloc(n)
  \/ \E num \in Counts, n \in Sizes : Kcalloc(num, n)

Next == Alloc \/ \E p \in DOMAIN live : Kfree(p)

Spec == Init /\ [][Next]_vars

\* Callers that free in the reverse order of allocation: the newest
\* allocation is the one with the highest address.
KfreeNewest ==
  \E p \in DOMAIN live : (\A q \in DOMAIN live : q <= p) /\ Kfree(p)

LifoNext == Alloc \/ KfreeNewest

LifoSpec == Init /\ [][LifoNext]_vars
-----------------------------------------------------------------------------
(* What is checked.                                                        *)

HeapEnd == HEAP_START + HDR + HEAP_SIZE

\* Where the payload of block b stops.
End(h, b) == b + HDR + h[b].size

\* Headers and pointers are addresses, the fields have their types.
TypeOK ==
  /\ DOMAIN heap \subseteq Nat \ {NULL}
  /\ heap \in [DOMAIN heap -> Block]
  /\ DOMAIN live \subseteq Nat
  /\ live \in [DOMAIN live -> Nat]
  /\ zeroed \in [ptr : Nat, len : Nat]

\* The blocks tile the arena: from heap_head on, every block ends exactly
\* where its next pointer leads, the last one at the end of the arena, and
\* no two overlap.
Tiled(h) ==
  /\ HEAP_START \in DOMAIN h
  /\ \A b \in DOMAIN h :
       /\ HEAP_START <= b /\ End(h, b) <= HeapEnd
       /\ IF h[b].next = NULL
          THEN End(h, b) = HeapEnd
          ELSE h[b].next = End(h, b) /\ h[b].next \in DOMAIN h
  /\ \A b, c \in DOMAIN h : b < c => End(h, b) <= c

\* However kmalloc splits blocks and kfree merges them, the blocks on the
\* list tile the arena: no byte is lost, none is in two blocks, and the list
\* is in address order and ends.
HeapTiled == DOMAIN heap # {} => Tiled(heap)

\* The used blocks are exactly the ones callers hold: kmalloc never hands
\* out a block twice or forgets one, and a merge in kfree never swallows or
\* frees the block of another caller.
UsedIsHeld ==
  /\ \A p \in DOMAIN live : p - HDR \in DOMAIN heap /\ heap[p - HDR].used
  /\ \A b \in DOMAIN heap : heap[b].used => b + HDR \in DOMAIN live

\* Payload addresses keep the alignment of the arena: the (size + 7) & ~7 of
\* kmalloc makes every header, wherever a split puts it, a multiple of ALIGN
\* away from heap_head.
PayloadsAligned ==
  \A p \in DOMAIN live : (p - HEAP_START) % ALIGN = 0

\* Sizes whose rounding up does not leave size_t.
NoWrap(n) == n <= SIZE_MOD - ALIGN

\* A holder has at least the bytes it asked for, num * size of them if it
\* called kcalloc, whatever the splits and merges around it.  There are two
\* exceptions, and both are requests of nearly SIZE_MOD bytes or more: the
\* rounding in kmalloc wraps, or the product in kcalloc does.  Then the holder
\* has less than it asked for, and cannot tell.
CoversRequest ==
  \A p \in DOMAIN live : NoWrap(live[p]) => heap[p - HDR].size >= live[p]

\* kcalloc's zero fill stays inside the block kmalloc gave it and never
\* reaches the next header, even when the product wrapped, since kmalloc was
\* asked for the same wrapped product; but not when the rounding wrapped.
FillStaysInside ==
  zeroed.len > 0 /\ NoWrap(zeroed.len) =>
    zeroed.ptr \in DOMAIN live /\ zeroed.len <= heap[zeroed.ptr - HDR].size

\* shell.c:100 tells the user "Allocated <size> bytes at <ptr>": that many
\* bytes are the caller's.  Not so for a size that wraps to 0 when it is
\* rounded up.  (The shell prints the line for a NULL pointer too; then the
\* user can see that there is no block.)
ReportedSizeIsGranted ==
  \A p \in DOMAIN live : heap[p - HDR].size >= live[p]

\* With callers that free in reverse order, every free byte is in the last
\* block: kfree merges only forward, and for them that is enough to keep the
\* heap from fragmenting.  Not so for other callers.
FreeOnlyAtEnd ==
  \A b \in DOMAIN heap : ~heap[b].used => heap[b].next = NULL

\* When such callers have freed everything, the heap is the one block it was
\* at first: what could be allocated then can be allocated again.
AllComesBack ==
  DOMAIN live = {} /\ DOMAIN heap # {} =>
    heap = [a \in {HEAP_START} |->
              [size |-> HEAP_SIZE, used |-> FALSE, next |-> NULL]]

\* The byte ranges callers hold, and the promise about them: the list
\* surgery of kmalloc and kfree implements the abstract allocator.
granted == [p \in DOMAIN live |-> heap[p - HDR].size]

Abstract == INSTANCE Allocator
              WITH LO <- HEAP_START, HI <- HeapEnd, GAP <- HDR, granted <- granted

AllocatorSpec == Abstract!Spec
=============================================================================
