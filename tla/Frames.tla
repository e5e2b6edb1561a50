------------------------------- MODULE Frames -------------------------------
(***************************************************************************)
(* The physical frame allocator of arch/x86_64/memory.c: a bitmap of the   *)
(* pages of memory, two counters beside it, and the addresses that callers *)
(* of alloc_frame hold.                                                    *)
(*                                                                         *)
(* A definition called a slip is a mistake in the one that follows it,     *)
(* kept to show that a property would notice; nothing uses it.             *)
(***************************************************************************)
EXTENDS Integers, FiniteSets

CONSTANTS
  PAGE_SIZE,    \* bytes in a page
  TOTAL_PAGES,  \* pages of memory (64 MB)
  KERNEL_BASE,  \* where the kernel image is loaded (1 MB)
  BITMAP_ADDR,  \* where the bitmap is put (12 MB)
  BOOT_TABLES,  \* frames of the page tables boot.asm sets up at 0x1000
  HEAP_FRAMES   \* frames of the arena kmalloc works in, from 32 MB on

ASSUME FramesAssumption ==
  /\ PAGE_SIZE \in Nat \ {0}
  /\ TOTAL_PAGES \in Nat
  /\ KERNEL_BASE \in Nat \ {0}
  /\ BITMAP_ADDR \in Nat
  /\ KERNEL_BASE <= BITMAP_ADDR
  /\ BOOT_TABLES \subseteq 0 .. TOTAL_PAGES - 1
  /\ HEAP_FRAMES \subseteq 0 .. TOTAL_PAGES - 1

NULL == 0

VARIABLES
  frame_bitmap,  \* the frames whose bit is set
  ready,         \* the pointer frame_bitmap is no longer NULL
  used_pages,
  free_pages,
  held           \* the callers: address of a page -> how many were given it

vars == <<frame_bitmap, ready, used_pages, free_pages, held>>

-----------------------------------------------------------------------------
(* Addresses and frames.                                                   *)

Frame == 0 .. TOTAL_PAGES - 1

Address(f) == f * PAGE_SIZE
FrameOf(a) == a \div PAGE_SIZE

\* The addresses that callers can be given; that of frame 0 is NULL.
Page == {Address(f) : f \in Frame \ {0}}

\* The pages that somebody holds.
Holding == {a \in Page : held[a] > 0}

bitmap_size == (TOTAL_PAGES + 7) \div 8

\* A slip: the end is rounded down.
kernel_end_page_down == (BITMAP_ADDR + bitmap_size) \div PAGE_SIZE

\* What memory_init marks as used: from the kernel image to the bitmap.
kernel_start_page == KERNEL_BASE \div PAGE_SIZE
kernel_end_page == (BITMAP_ADDR + bitmap_size + PAGE_SIZE - 1) \div PAGE_SIZE
Reserved == {f \in Frame : kernel_start_page <= f /\ f < kernel_end_page}

\* The first clear bit.
FirstFree(f) ==
  /\ f \in Frame \ frame_bitmap
  /\ \A g \in Frame \ frame_bitmap : f <= g

-----------------------------------------------------------------------------
(* The operations.                                                         *)

Init ==
  /\ frame_bitmap = {} /\ ready = FALSE
  /\ used_pages = 0 /\ free_pages = 0
  /\ held = [a \in Page |-> 0]

\* The caller of alloc_frame has one more page, unless it was given NULL;
\* the caller of free_frame has one less, if it had that one.
Given(a) == [b \in Page |-> IF b = a THEN held[b] + 1 ELSE held[b]]
GivenBack(a) == [b \in Page |-> IF b = a /\ held[b] > 0 THEN held[b] - 1 ELSE held[b]]

\* kernel_main calls it once.
MemoryInit ==
  /\ ~ready
  /\ ready' = TRUE
  /\ frame_bitmap' = Reserved
  /\ used_pages' = used_pages + Cardinality(Reserved)
  /\ free_pages' = TOTAL_PAGES - used_pages'
  /\ UNCHANGED held

\* A slip: free_pages is left alone.
AllotFreeKept(f) ==
  /\ ready
  /\ FirstFree(f)
  /\ frame_bitmap' = frame_bitmap \cup {f}
  /\ used_pages' = used_pages + 1
  /\ held' = Given(Address(f))
  /\ UNCHANGED <<ready, free_pages>>

\* alloc_frame finds frame f.  The caller learns its address, and takes the
\* address of frame 0 for the NULL that means there is none.
Allot(f) ==
  /\ ready
  /\ FirstFree(f)
  /\ frame_bitmap' = frame_bitmap \cup {f}
  /\ used_pages' = used_pages + 1
  /\ free_pages' = free_pages - 1
  /\ held' = Given(Address(f))
  /\ UNCHANGED ready

\* alloc_frame returns NULL.
NoFrame ==
  /\ ready => Frame \subseteq frame_bitmap
  /\ UNCHANGED vars

AllocFrame == (\E f \in Frame : Allot(f)) \/ NoFrame

\* Slips: the bit is not cleared; it is not tested; its whole byte is cleared.
FreeFrameKeepsBit(a) ==
  /\ IF ready /\ a # NULL /\ FrameOf(a) \in frame_bitmap
     THEN used_pages' = used_pages - 1 /\ free_pages' = free_pages + 1
     ELSE UNCHANGED <<used_pages, free_pages>>
  /\ held' = GivenBack(a)
  /\ UNCHANGED <<ready, frame_bitmap>>

FreeFrameAlways(a) ==
  /\ IF ready /\ a # NULL
     THEN /\ frame_bitmap' = frame_bitmap \ {FrameOf(a)}
          /\ used_pages' = used_pages - 1
          /\ free_pages' = free_pages + 1
     ELSE UNCHANGED <<frame_bitmap, used_pages, free_pages>>
  /\ held' = GivenBack(a)
  /\ UNCHANGED ready

FreeFrameByte(a) ==
  /\ IF ready /\ a # NULL /\ FrameOf(a) \in frame_bitmap
     THEN /\ frame_bitmap' = {f \in frame_bitmap : f \div 8 # FrameOf(a) \div 8}
          /\ used_pages' = used_pages - 1
          /\ free_pages' = free_pages + 1
     ELSE UNCHANGED <<frame_bitmap, used_pages, free_pages>>
  /\ held' = GivenBack(a)
  /\ UNCHANGED ready

\* free_frame clears the bit of a frame in use and ignores everything else.
FreeFrame(a) ==
  /\ IF ready /\ a # NULL /\ FrameOf(a) \in frame_bitmap
     THEN /\ frame_bitmap' = frame_bitmap \ {FrameOf(a)}
          /\ used_pages' = used_pages - 1
          /\ free_pages' = free_pages + 1
     ELSE UNCHANGED <<frame_bitmap, used_pages, free_pages>>
  /\ held' = GivenBack(a)
  /\ UNCHANGED ready

\* What callers pass to free_frame: what alloc_frame gave them, NULL
\* included; an address they freed before, as long as its frame has not been
\* allotted anew; and addresses past the end of memory.
MayFree(a) == FrameOf(a) \in frame_bitmap => a \in Holding \cup {NULL}

Next ==
  \/ MemoryInit
  \/ AllocFrame
  \/ \E f \in 0 .. TOTAL_PAGES : MayFree(Address(f)) /\ FreeFrame(Address(f))

Spec == Init /\ [][Next]_vars
-----------------------------------------------------------------------------
(* What is checked.                                                        *)

\* The bits set are those of frames, callers hold addresses of frames, and
\* no counter is below zero.
TypeOK ==
  /\ frame_bitmap \subseteq Frame
  /\ ready \in BOOLEAN
  /\ used_pages \in Nat /\ free_pages \in Nat
  /\ held \in [Page -> Nat]

\* The two counters memory_status prints, which are kept by increments and
\* decrements, agree with the bitmap: a second free of a frame, or one of an
\* address that names none, does not make them drift.
CountersAgree ==
  ready => /\ used_pages = Cardinality(frame_bitmap)
           /\ used_pages + free_pages = TOTAL_PAGES

\* Every frame whose bit is set is reserved or held by a caller, and the
\* other way around, and no reserved frame is held.  The exception is frame
\* 0: alloc_frame returns it as NULL, its caller takes that for a failure,
\* and no free_frame gives it back.
UsedIsHeld ==
  /\ ready =>
       frame_bitmap \ {0} = (Reserved \cup {FrameOf(a) : a \in Holding}) \ {0}
  /\ \A a \in Holding : ready /\ FrameOf(a) \notin Reserved

\* No caller holds bytes of the bitmap: memory_init rounds its end up to a
\* whole page.
BitmapNotGranted ==
  \A a \in Holding : a + PAGE_SIZE <= BITMAP_ADDR \/ BITMAP_ADDR + bitmap_size <= a

\* memory.c:76 says that memory_init marks the pages of the kernel as used,
\* so that no caller is given one.  It marks the kernel image and the bitmap,
\* but not the page tables the processor runs on, nor the kernel's heap.
KernelNotGranted ==
  \A a \in Holding : FrameOf(a) \notin BOOT_TABLES \cup HEAP_FRAMES

\* The bytes that callers were given, page by page: a page that was given to
\* two of them counts twice.
granted == [a \in Holding |-> held[a] * PAGE_SIZE]

\* The promise to a caller: a page inside memory that is nobody else's until
\* it is given back.  The abstract allocator has no step for a second grant
\* of a page that is held: it would double what was granted at an address.
Abstract == INSTANCE Allocator
              WITH LO <- 0, HI <- TOTAL_PAGES * PAGE_SIZE, GAP <- 0

AllocatorSpec == Abstract!Spec
=============================================================================
