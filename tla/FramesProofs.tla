---------------------------- MODULE FramesProofs ----------------------------
(***************************************************************************)
(* Proofs about the frame allocator, for every size of page and of memory. *)
(*                                                                         *)
(* The inductive invariant adds to the checked properties what holds       *)
(* before memory_init.  The agreement of the counters with the bitmap      *)
(* needs the bitmap to be a finite set of frames (TypeOK), and             *)
(* used_pages - 1 and free_pages - 1 are sizes only because of that        *)
(* agreement: the parts are inductive together.  That no page has two      *)
(* holders rests on the agreement of bitmap and holders: a page whose bit  *)
(* is clear has none.                                                      *)
(***************************************************************************)
EXTENDS Frames, FiniteSetTheorems, TLAPS

\* Before memory_init the bitmap and the counters are empty.
Pristine == ~ready => frame_bitmap = {} /\ used_pages = 0 /\ free_pages = 0

\* No page was given to two callers.
OneHolder == \A a \in Page : held[a] <= 1

IInv == TypeOK /\ Pristine /\ CountersAgree /\ UsedIsHeld /\ OneHolder

-----------------------------------------------------------------------------
(* Addresses and frames.                                                   *)

\* An address names the frame it was computed from.
LEMMA FrameOfAddress ==
  ASSUME NEW f \in Nat
  PROVE  /\ Address(f) \in Nat
         /\ FrameOf(Address(f)) = f
         /\ Address(f) = NULL <=> f = 0
<1>1. f * PAGE_SIZE \in Nat /\ (f * PAGE_SIZE = 0 <=> f = 0)
  BY FramesAssumption
<1>2. (f * PAGE_SIZE) \div PAGE_SIZE = f
  BY FramesAssumption
<1>3. QED
  BY <1>1, <1>2 DEF Address, FrameOf, NULL

\* There are TOTAL_PAGES frames, and no set of frames has more.
LEMMA FrameSets ==
  ASSUME NEW S \in SUBSET Frame
  PROVE  /\ IsFiniteSet(S)
         /\ Cardinality(S) \in 0 .. TOTAL_PAGES
<1>1. IsFiniteSet(Frame) /\ Cardinality(Frame) = TOTAL_PAGES
  BY FS_Interval, FramesAssumption DEF Frame
<1>2. IsFiniteSet(S) /\ Cardinality(S) <= TOTAL_PAGES
  BY <1>1, FS_Subset
<1>3. QED
  BY <1>2, FS_CardinalityType, FramesAssumption

\* The address of a page is the address of one frame, and never NULL.
LEMMA PageAddress ==
  ASSUME NEW a \in Page
  PROVE  /\ a # NULL /\ a \in Nat
         /\ FrameOf(a) \in Frame \ {0}
         /\ a = Address(FrameOf(a))
<1>1. PICK f \in Frame \ {0} : a = Address(f)
  BY DEF Page
<1>2. f \in Nat
  BY FramesAssumption DEF Frame
<1>3. QED
  BY <1>1, <1>2, FrameOfAddress

\* What is counted when a page is given and when it is given back.
LEMMA Counted ==
  ASSUME held \in [Page -> Nat], NEW a
  PROVE  /\ Given(a) \in [Page -> Nat] /\ GivenBack(a) \in [Page -> Nat]
         /\ \A b \in Page : b # a => Given(a)[b] = held[b] /\ GivenBack(a)[b] = held[b]
         /\ a \in Page => /\ Given(a)[a] = held[a] + 1
                          /\ held[a] = 0 => GivenBack(a)[a] = 0
                          /\ held[a] > 0 => GivenBack(a)[a] = held[a] - 1
BY DEF Given, GivenBack

-----------------------------------------------------------------------------
(* The inductive invariant.                                                *)

LEMMA IInvInit == Init => IInv
<1> SUFFICES ASSUME Init PROVE IInv
  OBVIOUS
<1>1. TypeOK /\ OneHolder
  <2>1. held \in [Page -> Nat] /\ \A a \in Page : held[a] = 0
    BY DEF Init
  <2>2. TypeOK
    BY <2>1 DEF Init, TypeOK
  <2>3. OneHolder
    BY <2>1 DEF OneHolder
  <2>4. QED
    BY <2>2, <2>3
<1>2. ~ready /\ Holding = {}
  BY DEF Init, Holding
<1>3. QED
  BY <1>1, <1>2 DEF Init, IInv, Pristine, CountersAgree, UsedIsHeld

LEMMA MemoryInitKeeps ==
  ASSUME IInv, MemoryInit
  PROVE  IInv'
<1>1. Reserved \subseteq Frame
  BY DEF Reserved
<1>2. Cardinality(Reserved) \in 0 .. TOTAL_PAGES
  BY <1>1, FrameSets
<1>3. used_pages = 0 /\ Holding = {} /\ held' = held
  BY DEF IInv, Pristine, UsedIsHeld, MemoryInit
<1>4. TypeOK' /\ OneHolder'
  BY <1>1, <1>2, <1>3, FramesAssumption DEF MemoryInit, IInv, TypeOK, OneHolder
<1>5. CountersAgree'
  BY <1>2, <1>3, FramesAssumption DEF MemoryInit, CountersAgree
<1>6. UsedIsHeld'
  <2>1. Holding' = {}
    BY <1>3 DEF Holding
  <2>2. QED
    BY <2>1 DEF MemoryInit, UsedIsHeld
<1>7. QED
  BY <1>4, <1>5, <1>6 DEF IInv, Pristine, MemoryInit

\* alloc_frame gives page f to a caller that is then its only holder.
LEMMA AllotGives ==
  ASSUME IInv, NEW f \in Frame, Allot(f)
  PROVE  /\ f = 0 => held' = held
         /\ f # 0 => /\ Address(f) \in Page \ Holding
                     /\ held'[Address(f)] = 1
                     /\ \A b \in Page : b # Address(f) => held'[b] = held[b]
                     /\ Holding' = Holding \cup {Address(f)}
         /\ held' \in [Page -> Nat]
<1> DEFINE p == Address(f)
<1>1. /\ f \in Nat /\ FrameOf(p) = f
      /\ p = NULL <=> f = 0
  BY FrameOfAddress, FramesAssumption DEF Frame
<1>2. held \in [Page -> Nat] /\ held' = Given(p) /\ ready /\ f \notin frame_bitmap
  BY DEF IInv, TypeOK, Allot, FirstFree
<1>3. p \in Page <=> f # 0
  BY <1>1, PageAddress DEF Page
<1>4. ASSUME f # 0 PROVE p \notin Holding
  <2>1. f \notin {FrameOf(a) : a \in Holding}
    BY <1>2, <1>4 DEF IInv, UsedIsHeld
  <2>2. QED
    BY <1>1, <2>1
<1> HIDE DEF p
<1>5. /\ held' \in [Page -> Nat]
      /\ \A b \in Page : b # p => held'[b] = held[b]
      /\ p \in Page => held'[p] = held[p] + 1
  BY <1>2, Counted
<1>6. ASSUME f = 0 PROVE held' = held
  BY <1>2, <1>3, <1>5, <1>6
<1>7. ASSUME f # 0
      PROVE  /\ p \in Page \ Holding /\ held'[p] = 1
             /\ Holding' = Holding \cup {p}
  <2>1. p \in Page \ Holding /\ held[p] = 0
    BY <1>2, <1>3, <1>4, <1>7 DEF Holding
  <2>2. held'[p] = 1
    BY <1>5, <2>1
  <2>3. QED
    BY <1>5, <2>1, <2>2 DEF Holding
<1>8. QED
  BY <1>5, <1>6, <1>7 DEF p

LEMMA AllotKeeps ==
  ASSUME IInv, NEW f \in Frame, Allot(f)
  PROVE  IInv'
<1>1. /\ ready /\ ready' = ready
      /\ f \notin frame_bitmap /\ frame_bitmap \subseteq Frame
      /\ used_pages = Cardinality(frame_bitmap)
      /\ used_pages + free_pages = TOTAL_PAGES
      /\ used_pages \in Nat /\ free_pages \in Nat
  BY DEF IInv, TypeOK, CountersAgree, Allot, FirstFree
<1>2. /\ frame_bitmap' = frame_bitmap \cup {f}
      /\ used_pages' = used_pages + 1 /\ free_pages' = free_pages - 1
  BY DEF Allot
<1>3. frame_bitmap' \subseteq Frame
  BY <1>1, <1>2
<1>4. Cardinality(frame_bitmap') = used_pages + 1
  BY <1>1, <1>2, FrameSets, FS_AddElement
<1>5. used_pages + 1 <= TOTAL_PAGES
  BY <1>3, <1>4, FrameSets
<1>6. CountersAgree' /\ used_pages' \in Nat /\ free_pages' \in Nat
  BY <1>1, <1>2, <1>4, <1>5, FramesAssumption DEF CountersAgree
<1>7. FrameOf(Address(f)) = f
  BY FrameOfAddress, FramesAssumption DEF Frame
<1>8. held' \in [Page -> Nat] /\ OneHolder'
  BY AllotGives DEF IInv, OneHolder
<1>9. UsedIsHeld'
  <2>1. frame_bitmap \ {0} = (Reserved \cup {FrameOf(a) : a \in Holding}) \ {0}
    BY <1>1 DEF IInv, UsedIsHeld
  <2>2. CASE f = 0
    <3>1. Holding' = Holding /\ frame_bitmap' \ {0} = frame_bitmap \ {0}
      BY <2>2, <1>2, AllotGives DEF Holding
    <3>2. QED
      BY <3>1, <2>1, <1>1 DEF IInv, UsedIsHeld
  <2>3. CASE f # 0
    <3>1. Holding' = Holding \cup {Address(f)}
      BY <2>3, AllotGives
    <3>2. {FrameOf(a) : a \in Holding'} = {FrameOf(a) : a \in Holding} \cup {f}
      BY <3>1, <1>7
    <3>3. frame_bitmap' \ {0} = (Reserved \cup {FrameOf(a) : a \in Holding'}) \ {0}
      BY <3>2, <2>1, <2>3, <1>2
    <3>4. f \notin Reserved
      BY <2>1, <2>3, <1>1
    <3>5. \A a \in Holding' : ready' /\ FrameOf(a) \notin Reserved
      BY <3>1, <3>4, <1>1, <1>7 DEF IInv, UsedIsHeld
    <3>6. QED
      BY <3>3, <3>5 DEF UsedIsHeld
  <2>4. QED
    BY <2>2, <2>3
<1>10. QED
  BY <1>1, <1>3, <1>6, <1>8, <1>9 DEF IInv, TypeOK, Pristine

\* free_frame takes the page from its holder, if it has one.
LEMMA FreeFrameTakes ==
  ASSUME IInv, NEW a, FreeFrame(a)
  PROVE  /\ held' \in [Page -> Nat]
         /\ Holding' = Holding \ {a}
         /\ \A b \in Page : b # a => held'[b] = held[b]
         /\ a \notin Holding => held' = held
<1>1. held \in [Page -> Nat] /\ held' = GivenBack(a) /\ OneHolder
  BY DEF IInv, TypeOK, FreeFrame
<1>2. /\ held' \in [Page -> Nat]
      /\ \A b \in Page : b # a => held'[b] = held[b]
      /\ a \in Page => /\ held[a] = 0 => held'[a] = 0
                       /\ held[a] > 0 => held'[a] = held[a] - 1
  BY <1>1, Counted
<1>3. a \in Page => held'[a] = 0
  BY <1>1, <1>2 DEF OneHolder
<1>4. Holding' = Holding \ {a}
  BY <1>2, <1>3 DEF Holding
<1>5. ASSUME a \notin Holding PROVE held' = held
  <2>1. a \in Page => held[a] = 0
    BY <1>1, <1>5 DEF Holding
  <2>2. QED
    BY <1>1, <1>2, <2>1
<1>6. QED
  BY <1>2, <1>4, <1>5

LEMMA FreeFrameKeeps ==
  ASSUME IInv, NEW g \in 0 .. TOTAL_PAGES,
         MayFree(Address(g)), FreeFrame(Address(g))
  PROVE  IInv'
<1> DEFINE a == Address(g)
<1>1. /\ g \in Nat /\ a \in Nat /\ FrameOf(a) = g
      /\ a = NULL <=> g = 0
  BY FrameOfAddress, FramesAssumption
<1> HIDE DEF a
<1>2. /\ held' \in [Page -> Nat] /\ Holding' = Holding \ {a} /\ ready' = ready
      /\ \A b \in Page : b # a => held'[b] = held[b]
      /\ a \notin Holding => held' = held
  BY FreeFrameTakes DEF FreeFrame, a
<1>3. OneHolder'
  <2>1. ASSUME NEW b \in Page PROVE held'[b] <= 1
    BY <1>2 DEF IInv, OneHolder, Holding
  <2>2. QED
    BY <2>1 DEF OneHolder
<1>4. {FrameOf(b) : b \in Holding'} = {FrameOf(b) : b \in Holding} \ {g}
  <2>1. \A b \in Holding : FrameOf(b) = g <=> b = a
    BY <1>1, PageAddress DEF Holding, a
  <2>2. QED
    BY <1>2, <2>1
<1>5. CASE ready /\ a # NULL /\ g \in frame_bitmap
  <2>1. /\ frame_bitmap' = frame_bitmap \ {g}
        /\ used_pages' = used_pages - 1 /\ free_pages' = free_pages + 1
    BY <1>1, <1>5 DEF FreeFrame, a
  <2>2. /\ frame_bitmap \subseteq Frame
        /\ used_pages = Cardinality(frame_bitmap)
        /\ used_pages + free_pages = TOTAL_PAGES
        /\ used_pages \in Nat /\ free_pages \in Nat
    BY <1>5 DEF IInv, TypeOK, CountersAgree
  <2>3. Cardinality(frame_bitmap') = used_pages - 1
    BY <1>5, <2>1, <2>2, FrameSets, FS_RemoveElement
  <2>4. frame_bitmap' \subseteq Frame /\ Cardinality(frame_bitmap') \in Nat
    BY <2>1, <2>2, FrameSets
  <2>5. CountersAgree' /\ used_pages' \in Nat /\ free_pages' \in Nat
    BY <2>1, <2>2, <2>3, <2>4, FramesAssumption DEF CountersAgree
  <2>6. a \in Holding /\ g # 0
    BY <1>1, <1>5 DEF MayFree, a
  <2>7. UsedIsHeld'
    <3>1. g \notin Reserved
      BY <2>6, <1>1 DEF IInv, UsedIsHeld
    <3>2. frame_bitmap \ {0} = (Reserved \cup {FrameOf(b) : b \in Holding}) \ {0}
      BY <1>5 DEF IInv, UsedIsHeld
    <3>3. frame_bitmap' \ {0} = (Reserved \cup {FrameOf(b) : b \in Holding'}) \ {0}
      BY <3>1, <3>2, <2>1, <1>4
    <3>4. QED
      BY <3>3, <1>2, <1>5 DEF IInv, UsedIsHeld
  <2>8. QED
    BY <2>4, <2>5, <2>2, <2>7, <1>2, <1>3, <1>5 DEF IInv, TypeOK, Pristine
<1>6. CASE ~(ready /\ a # NULL /\ g \in frame_bitmap)
  <2>1. UNCHANGED <<frame_bitmap, used_pages, free_pages>>
    BY <1>1, <1>6 DEF FreeFrame, a
  <2>2. a \notin Holding
    <3>1. CASE a = NULL
      BY <3>1, PageAddress DEF Holding
    <3>2. CASE ~ready
      BY <3>2 DEF IInv, UsedIsHeld
    <3>3. CASE ready /\ g \notin frame_bitmap /\ a # NULL
      BY <3>3, <1>1 DEF IInv, UsedIsHeld
    <3>4. QED
      BY <3>1, <3>2, <3>3, <1>6
  <2>3. held' = held /\ Holding' = Holding
    BY <2>2, <1>2
  <2>4. QED
    BY <2>1, <2>3, <1>2, <1>3 DEF IInv, TypeOK, Pristine, CountersAgree, UsedIsHeld
<1>7. QED
  BY <1>5, <1>6

LEMMA IInvNext == IInv /\ [Next]_vars => IInv'
<1> SUFFICES ASSUME IInv, [Next]_vars PROVE IInv'
  OBVIOUS
<1>1. CASE MemoryInit
  BY <1>1, MemoryInitKeeps
<1>2. CASE AllocFrame
  <2>1. CASE NoFrame
    BY <2>1 DEF NoFrame, vars, IInv, TypeOK, Pristine, CountersAgree, UsedIsHeld,
                OneHolder, Holding
  <2>2. QED
    BY <2>1, <1>2, AllotKeeps DEF AllocFrame
<1>3. ASSUME NEW f \in 0 .. TOTAL_PAGES,
             MayFree(Address(f)), FreeFrame(Address(f))
      PROVE  IInv'
  BY <1>3, FreeFrameKeeps
<1>4. CASE UNCHANGED vars
  BY <1>4 DEF vars, IInv, TypeOK, Pristine, CountersAgree, UsedIsHeld, OneHolder, Holding
<1>5. QED
  BY <1>1, <1>2, <1>3, <1>4 DEF Next

LEMMA IInvAlways == Spec => []IInv
BY IInvInit, IInvNext, PTL DEF Spec

-----------------------------------------------------------------------------
(* Safety.                                                                 *)

\* The bitmap, the counters and the callers' addresses keep their types: in
\* particular neither counter ever falls below zero and wraps.
THEOREM TypeCorrect == Spec => []TypeOK
BY IInvAlways, PTL DEF IInv

\* The counters that alloc_frame and free_frame keep always agree with the
\* bitmap.
THEOREM CountersCorrect == Spec => []CountersAgree
BY IInvAlways, PTL DEF IInv

\* Up to frame 0, the bits set are the reserved frames and those of the
\* callers, who hold no reserved frame.
THEOREM Ownership == Spec => []UsedIsHeld
BY IInvAlways, PTL DEF IInv

\* Rounding an address down to a page, and up.
LEMMA PageRounding ==
  ASSUME NEW x \in Nat
  PROVE  /\ x \div PAGE_SIZE \in Nat
         /\ Address(x \div PAGE_SIZE) <= x
         /\ (x + PAGE_SIZE - 1) \div PAGE_SIZE \in Nat
         /\ x <= Address((x + PAGE_SIZE - 1) \div PAGE_SIZE)
<1>1. ASSUME NEW y \in Nat
      PROVE  /\ y \div PAGE_SIZE \in Nat
             /\ (y \div PAGE_SIZE) * PAGE_SIZE <= y
             /\ y < (y \div PAGE_SIZE) * PAGE_SIZE + PAGE_SIZE
  BY FramesAssumption
<1>2. x + PAGE_SIZE - 1 \in Nat
  BY FramesAssumption
<1> DEFINE up == (x + PAGE_SIZE - 1) \div PAGE_SIZE
<1>3. up \in Nat /\ x + PAGE_SIZE - 1 < up * PAGE_SIZE + PAGE_SIZE
  BY <1>1, <1>2
<1> HIDE DEF up
<1>4. up * PAGE_SIZE \in Nat
  BY <1>3, FramesAssumption
<1>5. x <= up * PAGE_SIZE
  BY <1>3, <1>4, FramesAssumption
<1>6. QED
  BY <1>1, <1>3, <1>5 DEF Address, up

\* A frame ends where the next one starts, at the latest.
LEMMA FramesApart ==
  ASSUME NEW f \in Nat, NEW g \in Nat, f < g
  PROVE  /\ Address(f) + PAGE_SIZE <= Address(g)
         /\ Address(f) <= Address(g)
<1>1. f * PAGE_SIZE + PAGE_SIZE = (f + 1) * PAGE_SIZE
  BY FramesAssumption
<1>2. (f + 1) * PAGE_SIZE <= g * PAGE_SIZE
  BY FramesAssumption
<1>3. f * PAGE_SIZE \in Nat /\ g * PAGE_SIZE \in Nat
  BY FramesAssumption
<1>4. QED
  BY <1>1, <1>2, <1>3, FramesAssumption DEF Address

\* No caller is ever given a page that holds bytes of the bitmap.
THEOREM BitmapSafe == Spec => []BitmapNotGranted
<1>1. IInv => BitmapNotGranted
  <2> SUFFICES ASSUME IInv, NEW a \in Holding
               PROVE  a + PAGE_SIZE <= BITMAP_ADDR \/ BITMAP_ADDR + bitmap_size <= a
    BY DEF BitmapNotGranted
  <2> DEFINE f == FrameOf(a)
  <2>1. f \in Frame /\ a = Address(f) /\ f \notin Reserved
    BY PageAddress DEF IInv, UsedIsHeld, Holding
  <2>2. f \in Nat /\ a \in Nat
    BY <2>1, FrameOfAddress, FramesAssumption DEF Frame
  <2>3. bitmap_size \in Nat
    BY FramesAssumption DEF bitmap_size
  <2>4. /\ kernel_start_page \in Nat /\ Address(kernel_start_page) <= KERNEL_BASE
    BY PageRounding, FramesAssumption DEF kernel_start_page
  <2>5. BITMAP_ADDR + bitmap_size \in Nat
    BY <2>3, FramesAssumption
  <2>6. /\ kernel_end_page \in Nat
        /\ BITMAP_ADDR + bitmap_size <= Address(kernel_end_page)
    BY <2>5, PageRounding DEF kernel_end_page
  <2>7. Address(kernel_start_page) \in Nat /\ Address(kernel_end_page) \in Nat
    BY <2>4, <2>6, FrameOfAddress
  <2> HIDE DEF f
  <2>8. CASE f < kernel_start_page
    <3>1. Address(f) + PAGE_SIZE <= Address(kernel_start_page)
      BY <2>8, <2>2, <2>4, FramesApart
    <3>2. QED
      BY <3>1, <2>1, <2>2, <2>4, <2>7, FramesAssumption
  <2>9. CASE kernel_end_page <= f
    <3>1. Address(kernel_end_page) <= Address(f)
      BY <2>9, <2>2, <2>6, <2>7, FramesApart
    <3>2. QED
      BY <3>1, <2>1, <2>2, <2>5, <2>6, <2>7
  <2>10. QED
    BY <2>1, <2>2, <2>4, <2>6, <2>8, <2>9 DEF Reserved
<1>2. QED
  BY <1>1, IInvAlways, PTL

-----------------------------------------------------------------------------
(* Refinement.                                                             *)

\* What is granted before and after a step: each page is held by one caller.
LEMMA GrantedPages ==
  ASSUME IInv, IInv'
  PROVE  /\ granted = [a \in Holding |-> PAGE_SIZE]
         /\ granted' = [a \in Holding' |-> PAGE_SIZE]
<1>1. ASSUME NEW n \in Nat, 0 < n, n <= 1 PROVE n * PAGE_SIZE = PAGE_SIZE
  BY <1>1, FramesAssumption
<1>2. \A a \in Holding : held[a] * PAGE_SIZE = PAGE_SIZE
  BY <1>1 DEF IInv, TypeOK, OneHolder, Holding
<1>3. \A a \in Holding' : held'[a] * PAGE_SIZE = PAGE_SIZE
  BY <1>1 DEF IInv, TypeOK, OneHolder, Holding
<1>4. QED
  BY <1>2, <1>3 DEF granted

\* alloc_frame makes a grant that is apart from all others.
LEMMA AllotRefines ==
  ASSUME IInv, IInv', NEW f \in Frame, Allot(f)
  PROVE  Abstract!Alloc \/ UNCHANGED granted
<1>1. /\ granted = [a \in Holding |-> PAGE_SIZE]
      /\ granted' = [a \in Holding' |-> PAGE_SIZE]
  BY GrantedPages
<1>2. CASE f = 0
  BY <1>2, AllotGives DEF granted, Holding
<1>3. CASE f # 0
  <2> DEFINE p == Address(f)
  <2>1. p \in Page \ Holding /\ Holding' = Holding \cup {p}
    BY <1>3, AllotGives
  <2>2. /\ DOMAIN granted = Holding /\ DOMAIN granted' = Holding \cup {p}
        /\ granted'[p] = PAGE_SIZE
        /\ \A q \in Holding : granted[q] = PAGE_SIZE
        /\ granted' = [q \in Holding \cup {p} |->
                         IF q = p THEN PAGE_SIZE ELSE granted[q]]
    BY <1>1, <2>1
  <2>3. f \in Nat /\ p \in Nat
    BY FrameOfAddress, FramesAssumption DEF Frame
  <2>4. p + PAGE_SIZE <= TOTAL_PAGES * PAGE_SIZE
    BY FramesApart, FramesAssumption DEF Frame, Address
  <2>5. ASSUME NEW q \in Holding
        PROVE  Abstract!Apart(p, PAGE_SIZE, q, granted[q])
    <3> DEFINE g == FrameOf(q)
    <3>1. g \in Nat /\ q \in Nat /\ q = Address(g) /\ g # f
      BY <2>1, PageAddress, FramesAssumption DEF Holding, Frame
    <3> HIDE DEF g
    <3>2. p + PAGE_SIZE <= q \/ q + PAGE_SIZE <= p
      BY <3>1, <2>3, FramesApart
    <3>3. p + PAGE_SIZE + 0 <= q \/ q + PAGE_SIZE + 0 <= p
      BY <3>1, <3>2, <2>3, FramesAssumption
    <3>4. QED
      BY <3>3, <2>2 DEF Abstract!Apart
  <2> HIDE DEF p
  <2>6. 0 + 0 <= p /\ p \notin Holding
    BY <2>1, <2>3
  <2>7. QED
    BY <2>2, <2>4, <2>5, <2>6, FramesAssumption DEF Abstract!Alloc
<1>4. QED
  BY <1>2, <1>3

\* free_frame ends one grant or none.
LEMMA FreeFrameRefines ==
  ASSUME IInv, IInv', NEW a, FreeFrame(a)
  PROVE  Abstract!Free \/ UNCHANGED granted
<1>1. /\ granted = [b \in Holding |-> PAGE_SIZE]
      /\ granted' = [b \in Holding' |-> PAGE_SIZE]
  BY GrantedPages
<1>2. Holding' = Holding \ {a}
  BY FreeFrameTakes
<1>3. CASE a \in Holding
  BY <1>1, <1>2, <1>3 DEF Abstract!Free
<1>4. CASE a \notin Holding
  BY <1>1, <1>2, <1>4
<1>5. QED
  BY <1>3, <1>4

\* The bitmap implements the abstract allocator: a page is given to one
\* caller at a time, inside memory and apart from all others, until that
\* caller frees it; no page is given to two, through any frees of freed,
\* foreign and NULL addresses.
THEOREM Refinement == Spec => AllocatorSpec
<1>1. Init => Abstract!Init
  BY DEF Init, Abstract!Init, granted, Holding
<1>2. IInv /\ IInv' /\ [Next]_vars => [Abstract!Next]_granted
  <2> SUFFICES ASSUME IInv, IInv', [Next]_vars
               PROVE  Abstract!Next \/ UNCHANGED granted
    OBVIOUS
  <2>1. ASSUME held' = held PROVE UNCHANGED granted
    BY <2>1 DEF granted, Holding
  <2>2. CASE MemoryInit
    BY <2>1, <2>2 DEF MemoryInit
  <2>3. CASE AllocFrame
    BY <2>1, <2>3, AllotRefines DEF AllocFrame, NoFrame, vars, Abstract!Next
  <2>4. ASSUME NEW f \in 0 .. TOTAL_PAGES, FreeFrame(Address(f))
        PROVE  Abstract!Next \/ UNCHANGED granted
    BY <2>4, FreeFrameRefines DEF Abstract!Next
  <2>5. CASE UNCHANGED vars
    BY <2>1, <2>5 DEF vars
  <2>6. QED
    BY <2>2, <2>3, <2>4, <2>5 DEF Next
<1>3. QED
  BY <1>1, <1>2, IInvAlways, PTL DEF Spec, AllocatorSpec, Abstract!Spec
=============================================================================
