----------------------------- MODULE HeapProofs -----------------------------
(***************************************************************************)
(* Proofs about the heap, for every arena, header size, alignment, width   *)
(* of size_t and set of request sizes.                                     *)
(*                                                                         *)
(* The inductive invariant is the conjunction of the type invariant, the   *)
(* tiling of the arena and the agreement between used blocks and holders.  *)
(* None of the three is inductive alone: a merge needs the tiling to know  *)
(* that the header it drops is not the freed one, and the agreement to     *)
(* know that nobody holds it; a grant needs the agreement to know that the *)
(* pointer it returns is new.                                              *)
(***************************************************************************)
EXTENDS Heap, TLAPS

IInv == TypeOK /\ HeapTiled /\ UsedIsHeld

\* A header list in the state kmalloc and kfree work on.
WellFormed(h) ==
  /\ DOMAIN h \subseteq Nat \ {NULL}
  /\ h \in [DOMAIN h -> Block]
  /\ Tiled(h)

-----------------------------------------------------------------------------
(* The operators on the list.                                              *)

\* RoundUp returns a size.
LEMMA RoundUpType ==
  ASSUME NEW n \in Nat
  PROVE  RoundUp(n) \in Nat
BY HeapAssumption DEF RoundUp

\* RoundUp returns at least its argument when it does not wrap.
LEMMA RoundUpCovers ==
  ASSUME NEW n \in Nat, NoWrap(n)
  PROVE  RoundUp(n) >= n
<1> DEFINE s == (n + (ALIGN - 1)) % SIZE_MOD
<1>1. s = n + (ALIGN - 1)
  BY HeapAssumption DEF NoWrap
<1>2. s % ALIGN \in 0 .. ALIGN - 1
  BY <1>1, HeapAssumption
<1>3. QED
  BY <1>1, <1>2, HeapAssumption DEF RoundUp

\* Splitting a free block that has room for a second header keeps the list
\* well formed, and only shortens the block it splits.
LEMMA SplitWellFormed ==
  ASSUME NEW h, WellFormed(h),
         NEW b \in DOMAIN h,
         NEW n \in Nat, h[b].size >= n + HDR + HEAP_MIN_BLOCK
  PROVE  LET r == b + HDR + n
             s == Split(h, b, n)
         IN  /\ WellFormed(s)
             /\ r \notin DOMAIN h
             /\ DOMAIN s = DOMAIN h \cup {r}
             /\ s[b].size = n /\ s[b].used = h[b].used
             /\ ~s[r].used /\ s[r].next = h[b].next
             /\ \A c \in DOMAIN h \ {b} : s[c] = h[c]
<1> DEFINE r == b + HDR + n
           s == Split(h, b, n)
           cut == [h[b] EXCEPT !.size = n, !.next = r]
           rest == [size |-> h[b].size - n - HDR, used |-> FALSE, next |-> h[b].next]
<1>1. /\ b \in Nat \ {0} /\ r \in Nat \ {0} /\ b < r
      /\ h[b] \in Block /\ cut \in Block /\ rest \in Block
  <2>1. b \in Nat \ {0} /\ h[b] \in Block
    BY DEF WellFormed, NULL
  <2>2. r \in Nat \ {0} /\ b < r
    BY <2>1, HeapAssumption
  <2>3. h[b].size - n - HDR \in Nat /\ h[b].next \in Nat
    BY <2>1, HeapAssumption DEF Block
  <2>4. cut \in Block /\ rest \in Block
    BY <2>1, <2>2, <2>3 DEF Block
  <2>5. QED
    BY <2>1, <2>2, <2>4
<1>2. \A c \in DOMAIN h : c \in Nat /\ h[c].size \in Nat
  BY DEF WellFormed, Block
<1>3. r < End(h, b) /\ \A c \in DOMAIN h : c = b \/ c < b \/ End(h, b) <= c
  BY <1>1, <1>2, HeapAssumption DEF WellFormed, Tiled, End
<1>4. r \notin DOMAIN h
  BY <1>1, <1>2, <1>3, HeapAssumption DEF End
<1>5. /\ DOMAIN s = DOMAIN h \cup {r}
      /\ s[b] = cut /\ s[r] = rest
      /\ \A c \in DOMAIN h \ {b} : s[c] = h[c]
  BY <1>1, <1>4 DEF Split
<1>6. /\ s[b].next = r /\ s[b].size = n /\ s[b].used = h[b].used
      /\ s[r].next = h[b].next /\ ~s[r].used
  BY <1>1, <1>5 DEF Block
<1>7. /\ End(s, b) = r /\ End(s, r) = End(h, b)
      /\ \A c \in DOMAIN h \ {b} : End(s, c) = End(h, c)
  BY <1>1, <1>2, <1>5, HeapAssumption DEF End, Block
<1>8. /\ DOMAIN s \subseteq Nat \ {NULL}
      /\ s \in [DOMAIN s -> Block]
  <2>1. \A c \in DOMAIN s : s[c] \in Block
    BY <1>1, <1>5 DEF WellFormed
  <2>2. s = [c \in DOMAIN s |-> s[c]]
    BY <1>5 DEF Split
  <2>3. QED
    BY <2>1, <2>2, <1>1, <1>5 DEF WellFormed, NULL
<1>9. Tiled(s)
  <2>1. HEAP_START \in DOMAIN s
    BY <1>5 DEF WellFormed, Tiled
  <2>2. ASSUME NEW c \in DOMAIN s
        PROVE  /\ HEAP_START <= c /\ End(s, c) <= HeapEnd
               /\ IF s[c].next = NULL
                  THEN End(s, c) = HeapEnd
                  ELSE s[c].next = End(s, c) /\ s[c].next \in DOMAIN s
    <3>0. /\ HeapEnd \in Nat /\ HEAP_START \in Nat /\ End(h, b) \in Nat
          /\ HEAP_START <= b /\ End(h, b) <= HeapEnd
      BY <1>1, <1>2, HeapAssumption DEF HeapEnd, End, WellFormed, Tiled
    <3>1. CASE c = b
      BY <3>0, <3>1, <1>1, <1>3, <1>5, <1>6, <1>7 DEF NULL
    <3>2. CASE c = r
      BY <3>0, <3>2, <1>1, <1>3, <1>5, <1>6, <1>7 DEF NULL, WellFormed, Tiled
    <3>3. CASE c \in DOMAIN h \ {b}
      BY <3>3, <1>5, <1>7 DEF WellFormed, Tiled
    <3>4. QED
      BY <3>1, <3>2, <3>3, <1>5
  <2>3. ASSUME NEW c \in DOMAIN s, NEW d \in DOMAIN s, c < d
        PROVE  End(s, c) <= d
    <3>1. \A x, y \in DOMAIN h : x < y => End(h, x) <= y
      BY DEF WellFormed, Tiled
    <3>2. \A x \in DOMAIN h : x <= End(h, x) /\ End(h, x) \in Nat
      BY <1>2, HeapAssumption DEF End
    <3>3. CASE c = r
      BY <3>3, <2>3, <1>1, <1>2, <1>3, <1>5, <1>7, <3>2
    <3>4. CASE c = b
      BY <3>4, <2>3, <1>1, <1>2, <1>3, <1>5, <1>7, <3>2
    <3>5. CASE c \in DOMAIN h \ {b}
      BY <3>5, <2>3, <1>1, <1>2, <1>3, <1>5, <1>7, <3>1, <3>2
    <3>6. QED
      BY <3>3, <3>4, <3>5, <1>5
  <2>4. QED
    BY <2>1, <2>2, <2>3 DEF Tiled
<1>10. QED
  BY <1>4, <1>5, <1>6, <1>8, <1>9 DEF WellFormed

\* Setting the used flag of a block keeps the list well formed.
LEMMA MarkWellFormed ==
  ASSUME NEW h, WellFormed(h),
         NEW b \in DOMAIN h,
         NEW u \in BOOLEAN
  PROVE  LET m == [h EXCEPT ![b].used = u]
         IN  /\ WellFormed(m)
             /\ DOMAIN m = DOMAIN h
             /\ m[b].used = u /\ m[b].size = h[b].size
             /\ \A c \in DOMAIN h \ {b} : m[c] = h[c]
<1> DEFINE m == [h EXCEPT ![b].used = u]
<1>1. /\ DOMAIN m = DOMAIN h
      /\ m[b] = [h[b] EXCEPT !.used = u]
      /\ \A c \in DOMAIN h \ {b} : m[c] = h[c]
  OBVIOUS
<1>2. \A c \in DOMAIN h : h[c] \in Block
  BY DEF WellFormed
<1>3. m[b] \in Block /\ m[b].used = u
  BY <1>1, <1>2 DEF Block
<1>4. \A c \in DOMAIN h :
        m[c].size = h[c].size /\ m[c].next = h[c].next /\ End(m, c) = End(h, c)
  BY <1>1, <1>2 DEF Block, End
<1>5. m \in [DOMAIN m -> Block] /\ DOMAIN m \subseteq Nat \ {NULL}
  BY <1>1, <1>2, <1>3 DEF WellFormed
<1>6. Tiled(m)
  BY <1>1, <1>4 DEF WellFormed, Tiled
<1>7. QED
  BY <1>1, <1>3, <1>4, <1>5, <1>6 DEF WellFormed

\* Taking a block that is large enough keeps the list well formed, changes no
\* other block, and adds at most one block, a free one that follows it.
LEMMA TakeWellFormed ==
  ASSUME NEW h, WellFormed(h),
         NEW b \in DOMAIN h,
         NEW n \in Nat, h[b].size >= n
  PROVE  LET t == Take(h, b, n)
         IN  /\ WellFormed(t)
             /\ DOMAIN h \subseteq DOMAIN t
             /\ t[b].used /\ t[b].size >= n
             /\ \A c \in DOMAIN h \ {b} : t[c] = h[c]
             /\ \A c \in DOMAIN t \ DOMAIN h :
                  ~t[c].used /\ t[c].next = h[b].next
<1> DEFINE t == Take(h, b, n)
<1>1. h[b].size \in Nat
  BY DEF WellFormed, Block
<1>2. CASE h[b].size >= n + HDR + HEAP_MIN_BLOCK
  <2> DEFINE s == Split(h, b, n)
             r == b + HDR + n
  <2>1. /\ WellFormed(s) /\ r \notin DOMAIN h /\ DOMAIN s = DOMAIN h \cup {r}
        /\ s[b].size = n /\ ~s[r].used /\ s[r].next = h[b].next
        /\ \A c \in DOMAIN h \ {b} : s[c] = h[c]
    BY <1>2, SplitWellFormed
  <2>2. t = [s EXCEPT ![b].used = TRUE]
    BY <1>2 DEF Take
  <2> HIDE DEF s, r, t
  <2>3. /\ WellFormed(t) /\ DOMAIN t = DOMAIN s
        /\ t[b].used = TRUE /\ t[b].size = s[b].size
        /\ \A c \in DOMAIN s \ {b} : t[c] = s[c]
    BY <2>1, <2>2, MarkWellFormed
  <2>4. QED
    BY <2>1, <2>3 DEF t
<1>3. CASE ~(h[b].size >= n + HDR + HEAP_MIN_BLOCK)
  <2>1. t = [h EXCEPT ![b].used = TRUE]
    BY <1>3 DEF Take
  <2> HIDE DEF t
  <2>2. /\ WellFormed(t) /\ DOMAIN t = DOMAIN h
        /\ t[b].used = TRUE /\ t[b].size = h[b].size
        /\ \A c \in DOMAIN h \ {b} : t[c] = h[c]
    BY <2>1, MarkWellFormed
  <2>3. QED
    BY <2>2 DEF t
<1>4. QED
  BY <1>2, <1>3

\* Releasing a block keeps the list well formed.  The one header that may
\* leave the list is free, and it is not the one released.
LEMMA ReleaseWellFormed ==
  ASSUME NEW h, WellFormed(h),
         NEW b \in DOMAIN h
  PROVE  LET f == Release(h, b)
         IN  /\ WellFormed(f)
             /\ b \in DOMAIN f /\ ~f[b].used
             /\ DOMAIN f \subseteq DOMAIN h
             /\ \A c \in DOMAIN f \ {b} : f[c] = h[c]
             /\ \A c \in DOMAIN h \ DOMAIN f : ~h[c].used
<1> DEFINE f == Release(h, b)
           n == h[b].next
<1>1. CASE ~(n # NULL /\ ~h[n].used)
  <2>1. f = [h EXCEPT ![b].used = FALSE]
    BY <1>1 DEF Release
  <2> HIDE DEF f
  <2>2. /\ WellFormed(f) /\ DOMAIN f = DOMAIN h
        /\ f[b].used = FALSE
        /\ \A c \in DOMAIN h \ {b} : f[c] = h[c]
    BY <2>1, MarkWellFormed
  <2>3. QED
    BY <2>2 DEF f
<1>2. CASE n # NULL /\ ~h[n].used
  <2> DEFINE joined == [size |-> h[b].size + HDR + h[n].size,
                        used |-> FALSE, next |-> h[n].next]
  <2>1. /\ n \in DOMAIN h /\ n = End(h, b)
        /\ h[b] \in Block /\ h[n] \in Block
        /\ b \in Nat \ {0} /\ n \in Nat \ {0}
    BY <1>2 DEF WellFormed, Tiled, NULL
  <2>2. b < n
    BY <2>1, HeapAssumption DEF End, Block
  <2>3. joined \in Block
    BY <2>1, HeapAssumption DEF Block
  <2>4. /\ f = [c \in DOMAIN h \ {n} |-> IF c = b THEN joined ELSE h[c]]
        /\ DOMAIN f = DOMAIN h \ {n}
        /\ b \in DOMAIN f /\ f[b] = joined
        /\ \A c \in DOMAIN f \ {b} : f[c] = h[c]
    BY <1>2, <2>1, <2>2 DEF Release
  <2>5. /\ End(f, b) = End(h, n)
        /\ \A c \in DOMAIN f \ {b} : End(f, c) = End(h, c)
    BY <2>1, <2>4, HeapAssumption DEF End, Block
  <2>6. f \in [DOMAIN f -> Block] /\ DOMAIN f \subseteq Nat \ {NULL}
    BY <2>3, <2>4 DEF WellFormed
  <2>7. \A c \in DOMAIN h : c \in Nat /\ End(h, c) \in Nat /\ c < End(h, c)
    BY HeapAssumption DEF WellFormed, Block, End
  <2>8. \A c, d \in DOMAIN h : c < d => End(h, c) <= d
    BY DEF WellFormed, Tiled
  <2>9. Tiled(f)
    <3>1. HEAP_START \in DOMAIN f
      BY <2>1, <2>2, <2>4, HeapAssumption DEF WellFormed, Tiled
    <3>2. ASSUME NEW c \in DOMAIN f
          PROVE  /\ HEAP_START <= c /\ End(f, c) <= HeapEnd
                 /\ IF f[c].next = NULL
                    THEN End(f, c) = HeapEnd
                    ELSE f[c].next = End(f, c) /\ f[c].next \in DOMAIN f
      <4>1. CASE c = b
        <5>1. f[b].next = h[n].next
          BY <2>4
        <5>2. h[n].next # n
          BY <2>1, <2>7 DEF WellFormed, Tiled
        <5>3. QED
          BY <4>1, <5>1, <5>2, <2>1, <2>4, <2>5 DEF WellFormed, Tiled
      <4>2. CASE c # b
        <5>1. f[c] = h[c] /\ End(f, c) = End(h, c) /\ c \in DOMAIN h
          BY <4>2, <2>4, <2>5
        <5>2. h[c].next # n
          <6>1. CASE c < b
            BY <6>1, <5>1, <2>1, <2>2, <2>7, <2>8 DEF WellFormed, Tiled
          <6>2. CASE b < c
            <7>1. n <= c
              BY <6>2, <5>1, <2>1, <2>8
            <7>2. QED
              BY <7>1, <5>1, <2>1, <2>7, <1>2 DEF WellFormed, Tiled
          <6>3. QED
            BY <6>1, <6>2, <4>2, <5>1, <2>1, <2>7
        <5>3. QED
          BY <5>1, <5>2, <2>4 DEF WellFormed, Tiled
      <4>3. QED
        BY <4>1, <4>2
    <3>3. ASSUME NEW c \in DOMAIN f, NEW d \in DOMAIN f, c < d
          PROVE  End(f, c) <= d
      <4>1. CASE c = b
        <5>1. n <= d /\ n # d
          BY <4>1, <3>3, <2>1, <2>4, <2>8
        <5>2. QED
          BY <4>1, <5>1, <2>1, <2>4, <2>5, <2>7, <2>8
      <4>2. CASE c # b
        BY <4>2, <3>3, <2>4, <2>5, <2>8
      <4>3. QED
        BY <4>1, <4>2
    <3>4. QED
      BY <3>1, <3>2, <3>3 DEF Tiled
  <2>10. QED
    BY <1>2, <2>1, <2>3, <2>4, <2>6, <2>9 DEF WellFormed
<1>3. QED
  BY <1>1, <1>2

-----------------------------------------------------------------------------
(* The inductive invariant.                                                *)

\* kmalloc always starts from a well-formed list, whose used blocks are the
\* ones callers hold: before the first call there are none.
LEMMA ArenaWellFormed ==
  ASSUME IInv
  PROVE  /\ WellFormed(Arena)
         /\ \A p \in DOMAIN live : p - HDR \in DOMAIN Arena /\ Arena[p - HDR].used
         /\ \A b \in DOMAIN Arena : Arena[b].used => b + HDR \in DOMAIN live
         /\ \A b \in DOMAIN heap : b \in DOMAIN Arena /\ Arena[b] = heap[b]
<1>1. CASE DOMAIN heap = {}
  <2> DEFINE first == [size |-> HEAP_SIZE, used |-> FALSE, next |-> NULL]
  <2>1. Arena = [a \in {HEAP_START} |-> first]
    BY <1>1 DEF Arena
  <2>2. first \in Block
    BY HeapAssumption DEF Block, NULL
  <2>3. DOMAIN Arena = {HEAP_START} /\ Arena[HEAP_START] = first
    BY <2>1
  <2>4. Tiled(Arena)
    BY <2>3, HeapAssumption DEF Tiled, End, HeapEnd, NULL
  <2>5. DOMAIN live = {}
    BY <1>1 DEF IInv, UsedIsHeld
  <2>6. QED
    BY <1>1, <2>1, <2>2, <2>3, <2>4, <2>5, HeapAssumption DEF WellFormed, NULL
<1>2. CASE DOMAIN heap # {}
  BY <1>2 DEF Arena, IInv, TypeOK, HeapTiled, UsedIsHeld, WellFormed
<1>3. QED
  BY <1>1, <1>2

\* A grant returns a pointer nobody held, of a block no smaller than the
\* rounded size, and leaves the blocks of the other holders alone.
LEMMA GrantStep ==
  ASSUME IInv, NEW asked \in Nat, NEW n \in Nat,
         NEW b \in DOMAIN Arena, Grant(asked, n, b)
  PROVE  /\ WellFormed(heap') /\ UsedIsHeld'
         /\ b \in Nat \ {0}
         /\ b + HDR \notin DOMAIN live
         /\ DOMAIN live' = DOMAIN live \cup {b + HDR}
         /\ DOMAIN live' \subseteq Nat /\ live' \in [DOMAIN live' -> Nat]
         /\ live'[b + HDR] = asked /\ heap'[b].size >= RoundUp(n)
         /\ \A p \in DOMAIN live :
              /\ live'[p] = live[p]
              /\ p - HDR \in DOMAIN heap' /\ heap'[p - HDR] = heap[p - HDR]
<1> DEFINE r == RoundUp(n)
<1>1. /\ WellFormed(Arena)
      /\ \A p \in DOMAIN live : p - HDR \in DOMAIN Arena /\ Arena[p - HDR].used
      /\ \A c \in DOMAIN Arena : Arena[c].used => c + HDR \in DOMAIN live
      /\ \A c \in DOMAIN heap : c \in DOMAIN Arena /\ Arena[c] = heap[c]
  BY ArenaWellFormed
<1>2. r \in Nat
  BY RoundUpType
<1>3. ~Arena[b].used /\ Arena[b].size >= r /\ heap' = Take(Arena, b, r)
  BY DEF Grant, FirstFit, Fits
<1> HIDE DEF r
<1>4. /\ WellFormed(heap')
      /\ DOMAIN Arena \subseteq DOMAIN heap'
      /\ heap'[b].used /\ heap'[b].size >= r
      /\ \A c \in DOMAIN Arena \ {b} : heap'[c] = Arena[c]
      /\ \A c \in DOMAIN heap' \ DOMAIN Arena : ~heap'[c].used
  BY <1>1, <1>2, <1>3, TakeWellFormed
<1>5. b \in Nat \ {0}
  BY <1>1 DEF WellFormed, NULL
<1>6. (b + HDR) - HDR = b /\ b + HDR \in Nat
  BY <1>5, HeapAssumption
<1>7. b + HDR \notin DOMAIN live
  BY <1>1, <1>3, <1>6
<1>8. /\ DOMAIN live \subseteq Nat /\ live \in [DOMAIN live -> Nat]
      /\ \A p \in DOMAIN live : p - HDR \in DOMAIN heap
  BY DEF IInv, TypeOK, UsedIsHeld
<1>9. /\ DOMAIN live' = DOMAIN live \cup {b + HDR}
      /\ live'[b + HDR] = asked
      /\ \A p \in DOMAIN live : live'[p] = live[p]
      /\ live' = [p \in DOMAIN live' |-> live'[p]]
  BY <1>7 DEF Grant
<1>10. DOMAIN live' \subseteq Nat /\ live' \in [DOMAIN live' -> Nat]
  BY <1>6, <1>8, <1>9
<1>11. \A p \in DOMAIN live : p - HDR \in DOMAIN Arena \ {b}
  BY <1>1, <1>3
<1>12. UsedIsHeld'
  <2>1. ASSUME NEW p \in DOMAIN live'
        PROVE  p - HDR \in DOMAIN heap' /\ heap'[p - HDR].used
    BY <2>1, <1>1, <1>4, <1>6, <1>9, <1>11
  <2>2. ASSUME NEW c \in DOMAIN heap', heap'[c].used
        PROVE  c + HDR \in DOMAIN live'
    BY <2>2, <1>1, <1>4, <1>9
  <2>3. QED
    BY <2>1, <2>2 DEF UsedIsHeld
<1>13. \A p \in DOMAIN live :
         p - HDR \in DOMAIN heap' /\ heap'[p - HDR] = heap[p - HDR]
  BY <1>1, <1>4, <1>8, <1>11
<1>14. QED
  BY <1>4, <1>5, <1>7, <1>9, <1>10, <1>12, <1>13 DEF r

\* A refusal only sets the arena up.
LEMMA RefuseStep ==
  ASSUME IInv, NEW n \in Nat, Refuse(n)
  PROVE  /\ WellFormed(heap') /\ UsedIsHeld'
         /\ live' = live
         /\ \A p \in DOMAIN live : heap'[p - HDR] = heap[p - HDR]
BY ArenaWellFormed DEF Refuse, UsedIsHeld, IInv

\* A free takes one pointer from the holders and leaves the blocks of the
\* others alone.
LEMMA KfreeStep ==
  ASSUME IInv, NEW p \in DOMAIN live, Kfree(p)
  PROVE  /\ WellFormed(heap') /\ UsedIsHeld'
         /\ DOMAIN live' = DOMAIN live \ {p}
         /\ DOMAIN live' \subseteq Nat /\ live' \in [DOMAIN live' -> Nat]
         /\ \A q \in DOMAIN live' :
              /\ live'[q] = live[q]
              /\ q - HDR \in DOMAIN heap' /\ heap'[q - HDR] = heap[q - HDR]
<1> DEFINE b == p - HDR
<1>1. /\ DOMAIN live \subseteq Nat /\ live \in [DOMAIN live -> Nat]
      /\ \A q \in DOMAIN live : q - HDR \in DOMAIN heap /\ heap[q - HDR].used
      /\ \A c \in DOMAIN heap : heap[c].used => c + HDR \in DOMAIN live
  BY DEF IInv, TypeOK, UsedIsHeld
<1>2. WellFormed(heap) /\ b \in DOMAIN heap /\ heap' = Release(heap, b)
  BY <1>1 DEF IInv, TypeOK, HeapTiled, WellFormed, Kfree
<1> HIDE DEF b
<1>3. /\ WellFormed(heap')
      /\ b \in DOMAIN heap' /\ ~heap'[b].used
      /\ DOMAIN heap' \subseteq DOMAIN heap
      /\ \A c \in DOMAIN heap' \ {b} : heap'[c] = heap[c]
      /\ \A c \in DOMAIN heap \ DOMAIN heap' : ~heap[c].used
  BY <1>2, ReleaseWellFormed
<1>4. /\ DOMAIN live' = DOMAIN live \ {p}
      /\ \A q \in DOMAIN live' : live'[q] = live[q]
      /\ live' = [q \in DOMAIN live' |-> live'[q]]
  BY DEF Kfree
<1>5. live' \in [DOMAIN live' -> Nat]
  BY <1>1, <1>4
<1>6. \A q \in DOMAIN live' : q - HDR # b /\ q - HDR \in DOMAIN heap'
  <2> SUFFICES ASSUME NEW q \in DOMAIN live'
               PROVE  q - HDR # b /\ q - HDR \in DOMAIN heap'
    OBVIOUS
  <2>1. q \in Nat /\ p \in Nat /\ q # p
    BY <1>1, <1>4
  <2>2. QED
    BY <2>1, <1>1, <1>3, <1>4, HeapAssumption DEF b
<1>7. UsedIsHeld'
  <2>1. ASSUME NEW c \in DOMAIN heap', heap'[c].used
        PROVE  c + HDR \in DOMAIN live'
    <3>1. c # b /\ c \in DOMAIN heap /\ heap[c].used
      BY <2>1, <1>3
    <3>2. c \in Nat /\ p \in Nat
      BY <1>1, <1>3 DEF WellFormed
    <3>3. c + HDR # p
      BY <3>1, <3>2, HeapAssumption DEF b
    <3>4. QED
      BY <3>1, <3>3, <1>1, <1>4
  <2>2. QED
    BY <2>1, <1>1, <1>3, <1>4, <1>6 DEF UsedIsHeld
<1>8. QED
  BY <1>1, <1>3, <1>4, <1>5, <1>6, <1>7

\* The three facts together are inductive.
LEMMA IInvInit == Init => IInv
BY DEF Init, IInv, TypeOK, HeapTiled, UsedIsHeld, NULL

LEMMA IInvFromParts ==
  ASSUME WellFormed(heap'), UsedIsHeld',
         DOMAIN live' \subseteq Nat, live' \in [DOMAIN live' -> Nat],
         zeroed' \in [ptr : Nat, len : Nat]
  PROVE  IInv'
BY DEF IInv, TypeOK, HeapTiled, WellFormed

\* The product of kcalloc is a size.
LEMMA ProductType ==
  ASSUME NEW num \in Counts, NEW size \in Sizes
  PROVE  /\ num * size \in Nat
         /\ (num * size) % SIZE_MOD \in Nat
         /\ NoWrap(num * size) => (num * size) % SIZE_MOD = num * size
<1>1. num \in Nat /\ size \in Nat
  BY HeapAssumption
<1>2. num * size \in Nat
  BY <1>1
<1>3. ASSUME NEW m \in Nat
      PROVE  m % SIZE_MOD \in Nat /\ (NoWrap(m) => m % SIZE_MOD = m)
  BY HeapAssumption DEF NoWrap
<1>4. QED
  BY <1>2, <1>3

LEMMA IInvNext == IInv /\ [Next]_vars => IInv'
<1> SUFFICES ASSUME IInv, [Next]_vars PROVE IInv'
  OBVIOUS
<1>1. /\ zeroed \in [ptr : Nat, len : Nat]
      /\ DOMAIN live \subseteq Nat /\ live \in [DOMAIN live -> Nat]
  BY DEF IInv, TypeOK
<1>2. ASSUME NEW n \in Sizes, Kmalloc(n)
      PROVE  IInv'
  <2>1. n \in Nat /\ zeroed' = zeroed
    BY <1>2, HeapAssumption DEF Kmalloc
  <2>2. ASSUME NEW b \in DOMAIN Arena, Grant(n, n, b)
        PROVE  IInv'
    BY <1>1, <2>1, <2>2, GrantStep, IInvFromParts
  <2>3. CASE Refuse(n)
    BY <1>1, <2>1, <2>3, RefuseStep, IInvFromParts
  <2>4. QED
    BY <1>2, <2>2, <2>3 DEF Kmalloc
<1>3. ASSUME NEW num \in Counts, NEW size \in Sizes, Kcalloc(num, size)
      PROVE  IInv'
  <2> DEFINE asked == num * size
             n == asked % SIZE_MOD
  <2>1. asked \in Nat /\ n \in Nat /\ (NoWrap(asked) => n = asked)
    BY ProductType
  <2>2. ASSUME NEW b \in DOMAIN Arena, Grant(asked, n, b),
               zeroed' = [ptr |-> b + HDR, len |-> n]
        PROVE  IInv'
    <3> HIDE DEF n, asked
    <3>1. /\ WellFormed(heap') /\ UsedIsHeld' /\ b \in Nat \ {0}
          /\ DOMAIN live' \subseteq Nat /\ live' \in [DOMAIN live' -> Nat]
      BY <2>1, <2>2, GrantStep
    <3>2. zeroed' \in [ptr : Nat, len : Nat]
      BY <2>1, <2>2, <3>1, HeapAssumption
    <3>3. QED
      BY <3>1, <3>2, IInvFromParts
  <2>3. CASE Refuse(n) /\ UNCHANGED zeroed
    <3> HIDE DEF n, asked
    <3>1. QED
      BY <1>1, <2>1, <2>3, RefuseStep, IInvFromParts
  <2>4. QED
    BY <1>3, <2>2, <2>3 DEF Kcalloc
<1>4. ASSUME NEW p \in DOMAIN live, Kfree(p)
      PROVE  IInv'
  <2>1. zeroed' \in [ptr : Nat, len : Nat]
    BY <1>1, <1>4 DEF Kfree, NULL
  <2>2. QED
    BY <2>1, <1>4, KfreeStep, IInvFromParts
<1>5. CASE UNCHANGED vars
  BY <1>5 DEF vars, IInv, TypeOK, HeapTiled, Tiled, End, UsedIsHeld
<1>6. QED
  BY <1>2, <1>3, <1>4, <1>5 DEF Next, Alloc

LEMMA IInvAlways == Spec => []IInv
BY IInvInit, IInvNext, PTL DEF Spec

-----------------------------------------------------------------------------
(* Safety.                                                                 *)

\* The fields of every header on the list, and the callers' pointers, keep
\* their types.
THEOREM TypeCorrect == Spec => []TypeOK
BY IInvAlways, PTL DEF IInv

\* Whatever sequence of kmalloc, kcalloc and kfree, for every request size
\* and even when size_t wraps, the blocks on the list tile the arena.
THEOREM Tiling == Spec => []HeapTiled
BY IInvAlways, PTL DEF IInv

\* The used blocks are always exactly the ones callers hold.
THEOREM Ownership == Spec => []UsedIsHeld
BY IInvAlways, PTL DEF IInv

-----------------------------------------------------------------------------
(* Alignment.                                                              *)

\* Sums of multiples are multiples.
LEMMA SumMultiple ==
  ASSUME NEW a \in Int, NEW b \in Int, a % ALIGN = 0, b % ALIGN = 0
  PROVE  (a + b) % ALIGN = 0
<1>1. \A k \in Int : (ALIGN * k) % ALIGN = 0
  BY HeapAssumption
<1> DEFINE q == a \div ALIGN
           r == b \div ALIGN
<1>2. a = ALIGN * q /\ b = ALIGN * r /\ q \in Int /\ r \in Int
  BY HeapAssumption
<1> HIDE DEF q, r
<1>3. a + b = ALIGN * (q + r) /\ q + r \in Int
  BY <1>2, HeapAssumption
<1>4. QED
  BY <1>1, <1>3

LEMMA RoundUpMultiple ==
  ASSUME NEW n \in Nat
  PROVE  RoundUp(n) % ALIGN = 0
<1>1. \A k \in Int : (ALIGN * k) % ALIGN = 0
  BY HeapAssumption
<1> DEFINE s == (n + (ALIGN - 1)) % SIZE_MOD
<1>2. s \in Nat
  BY HeapAssumption
<1> HIDE DEF s
<1>3. s - (s % ALIGN) = ALIGN * (s \div ALIGN) /\ s \div ALIGN \in Int
  BY <1>2, HeapAssumption
<1>4. (s - (s % ALIGN)) % ALIGN = 0
  BY <1>1, <1>3
<1>5. QED
  BY <1>4 DEF RoundUp, s

\* Every header on the list is a multiple of ALIGN away from heap_head.
HeadersAligned == \A b \in DOMAIN heap : (b - HEAP_START) % ALIGN = 0

LEMMA GrantAligned ==
  ASSUME IInv, HeadersAligned, NEW asked \in Nat, NEW n \in Nat,
         NEW b \in DOMAIN Arena, Grant(asked, n, b)
  PROVE  HeadersAligned'
<1> DEFINE r == RoundUp(n)
<1>1. r \in Nat /\ r % ALIGN = 0
  BY RoundUpType, RoundUpMultiple
<1>2. \A c \in DOMAIN Arena : c \in Nat /\ (c - HEAP_START) % ALIGN = 0
  <2>1. CASE DOMAIN heap = {}
    <3>1. DOMAIN Arena = {HEAP_START}
      BY <2>1 DEF Arena
    <3>2. HEAP_START \in Nat /\ (HEAP_START - HEAP_START) % ALIGN = 0
      BY HeapAssumption
    <3>3. QED
      BY <3>1, <3>2
  <2>2. CASE DOMAIN heap # {}
    BY <2>2 DEF Arena, HeadersAligned, IInv, TypeOK
  <2>3. QED
    BY <2>1, <2>2
<1>3. DOMAIN heap' \subseteq DOMAIN Arena \cup {b + HDR + r}
  BY DEF Grant, Take, Split
<1>4. ((b + HDR + r) - HEAP_START) % ALIGN = 0
  <2>1. HDR \in Int /\ HDR % ALIGN = 0 /\ HEAP_START \in Int
    BY HeapAssumption, HeaderAssumption
  <2>2. (HDR + r) % ALIGN = 0
    BY <1>1, <2>1, SumMultiple
  <2>3. b - HEAP_START \in Int /\ (b - HEAP_START) % ALIGN = 0 /\ HDR + r \in Int
    BY <1>1, <1>2, <2>1
  <2>4. ((b - HEAP_START) + (HDR + r)) % ALIGN = 0
    BY <2>2, <2>3, SumMultiple
  <2>5. (b - HEAP_START) + (HDR + r) = (b + HDR + r) - HEAP_START
    BY <1>1, <1>2, <2>1
  <2>6. QED
    BY <2>4, <2>5
<1> HIDE DEF r
<1>5. ASSUME NEW c \in DOMAIN heap' PROVE (c - HEAP_START) % ALIGN = 0
  <2>1. CASE c \in DOMAIN Arena
    BY <1>2, <2>1
  <2>2. CASE c = b + HDR + r
    BY <1>4, <2>2
  <2>3. QED
    BY <1>3, <1>5, <2>1, <2>2
<1>6. QED
  BY <1>5 DEF HeadersAligned

LEMMA HeadersAlignedNext ==
  ASSUME IInv, HeadersAligned, [Next]_vars
  PROVE  HeadersAligned'
<1>1. ASSUME NEW n \in Nat, Refuse(n) PROVE HeadersAligned'
  <2>1. heap' = Arena
    BY <1>1 DEF Refuse
  <2>2. CASE DOMAIN heap = {}
    <3>1. DOMAIN heap' = {HEAP_START}
      BY <2>1, <2>2 DEF Arena
    <3>2. (HEAP_START - HEAP_START) % ALIGN = 0
      BY HeapAssumption
    <3>3. QED
      BY <3>1, <3>2 DEF HeadersAligned
  <2>3. CASE DOMAIN heap # {}
    BY <2>1, <2>3 DEF Arena, HeadersAligned
  <2>4. QED
    BY <2>2, <2>3
<1>2. ASSUME NEW n \in Sizes, Kmalloc(n) PROVE HeadersAligned'
  <2>1. n \in Nat
    BY HeapAssumption
  <2>2. QED
    BY <1>1, <1>2, <2>1, GrantAligned DEF Kmalloc
<1>3. ASSUME NEW num \in Counts, NEW size \in Sizes, Kcalloc(num, size)
      PROVE  HeadersAligned'
  <2> DEFINE asked == num * size
             n == asked % SIZE_MOD
  <2>1. asked \in Nat /\ n \in Nat
    BY ProductType
  <2>2. (\E b \in DOMAIN Arena : Grant(asked, n, b)) \/ Refuse(n)
    BY <1>3 DEF Kcalloc
  <2> HIDE DEF n, asked
  <2>3. QED
    BY <1>1, <2>1, <2>2, GrantAligned
<1>4. ASSUME NEW p \in DOMAIN live, Kfree(p) PROVE HeadersAligned'
  <2>1. p - HDR \in DOMAIN heap /\ heap' = Release(heap, p - HDR)
    BY <1>4 DEF Kfree, IInv, UsedIsHeld
  <2>2. DOMAIN heap' \subseteq DOMAIN heap
    BY <2>1 DEF Release
  <2>3. QED
    BY <2>2 DEF HeadersAligned
<1>5. CASE UNCHANGED vars
  BY <1>5 DEF vars, HeadersAligned
<1>6. QED
  BY <1>2, <1>3, <1>4, <1>5 DEF Next, Alloc

\* Every payload pointer keeps the alignment of the arena, for every arena,
\* every alignment that divides the size of a header, and every request,
\* those that wrap included.
THEOREM Alignment == Spec => []PayloadsAligned
<1>1. Init => HeadersAligned
  BY DEF Init, HeadersAligned
<1>2. IInv /\ HeadersAligned => PayloadsAligned
  <2> SUFFICES ASSUME IInv, HeadersAligned, NEW p \in DOMAIN live
               PROVE  (p - HEAP_START) % ALIGN = 0
    BY DEF PayloadsAligned
  <2>1. /\ p \in Nat /\ HDR \in Int /\ HDR % ALIGN = 0 /\ HEAP_START \in Int
        /\ p - HDR \in DOMAIN heap
    BY HeapAssumption, HeaderAssumption DEF IInv, TypeOK, UsedIsHeld
  <2>2. (p - HDR - HEAP_START) % ALIGN = 0 /\ p - HDR - HEAP_START \in Int
    BY <2>1 DEF HeadersAligned
  <2>3. ((p - HDR - HEAP_START) + HDR) % ALIGN = 0
    BY <2>1, <2>2, SumMultiple
  <2>4. (p - HDR - HEAP_START) + HDR = p - HEAP_START
    BY <2>1
  <2>5. QED
    BY <2>3, <2>4
<1>3. QED
  BY <1>1, <1>2, HeadersAlignedNext, IInvAlways, PTL DEF Spec

-----------------------------------------------------------------------------
(* Requests.                                                               *)

\* What kcalloc zeroed last is held by a caller, and was no longer than the
\* block unless the rounding wrapped.
FillIsHeld ==
  zeroed.len > 0 =>
    /\ zeroed.ptr \in DOMAIN live
    /\ NoWrap(zeroed.len) => heap[zeroed.ptr - HDR].size >= zeroed.len

CInv == CoversRequest /\ FillIsHeld

\* The block granted has the size kmalloc was called with, up to the rounding.
LEMMA GrantFits ==
  ASSUME IInv, NEW asked \in Nat, NEW n \in Nat, NoWrap(n),
         NEW b \in DOMAIN Arena, Grant(asked, n, b)
  PROVE  heap'[b].size >= n
<1>1. /\ b \in Nat \ {0} /\ DOMAIN live' = DOMAIN live \cup {b + HDR}
      /\ heap'[b].size >= RoundUp(n) /\ WellFormed(heap') /\ UsedIsHeld'
  BY GrantStep
<1>2. b \in DOMAIN heap'
  <2>1. (b + HDR) - HDR = b
    BY <1>1, HeapAssumption
  <2>2. QED
    BY <1>1, <2>1 DEF UsedIsHeld
<1>3. heap'[b].size \in Nat
  BY <1>1, <1>2 DEF WellFormed, Block
<1>4. QED
  BY <1>1, <1>3, RoundUpType, RoundUpCovers

\* The holder gets what it asked for when kmalloc was called with that.
LEMMA GrantCovers ==
  ASSUME IInv, CoversRequest, NEW asked \in Nat, NEW n \in Nat,
         NoWrap(asked) => n = asked,
         NEW b \in DOMAIN Arena, Grant(asked, n, b)
  PROVE  CoversRequest'
<1>1. /\ b \in Nat \ {0}
      /\ DOMAIN live' = DOMAIN live \cup {b + HDR}
      /\ live'[b + HDR] = asked
      /\ \A p \in DOMAIN live :
           live'[p] = live[p] /\ heap'[p - HDR] = heap[p - HDR]
  BY GrantStep
<1>2. (b + HDR) - HDR = b
  BY <1>1, HeapAssumption
<1>3. ASSUME NoWrap(asked) PROVE heap'[b].size >= asked
  BY <1>3, GrantFits
<1>4. ASSUME NEW p \in DOMAIN live', NoWrap(live'[p])
      PROVE  heap'[p - HDR].size >= live'[p]
  <2>1. CASE p = b + HDR
    BY <2>1, <1>1, <1>2, <1>3, <1>4
  <2>2. CASE p \in DOMAIN live
    BY <2>2, <1>1, <1>4 DEF CoversRequest
  <2>3. QED
    BY <2>1, <2>2, <1>1
<1>5. QED
  BY <1>4 DEF CoversRequest, NoWrap

LEMMA CInvNext == IInv /\ CInv /\ [Next]_vars => CInv'
<1> SUFFICES ASSUME IInv, CInv, [Next]_vars PROVE CInv'
  OBVIOUS
<1>1. /\ CoversRequest /\ FillIsHeld
      /\ zeroed \in [ptr : Nat, len : Nat]
  BY DEF CInv, IInv, TypeOK
<1>2. ASSUME NEW n \in Nat, Refuse(n), zeroed' = zeroed
      PROVE  CInv'
  BY <1>1, <1>2, RefuseStep DEF CInv, CoversRequest, FillIsHeld, NoWrap
<1>3. ASSUME NEW n \in Sizes, Kmalloc(n)
      PROVE  CInv'
  <2>1. n \in Nat /\ zeroed' = zeroed
    BY <1>3, HeapAssumption DEF Kmalloc
  <2>2. ASSUME NEW b \in DOMAIN Arena, Grant(n, n, b)
        PROVE  CInv'
    <3>1. CoversRequest'
      BY <1>1, <2>1, <2>2, GrantCovers
    <3>2. FillIsHeld'
      BY <1>1, <2>1, <2>2, GrantStep DEF FillIsHeld, NoWrap
    <3>3. QED
      BY <3>1, <3>2 DEF CInv
  <2>3. CASE Refuse(n)
    BY <1>2, <2>1, <2>3
  <2>4. QED
    BY <1>3, <2>2, <2>3 DEF Kmalloc
<1>4. ASSUME NEW num \in Counts, NEW size \in Sizes, Kcalloc(num, size)
      PROVE  CInv'
  <2> DEFINE asked == num * size
             n == asked % SIZE_MOD
  <2>1. asked \in Nat /\ n \in Nat /\ (NoWrap(asked) => n = asked)
    BY ProductType
  <2>2. ASSUME NEW b \in DOMAIN Arena, Grant(asked, n, b),
               zeroed' = [ptr |-> b + HDR, len |-> n]
        PROVE  CInv'
    <3> HIDE DEF n, asked
    <3>1. CoversRequest'
      BY <1>1, <2>1, <2>2, GrantCovers
    <3>2. /\ b + HDR \in DOMAIN live' /\ (b + HDR) - HDR = b
      <4>1. b \in Nat \ {0} /\ DOMAIN live' = DOMAIN live \cup {b + HDR}
        BY <2>1, <2>2, GrantStep
      <4>2. QED
        BY <4>1, HeapAssumption
    <3>3. NoWrap(n) => heap'[b].size >= n
      BY <2>1, <2>2, GrantFits
    <3>4. FillIsHeld'
      BY <2>2, <3>2, <3>3 DEF FillIsHeld, NoWrap
    <3>5. QED
      BY <3>1, <3>4 DEF CInv
  <2>3. CASE Refuse(n) /\ UNCHANGED zeroed
    <3> HIDE DEF n, asked
    <3>1. QED
      BY <1>2, <2>1, <2>3
  <2>4. QED
    BY <1>4, <2>2, <2>3 DEF Kcalloc
<1>5. ASSUME NEW p \in DOMAIN live, Kfree(p)
      PROVE  CInv'
  <2>1. /\ DOMAIN live' = DOMAIN live \ {p}
        /\ \A q \in DOMAIN live' :
             live'[q] = live[q] /\ heap'[q - HDR] = heap[q - HDR]
    BY <1>5, KfreeStep
  <2>2. CoversRequest'
    BY <1>1, <2>1 DEF CoversRequest, NoWrap
  <2>3. FillIsHeld'
    BY <1>1, <1>5, <2>1 DEF FillIsHeld, Kfree, NoWrap
  <2>4. QED
    BY <2>2, <2>3 DEF CInv
<1>6. CASE UNCHANGED vars
  BY <1>6, <1>1 DEF vars, CInv, CoversRequest, NoWrap, FillIsHeld
<1>7. QED
  BY <1>3, <1>4, <1>5, <1>6 DEF Next, Alloc

LEMMA CInvAlways == Spec => []CInv
<1>1. Init => CInv
  BY DEF Init, CInv, CoversRequest, FillIsHeld
<1>2. QED
  BY <1>1, CInvNext, IInvAlways, PTL DEF Spec

\* A holder has all the bytes it asked for, those of num elements of size
\* bytes for a caller of kcalloc, and no later split or merge takes any from
\* it, unless that many bytes are within ALIGN of the end of size_t or past
\* it: then the rounding or the product wraps, and it may have fewer.
THEOREM RequestCovered == Spec => []CoversRequest
BY CInvAlways, PTL DEF CInv

\* kcalloc never zeroes past the end of its block, even when its product
\* wraps, unless the rounding up of that product wraps too.
THEOREM FillContained == Spec => []FillStaysInside
<1>1. IInv /\ CInv => FillStaysInside
  <2> SUFFICES ASSUME IInv, CInv, zeroed.len > 0, NoWrap(zeroed.len)
               PROVE  /\ zeroed.ptr \in DOMAIN live
                      /\ zeroed.len <= heap[zeroed.ptr - HDR].size
    BY DEF FillStaysInside
  <2>1. /\ zeroed.ptr \in DOMAIN live
        /\ heap[zeroed.ptr - HDR].size >= zeroed.len
    BY DEF CInv, FillIsHeld
  <2>2. heap[zeroed.ptr - HDR].size \in Nat /\ zeroed.len \in Nat
    BY <2>1 DEF IInv, TypeOK, UsedIsHeld, Block
  <2>3. QED
    BY <2>1, <2>2
<1>2. QED
  BY <1>1, IInvAlways, CInvAlways, PTL

-----------------------------------------------------------------------------
(* Refinement.                                                             *)

\* Blocks of two holders are a header apart.
LEMMA HeldApart ==
  ASSUME NEW h, WellFormed(h), NEW b \in DOMAIN h, NEW c \in DOMAIN h, b # c
  PROVE  End(h, b) <= c \/ End(h, c) <= b
<1>1. b \in Nat /\ c \in Nat
  BY DEF WellFormed
<1>2. QED
  BY <1>1 DEF WellFormed, Tiled

\* A grant of the list is a grant of the abstract allocator.
LEMMA GrantRefines ==
  ASSUME IInv, NEW asked \in Nat, NEW n \in Nat,
         NEW b \in DOMAIN Arena, Grant(asked, n, b)
  PROVE  Abstract!Alloc
<1> DEFINE p == b + HDR
           len == heap'[b].size
<1>1. /\ WellFormed(heap') /\ UsedIsHeld'
      /\ b \in Nat \ {0} /\ p \notin DOMAIN live
      /\ DOMAIN live' = DOMAIN live \cup {p}
      /\ \A q \in DOMAIN live :
           q - HDR \in DOMAIN heap' /\ heap'[q - HDR] = heap[q - HDR]
  BY GrantStep
<1>2. p - HDR = b /\ p \in Nat
  BY <1>1, HeapAssumption
<1>3. b \in DOMAIN heap'
  BY <1>1, <1>2 DEF UsedIsHeld
<1>4. len \in Nat /\ HEAP_START <= b /\ p + len <= HeapEnd
  BY <1>1, <1>3 DEF WellFormed, Tiled, End, Block
<1>5. HEAP_START + HDR <= p
  BY <1>1, <1>4, HeapAssumption
<1>6. /\ DOMAIN granted = DOMAIN live
      /\ \A q \in DOMAIN live : granted[q] = heap[q - HDR].size
      /\ DOMAIN granted' = DOMAIN live \cup {p}
      /\ granted'[p] = len
      /\ \A q \in DOMAIN live : granted'[q] = granted[q]
  BY <1>1, <1>2 DEF granted
<1>7. granted' = [q \in DOMAIN granted \cup {p} |->
                    IF q = p THEN len ELSE granted[q]]
  <2>1. granted' = [q \in DOMAIN live' |-> granted'[q]]
    BY DEF granted
  <2>2. QED
    BY <2>1, <1>1, <1>6
<1>8. ASSUME NEW q \in DOMAIN granted
      PROVE  Abstract!Apart(p, len, q, granted[q])
  <2> DEFINE c == q - HDR
  <2>1. /\ q \in Nat /\ q # p /\ c \in DOMAIN heap'
        /\ granted[q] = heap'[c].size
    BY <1>1, <1>6, <1>8 DEF IInv, TypeOK
  <2>2. c # b /\ c \in Nat /\ q = c + HDR /\ heap'[c].size \in Nat
    BY <1>1, <1>2, <2>1, HeapAssumption DEF WellFormed, Block
  <2> HIDE DEF c
  <2>3. End(heap', b) <= c \/ End(heap', c) <= b
    BY <1>1, <1>3, <2>1, <2>2, HeldApart
  <2>4. p + len + HDR <= q \/ q + granted[q] + HDR <= p
    BY <2>1, <2>2, <2>3, <1>1, <1>4, HeapAssumption DEF End
  <2>5. QED
    BY <2>4 DEF Abstract!Apart
<1>9. p \in DOMAIN granted' \ DOMAIN granted
  BY <1>1, <1>6
<1>10. QED
  <2> HIDE DEF p, len
  <2>1. /\ HEAP_START + HDR <= p /\ len \in Nat /\ p + len <= HeapEnd
        /\ \A q \in DOMAIN granted : Abstract!Apart(p, len, q, granted[q])
        /\ granted'[p] = len
    BY <1>4, <1>5, <1>6, <1>8
  <2>2. QED
    BY <2>1, <1>7, <1>9 DEF Abstract!Alloc

\* A refused request changes no grant.
LEMMA RefuseRefines ==
  ASSUME IInv, NEW n \in Nat, Refuse(n)
  PROVE  granted' = granted
BY RefuseStep DEF granted

\* kfree gives back one grant.
LEMMA KfreeRefines ==
  ASSUME IInv, NEW p \in DOMAIN live, Kfree(p)
  PROVE  Abstract!Free
<1>1. /\ DOMAIN live' = DOMAIN live \ {p}
      /\ \A q \in DOMAIN live' : heap'[q - HDR] = heap[q - HDR]
  BY KfreeStep
<1>2. granted' = [q \in DOMAIN granted \ {p} |-> granted[q]]
  BY <1>1 DEF granted
<1>3. p \in DOMAIN granted
  BY DEF granted
<1>4. QED
  BY <1>2, <1>3 DEF Abstract!Free

LEMMA StepRefines == IInv /\ [Next]_vars => [Abstract!Next]_granted
<1> SUFFICES ASSUME IInv, [Next]_vars
             PROVE  Abstract!Next \/ UNCHANGED granted
  OBVIOUS
<1>1. ASSUME NEW n \in Sizes, Kmalloc(n)
      PROVE  Abstract!Next \/ UNCHANGED granted
  <2>1. n \in Nat
    BY HeapAssumption
  <2>2. (\E b \in DOMAIN Arena : Grant(n, n, b)) \/ Refuse(n)
    BY <1>1 DEF Kmalloc
  <2>3. QED
    BY <2>1, <2>2, GrantRefines, RefuseRefines DEF Abstract!Next
<1>2. ASSUME NEW num \in Counts, NEW size \in Sizes, Kcalloc(num, size)
      PROVE  Abstract!Next \/ UNCHANGED granted
  <2> DEFINE asked == num * size
             n == asked % SIZE_MOD
  <2>1. asked \in Nat /\ n \in Nat /\ (NoWrap(asked) => n = asked)
    BY ProductType
  <2>2. (\E b \in DOMAIN Arena : Grant(asked, n, b)) \/ Refuse(n)
    BY <1>2 DEF Kcalloc
  <2> HIDE DEF n, asked
  <2>3. QED
    BY <2>1, <2>2, GrantRefines, RefuseRefines DEF Abstract!Next
<1>3. ASSUME NEW p \in DOMAIN live, Kfree(p)
      PROVE  Abstract!Next \/ UNCHANGED granted
  BY <1>3, KfreeRefines DEF Abstract!Next
<1>4. CASE UNCHANGED vars
  BY <1>4 DEF vars, granted
<1>5. QED
  BY <1>1, <1>2, <1>3, <1>4 DEF Next, Alloc

\* The list of headers implements the abstract allocator: every grant lies
\* inside the arena, a header away from every other one, and stays put until
\* it is freed.
THEOREM Refinement == Spec => AllocatorSpec
<1>1. Init => Abstract!Init
  BY DEF Init, Abstract!Init, granted
<1>2. QED
  BY <1>1, StepRefines, IInvAlways, PTL DEF Spec, AllocatorSpec, Abstract!Spec

-----------------------------------------------------------------------------
(* Callers that free in reverse order.                                     *)

\* Their steps are steps of the heap, so the invariant holds for them too.
LEMMA LifoIInv == LifoSpec => []IInv
<1>1. [LifoNext]_vars => [Next]_vars
  BY DEF LifoNext, KfreeNewest, Next
<1>2. QED
  BY <1>1, IInvInit, IInvNext, PTL DEF LifoSpec

LEMMA GrantKeepsFreeAtEnd ==
  ASSUME IInv, FreeOnlyAtEnd, NEW asked \in Nat, NEW n \in Nat,
         NEW b \in DOMAIN Arena, Grant(asked, n, b)
  PROVE  FreeOnlyAtEnd'
<1> DEFINE r == RoundUp(n)
<1>1. \A c \in DOMAIN Arena : ~Arena[c].used => Arena[c].next = NULL
  BY DEF Arena, FreeOnlyAtEnd
<1>2. /\ WellFormed(Arena) /\ r \in Nat
      /\ ~Arena[b].used /\ Arena[b].size >= r /\ heap' = Take(Arena, b, r)
  BY ArenaWellFormed, RoundUpType DEF Grant, FirstFit, Fits
<1> HIDE DEF r
<1>3. /\ heap'[b].used
      /\ \A c \in DOMAIN Arena \ {b} : heap'[c] = Arena[c]
      /\ \A c \in DOMAIN heap' \ DOMAIN Arena : heap'[c].next = Arena[b].next
  BY <1>2, TakeWellFormed
<1>4. QED
  BY <1>1, <1>2, <1>3 DEF FreeOnlyAtEnd

LEMMA KfreeNewestKeepsFreeAtEnd ==
  ASSUME IInv, FreeOnlyAtEnd, KfreeNewest
  PROVE  FreeOnlyAtEnd'
<1>1. PICK p \in DOMAIN live : (\A q \in DOMAIN live : q <= p) /\ Kfree(p)
  BY DEF KfreeNewest
<1> DEFINE b == p - HDR
           n == heap[b].next
<1>2. /\ p \in Nat /\ b \in DOMAIN heap /\ heap' = Release(heap, b)
      /\ WellFormed(heap) /\ p = b + HDR
  BY <1>1, HeapAssumption
  DEF IInv, TypeOK, UsedIsHeld, HeapTiled, WellFormed, Kfree
<1> HIDE DEF b
<1>3. ASSUME n # NULL PROVE n \in DOMAIN heap /\ ~heap[n].used
  <2>1. n \in DOMAIN heap /\ n = End(heap, b) /\ heap[b].size \in Nat /\ b \in Nat
    BY <1>2, <1>3 DEF WellFormed, Tiled, Block
  <2>2. n + HDR > p
    BY <1>2, <2>1, HeapAssumption DEF End
  <2>3. n + HDR \notin DOMAIN live
    <3>1. DOMAIN live \subseteq Nat
      BY DEF IInv, TypeOK
    <3>2. QED
      BY <1>1, <1>2, <2>2, <3>1
  <2>4. QED
    BY <2>1, <2>3 DEF IInv, UsedIsHeld
<1>4. heap'[b].next = NULL
  <2>1. CASE n = NULL
    <3>1. heap' = [heap EXCEPT ![b].used = FALSE]
      BY <2>1, <1>2 DEF Release
    <3>2. QED
      BY <3>1, <2>1, <1>2 DEF WellFormed, Block
  <2>2. CASE n # NULL
    <3>1. heap[n].next = NULL /\ n # b
      BY <1>2, <1>3, <2>2, HeapAssumption
      DEF FreeOnlyAtEnd, WellFormed, Tiled, End, Block
    <3>2. QED
      BY <3>1, <2>2, <1>2, <1>3 DEF Release
  <2>3. QED
    BY <2>1, <2>2
<1>5. \A c \in DOMAIN heap' \ {b} : c \in DOMAIN heap /\ heap'[c] = heap[c]
  BY <1>2, ReleaseWellFormed
<1>6. QED
  BY <1>4, <1>5 DEF FreeOnlyAtEnd

\* As long as the newest allocation is freed first, all free memory is in
\* the last block, although kfree merges only forward.
THEOREM LifoCoalesces == LifoSpec => []FreeOnlyAtEnd
<1>1. Init => FreeOnlyAtEnd
  BY DEF Init, FreeOnlyAtEnd
<1>2. IInv /\ FreeOnlyAtEnd /\ [LifoNext]_vars => FreeOnlyAtEnd'
  <2> SUFFICES ASSUME IInv, FreeOnlyAtEnd, [LifoNext]_vars
               PROVE  FreeOnlyAtEnd'
    OBVIOUS
  <2>1. ASSUME NEW n \in Nat, Refuse(n) PROVE FreeOnlyAtEnd'
    BY <2>1 DEF Refuse, Arena, FreeOnlyAtEnd
  <2>2. ASSUME NEW n \in Sizes, Kmalloc(n) PROVE FreeOnlyAtEnd'
    <3>1. n \in Nat /\ ((\E b \in DOMAIN Arena : Grant(n, n, b)) \/ Refuse(n))
      BY <2>2, HeapAssumption DEF Kmalloc
    <3>2. QED
      BY <3>1, <2>1, GrantKeepsFreeAtEnd
  <2>3. ASSUME NEW num \in Counts, NEW size \in Sizes, Kcalloc(num, size)
        PROVE  FreeOnlyAtEnd'
    <3> DEFINE asked == num * size
               n == asked % SIZE_MOD
    <3>1. /\ asked \in Nat /\ n \in Nat
          /\ (\E b \in DOMAIN Arena : Grant(asked, n, b)) \/ Refuse(n)
      BY <2>3, ProductType DEF Kcalloc
    <3> HIDE DEF n, asked
    <3>2. QED
      BY <3>1, <2>1, GrantKeepsFreeAtEnd
  <2>4. CASE KfreeNewest
    BY <2>4, KfreeNewestKeepsFreeAtEnd
  <2>5. CASE UNCHANGED vars
    BY <2>5 DEF vars, FreeOnlyAtEnd
  <2>6. QED
    BY <2>2, <2>3, <2>4, <2>5 DEF LifoNext, Alloc
<1>3. QED
  BY <1>1, <1>2, LifoIInv, PTL DEF LifoSpec

\* Once callers that free in reverse order have freed everything, the heap is
\* again the one block that the first kmalloc made of the arena.
THEOREM LifoRestores == LifoSpec => []AllComesBack
<1>1. ASSUME IInv, FreeOnlyAtEnd, DOMAIN live = {}, DOMAIN heap # {}
      PROVE  heap = [a \in {HEAP_START} |->
                       [size |-> HEAP_SIZE, used |-> FALSE, next |-> NULL]]
  <2>1. Tiled(heap) /\ TypeOK /\ UsedIsHeld
    BY <1>1 DEF IInv, HeapTiled
  <2>2. \A b \in DOMAIN heap : ~heap[b].used /\ heap[b].next = NULL
    <3>1. \A b \in DOMAIN heap : ~heap[b].used
      BY <1>1, <2>1 DEF UsedIsHeld, TypeOK, Block
    <3>2. QED
      BY <1>1, <3>1 DEF FreeOnlyAtEnd
  <2>3. \A b \in DOMAIN heap : /\ b \in Nat /\ heap[b].size \in Nat
                              /\ b + HDR + heap[b].size = HEAP_START + HDR + HEAP_SIZE
                              /\ HEAP_START <= b
    BY <2>1, <2>2 DEF TypeOK, Block, Tiled, End, HeapEnd
  <2>4. \A b \in DOMAIN heap : b = HEAP_START
    <3> SUFFICES ASSUME NEW b \in DOMAIN heap, b # HEAP_START PROVE FALSE
      OBVIOUS
    <3>1. HEAP_START \in DOMAIN heap /\ HEAP_START < b
      BY <2>1, <2>3, HeapAssumption DEF Tiled
    <3>2. HEAP_START + HDR + heap[HEAP_START].size <= b
      BY <2>1, <3>1 DEF Tiled, End
    <3>3. QED
      BY <2>3, <3>1, <3>2, HeapAssumption
  <2>5. DOMAIN heap = {HEAP_START}
    BY <2>1, <2>4 DEF Tiled
  <2>6. heap[HEAP_START].size = HEAP_SIZE
    BY <2>3, <2>5, HeapAssumption
  <2>7. /\ heap \in [{HEAP_START} -> Block]
        /\ heap[HEAP_START] = [size |-> HEAP_SIZE, used |-> FALSE, next |-> NULL]
    BY <2>1, <2>2, <2>5, <2>6 DEF TypeOK, Block
  <2>8. QED
    BY <2>7
<1>2. IInv /\ FreeOnlyAtEnd => AllComesBack
  BY <1>1 DEF AllComesBack
<1>3. QED
  BY <1>2, LifoIInv, LifoCoalesces, PTL
=============================================================================
