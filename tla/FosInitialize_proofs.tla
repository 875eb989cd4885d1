------------------------ MODULE FosInitialize_proofs ------------------------
(***************************************************************************)
(* Proofs about the boot of the kernel, for every memory size, kernel end,  *)
(* layout and old contents of memory that BootAssumption admits.            *)
(*                                                                          *)
(* BootInv is the invariant of the boot code.  It says where the boot       *)
(* allocations are (Placed: in pages of their own, behind the kernel;       *)
(* Covered: no page between them is left out), that every page table is one *)
(* of those pages (Tables), which pages have been mapped so far, to what    *)
(* (Progress, by pc and the loop variable i), and at the end what the free  *)
(* list holds (Listed).  AllocationsDisjoint, BootAssertsHold and HandOver  *)
(* follow from it; none of them is inductive.                               *)
(*                                                                          *)
(* CheckInv is the invariant of page_check: before each group of its        *)
(* statements, the counts of its three frames, the entries of the page      *)
(* table it made, and the free list are known (View), and all other counts  *)
(* are as they were.  It starts from HandOver, so the asserts of page_check *)
(* are proved of the memory that the boot code really leaves.               *)
(***************************************************************************)
EXTENDS FosInitialize, SequenceTheorems, FiniteSetTheorems, TLAPS

P == PAGE_SIZE

-----------------------------------------------------------------------------
\* The invariant of the boot code, in parts that speak of single fields.

Boots ==
    [end_of_kernel : KernelEnds, extended : ExtendedSizes,
     maxpa : Nat, number_of_frames : Nat, ptr_free_mem : Nat,
     allocated : SUBSET (Nat \X Nat),
     frames_info : Nat, envs : Nat, ptr_page_directory : Nat,
     directory : [Indices -> Int],
     table : [Frames -> [Slots -> Int \cup Garbage]],
     references : [Frames -> Int], free_frame_list : Seq(Int)]

\* The allocations A lie between the kernel, which ends at end, and top, start
\* on a page, do not overlap, and leave no frame out.
Placed(end, top, A) ==
    /\ top = 0 => A = {}
    /\ top # 0 => top >= ROUNDUP(end)
    /\ \A a \in A : /\ a[1] % P = 0 /\ a[2] > 0
                    /\ a[1] >= ROUNDUP(end) /\ a[1] + a[2] <= top
    /\ \A a, b \in A :
        a # b => (a[1] + a[2] <= b[1] \/ b[1] + b[2] <= a[1])

Covered(end, top, A) ==
    top # 0 => \A f \in FrameOf(ROUNDUP(end)) .. FrameOf(ROUNDUP(top)) - 1 :
        \E a \in A : f \in FramesOf(a[1], a[2])

\* The part of the directory that has page tables.
Own == Indices \ {PDX_VPT, PDX_UVPT}
KernelPart ==
    {PDX_VPT, PDX_UVPT, PDX_STACK, PDX_UENVS, PDX_FRAMES_INFO}
        \cup PDX_KERNEL_BASE .. NPDENTRIES - 1

OnlyKernel(dir) == \A d \in Indices : dir[d] # NONE => d \in KernelPart

\* Every page table is a frame of its own below top.
Tables(dir, top) ==
    \A d \in Own : dir[d] # NONE =>
        /\ dir[d] > 0
        /\ (dir[d] + 1) * P <= top
        /\ \A e \in Own : dir[e] = dir[d] => e = d

\* page is mapped to frame, if its table lies in memory.
Mapped(t, page, frame) ==
    LET tab == t.directory[PDX(page)]
    IN  /\ PDX(page) \in Own /\ tab # NONE
        /\ IsMemory(t, tab) => t.table[tab][PTX(page)] = frame

RangeMapped(t, n, page, frame) ==
    \A k \in 0 .. n - 1 : Mapped(t, page + k, frame + k)

\* The mappings of all pages but one stay.
Keeps(t, v, page) ==
    \A q, g \in Nat : q # page /\ Mapped(t, q, g) => Mapped(v, q, g)

\* At most the empty directory entry d0 has changed.
OnlyFills(t, v, d0) ==
    \A d \in Indices : d # d0 \/ t.directory[d] # NONE
        => v.directory[d] = t.directory[d]

\* What the boot functions leave alone.
SameMachine(t, u) ==
    /\ u.end_of_kernel = t.end_of_kernel /\ u.extended = t.extended
    /\ u.maxpa = t.maxpa /\ u.number_of_frames = t.number_of_frames
    /\ u.frames_info = t.frames_info /\ u.envs = t.envs
    /\ u.references = t.references

\* A frame that memory does not have never counts as free.
Beyond(t) == \A f \in Frames : t.references[f] = 0 => IsMemory(t, f)

Sound(t) ==
    /\ t \in Boots /\ Beyond(t)
    /\ Placed(t.end_of_kernel, t.ptr_free_mem, t.allocated)
    /\ Covered(t.end_of_kernel, t.ptr_free_mem, t.allocated)
    /\ OnlyKernel(t.directory)

-----------------------------------------------------------------------------
\* The sizes of memory are numbers.
LEMMA MemorySizes ==
    /\ KernelEnds \subseteq Nat /\ ExtendedSizes \subseteq Nat
    /\ PHYS_EXTENDED_MEM \in Nat
BY BootAssumption

\* Quotient and remainder.
LEMMA DivMod ==
    ASSUME NEW a \in Nat, NEW p \in Nat, p > 0
    PROVE  /\ a = (a \div p) * p + (a % p)
           /\ a % p \in 0 .. p - 1 /\ a \div p \in Nat
<1>1. a % p \in 0 .. p - 1 OBVIOUS
<1>2. a \div p \in Int OBVIOUS
<1>3. a = (a \div p) * p + (a % p) OBVIOUS
<1>4. a \div p >= 0
  <2> SUFFICES ASSUME a \div p <= -1 PROVE FALSE BY <1>2
  <2>1. (a \div p) * p <= -p BY <1>2
  <2> QED BY <2>1, <1>1, <1>3, <1>2
<1> QED BY <1>1, <1>2, <1>3, <1>4

\* Rounding and dividing by the page size.
LEMMA Rounding ==
    ASSUME NEW a \in Nat
    PROVE  /\ ROUNDUP(a) \in Nat /\ ROUNDUP(a) % P = 0
           /\ a <= ROUNDUP(a) /\ ROUNDUP(a) < a + P
           /\ FrameOf(a) \in Nat /\ FrameOf(a) * P <= a /\ a < FrameOf(a) * P + P
           /\ a % P = 0 => ROUNDUP(a) = a /\ FrameOf(a) * P = a
<1>1. P \in Nat /\ P > 1 BY BootAssumption DEF P
<1>2. a + P - 1 = ((a + P - 1) \div P) * P + ((a + P - 1) % P)
      /\ (a + P - 1) % P \in 0 .. P - 1 /\ (a + P - 1) \div P \in Nat
  <2>1. a + P - 1 \in Nat BY <1>1
  <2> QED BY <2>1, <1>1, DivMod
<1>3. a = (a \div P) * P + (a % P) /\ a % P \in 0 .. P - 1 /\ a \div P \in Nat
  BY <1>1, DivMod
<1>4. ROUNDUP(a) = ((a + P - 1) \div P) * P
  BY <1>1, <1>2 DEF ROUNDUP, ROUNDDOWN, P
<1>5. ROUNDUP(a) \in Nat /\ a <= ROUNDUP(a) /\ ROUNDUP(a) < a + P
  BY <1>1, <1>2, <1>4
<1>6. ROUNDUP(a) % P = 0
  BY <1>1, <1>2, <1>4
<1>7. a % P = 0 => ROUNDUP(a) = a
  <2> SUFFICES ASSUME a % P = 0 PROVE ROUNDUP(a) = a OBVIOUS
  <2>1. a = (a \div P) * P BY <1>1, <1>3
  <2> DEFINE x == a \div P
             y == (a + P - 1) \div P
  <2>2. y * P < x * P + P /\ x * P <= y * P /\ x \in Nat /\ y \in Nat
    BY <2>1, <1>5, <1>4, <1>2, <1>3
  <2> HIDE DEF x, y
  <2>3. x = y BY <2>2, <1>1
  <2> QED BY <2>1, <2>3, <1>4 DEF x, y
<1> QED BY <1>1, <1>3, <1>5, <1>6, <1>7 DEF FrameOf, P

\* A frame lies below an aligned address or not, all of it.
LEMMA FrameBelow ==
    ASSUME NEW f \in Int, NEW a \in Nat, a % P = 0
    PROVE  /\ f < FrameOf(a) <=> f * P < a
           /\ f < FrameOf(a) <=> f * P + P <= a
<1>1. P \in Nat /\ P > 1 BY BootAssumption DEF P
<1>2. FrameOf(a) * P = a /\ FrameOf(a) \in Nat BY Rounding
<1> QED BY <1>1, <1>2

\* boot_allocate_space hands out pages behind everything that is in use.
LEMMA AllocateFields ==
    ASSUME NEW t \in Boots, NEW size \in Nat \ {0}, NEW u, NEW at,
           u = boot_allocate_space(t, size).state,
           at = boot_allocate_space(t, size).at,
           Placed(t.end_of_kernel, t.ptr_free_mem, t.allocated)
    PROVE  /\ u \in Boots /\ SameMachine(t, u)
           /\ at \in Nat /\ at % P = 0 /\ at >= ROUNDUP(t.end_of_kernel)
           /\ at >= t.ptr_free_mem
           /\ at = ROUNDUP(IF t.ptr_free_mem = 0 THEN t.end_of_kernel
                           ELSE t.ptr_free_mem)
           /\ u.ptr_free_mem = at + size
           /\ u.allocated = t.allocated \cup {<<at, size>>}
           /\ u.directory = t.directory /\ u.table = t.table
<1> DEFINE b == IF t.ptr_free_mem = 0 THEN t.end_of_kernel ELSE t.ptr_free_mem
<1>1. t.end_of_kernel \in Nat /\ t.ptr_free_mem \in Nat
  BY BootAssumption DEF Boots
<1>2. at = ROUNDUP(b)
      /\ u = [t EXCEPT !.ptr_free_mem = at + size,
                       !.allocated = @ \cup {<<at, size>>}]
  BY DEF boot_allocate_space
<1>3. b \in Nat BY <1>1
<1>4. at \in Nat /\ at % P = 0 /\ at >= b BY <1>2, <1>3, Rounding
<1>5. at >= ROUNDUP(t.end_of_kernel)
  <2>1. CASE t.ptr_free_mem = 0 BY <2>1, <1>2, <1>4
  <2>2. CASE t.ptr_free_mem # 0
    <3>1. t.ptr_free_mem >= ROUNDUP(t.end_of_kernel) BY <2>2 DEF Placed
    <3>2. ROUNDUP(t.end_of_kernel) \in Nat BY <1>1, Rounding
    <3> QED BY <3>1, <3>2, <2>2, <1>1, <1>4
  <2> QED BY <2>1, <2>2
<1>6. at >= t.ptr_free_mem BY <1>1, <1>4
<1>7. u \in Boots
  <2>1. at + size \in Nat /\ t.allocated \cup {<<at, size>>} \in SUBSET (Nat \X Nat)
    BY <1>4 DEF Boots
  <2> QED BY <1>2, <2>1 DEF Boots
<1>8. /\ u.ptr_free_mem = at + size
      /\ u.allocated = t.allocated \cup {<<at, size>>}
      /\ u.directory = t.directory /\ u.table = t.table /\ SameMachine(t, u)
  BY <1>2 DEF Boots, SameMachine
<1> QED BY <1>2, <1>4, <1>5, <1>6, <1>7, <1>8

\* The allocation lies apart from the earlier ones.
LEMMA AllocatePlaced ==
    ASSUME NEW end \in Nat, NEW top \in Nat, NEW A \in SUBSET (Nat \X Nat),
           Placed(end, top, A), NEW at \in Nat, NEW size \in Nat \ {0},
           at % P = 0, at >= top, at >= ROUNDUP(end)
    PROVE  Placed(end, at + size, A \cup {<<at, size>>})
<1> DEFINE n == <<at, size>>
           B == A \cup {n}
<1>0. ROUNDUP(end) \in Nat BY Rounding
<1>1. n[1] = at /\ n[2] = size OBVIOUS
<1>2. \A a \in A : a[1] \in Nat /\ a[2] \in Nat OBVIOUS
<1>3. \A a \in A : a[1] % P = 0 /\ a[2] > 0 /\ a[1] >= ROUNDUP(end)
                   /\ a[1] + a[2] <= top
  BY DEF Placed
<1> HIDE DEF n
<1>4. ASSUME NEW a \in B
      PROVE  a[1] % P = 0 /\ a[2] > 0 /\ a[1] >= ROUNDUP(end)
             /\ a[1] + a[2] <= at + size
  <2>1. CASE a = n BY <2>1, <1>1, <1>0
  <2>2. CASE a \in A BY <2>2, <1>2, <1>3
  <2> QED BY <2>1, <2>2
<1>5. ASSUME NEW a \in B, NEW b \in B, a # b
      PROVE  a[1] + a[2] <= b[1] \/ b[1] + b[2] <= a[1]
  <2>1. CASE a = n /\ b \in A
    <3>1. b[1] + b[2] <= top /\ b[1] \in Nat /\ b[2] \in Nat BY <2>1, <1>2, <1>3
    <3>2. b[1] + b[2] <= at BY <3>1
    <3> QED BY <3>2, <2>1, <1>1
  <2>2. CASE b = n /\ a \in A
    <3>1. a[1] + a[2] <= top /\ a[1] \in Nat /\ a[2] \in Nat BY <2>2, <1>2, <1>3
    <3>2. a[1] + a[2] <= at BY <3>1
    <3> QED BY <3>2, <2>2, <1>1
  <2>3. CASE a \in A /\ b \in A BY <2>3, <1>5 DEF Placed
  <2> QED BY <2>1, <2>2, <2>3, <1>5
<1>6. at + size # 0 /\ at + size >= ROUNDUP(end) BY <1>0
<1> QED BY <1>4, <1>5, <1>6 DEF Placed, n

\* No frame between the earlier allocations and this one is left out.
LEMMA AllocateCovered ==
    ASSUME NEW end \in Nat, NEW top \in Nat, NEW A \in SUBSET (Nat \X Nat),
           Covered(end, top, A), NEW at \in Nat, NEW size \in Nat \ {0},
           at = ROUNDUP(IF top = 0 THEN end ELSE top)
    PROVE  Covered(end, at + size, A \cup {<<at, size>>})
<1> DEFINE n == <<at, size>>
<1>1. P \in Nat /\ P > 1 BY BootAssumption DEF P
<1>2. n[1] = at /\ n[2] = size OBVIOUS
<1>3. at % P = 0 BY Rounding
<1> SUFFICES ASSUME NEW f \in FrameOf(ROUNDUP(end)) .. FrameOf(ROUNDUP(at + size)) - 1
             PROVE  \E a \in A \cup {n} : f \in FramesOf(a[1], a[2])
  BY DEF Covered
<1>4. ROUNDUP(end) \in Nat /\ ROUNDUP(end) % P = 0 /\ ROUNDUP(at + size) \in Nat
      /\ ROUNDUP(at + size) % P = 0 /\ ROUNDUP(at + size) < at + size + P
  BY Rounding
<1>5. f \in Int BY <1>4, Rounding
<1>6. CASE f < FrameOf(at)
  <2>1. CASE top = 0
    <3>1. at = ROUNDUP(end) BY <2>1
    <3>2. FrameOf(at) \in Nat BY <1>4, Rounding
    <3> QED BY <3>1, <3>2, <1>6
  <2>2. CASE top # 0
    <3>1. at = ROUNDUP(top) BY <2>2
    <3>2. FrameOf(ROUNDUP(end)) \in Nat /\ FrameOf(at) \in Nat BY <1>4, Rounding
    <3>3. f \in FrameOf(ROUNDUP(end)) .. FrameOf(ROUNDUP(top)) - 1
      BY <3>1, <3>2, <1>6, <1>5
    <3> QED BY <3>3, <2>2 DEF Covered
  <2> QED BY <2>1, <2>2
<1>7. CASE f >= FrameOf(at)
  <2>1. FrameOf(ROUNDUP(at + size)) \in Nat BY <1>4, Rounding
  <2>2. f * P < ROUNDUP(at + size)
    <3>1. f < FrameOf(ROUNDUP(at + size)) BY <2>1, <1>5
    <3> QED BY <3>1, FrameBelow, <1>4, <1>5
  <2>3. FrameOf(at) \in Nat /\ FrameOf(at + size - 1) \in Nat
        /\ FrameOf(at + size - 1) * P <= at + size - 1
        /\ at + size - 1 < FrameOf(at + size - 1) * P + P
    BY Rounding
  <2>4. f * P < at + size
    <3>1. FrameOf(ROUNDUP(at + size)) * P = ROUNDUP(at + size) BY <1>4, Rounding
    <3>2. f + 1 <= FrameOf(ROUNDUP(at + size)) BY <2>1, <1>5
    <3>3. f * P + P <= ROUNDUP(at + size) BY <3>1, <3>2, <2>1, <1>1, <1>5
    <3> QED BY <3>3, <1>4, <1>1, <1>5
  <2>5. f <= FrameOf(at + size - 1)
    <3> SUFFICES ASSUME f >= FrameOf(at + size - 1) + 1 PROVE FALSE
      BY <2>3, <1>5
    <3>1. f * P >= FrameOf(at + size - 1) * P + P BY <2>3, <1>1, <1>5
    <3> QED BY <3>1, <2>3, <2>4, <1>1, <1>5
  <2>6. f \in FramesOf(n[1], n[2]) BY <2>5, <2>3, <1>2, <1>5, <1>7 DEF FramesOf
  <2> QED BY <2>6
<1> QED BY <1>5, <1>6, <1>7, <1>4, Rounding

-----------------------------------------------------------------------------
\* Page tables.

\* A virtual page is its two indices.
LEMMA PageIndex ==
    ASSUME NEW page \in Nat
    PROVE  /\ PDX(page) \in Nat /\ PTX(page) \in Slots
           /\ page = PDX(page) * NPTENTRIES + PTX(page)
<1>1. NPTENTRIES \in Nat /\ NPTENTRIES > 0 BY BootAssumption
<1> QED BY <1>1, DivMod DEF PDX, PTX, Slots

\* The k-th page of directory entry d.
LEMMA PageInTable ==
    ASSUME NEW d \in Nat, NEW k \in Nat, k < NPTENTRIES
    PROVE  /\ PageAt(d) + k \in Nat
           /\ PDX(PageAt(d) + k) = d /\ PTX(PageAt(d) + k) = k
<1>1. NPTENTRIES \in Nat /\ NPTENTRIES > 0 BY BootAssumption
<1>2. PageAt(d) + k = d * NPTENTRIES + k /\ PageAt(d) + k \in Nat
  BY <1>1 DEF PageAt
<1> DEFINE q == PDX(PageAt(d) + k)
           r == PTX(PageAt(d) + k)
<1>3. q \in Nat /\ r \in 0 .. NPTENTRIES - 1
      /\ d * NPTENTRIES + k = q * NPTENTRIES + r
  BY <1>2, PageIndex DEF Slots
<1> HIDE DEF q, r
<1>4. q = d
  <2>1. ~(q >= d + 1)
    <3> SUFFICES ASSUME q >= d + 1 PROVE FALSE OBVIOUS
    <3>1. q * NPTENTRIES >= d * NPTENTRIES + NPTENTRIES BY <1>1, <1>3
    <3> QED BY <3>1, <1>1, <1>3
  <2>2. ~(d >= q + 1)
    <3> SUFFICES ASSUME d >= q + 1 PROVE FALSE OBVIOUS
    <3>1. d * NPTENTRIES >= q * NPTENTRIES + NPTENTRIES BY <1>1, <1>3
    <3> QED BY <3>1, <1>1, <1>3
  <2> QED BY <2>1, <2>2, <1>3
<1>5. r = k BY <1>1, <1>3, <1>4
<1> QED BY <1>2, <1>4, <1>5 DEF q, r

\* The page table of a page, created if need be, is one of its own.
LEMMA GetTableGood ==
    ASSUME NEW t, Sound(t), Tables(t.directory, t.ptr_free_mem),
           t.ptr_free_mem # 0,
           NEW page \in Nat, PDX(page) \in Own, PDX(page) \in KernelPart,
           NEW u, u = boot_get_page_table(t, page)
    PROVE  /\ Sound(u) /\ Tables(u.directory, u.ptr_free_mem)
           /\ SameMachine(t, u) /\ u.ptr_free_mem # 0 /\ u.table = t.table
           /\ u.directory[PDX(page)] # NONE
           /\ OnlyFills(t, u, PDX(page))
<1> DEFINE p == PDX(page)
           a == boot_allocate_space(t, PAGE_SIZE)
<1>0. t \in Boots /\ p \in Own /\ p \in Indices /\ P \in Nat /\ P > 1
  BY BootAssumption DEF Sound, Own, P
<1>1. CASE t.directory[p] # NONE
  <2>1. t.directory[p] # 0 BY <1>0, <1>1 DEF Tables
  <2>2. u = t BY <1>1, <2>1 DEF boot_get_page_table
  <2> QED BY <2>2, <1>1 DEF SameMachine, OnlyFills
<1>2. CASE t.directory[p] = NONE
  <2>1. u = [a.state EXCEPT !.directory[p] = FrameOf(a.at)]
    BY <1>2 DEF boot_get_page_table
  <2>2. PICK v, at : v = a.state /\ at = a.at OBVIOUS
  <2> HIDE DEF a, p
  <2>3. PAGE_SIZE \in Nat \ {0} BY BootAssumption
  <2>4. Placed(t.end_of_kernel, t.ptr_free_mem, t.allocated)
        /\ Covered(t.end_of_kernel, t.ptr_free_mem, t.allocated)
        /\ OnlyKernel(t.directory)
    BY DEF Sound
  <2>5. /\ v \in Boots /\ SameMachine(t, v)
        /\ at \in Nat /\ at % P = 0 /\ at >= ROUNDUP(t.end_of_kernel)
        /\ at >= t.ptr_free_mem
        /\ at = ROUNDUP(IF t.ptr_free_mem = 0 THEN t.end_of_kernel
                        ELSE t.ptr_free_mem)
        /\ v.ptr_free_mem = at + PAGE_SIZE
        /\ v.allocated = t.allocated \cup {<<at, PAGE_SIZE>>}
        /\ v.directory = t.directory /\ v.table = t.table
    BY <1>0, <2>2, <2>3, <2>4, AllocateFields DEF a
  <2>6. t.end_of_kernel \in Nat /\ t.ptr_free_mem \in Nat
        /\ t.allocated \in SUBSET (Nat \X Nat)
        /\ t.directory \in [Indices -> Int]
    BY <1>0, BootAssumption DEF Boots
  <2>7. Placed(t.end_of_kernel, at + PAGE_SIZE,
               t.allocated \cup {<<at, PAGE_SIZE>>})
    BY <2>3, <2>4, <2>5, <2>6, AllocatePlaced
  <2>8. Covered(t.end_of_kernel, at + PAGE_SIZE,
                t.allocated \cup {<<at, PAGE_SIZE>>})
    BY <2>3, <2>4, <2>5, <2>6, AllocateCovered
  <2>9. FrameOf(at) \in Nat /\ FrameOf(at) * P = at BY <2>5, Rounding
  <2>10. u = [v EXCEPT !.directory = [t.directory EXCEPT ![p] = FrameOf(at)]]
    <3>1. u = [v EXCEPT !.directory[p] = FrameOf(at)] BY <2>1, <2>2, Zenon
    <3>2. u = [v EXCEPT !.directory = [v.directory EXCEPT ![p] = FrameOf(at)]]
      BY <3>1, Zenon
    <3>3. v.directory = t.directory BY <2>5
    <3> QED BY <3>2, <3>3
  <2>11. [t.directory EXCEPT ![p] = FrameOf(at)] \in [Indices -> Int]
    <3>1. FrameOf(at) \in Int BY <2>9
    <3> QED BY <3>1, <2>6, Zenon
  <2>12. /\ u \in Boots /\ SameMachine(t, u) /\ u.table = t.table
         /\ u.ptr_free_mem = at + PAGE_SIZE
         /\ u.allocated = t.allocated \cup {<<at, PAGE_SIZE>>}
         /\ u.directory = [t.directory EXCEPT ![p] = FrameOf(at)]
    BY <2>5, <2>10, <2>11 DEF Boots, SameMachine
  <2>13. at >= 1 BY <2>5, <2>6
  <2>14. FrameOf(at) > 0 BY <2>9, <2>13, <1>0
  <2>15. FrameOf(at) # NONE BY <2>9 DEF NONE
  <2>16. Tables(u.directory, u.ptr_free_mem)
    <3> SUFFICES ASSUME NEW d \in Own, u.directory[d] # NONE
                 PROVE  /\ u.directory[d] > 0
                        /\ (u.directory[d] + 1) * P <= u.ptr_free_mem
                        /\ \A e \in Own : u.directory[e] = u.directory[d] => e = d
      BY DEF Tables
    <3>0. \A e \in Own : e \in Indices BY DEF Own
    <3>1. ASSUME NEW e \in Own, e # p, u.directory[e] # NONE
          PROVE  /\ u.directory[e] = t.directory[e] /\ t.directory[e] \in Int
                 /\ t.directory[e] > 0 /\ (t.directory[e] + 1) * P <= t.ptr_free_mem
                 /\ t.directory[e] # FrameOf(at)
                 /\ (t.directory[e] + 1) * P <= u.ptr_free_mem
      <4>1. u.directory[e] = t.directory[e] /\ t.directory[e] \in Int
        BY <3>0, <3>1, <2>12, <2>6
      <4>2. t.directory[e] > 0 /\ (t.directory[e] + 1) * P <= t.ptr_free_mem
        BY <3>1, <4>1 DEF Tables
      <4>3. (t.directory[e] + 1) * P <= at BY <4>1, <4>2, <2>5, <2>6, <1>0
      <4>4. t.directory[e] # FrameOf(at) BY <4>1, <4>3, <2>9, <1>0
      <4>5. (t.directory[e] + 1) * P <= u.ptr_free_mem
        BY <4>1, <4>3, <2>12, <2>5, <2>3, <1>0
      <4> QED BY <4>1, <4>2, <4>4, <4>5
    <3>2. u.directory[p] = FrameOf(at) BY <2>12, <2>6, <1>0
    <3>3. CASE d = p
      <4>1. (u.directory[d] + 1) * P <= u.ptr_free_mem
        BY <3>2, <3>3, <2>9, <2>12, <1>0 DEF P
      <4>2. ASSUME NEW e \in Own, u.directory[e] = u.directory[d] PROVE e = d
        BY <3>1, <3>2, <3>3, <4>2, <2>15
      <4> QED BY <4>1, <4>2, <3>2, <3>3, <2>14
    <3>4. CASE d # p
      <4>1. ASSUME NEW e \in Own, u.directory[e] = u.directory[d] PROVE e = d
        <5>1. e # p BY <3>1, <3>2, <3>4, <4>1
        <5>2. t.directory[e] = t.directory[d] BY <5>1, <4>1, <3>1, <3>4
        <5> QED BY <5>2, <3>1, <3>4 DEF Tables
      <4> QED BY <4>1, <3>1, <3>4
    <3> QED BY <3>3, <3>4
  <2>17. OnlyKernel(u.directory)
    <3>1. p \in KernelPart BY DEF p
    <3> QED BY <3>1, <2>4, <2>12, <2>6 DEF OnlyKernel
  <2>18. Sound(u)
    <3>1. u.end_of_kernel = t.end_of_kernel BY <2>12 DEF SameMachine
    <3>2. Beyond(u) BY <2>12 DEF Sound, Beyond, IsMemory, SameMachine
    <3> QED BY <3>1, <3>2, <2>7, <2>8, <2>12, <2>17 DEF Sound
  <2>19. u.ptr_free_mem # 0 BY <2>12, <2>5, <2>3
  <2>20. u.directory[p] # NONE BY <2>12, <2>6, <1>0, <2>15
  <2>21. OnlyFills(t, u, p)
    BY <2>12, <2>6, <1>0, <1>2 DEF OnlyFills
  <2> QED BY <2>12, <2>16, <2>18, <2>19, <2>20, <2>21 DEF p
<1> QED BY <1>1, <1>2

\* A step of boot_map_range maps its page and leaves the others alone.
LEMMA MapPageGood ==
    ASSUME NEW t, Sound(t), Tables(t.directory, t.ptr_free_mem),
           t.ptr_free_mem # 0,
           NEW page \in Nat, PDX(page) \in Own, PDX(page) \in KernelPart,
           NEW frame \in Nat,
           NEW v, v = MapPage(t, page, frame)
    PROVE  /\ Sound(v) /\ Tables(v.directory, v.ptr_free_mem)
           /\ SameMachine(t, v) /\ v.ptr_free_mem # 0
           /\ v.directory[PDX(page)] # NONE
           /\ OnlyFills(t, v, PDX(page))
           /\ Mapped(v, page, frame)
           /\ Keeps(t, v, page)
<1> DEFINE p == PDX(page)
           w == boot_get_page_table(t, page)
<1>1. PICK u : u = w OBVIOUS
<1> HIDE DEF w
<1>2. /\ Sound(u) /\ Tables(u.directory, u.ptr_free_mem)
      /\ SameMachine(t, u) /\ u.ptr_free_mem # 0 /\ u.table = t.table
      /\ u.directory[p] # NONE
      /\ OnlyFills(t, u, p)
  BY <1>1, GetTableGood DEF w
<1>3. PICK tab : tab = u.directory[p] OBVIOUS
<1>4. v = IF IsMemory(u, tab) THEN [u EXCEPT !.table[tab][PTX(page)] = frame]
          ELSE u
  BY <1>1, <1>3 DEF MapPage, w
<1>5. PTX(page) \in Slots BY PageIndex
<1>6. p \in Own /\ p \in Indices /\ u \in Boots BY <1>2 DEF Own, Sound
<1>7. tab \in Int /\ tab > 0 /\ tab # NONE
  <2>1. u.directory \in [Indices -> Int] BY <1>6 DEF Boots
  <2> QED BY <2>1, <1>2, <1>3, <1>6 DEF Tables
<1>8. IsMemory(u, tab) => tab \in Frames
  <2>1. u.extended \in ExtendedSizes BY <1>6 DEF Boots
  <2>2. FrameOf(PHYS_EXTENDED_MEM + u.extended) <= NumFrames
    BY <2>1, BootAssumption
  <2>3. FrameOf(PHYS_EXTENDED_MEM + u.extended) \in Nat
    <3>1. u.extended \in Nat BY <2>1, MemorySizes, Zenon
    <3>2. PHYS_EXTENDED_MEM + u.extended \in Nat BY <3>1, MemorySizes
    <3> QED BY <3>2, Rounding
  <2>4. NumFrames \in Int BY BootAssumption DEF NumFrames
  <2> QED BY <2>2, <2>3, <2>4, <1>7 DEF IsMemory, Frames
<1>9. /\ v \in Boots /\ SameMachine(u, v)
      /\ v.directory = u.directory /\ v.ptr_free_mem = u.ptr_free_mem
      /\ v.allocated = u.allocated
      /\ v.table = IF IsMemory(u, tab)
                   THEN [u.table EXCEPT ![tab][PTX(page)] = frame] ELSE u.table
  <2>1. CASE ~IsMemory(u, tab) BY <2>1, <1>4, <1>6 DEF SameMachine
  <2>2. CASE IsMemory(u, tab)
    <3>1. v = [u EXCEPT !.table = [u.table EXCEPT ![tab][PTX(page)] = frame]]
      BY <1>4, <2>2, Zenon
    <3>2. u.table \in [Frames -> [Slots -> Int \cup Garbage]]
      BY <1>6 DEF Boots
    <3>3. [u.table EXCEPT ![tab][PTX(page)] = frame]
                \in [Frames -> [Slots -> Int \cup Garbage]]
      <4>1. u.table[tab] \in [Slots -> Int \cup Garbage]
        BY <3>2, <1>8, <2>2
      <4>2. [u.table[tab] EXCEPT ![PTX(page)] = frame]
                \in [Slots -> Int \cup Garbage]
        BY <4>1, <1>5
      <4>3. [u.table EXCEPT ![tab][PTX(page)] = frame]
            = [u.table EXCEPT ![tab] = [u.table[tab] EXCEPT ![PTX(page)] = frame]]
        BY Zenon
      <4> QED BY <3>2, <4>2, <4>3
    <3> QED BY <3>1, <3>3, <2>2, <1>6 DEF Boots, SameMachine
  <2> QED BY <2>1, <2>2
<1>10. Sound(v)
  BY <1>2, <1>9 DEF Sound, SameMachine, Beyond, IsMemory
<1>11. SameMachine(t, v) BY <1>2, <1>9 DEF SameMachine
<1>12. \A d \in Int, n \in Slots : IsMemory(u, d) /\ d >= 0 =>
            v.table[d][n] = IF d = tab /\ n = PTX(page) THEN frame
                            ELSE t.table[d][n]
  <2>1. CASE ~IsMemory(u, tab) BY <2>1, <1>2, <1>9
  <2>2. CASE IsMemory(u, tab)
    <3>1. v.table = [u.table EXCEPT ![tab][PTX(page)] = frame]
      BY <2>2, <1>9
    <3>2. u.table \in [Frames -> [Slots -> Int \cup Garbage]]
      BY <1>6 DEF Boots
    <3>3. u.table[tab] \in [Slots -> Int \cup Garbage] BY <3>2, <1>8, <2>2
    <3>4. v.table = [u.table EXCEPT ![tab] =
                        [u.table[tab] EXCEPT ![PTX(page)] = frame]]
      BY <3>1, Zenon
    <3> QED BY <3>2, <3>3, <3>4, <1>2, <1>8, <2>2
  <2> QED BY <2>1, <2>2
<1>13. \A d : IsMemory(v, d) <=> IsMemory(u, d)
  BY <1>9 DEF IsMemory, SameMachine
<1>14. Mapped(v, page, frame)
  <2>1. v.directory[p] = tab BY <1>3, <1>9
  <2>2. IsMemory(v, tab) => v.table[tab][PTX(page)] = frame
    BY <1>12, <1>13, <1>5, <1>7
  <2> QED BY <2>1, <2>2, <1>6, <1>7 DEF Mapped
<1>15. ASSUME NEW q \in Nat, NEW g \in Nat, q # page, Mapped(t, q, g)
       PROVE  Mapped(v, q, g)
  <2>1. PICK e : e = PDX(q) OBVIOUS
  <2>2. e \in Own /\ t.directory[e] # NONE
        /\ (IsMemory(t, t.directory[e]) => t.table[t.directory[e]][PTX(q)] = g)
    BY <1>15, <2>1 DEF Mapped
  <2>3. e \in Indices BY <2>2 DEF Own
  <2>4. v.directory[e] = t.directory[e] /\ u.directory[e] = t.directory[e]
    BY <2>2, <2>3, <1>2, <1>9 DEF OnlyFills
  <2>5. t.directory[e] \in Int /\ t.directory[e] > 0
    <3>1. u.directory \in [Indices -> Int] BY <1>6 DEF Boots
    <3> QED BY <3>1, <2>2, <2>3, <2>4, <1>2 DEF Tables
  <2>6. PTX(q) \in Slots BY PageIndex
  <2>7. e # p \/ PTX(q) # PTX(page)
    <3> SUFFICES ASSUME e = p, PTX(q) = PTX(page) PROVE FALSE OBVIOUS
    <3>1. q = e * NPTENTRIES + PTX(q) BY <2>1, PageIndex
    <3>2. page = p * NPTENTRIES + PTX(page) BY PageIndex
    <3> QED BY <3>1, <3>2, <1>15
  <2>8. t.directory[e] = tab => e = p
    BY <2>2, <2>4, <1>2, <1>3, <1>6 DEF Tables
  <2>9. IsMemory(t, t.directory[e]) <=> IsMemory(v, v.directory[e])
    BY <2>4, <1>11 DEF IsMemory, SameMachine
  <2>10. IsMemory(v, v.directory[e]) => v.table[v.directory[e]][PTX(q)] = g
    BY <2>2, <2>4, <2>5, <2>6, <2>7, <2>8, <2>9, <1>12, <1>13
  <2> QED BY <2>1, <2>2, <2>4, <2>10 DEF Mapped
<1> HIDE DEF p
<1>16. Tables(v.directory, v.ptr_free_mem) /\ v.ptr_free_mem # 0
      /\ v.directory[p] # NONE
      /\ OnlyFills(t, v, p)
  BY <1>2, <1>9 DEF OnlyFills
<1>17. Keeps(t, v, page) BY <1>15 DEF Keeps
<1> QED BY <1>10, <1>11, <1>14, <1>16, <1>17 DEF p

\* The same for the pages mapped so far.
LEMMA MapRangeStep ==
    ASSUME NEW t, NEW v, NEW page, Keeps(t, v, page),
           NEW n \in Nat, NEW first \in Nat, NEW from \in Nat,
           \A k \in Nat : k < n => first + k # page,
           RangeMapped(t, n, first, from)
    PROVE  RangeMapped(v, n, first, from)
<1> SUFFICES ASSUME NEW k \in 0 .. n - 1 PROVE Mapped(v, first + k, from + k)
  BY DEF RangeMapped
<1>1. first + k \in Nat /\ from + k \in Nat /\ first + k # page OBVIOUS
<1>2. Mapped(t, first + k, from + k) BY DEF RangeMapped
<1> QED BY <1>1, <1>2 DEF Keeps

-----------------------------------------------------------------------------
\* The inductive invariant of the boot code.

FromEnvs == {"create_envs", "map_envs", "check_boot_pgdir"}
FromListing == {"setup_listing"} \cup FromEnvs
FromInfo == {"map_frames_info"} \cup FromListing
FromMemory == {"map_memory", "create_frames_info"} \cup FromInfo
FromStack == {"map_stack"} \cup FromMemory
Labels == {"detect_memory", "create_directory", "turn_on_paging",
           "initialize_paging", "done", "panic"} \cup FromStack
Loops == {"map_stack", "map_memory", "map_frames_info", "map_envs"}

StackStart == PageAt(PDX_VPT) - StackPages
InfoPages(t) == FrameOf(ROUNDUP(t.number_of_frames * FrameInfoSize))

MachineKnown(t) ==
    /\ t.maxpa = PHYS_EXTENDED_MEM + ROUNDDOWN(t.extended)
    /\ t.number_of_frames = FrameOf(t.maxpa)

\* How far the mapping has come at each place: the n pages from first on.
StackMapped(t, n) == RangeMapped(t, n, StackStart, FrameOf(StackBottom))
MemoryMapped(t, n) == RangeMapped(t, n, PageAt(PDX_KERNEL_BASE), 0)
InfoMapped(t, n) ==
    /\ t.frames_info % P = 0
    /\ RangeMapped(t, n, PageAt(PDX_FRAMES_INFO), FrameOf(t.frames_info))

Progress ==
    /\ pc = "map_stack" => i <= StackPages /\ StackMapped(s, i)
    /\ pc \in FromMemory => StackMapped(s, StackPages)
    /\ pc = "map_memory" => i <= NumFrames /\ MemoryMapped(s, i)
    /\ pc \in FromMemory \ {"map_memory"} => MemoryMapped(s, NumFrames)
    /\ pc = "map_frames_info" => i <= InfoPages(s) /\ InfoMapped(s, i)
    /\ pc \in FromListing => InfoMapped(s, InfoPages(s))
    /\ pc \in FromEnvs => s.directory[PDX_VPT] # NONE /\ s.directory[PDX_UVPT] # NONE
    /\ pc = "map_envs" /\ i > 0 => s.directory[PDX_UENVS] # NONE
    /\ pc = "check_boot_pgdir" => s.directory[PDX_UENVS] # NONE

\* What initialize_paging writes.
RangeEnd(t) == FrameOf(ROUNDUP(t.ptr_free_mem))
Listed(t) ==
    /\ t.free_frame_list = Descending(RangeEnd(t), t.number_of_frames)
                            \o Descending(1, FrameOf(PHYS_IO_MEM))
    /\ \A f \in Frames :
        IF f \in 1 .. FrameOf(PHYS_IO_MEM) - 1
           \/ f \in RangeEnd(t) .. t.number_of_frames - 1
        THEN t.references[f] = 0
        ELSE f < RangeEnd(t) => t.references[f] = 1

BootInv ==
    /\ Sound(s)
    /\ pc \in Labels /\ i \in Nat /\ (pc \notin Loops => i = 0)
    /\ pc # "detect_memory" => MachineKnown(s)
    /\ pc \notin {"detect_memory", "create_directory"} => s.ptr_free_mem # 0
    /\ pc \in FromStack => Tables(s.directory, s.ptr_free_mem)
    /\ Progress
    /\ BootAssertsHold
    /\ pc = "done" => Listed(s)

\* The layout of the address space above the user's part.
LEMMA Layout ==
    /\ PDX_KERNEL_BASE \in Nat /\ NPDENTRIES \in Nat
    /\ PDX_KERNEL_BASE > 5 /\ PDX_KERNEL_BASE < NPDENTRIES
    /\ \A d \in {PDX_STACK, PDX_UENVS, PDX_FRAMES_INFO}
            \cup PDX_KERNEL_BASE .. NPDENTRIES - 1 :
        d \in Nat /\ d \in Own /\ d \in KernelPart
    /\ PDX_VPT \in KernelPart /\ PDX_UVPT \in KernelPart
    /\ PDX_VPT \in Indices /\ PDX_UVPT \in Indices
<1>1. PDX_KERNEL_BASE \in Nat /\ NPDENTRIES \in Nat
      /\ PDX_UENVS > 0 /\ PDX_KERNEL_BASE < NPDENTRIES
  BY BootAssumption
<1> QED
  BY <1>1 DEF PDX_UENVS, PDX_FRAMES_INFO, PDX_UVPT, PDX_STACK, PDX_VPT, Own,
              Indices, KernelPart

\* The pages of the stack belong to one page table.
LEMMA StackIndex ==
    /\ StackPages \in Nat /\ StackPages > 0 /\ StackPages * P = KERNEL_STACK_SIZE
    /\ StackStart \in Nat
    /\ \A k \in Nat : k < StackPages =>
        StackStart + k \in Nat /\ PDX(StackStart + k) = PDX_STACK
<1>1. /\ NPTENTRIES \in Nat /\ NPTENTRIES > 0 /\ StackPages < NPTENTRIES
      /\ KERNEL_STACK_SIZE \in Nat /\ KERNEL_STACK_SIZE > 0
      /\ KERNEL_STACK_SIZE % P = 0 /\ P \in Nat /\ P > 1
  BY BootAssumption DEF P
<1>2. StackPages \in Nat /\ StackPages * P = KERNEL_STACK_SIZE
  <2>1. StackPages = FrameOf(KERNEL_STACK_SIZE) BY DEF StackPages, FrameOf
  <2> QED BY <2>1, <1>1, Rounding
<1>3. StackPages > 0 BY <1>1, <1>2
<1>4. PDX_STACK \in Nat /\ PDX_VPT = PDX_STACK + 1
  BY Layout DEF PDX_STACK, PDX_VPT
<1>5. PageAt(PDX_VPT) = PageAt(PDX_STACK) + NPTENTRIES /\ PageAt(PDX_STACK) \in Nat
  BY <1>1, <1>4 DEF PageAt
<1>6. StackStart = PageAt(PDX_STACK) + (NPTENTRIES - StackPages)
      /\ StackStart \in Nat
  BY <1>1, <1>2, <1>5 DEF StackStart
<1>7. ASSUME NEW k \in Nat, k < StackPages
      PROVE  StackStart + k \in Nat /\ PDX(StackStart + k) = PDX_STACK
  <2>1. PICK n : n = NPTENTRIES - StackPages + k OBVIOUS
  <2>2. n \in Nat /\ n < NPTENTRIES BY <2>1, <1>1, <1>2, <1>7
  <2>3. StackStart + k = PageAt(PDX_STACK) + n
    BY <2>1, <1>1, <1>2, <1>5, <1>6
  <2> QED BY <2>2, <2>3, <1>4, PageInTable
<1> QED BY <1>2, <1>3, <1>6, <1>7

\* So do the pages of each entry from KERNEL_BASE on.
LEMMA MemoryIndex ==
    /\ NumFrames \in Nat /\ NumFrames > 0 /\ PageAt(PDX_KERNEL_BASE) \in Nat
    /\ \A k \in Nat : k < NumFrames =>
        /\ PageAt(PDX_KERNEL_BASE) + k \in Nat
        /\ PDX(PageAt(PDX_KERNEL_BASE) + k) \in PDX_KERNEL_BASE .. NPDENTRIES - 1
<1>1. NPTENTRIES \in Nat /\ NPTENTRIES > 0 BY BootAssumption
<1>2. NumFrames = (NPDENTRIES - PDX_KERNEL_BASE) * NPTENTRIES BY DEF NumFrames
<1>3. NumFrames \in Nat /\ NumFrames > 0
  <2>1. PICK w \in Nat : w = NPDENTRIES - PDX_KERNEL_BASE /\ w > 0 BY Layout
  <2> QED BY <2>1, <1>1, <1>2
<1>4. PageAt(PDX_KERNEL_BASE) = PDX_KERNEL_BASE * NPTENTRIES
      /\ PageAt(PDX_KERNEL_BASE) \in Nat
  BY <1>1, Layout DEF PageAt
<1>5. ASSUME NEW k \in Nat, k < NumFrames
      PROVE  PDX(PageAt(PDX_KERNEL_BASE) + k) \in PDX_KERNEL_BASE .. NPDENTRIES - 1
  <2>1. PICK d, r : d = PDX(PageAt(PDX_KERNEL_BASE) + k)
                    /\ r = PTX(PageAt(PDX_KERNEL_BASE) + k)
    OBVIOUS
  <2>2. d \in Nat /\ r \in 0 .. NPTENTRIES - 1
        /\ PDX_KERNEL_BASE * NPTENTRIES + k = d * NPTENTRIES + r
    BY <2>1, <1>4, PageIndex DEF Slots
  <2>3. ~(d <= PDX_KERNEL_BASE - 1)
    <3> SUFFICES ASSUME d + 1 <= PDX_KERNEL_BASE PROVE FALSE BY <2>2, Layout
    <3>1. d * NPTENTRIES + NPTENTRIES <= PDX_KERNEL_BASE * NPTENTRIES
      BY <1>1, <2>2, Layout
    <3> QED BY <3>1, <2>2, <1>1, Layout
  <2>4. ~(d >= NPDENTRIES)
    <3> SUFFICES ASSUME d >= NPDENTRIES PROVE FALSE OBVIOUS
    <3>1. d * NPTENTRIES >= NPDENTRIES * NPTENTRIES BY <1>1, <2>2, Layout
    <3>2. NumFrames = NPDENTRIES * NPTENTRIES - PDX_KERNEL_BASE * NPTENTRIES
      BY <1>1, <1>2, Layout
    <3>3. k < NPDENTRIES * NPTENTRIES - PDX_KERNEL_BASE * NPTENTRIES BY <3>2, <1>5
    <3>4. /\ NPDENTRIES * NPTENTRIES \in Int /\ PDX_KERNEL_BASE * NPTENTRIES \in Int
          /\ d * NPTENTRIES \in Int
      BY <1>1, <2>2, Layout
    <3> QED BY <3>1, <3>3, <3>4, <2>2
  <2> QED BY <2>1, <2>2, <2>3, <2>4, Layout
<1> QED BY <1>3, <1>4, <1>5

\* The loop has mapped all of size when i * PAGE_SIZE reaches it.
LEMMA LoopBound ==
    ASSUME NEW size \in Nat, NEW k \in Nat
    PROVE  /\ FrameOf(ROUNDUP(size)) \in Nat
           /\ k * P < size => k + 1 <= FrameOf(ROUNDUP(size))
           /\ ~(k * P < size) /\ k <= FrameOf(ROUNDUP(size))
                => k = FrameOf(ROUNDUP(size))
<1>1. P \in Nat /\ P > 1 BY BootAssumption DEF P
<1>2. PICK n : n = FrameOf(ROUNDUP(size)) OBVIOUS
<1>3. n \in Nat /\ size <= n * P /\ n * P < size + P
  BY <1>1, <1>2, Rounding
<1>4. ASSUME k * P < size PROVE k + 1 <= n
  <2> SUFFICES ASSUME n <= k PROVE FALSE BY <1>3
  <2>1. n * P <= k * P BY <1>1, <1>3
  <2> QED BY <2>1, <1>1, <1>3, <1>4
<1>5. ASSUME ~(k * P < size), k <= n PROVE k = n
  <2> SUFFICES ASSUME k + 1 <= n PROVE FALSE BY <1>3, <1>5
  <2>1. k * P + P <= n * P BY <1>1, <1>3
  <2> QED BY <2>1, <1>1, <1>3, <1>5
<1> QED BY <1>2, <1>3, <1>4, <1>5

\* The size one byte short of the range (map_memory) rounds up to all of it.
LEMMA MemoryBound == FrameOf(ROUNDUP(NumFrames * P - 1)) = NumFrames
                     /\ NumFrames * P - 1 \in Nat
<1>1. P \in Nat /\ P > 1 /\ NumFrames \in Nat /\ NumFrames > 0
  BY BootAssumption, MemoryIndex DEF P
<1>2. NumFrames * P - 1 \in Nat BY <1>1
<1>3. PICK n : n = FrameOf(ROUNDUP(NumFrames * P - 1)) OBVIOUS
<1>4. n \in Nat /\ NumFrames * P - 1 <= n * P /\ n * P < NumFrames * P - 1 + P
  BY <1>1, <1>2, <1>3, Rounding
<1>5. ~(n + 1 <= NumFrames)
  <2> SUFFICES ASSUME n + 1 <= NumFrames PROVE FALSE OBVIOUS
  <2>1. n * P + P <= NumFrames * P BY <1>1, <1>4
  <2> QED BY <2>1, <1>1, <1>4
<1>6. ~(NumFrames + 1 <= n)
  <2> SUFFICES ASSUME NumFrames + 1 <= n PROVE FALSE OBVIOUS
  <2>1. NumFrames * P + P <= n * P BY <1>1, <1>4
  <2> QED BY <2>1, <1>1, <1>4
<1> QED BY <1>1, <1>2, <1>3, <1>4, <1>5, <1>6

\* detect_memory counts the frames that memory has, partial ones left out.
LEMMA MachineFacts ==
    ASSUME NEW t \in Boots, MachineKnown(t)
    PROVE  /\ t.number_of_frames = FrameOf(PHYS_EXTENDED_MEM + t.extended)
           /\ t.number_of_frames \in Nat /\ t.number_of_frames <= NumFrames
           /\ t.maxpa \in Nat /\ t.maxpa % P = 0
           /\ t.number_of_frames * P = t.maxpa
           /\ t.number_of_frames * FrameInfoSize \in Nat
           /\ InfoPages(t) \in Nat /\ InfoPages(t) <= NPTENTRIES
           /\ \A f : IsMemory(t, f) <=> f < t.number_of_frames
<1> DEFINE x == t.extended
           e == PHYS_EXTENDED_MEM
<1>1. P \in Nat /\ P > 1 /\ e % P = 0 /\ e \in Nat BY BootAssumption DEF P
<1>2. x \in ExtendedSizes BY DEF Boots
<1>3. x \in Nat BY <1>2, MemorySizes, Zenon
<1>4. x = (x \div P) * P + (x % P) /\ x % P \in 0 .. P - 1 /\ x \div P \in Nat
  BY <1>1, <1>3, DivMod
<1>5. t.maxpa = e + (x \div P) * P
  BY <1>1, <1>3, <1>4 DEF MachineKnown, ROUNDDOWN, P
<1>6. FrameOf(e) \in Nat /\ FrameOf(e) * P = e BY <1>1, Rounding
<1>7. FrameOf(e + x) \in Nat /\ FrameOf(e + x) * P <= e + x
      /\ e + x < FrameOf(e + x) * P + P
  <2>1. PICK y : y = e + x OBVIOUS
  <2>2. y \in Nat BY <2>1, <1>1, <1>3
  <2>3. FrameOf(y) \in Nat /\ FrameOf(y) * P <= y /\ y < FrameOf(y) * P + P
    BY <2>2, Rounding
  <2> QED BY <2>1, <2>3
<1> DEFINE n == FrameOf(e) + (x \div P)
<1>8. n \in Nat BY <1>4, <1>6
<1>9. n * P = t.maxpa BY <1>1, <1>4, <1>5, <1>6
<1>10. t.maxpa \in Nat BY DEF Boots
<1>11. t.maxpa <= e + x /\ e + x < t.maxpa + P BY <1>1, <1>3, <1>4, <1>5, <1>10
<1> HIDE DEF n, e, x
<1>12. n = FrameOf(e + x)
  <2>1. PICK q : q = FrameOf(e + x) OBVIOUS
  <2>2. q \in Nat /\ q * P < n * P + P /\ n * P < q * P + P
    BY <1>1, <1>3, <1>7, <1>9, <1>10, <1>11, <2>1
  <2>3. ~(q >= n + 1)
    <3> SUFFICES ASSUME q >= n + 1 PROVE FALSE OBVIOUS
    <3>1. q * P >= n * P + P BY <1>1, <1>8, <2>2
    <3> QED BY <3>1, <2>2, <1>1, <1>8
  <2>4. ~(n >= q + 1)
    <3> SUFFICES ASSUME n >= q + 1 PROVE FALSE OBVIOUS
    <3>1. n * P >= q * P + P BY <1>1, <1>8, <2>2
    <3> QED BY <3>1, <2>2, <1>1, <1>8
  <2> QED BY <2>1, <2>2, <2>3, <2>4, <1>8
<1>13. t.maxpa % P = 0 BY <1>1, <1>8, <1>9
<1>14. t.number_of_frames * P = t.maxpa /\ t.number_of_frames \in Nat
  <2>1. t.number_of_frames = FrameOf(t.maxpa) BY DEF MachineKnown
  <2> QED BY <2>1, <1>10, <1>13, Rounding
<1>15. t.number_of_frames = n
  <2>1. PICK q : q = t.number_of_frames OBVIOUS
  <2>2. q * P = n * P /\ q \in Nat BY <2>1, <1>9, <1>14
  <2>3. (q - n) * P = 0 BY <2>2, <1>1, <1>8
  <2> QED BY <2>1, <2>2, <2>3, <1>1, <1>8
<1>16. FrameOf(e + x) <= NumFrames
       /\ FrameOf(e + x) * FrameInfoSize <= NPTENTRIES * PAGE_SIZE
  BY <1>2, BootAssumption DEF e, x
<1>17. FrameInfoSize \in Nat /\ NPTENTRIES \in Nat BY BootAssumption
<1>18. PICK z : z = t.number_of_frames * FrameInfoSize OBVIOUS
<1>19. z \in Nat /\ z <= NPTENTRIES * P BY <1>12, <1>14, <1>15, <1>16, <1>17, <1>18 DEF P
<1>20. FrameOf(ROUNDUP(z)) \in Nat /\ FrameOf(ROUNDUP(z)) <= NPTENTRIES
  <2>1. PICK q : q = FrameOf(ROUNDUP(z)) OBVIOUS
  <2>2. q \in Nat /\ q * P < z + P BY <1>1, <1>19, <2>1, Rounding
  <2>3. ~(q >= NPTENTRIES + 1)
    <3> SUFFICES ASSUME q >= NPTENTRIES + 1 PROVE FALSE OBVIOUS
    <3>1. q * P >= NPTENTRIES * P + P BY <1>1, <1>17, <2>2
    <3> QED BY <3>1, <2>2, <1>1, <1>17, <1>19
  <2> QED BY <2>1, <2>2, <2>3, <1>17
<1>21. InfoPages(t) \in Nat /\ InfoPages(t) <= NPTENTRIES
  BY <1>18, <1>20 DEF InfoPages
<1>22. \A f : IsMemory(t, f) <=> f < t.number_of_frames
  BY <1>12, <1>15 DEF IsMemory, e, x
<1> QED BY <1>10, <1>12, <1>13, <1>14, <1>15, <1>16, <1>18, <1>19, <1>21, <1>22
        DEF e, x

-----------------------------------------------------------------------------
\* What each step does to the invariant.

\* One turn of the loop of boot_map_range.
LEMMA LoopTurn ==
    ASSUME Sound(s), Tables(s.directory, s.ptr_free_mem), s.ptr_free_mem # 0,
           i \in Nat,
           NEW call, NEW next, NEW first \in Nat, NEW size \in Nat,
           NEW address \in Nat, address % P = 0,
           boot_map_range(call, first, size, address, next), i * P < size,
           NEW page \in Nat, page = first + i, ~TableRefused(s, page),
           PDX(page) \in Own, PDX(page) \in KernelPart
    PROVE  /\ pc = call /\ pc' = call /\ i' = i + 1
           /\ Sound(s') /\ Tables(s'.directory, s'.ptr_free_mem)
           /\ SameMachine(s, s') /\ s'.ptr_free_mem # 0
           /\ s'.directory[PDX(page)] # NONE
           /\ OnlyFills(s, s', PDX(page))
           /\ Keeps(s, s', page)
           /\ RangeMapped(s, i, first, FrameOf(address))
                => RangeMapped(s', i + 1, first, FrameOf(address))
<1> DEFINE frame == FrameOf(ROUNDUP(address)) + i
<1>1. pc = call /\ pc' = call /\ i' = i + 1 /\ s' = MapPage(s, page, frame)
  BY DEF boot_map_range, P
<1>2. ROUNDUP(address) = address /\ FrameOf(address) \in Nat BY Rounding
<1>3. frame \in Nat /\ frame = FrameOf(address) + i BY <1>2
<1> HIDE DEF frame
<1>4. PICK v : v = s' OBVIOUS
<1>5. /\ Sound(v) /\ Tables(v.directory, v.ptr_free_mem)
      /\ SameMachine(s, v) /\ v.ptr_free_mem # 0
      /\ v.directory[PDX(page)] # NONE
      /\ OnlyFills(s, v, PDX(page))
      /\ Mapped(v, page, frame)
      /\ Keeps(s, v, page)
  BY <1>1, <1>3, <1>4, MapPageGood
<1>6. ASSUME RangeMapped(s, i, first, FrameOf(address))
      PROVE  RangeMapped(v, i + 1, first, FrameOf(address))
  <2>1. RangeMapped(v, i, first, FrameOf(address))
    <3>1. \A k \in Nat : k < i => first + k # page OBVIOUS
    <3> QED BY <3>1, <1>2, <1>5, <1>6, MapRangeStep
  <2> SUFFICES ASSUME NEW k \in 0 .. i
               PROVE  Mapped(v, first + k, FrameOf(address) + k)
    BY DEF RangeMapped
  <2>2. CASE k = i BY <2>2, <1>3, <1>5
  <2>3. CASE k < i
    <3>1. k \in 0 .. i - 1 BY <2>3
    <3> QED BY <3>1, <2>1 DEF RangeMapped
  <2> QED BY <2>2, <2>3
<1> QED BY <1>1, <1>4, <1>5, <1>6

\* A table is refused only where memory is too small.
LEMMA TurnRefused ==
    ASSUME BootInv, pc \in Loops,
           NEW call, NEW next, NEW first, NEW size, NEW address,
           boot_map_range(call, first, size, address, next), i * P < size,
           NEW page \in Nat, page = first + i, PDX(page) \in Own,
           TableRefused(s, page)
    PROVE  BootInv'
<1>1. s' = s /\ i' = 0 /\ pc' = "panic" BY DEF boot_map_range, P
<1>2. PICK tab, n : tab = s.directory[PDX(page)] /\ n = s.number_of_frames OBVIOUS
<1>3. /\ s \in Boots /\ MachineKnown(s) /\ Tables(s.directory, s.ptr_free_mem)
  BY DEF BootInv, Sound, Loops, FromStack, FromMemory, FromInfo, FromListing,
         FromEnvs
<1>4. tab \in Int BY <1>2, <1>3 DEF Boots, Own
<1>5. n \in Nat /\ n * P = s.maxpa /\ s.ptr_free_mem \in Nat
  BY <1>2, <1>3, MachineFacts DEF Boots
<1>6. P \in Nat /\ P > 1 BY BootAssumption DEF P
<1>7. tab >= n BY <1>2 DEF TableRefused
<1>8. (tab + 1) * P <= s.ptr_free_mem
  <2>1. tab # NONE BY <1>4, <1>5, <1>7 DEF NONE
  <2> QED BY <2>1, <1>2, <1>3 DEF Tables
<1>9. n * P + P <= (tab + 1) * P BY <1>4, <1>5, <1>6, <1>7
<1>10. ~(s.ptr_free_mem <= s.maxpa)
  <2>1. (tab + 1) * P \in Int /\ n * P \in Int BY <1>4, <1>5, <1>6
  <2> QED BY <2>1, <1>5, <1>6, <1>8, <1>9
<1>11. ~Fits' BY <1>1, <1>10 DEF Fits
<1> QED BY <1>1, <1>11
        DEF BootInv, Labels, FromStack, FromMemory, FromInfo, FromListing,
            FromEnvs, Loops, Progress, BootAssertsHold

\* The ranges of the other page tables stay mapped.
LEMMA OthersKept ==
    ASSUME NEW t \in Boots, NEW v, NEW page, Keeps(t, v, page), SameMachine(t, v),
           MachineKnown(t)
    PROVE  /\ PDX(page) # PDX_STACK /\ StackMapped(t, StackPages)
                => StackMapped(v, StackPages)
           /\ PDX(page) \notin PDX_KERNEL_BASE .. NPDENTRIES - 1
              /\ MemoryMapped(t, NumFrames)
                => MemoryMapped(v, NumFrames)
           /\ PDX(page) # PDX_FRAMES_INFO /\ InfoMapped(t, InfoPages(t))
                => InfoMapped(v, InfoPages(v))
<1>1. ASSUME PDX(page) # PDX_STACK, StackMapped(t, StackPages)
      PROVE  StackMapped(v, StackPages)
  <2>1. \A k \in Nat : k < StackPages => StackStart + k # page
    BY <1>1, StackIndex
  <2>2. FrameOf(StackBottom) \in Nat BY MemorySizes, Rounding DEF StackBottom
  <2> QED BY <2>1, <2>2, <1>1, StackIndex, MapRangeStep DEF StackMapped
<1>2. ASSUME PDX(page) \notin PDX_KERNEL_BASE .. NPDENTRIES - 1,
             MemoryMapped(t, NumFrames)
      PROVE  MemoryMapped(v, NumFrames)
  <2>1. \A k \in Nat : k < NumFrames => PageAt(PDX_KERNEL_BASE) + k # page
    BY <1>2, MemoryIndex
  <2> QED BY <2>1, <1>2, MemoryIndex, MapRangeStep DEF MemoryMapped
<1>3. ASSUME PDX(page) # PDX_FRAMES_INFO, InfoMapped(t, InfoPages(t))
      PROVE  InfoMapped(v, InfoPages(v))
  <2>1. InfoPages(v) = InfoPages(t) /\ v.frames_info = t.frames_info
    BY DEF InfoPages, SameMachine
  <2>2. t.frames_info \in Nat BY DEF Boots
  <2>3. FrameOf(t.frames_info) \in Nat BY <2>2, Rounding
  <2>4. InfoPages(t) \in Nat /\ InfoPages(t) <= NPTENTRIES BY MachineFacts
  <2>5. PageAt(PDX_FRAMES_INFO) \in Nat
        /\ \A k \in Nat : k < InfoPages(t) => PageAt(PDX_FRAMES_INFO) + k # page
    <3>1. PDX_FRAMES_INFO \in Nat BY Layout
    <3>2. PageAt(PDX_FRAMES_INFO) \in Nat
      BY <3>1, BootAssumption DEF PageAt
    <3>3. \A k \in Nat : k < InfoPages(t)
            => PDX(PageAt(PDX_FRAMES_INFO) + k) = PDX_FRAMES_INFO
      <4>1. NPTENTRIES \in Nat BY BootAssumption
      <4> QED BY <4>1, <3>1, <2>4, PageInTable
    <3> QED BY <3>2, <3>3, <1>3
  <2>6. RangeMapped(v, InfoPages(t), PageAt(PDX_FRAMES_INFO), FrameOf(t.frames_info))
    BY <2>3, <2>4, <2>5, <1>3, MapRangeStep DEF InfoMapped
  <2> QED BY <2>1, <2>6, <1>3 DEF InfoMapped
<1> QED BY <1>1, <1>2, <1>3

\* Steps that leave the page tables alone leave every mapping alone.
LEMMA TablesUntouched ==
    ASSUME NEW t, NEW v, v.table = t.table, v.extended = t.extended,
           \A d \in Own : v.directory[d] = t.directory[d],
           NEW n, NEW first, NEW from, RangeMapped(t, n, first, from)
    PROVE  RangeMapped(v, n, first, from)
BY DEF RangeMapped, Mapped, IsMemory

\* All of this of an allocation of the boot code.
LEMMA AllocateGood ==
    ASSUME NEW t \in Boots, NEW size \in Nat \ {0}, NEW v, NEW at,
           v = boot_allocate_space(t, size).state,
           at = boot_allocate_space(t, size).at,
           Placed(t.end_of_kernel, t.ptr_free_mem, t.allocated),
           Covered(t.end_of_kernel, t.ptr_free_mem, t.allocated)
    PROVE  /\ v \in Boots /\ SameMachine(t, v)
           /\ at \in Nat /\ at % P = 0 /\ at >= t.ptr_free_mem
           /\ v.ptr_free_mem = at + size
           /\ v.directory = t.directory /\ v.table = t.table
           /\ Placed(v.end_of_kernel, v.ptr_free_mem, v.allocated)
           /\ Covered(v.end_of_kernel, v.ptr_free_mem, v.allocated)
<1>1. /\ v \in Boots /\ SameMachine(t, v)
      /\ at \in Nat /\ at % P = 0 /\ at >= ROUNDUP(t.end_of_kernel)
      /\ at >= t.ptr_free_mem
      /\ at = ROUNDUP(IF t.ptr_free_mem = 0 THEN t.end_of_kernel
                      ELSE t.ptr_free_mem)
      /\ v.ptr_free_mem = at + size
      /\ v.allocated = t.allocated \cup {<<at, size>>}
      /\ v.directory = t.directory /\ v.table = t.table
  BY AllocateFields
<1>2. t.end_of_kernel \in Nat /\ t.ptr_free_mem \in Nat
      /\ t.allocated \in SUBSET (Nat \X Nat)
  BY BootAssumption DEF Boots
<1>3. Placed(t.end_of_kernel, at + size, t.allocated \cup {<<at, size>>})
  BY <1>1, <1>2, AllocatePlaced
<1>4. Covered(t.end_of_kernel, at + size, t.allocated \cup {<<at, size>>})
  BY <1>1, <1>2, AllocateCovered
<1>5. v.end_of_kernel = t.end_of_kernel BY <1>1 DEF SameMachine
<1> QED BY <1>1, <1>3, <1>4, <1>5

\* The kernel starts with nothing allocated.
LEMMA InitGood == Init => BootInv
<1> SUFFICES ASSUME Init PROVE BootInv OBVIOUS
<1>1. PICK end \in KernelEnds, ext \in ExtendedSizes, g \in Garbage :
        s = [end_of_kernel |-> end,
             extended |-> ext,
             maxpa |-> 0, number_of_frames |-> 0,
             ptr_free_mem |-> 0,
             allocated |-> {},
             frames_info |-> 0, envs |-> 0, ptr_page_directory |-> 0,
             directory |-> [d \in Indices |-> NONE],
             table |-> [f \in Frames |-> [n \in Slots |-> g]],
             references |-> [f \in Frames |-> NONE],
             free_frame_list |-> <<>>]
  BY DEF Init
<1>2. s \in Boots BY <1>1 DEF Boots, NONE
<1>3. Placed(s.end_of_kernel, s.ptr_free_mem, s.allocated)
      /\ Covered(s.end_of_kernel, s.ptr_free_mem, s.allocated)
  BY <1>1 DEF Placed, Covered
<1>4. OnlyKernel(s.directory) BY <1>1 DEF OnlyKernel
<1>5. pc = "detect_memory" /\ i = 0 BY DEF Init
<1>6. Beyond(s) BY <1>1 DEF Beyond, NONE
<1> QED BY <1>2, <1>3, <1>4, <1>5, <1>6
        DEF BootInv, Sound, Labels, FromStack, FromMemory, FromInfo, FromListing,
            FromEnvs, Loops, Progress, BootAssertsHold

\* detect_memory: the number of frames is what the CMOS said, in pages.
LEMMA DetectGood == BootInv /\ detect_memory => BootInv'
<1> SUFFICES ASSUME BootInv, detect_memory PROVE BootInv' OBVIOUS
<1>1. PICK maxpa : maxpa = IF ROUNDDOWN(s.extended) # 0
                           THEN PHYS_EXTENDED_MEM + ROUNDDOWN(s.extended)
                           ELSE ROUNDDOWN(s.extended)
  OBVIOUS
<1>2. /\ pc = "detect_memory" /\ pc' = "create_directory" /\ i' = i /\ i = 0
      /\ s' = [s EXCEPT !.maxpa = maxpa, !.number_of_frames = FrameOf(maxpa)]
  BY <1>1 DEF detect_memory, BootInv, Loops
<1>3. s \in Boots BY DEF BootInv, Sound
<1>4. PICK x, e : x = s.extended /\ e = s.end_of_kernel OBVIOUS
<1>5. x \in ExtendedSizes /\ e \in KernelEnds BY <1>3, <1>4 DEF Boots
<1>6. x \in Nat /\ e \in Nat BY <1>5, MemorySizes, Zenon
<1>7. P \in Nat /\ P > 1 /\ PHYS_EXTENDED_MEM \in Nat BY BootAssumption DEF P
<1>8. x = (x \div P) * P + (x % P) /\ x % P \in 0 .. P - 1 /\ x \div P \in Nat
  BY <1>6, <1>7, DivMod
<1>9. ROUNDDOWN(x) \in Nat /\ x < ROUNDDOWN(x) + P
  BY <1>6, <1>7, <1>8 DEF ROUNDDOWN, P
<1>10. x >= P
  <2>1. ROUNDUP(e) + PAGE_SIZE <= PHYS_EXTENDED_MEM + x
        /\ e >= StackBottom + KERNEL_STACK_SIZE /\ KERNEL_STACK_SIZE \in Nat
    BY <1>5, BootAssumption
  <2>2. ROUNDUP(e) >= e /\ ROUNDUP(e) \in Nat BY <1>6, Rounding
  <2> QED BY <2>1, <2>2, <1>6, <1>7 DEF StackBottom, P
<1>11. ROUNDDOWN(x) # 0 BY <1>6, <1>9, <1>10, <1>7
<1>12. maxpa = PHYS_EXTENDED_MEM + ROUNDDOWN(x) /\ maxpa \in Nat
  BY <1>1, <1>4, <1>7, <1>9, <1>11
<1>13. FrameOf(maxpa) \in Nat BY <1>12, Rounding
<1>14. s' \in Boots /\ MachineKnown(s')
       /\ s'.end_of_kernel = s.end_of_kernel /\ s'.ptr_free_mem = s.ptr_free_mem
       /\ s'.allocated = s.allocated /\ s'.directory = s.directory
       /\ s'.references = s.references /\ s'.extended = s.extended
  BY <1>2, <1>3, <1>4, <1>12, <1>13 DEF Boots, MachineKnown
<1>15. Sound(s)' BY <1>14 DEF Sound, BootInv, Beyond, IsMemory
<1> QED BY <1>2, <1>14, <1>15
        DEF BootInv, Labels, FromStack, FromMemory, FromInfo, FromListing,
            FromEnvs, Loops, Progress, BootAssertsHold

\* The page directory is the first allocation, cleared.
LEMMA DirectoryGood == BootInv /\ create_directory => BootInv'
<1> SUFFICES ASSUME BootInv, create_directory PROVE BootInv' OBVIOUS
<1>1. PICK v, at : v = boot_allocate_space(s, PAGE_SIZE).state
                   /\ at = boot_allocate_space(s, PAGE_SIZE).at
  OBVIOUS
<1>2. /\ pc = "create_directory" /\ pc' = "map_stack" /\ i' = i
      /\ s' = [v EXCEPT !.ptr_page_directory = at,
                        !.directory = [d \in Indices |-> NONE]]
  BY <1>1 DEF create_directory
<1>3. PAGE_SIZE \in Nat \ {0} BY BootAssumption
<1>4. /\ s \in Boots /\ i = 0 /\ MachineKnown(s) /\ Beyond(s)
      /\ Placed(s.end_of_kernel, s.ptr_free_mem, s.allocated)
      /\ Covered(s.end_of_kernel, s.ptr_free_mem, s.allocated)
  BY <1>2 DEF BootInv, Sound, Loops
<1>5. /\ v \in Boots /\ SameMachine(s, v) /\ at \in Nat
      /\ v.ptr_free_mem = at + PAGE_SIZE
      /\ Placed(v.end_of_kernel, v.ptr_free_mem, v.allocated)
      /\ Covered(v.end_of_kernel, v.ptr_free_mem, v.allocated)
  BY <1>1, <1>3, <1>4, AllocateGood
<1>6. /\ s' \in Boots /\ SameMachine(s, s')
      /\ s'.end_of_kernel = v.end_of_kernel
      /\ s'.ptr_free_mem = v.ptr_free_mem /\ s'.allocated = v.allocated
      /\ s'.directory = [d \in Indices |-> NONE]
  <2>1. PICK dir : dir = [d \in Indices |-> NONE] OBVIOUS
  <2>2. dir \in [Indices -> Int] BY <2>1 DEF NONE
  <2>3. s' = [v EXCEPT !.ptr_page_directory = at, !.directory = dir]
    BY <1>2, <2>1
  <2>4. s' \in Boots /\ SameMachine(v, s')
        /\ s'.ptr_free_mem = v.ptr_free_mem /\ s'.allocated = v.allocated
        /\ s'.directory = dir
    BY <1>5, <2>2, <2>3 DEF Boots, SameMachine
  <2> QED BY <1>5, <2>1, <2>4 DEF SameMachine
<1>7. Sound(s)'
  <2>1. Beyond(s') BY <1>4, <1>6 DEF Beyond, IsMemory, SameMachine
  <2> QED BY <2>1, <1>5, <1>6 DEF Sound, OnlyKernel
<1>8. Tables(s'.directory, s'.ptr_free_mem) BY <1>6 DEF Tables, Own
<1>9. s'.ptr_free_mem # 0 BY <1>3, <1>5, <1>6
<1>10. MachineKnown(s)' BY <1>4, <1>6 DEF MachineKnown, SameMachine
<1>11. StackMapped(s, i)' /\ i' <= StackPages
  BY <1>2, <1>4, StackIndex DEF StackMapped, RangeMapped
<1> QED BY <1>2, <1>4, <1>7, <1>8, <1>9, <1>10, <1>11
        DEF BootInv, Labels, FromStack, FromMemory, FromInfo, FromListing,
            FromEnvs, Loops, Progress, BootAssertsHold

\* The next four are the loops: a turn, and the way out.
LEMMA StackGood == BootInv /\ map_stack => BootInv'
<1> SUFFICES ASSUME BootInv, map_stack PROVE BootInv' OBVIOUS
<1>1. pc = "map_stack" BY DEF map_stack, boot_map_range
<1>2. /\ Sound(s) /\ Tables(s.directory, s.ptr_free_mem) /\ s.ptr_free_mem # 0
      /\ MachineKnown(s) /\ i \in Nat /\ i <= StackPages /\ StackMapped(s, i)
  BY <1>1 DEF BootInv, Progress, FromStack
<1>3. /\ StackBottom \in Nat /\ StackBottom % P = 0 /\ KERNEL_STACK_SIZE \in Nat
      /\ P \in Nat /\ P > 1 /\ KERNEL_STACK_SIZE % P = 0
  BY BootAssumption DEF StackBottom, P
<1>4. StackPages = FrameOf(ROUNDUP(KERNEL_STACK_SIZE))
  BY <1>3, Rounding DEF StackPages, FrameOf
<1>5. boot_map_range("map_stack", StackStart, KERNEL_STACK_SIZE, StackBottom,
                     "map_memory")
  BY DEF map_stack, StackStart
<1>6. CASE i * P < KERNEL_STACK_SIZE
  <2>1. i + 1 <= StackPages BY <1>2, <1>3, <1>4, <1>6, LoopBound
  <2>2. PICK page : page = StackStart + i OBVIOUS
  <2>3. page \in Nat /\ PDX(page) = PDX_STACK /\ StackStart \in Nat
    BY <2>1, <2>2, <1>2, StackIndex
  <2>4. PDX(page) \in Own /\ PDX(page) \in KernelPart BY <2>3, Layout
  <2>50. CASE TableRefused(s, page)
    <3>1. pc \in Loops BY <1>1 DEF Loops
    <3>2. BootInv OBVIOUS
    <3> QED BY <3>1, <3>2, <1>5, <1>6, <2>2, <2>3, <2>4, <2>50, TurnRefused
  <2> SUFFICES ASSUME ~TableRefused(s, page) PROVE BootInv' BY <2>50
  <2>5. /\ pc' = "map_stack" /\ i' = i + 1
        /\ Sound(s') /\ Tables(s'.directory, s'.ptr_free_mem)
        /\ SameMachine(s, s') /\ s'.ptr_free_mem # 0
        /\ RangeMapped(s, i, StackStart, FrameOf(StackBottom))
            => RangeMapped(s', i + 1, StackStart, FrameOf(StackBottom))
    BY <1>2, <1>3, <1>5, <1>6, <2>2, <2>3, <2>4, LoopTurn
  <2>6. StackMapped(s', i + 1) BY <2>5, <1>2 DEF StackMapped
  <2>7. MachineKnown(s') BY <2>5, <1>2 DEF MachineKnown, SameMachine
  <2> QED BY <2>1, <2>5, <2>6, <2>7, <1>2
        DEF BootInv, Labels, FromStack, FromMemory, FromInfo, FromListing,
            FromEnvs, Loops, Progress, BootAssertsHold
<1>7. CASE ~(i * P < KERNEL_STACK_SIZE)
  <2>1. i = StackPages BY <1>2, <1>3, <1>4, <1>7, LoopBound
  <2>2. s' = s /\ pc' = "map_memory" /\ i' = 0
    BY <1>5, <1>7 DEF boot_map_range, P
  <2>3. MemoryMapped(s, 0) BY DEF MemoryMapped, RangeMapped
  <2>4. 0 <= NumFrames BY MemoryIndex
  <2> QED BY <2>1, <2>2, <2>3, <2>4, <1>1, <1>2
        DEF BootInv, Labels, FromStack, FromMemory, FromInfo, FromListing,
            FromEnvs, Loops, Progress, BootAssertsHold
<1> QED BY <1>6, <1>7

\* One page of physical memory is mapped at KERNEL_BASE, or all are.
LEMMA MemoryGood == BootInv /\ map_memory => BootInv'
<1> SUFFICES ASSUME BootInv, map_memory PROVE BootInv' OBVIOUS
<1>1. pc = "map_memory" BY DEF map_memory, boot_map_range
<1>2. /\ Sound(s) /\ Tables(s.directory, s.ptr_free_mem) /\ s.ptr_free_mem # 0
      /\ MachineKnown(s) /\ i \in Nat /\ i <= NumFrames /\ MemoryMapped(s, i)
      /\ StackMapped(s, StackPages)
  BY <1>1 DEF BootInv, Progress, FromStack, FromMemory
<1> DEFINE size == NumFrames * PAGE_SIZE - 1
           first == PageAt(PDX_KERNEL_BASE)
<1>3. /\ size \in Nat /\ NumFrames = FrameOf(ROUNDUP(size))
      /\ P \in Nat /\ P > 1 /\ 0 % P = 0 /\ 0 \in Nat /\ FrameOf(0) = 0
  BY BootAssumption, MemoryBound DEF P, FrameOf
<1>5. boot_map_range("map_memory", first, size, 0, "create_frames_info")
  BY DEF map_memory
<1> HIDE DEF size, first
<1>6. CASE i * P < size
  <2>1. i + 1 <= NumFrames BY <1>2, <1>3, <1>6, LoopBound
  <2>2. PICK page : page = first + i OBVIOUS
  <2>3. page \in Nat /\ PDX(page) \in PDX_KERNEL_BASE .. NPDENTRIES - 1
        /\ first \in Nat
    BY <2>1, <2>2, <1>2, MemoryIndex DEF first
  <2>4. PDX(page) \in Own /\ PDX(page) \in KernelPart /\ PDX(page) # PDX_STACK
    BY <2>3, Layout DEF PDX_STACK
  <2>50. CASE TableRefused(s, page)
    <3>1. pc \in Loops BY <1>1 DEF Loops
    <3>2. BootInv OBVIOUS
    <3> QED BY <3>1, <3>2, <1>5, <1>6, <2>2, <2>3, <2>4, <2>50, TurnRefused
  <2> SUFFICES ASSUME ~TableRefused(s, page) PROVE BootInv' BY <2>50
  <2>5. /\ pc' = "map_memory" /\ i' = i + 1
        /\ Sound(s') /\ Tables(s'.directory, s'.ptr_free_mem)
        /\ SameMachine(s, s') /\ s'.ptr_free_mem # 0 /\ Keeps(s, s', page)
        /\ RangeMapped(s, i, first, FrameOf(0))
            => RangeMapped(s', i + 1, first, FrameOf(0))
    BY <1>2, <1>3, <1>5, <1>6, <2>2, <2>3, <2>4, LoopTurn
  <2>6. MemoryMapped(s', i + 1) BY <2>5, <1>2, <1>3 DEF MemoryMapped, first
  <2>7. MachineKnown(s') BY <2>5, <1>2 DEF MachineKnown, SameMachine
  <2>8. StackMapped(s', StackPages)
    <3>1. s \in Boots BY <1>2 DEF Sound
    <3> QED BY <3>1, <2>4, <2>5, <1>2, OthersKept
  <2> QED BY <2>1, <2>5, <2>6, <2>7, <2>8, <1>2
        DEF BootInv, Labels, FromStack, FromMemory, FromInfo, FromListing,
            FromEnvs, Loops, Progress, BootAssertsHold
<1>7. CASE ~(i * P < size)
  <2>1. i = NumFrames BY <1>2, <1>3, <1>7, LoopBound
  <2>2. s' = s /\ pc' = "create_frames_info" /\ i' = 0
    BY <1>5, <1>7 DEF boot_map_range, P
  <2> QED BY <2>1, <2>2, <1>1, <1>2
        DEF BootInv, Labels, FromStack, FromMemory, FromInfo, FromListing,
            FromEnvs, Loops, Progress, BootAssertsHold
<1> QED BY <1>6, <1>7

\* One page of frames_info is mapped at READ_ONLY_FRAMES_INFO, or all are.
LEMMA InfoGood == BootInv /\ map_frames_info => BootInv'
<1> SUFFICES ASSUME BootInv, map_frames_info PROVE BootInv' OBVIOUS
<1>1. pc = "map_frames_info" BY DEF map_frames_info, boot_map_range
<1>2. /\ Sound(s) /\ Tables(s.directory, s.ptr_free_mem) /\ s.ptr_free_mem # 0
      /\ MachineKnown(s) /\ i \in Nat /\ i <= InfoPages(s) /\ InfoMapped(s, i)
      /\ StackMapped(s, StackPages) /\ MemoryMapped(s, NumFrames)
  BY <1>1 DEF BootInv, Progress, FromStack, FromMemory, FromInfo
<1> DEFINE size == s.number_of_frames * FrameInfoSize
           first == PageAt(PDX_FRAMES_INFO)
<1>0. s \in Boots BY <1>2 DEF Sound
<1>3. /\ size \in Nat /\ InfoPages(s) = FrameOf(ROUNDUP(size))
      /\ InfoPages(s) \in Nat /\ InfoPages(s) <= NPTENTRIES
  BY <1>0, <1>2, MachineFacts DEF InfoPages
<1>4. /\ P \in Nat /\ P > 1 /\ NPTENTRIES \in Nat
      /\ s.frames_info \in Nat /\ s.frames_info % P = 0
  BY <1>0, <1>2, BootAssumption DEF P, Boots, InfoMapped
<1>5. boot_map_range("map_frames_info", first, size, s.frames_info,
                     "setup_listing")
  BY DEF map_frames_info
<1> HIDE DEF size, first
<1>6. CASE i * P < size
  <2>1. i + 1 <= InfoPages(s) BY <1>2, <1>3, <1>6, LoopBound
  <2>2. PICK page : page = first + i OBVIOUS
  <2>3. page \in Nat /\ PDX(page) = PDX_FRAMES_INFO /\ first \in Nat
    <3>1. PDX_FRAMES_INFO \in Nat BY Layout
    <3>2. first \in Nat BY <3>1, <1>4 DEF first, PageAt
    <3>3. i < NPTENTRIES BY <2>1, <1>2, <1>3, <1>4
    <3> QED BY <3>1, <3>2, <3>3, <2>2, <1>2, PageInTable DEF first
  <2>4. PDX(page) \in Own /\ PDX(page) \in KernelPart /\ PDX(page) # PDX_STACK
        /\ PDX(page) \notin PDX_KERNEL_BASE .. NPDENTRIES - 1
    BY <2>3, Layout DEF PDX_STACK, PDX_FRAMES_INFO
  <2>50. CASE TableRefused(s, page)
    <3>1. pc \in Loops BY <1>1 DEF Loops
    <3>2. BootInv OBVIOUS
    <3> QED BY <3>1, <3>2, <1>5, <1>6, <2>2, <2>3, <2>4, <2>50, TurnRefused
  <2> SUFFICES ASSUME ~TableRefused(s, page) PROVE BootInv' BY <2>50
  <2>5. /\ pc' = "map_frames_info" /\ i' = i + 1
        /\ Sound(s') /\ Tables(s'.directory, s'.ptr_free_mem)
        /\ SameMachine(s, s') /\ s'.ptr_free_mem # 0 /\ Keeps(s, s', page)
        /\ RangeMapped(s, i, first, FrameOf(s.frames_info))
            => RangeMapped(s', i + 1, first, FrameOf(s.frames_info))
    BY <1>2, <1>3, <1>4, <1>5, <1>6, <2>2, <2>3, <2>4, LoopTurn
  <2>6. InfoMapped(s', i + 1)
    BY <2>5, <1>2 DEF InfoMapped, first, SameMachine
  <2>7. MachineKnown(s') BY <2>5, <1>2 DEF MachineKnown, SameMachine
  <2>8. StackMapped(s', StackPages) /\ MemoryMapped(s', NumFrames)
    BY <1>0, <2>4, <2>5, <1>2, OthersKept
  <2>9. i + 1 <= InfoPages(s') BY <2>1, <2>5 DEF InfoPages, SameMachine
  <2> QED BY <2>5, <2>6, <2>7, <2>8, <2>9, <1>2
        DEF BootInv, Labels, FromStack, FromMemory, FromInfo, FromListing,
            FromEnvs, Loops, Progress, BootAssertsHold
<1>7. CASE ~(i * P < size)
  <2>1. i = InfoPages(s) BY <1>2, <1>3, <1>7, LoopBound
  <2>2. s' = s /\ pc' = "setup_listing" /\ i' = 0
    BY <1>5, <1>7 DEF boot_map_range, P
  <2> QED BY <2>1, <2>2, <1>1, <1>2
        DEF BootInv, Labels, FromStack, FromMemory, FromInfo, FromListing,
            FromEnvs, Loops, Progress, BootAssertsHold
<1> QED BY <1>6, <1>7

\* One page of envs is mapped at UENVS, or all are.
LEMMA MapEnvsGood == BootInv /\ map_envs => BootInv'
<1> SUFFICES ASSUME BootInv, map_envs PROVE BootInv' OBVIOUS
<1>1. pc = "map_envs" BY DEF map_envs, boot_map_range
<1>2. /\ Sound(s) /\ Tables(s.directory, s.ptr_free_mem) /\ s.ptr_free_mem # 0
      /\ MachineKnown(s) /\ i \in Nat /\ InfoMapped(s, InfoPages(s))
      /\ StackMapped(s, StackPages) /\ MemoryMapped(s, NumFrames)
      /\ s.directory[PDX_VPT] # NONE /\ s.directory[PDX_UVPT] # NONE
      /\ (i > 0 => s.directory[PDX_UENVS] # NONE)
  BY <1>1 DEF BootInv, Progress, FromStack, FromMemory, FromInfo, FromListing,
              FromEnvs
<1>0. s \in Boots BY <1>2 DEF Sound
<1>3. /\ EnvsSize \in Nat /\ EnvsSize > 0 /\ EnvsSize <= NPTENTRIES * P
      /\ P \in Nat /\ P > 1 /\ NPTENTRIES \in Nat
  BY BootAssumption DEF P
<1> DEFINE first == PageAt(PDX_UENVS)
           address == ROUNDUP(s.envs)
<1>4. address \in Nat /\ address % P = 0 /\ ROUNDUP(address) = ROUNDUP(s.envs)
  <2>1. s.envs \in Nat BY <1>0 DEF Boots
  <2> QED BY <2>1, Rounding
<1>5. boot_map_range("map_envs", first, EnvsSize, s.envs, "check_boot_pgdir")
  BY DEF map_envs
<1>51. boot_map_range("map_envs", first, EnvsSize, address, "check_boot_pgdir")
  <2> HIDE DEF address
  <2> QED BY <1>4, <1>5 DEF boot_map_range
<1> HIDE DEF first, address
<1>6. CASE i * P < EnvsSize
  <2>1. i < NPTENTRIES
    <3> SUFFICES ASSUME i >= NPTENTRIES PROVE FALSE BY <1>2, <1>3
    <3>1. i * P >= NPTENTRIES * P BY <1>2, <1>3
    <3> QED BY <3>1, <1>2, <1>3, <1>6
  <2>2. PICK page : page = first + i OBVIOUS
  <2>3. page \in Nat /\ PDX(page) = PDX_UENVS /\ first \in Nat
    <3>1. PDX_UENVS \in Nat BY Layout
    <3>2. first \in Nat BY <3>1, <1>3 DEF first, PageAt
    <3> QED BY <3>1, <3>2, <2>1, <2>2, <1>2, PageInTable DEF first
  <2>4. PDX(page) \in Own /\ PDX(page) \in KernelPart /\ PDX(page) # PDX_STACK
        /\ PDX(page) # PDX_FRAMES_INFO
        /\ PDX(page) \notin PDX_KERNEL_BASE .. NPDENTRIES - 1
    BY <2>3, Layout DEF PDX_STACK, PDX_FRAMES_INFO, PDX_UENVS
  <2>50. CASE TableRefused(s, page)
    <3>1. pc \in Loops BY <1>1 DEF Loops
    <3>2. BootInv OBVIOUS
    <3> QED BY <3>1, <3>2, <1>51, <1>6, <2>2, <2>3, <2>4, <2>50, TurnRefused
  <2> SUFFICES ASSUME ~TableRefused(s, page) PROVE BootInv' BY <2>50
  <2>5. /\ pc' = "map_envs" /\ i' = i + 1
        /\ Sound(s') /\ Tables(s'.directory, s'.ptr_free_mem)
        /\ SameMachine(s, s') /\ s'.ptr_free_mem # 0 /\ Keeps(s, s', page)
        /\ s'.directory[PDX(page)] # NONE
        /\ OnlyFills(s, s', PDX(page))
    BY <1>2, <1>3, <1>4, <1>51, <1>6, <2>2, <2>3, <2>4, LoopTurn
  <2>6. s'.directory[PDX_VPT] # NONE /\ s'.directory[PDX_UVPT] # NONE
        /\ s'.directory[PDX_UENVS] # NONE
    BY <2>3, <2>5, <1>2, Layout DEF OnlyFills
  <2>7. MachineKnown(s') BY <2>5, <1>2 DEF MachineKnown, SameMachine
  <2>8. StackMapped(s', StackPages) /\ MemoryMapped(s', NumFrames)
        /\ InfoMapped(s', InfoPages(s'))
    BY <1>0, <2>4, <2>5, <1>2, OthersKept
  <2> QED BY <2>5, <2>6, <2>7, <2>8, <1>2
        DEF BootInv, Labels, FromStack, FromMemory, FromInfo, FromListing,
            FromEnvs, Loops, Progress, BootAssertsHold
<1>7. CASE ~(i * P < EnvsSize)
  <2>1. i > 0 BY <1>2, <1>3, <1>7
  <2>2. s' = s /\ pc' = "check_boot_pgdir" /\ i' = 0
    BY <1>5, <1>7 DEF boot_map_range, P
  <2> QED BY <2>1, <2>2, <1>1, <1>2
        DEF BootInv, Labels, FromStack, FromMemory, FromInfo, FromListing,
            FromEnvs, Loops, Progress, BootAssertsHold
<1> QED BY <1>6, <1>7

\* An allocation between the loops keeps what is mapped.
LEMMA AllocationKeeps ==
    ASSUME BootInv, NEW size \in Nat \ {0}, NEW v, NEW at,
           s.ptr_free_mem # 0, Tables(s.directory, s.ptr_free_mem),
           v = boot_allocate_space(s, size).state,
           at = boot_allocate_space(s, size).at
    PROVE  /\ Sound(v) /\ Tables(v.directory, v.ptr_free_mem)
           /\ SameMachine(s, v) /\ v.ptr_free_mem # 0
           /\ v.directory = s.directory /\ v.table = s.table
           /\ at \in Nat /\ at % P = 0
<1>1. /\ s \in Boots /\ OnlyKernel(s.directory) /\ Beyond(s)
      /\ Placed(s.end_of_kernel, s.ptr_free_mem, s.allocated)
      /\ Covered(s.end_of_kernel, s.ptr_free_mem, s.allocated)
  BY DEF BootInv, Sound
<1>2. /\ v \in Boots /\ SameMachine(s, v)
      /\ at \in Nat /\ at % P = 0 /\ at >= s.ptr_free_mem
      /\ v.ptr_free_mem = at + size
      /\ v.directory = s.directory /\ v.table = s.table
      /\ Placed(v.end_of_kernel, v.ptr_free_mem, v.allocated)
      /\ Covered(v.end_of_kernel, v.ptr_free_mem, v.allocated)
  BY <1>1, AllocateGood
<1>3. s.ptr_free_mem \in Nat /\ s.directory \in [Indices -> Int] /\ P \in Nat
  BY <1>1, BootAssumption DEF Boots, P
<1>4. v.ptr_free_mem # 0 /\ v.ptr_free_mem \in Nat /\ v.ptr_free_mem >= s.ptr_free_mem
  BY <1>2, <1>3
<1>5. Tables(v.directory, v.ptr_free_mem)
  <2> SUFFICES ASSUME NEW d \in Own, s.directory[d] # NONE
               PROVE  /\ s.directory[d] > 0
                      /\ (s.directory[d] + 1) * P <= v.ptr_free_mem
                      /\ \A e \in Own : s.directory[e] = s.directory[d] => e = d
    BY <1>2 DEF Tables
  <2>1. (s.directory[d] + 1) * P <= s.ptr_free_mem /\ s.directory[d] > 0
    BY DEF Tables
  <2>2. s.directory[d] \in Int BY <1>3 DEF Own
  <2>3. (s.directory[d] + 1) * P <= v.ptr_free_mem BY <1>3, <1>4, <2>1, <2>2
  <2> QED BY <2>1, <2>3 DEF Tables
<1>6. Beyond(v) BY <1>1, <1>2 DEF Beyond, IsMemory, SameMachine
<1> QED BY <1>1, <1>2, <1>4, <1>5, <1>6 DEF Sound

\* frames_info is allocated behind the page tables.
LEMMA CreateInfoGood == BootInv /\ create_frames_info => BootInv'
<1> SUFFICES ASSUME BootInv, create_frames_info PROVE BootInv' OBVIOUS
<1>1. PICK size : size = s.number_of_frames * FrameInfoSize OBVIOUS
<1>2. PICK v, at : v = boot_allocate_space(s, size).state
                   /\ at = boot_allocate_space(s, size).at
  OBVIOUS
<1>3. /\ pc = "create_frames_info" /\ pc' = "map_frames_info" /\ i' = i
      /\ s' = [v EXCEPT !.frames_info = at]
  BY <1>1, <1>2 DEF create_frames_info
<1>4. /\ Sound(s) /\ Tables(s.directory, s.ptr_free_mem) /\ s.ptr_free_mem # 0
      /\ MachineKnown(s) /\ i = 0
      /\ StackMapped(s, StackPages) /\ MemoryMapped(s, NumFrames)
  BY <1>3 DEF BootInv, Progress, FromStack, FromMemory, Loops
<1>5. s \in Boots BY <1>4 DEF Sound
<1>6. size \in Nat \ {0}
  <2>1. /\ size \in Nat /\ s.number_of_frames \in Nat
        /\ s.number_of_frames * P = s.maxpa /\ s.maxpa \in Nat
    BY <1>1, <1>4, <1>5, MachineFacts
  <2>2. /\ PHYS_EXTENDED_MEM > 0 /\ PHYS_EXTENDED_MEM \in Nat
        /\ FrameInfoSize \in Nat \ {0} /\ P \in Nat /\ P > 1
    BY BootAssumption DEF P
  <2>3. s.number_of_frames = FrameOf(PHYS_EXTENDED_MEM + s.extended)
    BY <1>4, <1>5, MachineFacts
  <2>4. s.extended \in ExtendedSizes BY <1>5 DEF Boots
  <2>5. s.extended \in Nat BY <2>4, MemorySizes, Zenon
  <2>6. FrameOf(PHYS_EXTENDED_MEM) \in Nat
        /\ FrameOf(PHYS_EXTENDED_MEM) * P = PHYS_EXTENDED_MEM
    BY BootAssumption, Rounding DEF P
  <2>7. FrameOf(PHYS_EXTENDED_MEM) > 0 BY <2>2, <2>6
  <2>8. PICK q : q = FrameOf(PHYS_EXTENDED_MEM + s.extended) OBVIOUS
  <2>9. PICK y : y = PHYS_EXTENDED_MEM + s.extended OBVIOUS
  <2>10. y \in Nat /\ y >= PHYS_EXTENDED_MEM BY <2>2, <2>5, <2>9
  <2>11. q \in Nat /\ y < q * P + P BY <2>8, <2>9, <2>10, Rounding
  <2>12. q > 0
    <3> SUFFICES ASSUME q = 0 PROVE FALSE BY <2>11
    <3>1. y < P BY <2>11, <2>2
    <3> QED BY <3>1, <2>2, <2>6, <2>7, <2>10
  <2>13. s.number_of_frames > 0 BY <2>3, <2>8, <2>12
  <2> QED BY <2>1, <2>2, <2>13, <1>1
<1>7. /\ Sound(v) /\ Tables(v.directory, v.ptr_free_mem)
      /\ SameMachine(s, v) /\ v.ptr_free_mem # 0
      /\ v.directory = s.directory /\ v.table = s.table
      /\ at \in Nat /\ at % P = 0
  BY <1>2, <1>4, <1>6, AllocationKeeps
<1>8. /\ s' \in Boots /\ s'.frames_info = at
      /\ s'.end_of_kernel = v.end_of_kernel /\ s'.extended = v.extended
      /\ s'.maxpa = v.maxpa /\ s'.number_of_frames = v.number_of_frames
      /\ s'.ptr_free_mem = v.ptr_free_mem /\ s'.allocated = v.allocated
      /\ s'.directory = v.directory /\ s'.table = v.table
      /\ s'.references = v.references
  BY <1>3, <1>7 DEF Sound, Boots
<1>9. Sound(s)' BY <1>7, <1>8 DEF Sound, Beyond, IsMemory
<1>10. MachineKnown(s)' BY <1>4, <1>7, <1>8 DEF MachineKnown, SameMachine
<1>11. StackMapped(s', StackPages) /\ MemoryMapped(s', NumFrames)
  <2>1. s'.table = s.table /\ s'.extended = s.extended /\ s'.directory = s.directory
    BY <1>7, <1>8 DEF SameMachine
  <2> QED BY <2>1, <1>4, TablesUntouched DEF StackMapped, MemoryMapped
<1>12. InfoMapped(s', 0) BY <1>7, <1>8 DEF InfoMapped, RangeMapped
<1>13. InfoPages(s') \in Nat
  <2>1. MachineKnown(s') BY <1>10
  <2> QED BY <1>8, <2>1, MachineFacts
<1> QED BY <1>3, <1>4, <1>7, <1>8, <1>9, <1>10, <1>11, <1>12, <1>13
        DEF BootInv, Labels, FromStack, FromMemory, FromInfo, FromListing,
            FromEnvs, Loops, Progress, BootAssertsHold

\* The directory is entered in itself, at VPT and UVPT.
LEMMA ListingGood == BootInv /\ setup_listing => BootInv'
<1> SUFFICES ASSUME BootInv, setup_listing PROVE BootInv' OBVIOUS
<1>1. PICK f : f = FrameOf(s.ptr_page_directory) OBVIOUS
<1>2. PICK dir : dir = [[s.directory EXCEPT ![PDX_VPT] = f] EXCEPT ![PDX_UVPT] = f]
  OBVIOUS
<1>3. /\ pc = "setup_listing" /\ pc' = "create_envs" /\ i' = i
      /\ s' = [s EXCEPT !.directory[PDX_VPT] = f, !.directory[PDX_UVPT] = f]
  BY <1>1 DEF setup_listing
<1>4. s' = [s EXCEPT !.directory = dir]
  <2>1. s' = [[s EXCEPT !.directory[PDX_VPT] = f] EXCEPT !.directory[PDX_UVPT] = f]
    BY <1>3, Zenon
  <2>2. s' = [[s EXCEPT !.directory = [s.directory EXCEPT ![PDX_VPT] = f]]
                EXCEPT !.directory[PDX_UVPT] = f]
    BY <2>1, Zenon
  <2>3. PICK dir1 : dir1 = [s.directory EXCEPT ![PDX_VPT] = f] OBVIOUS
  <2>4. PICK r : r = [s EXCEPT !.directory = dir1] OBVIOUS
  <2>5. s' = [r EXCEPT !.directory = [r.directory EXCEPT ![PDX_UVPT] = f]]
    BY <2>2, <2>3, <2>4, Zenon
  <2>6. s \in Boots BY DEF BootInv, Sound
  <2>7. r.directory = dir1 BY <2>4, <2>6 DEF Boots
  <2>8. s' = [r EXCEPT !.directory = dir] BY <2>3, <2>5, <2>7, <1>2
  <2> QED BY <2>4, <2>8, <2>6 DEF Boots
<1>5. /\ Sound(s) /\ Tables(s.directory, s.ptr_free_mem) /\ s.ptr_free_mem # 0
      /\ MachineKnown(s) /\ i = 0
      /\ StackMapped(s, StackPages) /\ MemoryMapped(s, NumFrames)
      /\ InfoMapped(s, InfoPages(s))
  BY <1>3 DEF BootInv, Progress, FromStack, FromMemory, FromInfo, FromListing,
              Loops
<1>6. s \in Boots BY <1>5 DEF Sound
<1>7. f \in Nat /\ f # NONE
  <2>1. s.ptr_page_directory \in Nat BY <1>6 DEF Boots
  <2>2. f \in Nat BY <1>1, <2>1, Rounding
  <2> QED BY <2>2 DEF NONE
<1>8. s.directory \in [Indices -> Int] BY <1>6 DEF Boots
<1>9. /\ dir \in [Indices -> Int] /\ dir[PDX_VPT] # NONE /\ dir[PDX_UVPT] # NONE
      /\ \A d \in Indices : d \notin {PDX_VPT, PDX_UVPT} => dir[d] = s.directory[d]
  BY <1>2, <1>7, <1>8, Layout
<1>10. /\ s' \in Boots /\ SameMachine(s, s')
       /\ s'.ptr_free_mem = s.ptr_free_mem /\ s'.allocated = s.allocated
       /\ s'.directory = dir /\ s'.table = s.table
  BY <1>4, <1>6, <1>9 DEF Boots, SameMachine
<1>11. \A d \in Own : dir[d] = s.directory[d] BY <1>9 DEF Own
<1>12. OnlyKernel(dir)
  <2>1. OnlyKernel(s.directory) BY <1>5 DEF Sound
  <2> QED BY <2>1, <1>9, Layout DEF OnlyKernel
<1>13. Sound(s)' BY <1>5, <1>10, <1>12 DEF Sound, SameMachine, Beyond, IsMemory
<1>14. Tables(s'.directory, s'.ptr_free_mem)
  BY <1>5, <1>10, <1>11 DEF Tables
<1>15. MachineKnown(s)' BY <1>5, <1>10 DEF MachineKnown, SameMachine
<1>16. /\ StackMapped(s', StackPages) /\ MemoryMapped(s', NumFrames)
       /\ InfoMapped(s', InfoPages(s'))
  <2>1. /\ InfoPages(s') = InfoPages(s) /\ s'.extended = s.extended
        /\ s'.frames_info = s.frames_info
    BY <1>10 DEF SameMachine, InfoPages
  <2> QED BY <2>1, <1>5, <1>10, <1>11, TablesUntouched
          DEF StackMapped, MemoryMapped, InfoMapped
<1> QED BY <1>3, <1>5, <1>9, <1>10, <1>13, <1>14, <1>15, <1>16
        DEF BootInv, Labels, FromStack, FromMemory, FromInfo, FromListing,
            FromEnvs, Loops, Progress, BootAssertsHold

\* envs is allocated behind frames_info.
LEMMA CreateEnvsGood == BootInv /\ create_envs => BootInv'
<1> SUFFICES ASSUME BootInv, create_envs PROVE BootInv' OBVIOUS
<1>1. PICK v, at : v = boot_allocate_space(s, EnvsSize).state
                   /\ at = boot_allocate_space(s, EnvsSize).at
  OBVIOUS
<1>2. /\ pc = "create_envs" /\ pc' = "map_envs" /\ i' = i
      /\ s' = [v EXCEPT !.envs = at]
  BY <1>1 DEF create_envs
<1>3. EnvsSize \in Nat \ {0} BY BootAssumption
<1>4. /\ Sound(s) /\ Tables(s.directory, s.ptr_free_mem) /\ s.ptr_free_mem # 0
      /\ MachineKnown(s) /\ i = 0
      /\ StackMapped(s, StackPages) /\ MemoryMapped(s, NumFrames)
      /\ InfoMapped(s, InfoPages(s))
      /\ s.directory[PDX_VPT] # NONE /\ s.directory[PDX_UVPT] # NONE
  BY <1>2 DEF BootInv, Progress, FromStack, FromMemory, FromInfo, FromListing,
              FromEnvs, Loops
<1>5. /\ Sound(v) /\ Tables(v.directory, v.ptr_free_mem)
      /\ SameMachine(s, v) /\ v.ptr_free_mem # 0
      /\ v.directory = s.directory /\ v.table = s.table /\ at \in Nat
  BY <1>1, <1>3, <1>4, AllocationKeeps
<1>6. /\ s' \in Boots /\ s'.frames_info = v.frames_info
      /\ s'.end_of_kernel = v.end_of_kernel /\ s'.extended = v.extended
      /\ s'.maxpa = v.maxpa /\ s'.number_of_frames = v.number_of_frames
      /\ s'.ptr_free_mem = v.ptr_free_mem /\ s'.allocated = v.allocated
      /\ s'.directory = v.directory /\ s'.table = v.table
      /\ s'.references = v.references
  BY <1>2, <1>5 DEF Sound, Boots
<1>7. Sound(s)' BY <1>5, <1>6 DEF Sound, Beyond, IsMemory
<1>8. MachineKnown(s)' BY <1>4, <1>5, <1>6 DEF MachineKnown, SameMachine
<1>9. /\ StackMapped(s', StackPages) /\ MemoryMapped(s', NumFrames)
      /\ InfoMapped(s', InfoPages(s'))
  <2>1. /\ s'.table = s.table /\ s'.extended = s.extended
        /\ s'.directory = s.directory /\ s'.frames_info = s.frames_info
        /\ InfoPages(s') = InfoPages(s)
    BY <1>5, <1>6 DEF SameMachine, InfoPages
  <2> QED BY <2>1, <1>4, TablesUntouched DEF StackMapped, MemoryMapped, InfoMapped
<1> QED BY <1>2, <1>4, <1>5, <1>6, <1>7, <1>8, <1>9
        DEF BootInv, Labels, FromStack, FromMemory, FromInfo, FromListing,
            FromEnvs, Loops, Progress, BootAssertsHold

\* Where memory has room for the allocations, a mapped page translates.
LEMMA MappedTranslates ==
    ASSUME NEW t \in Boots, MachineKnown(t), Tables(t.directory, t.ptr_free_mem),
           t.ptr_free_mem <= t.maxpa,
           NEW page, NEW frame, Mapped(t, page, frame)
    PROVE  check_va2pa(t, page) = frame
<1>1. PICK d : d = PDX(page) OBVIOUS
<1>2. PICK tab : tab = t.directory[d] OBVIOUS
<1>3. d \in Own /\ tab # NONE
      /\ (IsMemory(t, tab) => t.table[tab][PTX(page)] = frame)
  BY <1>1, <1>2 DEF Mapped
<1>4. tab \in Int BY <1>2, <1>3 DEF Boots, Own
<1>5. (tab + 1) * P <= t.ptr_free_mem BY <1>2, <1>3 DEF Tables
<1>6. P \in Nat /\ P > 1 BY BootAssumption DEF P
<1>7. PICK n : n = t.number_of_frames OBVIOUS
<1>8. n \in Nat /\ n * P = t.maxpa /\ t.maxpa \in Nat /\ t.ptr_free_mem \in Nat
  BY <1>7, MachineFacts DEF Boots
<1>9. tab < n
  <2> SUFFICES ASSUME n <= tab PROVE FALSE BY <1>4, <1>8
  <2>1. n * P + P <= (tab + 1) * P BY <1>4, <1>6, <1>8
  <2>2. (tab + 1) * P \in Int BY <1>4, <1>6
  <2>3. (tab + 1) * P <= n * P BY <1>5, <1>8, <2>2
  <2> QED BY <2>1, <2>2, <2>3, <1>6, <1>8
<1>10. IsMemory(t, tab) BY <1>7, <1>9, MachineFacts
<1>11. ~TableRefused(t, page) BY <1>1, <1>2, <1>4, <1>7, <1>8, <1>9 DEF TableRefused
<1> QED BY <1>1, <1>2, <1>3, <1>10, <1>11 DEF check_va2pa

\* The asserts hold where memory has room for the allocations.
LEMMA PgdirRight ==
    ASSUME BootInv, pc = "check_boot_pgdir", Fits
    PROVE  PgdirIsRight(s)
<1>1. /\ Sound(s) /\ Tables(s.directory, s.ptr_free_mem) /\ MachineKnown(s)
      /\ StackMapped(s, StackPages) /\ MemoryMapped(s, NumFrames)
      /\ InfoMapped(s, InfoPages(s))
      /\ s.directory[PDX_VPT] # NONE /\ s.directory[PDX_UVPT] # NONE
      /\ s.directory[PDX_UENVS] # NONE
  BY DEF BootInv, Progress, FromStack, FromMemory, FromInfo, FromListing,
         FromEnvs
<1>2. s \in Boots /\ OnlyKernel(s.directory) /\ s.ptr_free_mem <= s.maxpa
  BY <1>1 DEF Sound, Fits
<1>3. \A page, frame : Mapped(s, page, frame) => check_va2pa(s, page) = frame
  BY <1>1, <1>2, MappedTranslates
<1>4. InfoPages(s) \in Nat /\ InfoPages(s) <= NPTENTRIES BY <1>1, <1>2, MachineFacts
<1>5. ASSUME NEW n \in 0 .. FrameOf(ROUNDUP(s.number_of_frames * FrameInfoSize)) - 1
      PROVE  check_va2pa(s, PageAt(PDX_FRAMES_INFO) + n) = FrameOf(s.frames_info) + n
  <2>1. n \in 0 .. InfoPages(s) - 1 BY DEF InfoPages
  <2>2. Mapped(s, PageAt(PDX_FRAMES_INFO) + n, FrameOf(s.frames_info) + n)
    BY <2>1, <1>1 DEF InfoMapped, RangeMapped
  <2> QED BY <2>2, <1>3
<1>6. ASSUME NEW n \in Frames
      PROVE  Mapped(s, PageAt(PDX_KERNEL_BASE) + n, n)
  <2>1. n \in 0 .. NumFrames - 1 BY DEF Frames
  <2>2. Mapped(s, PageAt(PDX_KERNEL_BASE) + n, 0 + n)
    BY <2>1, <1>1 DEF MemoryMapped, RangeMapped
  <2> QED BY <2>1, <2>2, MemoryIndex
<1>7. ASSUME NEW n \in 0 .. StackPages - 1
      PROVE  check_va2pa(s, PageAt(PDX_VPT) - StackPages + n)
                = FrameOf(StackBottom) + n
  BY <1>1, <1>3 DEF StackMapped, RangeMapped, StackStart
<1>8. s.directory[PDX_STACK] # NONE
  <2>1. 0 \in 0 .. StackPages - 1 BY StackIndex
  <2>2. Mapped(s, StackStart + 0, FrameOf(StackBottom) + 0)
    BY <2>1, <1>1 DEF StackMapped, RangeMapped
  <2>3. PDX(StackStart + 0) = PDX_STACK BY StackIndex
  <2> QED BY <2>2, <2>3 DEF Mapped
<1>9. ASSUME NEW d \in PDX_KERNEL_BASE .. NPDENTRIES - 1
      PROVE  s.directory[d] # NONE
  <2>1. NPTENTRIES \in Nat /\ NPTENTRIES > 0 BY BootAssumption
  <2>2. PICK e \in Nat : e = d - PDX_KERNEL_BASE BY Layout
  <2>3. PICK w \in Nat : w = NPDENTRIES - PDX_KERNEL_BASE BY Layout
  <2>4. e + 1 <= w BY <2>2, <2>3, Layout
  <2>5. e * NPTENTRIES + NPTENTRIES <= w * NPTENTRIES BY <2>1, <2>4
  <2>6. PICK k \in Nat : k = e * NPTENTRIES BY <2>1
  <2>7. k < NumFrames
    <3>1. NumFrames = w * NPTENTRIES BY <2>3 DEF NumFrames
    <3>2. w * NPTENTRIES \in Nat BY <2>1
    <3> QED BY <3>1, <3>2, <2>1, <2>5, <2>6
  <2>8. k \in Frames BY <2>7, MemoryIndex DEF Frames
  <2>9. PageAt(PDX_KERNEL_BASE) + k = PageAt(d) + 0
    <3>1. d = PDX_KERNEL_BASE + e /\ d \in Nat BY <2>2, Layout
    <3>2. d * NPTENTRIES = PDX_KERNEL_BASE * NPTENTRIES + e * NPTENTRIES
      BY <3>1, <2>1, Layout
    <3>3. d * NPTENTRIES \in Nat BY <3>1, <2>1
    <3> QED BY <3>2, <3>3, <2>6 DEF PageAt
  <2>10. PDX(PageAt(d) + 0) = d
    <3>1. d \in Nat BY Layout
    <3> QED BY <3>1, <2>1, PageInTable
  <2>11. Mapped(s, PageAt(d) + 0, k) BY <1>6, <2>8, <2>9
  <2> QED BY <2>10, <2>11 DEF Mapped
<1>10. s.directory[PDX_FRAMES_INFO] # NONE
  <2>1. PICK z : z = s.number_of_frames * FrameInfoSize OBVIOUS
  <2>2. InfoPages(s) > 0
    <3>1. s.number_of_frames \in Nat /\ s.number_of_frames * P = s.maxpa
          /\ s.maxpa \in Nat /\ z \in Nat
      BY <2>1, <1>1, <1>2, MachineFacts
    <3>2. s.maxpa > 0
      <4>1. s.ptr_free_mem # 0 /\ s.ptr_free_mem \in Nat
        BY <1>2 DEF BootInv, Boots
      <4> QED BY <4>1, <3>1, <1>2
    <3>3. FrameInfoSize \in Nat /\ FrameInfoSize > 0 /\ P \in Nat /\ P > 1
      BY BootAssumption DEF P
    <3>4. s.number_of_frames > 0
      <4>1. PICK q : q = s.number_of_frames OBVIOUS
      <4>2. q \in Nat /\ q * P > 0 BY <4>1, <3>1, <3>2
      <4> QED BY <4>1, <4>2, <3>3
    <3>5. z > 0 BY <2>1, <3>1, <3>3, <3>4
    <3>6. 0 * P < z BY <3>5, <3>3
    <3>7. 0 + 1 <= FrameOf(ROUNDUP(z)) BY <3>1, <3>6, LoopBound
    <3> QED BY <3>7, <2>1, <1>4 DEF InfoPages
  <2>3. 0 \in 0 .. InfoPages(s) - 1 BY <2>2, <1>4
  <2>4. Mapped(s, PageAt(PDX_FRAMES_INFO) + 0, FrameOf(s.frames_info) + 0)
    BY <2>3, <1>1 DEF InfoMapped, RangeMapped
  <2>5. PDX_FRAMES_INFO \in Nat BY Layout
  <2>6. PDX(PageAt(PDX_FRAMES_INFO) + 0) = PDX_FRAMES_INFO
    BY <2>5, BootAssumption, PageInTable
  <2> QED BY <2>4, <2>6 DEF Mapped
<1>11. \A d \in Indices : s.directory[d] # NONE <=>
        \/ d \in {PDX_VPT, PDX_UVPT, PDX_STACK, PDX_UENVS, PDX_FRAMES_INFO}
        \/ d >= PDX_KERNEL_BASE
  <2> SUFFICES ASSUME NEW d \in Indices
               PROVE  s.directory[d] # NONE <=> d \in KernelPart
    BY Layout DEF KernelPart, Indices
  <2>1. s.directory[d] # NONE => d \in KernelPart BY <1>2 DEF OnlyKernel
  <2>2. d \in KernelPart => s.directory[d] # NONE
    BY <1>1, <1>8, <1>9, <1>10 DEF KernelPart
  <2> QED BY <2>1, <2>2
<1>12. \A n \in Frames : check_va2pa(s, PageAt(PDX_KERNEL_BASE) + n) = n
  BY <1>3, <1>6
<1> QED BY <1>5, <1>7, <1>11, <1>12 DEF PgdirIsRight

\* check_boot_pgdir panics only where memory is too small.
LEMMA CheckGood == BootInv /\ check_boot_pgdir => BootInv'
<1> SUFFICES ASSUME BootInv, check_boot_pgdir PROVE BootInv' OBVIOUS
<1>1. /\ pc = "check_boot_pgdir" /\ s' = s /\ i' = i /\ i = 0
      /\ pc' = IF PgdirIsRight(s) THEN "turn_on_paging" ELSE "panic"
  BY DEF check_boot_pgdir, BootInv, Loops
<1>2. pc' = "panic" => ~Fits BY <1>1, PgdirRight
<1>3. Fits' <=> Fits BY <1>1 DEF Fits
<1>4. pc' \in {"turn_on_paging", "panic"} BY <1>1
<1> QED BY <1>1, <1>2, <1>3, <1>4
        DEF BootInv, Labels, FromStack, FromMemory, FromInfo, FromListing,
            FromEnvs, Loops, Progress, BootAssertsHold

\* turn_on_paging clears entry 0, which had been empty.
LEMMA PagingGood == BootInv /\ turn_on_paging => BootInv'
<1> SUFFICES ASSUME BootInv, turn_on_paging PROVE BootInv' OBVIOUS
<1>1. /\ pc = "turn_on_paging" /\ pc' = "initialize_paging" /\ i' = i /\ i = 0
      /\ s' = [s EXCEPT !.directory[0] = NONE]
  BY DEF turn_on_paging, BootInv, Loops
<1>2. Sound(s) /\ MachineKnown(s) /\ s.ptr_free_mem # 0 BY <1>1 DEF BootInv
<1>3. s \in Boots /\ s.directory \in [Indices -> Int] BY <1>2 DEF Sound, Boots
<1>4. PICK dir : dir = [s.directory EXCEPT ![0] = NONE] OBVIOUS
<1>5. s' = [s EXCEPT !.directory = dir] BY <1>1, <1>4, Zenon
<1>6. dir \in [Indices -> Int] /\ \A d \in Indices : dir[d] \in {s.directory[d], NONE}
  <2>1. NONE \in Int BY DEF NONE
  <2>2. DOMAIN s.directory = Indices BY <1>3
  <2>3. dir = [d \in Indices |-> IF d = 0 THEN NONE ELSE s.directory[d]]
    BY <1>4, <2>2, Zenon
  <2> QED BY <1>3, <2>1, <2>3
<1>7. /\ s' \in Boots /\ SameMachine(s, s') /\ s'.directory = dir
      /\ s'.ptr_free_mem = s.ptr_free_mem /\ s'.allocated = s.allocated
  BY <1>3, <1>5, <1>6 DEF Boots, SameMachine
<1>8. OnlyKernel(dir) BY <1>2, <1>6 DEF Sound, OnlyKernel
<1>9. Sound(s)' BY <1>2, <1>7, <1>8 DEF Sound, SameMachine, Beyond, IsMemory
<1>10. MachineKnown(s)' BY <1>2, <1>7 DEF MachineKnown, SameMachine
<1> QED BY <1>1, <1>2, <1>7, <1>9, <1>10
        DEF BootInv, Labels, FromStack, FromMemory, FromInfo, FromListing,
            FromEnvs, Loops, Progress, BootAssertsHold

\* LIST_INSERT_HEAD in ascending order leaves a descending list.
LEMMA DescendingFacts ==
    ASSUME NEW a \in Int, NEW b \in Int
    PROVE  /\ Descending(a, b) \in Seq(Int)
           /\ Len(Descending(a, b)) = IF a <= b THEN b - a ELSE 0
           /\ \A k \in 1 .. Len(Descending(a, b)) : Descending(a, b)[k] = b - k
<1> DEFINE n == IF a <= b THEN b - a ELSE 0
<1>1. n \in Nat /\ 1 .. b - a = 1 .. n OBVIOUS
<1>2. Descending(a, b) = [k \in 1 .. n |-> b - k] BY <1>1 DEF Descending
<1>3. Descending(a, b) \in [1 .. n -> Int] BY <1>1, <1>2
<1> HIDE DEF n
<1>4. Descending(a, b) \in Seq(Int) BY <1>1, <1>3
<1>5. Len(Descending(a, b)) = n BY <1>1, <1>3
<1>6. \A k \in 1 .. n : Descending(a, b)[k] = b - k BY <1>2
<1> QED BY <1>4, <1>5, <1>6 DEF n

\* initialize_paging lists the frames that are not in use.
LEMMA InitializeGood == BootInv /\ initialize_paging => BootInv'
<1> SUFFICES ASSUME BootInv, initialize_paging PROVE BootInv' OBVIOUS
<1> DEFINE io == FrameOf(PHYS_IO_MEM)
           free(f) == f \in 1 .. io - 1 \/ f \in RangeEnd(s) .. s.number_of_frames - 1
<1>1. PICK refs, list :
        /\ refs = [f \in Frames |->
                    IF free(f) THEN 0
                    ELSE IF f < RangeEnd(s) THEN 1 ELSE s.references[f]]
        /\ list = Descending(RangeEnd(s), s.number_of_frames) \o Descending(1, io)
  OBVIOUS
<1>2. /\ pc = "initialize_paging" /\ pc' = "done" /\ i' = i /\ i = 0
      /\ s' = [s EXCEPT !.references = refs, !.free_frame_list = list]
  BY <1>1 DEF initialize_paging, RangeEnd, BootInv, Loops
<1>3. Sound(s) /\ MachineKnown(s) /\ s.ptr_free_mem # 0 BY <1>2 DEF BootInv
<1>4. s \in Boots BY <1>3 DEF Sound
<1>5. io \in Nat BY BootAssumption, Rounding
<1>6. RangeEnd(s) \in Nat /\ s.number_of_frames \in Nat
  <2>1. s.ptr_free_mem \in Nat /\ s.number_of_frames \in Nat BY <1>4 DEF Boots
  <2> QED BY <2>1, Rounding DEF RangeEnd
<1>7. list \in Seq(Int)
  <2>1. Descending(RangeEnd(s), s.number_of_frames) \in Seq(Int)
    <3>1. PICK a, b : a = RangeEnd(s) /\ b = s.number_of_frames OBVIOUS
    <3>2. a \in Int /\ b \in Int BY <1>6, <3>1
    <3>3. Descending(a, b) \in Seq(Int) BY <3>2, DescendingFacts
    <3> QED BY <3>1, <3>3
  <2>2. Descending(1, io) \in Seq(Int)
    <3>1. io \in Int /\ 1 \in Int BY <1>5
    <3> HIDE DEF io
    <3> QED BY <3>1, DescendingFacts
  <2> QED BY <1>1, <2>1, <2>2
<1>8. refs \in [Frames -> Int] BY <1>1, <1>4 DEF Boots
<1>9. /\ s' \in Boots /\ s'.end_of_kernel = s.end_of_kernel
      /\ s'.extended = s.extended /\ s'.maxpa = s.maxpa
      /\ s'.number_of_frames = s.number_of_frames /\ s'.directory = s.directory
      /\ s'.ptr_free_mem = s.ptr_free_mem /\ s'.allocated = s.allocated
      /\ s'.references = refs /\ s'.free_frame_list = list
  BY <1>2, <1>4, <1>7, <1>8 DEF Boots
<1>10. Sound(s)'
  <2> SUFFICES Beyond(s') BY <1>3, <1>9 DEF Sound
  <2> SUFFICES ASSUME NEW f \in Frames, refs[f] = 0 PROVE IsMemory(s', f)
    BY <1>9 DEF Beyond
  <2>1. free(f) => IsMemory(s, f)
    <3>1. IsMemory(s, f) <=> f < s.number_of_frames BY <1>3, <1>4, MachineFacts
    <3>2. io <= s.number_of_frames
      <4>1. /\ PHYS_IO_MEM \in Nat /\ PHYS_IO_MEM % P = 0 /\ P \in Nat /\ P > 1
            /\ PHYS_EXTENDED_MEM \in Nat /\ PHYS_IO_MEM < PHYS_EXTENDED_MEM
        BY BootAssumption DEF P
      <4>2. io * P = PHYS_IO_MEM BY <4>1, Rounding
      <4>3. PICK n, x : n = s.number_of_frames /\ x = ROUNDDOWN(s.extended) OBVIOUS
      <4>4. x >= 0 /\ x \in Int
        <5>1. PICK e : e = s.extended OBVIOUS
        <5>2. e \in ExtendedSizes BY <1>4, <5>1 DEF Boots
        <5>3. e \in Nat BY <5>2, MemorySizes, Zenon
        <5>4. e = (e \div P) * P + (e % P) /\ e \div P \in Nat
          BY <5>3, <4>1, DivMod
        <5>5. x = e - (e % P) BY <4>3, <5>1 DEF ROUNDDOWN, P
        <5>6. x = (e \div P) * P BY <5>3, <5>4, <5>5, <4>1
        <5> QED BY <5>4, <5>6, <4>1
      <4>5. n * P = PHYS_EXTENDED_MEM + x /\ n \in Nat
        BY <4>3, <1>3, <1>4, MachineFacts DEF MachineKnown
      <4>6. io * P < n * P BY <4>1, <4>2, <4>4, <4>5
      <4> QED BY <4>1, <4>3, <4>5, <4>6, <1>5
    <3> QED BY <3>1, <3>2, <1>5, <1>6, MemoryIndex DEF Frames
  <2>2. ~free(f) => s.references[f] = 0 BY <1>1
  <2>3. s.references[f] = 0 => IsMemory(s, f) BY <1>3 DEF Sound, Beyond
  <2> QED BY <2>1, <2>2, <2>3, <1>9 DEF IsMemory
<1>11. MachineKnown(s)' BY <1>3, <1>9 DEF MachineKnown
<1>12. Listed(s)'
  <2>1. RangeEnd(s') = RangeEnd(s) /\ s'.number_of_frames = s.number_of_frames
    BY <1>9 DEF RangeEnd
  <2>2. \A f \in Frames : IF free(f) THEN refs[f] = 0
                          ELSE f < RangeEnd(s) => refs[f] = 1
    BY <1>1
  <2> QED BY <2>1, <2>2, <1>1, <1>9 DEF Listed
<1> QED BY <1>2, <1>3, <1>9, <1>10, <1>11, <1>12
        DEF BootInv, Labels, FromStack, FromMemory, FromInfo, FromListing,
            FromEnvs, Loops, Progress, BootAssertsHold

\* Every step of the boot code keeps the invariant.
LEMMA BootNextGood == BootInv /\ [Next]_vars => BootInv'
<1> SUFFICES ASSUME BootInv, [Next]_vars PROVE BootInv' OBVIOUS
<1>1. CASE UNCHANGED vars
  BY <1>1 DEF vars, BootInv, Progress, BootAssertsHold, Fits
<1>2. CASE Next
  BY <1>2, DetectGood, DirectoryGood, StackGood, MemoryGood, CreateInfoGood,
     InfoGood, ListingGood, CreateEnvsGood, MapEnvsGood, CheckGood, PagingGood,
     InitializeGood DEF Next
<1> QED BY <1>1, <1>2

\* Every step of FOS_initialize keeps the boot invariant: page_check does not
\* touch the boot code's variables.
THEOREM BootInvariance == FosSpec => []BootInv
<1>1. FosInit => BootInv BY InitGood DEF FosInit
<1>2. BootInv /\ [FosNext]_<<vars, testVars>> => BootInv'
  <2> SUFFICES ASSUME BootInv, [FosNext]_<<vars, testVars>> PROVE [Next]_vars
    BY BootNextGood
  <2> QED BY DEF FosNext, Boot, CallPageCheck, page_check
<1> QED BY <1>1, <1>2, PTL DEF FosSpec

-----------------------------------------------------------------------------
\* What the boot code hands over.

\* The frames of an allocation that starts on a page.
LEMMA FrameIn ==
    ASSUME NEW a \in Nat, NEW size \in Nat \ {0}, a % P = 0, NEW f \in Int
    PROVE  f \in FramesOf(a, size) <=> a <= f * P /\ f * P < a + size
<1>1. P \in Nat /\ P > 1 BY BootAssumption DEF P
<1>2. PICK x, y, z : x = FrameOf(a) /\ z = a + size - 1 /\ y = FrameOf(z) OBVIOUS
<1>3. z \in Nat BY <1>2
<1>4. x \in Nat /\ x * P = a BY <1>2, Rounding
<1>5. y \in Nat /\ y * P <= z /\ z < y * P + P BY <1>2, <1>3, Rounding
<1>6. f \in FramesOf(a, size) <=> x <= f /\ f <= y BY <1>2, <1>4, <1>5 DEF FramesOf
<1>7. x <= f <=> x * P <= f * P BY <1>1, <1>4
<1>8. f <= y <=> f * P <= z
  <2>1. f <= y => f * P <= y * P BY <1>1, <1>5
  <2>2. y + 1 <= f => y * P + P <= f * P BY <1>1, <1>5
  <2>3. f * P \in Int /\ y * P \in Int BY <1>1, <1>5
  <2> QED BY <2>1, <2>2, <2>3, <1>1, <1>3, <1>5
<1>9. f * P <= z <=> f * P < a + size
  <2>1. f * P \in Int BY <1>1
  <2> QED BY <2>1, <1>2
<1> QED BY <1>4, <1>6, <1>7, <1>8, <1>9

\* boot_allocate_space never hands out a frame twice, nor one of the kernel.
THEOREM BootAllocations == FosSpec => []AllocationsDisjoint
<1>1. ASSUME BootInv PROVE AllocationsDisjoint
  <2>1. /\ s \in Boots
        /\ Placed(s.end_of_kernel, s.ptr_free_mem, s.allocated)
    BY <1>1 DEF BootInv, Sound
  <2>2. s.end_of_kernel \in Nat BY <2>1, MemorySizes, Zenon DEF Boots
  <2>3. \A a \in s.allocated : a[1] \in Nat /\ a[2] \in Nat BY <2>1 DEF Boots
  <2>4. \A a \in s.allocated : a[1] >= s.end_of_kernel
    <3>1. PICK e \in Nat : e = s.end_of_kernel BY <2>2
    <3>2. ROUNDUP(e) \in Nat /\ ROUNDUP(e) >= e BY <3>1, Rounding
    <3>3. \A a \in s.allocated : a[1] >= ROUNDUP(e) BY <3>1, <2>1 DEF Placed
    <3> QED BY <3>1, <3>2, <3>3, <2>3
  <2>5. ASSUME NEW a \in s.allocated, NEW b \in s.allocated, a # b,
               NEW f \in FramesOf(a[1], a[2]) \cap FramesOf(b[1], b[2])
        PROVE  FALSE
    <3>1. PICK a1 \in Nat, a2 \in Nat, b1 \in Nat, b2 \in Nat :
            a1 = a[1] /\ a2 = a[2] /\ b1 = b[1] /\ b2 = b[2]
      BY <2>3
    <3>2. /\ a1 % P = 0 /\ a2 > 0 /\ b1 % P = 0 /\ b2 > 0
          /\ a1 + a2 <= b1 \/ b1 + b2 <= a1
      BY <3>1, <2>1, <2>5 DEF Placed
    <3>3. f \in Int
      <4>1. f \in FramesOf(a1, a2) BY <3>1, <2>5
      <4>2. PICK z \in Nat : z = a1 + a2 - 1 BY <3>2
      <4>3. FrameOf(a1) \in Nat /\ FrameOf(z) \in Nat BY <4>2, Rounding
      <4> QED BY <4>1, <4>2, <4>3 DEF FramesOf
    <3>4. a1 <= f * P /\ f * P < a1 + a2
      <4>1. f \in FramesOf(a1, a2) BY <3>1, <2>5
      <4> QED BY <4>1, <3>2, <3>3, FrameIn
    <3>5. b1 <= f * P /\ f * P < b1 + b2
      <4>1. f \in FramesOf(b1, b2) BY <3>1, <2>5
      <4> QED BY <4>1, <3>2, <3>3, FrameIn
    <3>6. f * P \in Int BY <3>3, BootAssumption DEF P
    <3> QED BY <3>2, <3>4, <3>5, <3>6
  <2> QED BY <2>4, <2>5 DEF AllocationsDisjoint
<1> QED BY <1>1, BootInvariance, PTL

\* check_boot_pgdir does not panic on a machine whose memory has room for the
\* boot allocations, whatever that memory held before.
THEOREM BootChecks == FosSpec => []BootAssertsHold
<1>1. BootInv => BootAssertsHold BY DEF BootInv
<1> QED BY <1>1, BootInvariance, PTL

\* The entries of two lists, one behind the other.
LEMMA AppendFacts ==
    ASSUME NEW u \in Seq(Int), NEW v \in Seq(Int)
    PROVE  /\ u \o v \in Seq(Int) /\ DOMAIN (u \o v) = 1 .. Len(u) + Len(v)
           /\ \A k \in 1 .. Len(u) : (u \o v)[k] = u[k]
           /\ \A k \in 1 .. Len(v) : (u \o v)[Len(u) + k] = v[k]
<1>1. u \o v \in Seq(Int) /\ Len(u \o v) = Len(u) + Len(v) OBVIOUS
<1>2. DOMAIN (u \o v) = 1 .. Len(u) + Len(v) BY <1>1
<1>3. Len(u) \in Nat /\ Len(v) \in Nat OBVIOUS
<1>4. \A k \in 1 .. Len(u) + Len(v) :
        (u \o v)[k] = IF k <= Len(u) THEN u[k] ELSE v[k - Len(u)]
  OBVIOUS
<1>5. \A k \in 1 .. Len(u) : (u \o v)[k] = u[k] BY <1>3, <1>4
<1>6. \A k \in 1 .. Len(v) : (u \o v)[Len(u) + k] = v[k]
  <2> SUFFICES ASSUME NEW k \in 1 .. Len(v) PROVE (u \o v)[Len(u) + k] = v[k]
    OBVIOUS
  <2>1. PICK n : n = Len(u) + k OBVIOUS
  <2>2. n \in 1 .. Len(u) + Len(v) /\ ~(n <= Len(u)) /\ n - Len(u) = k
    BY <2>1, <1>3
  <2>3. (u \o v)[n] = v[k] BY <2>2, <1>4
  <2> QED BY <2>1, <2>3
<1> QED BY <1>1, <1>2, <1>5, <1>6

\* The numbers below b down to a, and below c down to 1.
TwoRuns(list, a, b, c) ==
    /\ DOMAIN list = 1 .. (b - a) + (c - 1)
    /\ \A k \in 1 .. b - a : list[k] = b - k
    /\ \A k \in 1 .. c - 1 : list[(b - a) + k] = c - k

\* The list has the frames of the two runs, each once.
LEMMA RunFacts ==
    ASSUME NEW a \in Nat, NEW b \in Nat, NEW c \in Nat, 1 <= c, c <= a, a <= b,
           NEW list, TwoRuns(list, a, b, c)
    PROVE  IsInjective(list) /\ Range(list) = 1 .. c - 1 \cup a .. b - 1
<1> PICK n \in Nat : n = b - a OBVIOUS
<1> /\ DOMAIN list = 1 .. n + (c - 1)
    /\ \A k \in 1 .. n : list[k] = b - k
    /\ \A k \in 1 .. c - 1 : list[n + k] = c - k
  BY DEF TwoRuns
<1>1. ASSUME NEW k \in 1 .. n + (c - 1)
      PROVE  list[k] = IF k <= n THEN b - k ELSE c - (k - n)
  <2>1. CASE k <= n BY <2>1
  <2>2. CASE k > n
    <3>1. PICK j \in 1 .. c - 1 : k = n + j
      <4>1. k - n \in 1 .. c - 1 /\ k = n + (k - n) BY <2>2
      <4> QED BY <4>1
    <3>2. list[k] = c - j BY <3>1
    <3> QED BY <3>1, <3>2, <2>2
  <2> QED BY <2>1, <2>2
<1>2. IsInjective(list)
  <2> SUFFICES ASSUME NEW j \in 1 .. n + (c - 1), NEW k \in 1 .. n + (c - 1),
                      list[j] = list[k]
               PROVE  j = k
    BY DEF IsInjective
  <2> QED BY <1>1
<1>3. ASSUME NEW f \in Range(list) PROVE f \in 1 .. c - 1 \cup a .. b - 1
  <2>1. PICK k \in 1 .. n + (c - 1) : f = list[k] BY DEF Range
  <2> QED BY <2>1, <1>1
<1>4. ASSUME NEW f \in 1 .. c - 1 PROVE f \in Range(list)
  <2>1. PICK k : k = c - f OBVIOUS
  <2>2. k \in 1 .. c - 1 /\ c - k = f BY <2>1
  <2>3. PICK j : j = n + k OBVIOUS
  <2>4. j \in DOMAIN list /\ list[j] = f BY <2>2, <2>3
  <2> QED BY <2>4 DEF Range
<1>5. ASSUME NEW f \in a .. b - 1 PROVE f \in Range(list)
  <2>1. PICK k : k = b - f OBVIOUS
  <2>2. k \in 1 .. n /\ b - k = f BY <2>1
  <2>3. k \in DOMAIN list /\ list[k] = f BY <2>2
  <2> QED BY <2>3 DEF Range
<1> QED BY <1>2, <1>3, <1>4, <1>5

\* The two parts of the free list hold different frames, each once.
LEMMA ListFacts ==
    ASSUME NEW a \in Nat, NEW b \in Nat, NEW c \in Nat, 1 <= c, c <= a, a <= b,
           NEW list, list = Descending(a, b) \o Descending(1, c)
    PROVE  /\ IsInjective(list) /\ Range(list) = 1 .. c - 1 \cup a .. b - 1
           /\ list \in Seq(Int)
<1>1. PICK u, v : u = Descending(a, b) /\ v = Descending(1, c) OBVIOUS
<1>2. u \in Seq(Int) /\ Len(u) = b - a /\ \A k \in 1 .. b - a : u[k] = b - k
  <2>1. a \in Int /\ b \in Int OBVIOUS
  <2>2. /\ Descending(a, b) \in Seq(Int)
        /\ Len(Descending(a, b)) = b - a
        /\ \A k \in 1 .. Len(Descending(a, b)) : Descending(a, b)[k] = b - k
    BY <2>1, DescendingFacts
  <2> QED BY <2>2, <1>1
<1>3. v \in Seq(Int) /\ Len(v) = c - 1 /\ \A k \in 1 .. c - 1 : v[k] = c - k
  <2>1. 1 \in Int /\ c \in Int OBVIOUS
  <2>2. /\ Descending(1, c) \in Seq(Int)
        /\ Len(Descending(1, c)) = c - 1
        /\ \A k \in 1 .. Len(Descending(1, c)) : Descending(1, c)[k] = c - k
    BY <2>1, DescendingFacts
  <2> QED BY <2>2, <1>1
<1>4. /\ list \in Seq(Int) /\ DOMAIN list = 1 .. Len(u) + Len(v)
      /\ \A k \in 1 .. Len(u) : list[k] = u[k]
      /\ \A k \in 1 .. Len(v) : list[Len(u) + k] = v[k]
  <2>1. list = u \o v BY <1>1
  <2>2. u \in Seq(Int) /\ v \in Seq(Int) BY <1>2, <1>3
  <2>3. /\ u \o v \in Seq(Int) /\ DOMAIN (u \o v) = 1 .. Len(u) + Len(v)
        /\ \A k \in 1 .. Len(u) : (u \o v)[k] = u[k]
        /\ \A k \in 1 .. Len(v) : (u \o v)[Len(u) + k] = v[k]
    BY ONLY <2>2, AppendFacts
  <2> QED BY ONLY <2>1, <2>3, Zenon
<1>5. TwoRuns(list, a, b, c) BY <1>2, <1>3, <1>4 DEF TwoRuns
<1>6. IsInjective(list) /\ Range(list) = 1 .. c - 1 \cup a .. b - 1
  BY <1>5, RunFacts, Zenon
<1> QED BY <1>4, <1>6

\* The frames in use are the first and those from the I/O hole to the last
\* boot allocation: initialize_paging's range_end.
LEMMA UseFacts ==
    ASSUME BootInv, pc = "done", Fits,
           NEW io, io = FrameOf(PHYS_IO_MEM), NEW re, re = RangeEnd(s)
    PROVE  /\ io \in Nat /\ re \in Nat /\ s.number_of_frames \in Nat
           /\ 1 <= io /\ io <= re /\ re <= s.number_of_frames
           /\ s.number_of_frames <= NumFrames
           /\ \A f \in Nat : f \in InUse <=> (f = 0 \/ (io <= f /\ f < re))
<1>1. /\ s \in Boots /\ MachineKnown(s) /\ s.ptr_free_mem # 0
      /\ Placed(s.end_of_kernel, s.ptr_free_mem, s.allocated)
      /\ Covered(s.end_of_kernel, s.ptr_free_mem, s.allocated)
  BY DEF BootInv, Sound
<1>2. /\ P \in Nat /\ P > 1
      /\ PHYS_IO_MEM \in Nat /\ PHYS_IO_MEM > 0 /\ PHYS_IO_MEM % P = 0
      /\ PHYS_EXTENDED_MEM \in Nat /\ PHYS_EXTENDED_MEM % P = 0
      /\ PHYS_IO_MEM < PHYS_EXTENDED_MEM /\ KERNEL_STACK_SIZE \in Nat \ {0}
  BY BootAssumption DEF P
<1>3. PICK e, x, top, n : /\ e = s.end_of_kernel /\ x = PHYS_EXTENDED_MEM
                          /\ top = s.ptr_free_mem /\ n = s.number_of_frames
  OBVIOUS
<1>4. e \in KernelEnds BY <1>1, <1>3 DEF Boots
<1>5. e \in Nat /\ e >= x + KERNEL_STACK_SIZE
  BY <1>3, <1>4, BootAssumption DEF StackBottom
<1>6. e > x BY <1>2, <1>3, <1>5
<1>7. top \in Nat /\ top >= ROUNDUP(e) BY <1>1, <1>3 DEF Boots, Placed
<1>8. /\ n \in Nat /\ n <= NumFrames /\ n * P = s.maxpa /\ top <= n * P
  BY <1>1, <1>3, MachineFacts DEF Fits
<1>9. io \in Nat /\ io * P = PHYS_IO_MEM BY <1>2, Rounding
<1>10. PICK q : q = ROUNDUP(top) OBVIOUS
<1>11. q \in Nat /\ q % P = 0 /\ top <= q /\ q < top + P BY <1>7, <1>10, Rounding
<1>12. re = FrameOf(q) BY <1>3, <1>10 DEF RangeEnd
<1>13. re \in Nat /\ re * P = q BY <1>11, <1>12, Rounding
<1>14. re <= n
  <2> SUFFICES ASSUME n + 1 <= re PROVE FALSE BY <1>8, <1>13
  <2>1. n * P + P <= re * P BY <1>2, <1>8, <1>13
  <2> QED BY <2>1, <1>2, <1>7, <1>8, <1>11, <1>13
<1>15. 1 <= io BY <1>2, <1>9
<1>16. PICK ek : ek = ROUNDUP(e) OBVIOUS
<1>17. ek \in Nat /\ ek % P = 0 /\ e <= ek /\ ek < e + P BY <1>5, <1>16, Rounding
<1>18. io * P < x /\ x < e /\ e <= ek /\ ek <= top /\ top <= re * P
  BY <1>2, <1>3, <1>6, <1>7, <1>9, <1>11, <1>13, <1>16, <1>17
<1>19. io <= re
  <2> SUFFICES ASSUME re + 1 <= io PROVE FALSE BY <1>9, <1>13
  <2>1. re * P + P <= io * P BY <1>2, <1>9, <1>13
  <2> QED BY <2>1, <1>2, <1>3, <1>5, <1>7, <1>9, <1>11, <1>13, <1>17, <1>18
<1>20. ASSUME NEW f \in Nat
       PROVE  f \in InUse <=> (f = 0 \/ (io <= f /\ f < re))
  <2>1. PICK y : y = f * P OBVIOUS
  <2>2. y \in Nat BY <2>1, <1>2
  <2>3. io <= f <=> PHYS_IO_MEM <= y
    BY <2>1, <1>2, <1>9
  <2>4. f < re <=> y < q BY <2>1, <1>2, <1>13
  <2>5. f \in FramesOf(PHYS_IO_MEM, x - PHYS_IO_MEM) <=> PHYS_IO_MEM <= y /\ y < x
    <3>1. PICK z \in Nat \ {0} : z = x - PHYS_IO_MEM BY <1>2, <1>3
    <3>2. f \in FramesOf(PHYS_IO_MEM, z)
            <=> PHYS_IO_MEM <= f * P /\ f * P < PHYS_IO_MEM + z
      BY <1>2, FrameIn
    <3>3. PHYS_IO_MEM + z = x BY <3>1, <1>2, <1>3
    <3> QED BY <3>1, <3>2, <3>3, <2>1
  <2>6. f \in FramesOf(x, e - x) <=> x <= y /\ y < e
    <3>1. PICK z \in Nat \ {0} : z = e - x BY <1>2, <1>3, <1>5, <1>6
    <3>2. f \in FramesOf(x, z) <=> x <= f * P /\ f * P < x + z
      BY <1>2, <1>3, FrameIn
    <3>3. x + z = e BY <3>1, <1>2, <1>3, <1>5
    <3> QED BY <3>1, <3>2, <3>3, <2>1
  <2>7. ASSUME NEW a \in s.allocated, f \in FramesOf(a[1], a[2])
        PROVE  ek <= y /\ y < top
    <3>1. PICK a1 \in Nat, a2 \in Nat : a1 = a[1] /\ a2 = a[2] BY <1>1 DEF Boots
    <3>2. a1 % P = 0 /\ a2 > 0 /\ a1 >= ek /\ a1 + a2 <= top
      BY <3>1, <1>1, <1>3, <1>16 DEF Placed
    <3>3. a1 <= f * P /\ f * P < a1 + a2
      BY <3>1, <3>2, <2>7, FrameIn
    <3> QED BY <3>2, <3>3, <2>1, <2>2, <1>7, <1>17
  <2>8. ASSUME ek <= y, y < q
        PROVE  \E a \in s.allocated : f \in FramesOf(a[1], a[2])
    <3>1. FrameOf(ek) \in Nat /\ FrameOf(ek) * P = ek BY <1>17, Rounding
    <3>2. FrameOf(ek) <= f BY <3>1, <2>8, <2>1, <1>2
    <3>3. f \in FrameOf(ROUNDUP(e)) .. FrameOf(ROUNDUP(top)) - 1
      BY <3>1, <3>2, <2>4, <2>8, <1>10, <1>12, <1>13, <1>16
    <3>4. top # 0 BY <1>1, <1>3
    <3> QED BY <3>3, <3>4, <1>1, <1>3 DEF Covered
  <2>9. y < ek => y < e
    <3>1. PICK g \in Nat : g * P = ek
      <4>1. FrameOf(ek) \in Nat /\ FrameOf(ek) * P = ek BY <1>17, Rounding
      <4> QED BY <4>1
    <3>2. ASSUME y < ek PROVE y + P <= ek
      <4>1. ~(g <= f) BY <3>1, <3>2, <2>1, <1>2
      <4>2. f * P + P <= g * P BY <4>1, <3>1, <1>2
      <4> QED BY <4>2, <3>1, <2>1
    <3> QED BY <3>2, <2>2, <1>2, <1>5, <1>17
  <2>10. f \in InUse <=>
            \/ f = 0 \/ f \in FramesOf(PHYS_IO_MEM, x - PHYS_IO_MEM)
            \/ f \in FramesOf(x, e - x)
            \/ \E a \in s.allocated : f \in FramesOf(a[1], a[2])
    BY <1>3 DEF InUse
  <2>11. (\E a \in s.allocated : f \in FramesOf(a[1], a[2])) => ek <= y /\ y < top
    BY <2>7
  <2> QED BY <2>2, <2>3, <2>4, <2>5, <2>6, <2>8, <2>9, <2>10, <2>11, <1>2, <1>3,
             <1>5, <1>7, <1>9, <1>11, <1>13, <1>17, <1>18
<1> QED BY <1>3, <1>8, <1>9, <1>13, <1>14, <1>15, <1>19, <1>20

\* initialize_paging lists the frames that nobody uses, each once, counts the
\* others, and leaves the user's part of the directory empty.
LEMMA HandOverHolds == ASSUME BootInv PROVE HandOver
<1> SUFFICES ASSUME pc = "done", Fits
             PROVE  /\ IsInjective(s.free_frame_list)
                    /\ Range(s.free_frame_list) = (0 .. s.number_of_frames - 1) \ InUse
                    /\ \A f \in 0 .. s.number_of_frames - 1 :
                        s.references[f] = IF f \in InUse THEN 1 ELSE 0
                    /\ \A d \in 0 .. PDX_UENVS - 1 : s.directory[d] = NONE
  BY DEF HandOver
<1>1. PICK io, re, n : /\ io = FrameOf(PHYS_IO_MEM) /\ re = RangeEnd(s)
                       /\ n = s.number_of_frames
  OBVIOUS
<1>2. /\ io \in Nat /\ re \in Nat /\ n \in Nat
      /\ 1 <= io /\ io <= re /\ re <= n /\ n <= NumFrames
      /\ \A f \in Nat : f \in InUse <=> (f = 0 \/ (io <= f /\ f < re))
  BY <1>1, UseFacts
<1>3. Listed(s) /\ OnlyKernel(s.directory) BY DEF BootInv, Sound
<1>4. PICK list : list = s.free_frame_list OBVIOUS
<1>5. list = Descending(re, n) \o Descending(1, io) BY <1>1, <1>3, <1>4 DEF Listed
<1>6. IsInjective(list) /\ Range(list) = 1 .. io - 1 \cup re .. n - 1
  BY <1>2, <1>5, ListFacts
<1>7. Range(list) = (0 .. n - 1) \ InUse
  <2>1. \A f : f \in 1 .. io - 1 \cup re .. n - 1
                <=> f \in 0 .. n - 1 /\ ~(f = 0 \/ (io <= f /\ f < re))
    BY <1>2
  <2>2. \A f \in 0 .. n - 1 : f \in InUse <=> (f = 0 \/ (io <= f /\ f < re))
    BY <1>2
  <2> QED BY <2>1, <2>2, <1>6
<1>8. ASSUME NEW f \in 0 .. n - 1
      PROVE  s.references[f] = IF f \in InUse THEN 1 ELSE 0
  <2>1. f \in Frames /\ f \in Nat BY <1>2, MemoryIndex DEF Frames
  <2>2. IF f \in 1 .. io - 1 \/ f \in re .. n - 1
        THEN s.references[f] = 0 ELSE f < re => s.references[f] = 1
    BY <2>1, <1>1, <1>3 DEF Listed
  <2> QED BY <2>1, <2>2, <1>2
<1>9. ASSUME NEW d \in 0 .. PDX_UENVS - 1 PROVE s.directory[d] = NONE
  <2>1. d \in Indices /\ d \notin KernelPart
    BY Layout DEF Indices, KernelPart, PDX_UENVS, PDX_FRAMES_INFO, PDX_UVPT,
                  PDX_STACK, PDX_VPT
  <2> QED BY <2>1, <1>3 DEF OnlyKernel
<1> QED BY <1>1, <1>4, <1>6, <1>7, <1>8, <1>9

\* What page_check and then the memory manager start from is what
\* initialize_paging wrote and what is in use.
THEOREM BootHandsOver == FosSpec => []HandOver
<1>1. BootInv => HandOver BY HandOverHolds
<1> QED BY <1>1, BootInvariance, PTL

-----------------------------------------------------------------------------
\* The invariant of page_check: for each group of statements, what the test
\* has made of the memory that it was given.

\* An entry holds a word of the old memory or what page_check wrote.
Words ==
    [frame : Int \cup Garbage, perm : SUBSET Test!PermBits]
Memory ==
    [free : Seq(Frames), references : [Frames -> Nat],
     directory : [UserDirs -> Words], table : [Frames -> [Slots -> Words]],
     tlb : [Test!Pages -> Words]]

Zero == Test!ZeroEntry
Mapping(f) == Test!CONSTRUCT_ENTRY(f, {Test!PERM_PRESENT})
TableEntry(f) ==
    Test!CONSTRUCT_ENTRY(f, {Test!PERM_PRESENT, Test!PERM_USER, Test!PERM_WRITEABLE})

Lists(list, S) == IsInjective(list) /\ Range(list) = S

\* A frame has no reference exactly when the boot code listed it (it is in U),
\* the test's own frames apart.
Counted(k, own, U) == \A f \in Frames \ own : k.references[f] = 0 <=> f \in U
NoTables(k) == \A d \in UserDirs : k.directory[d] = Zero

\* pp0, pp1, pp2 and pp.
Locals == [0 .. 3 -> Frames \cup {Test!NULL}]

\* The first n of the three frames p[0], p[1] and p[2] are taken.
Distinct(p, n) == \A x, y \in 0 .. n - 1 : p[x] = p[y] => x = y
Taking(n, k, p, U) ==
    LET taken == {p[x] : x \in 0 .. n - 1}
    IN  /\ k \in Memory /\ Lists(k.free, U \ taken)
        /\ Counted(k, {}, U) /\ NoTables(k)
        /\ taken \subseteq U /\ Distinct(p, n)

\* All three are taken, and the list is stolen; the free list is q now.
TestFrames(p) == {p[0], p[1], p[2]}
Three(p, U) ==
    /\ p \in Locals /\ U \subseteq Frames
    /\ p[0] \in U /\ p[1] \in U /\ p[2] \in U
    /\ p[0] # p[1] /\ p[0] # p[2] /\ p[1] # p[2]
Stolen(k, p, U, q) ==
    k \in Memory /\ Counted(k, TestFrames(p), U) /\ k.free = q

\* The counts of the three, and the first two entries of p[0] where it is the
\* page table of the first pages.
Counts(k, p, r0, r1, r2) ==
    k.references[p[0]] = r0 /\ k.references[p[1]] = r1 /\ k.references[p[2]] = r2
Table(k, p, e0, e1) ==
    /\ \A d \in UserDirs : k.directory[d] = IF d = 0 THEN TableEntry(p[0]) ELSE Zero
    /\ \A n \in Slots : k.table[p[0]][n] = IF n = 0 THEN e0
                                           ELSE IF n = 1 THEN e1 ELSE Zero

\* What memory looks like before group n of the statements.
View(n, k, p, U) ==
    LET E1 == Mapping(p[1])
        E2 == Mapping(p[2])
    IN  /\ n \in {5, 6, 7, 20} =>
            Stolen(k, p, U, <<>>) /\ Counts(k, p, 0, 0, 0) /\ NoTables(k)
        /\ n = 8 =>
            Stolen(k, p, U, <<>>) /\ Counts(k, p, 1, 1, 0) /\ Table(k, p, E1, Zero)
        /\ n \in 9 .. 13 =>
            Stolen(k, p, U, <<>>) /\ Counts(k, p, 1, 1, 1) /\ Table(k, p, E1, E2)
        /\ n = 14 =>
            Stolen(k, p, U, <<p[2]>>) /\ Counts(k, p, 1, 2, 0) /\ Table(k, p, E1, E1)
        /\ n = 15 =>
            Stolen(k, p, U, <<>>) /\ Counts(k, p, 1, 2, 0) /\ Table(k, p, E1, E1)
        /\ n = 16 =>
            Stolen(k, p, U, <<>>) /\ Counts(k, p, 1, 1, 0) /\ Table(k, p, Zero, E1)
        /\ n = 17 =>
            Stolen(k, p, U, <<p[1]>>) /\ Counts(k, p, 1, 0, 0) /\ Table(k, p, Zero, Zero)
        /\ n \in {18, 19} =>
            Stolen(k, p, U, <<>>) /\ Counts(k, p, 1, 0, 0) /\ Table(k, p, Zero, Zero)
        /\ n = 21 => Lists(k.free, U) /\ Counted(k, {}, U) /\ NoTables(k)

\* The state of page_check before group n: its memory k, its locals p, the
\* stolen list q, and the frames U that were usable at the call.
CheckState(n, k, p, q, U) ==
    /\ n \in -1 .. 21
    /\ n = 0 => Cardinality(U) \in 0 .. 2
    /\ n \in 1 .. 4 =>
        U \in SUBSET Frames /\ p \in Locals /\ Taking(n - 1, k, p, U)
    /\ n > 4 => Three(p, U) /\ View(n, k, p, U)
    /\ n \in 5 .. 20 => q \in Seq(Frames) /\ Lists(q, U \ TestFrames(p))

CheckInv == CheckState(test, m, pp, fl, usable)

-----------------------------------------------------------------------------
\* What the functions of the memory manager do to a memory state, by field.

\* A mapping, a page table's entry and the zero word: CONSTRUCT_ENTRY.
LEMMA EntryFacts ==
    ASSUME NEW f, NEW g
    PROVE  /\ Mapping(f) # Zero /\ TableEntry(f) # Zero
           /\ Mapping(f).frame = f /\ TableEntry(f).frame = f
           /\ Test!PERM_PRESENT \in Mapping(f).perm
           /\ Test!PERM_PRESENT \in TableEntry(f).perm
           /\ Test!PERM_PRESENT \notin Zero.perm
           /\ (Mapping(f) = Mapping(g) <=> f = g)
BY DEF Mapping, TableEntry, Zero, Test!CONSTRUCT_ENTRY, Test!ZeroEntry

\* Frame numbers may stand in entries.
LEMMA EntryTypes ==
    /\ Zero \in Words
    /\ \A f \in Frames : Mapping(f) \in Words /\ TableEntry(f) \in Words
<1>1. NumFrames \in Nat BY MemoryIndex
<1>2. \A f \in Frames : f \in Int BY <1>1 DEF Frames
<1>3. Zero \in Words BY DEF Zero, Words, Test!ZeroEntry, Test!PermBits
<1>4. \A f \in Frames : Mapping(f) \in Words /\ TableEntry(f) \in Words
  BY <1>2 DEF Mapping, TableEntry, Words, Test!CONSTRUCT_ENTRY, Test!PermBits
<1> QED BY <1>3, <1>4

\* One field of a memory state.
SetFree(k, x) == [k EXCEPT !.free = x]
SetReferences(k, x) == [k EXCEPT !.references = x]
SetDirectory(k, x) == [k EXCEPT !.directory = x]
SetTable(k, x) == [k EXCEPT !.table = x]
SetTlb(k, x) == [k EXCEPT !.tlb = x]

\* u is a memory state with these fields.
Fields(u, list, refs, dir, tab) ==
    /\ u \in Memory /\ u.free = list /\ u.references = refs
    /\ u.directory = dir /\ u.table = tab

\* A memory state with one field set keeps the others.
LEMMA SetFields ==
    ASSUME NEW k \in Memory
    PROVE  /\ \A x \in Seq(Frames) : Fields(SetFree(k, x), x, k.references, k.directory, k.table)
           /\ \A x \in [Frames -> Nat] :
                Fields(SetReferences(k, x), k.free, x, k.directory, k.table)
           /\ \A x \in [UserDirs -> Words] :
                Fields(SetDirectory(k, x), k.free, k.references, x, k.table)
           /\ \A x \in [Frames -> [Slots -> Words]] :
                Fields(SetTable(k, x), k.free, k.references, k.directory, x)
           /\ \A x \in [Test!Pages -> Words] :
                Fields(SetTlb(k, x), k.free, k.references, k.directory, k.table)
<1>1. \A x \in Seq(Frames) : Fields(SetFree(k, x), x, k.references, k.directory, k.table)
  BY DEF SetFree, Fields, Memory
<1>2. \A x \in [Frames -> Nat] :
        Fields(SetReferences(k, x), k.free, x, k.directory, k.table)
  BY DEF SetReferences, Fields, Memory
<1>3. \A x \in [UserDirs -> Words] :
        Fields(SetDirectory(k, x), k.free, k.references, x, k.table)
  BY DEF SetDirectory, Fields, Memory
<1>4. \A x \in [Frames -> [Slots -> Words]] :
        Fields(SetTable(k, x), k.free, k.references, k.directory, x)
  BY DEF SetTable, Fields, Memory
<1>5. \A x \in [Test!Pages -> Words] :
        Fields(SetTlb(k, x), k.free, k.references, k.directory, k.table)
  BY DEF SetTlb, Fields, Memory
<1> QED BY <1>1, <1>2, <1>3, <1>4, <1>5

\* The fields of a memory state.
LEMMA MemoryTypes ==
    ASSUME NEW k \in Memory
    PROVE  /\ k.free \in Seq(Frames) /\ k.references \in [Frames -> Nat]
           /\ k.directory \in [UserDirs -> Words]
           /\ k.table \in [Frames -> [Slots -> Words]]
           /\ k.tlb \in [Test!Pages -> Words]
BY DEF Memory

\* A store into a page table.
Stored(tab, t, n, e) == [tab EXCEPT ![t] = [tab[t] EXCEPT ![n] = e]]

\* The store changes one entry of one table.
LEMMA StoredFacts ==
    ASSUME NEW tab \in [Frames -> [Slots -> Words]], NEW t \in Frames,
           NEW n \in Slots, NEW e \in Words
    PROVE  /\ Stored(tab, t, n, e) \in [Frames -> [Slots -> Words]]
           /\ Stored(tab, t, n, e)[t][n] = e
           /\ \A j \in Slots \ {n} : Stored(tab, t, n, e)[t][j] = tab[t][j]
<1>1. PICK row : row = [tab[t] EXCEPT ![n] = e] OBVIOUS
<1>2. row \in [Slots -> Words] /\ row[n] = e /\ \A j \in Slots \ {n} : row[j] = tab[t][j]
  BY <1>1
<1>3. Stored(tab, t, n, e) = [tab EXCEPT ![t] = row] BY <1>1 DEF Stored
<1>4. [tab EXCEPT ![t] = row] \in [Frames -> [Slots -> Words]] BY <1>2
<1>5. [tab EXCEPT ![t] = row][t] = row OBVIOUS
<1> QED BY <1>2, <1>3, <1>4, <1>5

\* A page table entry is written (map_frame, unmap_frame).
LEMMA StoreWord ==
    ASSUME NEW k \in Memory, NEW t \in Frames, NEW n \in Slots, NEW e \in Words,
           NEW u, u = [k EXCEPT !.table[t][n] = e]
    PROVE  Fields(u, k.free, k.references, k.directory, Stored(k.table, t, n, e))
<1>1. u = SetTable(k, Stored(k.table, t, n, e)) BY Zenon DEF SetTable, Stored
<1>2. Stored(k.table, t, n, e) \in [Frames -> [Slots -> Words]]
  BY MemoryTypes, StoredFacts
<1> QED BY <1>1, <1>2, SetFields

\* The count of a frame is written (references of Frame_Info).
LEMMA StoreCount ==
    ASSUME NEW k \in Memory, NEW f \in Frames, NEW c \in Nat,
           NEW u, u = [k EXCEPT !.references[f] = c]
    PROVE  Fields(u, k.free, [k.references EXCEPT ![f] = c], k.directory, k.table)
<1>1. u = SetReferences(k, [k.references EXCEPT ![f] = c]) BY Zenon DEF SetReferences
<1>2. [k.references EXCEPT ![f] = c] \in [Frames -> Nat] BY MemoryTypes
<1> QED BY <1>1, <1>2, SetFields

\* The end of map_frame: references++ and the new entry.
LEMMA WriteFields ==
    ASSUME NEW k \in Memory, NEW f \in Frames, NEW t \in Frames,
           NEW va \in Test!Pages, NEW u, u = Test!WriteEntry(k, f, t, va, {})
    PROVE  Fields(u, k.free,
                  [k.references EXCEPT ![f] = (k.references[f] + 1) % RefModulus],
                  k.directory, Stored(k.table, t, va[2], Mapping(f)))
<1> DEFINE c == (k.references[f] + 1) % RefModulus
           w == [k EXCEPT !.references[f] = c]
           e == Test!CONSTRUCT_ENTRY(f, {} \cup {Test!PERM_PRESENT})
<1>1. u = [w EXCEPT !.table[t][va[2]] = e]
  BY Zenon DEF Test!WriteEntry, Test!PTX
<1>2. e = Mapping(f)
  <2>1. {} \cup {Test!PERM_PRESENT} = {Test!PERM_PRESENT} OBVIOUS
  <2> QED BY <2>1 DEF Mapping
<1> HIDE DEF e
<1>3. c \in Nat
  <2>1. k.references[f] \in Nat BY MemoryTypes
  <2> QED BY <2>1 DEF RefModulus
<1> HIDE DEF c
<1>4. Fields(w, k.free, [k.references EXCEPT ![f] = c], k.directory, k.table)
  BY <1>3, StoreCount
<1> HIDE DEF w
<1>5. va[2] \in Slots /\ e \in Words BY <1>2, EntryTypes DEF Test!Pages
<1>6. w \in Memory BY <1>4 DEF Fields
<1>7. Fields(u, w.free, w.references, w.directory, Stored(w.table, t, va[2], e))
  BY <1>1, <1>5, <1>6, StoreWord
<1> QED BY <1>2, <1>4, <1>7 DEF Fields, c

\* unmap_frame of a mapped page, by field.
LEMMA UnmapFields ==
    ASSUME NEW k \in Memory, NEW f \in Frames, NEW t \in Frames,
           NEW va \in Test!Pages, NEW u, u = Test!unmap_frame(k, va),
           k.directory[va[1]] = TableEntry(t), k.table[t][va[2]] = Mapping(f),
           NEW c, c = (k.references[f] - 1) % RefModulus
    PROVE  Fields(u, IF c = 0 THEN <<f>> \o k.free ELSE k.free,
                  [k.references EXCEPT ![f] = c], k.directory,
                  Stored(k.table, t, va[2], Zero))
<1> DEFINE w == [k EXCEPT !.references[f] = (k.references[f] - 1) % RefModulus]
           d == IF w.references[f] = 0 THEN [w EXCEPT !.free = <<f>> \o w.free] ELSE w
           x == [d EXCEPT !.table[t][va[2]] = Zero]
<1>1. t # Test!NULL /\ f # Test!NULL
  BY MemoryIndex DEF Frames, Test!NULL
<1>2. Test!get_page_table(k, va, FALSE).table = t
  BY EntryFacts DEF Test!get_page_table, Test!PDX, Zero
<1>3. Test!get_frame_info(k, va) = [table |-> t, frame |-> f]
  BY <1>1, <1>2, EntryFacts DEF Test!get_frame_info, Test!PTX, Zero
<1>4. Test!decrement_references(k, f) = d
  BY Zenon DEF Test!decrement_references, Test!free_frame, Test!LIST_INSERT_HEAD
<1> HIDE DEF d
<1>5. u = [x EXCEPT !.tlb[va] = Zero]
  <2>1. PICK y : y = Test!get_frame_info(k, va) OBVIOUS
  <2>2. y.table = t /\ y.frame = f BY <1>3, <2>1
  <2>3. u = [[Test!decrement_references(k, y.frame)
                EXCEPT !.table[y.table][va[2]] = Zero] EXCEPT !.tlb[va] = Zero]
    BY <1>1, <2>1, <2>2, Zenon DEF Test!unmap_frame, Test!tlb_invalidate, Test!PTX, Zero
  <2> QED BY <1>4, <2>2, <2>3, Zenon
<1>6. c \in Nat
  <2>1. k.references[f] \in Nat BY MemoryTypes
  <2> QED BY <2>1 DEF RefModulus
<1>7. Fields(w, k.free, [k.references EXCEPT ![f] = c], k.directory, k.table)
  <2>1. w = [k EXCEPT !.references[f] = c] BY Zenon
  <2> QED BY <1>6, <2>1, StoreCount
<1>8. w.references[f] = c
  <2>1. w.references = [k.references EXCEPT ![f] = c] BY <1>7 DEF Fields
  <2>2. k.references \in [Frames -> Nat] BY MemoryTypes
  <2> HIDE DEF w
  <2> QED BY <2>1, <2>2
<1>9. w \in Memory BY <1>7 DEF Fields
<1> HIDE DEF w
<1>10. Fields(d, IF c = 0 THEN <<f>> \o k.free ELSE k.free,
              [k.references EXCEPT ![f] = c], k.directory, k.table)
  <2>1. CASE c = 0
    <3>1. d = SetFree(w, <<f>> \o w.free) BY <1>8, <2>1, Zenon DEF d, SetFree
    <3>2. w.free = k.free BY <1>7 DEF Fields
    <3>3. <<f>> \o w.free \in Seq(Frames)
      <4>1. w.free \in Seq(Frames) BY <1>9, MemoryTypes
      <4>2. <<f>> \in Seq(Frames) OBVIOUS
      <4> QED BY <4>1, <4>2
    <3>4. Fields(SetFree(w, <<f>> \o w.free), <<f>> \o w.free, w.references,
                 w.directory, w.table)
      BY <1>9, <3>3, SetFields
    <3> QED BY <1>7, <2>1, <3>1, <3>2, <3>4 DEF Fields
  <2>2. CASE c # 0
    <3>1. d = w BY <1>8, <2>2, Zenon DEF d
    <3> QED BY <1>7, <2>2, <3>1
  <2> QED BY <2>1, <2>2
<1>11. d \in Memory /\ d.table = k.table /\ va[2] \in Slots /\ Zero \in Words
  BY <1>10, EntryTypes DEF Fields, Test!Pages
<1>12. Fields(x, d.free, d.references, d.directory, Stored(d.table, t, va[2], Zero))
  BY <1>11, StoreWord
<1> HIDE DEF x
<1>13. u = SetTlb(x, [x.tlb EXCEPT ![va] = Zero]) BY <1>5, Zenon DEF SetTlb
<1>14. x \in Memory BY <1>12 DEF Fields
<1>15. [x.tlb EXCEPT ![va] = Zero] \in [Test!Pages -> Words]
  <2>1. x.tlb \in [Test!Pages -> Words] BY <1>14, MemoryTypes
  <2> QED BY <1>11, <2>1
<1>16. Fields(u, x.free, x.references, x.directory, x.table)
  BY <1>13, <1>14, <1>15, SetFields
<1> QED BY <1>10, <1>12, <1>16 DEF Fields

\* get_page_table with a table, without one and without memory for it, and
\* with one free frame for it.
LEMMA TableFound ==
    ASSUME NEW k, NEW t, NEW va, k.directory[va[1]] = TableEntry(t)
    PROVE  Test!get_page_table(k, va, TRUE) = [ret |-> 0, table |-> t, mem |-> k]
<1>1. PICK pde : pde = k.directory[va[1]] OBVIOUS
<1>2. pde # Zero /\ pde.frame = t BY <1>1, EntryFacts
<1> QED BY <1>1, <1>2, Zenon DEF Test!get_page_table, Test!PDX, Zero

\* allocate_frame with an empty list returns E_NO_MEM.
LEMMA AllocateNone ==
    ASSUME NEW k, k.free = <<>>
    PROVE  Test!allocate_frame(k) = [ret |-> Test!E_NO_MEM, frame |-> Test!NULL, mem |-> k]
BY Zenon DEF Test!allocate_frame

\* map_frame returns E_NO_MEM, and has changed nothing, when
\* get_page_table finds neither a table nor a frame for one.
LEMMA NoFrameForTable ==
    ASSUME NEW k, NEW f, NEW va, k.directory[va[1]] = Zero, k.free = <<>>,
           NEW r, r = Test!map_frame(k, f, va, {})
    PROVE  r.ret = -4 /\ r.mem = k
<1>1. PICK a : a = Test!allocate_frame(k) OBVIOUS
<1>2. a.ret = Test!E_NO_MEM BY <1>1, AllocateNone
<1>3. PICK g : g = Test!get_page_table(k, va, TRUE) OBVIOUS
<1>4. g = [ret |-> Test!E_NO_MEM, table |-> Test!NULL, mem |-> k]
  BY <1>1, <1>2, <1>3, Zenon DEF Test!get_page_table, Test!PDX, Zero
<1>5. g.ret # 0 /\ g.mem = k BY <1>4 DEF Test!E_NO_MEM
<1>6. r = [ret |-> Test!E_NO_MEM, mem |-> g.mem]
  BY <1>3, <1>5, Zenon DEF Test!map_frame
<1> QED BY <1>5, <1>6 DEF Test!E_NO_MEM

\* allocate_frame takes the first frame off the list.
LEMMA AllocateHead ==
    ASSUME NEW k \in Memory, k.free # <<>>, NEW f, f = Head(k.free),
           NEW a, a = Test!allocate_frame(k)
    PROVE  /\ a.ret = 0 /\ a.frame = f /\ f \in Frames
           /\ Fields(a.mem, Tail(k.free), [k.references EXCEPT ![f] = 0],
                     k.directory, k.table)
<1>1. k.free \in Seq(Frames) BY MemoryTypes
<1>2. f \in Frames /\ Tail(k.free) \in Seq(Frames) BY <1>1
<1> DEFINE w == SetFree(k, Tail(k.free))
           u == [w EXCEPT !.references[f] = 0]
<1>3. a = [ret |-> 0, frame |-> f, mem |-> u]
  BY Zenon DEF Test!allocate_frame, Test!initialize_frame_info,
               Test!LIST_REMOVE_FIRST, SetFree
<1>4. Fields(w, Tail(k.free), k.references, k.directory, k.table)
  BY <1>2, SetFields
<1> HIDE DEF w
<1>5. w \in Memory BY <1>4 DEF Fields
<1>6. Fields(u, w.free, [w.references EXCEPT ![f] = 0], w.directory, w.table)
  <2>1. 0 \in Nat OBVIOUS
  <2> QED BY <2>1, <1>2, <1>5, StoreCount
<1> HIDE DEF u
<1>7. Fields(u, Tail(k.free), [k.references EXCEPT ![f] = 0], k.directory, k.table)
  BY <1>4, <1>6 DEF Fields
<1> QED BY <1>2, <1>3, <1>7

\* The fields of a result of get_page_table.
LEMMA ResultFields ==
    ASSUME NEW g, NEW t, NEW h, g = [ret |-> 0, table |-> t, mem |-> h]
    PROVE  g.ret = 0 /\ g.table = t /\ g.mem = h
OBVIOUS

\* get_page_table gives table t and leaves state h.
TableIs(k, va, t, h) ==
    LET g == Test!get_page_table(k, va, TRUE)
    IN  g.ret = 0 /\ g.table = t /\ g.mem = h

\* get_page_table needs a table at va, t is the only free frame; the state h
\* that it leaves then.
NeedsTable(k, va, t) ==
    /\ k \in Memory /\ t \in Frames /\ va \in Test!Pages
    /\ k.directory[va[1]] = Zero /\ k.free = <<t>>
TableAdded(k, va, t, h) ==
    Fields(h, <<>>, [k.references EXCEPT ![t] = 1],
           [k.directory EXCEPT ![va[1]] = TableEntry(t)],
           [k.table EXCEPT ![t] = [n \in Slots |-> Zero]])

\* get_page_table takes the last free frame for the page table, and clears it.
LEMMA TableCreated ==
    ASSUME NEW k, NEW t, NEW va, NeedsTable(k, va, t)
    PROVE  \E h : TableIs(k, va, t, h) /\ TableAdded(k, va, t, h)
<1> USE DEF NeedsTable, TableAdded
<1>0. PICK g : g = Test!get_page_table(k, va, TRUE) OBVIOUS
<1>1. PICK a : a = Test!allocate_frame(k) OBVIOUS
<1>2. PICK b : b = a.mem OBVIOUS
<1>3. k.free # <<>> /\ Head(k.free) = t /\ Tail(k.free) = <<>> OBVIOUS
<1>4. /\ a.ret = 0 /\ a.frame = t
      /\ Fields(b, <<>>, [k.references EXCEPT ![t] = 0], k.directory, k.table)
  BY <1>1, <1>2, <1>3, AllocateHead
<1>5. b \in Memory BY <1>4 DEF Fields
<1>6. a.ret # Test!E_NO_MEM BY <1>4 DEF Test!E_NO_MEM
<1>7. g = [ret |-> 0, table |-> a.frame, mem |-> Test!InstallTable(a.mem, a.frame, va[1])]
  <2>1. Test!allocate_frame(k).ret # Test!E_NO_MEM BY <1>1, <1>6
  <2>2. g = [ret |-> 0, table |-> Test!allocate_frame(k).frame,
             mem |-> Test!InstallTable(Test!allocate_frame(k).mem,
                                       Test!allocate_frame(k).frame, va[1])]
    BY <1>0, <2>1, Zenon DEF Test!get_page_table, Test!PDX, Zero
  <2> QED BY <1>1, <2>2, Zenon
<1>8. g.ret = 0 /\ g.table = t /\ g.mem = Test!InstallTable(b, t, va[1])
  <2>1. PICK h : h = Test!InstallTable(a.mem, a.frame, va[1]) OBVIOUS
  <2>2. g = [ret |-> 0, table |-> a.frame, mem |-> h] BY <1>7, <2>1, Zenon
  <2>3. g.ret = 0 /\ g.table = a.frame /\ g.mem = h
    BY <2>2, ResultFields, Zenon
  <2>4. h = Test!InstallTable(b, t, va[1]) BY <1>2, <1>4, <2>1, Zenon
  <2> QED BY <1>4, <2>3, <2>4
<1> DEFINE row == [n \in Slots |-> Zero]
           x == SetTable(b, [b.table EXCEPT ![t] = row])
           y == SetReferences(x, [x.references EXCEPT ![t] = 1])
           z == SetDirectory(y, [y.directory EXCEPT ![va[1]] = TableEntry(t)])
<1>9. g.mem = z
  BY <1>8, Zenon DEF Test!InstallTable, Test!ZeroTable, SetTable, SetReferences,
                     SetDirectory, TableEntry, Zero
<1>10. va[1] \in UserDirs BY DEF Test!Pages
<1>11. row \in [Slots -> Words] BY EntryTypes
<1>12. [b.table EXCEPT ![t] = row] \in [Frames -> [Slots -> Words]]
  <2>1. b.table \in [Frames -> [Slots -> Words]] BY <1>5, MemoryTypes
  <2> HIDE DEF row
  <2> QED BY <2>1, <1>11
<1> HIDE DEF row
<1>13. Fields(x, b.free, b.references, b.directory, [b.table EXCEPT ![t] = row])
  BY <1>5, <1>12, SetFields
<1>14. x \in Memory BY <1>13 DEF Fields
<1> HIDE DEF x
<1>15. [x.references EXCEPT ![t] = 1] \in [Frames -> Nat]
  <2>1. x.references \in [Frames -> Nat] BY <1>14, MemoryTypes
  <2> QED BY <2>1
<1>16. Fields(y, x.free, [x.references EXCEPT ![t] = 1], x.directory, x.table)
  BY <1>14, <1>15, SetFields
<1>17. y \in Memory BY <1>16 DEF Fields
<1> HIDE DEF y
<1>18. [y.directory EXCEPT ![va[1]] = TableEntry(t)] \in [UserDirs -> Words]
  <2>1. y.directory \in [UserDirs -> Words] BY <1>17, MemoryTypes
  <2>2. TableEntry(t) \in Words BY EntryTypes
  <2> QED BY <2>1, <2>2, <1>10
<1>19. Fields(z, y.free, y.references,
              [y.directory EXCEPT ![va[1]] = TableEntry(t)], y.table)
  BY <1>17, <1>18, SetFields
<1> HIDE DEF z
<1>20. Fields(z, <<>>, [x.references EXCEPT ![t] = 1],
              [k.directory EXCEPT ![va[1]] = TableEntry(t)],
              [k.table EXCEPT ![t] = row])
  BY <1>4, <1>13, <1>16, <1>19 DEF Fields
<1>21. [x.references EXCEPT ![t] = 1] = [k.references EXCEPT ![t] = 1]
  <2>1. x.references = [k.references EXCEPT ![t] = 0] BY <1>4, <1>13 DEF Fields
  <2>2. k.references \in [Frames -> Nat] BY MemoryTypes
  <2> QED BY <2>1, <2>2
<1>22. TableIs(k, va, t, g.mem) BY <1>0, <1>8, Zenon DEF TableIs
<1>23. TableAdded(k, va, t, g.mem) BY <1>9, <1>20, <1>21 DEF row
<1> QED BY <1>22, <1>23

\* map_frame, where the page table is there or has just been made, and the
\* page is not mapped.
NotMapped(h, va, t) == h.table[t][va[2]] = Zero

\* map_frame writes the entry of a page that is not mapped.
LEMMA MapFresh ==
    ASSUME NEW k, NEW f, NEW va, NEW t, NEW h, TableIs(k, va, t, h),
           NotMapped(h, va, t), NEW r, r = Test!map_frame(k, f, va, {})
    PROVE  r.ret = 0 /\ r.mem = Test!WriteEntry(h, f, t, va, {})
<1>1. PICK e : e = h.table[t][va[2]] OBVIOUS
<1>2. Test!PERM_PRESENT \notin e.perm BY <1>1, EntryFacts DEF NotMapped
<1>3. PICK g : g = Test!get_page_table(k, va, TRUE) OBVIOUS
<1>4. g.ret = 0 /\ g.table = t /\ g.mem = h BY <1>3, Zenon DEF TableIs
<1>5. r = [ret |-> 0, mem |-> Test!WriteEntry(h, f, t, va, {})]
  BY <1>1, <1>2, <1>3, <1>4, Zenon DEF Test!map_frame, Test!PTX
<1> QED BY <1>5

\* map_frame of the frame that is already there changes nothing.
LEMMA MapSame ==
    ASSUME NEW k, NEW f, NEW va, NEW t, k.directory[va[1]] = TableEntry(t),
           k.table[t][va[2]] = Mapping(f), NEW r, r = Test!map_frame(k, f, va, {})
    PROVE  r.ret = 0 /\ r.mem = k
<1>1. PICK e : e = k.table[t][va[2]] OBVIOUS
<1>2. Test!PERM_PRESENT \in e.perm /\ e.frame = f BY <1>1, EntryFacts
<1>3. PICK g : g = Test!get_page_table(k, va, TRUE) OBVIOUS
<1>4. g = [ret |-> 0, table |-> t, mem |-> k] BY <1>3, TableFound, Zenon
<1>5. g.ret = 0 /\ g.table = t /\ g.mem = k BY <1>4
<1>6. r = [ret |-> 0, mem |-> k]
  BY <1>1, <1>2, <1>3, <1>5, Zenon DEF Test!map_frame, Test!PTX
<1> QED BY <1>6

\* map_frame over another frame unmaps that frame first.
LEMMA MapOther ==
    ASSUME NEW k, NEW f, NEW va, NEW t, NEW old, k.directory[va[1]] = TableEntry(t),
           k.table[t][va[2]] = Mapping(old), old # f,
           NEW r, r = Test!map_frame(k, f, va, {})
    PROVE  r.ret = 0 /\ r.mem = Test!WriteEntry(Test!unmap_frame(k, va), f, t, va, {})
<1>1. PICK e : e = k.table[t][va[2]] OBVIOUS
<1>2. Test!PERM_PRESENT \in e.perm /\ e.frame # f BY <1>1, EntryFacts
<1>3. PICK g : g = Test!get_page_table(k, va, TRUE) OBVIOUS
<1>4. g = [ret |-> 0, table |-> t, mem |-> k] BY <1>3, TableFound, Zenon
<1>5. g.ret = 0 /\ g.table = t /\ g.mem = k BY <1>4
<1>6. r = [ret |-> 0, mem |-> Test!WriteEntry(Test!unmap_frame(k, va), f, t, va, {})]
  BY <1>1, <1>2, <1>3, <1>5, Zenon DEF Test!map_frame, Test!PTX
<1> QED BY <1>6

-----------------------------------------------------------------------------
\* The groups of statements of page_check, one lemma each, on a memory state k
\* with the frames p of the test and the usable frames U.

\* What page_check puts into a page table, and where it leads.
Leads(e) == e = Zero \/ \E f : e = Mapping(f)
Target(e) == IF e = Zero THEN Test!NULL ELSE e.frame

\* check_va2pa, where page_check's table is in the directory.
LEMMA Translation ==
    ASSUME NEW k, NEW p, NEW e0, NEW e1, Leads(e0), Leads(e1),
           Table(k, p, e0, e1)
    PROVE  /\ Test!check_va2pa(k, Test!va0) = Target(e0)
           /\ Test!check_va2pa(k, Test!vaPage) = Target(e1)
           /\ \A va \in Test!Pages :
                Test!check_va2pa(k, va) \in {Test!NULL, Target(e0), Target(e1)}
<1>1. ASSUME NEW va \in Test!Pages
      PROVE  Test!check_va2pa(k, va) =
                IF va[1] # 0 THEN Test!NULL
                ELSE IF va[2] = 0 THEN Target(e0)
                ELSE IF va[2] = 1 THEN Target(e1) ELSE Test!NULL
  <2>1. va[1] \in UserDirs /\ va[2] \in Slots BY DEF Test!Pages
  <2>2. PICK d, w : d = k.directory[va[1]] /\ w = Test!Walk(k, va) OBVIOUS
  <2>3. Test!check_va2pa(k, va) = IF Test!PERM_PRESENT \in w.perm THEN w.frame
                                  ELSE Test!NULL
    BY <2>2 DEF Test!check_va2pa, Test!Translates
  <2>4. w = IF Test!PERM_PRESENT \in d.perm THEN k.table[d.frame][va[2]] ELSE Zero
    BY <2>2, Zenon DEF Test!Walk, Test!PDX, Test!PTX, Zero
  <2>5. CASE va[1] # 0
    <3>1. d = Zero BY <2>1, <2>2, <2>5 DEF Table
    <3>2. w = Zero BY <2>4, <3>1, EntryFacts
    <3> QED BY <2>3, <2>5, <3>2, EntryFacts
  <2>6. CASE va[1] = 0
    <3>1. d = TableEntry(p[0]) BY <2>1, <2>2, <2>6 DEF Table
    <3>2. w = k.table[p[0]][va[2]] BY <2>4, <3>1, EntryFacts
    <3>3. w = IF va[2] = 0 THEN e0 ELSE IF va[2] = 1 THEN e1 ELSE Zero
      BY <2>1, <3>2 DEF Table
    <3>4. Test!check_va2pa(k, va) = Target(w)
      <4>1. CASE w = Zero BY <2>3, <4>1, EntryFacts DEF Target
      <4>2. CASE w # Zero
        <5>1. PICK f : w = Mapping(f) BY <3>3, <4>2 DEF Leads
        <5> QED BY <2>3, <4>2, <5>1, EntryFacts DEF Target
      <4> QED BY <4>1, <4>2
    <3>5. Target(Zero) = Test!NULL BY DEF Target
    <3> QED BY <2>6, <3>3, <3>4, <3>5
  <2> QED BY <2>5, <2>6
<1>2. /\ Test!va0 \in Test!Pages /\ Test!vaPage \in Test!Pages
      /\ Test!va0[1] = 0 /\ Test!va0[2] = 0 /\ Test!vaPage[1] = 0 /\ Test!vaPage[2] = 1
  BY PageCheckAssumption DEF Test!va0, Test!vaPage, Test!Pages
<1> QED BY <1>1, <1>2

\* The addresses page_check uses.
LEMMA Addresses ==
    /\ Test!va0 \in Test!Pages /\ Test!vaPage \in Test!Pages
    /\ Test!vaTable \in Test!Pages
    /\ Test!va0[1] = 0 /\ Test!va0[2] = 0 /\ Test!vaPage[1] = 0 /\ Test!vaPage[2] = 1
    /\ Test!vaTable[1] = 1
    /\ 0 \in UserDirs /\ 1 \in UserDirs /\ 0 \in Slots /\ 1 \in Slots
BY PageCheckAssumption DEF Test!va0, Test!vaPage, Test!vaTable, Test!Pages

\* No free memory for the first page table.
LEMMA Group6 ==
    ASSUME NEW k, NEW p, NEW U, Three(p, U), View(6, k, p, U),
           NEW r, r = Test!map_frame(k, p[1], Test!va0, {})
    PROVE  r.ret = -4 /\ View(7, r.mem, p, U)
<1>1. k.free = <<>> /\ NoTables(k) BY DEF View, Stolen
<1>2. k.directory[Test!va0[1]] = Zero BY <1>1, Addresses DEF NoTables
<1>3. r.ret = -4 /\ r.mem = k BY <1>1, <1>2, NoFrameForTable
<1> QED BY <1>3 DEF View

\* Nor for another one.
LEMMA Group12 ==
    ASSUME NEW k, NEW p, NEW U, Three(p, U), View(12, k, p, U),
           NEW r, r = Test!map_frame(k, p[0], Test!vaTable, {})
    PROVE  r.ret = -4 /\ View(13, r.mem, p, U)
<1>1. k.free = <<>> /\ Table(k, p, Mapping(p[1]), Mapping(p[2])) BY DEF View, Stolen
<1>2. k.directory[Test!vaTable[1]] = Zero BY <1>1, Addresses DEF Table
<1>3. r.ret = -4 /\ r.mem = k BY <1>1, <1>2, NoFrameForTable
<1> QED BY <1>3 DEF View

\* p[0] becomes the page table, and p[1] is mapped in it.
LEMMA Group7 ==
    ASSUME NEW k, NEW p, NEW U, Three(p, U), View(7, k, p, U),
           NEW r, r = Test!map_frame(Test!free_frame(k, p[0]), p[1], Test!va0, {})
    PROVE  /\ r.ret = 0 /\ View(8, r.mem, p, U)
<1>1. /\ k \in Memory /\ Counted(k, TestFrames(p), U) /\ k.free = <<>>
      /\ Counts(k, p, 0, 0, 0) /\ NoTables(k)
  BY DEF View, Stolen
<1>2. p[0] \in Frames /\ p[1] \in Frames /\ p[2] \in Frames
      /\ p[0] # p[1] /\ p[0] # p[2] /\ p[1] # p[2]
  BY DEF Three
<1>3. PICK v : v = Test!free_frame(k, p[0]) OBVIOUS
<1>4. Fields(v, <<p[0]>>, k.references, k.directory, k.table)
  <2>1. v = SetFree(k, <<p[0]>> \o k.free)
    BY <1>3, Zenon DEF Test!free_frame, Test!LIST_INSERT_HEAD, SetFree
  <2>2. <<p[0]>> \o k.free = <<p[0]>> /\ <<p[0]>> \in Seq(Frames) BY <1>1, <1>2
  <2> QED BY <1>1, <2>1, <2>2, SetFields
<1>5. v \in Memory /\ v.free = <<p[0]>> /\ v.directory = k.directory
      /\ v.table = k.table /\ v.references = k.references
  BY <1>4 DEF Fields
<1>6. v.directory[Test!va0[1]] = Zero BY <1>1, <1>5, Addresses DEF NoTables
<1>7. PICK row : row = [n \in Slots |-> Zero] OBVIOUS
<1>8. PICK h : TableIs(v, Test!va0, p[0], h) /\ TableAdded(v, Test!va0, p[0], h)
  <2>1. NeedsTable(v, Test!va0, p[0])
    BY <1>2, <1>5, <1>6, Addresses DEF NeedsTable
  <2> QED BY <2>1, TableCreated
<1>9. Fields(h, <<>>, [k.references EXCEPT ![p[0]] = 1],
             [k.directory EXCEPT ![0] = TableEntry(p[0])],
             [k.table EXCEPT ![p[0]] = row])
  <2>1. Test!va0[1] = 0 BY Addresses
  <2> QED BY <1>5, <1>7, <1>8, <2>1, Zenon DEF TableAdded
<1>10. h \in Memory BY <1>9 DEF Fields
<1>11. h.table[p[0]] = row
  <2>1. h.table = [k.table EXCEPT ![p[0]] = row] BY <1>9 DEF Fields
  <2>2. k.table \in [Frames -> [Slots -> Words]] BY <1>1, MemoryTypes
  <2> QED BY <1>2, <2>1, <2>2
<1>12. h.table[p[0]][Test!va0[2]] = Zero BY <1>7, <1>11, Addresses
<1>13. r.ret = 0 /\ r.mem = Test!WriteEntry(h, p[1], p[0], Test!va0, {})
  <2>1. NotMapped(h, Test!va0, p[0]) BY <1>12, Zenon DEF NotMapped
  <2>2. r = Test!map_frame(v, p[1], Test!va0, {}) BY <1>3, Zenon
  <2> QED BY <1>8, <2>1, <2>2, MapFresh
<1>14. PICK u : u = r.mem OBVIOUS
<1>15. Fields(u, h.free, [h.references EXCEPT ![p[1]] = (h.references[p[1]] + 1) % RefModulus],
              h.directory, Stored(h.table, p[0], 0, Mapping(p[1])))
  BY <1>2, <1>10, <1>13, <1>14, WriteFields, Addresses
<1>16. u \in Memory /\ u.free = <<>> BY <1>9, <1>15 DEF Fields
<1>17. /\ u.references[p[0]] = 1 /\ u.references[p[1]] = 1 /\ u.references[p[2]] = 0
       /\ \A f \in Frames \ TestFrames(p) : u.references[f] = k.references[f]
  <2>1. /\ h.references = [k.references EXCEPT ![p[0]] = 1]
        /\ u.references = [h.references EXCEPT ![p[1]] = (h.references[p[1]] + 1) % RefModulus]
    BY <1>9, <1>15 DEF Fields
  <2>2. k.references \in [Frames -> Nat] BY <1>1, MemoryTypes
  <2>3. k.references[p[0]] = 0 /\ k.references[p[1]] = 0 /\ k.references[p[2]] = 0
    BY <1>1 DEF Counts
  <2> QED BY <1>2, <2>1, <2>2, <2>3 DEF RefModulus, TestFrames
<1>18. \A d \in UserDirs : u.directory[d] = IF d = 0 THEN TableEntry(p[0]) ELSE Zero
  <2>1. u.directory = [k.directory EXCEPT ![0] = TableEntry(p[0])]
    BY <1>9, <1>15 DEF Fields
  <2>2. k.directory \in [UserDirs -> Words] BY <1>1, MemoryTypes
  <2> QED BY <1>1, <2>1, <2>2, Addresses DEF NoTables
<1>19. \A n \in Slots : u.table[p[0]][n] = IF n = 0 THEN Mapping(p[1]) ELSE Zero
  <2>1. u.table = Stored(h.table, p[0], 0, Mapping(p[1])) BY <1>15 DEF Fields
  <2>2. h.table \in [Frames -> [Slots -> Words]] /\ Mapping(p[1]) \in Words
    BY <1>2, <1>10, MemoryTypes, EntryTypes
  <2>3. PICK t, e, tab : t = p[0] /\ e = Mapping(p[1]) /\ tab = h.table OBVIOUS
  <2>4. t \in Frames /\ e \in Words /\ tab \in [Frames -> [Slots -> Words]] /\ 0 \in Slots
    BY <1>2, <2>2, <2>3, Addresses
  <2>5. /\ Stored(tab, t, 0, e)[t][0] = e
        /\ \A j \in Slots \ {0} : Stored(tab, t, 0, e)[t][j] = tab[t][j]
    BY <2>4, StoredFacts
  <2> QED BY <2>1, <2>3, <2>5, <1>7, <1>11
<1>20. Stolen(u, p, U, <<>>) BY <1>1, <1>16, <1>17 DEF Stolen, Counted, TestFrames
<1>21. Counts(u, p, 1, 1, 0) BY <1>17 DEF Counts
<1>22. Table(u, p, Mapping(p[1]), Zero) BY <1>18, <1>19 DEF Table
<1> QED BY <1>13, <1>14, <1>20, <1>21, <1>22 DEF View

\* The entries for addresses 0 and PAGE_SIZE.
LEMMA TableFacts ==
    ASSUME NEW k, NEW p, NEW e0, NEW e1, Table(k, p, e0, e1)
    PROVE  /\ k.directory[Test!va0[1]] = TableEntry(p[0])
           /\ k.directory[Test!vaPage[1]] = TableEntry(p[0])
           /\ k.table[p[0]][Test!va0[2]] = e0
           /\ k.table[p[0]][Test!vaPage[2]] = e1
BY Addresses DEF Table

\* u is k with entry n of table t set to e, and with f counted c times.
StoredIn(u, k, t, n, e) ==
    u.directory = k.directory /\ u.table = Stored(k.table, t, n, e)
Recounted(u, k, f, c) == u.references = [k.references EXCEPT ![f] = c]

\* A store into p[0] keeps the table's other entries.
LEMMA Restore ==
    ASSUME NEW k \in Memory, NEW p, p[0] \in Frames, NEW e0, NEW e1,
           Table(k, p, e0, e1), NEW n \in {0, 1}, NEW e \in Words,
           NEW u, StoredIn(u, k, p[0], n, e)
    PROVE  Table(u, p, IF n = 0 THEN e ELSE e0, IF n = 1 THEN e ELSE e1)
<1>1. PICK t, tab : t = p[0] /\ tab = k.table OBVIOUS
<1>2. t \in Frames /\ tab \in [Frames -> [Slots -> Words]] /\ n \in Slots
  BY <1>1, MemoryTypes, Addresses
<1>3. /\ Stored(tab, t, n, e)[t][n] = e
      /\ \A j \in Slots \ {n} : Stored(tab, t, n, e)[t][j] = tab[t][j]
  BY <1>2, StoredFacts
<1>4. u.directory = k.directory /\ u.table = Stored(tab, t, n, e)
  BY <1>1 DEF StoredIn
<1>5. \A j \in Slots : u.table[p[0]][j] = IF j = n THEN e ELSE k.table[p[0]][j]
  BY <1>1, <1>3, <1>4
<1> QED BY <1>4, <1>5 DEF Table

\* A store into the counts: the other frames keep theirs.
LEMMA Recount ==
    ASSUME NEW k \in Memory, NEW p, NEW U, Three(p, U),
           Counted(k, TestFrames(p), U),
           NEW f \in TestFrames(p), NEW c, NEW u, Recounted(u, k, f, c)
    PROVE  /\ Counted(u, TestFrames(p), U) /\ u.references[f] = c
           /\ \A g \in TestFrames(p) \ {f} : u.references[g] = k.references[g]
<1>1. TestFrames(p) \subseteq Frames BY DEF Three, TestFrames
<1>2. k.references \in [Frames -> Nat] BY MemoryTypes
<1>3. u.references = [k.references EXCEPT ![f] = c] BY DEF Recounted
<1>4. u.references[f] = c BY <1>1, <1>2, <1>3
<1>5. \A g \in Frames : g # f => u.references[g] = k.references[g]
  BY <1>2, <1>3
<1>6. Counted(u, TestFrames(p), U) BY <1>5 DEF Counted
<1> QED BY <1>1, <1>4, <1>5, <1>6

\* map_frame of p[2] at PAGE_SIZE, in the table that is there.
LEMMA Group8 ==
    ASSUME NEW k, NEW p, NEW U, Three(p, U), View(8, k, p, U),
           NEW r, r = Test!map_frame(k, p[2], Test!vaPage, {})
    PROVE  r.ret = 0 /\ View(9, r.mem, p, U)
<1>1. /\ k \in Memory /\ Counted(k, TestFrames(p), U) /\ k.free = <<>>
      /\ Counts(k, p, 1, 1, 0) /\ Table(k, p, Mapping(p[1]), Zero)
  BY DEF View, Stolen
<1>2. p[0] \in Frames /\ p[1] \in Frames /\ p[2] \in Frames BY DEF Three
<1>3. TableIs(k, Test!vaPage, p[0], k)
  <2>1. k.directory[Test!vaPage[1]] = TableEntry(p[0]) BY <1>1, TableFacts
  <2>2. PICK g : g = Test!get_page_table(k, Test!vaPage, TRUE) OBVIOUS
  <2>3. g = [ret |-> 0, table |-> p[0], mem |-> k] BY <2>1, <2>2, TableFound, Zenon
  <2>4. g.ret = 0 /\ g.table = p[0] /\ g.mem = k BY <2>3, ResultFields, Zenon
  <2> QED BY <2>2, <2>4, Zenon DEF TableIs
<1>4. NotMapped(k, Test!vaPage, p[0]) BY <1>1, TableFacts DEF NotMapped
<1>5. r.ret = 0 /\ r.mem = Test!WriteEntry(k, p[2], p[0], Test!vaPage, {})
  BY <1>3, <1>4, MapFresh
<1>6. PICK u : u = r.mem OBVIOUS
<1>7. Fields(u, k.free, [k.references EXCEPT ![p[2]] = (k.references[p[2]] + 1) % RefModulus],
             k.directory, Stored(k.table, p[0], 1, Mapping(p[2])))
  BY <1>1, <1>2, <1>5, <1>6, WriteFields, Addresses
<1>8. (k.references[p[2]] + 1) % RefModulus = 1 BY <1>1 DEF Counts, RefModulus
<1>9. u \in Memory /\ u.free = <<>> BY <1>1, <1>7 DEF Fields
<1>10. StoredIn(u, k, p[0], 1, Mapping(p[2])) /\ Recounted(u, k, p[2], 1)
  BY <1>7, <1>8, Zenon DEF Fields, StoredIn, Recounted
<1>11. Table(u, p, Mapping(p[1]), Mapping(p[2]))
  <2>1. Mapping(p[2]) \in Words BY <1>2, EntryTypes
  <2> QED BY <1>1, <1>2, <1>10, <2>1, Restore
<1>12. /\ Counted(u, TestFrames(p), U) /\ u.references[p[2]] = 1
       /\ u.references[p[0]] = k.references[p[0]] /\ u.references[p[1]] = k.references[p[1]]
  <2>1. {p[0], p[1]} \subseteq TestFrames(p) \ {p[2]} /\ p[2] \in TestFrames(p) BY DEF Three, TestFrames
  <2>2. /\ Counted(u, TestFrames(p), U) /\ u.references[p[2]] = 1
        /\ \A g \in TestFrames(p) \ {p[2]} : u.references[g] = k.references[g]
    BY <1>1, <1>10, <2>1, Recount
  <2> QED BY <2>1, <2>2
<1>13. Counts(u, p, 1, 1, 1) BY <1>1, <1>12 DEF Counts
<1> QED BY <1>5, <1>6, <1>9, <1>11, <1>12, <1>13 DEF View, Stolen

\* The same mapping again changes nothing.
LEMMA Group10 ==
    ASSUME NEW k, NEW p, NEW U, Three(p, U), View(10, k, p, U),
           NEW r, r = Test!map_frame(k, p[2], Test!vaPage, {})
    PROVE  r.ret = 0 /\ View(11, r.mem, p, U)
<1>1. Table(k, p, Mapping(p[1]), Mapping(p[2])) BY DEF View
<1>2. k.directory[Test!vaPage[1]] = TableEntry(p[0])
      /\ k.table[p[0]][Test!vaPage[2]] = Mapping(p[2])
  BY <1>1, TableFacts
<1>3. r.ret = 0 /\ r.mem = k BY <1>2, MapSame
<1> QED BY <1>3 DEF View

\* Page va maps frame f, by entry n of table t, and f has c other references.
MapsPage(k, va, n, t, f, c) ==
    /\ k \in Memory /\ f \in Frames /\ t \in Frames /\ va \in Test!Pages
    /\ n = va[2] /\ k.directory[va[1]] = TableEntry(t)
    /\ k.table[t][va[2]] = Mapping(f)
    /\ c \in 0 .. 1 /\ k.references[f] = c + 1
Released(u, k, n, t, f, c) ==
    /\ u \in Memory /\ Recounted(u, k, f, c) /\ StoredIn(u, k, t, n, Zero)
    /\ u.free = IF c = 0 THEN <<f>> \o k.free ELSE k.free

\* unmap_frame at a mapped page: the entry is cleared, and f is put back on the
\* list when that was its last reference.
LEMMA Unmapped ==
    ASSUME NEW k, NEW va, NEW n, NEW t, NEW f, NEW c, MapsPage(k, va, n, t, f, c),
           NEW u, u = Test!unmap_frame(k, va)
    PROVE  Released(u, k, n, t, f, c)
<1> USE DEF MapsPage
<1>2. c = (k.references[f] - 1) % RefModulus BY DEF RefModulus
<1>3. Fields(u, IF c = 0 THEN <<f>> \o k.free ELSE k.free,
             [k.references EXCEPT ![f] = c], k.directory,
             Stored(k.table, t, va[2], Zero))
  BY <1>2, UnmapFields
<1>4. n = va[2] OBVIOUS
<1> QED BY <1>3, <1>4, Zenon DEF Fields, Recounted, StoredIn, Released

\* Both addresses lead to p[1]; the first translation is removed.
LEMMA Group15 ==
    ASSUME NEW k, NEW p, NEW U, Three(p, U), View(15, k, p, U),
           NEW u, u = Test!unmap_frame(k, Test!va0)
    PROVE  View(16, u, p, U)
<1>1. /\ k \in Memory /\ Counted(k, TestFrames(p), U) /\ k.free = <<>>
      /\ Counts(k, p, 1, 2, 0) /\ Table(k, p, Mapping(p[1]), Mapping(p[1]))
  BY DEF View, Stolen
<1>2. p[0] \in Frames /\ p[1] \in Frames BY DEF Three
<1>3. /\ k.directory[Test!va0[1]] = TableEntry(p[0])
      /\ k.table[p[0]][Test!va0[2]] = Mapping(p[1])
  BY <1>1, TableFacts
<1>4. MapsPage(k, Test!va0, 0, p[0], p[1], 1)
  <2>1. k.references[p[1]] = 1 + 1 BY <1>1 DEF Counts
  <2> QED BY <1>1, <1>2, <1>3, <2>1, Addresses DEF MapsPage
<1>5. /\ u \in Memory /\ u.free = k.free
      /\ Recounted(u, k, p[1], 1) /\ StoredIn(u, k, p[0], 0, Zero)
  <2>1. Released(u, k, 0, p[0], p[1], 1) BY <1>4, Unmapped
  <2> QED BY <2>1 DEF Released
<1>6. Table(u, p, Zero, Mapping(p[1]))
  <2>1. Zero \in Words BY EntryTypes
  <2> QED BY <1>1, <1>2, <1>5, <2>1, Restore
<1>7. Counted(u, TestFrames(p), U) /\ Counts(u, p, 1, 1, 0)
  <2>1. {p[0], p[2]} \subseteq TestFrames(p) \ {p[1]} /\ p[1] \in TestFrames(p) BY DEF Three, TestFrames
  <2>2. /\ Counted(u, TestFrames(p), U) /\ u.references[p[1]] = 1
        /\ \A g \in TestFrames(p) \ {p[1]} : u.references[g] = k.references[g]
    BY <1>1, <1>5, <2>1, Recount
  <2> QED BY <1>1, <2>1, <2>2 DEF Counts
<1> QED BY <1>1, <1>5, <1>6, <1>7 DEF View, Stolen

\* The second translation is removed: p[1] is free again.
LEMMA Group16 ==
    ASSUME NEW k, NEW p, NEW U, Three(p, U), View(16, k, p, U),
           NEW u, u = Test!unmap_frame(k, Test!vaPage)
    PROVE  View(17, u, p, U)
<1>1. /\ k \in Memory /\ Counted(k, TestFrames(p), U) /\ k.free = <<>>
      /\ Counts(k, p, 1, 1, 0) /\ Table(k, p, Zero, Mapping(p[1]))
  BY DEF View, Stolen
<1>2. p[0] \in Frames /\ p[1] \in Frames BY DEF Three
<1>3. /\ k.directory[Test!vaPage[1]] = TableEntry(p[0])
      /\ k.table[p[0]][Test!vaPage[2]] = Mapping(p[1])
  BY <1>1, TableFacts
<1>4. MapsPage(k, Test!vaPage, 1, p[0], p[1], 0)
  <2>1. k.references[p[1]] = 0 + 1 BY <1>1 DEF Counts
  <2> QED BY <1>1, <1>2, <1>3, <2>1, Addresses DEF MapsPage
<1>5. /\ u \in Memory /\ u.free = <<p[1]>> \o k.free
      /\ Recounted(u, k, p[1], 0) /\ StoredIn(u, k, p[0], 1, Zero)
  <2>1. Released(u, k, 1, p[0], p[1], 0) BY <1>4, Unmapped
  <2> QED BY <2>1 DEF Released
<1>6. Table(u, p, Zero, Zero)
  <2>1. Zero \in Words BY EntryTypes
  <2> QED BY <1>1, <1>2, <1>5, <2>1, Restore
<1>7. Counted(u, TestFrames(p), U) /\ Counts(u, p, 1, 0, 0)
  <2>1. {p[0], p[2]} \subseteq TestFrames(p) \ {p[1]} /\ p[1] \in TestFrames(p) BY DEF Three, TestFrames
  <2>2. /\ Counted(u, TestFrames(p), U) /\ u.references[p[1]] = 0
        /\ \A g \in TestFrames(p) \ {p[1]} : u.references[g] = k.references[g]
    BY <1>1, <1>5, <2>1, Recount
  <2> QED BY <1>1, <2>1, <2>2 DEF Counts
<1>8. <<p[1]>> \o <<>> = <<p[1]>> OBVIOUS
<1> QED BY <1>1, <1>5, <1>6, <1>7, <1>8 DEF View, Stolen

\* p[1] replaces p[2] at PAGE_SIZE, and p[2] is free again.
LEMMA Group13 ==
    ASSUME NEW k, NEW p, NEW U, Three(p, U), View(13, k, p, U),
           NEW r, r = Test!map_frame(k, p[1], Test!vaPage, {})
    PROVE  r.ret = 0 /\ View(14, r.mem, p, U)
<1>1. /\ k \in Memory /\ Counted(k, TestFrames(p), U) /\ k.free = <<>>
      /\ Counts(k, p, 1, 1, 1) /\ Table(k, p, Mapping(p[1]), Mapping(p[2]))
  BY DEF View, Stolen
<1>2. /\ p[0] \in Frames /\ p[1] \in Frames /\ p[2] \in Frames
      /\ p[0] # p[1] /\ p[0] # p[2] /\ p[1] # p[2]
      /\ p[0] \in TestFrames(p) /\ p[1] \in TestFrames(p) /\ p[2] \in TestFrames(p)
  BY DEF Three, TestFrames
<1>3. /\ k.directory[Test!vaPage[1]] = TableEntry(p[0])
      /\ k.table[p[0]][Test!vaPage[2]] = Mapping(p[2])
  BY <1>1, TableFacts
<1>4. PICK v : v = Test!unmap_frame(k, Test!vaPage) OBVIOUS
<1>5. r.ret = 0 /\ r.mem = Test!WriteEntry(v, p[1], p[0], Test!vaPage, {})
  BY <1>2, <1>3, <1>4, MapOther
<1>6. MapsPage(k, Test!vaPage, 1, p[0], p[2], 0)
  <2>1. k.references[p[2]] = 0 + 1 BY <1>1 DEF Counts
  <2> QED BY <1>1, <1>2, <1>3, <2>1, Addresses DEF MapsPage
<1>7. /\ v \in Memory /\ v.free = <<p[2]>> \o k.free
      /\ Recounted(v, k, p[2], 0) /\ StoredIn(v, k, p[0], 1, Zero)
  <2>1. Released(v, k, 1, p[0], p[2], 0) BY <1>4, <1>6, Unmapped
  <2> QED BY <2>1 DEF Released
<1>8. Table(v, p, Mapping(p[1]), Zero)
  <2>1. Zero \in Words BY EntryTypes
  <2> QED BY <1>1, <1>2, <1>7, <2>1, Restore
<1>9. Counted(v, TestFrames(p), U) /\ Counts(v, p, 1, 1, 0)
  <2>1. /\ Counted(v, TestFrames(p), U) /\ v.references[p[2]] = 0
        /\ \A g \in TestFrames(p) \ {p[2]} : v.references[g] = k.references[g]
    BY <1>1, <1>2, <1>7, Recount
  <2> QED BY <1>1, <1>2, <2>1 DEF Counts
<1>10. PICK u : u = r.mem OBVIOUS
<1>11. Fields(u, v.free, [v.references EXCEPT ![p[1]] = (v.references[p[1]] + 1) % RefModulus],
              v.directory, Stored(v.table, p[0], 1, Mapping(p[1])))
  BY <1>2, <1>5, <1>7, <1>10, WriteFields, Addresses
<1>12. (v.references[p[1]] + 1) % RefModulus = 2 BY <1>9 DEF Counts, RefModulus
<1>13. u \in Memory /\ u.free = <<p[2]>>
  <2>1. <<p[2]>> \o <<>> = <<p[2]>> OBVIOUS
  <2> QED BY <1>1, <1>7, <1>11, <2>1 DEF Fields
<1>14. StoredIn(u, v, p[0], 1, Mapping(p[1])) /\ Recounted(u, v, p[1], 2)
  BY <1>11, <1>12, Zenon DEF Fields, StoredIn, Recounted
<1>15. Table(u, p, Mapping(p[1]), Mapping(p[1]))
  <2>1. Mapping(p[1]) \in Words BY <1>2, EntryTypes
  <2> QED BY <1>2, <1>7, <1>8, <1>14, <2>1, Restore
<1>16. Counted(u, TestFrames(p), U) /\ Counts(u, p, 1, 2, 0)
  <2>1. /\ Counted(u, TestFrames(p), U) /\ u.references[p[1]] = 2
        /\ \A g \in TestFrames(p) \ {p[1]} : u.references[g] = v.references[g]
    BY <1>2, <1>7, <1>9, <1>14, Recount
  <2> QED BY <1>2, <1>9, <2>1 DEF Counts
<1> QED BY <1>5, <1>10, <1>13, <1>15, <1>16 DEF View, Stolen

\* The only free frame is allocated again.
LEMMA Reallocated ==
    ASSUME NEW k \in Memory, NEW f \in Frames, k.free = <<f>>, k.references[f] = 0,
           NEW a, a = Test!allocate_frame(k)
    PROVE  /\ a.ret = 0 /\ a.frame = f
           /\ Fields(a.mem, <<>>, k.references, k.directory, k.table)
<1>1. k.free # <<>> /\ Head(k.free) = f /\ Tail(k.free) = <<>> OBVIOUS
<1>2. /\ a.ret = 0 /\ a.frame = f
      /\ Fields(a.mem, <<>>, [k.references EXCEPT ![f] = 0], k.directory, k.table)
  <2>1. k.free # <<>> /\ f = Head(k.free) BY <1>1
  <2>2. /\ a.ret = 0 /\ a.frame = f
        /\ Fields(a.mem, Tail(k.free), [k.references EXCEPT ![f] = 0],
                  k.directory, k.table)
    BY <2>1, AllocateHead
  <2> QED BY <1>1, <2>2
<1>3. [k.references EXCEPT ![f] = 0] = k.references
  <2>1. k.references \in [Frames -> Nat] BY MemoryTypes
  <2> QED BY <2>1
<1> QED BY <1>2, <1>3

\* p[2] is allocated again, and after its last translation p[1].
LEMMA Group14 ==
    ASSUME NEW k, NEW p, NEW U, Three(p, U), View(14, k, p, U),
           NEW a, a = Test!allocate_frame(k)
    PROVE  a.ret = 0 /\ a.frame = p[2] /\ View(15, a.mem, p, U)
<1>1. /\ k \in Memory /\ Counted(k, TestFrames(p), U) /\ k.free = <<p[2]>>
      /\ Counts(k, p, 1, 2, 0) /\ Table(k, p, Mapping(p[1]), Mapping(p[1]))
  BY DEF View, Stolen
<1>2. p[2] \in Frames /\ k.references[p[2]] = 0 BY <1>1 DEF Three, Counts
<1>3. PICK b : b = a.mem OBVIOUS
<1>4. /\ a.ret = 0 /\ a.frame = p[2]
      /\ Fields(b, <<>>, k.references, k.directory, k.table)
  BY <1>1, <1>2, <1>3, Reallocated
<1>5. Stolen(b, p, U, <<>>) BY <1>1, <1>4 DEF Stolen, Counted, Fields
<1>6. Counts(b, p, 1, 2, 0) BY <1>1, <1>4 DEF Counts, Fields
<1>7. Table(b, p, Mapping(p[1]), Mapping(p[1])) BY <1>1, <1>4 DEF Table, Fields
<1> QED BY <1>3, <1>4, <1>5, <1>6, <1>7 DEF View

\* The same for p[1], after its last translation is gone.
LEMMA Group17 ==
    ASSUME NEW k, NEW p, NEW U, Three(p, U), View(17, k, p, U),
           NEW a, a = Test!allocate_frame(k)
    PROVE  a.ret = 0 /\ a.frame = p[1] /\ View(18, a.mem, p, U)
<1>1. /\ k \in Memory /\ Counted(k, TestFrames(p), U) /\ k.free = <<p[1]>>
      /\ Counts(k, p, 1, 0, 0) /\ Table(k, p, Zero, Zero)
  BY DEF View, Stolen
<1>2. p[1] \in Frames /\ k.references[p[1]] = 0 BY <1>1 DEF Three, Counts
<1>3. PICK b : b = a.mem OBVIOUS
<1>4. /\ a.ret = 0 /\ a.frame = p[1]
      /\ Fields(b, <<>>, k.references, k.directory, k.table)
  BY <1>1, <1>2, <1>3, Reallocated
<1>5. Stolen(b, p, U, <<>>) BY <1>1, <1>4 DEF Stolen, Counted, Fields
<1>6. Counts(b, p, 1, 0, 0) BY <1>1, <1>4 DEF Counts, Fields
<1>7. Table(b, p, Zero, Zero) BY <1>1, <1>4 DEF Table, Fields
<1> QED BY <1>3, <1>4, <1>5, <1>6, <1>7 DEF View

\* Pushing a frame on the list, and taking the first one off.
LEMMA Pushed ==
    ASSUME NEW q \in Seq(Frames), NEW S, Lists(q, S), NEW f \in Frames, f \notin S,
           NEW r, r = <<f>> \o q
    PROVE  r \in Seq(Frames) /\ Lists(r, S \cup {f})
<1>1. /\ r \in Seq(Frames) /\ DOMAIN r = 1 .. Len(q) + 1 /\ r[1] = f
      /\ \A n \in 1 .. Len(q) : r[n + 1] = q[n]
  OBVIOUS
<1>2. DOMAIN q = 1 .. Len(q) /\ Len(q) \in Nat OBVIOUS
<1>3. \A n \in DOMAIN r : n = 1 \/ (n - 1 \in DOMAIN q /\ r[n] = q[n - 1])
  <2> SUFFICES ASSUME NEW n \in DOMAIN r, n # 1
               PROVE  n - 1 \in DOMAIN q /\ r[n] = q[n - 1]
    OBVIOUS
  <2>1. n - 1 \in 1 .. Len(q) /\ (n - 1) + 1 = n BY <1>1, <1>2
  <2> QED BY <1>1, <1>2, <2>1
<1>4. \A n \in DOMAIN q : q[n] \in S BY DEF Lists, Range
<1>5. IsInjective(r)
  <2> SUFFICES ASSUME NEW x \in DOMAIN r, NEW y \in DOMAIN r, r[x] = r[y]
               PROVE  x = y
    BY DEF IsInjective
  <2>1. CASE x = 1 BY <1>1, <1>3, <1>4, <2>1
  <2>2. CASE y = 1 BY <1>1, <1>3, <1>4, <2>2
  <2>3. CASE x # 1 /\ y # 1
    <3>1. x - 1 \in DOMAIN q /\ y - 1 \in DOMAIN q /\ q[x - 1] = q[y - 1]
      BY <1>3, <2>3
    <3>2. x - 1 = y - 1 BY <3>1 DEF Lists, IsInjective
    <3> QED BY <1>1, <1>2, <3>2
  <2> QED BY <2>1, <2>2, <2>3
<1>6. Range(r) = S \cup {f}
  <2>1. ASSUME NEW g \in Range(r) PROVE g \in S \cup {f}
    <3>1. PICK n \in DOMAIN r : g = r[n] BY DEF Range
    <3> QED BY <1>1, <1>3, <1>4, <3>1
  <2>2. f \in Range(r)
    <3>1. 1 \in DOMAIN r BY <1>1, <1>2
    <3> QED BY <1>1, <3>1 DEF Range
  <2>3. ASSUME NEW g \in S PROVE g \in Range(r)
    <3>1. PICK n \in DOMAIN q : g = q[n] BY DEF Lists, Range
    <3>2. n + 1 \in DOMAIN r /\ r[n + 1] = g BY <1>1, <1>2, <3>1
    <3> QED BY <3>2 DEF Range
  <2> QED BY <2>1, <2>2, <2>3
<1> QED BY <1>1, <1>5, <1>6 DEF Lists

\* Taking the first frame off the list leaves the others, each once.
LEMMA Popped ==
    ASSUME NEW q \in Seq(Frames), NEW S, Lists(q, S), q # <<>>,
           NEW f, f = Head(q), NEW r, r = Tail(q)
    PROVE  r \in Seq(Frames) /\ f \in S /\ Lists(r, S \ {f})
<1>1. /\ r \in Seq(Frames) /\ Len(q) \in Nat /\ Len(q) > 0
      /\ DOMAIN q = 1 .. Len(q) /\ DOMAIN r = 1 .. Len(q) - 1
      /\ \A n \in 1 .. Len(q) - 1 : r[n] = q[n + 1]
      /\ f = q[1]
  OBVIOUS
<1>2. f \in S BY <1>1 DEF Lists, Range
<1>3. \A n \in DOMAIN r : n + 1 \in DOMAIN q /\ r[n] = q[n + 1] /\ n \in Nat /\ n > 0
  BY <1>1
<1>4. \A x, y \in DOMAIN q : q[x] = q[y] => x = y BY DEF Lists, IsInjective
<1>5. IsInjective(r)
  <2> SUFFICES ASSUME NEW x \in DOMAIN r, NEW y \in DOMAIN r, r[x] = r[y]
               PROVE  x = y
    BY DEF IsInjective
  <2>1. x + 1 = y + 1 BY <1>3, <1>4
  <2> QED BY <1>3, <2>1
<1>6. Range(r) = S \ {f}
  <2>1. ASSUME NEW g \in Range(r) PROVE g \in S \ {f}
    <3>1. PICK n \in DOMAIN r : g = r[n] BY DEF Range
    <3>2. g \in S BY <1>3, <3>1 DEF Lists, Range
    <3>3. 1 \in DOMAIN q /\ n + 1 # 1 BY <1>1, <1>3, <3>1
    <3>4. g # f BY <1>1, <1>3, <1>4, <3>1, <3>3
    <3> QED BY <3>2, <3>4
  <2>2. ASSUME NEW g \in S \ {f} PROVE g \in Range(r)
    <3>1. PICK n \in DOMAIN q : g = q[n] BY <2>2 DEF Lists, Range
    <3>2. n # 1 BY <1>1, <2>2, <3>1
    <3>3. n - 1 \in 1 .. Len(q) - 1 /\ (n - 1) + 1 = n BY <1>1, <3>1, <3>2
    <3>4. n - 1 \in DOMAIN r /\ r[n - 1] = g BY <1>1, <3>1, <3>3
    <3> QED BY <3>4 DEF Range
  <2> QED BY <2>1, <2>2
<1> QED BY <1>1, <1>2, <1>5, <1>6 DEF Lists

\* The two assignments of page_check that undo what it did, with its own hands.
TakeBack(k, f) ==
    [k EXCEPT !.directory[0] = Test!ZeroEntry, !.references[f] = 0]
PutBack(k, q, p) ==
    Test!free_frame(Test!free_frame(Test!free_frame(
        [k EXCEPT !.free = q], p[0]), p[1]), p[2])

\* The page directory entry is cleared and p[0] is not counted any more.
LEMMA Group19 ==
    ASSUME NEW k, NEW p, NEW U, Three(p, U), View(19, k, p, U),
           NEW u, u = TakeBack(k, p[0])
    PROVE  /\ k.directory[0].frame = p[0] /\ k.references[p[0]] = 1
           /\ View(20, u, p, U)
<1>1. /\ k \in Memory /\ Counted(k, TestFrames(p), U) /\ k.free = <<>>
      /\ Counts(k, p, 1, 0, 0) /\ Table(k, p, Zero, Zero)
  BY DEF View, Stolen
<1>2. k.directory[0] = TableEntry(p[0]) BY <1>1, Addresses DEF Table
<1>3. k.references[p[0]] = 1 BY <1>1 DEF Counts
<1> DEFINE dir == [k.directory EXCEPT ![0] = Zero]
           w == SetDirectory(k, dir)
<1>4. u = [w EXCEPT !.references[p[0]] = 0] BY Zenon DEF TakeBack, SetDirectory, Zero
<1>5. dir \in [UserDirs -> Words] /\ \A d \in UserDirs : dir[d] = Zero
  <2>1. k.directory \in [UserDirs -> Words] /\ Zero \in Words
    BY <1>1, MemoryTypes, EntryTypes
  <2> QED BY <1>1, <2>1 DEF Table
<1> HIDE DEF dir
<1>6. Fields(w, k.free, k.references, dir, k.table) BY <1>1, <1>5, SetFields
<1> HIDE DEF w
<1>7. w \in Memory /\ w.references = k.references BY <1>6 DEF Fields
<1>8. p[0] \in Frames /\ p[0] \in TestFrames(p)
      /\ {p[1], p[2]} \subseteq TestFrames(p) \ {p[0]}
  BY DEF Three, TestFrames
<1>9. Fields(u, w.free, [w.references EXCEPT ![p[0]] = 0], w.directory, w.table)
  <2>1. 0 \in Nat OBVIOUS
  <2> QED BY <1>4, <1>7, <1>8, <2>1, StoreCount
<1>10. u \in Memory /\ u.free = <<>> /\ NoTables(u)
  BY <1>1, <1>5, <1>6, <1>9 DEF Fields, NoTables
<1>11. Recounted(u, k, p[0], 0) BY <1>7, <1>9 DEF Fields, Recounted
<1>12. Counted(u, TestFrames(p), U) /\ Counts(u, p, 0, 0, 0)
  <2>1. /\ Counted(u, TestFrames(p), U) /\ u.references[p[0]] = 0
        /\ \A g \in TestFrames(p) \ {p[0]} : u.references[g] = k.references[g]
    BY <1>1, <1>8, <1>11, Recount
  <2> QED BY <1>1, <1>8, <2>1 DEF Counts
<1> QED BY <1>2, <1>3, <1>10, <1>12, EntryFacts DEF View, Stolen

\* free_frame is a change of the list.
LEMMA FreeFields ==
    ASSUME NEW k \in Memory, NEW f \in Frames, NEW u, u = Test!free_frame(k, f)
    PROVE  Fields(u, <<f>> \o k.free, k.references, k.directory, k.table)
<1>1. u = SetFree(k, <<f>> \o k.free)
  BY Zenon DEF Test!free_frame, Test!LIST_INSERT_HEAD, SetFree
<1>2. k.free \in Seq(Frames) BY MemoryTypes
<1>3. <<f>> \o k.free \in Seq(Frames) BY <1>2
<1> QED BY <1>1, <1>3, SetFields

\* The list comes back, with the three frames in front of it.
LEMMA Group20 ==
    ASSUME NEW k, NEW p, NEW U, Three(p, U), View(20, k, p, U),
           NEW q \in Seq(Frames), Lists(q, U \ TestFrames(p)),
           NEW u, u = PutBack(k, q, p)
    PROVE  View(21, u, p, U)
<1>1. /\ k \in Memory /\ Counted(k, TestFrames(p), U)
      /\ Counts(k, p, 0, 0, 0) /\ NoTables(k)
  BY DEF View, Stolen
<1>2. /\ p[0] \in Frames /\ p[1] \in Frames /\ p[2] \in Frames
      /\ p[0] # p[1] /\ p[0] # p[2] /\ p[1] # p[2]
      /\ TestFrames(p) = {p[0], p[1], p[2]} /\ TestFrames(p) \subseteq U
  BY DEF Three, TestFrames
<1>3. PICK a : a = SetFree(k, q) OBVIOUS
<1>4. PICK b : b = Test!free_frame(a, p[0]) OBVIOUS
<1>5. PICK c : c = Test!free_frame(b, p[1]) OBVIOUS
<1>6. u = Test!free_frame(c, p[2]) BY <1>3, <1>4, <1>5, Zenon DEF PutBack, SetFree
<1>7. Fields(a, q, k.references, k.directory, k.table) BY <1>1, <1>3, SetFields
<1>8. a \in Memory BY <1>7 DEF Fields
<1>9. Fields(b, <<p[0]>> \o a.free, a.references, a.directory, a.table)
  BY <1>2, <1>4, <1>8, FreeFields
<1>10. b \in Memory BY <1>9 DEF Fields
<1>11. Fields(c, <<p[1]>> \o b.free, b.references, b.directory, b.table)
  BY <1>2, <1>5, <1>10, FreeFields
<1>12. c \in Memory BY <1>11 DEF Fields
<1>13. Fields(u, <<p[2]>> \o c.free, c.references, c.directory, c.table)
  BY <1>2, <1>6, <1>12, FreeFields
<1>14. /\ b.free = <<p[0]>> \o q /\ c.free = <<p[1]>> \o b.free
       /\ u.free = <<p[2]>> \o c.free /\ u.references = k.references
       /\ u.directory = k.directory
  BY <1>7, <1>9, <1>11, <1>13 DEF Fields
<1> DEFINE S0 == U \ {p[0], p[1], p[2]}
           S1 == S0 \cup {p[0]}
           S2 == S1 \cup {p[1]}
<1>15. b.free \in Seq(Frames) /\ Lists(b.free, S1)
  <2>1. Lists(q, S0) /\ p[0] \notin S0 BY <1>2
  <2> HIDE DEF S0
  <2> QED BY <1>2, <1>14, <2>1, Pushed
<1>16. c.free \in Seq(Frames) /\ Lists(c.free, S2)
  <2>1. p[1] \notin S1 BY <1>2
  <2> HIDE DEF S1
  <2> QED BY <1>2, <1>14, <1>15, <2>1, Pushed
<1>17. Lists(u.free, S2 \cup {p[2]})
  <2>1. p[2] \notin S2 BY <1>2
  <2> HIDE DEF S2
  <2> QED BY <1>2, <1>14, <1>16, <2>1, Pushed
<1>18. S2 \cup {p[2]} = U BY <1>2
<1>19. Counted(u, {}, U) BY <1>1, <1>2, <1>14 DEF Counted, Counts
<1>20. NoTables(u) BY <1>1, <1>14 DEF NoTables
<1> HIDE DEF S2
<1>21. Lists(u.free, U) BY <1>17, <1>18, Zenon
<1> QED BY <1>19, <1>20, <1>21 DEF View

\* Without free memory, allocate_frame changes nothing.
LEMMA NoneLeft ==
    ASSUME NEW k, k.free = <<>>, NEW a, a = Test!allocate_frame(k)
    PROVE  a.ret = -4 /\ a.mem = k /\ a.frame = Test!NULL
<1>1. a = [ret |-> Test!E_NO_MEM, frame |-> Test!NULL, mem |-> k]
  BY AllocateNone
<1> QED BY <1>1 DEF Test!E_NO_MEM

\* Two frames are not three.
LEMMA FewFrames ==
    ASSUME NEW a, NEW b, NEW U, U \subseteq {a, b}
    PROVE  Cardinality(U) \in 0 .. 2
<1>1. IsFiniteSet({}) /\ Cardinality({}) = 0 BY FS_EmptySet
<1>2. PICK A : A = {} \cup {a} OBVIOUS
<1>3. IsFiniteSet(A) /\ Cardinality(A) = 1 BY <1>1, <1>2, FS_AddElement
<1>4. PICK B : B = A \cup {b} OBVIOUS
<1>5. IsFiniteSet(B) /\ Cardinality(B) <= 2 BY <1>3, <1>4, FS_AddElement
<1>6. U \subseteq B BY <1>2, <1>4
<1>7. IsFiniteSet(U) /\ Cardinality(U) <= Cardinality(B) BY <1>5, <1>6, FS_Subset
<1>8. Cardinality(U) \in Nat /\ Cardinality(B) \in Nat
  BY <1>5, <1>7, FS_CardinalityType
<1> QED BY <1>5, <1>7, <1>8

\* The three allocations at the start: each gives another frame, or the list
\* was shorter than three.
FirstFrames(p, n) == {p[x] : x \in 0 .. n - 1}

\* One of the three allocations: a frame more is taken, or there were
\* fewer than three.
LEMMA Take ==
    ASSUME NEW n \in 0 .. 2, NEW k, NEW p \in Locals, NEW U \in SUBSET Frames,
           Taking(n, k, p, U), NEW a, a = Test!allocate_frame(k),
           NEW q, q = [p EXCEPT ![n] = a.frame]
    PROVE  /\ q \in Locals
           /\ \/ a.ret = -4 /\ Cardinality(U) \in 0 .. 2
              \/ /\ a.ret = 0 /\ a.frame # Test!NULL
                 /\ a.frame \in Frames \ FirstFrames(p, n)
                 /\ Taking(n + 1, a.mem, q, U)
<1>1. /\ k \in Memory /\ Lists(k.free, U \ FirstFrames(p, n))
      /\ Counted(k, {}, U) /\ NoTables(k)
      /\ FirstFrames(p, n) \subseteq U /\ Distinct(p, n)
  BY DEF Taking, FirstFrames
<1>2. CASE k.free = <<>>
  <2>1. a.ret = -4 /\ a.frame = Test!NULL BY <1>2, NoneLeft
  <2>2. q \in Locals BY <2>1 DEF Locals
  <2>3. Range(k.free) = {} BY <1>2 DEF Range
  <2>4. U \subseteq FirstFrames(p, n) BY <1>1, <2>3 DEF Lists
  <2>5. FirstFrames(p, n) \subseteq {p[0], p[1]} BY DEF FirstFrames
  <2>6. U \subseteq {p[0], p[1]} BY <2>4, <2>5
  <2>7. Cardinality(U) \in 0 .. 2 BY <2>6, FewFrames
  <2> QED BY <2>1, <2>2, <2>7
<1>3. CASE k.free # <<>>
  <2>1. PICK f, b : f = Head(k.free) /\ b = a.mem OBVIOUS
  <2>2. /\ a.ret = 0 /\ a.frame = f /\ f \in Frames
        /\ Fields(b, Tail(k.free), [k.references EXCEPT ![f] = 0],
                  k.directory, k.table)
    BY <1>1, <1>3, <2>1, AllocateHead
  <2>3. q \in Locals BY <2>2 DEF Locals
  <2>4. PICK S, r : S = U \ FirstFrames(p, n) /\ r = Tail(k.free) OBVIOUS
  <2>5. f \in S /\ Lists(r, S \ {f})
    <3>1. k.free \in Seq(Frames) /\ Lists(k.free, S) BY <1>1, <2>4, MemoryTypes
    <3> QED BY <1>3, <2>1, <2>4, <3>1, Popped
  <2>6. f # Test!NULL
    BY <2>2, MemoryIndex DEF Frames, Test!NULL
  <2>7. /\ q[n] = f /\ \A x \in 0 .. n - 1 : q[x] = p[x]
    BY <2>2 DEF Locals
  <2>8. FirstFrames(q, n + 1) = FirstFrames(p, n) \cup {f}
    <3>1. \A x \in 0 .. (n + 1) - 1 : x = n \/ x \in 0 .. n - 1 OBVIOUS
    <3>2. n \in 0 .. (n + 1) - 1 /\ \A x \in 0 .. n - 1 : x \in 0 .. (n + 1) - 1
      OBVIOUS
    <3> QED BY <2>7, <3>1, <3>2 DEF FirstFrames
  <2>9. Distinct(q, n + 1)
    <3> SUFFICES ASSUME NEW x \in 0 .. (n + 1) - 1, NEW y \in 0 .. (n + 1) - 1,
                        q[x] = q[y]
                 PROVE  x = y
      BY DEF Distinct
    <3>1. \A z \in 0 .. n - 1 : p[z] \in FirstFrames(p, n) BY DEF FirstFrames
    <3>2. f \notin FirstFrames(p, n) BY <2>4, <2>5
    <3>3. CASE x \in 0 .. n - 1 /\ y \in 0 .. n - 1
      BY <1>1, <2>7, <3>3 DEF Distinct
    <3>4. CASE x = n /\ y \in 0 .. n - 1 BY <2>7, <3>1, <3>2, <3>4
    <3>5. CASE x \in 0 .. n - 1 /\ y = n BY <2>7, <3>1, <3>2, <3>5
    <3>6. CASE x = n /\ y = n BY <3>6
    <3> QED BY <3>3, <3>4, <3>5, <3>6
  <2>10. b \in Memory /\ b.free = r /\ NoTables(b)
    BY <1>1, <2>2, <2>4 DEF Fields, NoTables
  <2>11. Counted(b, {}, U)
    <3>1. b.references = [k.references EXCEPT ![f] = 0] BY <2>2 DEF Fields
    <3>2. k.references \in [Frames -> Nat] BY <1>1, MemoryTypes
    <3>3. f \in U BY <2>4, <2>5
    <3> QED BY <1>1, <3>1, <3>2, <3>3 DEF Counted
  <2>12. S \ {f} = U \ FirstFrames(q, n + 1) BY <2>4, <2>8
  <2>13. FirstFrames(q, n + 1) \subseteq U BY <1>1, <2>4, <2>5, <2>8
  <2>14. Lists(b.free, U \ FirstFrames(q, n + 1)) BY <2>5, <2>10, <2>12, Zenon
  <2>15. Taking(n + 1, b, q, U)
    BY <2>9, <2>10, <2>11, <2>13, <2>14, Zenon DEF Taking, FirstFrames
  <2>16. f \notin FirstFrames(p, n) BY <2>4, <2>5
  <2> QED BY <2>1, <2>2, <2>3, <2>6, <2>15, <2>16
<1> QED BY <1>2, <1>3

\* LIST_INIT after the copy: what the list had, the copy has.
LEMMA Steal ==
    ASSUME NEW k, NEW p \in Locals, NEW U \in SUBSET Frames, Taking(3, k, p, U),
           NEW u, u = SetFree(k, <<>>)
    PROVE  /\ Three(p, U) /\ View(5, u, p, U)
           /\ k.free \in Seq(Frames) /\ Lists(k.free, U \ TestFrames(p))
<1>1. /\ k \in Memory /\ Lists(k.free, U \ FirstFrames(p, 3))
      /\ Counted(k, {}, U) /\ NoTables(k)
      /\ FirstFrames(p, 3) \subseteq U /\ Distinct(p, 3)
  BY DEF Taking, FirstFrames
<1>2. FirstFrames(p, 3) = TestFrames(p)
  <2>1. \A x : x \in 0 .. 3 - 1 <=> x = 0 \/ x = 1 \/ x = 2 OBVIOUS
  <2> QED BY <2>1 DEF FirstFrames, TestFrames
<1>3. Three(p, U)
  <2>1. p[0] # p[1] /\ p[0] # p[2] /\ p[1] # p[2] BY <1>1 DEF Distinct
  <2> QED BY <1>1, <1>2, <2>1 DEF Three, TestFrames, Locals
<1>4. Fields(u, <<>>, k.references, k.directory, k.table)
  <2>1. <<>> \in Seq(Frames) OBVIOUS
  <2> QED BY <1>1, <2>1, SetFields
<1>5. Stolen(u, p, U, <<>>) BY <1>1, <1>4 DEF Stolen, Counted, Fields
<1>6. Counts(u, p, 0, 0, 0)
  <2>1. u.references = k.references BY <1>4 DEF Fields
  <2> QED BY <1>1, <1>3, <2>1 DEF Counts, Counted, Three
<1>7. NoTables(u) BY <1>1, <1>4 DEF NoTables, Fields
<1>8. View(5, u, p, U) BY <1>5, <1>6, <1>7 DEF View
<1>9. k.free \in Seq(Frames) BY <1>1, MemoryTypes
<1>10. Lists(k.free, U \ TestFrames(p)) BY <1>1, <1>2, Zenon
<1> QED BY <1>3, <1>8, <1>9, <1>10

-----------------------------------------------------------------------------
\* The asserts of page_check.

\* What the groups assert of the memory state that they leave behind.
LEMMA Checked ==
    ASSUME NEW n, NEW k, NEW p, NEW U, Three(p, U), View(n, k, p, U)
    PROVE  /\ n = 8 => /\ Test!check_va2pa(k, Test!va0) = p[1]
                       /\ k.directory[0].frame = p[0]
                       /\ k.references[p[1]] = 1 /\ k.references[p[0]] = 1
           /\ n \in {9, 11} => /\ Test!check_va2pa(k, Test!vaPage) = p[2]
                               /\ k.references[p[2]] = 1
           /\ n = 14 => /\ Test!check_va2pa(k, Test!vaPage) = p[1]
                        /\ Test!check_va2pa(k, Test!va0) = p[1]
                        /\ k.references[p[1]] = 2 /\ k.references[p[2]] = 0
           /\ n = 16 => /\ Test!check_va2pa(k, Test!va0) = Test!NULL
                        /\ Test!check_va2pa(k, Test!vaPage) = p[1]
                        /\ k.references[p[1]] = 1 /\ k.references[p[2]] = 0
           /\ n = 17 => /\ Test!check_va2pa(k, Test!va0) = Test!NULL
                        /\ Test!check_va2pa(k, Test!vaPage) = Test!NULL
                        /\ k.references[p[1]] = 0 /\ k.references[p[2]] = 0
<1>1. /\ Target(Zero) = Test!NULL
      /\ \A f : Target(Mapping(f)) = f
  BY EntryFacts DEF Target
<1>2. \A e0 \in {Zero, Mapping(p[1])}, e1 \in {Zero, Mapping(p[1]), Mapping(p[2])} :
        Table(k, p, e0, e1) =>
            /\ Test!check_va2pa(k, Test!va0) = Target(e0)
            /\ Test!check_va2pa(k, Test!vaPage) = Target(e1)
  <2> SUFFICES ASSUME NEW e0 \in {Zero, Mapping(p[1])},
                      NEW e1 \in {Zero, Mapping(p[1]), Mapping(p[2])},
                      Table(k, p, e0, e1)
               PROVE  /\ Test!check_va2pa(k, Test!va0) = Target(e0)
                      /\ Test!check_va2pa(k, Test!vaPage) = Target(e1)
    OBVIOUS
  <2>1. Leads(e0) /\ Leads(e1) BY DEF Leads
  <2> QED BY <2>1, Translation
<1>3. \A e0, e1 : Table(k, p, e0, e1) => k.directory[0] = TableEntry(p[0])
  BY Addresses DEF Table
<1>4. CASE n = 8
  <2>1. Table(k, p, Mapping(p[1]), Zero) /\ Counts(k, p, 1, 1, 0) BY <1>4 DEF View
  <2>2. k.directory[0] = TableEntry(p[0]) BY <1>3, <2>1
  <2> QED BY <1>1, <1>2, <1>4, <2>1, <2>2, EntryFacts DEF Counts
<1>5. CASE n \in {9, 11}
  <2>1. Table(k, p, Mapping(p[1]), Mapping(p[2])) /\ Counts(k, p, 1, 1, 1)
    BY <1>5 DEF View
  <2> QED BY <1>1, <1>2, <1>5, <2>1 DEF Counts
<1>6. CASE n = 14
  <2>1. Table(k, p, Mapping(p[1]), Mapping(p[1])) /\ Counts(k, p, 1, 2, 0)
    BY <1>6 DEF View
  <2> QED BY <1>1, <1>2, <1>6, <2>1 DEF Counts
<1>7. CASE n = 16
  <2>1. Table(k, p, Zero, Mapping(p[1])) /\ Counts(k, p, 1, 1, 0) BY <1>7 DEF View
  <2> QED BY <1>1, <1>2, <1>7, <2>1 DEF Counts
<1>8. CASE n = 17
  <2>1. Table(k, p, Zero, Zero) /\ Counts(k, p, 1, 0, 0) BY <1>8 DEF View
  <2> QED BY <1>1, <1>2, <1>8, <2>1 DEF Counts
<1> QED BY <1>4, <1>5, <1>6, <1>7, <1>8

\* Only the first three locals count.
SameFirst(p, q) == q \in Locals /\ q[0] = p[0] /\ q[1] = p[1] /\ q[2] = p[2]

\* The view of memory does not depend on pp.
LEMMA SameThree ==
    ASSUME NEW p, NEW q, SameFirst(p, q),
           NEW n, NEW k, NEW U, Three(p, U), View(n, k, p, U)
    PROVE  /\ Three(q, U) /\ View(n, k, q, U) /\ TestFrames(q) = TestFrames(p)
<1>1. /\ q \in Locals /\ q[0] = p[0] /\ q[1] = p[1] /\ q[2] = p[2]
  BY DEF SameFirst
<1>2. TestFrames(q) = TestFrames(p) BY <1>1 DEF TestFrames
<1>3. Three(q, U) BY <1>1 DEF Three
<1>4. /\ \A f : Stolen(k, q, U, f) <=> Stolen(k, p, U, f)
      /\ \A a, b, c : Counts(k, q, a, b, c) <=> Counts(k, p, a, b, c)
      /\ \A a, b : Table(k, q, a, b) <=> Table(k, p, a, b)
  BY <1>1, <1>2, Zenon DEF Stolen, Counts, Table
<1>5. View(n, k, q, U) BY <1>1, <1>4 DEF View
<1> QED BY <1>2, <1>3, <1>5

\* The three first allocations of page_check.
LEMMA AllocateFirst ==
    ASSUME CheckInv, NEW n \in 0 .. 2, NEW g, g = n + 1, NEW E,
           E = Frames \ FirstFrames(pp, n), Test!Allocate(g, n, E)
    PROVE  CheckInv'
<1>1. /\ test = g /\ fl' = fl /\ usable' = usable BY DEF Test!Allocate
<1>2. PICK a : a = Test!allocate_frame(m) OBVIOUS
<1>3. /\ m' = a.mem /\ pp' = [pp EXCEPT ![n] = a.frame]
      /\ test' = IF a.ret = 0 /\ a.frame # Test!NULL /\ a.frame \in E
                 THEN g + 1 ELSE 0
  BY <1>2, Zenon DEF Test!Allocate, Test!Assert
<1>4. usable \in SUBSET Frames /\ pp \in Locals /\ Taking(n, m, pp, usable)
  BY <1>1 DEF CheckInv, CheckState
<1>5. /\ pp' \in Locals
      /\ \/ a.ret = -4 /\ Cardinality(usable) \in 0 .. 2
         \/ /\ a.ret = 0 /\ a.frame # Test!NULL
            /\ a.frame \in Frames \ FirstFrames(pp, n)
            /\ Taking(n + 1, a.mem, pp', usable)
  BY <1>2, <1>3, <1>4, Take
<1>6. CASE a.ret = -4 /\ Cardinality(usable) \in 0 .. 2
  <2>1. test' = 0 BY <1>3, <1>6
  <2> QED BY <1>1, <1>6, <2>1 DEF CheckInv, CheckState
<1>7. CASE /\ a.ret = 0 /\ a.frame # Test!NULL
           /\ a.frame \in Frames \ FirstFrames(pp, n)
           /\ Taking(n + 1, a.mem, pp', usable)
  <2>1. test' = n + 2 BY <1>3, <1>7
  <2>2. n + 2 \in 1 .. 4 /\ (n + 2) - 1 = n + 1 OBVIOUS
  <2>3. Taking(test' - 1, m', pp', usable') BY <1>1, <1>3, <1>7, <2>1, <2>2
  <2> QED BY <1>1, <1>4, <1>5, <2>1, <2>2, <2>3 DEF CheckInv, CheckState
<1> QED BY <1>5, <1>6, <1>7

\* The groups that follow LIST_INIT: the steps of page_check with the list
\* stolen.  Each lemma is one action.
Running(n) ==
    /\ test = n /\ Three(pp, usable) /\ View(n, m, pp, usable)
    /\ fl \in Seq(Frames) /\ Lists(fl, usable \ TestFrames(pp))

\* What the invariant says while the list is stolen.
LEMMA RunningNow ==
    ASSUME CheckInv, NEW n \in 5 .. 20, test = n
    PROVE  Running(n)
BY DEF CheckInv, CheckState, Running

\* A step to the next group, with the same locals.
LEMMA Continues ==
    ASSUME NEW n \in 5 .. 19, Running(n), test' = n + 1, View(n + 1, m', pp, usable),
           UNCHANGED <<pp, fl, usable>>
    PROVE  CheckInv'
BY DEF Running, CheckInv, CheckState

\* A step that stores a frame in the last of them.
LEMMA ContinuesWith ==
    ASSUME NEW n \in 5 .. 19, Running(n), test' = n + 1, View(n + 1, m', pp, usable),
           SameFirst(pp, pp'), UNCHANGED <<fl, usable>>
    PROVE  CheckInv'
<1>1. PICK n1, k, q : n1 = n + 1 /\ k = m' /\ q = pp' OBVIOUS
<1>2. Three(pp, usable) /\ View(n1, k, pp, usable) /\ SameFirst(pp, q)
  BY <1>1 DEF Running
<1>3. Three(q, usable) /\ View(n1, k, q, usable) /\ TestFrames(q) = TestFrames(pp)
  BY <1>2, SameThree
<1>4. fl \in Seq(Frames) /\ Lists(fl, usable \ TestFrames(q))
  BY <1>3 DEF Running
<1> QED BY <1>1, <1>3, <1>4 DEF CheckInv, CheckState

\* "temporarily steal the rest of the free frames_info".
LEMMA StealGood == ASSUME CheckInv, Test!StealFreeList PROVE CheckInv'
<1>1. /\ test = 4 /\ fl' = m.free /\ test' = 5 /\ pp' = pp /\ usable' = usable
      /\ m' = SetFree(m, <<>>)
  BY Zenon DEF Test!StealFreeList, SetFree
<1>2. usable \in SUBSET Frames /\ pp \in Locals /\ Taking(3, m, pp, usable)
  BY <1>1 DEF CheckInv, CheckState
<1>3. /\ Three(pp, usable) /\ View(5, m', pp, usable)
      /\ m.free \in Seq(Frames) /\ Lists(m.free, usable \ TestFrames(pp))
  BY <1>1, <1>2, Steal
<1> QED BY <1>1, <1>3 DEF CheckInv, CheckState

\* "should be no free memory": allocate_frame fails each time.
LEMMA NoFreeGood ==
    ASSUME CheckInv, NEW n \in {5, 9, 11, 18}, Test!NoFreeMemory(n)
    PROVE  CheckInv'
<1>1. PICK a : a = Test!allocate_frame(m) OBVIOUS
<1>2. /\ test = n /\ m' = a.mem /\ pp' = [pp EXCEPT ![3] = a.frame]
      /\ test' = IF a.ret = Test!E_NO_MEM THEN n + 1 ELSE 0
      /\ UNCHANGED <<fl, usable>>
  BY <1>1, Zenon DEF Test!NoFreeMemory, Test!Assert
<1>3. Running(n) BY <1>2, RunningNow
<1>4. m.free = <<>> /\ View(n + 1, m, pp, usable) BY <1>3 DEF Running, View, Stolen
<1>5. a.ret = -4 /\ a.mem = m /\ a.frame = Test!NULL BY <1>1, <1>4, NoneLeft
<1>6. test' = n + 1 /\ View(n + 1, m', pp, usable)
  BY <1>2, <1>4, <1>5 DEF Test!E_NO_MEM
<1>7. SameFirst(pp, pp') BY <1>2, <1>3, <1>5 DEF Running, Three, Locals, SameFirst
<1>8. n \in 5 .. 19 OBVIOUS
<1> QED BY <1>2, <1>3, <1>6, <1>7, <1>8, ContinuesWith

\* map_frame without memory for a page table fails both times.
LEMMA MustFailGood ==
    ASSUME CheckInv, \/ Test!MapMustFail(6, 1, Test!va0)
                     \/ Test!MapMustFail(12, 0, Test!vaTable)
    PROVE  CheckInv'
<1>1. CASE Test!MapMustFail(6, 1, Test!va0)
  <2>1. PICK r : r = Test!map_frame(m, pp[1], Test!va0, {}) OBVIOUS
  <2>2. /\ test = 6 /\ m' = r.mem /\ test' = (IF r.ret < 0 THEN 6 + 1 ELSE 0)
        /\ UNCHANGED <<pp, fl, usable>>
    BY <1>1, <2>1, Zenon DEF Test!MapMustFail, Test!Assert
  <2>3. Running(6) BY <2>2, RunningNow
  <2>4. r.ret = -4 /\ View(7, r.mem, pp, usable) BY <2>1, <2>3, Group6 DEF Running
  <2>5. test' = 6 + 1 /\ View(6 + 1, m', pp, usable) BY <2>2, <2>4
  <2> QED BY <2>2, <2>3, <2>5, Continues
<1>2. CASE Test!MapMustFail(12, 0, Test!vaTable)
  <2>1. PICK r : r = Test!map_frame(m, pp[0], Test!vaTable, {}) OBVIOUS
  <2>2. /\ test = 12 /\ m' = r.mem /\ test' = (IF r.ret < 0 THEN 12 + 1 ELSE 0)
        /\ UNCHANGED <<pp, fl, usable>>
    BY <1>2, <2>1, Zenon DEF Test!MapMustFail, Test!Assert
  <2>3. Running(12) BY <2>2, RunningNow
  <2>4. r.ret = -4 /\ View(13, r.mem, pp, usable) BY <2>1, <2>3, Group12 DEF Running
  <2>5. test' = 12 + 1 /\ View(12 + 1, m', pp, usable) BY <2>2, <2>4
  <2> QED BY <2>2, <2>3, <2>5, Continues
<1> QED BY <1>1, <1>2

\* pp0, freed, becomes the page table.
LEMMA UsePp0Good == ASSUME CheckInv, Test!UsePp0ForTable PROVE CheckInv'
<1>1. PICK r : r = Test!map_frame(Test!free_frame(m, pp[0]), pp[1], Test!va0, {})
  OBVIOUS
<1>2. /\ test = 7 /\ m' = r.mem /\ UNCHANGED <<pp, fl, usable>>
      /\ test' = IF /\ r.ret = 0 /\ Test!check_va2pa(r.mem, Test!va0) = pp[1]
                    /\ r.mem.directory[0].frame = pp[0]
                    /\ r.mem.references[pp[1]] = 1 /\ r.mem.references[pp[0]] = 1
                 THEN 7 + 1 ELSE 0
  BY <1>1, Zenon DEF Test!UsePp0ForTable, Test!MapMustSucceed, Test!Assert, Test!Refs
<1>3. Running(7) BY <1>2, RunningNow
<1>4. PICK k : k = r.mem OBVIOUS
<1>5. r.ret = 0 /\ View(8, k, pp, usable) BY <1>1, <1>3, <1>4, Group7 DEF Running
<1>6. /\ Test!check_va2pa(k, Test!va0) = pp[1] /\ k.directory[0].frame = pp[0]
      /\ k.references[pp[1]] = 1 /\ k.references[pp[0]] = 1
  BY <1>3, <1>5, Checked DEF Running
<1>7. test' = 7 + 1 /\ View(7 + 1, m', pp, usable) BY <1>2, <1>4, <1>5, <1>6
<1> QED BY <1>2, <1>3, <1>7, Continues

\* pp2 is mapped at PAGE_SIZE, and mapped there again.
LEMMA MapPp2Good ==
    ASSUME CheckInv, NEW n \in {8, 10}, Test!MapPp2(n) PROVE CheckInv'
<1>1. PICK r : r = Test!map_frame(m, pp[2], Test!vaPage, {}) OBVIOUS
<1>2. /\ test = n /\ m' = r.mem /\ UNCHANGED <<pp, fl, usable>>
      /\ test' = IF /\ r.ret = 0 /\ Test!check_va2pa(r.mem, Test!vaPage) = pp[2]
                    /\ r.mem.references[pp[2]] = 1
                 THEN n + 1 ELSE 0
  BY <1>1, Zenon DEF Test!MapPp2, Test!MapMustSucceed, Test!Assert, Test!Refs
<1>3. Running(n) BY <1>2, RunningNow
<1>4. PICK k : k = r.mem OBVIOUS
<1>5. r.ret = 0 /\ View(n + 1, k, pp, usable)
  <2>1. CASE n = 8 BY <1>1, <1>3, <1>4, <2>1, Group8 DEF Running
  <2>2. CASE n = 10 BY <1>1, <1>3, <1>4, <2>2, Group10 DEF Running
  <2> QED BY <2>1, <2>2
<1>6. PICK n1 : n1 = n + 1 OBVIOUS
<1>7. n1 \in {9, 11} BY <1>6
<1>8. Three(pp, usable) /\ View(n1, k, pp, usable) BY <1>3, <1>5, <1>6 DEF Running
<1>9. Test!check_va2pa(k, Test!vaPage) = pp[2] /\ k.references[pp[2]] = 1
  BY <1>7, <1>8, Checked
<1>10. test' = n + 1 /\ View(n + 1, m', pp, usable) BY <1>2, <1>4, <1>5, <1>9
<1>11. n \in 5 .. 19 OBVIOUS
<1> QED BY <1>2, <1>3, <1>10, <1>11, Continues

\* pp1 replaces pp2 at PAGE_SIZE.
LEMMA ReplacePp2Good == ASSUME CheckInv, Test!ReplacePp2 PROVE CheckInv'
<1>1. PICK r : r = Test!map_frame(m, pp[1], Test!vaPage, {}) OBVIOUS
<1>2. /\ test = 13 /\ m' = r.mem /\ UNCHANGED <<pp, fl, usable>>
      /\ test' = IF /\ r.ret = 0 /\ Test!check_va2pa(r.mem, Test!vaPage) = pp[1]
                    /\ Test!check_va2pa(r.mem, Test!va0) = pp[1]
                    /\ r.mem.references[pp[1]] = 2 /\ r.mem.references[pp[2]] = 0
                 THEN 13 + 1 ELSE 0
  BY <1>1, Zenon DEF Test!ReplacePp2, Test!MapMustSucceed, Test!Assert, Test!Refs
<1>3. Running(13) BY <1>2, RunningNow
<1>4. PICK k : k = r.mem OBVIOUS
<1>5. r.ret = 0 /\ View(14, k, pp, usable) BY <1>1, <1>3, <1>4, Group13 DEF Running
<1>6. /\ Test!check_va2pa(k, Test!vaPage) = pp[1]
      /\ Test!check_va2pa(k, Test!va0) = pp[1]
      /\ k.references[pp[1]] = 2 /\ k.references[pp[2]] = 0
  BY <1>3, <1>5, Checked DEF Running
<1>7. test' = 13 + 1 /\ View(13 + 1, m', pp, usable) BY <1>2, <1>4, <1>5, <1>6
<1> QED BY <1>2, <1>3, <1>7, Continues

\* Unmapping address 0 keeps pp1 at PAGE_SIZE.
LEMMA UnmapFirstGood == ASSUME CheckInv, Test!UnmapFirst PROVE CheckInv'
<1>1. PICK k : k = Test!unmap_frame(m, Test!va0) OBVIOUS
<1>2. /\ test = 15 /\ m' = k /\ UNCHANGED <<pp, fl, usable>>
      /\ test' = IF /\ Test!check_va2pa(k, Test!va0) = Test!NULL
                    /\ Test!check_va2pa(k, Test!vaPage) = pp[1]
                    /\ k.references[pp[1]] = 1 /\ k.references[pp[2]] = 0
                 THEN 15 + 1 ELSE 0
  BY <1>1, Zenon DEF Test!UnmapFirst, Test!Unmap, Test!Assert, Test!Refs
<1>3. Running(15) BY <1>2, RunningNow
<1>4. View(16, k, pp, usable) BY <1>1, <1>3, Group15 DEF Running
<1>5. /\ Test!check_va2pa(k, Test!va0) = Test!NULL
      /\ Test!check_va2pa(k, Test!vaPage) = pp[1]
      /\ k.references[pp[1]] = 1 /\ k.references[pp[2]] = 0
  BY <1>3, <1>4, Checked DEF Running
<1>6. test' = 15 + 1 /\ View(15 + 1, m', pp, usable) BY <1>2, <1>4, <1>5
<1> QED BY <1>2, <1>3, <1>6, Continues

\* Unmapping PAGE_SIZE frees pp1.
LEMMA UnmapSecondGood == ASSUME CheckInv, Test!UnmapSecond PROVE CheckInv'
<1>1. PICK k : k = Test!unmap_frame(m, Test!vaPage) OBVIOUS
<1>2. /\ test = 16 /\ m' = k /\ UNCHANGED <<pp, fl, usable>>
      /\ test' = IF /\ Test!check_va2pa(k, Test!va0) = Test!NULL
                    /\ Test!check_va2pa(k, Test!vaPage) = Test!NULL
                    /\ k.references[pp[1]] = 0 /\ k.references[pp[2]] = 0
                 THEN 16 + 1 ELSE 0
  BY <1>1, Zenon DEF Test!UnmapSecond, Test!Unmap, Test!Assert, Test!Refs
<1>3. Running(16) BY <1>2, RunningNow
<1>4. View(17, k, pp, usable) BY <1>1, <1>3, Group16 DEF Running
<1>5. /\ Test!check_va2pa(k, Test!va0) = Test!NULL
      /\ Test!check_va2pa(k, Test!vaPage) = Test!NULL
      /\ k.references[pp[1]] = 0 /\ k.references[pp[2]] = 0
  BY <1>3, <1>4, Checked DEF Running
<1>6. test' = 16 + 1 /\ View(16 + 1, m', pp, usable) BY <1>2, <1>4, <1>5
<1> QED BY <1>2, <1>3, <1>6, Continues

\* p[2] and p[1] are allocated again into pp.
LEMMA ReallocateGood ==
    ASSUME CheckInv, NEW n \in {14, 17}, NEW f, f = pp[IF n = 14 THEN 2 ELSE 1],
           Test!Allocate(n, 3, {f})
    PROVE  CheckInv'
<1>1. PICK a : a = Test!allocate_frame(m) OBVIOUS
<1>2. /\ test = n /\ m' = a.mem /\ pp' = [pp EXCEPT ![3] = a.frame]
      /\ test' = (IF a.ret = 0 /\ a.frame # Test!NULL /\ a.frame \in {f}
                  THEN n + 1 ELSE 0)
      /\ UNCHANGED <<fl, usable>>
  BY <1>1, Zenon DEF Test!Allocate, Test!Assert
<1>3. Running(n) BY <1>2, RunningNow
<1>4. a.ret = 0 /\ a.frame = f /\ View(n + 1, a.mem, pp, usable)
  <2>1. CASE n = 14 BY <1>1, <1>3, <2>1, Group14 DEF Running
  <2>2. CASE n = 17 BY <1>1, <1>3, <2>2, Group17 DEF Running
  <2> QED BY <2>1, <2>2
<1>5. f \in Frames /\ f # Test!NULL
  <2>1. f \in Frames BY <1>3 DEF Running, Three
  <2> QED BY <2>1, MemoryIndex DEF Frames, Test!NULL
<1>6. SameFirst(pp, pp')
  BY <1>2, <1>3, <1>4, <1>5 DEF Running, Three, Locals, SameFirst
<1>7. test' = n + 1 /\ View(n + 1, m', pp, usable) BY <1>2, <1>4, <1>5
<1>8. n \in 5 .. 19 OBVIOUS
<1> QED BY <1>2, <1>3, <1>6, <1>7, <1>8, ContinuesWith

\* "forcibly take pp0 back".
LEMMA TakeBackGood == ASSUME CheckInv, Test!TakePp0Back PROVE CheckInv'
<1>1. PICK k : k = TakeBack(m, pp[0]) OBVIOUS
<1>2. /\ test = 19 /\ m' = k /\ UNCHANGED <<pp, fl, usable>>
      /\ test' = IF m.directory[0].frame = pp[0] /\ m.references[pp[0]] = 1
                 THEN 19 + 1 ELSE 0
  BY <1>1, Zenon DEF Test!TakePp0Back, TakeBack, Test!Assert, Test!Refs
<1>3. Running(19) BY <1>2, RunningNow
<1>4. /\ m.directory[0].frame = pp[0] /\ m.references[pp[0]] = 1
      /\ View(20, k, pp, usable)
  BY <1>1, <1>3, Group19 DEF Running
<1>5. test' = 19 + 1 /\ View(19 + 1, m', pp, usable) BY <1>2, <1>4
<1> QED BY <1>2, <1>3, <1>5, Continues

\* "give free list back".
LEMMA GiveBackGood == ASSUME CheckInv, Test!GiveBack PROVE CheckInv'
<1>1. PICK k : k = PutBack(m, fl, pp) OBVIOUS
<1>2. test = 20 /\ m' = k /\ test' = 21 /\ UNCHANGED <<pp, fl, usable>>
  BY <1>1, Zenon DEF Test!GiveBack, PutBack, Test!Last
<1>3. Running(20) BY <1>2, RunningNow
<1>4. View(21, k, pp, usable) BY <1>1, <1>3, Group20 DEF Running
<1> QED BY <1>2, <1>3, <1>4 DEF Running, CheckInv, CheckState

-----------------------------------------------------------------------------
\* The call of page_check, on what the boot code hands over.

\* A word of a boot table, read as an entry.
LEMMA BootEntry ==
    ASSUME NEW w \in Int \cup Garbage
    PROVE  Entry(w) \in Words /\ (w = NONE => Entry(w) = Zero)
<1>1. Zero \in Words BY EntryTypes
<1>2. Test!CONSTRUCT_ENTRY(w, {Test!PERM_PRESENT}) \in Words
  BY DEF Test!CONSTRUCT_ENTRY, Words, Test!PermBits
<1> QED BY <1>1, <1>2 DEF Entry, Zero

\* The frames that the list names are frames of memory.
LEMMA HandedList ==
    ASSUME BootInv, pc = "done", Fits
    PROVE  /\ s.free_frame_list \in Seq(Frames)
           /\ IsInjective(s.free_frame_list)
           /\ Range(s.free_frame_list) \subseteq Frames
           /\ \A f \in Frames : s.references[f] = 0 <=> f \in Range(s.free_frame_list)
<1>1. PICK q, n : q = s.free_frame_list /\ n = s.number_of_frames OBVIOUS
<1>2. /\ IsInjective(q) /\ Range(q) = (0 .. n - 1) \ InUse
      /\ \A f \in 0 .. n - 1 : s.references[f] = IF f \in InUse THEN 1 ELSE 0
  BY <1>1, HandOverHolds DEF HandOver
<1>3. s \in Boots /\ MachineKnown(s) /\ Beyond(s) BY DEF BootInv, Sound
<1>4. n \in Nat /\ n <= NumFrames /\ \A f : IsMemory(s, f) <=> f < n
  BY <1>1, <1>3, MachineFacts
<1>5. NumFrames \in Nat BY MemoryIndex
<1>6. Range(q) \subseteq Frames BY <1>2, <1>4, <1>5 DEF Frames
<1>7. q \in Seq(Frames)
  <2>1. q \in Seq(Int) BY <1>1, <1>3 DEF Boots
  <2>2. Len(q) \in Nat /\ DOMAIN q = 1 .. Len(q) /\ q \in [1 .. Len(q) -> Int]
    BY <2>1
  <2>3. \A j \in 1 .. Len(q) : q[j] \in Frames BY <1>6, <2>2 DEF Range
  <2>4. q \in [1 .. Len(q) -> Frames] BY <2>2, <2>3
  <2> QED BY <2>2, <2>4, SeqDef
<1>8. ASSUME NEW f \in Frames PROVE s.references[f] = 0 <=> f \in Range(q)
  <2>1. s.references[f] = 0 => f < n BY <1>3, <1>4 DEF Beyond
  <2>2. f \in Nat BY <1>5 DEF Frames
  <2>3. f < n => (s.references[f] = 0 <=> f \notin InUse) BY <1>2, <1>4, <2>2
  <2>4. f \in Range(q) <=> f < n /\ f \notin InUse BY <1>2, <1>4, <2>2
  <2> QED BY <2>1, <2>3, <2>4
<1> QED BY <1>1, <1>2, <1>6, <1>7, <1>8

\* page_check starts on what the boot code hands over: nothing is taken
\* yet, and the list, the counts and the directory agree.
LEMMA CallGood == ASSUME BootInv, CheckInv, CallPageCheck PROVE CheckInv'
<1>1. pc = "done" /\ Fits BY DEF CallPageCheck
<1>2. PICK k : k = MemoryAfterBoot OBVIOUS
<1>3. /\ test' = 1 /\ m' = k /\ pp' = [x \in 0 .. 3 |-> Test!NULL]
      /\ usable' = Test!Range(k.free)
  BY <1>2 DEF CallPageCheck, Test!Call
<1>4. /\ k.free = s.free_frame_list
      /\ k.references = [f \in Frames |-> IF s.references[f] = 0 THEN 0 ELSE 1]
      /\ k.directory = [d \in UserDirs |-> Entry(s.directory[d])]
      /\ k.table = [f \in Frames |-> [n \in Slots |-> Entry(s.table[f][n])]]
      /\ k.tlb = [va \in Test!Pages |-> Zero]
      /\ k = [free |-> k.free, references |-> k.references,
              directory |-> k.directory, table |-> k.table, tlb |-> k.tlb]
  BY <1>2 DEF MemoryAfterBoot, Zero
<1>5. /\ k.free \in Seq(Frames) /\ IsInjective(k.free) /\ Range(k.free) \subseteq Frames
      /\ \A f \in Frames : s.references[f] = 0 <=> f \in Range(k.free)
  BY <1>1, <1>4, HandedList
<1>6. s \in Boots /\ HandOver BY HandOverHolds DEF BootInv, Sound
<1>7. \A d \in UserDirs : d \in Indices
  BY Layout DEF UserDirs, Indices, PDX_UENVS
<1>8. k.references \in [Frames -> Nat] BY <1>4
<1>9. /\ k.directory \in [UserDirs -> Words]
      /\ \A d \in UserDirs : k.directory[d] = Zero
  <2> SUFFICES ASSUME NEW d \in UserDirs
               PROVE  Entry(s.directory[d]) \in Words /\ Entry(s.directory[d]) = Zero
    BY <1>4
  <2>1. s.directory[d] = NONE BY <1>1, <1>6 DEF HandOver, UserDirs
  <2>2. NONE \in Int \cup Garbage BY DEF NONE
  <2> QED BY <2>1, <2>2, BootEntry
<1>10. k.table \in [Frames -> [Slots -> Words]]
  <2> SUFFICES ASSUME NEW f \in Frames, NEW n \in Slots
               PROVE  Entry(s.table[f][n]) \in Words
    BY <1>4
  <2>1. s.table[f][n] \in Int \cup Garbage BY <1>6 DEF Boots
  <2> QED BY <2>1, BootEntry
<1>11. k.tlb \in [Test!Pages -> Words] BY <1>4, EntryTypes
<1>12. k \in Memory BY <1>4, <1>5, <1>8, <1>9, <1>10, <1>11 DEF Memory
<1>13. PICK U : U = usable' OBVIOUS
<1>14. U = Range(k.free) BY <1>3, <1>13 DEF Range, Test!Range
<1>15. Taking(0, k, pp', U)
  <2>1. {pp'[x] : x \in 0 .. 0 - 1} = {} OBVIOUS
  <2>2. Lists(k.free, U \ {}) BY <1>5, <1>14 DEF Lists
  <2>3. Counted(k, {}, U) BY <1>4, <1>5, <1>14 DEF Counted
  <2>4. NoTables(k) BY <1>9 DEF NoTables
  <2>5. Distinct(pp', 0) BY DEF Distinct
  <2> QED BY <1>12, <2>1, <2>2, <2>3, <2>4, <2>5 DEF Taking
<1>16. pp' \in Locals /\ U \in SUBSET Frames BY <1>3, <1>5, <1>14 DEF Locals
<1>17. 1 - 1 = 0 OBVIOUS
<1> QED BY <1>3, <1>13, <1>15, <1>16, <1>17 DEF CheckInv, CheckState

\* Each group of statements of page_check keeps the invariant.
LEMMA CheckNextGood == ASSUME CheckInv, Test!Next PROVE CheckInv'
<1>1. Test!Frames = Frames BY DEF Test!Frames, Frames
<1>2. CASE Test!Allocate(1, 0, Test!Frames)
  <2>1. Frames = Frames \ FirstFrames(pp, 0) BY DEF FirstFrames
  <2>2. Test!Allocate(1, 0, Frames) /\ 1 = 0 + 1 BY <1>1, <1>2
  <2> QED BY <2>1, <2>2, AllocateFirst
<1>3. CASE Test!Allocate(2, 1, Test!Frames \ {pp[0]})
  <2>1. FirstFrames(pp, 1) = {pp[0]} BY DEF FirstFrames
  <2>2. Test!Allocate(2, 1, Frames \ FirstFrames(pp, 1)) /\ 2 = 1 + 1
    BY <1>1, <1>3, <2>1
  <2> QED BY <2>2, AllocateFirst
<1>4. CASE Test!Allocate(3, 2, Test!Frames \ {pp[0], pp[1]})
  <2>1. FirstFrames(pp, 2) = {pp[0], pp[1]} BY DEF FirstFrames
  <2>2. Test!Allocate(3, 2, Frames \ FirstFrames(pp, 2)) /\ 3 = 2 + 1
    BY <1>1, <1>4, <2>1
  <2> QED BY <2>2, AllocateFirst
<1>5. CASE Test!Allocate(14, 3, {pp[2]})
  <2>1. PICK f : f = pp[2] OBVIOUS
  <2>2. Test!Allocate(14, 3, {f}) /\ f = pp[IF 14 = 14 THEN 2 ELSE 1]
    BY <1>5, <2>1
  <2> QED BY <2>2, ReallocateGood
<1>6. CASE Test!Allocate(17, 3, {pp[1]})
  <2>1. PICK f : f = pp[1] OBVIOUS
  <2>2. Test!Allocate(17, 3, {f}) /\ f = pp[IF 17 = 14 THEN 2 ELSE 1]
    BY <1>6, <2>1
  <2> QED BY <2>2, ReallocateGood
<1>7. \A n \in {5, 9, 11, 18} : Test!NoFreeMemory(n) => CheckInv' BY NoFreeGood
<1>8. \A n \in {8, 10} : Test!MapPp2(n) => CheckInv' BY MapPp2Good
<1> QED BY <1>2, <1>3, <1>4, <1>5, <1>6, <1>7, <1>8, StealGood, MustFailGood,
           UsePp0Good, ReplacePp2Good, UnmapFirstGood, UnmapSecondGood,
           TakeBackGood, GiveBackGood, Zenon DEF Test!Next

\* Every step of FOS_initialize keeps the invariant of page_check: the boot
\* code does not touch its variables, the call hands over what BootInv says,
\* and every group of statements finds what the one before it left.
THEOREM CheckInvariance == FosSpec => []CheckInv
<1>1. FosInit => CheckInv
  BY DEF FosInit, Test!Before, Test!NotCalled, CheckInv, CheckState
<1>2. BootInv /\ CheckInv /\ [FosNext]_<<vars, testVars>> => CheckInv'
  <2> SUFFICES ASSUME BootInv, CheckInv, [FosNext]_<<vars, testVars>>
               PROVE  CheckInv'
    OBVIOUS
  <2>1. CASE UNCHANGED testVars BY <2>1 DEF testVars, CheckInv
  <2>2. CASE CallPageCheck BY <2>2, CallGood
  <2>3. CASE Test!Next BY <2>3, CheckNextGood
  <2> QED BY <2>1, <2>2, <2>3 DEF FosNext, Boot, page_check
<1> QED BY <1>1, <1>2, BootInvariance, PTL DEF FosSpec

\* No assert of page_check fails on a machine with three usable frames.
THEOREM SelfTestPasses == FosSpec => []PageCheckPasses
<1>1. CheckInv => PageCheckPasses
  <2> SUFFICES ASSUME CheckInv, Cardinality(usable) >= 3 PROVE test # 0
    <3>1. Test!Cardinality(usable) = Cardinality(usable)
      BY DEF Test!Cardinality, Cardinality
    <3> QED BY <3>1 DEF PageCheckPasses, Test!AssertsHold
  <2> QED BY DEF CheckInv, CheckState
<1> QED BY <1>1, CheckInvariance, PTL

\* page_check leaves the memory manager as it found it, up to the list's order.
THEOREM SelfTestRestores == FosSpec => []StateRestored
<1>1. CheckInv => StateRestored
  <2> SUFFICES ASSUME CheckInv, test = 21 PROVE StateRestored
    BY DEF StateRestored, Test!StateRestored, Test!Last
  <2>1. Lists(m.free, usable) /\ Counted(m, {}, usable) /\ NoTables(m)
    BY DEF CheckInv, CheckState, View
  <2> QED BY <2>1 DEF StateRestored, Test!StateRestored, Lists, Counted, NoTables,
                      Range, Test!Range, IsInjective, Test!IsInjective, Zero,
                      Frames, Test!Frames
<1> QED BY <1>1, CheckInvariance, PTL

\* While the list is stolen, its frames are neither counted nor listed, and no
\* page table entry leads to one.
THEOREM SelfTestKeepsOut == FosSpec => []StolenUntouched
<1>1. CheckInv => StolenUntouched
  <2> SUFFICES ASSUME CheckInv, test \in 5 .. 20, NEW j \in DOMAIN fl
               PROVE  /\ m.references[fl[j]] = 0
                      /\ fl[j] \notin Test!Range(m.free)
                      /\ \A d \in UserDirs : m.directory[d] # Zero =>
                          m.directory[d].frame # fl[j]
                      /\ \A va \in Test!Pages : Test!check_va2pa(m, va) # fl[j]
    BY Zenon DEF StolenUntouched, Test!StolenUntouched, Zero
  <2>1. Running(test) BY RunningNow
  <2>2. PICK f : f = fl[j] OBVIOUS
  <2>3. f \in Frames /\ f \in usable \ TestFrames(pp)
    <3>1. fl \in Seq(Frames) /\ Range(fl) = usable \ TestFrames(pp)
      BY <2>1 DEF Running, Lists
    <3>2. f \in Range(fl) BY <2>2 DEF Range
    <3> QED BY <2>1, <3>1, <3>2 DEF Running, Three
  <2>4. f # pp[0] /\ f # pp[1] /\ f # pp[2] BY <2>3 DEF TestFrames
  <2>5. f # Test!NULL BY <2>3, MemoryIndex DEF Frames, Test!NULL
  <2>6. /\ Counted(m, TestFrames(pp), usable)
        /\ m.free \in {<<>>, <<pp[1]>>, <<pp[2]>>}
    <3>1. \E q \in {<<>>, <<pp[1]>>, <<pp[2]>>} : Stolen(m, pp, usable, q)
      BY <2>1 DEF Running, View
    <3> QED BY <3>1 DEF Stolen
  <2>7. m.references[f] = 0 BY <2>3, <2>6 DEF Counted
  <2>8. f \notin Test!Range(m.free) BY <2>4, <2>6 DEF Test!Range
  <2>9. \/ NoTables(m)
        \/ \E e0, e1 \in {Zero, Mapping(pp[1]), Mapping(pp[2])} : Table(m, pp, e0, e1)
    BY <2>1 DEF Running, View
  <2>10. CASE NoTables(m)
    <3>1. ASSUME NEW va \in Test!Pages PROVE Test!check_va2pa(m, va) = Test!NULL
      <4>1. va[1] \in UserDirs BY DEF Test!Pages
      <4>2. m.directory[va[1]] = Zero BY <2>10, <4>1 DEF NoTables
      <4>3. Test!Walk(m, va) = Zero
        BY <4>2, EntryFacts, Zenon DEF Test!Walk, Test!PDX, Zero
      <4> QED BY <4>3, EntryFacts DEF Test!check_va2pa, Test!Translates
    <3> QED BY <2>2, <2>5, <2>7, <2>8, <2>10, <3>1 DEF NoTables
  <2>11. CASE \E e0, e1 \in {Zero, Mapping(pp[1]), Mapping(pp[2])} :
                Table(m, pp, e0, e1)
    <3>1. PICK e0 \in {Zero, Mapping(pp[1]), Mapping(pp[2])},
               e1 \in {Zero, Mapping(pp[1]), Mapping(pp[2])} :
                Table(m, pp, e0, e1)
      BY <2>11
    <3>2. Leads(e0) /\ Leads(e1) BY DEF Leads
    <3>3. Target(e0) # f /\ Target(e1) # f BY <2>4, <2>5, EntryFacts DEF Target
    <3>4. \A va \in Test!Pages :
            Test!check_va2pa(m, va) \in {Test!NULL, Target(e0), Target(e1)}
      BY <3>1, <3>2, Translation
    <3>5. \A d \in UserDirs : m.directory[d] # Zero => m.directory[d] = TableEntry(pp[0])
      BY <3>1 DEF Table
    <3> QED BY <2>2, <2>4, <2>5, <2>7, <2>8, <3>3, <3>4, <3>5, EntryFacts
  <2> QED BY <2>9, <2>10, <2>11
<1> QED BY <1>1, CheckInvariance, PTL

=============================================================================
