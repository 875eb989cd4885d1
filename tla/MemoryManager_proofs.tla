------------------------ MODULE MemoryManager_proofs ------------------------
(***************************************************************************)
(* The invariants of MemoryManager.tla for any number of frames, any set of *)
(* pages and any width of the counter.                                      *)
(*                                                                          *)
(* Good is the inductive invariant, a conjunction of named parts over a     *)
(* memory state and the frames that callers hold.  It adds to the           *)
(* invariants of MemoryManager.tla what their steps need from each other:   *)
(*   HeldOK  a frame in a caller's hands is not referenced, so freeing it   *)
(*           by hand is as good as decrement_references;                    *)
(*   EntOK   every entry that is not zero is present and points at usable   *)
(*           memory.  get_page_table and get_frame_info test "not zero",    *)
(*           map_frame and the processor test the present bit: they agree   *)
(*           only because of this.                                          *)
(* The counts of different frames depend on the same walks, so every lemma  *)
(* about an operation first says what it does to the walk of every page and *)
(* then concludes each part of Good.                                        *)
(***************************************************************************)
EXTENDS MemoryManager, FiniteSetTheorems, SequenceTheorems, TLAPS

\* FreeListSound: nothing on the list is used, nothing is on it twice.
FreeOK(m, h) ==
    /\ IsInjective(m.free)
    /\ \A f \in Listed(m) :
        m.references[f] = 0 /\ f \notin Reserved /\ f \notin h

\* What callers hold is theirs alone.
HeldOK(m, h) == \A f \in h : m.references[f] = 0 /\ f \notin Reserved

\* RefCountExact.
RefOK(m) ==
    \A f \in Frames \ Reserved :
        m.references[f] = IF f \in TableFrames(m)
                          THEN 1
                          ELSE Cardinality(Mappers(m, f))

\* NoLeak.
LeakOK(m, h) ==
    \A f \in Frames : m.references[f] = 0 => f \in Listed(m) \cup h

\* TLBCoherent.
TlbOK(m) == \A va \in Pages : m.tlb[va] # ZeroEntry => m.tlb[va] = Walk(m, va)

\* TablesPrivate.
TabOK(m) ==
    /\ \A d, e \in TableDirs(m) :
        m.directory[d].frame = m.directory[e].frame => d = e
    /\ \A f \in TableFrames(m) :
        f \in Frames \ Reserved /\ Mappers(m, f) = {}

\* An entry is zero, or present and of a usable frame.
EntOK(m) ==
    /\ \A d \in TableDirs(m) : PERM_PRESENT \in m.directory[d].perm
    /\ \A va \in Pages : Walk(m, va) # ZeroEntry =>
        /\ PERM_PRESENT \in Walk(m, va).perm
        /\ Walk(m, va).frame \in Frames \ Reserved

\* The inductive invariant.
Good(m, h) ==
    /\ m \in Memories /\ h \in SUBSET Frames
    /\ FreeOK(m, h) /\ HeldOK(m, h) /\ RefOK(m) /\ LeakOK(m, h)
    /\ TlbOK(m) /\ TabOK(m) /\ EntOK(m)

-----------------------------------------------------------------------------
\* LIST_INSERT_HEAD of a frame that is not listed adds this frame, once.
LEMMA InsertHeadFacts ==
    ASSUME NEW s \in Seq(Frames), NEW f \in Frames, IsInjective(s),
           f \notin Range(s)
    PROVE  /\ <<f>> \o s \in Seq(Frames)
           /\ IsInjective(<<f>> \o s)
           /\ Range(<<f>> \o s) = Range(s) \cup {f}
<1> DEFINE t == <<f>> \o s
<1>1. /\ t \in Seq(Frames)
      /\ Len(t) = Len(s) + 1
      /\ t[1] = f
      /\ \A i \in 1 .. Len(s) : t[i + 1] = s[i]
  OBVIOUS
<1>2. \A i \in DOMAIN t : i = 1 \/ (i - 1 \in DOMAIN s /\ t[i] = s[i - 1])
  BY <1>1
<1>3. IsInjective(t)
  BY <1>1, <1>2 DEF IsInjective, Range
<1>4. Range(t) = Range(s) \cup {f}
  <2>1. Range(t) \subseteq Range(s) \cup {f}
    BY <1>1, <1>2 DEF Range
  <2>2. \A i \in DOMAIN s : i + 1 \in DOMAIN t /\ t[i + 1] = s[i]
    BY <1>1
  <2>3. Range(s) \subseteq Range(t)
    BY <2>2 DEF Range
  <2>4. f \in Range(t)
    BY <1>1 DEF Range
  <2> QED BY <2>1, <2>3, <2>4
<1> QED BY <1>1, <1>3, <1>4

\* LIST_REMOVE of the first frame takes this frame off, and no other.
LEMMA RemoveFirstFacts ==
    ASSUME NEW s \in Seq(Frames), s # <<>>, IsInjective(s)
    PROVE  /\ Tail(s) \in Seq(Frames)
           /\ Head(s) \in Frames
           /\ Head(s) \in Range(s)
           /\ IsInjective(Tail(s))
           /\ Range(Tail(s)) = Range(s) \ {Head(s)}
<1> DEFINE t == Tail(s)
<1>1. /\ t \in Seq(Frames)
      /\ Len(t) = Len(s) - 1
      /\ Len(s) > 0
      /\ Head(s) = s[1]
      /\ \A i \in 1 .. Len(t) : t[i] = s[i + 1]
  OBVIOUS
<1>2. \A i \in DOMAIN t : i + 1 \in DOMAIN s /\ t[i] = s[i + 1]
  BY <1>1
<1>3. 1 \in DOMAIN s /\ Head(s) \in Frames /\ Head(s) \in Range(s)
  BY <1>1 DEF Range
<1>4. IsInjective(t)
  <2> SUFFICES ASSUME NEW i \in DOMAIN t, NEW j \in DOMAIN t, t[i] = t[j]
               PROVE  i = j
    BY DEF IsInjective
  <2>1. i \in Nat /\ j \in Nat
    BY <1>1
  <2>2. i + 1 = j + 1
    BY <1>2 DEF IsInjective
  <2> QED BY <2>1, <2>2
<1>5. Range(t) = Range(s) \ {Head(s)}
  <2>1. \A i \in DOMAIN s : i = 1 \/ (i - 1 \in DOMAIN t /\ t[i - 1] = s[i])
    BY <1>1
  <2>2. Range(s) \ {Head(s)} \subseteq Range(t)
    <3> SUFFICES ASSUME NEW x \in Range(s), x # Head(s)
                 PROVE  x \in Range(t)
      OBVIOUS
    <3>1. PICK i \in DOMAIN s : x = s[i]
      BY DEF Range
    <3>2. i # 1
      BY <1>1, <3>1
    <3>3. i - 1 \in DOMAIN t /\ x = t[i - 1]
      BY <2>1, <3>1, <3>2
    <3> QED BY <3>3 DEF Range
  <2>3. Range(t) \subseteq Range(s)
    BY <1>2 DEF Range
  <2>4. Head(s) \notin Range(t)
    <3>1. \A i \in DOMAIN t : i + 1 # 1
      BY <1>1
    <3> QED BY <1>1, <1>2, <1>3, <3>1 DEF Range, IsInjective
  <2> QED BY <2>2, <2>3, <2>4
<1> QED BY <1>1, <1>3, <1>4, <1>5

\* A count that does not reach its modulus does not wrap.
LEMMA ModSmall ==
    ASSUME NEW x \in 0 .. RefModulus - 1
    PROVE  x % RefModulus = x
BY RefModulusAssumption

-----------------------------------------------------------------------------
\* The walk of a page is zero, or an entry of the page table its directory
\* entry points to.
LEMMA WalkShape ==
    ASSUME NEW m \in Memories, EntOK(m), TabOK(m), NEW va \in Pages
    PROVE  /\ va[1] \in Dirs /\ va[2] \in Slots
           /\ m.directory[va[1]] = ZeroEntry => Walk(m, va) = ZeroEntry
           /\ m.directory[va[1]] # ZeroEntry =>
                /\ m.directory[va[1]].frame \in TableFrames(m)
                /\ m.directory[va[1]].frame \in Frames
                /\ Walk(m, va) = m.table[m.directory[va[1]].frame][va[2]]
           /\ Walk(m, va) \in Entries
<1>1. va[1] \in Dirs /\ va[2] \in Slots
  BY DEF Pages
<1>2. ZeroEntry \in Entries /\ ZeroEntry.perm = {}
  BY NumFramesAssumption DEF ZeroEntry, Entries, Frames
<1>3. CASE m.directory[va[1]] = ZeroEntry
  BY <1>1, <1>2, <1>3 DEF Walk, PDX
<1>4. CASE m.directory[va[1]] # ZeroEntry
  <2>1. va[1] \in TableDirs(m)
    BY <1>1, <1>4 DEF TableDirs
  <2>2. /\ PERM_PRESENT \in m.directory[va[1]].perm
        /\ m.directory[va[1]].frame \in TableFrames(m)
        /\ m.directory[va[1]].frame \in Frames
    BY <2>1 DEF EntOK, TabOK, TableFrames
  <2>3. Walk(m, va) = m.table[m.directory[va[1]].frame][va[2]]
    BY <2>2 DEF Walk, PDX, PTX
  <2>4. Walk(m, va) \in Entries
    BY <1>1, <2>2, <2>3 DEF Memories
  <2> QED BY <1>1, <1>4, <2>2, <2>3, <2>4
<1> QED BY <1>3, <1>4

\* Only finitely many pages map a frame, so they can be counted.
LEMMA MappersFinite ==
    ASSUME NEW m, NEW f
    PROVE  /\ IsFiniteSet(Pages)
           /\ Mappers(m, f) \in SUBSET Pages
           /\ IsFiniteSet(Mappers(m, f))
           /\ Cardinality(Mappers(m, f)) \in Nat
           /\ Cardinality(Mappers(m, f)) <= Cardinality(Pages)
<1>1. IsFiniteSet(Pages)
  BY PagesAssumption, FS_Product DEF Pages
<1>2. Mappers(m, f) \in SUBSET Pages
  BY DEF Mappers
<1> QED BY <1>1, <1>2, FS_Subset, FS_CardinalityType

\* A frame whose count is 0 is nobody's page and nobody's page table.
LEMMA UnreferencedFrame ==
    ASSUME NEW m \in Memories, RefOK(m),
           NEW f \in Frames \ Reserved, m.references[f] = 0
    PROVE  f \notin TableFrames(m) /\ Mappers(m, f) = {}
<1>1. f \notin TableFrames(m) /\ Cardinality(Mappers(m, f)) = 0
  BY DEF RefOK
<1> QED BY <1>1, MappersFinite, FS_EmptySet

\* Invariants that speak of the page tables only through the walk.
LEMMA SameWalk ==
    ASSUME NEW m \in Memories, NEW m2 \in Memories,
           m2.directory = m.directory,
           \A va \in Pages : Walk(m2, va) = Walk(m, va)
    PROVE  /\ TableDirs(m2) = TableDirs(m)
           /\ TableFrames(m2) = TableFrames(m)
           /\ \A f : Mappers(m2, f) = Mappers(m, f)
           /\ TabOK(m) => TabOK(m2)
           /\ EntOK(m) => EntOK(m2)
<1>1. TableDirs(m2) = TableDirs(m)
  BY DEF TableDirs
<1>2. TableFrames(m2) = TableFrames(m)
  BY <1>1 DEF TableFrames
<1>3. \A f : Mappers(m2, f) = Mappers(m, f)
  BY DEF Mappers
<1>4. TabOK(m) => TabOK(m2)
  BY <1>1, <1>2, <1>3 DEF TabOK
<1>5. EntOK(m) => EntOK(m2)
  BY <1>1 DEF EntOK
<1> QED BY <1>1, <1>2, <1>3, <1>4, <1>5

\* Moving a frame between the free list and a caller.
LEMMA FreeListStep ==
    ASSUME NEW m, NEW h, Good(m, h), NEW m2 \in Memories, NEW h2 \in SUBSET Frames,
           m2.references = m.references, m2.directory = m.directory,
           m2.table = m.table, m2.tlb = m.tlb,
           IsInjective(m2.free),
           Listed(m2) \cup h2 = Listed(m) \cup h,
           Listed(m2) \cap h2 = {}
    PROVE  Good(m2, h2)
<1>1. \A va \in Pages : Walk(m2, va) = Walk(m, va)
  BY DEF Walk
<1>2. m \in Memories
  BY DEF Good
<1>3. /\ TableFrames(m2) = TableFrames(m)
      /\ \A f : Mappers(m2, f) = Mappers(m, f)
      /\ TabOK(m2) /\ EntOK(m2)
  BY <1>1, <1>2, SameWalk DEF Good
<1>4. \A f \in Listed(m) \cup h : m.references[f] = 0 /\ f \notin Reserved
  BY DEF Good, FreeOK, HeldOK
<1>5. FreeOK(m2, h2)
  BY <1>4 DEF FreeOK
<1>6. HeldOK(m2, h2)
  BY <1>4 DEF HeldOK
<1>7. RefOK(m2)
  BY <1>3 DEF Good, RefOK
<1>8. LeakOK(m2, h2)
  BY DEF Good, LeakOK
<1>9. TlbOK(m2)
  BY <1>1 DEF Good, TlbOK
<1> QED BY <1>3, <1>5, <1>6, <1>7, <1>8, <1>9 DEF Good

\* allocate_frame: the first free frame goes to the caller.
LEMMA AllocateGood ==
    ASSUME NEW m, NEW h, Good(m, h), m.free # <<>>
    PROVE  LET a == allocate_frame(m)
           IN  /\ a.ret = 0
               /\ a.frame \in Frames /\ a.frame \notin h
               /\ a.frame = Head(m.free)
               /\ a.mem.directory = m.directory
               /\ a.mem.table = m.table
               /\ Good(a.mem, h \cup {a.frame})
<1> DEFINE f == Head(m.free)
           m2 == allocate_frame(m).mem
<1>1. m \in Memories /\ m.free \in Seq(Frames) /\ IsInjective(m.free)
      /\ h \in SUBSET Frames
  BY DEF Good, Memories, FreeOK
<1>2. /\ Tail(m.free) \in Seq(Frames) /\ f \in Frames /\ f \in Range(m.free)
      /\ IsInjective(Tail(m.free))
      /\ Range(Tail(m.free)) = Range(m.free) \ {f}
  BY <1>1, RemoveFirstFacts
<1>3. m.references[f] = 0 /\ f \notin h
  BY <1>2 DEF Good, FreeOK, Listed
<1>4. /\ allocate_frame(m).ret = 0
      /\ allocate_frame(m).frame = f
      /\ m2 = [[m EXCEPT !.free = Tail(m.free)] EXCEPT !.references[f] = 0]
  BY DEF allocate_frame, LIST_REMOVE_FIRST, initialize_frame_info
<1>5. /\ m2.free = Tail(m.free)
      /\ m2.directory = m.directory
      /\ m2.table = m.table
      /\ m2.tlb = m.tlb
      /\ m2.references = [m.references EXCEPT ![f] = 0]
  BY <1>1, <1>4 DEF Memories
<1>6. m2.references = m.references
  BY <1>1, <1>2, <1>3, <1>5 DEF Memories
<1>7. m2 \in Memories
  <2>1. m2 = [free |-> m2.free, references |-> m2.references,
              directory |-> m2.directory, table |-> m2.table, tlb |-> m2.tlb]
    BY <1>1, <1>4 DEF Memories
  <2> QED BY <1>1, <1>2, <1>5, <1>6, <2>1 DEF Memories
<1>8. /\ Listed(m2) \cup (h \cup {f}) = Listed(m) \cup h
      /\ Listed(m2) \cap (h \cup {f}) = {}
  BY <1>2, <1>5 DEF Listed, Good, FreeOK
<1>9. Good(m2, h \cup {f})
  BY <1>1, <1>2, <1>5, <1>6, <1>7, <1>8, FreeListStep
<1> QED BY <1>2, <1>3, <1>4, <1>5, <1>9

\* free_frame: a frame that a caller holds goes back to the list.
LEMMA FreeGood ==
    ASSUME NEW m, NEW h, Good(m, h), NEW f \in h
    PROVE  Good(free_frame(m, f), h \ {f})
<1> DEFINE m2 == free_frame(m, f)
<1>1. m \in Memories /\ m.free \in Seq(Frames) /\ IsInjective(m.free)
      /\ h \in SUBSET Frames /\ f \in Frames /\ f \notin Range(m.free)
  BY DEF Good, Memories, FreeOK, Listed
<1>2. /\ <<f>> \o m.free \in Seq(Frames)
      /\ IsInjective(<<f>> \o m.free)
      /\ Range(<<f>> \o m.free) = Range(m.free) \cup {f}
  BY <1>1, InsertHeadFacts
<1>3. m2 = [m EXCEPT !.free = <<f>> \o m.free]
  BY DEF free_frame, LIST_INSERT_HEAD
<1>4. /\ m2.free = <<f>> \o m.free
      /\ m2.directory = m.directory
      /\ m2.table = m.table
      /\ m2.tlb = m.tlb
      /\ m2.references = m.references
      /\ m2 \in Memories
  BY <1>1, <1>2, <1>3 DEF Memories
<1>5. /\ Listed(m2) \cup (h \ {f}) = Listed(m) \cup h
      /\ Listed(m2) \cap (h \ {f}) = {}
  BY <1>2, <1>4 DEF Listed, Good, FreeOK
<1> QED BY <1>1, <1>2, <1>4, <1>5, FreeListStep

\* Two memory states whose directories differ in one entry, that of d, which
\* points at f in the second.
TableAdded(m2, m, d, f) ==
    /\ m2.directory[d] # ZeroEntry
    /\ m2.directory[d].frame = f
    /\ \A e \in Dirs \ {d} : m2.directory[e] = m.directory[e]

\* get_page_table's new table: no page is mapped by it, and its frame leaves
\* the caller for the directory.
LEMMA InstallGood ==
    ASSUME NEW m, NEW h, Good(m, h), NEW f \in h, NEW d \in Dirs,
           m.directory[d] = ZeroEntry, NEW m2, m2 = InstallTable(m, f, d)
    PROVE  /\ Good(m2, h \ {f})
           /\ TableAdded(m2, m, d, f)
           /\ \A va \in Pages : Walk(m2, va) = Walk(m, va)
<1> DEFINE pde == CONSTRUCT_ENTRY(f, {PERM_PRESENT, PERM_USER, PERM_WRITEABLE})
<1>1. /\ m \in Memories /\ h \in SUBSET Frames /\ f \in Frames \ Reserved
      /\ m.references[f] = 0 /\ f \notin Listed(m)
      /\ RefOK(m) /\ TabOK(m) /\ EntOK(m)
  BY DEF Good, FreeOK, HeldOK
<1>2. f \notin TableFrames(m) /\ Mappers(m, f) = {}
  BY <1>1, UnreferencedFrame
<1>3. /\ pde \in Entries /\ pde # ZeroEntry
      /\ pde.frame = f /\ PERM_PRESENT \in pde.perm
  BY <1>1 DEF CONSTRUCT_ENTRY, Entries, ZeroEntry, PermBits
<1>4. ZeroTable \in [Slots -> Entries] /\ ZeroEntry \in Entries
      /\ \A s \in Slots : ZeroTable[s] = ZeroEntry
  BY NumFramesAssumption DEF ZeroTable, ZeroEntry, Entries, Frames
<1>5. /\ m2.free = m.free
      /\ m2.references = [m.references EXCEPT ![f] = 1]
      /\ m2.directory = [m.directory EXCEPT ![d] = pde]
      /\ m2.table = [m.table EXCEPT ![f] = ZeroTable]
      /\ m2.tlb = m.tlb
      /\ m2 = [free |-> m2.free, references |-> m2.references,
               directory |-> m2.directory, table |-> m2.table, tlb |-> m2.tlb]
  <2> HIDE DEF pde
  <2>1. m2 = [m EXCEPT !.table = [m.table EXCEPT ![f] = ZeroTable],
                       !.references = [m.references EXCEPT ![f] = 1],
                       !.directory = [m.directory EXCEPT ![d] = pde]]
    BY <1>1, Zenon DEF InstallTable, pde
  <2> QED BY <1>1, <2>1 DEF Memories
<1> HIDE DEF pde
<1>6. m2 \in Memories
  <2>1. m2.references \in [Frames -> 0 .. RefModulus - 1]
    BY <1>1, <1>5, RefModulusAssumption DEF Memories
  <2>2. m2.directory \in [Dirs -> Entries]
    BY <1>1, <1>3, <1>5 DEF Memories
  <2>3. m2.table \in [Frames -> [Slots -> Entries]]
    BY <1>1, <1>4, <1>5 DEF Memories
  <2>4. m2.free \in Seq(Frames) /\ m2.tlb \in [Pages -> Entries]
    BY <1>1, <1>5 DEF Memories
  <2> QED BY <1>5, <2>1, <2>2, <2>3, <2>4 DEF Memories
<1>7. /\ m2.directory[d] = pde
      /\ \A e \in Dirs \ {d} : m2.directory[e] = m.directory[e]
      /\ m2.table[f] = ZeroTable
      /\ \A g \in Frames \ {f} : m2.table[g] = m.table[g]
      /\ m2.references[f] = 1
      /\ \A g \in Frames \ {f} : m2.references[g] = m.references[g]
  BY <1>1, <1>5 DEF Memories
<1>8. TableDirs(m2) = TableDirs(m) \cup {d} /\ d \notin TableDirs(m)
  BY <1>3, <1>7 DEF TableDirs
<1>9. TableFrames(m2) = TableFrames(m) \cup {f}
  BY <1>3, <1>7, <1>8 DEF TableFrames, TableDirs
<1>10. ASSUME NEW va \in Pages
       PROVE  Walk(m2, va) = Walk(m, va)
  <2>1. /\ va[1] \in Dirs /\ va[2] \in Slots
        /\ m.directory[va[1]] = ZeroEntry => Walk(m, va) = ZeroEntry
        /\ m.directory[va[1]] # ZeroEntry =>
             /\ m.directory[va[1]].frame \in TableFrames(m)
             /\ m.directory[va[1]].frame \in Frames
             /\ Walk(m, va) = m.table[m.directory[va[1]].frame][va[2]]
    BY <1>1, WalkShape
  <2>2. CASE va[1] = d
    BY <1>3, <1>4, <1>7, <2>1, <2>2 DEF Walk, PDX, PTX
  <2>3. CASE va[1] # d /\ m.directory[va[1]] = ZeroEntry
    BY <1>7, <2>1, <2>3 DEF Walk, PDX, PTX, ZeroEntry
  <2>4. CASE va[1] # d /\ m.directory[va[1]] # ZeroEntry
    <3>1. m2.table[m.directory[va[1]].frame] = m.table[m.directory[va[1]].frame]
      BY <1>2, <1>7, <2>1, <2>4
    <3>2. m2.directory[va[1]] = m.directory[va[1]]
      BY <1>7, <2>1, <2>4
    <3> QED BY <3>1, <3>2 DEF Walk, PDX, PTX
  <2> QED BY <2>2, <2>3, <2>4
<1>11. \A g : Mappers(m2, g) = Mappers(m, g)
  BY <1>10 DEF Mappers
<1>12. Listed(m2) = Listed(m)
  BY <1>5 DEF Listed
<1>13. FreeOK(m2, h \ {f})
  <2>1. \A g \in Listed(m) : g \in Frames /\ g # f
    BY <1>1 DEF Memories, Listed, Range
  <2> QED BY <1>5, <1>7, <1>12, <2>1 DEF Good, FreeOK
<1>14. HeldOK(m2, h \ {f})
  BY <1>1, <1>7 DEF Good, HeldOK
<1>15. RefOK(m2)
  BY <1>2, <1>7, <1>9, <1>11 DEF Good, RefOK
<1>16. LeakOK(m2, h \ {f})
  BY <1>7, <1>12 DEF Good, LeakOK
<1>17. TlbOK(m2)
  BY <1>5, <1>10 DEF Good, TlbOK
<1>18. TabOK(m2)
  <2>1. ASSUME NEW e1 \in TableDirs(m2), NEW e2 \in TableDirs(m2),
               m2.directory[e1].frame = m2.directory[e2].frame
        PROVE  e1 = e2
    <3>1. \A e \in TableDirs(m) : /\ m2.directory[e] = m.directory[e]
                                  /\ m2.directory[e].frame \in TableFrames(m)
      BY <1>7, <1>8 DEF TableDirs, TableFrames
    <3> QED BY <1>1, <1>2, <1>3, <1>7, <1>8, <2>1, <3>1 DEF TabOK
  <2>2. \A g \in TableFrames(m2) : g \in Frames \ Reserved /\ Mappers(m2, g) = {}
    BY <1>1, <1>2, <1>9, <1>11 DEF TabOK
  <2> QED BY <2>1, <2>2 DEF TabOK
<1>19. EntOK(m2)
  <2>1. \A e \in TableDirs(m2) : PERM_PRESENT \in m2.directory[e].perm
    BY <1>1, <1>3, <1>7, <1>8 DEF EntOK, TableDirs
  <2> QED BY <1>1, <1>10, <2>1 DEF EntOK
<1>20. Good(m2, h \ {f})
  BY <1>1, <1>6, <1>13, <1>14, <1>15, <1>16, <1>17, <1>18, <1>19 DEF Good
<1> QED BY <1>3, <1>7, <1>10, <1>20 DEF TableAdded

\* The page tables after a store to the entry of va.
StoredTable(m, va, e) ==
    [m.table EXCEPT ![m.directory[va[1]].frame][va[2]] = e]

\* Storing an entry in the table of va changes the walk of va only.
LEMMA StoreEntry ==
    ASSUME NEW m \in Memories, TabOK(m), EntOK(m), NEW va \in Pages,
           m.directory[va[1]] # ZeroEntry, NEW e \in Entries,
           NEW m2, m2.directory = m.directory,
           m2.table = StoredTable(m, va, e)
    PROVE  /\ m2.table \in [Frames -> [Slots -> Entries]]
           /\ Walk(m2, va) = e
           /\ \A vb \in Pages \ {va} : Walk(m2, vb) = Walk(m, vb)
<1> DEFINE t == m.directory[va[1]].frame
<1>1. t \in Frames /\ va[1] \in Dirs /\ va[2] \in Slots
  BY WalkShape
<1>2. va[1] \in TableDirs(m) /\ PERM_PRESENT \in m.directory[va[1]].perm
  BY <1>1 DEF TableDirs, EntOK
<1>3. m.table \in [Frames -> [Slots -> Entries]]
  BY DEF Memories
<1>4. /\ m2.table \in [Frames -> [Slots -> Entries]]
      /\ m2.table[t][va[2]] = e
      /\ \A s \in Slots \ {va[2]} : m2.table[t][s] = m.table[t][s]
      /\ \A g \in Frames \ {t} : m2.table[g] = m.table[g]
  <2> DEFINE row == [m.table[t] EXCEPT ![va[2]] = e]
  <2>1. m.table[t] \in [Slots -> Entries]
    BY <1>1, <1>3
  <2>2. /\ row \in [Slots -> Entries] /\ row[va[2]] = e
        /\ \A s \in Slots \ {va[2]} : row[s] = m.table[t][s]
    BY <1>1, <2>1
  <2>3. m2.table = [m.table EXCEPT ![t] = row]
    BY DEF StoredTable
  <2> HIDE DEF row, t
  <2> QED BY <1>1, <1>3, <2>2, <2>3
<1>5. Walk(m2, va) = e
  BY <1>2, <1>4 DEF Walk, PDX, PTX
<1>6. ASSUME NEW vb \in Pages, vb # va
      PROVE  Walk(m2, vb) = Walk(m, vb)
  <2>1. /\ vb[1] \in Dirs /\ vb[2] \in Slots
        /\ m.directory[vb[1]] # ZeroEntry => m.directory[vb[1]].frame \in Frames
    BY WalkShape
  <2>2. vb[1] # va[1] \/ vb[2] # va[2]
    BY <1>6 DEF Pages
  <2>3. CASE m.directory[vb[1]] = ZeroEntry
    BY <2>3 DEF Walk, PDX, PTX, ZeroEntry
  <2>4. CASE m.directory[vb[1]] # ZeroEntry /\ vb[1] = va[1]
    BY <1>4, <2>1, <2>2, <2>4 DEF Walk, PDX, PTX
  <2>5. CASE m.directory[vb[1]] # ZeroEntry /\ vb[1] # va[1]
    <3>1. vb[1] \in TableDirs(m)
      BY <2>1, <2>5 DEF TableDirs
    <3>2. m.directory[vb[1]].frame # t
      BY <1>2, <2>5, <3>1 DEF TabOK
    <3> QED BY <1>4, <2>1, <2>5, <3>2 DEF Walk, PDX, PTX
  <2> QED BY <2>3, <2>4, <2>5
<1> QED BY <1>4, <1>5, <1>6

\* get_frame_info finds what the walk finds.
LEMMA FrameInfo ==
    ASSUME NEW m, NEW h, Good(m, h), NEW va \in Pages
    PROVE  /\ Walk(m, va) = ZeroEntry => get_frame_info(m, va).frame = NULL
           /\ Walk(m, va) # ZeroEntry =>
                /\ m.directory[va[1]] # ZeroEntry
                /\ get_frame_info(m, va).frame = Walk(m, va).frame
                /\ get_frame_info(m, va).table = m.directory[va[1]].frame
                /\ Walk(m, va).frame \in Frames \ Reserved
                /\ Walk(m, va).frame # NULL
<1>1. m \in Memories /\ EntOK(m) /\ TabOK(m)
  BY DEF Good
<1>2. /\ va[1] \in Dirs /\ va[2] \in Slots
      /\ m.directory[va[1]] = ZeroEntry => Walk(m, va) = ZeroEntry
      /\ m.directory[va[1]] # ZeroEntry =>
           /\ m.directory[va[1]].frame \in Frames
           /\ Walk(m, va) = m.table[m.directory[va[1]].frame][va[2]]
  BY <1>1, WalkShape
<1>3. \A f \in Frames : f # NULL
  BY NumFramesAssumption DEF Frames, NULL
<1>4. CASE m.directory[va[1]] = ZeroEntry
  <2>1. get_page_table(m, va, FALSE).table = NULL
    BY <1>4 DEF get_page_table, PDX
  <2> QED BY <1>2, <1>4, <2>1 DEF get_frame_info
<1>5. CASE m.directory[va[1]] # ZeroEntry
  <2>1. get_page_table(m, va, FALSE).table = m.directory[va[1]].frame
    BY <1>5 DEF get_page_table, PDX
  <2>2. Walk(m, va) # ZeroEntry => Walk(m, va).frame \in Frames \ Reserved
    BY <1>1 DEF EntOK
  <2> QED BY <1>2, <1>3, <1>5, <2>1, <2>2 DEF get_frame_info, PTX
<1> QED BY <1>4, <1>5

\* unmap_frame of a mapped page, field by field: the entry and the cached
\* translation are zero, the count is one less, and the frame is listed if that
\* makes it 0.
LEMMA UnmapFields ==
    ASSUME NEW m, NEW h, Good(m, h), NEW va \in Pages, Walk(m, va) # ZeroEntry
    PROVE  LET m2 == unmap_frame(m, va)
               g == Walk(m, va).frame
               c == (m.references[g] - 1) % RefModulus
           IN  /\ m2.free = IF c = 0 THEN <<g>> \o m.free ELSE m.free
               /\ m2.references = [m.references EXCEPT ![g] = c]
               /\ m2.directory = m.directory
               /\ m2.table = StoredTable(m, va, ZeroEntry)
               /\ m2.tlb = [m.tlb EXCEPT ![va] = ZeroEntry]
               /\ m2 = [free |-> m2.free, references |-> m2.references,
                        directory |-> m2.directory, table |-> m2.table,
                        tlb |-> m2.tlb]
<1> DEFINE m2 == unmap_frame(m, va)
           g == Walk(m, va).frame
           t == m.directory[va[1]].frame
           c == (m.references[g] - 1) % RefModulus
           r == [m.references EXCEPT ![g] = c]
           d1 == [m EXCEPT !.references = r]
           d2 == decrement_references(m, g)
           d3 == [d2 EXCEPT !.table = [d2.table EXCEPT ![t][va[2]] = ZeroEntry]]
<1>1. m \in Memories
  BY DEF Good
<1>2. /\ get_frame_info(m, va).frame = g /\ g # NULL /\ g \in Frames
      /\ get_frame_info(m, va).table = t
  BY FrameInfo
<1>3. /\ d1.free = m.free /\ d1.directory = m.directory
      /\ d1.table = m.table /\ d1.tlb = m.tlb
      /\ d1.references = r /\ d1.references[g] = c
      /\ d1 = [free |-> d1.free, references |-> d1.references,
               directory |-> d1.directory, table |-> d1.table, tlb |-> d1.tlb]
  <2> HIDE DEF g, c
  <2>1. r[g] = c
    BY <1>1, <1>2 DEF Memories
  <2> HIDE DEF r
  <2>2. d1.references = r
    BY <1>1 DEF Memories
  <2>3. /\ d1.free = m.free /\ d1.directory = m.directory
        /\ d1.table = m.table /\ d1.tlb = m.tlb
    BY <1>1 DEF Memories
  <2>4. d1 = [free |-> d1.free, references |-> d1.references,
              directory |-> d1.directory, table |-> d1.table, tlb |-> d1.tlb]
    <3>1. m = [free |-> m.free, references |-> m.references,
               directory |-> m.directory, table |-> m.table, tlb |-> m.tlb]
      BY <1>1 DEF Memories
    <3> QED BY <3>1
  <2> QED BY <2>1, <2>2, <2>3, <2>4
<1>4. d2 = IF d1.references[g] = 0 THEN [d1 EXCEPT !.free = <<g>> \o d1.free] ELSE d1
  BY Zenon DEF decrement_references, free_frame, LIST_INSERT_HEAD
<1>5. /\ d2.free = IF c = 0 THEN <<g>> \o m.free ELSE m.free
      /\ d2.directory = m.directory
      /\ d2.table = m.table /\ d2.tlb = m.tlb
      /\ d2.references = r
      /\ d2 = [free |-> d2.free, references |-> d2.references,
               directory |-> d2.directory, table |-> d2.table, tlb |-> d2.tlb]
  <2> HIDE DEF d1, d2, g, c, r
  <2>1. CASE c = 0
    BY <1>3, <1>4, <2>1
  <2>2. CASE c # 0
    BY <1>3, <1>4, <2>2
  <2> QED BY <2>1, <2>2
<1>6. m2 = [d3 EXCEPT !.tlb = [d3.tlb EXCEPT ![va] = ZeroEntry]]
  BY <1>2, Zenon DEF unmap_frame, tlb_invalidate, PTX
<1>7. /\ d3.free = d2.free /\ d3.references = d2.references
      /\ d3.directory = d2.directory /\ d3.tlb = d2.tlb
      /\ d3.table = [m.table EXCEPT ![t][va[2]] = ZeroEntry]
      /\ d3 = [free |-> d3.free, references |-> d3.references,
               directory |-> d3.directory, table |-> d3.table, tlb |-> d3.tlb]
  <2> HIDE DEF d2, t
  <2> QED BY <1>5
<1>8. /\ m2.free = d3.free /\ m2.references = d3.references
      /\ m2.directory = d3.directory /\ m2.table = d3.table
      /\ m2.tlb = [d3.tlb EXCEPT ![va] = ZeroEntry]
      /\ m2 = [free |-> m2.free, references |-> m2.references,
               directory |-> m2.directory, table |-> m2.table, tlb |-> m2.tlb]
  <2> HIDE DEF d3, m2
  <2> QED BY <1>6, <1>7
<1> QED BY <1>5, <1>7, <1>8 DEF StoredTable

\* unmap_frame keeps the invariant and changes the walk of va only.
LEMMA UnmapGood ==
    ASSUME NEW m, NEW h, Good(m, h), NEW va \in Pages
    PROVE  LET m2 == unmap_frame(m, va)
           IN  /\ Good(m2, h)
               /\ m2.directory = m.directory
               /\ Walk(m2, va) = ZeroEntry
               /\ \A vb \in Pages \ {va} : Walk(m2, vb) = Walk(m, vb)
<1> DEFINE m2 == unmap_frame(m, va)
           g == Walk(m, va).frame
           n == Cardinality(Mappers(m, g))
           c == (m.references[g] - 1) % RefModulus
<1>1. /\ m \in Memories /\ h \in SUBSET Frames /\ RefOK(m) /\ TabOK(m)
      /\ EntOK(m) /\ FreeOK(m, h) /\ HeldOK(m, h) /\ LeakOK(m, h) /\ TlbOK(m)
  BY DEF Good
<1>2. CASE Walk(m, va) = ZeroEntry
  <2>1. m2 = m
    BY <1>2, FrameInfo DEF unmap_frame
  <2> QED BY <1>2, <2>1
<1>3. CASE Walk(m, va) # ZeroEntry
  <2>1. g \in Frames \ Reserved /\ m.directory[va[1]] # ZeroEntry
    BY <1>3, FrameInfo
  <2>2. /\ m2.free = IF c = 0 THEN <<g>> \o m.free ELSE m.free
        /\ m2.references = [m.references EXCEPT ![g] = c]
        /\ m2.directory = m.directory
        /\ m2.table = StoredTable(m, va, ZeroEntry)
        /\ m2.tlb = [m.tlb EXCEPT ![va] = ZeroEntry]
        /\ m2 = [free |-> m2.free, references |-> m2.references,
                 directory |-> m2.directory, table |-> m2.table, tlb |-> m2.tlb]
    BY <1>3, UnmapFields
  <2>3. va \in Mappers(m, g) /\ g \notin TableFrames(m)
    BY <1>1, <1>3 DEF Mappers, TabOK
  <2>4. /\ n \in Nat /\ n <= Cardinality(Pages) /\ n # 0
        /\ m.references[g] = n
    BY <1>1, <2>1, <2>3, MappersFinite, FS_EmptySet DEF RefOK
  <2>5. c = n - 1 /\ c \in 0 .. RefModulus - 1
    <3>1. n - 1 \in 0 .. RefModulus - 1
      BY <1>1, <2>1, <2>4, RefModulusAssumption DEF Memories
    <3> QED BY <2>4, <3>1, ModSmall
  <2>6. g \notin Listed(m) /\ g \notin h
    BY <1>1, <2>4 DEF FreeOK, HeldOK
  <2> HIDE DEF m2, c, n
  <2>7. ZeroEntry \in Entries
    BY NumFramesAssumption DEF ZeroEntry, Entries, Frames
  <2>8. /\ m2.table \in [Frames -> [Slots -> Entries]]
        /\ Walk(m2, va) = ZeroEntry
        /\ \A vb \in Pages \ {va} : Walk(m2, vb) = Walk(m, vb)
    BY <1>1, <2>1, <2>2, <2>7, StoreEntry
  <2>9. /\ m.free \in Seq(Frames) /\ IsInjective(m.free)
        /\ g \notin Range(m.free)
    BY <1>1, <2>6 DEF Memories, FreeOK, Listed
  <2>10. /\ m2.free \in Seq(Frames) /\ IsInjective(m2.free)
         /\ Listed(m2) = IF c = 0 THEN Listed(m) \cup {g} ELSE Listed(m)
    <3> HIDE DEF g
    <3>1. CASE c = 0
      BY <2>1, <2>2, <2>9, <3>1, InsertHeadFacts DEF Listed
    <3>2. CASE c # 0
      BY <2>2, <2>9, <3>2 DEF Listed
    <3> QED BY <3>1, <3>2
  <2>11. /\ m2.references \in [Frames -> 0 .. RefModulus - 1]
         /\ m2.references[g] = c
         /\ \A f \in Frames \ {g} : m2.references[f] = m.references[f]
    BY <1>1, <2>1, <2>2, <2>5 DEF Memories
  <2>12. /\ m2.tlb \in [Pages -> Entries] /\ m2.tlb[va] = ZeroEntry
         /\ \A vb \in Pages \ {va} : m2.tlb[vb] = m.tlb[vb]
    BY <1>1, <2>2, <2>7 DEF Memories
  <2>13. m2 \in Memories
    <3>1. m2.directory \in [Dirs -> Entries]
      BY <1>1, <2>2 DEF Memories
    <3> QED BY <2>2, <2>8, <2>10, <2>11, <2>12, <3>1 DEF Memories
  <2>14. TableDirs(m2) = TableDirs(m) /\ TableFrames(m2) = TableFrames(m)
    BY <2>2 DEF TableDirs, TableFrames
  <2>15. Mappers(m2, g) = Mappers(m, g) \ {va}
    BY <2>8 DEF Mappers
  <2>16. \A f : f # g => Mappers(m2, f) = Mappers(m, f)
    <3> SUFFICES ASSUME NEW f, f # g
                 PROVE  Mappers(m2, f) = Mappers(m, f)
      OBVIOUS
    <3>1. va \notin Mappers(m2, f) /\ va \notin Mappers(m, f)
      BY <2>8 DEF Mappers
    <3> QED BY <2>8, <3>1 DEF Mappers
  <2>17. Cardinality(Mappers(m2, g)) = c
    <3> HIDE DEF g
    <3>1. IsFiniteSet(Mappers(m, g)) /\ n = Cardinality(Mappers(m, g))
      BY MappersFinite DEF n
    <3>2. Cardinality(Mappers(m, g) \ {va}) = n - 1
      BY <2>3, <3>1, FS_RemoveElement
    <3> QED BY <2>5, <2>15, <3>2
  <2>18. RefOK(m2)
    BY <1>1, <2>3, <2>11, <2>14, <2>16, <2>17 DEF RefOK
  <2>19. FreeOK(m2, h)
    <3>1. \A f \in Listed(m) : f \in Frames
      BY <2>9 DEF Listed, Range
    <3> QED BY <1>1, <2>1, <2>6, <2>10, <2>11, <3>1 DEF FreeOK
  <2>20. HeldOK(m2, h)
    BY <1>1, <2>6, <2>11 DEF HeldOK
  <2>21. LeakOK(m2, h)
    BY <1>1, <2>10, <2>11 DEF LeakOK
  <2>22. TlbOK(m2)
    BY <1>1, <2>8, <2>12 DEF TlbOK
  <2>23. TabOK(m2)
    BY <1>1, <2>2, <2>14, <2>15, <2>16 DEF TabOK
  <2>24. EntOK(m2)
    BY <1>1, <2>2, <2>8, <2>14 DEF EntOK
  <2>25. Good(m2, h)
    BY <1>1, <2>13, <2>18, <2>19, <2>20, <2>21, <2>22, <2>23, <2>24 DEF Good
  <2> QED BY <2>2, <2>8, <2>25 DEF m2
<1> QED BY <1>2, <1>3

\* What a caller may pass to map_frame.
LEMMA MappableFrame ==
    ASSUME NEW m, NEW h, Good(m, h), NEW f \in h \cup DataFrames(m)
    PROVE  /\ f \in Frames \ Reserved
           /\ f \notin TableFrames(m)
           /\ f \notin Listed(m)
           /\ m.references[f] = Cardinality(Mappers(m, f))
<1>1. /\ m \in Memories /\ h \in SUBSET Frames /\ RefOK(m) /\ TabOK(m)
      /\ EntOK(m) /\ FreeOK(m, h) /\ HeldOK(m, h)
  BY DEF Good
<1>2. CASE f \in h
  <2>1. f \in Frames \ Reserved /\ m.references[f] = 0 /\ f \notin Listed(m)
    BY <1>1, <1>2 DEF HeldOK, FreeOK
  <2>2. f \notin TableFrames(m)
    BY <1>1, <2>1, UnreferencedFrame
  <2> QED BY <1>1, <2>1, <2>2 DEF RefOK
<1>3. CASE f \in DataFrames(m)
  <2>1. PICK vb \in Pages : Walk(m, vb) # ZeroEntry /\ Walk(m, vb).frame = f
    BY <1>3 DEF DataFrames, Mappers
  <2>2. f \in Frames \ Reserved
    BY <1>1, <2>1 DEF EntOK
  <2>3. Mappers(m, f) # {}
    BY <1>3 DEF DataFrames
  <2>4. f \notin TableFrames(m)
    BY <1>1, <2>3 DEF TabOK
  <2>5. m.references[f] = Cardinality(Mappers(m, f))
    BY <1>1, <2>2, <2>4 DEF RefOK
  <2>6. m.references[f] # 0
    BY <2>3, <2>5, MappersFinite, FS_EmptySet
  <2> QED BY <1>1, <2>2, <2>4, <2>5, <2>6 DEF FreeOK
<1> QED BY <1>2, <1>3

\* Two memory states that translate every page but va alike.
DifferOnlyAt(m2, m, va) ==
    \A vb \in Pages \ {va} : Walk(m2, vb) = Walk(m, vb)

\* Two memory states that differ in the entry of va, which is e in the second.
EntryWritten(m2, m, va, e) ==
    /\ m2.directory = m.directory
    /\ Walk(m2, va) = e
    /\ DifferOnlyAt(m2, m, va)

\* When map_frame reaches its last two statements.
ReadyToWrite(m, h, f, va, perm) ==
    /\ Good(m, h) /\ f \in h \cup DataFrames(m) /\ va \in Pages
    /\ m.directory[va[1]] # ZeroEntry /\ Walk(m, va) = ZeroEntry
    /\ perm \in SUBSET PermBits /\ m.references[f] < RefModulus - 1

\* The end of map_frame: the new entry of a page that has a table and is not
\* mapped.  The frame leaves the caller's hands.
LEMMA WriteGood ==
    ASSUME NEW m, NEW h, NEW f, NEW va, NEW perm,
           ReadyToWrite(m, h, f, va, perm),
           NEW m2, m2 = WriteEntry(m, f, m.directory[va[1]].frame, va, perm)
    PROVE  /\ Good(m2, h \ {f})
           /\ EntryWritten(m2, m, va,
                           CONSTRUCT_ENTRY(f, perm \cup {PERM_PRESENT}))
<1> DEFINE e == CONSTRUCT_ENTRY(f, perm \cup {PERM_PRESENT})
           n == Cardinality(Mappers(m, f))
           c == (m.references[f] + 1) % RefModulus
           r == [m.references EXCEPT ![f] = c]
<1>0. /\ Good(m, h) /\ f \in h \cup DataFrames(m) /\ va \in Pages
      /\ m.directory[va[1]] # ZeroEntry /\ Walk(m, va) = ZeroEntry
      /\ perm \in SUBSET PermBits /\ m.references[f] < RefModulus - 1
  BY DEF ReadyToWrite
<1>1. /\ m \in Memories /\ h \in SUBSET Frames /\ RefOK(m) /\ TabOK(m)
      /\ EntOK(m) /\ FreeOK(m, h) /\ HeldOK(m, h) /\ LeakOK(m, h) /\ TlbOK(m)
  BY <1>0 DEF Good
<1>2. /\ f \in Frames \ Reserved /\ f \notin TableFrames(m)
      /\ f \notin Listed(m) /\ m.references[f] = n
  BY <1>0, MappableFrame
<1>3. /\ e \in Entries /\ e.frame = f /\ PERM_PRESENT \in e.perm
      /\ e # ZeroEntry
  BY <1>0, <1>2 DEF CONSTRUCT_ENTRY, Entries, PermBits, ZeroEntry
<1>4. /\ m2.free = m.free /\ m2.references = r
      /\ m2.directory = m.directory /\ m2.tlb = m.tlb
      /\ m2.table = StoredTable(m, va, e)
      /\ m2 = [free |-> m2.free, references |-> m2.references,
               directory |-> m2.directory, table |-> m2.table, tlb |-> m2.tlb]
  <2>1. m2 = [m EXCEPT !.references = r, !.table = StoredTable(m, va, e)]
    BY Zenon DEF WriteEntry, StoredTable, PTX
  <2>2. m = [free |-> m.free, references |-> m.references,
             directory |-> m.directory, table |-> m.table, tlb |-> m.tlb]
    BY <1>1 DEF Memories
  <2> HIDE DEF r, e
  <2> QED BY <2>1, <2>2
<1>5. va \notin Mappers(m, f)
  BY <1>0 DEF Mappers
<1>6. n \in Nat /\ Cardinality(Mappers(m, f) \cup {va}) = n + 1
  BY <1>5, MappersFinite, FS_AddElement
<1>7. c = n + 1 /\ c \in 0 .. RefModulus - 1
  <2>1. n + 1 \in 0 .. RefModulus - 1
    BY <1>0, <1>2, <1>6, RefModulusAssumption
  <2> QED BY <1>2, <2>1, ModSmall
<1> HIDE DEF c, n, e
<1>8. /\ m2.references \in [Frames -> 0 .. RefModulus - 1]
      /\ m2.references[f] = c
      /\ \A g \in Frames \ {f} : m2.references[g] = m.references[g]
  BY <1>1, <1>2, <1>4, <1>7 DEF Memories
<1> HIDE DEF r
<1>9. /\ m2.table \in [Frames -> [Slots -> Entries]]
      /\ Walk(m2, va) = e
      /\ \A vb \in Pages \ {va} : Walk(m2, vb) = Walk(m, vb)
  BY <1>0, <1>1, <1>3, <1>4, StoreEntry
<1>10. m2 \in Memories
  <2>1. /\ m2.directory \in [Dirs -> Entries] /\ m2.free \in Seq(Frames)
        /\ m2.tlb \in [Pages -> Entries]
    BY <1>1, <1>4 DEF Memories
  <2> QED BY <1>4, <1>8, <1>9, <2>1 DEF Memories
<1>11. /\ TableDirs(m2) = TableDirs(m) /\ TableFrames(m2) = TableFrames(m)
       /\ Listed(m2) = Listed(m)
  BY <1>4 DEF TableDirs, TableFrames, Listed
<1>12. Mappers(m2, f) = Mappers(m, f) \cup {va}
  BY <1>0, <1>3, <1>9 DEF Mappers
<1>13. ASSUME NEW g, g # f
       PROVE  Mappers(m2, g) = Mappers(m, g)
  <2>1. va \notin Mappers(m2, g) /\ va \notin Mappers(m, g)
    BY <1>0, <1>3, <1>9, <1>13 DEF Mappers
  <2> QED BY <1>9, <2>1 DEF Mappers
<1>14. RefOK(m2)
  <2>1. Cardinality(Mappers(m2, f)) = c
    BY <1>6, <1>7, <1>12 DEF n
  <2> QED BY <1>1, <1>2, <1>8, <1>11, <1>13, <2>1 DEF RefOK
<1>15. FreeOK(m2, h \ {f})
  <2>1. \A g \in Listed(m) : g \in Frames /\ g # f
    BY <1>1, <1>2 DEF Memories, Listed, Range
  <2> QED BY <1>1, <1>4, <1>8, <1>11, <2>1 DEF FreeOK
<1>16. HeldOK(m2, h \ {f})
  BY <1>1, <1>8 DEF HeldOK
<1>17. LeakOK(m2, h \ {f})
  BY <1>1, <1>6, <1>7, <1>8, <1>11 DEF LeakOK
<1>18. TlbOK(m2)
  BY <1>0, <1>1, <1>4, <1>9 DEF TlbOK
<1>19. TabOK(m2)
  BY <1>1, <1>2, <1>4, <1>11, <1>13 DEF TabOK
<1>20. EntOK(m2)
  BY <1>1, <1>2, <1>3, <1>4, <1>9, <1>11 DEF EntOK
<1>21. Good(m2, h \ {f})
  BY <1>1, <1>10, <1>14, <1>15, <1>16, <1>17, <1>18, <1>19, <1>20 DEF Good
<1> QED BY <1>4, <1>9, <1>21 DEF e, DifferOnlyAt, EntryWritten

\* The directory of m2 is that of m with a page table for d: the one it had,
\* or the first frame of the free list.
WithTable(m2, m, d) ==
    /\ m.directory[d] # ZeroEntry => m2.directory = m.directory
    /\ m.directory[d] = ZeroEntry =>
        /\ m.free # <<>>
        /\ TableAdded(m2, m, d, Head(m.free))

\* get_page_table(create): it fails, leaving memory alone, or va has a table
\* afterwards and every page walks as before.
LEMMA GetTableGood ==
    ASSUME NEW m, NEW h, Good(m, h), NEW va \in Pages
    PROVE  LET g == get_page_table(m, va, TRUE)
           IN  /\ g.ret # 0 => g.mem = m
               /\ g.ret = 0 => /\ Good(g.mem, h)
                               /\ g.mem.directory[va[1]] # ZeroEntry
                               /\ g.table = g.mem.directory[va[1]].frame
                               /\ WithTable(g.mem, m, va[1])
                               /\ \A vb \in Pages : Walk(g.mem, vb) = Walk(m, vb)
<1> DEFINE g == get_page_table(m, va, TRUE)
           a == allocate_frame(m)
<1>1. va[1] \in Dirs
  BY DEF Pages
<1>2. CASE m.directory[va[1]] # ZeroEntry
  <2>1. g.ret = 0 /\ g.mem = m /\ g.table = m.directory[va[1]].frame
    BY <1>2 DEF get_page_table, PDX
  <2>2. WithTable(g.mem, m, va[1])
    BY <1>2, <2>1 DEF WithTable
  <2> QED BY <1>2, <2>1, <2>2
<1>3. CASE m.directory[va[1]] = ZeroEntry /\ m.free = <<>>
  <2>1. a.ret = E_NO_MEM
    BY <1>3 DEF allocate_frame
  <2>2. g.ret = E_NO_MEM /\ g.mem = m
    BY <1>3, <2>1 DEF get_page_table, PDX
  <2>3. E_NO_MEM # 0
    BY DEF E_NO_MEM
  <2> HIDE DEF g
  <2>4. g.ret # 0
    BY <2>2, <2>3
  <2> QED BY <2>2, <2>4 DEF g
<1>4. CASE m.directory[va[1]] = ZeroEntry /\ m.free # <<>>
  <2>1. /\ a.ret = 0 /\ a.frame \in Frames /\ a.frame \notin h
        /\ a.frame = Head(m.free)
        /\ a.mem.directory = m.directory /\ a.mem.table = m.table
        /\ Good(a.mem, h \cup {a.frame})
    BY <1>4, AllocateGood
  <2>2. /\ g.ret = 0 /\ g.table = a.frame
        /\ g.mem = InstallTable(a.mem, a.frame, va[1])
    BY <1>4, <2>1 DEF get_page_table, PDX, E_NO_MEM
  <2> HIDE DEF a, g
  <2>3. /\ Good(g.mem, (h \cup {a.frame}) \ {a.frame})
        /\ TableAdded(g.mem, a.mem, va[1], a.frame)
        /\ \A vb \in Pages : Walk(g.mem, vb) = Walk(a.mem, vb)
    <3> DEFINE x == a.frame
               m1 == a.mem
               h1 == h \cup {x}
    <3>1. Good(m1, h1) /\ x \in h1 /\ m1.directory[va[1]] = ZeroEntry
      BY <1>4, <2>1
    <3>2. g.mem = InstallTable(m1, x, va[1])
      BY <2>2
    <3> HIDE DEF x, m1, h1
    <3>3. /\ Good(g.mem, h1 \ {x})
          /\ TableAdded(g.mem, m1, va[1], x)
          /\ \A vb \in Pages : Walk(g.mem, vb) = Walk(m1, vb)
      BY <1>1, <3>1, <3>2, InstallGood
    <3> QED BY <3>3 DEF x, m1, h1
  <2>4. (h \cup {a.frame}) \ {a.frame} = h
    BY <2>1
  <2>5. \A vb \in Pages : Walk(a.mem, vb) = Walk(m, vb)
    BY <2>1 DEF Walk
  <2>6. WithTable(g.mem, m, va[1])
    BY <1>4, <2>1, <2>3 DEF WithTable, TableAdded
  <2> QED BY <2>2, <2>3, <2>4, <2>5, <2>6 DEF g, TableAdded
<1> QED BY <1>2, <1>3, <1>4

\* The entry of va after f has been mapped there: an entry for f stays as it
\* is, its permissions included.
EntryFor(m, f, va, perm) ==
    IF Walk(m, va) # ZeroEntry /\ Walk(m, va).frame = f
    THEN Walk(m, va)
    ELSE CONSTRUCT_ENTRY(f, perm \cup {PERM_PRESENT})

\* map_frame, all four ways through it.
LEMMA MapGood ==
    ASSUME NEW m, NEW h, Good(m, h), NEW f \in h \cup DataFrames(m),
           NEW va \in Pages, NEW perm \in SUBSET PermBits,
           m.references[f] < RefModulus - 1
    PROVE  LET r == map_frame(m, f, va, perm)
           IN  /\ r.ret = 0 => /\ Good(r.mem, h \ {f})
                               /\ WithTable(r.mem, m, va[1])
                               /\ Walk(r.mem, va) = EntryFor(m, f, va, perm)
               /\ r.ret # 0 => r.mem = m
               /\ DifferOnlyAt(r.mem, m, va)
<1> DEFINE g == get_page_table(m, va, TRUE)
           k == g.mem
           pte == k.table[g.table][va[2]]
           r == map_frame(m, f, va, perm)
<1>0. E_NO_MEM # 0
  BY DEF E_NO_MEM
<1>1. /\ g.ret # 0 => k = m
      /\ g.ret = 0 => /\ Good(k, h)
                      /\ k.directory[va[1]] # ZeroEntry
                      /\ g.table = k.directory[va[1]].frame
                      /\ WithTable(k, m, va[1])
                      /\ \A vb \in Pages : Walk(k, vb) = Walk(m, vb)
  BY GetTableGood
<1>2. CASE g.ret # 0
  <2>1. r.ret = E_NO_MEM /\ r.mem = m
    BY <1>1, <1>2 DEF map_frame
  <2> HIDE DEF r
  <2> QED BY <1>0, <2>1 DEF r, DifferOnlyAt
<1>3. CASE g.ret = 0
  <2>1. /\ Good(k, h) /\ k \in Memories /\ EntOK(k) /\ TabOK(k)
        /\ k.directory[va[1]] # ZeroEntry
        /\ g.table = k.directory[va[1]].frame
        /\ WithTable(k, m, va[1])
        /\ \A vb \in Pages : Walk(k, vb) = Walk(m, vb)
    BY <1>1, <1>3 DEF Good
  <2>2. pte = Walk(k, va)
    BY <2>1, WalkShape
  <2>3. PERM_PRESENT \in pte.perm <=> pte # ZeroEntry
    <3> HIDE DEF k, pte
    <3>1. ZeroEntry.perm = {}
      BY DEF ZeroEntry
    <3>2. pte # ZeroEntry => PERM_PRESENT \in pte.perm
      BY <2>1, <2>2 DEF EntOK
    <3> QED BY <3>1, <3>2
  <2>4. f \in h \cup DataFrames(k) /\ k.references[f] < RefModulus - 1
    <3>1. Mappers(k, f) = Mappers(m, f)
      BY <2>1 DEF Mappers
    <3>2. f \in h \cup DataFrames(k)
      BY <3>1 DEF DataFrames
    <3>3. /\ k.references[f] = Cardinality(Mappers(k, f))
          /\ m.references[f] = Cardinality(Mappers(m, f))
      BY <2>1, <3>2, MappableFrame
    <3> QED BY <3>1, <3>2, <3>3
  <2>5. CASE PERM_PRESENT \in pte.perm /\ pte.frame = f
    <3>1. r.ret = 0 /\ r.mem = k
      BY <1>3, <2>5 DEF map_frame, PTX
    <3>2. f \notin h
      <4>1. va \in Mappers(k, f)
        BY <2>2, <2>3, <2>5 DEF Mappers
      <4>2. /\ f \in Frames \ Reserved
            /\ k.references[f] = Cardinality(Mappers(k, f))
        BY <2>1, <2>4, MappableFrame
      <4>3. k.references[f] # 0
        BY <4>1, <4>2, MappersFinite, FS_EmptySet
      <4> QED BY <2>1, <4>3 DEF Good, HeldOK
    <3>3. h \ {f} = h
      BY <3>2
    <3>4. Walk(k, va) = EntryFor(m, f, va, perm)
      BY <2>1, <2>2, <2>3, <2>5 DEF EntryFor
    <3> HIDE DEF r, k
    <3> QED BY <2>1, <3>1, <3>3, <3>4 DEF r, DifferOnlyAt
  <2>6. CASE PERM_PRESENT \in pte.perm /\ pte.frame # f
    <3> DEFINE u == unmap_frame(k, va)
    <3>1. r.ret = 0 /\ r.mem = WriteEntry(u, f, g.table, va, perm)
      BY <1>3, <2>6 DEF map_frame, PTX
    <3>2. /\ Good(u, h) /\ u.directory = k.directory
          /\ Walk(u, va) = ZeroEntry
          /\ \A vb \in Pages \ {va} : Walk(u, vb) = Walk(k, vb)
      BY <2>1, UnmapGood
    <3>3. f \in h \cup DataFrames(u) /\ u.references[f] < RefModulus - 1
      <4>1. va \notin Mappers(k, f)
        BY <2>2, <2>6 DEF Mappers
      <4>2. Mappers(u, f) = Mappers(k, f)
        BY <3>2, <4>1 DEF Mappers
      <4>3. f \in h \cup DataFrames(u)
        BY <2>4, <4>2 DEF DataFrames
      <4> HIDE DEF u, k
      <4>4. /\ u.references[f] = Cardinality(Mappers(u, f))
            /\ k.references[f] = Cardinality(Mappers(k, f))
        BY <2>1, <2>4, <3>2, <4>3, MappableFrame
      <4> QED BY <2>4, <4>2, <4>3, <4>4
    <3> HIDE DEF u, k, r
    <3>4. /\ Good(r.mem, h \ {f})
          /\ EntryWritten(r.mem, u, va,
                          CONSTRUCT_ENTRY(f, perm \cup {PERM_PRESENT}))
      <4>1. r.mem = WriteEntry(u, f, u.directory[va[1]].frame, va, perm)
        BY <2>1, <3>1, <3>2
      <4>2. u.directory[va[1]] # ZeroEntry
        BY <2>1, <3>2
      <4>3. ReadyToWrite(u, h, f, va, perm)
        BY <3>2, <3>3, <4>2 DEF ReadyToWrite
      <4> QED BY <3>2, <4>1, <4>3, WriteGood
    <3>5. Walk(r.mem, va) = EntryFor(m, f, va, perm)
      BY <2>1, <2>2, <2>6, <3>4 DEF EntryFor, EntryWritten
    <3>6. WithTable(r.mem, m, va[1])
      BY <2>1, <3>2, <3>4 DEF WithTable, TableAdded, EntryWritten
    <3> QED BY <2>1, <3>1, <3>2, <3>4, <3>5, <3>6 DEF r, DifferOnlyAt, EntryWritten
  <2>7. CASE PERM_PRESENT \notin pte.perm
    <3>1. r.ret = 0 /\ r.mem = WriteEntry(k, f, g.table, va, perm)
      BY <1>3, <2>7 DEF map_frame, PTX
    <3>2. Walk(k, va) = ZeroEntry
      BY <2>2, <2>3, <2>7
    <3> HIDE DEF k, r
    <3>4. /\ Good(r.mem, h \ {f})
          /\ EntryWritten(r.mem, k, va,
                          CONSTRUCT_ENTRY(f, perm \cup {PERM_PRESENT}))
      <4>1. r.mem = WriteEntry(k, f, k.directory[va[1]].frame, va, perm)
        BY <2>1, <3>1
      <4>2. ReadyToWrite(k, h, f, va, perm)
        BY <2>1, <2>4, <3>2 DEF ReadyToWrite
      <4> QED BY <4>1, <4>2, WriteGood
    <3>5. Walk(r.mem, va) = EntryFor(m, f, va, perm)
      BY <2>1, <3>2, <3>4 DEF EntryFor, EntryWritten
    <3>6. WithTable(r.mem, m, va[1])
      BY <2>1, <3>2, <3>4 DEF WithTable, TableAdded, EntryWritten
    <3> QED BY <2>1, <3>1, <3>4, <3>5, <3>6 DEF r, DifferOnlyAt, EntryWritten
  <2> QED BY <2>5, <2>6, <2>7
<1> QED BY <1>2, <1>3

\* The processor caches what the walk finds, or forgets it.
LEMMA TlbGood ==
    ASSUME NEW m, NEW h, Good(m, h), NEW va \in Pages,
           NEW e \in {Walk(m, va), ZeroEntry}
    PROVE  LET m2 == [m EXCEPT !.tlb[va] = e]
           IN  Good(m2, h) /\ m2.directory = m.directory /\ m2.table = m.table
<1> DEFINE m2 == [m EXCEPT !.tlb[va] = e]
           b == [m.tlb EXCEPT ![va] = e]
<1>1. /\ m \in Memories /\ h \in SUBSET Frames /\ TabOK(m) /\ EntOK(m)
      /\ RefOK(m) /\ TlbOK(m) /\ FreeOK(m, h) /\ HeldOK(m, h) /\ LeakOK(m, h)
  BY DEF Good
<1>2. e \in Entries
  <2>1. ZeroEntry \in Entries
    BY NumFramesAssumption DEF ZeroEntry, Entries, Frames
  <2> QED BY <1>1, <2>1, WalkShape
<1>3. /\ b \in [Pages -> Entries] /\ b[va] = e
      /\ \A vb \in Pages \ {va} : b[vb] = m.tlb[vb]
  BY <1>1, <1>2 DEF Memories
<1>4. m2 = [m EXCEPT !.tlb = b]
  BY Zenon
<1> HIDE DEF m2, b
<1>5. /\ m2.free = m.free /\ m2.references = m.references
      /\ m2.directory = m.directory /\ m2.table = m.table /\ m2.tlb = b
      /\ m2 \in Memories
  BY <1>1, <1>3, <1>4 DEF Memories
<1>6. \A vb \in Pages : Walk(m2, vb) = Walk(m, vb)
  BY <1>5 DEF Walk
<1>7. /\ TableFrames(m2) = TableFrames(m) /\ \A f : Mappers(m2, f) = Mappers(m, f)
      /\ TabOK(m2) /\ EntOK(m2)
  BY <1>1, <1>5, <1>6, SameWalk
<1>8. RefOK(m2) /\ FreeOK(m2, h) /\ HeldOK(m2, h) /\ LeakOK(m2, h)
  BY <1>1, <1>5, <1>7 DEF RefOK, FreeOK, HeldOK, LeakOK, Listed
<1>9. TlbOK(m2)
  BY <1>1, <1>3, <1>5, <1>6 DEF TlbOK
<1> QED BY <1>1, <1>5, <1>7, <1>8, <1>9 DEF Good, m2

-----------------------------------------------------------------------------
Inv == Good(mem, held)

\* What initialize_paging leaves satisfies the invariant.
LEMMA InitGood == Init => Inv
<1> SUFFICES ASSUME Init PROVE Inv
  OBVIOUS
<1> DEFINE n == Cardinality(Frames \ Reserved)
<1>1. n \in Nat
  <2>1. IsFiniteSet(Frames)
    BY NumFramesAssumption, FS_Interval DEF Frames
  <2> QED BY <2>1, FS_Subset, FS_CardinalityType
<1>2. /\ mem.free \in [1 .. n -> Frames \ Reserved]
      /\ Range(mem.free) = Frames \ Reserved
      /\ \A i, j \in DOMAIN mem.free : i < j => mem.free[i] > mem.free[j]
      /\ mem.references = [f \in Frames |-> IF f \in Reserved THEN 1 ELSE 0]
      /\ mem.directory = [d \in Dirs |-> ZeroEntry]
      /\ mem.table = [f \in Frames |-> Junk]
      /\ mem.tlb = [va \in Pages |-> ZeroEntry]
      /\ held = {}
  BY DEF Init, mem, IsInitialFreeList
<1> HIDE DEF n
<1>3. mem.free \in Seq(Frames)
  BY <1>1, <1>2
<1>4. ZeroEntry \in Entries /\ ZeroEntry.perm = {}
  BY NumFramesAssumption DEF ZeroEntry, Entries, Frames
<1>5. mem \in Memories
  <2>1. mem.references \in [Frames -> 0 .. RefModulus - 1]
    BY <1>2, RefModulusAssumption
  <2>2. /\ mem.directory \in [Dirs -> Entries]
        /\ mem.table \in [Frames -> [Slots -> Entries]]
        /\ mem.tlb \in [Pages -> Entries]
    BY <1>2, <1>4, JunkAssumption
  <2>3. mem = [free |-> mem.free, references |-> mem.references,
               directory |-> mem.directory, table |-> mem.table,
               tlb |-> mem.tlb]
    BY DEF mem
  <2> QED BY <1>3, <2>1, <2>2, <2>3 DEF Memories
<1>6. IsInjective(mem.free)
  <2> SUFFICES ASSUME NEW i \in DOMAIN mem.free, NEW j \in DOMAIN mem.free,
                      mem.free[i] = mem.free[j]
               PROVE  i = j
    BY DEF IsInjective
  <2>1. i \in Nat /\ j \in Nat
    BY <1>1, <1>2
  <2>2. mem.free[i] \in Int /\ mem.free[j] \in Int
    <3>1. mem.free[i] \in Frames /\ mem.free[j] \in Frames
      BY <1>2
    <3> QED BY <3>1, NumFramesAssumption DEF Frames
  <2> QED BY <1>2, <2>1, <2>2
<1>7. \A va \in Pages : Walk(mem, va) = ZeroEntry
  <2> SUFFICES ASSUME NEW va \in Pages PROVE Walk(mem, va) = ZeroEntry
    OBVIOUS
  <2>1. mem.directory[va[1]] = ZeroEntry
    BY <1>2 DEF Pages
  <2> QED BY <1>4, <2>1 DEF Walk, PDX
<1>8. /\ TableDirs(mem) = {} /\ TableFrames(mem) = {}
      /\ \A f : Mappers(mem, f) = {}
  BY <1>2, <1>7 DEF TableDirs, TableFrames, Mappers
<1>9. FreeOK(mem, held) /\ HeldOK(mem, held) /\ LeakOK(mem, held)
  BY <1>2, <1>6 DEF FreeOK, HeldOK, LeakOK, Listed
<1>10. RefOK(mem)
  BY <1>2, <1>8, FS_EmptySet DEF RefOK
<1>11. TlbOK(mem) /\ TabOK(mem) /\ EntOK(mem)
  BY <1>2, <1>7, <1>8 DEF TlbOK, TabOK, EntOK
<1> QED BY <1>2, <1>5, <1>9, <1>10, <1>11 DEF Inv, Good

\* SetMem assigns the five variables that mem collects.
LEMMA SetMemIsMem == ASSUME NEW m, m \in Memories, SetMem(m) PROVE mem' = m
<1>1. m = [free |-> m.free, references |-> m.references,
           directory |-> m.directory, table |-> m.table, tlb |-> m.tlb]
  BY DEF Memories
<1> QED BY <1>1 DEF mem, SetMem

\* Every call, and every step of the processor, keeps the invariant.
LEMMA NextGood == Inv /\ [Next]_vars => Inv'
<1> SUFFICES ASSUME Inv, [Next]_vars PROVE Inv'
  OBVIOUS
<1>1. Good(mem, held) /\ mem \in Memories
  BY DEF Inv, Good
<1>2. CASE AllocateFrame
  <2> DEFINE a == allocate_frame(mem)
  <2>1. CASE mem.free = <<>>
    <3>1. a.ret = E_NO_MEM /\ a.mem = mem /\ E_NO_MEM # 0
      BY <2>1 DEF allocate_frame, E_NO_MEM
    <3>2. SetMem(mem) /\ held' = held
      BY <1>2, <3>1 DEF AllocateFrame
    <3> QED BY <1>1, <3>2, SetMemIsMem DEF Inv
  <2>2. CASE mem.free # <<>>
    <3>1. a.ret = 0 /\ Good(a.mem, held \cup {a.frame})
      BY <1>1, <2>2, AllocateGood
    <3>2. SetMem(a.mem) /\ held' = held \cup {a.frame}
      BY <1>2, <3>1 DEF AllocateFrame
    <3>3. a.mem \in Memories
      BY <3>1 DEF Good
    <3> HIDE DEF a
    <3>4. mem' = a.mem
      BY <3>2, <3>3, SetMemIsMem
    <3> QED BY <3>1, <3>2, <3>4 DEF Inv
  <2> QED BY <2>1, <2>2
<1>3. ASSUME NEW f \in Frames, FreeFrame(f) PROVE Inv'
  <2>1. Good(free_frame(mem, f), held \ {f})
    BY <1>1, <1>3, FreeGood DEF FreeFrame
  <2>2. mem' = free_frame(mem, f)
    BY <1>3, <2>1, SetMemIsMem DEF FreeFrame, Good
  <2> QED BY <1>3, <2>1, <2>2 DEF Inv, FreeFrame
<1>4. ASSUME NEW f \in Frames, NEW va \in Pages, NEW perm \in Perms,
             MapFrame(f, va, perm)
      PROVE  Inv'
  <2> DEFINE r == map_frame(mem, f, va, perm)
  <2>1. /\ f \in held \cup DataFrames(mem) /\ SetMem(r.mem)
        /\ mem.references[f] < RefModulus - 1
        /\ held' = IF r.ret = 0 THEN held \ {f} ELSE held
    BY <1>4 DEF MapFrame, mem
  <2>2. perm \in SUBSET PermBits
    BY PermsAssumption
  <2>3. /\ r.ret = 0 => Good(r.mem, held \ {f})
        /\ r.ret # 0 => r.mem = mem
    BY <1>1, <2>1, <2>2, MapGood
  <2>4. Good(r.mem, held')
    BY <1>1, <2>1, <2>3
  <2>5. mem' = r.mem
    BY <2>1, <2>4, SetMemIsMem DEF Good
  <2> QED BY <2>4, <2>5 DEF Inv
<1>5. ASSUME NEW va \in Pages, UnmapFrame(va) PROVE Inv'
  <2>1. Good(unmap_frame(mem, va), held)
    BY <1>1, UnmapGood
  <2>2. mem' = unmap_frame(mem, va) /\ held' = held
    BY <1>5, <2>1, SetMemIsMem DEF UnmapFrame, Good
  <2> QED BY <2>1, <2>2 DEF Inv
<1>6. ASSUME NEW va \in Pages, Access(va) PROVE Inv'
  <2>1. Good(TLBFill(mem, va), held)
    BY <1>1, TlbGood DEF TLBFill
  <2>2. mem' = TLBFill(mem, va) /\ held' = held
    BY <1>6, <2>1, SetMemIsMem DEF Access, Good
  <2> QED BY <2>1, <2>2 DEF Inv
<1>7. ASSUME NEW va \in Pages, Evict(va) PROVE Inv'
  <2>1. Good(tlb_invalidate(mem, va), held)
    BY <1>1, TlbGood DEF tlb_invalidate
  <2>2. mem' = tlb_invalidate(mem, va) /\ held' = held
    BY <1>7, <2>1, SetMemIsMem DEF Evict, Good
  <2> QED BY <2>1, <2>2 DEF Inv
<1>8. CASE UNCHANGED vars
  BY <1>8 DEF vars, Inv, mem
<1> QED BY <1>2, <1>3, <1>4, <1>5, <1>6, <1>7, <1>8 DEF Next

\* Every call by a well-behaved caller keeps the inductive invariant.
THEOREM Invariance == Spec => []Inv
BY InitGood, NextGood, PTL DEF Spec

\* The variables keep the types of the C declarations.
THEOREM TypeCorrect == Spec => []TypeOK
<1>1. Inv => TypeOK
  BY DEF Inv, Good, TypeOK
<1> QED BY <1>1, Invariance, PTL

\* allocate_frame never hands out a frame that is on the list twice, reserved,
\* referenced or already in a caller's hands.
THEOREM FreeListSoundness == Spec => []FreeListSound
<1>1. Inv => FreeListSound
  BY DEF Inv, Good, FreeOK, FreeListSound, mem
<1> QED BY <1>1, Invariance, PTL

\* frames_info[f].references is the number of entries that point to f.
THEOREM RefCountExactness == Spec => []RefCountExact
<1>1. Inv => RefCountExact
  BY DEF Inv, Good, RefOK, RefCountExact, mem
<1> QED BY <1>1, Invariance, PTL

\* No sequence of calls loses a frame.
THEOREM LeakFreedom == Spec => []NoLeak
<1>1. Inv => NoLeak
  BY DEF Inv, Good, LeakOK, NoLeak, mem
<1> QED BY <1>1, Invariance, PTL

\* The processor never uses a translation that unmap_frame has removed.
THEOREM TLBCoherence == Spec => []TLBCoherent
<1>1. Inv => TLBCoherent
  BY DEF Inv, Good, TlbOK, TLBCoherent, mem
<1> QED BY <1>1, Invariance, PTL

\* A page table has one directory entry and is never mapped as a page.
THEOREM TablePrivacy == Spec => []TablesPrivate
<1>1. Inv => TablesPrivate
  BY DEF Inv, Good, TabOK, TablesPrivate, TableDirs, mem
<1> QED BY <1>1, Invariance, PTL

\* One call changes the translation of at most one page.
THEOREM Locality == Spec => CallsAreLocal
<1> DEFINE Local == \A va, vb \in Pages :
                      /\ Walk(mem, va)' # Walk(mem, va)
                      /\ Walk(mem, vb)' # Walk(mem, vb)
                      => va = vb
<1>1. ASSUME Inv, [Next]_vars PROVE Local \/ UNCHANGED vars
  <2> SUFFICES ASSUME Next PROVE Local
    BY <1>1
  <2>1. Good(mem, held) /\ Good(mem, held)' /\ mem \in Memories
    BY <1>1, NextGood DEF Inv, Good
  <2>2. ASSUME NEW m, m \in Memories, SetMem(m), NEW va, DifferOnlyAt(m, mem, va)
        PROVE  Local
    <3>1. mem' = m
      BY <2>2, SetMemIsMem
    <3>2. \A vb \in Pages : Walk(mem, vb)' = Walk(m, vb)
      BY <3>1 DEF Walk
    <3> QED BY <2>2, <3>2 DEF DifferOnlyAt
  <2>3. ASSUME NEW m, m \in Memories, SetMem(m),
               m.directory = mem.directory, m.table = mem.table
        PROVE  Local
    <3>1. \A va \in Pages : Walk(m, va) = Walk(mem, va)
      BY <2>3 DEF Walk
    <3>2. mem' = m
      BY <2>3, SetMemIsMem
    <3>3. \A vb \in Pages : Walk(mem, vb)' = Walk(m, vb)
      BY <3>2 DEF Walk
    <3> QED BY <3>1, <3>3
  <2> HIDE DEF Local
  <2>4. CASE AllocateFrame
    <3> DEFINE a == allocate_frame(mem)
    <3>1. SetMem(a.mem)
      BY <2>4 DEF AllocateFrame
    <3>2. CASE mem.free = <<>>
      <4>1. a.mem = mem
        BY <3>2 DEF allocate_frame
      <4> QED BY <2>1, <2>3, <3>1, <4>1
    <3>3. CASE mem.free # <<>>
      <4>1. /\ a.mem \in Memories /\ a.mem.directory = mem.directory
            /\ a.mem.table = mem.table
        BY <2>1, <3>3, AllocateGood DEF Good
      <4> QED BY <2>3, <3>1, <4>1
    <3> QED BY <3>2, <3>3
  <2>5. ASSUME NEW f \in Frames, FreeFrame(f) PROVE Local
    <3> DEFINE m == free_frame(mem, f)
    <3>1. m \in Memories
      BY <2>1, <2>5, FreeGood DEF FreeFrame, Good
    <3>2. m.directory = mem.directory /\ m.table = mem.table
      BY <2>1 DEF free_frame, LIST_INSERT_HEAD, Memories
    <3> QED BY <2>3, <2>5, <3>1, <3>2 DEF FreeFrame
  <2>6. ASSUME NEW f \in Frames, NEW va \in Pages, NEW perm \in Perms,
               MapFrame(f, va, perm)
        PROVE  Local
    <3> DEFINE r == map_frame(mem, f, va, perm)
    <3>1. f \in held \cup DataFrames(mem) /\ SetMem(r.mem)
          /\ perm \in SUBSET PermBits /\ mem.references[f] < RefModulus - 1
      BY <2>6, PermsAssumption DEF MapFrame, mem
    <3>2. /\ DifferOnlyAt(r.mem, mem, va)
          /\ r.ret = 0 => Good(r.mem, held \ {f})
          /\ r.ret # 0 => r.mem = mem
      BY <2>1, <3>1, MapGood
    <3>3. r.mem \in Memories
      BY <2>1, <3>2 DEF Good
    <3> HIDE DEF r
    <3> QED BY <2>2, <3>1, <3>2, <3>3
  <2>7. ASSUME NEW va \in Pages, UnmapFrame(va) PROVE Local
    <3> DEFINE m == unmap_frame(mem, va)
    <3>1. Good(m, held) /\ DifferOnlyAt(m, mem, va)
      BY <2>1, UnmapGood DEF DifferOnlyAt
    <3>2. m \in Memories /\ SetMem(m)
      BY <2>7, <3>1 DEF UnmapFrame, Good
    <3> HIDE DEF m
    <3> QED BY <2>2, <3>1, <3>2
  <2>8. ASSUME NEW va \in Pages, Access(va) PROVE Local
    <3> DEFINE m == TLBFill(mem, va)
    <3>1. Good(m, held) /\ m.directory = mem.directory /\ m.table = mem.table
      BY <2>1, TlbGood DEF TLBFill
    <3>2. m \in Memories /\ SetMem(m)
      BY <2>8, <3>1 DEF Access, Good
    <3> QED BY <2>3, <3>1, <3>2
  <2>9. ASSUME NEW va \in Pages, Evict(va) PROVE Local
    <3> DEFINE m == tlb_invalidate(mem, va)
    <3>1. Good(m, held) /\ m.directory = mem.directory /\ m.table = mem.table
      BY <2>1, TlbGood DEF tlb_invalidate
    <3>2. m \in Memories /\ SetMem(m)
      BY <2>9, <3>1 DEF Evict, Good
    <3> QED BY <2>3, <3>1, <3>2
  <2> QED BY <2>4, <2>5, <2>6, <2>7, <2>8, <2>9 DEF Next
<1> QED BY <1>1, Invariance, PTL DEF Spec, CallsAreLocal

-----------------------------------------------------------------------------
(***************************************************************************)
(* MemoryManager implements AddressSpace.  The refinement mapping shows the *)
(* walk of every page and the frame of every page table; what the walk      *)
(* lemmas say of a call is therefore what the call does to the abstract     *)
(* state, and FreeOK makes every listed frame a free frame of AddressSpace. *)
(***************************************************************************)

\* The two variables of AddressSpace that are not variables here.
translation == [va \in Pages |-> Walk(mem, va)]
tableOf == [d \in Dirs |-> IF page_directory[d] = ZeroEntry
                           THEN NULL
                           ELSE page_directory[d].frame]

\* The abstract sets of frames in use, in terms of the memory state.
LEMMA AbstractView ==
    ASSUME Inv
    PROVE  /\ Abstract!Pages = Pages
           /\ Abstract!Mapped = DataFrames(mem)
           /\ Abstract!TablesInUse = TableFrames(mem)
<1>1. Abstract!Pages = Pages
  BY DEF Abstract!Pages, Pages
<1>2. Abstract!Mapped = DataFrames(mem)
  BY <1>1 DEF Abstract!Mapped, DataFrames, Mappers
<1>3. \A f \in TableFrames(mem) : f # NULL
  BY DEF Inv, Good, TabOK, Frames, NULL
<1>4. Abstract!TablesInUse = TableFrames(mem)
  BY <1>3 DEF Abstract!TablesInUse, TableFrames, TableDirs, mem
<1> QED BY <1>1, <1>2, <1>4

\* A frame on the free list is a frame that nobody uses.
LEMMA ListedIsFree ==
    ASSUME Inv, NEW f \in Listed(mem)
    PROVE  f \in Abstract!Free
<1>1. mem \in Memories /\ RefOK(mem) /\ FreeOK(mem, held)
  BY DEF Inv, Good
<1>2. f \in Frames
  BY <1>1 DEF Memories, Listed, Range
<1>3. /\ mem.references[f] = 0
      /\ f \notin Reserved /\ f \notin held
  BY <1>1 DEF FreeOK
<1>4. f \notin TableFrames(mem) /\ Mappers(mem, f) = {}
  BY <1>1, <1>2, <1>3, UnreferencedFrame
<1> QED BY <1>2, <1>3, <1>4, AbstractView DEF Abstract!Free, DataFrames

\* What the abstract state is after a call that leaves memory as m.
LEMMA AbstractAfter ==
    ASSUME NEW m \in Memories, SetMem(m)
    PROVE  /\ translation' = [va \in Pages |-> Walk(m, va)]
           /\ tableOf' = [d \in Dirs |-> IF m.directory[d] = ZeroEntry
                                         THEN NULL ELSE m.directory[d].frame]
<1>1. mem' = m
  BY SetMemIsMem
<1>2. page_directory' = m.directory
  BY DEF SetMem
<1> QED BY <1>1, <1>2 DEF translation, tableOf, Walk

\* A call that changes neither a directory nor a page table is invisible.
LEMMA AbstractStutters ==
    ASSUME NEW m \in Memories, SetMem(m),
           m.directory = mem.directory, m.table = mem.table
    PROVE  translation' = translation /\ tableOf' = tableOf
<1>1. \A va \in Pages : Walk(m, va) = Walk(mem, va)
  BY DEF Walk
<1>2. m.directory = page_directory
  BY DEF mem
<1> QED BY <1>1, <1>2, AbstractAfter DEF translation, tableOf

\* allocate_frame takes a frame that nobody uses, or none.
LEMMA AllocateRefines ==
    ASSUME Inv, AllocateFrame
    PROVE  \/ Abstract!Allocate
           \/ UNCHANGED <<translation, tableOf, held>>
<1> DEFINE a == allocate_frame(mem)
<1>1. Good(mem, held) /\ mem \in Memories /\ SetMem(a.mem)
  BY DEF Inv, Good, AllocateFrame
<1>2. CASE mem.free = <<>>
  <2>1. a.mem = mem /\ a.ret # 0
    BY <1>2 DEF allocate_frame, E_NO_MEM
  <2>2. held' = held
    BY <2>1 DEF AllocateFrame
  <2> QED BY <1>1, <2>1, <2>2, AbstractStutters
<1>3. CASE mem.free # <<>>
  <2>1. /\ a.ret = 0 /\ a.frame = Head(mem.free)
        /\ a.mem.directory = mem.directory /\ a.mem.table = mem.table
        /\ a.mem \in Memories
    BY <1>1, <1>3, AllocateGood DEF Good
  <2>2. held' = held \cup {a.frame}
    BY <2>1 DEF AllocateFrame
  <2> HIDE DEF a
  <2>3. translation' = translation /\ tableOf' = tableOf
    BY <1>1, <2>1, AbstractStutters
  <2>4. a.frame \in Listed(mem)
    BY <1>1, <1>3, <2>1, RemoveFirstFacts DEF Good, FreeOK, Memories, Listed
  <2>5. a.frame \in Abstract!Free
    BY <2>4, ListedIsFree
  <2> QED BY <2>2, <2>3, <2>5 DEF Abstract!Allocate, translation, tableOf
<1> QED BY <1>2, <1>3

\* free_frame gives back a frame in a caller's hands.
LEMMA FreeRefines ==
    ASSUME Inv, NEW f \in Frames, FreeFrame(f)
    PROVE  Abstract!FreeHeld(f)
<1> DEFINE m == free_frame(mem, f)
<1>1. f \in held /\ held' = held \ {f} /\ SetMem(m)
  BY DEF FreeFrame
<1>2. m \in Memories
  BY <1>1, FreeGood DEF Inv, Good
<1>3. m.directory = mem.directory /\ m.table = mem.table
  BY DEF free_frame, LIST_INSERT_HEAD, mem
<1>4. translation' = translation /\ tableOf' = tableOf
  BY <1>1, <1>2, <1>3, AbstractStutters
<1> QED BY <1>1, <1>4 DEF Abstract!FreeHeld, translation, tableOf

\* map_frame takes a page table from the free frames if the page has none, and
\* enters the frame; without memory for the table it does nothing.
LEMMA MapRefines ==
    ASSUME Inv, NEW f \in Frames, NEW va \in Pages, NEW perm \in Perms,
           MapFrame(f, va, perm)
    PROVE  \/ /\ f \in held \cup Abstract!Mapped
              /\ Abstract!Map(f, va, perm) \/ Abstract!MapAgain(f, va)
           \/ UNCHANGED <<translation, tableOf, held>>
<1> DEFINE r == map_frame(mem, f, va, perm)
           d == va[1]
<1>1. /\ Good(mem, held) /\ mem \in Memories
      /\ f \in held \cup DataFrames(mem) /\ SetMem(r.mem)
      /\ perm \in SUBSET PermBits /\ mem.references[f] < RefModulus - 1
      /\ held' = IF r.ret = 0 THEN held \ {f} ELSE held
  BY PermsAssumption DEF Inv, Good, MapFrame, mem
<1>2. /\ r.ret = 0 => /\ Good(r.mem, held \ {f})
                      /\ WithTable(r.mem, mem, va[1])
                      /\ Walk(r.mem, va) = EntryFor(mem, f, va, perm)
      /\ r.ret # 0 => r.mem = mem
      /\ DifferOnlyAt(r.mem, mem, va)
  BY <1>1, MapGood
<1> HIDE DEF r
<1>3. CASE r.ret # 0
  BY <1>1, <1>2, <1>3, AbstractStutters
<1>4. CASE r.ret = 0
  <2>1. d \in Dirs /\ r.mem \in Memories /\ page_directory = mem.directory
    BY <1>2, <1>4 DEF Pages, Good, mem
  <2>2. /\ translation' = [vb \in Pages |-> Walk(r.mem, vb)]
        /\ tableOf' = [c \in Dirs |-> IF r.mem.directory[c] = ZeroEntry
                                      THEN NULL ELSE r.mem.directory[c].frame]
    BY <1>1, <2>1, AbstractAfter
  <2>3. translation' = [translation EXCEPT ![va] = EntryFor(mem, f, va, perm)]
    BY <1>2, <1>4, <2>2 DEF translation, DifferOnlyAt
  <2>4. translation[va] = Walk(mem, va) /\ d \in Dirs
    BY <2>1 DEF translation
  <2>5. IF tableOf[d] = NULL
        THEN \E t \in Abstract!Free : tableOf' = [tableOf EXCEPT ![d] = t]
        ELSE tableOf' = tableOf
    <3>1. CASE mem.directory[d] # ZeroEntry
      <4>1. mem.directory[d].frame # NULL
        <5>1. mem.directory[d].frame \in TableFrames(mem)
          BY <2>1, <3>1 DEF TableFrames, TableDirs
        <5>2. mem.directory[d].frame \in Frames
          BY <1>1, <5>1 DEF Good, TabOK
        <5> QED BY <5>2, NumFramesAssumption DEF Frames, NULL
      <4>2. tableOf[d] # NULL
        BY <2>1, <3>1, <4>1 DEF tableOf
      <4>3. r.mem.directory = mem.directory
        BY <1>2, <1>4, <3>1 DEF WithTable
      <4>4. tableOf' = tableOf
        BY <2>1, <2>2, <4>3 DEF tableOf
      <4> QED BY <4>2, <4>4
    <3>2. CASE mem.directory[d] = ZeroEntry
      <4> DEFINE t == Head(mem.free)
      <4>1. mem.free # <<>> /\ TableAdded(r.mem, mem, d, t)
        BY <1>2, <1>4, <3>2 DEF WithTable
      <4>2. t \in Listed(mem)
        BY <1>1, <4>1, RemoveFirstFacts DEF Good, FreeOK, Memories, Listed
      <4>3. t \in Abstract!Free
        BY <4>2, ListedIsFree
      <4> HIDE DEF t
      <4>4. tableOf' = [tableOf EXCEPT ![d] = t]
        BY <2>1, <2>2, <4>1 DEF tableOf, TableAdded
      <4>5. tableOf[d] = NULL
        BY <2>1, <3>2 DEF tableOf
      <4> QED BY <4>3, <4>4, <4>5
    <3> QED BY <3>1, <3>2
  <2>6. f \in held \cup Abstract!Mapped /\ held' = held \ {f}
    BY <1>1, <1>4, AbstractView
  <2>7. CASE Abstract!MappedTo(va, f)
    <3>1. Walk(mem, va) # ZeroEntry /\ Walk(mem, va).frame = f
      BY <2>4, <2>7 DEF Abstract!MappedTo, translation
    <3>2. EntryFor(mem, f, va, perm) = translation[va]
      BY <2>4, <3>1 DEF EntryFor
    <3>3. translation' = translation
      BY <2>3, <3>2 DEF translation
    <3>4. mem.directory[d] # ZeroEntry
      BY <3>1 DEF Walk, PDX, ZeroEntry
    <3>5. r.mem.directory = mem.directory
      BY <1>2, <1>4, <3>4 DEF WithTable
    <3>6. tableOf' = tableOf
      BY <2>1, <2>2, <3>5 DEF tableOf
    <3> QED BY <2>6, <2>7, <3>3, <3>6 DEF Abstract!MapAgain, translation, tableOf
  <2>8. CASE ~Abstract!MappedTo(va, f)
    <3>1. ~(Walk(mem, va) # ZeroEntry /\ Walk(mem, va).frame = f)
      BY <2>4, <2>8 DEF Abstract!MappedTo, translation
    <3>2. EntryFor(mem, f, va, perm)
            = [frame |-> f, perm |-> perm \cup {PERM_PRESENT}]
      BY <3>1 DEF EntryFor, CONSTRUCT_ENTRY
    <3>3. translation' =
            [translation EXCEPT
               ![va] = [frame |-> f, perm |-> perm \cup {PERM_PRESENT}]]
      BY <2>3, <3>2
    <3> QED BY <2>5, <2>6, <2>8, <3>3 DEF Abstract!Map, translation, tableOf
  <2> QED BY <2>6, <2>7, <2>8
<1> QED BY <1>3, <1>4

\* unmap_frame clears the entry of its page, and nothing else.
LEMMA UnmapRefines ==
    ASSUME Inv, NEW va \in Pages, UnmapFrame(va)
    PROVE  Abstract!Unmap(va)
<1> DEFINE m == unmap_frame(mem, va)
<1>1. /\ Good(m, held) /\ m.directory = mem.directory
      /\ Walk(m, va) = ZeroEntry
      /\ \A vb \in Pages \ {va} : Walk(m, vb) = Walk(mem, vb)
  BY UnmapGood DEF Inv
<1>2. m \in Memories /\ SetMem(m) /\ held' = held
  BY <1>1 DEF Good, UnmapFrame
<1> HIDE DEF m
<1>3. /\ translation' = [vb \in Pages |-> Walk(m, vb)]
      /\ tableOf' = [d \in Dirs |-> IF m.directory[d] = ZeroEntry
                                    THEN NULL ELSE m.directory[d].frame]
  BY <1>2, AbstractAfter
<1>4. translation' = [translation EXCEPT ![va] = ZeroEntry]
  BY <1>1, <1>3 DEF translation
<1>5. tableOf' = tableOf
  BY <1>1, <1>3 DEF tableOf, mem
<1> QED BY <1>2, <1>4, <1>5 DEF Abstract!Unmap, translation, tableOf

\* The memory manager keeps the promise of AddressSpace: every call is one of
\* its operations, or, when memory is short or only the TLB changes, nothing.
THEOREM Refinement == Spec => ImplementsAddressSpace
<1>1. Init => Abstract!Init
  <2> SUFFICES ASSUME Init PROVE Abstract!Init
    OBVIOUS
  <2>1. page_directory = [d \in Dirs |-> ZeroEntry] /\ held = {}
    BY DEF Init
  <2>2. \A va \in Pages : Walk(mem, va) = ZeroEntry
    <3>1. ZeroEntry.perm = {}
      BY DEF ZeroEntry
    <3> QED BY <2>1, <3>1 DEF Walk, mem, Pages, PDX
  <2>3. Abstract!Pages = Pages
    BY DEF Abstract!Pages, Pages
  <2> QED BY <2>1, <2>2, <2>3 DEF Abstract!Init
<1>2. Inv /\ [Next]_vars => [Abstract!Next]_(Abstract!avars)
  <2> SUFFICES ASSUME Inv, [Next]_vars
               PROVE  Abstract!Next \/ UNCHANGED <<translation, tableOf, held>>
    BY DEF Abstract!avars, translation, tableOf
  <2>1. Abstract!Pages = Pages
    BY DEF Abstract!Pages, Pages
  <2>2. CASE AllocateFrame
    BY <2>2, AllocateRefines DEF Abstract!Next
  <2>3. ASSUME NEW f \in Frames, FreeFrame(f) PROVE Abstract!Next
    BY <2>3, FreeRefines DEF Abstract!Next, FreeFrame
  <2>4. ASSUME NEW f \in Frames, NEW va \in Pages, NEW perm \in Perms,
               MapFrame(f, va, perm)
        PROVE  Abstract!Next \/ UNCHANGED <<translation, tableOf, held>>
    BY <2>1, <2>4, MapRefines DEF Abstract!Next
  <2>5. ASSUME NEW va \in Pages, UnmapFrame(va) PROVE Abstract!Next
    BY <2>1, <2>5, UnmapRefines DEF Abstract!Next
  <2>6. ASSUME NEW va \in Pages, Access(va)
        PROVE  UNCHANGED <<translation, tableOf, held>>
    <3> DEFINE m == TLBFill(mem, va)
    <3>1. Good(m, held) /\ m.directory = mem.directory /\ m.table = mem.table
      BY TlbGood DEF Inv, TLBFill
    <3>2. m \in Memories /\ SetMem(m) /\ held' = held
      BY <2>6, <3>1 DEF Access, Good
    <3> QED BY <3>1, <3>2, AbstractStutters
  <2>7. ASSUME NEW va \in Pages, Evict(va)
        PROVE  UNCHANGED <<translation, tableOf, held>>
    <3> DEFINE m == tlb_invalidate(mem, va)
    <3>1. Good(m, held) /\ m.directory = mem.directory /\ m.table = mem.table
      BY TlbGood DEF Inv, tlb_invalidate
    <3>2. m \in Memories /\ SetMem(m) /\ held' = held
      BY <2>7, <3>1 DEF Evict, Good
    <3> QED BY <3>1, <3>2, AbstractStutters
  <2>8. CASE UNCHANGED vars
    <3>1. mem' = mem /\ page_directory' = page_directory /\ held' = held
      BY <2>8 DEF vars, mem
    <3> QED BY <3>1 DEF translation, tableOf, Walk
  <2> QED BY <2>2, <2>3, <2>4, <2>5, <2>6, <2>7, <2>8 DEF Next
<1> QED BY <1>1, <1>2, Invariance, PTL
        DEF Spec, ImplementsAddressSpace, Abstract!Spec

=============================================================================
