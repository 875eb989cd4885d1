------------------------ MODULE CommandPrompt_proofs ------------------------
(*******************************************************************************)
(* Whatever is typed at the kernel's prompt, every frame has one owner,        *)
(* for any number of frames and pages and any depth of nested prompts.         *)
(*                                                                             *)
(* Inside a command a frame may have no owner: ap holds what                   *)
(* allocate_frame gave it until map_frame has written the entry.  Lost(k)      *)
(* is the set of such frames together with those lost for good, and every      *)
(* lemma says what an operation does to it: allocate_frame adds the frame,     *)
(* InstallTable and WriteEntry take it out again (Taken), unmap_frame          *)
(* leaves it alone.  A leak is then a command that ends with more in Lost      *)
(* than it started with, which is LeakExplained.                               *)
(*                                                                             *)
(* FramesAccountedFor is not inductive.  Good adds that whatever is not        *)
(* zero is present, since map_frame tests the present bit and                  *)
(* get_frame_info does not, and speaks of the entries that ap writes when      *)
(* it was given NULL (bogus): they have no frame, and unmap_frame never        *)
(* reaches them.                                                               *)
(*******************************************************************************)
EXTENDS CommandPrompt, SequenceTheorems, FiniteSetTheorems, TLAPS

\* The parts of the inductive invariant, over a memory state k.
On(k) == Range(k.free)
HasTable(k, d) == k.directory[d] # ZeroEntry
Mapped(k, va) == Walk(k, va) # ZeroEntry

\* What is on the free list is usable and not referenced, and on it once.
ListGood(k) ==
    /\ IsInjective(k.free)
    /\ \A f \in On(k) : f \in Usable /\ k.references[f] = 0

\* A page table has a frame of its own, counted once.
TableGood(k, d) ==
    /\ PERM_PRESENT \in k.directory[d].perm
    /\ k.directory[d].frame \in Usable
    /\ k.references[k.directory[d].frame] = 1
    /\ \A e \in Dirs :
        HasTable(k, e) /\ k.directory[e].frame = k.directory[d].frame => e = d

\* So has a mapped page, unless its entry is bogus.
PageGood(k, va) ==
    /\ PERM_PRESENT \in Walk(k, va).perm
    /\ Walk(k, va).frame # NULL =>
        /\ Walk(k, va).frame \in Usable
        /\ k.references[Walk(k, va).frame] = 1
        /\ \A vb \in Pages :
            Mapped(k, vb) /\ Walk(k, vb).frame = Walk(k, va).frame => vb = va
        /\ \A d \in Dirs :
            HasTable(k, d) => k.directory[d].frame # Walk(k, va).frame

\* What is counted is used.
UsedGood(k) ==
    \A f \in Usable :
        \/ k.references[f] = 0
        \/ \E d \in Dirs : HasTable(k, d) /\ k.directory[d].frame = f
        \/ \E va \in Pages : Mapped(k, va) /\ Walk(k, va).frame = f

Good(k) ==
    /\ k \in Memories
    /\ ListGood(k)
    /\ \A d \in Dirs : HasTable(k, d) => TableGood(k, d)
    /\ \A va \in Pages : Mapped(k, va) => PageGood(k, va)
    /\ UsedGood(k)

Inv == Good(m) /\ depth \in 0 .. MaxDepth /\ machine \in {"running", "dead"}

-----------------------------------------------------------------------------
\* Frames that nothing refers to and that are not listed: lost, or in the
\* hands of the command that is running.
Lost(k) == {f \in Usable : k.references[f] = 0} \ On(k)

\* Frame f has been put to use.
Taken(k2, k, f) == Lost(k2) = Lost(k) \ {f}

\* The walks of k2 are those of k, but for page va.
Walks(k2, k, va, e) ==
    \A vb \in Pages : Walk(k2, vb) = IF vb = va THEN e ELSE Walk(k, vb)

SameWalks(k2, k) == \A vb \in Pages : Walk(k2, vb) = Walk(k, vb)

\* The directory of k2 is that of k, but for entry d.
Directories(k2, k, d, p) ==
    /\ k2.directory[d] = p
    /\ \A e \in Dirs : e # d => k2.directory[e] = k.directory[e]

\* The counts of k2 are those of k, but for frame f.
Counts(k2, k, f, n) ==
    /\ k2.references[f] = n
    /\ \A g \in Frames : g # f => k2.references[g] = k.references[g]

\* The usable frames are frames, and NULL is none of them.
LEMMA UsableFrames == Usable \subseteq Frames /\ NULL \notin Usable
BY NumFramesAssumption DEF Usable, Frames, NULL

\* A zero entry is an entry, and not present.
LEMMA ZeroIsEntry == ZeroEntry \in Entries /\ ZeroEntry.perm = {}
BY NumFramesAssumption DEF ZeroEntry, Entries, Frames

\* An entry that is present is not zero.
LEMMA PresentIsNotZero ==
    ASSUME NEW e, PERM_PRESENT \in e.perm
    PROVE  e # ZeroEntry
BY ZeroIsEntry

\* A frame without references is no page table and not mapped.
LEMMA UnusedFrame ==
    ASSUME NEW k, Good(k), NEW f \in Usable, k.references[f] = 0
    PROVE  /\ \A d \in Dirs : HasTable(k, d) => k.directory[d].frame # f
           /\ \A va \in Pages : Mapped(k, va) => Walk(k, va).frame # f
<1>1. \A d \in Dirs : HasTable(k, d) => k.references[k.directory[d].frame] = 1
  BY DEF Good, TableGood
<1>2. \A va \in Pages : Mapped(k, va) /\ Walk(k, va).frame # NULL
                            => k.references[Walk(k, va).frame] = 1
  BY DEF Good, PageGood
<1> QED BY <1>1, <1>2, UsableFrames

\* Only the list changes.
LEMMA GoodListed ==
    ASSUME NEW k, Good(k), NEW k2 \in Memories, NEW f \in On(k),
           k2.directory = k.directory, k2.table = k.table,
           k2.references = k.references,
           IsInjective(k2.free), On(k2) = On(k) \ {f}
    PROVE  /\ Good(k2) /\ Lost(k2) = Lost(k) \cup {f} /\ f \notin Lost(k)
           /\ f \in Usable
           /\ \A vb \in Pages : Walk(k2, vb) = Walk(k, vb)
<1>1. \A vb \in Pages : Walk(k2, vb) = Walk(k, vb)
  BY DEF Walk
<1>2. ListGood(k2) /\ f \in Usable /\ k.references[f] = 0
  BY DEF Good, ListGood
<1>3. \A d \in Dirs : HasTable(k2, d) => TableGood(k2, d)
  BY DEF Good, HasTable, TableGood
<1>4. \A va \in Pages : Mapped(k2, va) => PageGood(k2, va)
  BY <1>1 DEF Good, Mapped, PageGood, HasTable
<1>5. UsedGood(k2)
  BY <1>1 DEF Good, UsedGood, Mapped, HasTable
<1>6. Lost(k2) = Lost(k) \cup {f} /\ f \notin Lost(k)
  BY <1>2 DEF Lost
<1> QED BY <1>1, <1>2, <1>3, <1>4, <1>5, <1>6 DEF Good

\* A mapped page is unmapped, and its frame listed.
LEMMA GoodUnmapped ==
    ASSUME NEW k, Good(k), NEW va \in Pages, Mapped(k, va),
           NEW g, g = Walk(k, va).frame, g # NULL,
           NEW k2 \in Memories, k2.directory = k.directory,
           Counts(k2, k, g, 0), IsInjective(k2.free), On(k2) = On(k) \cup {g},
           Walks(k2, k, va, ZeroEntry)
    PROVE  Good(k2) /\ Lost(k2) = Lost(k)
<1>1. /\ g \in Usable /\ g \in Frames /\ k.references[g] = 1
      /\ \A vb \in Pages : Mapped(k, vb) /\ Walk(k, vb).frame = g => vb = va
      /\ \A d \in Dirs : HasTable(k, d) => k.directory[d].frame # g
  BY UsableFrames DEF Good, PageGood
<1>2. \A vb \in Pages : Mapped(k2, vb) =>
            Mapped(k, vb) /\ vb # va /\ Walk(k2, vb) = Walk(k, vb)
  BY DEF Walks, Mapped
<1>3. \A vb \in Pages : Mapped(k, vb) /\ vb # va =>
            Mapped(k2, vb) /\ Walk(k2, vb) = Walk(k, vb)
  BY DEF Walks, Mapped
<1>4. \A d : HasTable(k2, d) <=> HasTable(k, d)
  BY DEF HasTable
<1>5. \A f \in Usable : f # g => k2.references[f] = k.references[f]
  BY UsableFrames DEF Counts
<1>6. ListGood(k2)
  BY <1>1, <1>5 DEF Good, ListGood, Counts
<1>7. ASSUME NEW d \in Dirs, HasTable(k2, d) PROVE TableGood(k2, d)
  <2>1. TableGood(k, d) /\ k.directory[d].frame # g
    BY <1>1, <1>4, <1>7 DEF Good
  <2> QED BY <1>4, <1>5, <2>1 DEF TableGood
<1>8. ASSUME NEW vb \in Pages, Mapped(k2, vb) PROVE PageGood(k2, vb)
  <2>1. /\ PageGood(k, vb) /\ Walk(k2, vb) = Walk(k, vb) /\ Walk(k, vb).frame # g
        /\ Mapped(k, vb)
    BY <1>1, <1>2, <1>8 DEF Good
  <2> QED BY <1>2, <1>4, <1>5, <2>1 DEF PageGood
<1>9. UsedGood(k2)
  <2> SUFFICES ASSUME NEW f \in Usable, k2.references[f] # 0
               PROVE  \/ \E d \in Dirs : HasTable(k2, d) /\ k2.directory[d].frame = f
                      \/ \E vb \in Pages : Mapped(k2, vb) /\ Walk(k2, vb).frame = f
    BY DEF UsedGood
  <2>1. f # g /\ k.references[f] # 0
    BY <1>5 DEF Counts
  <2>2. \/ \E d \in Dirs : HasTable(k, d) /\ k.directory[d].frame = f
        \/ \E vb \in Pages : Mapped(k, vb) /\ Walk(k, vb).frame = f
    BY <2>1 DEF Good, UsedGood
  <2> QED BY <1>3, <1>4, <2>1, <2>2
<1>10. Lost(k2) = Lost(k)
  BY <1>1, <1>5 DEF Lost, Counts
<1> QED BY <1>6, <1>7, <1>8, <1>9, <1>10 DEF Good

\* A frame in the hands of the command is mapped at a page that is free.
LEMMA GoodWritten ==
    ASSUME NEW k, Good(k), NEW va \in Pages, ~Mapped(k, va), NEW f \in Lost(k),
           NEW k2 \in Memories, k2.directory = k.directory, k2.free = k.free,
           Counts(k2, k, f, 1),
           NEW e, e.frame = f, PERM_PRESENT \in e.perm, Walks(k2, k, va, e)
    PROVE  Good(k2) /\ Lost(k2) = Lost(k) \ {f}
<1>1. /\ f \in Usable /\ f \in Frames /\ k.references[f] = 0 /\ f # NULL
      /\ f \notin On(k) /\ e # ZeroEntry
  BY UsableFrames, PresentIsNotZero DEF Lost
<1>2. /\ \A d \in Dirs : HasTable(k, d) => k.directory[d].frame # f
      /\ \A vb \in Pages : Mapped(k, vb) => Walk(k, vb).frame # f
  BY <1>1, UnusedFrame
<1>3. \A vb \in Pages : vb # va =>
            (Mapped(k2, vb) <=> Mapped(k, vb)) /\ Walk(k2, vb) = Walk(k, vb)
  BY DEF Walks, Mapped
<1>4. Walk(k2, va) = e /\ Mapped(k2, va)
  BY <1>1 DEF Walks, Mapped
<1>5. \A d : HasTable(k2, d) <=> HasTable(k, d)
  BY DEF HasTable
<1>6. \A g \in Usable : g # f => k2.references[g] = k.references[g]
  BY UsableFrames DEF Counts
<1>7. ListGood(k2)
  BY <1>1, <1>6 DEF Good, ListGood, On
<1>8. ASSUME NEW d \in Dirs, HasTable(k2, d) PROVE TableGood(k2, d)
  <2>1. TableGood(k, d) /\ k.directory[d].frame # f
    BY <1>2, <1>5, <1>8 DEF Good
  <2> QED BY <1>5, <1>6, <2>1 DEF TableGood
<1>9. ASSUME NEW vb \in Pages, Mapped(k2, vb) PROVE PageGood(k2, vb)
  <2>1. CASE vb = va
    BY <1>1, <1>2, <1>3, <1>4, <1>5, <2>1 DEF PageGood, Counts
  <2>2. CASE vb # va
    <3>1. /\ PageGood(k, vb) /\ Walk(k2, vb) = Walk(k, vb) /\ Walk(k, vb).frame # f
          /\ Mapped(k, vb)
      BY <1>2, <1>3, <1>9, <2>2 DEF Good
    <3> QED BY <1>3, <1>4, <1>5, <1>6, <3>1 DEF PageGood
  <2> QED BY <2>1, <2>2
<1>10. UsedGood(k2)
  <2> SUFFICES ASSUME NEW g \in Usable, k2.references[g] # 0
               PROVE  \/ \E d \in Dirs : HasTable(k2, d) /\ k2.directory[d].frame = g
                      \/ \E vb \in Pages : Mapped(k2, vb) /\ Walk(k2, vb).frame = g
    BY DEF UsedGood
  <2>1. CASE g = f
    BY <1>4, <2>1
  <2>2. CASE g # f
    <3>1. \/ \E d \in Dirs : HasTable(k, d) /\ k.directory[d].frame = g
          \/ \E vb \in Pages : Mapped(k, vb) /\ Walk(k, vb).frame = g
      BY <1>6, <2>2 DEF Good, UsedGood
    <3> QED BY <1>3, <1>5, <3>1
  <2> QED BY <2>1, <2>2
<1>11. Lost(k2) = Lost(k) \ {f}
  BY <1>1, <1>6 DEF Lost, Counts, On
<1> QED BY <1>7, <1>8, <1>9, <1>10, <1>11 DEF Good

\* The entry that map_frame computes from NULL.
LEMMA GoodNull ==
    ASSUME NEW k, Good(k), NEW va \in Pages, ~Mapped(k, va),
           NEW k2 \in Memories, k2.directory = k.directory, k2.free = k.free,
           k2.references = k.references,
           NEW e, e.frame = NULL, PERM_PRESENT \in e.perm, Walks(k2, k, va, e)
    PROVE  Good(k2) /\ Lost(k2) = Lost(k)
<1>1. Walk(k2, va) = e /\ PageGood(k2, va)
  BY DEF Walks, PageGood
<1>2. \A vb \in Pages : vb # va =>
            (Mapped(k2, vb) <=> Mapped(k, vb)) /\ Walk(k2, vb) = Walk(k, vb)
  BY DEF Walks, Mapped
<1>3. \A d : HasTable(k2, d) <=> HasTable(k, d)
  BY DEF HasTable
<1>4. ListGood(k2) /\ Lost(k2) = Lost(k)
  BY DEF Good, ListGood, On, Lost
<1>5. \A d \in Dirs : HasTable(k2, d) => TableGood(k2, d)
  BY <1>3 DEF Good, TableGood
<1>6. ASSUME NEW vb \in Pages, Mapped(k2, vb) PROVE PageGood(k2, vb)
  <2>1. CASE vb # va
    <3>1. PageGood(k, vb) /\ Walk(k2, vb) = Walk(k, vb) /\ Mapped(k, vb)
      BY <1>2, <1>6, <2>1 DEF Good
    <3> QED BY <1>1, <1>2, <1>3, <3>1 DEF PageGood
  <2> QED BY <1>1, <2>1
<1>7. UsedGood(k2)
  <2> SUFFICES ASSUME NEW g \in Usable, k2.references[g] # 0
               PROVE  \/ \E d \in Dirs : HasTable(k2, d) /\ k2.directory[d].frame = g
                      \/ \E vb \in Pages : Mapped(k2, vb) /\ Walk(k2, vb).frame = g
    BY DEF UsedGood
  <2>1. \/ \E d \in Dirs : HasTable(k, d) /\ k.directory[d].frame = g
        \/ \E vb \in Pages : Mapped(k, vb) /\ Walk(k, vb).frame = g
    BY DEF Good, UsedGood
  <2> QED BY <1>2, <1>3, <2>1
<1> QED BY <1>4, <1>5, <1>6, <1>7 DEF Good

\* A frame in the hands of get_page_table becomes a page table.
LEMMA GoodInstalled ==
    ASSUME NEW k, Good(k), NEW d \in Dirs, ~HasTable(k, d), NEW f \in Lost(k),
           NEW k2 \in Memories, NEW p, p.frame = f, PERM_PRESENT \in p.perm,
           Directories(k2, k, d, p), k2.free = k.free, Counts(k2, k, f, 1),
           SameWalks(k2, k)
    PROVE  Good(k2) /\ Lost(k2) = Lost(k) \ {f}
<1> USE DEF SameWalks, Directories
<1>1. /\ f \in Usable /\ f \in Frames /\ k.references[f] = 0 /\ f # NULL
      /\ f \notin On(k) /\ p # ZeroEntry
  BY UsableFrames, PresentIsNotZero DEF Lost
<1>2. /\ \A e \in Dirs : HasTable(k, e) => k.directory[e].frame # f
      /\ \A vb \in Pages : Mapped(k, vb) => Walk(k, vb).frame # f
  BY <1>1, UnusedFrame
<1>3. \A vb \in Pages : Mapped(k2, vb) <=> Mapped(k, vb)
  BY DEF Mapped
<1>4. HasTable(k2, d) /\ \A e \in Dirs : e # d => (HasTable(k2, e) <=> HasTable(k, e))
  BY <1>1 DEF HasTable
<1>6. \A g \in Usable : g # f => k2.references[g] = k.references[g]
  BY UsableFrames DEF Counts
<1>7. ListGood(k2)
  BY <1>1, <1>6 DEF Good, ListGood, On
<1>8. ASSUME NEW e \in Dirs, HasTable(k2, e) PROVE TableGood(k2, e)
  <2>1. CASE e = d
    BY <1>1, <1>2, <1>4, <2>1 DEF TableGood, Counts
  <2>2. CASE e # d
    <3>1. TableGood(k, e) /\ k.directory[e].frame # f /\ k2.directory[e] = k.directory[e]
      BY <1>2, <1>4, <1>8, <2>2 DEF Good
    <3> QED BY <1>4, <1>6, <3>1 DEF TableGood
  <2> QED BY <2>1, <2>2
<1>9. ASSUME NEW vb \in Pages, Mapped(k2, vb) PROVE PageGood(k2, vb)
  <2>1. /\ PageGood(k, vb) /\ Walk(k2, vb) = Walk(k, vb) /\ Walk(k, vb).frame # f
        /\ Mapped(k, vb)
    BY <1>2, <1>3, <1>9 DEF Good
  <2> QED BY <1>3, <1>4, <1>6, <2>1 DEF PageGood
<1>10. UsedGood(k2)
  <2> SUFFICES ASSUME NEW g \in Usable, k2.references[g] # 0
               PROVE  \/ \E e \in Dirs : HasTable(k2, e) /\ k2.directory[e].frame = g
                      \/ \E vb \in Pages : Mapped(k2, vb) /\ Walk(k2, vb).frame = g
    BY DEF UsedGood
  <2>1. CASE g = f
    BY <1>4, <2>1
  <2>2. CASE g # f
    <3>1. \/ \E e \in Dirs : HasTable(k, e) /\ k.directory[e].frame = g
          \/ \E vb \in Pages : Mapped(k, vb) /\ Walk(k, vb).frame = g
      BY <1>6, <2>2 DEF Good, UsedGood
    <3>2. \A e \in Dirs : HasTable(k, e) => e # d
      OBVIOUS
    <3> QED BY <1>3, <1>4, <3>1, <3>2
  <2> QED BY <2>1, <2>2
<1>11. Lost(k2) = Lost(k) \ {f}
  BY <1>1, <1>6 DEF Lost, Counts, On
<1> QED BY <1>7, <1>8, <1>9, <1>10, <1>11 DEF Good

-----------------------------------------------------------------------------
\* LIST_INSERT_HEAD of a frame that is not listed adds this frame, once.
LEMMA InsertHeadFacts ==
    ASSUME NEW s \in Seq(Frames), NEW f \in Frames, IsInjective(s),
           f \notin Range(s)
    PROVE  /\ <<f>> \o s \in Seq(Frames)
           /\ IsInjective(<<f>> \o s)
           /\ Range(<<f>> \o s) = Range(s) \cup {f}
<1> DEFINE t == <<f>> \o s
<1>1. /\ t \in Seq(Frames)
      /\ Len(t) = Len(s) + 1
      /\ t[1] = f
      /\ \A i \in 1 .. Len(s) : t[i + 1] = s[i]
  OBVIOUS
<1>2. \A i \in DOMAIN t : i = 1 \/ (i - 1 \in DOMAIN s /\ t[i] = s[i - 1])
  BY <1>1
<1>3. IsInjective(t)
  BY <1>1, <1>2 DEF IsInjective, Range
<1>4. Range(t) = Range(s) \cup {f}
  <2>1. Range(t) \subseteq Range(s) \cup {f}
    BY <1>1, <1>2 DEF Range
  <2>2. \A i \in DOMAIN s : i + 1 \in DOMAIN t /\ t[i + 1] = s[i]
    BY <1>1
  <2>3. Range(s) \subseteq Range(t)
    BY <2>2 DEF Range
  <2>4. f \in Range(t)
    BY <1>1 DEF Range
  <2> QED BY <2>1, <2>3, <2>4
<1> QED BY <1>1, <1>3, <1>4

\* LIST_REMOVE of the first frame takes this frame off, and no other.
LEMMA RemoveFirstFacts ==
    ASSUME NEW s \in Seq(Frames), s # <<>>, IsInjective(s)
    PROVE  /\ Tail(s) \in Seq(Frames)
           /\ Head(s) \in Frames
           /\ Head(s) \in Range(s)
           /\ IsInjective(Tail(s))
           /\ Range(Tail(s)) = Range(s) \ {Head(s)}
<1> DEFINE t == Tail(s)
<1>1. /\ t \in Seq(Frames)
      /\ Len(t) = Len(s) - 1
      /\ Len(s) > 0
      /\ Head(s) = s[1]
      /\ \A i \in 1 .. Len(t) : t[i] = s[i + 1]
  OBVIOUS
<1>2. \A i \in DOMAIN t : i + 1 \in DOMAIN s /\ t[i] = s[i + 1]
  BY <1>1
<1>3. 1 \in DOMAIN s /\ Head(s) \in Frames /\ Head(s) \in Range(s)
  BY <1>1 DEF Range
<1>4. IsInjective(t)
  <2> SUFFICES ASSUME NEW i \in DOMAIN t, NEW j \in DOMAIN t, t[i] = t[j]
               PROVE  i = j
    BY DEF IsInjective
  <2>1. i \in Nat /\ j \in Nat
    BY <1>1
  <2>2. i + 1 = j + 1
    BY <1>2 DEF IsInjective
  <2> QED BY <2>1, <2>2
<1>5. Range(t) = Range(s) \ {Head(s)}
  <2>1. \A i \in DOMAIN s : i = 1 \/ (i - 1 \in DOMAIN t /\ t[i - 1] = s[i])
    BY <1>1
  <2>2. Range(s) \ {Head(s)} \subseteq Range(t)
    <3> SUFFICES ASSUME NEW x \in Range(s), x # Head(s)
                 PROVE  x \in Range(t)
      OBVIOUS
    <3>1. PICK i \in DOMAIN s : x = s[i]
      BY DEF Range
    <3>2. i # 1
      BY <1>1, <3>1
    <3>3. i - 1 \in DOMAIN t /\ x = t[i - 1]
      BY <2>1, <3>1, <3>2
    <3> QED BY <3>3 DEF Range
  <2>3. Range(t) \subseteq Range(s)
    BY <1>2 DEF Range
  <2>4. Head(s) \notin Range(t)
    <3>1. \A i \in DOMAIN t : i + 1 # 1
      BY <1>1
    <3> QED BY <1>1, <1>2, <1>3, <3>1 DEF Range, IsInjective
  <2> QED BY <2>2, <2>3, <2>4
<1> QED BY <1>1, <1>3, <1>4, <1>5

\* Every field of a memory state.
IsRecord(k) ==
    k = [free |-> k.free, references |-> k.references,
         directory |-> k.directory, table |-> k.table, tlb |-> k.tlb]

\* A memory has the fields of the record, with their types,
LEMMA MemoryIsRecord ==
    ASSUME NEW k \in Memories
    PROVE  /\ IsRecord(k)
           /\ k.free \in Seq(Frames) /\ k.references \in [Frames -> 0 .. RefModulus - 1]
           /\ k.directory \in [Dirs -> Entries]
           /\ k.table \in [Frames -> [Slots -> Entries]] /\ k.tlb \in [Pages -> Entries]
BY DEF Memories, IsRecord

\* and a record with those fields and types is a memory.
LEMMA RecordIsMemory ==
    ASSUME NEW k, IsRecord(k), k.free \in Seq(Frames),
           k.references \in [Frames -> 0 .. RefModulus - 1],
           k.directory \in [Dirs -> Entries],
           k.table \in [Frames -> [Slots -> Entries]], k.tlb \in [Pages -> Entries]
    PROVE  k \in Memories
<1>1. k = [free |-> k.free, references |-> k.references,
           directory |-> k.directory, table |-> k.table, tlb |-> k.tlb]
  BY DEF IsRecord
<1> QED BY <1>1 DEF Memories

\* The walk of a page: zero, or an entry of the page's table.
LEMMA WalkShape ==
    ASSUME NEW k, Good(k), NEW va \in Pages
    PROVE  /\ va[1] \in Dirs /\ va[2] \in Slots
           /\ ~HasTable(k, va[1]) => Walk(k, va) = ZeroEntry
           /\ HasTable(k, va[1]) =>
                /\ k.directory[va[1]].frame \in Frames
                /\ k.directory[va[1]].frame # NULL
                /\ PERM_PRESENT \in k.directory[va[1]].perm
                /\ Walk(k, va) = k.table[k.directory[va[1]].frame][va[2]]
<1>1. va[1] \in Dirs /\ va[2] \in Slots
  BY DEF Pages
<1>2. CASE ~HasTable(k, va[1])
  BY <1>1, <1>2, ZeroIsEntry DEF Walk, PDX, HasTable
<1>3. CASE HasTable(k, va[1])
  <2>1. TableGood(k, va[1])
    BY <1>1, <1>3 DEF Good
  <2>2. /\ PERM_PRESENT \in k.directory[va[1]].perm
        /\ k.directory[va[1]].frame \in Frames
        /\ k.directory[va[1]].frame # NULL
    BY <2>1, UsableFrames DEF TableGood
  <2>3. Walk(k, va) = k.table[k.directory[va[1]].frame][va[2]]
    BY <2>2 DEF Walk, PDX, PTX
  <2> QED BY <1>1, <1>3, <2>2, <2>3
<1> QED BY <1>2, <1>3

\* The page tables after a store to the entry of va.
StoredTable(k, va, e) ==
    [k.table EXCEPT ![k.directory[va[1]].frame][va[2]] = e]

\* Writing one entry of one table changes the walk of one page.
LEMMA StoreEntry ==
    ASSUME NEW k, Good(k), NEW va \in Pages, HasTable(k, va[1]),
           NEW e \in Entries, NEW k2, k2.directory = k.directory,
           k2.table = StoredTable(k, va, e)
    PROVE  /\ k2.table \in [Frames -> [Slots -> Entries]]
           /\ Walks(k2, k, va, e)
<1> DEFINE t == k.directory[va[1]].frame
<1>1. /\ t \in Frames /\ va[1] \in Dirs /\ va[2] \in Slots
      /\ PERM_PRESENT \in k.directory[va[1]].perm
  BY WalkShape
<1>3. k.table \in [Frames -> [Slots -> Entries]]
  BY MemoryIsRecord DEF Good
<1>4. /\ k2.table \in [Frames -> [Slots -> Entries]]
      /\ k2.table[t][va[2]] = e
      /\ \A s \in Slots : s # va[2] => k2.table[t][s] = k.table[t][s]
      /\ \A g \in Frames : g # t => k2.table[g] = k.table[g]
  <2> DEFINE row == [k.table[t] EXCEPT ![va[2]] = e]
  <2>1. k.table[t] \in [Slots -> Entries]
    BY <1>1, <1>3
  <2>2. /\ row \in [Slots -> Entries] /\ row[va[2]] = e
        /\ \A s \in Slots : s # va[2] => row[s] = k.table[t][s]
    BY <1>1, <2>1
  <2>3. k2.table = [k.table EXCEPT ![t] = row]
    BY DEF StoredTable
  <2> HIDE DEF row, t
  <2> QED BY <1>1, <1>3, <2>2, <2>3
<1>5. Walk(k2, va) = e
  BY <1>1, <1>4 DEF Walk, PDX, PTX
<1>6. ASSUME NEW vb \in Pages, vb # va
      PROVE  Walk(k2, vb) = Walk(k, vb)
  <2>1. /\ vb[1] \in Dirs /\ vb[2] \in Slots
        /\ HasTable(k, vb[1]) => k.directory[vb[1]].frame \in Frames
    BY WalkShape
  <2>2. vb[1] # va[1] \/ vb[2] # va[2]
    BY <1>6 DEF Pages
  <2>3. CASE ~HasTable(k, vb[1])
    BY <2>3, ZeroIsEntry DEF Walk, PDX, PTX, HasTable
  <2>4. CASE HasTable(k, vb[1]) /\ vb[1] = va[1]
    BY <1>4, <2>1, <2>2, <2>4 DEF Walk, PDX, PTX
  <2>5. CASE HasTable(k, vb[1]) /\ vb[1] # va[1]
    <3>1. k.directory[vb[1]].frame # t
      BY <1>1, <2>1, <2>5 DEF Good, TableGood
    <3> QED BY <1>4, <2>1, <2>5, <3>1 DEF Walk, PDX, PTX
  <2> QED BY <2>3, <2>4, <2>5
<1> QED BY <1>4, <1>5, <1>6 DEF Walks

\* A list whose tail is empty has one element.
LEMMA LastOne ==
    ASSUME NEW s \in Seq(Frames), s # <<>>
    PROVE  Tail(s) = <<>> => Len(s) = 1
<1>1. Len(Tail(s)) = Len(s) - 1 /\ Len(s) \in Nat /\ Tail(s) \in Seq(Frames)
  OBVIOUS
<1>2. ASSUME NEW t \in Seq(Frames), Len(t) # 0 PROVE t # <<>>
  BY <1>2
<1>3. Tail(s) = <<>> => Len(Tail(s)) = 0
  BY <1>1, <1>2, Zenon
<1>4. \A n \in Nat : n - 1 = 0 => n = 1
  OBVIOUS
<1> QED BY <1>1, <1>3, <1>4, Zenon

\* allocate_frame: the first frame of the list goes to the command.
LEMMA Allocate ==
    ASSUME NEW k, Good(k), k.free # <<>>, NEW f, f = Head(k.free),
           NEW a, a = allocate_frame(k)
    PROVE  /\ a.ret = 0 /\ a.frame = f /\ a.mem.free = Tail(k.free)
           /\ Good(a.mem) /\ Lost(a.mem) = Lost(k) \cup {f} /\ f \notin Lost(k)
           /\ f \in Usable /\ a.mem.directory = k.directory
           /\ \A vb \in Pages : Walk(a.mem, vb) = Walk(k, vb)
<1> DEFINE k2 == a.mem
           r == [k.references EXCEPT ![f] = 0]
<1>1. k \in Memories /\ k.free \in Seq(Frames) /\ IsInjective(k.free)
  BY MemoryIsRecord DEF Good, ListGood
<1>2. /\ Tail(k.free) \in Seq(Frames) /\ f \in Frames /\ f \in Range(k.free)
      /\ IsInjective(Tail(k.free))
      /\ Range(Tail(k.free)) = Range(k.free) \ {f}
  BY <1>1, RemoveFirstFacts
<1>3. k.references[f] = 0 /\ f \in On(k)
  BY <1>2 DEF Good, ListGood, On
<1>4. /\ a.ret = 0 /\ a.frame = f
      /\ k2 = [[k EXCEPT !.free = Tail(k.free)] EXCEPT !.references[f] = 0]
  BY DEF allocate_frame, LIST_REMOVE_FIRST, initialize_frame_info
<1> HIDE DEF k2
<1>5. /\ k2.free = Tail(k.free) /\ k2.directory = k.directory
      /\ k2.table = k.table /\ k2.tlb = k.tlb /\ k2.references = r
      /\ IsRecord(k2)
  BY <1>1, <1>4 DEF Memories, IsRecord
<1>6. r = k.references
  BY <1>1, <1>2, <1>3 DEF Memories
<1> HIDE DEF r
<1>7. k2 \in Memories
  BY <1>1, <1>2, <1>5, <1>6, MemoryIsRecord, RecordIsMemory
<1>8. IsInjective(k2.free) /\ On(k2) = On(k) \ {f}
  BY <1>2, <1>5 DEF On
<1>9. /\ Good(k2) /\ Lost(k2) = Lost(k) \cup {f} /\ f \notin Lost(k)
      /\ f \in Usable
      /\ \A vb \in Pages : Walk(k2, vb) = Walk(k, vb)
  BY <1>3, <1>5, <1>6, <1>7, <1>8, GoodListed
<1> QED BY <1>4, <1>5, <1>9 DEF k2

\* The path of get_page_table that makes a table.
LEMMA Install ==
    ASSUME NEW k, Good(k), NEW f \in Lost(k), NEW d \in Dirs, ~HasTable(k, d),
           NEW k2, k2 = InstallTable(k, f, d)
    PROVE  /\ Good(k2) /\ Taken(k2, k, f)
           /\ HasTable(k2, d) /\ k2.directory[d].frame = f
           /\ SameWalks(k2, k)
<1> DEFINE p == CONSTRUCT_ENTRY(f, {PERM_PRESENT, PERM_USER, PERM_WRITEABLE})
<1>1. k \in Memories /\ f \in Frames /\ f \in Usable /\ k.references[f] = 0
  BY UsableFrames DEF Good, Lost
<1>3. p \in Entries /\ p.frame = f /\ PERM_PRESENT \in p.perm
  BY <1>1 DEF CONSTRUCT_ENTRY, Entries, PermBits
<1>4. /\ ZeroTable \in [Slots -> Entries]
      /\ \A s \in Slots : ZeroTable[s] = ZeroEntry
  BY ZeroIsEntry DEF ZeroTable
<1>5. /\ k2.free = k.free /\ k2.tlb = k.tlb
      /\ k2.references = [k.references EXCEPT ![f] = 1]
      /\ k2.directory = [k.directory EXCEPT ![d] = p]
      /\ k2.table = [k.table EXCEPT ![f] = ZeroTable]
      /\ IsRecord(k2)
  <2> HIDE DEF p
  <2>1. k2 = [k EXCEPT !.table = [k.table EXCEPT ![f] = ZeroTable],
                       !.references = [k.references EXCEPT ![f] = 1],
                       !.directory = [k.directory EXCEPT ![d] = p]]
    BY <1>1, Zenon DEF InstallTable, p
  <2> QED BY <1>1, <2>1 DEF Memories, IsRecord
<1> HIDE DEF p
<1>6. k2 \in Memories
  <2>1. k2.references \in [Frames -> 0 .. RefModulus - 1]
    BY <1>1, <1>5, RefModulusAssumption, MemoryIsRecord
  <2>2. k2.directory \in [Dirs -> Entries]
    BY <1>1, <1>3, <1>5, MemoryIsRecord
  <2>3. k2.table \in [Frames -> [Slots -> Entries]]
    BY <1>1, <1>4, <1>5, MemoryIsRecord
  <2> QED BY <1>1, <1>5, <2>1, <2>2, <2>3, MemoryIsRecord, RecordIsMemory
<1>7. /\ k2.directory[d] = p
      /\ \A e \in Dirs : e # d => k2.directory[e] = k.directory[e]
      /\ k2.table[f] = ZeroTable
      /\ \A g \in Frames : g # f => k2.table[g] = k.table[g]
      /\ Counts(k2, k, f, 1)
  BY <1>1, <1>5, MemoryIsRecord DEF Counts
<1>8. ASSUME NEW va \in Pages
      PROVE  Walk(k2, va) = Walk(k, va)
  <2>1. /\ va[1] \in Dirs /\ va[2] \in Slots
        /\ ~HasTable(k, va[1]) => Walk(k, va) = ZeroEntry
        /\ HasTable(k, va[1]) =>
             /\ k.directory[va[1]].frame \in Frames
             /\ Walk(k, va) = k.table[k.directory[va[1]].frame][va[2]]
    BY WalkShape
  <2>2. CASE va[1] = d
    BY <1>3, <1>4, <1>7, <2>1, <2>2 DEF Walk, PDX, PTX
  <2>3. CASE va[1] # d /\ ~HasTable(k, va[1])
    BY <1>7, <2>1, <2>3, ZeroIsEntry DEF Walk, PDX, PTX, HasTable
  <2>4. CASE va[1] # d /\ HasTable(k, va[1])
    <3>1. k.directory[va[1]].frame # f
      BY <1>1, <2>1, <2>4, UnusedFrame
    <3>2. k2.directory[va[1]] = k.directory[va[1]]
      BY <1>7, <2>1, <2>4
    <3> QED BY <1>7, <2>1, <2>4, <3>1, <3>2 DEF Walk, PDX, PTX
  <2> QED BY <2>2, <2>3, <2>4
<1>9. Good(k2) /\ Lost(k2) = Lost(k) \ {f}
  <2>1. Directories(k2, k, d, p) /\ SameWalks(k2, k)
    BY <1>7, <1>8 DEF Directories, SameWalks
  <2>2. Counts(k2, k, f, 1) /\ k2.free = k.free
    BY <1>5, <1>7
  <2> QED BY <1>3, <1>6, <2>1, <2>2, GoodInstalled
<1>10. HasTable(k2, d)
  BY <1>3, <1>7, PresentIsNotZero DEF HasTable
<1> QED BY <1>3, <1>5, <1>7, <1>8, <1>9, <1>10 DEF SameWalks, Taken

\* The last two statements of map_frame.
LEMMA Write ==
    ASSUME NEW k, Good(k), NEW va \in Pages, HasTable(k, va[1]), ~Mapped(k, va),
           NEW f \in Lost(k), NEW perm \in SUBSET PermBits,
           NEW t, t = k.directory[va[1]].frame,
           NEW k2, k2 = WriteEntry(k, f, t, va, perm)
    PROVE  Good(k2) /\ Taken(k2, k, f)
<1> DEFINE e == CONSTRUCT_ENTRY(f, perm \cup {PERM_PRESENT})
           c == (k.references[f] + 1) % RefModulus
           r == [k.references EXCEPT ![f] = c]
<1>1. k \in Memories /\ f \in Frames /\ f \in Usable /\ k.references[f] = 0
  BY UsableFrames DEF Good, Lost
<1>2. c = 1 /\ 1 \in 0 .. RefModulus - 1
  BY <1>1, RefModulusAssumption
<1>3. e \in Entries /\ e.frame = f /\ PERM_PRESENT \in e.perm
  BY <1>1 DEF CONSTRUCT_ENTRY, Entries, PermBits
<1>4. /\ k2.free = k.free /\ k2.references = r
      /\ k2.directory = k.directory /\ k2.tlb = k.tlb
      /\ k2.table = StoredTable(k, va, e)
      /\ IsRecord(k2)
  <2>1. k2 = [k EXCEPT !.references = r, !.table = StoredTable(k, va, e)]
    BY Zenon DEF WriteEntry, StoredTable, PTX
  <2>2. k = [free |-> k.free, references |-> k.references,
             directory |-> k.directory, table |-> k.table, tlb |-> k.tlb]
    BY <1>1, MemoryIsRecord DEF IsRecord
  <2> HIDE DEF r, e
  <2> QED BY <2>1, <2>2 DEF IsRecord
<1> HIDE DEF c, e
<1>5. k2.references \in [Frames -> 0 .. RefModulus - 1] /\ Counts(k2, k, f, 1)
  BY <1>1, <1>2, <1>4, MemoryIsRecord DEF Counts
<1> HIDE DEF r
<1>6. k2.table \in [Frames -> [Slots -> Entries]] /\ Walks(k2, k, va, e)
  BY <1>3, <1>4, StoreEntry
<1>7. k2 \in Memories
  BY <1>1, <1>4, <1>5, <1>6, MemoryIsRecord, RecordIsMemory
<1> QED BY <1>3, <1>4, <1>5, <1>6, <1>7, GoodWritten DEF Taken

\* The store of MapNull.
NullEntered(k, t, va, perm) ==
    [k EXCEPT !.table[t][PTX(va)] =
        CONSTRUCT_ENTRY(NULL, perm \cup {PERM_PRESENT})]

\* map_frame with the null pointer that ap may pass: no frame gains or loses an
\* owner.
LEMMA WriteNull ==
    ASSUME NEW k, Good(k), NEW va \in Pages, HasTable(k, va[1]), ~Mapped(k, va),
           NEW perm \in SUBSET PermBits,
           NEW t, t = k.directory[va[1]].frame,
           NEW k2, k2 = NullEntered(k, t, va, perm)
    PROVE  Good(k2) /\ Lost(k2) = Lost(k)
<1> DEFINE e == CONSTRUCT_ENTRY(NULL, perm \cup {PERM_PRESENT})
<1>1. k \in Memories
  BY DEF Good
<1>3. e \in Entries /\ e.frame = NULL /\ PERM_PRESENT \in e.perm
  BY DEF CONSTRUCT_ENTRY, Entries, PermBits
<1>4. /\ k2.free = k.free /\ k2.references = k.references
      /\ k2.directory = k.directory /\ k2.tlb = k.tlb
      /\ k2.table = StoredTable(k, va, e)
      /\ IsRecord(k2)
  <2>1. k2 = [k EXCEPT !.table = StoredTable(k, va, e)]
    BY Zenon DEF NullEntered, StoredTable, PTX
  <2>2. k = [free |-> k.free, references |-> k.references,
             directory |-> k.directory, table |-> k.table, tlb |-> k.tlb]
    BY <1>1, MemoryIsRecord DEF IsRecord
  <2> HIDE DEF e
  <2> QED BY <2>1, <2>2 DEF IsRecord
<1> HIDE DEF e
<1>6. k2.table \in [Frames -> [Slots -> Entries]] /\ Walks(k2, k, va, e)
  BY <1>3, <1>4, StoreEntry
<1>7. k2 \in Memories
  BY <1>1, <1>4, <1>6, MemoryIsRecord, RecordIsMemory
<1> QED BY <1>3, <1>4, <1>6, <1>7, GoodNull

\* get_frame_info finds what the walk finds.
LEMMA FrameInfo ==
    ASSUME NEW k, Good(k), NEW va \in Pages, NEW i, i = get_frame_info(k, va)
    PROVE  /\ ~Mapped(k, va) => i.frame = NULL
           /\ Mapped(k, va) =>
                /\ HasTable(k, va[1])
                /\ i.frame = Walk(k, va).frame
                /\ i.table = k.directory[va[1]].frame
<1>1. /\ ~HasTable(k, va[1]) => Walk(k, va) = ZeroEntry
      /\ HasTable(k, va[1]) =>
            /\ k.directory[va[1]].frame # NULL
            /\ Walk(k, va) = k.table[k.directory[va[1]].frame][va[2]]
  BY WalkShape
<1>2. CASE ~HasTable(k, va[1])
  <2>1. get_page_table(k, va, FALSE).table = NULL
    BY <1>2 DEF get_page_table, PDX, HasTable
  <2> QED BY <1>1, <1>2, <2>1 DEF get_frame_info, Mapped
<1>3. CASE HasTable(k, va[1])
  <2>1. get_page_table(k, va, FALSE).table = k.directory[va[1]].frame
    BY <1>3 DEF get_page_table, PDX, HasTable
  <2> QED BY <1>1, <1>3, <2>1 DEF get_frame_info, PTX, Mapped
<1> QED BY <1>2, <1>3

\* unmap_frame of a mapped page, field by field.  The frame had one reference,
\* so it goes back to the list.
LEMMA UnmapFields ==
    ASSUME NEW k, Good(k), NEW va \in Pages, Mapped(k, va),
           NEW g, g = Walk(k, va).frame, g # NULL,
           NEW u, u = unmap_frame(k, va)
    PROVE  /\ u.free = <<g>> \o k.free
           /\ u.references = [k.references EXCEPT ![g] = 0]
           /\ u.directory = k.directory
           /\ u.table = StoredTable(k, va, ZeroEntry)
           /\ u.tlb = [k.tlb EXCEPT ![va] = ZeroEntry]
           /\ IsRecord(u)
<1> DEFINE t == k.directory[va[1]].frame
           c == (k.references[g] - 1) % RefModulus
           r == [k.references EXCEPT ![g] = c]
           d1 == [k EXCEPT !.references = r]
           d2 == decrement_references(k, g)
           d3 == [d2 EXCEPT !.table = [d2.table EXCEPT ![t][va[2]] = ZeroEntry]]
<1>1. k \in Memories /\ IsRecord(k) /\ k.references \in [Frames -> 0 .. RefModulus - 1]
  BY MemoryIsRecord DEF Good
<1>2. get_frame_info(k, va).frame = g /\ get_frame_info(k, va).table = t
  BY FrameInfo
<1>3. g \in Frames /\ k.references[g] = 1
  BY UsableFrames DEF Good, PageGood
<1>4. c = 0
  BY <1>3, RefModulusAssumption
<1> HIDE DEF c, t
<1>5. d1.references[g] = 0 /\ r = [k.references EXCEPT ![g] = 0]
  <2>1. r[g] = 0 /\ r = [k.references EXCEPT ![g] = 0]
    BY <1>1, <1>3, <1>4
  <2> HIDE DEF r
  <2> QED BY <1>1, <2>1 DEF IsRecord
<1> HIDE DEF r
<1>6. /\ d1.free = k.free /\ d1.directory = k.directory
      /\ d1.table = k.table /\ d1.tlb = k.tlb /\ d1.references = r
      /\ IsRecord(d1)
  BY <1>1 DEF IsRecord
<1>7. d2 = [d1 EXCEPT !.free = <<g>> \o d1.free]
  BY <1>5, Zenon DEF decrement_references, free_frame, LIST_INSERT_HEAD, r, c
<1> HIDE DEF d1, d2
<1>8. /\ d2.free = <<g>> \o k.free /\ d2.directory = k.directory
      /\ d2.table = k.table /\ d2.tlb = k.tlb /\ d2.references = r
      /\ IsRecord(d2)
  BY <1>6, <1>7 DEF IsRecord
<1>9. u = [d3 EXCEPT !.tlb = [d3.tlb EXCEPT ![va] = ZeroEntry]]
  BY <1>2, Zenon DEF unmap_frame, tlb_invalidate, PTX, d2
<1>10. /\ d3.free = d2.free /\ d3.references = d2.references
       /\ d3.directory = d2.directory /\ d3.tlb = d2.tlb
       /\ d3.table = [k.table EXCEPT ![t][va[2]] = ZeroEntry]
       /\ IsRecord(d3)
  BY <1>8 DEF IsRecord
<1> HIDE DEF d3
<1>11. /\ u.free = d3.free /\ u.references = d3.references
       /\ u.directory = d3.directory /\ u.table = d3.table
       /\ u.tlb = [d3.tlb EXCEPT ![va] = ZeroEntry]
       /\ IsRecord(u)
  BY <1>9, <1>10 DEF IsRecord
<1> QED BY <1>5, <1>8, <1>10, <1>11 DEF StoredTable, t

\* unmap_frame clears the walk of its page and loses no frame.
LEMMA Unmap ==
    ASSUME NEW k, Good(k), NEW va \in Pages,
           Mapped(k, va) => Walk(k, va).frame # NULL,
           NEW u, u = unmap_frame(k, va)
    PROVE  /\ Good(u) /\ Lost(u) = Lost(k) /\ u.directory = k.directory
           /\ Walks(u, k, va, ZeroEntry)
<1>1. CASE ~Mapped(k, va)
  <2>1. u = k
    BY <1>1, FrameInfo DEF unmap_frame
  <2> QED BY <1>1, <2>1 DEF Walks, Mapped
<1>2. CASE Mapped(k, va)
  <2>1. PICK g : g = Walk(k, va).frame
    OBVIOUS
  <2>2. /\ g # NULL /\ g \in Usable /\ g \in Frames /\ k.references[g] = 1
    BY <1>2, <2>1, UsableFrames DEF Good, PageGood
  <2>3. /\ u.free = <<g>> \o k.free
        /\ u.references = [k.references EXCEPT ![g] = 0]
        /\ u.directory = k.directory
        /\ u.table = StoredTable(k, va, ZeroEntry)
        /\ u.tlb = [k.tlb EXCEPT ![va] = ZeroEntry]
        /\ IsRecord(u)
    BY <1>2, <2>1, <2>2, UnmapFields
  <2>4. /\ k \in Memories /\ k.free \in Seq(Frames) /\ IsInjective(k.free)
        /\ g \notin Range(k.free)
    BY <2>2, MemoryIsRecord DEF Good, ListGood, On
  <2>5. /\ u.free \in Seq(Frames) /\ IsInjective(u.free) /\ On(u) = On(k) \cup {g}
    BY <2>2, <2>3, <2>4, InsertHeadFacts DEF On
  <2>6. /\ u.references \in [Frames -> 0 .. RefModulus - 1] /\ Counts(u, k, g, 0)
    BY <2>2, <2>3, <2>4, MemoryIsRecord, RefModulusAssumption DEF Counts
  <2>7. HasTable(k, va[1])
    BY <1>2, WalkShape DEF Mapped
  <2>8. u.table \in [Frames -> [Slots -> Entries]] /\ Walks(u, k, va, ZeroEntry)
    BY <2>3, <2>7, ZeroIsEntry, StoreEntry
  <2>9. u.tlb \in [Pages -> Entries] /\ u.directory \in [Dirs -> Entries]
    BY <2>3, <2>4, MemoryIsRecord, ZeroIsEntry
  <2>10. u \in Memories
    BY <2>3, <2>5, <2>6, <2>8, <2>9, RecordIsMemory
  <2>11. Good(u) /\ Lost(u) = Lost(k)
    <3>1. u.directory = k.directory /\ g # NULL
      BY <2>2, <2>3
    <3>2. Counts(u, k, g, 0) /\ Walks(u, k, va, ZeroEntry)
      BY <2>6, <2>8
    <3>3. IsInjective(u.free) /\ On(u) = On(k) \cup {g}
      BY <2>5
    <3> QED BY <1>2, <2>1, <2>10, <3>1, <3>2, <3>3, GoodUnmapped
  <2> QED BY <2>3, <2>8, <2>11
<1> QED BY <1>1, <1>2

\* get_page_table finds the table of va, makes it, or fails because the list
\* is empty.  It moves no page and loses no frame.
LEMMA GetTable ==
    ASSUME NEW k, Good(k), NEW va \in Pages,
           NEW g, g = get_page_table(k, va, TRUE)
    PROVE  \/ /\ g.ret # 0 /\ g.mem = k
              /\ k.free = <<>> /\ ~HasTable(k, va[1])
           \/ /\ g.ret = 0 /\ Good(g.mem) /\ Lost(g.mem) = Lost(k)
              /\ HasTable(g.mem, va[1])
              /\ g.table = g.mem.directory[va[1]].frame
              /\ SameWalks(g.mem, k)
<1>1. va[1] \in Dirs
  BY DEF Pages
<1>2. CASE HasTable(k, va[1])
  <2>1. g.ret = 0 /\ g.table = k.directory[va[1]].frame /\ g.mem = k
    BY <1>2 DEF get_page_table, PDX, HasTable
  <2> QED BY <1>2, <2>1 DEF SameWalks
<1>3. CASE ~HasTable(k, va[1]) /\ k.free = <<>>
  <2>1. allocate_frame(k).ret = E_NO_MEM
    BY <1>3 DEF allocate_frame
  <2>2. g.ret = E_NO_MEM /\ g.mem = k
    BY <1>3, <2>1 DEF get_page_table, PDX, HasTable
  <2>3. E_NO_MEM # 0
    BY DEF E_NO_MEM
  <2> QED BY <1>3, <2>2, <2>3
<1>4. CASE ~HasTable(k, va[1]) /\ k.free # <<>>
  <2>1. PICK a : a = allocate_frame(k)
    OBVIOUS
  <2>2. PICK f : f = Head(k.free)
    OBVIOUS
  <2>3. /\ a.ret = 0 /\ a.frame = f
        /\ Good(a.mem) /\ Lost(a.mem) = Lost(k) \cup {f} /\ f \notin Lost(k)
        /\ a.mem.directory = k.directory
        /\ \A vb \in Pages : Walk(a.mem, vb) = Walk(k, vb)
    BY <1>4, <2>1, <2>2, Allocate
  <2>4. a.ret # E_NO_MEM
    BY <2>3 DEF E_NO_MEM
  <2>5. g.ret = 0 /\ g.table = f /\ g.mem = InstallTable(a.mem, f, va[1])
    BY <1>4, <2>1, <2>3, <2>4 DEF get_page_table, PDX, HasTable
  <2>6. ~HasTable(a.mem, va[1])
    BY <1>4, <2>3 DEF HasTable
  <2>7. PICK b : b = a.mem
    OBVIOUS
  <2>8. PICK h : h = g.mem
    OBVIOUS
  <2>9. /\ Good(h) /\ Taken(h, b, f) /\ SameWalks(h, b)
        /\ HasTable(h, va[1]) /\ h.directory[va[1]].frame = f
    <3>1. h = InstallTable(b, f, va[1]) /\ Good(b) /\ ~HasTable(b, va[1])
      BY <2>3, <2>5, <2>6, <2>7, <2>8
    <3>2. f \in Lost(b)
      BY <2>3, <2>7
    <3> QED BY <1>1, <3>1, <3>2, Install
  <2>10. Lost(h) = Lost(k)
    BY <2>3, <2>7, <2>9 DEF Taken
  <2>11. SameWalks(h, k)
    BY <2>3, <2>7, <2>9 DEF SameWalks
  <2> QED BY <2>5, <2>8, <2>9, <2>10, <2>11
<1> QED BY <1>2, <1>3, <1>4

\* map_frame of a frame in the hands of the command: it is mapped, or there is
\* neither a page table nor a frame to make one of, and it is lost.
LEMMA Map ==
    ASSUME NEW k, Good(k), NEW va \in Pages, NEW f \in Lost(k),
           Mapped(k, va) => Walk(k, va).frame # NULL,
           NEW k2, k2 = map_frame(k, f, va, UW).mem
    PROVE  \/ k2 = k /\ k.free = <<>> /\ ~HasTable(k, va[1])
           \/ Good(k2) /\ Taken(k2, k, f)
<1>1. PICK g : g = get_page_table(k, va, TRUE)
  OBVIOUS
<1>2. \/ /\ g.ret # 0 /\ g.mem = k
         /\ k.free = <<>> /\ ~HasTable(k, va[1])
      \/ /\ g.ret = 0 /\ Good(g.mem) /\ Lost(g.mem) = Lost(k)
         /\ HasTable(g.mem, va[1])
         /\ g.table = g.mem.directory[va[1]].frame
         /\ SameWalks(g.mem, k)
  BY <1>1, GetTable
<1>3. CASE g.ret # 0
  BY <1>1, <1>2, <1>3 DEF map_frame
<1>4. CASE g.ret = 0
  <2>1. PICK b, t : b = g.mem /\ t = g.table
    OBVIOUS
  <2>2. /\ Good(b) /\ Lost(b) = Lost(k) /\ HasTable(b, va[1])
        /\ t = b.directory[va[1]].frame /\ Walk(b, va) = Walk(k, va)
        /\ f \in Lost(b)
    BY <1>2, <1>4, <2>1 DEF SameWalks
  <2>3. b.table[t][PTX(va)] = Walk(b, va)
    BY <2>2, WalkShape DEF PTX
  <2>4. UW \in SUBSET PermBits
    BY DEF UW, PermBits
  <2>5. CASE ~Mapped(b, va)
    <3>1. PERM_PRESENT \notin Walk(b, va).perm
      BY <2>5, ZeroIsEntry DEF Mapped
    <3>2. k2 = WriteEntry(b, f, t, va, UW)
      BY <1>1, <1>4, <2>1, <2>3, <3>1 DEF map_frame
    <3>3. Good(k2) /\ Taken(k2, b, f)
      BY <2>2, <2>4, <2>5, <3>2, Write
    <3> QED BY <2>2, <3>3 DEF Taken
  <2>6. CASE Mapped(b, va)
    <3>1. PICK u : u = unmap_frame(b, va)
      OBVIOUS
    <3>2. /\ PERM_PRESENT \in Walk(b, va).perm /\ Walk(b, va).frame # f
      <4>1. f \in Usable /\ b.references[f] = 0
        BY <2>2 DEF Lost
      <4>2. Walk(b, va).frame # f
        BY <2>2, <2>6, <4>1, UnusedFrame
      <4> QED BY <2>2, <2>6, <4>2 DEF Good, PageGood
    <3>3. k2 = WriteEntry(u, f, t, va, UW)
      BY <1>1, <1>4, <2>1, <2>3, <3>1, <3>2 DEF map_frame
    <3>4. Mapped(b, va) => Walk(b, va).frame # NULL
      BY <2>2 DEF Mapped
    <3>5. /\ Good(u) /\ Lost(u) = Lost(b) /\ u.directory = b.directory
          /\ Walks(u, b, va, ZeroEntry)
      BY <2>2, <3>1, <3>4, Unmap
    <3>6. HasTable(u, va[1]) /\ ~Mapped(u, va) /\ t = u.directory[va[1]].frame
      BY <2>2, <3>5 DEF HasTable, Mapped, Walks
    <3>7. Good(k2) /\ Taken(k2, u, f)
      <4>1. f \in Lost(u)
        BY <2>2, <3>5
      <4> QED BY <2>4, <3>3, <3>5, <3>6, <4>1, Write
    <3> QED BY <2>2, <3>5, <3>7 DEF Taken
  <2> QED BY <2>5, <2>6
<1> QED BY <1>3, <1>4

-----------------------------------------------------------------------------
\* The commands.
Prompt == depth' \in 0 .. MaxDepth /\ machine' \in {"running", "dead"}

\* Panics, returns and faults at the prompt keep the invariant's part on it.
LEMMA PanicKeeps ==
    ASSUME Inv, NEW k, Panic \/ Die \/ Return \/ Fault(k)
    PROVE  Prompt
BY PromptAssumption DEF Inv, Panic, Die, Return, Fault, Prompt

\* ap with a frame left: no frame is lost unless map_frame had no table and
\* ap had taken the last frame, or the entry was bogus.
LEMMA ApAllocatedKeeps ==
    ASSUME Inv, NEW va \in Pages, ApAllocated(va)
    PROVE  /\ Good(m') /\ Prompt
           /\ \/ Lost(m') = Lost(m)
              \/ Len(m.free) = 1 /\ ~HasTable(m, va[1])
              \/ Bogus(m, va) /\ Panic
           /\ (Bogus(m, va) /\ Panic) \/ Return
<1>1. PICK a : a = allocate_frame(m)
  OBVIOUS
<1>2. PICK f : f = Head(m.free)
  OBVIOUS
<1>3. m.free # <<>> /\ Good(m) /\ m.free \in Seq(Frames)
  BY MemoryIsRecord DEF ApAllocated, Inv, Good
<1>4. /\ a.frame = f /\ a.mem.free = Tail(m.free)
      /\ Good(a.mem) /\ Lost(a.mem) = Lost(m) \cup {f} /\ f \notin Lost(m)
      /\ a.mem.directory = m.directory
      /\ \A vb \in Pages : Walk(a.mem, vb) = Walk(m, vb)
  BY <1>1, <1>2, <1>3, Allocate
<1>5. CASE Bogus(m, va)
  <2>1. m' = a.mem /\ Panic
    BY <1>1, <1>5 DEF ApAllocated
  <2> QED BY <1>4, <1>5, <2>1, PanicKeeps
<1>6. CASE ~Bogus(m, va)
  <2>1. m' = map_frame(a.mem, f, va, UW).mem /\ Return
    BY <1>1, <1>4, <1>6 DEF ApAllocated
  <2>2. PICK b : b = a.mem
    OBVIOUS
  <2>3. Mapped(b, va) => Walk(b, va).frame # NULL
    BY <1>4, <1>6, <2>2 DEF Bogus, Mapped
  <2>4. Good(b) /\ f \in Lost(b) /\ m' = map_frame(b, f, va, UW).mem
    BY <1>4, <2>1, <2>2
  <2>5. \/ m' = b /\ b.free = <<>> /\ ~HasTable(b, va[1])
        \/ Good(m') /\ Taken(m', b, f)
    BY <2>3, <2>4, Map
  <2>6. CASE m' = b /\ b.free = <<>> /\ ~HasTable(b, va[1])
    <3>1. Len(m.free) = 1
      BY <1>3, <1>4, <2>2, <2>6, LastOne
    <3>2. ~HasTable(m, va[1])
      BY <1>4, <2>2, <2>6 DEF HasTable
    <3> QED BY <2>1, <2>4, <2>6, <3>1, <3>2, PanicKeeps
  <2>7. CASE Good(m') /\ Taken(m', b, f)
    <3>1. Lost(m') = Lost(m)
      BY <1>4, <2>2, <2>7 DEF Taken
    <3> QED BY <2>1, <2>7, <3>1, PanicKeeps
  <2> QED BY <2>5, <2>6, <2>7
<1> QED BY <1>5, <1>6

\* ap with no frame left loses none, and stops the machine only if address 0
\* is not mapped, or no longer is.
LEMMA ApExhaustedKeeps ==
    ASSUME Inv, NEW va \in Pages, ApExhausted(va)
    PROVE  /\ Good(m') /\ Prompt /\ Lost(m') = Lost(m) /\ m.free = <<>>
           /\ Return \/ (Die /\ (~Translates(m, Page0) \/ va = Page0))
<1>1. Good(m) /\ m.free = <<>>
  BY DEF Inv, ApExhausted
<1>2. CASE ~HasTable(m, va[1]) \/ Bogus(m, va)
  <2>1. m' = m /\ Return
    BY <1>2 DEF ApExhausted, HasTable, PDX
  <2> QED BY <1>1, <2>1, PanicKeeps
<1>3. CASE HasTable(m, va[1]) /\ ~Bogus(m, va)
  <2>1. PICK u, t : u = unmap_frame(m, va) /\ t = m.directory[va[1]].frame
    OBVIOUS
  <2>2. Mapped(m, va) => Walk(m, va).frame # NULL
    BY <1>3 DEF Bogus, Mapped
  <2>3. /\ Good(u) /\ Lost(u) = Lost(m) /\ u.directory = m.directory
        /\ Walks(u, m, va, ZeroEntry)
    BY <1>1, <2>1, <2>2, Unmap
  <2>4. IF Translates(u, Page0)
        THEN /\ m' = [u EXCEPT !.table[t][PTX(va)] =
                        CONSTRUCT_ENTRY(NULL, UW \cup {PERM_PRESENT})]
             /\ Return
        ELSE m' = u /\ Fault(u)
    <3>1. MapNull(va)
      BY <1>3 DEF ApExhausted, HasTable, PDX
    <3> QED BY <2>1, <3>1 DEF MapNull, PDX
  <2>5. CASE Translates(u, Page0)
    <3>1. PICK b : b = m'
      OBVIOUS
    <3>2. b = NullEntered(u, t, va, UW)
      BY <2>4, <2>5, <3>1 DEF NullEntered
    <3>3. HasTable(u, va[1]) /\ ~Mapped(u, va) /\ t = u.directory[va[1]].frame
      BY <1>3, <2>1, <2>3 DEF HasTable, Mapped, Walks
    <3>4. UW \in SUBSET PermBits
      BY DEF UW, PermBits
    <3>5. Good(b) /\ Lost(b) = Lost(u)
      BY <2>3, <3>2, <3>3, <3>4, WriteNull
    <3> QED BY <1>1, <2>3, <2>4, <2>5, <3>1, <3>5, PanicKeeps
  <2>6. CASE ~Translates(u, Page0)
    <3>1. m' = u /\ Fault(u) /\ Die
      BY <2>4, <2>6 DEF Fault
    <3>2. ~Translates(m, Page0) \/ va = Page0
      BY <2>3, <2>6, PromptAssumption DEF Translates, Walks
    <3> QED BY <1>1, <2>3, <3>1, <3>2, PanicKeeps
  <2> QED BY <2>5, <2>6
<1> QED BY <1>2, <1>3

\* fp loses no frame either.
LEMMA FreeKeeps ==
    ASSUME Inv, NEW va \in Pages, command_fp(va)
    PROVE  Good(m') /\ Prompt /\ Lost(m') = Lost(m) /\ (Return \/ Panic)
<1>1. Good(m)
  BY DEF Inv
<1>2. CASE Bogus(m, va)
  <2>1. m' = m /\ Panic
    BY <1>2 DEF command_fp
  <2> QED BY <1>1, <2>1, PanicKeeps
<1>3. CASE ~Bogus(m, va)
  <2>1. m' = unmap_frame(m, va) /\ Return
    BY <1>3 DEF command_fp
  <2>2. Mapped(m, va) => Walk(m, va).frame # NULL
    BY <1>3 DEF Bogus, Mapped
  <2>3. Good(m') /\ Lost(m') = Lost(m)
    BY <1>1, <2>1, <2>2, Unmap
  <2> QED BY <2>1, <2>3, PanicKeeps
<1> QED BY <1>2, <1>3

\* A panic nests a prompt deeper or stops the machine, the latter only at the end
\* of the stack.
LEMMA PanicShows ==
    ASSUME Inv, Panic
    PROVE  /\ depth' > depth \/ machine' = "dead"
           /\ machine' = "dead" => depth = MaxDepth \/ machine = "dead"
BY PromptAssumption DEF Inv, Panic, Die

\* The frames that LeakOnlyWhenExhausted counts are those the lemmas follow.
LEMMA LeakedIsLost == Leaked = Lost(m) /\ Leaked' = Lost(m')
BY DEF Leaked, Lost, Listed, On

\* Every command keeps the invariant and both action properties.
LEMMA CommandKeeps ==
    ASSUME Inv, Next
    PROVE  Good(m') /\ Prompt /\ LeakExplained /\ StopExplained
<1>1. machine = "running" /\ Good(m)
  BY DEF Next, Inv
<1>2. ASSUME NEW va \in Pages, command_ap(va)
      PROVE  Good(m') /\ Prompt /\ LeakExplained /\ StopExplained
  <2>1. cmd' = [name |-> "ap", va |-> va]
    BY <1>2 DEF command_ap, Typed
  <2>2. cmd'.name = "ap" /\ cmd'.va = va
    BY <2>1
  <2>3. CASE ApAllocated(va)
    <3>1. /\ Good(m') /\ Prompt
          /\ \/ Lost(m') = Lost(m)
             \/ Len(m.free) = 1 /\ ~HasTable(m, va[1])
             \/ Bogus(m, va) /\ Panic
          /\ (Bogus(m, va) /\ Panic) \/ Return
      BY <2>3, ApAllocatedKeeps
    <3>2. LeakExplained
      BY <2>2, <3>1, PanicShows, LeakedIsLost DEF LeakExplained, HasTable, PDX
    <3>3. StopExplained
      BY <1>1, <3>1, PanicShows DEF StopExplained, Return
    <3> QED BY <3>1, <3>2, <3>3
  <2>4. CASE ApExhausted(va)
    <3>1. /\ Good(m') /\ Prompt /\ Lost(m') = Lost(m) /\ m.free = <<>>
          /\ Return \/ (Die /\ (~Translates(m, Page0) \/ va = Page0))
      BY <2>4, ApExhaustedKeeps
    <3>2. LeakExplained
      BY <3>1, LeakedIsLost DEF LeakExplained
    <3>3. StopExplained
      BY <1>1, <2>2, <3>1 DEF StopExplained, Return
    <3> QED BY <3>1, <3>2, <3>3
  <2> QED BY <1>2, <2>3, <2>4 DEF command_ap
<1>3. ASSUME NEW va \in Pages, command_fp(va)
      PROVE  Good(m') /\ Prompt /\ LeakExplained /\ StopExplained
  <2>1. Good(m') /\ Prompt /\ Lost(m') = Lost(m) /\ (Return \/ Panic)
    BY <1>3, FreeKeeps
  <2>2. LeakExplained
    BY <2>1, LeakedIsLost DEF LeakExplained
  <2>3. StopExplained
    BY <1>1, <2>1, PanicShows DEF StopExplained, Return
  <2> QED BY <2>1, <2>2, <2>3
<1>4. ASSUME m' = m, Return \/ Panic \/ Fault(m), cmd'.name \notin {"ap", "fp"}
      PROVE  Good(m') /\ Prompt /\ LeakExplained /\ StopExplained
  <2>1. Good(m') /\ Prompt /\ LeakExplained
    BY <1>1, <1>4, PanicKeeps, LeakedIsLost DEF LeakExplained
  <2>2. Return \/ Panic \/ ~Translates(m, Page0)
    BY <1>4 DEF Fault
  <2>3. StopExplained
    BY <1>1, <1>4, <2>2, PanicShows DEF StopExplained, Return
  <2> QED BY <2>1, <2>3
<1>5. ASSUME NEW va \in Pages, AccessMemory(va)
      PROVE  Good(m') /\ Prompt /\ LeakExplained /\ StopExplained
  <2>1. cmd'.name = "rum" /\ m' = m /\ (Return \/ Fault(m))
    BY <1>5 DEF AccessMemory, Typed
  <2> QED BY <1>4, <2>1
<1>6. CASE MissingArgument
  <2>1. cmd'.name = "missing argument" /\ m' = m /\ Fault(m)
    BY <1>6 DEF MissingArgument, Typed
  <2> QED BY <1>4, <2>1
<1>7. CASE NotImplemented
  <2>1. cmd'.name = "not implemented" /\ m' = m /\ Panic
    BY <1>7 DEF NotImplemented, Typed
  <2> QED BY <1>4, <2>1
<1>8. CASE Harmless
  <2>1. cmd'.name = "harmless" /\ m' = m /\ Return
    BY <1>8 DEF Harmless, Typed
  <2> QED BY <1>4, <2>1
<1> QED BY <1>2, <1>3, <1>5, <1>6, <1>7, <1>8 DEF Next

\* The invariant holds when the first prompt starts.
LEMMA InitGood ==
    ASSUME Init
    PROVE  Inv
<1>1. PICK s \in [1 .. Cardinality(Usable) -> Usable] :
        /\ \A i, j \in DOMAIN s : i < j => s[i] > s[j]
        /\ m = [free |-> s,
                references |-> [f \in Frames |-> IF f \in Reserved THEN 1 ELSE 0],
                directory |-> [d \in Dirs |-> ZeroEntry],
                table |-> [f \in Frames |-> Junk],
                tlb |-> [va \in Pages |-> ZeroEntry]]
  BY DEF Init
<1>2. /\ m.free = s /\ IsRecord(m)
      /\ m.references = [f \in Frames |-> IF f \in Reserved THEN 1 ELSE 0]
      /\ m.directory = [d \in Dirs |-> ZeroEntry]
      /\ m.table = [f \in Frames |-> Junk]
      /\ m.tlb = [va \in Pages |-> ZeroEntry]
  BY <1>1 DEF IsRecord
<1>3. Cardinality(Usable) \in Nat
  <2>1. IsFiniteSet(Frames)
    <3>1. 0 \in Int /\ NumFrames - 1 \in Int
      BY NumFramesAssumption
    <3> QED BY <3>1, FS_Interval DEF Frames
  <2>2. IsFiniteSet(Usable)
    BY <2>1, UsableFrames, FS_Subset
  <2> QED BY <2>2, FS_CardinalityType
<1>4. PICK n \in Nat : n = Cardinality(Usable)
  BY <1>3
<1>5. s \in [1 .. n -> Usable] /\ DOMAIN s = 1 .. n
  BY <1>4
<1>6. s \in Seq(Frames)
  <2>1. s \in [1 .. n -> Frames]
    BY <1>5, UsableFrames
  <2> QED BY <2>1
<1>7. IsInjective(s)
  <2> SUFFICES ASSUME NEW i \in DOMAIN s, NEW j \in DOMAIN s, s[i] = s[j], i # j
               PROVE  FALSE
    BY DEF IsInjective
  <2>1. s[i] \in Nat /\ s[j] \in Nat /\ i \in Nat /\ j \in Nat
    <3>1. i \in 1 .. n /\ j \in 1 .. n
      BY <1>5
    <3>2. s[i] \in Usable /\ s[j] \in Usable
      BY <1>5, <3>1
    <3>3. \A f \in Frames : f \in Nat
      BY NumFramesAssumption DEF Frames
    <3> QED BY <3>1, <3>2, <3>3, UsableFrames
  <2>2. i < j \/ j < i
    BY <2>1
  <2> QED BY <1>1, <2>1, <2>2
<1>8. On(m) \subseteq Usable
  BY <1>2, <1>5 DEF On, Range
<1>9. \A f \in Usable : m.references[f] = 0
  BY <1>2, UsableFrames DEF Usable
<1>10. ListGood(m)
  BY <1>2, <1>7, <1>8, <1>9 DEF ListGood
<1>11. m \in Memories
  <2>1. m.references \in [Frames -> 0 .. RefModulus - 1]
    BY <1>2, RefModulusAssumption
  <2>2. /\ m.directory \in [Dirs -> Entries] /\ m.tlb \in [Pages -> Entries]
        /\ m.table \in [Frames -> [Slots -> Entries]]
    BY <1>2, ZeroIsEntry, PromptAssumption
  <2> QED BY <1>2, <1>6, <2>1, <2>2, RecordIsMemory
<1>12. \A d \in Dirs : ~HasTable(m, d)
  BY <1>2 DEF HasTable
<1>13. \A va \in Pages : ~Mapped(m, va)
  <2> SUFFICES ASSUME NEW va \in Pages PROVE Walk(m, va) = ZeroEntry
    BY DEF Mapped
  <2>1. va[1] \in Dirs
    BY DEF Pages
  <2> QED BY <1>2, <2>1, ZeroIsEntry DEF Walk, PDX
<1>14. Good(m)
  BY <1>9, <1>10, <1>11, <1>12, <1>13 DEF Good, UsedGood
<1> QED BY <1>14, PromptAssumption DEF Init, Inv

\* Every command and every panic keeps the invariant.
LEMMA NextKeeps == Inv /\ [Next]_vars => Inv'
<1>1. CASE Inv /\ Next
  BY <1>1, CommandKeeps DEF Inv, Prompt
<1>2. CASE Inv /\ UNCHANGED vars
  BY <1>2 DEF Inv, vars
<1> QED BY <1>1, <1>2

\* Every frame has one owner and is counted accordingly, whatever is typed at
\* the prompt: the inductive invariant.
THEOREM Invariance == Spec => []Inv
<1>1. Init => Inv
  BY InitGood
<1> QED BY <1>1, NextKeeps, PTL DEF Spec

\* Every usable frame is listed once, a page table of one directory entry,
\* mapped at one page, or lost, and never two of these, whatever ap, fp and
\* the other commands of command_prompt.c do.
THEOREM FramesAccountedForAlways == Spec => []FramesAccountedFor
<1>1. Inv => FramesAccountedFor
  <2> SUFFICES ASSUME Good(m) PROVE FramesAccountedFor
    BY DEF Inv
  <2>1. IsInjective(m.free) /\ \A f \in Listed : f \in Usable /\ m.references[f] = 0
    BY DEF Good, ListGood, Listed, On
  <2>2. ASSUME NEW f \in Tables
        PROVE  /\ f \in Usable /\ m.references[f] = 1 /\ f \notin InUse
               /\ \A d, e \in TableDirs :
                    m.directory[d].frame = f /\ m.directory[e].frame = f => d = e
    <3>1. PICK d \in Dirs : HasTable(m, d) /\ m.directory[d].frame = f
      BY <2>2 DEF Tables, TableDirs, HasTable
    <3>2. TableGood(m, d)
      BY <3>1 DEF Good
    <3>3. f \in Usable /\ m.references[f] = 1
      BY <3>1, <3>2 DEF TableGood
    <3>4. \A e \in TableDirs : m.directory[e].frame = f => e = d
      BY <3>1, <3>2 DEF TableGood, TableDirs, HasTable
    <3>5. \A va \in Pages : Mapped(m, va) => Walk(m, va).frame # f
      BY <3>1, <3>3, UsableFrames DEF Good, PageGood
    <3>6. f \notin InUse
      BY <3>5 DEF InUse, Mappers, Mapped
    <3> QED BY <3>3, <3>4, <3>6
  <2>3. ASSUME NEW f \in InUse
        PROVE  f \in Usable /\ m.references[f] = 1 /\ Cardinality(Mappers(f)) = 1
    <3>1. PICK va \in Pages : Mapped(m, va) /\ Walk(m, va).frame = f
      BY <2>3 DEF InUse, Mappers, Mapped
    <3>2. f # NULL /\ PageGood(m, va)
      BY <2>3, <3>1, NumFramesAssumption DEF InUse, Frames, NULL, Good
    <3>3. /\ f \in Usable /\ m.references[f] = 1
          /\ \A vb \in Pages : Mapped(m, vb) /\ Walk(m, vb).frame = f => vb = va
      BY <3>1, <3>2 DEF PageGood
    <3>4. Mappers(f) = {va}
      BY <3>1, <3>3 DEF Mappers, Mapped
    <3>5. Cardinality({va}) = 1
      BY FS_Singleton
    <3> QED BY <3>3, <3>4, <3>5
  <2>4. Leaked = {f \in Usable : m.references[f] = 0} \ Listed
    BY DEF Leaked
  <2>5. ASSUME NEW f \in Usable
        PROVE  f \in Listed \cup Tables \cup InUse \cup Leaked
    <3>1. CASE m.references[f] = 0
      BY <2>4, <3>1
    <3>2. CASE \E d \in Dirs : HasTable(m, d) /\ m.directory[d].frame = f
      BY <3>2 DEF Tables, TableDirs, HasTable
    <3>3. CASE \E va \in Pages : Mapped(m, va) /\ Walk(m, va).frame = f
      BY <3>3, UsableFrames DEF InUse, Mappers, Mapped
    <3> QED BY <3>1, <3>2, <3>3 DEF Good, UsedGood
  <2>6. Listed \cup Tables \cup InUse \cup Leaked = Usable
    BY <2>1, <2>2, <2>3, <2>4, <2>5
  <2>7. Listed \cap (Tables \cup InUse) = {}
    BY <2>1, <2>2, <2>3
  <2>8. Tables \cap InUse = {}
    BY <2>2
  <2> QED BY <2>1, <2>2, <2>3, <2>6, <2>7, <2>8 DEF FramesAccountedFor
<1> QED BY <1>1, Invariance, PTL

\* A frame is lost only by an ap that took the last one and found no page
\* table for it, or that met the bogus entry of an earlier ap: the commands
\* that ignore the result of allocate_frame and map_frame lose no other.
THEOREM LeakOnlyWhenExhaustedAlways == Spec => LeakOnlyWhenExhausted
<1>1. Inv /\ [Next]_vars => [LeakExplained]_vars
  BY CommandKeeps
<1> QED BY <1>1, Invariance, PTL DEF Spec, LeakOnlyWhenExhausted

\* fp stops the machine only when the nested prompts of _panic have used up
\* the stack, ap only then or when memory has run out; with a page mapped at
\* address 0 nothing but the stack, or an ap of that page, can.
THEOREM DeathExplainedAlways == Spec => DeathExplained
<1>1. Inv /\ [Next]_vars => [StopExplained]_vars
  BY CommandKeeps
<1> QED BY <1>1, Invariance, PTL DEF Spec, DeathExplained

=============================================================================
