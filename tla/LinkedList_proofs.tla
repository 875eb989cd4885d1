-------------------------- MODULE LinkedList_proofs --------------------------
(***************************************************************************)
(* The lists of inc/queue.h are proved to represent the sequences their     *)
(* callers believe in, for any set of elements.                             *)
(*                                                                          *)
(* Every insertion puts an element between a place p and what follows it,   *)
(* and LIST_REMOVE joins p to what follows the element; Before and After    *)
(* name the two neighbours of a position, so that one lemma serves the      *)
(* three insertions and one the removal.  What a step does to the other     *)
(* list is the same lemma with the roles exchanged: none of the places      *)
(* written to lies on it.                                                   *)
(***************************************************************************)
EXTENDS LinkedList, SequenceTheorems, TLAPS

\* Linked, for given contents of the link fields.
LinkedBy(nx, pv, s, first) ==
    /\ first = IF s = <<>> THEN NULL ELSE s[1]
    /\ \A i \in DOMAIN s :
        /\ nx[s[i]] = IF i = Len(s) THEN NULL ELSE s[i + 1]
        /\ pv[s[i]] = IF i = 1 THEN HEAD ELSE s[i - 1]

IsList(nx, pv, s, first) ==
    s \in Seq(Elems) /\ LinkedBy(nx, pv, s, first) /\ IsInjective(s)

TypeOK ==
    /\ next \in [Places -> Elems \cup {NULL}]
    /\ prev \in [Elems -> Places \cup {NULL}]

\* The inductive invariant: both lists, apart from each other.
Inv ==
    /\ TypeOK
    /\ IsList(next, prev, list, next[HEAD])
    /\ IsList(next, prev, stolen, fl)
    /\ \A i \in DOMAIN list, j \in DOMAIN stolen : list[i] # stolen[j]
    /\ ~away => stolen = <<>>

\* The places that point to and from position j of s.
Before(s, j) == IF j = 1 THEN HEAD ELSE s[j - 1]
At(s, j) == IF j = Len(s) + 1 THEN NULL ELSE s[j]

Inserted(t, s, j, e) ==
    /\ t \in Seq(Elems) /\ Len(t) = Len(s) + 1
    /\ t[j] = e
    /\ \A i \in 1 .. j - 1 : t[i] = s[i]
    /\ \A i \in j + 1 .. Len(s) + 1 : t[i] = s[i - 1]

Removed(t, s, j) ==
    /\ t \in Seq(Elems) /\ Len(t) = Len(s) - 1
    /\ \A i \in 1 .. j - 1 : t[i] = s[i]
    /\ \A i \in j .. Len(s) - 1 : t[i] = s[i + 1]

\* What the macros write: e between p and q, and p joined to q.
Joined(nx, pv, m, w, p, e, q) ==
    /\ m = [nx EXCEPT ![e] = q, ![p] = e]
    /\ w = [SetPrevOf(pv, q, e) EXCEPT ![e] = p]

Skipped(nx, pv, m, w, p, q) ==
    /\ m = [nx EXCEPT ![p] = q]
    /\ w = SetPrevOf(pv, q, p)

Fields(nx, pv) ==
    nx \in [Places -> Elems \cup {NULL}] /\ pv \in [Elems -> Places \cup {NULL}]

\* The same, field by field.
FieldsJoined(nx, pv, m, w, p, e, q) ==
    /\ Fields(m, w)
    /\ m[p] = e /\ m[e] = q /\ w[e] = p
    /\ q # NULL => w[q] = e
    /\ \A x \in Places : x # p /\ x # e => m[x] = nx[x]
    /\ \A x \in Elems : x # q /\ x # e => w[x] = pv[x]

FieldsSkipped(nx, pv, m, w, p, q) ==
    /\ Fields(m, w)
    /\ m[p] = q
    /\ q # NULL => w[q] = p
    /\ \A x \in Places : x # p => m[x] = nx[x]
    /\ \A x \in Elems : x # q => w[x] = pv[x]

-----------------------------------------------------------------------------
\* Linking e between p and q: what each pointer is then.
LEMMA JoinedFields ==
    ASSUME NEW nx, NEW pv, Fields(nx, pv), NEW e \in Elems,
           NEW p \in Places, p # e, NEW q \in Elems \cup {NULL}, q # e,
           NEW m, NEW w, Joined(nx, pv, m, w, p, e, q)
    PROVE  FieldsJoined(nx, pv, m, w, p, e, q)
<1>0. HEAD \notin Elems /\ NULL \notin Elems /\ NULL # HEAD
  BY ElemsAssumption
<1>1. /\ m \in [Places -> Elems \cup {NULL}]
      /\ m[p] = e /\ m[e] = q
      /\ \A x \in Places : x # p /\ x # e => m[x] = nx[x]
  BY DEF Fields, Joined, Places
<1> DEFINE v == SetPrevOf(pv, q, e)
<1>2. /\ v \in [Elems -> Places \cup {NULL}]
      /\ q # NULL => v[q] = e
      /\ \A x \in Elems : x # q => v[x] = pv[x]
  BY DEF Fields, SetPrevOf, Places
<1>3. w = [v EXCEPT ![e] = p]
  BY DEF Joined
<1> HIDE DEF v
<1>4. /\ w \in [Elems -> Places \cup {NULL}]
      /\ w[e] = p
      /\ \A x \in Elems : x # e => w[x] = v[x]
  BY <1>2, <1>3
<1> QED BY <1>0, <1>1, <1>2, <1>4 DEF Fields, FieldsJoined

\* Linking p to q: what each pointer is then.
LEMMA SkippedFields ==
    ASSUME NEW nx, NEW pv, Fields(nx, pv),
           NEW p \in Places, NEW q \in Elems \cup {NULL},
           NEW m, NEW w, Skipped(nx, pv, m, w, p, q)
    PROVE  FieldsSkipped(nx, pv, m, w, p, q)
<1>0. HEAD \notin Elems /\ NULL \notin Elems /\ NULL # HEAD
  BY ElemsAssumption
<1> QED BY <1>0 DEF Fields, Skipped, SetPrevOf, Places, FieldsSkipped

\* The neighbours of a position of a list, and the fields that name them.
LEMMA Neighbours ==
    ASSUME NEW s \in Seq(Elems), NEW j \in 1 .. Len(s) + 1
    PROVE  /\ Before(s, j) \in Places /\ At(s, j) \in Elems \cup {NULL}
           /\ j # 1 => Before(s, j) = s[j - 1] /\ j - 1 \in DOMAIN s
           /\ j = 1 => Before(s, j) = HEAD
           /\ j # Len(s) + 1 => At(s, j) = s[j] /\ j \in DOMAIN s
           /\ j = Len(s) + 1 => At(s, j) = NULL
<1>1. Len(s) \in Nat /\ DOMAIN s = 1 .. Len(s)
  OBVIOUS
<1> QED BY <1>1 DEF Before, At, Places

\* The list that an element is inserted into.
LEMMA InsertLinked ==
    ASSUME NEW nx, NEW pv, Fields(nx, pv), NEW s, IsList(nx, pv, s, nx[HEAD]),
           NEW j \in 1 .. Len(s) + 1, NEW e \in Elems,
           \A i \in DOMAIN s : s[i] # e,
           NEW m, NEW w, Joined(nx, pv, m, w, Before(s, j), e, At(s, j)),
           NEW t, Inserted(t, s, j, e)
    PROVE  Fields(m, w) /\ IsList(m, w, t, m[HEAD])
<1> DEFINE p == Before(s, j)
           q == At(s, j)
<1>0. /\ HEAD \notin Elems /\ NULL \notin Elems /\ NULL # HEAD
      /\ s \in Seq(Elems) /\ Len(s) \in Nat /\ DOMAIN s = 1 .. Len(s)
      /\ IsInjective(s) /\ LinkedBy(nx, pv, s, nx[HEAD])
  BY ElemsAssumption DEF IsList
<1>1. /\ p \in Places /\ q \in Elems \cup {NULL}
      /\ j # 1 => p = s[j - 1] /\ j - 1 \in DOMAIN s
      /\ j = 1 => p = HEAD
      /\ j # Len(s) + 1 => q = s[j] /\ j \in DOMAIN s
      /\ j = Len(s) + 1 => q = NULL
  BY <1>0, Neighbours
<1>2. Joined(nx, pv, m, w, p, e, q)
  OBVIOUS
<1> HIDE DEF p, q
<1>3. p # e /\ q # e
  BY <1>0, <1>1
<1>4. /\ Fields(m, w)
      /\ m[p] = e /\ m[e] = q /\ w[e] = p
      /\ q # NULL => w[q] = e
      /\ \A x \in Places : x # p /\ x # e => m[x] = nx[x]
      /\ \A x \in Elems : x # q /\ x # e => w[x] = pv[x]
  <2>1. FieldsJoined(nx, pv, m, w, p, e, q)
    BY <1>1, <1>2, <1>3, JoinedFields
  <2> QED BY <2>1 DEF FieldsJoined
<1>5. /\ t \in Seq(Elems) /\ Len(t) = Len(s) + 1 /\ t[j] = e
      /\ DOMAIN t = 1 .. Len(s) + 1 /\ j \in DOMAIN t
      /\ \A i \in 1 .. j - 1 : t[i] = s[i]
      /\ \A i \in j + 1 .. Len(s) + 1 : t[i] = s[i - 1]
  BY <1>0 DEF Inserted
<1>6. \A i \in DOMAIN s : s[i] \in Elems /\ s[i] \in Places /\ s[i] # e
  BY <1>0 DEF Places
<1>7. ASSUME NEW i \in DOMAIN t
      PROVE  m[t[i]] = IF i = Len(t) THEN NULL ELSE t[i + 1]
  <2>1. CASE i = j
    BY <1>0, <1>1, <1>4, <1>5, <2>1
  <2>2. CASE i = j - 1
    BY <1>0, <1>1, <1>4, <1>5, <2>2
  <2>3. CASE i < j - 1
    <3>1. i \in DOMAIN s /\ t[i] = s[i] /\ t[i + 1] = s[i + 1] /\ i + 1 \in DOMAIN s
      BY <1>0, <1>5, <2>3
    <3>2. s[i] # p
      BY <1>0, <1>1, <2>3, <3>1 DEF IsInjective
    <3>3. m[s[i]] = nx[s[i]]
      BY <1>4, <1>6, <3>1, <3>2
    <3>4. nx[s[i]] = s[i + 1]
      BY <1>0, <3>1 DEF LinkedBy
    <3> QED BY <1>0, <1>5, <3>1, <3>3, <3>4
  <2>4. CASE i > j
    <3>1. i - 1 \in DOMAIN s /\ t[i] = s[i - 1]
      BY <1>0, <1>5, <2>4
    <3>2. s[i - 1] # p
      BY <1>0, <1>1, <2>4, <3>1 DEF IsInjective
    <3>3. m[s[i - 1]] = nx[s[i - 1]]
      BY <1>4, <1>6, <3>1, <3>2
    <3>4. nx[s[i - 1]] = IF i - 1 = Len(s) THEN NULL ELSE s[i]
      <4>1. (i - 1) + 1 = i
        BY <1>5
      <4> QED BY <1>0, <3>1, <4>1 DEF LinkedBy
    <3>5. i # Len(t) => t[i + 1] = s[i]
      BY <1>0, <1>5, <2>4
    <3> QED BY <1>0, <1>5, <3>1, <3>3, <3>4, <3>5
  <2> QED BY <1>0, <1>5, <2>1, <2>2, <2>3, <2>4
<1>8. ASSUME NEW i \in DOMAIN t
      PROVE  w[t[i]] = IF i = 1 THEN HEAD ELSE t[i - 1]
  <2>1. CASE i = j
    BY <1>0, <1>1, <1>4, <1>5, <2>1
  <2>2. CASE i = j + 1
    BY <1>0, <1>1, <1>4, <1>5, <2>2
  <2>3. CASE i < j
    <3>1. i \in DOMAIN s /\ t[i] = s[i] /\ i # j
      BY <1>0, <1>5, <2>3
    <3>2. s[i] # q
      BY <1>0, <1>1, <3>1 DEF IsInjective
    <3>3. w[s[i]] = pv[s[i]]
      BY <1>4, <1>6, <3>1, <3>2
    <3>4. pv[s[i]] = IF i = 1 THEN HEAD ELSE s[i - 1]
      BY <1>0, <3>1 DEF LinkedBy
    <3>5. i # 1 => t[i - 1] = s[i - 1]
      BY <1>0, <1>5, <2>3
    <3> QED BY <3>1, <3>3, <3>4, <3>5
  <2>4. CASE i > j + 1
    <3>1. i - 1 \in DOMAIN s /\ t[i] = s[i - 1] /\ i - 1 # j /\ t[i - 1] = s[i - 2]
      BY <1>0, <1>5, <2>4
    <3>2. s[i - 1] # q
      BY <1>0, <1>1, <3>1 DEF IsInjective
    <3>3. w[s[i - 1]] = pv[s[i - 1]]
      BY <1>4, <1>6, <3>1, <3>2
    <3>4. pv[s[i - 1]] = s[i - 2]
      <4>1. i - 1 # 1 /\ (i - 1) - 1 = i - 2
        BY <1>0, <2>4
      <4> QED BY <1>0, <3>1, <4>1 DEF LinkedBy
    <3>5. i # 1
      BY <2>4
    <3> QED BY <3>1, <3>3, <3>4, <3>5
  <2> QED BY <1>0, <1>5, <2>1, <2>2, <2>3, <2>4
<1>9. IsInjective(t)
  <2>1. \A i \in DOMAIN t : i = j \/ (i < j /\ i \in DOMAIN s /\ t[i] = s[i])
                                  \/ (i > j /\ i - 1 \in DOMAIN s /\ t[i] = s[i - 1])
    BY <1>0, <1>5
  <2> SUFFICES ASSUME NEW a \in DOMAIN t, NEW b \in DOMAIN t, t[a] = t[b]
               PROVE  a = b
    BY DEF IsInjective
  <2>2. a \in Int /\ b \in Int /\ j \in Int
    BY <1>5
  <2> QED BY <1>0, <1>5, <1>6, <2>1, <2>2 DEF IsInjective
<1>10. m[HEAD] = t[1]
  <2>1. CASE j = 1
    BY <1>1, <1>4, <1>5, <2>1
  <2>2. CASE j # 1
    <3>1. t[1] = s[1] /\ 1 \in DOMAIN s /\ s # <<>>
      BY <1>0, <1>1, <1>5, <2>2
    <3>2. HEAD # p /\ HEAD # e
      BY <1>0, <1>1, <2>2
    <3> QED BY <1>0, <1>4, <3>1, <3>2 DEF LinkedBy, Places
  <2> QED BY <2>1, <2>2
<1>11. t # <<>>
  BY <1>0, <1>5
<1> QED BY <1>4, <1>5, <1>7, <1>8, <1>9, <1>10, <1>11 DEF IsList, LinkedBy

\* The list that an element is removed from.
LEMMA RemoveLinked ==
    ASSUME NEW nx, NEW pv, Fields(nx, pv), NEW s, IsList(nx, pv, s, nx[HEAD]),
           NEW j \in 1 .. Len(s),
           NEW m, NEW w, Skipped(nx, pv, m, w, Before(s, j), At(s, j + 1)),
           NEW t, Removed(t, s, j)
    PROVE  Fields(m, w) /\ IsList(m, w, t, m[HEAD])
<1> DEFINE p == Before(s, j)
           q == At(s, j + 1)
<1>0. /\ HEAD \notin Elems /\ NULL \notin Elems /\ NULL # HEAD
      /\ s \in Seq(Elems) /\ Len(s) \in Nat /\ DOMAIN s = 1 .. Len(s)
      /\ IsInjective(s) /\ LinkedBy(nx, pv, s, nx[HEAD])
      /\ j \in 1 .. Len(s) + 1 /\ j + 1 \in 1 .. Len(s) + 1 /\ j \in DOMAIN s
  BY ElemsAssumption DEF IsList
<1>1. /\ p \in Places /\ q \in Elems \cup {NULL}
      /\ j # 1 => p = s[j - 1] /\ j - 1 \in DOMAIN s
      /\ j = 1 => p = HEAD
      /\ j # Len(s) => q = s[j + 1] /\ j + 1 \in DOMAIN s
      /\ j = Len(s) => q = NULL
  BY <1>0, Neighbours
<1>2. Skipped(nx, pv, m, w, p, q)
  OBVIOUS
<1> HIDE DEF p, q
<1>4. /\ Fields(m, w)
      /\ m[p] = q
      /\ q # NULL => w[q] = p
      /\ \A x \in Places : x # p => m[x] = nx[x]
      /\ \A x \in Elems : x # q => w[x] = pv[x]
  <2>1. FieldsSkipped(nx, pv, m, w, p, q)
    BY <1>1, <1>2, SkippedFields
  <2> QED BY <2>1 DEF FieldsSkipped
<1>5. /\ t \in Seq(Elems) /\ Len(t) = Len(s) - 1
      /\ DOMAIN t = 1 .. Len(s) - 1
      /\ \A i \in 1 .. j - 1 : t[i] = s[i]
      /\ \A i \in j .. Len(s) - 1 : t[i] = s[i + 1]
  BY <1>0 DEF Removed
<1>6. \A i \in DOMAIN s : s[i] \in Elems /\ s[i] \in Places
  BY <1>0 DEF Places
<1>7. ASSUME NEW i \in DOMAIN t
      PROVE  m[t[i]] = IF i = Len(t) THEN NULL ELSE t[i + 1]
  <2>1. CASE i = j - 1
    <3>1. t[i] = p /\ m[t[i]] = q
      BY <1>0, <1>1, <1>4, <1>5, <2>1
    <3>2. i # Len(t) => t[i + 1] = q
      BY <1>0, <1>1, <1>5, <2>1
    <3>3. i = Len(t) => q = NULL
      BY <1>0, <1>1, <1>5, <2>1
    <3> QED BY <3>1, <3>2, <3>3
  <2>2. CASE i < j - 1
    <3>1. i \in DOMAIN s /\ t[i] = s[i] /\ t[i + 1] = s[i + 1] /\ i + 1 \in DOMAIN s
      <4>1. i \in 1 .. j - 1 /\ i + 1 \in 1 .. j - 1
        BY <1>0, <1>5, <2>2
      <4>2. i \in DOMAIN s /\ i + 1 \in DOMAIN s
        BY <1>0, <1>5, <2>2
      <4> QED BY <1>5, <4>1, <4>2
    <3>2. s[i] # p
      BY <1>0, <1>1, <2>2, <3>1 DEF IsInjective
    <3>3. m[s[i]] = nx[s[i]]
      BY <1>4, <1>6, <3>1, <3>2
    <3>4. nx[s[i]] = s[i + 1]
      BY <1>0, <3>1 DEF LinkedBy
    <3> QED BY <1>0, <1>5, <2>2, <3>1, <3>3, <3>4
  <2>3. CASE i >= j
    <3>1. i + 1 \in DOMAIN s /\ t[i] = s[i + 1]
      BY <1>0, <1>5, <2>3
    <3>2. s[i + 1] # p
      BY <1>0, <1>1, <2>3, <3>1 DEF IsInjective
    <3>3. m[s[i + 1]] = nx[s[i + 1]]
      BY <1>4, <1>6, <3>1, <3>2
    <3>4. nx[s[i + 1]] = IF i + 1 = Len(s) THEN NULL ELSE s[i + 2]
      <4>1. (i + 1) + 1 = i + 2
        BY <1>0, <1>5
      <4> QED BY <1>0, <3>1, <4>1 DEF LinkedBy
    <3>5. i # Len(t) => t[i + 1] = s[i + 2]
      <4>1. ASSUME i # Len(t) PROVE i + 1 \in j .. Len(s) - 1 /\ (i + 1) + 1 = i + 2
        BY <1>0, <1>5, <2>3, <4>1
      <4> QED BY <1>5, <4>1
    <3>6. i = Len(t) <=> i + 1 = Len(s)
      BY <1>0, <1>5
    <3> QED BY <3>1, <3>3, <3>4, <3>5, <3>6
  <2> QED BY <1>0, <1>5, <2>1, <2>2, <2>3
<1>8. ASSUME NEW i \in DOMAIN t
      PROVE  w[t[i]] = IF i = 1 THEN HEAD ELSE t[i - 1]
  <2>1. CASE i = j
    <3>1. t[i] = q /\ q # NULL
      BY <1>0, <1>1, <1>5, <2>1
    <3>2. p = IF i = 1 THEN HEAD ELSE t[i - 1]
      BY <1>0, <1>1, <1>5, <2>1
    <3> QED BY <1>4, <3>1, <3>2
  <2>2. CASE i < j
    <3>1. i \in DOMAIN s /\ t[i] = s[i] /\ i # j + 1
      BY <1>0, <1>5, <2>2
    <3>2. s[i] # q
      BY <1>0, <1>1, <3>1 DEF IsInjective
    <3>3. w[s[i]] = pv[s[i]]
      BY <1>4, <1>6, <3>1, <3>2
    <3>4. pv[s[i]] = IF i = 1 THEN HEAD ELSE s[i - 1]
      BY <1>0, <3>1 DEF LinkedBy
    <3>5. i # 1 => t[i - 1] = s[i - 1]
      BY <1>0, <1>5, <2>2
    <3> QED BY <3>1, <3>3, <3>4, <3>5
  <2>3. CASE i > j
    <3>1. i + 1 \in DOMAIN s /\ t[i] = s[i + 1] /\ i + 1 # j + 1 /\ i # 1
          /\ i + 1 # 1 /\ (i + 1) - 1 = i
      BY <1>0, <1>5, <2>3
    <3>2. s[i + 1] # q
      BY <1>0, <1>1, <3>1 DEF IsInjective
    <3>3. w[s[i + 1]] = pv[s[i + 1]]
      BY <1>4, <1>6, <3>1, <3>2
    <3>4. pv[s[i + 1]] = s[i]
      BY <1>0, <3>1 DEF LinkedBy
    <3>5. t[i - 1] = s[i]
      <4>1. i - 1 \in j .. Len(s) - 1 /\ (i - 1) + 1 = i
        BY <1>0, <1>5, <2>3
      <4> QED BY <1>5, <4>1
    <3> QED BY <3>1, <3>3, <3>4, <3>5
  <2> QED BY <1>0, <1>5, <2>1, <2>2, <2>3
<1>9. IsInjective(t)
  <2>1. \A i \in DOMAIN t : \/ i < j /\ i \in DOMAIN s /\ t[i] = s[i]
                            \/ i >= j /\ i + 1 \in DOMAIN s /\ t[i] = s[i + 1]
    BY <1>0, <1>5
  <2> SUFFICES ASSUME NEW a \in DOMAIN t, NEW b \in DOMAIN t, t[a] = t[b]
               PROVE  a = b
    BY DEF IsInjective
  <2>2. a \in Int /\ b \in Int /\ j \in Int
    BY <1>5
  <2> QED BY <1>0, <2>1, <2>2 DEF IsInjective
<1>10. m[HEAD] = IF t = <<>> THEN NULL ELSE t[1]
  <2>1. CASE j = 1
    <3>1. CASE Len(s) = 1
      BY <1>0, <1>1, <1>4, <1>5, <2>1, <3>1
    <3>2. CASE Len(s) # 1
      <4>1. t # <<>> /\ t[1] = s[2]
        BY <1>0, <1>5, <2>1, <3>2
      <4> QED BY <1>0, <1>1, <1>4, <2>1, <3>2, <4>1
    <3> QED BY <3>1, <3>2
  <2>2. CASE j # 1
    <3>1. t[1] = s[1] /\ t # <<>> /\ s # <<>>
      BY <1>0, <1>5, <2>2
    <3>2. HEAD # p
      BY <1>0, <1>1, <2>2
    <3> QED BY <1>0, <1>4, <3>1, <3>2 DEF LinkedBy, Places
  <2> QED BY <2>1, <2>2
<1> QED BY <1>4, <1>5, <1>7, <1>8, <1>9, <1>10 DEF IsList, LinkedBy

\* The other list, on which none of the places written to lies.
LEMMA JoinedElsewhere ==
    ASSUME NEW nx, NEW pv, Fields(nx, pv), NEW u, NEW f, IsList(nx, pv, u, f),
           NEW e \in Elems, NEW p \in Places, p # e,
           NEW q \in Elems \cup {NULL}, q # e,
           NEW m, NEW w, Joined(nx, pv, m, w, p, e, q),
           \A i \in DOMAIN u : u[i] # p /\ u[i] # e /\ u[i] # q
    PROVE  IsList(m, w, u, f)
<1>1. FieldsJoined(nx, pv, m, w, p, e, q)
  BY JoinedFields
<1>2. \A i \in DOMAIN u : u[i] \in Elems /\ u[i] \in Places
  BY DEF IsList, Places
<1>3. \A i \in DOMAIN u : m[u[i]] = nx[u[i]] /\ w[u[i]] = pv[u[i]]
  BY <1>1, <1>2 DEF FieldsJoined
<1> QED BY <1>3 DEF IsList, LinkedBy

\* A removal leaves a list alone that contains neither neighbour.
LEMMA SkippedElsewhere ==
    ASSUME NEW nx, NEW pv, Fields(nx, pv), NEW u, NEW f, IsList(nx, pv, u, f),
           NEW p \in Places, NEW q \in Elems \cup {NULL},
           NEW m, NEW w, Skipped(nx, pv, m, w, p, q),
           \A i \in DOMAIN u : u[i] # p /\ u[i] # q
    PROVE  IsList(m, w, u, f)
<1>1. FieldsSkipped(nx, pv, m, w, p, q)
  BY SkippedFields
<1>2. \A i \in DOMAIN u : u[i] \in Elems /\ u[i] \in Places
  BY DEF IsList, Places
<1>3. \A i \in DOMAIN u : m[u[i]] = nx[u[i]] /\ w[u[i]] = pv[u[i]]
  BY <1>1, <1>2 DEF FieldsSkipped
<1> QED BY <1>3 DEF IsList, LinkedBy

-----------------------------------------------------------------------------
\* The three insertions: e goes to position j of the list.
LEMMA InsertGood ==
    ASSUME Inv, NEW e \in Unlinked, NEW j \in 1 .. Len(list) + 1,
           Joined(next, prev, next', prev', Before(list, j), e, At(list, j)),
           Inserted(list', list, j, e), UNCHANGED <<fl, away, stolen>>
    PROVE  Inv'
<1> DEFINE p == Before(list, j)
           q == At(list, j)
<1>0. /\ HEAD \notin Elems /\ NULL \notin Elems /\ NULL # HEAD
  BY ElemsAssumption
<1>1. /\ e \in Elems
      /\ \A i \in DOMAIN list : list[i] # e
      /\ \A i \in DOMAIN stolen : stolen[i] # e
  BY DEF Unlinked, On, Range
<1>2. /\ Fields(next, prev) /\ IsList(next, prev, list, next[HEAD])
      /\ IsList(next, prev, stolen, fl) /\ list \in Seq(Elems) /\ stolen \in Seq(Elems)
      /\ \A i \in DOMAIN list, l \in DOMAIN stolen : list[i] # stolen[l]
      /\ ~away => stolen = <<>>
  BY DEF Inv, TypeOK, Fields, IsList
<1>3. Fields(next', prev') /\ IsList(next', prev', list', next'[HEAD])
  BY <1>1, <1>2, InsertLinked
<1>4. /\ p \in Places /\ q \in Elems \cup {NULL}
      /\ j # 1 => p = list[j - 1] /\ j - 1 \in DOMAIN list
      /\ j = 1 => p = HEAD
      /\ j # Len(list) + 1 => q = list[j] /\ j \in DOMAIN list
      /\ j = Len(list) + 1 => q = NULL
  BY <1>2, Neighbours
<1>5. Joined(next, prev, next', prev', p, e, q)
  OBVIOUS
<1> HIDE DEF p, q
<1>6. p # e /\ q # e
  BY <1>0, <1>1, <1>4
<1>7. \A i \in DOMAIN stolen : stolen[i] \in Elems
  BY <1>2
<1>8. \A i \in DOMAIN stolen : stolen[i] # p /\ stolen[i] # e /\ stolen[i] # q
  BY <1>0, <1>1, <1>2, <1>4, <1>7
<1>9. IsList(next', prev', stolen, fl)
  BY <1>1, <1>2, <1>4, <1>5, <1>6, <1>8, JoinedElsewhere
<1>10. ASSUME NEW i \in DOMAIN list', NEW l \in DOMAIN stolen
       PROVE  list'[i] # stolen[l]
  <2>1. \/ i = j /\ list'[i] = e
        \/ i \in DOMAIN list /\ list'[i] = list[i]
        \/ i - 1 \in DOMAIN list /\ list'[i] = list[i - 1]
    <3>1. list \in Seq(Elems) /\ list' \in Seq(Elems) /\ Len(list') = Len(list) + 1
      BY <1>2 DEF Inserted
    <3>2. DOMAIN list' = 1 .. Len(list) + 1 /\ DOMAIN list = 1 .. Len(list)
          /\ Len(list) \in Nat
      BY <3>1
    <3>3. i = j \/ i \in 1 .. j - 1 \/ i \in j + 1 .. Len(list) + 1
      BY <3>2
    <3> QED BY <3>2, <3>3 DEF Inserted
  <2> QED BY <1>1, <1>2, <2>1
<1> QED BY <1>2, <1>3, <1>9, <1>10 DEF Inv, TypeOK, Fields

\* The removal of position j.
LEMMA RemoveGood ==
    ASSUME Inv, NEW j \in DOMAIN list,
           Skipped(next, prev, next', prev', Before(list, j), At(list, j + 1)),
           Removed(list', list, j), UNCHANGED <<fl, away, stolen>>
    PROVE  Inv'
<1> DEFINE p == Before(list, j)
           q == At(list, j + 1)
<1>0. /\ HEAD \notin Elems /\ NULL \notin Elems /\ NULL # HEAD
  BY ElemsAssumption
<1>2. /\ Fields(next, prev) /\ IsList(next, prev, list, next[HEAD])
      /\ IsList(next, prev, stolen, fl) /\ list \in Seq(Elems) /\ stolen \in Seq(Elems)
      /\ \A i \in DOMAIN list, l \in DOMAIN stolen : list[i] # stolen[l]
      /\ ~away => stolen = <<>>
  BY DEF Inv, TypeOK, Fields, IsList
<1>1. /\ DOMAIN list = 1 .. Len(list) /\ Len(list) \in Nat /\ j \in 1 .. Len(list)
      /\ j \in 1 .. Len(list) + 1 /\ j + 1 \in 1 .. Len(list) + 1
  BY <1>2
<1>3. Fields(next', prev') /\ IsList(next', prev', list', next'[HEAD])
  BY <1>1, <1>2, RemoveLinked
<1>4. /\ p \in Places /\ q \in Elems \cup {NULL}
      /\ j # 1 => p = list[j - 1] /\ j - 1 \in DOMAIN list
      /\ j = 1 => p = HEAD
      /\ j # Len(list) => q = list[j + 1] /\ j + 1 \in DOMAIN list
      /\ j = Len(list) => q = NULL
  BY <1>1, <1>2, Neighbours
<1>5. Skipped(next, prev, next', prev', p, q)
  OBVIOUS
<1> HIDE DEF p, q
<1>7. \A i \in DOMAIN stolen : stolen[i] \in Elems
  BY <1>2
<1>8. \A i \in DOMAIN stolen : stolen[i] # p /\ stolen[i] # q
  BY <1>0, <1>2, <1>4, <1>7
<1>9. IsList(next', prev', stolen, fl)
  BY <1>2, <1>4, <1>5, <1>8, SkippedElsewhere
<1>10. ASSUME NEW i \in DOMAIN list', NEW l \in DOMAIN stolen
       PROVE  list'[i] # stolen[l]
  <2>1. \/ i \in DOMAIN list /\ list'[i] = list[i]
        \/ i + 1 \in DOMAIN list /\ list'[i] = list[i + 1]
    <3>1. list' \in Seq(Elems) /\ Len(list') = Len(list) - 1
      BY <1>2 DEF Removed
    <3>2. DOMAIN list' = 1 .. Len(list) - 1
      BY <1>1, <3>1
    <3>3. i \in 1 .. j - 1 \/ i \in j .. Len(list) - 1
      BY <1>1, <3>2
    <3>4. i \in DOMAIN list /\ i + 1 \in DOMAIN list
      BY <1>1, <3>2
    <3> QED BY <3>3, <3>4 DEF Removed
  <2> QED BY <1>2, <2>1
<1> QED BY <1>2, <1>3, <1>9, <1>10 DEF Inv, TypeOK, Fields

-----------------------------------------------------------------------------
\* The callers' sequences: what the insertions and the removal make of them.
IsConcat(t, a, b) ==
    /\ t \in Seq(Elems) /\ Len(t) = Len(a) + Len(b)
    /\ \A i \in 1 .. Len(a) : t[i] = a[i]
    /\ \A i \in Len(a) + 1 .. Len(a) + Len(b) : t[i] = b[i - Len(a)]

\* Length and elements of a concatenation.
LEMMA ConcatFacts ==
    ASSUME NEW a \in Seq(Elems), NEW b \in Seq(Elems), NEW t, t = a \o b
    PROVE  IsConcat(t, a, b)
BY ConcatProperties DEF IsConcat

\* Inserting into a sequence, element by element.
LEMMA InsertedSeq ==
    ASSUME NEW s \in Seq(Elems), NEW e \in Elems, NEW j \in 1 .. Len(s) + 1,
           NEW t, t = SubSeq(s, 1, j - 1) \o <<e>> \o SubSeq(s, j, Len(s))
    PROVE  Inserted(t, s, j, e)
<1> DEFINE a == SubSeq(s, 1, j - 1)
           b == SubSeq(s, j, Len(s))
           h == a \o <<e>>
<1>1. Len(s) \in Nat /\ j \in Int /\ \A i \in 1 .. Len(s) : s[i] \in Elems
  OBVIOUS
<1>2. /\ a \in Seq(Elems) /\ Len(a) = j - 1
      /\ \A i \in 1 .. j - 1 : a[i] = s[i]
  <2>1. \A i \in 1 .. j - 1 : s[i] \in Elems
    BY <1>1
  <2>2. /\ a \in Seq(Elems)
        /\ Len(a) = IF 1 <= j - 1 THEN (j - 1) - 1 + 1 ELSE 0
        /\ \A i \in 1 .. (j - 1) - 1 + 1 : a[i] = s[1 + i - 1]
    BY <1>1, <2>1, SubSeqProperties
  <2> HIDE DEF a
  <2> QED BY <1>1, <2>2
<1>3. /\ b \in Seq(Elems) /\ Len(b) = Len(s) - j + 1
      /\ \A i \in 1 .. Len(s) - j + 1 : b[i] = s[j + i - 1]
  <2>1. \A i \in j .. Len(s) : s[i] \in Elems
    BY <1>1
  <2>2. /\ b \in Seq(Elems)
        /\ Len(b) = IF j <= Len(s) THEN Len(s) - j + 1 ELSE 0
        /\ \A i \in 1 .. Len(s) - j + 1 : b[i] = s[j + i - 1]
    BY <1>1, <2>1, SubSeqProperties
  <2> HIDE DEF b
  <2> QED BY <1>1, <2>2
<1>4. t = h \o b
  OBVIOUS
<1> HIDE DEF a, b
<1>5. /\ h \in Seq(Elems) /\ Len(h) = j /\ h[j] = e
      /\ \A i \in 1 .. j - 1 : h[i] = s[i]
  BY <1>1, <1>2
<1> HIDE DEF h
<1>6. /\ t \in Seq(Elems) /\ Len(t) = Len(s) + 1
      /\ \A i \in 1 .. j : t[i] = h[i]
      /\ \A i \in j + 1 .. Len(s) + 1 : t[i] = b[i - j]
  <2>1. /\ t \in Seq(Elems) /\ Len(t) = Len(h) + Len(b)
        /\ \A i \in 1 .. Len(h) : t[i] = h[i]
        /\ \A i \in Len(h) + 1 .. Len(h) + Len(b) : t[i] = b[i - Len(h)]
    <3>1. IsConcat(t, h, b)
      BY <1>3, <1>4, <1>5, ConcatFacts
    <3> QED BY <3>1 DEF IsConcat
  <2>2. Len(h) + Len(b) = Len(s) + 1 /\ Len(h) = j
    BY <1>1, <1>3, <1>5
  <2> QED BY <2>1, <2>2
<1>7. \A i \in 1 .. j - 1 : t[i] = s[i]
  <2>1. \A i \in 1 .. j - 1 : i \in 1 .. j
    BY <1>1
  <2> QED BY <1>5, <1>6, <2>1
<1>8. ASSUME NEW i \in j + 1 .. Len(s) + 1 PROVE t[i] = s[i - 1]
  <2>1. i - j \in 1 .. Len(s) - j + 1 /\ j + (i - j) - 1 = i - 1
    BY <1>1
  <2> QED BY <1>3, <1>6, <2>1
<1>9. t[j] = e
  <2>1. j \in 1 .. j
    BY <1>1
  <2> QED BY <1>5, <1>6, <2>1
<1> QED BY <1>6, <1>7, <1>8, <1>9 DEF Inserted

\* Removing from a sequence, element by element.
LEMMA RemovedSeq ==
    ASSUME NEW s \in Seq(Elems), NEW j \in DOMAIN s,
           NEW t, t = SubSeq(s, 1, j - 1) \o SubSeq(s, j + 1, Len(s))
    PROVE  Removed(t, s, j)
<1> DEFINE a == SubSeq(s, 1, j - 1)
           b == SubSeq(s, j + 1, Len(s))
<1>1. /\ Len(s) \in Nat /\ j \in Int /\ \A i \in 1 .. Len(s) : s[i] \in Elems
      /\ 1 <= j /\ j <= Len(s)
  OBVIOUS
<1>2. /\ a \in Seq(Elems) /\ Len(a) = j - 1
      /\ \A i \in 1 .. j - 1 : a[i] = s[i]
  <2>1. \A i \in 1 .. j - 1 : s[i] \in Elems
    BY <1>1
  <2>2. /\ a \in Seq(Elems)
        /\ Len(a) = IF 1 <= j - 1 THEN (j - 1) - 1 + 1 ELSE 0
        /\ \A i \in 1 .. (j - 1) - 1 + 1 : a[i] = s[1 + i - 1]
    BY <1>1, <2>1, SubSeqProperties
  <2> HIDE DEF a
  <2> QED BY <1>1, <2>2
<1>3. /\ b \in Seq(Elems) /\ Len(b) = Len(s) - j
      /\ \A i \in 1 .. Len(s) - j : b[i] = s[j + i]
  <2>1. \A i \in j + 1 .. Len(s) : s[i] \in Elems
    BY <1>1
  <2>2. /\ b \in Seq(Elems)
        /\ Len(b) = IF j + 1 <= Len(s) THEN Len(s) - (j + 1) + 1 ELSE 0
        /\ \A i \in 1 .. Len(s) - (j + 1) + 1 : b[i] = s[(j + 1) + i - 1]
    BY <1>1, <2>1, SubSeqProperties
  <2> HIDE DEF b
  <2>3. Len(b) = Len(s) - j
    BY <1>1, <2>2
  <2>4. ASSUME NEW i \in 1 .. Len(s) - j PROVE b[i] = s[j + i]
    <3>1. i \in 1 .. Len(s) - (j + 1) + 1 /\ (j + 1) + i - 1 = j + i
      BY <1>1
    <3> QED BY <2>2, <3>1
  <2> QED BY <2>2, <2>3, <2>4
<1>4. t = a \o b
  OBVIOUS
<1> HIDE DEF a, b
<1>5. /\ t \in Seq(Elems) /\ Len(t) = Len(s) - 1
      /\ \A i \in 1 .. j - 1 : t[i] = a[i]
      /\ \A i \in j .. Len(s) - 1 : t[i] = b[i - (j - 1)]
  <2>1. /\ t \in Seq(Elems) /\ Len(t) = Len(a) + Len(b)
        /\ \A i \in 1 .. Len(a) : t[i] = a[i]
        /\ \A i \in Len(a) + 1 .. Len(a) + Len(b) : t[i] = b[i - Len(a)]
    <3>1. IsConcat(t, a, b)
      BY <1>2, <1>3, <1>4, ConcatFacts
    <3> QED BY <3>1 DEF IsConcat
  <2>2. Len(a) + Len(b) = Len(s) - 1 /\ Len(a) = j - 1 /\ Len(a) + 1 = j
    BY <1>1, <1>2, <1>3
  <2> QED BY <2>1, <2>2
<1>6. ASSUME NEW i \in j .. Len(s) - 1 PROVE t[i] = s[i + 1]
  <2>1. i - (j - 1) \in 1 .. Len(s) - j /\ j + (i - (j - 1)) = i + 1
    BY <1>1
  <2> QED BY <1>3, <1>5, <2>1
<1> QED BY <1>1, <1>2, <1>5, <1>6 DEF Removed

-----------------------------------------------------------------------------
\* Inv holds of two empty lists.
LEMMA InitGood == Init => Inv
<1> SUFFICES ASSUME Init PROVE Inv
  OBVIOUS
<1>1. TypeOK /\ next[HEAD] = NULL
  BY DEF Init, TypeOK, Places
<1>2. \A nx, pv : IsList(nx, pv, <<>>, NULL)
  BY DEF IsList, LinkedBy, IsInjective
<1>3. list = <<>> /\ stolen = <<>> /\ fl = NULL
  BY DEF Init
<1> QED BY <1>1, <1>2, <1>3 DEF Inv

\* Every macro, and saving and restoring the head, keeps Inv.
LEMMA NextGood == Inv /\ [Next]_vars => Inv'
<1> SUFFICES ASSUME Inv, [Next]_vars PROVE Inv'
  OBVIOUS
<1>0. /\ HEAD \notin Elems /\ NULL \notin Elems /\ NULL # HEAD
      /\ list \in Seq(Elems) /\ DOMAIN list = 1 .. Len(list) /\ Len(list) \in Nat
      /\ next \in [Places -> Elems \cup {NULL}] /\ prev \in [Elems -> Places \cup {NULL}]
      /\ LinkedBy(next, prev, list, next[HEAD])
  BY ElemsAssumption DEF Inv, IsList, TypeOK
<1>1. ASSUME NEW e \in Elems, InsertHead(e) PROVE Inv'
  <2>1. e \in Unlinked /\ UNCHANGED <<fl, away, stolen>>
    BY <1>1 DEF InsertHead
  <2>2. Before(list, 1) = HEAD /\ At(list, 1) = next[HEAD]
    BY <1>0 DEF Before, At, LinkedBy
  <2>3. Joined(next, prev, next', prev', Before(list, 1), e, At(list, 1))
    BY <1>1, <2>2 DEF InsertHead, LIST_INSERT_HEAD, Joined
  <2>4. 1 \in 1 .. Len(list) + 1
    BY <1>0
  <2>5. Inserted(list', list, 1, e)
    <3>1. /\ <<e>> \o list \in Seq(Elems) /\ Len(<<e>> \o list) = Len(list) + 1
          /\ (<<e>> \o list)[1] = e
          /\ \A i \in 2 .. Len(list) + 1 : (<<e>> \o list)[i] = list[i - 1]
      BY <1>0
    <3>2. list' = <<e>> \o list
      BY <1>1 DEF InsertHead
    <3> QED BY <1>0, <3>1, <3>2 DEF Inserted
  <2> QED BY <2>1, <2>3, <2>4, <2>5, InsertGood
<1>2. ASSUME NEW i \in DOMAIN list, NEW e \in Elems, InsertAfter(i, e) PROVE Inv'
  <2> DEFINE j == i + 1
  <2>1. e \in Unlinked /\ UNCHANGED <<fl, away, stolen>>
    BY <1>2 DEF InsertAfter
  <2>2. Before(list, j) = list[i] /\ At(list, j) = next[list[i]]
    <3>1. next[list[i]] = IF i = Len(list) THEN NULL ELSE list[i + 1]
      BY <1>0 DEF LinkedBy
    <3>2. j # 1 /\ j - 1 = i /\ (j = Len(list) + 1 <=> i = Len(list))
      BY <1>0
    <3> QED BY <3>1, <3>2 DEF Before, At
  <2>3. Joined(next, prev, next', prev', Before(list, j), e, At(list, j))
    BY <1>2, <2>2 DEF InsertAfter, LIST_INSERT_AFTER, Joined
  <2>4. j \in 1 .. Len(list) + 1 /\ j - 1 = i
    BY <1>0
  <2>5. list' = SubSeq(list, 1, j - 1) \o <<e>> \o SubSeq(list, j, Len(list))
    BY <1>2, <2>4 DEF InsertAfter
  <2>6. Inserted(list', list, j, e)
    <3> HIDE DEF j
    <3> QED BY <1>0, <2>4, <2>5, InsertedSeq
  <2> HIDE DEF j
  <2> QED BY <2>1, <2>3, <2>4, <2>6, InsertGood
<1>3. ASSUME NEW i \in DOMAIN list, NEW e \in Elems, InsertBefore(i, e) PROVE Inv'
  <2>1. e \in Unlinked /\ UNCHANGED <<fl, away, stolen>> /\ e # list[i]
    BY <1>3 DEF InsertBefore, Unlinked, On, Range
  <2>2. Before(list, i) = prev[list[i]] /\ At(list, i) = list[i] /\ list[i] \in Elems
    BY <1>0 DEF Before, At, LinkedBy
  <2>3. Joined(next, prev, next', prev', Before(list, i), e, At(list, i))
    <3>1. /\ next' = [next EXCEPT ![e] = list[i], ![prev[list[i]]] = e]
          /\ prev' = [prev EXCEPT ![e] = prev[list[i]], ![list[i]] = e]
      BY <1>3 DEF InsertBefore, LIST_INSERT_BEFORE
    <3> DEFINE l == list[i]
               p == prev[list[i]]
    <3>2. l \in Elems /\ l # e /\ l # NULL
      BY <1>0, <2>1, <2>2
    <3> HIDE DEF l, p
    <3>3. [prev EXCEPT ![e] = p, ![l] = e] = [[prev EXCEPT ![l] = e] EXCEPT ![e] = p]
      BY <1>0, <3>2
    <3>4. prev' = [SetPrevOf(prev, l, e) EXCEPT ![e] = p]
      BY <3>1, <3>2, <3>3 DEF SetPrevOf, l, p
    <3> QED BY <2>2, <3>1, <3>4 DEF Joined, l, p
  <2>4. i \in 1 .. Len(list) + 1
    BY <1>0
  <2>5. list' = SubSeq(list, 1, i - 1) \o <<e>> \o SubSeq(list, i, Len(list))
    BY <1>3 DEF InsertBefore
  <2>6. Inserted(list', list, i, e)
    BY <1>0, <2>4, <2>5, InsertedSeq
  <2> QED BY <2>1, <2>3, <2>4, <2>6, InsertGood
<1>4. ASSUME NEW i \in DOMAIN list, Remove(i) PROVE Inv'
  <2>1. UNCHANGED <<fl, away, stolen>>
    BY <1>4 DEF Remove
  <2>2. Before(list, i) = prev[list[i]] /\ At(list, i + 1) = next[list[i]]
    <3>1. i + 1 = Len(list) + 1 <=> i = Len(list)
      BY <1>0
    <3> QED BY <1>0, <3>1 DEF Before, At, LinkedBy
  <2>3. Skipped(next, prev, next', prev', Before(list, i), At(list, i + 1))
    BY <1>4, <2>2 DEF Remove, LIST_REMOVE, Skipped
  <2>4. list' = SubSeq(list, 1, i - 1) \o SubSeq(list, i + 1, Len(list))
    BY <1>4 DEF Remove
  <2>5. Removed(list', list, i)
    BY <1>0, <2>4, RemovedSeq
  <2> QED BY <2>1, <2>3, <2>5, RemoveGood
<1>5. ASSUME Steal PROVE Inv'
  <2>1. /\ fl' = next[HEAD] /\ next' = [next EXCEPT ![HEAD] = NULL]
        /\ away' = TRUE /\ stolen' = list /\ list' = <<>> /\ prev' = prev
    BY <1>5 DEF Steal
  <2>2. /\ next' \in [Places -> Elems \cup {NULL}] /\ next'[HEAD] = NULL
        /\ \A x \in Elems : next'[x] = next[x]
    BY <1>0, <2>1 DEF Places
  <2>3. IsList(next', prev', stolen', fl')
    <3>1. \A i \in DOMAIN list : list[i] \in Elems
      BY <1>0
    <3>2. \A i \in DOMAIN list : next'[list[i]] = next[list[i]]
      BY <2>2, <3>1
    <3>3. LinkedBy(next', prev, list, next[HEAD])
      BY <1>0, <3>2 DEF LinkedBy
    <3> QED BY <1>0, <2>1, <3>3 DEF Inv, IsList
  <2>4. IsList(next', prev', list', next'[HEAD])
    BY <2>1, <2>2 DEF IsList, LinkedBy, IsInjective
  <2> QED BY <1>0, <2>1, <2>2, <2>3, <2>4 DEF Inv, TypeOK
<1>6. ASSUME GiveBack PROVE Inv'
  <2>1. /\ next' = [next EXCEPT ![HEAD] = fl] /\ fl' = NULL
        /\ stolen' = <<>> /\ list' = stolen /\ prev' = prev
    BY <1>6 DEF GiveBack
  <2>2. IsList(next, prev, stolen, fl)
    BY DEF Inv
  <2>3. fl \in Elems \cup {NULL}
    BY <2>2 DEF IsList, LinkedBy
  <2>4. /\ next' \in [Places -> Elems \cup {NULL}] /\ next'[HEAD] = fl
        /\ \A x \in Elems : next'[x] = next[x]
    BY <1>0, <2>1, <2>3 DEF Places
  <2>5. IsList(next', prev', list', next'[HEAD])
    <3>1. \A i \in DOMAIN stolen : stolen[i] \in Elems
      BY <2>2 DEF IsList
    <3>2. \A i \in DOMAIN stolen : next'[stolen[i]] = next[stolen[i]]
      BY <2>4, <3>1
    <3>3. LinkedBy(next', prev, stolen, fl)
      BY <2>2, <3>2 DEF LinkedBy, IsList
    <3> QED BY <2>1, <2>2, <2>4, <3>3 DEF IsList
  <2>6. IsList(next', prev', stolen', fl')
    BY <2>1 DEF IsList, LinkedBy, IsInjective
  <2> QED BY <1>0, <2>1, <2>4, <2>5, <2>6 DEF Inv, TypeOK
<1>7. CASE UNCHANGED vars
  BY <1>7 DEF vars, Inv, TypeOK
<1> QED BY <1>1, <1>2, <1>3, <1>4, <1>5, <1>6, <1>7 DEF Next

\* The inductive invariant holds throughout, for any set of elements and any
\* sequence of list operations.
THEOREM Invariance == Spec => []Inv
BY InitGood, NextGood, PTL DEF Spec

\* The link fields always spell out the sequence the callers believe in: no
\* insertion or removal leaves a stale le_prev behind, a lost element, or one
\* that is met twice (LIST_INSERT_HEAD, _AFTER, _BEFORE, LIST_REMOVE).
THEOREM RepresentsAlways == Spec => []Represents
<1>1. Inv => Represents
  BY DEF Inv, IsList, LinkedBy, Represents, Linked
<1> QED BY <1>1, Invariance, PTL

\* The list that page_check() has put aside by copying its head stays intact
\* whatever is done to the interim list, although its first le_prev points at
\* the shared head.
THEOREM StolenIntactAlways == Spec => []StolenIntact
<1>1. Inv => StolenIntact
  BY DEF Inv, IsList, LinkedBy, StolenIntact, Linked, On, Range
<1> QED BY <1>1, Invariance, PTL

=============================================================================
