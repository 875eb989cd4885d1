------------------------ MODULE Environments_proofs -------------------------
(*******************************************************************************)
(* The table of environments and the ids of inc/environment_definitions.h,     *)
(* for any number of environments, programs and frames.                        *)
(*                                                                             *)
(* Every operation changes both memory and the table, and IdsIdentify and      *)
(* EndsExplained speak of the table alone.  So the operations are first        *)
(* shown to act on the control part (ids, statuses, the free list, curenv,     *)
(* cr3, userPrograms) in one of a few ways, whatever they do to memory:        *)
(* the lemmas named ...Control.  The memory calls may fail at any point;       *)
(* the failure paths of env_create are the cases of EnvCreateControl.          *)
(*                                                                             *)
(* Neither property is inductive.  Inv adds                                    *)
(*   History       the id of e is e + j * ENVGEN for a generation j, and the   *)
(*                 ids remembered in past are those of the generations before  *)
(*                 j, counted cyclically, fewer than there are.  This is why   *)
(*                 a new id differs from all of them, and why the sum never    *)
(*                 leaves the positive half of the word;                       *)
(*   ListGood      the free list holds the FREE environments, each once;       *)
(*   CurrentGood   curenv is live and its directory is the one in use;         *)
(*   ProgramsGood  userPrograms names a live environment of that program,      *)
(*                 unless env_destroy has freed it (gone): kill may only then  *)
(*                 hit an environment of another program;                      *)
(*   UserGood      a program in user mode runs at its own entry point.         *)
(*                                                                             *)
(* The second half is about memory: that no two environments share a frame,    *)
(* and that no frame is ever lost but in the ways LossReason names.            *)
(*   SpaceGood     one address space: its directory, its tables and its pages  *)
(*                 are distinct frames, each with one reference, none of them  *)
(*                 on the free list;                                           *)
(*   MemGood       the spaces of the live environments are SpaceGood, and      *)
(*                 hold no frame in common;                                    *)
(*   Owned         the frames that are free or held by an environment.         *)
(* The memory manager works on one space at a time.  Keeps and Drops say what  *)
(* a call does to the frames of its space and that it leaves all others alone  *)
(* (Local); KeepsHolds and DropsHolds lift this to the kernel.  Holds(s, L, W) *)
(* (the spaces of L are good, and the frames owned are W) then goes through    *)
(* the statements of env_create with its failure paths, env_free and           *)
(* sys_allocate_page.  The two loops of env_free are folds over a set, and are *)
(* reasoned about by induction over its subsets (SubsetInduction), which       *)
(* follows from the well-foundedness of < on Nat.                              *)
(*******************************************************************************)
EXTENDS Environments, FiniteSetTheorems, SequenceTheorems, TLAPS

\* The id of environment e in its j-th generation.
IdAt(e, j) == e + j * ENVGEN

NextGeneration(j) == IF j = Generations THEN 1 ELSE j + 1

-----------------------------------------------------------------------------
\* Quotient and remainder, as the provers need them.
LEMMA DivMod ==
    ASSUME NEW x \in Int, NEW d \in Nat \ {0}
    PROVE  /\ x = d * (x \div d) + (x % d)
           /\ x % d \in 0 .. d - 1
           /\ x \div d \in Int
OBVIOUS

\* A number determines its quotient and remainder.
LEMMA DivModUnique ==
    ASSUME NEW d \in Nat \ {0}, NEW q \in Int, NEW r \in 0 .. d - 1
    PROVE  /\ (d * q + r) % d = r
           /\ (d * q + r) \div d = q
<1>1. r < d /\ r >= 0 /\ r \in Int
  OBVIOUS
<1> QED BY <1>1

\* Multiplying by a positive number keeps the order.
LEMMA TimesMonotone ==
    ASSUME NEW a \in Int, NEW b \in Int, NEW c \in Nat \ {0}
    PROVE  /\ a < b => a * c < b * c
           /\ a <= b => a * c <= b * c
OBVIOUS

\* How the widths fit together: the ids are split into generations of ENVGEN,
\* of which Generations fit into the positive half of an int32.
LEMMA IdNumbers ==
    /\ NENV \in Nat \ {0} /\ ENVGEN \in Nat \ {0}
    /\ Generations \in Nat \ {0}
    /\ IdModulus \in Nat \ {0}
    /\ IdModulus \div 2 = (Generations + 1) * ENVGEN
    /\ IdModulus = 2 * ((Generations + 1) * ENVGEN)
    /\ NENV <= ENVGEN
    /\ \E q \in Nat \ {0} : ENVGEN = NENV * q
<1> DEFINE q == IdModulus \div (2 * ENVGEN)
<1>1. /\ NENV \in Nat \ {0} /\ ENVGEN \in Nat \ {0} /\ ENVGEN % NENV = 0
      /\ IdModulus \in Nat /\ IdModulus % (2 * ENVGEN) = 0
      /\ IdModulus > 2 * ENVGEN
  BY EnvironmentsAssumption
<1>2. 2 * ENVGEN \in Nat \ {0}
  BY <1>1
<1>3. IdModulus = (2 * ENVGEN) * q /\ q \in Int
  <2> DEFINE d == 2 * ENVGEN
  <2>1. d \in Nat \ {0} /\ IdModulus % d = 0
    BY <1>1, <1>2
  <2> HIDE DEF d
  <2>2. IdModulus = d * (IdModulus \div d) + 0 /\ IdModulus \div d \in Int
    BY <1>1, <2>1, DivMod
  <2>3. IdModulus = d * (IdModulus \div d)
    BY <2>1, <2>2
  <2> QED BY <2>2, <2>3 DEF d
<1> HIDE DEF q
<1>4. q > 1
  <2>1. CASE q <= 1
    <3>1. q * (2 * ENVGEN) <= 1 * (2 * ENVGEN)
      BY <1>2, <1>3, <2>1, TimesMonotone
    <3> QED BY <1>1, <1>3, <3>1
  <2> QED BY <1>3, <2>1
<1>5. IdModulus = 2 * (ENVGEN * q)
  BY <1>1, <1>3
<1>6. IdModulus \div 2 = ENVGEN * q
  <2>1. ENVGEN * q \in Int
    BY <1>1, <1>3
  <2> QED BY <1>5, <2>1
<1>7. (ENVGEN * q + 0) \div ENVGEN = q
  BY <1>1, <1>3, DivModUnique
<1>8. Generations = q - 1
  <2>1. ENVGEN * q + 0 = ENVGEN * q
    BY <1>1, <1>3
  <2> QED BY <1>6, <1>7, <2>1 DEF Generations
<1>9. PICK p \in Int : ENVGEN = NENV * p
  <2>1. ENVGEN = NENV * (ENVGEN \div NENV) + 0 /\ ENVGEN \div NENV \in Int
    BY <1>1, DivMod
  <2>2. NENV * (ENVGEN \div NENV) + 0 = NENV * (ENVGEN \div NENV)
    BY <1>1, <2>1
  <2> QED BY <2>1, <2>2
<1>10. p > 0
  <2>1. CASE p <= 0
    <3>1. p * NENV <= 0 * NENV
      BY <1>1, <1>9, <2>1, TimesMonotone
    <3> QED BY <1>1, <1>9, <3>1
  <2> QED BY <1>9, <2>1
<1>11. NENV <= ENVGEN
  <2>1. 1 * NENV <= p * NENV
    BY <1>1, <1>9, <1>10, TimesMonotone
  <2> QED BY <1>1, <1>9, <2>1
<1>12. Generations + 1 = q
  BY <1>3, <1>8
<1>13. (Generations + 1) * ENVGEN = ENVGEN * q
  BY <1>1, <1>3, <1>12
<1> QED BY <1>1, <1>3, <1>4, <1>5, <1>6, <1>8, <1>9, <1>10, <1>11, <1>13

\* Int32 leaves the positive half alone and wraps the other one.
LEMMA Int32Wraps ==
    ASSUME NEW x \in Int
    PROVE  LET h == (Generations + 1) * ENVGEN
           IN  /\ x \in 0 .. h - 1 => Int32(x) = x
               /\ x \in h .. 2 * h - 1 => Int32(x) = x - 2 * h
<1> DEFINE h == (Generations + 1) * ENVGEN
<1>1. h \in Nat \ {0} /\ IdModulus = 2 * h /\ IdModulus \div 2 = h
  BY IdNumbers
<1> HIDE DEF h
<1>2. Int32(x) = ((x + h) % (2 * h)) - h
  BY <1>1 DEF Int32
<1>3. ASSUME x \in 0 .. h - 1 PROVE Int32(x) = x
  <2>1. ((2 * h) * 0 + (x + h)) % (2 * h) = x + h
    BY <1>1, <1>3, DivModUnique
  <2>2. (2 * h) * 0 + (x + h) = x + h
    BY <1>1
  <2> QED BY <1>1, <1>2, <2>1, <2>2
<1>4. ASSUME x \in h .. 2 * h - 1 PROVE Int32(x) = x - 2 * h
  <2>1. ((2 * h) * 1 + (x - h)) % (2 * h) = x - h
    BY <1>1, <1>4, DivModUnique
  <2>2. (2 * h) * 1 + (x - h) = x + h
    BY <1>1
  <2> QED BY <1>1, <1>2, <2>1, <2>2
<1> QED BY <1>3, <1>4 DEF h

\* An id leads back to its environment, and is positive.
LEMMA IdAtFacts ==
    ASSUME NEW e \in Envs, NEW j \in 1 .. Generations
    PROVE  /\ IdAt(e, j) \in Int /\ IdAt(e, j) > 0
           /\ ENVX(IdAt(e, j)) = e
           /\ \A i \in 1 .. Generations : IdAt(e, i) = IdAt(e, j) => i = j
<1>1. /\ NENV \in Nat \ {0} /\ ENVGEN \in Nat \ {0} /\ Generations \in Nat
      /\ e \in 0 .. NENV - 1 /\ j \in Int
  BY IdNumbers DEF Envs
<1>2. 1 * ENVGEN <= j * ENVGEN /\ j * ENVGEN \in Int
  BY <1>1, TimesMonotone
<1>3. PICK q \in Nat \ {0} : ENVGEN = NENV * q
  BY IdNumbers
<1>4. j * ENVGEN = NENV * (j * q)
  BY <1>1, <1>3
<1>5. (NENV * (j * q) + e) % NENV = e
  <2>1. j * q \in Int
    BY <1>1, <1>3
  <2> QED BY <1>1, <2>1, DivModUnique
<1>6. ASSUME NEW i \in 1 .. Generations, IdAt(e, i) = IdAt(e, j) PROVE i = j
  <2>1. i * ENVGEN = j * ENVGEN
    <3>1. i * ENVGEN \in Int
      BY <1>1
    <3> QED BY <1>1, <1>2, <1>6, <3>1 DEF IdAt
  <2>2. i < j => i * ENVGEN < j * ENVGEN
    BY <1>1, TimesMonotone
  <2>3. j < i => j * ENVGEN < i * ENVGEN
    BY <1>1, TimesMonotone
  <2> QED BY <1>1, <1>2, <2>1, <2>2, <2>3
<1>7. IdAt(e, j) = NENV * (j * q) + e
  BY <1>1, <1>2, <1>4 DEF IdAt
<1>8. IdAt(e, j) > 0 /\ IdAt(e, j) \in Int
  BY <1>1, <1>2 DEF IdAt
<1> QED BY <1>5, <1>6, <1>7, <1>8 DEF ENVX

\* complete_environment_initialization gives the first id, then one after the
\* other, and after the last generation the first again: no id is 0 or
\* negative.
LEMMA NextId ==
    ASSUME NEW e \in Envs
    PROVE  /\ Generation(0) + e = IdAt(e, 1)
           /\ \A j \in 1 .. Generations :
                Generation(IdAt(e, j)) + e = IdAt(e, NextGeneration(j))
<1> DEFINE h == (Generations + 1) * ENVGEN
<1>1. /\ NENV \in Nat \ {0} /\ ENVGEN \in Nat \ {0} /\ Generations \in Nat \ {0}
      /\ e \in 0 .. NENV - 1 /\ NENV <= ENVGEN /\ h \in Nat
  BY IdNumbers DEF Envs
<1>2. PICK q \in Nat \ {0} : ENVGEN = NENV * q
  BY IdNumbers
<1>3. ASSUME NEW i \in 1 .. Generations, NEW r \in 0 .. NENV - 1,
             NEW id, id + ENVGEN = IdAt(r, i)
      PROVE  Generation(id) = IdAt(r, i) - r
  <2> DEFINE x == r + i * ENVGEN
  <2>1. i * ENVGEN \in Int /\ i * ENVGEN >= ENVGEN
    <3>1. 1 * ENVGEN <= i * ENVGEN
      BY <1>1, TimesMonotone
    <3> QED BY <1>1, <3>1
  <2>2. i * ENVGEN + ENVGEN <= h
    <3>1. (i + 1) * ENVGEN <= h
      BY <1>1, TimesMonotone
    <3> QED BY <1>1, <3>1
  <2> HIDE DEF h
  <2>3. x \in 0 .. h - 1
    BY <1>1, <2>1, <2>2
  <2>4. Int32(x) = x
    BY <2>1, <2>3, Int32Wraps DEF h
  <2>5. x % NENV = r
    <3>1. i * q \in Int
      BY <1>1, <1>2
    <3>2. (NENV * (i * q) + r) % NENV = r
      BY <1>1, <3>1, DivModUnique
    <3>3. NENV * (i * q) + r = x
      BY <1>1, <1>2
    <3> QED BY <3>2, <3>3
  <2>6. x - r = i * ENVGEN /\ i * ENVGEN > 0
    BY <1>1, <2>1
  <2> QED BY <1>3, <2>1, <2>4, <2>5, <2>6 DEF Generation, IdAt
<1>4. Generation(0) + e = IdAt(e, 1)
  <2>1. 0 + ENVGEN = IdAt(0, 1) /\ IdAt(0, 1) - 0 = ENVGEN
    BY <1>1 DEF IdAt
  <2>2. 1 \in 1 .. Generations /\ 0 \in 0 .. NENV - 1
    BY <1>1
  <2>3. Generation(0) = ENVGEN
    BY <1>3, <2>1, <2>2
  <2> QED BY <1>1, <2>3 DEF IdAt
<1>5. ASSUME NEW j \in 1 .. Generations, j # Generations
      PROVE  Generation(IdAt(e, j)) + e = IdAt(e, j + 1)
  <2>1. IdAt(e, j) + ENVGEN = IdAt(e, j + 1) /\ IdAt(e, j + 1) \in Int
    BY <1>1 DEF IdAt
  <2>2. j + 1 \in 1 .. Generations
    BY <1>1, <1>5
  <2>3. Generation(IdAt(e, j)) = IdAt(e, j + 1) - e
    BY <1>1, <1>3, <2>1, <2>2
  <2> QED BY <1>1, <2>1, <2>3
<1>6. Generation(IdAt(e, Generations)) + e = IdAt(e, 1)
  <2> DEFINE x == IdAt(e, Generations) + ENVGEN
  <2>1. x = h + e
    BY <1>1 DEF IdAt
  <2>2. h >= ENVGEN
    <3>1. 1 * ENVGEN <= h
      BY <1>1, TimesMonotone
    <3> QED BY <1>1, <3>1
  <2>3. Int32(x) = e - h
    <3> HIDE DEF h
    <3>1. h + e \in h .. 2 * h - 1
      BY <1>1, <2>2
    <3>2. Int32(h + e) = (h + e) - 2 * h
      BY <1>1, <3>1, Int32Wraps DEF h
    <3> QED BY <1>1, <2>1, <3>2
  <2>4. (e - h) % NENV = e
    <3>1. -((Generations + 1) * q) \in Int
      BY <1>1, <1>2
    <3>2. (NENV * (-((Generations + 1) * q)) + e) % NENV = e
      BY <1>1, <3>1, DivModUnique
    <3>3. NENV * (-((Generations + 1) * q)) + e = e - h
      BY <1>1, <1>2
    <3> QED BY <3>2, <3>3
  <2> HIDE DEF h
  <2>5. (e - h) - e <= 0
    BY <1>1
  <2>6. Generation(IdAt(e, Generations)) = ENVGEN
    BY <2>3, <2>4, <2>5 DEF Generation
  <2> QED BY <1>1, <2>6 DEF IdAt
<1> QED BY <1>1, <1>4, <1>5, <1>6 DEF NextGeneration

-----------------------------------------------------------------------------
\* s is a kernel record with a table of environment records; nothing is said
\* of what the fields hold.
IsEnv(r) ==
    r = [env_id |-> r.env_id, env_status |-> r.env_status,
         env_pgdir |-> r.env_pgdir, env_cr3 |-> r.env_cr3, eip |-> r.eip]

IsKernel(s) ==
    s = [m |-> s.m, envs |-> s.envs, list |-> s.list, curenv |-> s.curenv,
         cr3 |-> s.cr3, programs |-> s.programs]

Shaped(s) ==
    /\ IsKernel(s)
    /\ s.envs = [e \in Envs |-> s.envs[e]]
    /\ \A e \in Envs : IsEnv(s.envs[e])

\* Everything but the memory and the page directories is the same in s and t.
SameEnv(t, s, x) ==
    /\ t.envs[x].env_id = s.envs[x].env_id
    /\ t.envs[x].env_status = s.envs[x].env_status
    /\ t.envs[x].env_cr3 = s.envs[x].env_cr3
    /\ t.envs[x].eip = s.envs[x].eip

SameEnvs(t, s) == \A x \in Envs : SameEnv(t, s, x)

SameControl(t, s) ==
    /\ Shaped(t)
    /\ t.list = s.list /\ t.curenv = s.curenv /\ t.cr3 = s.cr3
    /\ t.programs = s.programs
    /\ SameEnvs(t, s)

\* One environment replaced, in a kernel whose other parts may have changed.
Replaced(t, s, e, r) == IsKernel(t) /\ t.envs = [s.envs EXCEPT ![e] = r]

\* Assigning to one Env structure leaves the others alone.
LEMMA ReplaceEnv ==
    ASSUME NEW s, Shaped(s), NEW e \in Envs, NEW r, IsEnv(r),
           NEW t, Replaced(t, s, e, r)
    PROVE  /\ Shaped(t)
           /\ t.envs[e] = r
           /\ \A x \in Envs \ {e} : t.envs[x] = s.envs[x]
<1>1. /\ t.envs[e] = r
      /\ \A x \in Envs \ {e} : t.envs[x] = s.envs[x]
      /\ t.envs = [x \in Envs |-> t.envs[x]]
  BY DEF Shaped, Replaced
<1> QED BY <1>1 DEF Shaped, Replaced

\* Whatever the memory manager did to the directory of e.
LEMMA SetSpaceControl ==
    ASSUME NEW s, Shaped(s), NEW e \in Envs, NEW m
    PROVE  SameControl(SetSpace(s, e, m), s)
<1> DEFINE t == SetSpace(s, e, m)
           o == s.envs[e]
           d == m.directory
           r == [o EXCEPT !.env_pgdir = d]
           n == [m EXCEPT !.directory = s.m.directory]
<1>1. t = [s EXCEPT !.m = n, !.envs = [s.envs EXCEPT ![e] = r]]
  BY Zenon DEF SetSpace
<1>2. IsEnv(o)
  BY DEF Shaped
<1> HIDE DEF t, n, o, d
<1>3. /\ IsEnv(r) /\ r.env_id = o.env_id /\ r.env_status = o.env_status
      /\ r.env_cr3 = o.env_cr3 /\ r.eip = o.eip
  BY <1>2 DEF IsEnv
<1> HIDE DEF r
<1>4. /\ t.list = s.list /\ t.curenv = s.curenv /\ t.cr3 = s.cr3
      /\ t.programs = s.programs /\ Replaced(t, s, e, r)
  <2> DEFINE v == [s.envs EXCEPT ![e] = r]
  <2>1. IsKernel(s) /\ t = [s EXCEPT !.m = n, !.envs = v]
    BY <1>1 DEF Shaped
  <2> HIDE DEF v
  <2>2. /\ t.list = s.list /\ t.curenv = s.curenv /\ t.cr3 = s.cr3
        /\ t.programs = s.programs /\ t.envs = v /\ IsKernel(t)
    BY <2>1 DEF IsKernel
  <2> QED BY <2>2 DEF v, Replaced
<1>5. /\ Shaped(t) /\ t.envs[e] = r
      /\ \A x \in Envs \ {e} : t.envs[x] = s.envs[x]
  BY <1>3, <1>4, ReplaceEnv
<1>6. SameEnvs(t, s)
  BY <1>3, <1>5 DEF SameEnvs, SameEnv, o
<1> QED BY <1>4, <1>5, <1>6 DEF SameControl, t

\* free_environment, after the switch to the kernel's directory.
LEMMA FreeEnvironmentControl ==
    ASSUME NEW s, Shaped(s), NEW e \in Envs,
           NEW t, t = free_environment(lcr3(s, KernelFrame), e)
    PROVE  /\ Shaped(t)
           /\ t.list = <<e>> \o s.list /\ t.curenv = NoEnv
           /\ t.cr3 = KernelFrame /\ t.programs = s.programs
           /\ t.envs[e].env_id = s.envs[e].env_id
           /\ t.envs[e].env_status = "FREE"
           /\ \A x \in Envs \ {e} : SameEnv(t, s, x)
<1> DEFINE u == [s EXCEPT !.cr3 = KernelFrame]
           o == s.envs[e]
           r == [o EXCEPT !.env_status = "FREE"]
           l == <<e>> \o s.list
<1>0. IsKernel(s)
  BY DEF Shaped
<1>1. /\ u.envs = s.envs /\ u.list = s.list /\ u.cr3 = KernelFrame
      /\ u.programs = s.programs
      /\ IsKernel(u)
  BY <1>0 DEF IsKernel
<1> HIDE DEF u
<1>2. t = [u EXCEPT !.curenv = NoEnv, !.list = <<e>> \o u.list,
                    !.envs = [u.envs EXCEPT ![e] = [u.envs[e] EXCEPT !.env_status = "FREE"]]]
  BY Zenon DEF free_environment, lcr3, u
<1>3. t = [u EXCEPT !.curenv = NoEnv, !.list = l,
                    !.envs = [s.envs EXCEPT ![e] = r]]
  BY <1>1, <1>2
<1>4. IsEnv(o)
  BY DEF Shaped
<1> HIDE DEF o, l
<1>5. IsEnv(r) /\ r.env_id = o.env_id /\ r.env_status = "FREE"
  BY <1>4 DEF IsEnv
<1> HIDE DEF r
<1>6. /\ t.list = l /\ t.curenv = NoEnv /\ t.cr3 = KernelFrame
      /\ t.programs = s.programs /\ Replaced(t, s, e, r)
  <2> DEFINE v == [s.envs EXCEPT ![e] = r]
  <2>1. t = [u EXCEPT !.curenv = NoEnv, !.list = l, !.envs = v]
    BY <1>3
  <2> HIDE DEF v
  <2>2. /\ t.list = l /\ t.curenv = NoEnv /\ t.cr3 = KernelFrame
        /\ t.programs = s.programs /\ t.envs = v /\ IsKernel(t)
    BY <1>1, <2>1 DEF IsKernel
  <2> QED BY <2>2 DEF v, Replaced
<1>7. /\ Shaped(t) /\ t.envs[e] = r
      /\ \A x \in Envs \ {e} : t.envs[x] = s.envs[x]
  BY <1>5, <1>6, ReplaceEnv
<1> QED BY <1>5, <1>6, <1>7 DEF l, o, SameEnv

\* env_free, seen from everything but the memory.
Freed(t, s, e) ==
    /\ Shaped(t)
    /\ t.list = <<e>> \o s.list /\ t.curenv = NoEnv /\ t.cr3 = KernelFrame
    /\ t.envs[e].env_id = s.envs[e].env_id
    /\ t.envs[e].env_status = "FREE"
    /\ \A x \in Envs \ {e} : SameEnv(t, s, x)

\* env_free frees e in the table, and leaves userPrograms to its caller.
LEMMA EnvFreeControl ==
    ASSUME NEW s, Shaped(s), NEW e \in Envs, NEW t, t = env_free(s, e)
    PROVE  Freed(t, s, e) /\ t.programs = s.programs
<1> DEFINE u == SetSpace(s, e, EmptySpace(s, e))
<1>1. SameControl(u, s)
  BY SetSpaceControl
<1>2. t = free_environment(lcr3(u, KernelFrame), e)
  BY DEF env_free
<1> HIDE DEF u
<1>3. Shaped(u)
  BY <1>1 DEF SameControl
<1>4. /\ Shaped(t)
      /\ t.list = <<e>> \o u.list /\ t.curenv = NoEnv
      /\ t.cr3 = KernelFrame /\ t.programs = u.programs
      /\ t.envs[e].env_id = u.envs[e].env_id
      /\ t.envs[e].env_status = "FREE"
      /\ \A x \in Envs \ {e} : SameEnv(t, u, x)
  BY <1>2, <1>3, FreeEnvironmentControl
<1> QED BY <1>1, <1>4 DEF SameControl, SameEnvs, SameEnv, Freed

\* An assignment to userPrograms[p].environment.
SetProgram(s, p, x) == [s EXCEPT !.programs[p] = x]

ProgramIsSet(t, s, p, x) ==
    /\ Shaped(t) /\ t.envs = s.envs /\ t.list = s.list
    /\ t.curenv = s.curenv /\ t.cr3 = s.cr3
    /\ t.programs = [s.programs EXCEPT ![p] = x]

\* Assigning the environment of a row of userPrograms changes that row only.
LEMMA ProgramControl ==
    ASSUME NEW s, Shaped(s), NEW p, NEW x
    PROVE  ProgramIsSet(SetProgram(s, p, x), s, p, x)
<1> DEFINE t == SetProgram(s, p, x)
<1> DEFINE q == [s.programs EXCEPT ![p] = x]
<1>0. t = [s EXCEPT !.programs = q]
  BY SMT DEF SetProgram
<1> HIDE DEF t
<1>1. IsKernel(s)
  BY DEF Shaped
<1> HIDE DEF q
<1>2. /\ IsKernel(t) /\ t.envs = s.envs /\ t.list = s.list
      /\ t.curenv = s.curenv /\ t.cr3 = s.cr3 /\ t.programs = q
  BY <1>0, <1>1 DEF IsKernel
<1> QED BY <1>2 DEF Shaped, q, t, ProgramIsSet

\* lcr3 loads cr3; the table stays.
LEMMA Lcr3Control ==
    ASSUME NEW s, Shaped(s), NEW f, NEW t, t = lcr3(s, f)
    PROVE  /\ Shaped(t) /\ t.envs = s.envs /\ t.list = s.list
           /\ t.curenv = s.curenv /\ t.cr3 = f /\ t.programs = s.programs
<1>1. t = [s EXCEPT !.cr3 = f] /\ IsKernel(s)
  BY DEF Shaped, lcr3
<1>2. /\ IsKernel(t) /\ t.envs = s.envs /\ t.list = s.list
      /\ t.curenv = s.curenv /\ t.cr3 = f /\ t.programs = s.programs
  BY <1>1 DEF IsKernel
<1> QED BY <1>2 DEF Shaped

\* The failure paths of env_create.
LEMMA UnloadControl ==
    ASSUME NEW s, Shaped(s), NEW e \in Envs, NEW p,
           NEW t, t = Unload(s, e, p)
    PROVE  Freed(t, s, e) /\ t.programs = [s.programs EXCEPT ![p] = NoEnv]
<1> DEFINE u == env_free(s, e)
<1>1. Freed(u, s, e) /\ u.programs = s.programs
  BY EnvFreeControl
<1>2. t = SetProgram(u, p, NoEnv)
  BY DEF Unload, SetProgram
<1> HIDE DEF u
<1>3. Shaped(u)
  BY <1>1 DEF Freed
<1>4. ProgramIsSet(t, u, p, NoEnv)
  BY <1>2, <1>3, ProgramControl
<1> QED BY <1>1, <1>4 DEF ProgramIsSet, Freed, SameEnv

\* The saved eip of one environment.
SetEip(s, e, v) == [s EXCEPT !.envs[e].eip = v]

\* Saving or setting an eip changes nothing else of the control part.
LEMMA EipControl ==
    ASSUME NEW s, Shaped(s), NEW e \in Envs, NEW v, NEW t, t = SetEip(s, e, v)
    PROVE  /\ Shaped(t) /\ t.list = s.list /\ t.curenv = s.curenv
           /\ t.cr3 = s.cr3 /\ t.programs = s.programs
           /\ t.envs[e].env_id = s.envs[e].env_id
           /\ t.envs[e].env_status = s.envs[e].env_status
           /\ t.envs[e].env_cr3 = s.envs[e].env_cr3
           /\ t.envs[e].eip = v
           /\ \A x \in Envs \ {e} : SameEnv(t, s, x)
<1> DEFINE o == s.envs[e]
           r == [o EXCEPT !.eip = v]
           w == [s.envs EXCEPT ![e] = r]
<1>1. t = [s EXCEPT !.envs = w] /\ IsKernel(s)
  BY Zenon DEF Shaped, SetEip
<1>2. IsEnv(o)
  BY DEF Shaped
<1> HIDE DEF o
<1>3. /\ IsEnv(r) /\ r.env_id = o.env_id /\ r.env_status = o.env_status
      /\ r.env_cr3 = o.env_cr3 /\ r.eip = v
  BY <1>2 DEF IsEnv
<1> HIDE DEF r, w
<1>4. /\ IsKernel(t) /\ t.envs = w /\ t.list = s.list
      /\ t.curenv = s.curenv /\ t.cr3 = s.cr3 /\ t.programs = s.programs
  BY <1>1 DEF IsKernel
<1>5. Replaced(t, s, e, r)
  BY <1>4 DEF Replaced, w
<1>6. /\ Shaped(t) /\ t.envs[e] = r
      /\ \A x \in Envs \ {e} : t.envs[x] = s.envs[x]
  BY <1>3, <1>5, ReplaceEnv
<1> QED BY <1>3, <1>4, <1>6 DEF SameEnv, o

\* s and u differ in the memory, in the directory and the eip of e, and in
\* curenv, cr3 and the programs.
NearlySame(u, s, e) ==
    /\ Shaped(u) /\ u.list = s.list
    /\ u.envs[e].env_id = s.envs[e].env_id
    /\ u.envs[e].env_status = s.envs[e].env_status
    /\ \A x \in Envs \ {e} : SameEnv(u, s, x)

\* Changes that only touch e's own eip and page tables add up, and may be
\* followed by the end of e.
LEMMA NearlySameFacts ==
    ASSUME NEW s, NEW u, NEW t, NEW e \in Envs
    PROVE  /\ SameControl(u, s) => NearlySame(u, s, e)
           /\ NearlySame(u, s, e) /\ NearlySame(t, u, e) => NearlySame(t, s, e)
           /\ NearlySame(u, s, e) /\ Freed(t, u, e) => Freed(t, s, e)
BY DEF SameControl, SameEnvs, SameEnv, NearlySame, Freed

\* What loading a program into e can come to, from the state s in which e is
\* complete: e is free again, or it is ready to run.
Unloaded(t, s, e, p) ==
    /\ Freed(t, s, e)
    /\ t.programs = [s.programs EXCEPT ![p] = NoEnv]

Entered(t, s, e, p, cr3) ==
    /\ NearlySame(t, s, e)
    /\ t.curenv = s.curenv /\ t.cr3 = cr3 /\ t.programs = s.programs
    /\ t.envs[e].env_cr3 = s.envs[e].env_cr3
    /\ t.envs[e].eip = p

Loaded(c, s, e, p, cr3) ==
    \/ c.ok = FALSE /\ Unloaded(c.s, s, e, p)
    \/ c.ok = TRUE /\ Entered(c.s, s, e, p, cr3)

\* Unloading e after such changes is unloading it from the first state.
LEMMA UnloadedFrom ==
    ASSUME NEW s, NEW u, NEW e \in Envs, NEW p, NearlySame(u, s, e),
           u.programs = s.programs
    PROVE  Unloaded(Unload(u, e, p), s, e, p)
<1> DEFINE t == Unload(u, e, p)
<1>1. Shaped(u)
  BY DEF NearlySame
<1>2. Freed(t, u, e) /\ t.programs = [u.programs EXCEPT ![p] = NoEnv]
  BY <1>1, UnloadControl
<1> HIDE DEF t
<1>3. Freed(t, s, e)
  BY <1>2, NearlySameFacts
<1> QED BY <1>2, <1>3 DEF Unloaded, t

\* Steps 9 to 11 of env_create.
LEMMA EnterProgramControl ==
    ASSUME NEW s, Shaped(s), NEW e \in Envs, NEW p, s.programs[p] = e, NEW cr3
    PROVE  Loaded(EnterProgram(s, e, p, cr3), s, e, p, cr3)
<1> DEFINE n == MapNew(allocate_frame(Space(s, e)), StackPage)
           u == set_environment_entry_point(s, p)
           v == SetSpace(u, e, n.mem)
           c == MapStack(u, e, p, n, cr3)
<1>1. EnterProgram(s, e, p, cr3) = c
  BY DEF EnterProgram
<1> HIDE DEF n
<1>2. u = SetEip(s, e, p)
  BY DEF set_environment_entry_point, SetEip
<1> HIDE DEF u
<1>3. /\ Shaped(u) /\ u.list = s.list /\ u.curenv = s.curenv
      /\ u.cr3 = s.cr3 /\ u.programs = s.programs
      /\ u.envs[e].env_id = s.envs[e].env_id
      /\ u.envs[e].env_status = s.envs[e].env_status
      /\ u.envs[e].env_cr3 = s.envs[e].env_cr3
      /\ u.envs[e].eip = p
      /\ \A x \in Envs \ {e} : SameEnv(u, s, x)
  BY <1>2, EipControl
<1>4. NearlySame(u, s, e)
  BY <1>3 DEF NearlySame
<1>5. SameControl(v, u)
  BY <1>3, SetSpaceControl
<1>6. CASE n.ret = E_NO_MEM
  <2>1. c = [ok |-> FALSE, s |-> Unload(v, e, p)]
    BY <1>6 DEF MapStack
  <2> HIDE DEF v, c
  <2>2. NearlySame(v, s, e)
    BY <1>4, <1>5, NearlySameFacts
  <2>3. v.programs = s.programs
    BY <1>3, <1>5 DEF SameControl
  <2>4. Unloaded(Unload(v, e, p), s, e, p)
    BY <2>2, <2>3, UnloadedFrom
  <2> QED BY <1>1, <2>1, <2>4 DEF Loaded, c
<1>7. CASE n.ret # E_NO_MEM
  <2> DEFINE t == lcr3(v, cr3)
  <2>1. c = [ok |-> TRUE, s |-> t]
    BY <1>7 DEF MapStack
  <2> HIDE DEF v, c
  <2>2. Shaped(v)
    BY <1>5 DEF SameControl
  <2>3. /\ Shaped(t) /\ t.envs = v.envs /\ t.list = v.list
        /\ t.curenv = v.curenv /\ t.cr3 = cr3 /\ t.programs = v.programs
    BY <2>2, Lcr3Control
  <2> HIDE DEF t
  <2>4. Entered(t, s, e, p, cr3)
    BY <1>3, <1>5, <2>3
    DEF Entered, NearlySame, SameControl, SameEnvs, SameEnv
  <2> QED BY <1>1, <2>1, <2>4 DEF Loaded, c
<1> QED BY <1>6, <1>7

\* Steps 6 to 11 of env_create.
LEMMA LoadIntoControl ==
    ASSUME NEW s, Shaped(s), NEW e \in Envs, NEW p \in Programs,
           DOMAIN s.programs = Programs, NEW c, c = LoadInto(s, e, p)
    PROVE  \E u : /\ ProgramIsSet(u, s, p, e)
                  /\ Loaded(c, u, e, p, s.cr3)
<1> DEFINE u == SetProgram(s, p, e)
           v == lcr3(u, s.envs[e].env_cr3)
           seg == program_segment_alloc_map(v, e, SegmentPage)
<1>1. ProgramIsSet(u, s, p, e)
  BY ProgramControl
<1>2. c = LoadProgram(seg, e, p, s.cr3)
  BY DEF LoadInto, SetProgram
<1>3. \E m : seg.s = SetSpace(v, e, m)
  BY DEF program_segment_alloc_map
<1> HIDE DEF u, v, seg
<1>4. Shaped(u) /\ u.programs[p] = e
  BY <1>1 DEF ProgramIsSet
<1>5. /\ Shaped(v) /\ v.envs = u.envs /\ v.list = u.list
      /\ v.curenv = u.curenv /\ v.programs = u.programs
  BY <1>4, Lcr3Control DEF v
<1>6. SameControl(seg.s, v)
  BY <1>3, <1>5, SetSpaceControl
<1>7. /\ NearlySame(seg.s, u, e) /\ seg.s.programs = u.programs
      /\ seg.s.curenv = u.curenv /\ seg.s.envs[e].env_cr3 = u.envs[e].env_cr3
  BY <1>5, <1>6 DEF NearlySame, SameControl, SameEnvs, SameEnv
<1>8. Loaded(c, u, e, p, s.cr3)
  <2>1. CASE seg.ret = E_NO_MEM
    <3>1. c = [ok |-> FALSE, s |-> Unload(seg.s, e, p)]
      BY <1>2, <2>1 DEF LoadProgram
    <3>2. Unloaded(Unload(seg.s, e, p), u, e, p)
      BY <1>7, UnloadedFrom
    <3> QED BY <3>1, <3>2 DEF Loaded
  <2>2. CASE seg.ret # E_NO_MEM
    <3>1. c = EnterProgram(seg.s, e, p, s.cr3)
      BY <1>2, <2>2 DEF LoadProgram
    <3>2. Shaped(seg.s) /\ seg.s.programs[p] = e
      BY <1>4, <1>7 DEF NearlySame
    <3>3. Loaded(c, seg.s, e, p, s.cr3)
      BY <3>1, <3>2, EnterProgramControl
    <3>4. CASE c.ok = FALSE /\ Unloaded(c.s, seg.s, e, p)
      BY <1>7, <3>4, NearlySameFacts DEF Unloaded, Loaded
    <3>5. CASE c.ok = TRUE /\ Entered(c.s, seg.s, e, p, s.cr3)
      BY <1>7, <3>5, NearlySameFacts DEF Entered, Loaded
    <3> QED BY <3>3, <3>4, <3>5 DEF Loaded
  <2> QED BY <2>1, <2>2
<1> QED BY <1>1, <1>8

\* The steps of env_create up to complete_environment_initialization.
Completed(t, s, e) ==
    /\ Shaped(t) /\ t.list = LIST_REMOVE(s.list, e)
    /\ t.curenv = s.curenv /\ t.cr3 = s.cr3 /\ t.programs = s.programs
    /\ t.envs[e].env_id = Generation(s.envs[e].env_id) + e
    /\ t.envs[e].env_status = "RUNNABLE"
    /\ \A x \in Envs \ {e} : SameEnv(t, s, x)

\* complete_environment_initialization gives e its next id and its directory.
LEMMA CompleteControl ==
    ASSUME NEW s, Shaped(s), NEW e \in Envs, NEW m, NEW f
    PROVE  Completed(complete_environment_initialization(
                        CreateDirectory([s EXCEPT !.m = m], e, f), e), s, e)
<1> DEFINE a == [s EXCEPT !.m = m]
           b == CreateDirectory(a, e, f)
           t == complete_environment_initialization(b, e)
<1>1. IsKernel(s)
  BY DEF Shaped
<1>2. /\ IsKernel(a) /\ a.envs = s.envs /\ a.list = s.list
      /\ a.curenv = s.curenv /\ a.cr3 = s.cr3 /\ a.programs = s.programs
  BY <1>1 DEF IsKernel
<1>3. Shaped(a)
  BY <1>2 DEF Shaped
<1> HIDE DEF a
<1>4. /\ Shaped(b) /\ b.list = s.list /\ b.curenv = s.curenv
      /\ b.cr3 = s.cr3 /\ b.programs = s.programs
      /\ b.envs[e].env_id = s.envs[e].env_id
      /\ \A x \in Envs \ {e} : SameEnv(b, s, x)
  <2> DEFINE o == a.envs[e]
             d == a.m.directory
             r1 == [o EXCEPT !.env_pgdir = d]
             r == [r1 EXCEPT !.env_cr3 = f]
             w == [a.envs EXCEPT ![e] = r]
             n == [a.m EXCEPT !.references[f] = 1]
  <2>1. b = [a EXCEPT !.m = n, !.envs = w]
    BY Zenon DEF CreateDirectory
  <2>2. IsEnv(o)
    BY <1>3 DEF Shaped
  <2> HIDE DEF o, d, n
  <2>3. IsEnv(r) /\ r.env_id = o.env_id
    <3>1. IsEnv(r1) /\ r1.env_id = o.env_id
      BY <2>2 DEF IsEnv
    <3> HIDE DEF r1
    <3> QED BY <3>1 DEF IsEnv
  <2> HIDE DEF r, w, b
  <2>4. /\ IsKernel(b) /\ b.envs = w /\ b.list = a.list
        /\ b.curenv = a.curenv /\ b.cr3 = a.cr3 /\ b.programs = a.programs
    BY <1>2, <2>1 DEF IsKernel
  <2>5. Replaced(b, a, e, r)
    BY <2>4 DEF Replaced, w
  <2>6. /\ Shaped(b) /\ b.envs[e] = r
        /\ \A x \in Envs \ {e} : b.envs[x] = a.envs[x]
    BY <1>3, <2>3, <2>5, ReplaceEnv
  <2> QED BY <1>2, <2>3, <2>4, <2>6 DEF SameEnv, o
<1> HIDE DEF b
<1>5. /\ Shaped(t) /\ t.list = LIST_REMOVE(b.list, e) /\ t.curenv = b.curenv
      /\ t.cr3 = b.cr3 /\ t.programs = b.programs
      /\ t.envs[e].env_id = Generation(b.envs[e].env_id) + e
      /\ t.envs[e].env_status = "RUNNABLE"
      /\ \A x \in Envs \ {e} : SameEnv(t, b, x)
  <2> DEFINE o == b.envs[e]
             i == Generation(o.env_id) + e
             r1 == [o EXCEPT !.env_id = i]
             r == [r1 EXCEPT !.env_status = "RUNNABLE"]
             w == [b.envs EXCEPT ![e] = r]
             l == LIST_REMOVE(b.list, e)
  <2>1. t = [b EXCEPT !.envs = w, !.list = l]
    BY Zenon DEF complete_environment_initialization
  <2>2. IsEnv(o) /\ IsKernel(b)
    BY <1>4 DEF Shaped
  <2> HIDE DEF o, i, l
  <2>3. IsEnv(r) /\ r.env_id = i /\ r.env_status = "RUNNABLE"
    <3>1. IsEnv(r1) /\ r1.env_id = i
      BY <2>2 DEF IsEnv
    <3> HIDE DEF r1
    <3> QED BY <3>1 DEF IsEnv
  <2> HIDE DEF r, w, t
  <2>4. /\ IsKernel(t) /\ t.envs = w /\ t.list = l
        /\ t.curenv = b.curenv /\ t.cr3 = b.cr3 /\ t.programs = b.programs
    BY <2>1, <2>2 DEF IsKernel
  <2>5. Replaced(t, b, e, r)
    BY <2>4 DEF Replaced, w
  <2>6. /\ Shaped(t) /\ t.envs[e] = r
        /\ \A x \in Envs \ {e} : t.envs[x] = b.envs[x]
    BY <1>4, <2>3, <2>5, ReplaceEnv
  <2> QED BY <2>3, <2>4, <2>6 DEF SameEnv, i, o, l
<1> HIDE DEF t
<1>6. Completed(t, s, e)
  BY <1>4, <1>5 DEF Completed, SameEnv
<1> QED BY <1>6 DEF a, b, t

\* What env_create can come to: nothing happened; the first environment of the
\* list got a new id and is free again; or it got one and is ready to run.
CreateFailed(t, s, e, p) ==
    /\ Shaped(t)
    /\ t.list = <<e>> \o LIST_REMOVE(s.list, e)
    /\ t.curenv = NoEnv /\ t.cr3 = KernelFrame
    /\ t.programs = [s.programs EXCEPT ![p] = NoEnv]
    /\ t.envs[e].env_id = Generation(s.envs[e].env_id) + e
    /\ t.envs[e].env_status = "FREE"
    /\ \A x \in Envs \ {e} : SameEnv(t, s, x)

CreateSucceeded(t, s, e, p) ==
    /\ Shaped(t)
    /\ t.list = LIST_REMOVE(s.list, e)
    /\ t.curenv = s.curenv /\ t.cr3 = s.cr3
    /\ t.programs = [s.programs EXCEPT ![p] = e]
    /\ t.envs[e].env_id = Generation(s.envs[e].env_id) + e
    /\ t.envs[e].env_status = "RUNNABLE"
    /\ t.envs[e].eip = p
    /\ \A x \in Envs \ {e} : SameEnv(t, s, x)

\* env_create: nothing happened, it failed after taking an environment and gave
\* it back, or the program is loaded.
LEMMA EnvCreateControl ==
    ASSUME NEW s, Shaped(s), NEW p \in Programs, DOMAIN s.programs = Programs,
           s.list \in Seq(Envs), NEW c, c = env_create(s, p)
    PROVE  \/ c.ok = FALSE /\ c.s = s
           \/ /\ s.list # <<>> /\ Head(s.list) \in Envs
              /\ \/ c.ok = FALSE /\ CreateFailed(c.s, s, Head(s.list), p)
                 \/ c.ok = TRUE /\ CreateSucceeded(c.s, s, Head(s.list), p)
<1> DEFINE a == allocate_frame(s.m)
           e == Head(s.list)
           t == complete_environment_initialization(
                    CreateDirectory([s EXCEPT !.m = a.mem], e, a.frame), e)
<1>1. CASE allocate_environment(s) = NoEnv \/ a.ret = E_NO_MEM
  <2>1. c = [ok |-> FALSE, s |-> s]
    BY <1>1 DEF env_create
  <2> QED BY <2>1
<1>2. CASE ~(allocate_environment(s) = NoEnv \/ a.ret = E_NO_MEM)
  <2>1. s.list # <<>> /\ allocate_environment(s) = e
    BY <1>2 DEF allocate_environment
  <2>2. e \in Envs
    BY <2>1
  <2>3. c = LoadInto(t, e, p)
    BY <1>2, <2>1 DEF env_create
  <2>4. Completed(t, s, e)
    BY <2>2, CompleteControl
  <2> HIDE DEF a, e, t
  <2>5. PICK u : ProgramIsSet(u, t, p, e) /\ Loaded(c, u, e, p, t.cr3)
    <3>1. Shaped(t) /\ DOMAIN t.programs = Programs
      BY <2>4 DEF Completed
    <3> QED BY <2>2, <2>3, <3>1, LoadIntoControl
  <2>6. /\ u.envs = t.envs /\ u.list = LIST_REMOVE(s.list, e)
        /\ u.curenv = s.curenv
        /\ u.programs = [s.programs EXCEPT ![p] = e]
        /\ t.cr3 = s.cr3
    BY <2>4, <2>5 DEF Completed, ProgramIsSet
  <2>7. /\ u.envs[e].env_id = Generation(s.envs[e].env_id) + e
        /\ u.envs[e].env_status = "RUNNABLE"
        /\ \A x \in Envs \ {e} : SameEnv(u, s, x)
    BY <2>4, <2>6 DEF Completed, SameEnv
  <2>8. CASE c.ok = FALSE /\ Unloaded(c.s, u, e, p)
    <3>1. [u.programs EXCEPT ![p] = NoEnv] = [s.programs EXCEPT ![p] = NoEnv]
      BY <2>6
    <3>2. CreateFailed(c.s, s, e, p)
      BY <2>6, <2>7, <2>8, <3>1 DEF CreateFailed, Unloaded, Freed, SameEnv
    <3> QED BY <2>1, <2>2, <2>8, <3>2 DEF e
  <2>9. CASE c.ok = TRUE /\ Entered(c.s, u, e, p, t.cr3)
    <3>1. CreateSucceeded(c.s, s, e, p)
      BY <2>6, <2>7, <2>9 DEF CreateSucceeded, Entered, NearlySame, SameEnv
    <3> QED BY <2>1, <2>2, <2>9, <3>1 DEF e
  <2> QED BY <2>5, <2>8, <2>9 DEF Loaded
<1> QED BY <1>1, <1>2

\* env_run switches to the directory of e, if e is not the current one.
Running(t, s, e) ==
    /\ Shaped(t) /\ t.envs = s.envs /\ t.list = s.list
    /\ t.programs = s.programs /\ t.curenv = e
    /\ t.cr3 = s.envs[e].env_cr3

\* env_run makes e current and loads its directory.
LEMMA EnvRunControl ==
    ASSUME NEW s, Shaped(s), NEW e, s.curenv # e
    PROVE  Running(env_run(s, e), s, e)
<1> DEFINE u == [s EXCEPT !.curenv = e]
           t == lcr3(u, s.envs[e].env_cr3)
<1>1. IsKernel(s)
  BY DEF Shaped
<1>2. /\ IsKernel(u) /\ u.envs = s.envs /\ u.list = s.list
      /\ u.curenv = e /\ u.programs = s.programs
  BY <1>1 DEF IsKernel
<1>3. Shaped(u)
  BY <1>2 DEF Shaped
<1> HIDE DEF u
<1>4. /\ Shaped(t) /\ t.envs = u.envs /\ t.list = u.list
      /\ t.curenv = u.curenv /\ t.cr3 = s.envs[e].env_cr3
      /\ t.programs = u.programs
  BY <1>3, Lcr3Control
<1>5. env_run(s, e) = t
  BY DEF env_run, u
<1> HIDE DEF t
<1> QED BY <1>2, <1>4, <1>5 DEF Running

-----------------------------------------------------------------------------
\* The free list as a sequence without repetitions.
LEMMA InsertHeadFacts ==
    ASSUME NEW s \in Seq(Envs), NEW f \in Envs, IsInjective(s),
           f \notin Range(s)
    PROVE  /\ <<f>> \o s \in Seq(Envs)
           /\ IsInjective(<<f>> \o s)
           /\ Range(<<f>> \o s) = Range(s) \cup {f}
<1> DEFINE t == <<f>> \o s
<1>1. /\ t \in Seq(Envs) /\ Len(t) = Len(s) + 1 /\ t[1] = f
      /\ \A i \in 1 .. Len(s) : t[i + 1] = s[i]
  OBVIOUS
<1>2. \A i \in DOMAIN t : i = 1 \/ (i - 1 \in DOMAIN s /\ t[i] = s[i - 1])
  BY <1>1
<1>3. IsInjective(t)
  BY <1>1, <1>2 DEF IsInjective, Range
<1>4. Range(t) = Range(s) \cup {f}
  <2>1. Range(t) \subseteq Range(s) \cup {f}
    BY <1>1, <1>2 DEF Range
  <2>2. \A i \in DOMAIN s : i + 1 \in DOMAIN t /\ t[i + 1] = s[i]
    BY <1>1
  <2>3. Range(s) \subseteq Range(t)
    BY <2>2 DEF Range
  <2>4. f \in Range(t)
    BY <1>1 DEF Range
  <2> QED BY <2>1, <2>3, <2>4
<1> QED BY <1>1, <1>3, <1>4

\* LIST_REMOVE of the environment that allocate_environment named.
LEMMA RemoveHeadFacts ==
    ASSUME NEW s \in Seq(Envs), s # <<>>, IsInjective(s),
           NEW t, t = LIST_REMOVE(s, Head(s))
    PROVE  /\ t \in Seq(Envs) /\ IsInjective(t)
           /\ Head(s) \in Envs /\ Head(s) \in Range(s)
           /\ Range(t) = Range(s) \ {Head(s)}
<1> DEFINE i == CHOOSE i \in DOMAIN s : s[i] = Head(s)
<1>1. 1 \in DOMAIN s /\ Head(s) = s[1] /\ s[1] \in Envs /\ Len(s) \in Nat \ {0}
  OBVIOUS
<1>2. i = 1
  <2>1. i \in DOMAIN s /\ s[i] = Head(s)
    BY <1>1
  <2> QED BY <1>1, <2>1 DEF IsInjective
<1>3. t = SubSeq(s, 1, 0) \o SubSeq(s, 2, Len(s))
  <2>1. t = SubSeq(s, 1, i - 1) \o SubSeq(s, i + 1, Len(s))
    BY DEF LIST_REMOVE
  <2> HIDE DEF i
  <2> QED BY <1>2, <2>1
<1> HIDE DEF i
<1>4. /\ t \in Seq(Envs) /\ Len(t) = Len(s) - 1
      /\ \A j \in 1 .. Len(t) : t[j] = s[j + 1]
  <2> DEFINE a == SubSeq(s, 1, 0)
             b == SubSeq(s, 2, Len(s))
  <2>1. a \in Seq(Envs) /\ Len(a) = 0
    BY <1>1
  <2>2. /\ b \in Seq(Envs) /\ Len(b) = Len(s) - 1
        /\ \A j \in 1 .. Len(s) - 1 : b[j] = s[j + 1]
    <3>1. b = Tail(s)
      BY TailIsSubSeq
    <3> HIDE DEF b
    <3>2. b \in Seq(Envs) /\ Len(b) = Len(s) - 1
      BY <3>1, HeadTailProperties
    <3>3. \A j \in 1 .. Len(s) - 1 : b[j] = s[j + 1]
      BY <3>1
    <3> QED BY <3>2, <3>3
  <2> HIDE DEF a, b
  <2>3. t = a \o b
    BY <1>3 DEF a, b
  <2> QED BY <1>1, <2>1, <2>2, <2>3
<1>5. \A j \in DOMAIN t : j + 1 \in DOMAIN s /\ t[j] = s[j + 1] /\ j \in Nat
  BY <1>1, <1>4
<1>6. \A j \in DOMAIN s : j = 1 \/ (j - 1 \in DOMAIN t /\ t[j - 1] = s[j])
  BY <1>1, <1>4
<1>7. IsInjective(t)
  <2> SUFFICES ASSUME NEW a \in DOMAIN t, NEW b \in DOMAIN t, t[a] = t[b]
               PROVE  a = b
    BY DEF IsInjective
  <2>1. a + 1 = b + 1
    BY <1>5 DEF IsInjective
  <2> QED BY <1>5, <2>1
<1>8. Range(t) = Range(s) \ {Head(s)}
  <2>1. ASSUME NEW x \in Range(t) PROVE x \in Range(s) \ {Head(s)}
    <3>1. PICK j \in DOMAIN t : x = t[j]
      BY DEF Range
    <3>2. j + 1 \in DOMAIN s /\ x = s[j + 1] /\ j + 1 # 1
      BY <1>4, <1>5, <3>1
    <3> QED BY <1>1, <3>2 DEF Range, IsInjective
  <2>2. ASSUME NEW x \in Range(s), x # Head(s) PROVE x \in Range(t)
    <3>1. PICK j \in DOMAIN s : x = s[j]
      BY DEF Range
    <3> QED BY <1>1, <1>6, <2>2, <3>1 DEF Range
  <2> QED BY <2>1, <2>2
<1> QED BY <1>1, <1>4, <1>7, <1>8 DEF Range

-----------------------------------------------------------------------------
\* The ids an environment had before are those of the generations before its
\* own, counted cyclically, and fewer than there are generations.
Cyclic(j) == IF j < 1 THEN j + Generations ELSE j

HistoryAt(h, e, j) ==
    /\ h \in Seq(Int) /\ Len(h) < Generations
    /\ \A i \in 1 .. Len(h) : h[Len(h) + 1 - i] = IdAt(e, Cyclic(j - i))

History(id, h, e) ==
    \/ id = 0 /\ h = <<>>
    \/ \E j \in 1 .. Generations : id = IdAt(e, j) /\ HistoryAt(h, e, j)

\* What Remember makes of the history h when the id becomes new.
Remembered(h, old, new) ==
    IF new = old \/ old = 0 THEN h ELSE LastIds(Append(h, old), Generations - 1)

\* The id of the current generation is none of the earlier ones.
LEMMA HistoryExcludes ==
    ASSUME NEW e \in Envs, NEW id, id # 0, NEW h, History(id, h, e)
    PROVE  /\ id \in Int /\ id > 0 /\ ENVX(id) = e
           /\ id \notin Range(h)
<1>1. PICK j \in 1 .. Generations : id = IdAt(e, j) /\ HistoryAt(h, e, j)
  BY DEF History
<1>2. Generations \in Nat \ {0}
  BY IdNumbers
<1>3. ASSUME NEW x \in DOMAIN h, h[x] = id PROVE FALSE
  <2> DEFINE i == Len(h) + 1 - x
             c == Cyclic(j - i)
  <2>1. i \in 1 .. Len(h) /\ x = Len(h) + 1 - i /\ Len(h) < Generations
    BY <1>1 DEF HistoryAt
  <2>2. h[x] = IdAt(e, c)
    <3> HIDE DEF i
    <3> QED BY <1>1, <2>1 DEF HistoryAt
  <2>3. c \in 1 .. Generations /\ c # j
    <3> HIDE DEF i
    <3> QED BY <1>2, <2>1 DEF Cyclic
  <2> HIDE DEF c
  <2>4. c = j
    BY <1>1, <1>3, <2>2, <2>3, IdAtFacts
  <2> QED BY <2>3, <2>4
<1>4. id \in Int /\ id > 0 /\ ENVX(id) = e
  BY <1>1, IdAtFacts
<1> QED BY <1>3, <1>4 DEF Range

\* LastIds, of a sequence that has grown by one.
LEMMA LastIdsFacts ==
    ASSUME NEW h \in Seq(Int), NEW x \in Int, NEW n \in Nat \ {0}, Len(h) <= n,
           NEW t, t = LastIds(Append(h, x), n)
    PROVE  /\ t \in Seq(Int) /\ Len(t) <= n /\ Len(t) >= 1
           /\ t[Len(t)] = x
           /\ \A i \in 2 .. Len(t) : /\ i - 1 \in 1 .. Len(h)
                                     /\ t[Len(t) + 1 - i] = h[Len(h) + 1 - (i - 1)]
<1> DEFINE a == Append(h, x)
<1>1. /\ a \in Seq(Int) /\ Len(a) = Len(h) + 1 /\ a[Len(h) + 1] = x
      /\ \A i \in 1 .. Len(h) : a[i] = h[i]
  OBVIOUS
<1>2. t = LastIds(a, n)
  OBVIOUS
<1> HIDE DEF a
<1>3. CASE Len(a) <= n
  <2>1. t = a
    BY <1>1, <1>2, <1>3 DEF LastIds
  <2>2. ASSUME NEW i \in 2 .. Len(t)
        PROVE  /\ i - 1 \in 1 .. Len(h)
               /\ t[Len(t) + 1 - i] = h[Len(h) + 1 - (i - 1)]
    <3>1. Len(t) = Len(h) + 1 /\ Len(h) \in Nat /\ i \in Int /\ 2 <= i /\ i <= Len(t)
      BY <1>1, <2>1
    <3>2. /\ i - 1 \in 1 .. Len(h) /\ Len(t) + 1 - i \in 1 .. Len(h)
          /\ Len(t) + 1 - i = Len(h) + 1 - (i - 1)
      BY <3>1
    <3> QED BY <1>1, <2>1, <3>2
  <2>3. Len(t) \in Nat /\ Len(t) >= 1 /\ Len(t) <= n /\ t[Len(t)] = x
    BY <1>1, <1>3, <2>1
  <2> QED BY <1>1, <2>1, <2>2, <2>3
<1>4. CASE Len(a) > n
  <2>1. Len(h) = n
    BY <1>1, <1>4
  <2>2. t = SubSeq(a, 2, n + 1)
    <3>1. Len(a) - n + 1 = 2 /\ Len(a) = n + 1
      BY <1>1, <2>1
    <3> QED BY <1>2, <1>4, <3>1 DEF LastIds
  <2>3. /\ t \in Seq(Int) /\ Len(t) = n
        /\ \A i \in 1 .. n : t[i] = a[i + 1]
    BY <1>1, <2>1, <2>2
  <2> QED BY <1>1, <2>1, <2>3
<1> QED BY <1>1, <1>3, <1>4

\* The next id of an environment continues its history.
LEMMA HistoryStep ==
    ASSUME NEW e \in Envs, NEW id, NEW h, History(id, h, e),
           NEW new, new = Generation(id) + e
    PROVE  new # 0 /\ History(new, Remembered(h, id, new), e)
<1>0. Generations \in Nat \ {0}
  BY IdNumbers
<1>1. CASE id = 0 /\ h = <<>>
  <2>1. new = IdAt(e, 1) /\ 1 \in 1 .. Generations
    BY <1>0, <1>1, NextId
  <2>2. HistoryAt(h, e, 1)
    BY <1>0, <1>1 DEF HistoryAt
  <2>3. new # 0
    BY <2>1, IdAtFacts
  <2> QED BY <1>1, <2>1, <2>2, <2>3 DEF History, Remembered
<1>2. CASE \E j \in 1 .. Generations : id = IdAt(e, j) /\ HistoryAt(h, e, j)
  <2>1. PICK j \in 1 .. Generations : id = IdAt(e, j) /\ HistoryAt(h, e, j)
    BY <1>2
  <2> DEFINE g == NextGeneration(j)
  <2>2. new = IdAt(e, g) /\ g \in 1 .. Generations
    BY <1>0, <2>1, NextId DEF NextGeneration
  <2>3. new # 0 /\ id # 0 /\ id \in Int
    BY <2>1, <2>2, IdAtFacts
  <2>4. CASE new = id
    BY <2>1, <2>3, <2>4 DEF History, Remembered
  <2>5. CASE new # id
    <3> DEFINE n == Generations - 1
               t == LastIds(Append(h, id), n)
    <3>1. Generations > 1
      BY <1>0, <2>1, <2>2, <2>5 DEF NextGeneration
    <3>2. n \in Nat \ {0} /\ h \in Seq(Int) /\ Len(h) <= n
      BY <1>0, <2>1, <3>1 DEF HistoryAt
    <3>3. Remembered(h, id, new) = t
      BY <2>3, <2>5 DEF Remembered
    <3> HIDE DEF n, t
    <3>4. /\ t \in Seq(Int) /\ Len(t) <= n /\ Len(t) >= 1
          /\ t[Len(t)] = id
          /\ \A i \in 2 .. Len(t) : /\ i - 1 \in 1 .. Len(h)
                                    /\ t[Len(t) + 1 - i] = h[Len(h) + 1 - (i - 1)]
      BY <2>3, <3>2, LastIdsFacts DEF t
    <3>5. ASSUME NEW i \in 1 .. Len(t)
          PROVE  t[Len(t) + 1 - i] = IdAt(e, Cyclic(g - i))
      <4>1. CASE i = 1
        <5>1. Cyclic(g - 1) = j
          BY <1>0 DEF Cyclic, NextGeneration
        <5>2. Len(t) + 1 - i = Len(t)
          BY <3>4, <4>1
        <5> QED BY <2>1, <3>4, <4>1, <5>1, <5>2
      <4>2. CASE i # 1
        <5>1. i \in 2 .. Len(t) /\ i <= n
          BY <3>2, <3>4, <4>2
        <5>2. Cyclic(g - i) = Cyclic(j - (i - 1))
          BY <1>0, <5>1 DEF Cyclic, NextGeneration, n
        <5>3. i - 1 \in 1 .. Len(h)
          BY <3>4, <5>1
        <5>4. h[Len(h) + 1 - (i - 1)] = IdAt(e, Cyclic(j - (i - 1)))
          BY <2>1, <5>3 DEF HistoryAt
        <5> QED BY <3>4, <5>1, <5>2, <5>4
      <4> QED BY <4>1, <4>2
    <3>6. HistoryAt(t, e, g)
      BY <1>0, <3>2, <3>4, <3>5 DEF HistoryAt, n
    <3> QED BY <2>2, <2>3, <3>3, <3>6 DEF History
  <2> QED BY <2>4, <2>5
<1> QED BY <1>1, <1>2 DEF History

-----------------------------------------------------------------------------
\* The inductive invariant, in parts.

StatusGood(s) == \A e \in Envs : s.envs[e].env_status \in {"FREE", "RUNNABLE"}

ListGood(s) ==
    /\ s.list \in Seq(Envs) /\ IsInjective(s.list)
    /\ Range(s.list) = Envs \ Live(s)

IdsGood(s, h) ==
    /\ h = [e \in Envs |-> h[e]]
    /\ \A e \in Envs : History(s.envs[e].env_id, h[e], e)
    /\ \A e \in Live(s) : s.envs[e].env_id # 0

TableGood(s, h) == Shaped(s) /\ StatusGood(s) /\ ListGood(s) /\ IdsGood(s, h)

\* The current environment and the directory in use.
CurrentGood(s) ==
    /\ s.curenv \in Live(s) \cup {NoEnv}
    /\ s.cr3 = IF s.curenv = NoEnv THEN KernelFrame ELSE s.envs[s.curenv].env_cr3

\* userPrograms names the environments, as long as env_destroy keeps out.
ProgramsGood(s, o, g) ==
    /\ s.programs \in [Programs -> Envs \cup {NoEnv}]
    /\ o = [e \in Envs |-> o[e]]
    /\ \A p \in Programs \ g :
        s.programs[p] # NoEnv => /\ s.programs[p] \in Live(s)
                                 /\ o[s.programs[p]] = p

\* What runs in user mode.
UserGood(s, o) ==
    s.curenv # NoEnv /\ s.envs[s.curenv].eip \in {Inside, o[s.curenv]}

Inv ==
    /\ TableGood(k, past)
    /\ CurrentGood(k)
    /\ ProgramsGood(k, owner, gone)
    /\ mode = "user" => UserGood(k, owner)

-----------------------------------------------------------------------------
\* What each kind of step does to the parts of the invariant.

\* The table stays as it is: every id, every status and the list.
Kept(t, s) ==
    /\ Shaped(t) /\ t.list = s.list
    /\ \A e \in Envs : /\ t.envs[e].env_id = s.envs[e].env_id
                       /\ t.envs[e].env_status = s.envs[e].env_status

\* What Remember makes of all the histories.
Histories(h, s, t) ==
    [e \in Envs |-> Remembered(h[e], s.envs[e].env_id, t.envs[e].env_id)]

\* past, after a step.
LEMMA RememberIs ==
    ASSUME NEW t, Remember(k, t)
    PROVE  past' = Histories(past, k, t)
BY DEF Remember, Histories, Remembered

\* The ids stay good when none changes and no environment comes to life.
LEMMA SameIdsGood ==
    ASSUME NEW s, NEW h, IdsGood(s, h), NEW t, Live(t) \subseteq Live(s),
           \A e \in Envs : t.envs[e].env_id = s.envs[e].env_id
    PROVE  IdsGood(t, h)
<1>1. h = [e \in Envs |-> h[e]]
  BY DEF IdsGood
<1>2. \A e \in Envs : History(t.envs[e].env_id, h[e], e)
  BY DEF IdsGood
<1>3. \A e \in Live(t) : t.envs[e].env_id # 0
  BY DEF IdsGood, Live
<1> QED BY <1>1, <1>2, <1>3 DEF IdsGood

\* A step that keeps ids, statuses and the list keeps the table good.
LEMMA KeptGood ==
    ASSUME NEW s, NEW h, TableGood(s, h), NEW t, Kept(t, s)
    PROVE  /\ TableGood(t, Histories(h, s, t))
           /\ Live(t) = Live(s)
           /\ Histories(h, s, t) = h
<1>1. Live(t) = Live(s)
  BY DEF Kept, Live
<1>2. StatusGood(t)
  BY DEF Kept, TableGood, StatusGood
<1>3. ListGood(t)
  BY <1>1 DEF Kept, TableGood, ListGood
<1>4. Histories(h, s, t) = h
  BY DEF Kept, Histories, Remembered, TableGood, IdsGood
<1>5. IdsGood(t, h)
  <2>1. \A e \in Envs : t.envs[e].env_id = s.envs[e].env_id
    BY DEF Kept
  <2> QED BY <1>1, <2>1, SameIdsGood DEF TableGood
<1> QED BY <1>1, <1>2, <1>3, <1>4, <1>5 DEF TableGood, Kept

\* Freeing a live environment keeps the table good.
LEMMA FreedGood ==
    ASSUME NEW s, NEW h, TableGood(s, h), NEW e \in Live(s),
           NEW t, Freed(t, s, e)
    PROVE  /\ TableGood(t, Histories(h, s, t))
           /\ Live(t) = Live(s) \ {e}
           /\ CurrentGood(t)
<1>0. e \in Envs
  BY DEF Live
<1>1. \A x \in Envs : t.envs[x].env_id = s.envs[x].env_id
  BY DEF Freed, SameEnv
<1>2. \A x \in Envs \ {e} : t.envs[x].env_status = s.envs[x].env_status
  BY DEF Freed, SameEnv
<1>3. t.envs[e].env_status = "FREE"
  BY DEF Freed
<1>4. Live(t) = Live(s) \ {e}
  BY <1>0, <1>2, <1>3 DEF Live
<1>5. StatusGood(t)
  BY <1>0, <1>2, <1>3 DEF TableGood, StatusGood
<1>6. ListGood(t)
  <2>1. s.list \in Seq(Envs) /\ IsInjective(s.list) /\ e \notin Range(s.list)
    BY DEF TableGood, ListGood
  <2>2. /\ <<e>> \o s.list \in Seq(Envs)
        /\ IsInjective(<<e>> \o s.list)
        /\ Range(<<e>> \o s.list) = Range(s.list) \cup {e}
    BY <1>0, <2>1, InsertHeadFacts
  <2>3. t.list = <<e>> \o s.list /\ Range(s.list) = Envs \ Live(s)
    BY DEF Freed, TableGood, ListGood
  <2>4. Range(s.list) \cup {e} = Envs \ Live(t)
    BY <1>0, <1>4, <2>3
  <2> QED BY <2>2, <2>3, <2>4 DEF ListGood
<1>7. Histories(h, s, t) = h
  BY <1>1 DEF Histories, Remembered, TableGood, IdsGood
<1>8. IdsGood(t, h)
  <2>1. Live(t) \subseteq Live(s)
    BY <1>4
  <2> QED BY <1>1, <2>1, SameIdsGood DEF TableGood
<1>9. CurrentGood(t)
  BY DEF Freed, CurrentGood
<1> QED BY <1>4, <1>5, <1>6, <1>7, <1>8, <1>9 DEF TableGood, Freed

\* The id of the environment that was taken off the list.
LEMMA NewIdGood ==
    ASSUME NEW s, NEW h, TableGood(s, h), NEW e \in Envs, NEW t,
           t.envs[e].env_id = Generation(s.envs[e].env_id) + e,
           \A x \in Envs \ {e} : SameEnv(t, s, x)
    PROVE  /\ Histories(h, s, t) = [x \in Envs |-> Histories(h, s, t)[x]]
           /\ \A x \in Envs : History(t.envs[x].env_id, Histories(h, s, t)[x], x)
           /\ t.envs[e].env_id # 0
<1> DEFINE g == Histories(h, s, t)
<1>1. /\ g = [x \in Envs |-> g[x]]
      /\ \A x \in Envs : g[x] = Remembered(h[x], s.envs[x].env_id, t.envs[x].env_id)
  BY DEF Histories
<1> HIDE DEF g
<1>2. \A x \in Envs : History(s.envs[x].env_id, h[x], x)
  BY DEF TableGood, IdsGood
<1>3. t.envs[e].env_id # 0 /\ History(t.envs[e].env_id, g[e], e)
  BY <1>1, <1>2, HistoryStep
<1>4. ASSUME NEW x \in Envs \ {e} PROVE History(t.envs[x].env_id, g[x], x)
  <2>1. t.envs[x].env_id = s.envs[x].env_id
    BY DEF SameEnv
  <2>2. g[x] = h[x]
    BY <1>1, <2>1 DEF Remembered
  <2> QED BY <1>2, <2>1, <2>2
<1> QED BY <1>1, <1>3, <1>4 DEF g

LiveIds(t, s) == \A x \in Live(s) : t.envs[x].env_id = s.envs[x].env_id

\* A failed env_create keeps the table good, and every environment alive.
LEMMA CreateFailedGood ==
    ASSUME NEW s, NEW h, TableGood(s, h), NEW p, s.list # <<>>,
           NEW t, CreateFailed(t, s, Head(s.list), p)
    PROVE  /\ TableGood(t, Histories(h, s, t))
           /\ Live(t) = Live(s)
           /\ CurrentGood(t)
           /\ LiveIds(t, s)
<1> DEFINE e == Head(s.list)
           l == LIST_REMOVE(s.list, e)
<1>0. s.list \in Seq(Envs) /\ IsInjective(s.list)
  BY DEF TableGood, ListGood
<1>1. /\ l \in Seq(Envs) /\ IsInjective(l) /\ e \in Envs /\ e \in Range(s.list)
      /\ Range(l) = Range(s.list) \ {e}
  BY <1>0, RemoveHeadFacts
<1>2. CreateFailed(t, s, e, p)
  OBVIOUS
<1> HIDE DEF e
<1>3. t.list = <<e>> \o l
  BY <1>2 DEF CreateFailed
<1> HIDE DEF l
<1>4. /\ <<e>> \o l \in Seq(Envs) /\ IsInjective(<<e>> \o l)
      /\ Range(<<e>> \o l) = Range(l) \cup {e}
  BY <1>1, InsertHeadFacts
<1>5. e \notin Live(s) /\ Range(s.list) = Envs \ Live(s)
  BY <1>1 DEF TableGood, ListGood
<1>6. \A x \in Envs \ {e} : /\ t.envs[x].env_status = s.envs[x].env_status
                            /\ t.envs[x].env_id = s.envs[x].env_id
  BY <1>2 DEF CreateFailed, SameEnv
<1>7. t.envs[e].env_status = "FREE"
  BY <1>2 DEF CreateFailed
<1>8. Live(t) = Live(s)
  BY <1>1, <1>5, <1>6, <1>7 DEF Live
<1>9. StatusGood(t)
  BY <1>1, <1>6, <1>7 DEF TableGood, StatusGood
<1>10. ListGood(t)
  <2>1. Range(t.list) = Envs \ Live(t)
    BY <1>1, <1>3, <1>4, <1>5, <1>8
  <2> QED BY <1>3, <1>4, <2>1 DEF ListGood
<1>11. IdsGood(t, Histories(h, s, t))
  <2>1. /\ t.envs[e].env_id = Generation(s.envs[e].env_id) + e
        /\ \A x \in Envs \ {e} : SameEnv(t, s, x)
    BY <1>2 DEF CreateFailed
  <2>2. /\ Histories(h, s, t) = [x \in Envs |-> Histories(h, s, t)[x]]
        /\ \A x \in Envs : History(t.envs[x].env_id, Histories(h, s, t)[x], x)
    BY <1>1, <2>1, NewIdGood
  <2>3. \A x \in Live(t) : t.envs[x].env_id # 0
    BY <1>5, <1>6, <1>8 DEF TableGood, IdsGood, Live
  <2> QED BY <2>2, <2>3 DEF IdsGood
<1>12. CurrentGood(t)
  BY <1>2 DEF CreateFailed, CurrentGood
<1>13. LiveIds(t, s)
  BY <1>5, <1>6 DEF Live, LiveIds
<1> QED BY <1>2, <1>8, <1>9, <1>10, <1>11, <1>12, <1>13 DEF TableGood, CreateFailed

\* A successful env_create keeps the table good, and makes one environment live.
LEMMA CreateSucceededGood ==
    ASSUME NEW s, NEW h, TableGood(s, h), NEW p, s.list # <<>>,
           NEW t, CreateSucceeded(t, s, Head(s.list), p)
    PROVE  /\ TableGood(t, Histories(h, s, t))
           /\ Head(s.list) \in Envs \ Live(s)
           /\ Live(t) = Live(s) \cup {Head(s.list)}
           /\ LiveIds(t, s)
<1> DEFINE e == Head(s.list)
           l == LIST_REMOVE(s.list, e)
<1>0. s.list \in Seq(Envs) /\ IsInjective(s.list)
  BY DEF TableGood, ListGood
<1>1. /\ l \in Seq(Envs) /\ IsInjective(l) /\ e \in Envs /\ e \in Range(s.list)
      /\ Range(l) = Range(s.list) \ {e}
  BY <1>0, RemoveHeadFacts
<1>2. CreateSucceeded(t, s, e, p)
  OBVIOUS
<1> SUFFICES /\ TableGood(t, Histories(h, s, t))
             /\ e \in Envs \ Live(s)
             /\ Live(t) = Live(s) \cup {e}
             /\ LiveIds(t, s)
  OBVIOUS
<1> HIDE DEF e
<1>3. t.list = l
  BY <1>2 DEF CreateSucceeded
<1> HIDE DEF l
<1>5. e \notin Live(s) /\ Range(s.list) = Envs \ Live(s)
  BY <1>1 DEF TableGood, ListGood
<1>6. \A x \in Envs \ {e} : /\ t.envs[x].env_status = s.envs[x].env_status
                            /\ t.envs[x].env_id = s.envs[x].env_id
  BY <1>2 DEF CreateSucceeded, SameEnv
<1>7. t.envs[e].env_status = "RUNNABLE"
  BY <1>2 DEF CreateSucceeded
<1>8. Live(t) = Live(s) \cup {e}
  BY <1>1, <1>5, <1>6, <1>7 DEF Live
<1>9. StatusGood(t)
  BY <1>1, <1>6, <1>7 DEF TableGood, StatusGood
<1>10. ListGood(t)
  <2>1. Range(t.list) = Envs \ Live(t)
    BY <1>1, <1>3, <1>5, <1>8
  <2> QED BY <1>1, <1>3, <2>1 DEF ListGood
<1>11. IdsGood(t, Histories(h, s, t))
  <2>1. /\ t.envs[e].env_id = Generation(s.envs[e].env_id) + e
        /\ \A x \in Envs \ {e} : SameEnv(t, s, x)
    BY <1>2 DEF CreateSucceeded
  <2>2. /\ Histories(h, s, t) = [x \in Envs |-> Histories(h, s, t)[x]]
        /\ \A x \in Envs : History(t.envs[x].env_id, Histories(h, s, t)[x], x)
        /\ t.envs[e].env_id # 0
    BY <1>1, <2>1, NewIdGood
  <2>3. \A x \in Live(t) : t.envs[x].env_id # 0
    BY <1>5, <1>6, <1>8, <2>2 DEF TableGood, IdsGood, Live
  <2> QED BY <2>2, <2>3 DEF IdsGood
<1>12. LiveIds(t, s)
  BY <1>5, <1>6 DEF Live, LiveIds
<1> QED BY <1>1, <1>2, <1>5, <1>8, <1>9, <1>10, <1>11, <1>12 DEF TableGood, CreateSucceeded

-----------------------------------------------------------------------------
\* The steps.

\* No live environment ended or changed its id.
LiveKept(t, s) ==
    \A e \in Live(s) : e \in Live(t) /\ t.envs[e].env_id = s.envs[e].env_id

\* A step that ends no environment, and takes none out of userPrograms.
Unended == LiveKept(k', k) /\ k'.programs = k.programs

\* What a trap leaves of the state before it, when it is to return.
Resumable(t, s) ==
    /\ Kept(t, s)
    /\ t.curenv = s.curenv /\ t.cr3 = s.cr3 /\ t.programs = s.programs
    /\ \A x \in Envs : t.envs[x].env_cr3 = s.envs[x].env_cr3
    /\ t.envs[s.curenv].eip = Inside

\* In user mode there is a current environment, and it is live.
LEMMA CurrentIsLive ==
    ASSUME Inv, mode = "user"
    PROVE  k.curenv \in Live(k) /\ k.curenv \in Envs /\ k.curenv # NoEnv
BY DEF Inv, CurrentGood, UserGood, Live

\* trap() copies the trap frame into the current environment, and no more.
LEMMA TrappedControl ==
    ASSUME Inv, mode = "user"
    PROVE  /\ Shaped(Trapped)
           /\ NearlySame(Trapped, k, k.curenv)
           /\ Resumable(Trapped, k)
<1>1. k.curenv \in Envs /\ Shaped(k)
  BY CurrentIsLive DEF Inv, TableGood
<1> DEFINE e == k.curenv
           t == Trapped
<1>2. t = SetEip(k, e, Inside)
  BY DEF Trapped, SetEip
<1> HIDE DEF t
<1>3. /\ Shaped(t) /\ t.list = k.list /\ t.curenv = k.curenv
      /\ t.cr3 = k.cr3 /\ t.programs = k.programs
      /\ t.envs[e].env_id = k.envs[e].env_id
      /\ t.envs[e].env_status = k.envs[e].env_status
      /\ t.envs[e].env_cr3 = k.envs[e].env_cr3
      /\ t.envs[e].eip = Inside
      /\ \A x \in Envs \ {e} : SameEnv(t, k, x)
  BY <1>1, <1>2, EipControl
<1>4. NearlySame(t, k, e)
  BY <1>3 DEF NearlySame
<1>5. Resumable(t, k)
  BY <1>3 DEF Resumable, Kept, SameEnv
<1> QED BY <1>3, <1>4, <1>5 DEF t

\* The table and the histories after a step to t.
LEMMA StepTable ==
    ASSUME NEW t, NEW md, NEW what, Step(t, md, what),
           TableGood(t, Histories(past, k, t))
    PROVE  k' = t /\ mode' = md /\ last' = what /\ TableGood(k', past')
<1>1. k' = t /\ mode' = md /\ last' = what /\ Remember(k, t)
  BY DEF Step
<1>2. past' = Histories(past, k, t)
  BY <1>1, RememberIs
<1> QED BY <1>1, <1>2

\* A trap that returns, or that ends in a prompt with the environment current.
LEMMA ResumeGood ==
    ASSUME Inv, mode = "user", NEW t, Resumable(t, k),
           NEW md, NEW what, Step(t, md, what), UNCHANGED <<owner, gone>>
    PROVE  Inv' /\ Unended /\ mode' = md /\ last' = what
<1>1. TableGood(k, past) /\ Kept(t, k)
  BY DEF Inv, Resumable
<1>2. TableGood(t, Histories(past, k, t)) /\ Live(t) = Live(k)
  BY <1>1, KeptGood
<1>3. k' = t /\ mode' = md /\ last' = what /\ TableGood(k', past')
  BY <1>2, StepTable
<1>4. CurrentGood(t)
  BY <1>2 DEF Inv, CurrentGood, Resumable, Live
<1>5. ProgramsGood(t, owner, gone)
  BY <1>2 DEF Inv, ProgramsGood, Resumable
<1>6. UserGood(t, owner)
  BY CurrentIsLive DEF Resumable, UserGood
<1>7. LiveKept(t, k)
  BY <1>1, <1>2 DEF LiveKept, Kept, Live
<1>8. owner' = owner /\ gone' = gone /\ t.programs = k.programs
  BY DEF Resumable
<1> QED BY <1>3, <1>4, <1>5, <1>6, <1>7, <1>8 DEF Inv, Unended

\* An environment ended: userPrograms either forgets it, or is no longer to
\* be trusted about it.
ProgramsOf(s, e) == {p \in Programs : s.programs[p] = e}

\* After e has ended, its rows of userPrograms are those that may be stale.
LEMMA EndedPrograms ==
    ASSUME NEW s, NEW o, NEW g, ProgramsGood(s, o, g), NEW e, NEW t,
           Live(t) = Live(s) \ {e}, t.programs = s.programs,
           NEW f, f = g \cup ProgramsOf(s, e)
    PROVE  ProgramsGood(t, o, f)
BY DEF ProgramsGood, ProgramsOf

\* What env_destroy is handed: the kernel with the registers saved, when the
\* trap came from user mode, or as it is, when it came from the kernel.
Handed(s) == s = k \/ (mode = "user" /\ s = Trapped)

\* Either way nothing has changed but the registers of the current environment.
LEMMA HandedControl ==
    ASSUME Inv, k.curenv \in Live(k), NEW s, Handed(s)
    PROVE  Shaped(s) /\ NearlySame(s, k, k.curenv) /\ s.programs = k.programs
<1>1. CASE s = k
  <2>1. Shaped(k) /\ k.curenv \in Envs
    BY DEF Inv, TableGood, Live
  <2> QED BY <1>1, <2>1 DEF NearlySame, SameEnv
<1>2. CASE mode = "user" /\ s = Trapped
  BY <1>2, TrappedControl DEF Resumable
<1> QED BY <1>1, <1>2 DEF Handed

\* env_destroy of the current environment keeps Inv, ends no other, and leaves
\* userPrograms as it was.
LEMMA DestroyGood ==
    ASSUME Inv, k.curenv \in Live(k), NEW s, Handed(s),
           NEW what, env_destroy(s, k.curenv, what)
    PROVE  /\ Inv' /\ mode' = "prompt" /\ last' = what
           /\ k'.programs = k.programs
           /\ \A e \in Live(k) \ {k.curenv} :
                e \in Live(k') /\ k'.envs[e].env_id = k.envs[e].env_id
<1> DEFINE e == k.curenv
           t == env_free(s, e)
<1>1. e \in Live(k) /\ e \in Envs
  BY DEF Live
<1>2. /\ Shaped(s) /\ NearlySame(s, k, e) /\ s.programs = k.programs
  BY HandedControl
<1>3. Freed(t, s, e) /\ t.programs = s.programs
  BY <1>1, <1>2, EnvFreeControl
<1>4. Freed(t, k, e)
  BY <1>1, <1>2, <1>3, NearlySameFacts
<1>5. /\ Step(t, "prompt", what) /\ owner' = owner
      /\ gone' = gone \cup ProgramsOf(k, e)
  BY DEF env_destroy, ProgramsOf
<1> HIDE DEF t
<1>6. TableGood(k, past)
  BY DEF Inv
<1>7. /\ TableGood(t, Histories(past, k, t)) /\ Live(t) = Live(k) \ {e}
      /\ CurrentGood(t)
  BY <1>1, <1>4, <1>6, FreedGood
<1>8. k' = t /\ mode' = "prompt" /\ last' = what /\ TableGood(k', past')
  BY <1>5, <1>7, StepTable
<1>9. ProgramsGood(t, owner, gone') /\ t.programs = k.programs
  <2>1. ProgramsGood(k, owner, gone) /\ t.programs = k.programs
    BY <1>2, <1>3 DEF Inv
  <2> QED BY <1>5, <1>7, <2>1, EndedPrograms
<1>10. \A x \in Live(k) \ {e} : x \in Live(t) /\ t.envs[x].env_id = k.envs[x].env_id
  BY <1>4, <1>7 DEF Freed, SameEnv, Live
<1> QED BY <1>5, <1>7, <1>8, <1>9, <1>10 DEF Inv

\* With checkperm a program can name no environment but its own, for no id of
\* a live environment is 0.
LEMMA OwnEnvironmentOnly ==
    ASSUME Inv, mode = "user", NEW id
    PROVE  /\ envid2env(k, id) \in {k.curenv, NoEnv}
           /\ envid2env(k, id) = NoEnv => id \notin {0, k.envs[k.curenv].env_id}
<1> DEFINE c == k.curenv
           own == k.envs[c].env_id
<1>1. c \in Live(k) /\ c \in Envs /\ c # NoEnv
  BY CurrentIsLive
<1>2. own # 0 /\ History(own, past[c], c)
  BY <1>1 DEF Inv, TableGood, IdsGood
<1>3. own \in Int /\ own > 0 /\ ENVX(own) = c
  <2> HIDE DEF own, c
  <2> QED BY <1>1, <1>2, HistoryExcludes
<1>4. envid2env(k, 0) = c
  BY DEF envid2env
<1>5. k.envs[c].env_status # "FREE"
  BY <1>1 DEF Live
<1>6. envid2env(k, own) = c
  BY <1>2, <1>3, <1>5 DEF envid2env
<1>7. envid2env(k, id) \in {c, NoEnv}
  BY <1>2 DEF envid2env
<1> QED BY <1>1, <1>4, <1>6, <1>7

\* The entry point that env_run_cmd_prmpt saves, in whichever environment.
LEMMA EipAnywhere ==
    ASSUME NEW s, Shaped(s), NEW e, NEW v, NEW t, t = SetEip(s, e, v)
    PROVE  Kept(t, s) /\ t.programs = s.programs
<1>1. CASE e \in Envs
  <2>1. /\ Shaped(t) /\ t.list = s.list /\ t.programs = s.programs
        /\ t.envs[e].env_id = s.envs[e].env_id
        /\ t.envs[e].env_status = s.envs[e].env_status
        /\ \A x \in Envs \ {e} : SameEnv(t, s, x)
    BY <1>1, EipControl
  <2> QED BY <2>1 DEF Kept, SameEnv
<1>2. CASE e \notin Envs
  <2> DEFINE o == s.envs[e]
             r == [o EXCEPT !.eip = v]
             w == [s.envs EXCEPT ![e] = r]
  <2>1. t = [s EXCEPT !.envs = w] /\ IsKernel(s)
    BY Zenon DEF Shaped, SetEip
  <2> HIDE DEF r
  <2>2. w = s.envs
    BY <1>2 DEF Shaped
  <2> HIDE DEF w
  <2>3. /\ IsKernel(t) /\ t.envs = w /\ t.list = s.list /\ t.programs = s.programs
    BY <2>1 DEF IsKernel
  <2>4. Shaped(t)
    BY <2>2, <2>3 DEF Shaped
  <2> QED BY <2>2, <2>3, <2>4 DEF Kept
<1> QED BY <1>1, <1>2

\* env_run_cmd_prmpt leaves no environment current, and the kernel's directory.
LEMMA SleepControl ==
    ASSUME NEW s, Shaped(s), NEW t, t = env_run_cmd_prmpt(s)
    PROVE  /\ Kept(t, s) /\ t.programs = s.programs
           /\ t.curenv = NoEnv /\ t.cr3 = KernelFrame
<1> DEFINE p == Min({q \in Programs : s.programs[q] = s.curenv})
           u == set_environment_entry_point(s, p)
           v == lcr3(u, KernelFrame)
<1>1. t = [v EXCEPT !.curenv = NoEnv]
  BY DEF env_run_cmd_prmpt
<1> HIDE DEF p
<1>2. u = SetEip(s, s.programs[p], p)
  BY DEF set_environment_entry_point, SetEip
<1> HIDE DEF u
<1>3. Kept(u, s) /\ u.programs = s.programs
  BY <1>2, EipAnywhere
<1>4. Shaped(u)
  BY <1>3 DEF Kept
<1>5. /\ Shaped(v) /\ v.envs = u.envs /\ v.list = u.list
      /\ v.cr3 = KernelFrame /\ v.programs = u.programs
  BY <1>4, Lcr3Control
<1>6. IsKernel(v)
  BY <1>5 DEF Shaped
<1> HIDE DEF v
<1>7. /\ IsKernel(t) /\ t.envs = v.envs /\ t.list = v.list
      /\ t.cr3 = v.cr3 /\ t.programs = v.programs /\ t.curenv = NoEnv
  BY <1>1, <1>6 DEF IsKernel
<1>8. Shaped(t)
  BY <1>5, <1>7 DEF Shaped
<1> QED BY <1>3, <1>5, <1>7, <1>8 DEF Kept

\* sys_env_sleep keeps Inv and every environment.
LEMMA SleepGood ==
    ASSUME Inv, sys_env_sleep
    PROVE  Inv' /\ Unended /\ mode' = "prompt"
<1> DEFINE t == env_run_cmd_prmpt(Trapped)
<1>1. mode = "user" /\ Step(t, "prompt", [op |-> "sleep"])
      /\ owner' = owner /\ gone' = gone
  BY DEF sys_env_sleep
<1>2. Shaped(Trapped) /\ Kept(Trapped, k) /\ Trapped.programs = k.programs
  BY <1>1, TrappedControl DEF Resumable
<1>3. /\ Kept(t, Trapped) /\ t.programs = Trapped.programs
      /\ t.curenv = NoEnv /\ t.cr3 = KernelFrame
  BY <1>2, SleepControl
<1> HIDE DEF t
<1>4. Kept(t, k) /\ t.programs = k.programs
  BY <1>2, <1>3 DEF Kept
<1>5. TableGood(k, past)
  BY DEF Inv
<1>6. TableGood(t, Histories(past, k, t)) /\ Live(t) = Live(k)
  BY <1>4, <1>5, KeptGood
<1>7. k' = t /\ mode' = "prompt" /\ TableGood(k', past')
  BY <1>1, <1>6, StepTable
<1>8. CurrentGood(t)
  BY <1>3 DEF CurrentGood
<1>9. ProgramsGood(t, owner, gone)
  BY <1>4, <1>6 DEF Inv, ProgramsGood
<1>10. LiveKept(t, k)
  BY <1>4, <1>6 DEF LiveKept, Kept, Live
<1> QED BY <1>1, <1>4, <1>7, <1>8, <1>9, <1>10 DEF Inv, Unended

\* Traps that return to the program.
LEMMA ReturnGood ==
    ASSUME Inv, mode = "user", NEW t, Resumable(t, k),
           NEW what, ReturnToUser(t, what)
    PROVE  Inv' /\ Unended /\ mode' = "user" /\ last' = what
<1>1. env_run(t, t.curenv) = t
  BY DEF env_run
<1>2. Step(t, "user", what) /\ UNCHANGED <<owner, gone>>
  BY <1>1 DEF ReturnToUser
<1> QED BY <1>2, ResumeGood

\* sys_allocate_page leaves the table as it was and returns to its caller.
LEMMA AllocatedPageControl ==
    ASSUME Inv, mode = "user", NEW a, a.ret \in {0, E_NO_MEM},
           NEW va, NEW aligned \in BOOLEAN, NEW perm
    PROVE  Resumable(AllocatedPage(Trapped, k.curenv, a, va, aligned, perm), k)
<1> DEFINE s == Trapped
           e == k.curenv
           t == AllocatedPage(s, e, a, va, aligned, perm)
<1>1. e \in Envs /\ Shaped(s) /\ Resumable(s, k)
  BY CurrentIsLive, TrappedControl
<1>2. t = s \/ \E m : t = SetSpace(s, e, m)
  <2>1. CASE a.ret = E_NO_MEM
    BY <2>1 DEF AllocatedPage, E_NO_MEM
  <2>2. CASE a.ret = 0 /\ ~(aligned /\ ValidPerm(perm))
    BY <2>2 DEF AllocatedPage, E_NO_MEM
  <2>3. CASE a.ret = 0 /\ aligned /\ ValidPerm(perm)
    <3>1. t = PageMapped(s, e, a.frame,
                 map_frame([a.mem EXCEPT !.table[a.frame] = ZeroTable],
                           a.frame, va, perm))
      BY <2>3 DEF AllocatedPage, E_NO_MEM
    <3> QED BY <3>1 DEF PageMapped
  <2> QED BY <2>1, <2>2, <2>3
<1> HIDE DEF s, t
<1>3. CASE t = s
  BY <1>1, <1>3 DEF t, s
<1>4. CASE \E m : t = SetSpace(s, e, m)
  <2>1. SameControl(t, s)
    BY <1>1, <1>4, SetSpaceControl
  <2>2. Resumable(t, k)
    BY <1>1, <2>1 DEF Resumable, Kept, SameControl, SameEnvs, SameEnv
  <2> QED BY <2>2 DEF t, s
<1> QED BY <1>2, <1>3, <1>4

-----------------------------------------------------------------------------
\* The command run.
LEMMA RunGood ==
    ASSUME Inv, NEW p \in Programs, command_run(p)
    PROVE  /\ Inv' /\ LiveKept(k', k)
           /\ mode' \in {"prompt", "user"} /\ last' = [op |-> "run", p |-> p]
           /\ \A q \in Programs \ {p} : k'.programs[q] = k.programs[q]
<1> DEFINE c == env_create(k, p)
           what == [op |-> "run", p |-> p]
<1>1. mode = "prompt" /\ RunCreated(c, p)
  BY DEF command_run
<1>2. /\ TableGood(k, past) /\ CurrentGood(k) /\ ProgramsGood(k, owner, gone)
      /\ Shaped(k) /\ k.list \in Seq(Envs) /\ DOMAIN k.programs = Programs
      /\ k.programs \in [Programs -> Envs \cup {NoEnv}]
  BY DEF Inv, TableGood, ListGood, ProgramsGood
<1>3. \/ c.ok = FALSE /\ c.s = k
      \/ /\ k.list # <<>> /\ Head(k.list) \in Envs
         /\ \/ c.ok = FALSE /\ CreateFailed(c.s, k, Head(k.list), p)
            \/ c.ok = TRUE /\ CreateSucceeded(c.s, k, Head(k.list), p)
  BY <1>2, EnvCreateControl
<1> HIDE DEF c, what
<1>4. gone' = IF c.s.envs = k.envs THEN gone ELSE gone \ {p}
  BY <1>1 DEF RunCreated
<1>5. c.ok = FALSE => Step(c.s, "prompt", what) /\ owner' = owner
  BY <1>1 DEF RunCreated, what
<1>6. CASE c.ok = FALSE /\ c.s = k
  <2>1. Kept(k, k)
    BY <1>2 DEF Kept
  <2>2. TableGood(k, Histories(past, k, k))
    BY <1>2, <2>1, KeptGood
  <2>3. k' = k /\ mode' = "prompt" /\ last' = what /\ TableGood(k', past')
    BY <1>5, <1>6, <2>2, StepTable
  <2>4. gone' = gone /\ owner' = owner
    BY <1>4, <1>5, <1>6
  <2> QED BY <1>2, <2>3, <2>4 DEF Inv, LiveKept, what
<1>7. CASE /\ k.list # <<>> /\ Head(k.list) \in Envs
           /\ c.ok = FALSE /\ CreateFailed(c.s, k, Head(k.list), p)
  <2> DEFINE t == c.s
  <2>1. /\ TableGood(t, Histories(past, k, t)) /\ Live(t) = Live(k) /\ CurrentGood(t)
        /\ LiveIds(t, k)
    BY <1>2, <1>7, CreateFailedGood
  <2>2. Step(t, "prompt", what) /\ owner' = owner
    BY <1>5, <1>7
  <2>3. t.programs = [k.programs EXCEPT ![p] = NoEnv]
    BY <1>7 DEF CreateFailed
  <2>4. gone' = gone \/ gone' = gone \ {p}
    BY <1>4
  <2> HIDE DEF t
  <2>5. k' = t /\ mode' = "prompt" /\ last' = what /\ TableGood(k', past')
    BY <2>1, <2>2, StepTable
  <2>6. /\ t.programs \in [Programs -> Envs \cup {NoEnv}]
        /\ t.programs[p] = NoEnv
        /\ \A q \in Programs \ {p} : t.programs[q] = k.programs[q]
    BY <1>2, <2>3
  <2>7. ProgramsGood(t, owner, gone')
    BY <1>2, <2>1, <2>4, <2>6 DEF ProgramsGood
  <2> QED BY <2>1, <2>2, <2>5, <2>6, <2>7 DEF Inv, LiveKept, LiveIds, what
<1>8. CASE /\ k.list # <<>> /\ Head(k.list) \in Envs
           /\ c.ok = TRUE /\ CreateSucceeded(c.s, k, Head(k.list), p)
  <2> DEFINE e == Head(k.list)
             u == c.s
             t == env_run(u, e)
  <2>1. /\ TableGood(u, Histories(past, k, u)) /\ e \in Envs \ Live(k)
        /\ Live(u) = Live(k) \cup {e}
        /\ LiveIds(u, k)
    BY <1>2, <1>8, CreateSucceededGood
  <2>2. CreateSucceeded(u, k, e, p)
    BY <1>8
  <2>3. u.programs = [k.programs EXCEPT ![p] = e] /\ u.envs[e].eip = p
        /\ u.curenv = k.curenv /\ Shaped(u)
        /\ u.envs[e].env_status = "RUNNABLE"
    BY <2>2 DEF CreateSucceeded
  <2>4. /\ u.programs \in [Programs -> Envs \cup {NoEnv}]
        /\ u.programs[p] = e
        /\ \A q \in Programs \ {p} : u.programs[q] = k.programs[q]
    BY <1>2, <2>1, <2>3
  <2>5. Step(t, "user", what) /\ owner' = [owner EXCEPT ![e] = p]
    BY <1>1, <1>8, <2>4 DEF RunCreated, what
  <2>6. gone' = gone \ {p}
    <3>1. u.envs[e].env_status # k.envs[e].env_status
      BY <2>1, <2>3 DEF Live
    <3> QED BY <1>4, <3>1
  <2> HIDE DEF e, u
  <2>7. u.curenv # e /\ e # NoEnv
    BY <1>2, <2>1, <2>3 DEF CurrentGood, NoEnv, Envs
  <2>8. Running(t, u, e)
    BY <2>3, <2>7, EnvRunControl
  <2> HIDE DEF t
  <2>9. /\ Shaped(t) /\ t.envs = u.envs /\ t.list = u.list
        /\ t.programs = u.programs /\ t.curenv = e /\ t.cr3 = u.envs[e].env_cr3
    BY <2>8 DEF Running
  <2>10. Histories(past, k, t) = Histories(past, k, u) /\ Live(t) = Live(u)
    BY <2>9 DEF Histories, Live
  <2>11. TableGood(t, Histories(past, k, t))
    BY <2>1, <2>9, <2>10 DEF TableGood, StatusGood, ListGood, IdsGood
  <2>12. k' = t /\ mode' = "user" /\ last' = what /\ TableGood(k', past')
    BY <2>5, <2>11, StepTable
  <2>13. CurrentGood(t)
    BY <2>1, <2>7, <2>9, <2>10 DEF CurrentGood
  <2>14. /\ owner' = [x \in Envs |-> owner'[x]] /\ owner'[e] = p
         /\ \A x \in Envs \ {e} : owner'[x] = owner[x]
    BY <1>2, <2>1, <2>5 DEF ProgramsGood
  <2>15. ProgramsGood(t, owner', gone')
    <3>1. ASSUME NEW q \in Programs \ gone', t.programs[q] # NoEnv
          PROVE  t.programs[q] \in Live(t) /\ owner'[t.programs[q]] = q
      <4>1. CASE q = p
        BY <2>1, <2>4, <2>9, <2>10, <2>14, <4>1
      <4>2. CASE q # p
        <5>1. q \in Programs \ gone /\ t.programs[q] = k.programs[q]
          BY <2>4, <2>6, <2>9, <3>1, <4>2
        <5>2. k.programs[q] \in Live(k) /\ owner[k.programs[q]] = q
          BY <1>2, <3>1, <5>1 DEF ProgramsGood
        <5>3. k.programs[q] \in Envs \ {e}
          BY <2>1, <5>2 DEF Live
        <5> QED BY <2>1, <2>10, <2>14, <5>1, <5>2, <5>3
      <4> QED BY <4>1, <4>2
    <3>2. t.programs \in [Programs -> Envs \cup {NoEnv}]
      BY <2>4, <2>9
    <3> QED BY <2>14, <3>1, <3>2 DEF ProgramsGood
  <2>16. UserGood(t, owner')
    BY <2>3, <2>7, <2>9, <2>14 DEF UserGood
  <2>17. LiveKept(t, k)
    BY <2>1, <2>9, <2>10 DEF LiveKept, LiveIds
  <2>18. \A q \in Programs \ {p} : t.programs[q] = k.programs[q]
    BY <2>4, <2>9
  <2> QED BY <2>12, <2>13, <2>15, <2>16, <2>17, <2>18 DEF Inv, what
<1> QED BY <1>3, <1>6, <1>7, <1>8

\* The command kill of a program that still has its environment.
LEMMA KillGood ==
    ASSUME Inv, NEW p \in Programs, command_kill(p),
           k.programs[p] # NoEnv, k.envs[k.programs[p]].env_status # "FREE"
    PROVE  /\ Inv' /\ mode' = "prompt" /\ last' = [op |-> "kill", p |-> p]
           /\ k.programs[p] \notin Live(k')
           /\ \A q \in Programs \ {p} : k'.programs[q] = k.programs[q]
           /\ \A e \in Live(k) \ {k.programs[p]} :
                e \in Live(k') /\ k'.envs[e].env_id = k.envs[e].env_id
<1> DEFINE e == k.programs[p]
           what == [op |-> "kill", p |-> p]
           t == Unload(k, e, p)
<1>1. /\ Step(t, "prompt", what) /\ owner' = owner
      /\ gone' = (gone \ {p}) \cup {q \in Programs \ {p} : k.programs[q] = e}
  BY DEF command_kill, Unload
<1>2. /\ TableGood(k, past) /\ ProgramsGood(k, owner, gone)
      /\ Shaped(k) /\ StatusGood(k)
      /\ k.programs \in [Programs -> Envs \cup {NoEnv}]
  BY DEF Inv, TableGood, ProgramsGood
<1>3. e \in Live(k) /\ e \in Envs
  BY <1>2 DEF StatusGood, Live
<1>4. Freed(t, k, e) /\ t.programs = [k.programs EXCEPT ![p] = NoEnv]
  BY <1>2, <1>3, UnloadControl
<1> HIDE DEF t, e, what
<1>5. /\ TableGood(t, Histories(past, k, t)) /\ Live(t) = Live(k) \ {e}
      /\ CurrentGood(t)
  BY <1>2, <1>3, <1>4, FreedGood
<1>6. k' = t /\ mode' = "prompt" /\ last' = what /\ TableGood(k', past')
  BY <1>1, <1>5, StepTable
<1>7. /\ t.programs \in [Programs -> Envs \cup {NoEnv}]
      /\ t.programs[p] = NoEnv
      /\ \A q \in Programs \ {p} : t.programs[q] = k.programs[q]
  BY <1>2, <1>4
<1>8. ProgramsGood(t, owner, gone')
  <2>2. ASSUME NEW q \in Programs \ gone', t.programs[q] # NoEnv
        PROVE  t.programs[q] \in Live(t) /\ owner[t.programs[q]] = q
    <3>1. q # p /\ t.programs[q] = k.programs[q]
      BY <1>7, <2>2
    <3>2. q \notin gone /\ k.programs[q] # e
      BY <1>1, <2>2, <3>1
    <3> QED BY <1>2, <1>5, <2>2, <3>1, <3>2 DEF ProgramsGood
  <2>3. owner = [x \in Envs |-> owner[x]]
    BY <1>2 DEF ProgramsGood
  <2> QED BY <1>7, <2>2, <2>3 DEF ProgramsGood
<1>9. \A x \in Live(k) \ {e} : x \in Live(t) /\ t.envs[x].env_id = k.envs[x].env_id
  BY <1>4, <1>5 DEF Freed, SameEnv, Live
<1> QED BY <1>1, <1>5, <1>6, <1>7, <1>8, <1>9 DEF Inv, e, what

-----------------------------------------------------------------------------
\* Inv holds after env_init, with no program loaded.
LEMMA InitGood == Init => Inv
<1> SUFFICES ASSUME Init PROVE Inv
  OBVIOUS
<1>1. /\ k = [m |-> InitialMemory, envs |-> [e \in Envs |-> NewEnv],
              list |-> env_init, curenv |-> NoEnv, cr3 |-> KernelFrame,
              programs |-> [p \in Programs |-> NoEnv]]
      /\ mode = "prompt" /\ owner = [e \in Envs |-> 0]
      /\ past = [e \in Envs |-> <<>>] /\ gone = {}
  BY DEF Init
<1>2. /\ IsKernel(k) /\ k.envs = [e \in Envs |-> NewEnv] /\ k.list = env_init
      /\ k.curenv = NoEnv /\ k.cr3 = KernelFrame
      /\ k.programs = [p \in Programs |-> NoEnv]
  BY <1>1 DEF IsKernel
<1>3. IsEnv(NewEnv) /\ NewEnv.env_status = "FREE" /\ NewEnv.env_id = 0
  BY DEF IsEnv, NewEnv
<1>4. \A e \in Envs : k.envs[e] = NewEnv
  BY <1>2
<1>5. Shaped(k)
  <2>1. k.envs = [e \in Envs |-> k.envs[e]]
    BY <1>2
  <2> QED BY <1>2, <1>3, <1>4, <2>1 DEF Shaped
<1>6. Live(k) = {} /\ StatusGood(k)
  BY <1>3, <1>4 DEF Live, StatusGood
<1>7. ListGood(k)
  <2>1. NENV \in Nat \ {0}
    BY IdNumbers
  <2>2. k.list = [i \in 1 .. NENV |-> i - 1]
    BY <1>2 DEF env_init
  <2>3. k.list \in Seq(Envs)
    BY <2>1, <2>2 DEF Envs
  <2>4. IsInjective(k.list)
    BY <2>1, <2>2 DEF IsInjective
  <2>5. Range(k.list) = Envs
    <3>1. \A e \in Envs : e + 1 \in DOMAIN k.list /\ k.list[e + 1] = e
      BY <2>1, <2>2 DEF Envs
    <3>2. Envs \subseteq Range(k.list)
      BY <3>1 DEF Range
    <3>3. Range(k.list) \subseteq Envs
      BY <2>1, <2>2 DEF Range, Envs
    <3> QED BY <3>2, <3>3
  <2> QED BY <1>6, <2>3, <2>4, <2>5 DEF ListGood
<1>8. IdsGood(k, past)
  <2>1. past = [e \in Envs |-> past[e]] /\ \A e \in Envs : past[e] = <<>>
    BY <1>1
  <2>2. \A e \in Envs : History(k.envs[e].env_id, past[e], e)
    BY <1>3, <1>4, <2>1 DEF History
  <2> QED BY <1>6, <2>1, <2>2 DEF IdsGood
<1>9. CurrentGood(k)
  BY <1>2 DEF CurrentGood
<1>10. ProgramsGood(k, owner, gone)
  <2>1. owner = [e \in Envs |-> owner[e]]
    BY <1>1
  <2>2. /\ k.programs \in [Programs -> Envs \cup {NoEnv}]
        /\ \A p \in Programs : k.programs[p] = NoEnv
    BY <1>2
  <2> QED BY <2>1, <2>2 DEF ProgramsGood
<1> QED BY <1>1, <1>5, <1>6, <1>7, <1>8, <1>9, <1>10 DEF Inv, TableGood

\* A command that finds nothing to work on keeps Inv and every environment.
LEMMA StopGood ==
    ASSUME Inv, NEW md, md # "user", NEW what, Stop(md, what)
    PROVE  Inv' /\ Unended /\ mode' = md /\ last' = what
<1>1. /\ k' = k /\ owner' = owner /\ past' = past /\ gone' = gone
      /\ mode' = md /\ last' = what
  BY DEF Stop
<1> QED BY <1>1 DEF Inv, LiveKept, Unended

\* An ended environment explains the step when it is the current one, and made
\* the call or had the fault, or was left current when its call panicked.
LEMMA DestroyExplained ==
    ASSUME Inv, k.curenv \in Live(k), NEW s, Handed(s),
           NEW what, env_destroy(s, k.curenv, what),
           \/ what.op \in {"fault", "destroy"}
           \/ /\ mode = "prompt" /\ what.op = "access"
              /\ ~Translates(Space(k, k.curenv), what.va)
    PROVE  Inv' /\ EndExplained
<1>1. /\ Inv' /\ mode' = "prompt" /\ last' = what
      /\ k'.programs = k.programs
      /\ \A e \in Live(k) \ {k.curenv} :
            e \in Live(k') /\ k'.envs[e].env_id = k.envs[e].env_id
  BY DestroyGood
<1>2. \A e : Named(k, e) => Named(k', e)
  BY <1>1 DEF Named
<1> QED BY <1>1, <1>2 DEF EndExplained

\* A step that changes one row of userPrograms takes its environment from no
\* other row.
LEMMA OneRow ==
    ASSUME NEW p \in Programs, \A q \in Programs \ {p} : k'.programs[q] = k.programs[q],
           NEW e, Named(k, e), ~Named(k', e)
    PROVE  k.programs[p] = e
BY DEF Named

\* command_kill keeps Inv, and ends only the environment of the named program.
LEMMA KillExplained ==
    ASSUME Inv, NEW p \in Programs, command_kill(p)
    PROVE  Inv' /\ EndExplained
<1> DEFINE e == k.programs[p]
           what == [op |-> "kill", p |-> p]
<1>0. what.op = "kill" /\ what.p = p
  OBVIOUS
<1>1. ProgramsGood(k, owner, gone)
  BY DEF Inv
<1>2. CASE e = NoEnv \/ k.envs[e].env_status = "FREE"
  <2>1. Stop("corrupt", what)
    BY <1>2 DEF command_kill
  <2>2. Inv' /\ Unended /\ last' = what
    BY <2>1, StopGood
  <2>3. e = NoEnv \/ p \in gone
    BY <1>1, <1>2 DEF ProgramsGood, Live
  <2> HIDE DEF what
  <2> QED BY <1>0, <2>2, <2>3 DEF EndExplained, Unended, LiveKept, Named
<1>3. CASE ~(e = NoEnv \/ k.envs[e].env_status = "FREE")
  <2>1. /\ Inv' /\ mode' = "prompt" /\ last' = what
        /\ e \notin Live(k')
        /\ \A q \in Programs \ {p} : k'.programs[q] = k.programs[q]
        /\ \A x \in Live(k) \ {e} :
              x \in Live(k') /\ k'.envs[x].env_id = k.envs[x].env_id
    BY <1>3, KillGood
  <2>2. p \in gone \/ owner[e] = p
    BY <1>1, <1>3 DEF ProgramsGood
  <2>3. \A x \in Live(k') : Named(k, x) => Named(k', x)
    BY <2>1, OneRow
  <2> HIDE DEF what
  <2> QED BY <1>0, <2>1, <2>2, <2>3 DEF EndExplained
<1> QED BY <1>2, <1>3

\* command_run keeps Inv, ends no environment, and takes out of userPrograms
\* only the one its program had.
LEMMA RunExplained ==
    ASSUME Inv, NEW p \in Programs, command_run(p)
    PROVE  Inv' /\ EndExplained
<1> DEFINE what == [op |-> "run", p |-> p]
<1>1. what.op = "run" /\ what.p = p
  OBVIOUS
<1>2. /\ Inv' /\ LiveKept(k', k) /\ mode' \in {"prompt", "user"} /\ last' = what
      /\ \A q \in Programs \ {p} : k'.programs[q] = k.programs[q]
  BY RunGood
<1> HIDE DEF what
<1>3. \A e : Named(k, e) /\ ~Named(k', e) => k.programs[p] = e
  BY <1>2, OneRow
<1> QED BY <1>1, <1>2, <1>3 DEF EndExplained, LiveKept

\* sys_env_destroy keeps Inv, and ends only the caller.
LEMMA SysDestroyExplained ==
    ASSUME Inv, NEW id, sys_env_destroy(id)
    PROVE  Inv' /\ EndExplained
<1> DEFINE e == envid2env(k, id)
           what == [op |-> "destroy", id |-> id]
<1>0. what.op = "destroy" /\ what.id = id
  OBVIOUS
<1>1. mode = "user" /\ k.curenv # NoEnv /\ k.curenv \in Live(k)
  BY CurrentIsLive DEF sys_env_destroy
<1>2. /\ e \in {k.curenv, NoEnv}
      /\ e = NoEnv => id \notin {0, k.envs[k.curenv].env_id}
  BY <1>1, OwnEnvironmentOnly
<1>3. CASE e = NoEnv /\ Translates(Space(k, k.curenv), Page0)
  <2>1. Stop("corrupt", what)
    BY <1>3 DEF sys_env_destroy
  <2>2. Inv' /\ Unended /\ last' = what
    BY <2>1, StopGood
  <2> HIDE DEF what
  <2> QED BY <1>0, <1>2, <1>3, <2>2 DEF EndExplained, Unended, LiveKept, Named
<1>4. CASE ~(e = NoEnv /\ Translates(Space(k, k.curenv), Page0))
  <2>1. env_destroy(Trapped, IF e = NoEnv THEN k.curenv ELSE e, what)
    BY <1>4 DEF sys_env_destroy
  <2>3. Handed(Trapped)
    BY <1>1 DEF Handed
  <2> HIDE DEF what, e
  <2>2. env_destroy(Trapped, k.curenv, what)
    BY <1>2, <2>1
  <2> QED BY <1>0, <1>1, <2>2, <2>3, DestroyExplained
<1> QED BY <1>3, <1>4

\* A step that ends no environment needs no explanation.
LEMMA KeptExplained ==
    ASSUME Unended, mode' # "corrupt"
    PROVE  EndExplained
BY DEF Unended, LiveKept, EndExplained, Named

\* rum and wum keep Inv, and end no environment but one that was left current.
LEMMA AccessExplained ==
    ASSUME Inv, NEW va, AccessMemory(va)
    PROVE  Inv' /\ EndExplained
<1> DEFINE what == [op |-> "access", va |-> va]
<1>1. what.op = "access" /\ what.va = va
  OBVIOUS
<1> HIDE DEF what
<1>2. /\ mode = "prompt"
      /\ \/ Stop("prompt", what) \/ Stop("dead", what)
         \/ /\ k.curenv # NoEnv /\ ~Translates(Space(k, k.curenv), va)
            /\ env_destroy(k, k.curenv, what)
  BY DEF AccessMemory, what
<1>3. CASE Stop("prompt", what) \/ Stop("dead", what)
  <2>1. Inv' /\ Unended /\ mode' # "corrupt"
    BY <1>3, StopGood
  <2> QED BY <2>1, KeptExplained
<1>4. CASE /\ k.curenv # NoEnv /\ ~Translates(Space(k, k.curenv), va)
           /\ env_destroy(k, k.curenv, what)
  <2>1. k.curenv \in Live(k)
    BY <1>4 DEF Inv, CurrentGood
  <2>2. Handed(k)
    BY DEF Handed
  <2> QED BY <1>1, <1>2, <1>4, <2>1, <2>2, DestroyExplained
<1> QED BY <1>2, <1>3, <1>4

\* Every step keeps Inv, and explains the environments it ends.
LEMMA NextGood == Inv /\ Next => Inv' /\ EndExplained
<1> SUFFICES ASSUME Inv, Next PROVE Inv' /\ EndExplained
  OBVIOUS
<1>1. CASE \E p \in Programs : command_run(p)
  BY <1>1, RunExplained
<1>2. CASE \E p \in Programs : command_kill(p)
  BY <1>2, KillExplained
<1>3. CASE PageFault
  <2>1. mode = "user" /\ env_destroy(Trapped, k.curenv, [op |-> "fault"])
    BY <1>3 DEF PageFault
  <2>2. [op |-> "fault"].op \in {"fault", "destroy"}
    OBVIOUS
  <2>3. k.curenv \in Live(k) /\ Handed(Trapped)
    BY <2>1, CurrentIsLive DEF Handed
  <2> QED BY <2>1, <2>2, <2>3, DestroyExplained
<1>4. CASE OtherException
  <2>1. Stop("dead", [op |-> "exception"])
    BY <1>4 DEF OtherException
  <2>2. Inv' /\ Unended /\ mode' = "dead"
    BY <2>1, StopGood
  <2> QED BY <2>2, KeptExplained
<1>5. CASE HarmlessCall
  <2>1. mode = "user" /\ ReturnToUser(Trapped, [op |-> "harmless"])
    BY <1>5 DEF HarmlessCall
  <2>2. Resumable(Trapped, k)
    BY <2>1, TrappedControl
  <2>3. Inv' /\ Unended /\ mode' = "user"
    BY <2>1, <2>2, ReturnGood
  <2> QED BY <2>3, KeptExplained
<1>6. CASE UnimplementedCall
  <2>1. /\ mode = "user" /\ Step(Trapped, "prompt", [op |-> "panic"])
        /\ UNCHANGED <<owner, gone>>
    BY <1>6 DEF UnimplementedCall
  <2>2. Resumable(Trapped, k)
    BY <2>1, TrappedControl
  <2>3. Inv' /\ Unended /\ mode' = "prompt"
    BY <2>1, <2>2, ResumeGood
  <2> QED BY <2>3, KeptExplained
<1>7. CASE \E id \in KnownIds : sys_env_destroy(id)
  BY <1>7, SysDestroyExplained
<1>8. CASE sys_env_sleep
  <2>1. Inv' /\ Unended /\ mode' = "prompt"
    BY <1>8, SleepGood
  <2> QED BY <2>1, KeptExplained
<1>9. CASE \E va \in Pages, aligned \in BOOLEAN, perm \in {UW, UW \cup {PERM_PRESENT}} :
              sys_allocate_page(va, aligned, perm)
  <2>1. PICK va \in Pages, aligned \in BOOLEAN, perm \in {UW, UW \cup {PERM_PRESENT}} :
              sys_allocate_page(va, aligned, perm)
    BY <1>9
  <2> DEFINE a == allocate_frame(Space(k, k.curenv))
             t == AllocatedPage(Trapped, k.curenv, a, va, aligned, perm)
             what == [op |-> "allocate_page", va |-> va,
                      valid |-> aligned /\ ValidPerm(perm)]
  <2>2. mode = "user" /\ ReturnToUser(t, what)
    BY <2>1 DEF sys_allocate_page
  <2>3. a.ret \in {0, E_NO_MEM}
    BY DEF allocate_frame
  <2> HIDE DEF a
  <2>4. Resumable(t, k)
    BY <2>2, <2>3, AllocatedPageControl
  <2> HIDE DEF t, what
  <2>5. Inv' /\ Unended /\ mode' = "user"
    BY <2>2, <2>4, ReturnGood
  <2> QED BY <2>5, KeptExplained
<1>10. CASE \E va \in Pages : AccessMemory(va)
  BY <1>10, AccessExplained
<1> QED BY <1>1, <1>2, <1>3, <1>4, <1>5, <1>6, <1>7, <1>8, <1>9, <1>10 DEF Next

\* The inductive invariant holds in every state the kernel can reach, for any
\* number of environments, programs, frames and generations of ids, through
\* any sequence of run, kill, traps and system calls.
THEOREM Invariance == Spec => []Inv
<1>1. Inv /\ UNCHANGED vars => Inv'
  BY DEF Inv, vars
<1>2. Inv /\ [Next]_vars => Inv'
  BY <1>1, NextGood
<1> QED BY InitGood, <1>2, PTL DEF Spec

\* IdsIdentify, for every NENV, ENVGEN and width of env_id: the free list is
\* the set of FREE environments, a live environment's id is positive and
\* leads back to it (ENVX), and it differs from every earlier id of the slot
\* within one round of the generations (env_init, env_create,
\* complete_environment_initialization, free_environment, envid2env).
THEOREM IdsIdentifyAlways == Spec => []IdsIdentify
<1>1. Inv => IdsIdentify
  <2> SUFFICES ASSUME Inv PROVE IdsIdentify
    OBVIOUS
  <2>1. IsInjective(k.list) /\ Range(k.list) = Envs \ Live(k)
    BY DEF Inv, TableGood, ListGood
  <2>2. ASSUME NEW e \in Live(k)
        PROVE  /\ k.envs[e].env_id > 0 /\ ENVX(k.envs[e].env_id) = e
               /\ k.envs[e].env_id \notin Range(past[e])
    <3>1. /\ e \in Envs /\ k.envs[e].env_id # 0
          /\ History(k.envs[e].env_id, past[e], e)
      BY DEF Inv, TableGood, IdsGood, Live
    <3> QED BY <3>1, HistoryExcludes
  <2> QED BY <2>1, <2>2 DEF IdsIdentify
<1> QED BY <1>1, Invariance, PTL

\* EndsExplained, for every value of the constants: a live environment ends
\* only by its own fault or call, by a kill that names its program, or by a
\* page fault of the kernel at the prompt that its own panicking call opened;
\* userPrograms forgets it only when its program is run again; and the kernel
\* works on an environment that does not exist only in the two ways named
\* (command_run, command_kill, page_fault_handler, sys_env_destroy, envid2env
\* with checkperm).
THEOREM EndsExplainedAlways == Spec => EndsExplained
<1>1. Inv /\ [Next]_vars => [EndExplained]_vars
  BY NextGood
<1> QED BY <1>1, Invariance, PTL DEF Spec, EndsExplained

-----------------------------------------------------------------------------
\* Memory, seen from one address space: the directory of m is that of the
\* environment, and r is the frame it lies in.

HasTable(m, d) == m.directory[d] # ZeroEntry
Mapped(m, va) == Walk(m, va) # ZeroEntry
TableFrames(m) == {m.directory[d].frame : d \in {d \in Dirs : HasTable(m, d)}}
PageFrames(m) == {Walk(m, va).frame : va \in {va \in Pages : Mapped(m, va)}}
Held(m, r) == {r} \cup TableFrames(m) \cup PageFrames(m)
Listed(m) == Range(m.free)

\* The frames the space may use: its own and those on the free list.
Pool(m, r) == Listed(m) \cup Held(m, r)

\* A frame with one user.
Single(m, f) == f \in Usable \ Listed(m) /\ m.references[f] = 1

TableAlone(m, r, d) ==
    LET f == m.directory[d].frame
    IN  /\ PERM_PRESENT \in m.directory[d].perm
        /\ Single(m, f) /\ f # r
        /\ \A c \in Dirs : HasTable(m, c) /\ m.directory[c].frame = f => c = d

PageAlone(m, r, va) ==
    LET f == Walk(m, va).frame
    IN  /\ PERM_PRESENT \in Walk(m, va).perm
        /\ Single(m, f) /\ f # r
        /\ \A d \in Dirs : HasTable(m, d) => m.directory[d].frame # f
        /\ \A vb \in Pages : Mapped(m, vb) /\ Walk(m, vb).frame = f => vb = va

ListSound(m) == IsInjective(m.free) /\ Listed(m) \subseteq Usable

SpaceGood(m, r) ==
    /\ m \in Memories /\ ListSound(m)
    /\ Single(m, r)
    /\ \A d \in Dirs : HasTable(m, d) => TableAlone(m, r, d)
    /\ \A va \in Pages : Mapped(m, va) => PageAlone(m, r, va)

\* Outside of S nothing changes.
Local(n, m, S) ==
    \A f \in Frames \ S : /\ n.references[f] = m.references[f]
                          /\ n.table[f] = m.table[f]

-----------------------------------------------------------------------------
\* The usable frames are frames, and NULL is none of them.
LEMMA UsableFrames == Usable \subseteq Frames /\ NULL \notin Usable /\ NULL \notin Frames
BY NumFramesAssumption DEF Usable, Frames, NULL

\* A zero entry is an entry, and not present.
LEMMA ZeroIsEntry == ZeroEntry \in Entries /\ ZeroEntry.perm = {} /\ 0 \in Frames
BY NumFramesAssumption DEF ZeroEntry, Entries, Frames

\* An entry that is present is not zero.
LEMMA PresentIsNotZero ==
    ASSUME NEW x, PERM_PRESENT \in x.perm
    PROVE  x # ZeroEntry
BY ZeroIsEntry

\* A page is its directory index and its table index.
LEMMA PageParts ==
    ASSUME NEW va \in Pages
    PROVE  va[1] \in Dirs /\ va[2] \in Slots /\ va = <<va[1], va[2]>>
BY DEF Pages

\* Every field of a memory state.
IsMemory(m) ==
    m = [free |-> m.free, references |-> m.references,
         directory |-> m.directory, table |-> m.table, tlb |-> m.tlb]

MemoryTypes(m) ==
    /\ m.free \in Seq(Frames) /\ m.references \in [Frames -> 0 .. RefModulus - 1]
    /\ m.directory \in [Dirs -> Entries]
    /\ m.table \in [Frames -> [Slots -> Entries]] /\ m.tlb \in [Pages -> Entries]

\* Memories, as a record with its fields' types.
LEMMA MemoryParts ==
    \A m : m \in Memories <=> IsMemory(m) /\ MemoryTypes(m)
<1>1. ASSUME NEW m \in Memories PROVE IsMemory(m) /\ MemoryTypes(m)
  BY DEF Memories, IsMemory, MemoryTypes
<1>2. ASSUME NEW m, IsMemory(m), MemoryTypes(m) PROVE m \in Memories
  <2>1. m = [free |-> m.free, references |-> m.references,
             directory |-> m.directory, table |-> m.table, tlb |-> m.tlb]
    BY <1>2 DEF IsMemory
  <2> QED BY <1>2, <2>1 DEF Memories, MemoryTypes
<1> QED BY <1>1, <1>2

\* The walk of a page: zero, or an entry of the page's table.
LEMMA WalkShape ==
    ASSUME NEW m, NEW r, SpaceGood(m, r), NEW va \in Pages
    PROVE  /\ va[1] \in Dirs /\ va[2] \in Slots
           /\ ~HasTable(m, va[1]) => Walk(m, va) = ZeroEntry
           /\ HasTable(m, va[1]) =>
                /\ m.directory[va[1]].frame \in TableFrames(m)
                /\ m.directory[va[1]].frame \in Frames
                /\ m.directory[va[1]].frame # NULL
                /\ PERM_PRESENT \in m.directory[va[1]].perm
                /\ Walk(m, va) = m.table[m.directory[va[1]].frame][va[2]]
<1>1. va[1] \in Dirs /\ va[2] \in Slots
  BY PageParts
<1>2. CASE ~HasTable(m, va[1])
  BY <1>1, <1>2, ZeroIsEntry DEF Walk, PDX, HasTable
<1>3. CASE HasTable(m, va[1])
  <2>1. TableAlone(m, r, va[1])
    BY <1>1, <1>3 DEF SpaceGood
  <2>2. /\ PERM_PRESENT \in m.directory[va[1]].perm
        /\ m.directory[va[1]].frame \in Frames
        /\ m.directory[va[1]].frame # NULL
    BY <2>1, UsableFrames DEF TableAlone, Single
  <2>3. Walk(m, va) = m.table[m.directory[va[1]].frame][va[2]]
    BY <2>2 DEF Walk, PDX, PTX
  <2>4. m.directory[va[1]].frame \in TableFrames(m)
    BY <1>1, <1>3 DEF TableFrames
  <2> QED BY <1>1, <1>3, <2>2, <2>3, <2>4
<1> QED BY <1>2, <1>3

\* Held frames are single.
LEMMA HeldFrames ==
    ASSUME NEW m, NEW r, SpaceGood(m, r)
    PROVE  /\ r \in Held(m, r)
           /\ \A d \in Dirs : HasTable(m, d) => m.directory[d].frame \in Held(m, r)
           /\ \A va \in Pages : Mapped(m, va) => Walk(m, va).frame \in Held(m, r)
           /\ \A f \in Held(m, r) : Single(m, f)
           /\ Held(m, r) \subseteq Usable /\ Pool(m, r) \subseteq Usable
           /\ Pool(m, r) \subseteq Frames
<1>1. \A d \in Dirs : HasTable(m, d) => m.directory[d].frame \in Held(m, r)
  BY DEF Held, TableFrames
<1>2. \A va \in Pages : Mapped(m, va) => Walk(m, va).frame \in Held(m, r)
  BY DEF Held, PageFrames
<1>3. ASSUME NEW f \in Held(m, r) PROVE Single(m, f)
  <2>1. CASE f = r BY <2>1 DEF SpaceGood
  <2>2. CASE f \in TableFrames(m)
    BY <2>2 DEF TableFrames, SpaceGood, TableAlone
  <2>3. CASE f \in PageFrames(m)
    BY <2>3 DEF PageFrames, SpaceGood, PageAlone
  <2> QED BY <1>3, <2>1, <2>2, <2>3 DEF Held
<1>4. Held(m, r) \subseteq Usable BY <1>3 DEF Single
<1>5. Pool(m, r) \subseteq Usable BY <1>4 DEF Pool, SpaceGood, ListSound
<1> QED BY <1>1, <1>2, <1>3, <1>4, <1>5, UsableFrames DEF Held

\* Whatever happens to frames that the space does not hold.
LEMMA SpaceKept ==
    ASSUME NEW m, NEW r, SpaceGood(m, r), NEW n \in Memories, ListSound(n),
           n.directory = m.directory,
           \A f \in Held(m, r) : /\ n.references[f] = m.references[f]
                                 /\ n.table[f] = m.table[f]
                                 /\ f \notin Listed(n)
    PROVE  /\ SpaceGood(n, r) /\ Held(n, r) = Held(m, r)
           /\ \A va \in Pages : Walk(n, va) = Walk(m, va)
<1>1. \A va \in Pages : Walk(n, va) = Walk(m, va)
  <2> SUFFICES ASSUME NEW va \in Pages PROVE Walk(n, va) = Walk(m, va)
    OBVIOUS
  <2>1. CASE ~HasTable(m, va[1])
    BY <2>1, ZeroIsEntry DEF Walk, PDX, HasTable
  <2>2. CASE HasTable(m, va[1])
    <3>1. m.directory[va[1]].frame \in Held(m, r)
      BY <2>2, WalkShape, HeldFrames
    <3> QED BY <3>1 DEF Walk, PDX
  <2> QED BY <2>1, <2>2
<1>2. \A d : HasTable(n, d) <=> HasTable(m, d) BY DEF HasTable
<1>3. \A va \in Pages : Mapped(n, va) <=> Mapped(m, va) BY <1>1 DEF Mapped
<1>4. \A f \in Held(m, r) : Single(n, f) BY HeldFrames DEF Single
<1>5. \A d \in Dirs : HasTable(n, d) => TableAlone(n, r, d)
  BY <1>2, <1>4, HeldFrames DEF SpaceGood, TableAlone
<1>6. ASSUME NEW va \in Pages, Mapped(n, va) PROVE PageAlone(n, r, va)
  <2>1. PageAlone(m, r, va) /\ Walk(m, va).frame \in Held(m, r)
    BY <1>3, <1>6, HeldFrames DEF SpaceGood
  <2> QED BY <1>1, <1>2, <1>3, <1>4, <2>1 DEF PageAlone
<1>7. SpaceGood(n, r) BY <1>4, <1>5, <1>6, HeldFrames DEF SpaceGood
<1>8. TableFrames(n) = TableFrames(m) BY DEF TableFrames, HasTable
<1>9. PageFrames(n) = PageFrames(m) BY <1>1, <1>3 DEF PageFrames
<1> QED BY <1>1, <1>7, <1>8, <1>9 DEF Held

-----------------------------------------------------------------------------
\* The free list.

\* LIST_INSERT_HEAD of a frame that is not listed adds this frame, once.
LEMMA PushFacts ==
    ASSUME NEW q \in Seq(Frames), NEW f \in Frames, IsInjective(q),
           f \notin Range(q)
    PROVE  /\ <<f>> \o q \in Seq(Frames)
           /\ IsInjective(<<f>> \o q)
           /\ Range(<<f>> \o q) = Range(q) \cup {f}
<1> DEFINE t == <<f>> \o q
<1>1. /\ t \in Seq(Frames) /\ Len(t) = Len(q) + 1 /\ t[1] = f
      /\ \A i \in 1 .. Len(q) : t[i + 1] = q[i]
  OBVIOUS
<1>2. \A i \in DOMAIN t : i = 1 \/ (i - 1 \in DOMAIN q /\ t[i] = q[i - 1])
  BY <1>1
<1>3. IsInjective(t)
  BY <1>1, <1>2 DEF IsInjective, Range
<1>4. Range(t) = Range(q) \cup {f}
  <2>1. Range(t) \subseteq Range(q) \cup {f}
    BY <1>1, <1>2 DEF Range
  <2>2. \A i \in DOMAIN q : i + 1 \in DOMAIN t /\ t[i + 1] = q[i]
    BY <1>1
  <2>3. Range(q) \subseteq Range(t)
    BY <2>2 DEF Range
  <2>4. f \in Range(t)
    BY <1>1 DEF Range
  <2> QED BY <2>1, <2>3, <2>4
<1> QED BY <1>1, <1>3, <1>4

\* LIST_REMOVE of the first frame takes this frame off, and no other.
LEMMA PopFacts ==
    ASSUME NEW q \in Seq(Frames), q # <<>>, IsInjective(q)
    PROVE  /\ Tail(q) \in Seq(Frames)
           /\ Head(q) \in Frames
           /\ Head(q) \in Range(q)
           /\ IsInjective(Tail(q))
           /\ Range(Tail(q)) = Range(q) \ {Head(q)}
<1> DEFINE t == Tail(q)
<1>1. /\ t \in Seq(Frames)
      /\ Len(t) = Len(q) - 1
      /\ Len(q) > 0
      /\ Head(q) = q[1]
      /\ \A i \in 1 .. Len(t) : t[i] = q[i + 1]
  OBVIOUS
<1>2. \A i \in DOMAIN t : i + 1 \in DOMAIN q /\ t[i] = q[i + 1] /\ i \in Nat
  BY <1>1
<1>3. 1 \in DOMAIN q /\ Head(q) \in Frames /\ Head(q) \in Range(q)
  BY <1>1 DEF Range
<1>4. IsInjective(t)
  <2> SUFFICES ASSUME NEW i \in DOMAIN t, NEW j \in DOMAIN t, t[i] = t[j]
               PROVE  i = j
    BY DEF IsInjective
  <2>1. i + 1 = j + 1
    BY <1>2 DEF IsInjective
  <2> QED BY <1>2, <2>1
<1>5. Range(t) = Range(q) \ {Head(q)}
  <2>1. \A i \in DOMAIN q : i = 1 \/ (i - 1 \in DOMAIN t /\ t[i - 1] = q[i])
    BY <1>1
  <2>2. ASSUME NEW x \in Range(q), x # Head(q) PROVE x \in Range(t)
    <3>1. PICK i \in DOMAIN q : x = q[i]
      BY DEF Range
    <3> QED BY <1>1, <2>1, <2>2, <3>1 DEF Range
  <2>3. ASSUME NEW x \in Range(t) PROVE x \in Range(q) \ {Head(q)}
    <3>1. PICK j \in DOMAIN t : x = t[j]
      BY DEF Range
    <3>2. j + 1 \in DOMAIN q /\ x = q[j + 1] /\ j + 1 # 1
      BY <1>1, <1>2, <3>1
    <3> QED BY <1>1, <1>3, <3>2 DEF Range, IsInjective
  <2> QED BY <2>2, <2>3
<1> QED BY <1>1, <1>3, <1>4, <1>5

-----------------------------------------------------------------------------
\* The four changes of a space.  The counts of n are those of m, but for
\* frame f; the walks, but for page va; the directory, but for entry d.
CountsBut(n, m, f, c) ==
    /\ n.references[f] = c
    /\ \A g \in Frames : g # f => n.references[g] = m.references[g]

WalksBut(n, m, va, x) ==
    \A vb \in Pages : Walk(n, vb) = IF vb = va THEN x ELSE Walk(m, vb)

SameWalks(n, m) == \A vb \in Pages : Walk(n, vb) = Walk(m, vb)

DirectoryBut(n, m, d, x) ==
    /\ n.directory[d] = x
    /\ \A c \in Dirs : c # d => n.directory[c] = m.directory[c]

\* A mapped page is unmapped, and its frame listed.
LEMMA SpaceUnmapped ==
    ASSUME NEW m, NEW r, SpaceGood(m, r), NEW va \in Pages, Mapped(m, va),
           NEW g, g = Walk(m, va).frame,
           NEW n \in Memories, n.directory = m.directory, ListSound(n),
           CountsBut(n, m, g, 0), Listed(n) = Listed(m) \cup {g},
           WalksBut(n, m, va, ZeroEntry)
    PROVE  /\ SpaceGood(n, r) /\ Held(n, r) = Held(m, r) \ {g}
           /\ g \in Held(m, r)
           /\ \A vb \in Pages : Mapped(n, vb) <=> (Mapped(m, vb) /\ vb # va)
<1>1. /\ g \in Frames /\ g # r /\ g \in Held(m, r)
      /\ \A vb \in Pages : Mapped(m, vb) /\ Walk(m, vb).frame = g => vb = va
      /\ \A d \in Dirs : HasTable(m, d) => m.directory[d].frame # g
  BY UsableFrames, HeldFrames DEF SpaceGood, PageAlone, Single
<1>2. \A vb \in Pages : Mapped(n, vb) <=> (Mapped(m, vb) /\ vb # va)
  BY DEF WalksBut, Mapped
<1>3. \A vb \in Pages : vb # va => Walk(n, vb) = Walk(m, vb)
  BY DEF WalksBut
<1>4. \A d : HasTable(n, d) <=> HasTable(m, d) BY DEF HasTable
<1>5. \A f \in Held(m, r) \ {g} : Single(n, f)
  BY HeldFrames, UsableFrames DEF Single, CountsBut
<1>6. ASSUME NEW d \in Dirs, HasTable(n, d) PROVE TableAlone(n, r, d)
  <2>1. TableAlone(m, r, d) /\ m.directory[d].frame \in Held(m, r) \ {g}
    BY <1>1, <1>4, <1>6, HeldFrames DEF SpaceGood
  <2> QED BY <1>4, <1>5, <2>1 DEF TableAlone
<1>7. ASSUME NEW vb \in Pages, Mapped(n, vb) PROVE PageAlone(n, r, vb)
  <2>1. /\ PageAlone(m, r, vb) /\ Walk(m, vb).frame \in Held(m, r) \ {g}
        /\ Walk(n, vb) = Walk(m, vb)
    BY <1>1, <1>2, <1>3, <1>7, HeldFrames DEF SpaceGood
  <2>2. \A vc \in Pages : Mapped(n, vc) => Mapped(m, vc) /\ Walk(n, vc) = Walk(m, vc)
    BY <1>2, <1>3
  <2> QED BY <1>4, <1>5, <2>1, <2>2 DEF PageAlone
<1>8. SpaceGood(n, r)
  BY <1>1, <1>5, <1>6, <1>7, HeldFrames DEF SpaceGood
<1>9. TableFrames(n) = TableFrames(m) /\ g \notin TableFrames(m)
  BY <1>1 DEF TableFrames, HasTable
<1>10. PageFrames(n) = PageFrames(m) \ {g}
  BY <1>1, <1>2, <1>3 DEF PageFrames
<1> QED BY <1>1, <1>2, <1>8, <1>9, <1>10 DEF Held

\* A frame from outside is mapped at a page that is free.
LEMMA SpaceWritten ==
    ASSUME NEW m, NEW r, SpaceGood(m, r), NEW va \in Pages, ~Mapped(m, va),
           NEW f \in Usable \ Pool(m, r),
           NEW n \in Memories, n.directory = m.directory, n.free = m.free,
           CountsBut(n, m, f, 1),
           NEW x, x.frame = f, PERM_PRESENT \in x.perm, WalksBut(n, m, va, x)
    PROVE  SpaceGood(n, r) /\ Held(n, r) = Held(m, r) \cup {f}
<1>1. /\ f \in Usable /\ f \in Frames /\ f \notin Listed(m) /\ f # r
      /\ f \notin Held(m, r) /\ x # ZeroEntry
  BY UsableFrames, PresentIsNotZero, HeldFrames DEF Pool
<1>2. /\ \A d \in Dirs : HasTable(m, d) => m.directory[d].frame # f
      /\ \A vb \in Pages : Mapped(m, vb) => Walk(m, vb).frame # f
  BY <1>1, HeldFrames
<1>3. \A vb \in Pages : vb # va =>
            (Mapped(n, vb) <=> Mapped(m, vb)) /\ Walk(n, vb) = Walk(m, vb)
  BY DEF WalksBut, Mapped
<1>4. Walk(n, va) = x /\ Mapped(n, va)
  BY <1>1 DEF WalksBut, Mapped
<1>5. \A d : HasTable(n, d) <=> HasTable(m, d) BY DEF HasTable
<1>6. \A g \in Held(m, r) \cup {f} : Single(n, g)
  BY <1>1, HeldFrames, UsableFrames DEF Single, CountsBut, Listed
<1>7. ASSUME NEW d \in Dirs, HasTable(n, d) PROVE TableAlone(n, r, d)
  <2>1. TableAlone(m, r, d) /\ m.directory[d].frame \in Held(m, r)
    BY <1>5, <1>7, HeldFrames DEF SpaceGood
  <2> QED BY <1>5, <1>6, <2>1 DEF TableAlone
<1>8. ASSUME NEW vb \in Pages, Mapped(n, vb) PROVE PageAlone(n, r, vb)
  <2>1. CASE vb = va
    BY <1>1, <1>2, <1>3, <1>4, <1>5, <1>6, <2>1 DEF PageAlone
  <2>2. CASE vb # va
    <3>1. /\ PageAlone(m, r, vb) /\ Walk(n, vb) = Walk(m, vb)
          /\ Walk(m, vb).frame \in Held(m, r) /\ Walk(m, vb).frame # f
      BY <1>2, <1>3, <1>8, <2>2, HeldFrames DEF SpaceGood
    <3>2. \A vc \in Pages : Mapped(n, vc) /\ Walk(n, vc).frame = Walk(n, vb).frame
                                => Mapped(m, vc) /\ Walk(n, vc) = Walk(m, vc)
      BY <1>3, <1>4, <3>1
    <3> QED BY <1>5, <1>6, <3>1, <3>2 DEF PageAlone
  <2> QED BY <2>1, <2>2
<1>9. SpaceGood(n, r)
  <2>1. ListSound(n) BY DEF SpaceGood, ListSound, Listed
  <2> QED BY <1>6, <1>7, <1>8, <2>1, HeldFrames DEF SpaceGood
<1>10. TableFrames(n) = TableFrames(m) BY DEF TableFrames, HasTable
<1>11. PageFrames(n) = PageFrames(m) \cup {f}
  BY <1>1, <1>3, <1>4 DEF PageFrames
<1> QED BY <1>9, <1>10, <1>11 DEF Held

\* A frame from outside becomes a page table.
LEMMA SpaceInstalled ==
    ASSUME NEW m, NEW r, SpaceGood(m, r), NEW d \in Dirs, ~HasTable(m, d),
           NEW f \in Usable \ Pool(m, r),
           NEW n \in Memories, NEW x, x.frame = f, PERM_PRESENT \in x.perm,
           DirectoryBut(n, m, d, x), n.free = m.free, CountsBut(n, m, f, 1),
           SameWalks(n, m)
    PROVE  SpaceGood(n, r) /\ Held(n, r) = Held(m, r) \cup {f}
<1> USE DEF SameWalks, DirectoryBut
<1>1. /\ f \in Usable /\ f \in Frames /\ f \notin Listed(m) /\ f # r
      /\ f \notin Held(m, r) /\ x # ZeroEntry
  BY UsableFrames, PresentIsNotZero, HeldFrames DEF Pool
<1>2. /\ \A c \in Dirs : HasTable(m, c) => m.directory[c].frame # f
      /\ \A vb \in Pages : Mapped(m, vb) => Walk(m, vb).frame # f
  BY <1>1, HeldFrames
<1>3. \A vb \in Pages : Mapped(n, vb) <=> Mapped(m, vb) BY DEF Mapped
<1>4. /\ HasTable(n, d) /\ n.directory[d].frame = f
      /\ \A c \in Dirs : c # d => /\ HasTable(n, c) <=> HasTable(m, c)
                                  /\ n.directory[c] = m.directory[c]
  BY <1>1 DEF HasTable
<1>5. \A g \in Held(m, r) \cup {f} : Single(n, g)
  BY <1>1, HeldFrames, UsableFrames DEF Single, CountsBut, Listed
<1>6. ASSUME NEW c \in Dirs, HasTable(n, c) PROVE TableAlone(n, r, c)
  <2>1. CASE c = d
    BY <1>1, <1>2, <1>4, <1>5, <2>1 DEF TableAlone
  <2>2. CASE c # d
    <3>1. /\ TableAlone(m, r, c) /\ m.directory[c].frame # f
          /\ m.directory[c].frame \in Held(m, r)
      BY <1>2, <1>4, <1>6, <2>2, HeldFrames DEF SpaceGood
    <3> QED BY <1>4, <1>5, <2>2, <3>1 DEF TableAlone
  <2> QED BY <2>1, <2>2
<1>7. ASSUME NEW vb \in Pages, Mapped(n, vb) PROVE PageAlone(n, r, vb)
  <2>1. /\ PageAlone(m, r, vb) /\ Walk(n, vb) = Walk(m, vb)
        /\ Walk(m, vb).frame \in Held(m, r) /\ Walk(m, vb).frame # f
    BY <1>2, <1>3, <1>7, HeldFrames DEF SpaceGood
  <2> QED BY <1>3, <1>4, <1>5, <2>1 DEF PageAlone
<1>8. SpaceGood(n, r)
  <2>1. ListSound(n) BY DEF SpaceGood, ListSound, Listed
  <2> QED BY <1>5, <1>6, <1>7, <2>1, HeldFrames DEF SpaceGood
<1>9. TableFrames(n) = TableFrames(m) \cup {f}
  <2>1. \A c \in Dirs : HasTable(n, c) => n.directory[c].frame \in TableFrames(m) \cup {f}
    BY <1>4 DEF TableFrames
  <2>2. \A c \in Dirs : HasTable(m, c) => HasTable(n, c) /\ n.directory[c] = m.directory[c]
    BY <1>4
  <2>3. TableFrames(n) \subseteq TableFrames(m) \cup {f}
    BY <2>1 DEF TableFrames
  <2>4. TableFrames(m) \subseteq TableFrames(n)
    BY <2>2 DEF TableFrames
  <2>5. f \in TableFrames(n)
    BY <1>4 DEF TableFrames
  <2> QED BY <2>3, <2>4, <2>5
<1>10. PageFrames(n) = PageFrames(m) BY <1>3 DEF PageFrames
<1> QED BY <1>8, <1>9, <1>10 DEF Held

\* The page table of entry d is listed, after all its pages.
LEMMA SpaceDropped ==
    ASSUME NEW m, NEW r, SpaceGood(m, r), \A va \in Pages : ~Mapped(m, va),
           NEW d \in Dirs, HasTable(m, d), NEW g, g = m.directory[d].frame,
           NEW n \in Memories, ListSound(n), DirectoryBut(n, m, d, ZeroEntry),
           CountsBut(n, m, g, 0), Listed(n) = Listed(m) \cup {g},
           n.table = m.table
    PROVE  /\ SpaceGood(n, r) /\ Held(n, r) = Held(m, r) \ {g}
           /\ g \in Held(m, r)
           /\ \A va \in Pages : ~Mapped(n, va)
<1> USE DEF DirectoryBut
<1>1. /\ g \in Frames /\ g # r /\ g \in Held(m, r)
      /\ \A c \in Dirs : HasTable(m, c) /\ m.directory[c].frame = g => c = d
  BY UsableFrames, HeldFrames DEF SpaceGood, TableAlone, Single
<1>2. \A c \in Dirs : /\ HasTable(n, c) <=> (HasTable(m, c) /\ c # d)
                      /\ c # d => n.directory[c] = m.directory[c]
  BY DEF HasTable
<1>3. ASSUME NEW va \in Pages PROVE ~Mapped(n, va)
  <2>1. va[1] \in Dirs /\ Walk(m, va) = ZeroEntry BY PageParts DEF Mapped
  <2>2. CASE va[1] = d
    BY <2>2, ZeroIsEntry DEF Mapped, Walk, PDX
  <2>3. CASE va[1] # d
    BY <2>1, <2>3 DEF Mapped, Walk, PDX
  <2> QED BY <2>2, <2>3
<1>4. \A f \in Held(m, r) \ {g} : Single(n, f)
  BY HeldFrames, UsableFrames DEF Single, CountsBut
<1>5. ASSUME NEW c \in Dirs, HasTable(n, c) PROVE TableAlone(n, r, c)
  <2>1. /\ TableAlone(m, r, c) /\ m.directory[c].frame \in Held(m, r) \ {g}
        /\ n.directory[c] = m.directory[c]
    BY <1>1, <1>2, <1>5, HeldFrames DEF SpaceGood
  <2> QED BY <1>2, <1>4, <2>1 DEF TableAlone
<1>6. SpaceGood(n, r)
  BY <1>1, <1>3, <1>4, <1>5, HeldFrames DEF SpaceGood
<1>7. PageFrames(m) = {} /\ PageFrames(n) = {} BY <1>3 DEF PageFrames
<1>8. TableFrames(n) = TableFrames(m) \ {g}
  <2>1. \A c \in Dirs : HasTable(n, c) => n.directory[c].frame \in TableFrames(m) \ {g}
    BY <1>1, <1>2 DEF TableFrames
  <2>2. \A c \in Dirs : HasTable(m, c) /\ m.directory[c].frame # g =>
            HasTable(n, c) /\ n.directory[c] = m.directory[c]
    BY <1>2
  <2>3. TableFrames(n) \subseteq TableFrames(m) \ {g}
    BY <2>1 DEF TableFrames
  <2>4. TableFrames(m) \ {g} \subseteq TableFrames(n)
    BY <2>2 DEF TableFrames
  <2> QED BY <2>3, <2>4
<1> QED BY <1>1, <1>3, <1>6, <1>7, <1>8 DEF Held

-----------------------------------------------------------------------------
\* The functions of the memory manager, in a space.

\* The page tables after a store to the entry of va.
StoredTable(m, va, x) ==
    [m.table EXCEPT ![m.directory[va[1]].frame][va[2]] = x]

\* Writing one entry of one table: one walk changes, the tables of other frames
\* stay.
LEMMA StoreEntry ==
    ASSUME NEW m, NEW r, SpaceGood(m, r), NEW va \in Pages, HasTable(m, va[1]),
           NEW x \in Entries, NEW n, n.directory = m.directory,
           n.table = StoredTable(m, va, x)
    PROVE  /\ n.table \in [Frames -> [Slots -> Entries]]
           /\ WalksBut(n, m, va, x)
           /\ \A f \in Frames \ Held(m, r) : n.table[f] = m.table[f]
<1> DEFINE t == m.directory[va[1]].frame
<1>1. /\ t \in Frames /\ va[1] \in Dirs /\ va[2] \in Slots
      /\ PERM_PRESENT \in m.directory[va[1]].perm
      /\ t \in Held(m, r)
  BY WalkShape, HeldFrames
<1>3. m.table \in [Frames -> [Slots -> Entries]]
  BY MemoryParts DEF SpaceGood, MemoryTypes
<1>4. /\ n.table \in [Frames -> [Slots -> Entries]]
      /\ n.table[t][va[2]] = x
      /\ \A s \in Slots : s # va[2] => n.table[t][s] = m.table[t][s]
      /\ \A g \in Frames : g # t => n.table[g] = m.table[g]
  <2> DEFINE row == [m.table[t] EXCEPT ![va[2]] = x]
  <2>1. m.table[t] \in [Slots -> Entries]
    BY <1>1, <1>3
  <2>2. /\ row \in [Slots -> Entries] /\ row[va[2]] = x
        /\ \A s \in Slots : s # va[2] => row[s] = m.table[t][s]
    BY <1>1, <2>1
  <2>3. n.table = [m.table EXCEPT ![t] = row]
    BY DEF StoredTable
  <2> HIDE DEF row, t
  <2> QED BY <1>1, <1>3, <2>2, <2>3
<1>5. Walk(n, va) = x
  BY <1>1, <1>4 DEF Walk, PDX, PTX
<1>6. ASSUME NEW vb \in Pages, vb # va
      PROVE  Walk(n, vb) = Walk(m, vb)
  <2>1. /\ vb[1] \in Dirs /\ vb[2] \in Slots
        /\ HasTable(m, vb[1]) => m.directory[vb[1]].frame \in Frames
    BY WalkShape
  <2>2. vb[1] # va[1] \/ vb[2] # va[2]
    BY <1>6 DEF Pages
  <2>3. CASE ~HasTable(m, vb[1])
    BY <2>3, ZeroIsEntry DEF Walk, PDX, PTX, HasTable
  <2>4. CASE HasTable(m, vb[1]) /\ vb[1] = va[1]
    BY <1>4, <2>1, <2>2, <2>4 DEF Walk, PDX, PTX
  <2>5. CASE HasTable(m, vb[1]) /\ vb[1] # va[1]
    <3>1. m.directory[vb[1]].frame # t
      BY <1>1, <2>1, <2>5 DEF SpaceGood, TableAlone
    <3> QED BY <1>4, <2>1, <2>5, <3>1 DEF Walk, PDX, PTX
  <2> QED BY <2>3, <2>4, <2>5
<1> QED BY <1>1, <1>4, <1>5, <1>6 DEF WalksBut

\* allocate_frame takes the first frame of the list, unless there is none.
LEMMA AllocateNone ==
    ASSUME NEW m, m.free = <<>>
    PROVE  allocate_frame(m) = [ret |-> E_NO_MEM, frame |-> NULL, mem |-> m]
BY DEF allocate_frame

\* allocate_frame: the head of the list is nobody's, and no walk changes.
LEMMA AllocateSpace ==
    ASSUME NEW m, NEW r, SpaceGood(m, r), m.free # <<>>,
           NEW f, f = Head(m.free), NEW a, a = allocate_frame(m),
           NEW n, n = a.mem
    PROVE  /\ a.ret = 0 /\ a.frame = f /\ f \in Usable /\ f \notin Held(m, r)
           /\ n.free = Tail(m.free) /\ Listed(n) = Listed(m) \ {f}
           /\ f \in Listed(m)
           /\ n.directory = m.directory /\ n.table = m.table
           /\ n.references = [m.references EXCEPT ![f] = 0]
           /\ SpaceGood(n, r) /\ Held(n, r) = Held(m, r)
           /\ \A vb \in Pages : Walk(n, vb) = Walk(m, vb)
<1> DEFINE c == [m.references EXCEPT ![f] = 0]
<1>1. /\ IsMemory(m) /\ MemoryTypes(m) /\ IsInjective(m.free)
      /\ Listed(m) \subseteq Usable
  BY MemoryParts DEF SpaceGood, ListSound
<1>2. /\ Tail(m.free) \in Seq(Frames) /\ f \in Frames /\ f \in Range(m.free)
      /\ IsInjective(Tail(m.free))
      /\ Range(Tail(m.free)) = Range(m.free) \ {f}
  BY <1>1, PopFacts DEF MemoryTypes
<1>3. f \in Listed(m) /\ f \in Usable /\ f \notin Held(m, r)
  BY <1>1, <1>2, HeldFrames DEF Listed, Single
<1>4. /\ a.ret = 0 /\ a.frame = f
      /\ n = [[m EXCEPT !.free = Tail(m.free)] EXCEPT !.references[f] = 0]
  BY DEF allocate_frame, LIST_REMOVE_FIRST, initialize_frame_info
<1>5. /\ n.free = Tail(m.free) /\ n.directory = m.directory
      /\ n.table = m.table /\ n.tlb = m.tlb /\ n.references = c
      /\ IsMemory(n)
  BY <1>1, <1>4 DEF IsMemory
<1>6. c \in [Frames -> 0 .. RefModulus - 1] /\ \A g \in Frames : g # f => c[g] = m.references[g]
  BY <1>1, <1>2, RefModulusAssumption DEF MemoryTypes
<1> HIDE DEF c
<1>7. n \in Memories
  BY <1>1, <1>2, <1>5, <1>6, MemoryParts DEF MemoryTypes
<1>8. Listed(n) = Listed(m) \ {f} /\ ListSound(n)
  BY <1>1, <1>2, <1>5 DEF Listed, ListSound
<1>9. \A g \in Held(m, r) : /\ n.references[g] = m.references[g]
                            /\ n.table[g] = m.table[g] /\ g \notin Listed(n)
  BY <1>3, <1>5, <1>6, <1>8, HeldFrames, UsableFrames DEF Single
<1>10. /\ SpaceGood(n, r) /\ Held(n, r) = Held(m, r)
       /\ \A vb \in Pages : Walk(n, vb) = Walk(m, vb)
  BY <1>5, <1>7, <1>8, <1>9, SpaceKept
<1> QED BY <1>3, <1>4, <1>5, <1>8, <1>10 DEF c

\* The path of get_page_table that makes a table.
Installing(m, r, f, d, n) ==
    /\ SpaceGood(m, r) /\ f \in Usable \ Pool(m, r) /\ d \in Dirs
    /\ ~HasTable(m, d) /\ n = InstallTable(m, f, d)

Installed(m, r, f, d, n) ==
    /\ SpaceGood(n, r) /\ Held(n, r) = Held(m, r) \cup {f}
    /\ HasTable(n, d) /\ n.directory[d].frame = f
    /\ n.free = m.free /\ Local(n, m, {f})
    /\ SameWalks(n, m)

\* get_page_table with create: the new table belongs to the space, and is empty.
LEMMA InstallSpace ==
    ASSUME NEW m, NEW r, NEW f, NEW d, NEW n, Installing(m, r, f, d, n)
    PROVE  Installed(m, r, f, d, n)
<1> SUFFICES ASSUME SpaceGood(m, r), f \in Usable \ Pool(m, r), d \in Dirs,
                    ~HasTable(m, d), n = InstallTable(m, f, d)
             PROVE  Installed(m, r, f, d, n)
  BY DEF Installing
<1> DEFINE x == CONSTRUCT_ENTRY(f, {PERM_PRESENT, PERM_USER, PERM_WRITEABLE})
<1>1. /\ IsMemory(m) /\ MemoryTypes(m) /\ f \in Frames /\ f \notin Held(m, r)
  BY UsableFrames, MemoryParts DEF SpaceGood, Pool
<1>2. x \in Entries /\ x.frame = f /\ PERM_PRESENT \in x.perm
  BY <1>1 DEF CONSTRUCT_ENTRY, Entries, PermBits
<1>3. /\ ZeroTable \in [Slots -> Entries]
      /\ \A s \in Slots : ZeroTable[s] = ZeroEntry
  BY ZeroIsEntry DEF ZeroTable
<1>4. /\ n.free = m.free /\ n.tlb = m.tlb
      /\ n.references = [m.references EXCEPT ![f] = 1]
      /\ n.directory = [m.directory EXCEPT ![d] = x]
      /\ n.table = [m.table EXCEPT ![f] = ZeroTable]
      /\ IsMemory(n)
  <2>1. n = [m EXCEPT !.table = [m.table EXCEPT ![f] = ZeroTable],
                      !.references = [m.references EXCEPT ![f] = 1],
                      !.directory = [m.directory EXCEPT ![d] = x]]
    BY <1>1, Zenon DEF InstallTable, x
  <2> HIDE DEF x
  <2> QED BY <1>1, <2>1 DEF IsMemory
<1> HIDE DEF x
<1>5. n \in Memories
  <2>1. n.references \in [Frames -> 0 .. RefModulus - 1]
    BY <1>1, <1>4, RefModulusAssumption DEF MemoryTypes
  <2>2. n.directory \in [Dirs -> Entries]
    BY <1>1, <1>2, <1>4 DEF MemoryTypes
  <2>3. n.table \in [Frames -> [Slots -> Entries]]
    BY <1>1, <1>3, <1>4 DEF MemoryTypes
  <2> QED BY <1>1, <1>4, <2>1, <2>2, <2>3, MemoryParts DEF MemoryTypes
<1>6. /\ DirectoryBut(n, m, d, x)
      /\ n.table[f] = ZeroTable
      /\ \A g \in Frames : g # f => n.table[g] = m.table[g]
      /\ CountsBut(n, m, f, 1)
  BY <1>1, <1>4 DEF CountsBut, DirectoryBut, MemoryTypes
<1>7. ASSUME NEW va \in Pages
      PROVE  Walk(n, va) = Walk(m, va)
  <2>1. /\ va[1] \in Dirs /\ va[2] \in Slots
        /\ ~HasTable(m, va[1]) => Walk(m, va) = ZeroEntry
        /\ HasTable(m, va[1]) =>
             /\ m.directory[va[1]].frame \in Frames
             /\ m.directory[va[1]].frame \in Held(m, r)
             /\ Walk(m, va) = m.table[m.directory[va[1]].frame][va[2]]
    BY WalkShape, HeldFrames
  <2>2. CASE va[1] = d
    BY <1>2, <1>3, <1>6, <2>1, <2>2 DEF Walk, PDX, PTX, DirectoryBut
  <2>3. CASE va[1] # d /\ ~HasTable(m, va[1])
    BY <1>6, <2>1, <2>3, ZeroIsEntry DEF Walk, PDX, PTX, HasTable, DirectoryBut
  <2>4. CASE va[1] # d /\ HasTable(m, va[1])
    <3>1. m.directory[va[1]].frame # f
      BY <1>1, <2>1, <2>4
    <3>2. n.directory[va[1]] = m.directory[va[1]]
      BY <1>6, <2>1, <2>4 DEF DirectoryBut
    <3> QED BY <1>6, <2>1, <2>4, <3>1, <3>2 DEF Walk, PDX, PTX
  <2> QED BY <2>2, <2>3, <2>4
<1>8. SpaceGood(n, r) /\ Held(n, r) = Held(m, r) \cup {f}
  <2>1. SameWalks(n, m) BY <1>7 DEF SameWalks
  <2>2. CountsBut(n, m, f, 1) /\ n.free = m.free BY <1>4, <1>6
  <2> QED BY <1>2, <1>5, <1>6, <2>1, <2>2, SpaceInstalled
<1>9. HasTable(n, d) /\ n.directory[d].frame = f
  BY <1>2, <1>6, PresentIsNotZero DEF HasTable, DirectoryBut
<1>10. Local(n, m, {f})
  BY <1>6 DEF Local, CountsBut
<1> QED BY <1>4, <1>7, <1>8, <1>9, <1>10 DEF SameWalks, Installed

\* The last two statements of map_frame.
Writing(m, r, va, f, perm, n) ==
    /\ SpaceGood(m, r) /\ va \in Pages /\ HasTable(m, va[1]) /\ ~Mapped(m, va)
    /\ f \in Usable \ Pool(m, r) /\ m.references[f] = 0 /\ perm \in SUBSET PermBits
    /\ n = WriteEntry(m, f, m.directory[va[1]].frame, va, perm)

Written(m, r, f, n) ==
    /\ SpaceGood(n, r) /\ Held(n, r) = Held(m, r) \cup {f}
    /\ n.free = m.free /\ Local(n, m, Held(m, r) \cup {f})

\* map_frame writing the entry: the frame now belongs to the space.
LEMMA WriteSpace ==
    ASSUME NEW m, NEW r, NEW va, NEW f, NEW perm, NEW n,
           Writing(m, r, va, f, perm, n)
    PROVE  Written(m, r, f, n)
<1> SUFFICES ASSUME SpaceGood(m, r), va \in Pages, HasTable(m, va[1]),
                    ~Mapped(m, va), f \in Usable \ Pool(m, r),
                    m.references[f] = 0, perm \in SUBSET PermBits,
                    n = WriteEntry(m, f, m.directory[va[1]].frame, va, perm)
             PROVE  Written(m, r, f, n)
  BY DEF Writing
<1> DEFINE x == CONSTRUCT_ENTRY(f, perm \cup {PERM_PRESENT})
           c == (m.references[f] + 1) % RefModulus
           q == [m.references EXCEPT ![f] = c]
<1>1. IsMemory(m) /\ MemoryTypes(m) /\ f \in Frames
  BY UsableFrames, MemoryParts DEF SpaceGood
<1>2. c = 1 /\ 1 \in 0 .. RefModulus - 1
  BY RefModulusAssumption
<1>3. x \in Entries /\ x.frame = f /\ PERM_PRESENT \in x.perm
  BY <1>1 DEF CONSTRUCT_ENTRY, Entries, PermBits
<1>4. /\ n.free = m.free /\ n.references = q
      /\ n.directory = m.directory /\ n.tlb = m.tlb
      /\ n.table = StoredTable(m, va, x)
      /\ IsMemory(n)
  <2>1. n = [m EXCEPT !.references = q, !.table = StoredTable(m, va, x)]
    BY Zenon DEF WriteEntry, StoredTable, PTX
  <2> HIDE DEF q, x
  <2> QED BY <1>1, <2>1 DEF IsMemory
<1> HIDE DEF c, x
<1>5. n.references \in [Frames -> 0 .. RefModulus - 1] /\ CountsBut(n, m, f, 1)
  BY <1>1, <1>2, <1>4 DEF CountsBut, MemoryTypes
<1> HIDE DEF q
<1>6. /\ n.table \in [Frames -> [Slots -> Entries]] /\ WalksBut(n, m, va, x)
      /\ \A g \in Frames \ Held(m, r) : n.table[g] = m.table[g]
  BY <1>3, <1>4, StoreEntry
<1>7. n \in Memories
  BY <1>1, <1>4, <1>5, <1>6, MemoryParts DEF MemoryTypes
<1>8. SpaceGood(n, r) /\ Held(n, r) = Held(m, r) \cup {f}
  BY <1>3, <1>4, <1>5, <1>6, <1>7, SpaceWritten
<1>9. Local(n, m, Held(m, r) \cup {f})
  BY <1>5, <1>6 DEF Local, CountsBut
<1> QED BY <1>4, <1>8, <1>9 DEF Written

\* The counts with one of them set, the list with one more frame, the TLB
\* without one page.
CountSet(m, g, c) == [m.references EXCEPT ![g] = c]
Pushed(m, g) == <<g>> \o m.free
Flushed(m, va) == [m.tlb EXCEPT ![va] = ZeroEntry]

\* decrement_references of a frame with one reference lists it; with none,
\* the counter wraps around and nothing else happens.
LEMMA Decrement ==
    ASSUME NEW m, m \in Memories, NEW g \in Frames, NEW n,
           n = decrement_references(m, g)
    PROVE  /\ m.references[g] = 1 => /\ n.free = Pushed(m, g)
                                     /\ n.references = CountSet(m, g, 0)
           /\ m.references[g] = 0 =>
                /\ n.free = m.free
                /\ n.references = CountSet(m, g, RefModulus - 1)
           /\ n.directory = m.directory /\ n.table = m.table /\ n.tlb = m.tlb
           /\ IsMemory(n)
<1> DEFINE c == (m.references[g] - 1) % RefModulus
           q == CountSet(m, g, c)
           d == [m EXCEPT !.references = q]
<1>1. IsMemory(m) /\ MemoryTypes(m) BY MemoryParts
<1>2. q[g] = c BY <1>1 DEF MemoryTypes, CountSet
<1>3. m.references[g] = 1 => c = 0
  BY RefModulusAssumption
<1>4. m.references[g] = 0 => c = RefModulus - 1 /\ c # 0
  BY RefModulusAssumption
<1>5. n = IF d.references[g] = 0 THEN free_frame(d, g) ELSE d
  BY DEF decrement_references, CountSet
<1> HIDE DEF c, q
<1>6. /\ d.free = m.free /\ d.directory = m.directory /\ d.table = m.table
      /\ d.tlb = m.tlb /\ d.references = q /\ IsMemory(d)
  BY <1>1 DEF IsMemory
<1> HIDE DEF d
<1>7. CASE c = 0
  <2>1. n = [d EXCEPT !.free = <<g>> \o d.free]
    BY <1>2, <1>5, <1>6, <1>7 DEF free_frame, LIST_INSERT_HEAD
  <2>2. /\ n.free = Pushed(m, g) /\ n.directory = m.directory
        /\ n.table = m.table /\ n.tlb = m.tlb /\ n.references = q /\ IsMemory(n)
    BY <1>6, <2>1 DEF IsMemory, Pushed
  <2>3. q = CountSet(m, g, 0) BY <1>7 DEF q
  <2> QED BY <1>4, <1>7, <2>2, <2>3
<1>8. CASE c # 0
  <2>1. n = d BY <1>2, <1>5, <1>6, <1>8
  <2>2. m.references[g] = 0 => q = CountSet(m, g, RefModulus - 1)
    BY <1>4 DEF q
  <2> QED BY <1>3, <1>6, <1>8, <2>1, <2>2
<1> QED BY <1>7, <1>8

\* get_frame_info finds what the walk finds.
LEMMA FrameInfo ==
    ASSUME NEW m, NEW r, SpaceGood(m, r), NEW va \in Pages,
           NEW i, i = get_frame_info(m, va)
    PROVE  /\ ~Mapped(m, va) => i.frame = NULL
           /\ Mapped(m, va) =>
                /\ HasTable(m, va[1])
                /\ i.frame = Walk(m, va).frame /\ i.frame # NULL
                /\ i.table = m.directory[va[1]].frame
<1>1. /\ ~HasTable(m, va[1]) => Walk(m, va) = ZeroEntry
      /\ HasTable(m, va[1]) =>
            /\ m.directory[va[1]].frame # NULL
            /\ Walk(m, va) = m.table[m.directory[va[1]].frame][va[2]]
  BY WalkShape
<1>2. CASE ~HasTable(m, va[1])
  <2>1. get_page_table(m, va, FALSE).table = NULL
    BY <1>2 DEF get_page_table, PDX, HasTable
  <2> QED BY <1>1, <1>2, <2>1 DEF get_frame_info, Mapped
<1>3. CASE HasTable(m, va[1])
  <2>1. get_page_table(m, va, FALSE).table = m.directory[va[1]].frame
    BY <1>3 DEF get_page_table, PDX, HasTable
  <2>2. Mapped(m, va) => Walk(m, va).frame # NULL
    BY HeldFrames, UsableFrames
  <2> QED BY <1>1, <1>3, <2>1, <2>2 DEF get_frame_info, PTX, Mapped
<1> QED BY <1>2, <1>3

Cleared(d, t, va) == [d.table EXCEPT ![t][va[2]] = ZeroEntry]

\* The last two statements of unmap_frame.
LEMMA ClearEntry ==
    ASSUME NEW d, IsMemory(d), NEW t, NEW va,
           NEW n, n = tlb_invalidate([d EXCEPT !.table[t][PTX(va)] = ZeroEntry], va)
    PROVE  /\ n.free = d.free /\ n.references = d.references
           /\ n.directory = d.directory /\ n.tlb = Flushed(d, va)
           /\ n.table = Cleared(d, t, va) /\ IsMemory(n)
<1> DEFINE q == [d.table EXCEPT ![t][va[2]] = ZeroEntry]
           u == [d.tlb EXCEPT ![va] = ZeroEntry]
<1>1. n = [d EXCEPT !.table = q, !.tlb = u]
  <2>1. d.tlb = [d EXCEPT !.table = q].tlb BY DEF IsMemory
  <2> QED BY <2>1, Zenon DEF tlb_invalidate, PTX
<1> HIDE DEF q, u
<1>2. /\ n.free = d.free /\ n.references = d.references
      /\ n.directory = d.directory /\ n.tlb = u /\ n.table = q /\ IsMemory(n)
  BY <1>1 DEF IsMemory
<1> QED BY <1>2 DEF q, u, Flushed, Cleared

\* unmap_frame returns the frame of the page, which has no other user.
LEMMA UnmapSpace ==
    ASSUME NEW m, NEW r, SpaceGood(m, r), NEW va \in Pages,
           NEW n, n = unmap_frame(m, va)
    PROVE  /\ SpaceGood(n, r) /\ Pool(n, r) = Pool(m, r)
           /\ Listed(m) \subseteq Listed(n)
           /\ n.directory = m.directory
           /\ \A vb \in Pages : Mapped(n, vb) <=> (Mapped(m, vb) /\ vb # va)
           /\ Local(n, m, Held(m, r))
<1>1. CASE ~Mapped(m, va)
  <2>1. get_frame_info(m, va).frame = NULL BY <1>1, FrameInfo
  <2>2. n = m BY <2>1 DEF unmap_frame
  <2> QED BY <1>1, <2>2 DEF Local
<1>2. CASE Mapped(m, va)
  <2>0. PICK g : g = Walk(m, va).frame OBVIOUS
  <2>a. PICK t : t = m.directory[va[1]].frame OBVIOUS
  <2>b. PICK d : d = decrement_references(m, g) OBVIOUS
  <2>1. /\ get_frame_info(m, va).frame = g /\ get_frame_info(m, va).table = t
        /\ g # NULL /\ HasTable(m, va[1])
    BY <1>2, <2>0, <2>a, FrameInfo
  <2>2. /\ IsMemory(m) /\ MemoryTypes(m) /\ m \in Memories /\ IsInjective(m.free)
        /\ Listed(m) \subseteq Usable
    BY MemoryParts DEF SpaceGood, ListSound
  <2>3. g \in Usable /\ g \in Frames /\ m.references[g] = 1 /\ g \notin Listed(m)
    BY <1>2, <2>0, HeldFrames, UsableFrames DEF Single
  <2>4. n = tlb_invalidate([d EXCEPT !.table[t][PTX(va)] = ZeroEntry], va)
    BY <2>1, <2>b, Zenon DEF unmap_frame
  <2>5. /\ d.free = Pushed(m, g)
        /\ d.references = CountSet(m, g, 0)
        /\ d.directory = m.directory /\ d.table = m.table /\ d.tlb = m.tlb
        /\ IsMemory(d)
    BY <2>2, <2>3, <2>b, Decrement
  <2>7. /\ n.free = Pushed(m, g)
        /\ n.references = CountSet(m, g, 0)
        /\ n.directory = m.directory /\ n.tlb = Flushed(m, va)
        /\ n.table = StoredTable(m, va, ZeroEntry) /\ IsMemory(n)
    <3>1. /\ n.free = d.free /\ n.references = d.references
          /\ n.directory = d.directory /\ n.tlb = Flushed(d, va)
          /\ n.table = Cleared(d, t, va) /\ IsMemory(n)
      BY <2>4, <2>5, ClearEntry
    <3>2. Cleared(d, t, va) = StoredTable(m, va, ZeroEntry)
      BY <2>5, <2>a DEF StoredTable, Cleared
    <3> QED BY <2>5, <3>1, <3>2 DEF Flushed
  <2>9. /\ n.table \in [Frames -> [Slots -> Entries]] /\ WalksBut(n, m, va, ZeroEntry)
        /\ \A f \in Frames \ Held(m, r) : n.table[f] = m.table[f]
    BY <2>1, <2>7, StoreEntry, ZeroIsEntry
  <2>10. /\ n.free \in Seq(Frames) /\ IsInjective(n.free)
         /\ Listed(n) = Listed(m) \cup {g}
    BY <2>2, <2>3, <2>7, PushFacts DEF MemoryTypes, Listed, Pushed
  <2>11. /\ n.references \in [Frames -> 0 .. RefModulus - 1]
         /\ CountsBut(n, m, g, 0)
    BY <2>2, <2>3, <2>7, RefModulusAssumption DEF CountsBut, MemoryTypes, CountSet
  <2>12. n.tlb \in [Pages -> Entries]
    BY <2>2, <2>7, ZeroIsEntry DEF MemoryTypes, Flushed
  <2>13. n \in Memories
    BY <2>2, <2>7, <2>9, <2>10, <2>11, <2>12, MemoryParts DEF MemoryTypes
  <2>14. ListSound(n) BY <2>2, <2>3, <2>10 DEF ListSound
  <2>15. /\ SpaceGood(n, r) /\ Held(n, r) = Held(m, r) \ {g} /\ g \in Held(m, r)
         /\ \A vb \in Pages : Mapped(n, vb) <=> (Mapped(m, vb) /\ vb # va)
    <3>1. SpaceGood(n, r)
      BY <1>2, <2>0, <2>7, <2>9, <2>10, <2>11, <2>13, <2>14, SpaceUnmapped
    <3>2. Held(n, r) = Held(m, r) \ {g}
      BY <1>2, <2>0, <2>7, <2>9, <2>10, <2>11, <2>13, <2>14, SpaceUnmapped
    <3>3. g \in Held(m, r)
      BY <1>2, <2>0, <2>7, <2>9, <2>10, <2>11, <2>13, <2>14, SpaceUnmapped
    <3>4. \A vb \in Pages : Mapped(n, vb) <=> (Mapped(m, vb) /\ vb # va)
      BY <1>2, <2>0, <2>7, <2>9, <2>10, <2>11, <2>13, <2>14, SpaceUnmapped
    <3> QED BY <3>1, <3>2, <3>3, <3>4
  <2>16. Local(n, m, Held(m, r))
    BY <2>9, <2>11, <2>15 DEF Local, CountsBut
  <2> QED BY <2>7, <2>10, <2>15, <2>16 DEF Pool
<1> QED BY <1>1, <1>2

\* What map_frame may come to: out of memory, and nothing has happened; or
\* the frame f belongs to the space.
MapFailed(m, va) == m.free = <<>> /\ ~HasTable(m, va[1])

MapDone(n, m, r, f) ==
    /\ SpaceGood(n, r) /\ Pool(n, r) = Pool(m, r) \cup {f}
    /\ Local(n, m, Pool(m, r) \cup {f})

\* The page table is there, or has just been made.
MapCleared(m, va, t) ==
    IF PERM_PRESENT \in m.table[t][PTX(va)].perm THEN unmap_frame(m, va) ELSE m

MappingInTable(m, r, va, f, perm, t) ==
    /\ SpaceGood(m, r) /\ va \in Pages /\ HasTable(m, va[1])
    /\ f \in Usable \ Pool(m, r) /\ m.references[f] = 0 /\ perm \in SUBSET PermBits
    /\ t = m.directory[va[1]].frame

MappedThere(m, va, f, t) ==
    PERM_PRESENT \in m.table[t][PTX(va)].perm /\ m.table[t][PTX(va)].frame = f

\* map_frame, from where the table is known: what was mapped there is given back
\* and f takes its place.
LEMMA MapInTable ==
    ASSUME NEW m, NEW r, NEW va, NEW f, NEW perm, NEW t,
           MappingInTable(m, r, va, f, perm, t)
    PROVE  /\ ~MappedThere(m, va, f, t)
           /\ MapDone(WriteEntry(MapCleared(m, va, t), f, t, va, perm), m, r, f)
<1> SUFFICES ASSUME SpaceGood(m, r), va \in Pages, HasTable(m, va[1]),
                    f \in Usable \ Pool(m, r), m.references[f] = 0,
                    perm \in SUBSET PermBits, t = m.directory[va[1]].frame,
                    NEW c, c = MapCleared(m, va, t),
                    NEW n, n = WriteEntry(c, f, t, va, perm)
             PROVE  ~MappedThere(m, va, f, t) /\ MapDone(n, m, r, f)
  BY DEF MappingInTable
<1>1. m.table[t][PTX(va)] = Walk(m, va) BY WalkShape DEF PTX
<1>2. PERM_PRESENT \in Walk(m, va).perm <=> Mapped(m, va)
  BY ZeroIsEntry DEF Mapped, SpaceGood, PageAlone
<1>3. f \in Frames /\ f \notin Held(m, r) BY UsableFrames DEF Pool
<1>4. /\ SpaceGood(c, r) /\ Pool(c, r) = Pool(m, r) /\ c.directory = m.directory
      /\ ~Mapped(c, va) /\ Local(c, m, Held(m, r))
  <2>1. CASE Mapped(m, va)
    BY <1>1, <1>2, <2>1, UnmapSpace DEF MapCleared
  <2>2. CASE ~Mapped(m, va)
    <3>1. c = m BY <1>1, <1>2, <2>2 DEF MapCleared
    <3> QED BY <2>2, <3>1 DEF Local
  <2> QED BY <2>1, <2>2
<1>5. HasTable(c, va[1]) /\ t = c.directory[va[1]].frame
  BY <1>4 DEF HasTable
<1>6. c.references[f] = 0 BY <1>3, <1>4 DEF Local
<1>7. /\ SpaceGood(n, r) /\ Held(n, r) = Held(c, r) \cup {f}
      /\ n.free = c.free /\ Local(n, c, Held(c, r) \cup {f})
  <2>1. Writing(c, r, va, f, perm, n) BY <1>4, <1>5, <1>6 DEF Writing
  <2>2. Written(c, r, f, n) BY <2>1, WriteSpace
  <2> QED BY <2>2 DEF Written
<1>8. Pool(n, r) = Pool(m, r) \cup {f}
  BY <1>4, <1>7 DEF Pool, Listed
<1>9. Local(n, m, Pool(m, r) \cup {f})
  <2>1. Held(m, r) \subseteq Pool(m, r) /\ Held(c, r) \subseteq Pool(m, r)
    BY <1>4 DEF Pool
  <2>2. Local(n, c, Pool(m, r) \cup {f}) BY <1>7, <2>1 DEF Local
  <2>3. Local(c, m, Pool(m, r) \cup {f}) BY <1>4, <2>1 DEF Local
  <2> QED BY <2>2, <2>3 DEF Local
<1>10. ~(Mapped(m, va) /\ Walk(m, va).frame = f)
  BY <1>3, HeldFrames
<1> QED BY <1>1, <1>2, <1>7, <1>8, <1>9, <1>10 DEF MapDone, MappedThere

\* map_frame: E_NO_MEM and nothing has changed, or f belongs to the space.
LEMMA MapSpace ==
    ASSUME NEW m, NEW r, SpaceGood(m, r), NEW va \in Pages,
           NEW f \in Usable \ Pool(m, r), m.references[f] = 0,
           NEW perm \in SUBSET PermBits, NEW x, x = map_frame(m, f, va, perm)
    PROVE  \/ x.ret = E_NO_MEM /\ x.mem = m /\ MapFailed(m, va)
           \/ x.ret = 0 /\ MapDone(x.mem, m, r, f)
<1>a. PICK g : g = get_page_table(m, va, TRUE) OBVIOUS
<1>b. PICK q : q = g.mem OBVIOUS
<1>c. PICK t : t = g.table OBVIOUS
<1>d. PICK w : w = WriteEntry(MapCleared(q, va, t), f, t, va, perm) OBVIOUS
<1>0. va[1] \in Dirs BY PageParts
<1>1. x = IF g.ret # 0 THEN [ret |-> E_NO_MEM, mem |-> q]
          ELSE IF MappedThere(q, va, f, t) THEN [ret |-> 0, mem |-> q]
          ELSE [ret |-> 0, mem |-> w]
  BY <1>a, <1>b, <1>c, <1>d, Zenon DEF map_frame, MappedThere, MapCleared
<1>2. E_NO_MEM # 0 BY DEF E_NO_MEM
<1>3. CASE HasTable(m, va[1])
  <2>1. g = [ret |-> 0, table |-> m.directory[va[1]].frame, mem |-> m]
    BY <1>3, <1>a DEF get_page_table, PDX, HasTable
  <2>2. g.ret = 0 /\ t = m.directory[va[1]].frame /\ q = m
    BY <1>b, <1>c, <2>1
  <2>3. MappingInTable(q, r, va, f, perm, t)
    BY <1>3, <2>2 DEF MappingInTable
  <2>4. ~MappedThere(q, va, f, t) /\ MapDone(w, m, r, f)
    BY <1>d, <2>2, <2>3, MapInTable
  <2> QED BY <1>1, <2>2, <2>4
<1>4. CASE ~HasTable(m, va[1]) /\ m.free = <<>>
  <2>1. allocate_frame(m).ret = E_NO_MEM BY <1>4, AllocateNone
  <2>2. g = [ret |-> E_NO_MEM, table |-> NULL, mem |-> m]
    BY <1>4, <1>a, <2>1 DEF get_page_table, PDX, HasTable
  <2> QED BY <1>1, <1>2, <1>4, <1>b, <2>2 DEF MapFailed
<1>5. CASE ~HasTable(m, va[1]) /\ m.free # <<>>
  <2>a. PICK a : a = allocate_frame(m) OBVIOUS
  <2>b. PICK n : n = a.mem OBVIOUS
  <2>c. PICK h : h = Head(m.free) OBVIOUS
  <2>1. /\ a.ret = 0 /\ a.frame = h /\ h \in Usable /\ h \notin Held(m, r)
        /\ Listed(n) = Listed(m) \ {h} /\ h \in Listed(m)
        /\ n.directory = m.directory /\ n.table = m.table
        /\ n.references = [m.references EXCEPT ![h] = 0]
        /\ SpaceGood(n, r) /\ Held(n, r) = Held(m, r)
    BY <1>5, <2>a, <2>b, <2>c, AllocateSpace
  <2>2. g = [ret |-> 0, table |-> h, mem |-> InstallTable(n, h, va[1])]
    BY <1>2, <1>5, <1>a, <2>a, <2>b, <2>1 DEF get_page_table, PDX, HasTable
  <2>3. h \in Usable \ Pool(n, r) /\ ~HasTable(n, va[1])
    BY <1>5, <2>1 DEF Pool, HasTable
  <2>4. g.ret = 0 /\ t = h /\ q = InstallTable(n, h, va[1])
    BY <1>b, <1>c, <2>2
  <2>5. /\ SpaceGood(q, r) /\ Held(q, r) = Held(n, r) \cup {h}
        /\ HasTable(q, va[1]) /\ q.directory[va[1]].frame = h
        /\ q.free = n.free /\ Local(q, n, {h})
    <3>1. Installing(n, r, h, va[1], q) BY <1>0, <2>1, <2>3, <2>4 DEF Installing
    <3>2. Installed(n, r, h, va[1], q) BY <3>1, InstallSpace
    <3> QED BY <3>2 DEF Installed
  <2>6. Pool(q, r) = Pool(m, r) BY <2>1, <2>5 DEF Pool, Listed
  <2>7. f # h /\ f \in Frames BY <2>1, UsableFrames DEF Pool
  <2>8. Local(q, m, {h})
    <3>1. \A u \in Frames \ {h} : n.references[u] = m.references[u]
      BY <2>1, MemoryParts DEF SpaceGood, MemoryTypes
    <3> QED BY <2>1, <2>5, <3>1 DEF Local
  <2>9. q.references[f] = 0 BY <2>7, <2>8 DEF Local
  <2>10. ~MappedThere(q, va, f, t) /\ MapDone(w, q, r, f)
    <3>1. MappingInTable(q, r, va, f, perm, t)
      BY <2>4, <2>5, <2>6, <2>9 DEF MappingInTable
    <3> QED BY <1>d, <3>1, MapInTable
  <2>11. Local(w, m, Pool(m, r) \cup {f})
    BY <2>1, <2>6, <2>8, <2>10 DEF Local, MapDone, Pool
  <2>12. MapDone(w, m, r, f) BY <2>6, <2>10, <2>11 DEF MapDone
  <2> QED BY <1>1, <2>4, <2>10, <2>12
<1> QED BY <1>3, <1>4, <1>5

-----------------------------------------------------------------------------
\* Induction, over sets.

\* A set of numbers has a least one.
LEMMA LeastNumber ==
    ASSUME NEW T, T \subseteq Nat, T # {}
    PROVE  \E x \in T : \A y \in T : x <= y
<1> DEFINE R == {ss \in Nat \X Nat : ss[1] < ss[2]}
<1>1. IsWellFoundedOn(R, Nat) BY NatLessThanWellFounded DEF OpToRel
<1>2. PICK x \in T : \A y \in T : ~ (<<y, x>> \in R)
  <2> HIDE DEF R
  <2> QED BY <1>1, WFMin
<1>3. \A y \in T : ~(y < x) BY <1>2
<1> QED BY <1>3

\* A set that holds 0 and with each number the next one holds all.
LEMMA NumberInduction ==
    ASSUME NEW S, 0 \in S, \A n \in Nat : n \in S => n + 1 \in S
    PROVE  \A n \in Nat : n \in S
<1> SUFFICES ASSUME Nat \ S # {} PROVE FALSE OBVIOUS
<1>1. PICK x \in Nat \ S : \A y \in Nat \ S : x <= y BY LeastNumber
<1>2. x # 0 /\ x - 1 \in Nat BY <1>1
<1>3. x - 1 \in S BY <1>1, <1>2
<1> QED BY <1>2, <1>3

\* The element that FoldSet takes next.
Chosen(T) == CHOOSE x \in T : TRUE

\* Taking the chosen element off a finite set leaves a smaller one.
LEMMA ChosenFacts ==
    ASSUME NEW S, IsFiniteSet(S), NEW T \in SUBSET S, T # {}
    PROVE  /\ Chosen(T) \in T /\ T \ {Chosen(T)} \in SUBSET S
           /\ Cardinality(T) \in Nat \ {0}
           /\ Cardinality(T \ {Chosen(T)}) = Cardinality(T) - 1
<1>1. Chosen(T) \in T BY DEF Chosen
<1>2. IsFiniteSet(T) BY FS_Subset
<1>3. Cardinality(T) \in Nat /\ Cardinality(T) # 0
  BY <1>2, FS_CardinalityType, FS_EmptySet
<1>4. Cardinality(T \ {Chosen(T)}) = Cardinality(T) - 1
  BY <1>1, <1>2, FS_RemoveElement
<1> QED BY <1>1, <1>3, <1>4

\* A set of subsets that holds the empty set and grows by one element.
LEMMA SubsetInduction ==
    ASSUME NEW S, IsFiniteSet(S), NEW P, {} \in P,
           \A T \in SUBSET S : T # {} /\ T \ {Chosen(T)} \in P => T \in P
    PROVE  S \in P
<1> DEFINE N == {n \in Nat : \A T \in SUBSET S : Cardinality(T) = n => T \in P}
<1>1. 0 \in N
  <2>1. ASSUME NEW T \in SUBSET S, Cardinality(T) = 0 PROVE T \in P
    <3>1. IsFiniteSet(T) BY FS_Subset
    <3> QED BY <2>1, <3>1, FS_EmptySet
  <2> QED BY <2>1
<1>2. ASSUME NEW n \in Nat, n \in N PROVE n + 1 \in N
  <2>1. ASSUME NEW T \in SUBSET S, Cardinality(T) = n + 1 PROVE T \in P
    <3>0. Cardinality({}) = 0 BY FS_EmptySet
    <3>1. T # {} BY <2>1, <3>0
    <3>2. Cardinality(T \ {Chosen(T)}) = n /\ T \ {Chosen(T)} \in SUBSET S
      BY <2>1, <3>1, ChosenFacts
    <3> QED BY <1>2, <3>1, <3>2
  <2> QED BY <2>1
<1> HIDE DEF N
<1>3. \A n \in Nat : n \in N BY <1>1, <1>2, NumberInduction
<1>4. Cardinality(S) \in Nat BY FS_CardinalityType
<1>5. Cardinality(S) \in N BY <1>3, <1>4
<1> QED BY <1>5 DEF N

-----------------------------------------------------------------------------
\* The two folds of env_free, as recursive functions.
Freeing(kind, n, x) == IF kind = "page" THEN unmap_frame(n, x) ELSE FreeTable(n, x)

IsFold(kind, m, D, g) ==
    g = [T \in D |-> IF T = {} THEN m ELSE Freeing(kind, g[T \ {Chosen(T)}], Chosen(T))]

UpTo(S, n) == {T \in SUBSET S : Cardinality(T) <= n}

\* A fold over the subsets of at most n elements extends to those of n + 1.
LEMMA FoldGrows ==
    ASSUME NEW S, IsFiniteSet(S), NEW kind, NEW m, NEW n \in Nat, NEW g,
           IsFold(kind, m, UpTo(S, n), g)
    PROVE  \E h : IsFold(kind, m, UpTo(S, n + 1), h)
<1> DEFINE D == UpTo(S, n)
           E == UpTo(S, n + 1)
           h == [T \in E |-> IF T = {} THEN m
                             ELSE Freeing(kind, g[T \ {Chosen(T)}], Chosen(T))]
<1>1. \A T \in SUBSET S : Cardinality(T) \in Nat
  BY FS_Subset, FS_CardinalityType
<1>2. D \subseteq E BY <1>1 DEF UpTo
<1>3. ASSUME NEW T \in E, T # {}
      PROVE  T \ {Chosen(T)} \in D
  BY <1>3, ChosenFacts DEF UpTo
<1>4. \A T \in D : g[T] = IF T = {} THEN m
                          ELSE Freeing(kind, g[T \ {Chosen(T)}], Chosen(T))
  BY DEF IsFold
<1>5. \A T \in E : h[T] = IF T = {} THEN m
                          ELSE Freeing(kind, g[T \ {Chosen(T)}], Chosen(T))
  OBVIOUS
<1>6. \A T \in D : h[T] = g[T] BY <1>2, <1>4, <1>5
<1>7. DOMAIN h = E OBVIOUS
<1>8. h = [T \in E |-> h[T]] OBVIOUS
<1> HIDE DEF h, D, E
<1>9. \A T \in E : h[T] = IF T = {} THEN m
                          ELSE Freeing(kind, h[T \ {Chosen(T)}], Chosen(T))
  BY <1>3, <1>5, <1>6
<1>10. h = [T \in E |-> IF T = {} THEN m
                        ELSE Freeing(kind, h[T \ {Chosen(T)}], Chosen(T))]
  BY <1>8, <1>9
<1> QED BY <1>10 DEF IsFold, E

\* So the fold is defined on every subset.
LEMMA FoldExists ==
    ASSUME NEW S, IsFiniteSet(S), NEW kind, NEW m
    PROVE  \E g : IsFold(kind, m, SUBSET S, g)
<1> DEFINE N == {n \in Nat : \E g : IsFold(kind, m, UpTo(S, n), g)}
<1>1. \A T \in SUBSET S : Cardinality(T) \in Nat /\ (Cardinality(T) = 0 <=> T = {})
  BY FS_Subset, FS_CardinalityType, FS_EmptySet
<1>2. 0 \in N
  <2> DEFINE g == [T \in UpTo(S, 0) |-> m]
  <2>1. \A T \in UpTo(S, 0) : T = {} BY <1>1 DEF UpTo
  <2>2. IsFold(kind, m, UpTo(S, 0), g) BY <2>1 DEF IsFold
  <2> QED BY <2>2
<1>3. ASSUME NEW n \in Nat, n \in N PROVE n + 1 \in N
  BY <1>3, FoldGrows
<1>4. Cardinality(S) \in Nat BY FS_CardinalityType
<1>5. Cardinality(S) \in N
  <2> HIDE DEF N
  <2> QED BY <1>2, <1>3, <1>4, NumberInduction
<1>6. UpTo(S, Cardinality(S)) = SUBSET S
  <2>1. ASSUME NEW T \in SUBSET S PROVE Cardinality(T) <= Cardinality(S)
    BY FS_Subset
  <2> QED BY <2>1 DEF UpTo
<1> QED BY <1>5, <1>6

\* UnmapAll is such a fold: the loop of env_free over the pages.
LEMMA UnmapAllFold ==
    ASSUME NEW m
    PROVE  \E g : IsFold("page", m, SUBSET Pages, g) /\ UnmapAll(m) = g[Pages]
<1> DEFINE Rec(f) == f = [s \in SUBSET Pages |-> IF s = {} THEN m
                            ELSE LET x == CHOOSE y \in s : TRUE
                                 IN  unmap_frame(f[s \ {x}], x)]
           g == CHOOSE f : Rec(f)
<1>1. IsFiniteSet(Pages) BY PagesAssumption, FS_Product DEF Pages
<1>2. PICK h : IsFold("page", m, SUBSET Pages, h) BY <1>1, FoldExists
<1>3. \A f : IsFold("page", m, SUBSET Pages, f) <=> Rec(f)
  BY DEF IsFold, Freeing, Chosen
<1>4. Rec(g)
  <2>1. Rec(h) BY <1>2, <1>3
  <2> HIDE DEF Rec
  <2> QED BY <2>1, Zenon
<1>5. UnmapAll(m) = g[Pages] BY DEF UnmapAll, FoldSet, MapThenFoldSet
<1> QED BY <1>3, <1>4, <1>5

\* FreeTables is such a fold: the loop of env_free over the directory.
LEMMA FreeTablesFold ==
    ASSUME NEW m, NEW S, S = {d \in Dirs : m.directory[d] # ZeroEntry}
    PROVE  \E g : IsFold("table", m, SUBSET S, g) /\ FreeTables(m) = g[S]
<1> DEFINE Rec(f) == f = [s \in SUBSET S |-> IF s = {} THEN m
                            ELSE LET x == CHOOSE y \in s : TRUE
                                 IN  FreeTable(f[s \ {x}], x)]
           g == CHOOSE f : Rec(f)
<1>1. IsFiniteSet(S) BY PagesAssumption, FS_Subset
<1>2. PICK h : IsFold("table", m, SUBSET S, h) BY <1>1, FoldExists
<1>3. \A f : IsFold("table", m, SUBSET S, f) <=> Rec(f)
  BY DEF IsFold, Freeing, Chosen
<1>4. Rec(g)
  <2>1. Rec(h) BY <1>2, <1>3
  <2> HIDE DEF Rec
  <2> QED BY <2>1, Zenon
<1>5. FreeTables(m) = g[S] BY DEF FreeTables, FoldSet, MapThenFoldSet
<1> QED BY <1>3, <1>4, <1>5

-----------------------------------------------------------------------------
\* What an operation does to a space and its frames: all of them are still
\* there, or frame f is not.
Keeps(n, m, r) ==
    SpaceGood(n, r) /\ Pool(n, r) = Pool(m, r) /\ Local(n, m, Pool(m, r))

Drops(n, m, r, f) ==
    /\ SpaceGood(n, r) /\ f \in Pool(m, r)
    /\ Pool(n, r) = Pool(m, r) \ {f} /\ Local(n, m, Pool(m, r))

\* Keeping is transitive.
LEMMA KeepsChain ==
    ASSUME NEW n, NEW c, NEW m, NEW r, Keeps(n, c, r), Keeps(c, m, r)
    PROVE  Keeps(n, m, r)
BY DEF Keeps, Local

\* Outside of more.
LEMMA LocalMore ==
    ASSUME NEW n, NEW m, NEW S, NEW T, Local(n, m, S), S \subseteq T
    PROVE  Local(n, m, T)
BY DEF Local

\* A frame with one reference returns to the list.
Returned(n, m, g) ==
    /\ n \in Memories /\ ListSound(n) /\ Listed(n) = Listed(m) \cup {g}
    /\ CountsBut(n, m, g, 0)
    /\ n.directory = m.directory /\ n.table = m.table /\ n.tlb = m.tlb

\* decrement_references on a frame with one user puts it on the free list.
LEMMA ReturnFrame ==
    ASSUME NEW m, m \in Memories, ListSound(m), NEW g, Single(m, g),
           NEW n, n = decrement_references(m, g)
    PROVE  Returned(n, m, g)
<1>1. /\ IsMemory(m) /\ MemoryTypes(m) /\ IsInjective(m.free)
      /\ Listed(m) \subseteq Usable
  BY MemoryParts DEF ListSound
<1>2. /\ g \in Usable /\ g \in Frames /\ g \notin Range(m.free)
      /\ m.references[g] = 1
  BY UsableFrames DEF Single, Listed
<1>3. /\ n.free = Pushed(m, g) /\ n.references = CountSet(m, g, 0)
      /\ n.directory = m.directory /\ n.table = m.table /\ n.tlb = m.tlb
      /\ IsMemory(n)
  BY <1>2, Decrement
<1>4. /\ n.free \in Seq(Frames) /\ IsInjective(n.free)
      /\ Listed(n) = Listed(m) \cup {g}
  BY <1>1, <1>2, <1>3, PushFacts DEF MemoryTypes, Listed, Pushed
<1>5. /\ n.references \in [Frames -> 0 .. RefModulus - 1]
      /\ CountsBut(n, m, g, 0)
  BY <1>1, <1>2, <1>3, RefModulusAssumption DEF CountsBut, MemoryTypes, CountSet
<1>6. n \in Memories
  BY <1>1, <1>3, <1>4, <1>5, MemoryParts DEF MemoryTypes
<1>7. ListSound(n) BY <1>1, <1>2, <1>4 DEF ListSound
<1> QED BY <1>3, <1>4, <1>5, <1>6, <1>7 DEF Returned

\* FreeTable, when no page is mapped any more.
Dropping(m, r, d) ==
    /\ SpaceGood(m, r) /\ \A va \in Pages : ~Mapped(m, va)
    /\ d \in Dirs /\ HasTable(m, d)

Dropped(n, m, r, d) ==
    /\ Keeps(n, m, r) /\ \A va \in Pages : ~Mapped(n, va)
    /\ \A c \in Dirs : HasTable(n, c) <=> HasTable(m, c) /\ c # d

\* env_free, one table: the frame is listed, its directory entry zero.
LEMMA DropSpace ==
    ASSUME NEW m, NEW r, NEW d, Dropping(m, r, d), NEW n, n = FreeTable(m, d)
    PROVE  Dropped(n, m, r, d)
<1>0. PICK g : g = m.directory[d].frame OBVIOUS
<1>a. PICK c : c = decrement_references(m, g) OBVIOUS
<1>1. SpaceGood(m, r) /\ d \in Dirs /\ HasTable(m, d) BY DEF Dropping
<1>b. \A va \in Pages : ~Mapped(m, va) BY DEF Dropping
<1>2. Single(m, g) BY <1>0, <1>1, HeldFrames
<1>3. m \in Memories /\ ListSound(m) /\ MemoryTypes(m)
  BY <1>1, MemoryParts DEF SpaceGood
<1>4. Returned(c, m, g)
  BY <1>2, <1>3, <1>a, ReturnFrame
<1>5. n = [c EXCEPT !.directory = [c.directory EXCEPT ![d] = ZeroEntry]]
  BY <1>0, <1>a DEF FreeTable
<1>6. PICK x : x = [c.directory EXCEPT ![d] = ZeroEntry] OBVIOUS
<1>7. IsMemory(c) /\ MemoryTypes(c) BY <1>4, MemoryParts DEF Returned
<1>8. /\ n.free = c.free /\ n.references = c.references /\ n.table = c.table
      /\ n.tlb = c.tlb /\ n.directory = x /\ IsMemory(n)
  BY <1>5, <1>6, <1>7 DEF IsMemory
<1>9. /\ x \in [Dirs -> Entries]
      /\ x[d] = ZeroEntry /\ \A e \in Dirs : e # d => x[e] = c.directory[e]
  BY <1>1, <1>6, <1>7, ZeroIsEntry DEF MemoryTypes
<1>10. n \in Memories BY <1>7, <1>8, <1>9, MemoryParts DEF MemoryTypes
<1>11. DirectoryBut(n, m, d, ZeroEntry)
  BY <1>4, <1>8, <1>9 DEF DirectoryBut, Returned
<1>12. Listed(n) = Listed(m) \cup {g} /\ ListSound(n)
  BY <1>4, <1>8 DEF Returned, Listed, ListSound
<1>13. CountsBut(n, m, g, 0) /\ n.table = m.table
  BY <1>4, <1>8 DEF Returned, CountsBut
<1>14. SpaceGood(n, r)
  BY <1>0, <1>1, <1>b, <1>10, <1>11, <1>12, <1>13, SpaceDropped
<1>15. Held(n, r) = Held(m, r) \ {g}
  BY <1>0, <1>1, <1>b, <1>10, <1>11, <1>12, <1>13, SpaceDropped
<1>16. g \in Held(m, r)
  BY <1>0, <1>1, <1>b, <1>10, <1>11, <1>12, <1>13, SpaceDropped
<1>17. \A va \in Pages : ~Mapped(n, va)
  BY <1>0, <1>1, <1>b, <1>10, <1>11, <1>12, <1>13, SpaceDropped
<1>18. Pool(n, r) = Pool(m, r) BY <1>12, <1>15, <1>16 DEF Pool
<1>19. Local(n, m, Pool(m, r))
  <2>1. Local(n, m, {g}) BY <1>13 DEF Local, CountsBut
  <2> QED BY <1>16, <2>1 DEF Local, Pool
<1>20. \A e \in Dirs : HasTable(n, e) <=> HasTable(m, e) /\ e # d
  BY <1>11 DEF DirectoryBut, HasTable
<1> QED BY <1>14, <1>17, <1>18, <1>19, <1>20 DEF Dropped, Keeps

\* UnmapAll leaves no page.
PagesGone(n, m, r, T) ==
    Keeps(n, m, r) /\ \A va \in Pages : Mapped(n, va) => va \notin T

\* The loop over the pages leaves a space in which nothing is mapped, and loses
\* no frame.  By induction over the subsets of Pages.
LEMMA UnmapAllSpace ==
    ASSUME NEW m, NEW r, SpaceGood(m, r)
    PROVE  PagesGone(UnmapAll(m), m, r, Pages)
<1>1. PICK g : IsFold("page", m, SUBSET Pages, g) /\ UnmapAll(m) = g[Pages]
  BY UnmapAllFold
<1>2. /\ g[{}] = m
      /\ \A T \in SUBSET Pages : T # {} =>
            g[T] = unmap_frame(g[T \ {Chosen(T)}], Chosen(T))
  BY <1>1 DEF IsFold, Freeing
<1> DEFINE P == {T \in SUBSET Pages : PagesGone(g[T], m, r, T)}
<1>3. {} \in P BY <1>2 DEF PagesGone, Keeps, Local
<1>4. IsFiniteSet(Pages) BY PagesAssumption, FS_Product DEF Pages
<1>5. ASSUME NEW T \in SUBSET Pages, T # {}, T \ {Chosen(T)} \in P PROVE T \in P
  <2>0. PICK x : x = Chosen(T) OBVIOUS
  <2>a. PICK c : c = g[T \ {x}] OBVIOUS
  <2>b. PICK n : n = g[T] OBVIOUS
  <2>1. x \in T /\ x \in Pages BY <1>4, <1>5, <2>0, ChosenFacts
  <2>2. PagesGone(c, m, r, T \ {x}) BY <1>5, <2>0, <2>a
  <2>3. n = unmap_frame(c, x) BY <1>2, <1>5, <2>0, <2>a, <2>b
  <2>4. SpaceGood(c, r) BY <2>2 DEF PagesGone, Keeps
  <2>5. /\ SpaceGood(n, r) /\ Pool(n, r) = Pool(c, r)
        /\ \A vb \in Pages : Mapped(n, vb) <=> (Mapped(c, vb) /\ vb # x)
        /\ Local(n, c, Held(c, r))
    <3>1. SpaceGood(n, r) BY <2>1, <2>3, <2>4, UnmapSpace
    <3>2. Pool(n, r) = Pool(c, r) BY <2>1, <2>3, <2>4, UnmapSpace
    <3>3. \A vb \in Pages : Mapped(n, vb) <=> (Mapped(c, vb) /\ vb # x)
      BY <2>1, <2>3, <2>4, UnmapSpace
    <3>4. Local(n, c, Held(c, r)) BY <2>1, <2>3, <2>4, UnmapSpace
    <3> QED BY <3>1, <3>2, <3>3, <3>4
  <2>6. Keeps(n, c, r)
    <3>1. Held(c, r) \subseteq Pool(c, r) BY DEF Pool
    <3> QED BY <2>5, <3>1, LocalMore DEF Keeps
  <2>7. Keeps(n, m, r) BY <2>2, <2>6, KeepsChain DEF PagesGone
  <2>8. PagesGone(n, m, r, T) BY <2>1, <2>2, <2>5, <2>7 DEF PagesGone
  <2> QED BY <2>8, <2>b
<1>6. Pages \in P
  <2> HIDE DEF P
  <2> QED BY <1>3, <1>4, <1>5, SubsetInduction
<1> QED BY <1>1, <1>6

\* FreeTables leaves no page table.
TablesGone(n, m, r, T) ==
    /\ Keeps(n, m, r) /\ \A va \in Pages : ~Mapped(n, va)
    /\ \A d \in Dirs : HasTable(n, d) <=> HasTable(m, d) /\ d \notin T

\* The loop over the directory leaves the directory's own frame, and loses none.
\* By induction over the sets of tables.
LEMMA FreeTablesSpace ==
    ASSUME NEW m, NEW r, SpaceGood(m, r), \A va \in Pages : ~Mapped(m, va),
           NEW n, n = FreeTables(m)
    PROVE  Keeps(n, m, r) /\ Held(n, r) = {r}
<1>0. PICK S : S = {d \in Dirs : m.directory[d] # ZeroEntry} OBVIOUS
<1>1. PICK g : IsFold("table", m, SUBSET S, g) /\ FreeTables(m) = g[S]
  BY <1>0, FreeTablesFold
<1>2. /\ g[{}] = m
      /\ \A T \in SUBSET S : T # {} =>
            g[T] = FreeTable(g[T \ {Chosen(T)}], Chosen(T))
  BY <1>1 DEF IsFold, Freeing
<1> DEFINE P == {T \in SUBSET S : TablesGone(g[T], m, r, T)}
<1>3. {} \in P BY <1>2 DEF TablesGone, Keeps, Local
<1>4. IsFiniteSet(S) BY <1>0, PagesAssumption, FS_Subset
<1>5. ASSUME NEW T \in SUBSET S, T # {}, T \ {Chosen(T)} \in P PROVE T \in P
  <2>0. PICK x : x = Chosen(T) OBVIOUS
  <2>a. PICK c : c = g[T \ {x}] OBVIOUS
  <2>b. PICK q : q = g[T] OBVIOUS
  <2>1. x \in T /\ x \in Dirs /\ HasTable(m, x)
    BY <1>0, <1>4, <1>5, <2>0, ChosenFacts DEF HasTable
  <2>2. TablesGone(c, m, r, T \ {x}) BY <1>5, <2>0, <2>a
  <2>3. q = FreeTable(c, x) BY <1>2, <1>5, <2>0, <2>a, <2>b
  <2>4. Dropping(c, r, x) BY <2>1, <2>2 DEF TablesGone, Keeps, Dropping
  <2>5. Dropped(q, c, r, x) BY <2>3, <2>4, DropSpace
  <2>6. Keeps(q, m, r) BY <2>2, <2>5, KeepsChain DEF Dropped, TablesGone
  <2>7. TablesGone(q, m, r, T) BY <2>1, <2>2, <2>5, <2>6 DEF TablesGone, Dropped
  <2> QED BY <2>7, <2>b
<1>6. S \in P
  <2> HIDE DEF P
  <2> QED BY <1>3, <1>4, <1>5, SubsetInduction
<1>7. TablesGone(n, m, r, S) BY <1>1, <1>6
<1>8. \A d \in Dirs : ~HasTable(n, d) BY <1>0, <1>7 DEF TablesGone, HasTable
<1>9. TableFrames(n) = {} BY <1>8 DEF TableFrames
<1>10. PageFrames(n) = {} BY <1>7 DEF TablesGone, PageFrames
<1> QED BY <1>7, <1>9, <1>10 DEF TablesGone, Held

\* env_free returns every frame of the space.
Emptied(n, m, r) ==
    /\ n \in Memories /\ ListSound(n)
    /\ Listed(n) = Pool(m, r) /\ Local(n, m, Pool(m, r))

\* env_free gives back every frame of the space.
LEMMA EmptySpaceGood ==
    ASSUME NEW m, NEW r, SpaceGood(m, r),
           NEW n, n = decrement_references(FreeTables(UnmapAll(m)), r)
    PROVE  Emptied(n, m, r)
<1>1. PICK u : u = UnmapAll(m) OBVIOUS
<1>2. PICK c : c = FreeTables(u) OBVIOUS
<1>3. Keeps(u, m, r) /\ \A va \in Pages : ~Mapped(u, va)
  BY <1>1, UnmapAllSpace DEF PagesGone
<1>4. SpaceGood(u, r) BY <1>3 DEF Keeps
<1>5. Keeps(c, u, r) BY <1>2, <1>3, <1>4, FreeTablesSpace
<1>6. Held(c, r) = {r} BY <1>2, <1>3, <1>4, FreeTablesSpace
<1>7. Keeps(c, m, r) BY <1>3, <1>5, KeepsChain
<1>8. c \in Memories /\ ListSound(c) /\ Single(c, r) /\ SpaceGood(c, r)
  BY <1>7 DEF Keeps, SpaceGood
<1>9. Returned(n, c, r) BY <1>1, <1>2, <1>8, ReturnFrame
<1>10. Listed(n) = Pool(m, r) BY <1>6, <1>7, <1>9 DEF Returned, Keeps, Pool
<1>11. Local(n, c, {r}) BY <1>9 DEF Returned, Local, CountsBut
<1>12. r \in Pool(m, r) BY DEF Pool, Held
<1>13. Local(c, m, Pool(m, r)) BY <1>7 DEF Keeps
<1>14. Local(n, m, Pool(m, r)) BY <1>11, <1>12, <1>13 DEF Local
<1> QED BY <1>9, <1>10, <1>14 DEF Emptied, Returned

-----------------------------------------------------------------------------
\* The callers of the memory manager, in a space.

\* The one frame in question, taken from the list of m and not mapped in n.
Loose(n, m, r, f) ==
    /\ Drops(n, m, r, f) /\ n.references[f] = 0 /\ f \in Usable
    /\ f \notin Held(m, r)

\* allocate_frame, for a caller that has yet to map the frame.
LEMMA AllocateLoose ==
    ASSUME NEW m, NEW r, SpaceGood(m, r), m.free # <<>>,
           NEW a, a = allocate_frame(m), NEW f, f = Head(m.free)
    PROVE  /\ a.ret = 0 /\ a.frame = f /\ f \in Usable /\ Loose(a.mem, m, r, f)
           /\ a.mem.free = Tail(m.free) /\ a.mem.directory = m.directory
<1>0. PICK n : n = a.mem OBVIOUS
<1>1. /\ a.ret = 0 /\ a.frame = f /\ f \in Usable /\ f \notin Held(m, r)
      /\ n.free = Tail(m.free) /\ Listed(n) = Listed(m) \ {f} /\ f \in Listed(m)
      /\ n.directory = m.directory /\ n.table = m.table
      /\ n.references = [m.references EXCEPT ![f] = 0]
      /\ SpaceGood(n, r) /\ Held(n, r) = Held(m, r)
  BY <1>0, AllocateSpace
<1>2. f \in Pool(m, r) /\ Pool(n, r) = Pool(m, r) \ {f} BY <1>1 DEF Pool
<1>3. MemoryTypes(m) /\ f \in Frames
  BY <1>1, MemoryParts, UsableFrames DEF SpaceGood
<1>4. n.references[f] = 0 /\ \A g \in Frames : g # f => n.references[g] = m.references[g]
  BY <1>1, <1>3 DEF MemoryTypes
<1>5. Local(n, m, Pool(m, r)) BY <1>1, <1>2, <1>4 DEF Local
<1> QED BY <1>0, <1>1, <1>2, <1>4, <1>5 DEF Loose, Drops

\* A loose frame that is mapped is kept.
LEMMA LooseMapped ==
    ASSUME NEW n, NEW c, NEW m, NEW r, NEW f, Loose(c, m, r, f), MapDone(n, c, r, f)
    PROVE  Keeps(n, m, r)
<1>1. Pool(c, r) \cup {f} = Pool(m, r) BY DEF Loose, Drops
<1>2. Local(n, m, Pool(m, r)) BY <1>1 DEF Loose, Drops, MapDone, Local
<1> QED BY <1>1, <1>2 DEF Keeps, MapDone

\* What MapNew may come to: no frame; a frame and no page table for it; a
\* frame mapped.
NoFrame(n, m) == n.ret = E_NO_MEM /\ n.frame = NULL /\ n.mem = m

NoTable(n, m, r, va, f) ==
    /\ n.ret = E_NO_MEM /\ n.frame = f /\ Loose(n.mem, m, r, f)
    /\ Len(m.free) = 1 /\ ~HasTable(m, va[1])

\* A list whose tail is empty has one element.
LEMMA OneFrame ==
    ASSUME NEW m \in Memories, m.free # <<>>, Tail(m.free) = <<>>
    PROVE  Len(m.free) = 1
<1>0. PICK q : q = m.free OBVIOUS
<1>1. q \in Seq(Frames) /\ q # <<>> BY <1>0 DEF Memories
<1>2. Len(Tail(q)) = Len(q) - 1 /\ Len(q) \in Nat BY <1>1
<1>3. Len(Tail(q)) = 0 BY <1>0
<1> QED BY <1>0, <1>2, <1>3

\* Allocating a frame and mapping it: there was none, there was none for the
\* table and the first is lost, or the space has grown.
LEMMA MapNewSpace ==
    ASSUME NEW m, NEW r, SpaceGood(m, r), NEW va \in Pages,
           NEW n, n = MapNew(allocate_frame(m), va)
    PROVE  \/ NoFrame(n, m)
           \/ \E f \in Usable : NoTable(n, m, r, va, f)
           \/ n.ret = 0 /\ Keeps(n.mem, m, r)
<1>a. PICK a : a = allocate_frame(m) OBVIOUS
<1>b. PICK f : f = Head(m.free) OBVIOUS
<1>c. PICK c : c = a.mem OBVIOUS
<1>d. PICK x : x = map_frame(c, a.frame, va, UW) OBVIOUS
<1>1. n = IF a.ret = E_NO_MEM
          THEN [ret |-> E_NO_MEM, frame |-> NULL, mem |-> c]
          ELSE [ret |-> x.ret, frame |-> a.frame, mem |-> x.mem]
  BY <1>a, <1>c, <1>d, Zenon DEF MapNew
<1>2. E_NO_MEM # 0 BY DEF E_NO_MEM
<1>3. CASE m.free = <<>>
  <2>1. a = [ret |-> E_NO_MEM, frame |-> NULL, mem |-> m]
    BY <1>3, <1>a, AllocateNone
  <2> QED BY <1>1, <1>c, <2>1 DEF NoFrame
<1>4. CASE m.free # <<>>
  <2>1. /\ a.ret = 0 /\ a.frame = f /\ f \in Usable /\ Loose(c, m, r, f)
        /\ c.free = Tail(m.free) /\ c.directory = m.directory
    BY <1>4, <1>a, <1>b, <1>c, AllocateLoose
  <2>2. SpaceGood(c, r) /\ f \notin Pool(c, r) /\ c.references[f] = 0
    BY <2>1 DEF Loose, Drops
  <2>3. UW \in SUBSET PermBits BY DEF UW, PermBits
  <2>4. \/ x.ret = E_NO_MEM /\ x.mem = c /\ MapFailed(c, va)
        \/ x.ret = 0 /\ MapDone(x.mem, c, r, f)
    BY <1>d, <2>1, <2>2, <2>3, MapSpace
  <2>5. n.ret = x.ret /\ n.frame = f /\ n.mem = x.mem
    BY <1>1, <1>2, <2>1
  <2>6. CASE x.ret = E_NO_MEM
    <3>1. x.mem = c /\ MapFailed(c, va) BY <1>2, <2>4, <2>6
    <3>2. Tail(m.free) = <<>> /\ ~HasTable(m, va[1])
      BY <2>1, <3>1 DEF MapFailed, HasTable
    <3>3. Len(m.free) = 1 BY <1>4, <3>2, OneFrame DEF SpaceGood
    <3> QED BY <2>1, <2>5, <2>6, <3>1, <3>2, <3>3 DEF NoTable
  <2>7. CASE x.ret = 0 /\ MapDone(x.mem, c, r, f)
    BY <2>1, <2>5, <2>7, LooseMapped
  <2> QED BY <2>4, <2>6, <2>7
<1> QED BY <1>3, <1>4

\* The frame is freed by hand.
LEMMA FreeLoose ==
    ASSUME NEW c, NEW m, NEW r, NEW f, Loose(c, m, r, f), f \notin Listed(c),
           NEW n, n = free_frame(c, f)
    PROVE  Keeps(n, m, r)
<1>1. SpaceGood(c, r) /\ c \in Memories /\ ListSound(c)
  BY DEF Loose, Drops, SpaceGood
<1>2. f \in Usable /\ f \in Frames /\ f \notin Held(c, r)
  BY UsableFrames DEF Loose, Drops, Pool
<1>3. IsMemory(c) /\ MemoryTypes(c) /\ IsInjective(c.free)
  BY <1>1, MemoryParts DEF ListSound
<1>4. /\ n.free = Pushed(c, f) /\ n.references = c.references
      /\ n.directory = c.directory /\ n.table = c.table /\ n.tlb = c.tlb
      /\ IsMemory(n)
  <2>1. PICK q : q = Pushed(c, f) OBVIOUS
  <2>2. n = [c EXCEPT !.free = q]
    BY <2>1 DEF free_frame, LIST_INSERT_HEAD, Pushed
  <2> QED BY <1>3, <2>1, <2>2 DEF IsMemory
<1>5. /\ n.free \in Seq(Frames) /\ IsInjective(n.free)
      /\ Listed(n) = Listed(c) \cup {f}
  BY <1>2, <1>3, <1>4, PushFacts DEF MemoryTypes, Listed, Pushed
<1>6. n \in Memories BY <1>3, <1>4, <1>5, MemoryParts DEF MemoryTypes
<1>7. ListSound(n) BY <1>1, <1>2, <1>5 DEF ListSound
<1>8. \A g \in Held(c, r) : /\ n.references[g] = c.references[g]
                            /\ n.table[g] = c.table[g] /\ g \notin Listed(n)
  BY <1>1, <1>2, <1>4, <1>5, HeldFrames DEF Single
<1>9. SpaceGood(n, r) BY <1>1, <1>4, <1>6, <1>7, <1>8, SpaceKept
<1>10. Held(n, r) = Held(c, r) BY <1>1, <1>4, <1>6, <1>7, <1>8, SpaceKept
<1>11. Pool(n, r) = Pool(m, r) BY <1>5, <1>10 DEF Pool, Loose, Drops
<1>12. Local(n, m, Pool(m, r)) BY <1>4 DEF Loose, Drops, Local
<1> QED BY <1>9, <1>11, <1>12 DEF Keeps

\* program_segment_alloc_map loses nothing.
LEMMA SegmentSpace ==
    ASSUME NEW m, NEW r, SpaceGood(m, r), NEW va \in Pages,
           NEW n, n = MapNew(allocate_frame(m), va),
           NEW q, q = IF n.ret = E_NO_MEM /\ n.frame # NULL
                      THEN free_frame(n.mem, n.frame) ELSE n.mem
    PROVE  Keeps(q, m, r)
<1>1. CASE NoFrame(n, m)
  <2>1. q = m BY <1>1 DEF NoFrame
  <2> QED BY <2>1 DEF Keeps, Local
<1>2. ASSUME NEW f \in Usable, NoTable(n, m, r, va, f) PROVE Keeps(q, m, r)
  <2>1. q = free_frame(n.mem, f) /\ Loose(n.mem, m, r, f)
    BY <1>2, UsableFrames DEF NoTable
  <2>2. f \notin Listed(n.mem) BY <2>1 DEF Loose, Drops, Pool
  <2> QED BY <2>1, <2>2, FreeLoose
<1>3. CASE n.ret = 0 /\ Keeps(n.mem, m, r)
  BY <1>3 DEF E_NO_MEM
<1> QED BY <1>1, <1>2, <1>3, MapNewSpace

\* Changes to a frame nobody has: cleared by hand, or its count wrapped.
LEMMA LooseTouched ==
    ASSUME NEW c, NEW m, NEW r, NEW f, Loose(c, m, r, f),
           NEW n, n \in Memories, n.free = c.free, n.directory = c.directory,
           Local(n, c, {f})
    PROVE  Drops(n, m, r, f)
<1>1. SpaceGood(c, r) /\ ListSound(n) BY DEF Loose, Drops, SpaceGood, ListSound, Listed
<1>2. \A g \in Held(c, r) : /\ n.references[g] = c.references[g]
                            /\ n.table[g] = c.table[g] /\ g \notin Listed(n)
  <2>1. Held(c, r) \subseteq Frames \ {f} /\ \A g \in Held(c, r) : g \notin Listed(c)
    BY <1>1, HeldFrames, UsableFrames DEF Loose, Drops, Pool, Single
  <2> QED BY <2>1 DEF Local, Listed
<1>3. SpaceGood(n, r) BY <1>1, <1>2, SpaceKept
<1>4. Held(n, r) = Held(c, r) BY <1>1, <1>2, SpaceKept
<1>5. Pool(n, r) = Pool(m, r) \ {f} /\ f \in Pool(m, r)
  BY <1>4 DEF Pool, Loose, Drops, Listed
<1>6. Local(n, m, Pool(m, r)) BY <1>5 DEF Loose, Drops, Local
<1> QED BY <1>3, <1>5, <1>6 DEF Drops

\* sys_allocate_page with good arguments: the page, or one frame less.
PageCall(c, f, va, perm) == map_frame([c EXCEPT !.table[f] = ZeroTable], f, va, perm)

PageResult(x, f) == IF x.ret = E_NO_MEM THEN decrement_references(x.mem, f) ELSE x.mem

\* sys_allocate_page's calls: they keep every frame, or lose the only one left,
\* for want of a table.
LEMMA PageSpace ==
    ASSUME NEW m, NEW r, SpaceGood(m, r), m.free # <<>>, NEW va \in Pages,
           NEW perm \in SUBSET PermBits, NEW a, a = allocate_frame(m),
           NEW f, f = Head(m.free), NEW c, c = a.mem,
           NEW x, x = PageCall(c, f, va, perm),
           NEW n, n = PageResult(x, f)
    PROVE  \/ Keeps(n, m, r)
           \/ Drops(n, m, r, f) /\ Len(m.free) = 1 /\ ~HasTable(m, va[1])
<1>1. /\ f \in Usable /\ Loose(c, m, r, f)
      /\ c.free = Tail(m.free) /\ c.directory = m.directory
  BY AllocateLoose
<1>2. SpaceGood(c, r) /\ c \in Memories /\ f \in Frames /\ c.references[f] = 0
  BY <1>1, UsableFrames DEF Loose, Drops, SpaceGood
<1>3. IsMemory(c) /\ MemoryTypes(c) BY <1>2, MemoryParts
<1>4. PICK q : q = [c.table EXCEPT ![f] = ZeroTable] OBVIOUS
<1>5. PICK d : d = [c EXCEPT !.table = q] OBVIOUS
<1>6. x = map_frame(d, f, va, perm) BY <1>4, <1>5, Zenon DEF PageCall
<1>7. /\ d.free = c.free /\ d.references = c.references /\ d.directory = c.directory
      /\ d.tlb = c.tlb /\ d.table = q /\ IsMemory(d)
  BY <1>3, <1>5 DEF IsMemory
<1>8. q \in [Frames -> [Slots -> Entries]] /\ \A g \in Frames : g # f => q[g] = c.table[g]
  <2>1. ZeroTable \in [Slots -> Entries] BY ZeroIsEntry DEF ZeroTable
  <2> QED BY <1>2, <1>3, <1>4, <2>1 DEF MemoryTypes
<1>9. d \in Memories BY <1>3, <1>7, <1>8, MemoryParts DEF MemoryTypes
<1>10. Local(d, c, {f}) BY <1>7, <1>8 DEF Local
<1>11. Drops(d, m, r, f) BY <1>1, <1>7, <1>9, <1>10, LooseTouched
<1>12. Loose(d, m, r, f) BY <1>1, <1>7, <1>11 DEF Loose
<1>13. SpaceGood(d, r) /\ f \notin Pool(d, r) /\ d.references[f] = 0
  BY <1>2, <1>7, <1>11 DEF Drops
<1>14. \/ x.ret = E_NO_MEM /\ x.mem = d /\ MapFailed(d, va)
       \/ x.ret = 0 /\ MapDone(x.mem, d, r, f)
  BY <1>1, <1>6, <1>13, MapSpace
<1>15. CASE x.ret = 0 /\ MapDone(x.mem, d, r, f)
  <2>1. n = x.mem BY <1>15 DEF PageResult, E_NO_MEM
  <2> QED BY <1>12, <1>15, <2>1, LooseMapped
<1>16. CASE x.ret = E_NO_MEM /\ x.mem = d /\ MapFailed(d, va)
  <2>1. n = decrement_references(d, f) BY <1>16 DEF PageResult
  <2>2. /\ n.free = d.free /\ n.references = CountSet(d, f, RefModulus - 1)
        /\ n.directory = d.directory /\ n.table = d.table /\ n.tlb = d.tlb
        /\ IsMemory(n)
    BY <1>2, <1>9, <1>13, <2>1, Decrement
  <2>3. MemoryTypes(d) BY <1>9, MemoryParts
  <2>4. /\ n.references \in [Frames -> 0 .. RefModulus - 1]
        /\ \A g \in Frames : g # f => n.references[g] = d.references[g]
    BY <1>2, <2>2, <2>3, RefModulusAssumption DEF CountSet, MemoryTypes
  <2>5. n \in Memories BY <2>2, <2>3, <2>4, MemoryParts DEF MemoryTypes
  <2>6. Local(n, d, {f}) BY <2>2, <2>4 DEF Local
  <2>7. Drops(n, m, r, f) BY <1>12, <2>2, <2>5, <2>6, LooseTouched
  <2>8. Tail(m.free) = <<>> /\ ~HasTable(m, va[1])
    BY <1>1, <1>7, <1>16 DEF MapFailed, HasTable
  <2>9. Len(m.free) = 1 BY <2>8, OneFrame DEF SpaceGood
  <2> QED BY <2>7, <2>8, <2>9
<1> QED BY <1>14, <1>15, <1>16

-----------------------------------------------------------------------------
\* The kernel's memory: the address spaces of the environments in L.
HeldBy(s, e) == Held(Space(s, e), s.envs[e].env_cr3)

MemGood(s, L) ==
    /\ s.m \in Memories /\ s.m.directory = EmptyDirectory /\ ListSound(s.m)
    /\ \A e \in L : SpaceGood(Space(s, e), s.envs[e].env_cr3)
    /\ \A e \in L, x \in L : e # x => HeldBy(s, e) \cap HeldBy(s, x) = {}

\* The frames that are free or somebody's.
Owned(s, L) == Listed(s.m) \cup UNION {HeldBy(s, e) : e \in L}

Holds(s, L, W) == MemGood(s, L) /\ Owned(s, L) = W

SameDirectory(t, s, x) ==
    /\ t.envs[x].env_pgdir = s.envs[x].env_pgdir
    /\ t.envs[x].env_cr3 = s.envs[x].env_cr3

MemorySame(t, s) == t.m = s.m /\ \A x \in Envs : SameDirectory(t, s, x)

\* The same memory through another directory.
LEMMA OtherDirectory ==
    ASSUME NEW m \in Memories, NEW d, NEW n, n = [m EXCEPT !.directory = d]
    PROVE  /\ n.free = m.free /\ n.references = m.references
           /\ n.table = m.table /\ n.tlb = m.tlb /\ n.directory = d
           /\ Listed(n) = Listed(m)
           /\ d \in [Dirs -> Entries] => n \in Memories
           /\ IsMemory(n)
<1>1. IsMemory(m) /\ MemoryTypes(m) BY MemoryParts
<1>2. /\ n.free = m.free /\ n.references = m.references
      /\ n.table = m.table /\ n.tlb = m.tlb /\ n.directory = d /\ IsMemory(n)
  BY <1>1 DEF IsMemory
<1>3. d \in [Dirs -> Entries] => n \in Memories
  BY <1>1, <1>2, MemoryParts DEF MemoryTypes
<1> QED BY <1>2, <1>3 DEF Listed

\* Seen from e, memory is the kernel's, but for the directory.
LEMMA SpaceParts ==
    ASSUME NEW s, s.m \in Memories, NEW e, NEW m, m = Space(s, e)
    PROVE  /\ m.free = s.m.free /\ m.references = s.m.references
           /\ m.table = s.m.table /\ m.tlb = s.m.tlb
           /\ m.directory = s.envs[e].env_pgdir
           /\ Listed(m) = Listed(s.m) /\ IsMemory(m)
           /\ m.directory \in [Dirs -> Entries] => m \in Memories
BY OtherDirectory DEF Space

\* The space of x is as good as it was, and holds the same frames.
SpaceStays(t, s, x) ==
    /\ SpaceGood(Space(t, x), t.envs[x].env_cr3)
    /\ HeldBy(t, x) = HeldBy(s, x)

\* A change that spares the frames of the environments in K.
LEMMA OthersKept ==
    ASSUME NEW s, NEW L, MemGood(s, L), NEW K, K \subseteq L,
           NEW t, t.m \in Memories, ListSound(t.m), NEW S,
           Local(t.m, s.m, S), Listed(t.m) \subseteq S,
           NEW x \in K, SameDirectory(t, s, x), HeldBy(s, x) \cap S = {}
    PROVE  SpaceStays(t, s, x)
<1>0. PICK m : m = Space(s, x) OBVIOUS
<1>a. PICK n : n = Space(t, x) OBVIOUS
<1>b. PICK r : r = s.envs[x].env_cr3 OBVIOUS
<1>1. SpaceGood(m, r) /\ s.m \in Memories
  BY <1>0, <1>b DEF MemGood
<1>2. /\ m.references = s.m.references /\ m.table = s.m.table
      /\ m.directory = s.envs[x].env_pgdir
  BY <1>0, <1>1, SpaceParts
<1>3. /\ n.free = t.m.free /\ n.references = t.m.references /\ n.table = t.m.table
      /\ n.directory = t.envs[x].env_pgdir /\ Listed(n) = Listed(t.m)
      /\ n.directory \in [Dirs -> Entries] => n \in Memories
  BY <1>a, SpaceParts
<1>4. n.directory = m.directory BY <1>2, <1>3 DEF SameDirectory
<1>5. MemoryTypes(m) BY <1>1, MemoryParts DEF SpaceGood
<1>6. n \in Memories BY <1>3, <1>4, <1>5 DEF MemoryTypes
<1>7. ListSound(n) BY <1>3 DEF ListSound
<1>8. Held(m, r) \subseteq Frames /\ Held(m, r) \cap S = {}
  BY <1>0, <1>1, <1>b, HeldFrames, UsableFrames DEF HeldBy
<1>9. \A f \in Held(m, r) : /\ n.references[f] = m.references[f]
                            /\ n.table[f] = m.table[f] /\ f \notin Listed(n)
  BY <1>2, <1>3, <1>8 DEF Local
<1>10. SpaceGood(n, r) BY <1>1, <1>4, <1>6, <1>7, <1>9, SpaceKept
<1>11. Held(n, r) = Held(m, r) BY <1>1, <1>4, <1>6, <1>7, <1>9, SpaceKept
<1> QED BY <1>0, <1>a, <1>b, <1>10, <1>11 DEF SameDirectory, HeldBy, SpaceStays

\* Nothing that MemGood speaks of has changed.
LEMMA HoldsSame ==
    ASSUME NEW s, NEW L, L \subseteq Envs, NEW W, Holds(s, L, W),
           NEW t, MemorySame(t, s)
    PROVE  Holds(t, L, W)
<1>1. \A x \in L : Space(t, x) = Space(s, x) /\ HeldBy(t, x) = HeldBy(s, x)
  BY DEF Space, MemorySame, SameDirectory, HeldBy
<1>2. /\ MemGood(s, L) /\ t.m = s.m
      /\ \A x \in L : t.envs[x].env_cr3 = s.envs[x].env_cr3
  BY DEF Holds, MemorySame, SameDirectory
<1>3. MemGood(t, L) BY <1>1, <1>2 DEF MemGood
<1>4. {HeldBy(t, x) : x \in L} = {HeldBy(s, x) : x \in L} BY <1>1
<1>5. Owned(t, L) = Owned(s, L) BY <1>2, <1>4 DEF Owned
<1> QED BY <1>3, <1>5 DEF Holds

\* The frames of one environment and the free ones are nobody else's.
LEMMA PoolIsPrivate ==
    ASSUME NEW s, NEW L, MemGood(s, L), NEW e \in L,
           NEW S, S = Pool(Space(s, e), s.envs[e].env_cr3)
    PROVE  /\ \A x \in L \ {e} : HeldBy(s, x) \cap S = {}
           /\ S = Listed(s.m) \cup HeldBy(s, e)
           /\ Owned(s, L) = S \cup Owned(s, L \ {e})
           /\ \A f \in S : f \notin UNION {HeldBy(s, x) : x \in L \ {e}}
<1>1. S = Listed(s.m) \cup HeldBy(s, e)
  BY SpaceParts DEF Pool, HeldBy, MemGood
<1>2. ASSUME NEW x \in L \ {e} PROVE HeldBy(s, x) \cap S = {}
  <2>1. SpaceGood(Space(s, x), s.envs[x].env_cr3) BY DEF MemGood
  <2>2. \A f \in HeldBy(s, x) : f \notin Listed(Space(s, x))
    BY <2>1, HeldFrames DEF HeldBy, Single
  <2>3. Listed(Space(s, x)) = Listed(s.m) BY SpaceParts DEF MemGood
  <2>4. HeldBy(s, e) \cap HeldBy(s, x) = {} BY DEF MemGood
  <2> QED BY <1>1, <2>2, <2>3, <2>4
<1>3. Owned(s, L) = S \cup Owned(s, L \ {e}) BY <1>1 DEF Owned
<1>4. \A f \in S : f \notin UNION {HeldBy(s, x) : x \in L \ {e}} BY <1>2
<1> QED BY <1>1, <1>2, <1>3, <1>4

\* SetSpace, after calls that kept or dropped frames of the space.
SpaceSet(t, s, e, n) ==
    /\ t.m = [n EXCEPT !.directory = s.m.directory]
    /\ t.envs[e].env_pgdir = n.directory
    /\ t.envs[e].env_cr3 = s.envs[e].env_cr3
    /\ \A x \in Envs \ {e} : SameDirectory(t, s, x)

\* A step inside e's pool is a step of the kernel's memory: the spaces of the
\* others are as good as before, and as separate.
LEMMA SpaceStep ==
    ASSUME NEW s, NEW L, L \subseteq Envs, MemGood(s, L), NEW e \in L,
           NEW r, r = s.envs[e].env_cr3, NEW m, m = Space(s, e),
           NEW n, SpaceGood(n, r), Pool(n, r) \subseteq Pool(m, r),
           Local(n, m, Pool(m, r)), NEW t, SpaceSet(t, s, e, n)
    PROVE  /\ MemGood(t, L)
           /\ Owned(t, L) = (Owned(s, L) \ Pool(m, r)) \cup Pool(n, r)
<1>0. PICK S : S = Pool(m, r) OBVIOUS
<1>1. /\ \A x \in L \ {e} : HeldBy(s, x) \cap S = {}
      /\ Owned(s, L) = S \cup Owned(s, L \ {e})
      /\ \A f \in S : f \notin UNION {HeldBy(s, x) : x \in L \ {e}}
      /\ S = Listed(s.m) \cup HeldBy(s, e)
  BY <1>0, PoolIsPrivate
<1>2. n \in Memories /\ ListSound(n) /\ MemoryTypes(n) /\ IsMemory(n)
  BY MemoryParts DEF SpaceGood
<1>3. /\ s.m \in Memories /\ s.m.directory = EmptyDirectory
      /\ s.m.directory \in [Dirs -> Entries]
  BY MemoryParts DEF MemGood, MemoryTypes
<1>4. /\ t.m.free = n.free /\ t.m.references = n.references /\ t.m.table = n.table
      /\ t.m.tlb = n.tlb /\ t.m.directory = EmptyDirectory
      /\ Listed(t.m) = Listed(n) /\ t.m \in Memories
  BY <1>2, <1>3, OtherDirectory DEF SpaceSet
<1>5. ListSound(t.m) BY <1>2, <1>4 DEF ListSound
<1>6. m.references = s.m.references /\ m.table = s.m.table
  BY <1>3, SpaceParts
<1>7. Local(t.m, s.m, S) BY <1>0, <1>4, <1>6 DEF Local
<1>8. Listed(t.m) \subseteq S BY <1>0, <1>4 DEF Pool
<1>9. ASSUME NEW x \in L \ {e}
      PROVE  /\ SpaceGood(Space(t, x), t.envs[x].env_cr3)
             /\ HeldBy(t, x) = HeldBy(s, x)
  <2>1. SameDirectory(t, s, x) /\ HeldBy(s, x) \cap S = {}
    BY <1>1 DEF SpaceSet
  <2>2. SpaceStays(t, s, x)
    BY <1>4, <1>5, <1>7, <1>8, <2>1, OthersKept
  <2> QED BY <2>2 DEF SpaceStays
<1>10. Space(t, e) = n
  <2>1. PICK q : q = Space(t, e) OBVIOUS
  <2>2. /\ q.free = t.m.free /\ q.references = t.m.references
        /\ q.table = t.m.table /\ q.tlb = t.m.tlb
        /\ q.directory = t.envs[e].env_pgdir /\ IsMemory(q)
    BY <1>4, <2>1, SpaceParts
  <2> QED BY <1>2, <1>4, <2>1, <2>2 DEF IsMemory, SpaceSet
<1>11. t.envs[e].env_cr3 = r BY DEF SpaceSet
<1>12. HeldBy(t, e) = Held(n, r) BY <1>10, <1>11 DEF HeldBy
<1>13. HeldBy(t, e) \subseteq S BY <1>0, <1>12 DEF Pool
<1>14. MemGood(t, L)
  <2>1. \A x \in L : SpaceGood(Space(t, x), t.envs[x].env_cr3)
    BY <1>9, <1>10, <1>11
  <2>2. \A x \in L, y \in L : x # y => HeldBy(t, x) \cap HeldBy(t, y) = {}
    <3> SUFFICES ASSUME NEW x \in L, NEW y \in L, x # y
                 PROVE  HeldBy(t, x) \cap HeldBy(t, y) = {}
      OBVIOUS
    <3>1. CASE x # e /\ y # e BY <1>9, <3>1 DEF MemGood
    <3>2. CASE x = e BY <1>1, <1>9, <1>13, <3>2
    <3>3. CASE y = e BY <1>1, <1>9, <1>13, <3>3
    <3> QED BY <3>1, <3>2, <3>3
  <2> QED BY <1>4, <1>5, <2>1, <2>2 DEF MemGood
<1>15. {HeldBy(t, x) : x \in L \ {e}} = {HeldBy(s, x) : x \in L \ {e}}
  BY <1>9
<1>16. PICK U : U = UNION {HeldBy(s, x) : x \in L \ {e}} OBVIOUS
<1>17. Owned(t, L) = Pool(n, r) \cup U
  <2>1. Owned(t, L) = Listed(t.m) \cup HeldBy(t, e)
                        \cup UNION {HeldBy(t, x) : x \in L \ {e}}
    BY DEF Owned
  <2> QED BY <1>4, <1>12, <1>15, <1>16, <2>1 DEF Pool
<1>18. Owned(s, L) = S \cup U
  BY <1>1, <1>16 DEF Owned
<1>19. S \cap U = {} BY <1>1, <1>16
<1> QED BY <1>0, <1>14, <1>17, <1>18, <1>19

-----------------------------------------------------------------------------
\* An operation that keeps the frames of a space keeps those of the kernel.
LEMMA KeepsHolds ==
    ASSUME NEW s, NEW L, L \subseteq Envs, NEW W, Holds(s, L, W), NEW e \in L,
           NEW n, Keeps(n, Space(s, e), s.envs[e].env_cr3),
           NEW t, SpaceSet(t, s, e, n)
    PROVE  Holds(t, L, W)
<1>0. PICK r : r = s.envs[e].env_cr3 OBVIOUS
<1>a. PICK m : m = Space(s, e) OBVIOUS
<1>1. /\ SpaceGood(n, r) /\ Pool(n, r) = Pool(m, r) /\ Local(n, m, Pool(m, r))
  BY <1>0, <1>a DEF Keeps
<1>2. MemGood(s, L) /\ Owned(s, L) = W BY DEF Holds
<1>3. MemGood(t, L) BY <1>0, <1>a, <1>1, <1>2, SpaceStep
<1>4. Owned(t, L) = (Owned(s, L) \ Pool(m, r)) \cup Pool(n, r)
  BY <1>0, <1>a, <1>1, <1>2, SpaceStep
<1>5. Pool(m, r) \subseteq Owned(s, L)
  <2>1. Owned(s, L) = Pool(m, r) \cup Owned(s, L \ {e})
    BY <1>0, <1>a, <1>2, PoolIsPrivate
  <2> QED BY <2>1
<1> QED BY <1>1, <1>2, <1>3, <1>4, <1>5 DEF Holds

\* One that loses f loses f and no more.
LEMMA DropsHolds ==
    ASSUME NEW s, NEW L, L \subseteq Envs, NEW W, Holds(s, L, W), NEW e \in L,
           NEW n, NEW f, Drops(n, Space(s, e), s.envs[e].env_cr3, f),
           NEW t, SpaceSet(t, s, e, n)
    PROVE  Holds(t, L, W \ {f})
<1>0. PICK r : r = s.envs[e].env_cr3 OBVIOUS
<1>a. PICK m : m = Space(s, e) OBVIOUS
<1>1. /\ SpaceGood(n, r) /\ Pool(n, r) = Pool(m, r) \ {f}
      /\ Local(n, m, Pool(m, r)) /\ f \in Pool(m, r)
  BY <1>0, <1>a DEF Drops
<1>2. MemGood(s, L) /\ Owned(s, L) = W BY DEF Holds
<1>3. MemGood(t, L) BY <1>0, <1>a, <1>1, <1>2, SpaceStep
<1>4. Owned(t, L) = (Owned(s, L) \ Pool(m, r)) \cup Pool(n, r)
  BY <1>0, <1>a, <1>1, <1>2, SpaceStep
<1>5. Pool(m, r) \subseteq Owned(s, L)
  <2>1. Owned(s, L) = Pool(m, r) \cup Owned(s, L \ {e})
    BY <1>0, <1>a, <1>2, PoolIsPrivate
  <2> QED BY <2>1
<1> QED BY <1>1, <1>2, <1>3, <1>4, <1>5 DEF Holds

\* The space of e is gone, its frames are listed.
LEMMA EmptiedHolds ==
    ASSUME NEW s, NEW L, L \subseteq Envs, NEW W, Holds(s, L, W), NEW e \in L,
           NEW n, Emptied(n, Space(s, e), s.envs[e].env_cr3),
           NEW t, SpaceSet(t, s, e, n)
    PROVE  Holds(t, L \ {e}, W)
<1>0. PICK r : r = s.envs[e].env_cr3 OBVIOUS
<1>a. PICK m : m = Space(s, e) OBVIOUS
<1>b. PICK S : S = Pool(m, r) OBVIOUS
<1>c. PICK K : K = L \ {e} OBVIOUS
<1>1. MemGood(s, L) /\ Owned(s, L) = W BY DEF Holds
<1>2. /\ \A x \in K : HeldBy(s, x) \cap S = {}
      /\ Owned(s, L) = S \cup Owned(s, K)
      /\ S = Listed(s.m) \cup HeldBy(s, e)
  BY <1>0, <1>a, <1>b, <1>c, <1>1, PoolIsPrivate
<1>3. n \in Memories /\ ListSound(n) /\ Listed(n) = S /\ Local(n, m, S)
  BY <1>0, <1>a, <1>b DEF Emptied
<1>4. /\ s.m \in Memories /\ s.m.directory = EmptyDirectory
      /\ s.m.directory \in [Dirs -> Entries]
  BY <1>1, MemoryParts DEF MemGood, MemoryTypes
<1>5. /\ t.m.free = n.free /\ t.m.references = n.references /\ t.m.table = n.table
      /\ t.m.directory = EmptyDirectory
      /\ Listed(t.m) = Listed(n) /\ t.m \in Memories
  BY <1>3, <1>4, OtherDirectory DEF SpaceSet
<1>6. ListSound(t.m) BY <1>3, <1>5 DEF ListSound
<1>7. m.references = s.m.references /\ m.table = s.m.table
  BY <1>a, <1>4, SpaceParts
<1>8. Local(t.m, s.m, S) BY <1>3, <1>5, <1>7 DEF Local
<1>9. Listed(t.m) \subseteq S /\ K \subseteq L BY <1>3, <1>5, <1>c
<1>10. ASSUME NEW x \in K
       PROVE  /\ SpaceGood(Space(t, x), t.envs[x].env_cr3)
              /\ HeldBy(t, x) = HeldBy(s, x)
  <2>1. SameDirectory(t, s, x) /\ HeldBy(s, x) \cap S = {}
    BY <1>2, <1>c DEF SpaceSet
  <2>2. SpaceStays(t, s, x)
    BY <1>1, <1>5, <1>6, <1>8, <1>9, <2>1, OthersKept
  <2> QED BY <2>2 DEF SpaceStays
<1>11. MemGood(t, K)
  BY <1>1, <1>5, <1>6, <1>9, <1>10 DEF MemGood
<1>12. {HeldBy(t, x) : x \in K} = {HeldBy(s, x) : x \in K} BY <1>10
<1>13. Owned(t, K) = S \cup UNION {HeldBy(s, x) : x \in K}
  BY <1>3, <1>5, <1>12 DEF Owned
<1>14. Owned(s, L) = S \cup UNION {HeldBy(s, x) : x \in K}
  BY <1>2 DEF Owned
<1> QED BY <1>1, <1>11, <1>13, <1>14, <1>c DEF Holds

\* The first free frame becomes the directory of e, which had none.
SpaceMade(t, s, e, f) ==
    /\ t.m.free = Tail(s.m.free)
    /\ t.m.references = [s.m.references EXCEPT ![f] = 1]
    /\ t.m.directory = s.m.directory /\ t.m.table = s.m.table
    /\ t.m.tlb = s.m.tlb /\ IsMemory(t.m)
    /\ t.envs[e].env_pgdir = s.m.directory /\ t.envs[e].env_cr3 = f
    /\ \A x \in Envs \ {e} : SameDirectory(t, s, x)

\* A new directory is taken from the free list.
LEMMA MadeHolds ==
    ASSUME NEW s, NEW L, L \subseteq Envs, NEW W, Holds(s, L, W), NEW e \in Envs \ L,
           s.m.free # <<>>, NEW f, f = Head(s.m.free),
           NEW t, SpaceMade(t, s, e, f)
    PROVE  Holds(t, L \cup {e}, W)
<1>1. /\ MemGood(s, L) /\ Owned(s, L) = W /\ s.m \in Memories
      /\ s.m.directory = EmptyDirectory /\ ListSound(s.m)
  BY DEF Holds, MemGood
<1>2. MemoryTypes(s.m) BY <1>1, MemoryParts
<1>3. /\ Tail(s.m.free) \in Seq(Frames) /\ f \in Frames /\ f \in Listed(s.m)
      /\ IsInjective(Tail(s.m.free))
      /\ Range(Tail(s.m.free)) = Listed(s.m) \ {f}
  BY <1>1, <1>2, PopFacts DEF MemoryTypes, ListSound, Listed
<1>4. f \in Usable BY <1>1, <1>3 DEF ListSound
<1>5. /\ t.m.references \in [Frames -> 0 .. RefModulus - 1]
      /\ t.m.references[f] = 1
      /\ \A g \in Frames : g # f => t.m.references[g] = s.m.references[g]
  <2>1. 1 \in 0 .. RefModulus - 1 BY RefModulusAssumption
  <2> QED BY <1>2, <1>3, <2>1 DEF SpaceMade, MemoryTypes
<1>6. t.m \in Memories
  BY <1>2, <1>3, <1>5, MemoryParts DEF SpaceMade, MemoryTypes
<1>7. Listed(t.m) = Listed(s.m) \ {f} /\ ListSound(t.m)
  BY <1>1, <1>3 DEF SpaceMade, Listed, ListSound
<1>8. PICK S : S = Listed(s.m) OBVIOUS
<1>9. Local(t.m, s.m, S)
  BY <1>3, <1>5, <1>8 DEF Local, SpaceMade
<1>c. PICK K : K = L OBVIOUS
<1>10. ASSUME NEW x \in K
       PROVE  /\ SpaceGood(Space(t, x), t.envs[x].env_cr3)
              /\ HeldBy(t, x) = HeldBy(s, x)
              /\ HeldBy(s, x) \cap S = {}
  <2>0. HeldBy(s, x) \cap S = {}
    BY <1>1, <1>8, <1>c, PoolIsPrivate, SpaceParts, HeldFrames
    DEF MemGood, HeldBy, Single
  <2>1. SameDirectory(t, s, x) /\ K \subseteq L BY <1>c DEF SpaceMade
  <2>2. Listed(t.m) \subseteq S BY <1>7, <1>8
  <2>3. MemGood(s, L) /\ t.m \in Memories /\ ListSound(t.m)
    BY <1>1, <1>6, <1>7
  <2>4. SpaceStays(t, s, x)
    BY <1>9, <2>0, <2>1, <2>2, <2>3, OthersKept
  <2> QED BY <2>0, <2>4 DEF SpaceStays
<1>11. PICK n : n = Space(t, e) OBVIOUS
<1>12. /\ n.free = t.m.free /\ n.references = t.m.references
       /\ n.directory = EmptyDirectory /\ Listed(n) = Listed(t.m)
       /\ n.directory \in [Dirs -> Entries] => n \in Memories
  BY <1>1, <1>6, <1>11, SpaceParts DEF SpaceMade
<1>13. n \in Memories /\ ListSound(n) /\ Single(n, f)
  <2>1. EmptyDirectory \in [Dirs -> Entries]
    BY ZeroIsEntry DEF EmptyDirectory
  <2> QED BY <1>4, <1>5, <1>7, <1>12, <2>1 DEF ListSound, Single
<1>14. (\A d \in Dirs : ~HasTable(n, d)) /\ \A va \in Pages : ~Mapped(n, va)
  <2>1. \A d \in Dirs : ~HasTable(n, d)
    BY <1>12 DEF HasTable, EmptyDirectory
  <2>2. ASSUME NEW va \in Pages PROVE ~Mapped(n, va)
    <3>1. n.directory[va[1]] = ZeroEntry BY <2>1, PageParts DEF HasTable
    <3> QED BY <3>1, ZeroIsEntry DEF Mapped, Walk, PDX
  <2> QED BY <2>1, <2>2
<1>15. SpaceGood(n, f) BY <1>13, <1>14 DEF SpaceGood
<1>16. Held(n, f) = {f} BY <1>14 DEF Held, TableFrames, PageFrames
<1>17. HeldBy(t, e) = {f} /\ SpaceGood(Space(t, e), t.envs[e].env_cr3)
  BY <1>11, <1>15, <1>16 DEF HeldBy, SpaceMade
<1>18. MemGood(t, L \cup {e})
  <2>1. \A x \in L \cup {e} : SpaceGood(Space(t, x), t.envs[x].env_cr3)
    BY <1>10, <1>17, <1>c
  <2>2. \A x \in L \cup {e}, y \in L \cup {e} :
            x # y => HeldBy(t, x) \cap HeldBy(t, y) = {}
    BY <1>1, <1>3, <1>8, <1>10, <1>17, <1>c DEF MemGood
  <2>3. t.m.directory = EmptyDirectory BY <1>1 DEF SpaceMade
  <2> QED BY <1>6, <1>7, <2>1, <2>2, <2>3 DEF MemGood
<1>19. {HeldBy(t, x) : x \in L} = {HeldBy(s, x) : x \in L} BY <1>10, <1>c
<1>20. Owned(t, L \cup {e}) = Owned(s, L)
  <2>1. Owned(t, L \cup {e}) = Listed(t.m) \cup {f} \cup UNION {HeldBy(t, x) : x \in L}
    BY <1>17 DEF Owned
  <2>2. Listed(t.m) \cup {f} = Listed(s.m) BY <1>3, <1>7
  <2> QED BY <1>19, <2>1, <2>2 DEF Owned
<1> QED BY <1>1, <1>18, <1>20 DEF Holds

-----------------------------------------------------------------------------
\* What the operations on the table do to memory: nothing, most of them.
LEMMA ReplaceMemory ==
    ASSUME NEW s, Shaped(s), NEW e \in Envs, NEW r, NEW t, t.m = s.m,
           t.envs = [s.envs EXCEPT ![e] = r],
           r.env_pgdir = s.envs[e].env_pgdir, r.env_cr3 = s.envs[e].env_cr3
    PROVE  MemorySame(t, s)
<1>1. t.envs[e] = r /\ \A x \in Envs : x # e => t.envs[x] = s.envs[x]
  BY DEF Shaped
<1> QED BY <1>1 DEF MemorySame, SameDirectory

\* SetSpace gives e the directory of n, and the kernel the rest of it.
LEMMA SetSpaceMemory ==
    ASSUME NEW s, Shaped(s), NEW e \in Envs, NEW n, NEW t, t = SetSpace(s, e, n)
    PROVE  SpaceSet(t, s, e, n)
<1> DEFINE o == s.envs[e]
           d == n.directory
           r == [o EXCEPT !.env_pgdir = d]
           q == [n EXCEPT !.directory = s.m.directory]
           w == [s.envs EXCEPT ![e] = r]
<1>1. t = [s EXCEPT !.m = q, !.envs = w]
  BY Zenon DEF SetSpace
<1>2. IsEnv(o) /\ IsKernel(s)
  BY DEF Shaped
<1> HIDE DEF q, o, d
<1>3. r.env_pgdir = d /\ r.env_cr3 = o.env_cr3
  BY <1>2 DEF IsEnv
<1> HIDE DEF r
<1>4. w[e] = r /\ \A x \in Envs \ {e} : w[x] = s.envs[x]
  BY DEF Shaped
<1> HIDE DEF w
<1>5. t.m = q /\ t.envs = w BY <1>1, <1>2 DEF IsKernel
<1> QED BY <1>3, <1>4, <1>5 DEF SpaceSet, SameDirectory, q, o, d

\* free_environment changes no memory.
LEMMA FreeEnvironmentMemory ==
    ASSUME NEW s, Shaped(s), NEW e \in Envs,
           NEW t, t = free_environment(lcr3(s, KernelFrame), e)
    PROVE  MemorySame(t, s)
<1> DEFINE u == [s EXCEPT !.cr3 = KernelFrame]
           o == s.envs[e]
           r == [o EXCEPT !.env_status = "FREE"]
           l == <<e>> \o s.list
           w == [s.envs EXCEPT ![e] = r]
<1>0. IsKernel(s) /\ IsEnv(o) BY DEF Shaped
<1>1. u.envs = s.envs /\ u.list = s.list /\ u.m = s.m /\ IsKernel(u)
  BY <1>0 DEF IsKernel
<1> HIDE DEF u
<1>2. t = [u EXCEPT !.curenv = NoEnv, !.list = <<e>> \o u.list,
                    !.envs = [u.envs EXCEPT ![e] = [u.envs[e] EXCEPT !.env_status = "FREE"]]]
  BY Zenon DEF free_environment, lcr3, u
<1>3. t = [u EXCEPT !.curenv = NoEnv, !.list = l, !.envs = w]
  BY <1>1, <1>2
<1> HIDE DEF o, l
<1>4. r.env_pgdir = o.env_pgdir /\ r.env_cr3 = o.env_cr3
  BY <1>0 DEF IsEnv
<1> HIDE DEF r, w
<1>5. t.m = s.m /\ t.envs = w BY <1>1, <1>3 DEF IsKernel
<1> QED BY <1>4, <1>5, ReplaceMemory DEF w, o

\* lcr3 changes no memory.
LEMMA Lcr3Memory ==
    ASSUME NEW s, Shaped(s), NEW f, NEW t, t = lcr3(s, f)
    PROVE  MemorySame(t, s)
<1>1. t = [s EXCEPT !.cr3 = f] /\ IsKernel(s) BY DEF Shaped, lcr3
<1>2. t.m = s.m /\ t.envs = s.envs BY <1>1 DEF IsKernel
<1> QED BY <1>2 DEF MemorySame, SameDirectory

\* Nor does an assignment to userPrograms,
LEMMA ProgramMemory ==
    ASSUME NEW s, Shaped(s), NEW p, NEW x, NEW t, t = SetProgram(s, p, x)
    PROVE  MemorySame(t, s)
<1> DEFINE q == [s.programs EXCEPT ![p] = x]
<1>0. t = [s EXCEPT !.programs = q] BY SMT DEF SetProgram
<1>1. IsKernel(s) BY DEF Shaped
<1> HIDE DEF q
<1>2. t.m = s.m /\ t.envs = s.envs BY <1>0, <1>1 DEF IsKernel
<1> QED BY <1>2 DEF MemorySame, SameDirectory

\* nor one to an eip,
LEMMA EipMemory ==
    ASSUME NEW s, Shaped(s), NEW e \in Envs, NEW v, NEW t, t = SetEip(s, e, v)
    PROVE  MemorySame(t, s)
<1> DEFINE o == s.envs[e]
           r == [o EXCEPT !.eip = v]
           w == [s.envs EXCEPT ![e] = r]
<1>1. t = [s EXCEPT !.envs = w] /\ IsKernel(s)
  BY Zenon DEF Shaped, SetEip
<1>2. IsEnv(o) BY DEF Shaped
<1> HIDE DEF o
<1>3. r.env_pgdir = o.env_pgdir /\ r.env_cr3 = o.env_cr3
  BY <1>2 DEF IsEnv
<1> HIDE DEF r, w
<1>4. t.m = s.m /\ t.envs = w BY <1>1 DEF IsKernel
<1> QED BY <1>3, <1>4, ReplaceMemory DEF w, o

\* nor one to curenv.
LEMMA CurenvMemory ==
    ASSUME NEW s, Shaped(s), NEW x, NEW t, t = [s EXCEPT !.curenv = x]
    PROVE  MemorySame(t, s) /\ Shaped(t)
<1>1. IsKernel(s) BY DEF Shaped
<1>2. t.m = s.m /\ t.envs = s.envs /\ IsKernel(t) BY <1>1 DEF IsKernel
<1> QED BY <1>2 DEF MemorySame, SameDirectory, Shaped

\* Two steps that change no memory change none.
LEMMA MemorySameChain ==
    ASSUME NEW t, NEW u, NEW s, MemorySame(t, u), MemorySame(u, s)
    PROVE  MemorySame(t, s)
BY DEF MemorySame, SameDirectory

\* env_run changes no memory.
LEMMA EnvRunMemory ==
    ASSUME NEW s, Shaped(s), NEW e, NEW t, t = env_run(s, e)
    PROVE  MemorySame(t, s)
<1>1. PICK u : u = [s EXCEPT !.curenv = e] OBVIOUS
<1>2. MemorySame(u, s) /\ Shaped(u) BY <1>1, CurenvMemory
<1>3. CASE s.curenv # e
  <2>1. t = lcr3(u, s.envs[e].env_cr3) BY <1>1, <1>3 DEF env_run
  <2>2. MemorySame(t, u) BY <1>2, <2>1, Lcr3Memory
  <2> QED BY <1>2, <2>2, MemorySameChain
<1>4. CASE s.curenv = e
  BY <1>4 DEF env_run, MemorySame, SameDirectory
<1> QED BY <1>3, <1>4

\* complete_environment_initialization changes no memory.
LEMMA CompleteMemory ==
    ASSUME NEW s, Shaped(s), NEW e \in Envs,
           NEW t, t = complete_environment_initialization(s, e)
    PROVE  MemorySame(t, s)
<1> DEFINE o == s.envs[e]
           i == Generation(o.env_id) + e
           r1 == [o EXCEPT !.env_id = i]
           r == [r1 EXCEPT !.env_status = "RUNNABLE"]
           w == [s.envs EXCEPT ![e] = r]
           l == LIST_REMOVE(s.list, e)
<1>1. t = [s EXCEPT !.envs = w, !.list = l]
  BY Zenon DEF complete_environment_initialization
<1>2. IsEnv(o) /\ IsKernel(s) BY DEF Shaped
<1> HIDE DEF o, i, l
<1>3. r.env_pgdir = o.env_pgdir /\ r.env_cr3 = o.env_cr3
  <2>1. IsEnv(r1) /\ r1.env_pgdir = o.env_pgdir /\ r1.env_cr3 = o.env_cr3
    BY <1>2 DEF IsEnv
  <2> HIDE DEF r1
  <2> QED BY <2>1 DEF IsEnv
<1> HIDE DEF r, w
<1>4. t.m = s.m /\ t.envs = w BY <1>1, <1>2 DEF IsKernel
<1> QED BY <1>3, <1>4, ReplaceMemory DEF w, o

\* The directory of env_create.
LEMMA CreateMemory ==
    ASSUME NEW s, Shaped(s), s.m \in Memories, s.m.free # <<>>, NEW e \in Envs,
           NEW a, a = allocate_frame(s.m),
           NEW t, t = CreateDirectory([s EXCEPT !.m = a.mem], e, a.frame)
    PROVE  a.ret = 0 /\ SpaceMade(t, s, e, Head(s.m.free)) /\ Shaped(t)
<1>a. PICK f : f = Head(s.m.free) OBVIOUS
<1>b. PICK n : n = a.mem OBVIOUS
<1>0. IsKernel(s) /\ IsMemory(s.m) /\ MemoryTypes(s.m)
  BY MemoryParts DEF Shaped
<1>1. /\ a.ret = 0 /\ a.frame = f
      /\ n = [[s.m EXCEPT !.free = Tail(s.m.free)] EXCEPT !.references[f] = 0]
  BY <1>a, <1>b DEF allocate_frame, LIST_REMOVE_FIRST, initialize_frame_info
<1>2. f \in Frames BY <1>0, <1>a DEF MemoryTypes
<1> DEFINE c0 == [s.m.references EXCEPT ![f] = 0]
<1>3. /\ n.free = Tail(s.m.free) /\ n.directory = s.m.directory
      /\ n.table = s.m.table /\ n.tlb = s.m.tlb /\ n.references = c0
      /\ IsMemory(n)
  BY <1>0, <1>1 DEF IsMemory
<1>4. PICK b : b = [s EXCEPT !.m = n] OBVIOUS
<1>5. b.m = n /\ b.envs = s.envs /\ IsKernel(b) BY <1>0, <1>4 DEF IsKernel
<1>6. Shaped(b) BY <1>5 DEF Shaped
<1> DEFINE o == s.envs[e]
           d == b.m.directory
           r1 == [o EXCEPT !.env_pgdir = d]
           r == [r1 EXCEPT !.env_cr3 = f]
           w == [s.envs EXCEPT ![e] = r]
           c1 == [n.references EXCEPT ![f] = 1]
           q == [n EXCEPT !.references = c1]
<1>7. t = [b EXCEPT !.m = q, !.envs = w]
  <2>1. t = CreateDirectory(b, e, f) BY <1>1, <1>4, <1>b
  <2> DEFINE rb == [[b.envs[e] EXCEPT !.env_pgdir = b.m.directory] EXCEPT !.env_cr3 = f]
             wb == [b.envs EXCEPT ![e] = rb]
             qb == [b.m EXCEPT !.references[f] = 1]
  <2>a. CreateDirectory(b, e, f) = [b EXCEPT !.m = qb, !.envs = wb]
    BY Zenon DEF CreateDirectory
  <2>2. t = [b EXCEPT !.m = qb, !.envs = wb]
    BY <2>1, <2>a
  <2>3. qb = q BY <1>5
  <2>4. wb = w BY <1>5
  <2> HIDE DEF qb, wb, q, w
  <2> QED BY <2>2, <2>3, <2>4
<1>8. IsEnv(o) BY DEF Shaped
<1>9. c1 = [s.m.references EXCEPT ![f] = 1]
  BY <1>2, <1>3, <1>0 DEF MemoryTypes
<1> HIDE DEF o, d, c1
<1>10. /\ q.free = n.free /\ q.references = c1 /\ q.directory = n.directory
       /\ q.table = n.table /\ q.tlb = n.tlb /\ IsMemory(q)
  BY <1>3 DEF IsMemory
<1>11. r.env_pgdir = d /\ r.env_cr3 = f /\ IsEnv(r)
  <2>1. IsEnv(r1) /\ r1.env_pgdir = d BY <1>8 DEF IsEnv
  <2> HIDE DEF r1
  <2> QED BY <2>1 DEF IsEnv
<1> HIDE DEF q, r, w
<1>12. t.m = q /\ t.envs = w /\ IsKernel(t) BY <1>5, <1>7 DEF IsKernel
<1>13. w[e] = r /\ \A x \in Envs \ {e} : w[x] = s.envs[x]
  BY DEF Shaped, w
<1>14. SpaceMade(t, s, e, f)
  BY <1>3, <1>5, <1>9, <1>10, <1>11, <1>12, <1>13
  DEF SpaceMade, SameDirectory, d
<1>15. Shaped(t)
  BY <1>11, <1>12, ReplaceEnv DEF Replaced, w
<1> QED BY <1>1, <1>14, <1>15, <1>a

-----------------------------------------------------------------------------
\* The operations on environments, and the frames they leave.

\* env_free gives back everything.
LEMMA FreeHolds ==
    ASSUME NEW s, Shaped(s), NEW L, L \subseteq Envs, NEW W, Holds(s, L, W),
           NEW e \in L, NEW t, t = env_free(s, e)
    PROVE  Holds(t, L \ {e}, W)
<1>0. PICK n : n = EmptySpace(s, e) OBVIOUS
<1>a. PICK u : u = SetSpace(s, e, n) OBVIOUS
<1>1. e \in Envs /\ SpaceGood(Space(s, e), s.envs[e].env_cr3)
  BY DEF Holds, MemGood
<1>2. Emptied(n, Space(s, e), s.envs[e].env_cr3)
  BY <1>0, <1>1, EmptySpaceGood DEF EmptySpace
<1>3. SpaceSet(u, s, e, n) BY <1>a, <1>1, SetSpaceMemory
<1>4. Holds(u, L \ {e}, W) BY <1>2, <1>3, EmptiedHolds
<1>5. Shaped(u) BY <1>a, <1>1, SetSpaceControl DEF SameControl
<1>6. t = free_environment(lcr3(u, KernelFrame), e)
  BY <1>0, <1>a DEF env_free
<1>7. MemorySame(t, u) BY <1>1, <1>5, <1>6, FreeEnvironmentMemory
<1>8. L \ {e} \subseteq Envs OBVIOUS
<1> QED BY <1>4, <1>7, <1>8, HoldsSame

\* env_free and clearing the row of userPrograms: everything is given back.
LEMMA UnloadHolds ==
    ASSUME NEW s, Shaped(s), NEW L, L \subseteq Envs, NEW W, Holds(s, L, W),
           NEW e \in L, NEW p, NEW t, t = Unload(s, e, p)
    PROVE  Holds(t, L \ {e}, W)
<1>1. PICK u : u = env_free(s, e) OBVIOUS
<1>2. Holds(u, L \ {e}, W) BY <1>1, FreeHolds
<1>3. Shaped(u) BY <1>1, EnvFreeControl DEF Freed
<1>4. t = SetProgram(u, p, NoEnv) BY <1>1 DEF Unload, SetProgram
<1>5. MemorySame(t, u) BY <1>3, <1>4, ProgramMemory
<1>6. L \ {e} \subseteq Envs OBVIOUS
<1> QED BY <1>2, <1>5, <1>6, HoldsSame

\* What a creation leaves: e with its space, or nothing of e; one frame may
\* be lost in the second case.
Creation(c, L, e, W) ==
    \/ c.ok = TRUE /\ Holds(c.s, L, W)
    \/ c.ok = FALSE /\ Holds(c.s, L \ {e}, W)
    \/ c.ok = FALSE /\ \E f : Holds(c.s, L \ {e}, W \ {f})

\* env_create from the stack page on: on each way out, at most the frame that
\* map_frame left unmapped is lost.
LEMMA EnterHolds ==
    ASSUME NEW s, Shaped(s), NEW L, L \subseteq Envs, NEW W, Holds(s, L, W),
           NEW e \in L, NEW p, s.programs[p] = e, NEW cr3,
           NEW c, c = EnterProgram(s, e, p, cr3)
    PROVE  Creation(c, L, e, W)
<1>a. PICK n : n = MapNew(allocate_frame(Space(s, e)), StackPage) OBVIOUS
<1>b. PICK u : u = set_environment_entry_point(s, p) OBVIOUS
<1>c. PICK v : v = SetSpace(u, e, n.mem) OBVIOUS
<1>d. PICK m : m = Space(s, e) OBVIOUS
<1>e. PICK r : r = s.envs[e].env_cr3 OBVIOUS
<1>0. e \in Envs /\ StackPage \in Pages BY EnvironmentsAssumption
<1>1. c = IF n.ret = E_NO_MEM THEN [ok |-> FALSE, s |-> Unload(v, e, p)]
          ELSE [ok |-> TRUE, s |-> lcr3(v, cr3)]
  BY <1>a, <1>b, <1>c, Zenon DEF EnterProgram, MapStack
<1>2. u = SetEip(s, e, p) BY <1>b DEF set_environment_entry_point, SetEip
<1>3. MemorySame(u, s) /\ Shaped(u) BY <1>0, <1>2, EipMemory, EipControl
<1>4. Holds(u, L, W) BY <1>3, HoldsSame
<1>5. Space(u, e) = m /\ u.envs[e].env_cr3 = r
  BY <1>0, <1>3, <1>d, <1>e DEF MemorySame, SameDirectory, Space
<1>6. SpaceGood(m, r) BY <1>d, <1>e DEF Holds, MemGood
<1>7. SpaceSet(v, u, e, n.mem) /\ Shaped(v)
  BY <1>0, <1>3, <1>c, SetSpaceMemory, SetSpaceControl DEF SameControl
<1>8. \/ NoFrame(n, m)
      \/ \E f \in Usable : NoTable(n, m, r, StackPage, f)
      \/ n.ret = 0 /\ Keeps(n.mem, m, r)
  BY <1>0, <1>6, <1>a, <1>d, MapNewSpace
<1>9. CASE NoFrame(n, m)
  <2>1. Keeps(n.mem, m, r) /\ n.ret = E_NO_MEM
    BY <1>6, <1>9 DEF NoFrame, Keeps, Local
  <2>2. Holds(v, L, W) BY <1>4, <1>5, <1>7, <2>1, KeepsHolds
  <2>3. Holds(Unload(v, e, p), L \ {e}, W) BY <1>7, <2>2, UnloadHolds
  <2> QED BY <1>1, <2>1, <2>3 DEF Creation
<1>10. ASSUME NEW f \in Usable, NoTable(n, m, r, StackPage, f)
       PROVE  Creation(c, L, e, W)
  <2>1. Drops(n.mem, m, r, f) /\ n.ret = E_NO_MEM
    BY <1>10 DEF NoTable, Loose
  <2>2. Holds(v, L, W \ {f}) BY <1>4, <1>5, <1>7, <2>1, DropsHolds
  <2>3. Holds(Unload(v, e, p), L \ {e}, W \ {f})
    BY <1>7, <2>2, UnloadHolds
  <2>4. c = [ok |-> FALSE, s |-> Unload(v, e, p)] BY <1>1, <2>1
  <2>5. PICK w : w = Unload(v, e, p) OBVIOUS
  <2>6. c.ok = FALSE /\ Holds(c.s, L \ {e}, W \ {f}) BY <2>3, <2>4, <2>5
  <2> QED BY <2>6, Zenon DEF Creation
<1>11. CASE n.ret = 0 /\ Keeps(n.mem, m, r)
  <2>1. n.ret # E_NO_MEM BY <1>11 DEF E_NO_MEM
  <2>2. Holds(v, L, W) BY <1>4, <1>5, <1>7, <1>11, KeepsHolds
  <2>3. MemorySame(lcr3(v, cr3), v) BY <1>7, Lcr3Memory
  <2>4. Holds(lcr3(v, cr3), L, W) BY <2>2, <2>3, HoldsSame
  <2> QED BY <1>1, <2>1, <2>4 DEF Creation
<1> QED BY <1>8, <1>9, <1>10, <1>11

\* env_create from the segments on.
LEMMA LoadIntoHolds ==
    ASSUME NEW s, Shaped(s), NEW L, L \subseteq Envs, NEW W, Holds(s, L, W),
           NEW e \in L, NEW p \in Programs, DOMAIN s.programs = Programs,
           NEW c, c = LoadInto(s, e, p)
    PROVE  Creation(c, L, e, W)
<1>a. PICK u : u = SetProgram(s, p, e) OBVIOUS
<1>b. PICK v : v = lcr3(u, s.envs[e].env_cr3) OBVIOUS
<1>c. PICK seg : seg = program_segment_alloc_map(v, e, SegmentPage) OBVIOUS
<1>d. PICK m : m = Space(v, e) OBVIOUS
<1>e. PICK r : r = v.envs[e].env_cr3 OBVIOUS
<1>f. PICK n : n = MapNew(allocate_frame(m), SegmentPage) OBVIOUS
<1>g. PICK q : q = IF n.ret = E_NO_MEM /\ n.frame # NULL
                   THEN free_frame(n.mem, n.frame) ELSE n.mem
  OBVIOUS
<1>0. e \in Envs /\ SegmentPage \in Pages BY EnvironmentsAssumption
<1>1. c = LoadProgram(seg, e, p, s.cr3)
  BY <1>a, <1>b, <1>c DEF LoadInto, SetProgram
<1>2. seg = [ret |-> n.ret, s |-> SetSpace(v, e, q)]
  BY <1>c, <1>d, <1>f, <1>g, Zenon DEF program_segment_alloc_map
<1>3. MemorySame(u, s) /\ ProgramIsSet(u, s, p, e)
  BY <1>a, ProgramMemory, ProgramControl
<1>4. Shaped(u) /\ u.programs[p] = e BY <1>3 DEF ProgramIsSet
<1>5. MemorySame(v, u) /\ Shaped(v) /\ v.programs = u.programs
  BY <1>4, <1>b, Lcr3Memory, Lcr3Control
<1>6. Holds(v, L, W) BY <1>3, <1>5, HoldsSame
<1>7. SpaceGood(m, r) BY <1>6, <1>d, <1>e DEF Holds, MemGood
<1>8. Keeps(q, m, r) BY <1>0, <1>7, <1>f, <1>g, SegmentSpace
<1>9. PICK w : w = SetSpace(v, e, q) OBVIOUS
<1>10. SpaceSet(w, v, e, q) /\ SameControl(w, v)
  BY <1>0, <1>5, <1>9, SetSpaceMemory, SetSpaceControl
<1>11. Holds(w, L, W) BY <1>6, <1>8, <1>10, <1>d, <1>e, KeepsHolds
<1>12. Shaped(w) /\ w.programs[p] = e /\ seg.s = w
  BY <1>2, <1>4, <1>5, <1>9, <1>10 DEF SameControl
<1>13. CASE seg.ret = E_NO_MEM
  <2>1. c = [ok |-> FALSE, s |-> Unload(w, e, p)]
    BY <1>1, <1>12, <1>13 DEF LoadProgram
  <2>2. Holds(Unload(w, e, p), L \ {e}, W) BY <1>11, <1>12, UnloadHolds
  <2> QED BY <2>1, <2>2 DEF Creation
<1>14. CASE seg.ret # E_NO_MEM
  <2>1. c = EnterProgram(w, e, p, s.cr3)
    BY <1>1, <1>12, <1>14 DEF LoadProgram
  <2> QED BY <1>11, <1>12, <2>1, EnterHolds
<1> QED BY <1>13, <1>14

\* env_create, with the first environment of the list, which has no space.
LEMMA CreateHolds ==
    ASSUME NEW s, Shaped(s), NEW L, L \subseteq Envs, NEW W, Holds(s, L, W),
           NEW p \in Programs, DOMAIN s.programs = Programs, s.list \in Seq(Envs),
           s.list # <<>> => Head(s.list) \notin L,
           NEW c, c = env_create(s, p)
    PROVE  \/ c.ok = FALSE /\ c.s = s
           \/ /\ s.list # <<>>
              /\ Creation(c, L \cup {Head(s.list)}, Head(s.list), W)
<1>a. PICK a : a = allocate_frame(s.m) OBVIOUS
<1>b. PICK e : e = Head(s.list) OBVIOUS
<1>c. PICK b : b = CreateDirectory([s EXCEPT !.m = a.mem], e, a.frame) OBVIOUS
<1>d. PICK t : t = complete_environment_initialization(b, e) OBVIOUS
<1>1. CASE allocate_environment(s) = NoEnv \/ a.ret = E_NO_MEM
  <2>1. c = [ok |-> FALSE, s |-> s] BY <1>1, <1>a DEF env_create
  <2> QED BY <2>1
<1>2. CASE ~(allocate_environment(s) = NoEnv \/ a.ret = E_NO_MEM)
  <2>1. s.list # <<>> /\ allocate_environment(s) = e
    BY <1>2, <1>b DEF allocate_environment
  <2>2. e \in Envs /\ e \notin L BY <1>b, <2>1
  <2>3. c = LoadInto(t, e, p) BY <1>2, <1>a, <1>c, <1>d, <2>1 DEF env_create
  <2>4. s.m.free # <<>>
    <3>1. s.m.free = <<>> => a.ret = E_NO_MEM BY <1>a, AllocateNone
    <3> QED BY <1>2, <3>1
  <2>5. s.m \in Memories BY DEF Holds, MemGood
  <2>6. SpaceMade(b, s, e, Head(s.m.free)) /\ Shaped(b)
    BY <1>a, <1>c, <2>2, <2>4, <2>5, CreateMemory
  <2>7. Holds(b, L \cup {e}, W) BY <2>2, <2>4, <2>6, MadeHolds
  <2>8. MemorySame(t, b) BY <1>d, <2>2, <2>6, CompleteMemory
  <2>9. L \cup {e} \subseteq Envs BY <2>2
  <2>10. Holds(t, L \cup {e}, W) BY <2>7, <2>8, <2>9, HoldsSame
  <2>11. Completed(t, s, e) BY <1>c, <1>d, <2>2, CompleteControl
  <2>12. Shaped(t) /\ DOMAIN t.programs = Programs
    BY <2>11 DEF Completed
  <2>13. PICK K : K = L \cup {e} OBVIOUS
  <2>14. Creation(c, K, e, W)
    BY <2>3, <2>9, <2>10, <2>12, <2>13, LoadIntoHolds
  <2> QED BY <1>b, <2>1, <2>13, <2>14
<1> QED BY <1>1, <1>2

-----------------------------------------------------------------------------
\* The steps.

\* What memory is, between steps.
MemInv == MemGood(k, Live(k))

\* The frames that are free or somebody's: all of them, or but one.
NothingLost == Holds(k', Live(k'), Owned(k, Live(k)))

OneLost == LossReason /\ \E f : Holds(k', Live(k'), Owned(k, Live(k)) \ {f})

\* The memory of the kernel, as Holds says it.
LEMMA MemHolds ==
    ASSUME MemInv
    PROVE  Holds(k, Live(k), Owned(k, Live(k))) /\ Live(k) \subseteq Envs
BY DEF MemInv, Holds, Live

\* A step that leaves memory alone.
LEMMA MemorySteps ==
    ASSUME MemInv, MemorySame(k', k), Live(k') = Live(k)
    PROVE  NothingLost
<1>1. PICK W : W = Owned(k, Live(k)) OBVIOUS
<1>2. PICK L : L = Live(k) OBVIOUS
<1>3. Holds(k, L, W) /\ L \subseteq Envs BY <1>1, <1>2, MemHolds
<1>4. PICK t : t = k' OBVIOUS
<1>5. MemorySame(t, k) BY <1>4
<1>6. Holds(t, L, W) BY <1>3, <1>5, HoldsSame
<1> QED BY <1>1, <1>2, <1>4, <1>6 DEF NothingLost

\* The registers saved by a trap.
LEMMA TrappedMemory ==
    ASSUME Inv, mode = "user"
    PROVE  MemorySame(Trapped, k)
<1>1. k.curenv \in Envs /\ Shaped(k)
  BY CurrentIsLive DEF Inv, TableGood
<1>2. Trapped = SetEip(k, k.curenv, Inside) BY DEF Trapped, SetEip
<1> QED BY <1>1, <1>2, EipMemory

\* The entry point that env_run_cmd_prmpt saves, in whichever environment.
LEMMA EipAnywhereMemory ==
    ASSUME NEW s, Shaped(s), NEW e, NEW v, NEW t, t = SetEip(s, e, v)
    PROVE  MemorySame(t, s)
<1>1. CASE e \in Envs BY <1>1, EipMemory
<1>2. CASE e \notin Envs
  <2> DEFINE o == s.envs[e]
             r == [o EXCEPT !.eip = v]
             w == [s.envs EXCEPT ![e] = r]
  <2>1. t = [s EXCEPT !.envs = w] /\ IsKernel(s)
    BY Zenon DEF Shaped, SetEip
  <2> HIDE DEF r
  <2>2. w = s.envs BY <1>2 DEF Shaped
  <2> HIDE DEF w
  <2>3. t.envs = w /\ t.m = s.m BY <2>1 DEF IsKernel
  <2> QED BY <2>2, <2>3 DEF MemorySame, SameDirectory
<1> QED BY <1>1, <1>2

\* env_run_cmd_prmpt leaves memory alone.
LEMMA SleepMemory ==
    ASSUME NEW s, Shaped(s), NEW t, t = env_run_cmd_prmpt(s)
    PROVE  MemorySame(t, s)
<1>1. PICK p : p = Min({q \in Programs : s.programs[q] = s.curenv}) OBVIOUS
<1>2. PICK u : u = set_environment_entry_point(s, p) OBVIOUS
<1>3. PICK v : v = lcr3(u, KernelFrame) OBVIOUS
<1>4. t = [v EXCEPT !.curenv = NoEnv]
  BY <1>1, <1>2, <1>3 DEF env_run_cmd_prmpt
<1>5. u = SetEip(s, s.programs[p], p)
  BY <1>2 DEF set_environment_entry_point, SetEip
<1>6. MemorySame(u, s) /\ Shaped(u)
  BY <1>5, EipAnywhereMemory, EipAnywhere DEF Kept
<1>7. MemorySame(v, u) /\ Shaped(v) BY <1>3, <1>6, Lcr3Memory, Lcr3Control
<1>8. MemorySame(t, v) BY <1>4, <1>7, CurenvMemory
<1> QED BY <1>6, <1>7, <1>8, MemorySameChain

\* An environment destroyed gives back all it had.
LEMMA DestroyMemory ==
    ASSUME Inv, MemInv, k.curenv \in Live(k), NEW s, Handed(s),
           NEW what, env_destroy(s, k.curenv, what)
    PROVE  NothingLost
<1>a. PICK e : e = k.curenv OBVIOUS
<1>b. PICK W : W = Owned(k, Live(k)) OBVIOUS
<1>c. PICK L : L = Live(k) OBVIOUS
<1>d. PICK t : t = env_free(s, e) OBVIOUS
<1>1. e \in L /\ e \in Envs BY <1>a, <1>c DEF Live
<1>2. Holds(k, L, W) /\ L \subseteq Envs BY <1>b, <1>c, MemHolds
<1>3. Shaped(s) /\ NearlySame(s, k, e) BY <1>a, HandedControl
<1>4. Holds(s, L, W) BY <1>2, TrappedMemory, HoldsSame DEF Handed
<1>5. Holds(t, L \ {e}, W) BY <1>1, <1>2, <1>3, <1>4, <1>d, FreeHolds
<1>6. Freed(t, s, e) BY <1>1, <1>3, <1>d, EnvFreeControl
<1>7. Freed(t, k, e) BY <1>1, <1>3, <1>6, NearlySameFacts
<1>8. Live(t) = L \ {e}
  <2>1. TableGood(k, past) BY DEF Inv
  <2> QED BY <1>1, <1>7, <1>c, <2>1, FreedGood
<1>9. k' = t BY <1>a, <1>d DEF env_destroy, Step
<1> QED BY <1>5, <1>8, <1>9, <1>b DEF NothingLost

\* The command kill of a program that still has its environment.
LEMMA KillMemory ==
    ASSUME Inv, MemInv, NEW p \in Programs, command_kill(p)
    PROVE  NothingLost
<1>a. PICK e : e = k.programs[p] OBVIOUS
<1>b. PICK W : W = Owned(k, Live(k)) OBVIOUS
<1>c. PICK L : L = Live(k) OBVIOUS
<1>d. PICK t : t = Unload(k, e, p) OBVIOUS
<1>1. /\ TableGood(k, past) /\ Shaped(k) /\ StatusGood(k)
      /\ k.programs \in [Programs -> Envs \cup {NoEnv}]
  BY DEF Inv, TableGood, ProgramsGood
<1>2. CASE e = NoEnv \/ k.envs[e].env_status = "FREE"
  <2>1. k' = k BY <1>2, <1>a DEF command_kill, Stop
  <2>2. MemorySame(k', k) BY <2>1 DEF MemorySame, SameDirectory
  <2> QED BY <2>1, <2>2, MemorySteps
<1>3. CASE ~(e = NoEnv \/ k.envs[e].env_status = "FREE")
  <2>1. k' = t BY <1>3, <1>a, <1>d DEF command_kill, Step, Unload
  <2>2. e \in L /\ e \in Envs BY <1>1, <1>3, <1>a, <1>c DEF StatusGood, Live
  <2>3. Holds(k, L, W) /\ L \subseteq Envs BY <1>b, <1>c, MemHolds
  <2>4. Holds(t, L \ {e}, W) BY <1>1, <1>d, <2>2, <2>3, UnloadHolds
  <2>5. Freed(t, k, e) BY <1>1, <1>d, <2>2, UnloadControl
  <2>6. Live(t) = L \ {e} BY <1>1, <1>c, <2>2, <2>5, FreedGood
  <2> QED BY <2>1, <2>4, <2>6, <1>b DEF NothingLost
<1> QED BY <1>2, <1>3

\* env_run leaves memory and the table alone.
LEMMA EnvRunTable ==
    ASSUME NEW s, Shaped(s), NEW e
    PROVE  MemorySame(env_run(s, e), s) /\ Live(env_run(s, e)) = Live(s)
<1>1. PICK t : t = env_run(s, e) OBVIOUS
<1>2. MemorySame(t, s) BY <1>1, EnvRunMemory
<1>3. t.envs = s.envs
  <2>1. CASE s.curenv # e BY <1>1, <2>1, EnvRunControl DEF Running
  <2>2. CASE s.curenv = e BY <1>1, <2>2 DEF env_run
  <2> QED BY <2>1, <2>2
<1> QED BY <1>1, <1>2, <1>3 DEF Live

\* The command run.
LEMMA RunMemory ==
    ASSUME Inv, MemInv, NEW p \in Programs, command_run(p)
    PROVE  NothingLost \/ OneLost
<1>a. PICK c : c = env_create(k, p) OBVIOUS
<1>b. PICK W : W = Owned(k, Live(k)) OBVIOUS
<1>c. PICK L : L = Live(k) OBVIOUS
<1>d. PICK e : e = Head(k.list) OBVIOUS
<1>1. RunCreated(c, p) BY <1>a DEF command_run
<1>2. /\ TableGood(k, past) /\ Shaped(k) /\ k.list \in Seq(Envs)
      /\ DOMAIN k.programs = Programs /\ IsInjective(k.list)
      /\ Range(k.list) = Envs \ L
      /\ k.programs \in [Programs -> Envs \cup {NoEnv}]
  BY <1>c DEF Inv, TableGood, ListGood, ProgramsGood
<1>3. Holds(k, L, W) /\ L \subseteq Envs BY <1>b, <1>c, MemHolds
<1>4. k.list # <<>> => e \in Envs /\ e \notin L
  <2>1. ASSUME k.list # <<>> PROVE e \in Range(k.list)
    <3>1. 1 \in DOMAIN k.list /\ e = k.list[1] BY <1>2, <1>d, <2>1
    <3> QED BY <3>1 DEF Range
  <2> QED BY <1>2, <2>1
<1>5. \/ c.ok = FALSE /\ c.s = k
      \/ k.list # <<>> /\ Creation(c, L \cup {e}, e, W)
  BY <1>2, <1>3, <1>4, <1>a, <1>d, CreateHolds
<1>6. \/ c.ok = FALSE /\ c.s = k
      \/ /\ k.list # <<>>
         /\ \/ c.ok = FALSE /\ CreateFailed(c.s, k, e, p)
            \/ c.ok = TRUE /\ CreateSucceeded(c.s, k, e, p)
  BY <1>2, <1>a, <1>d, EnvCreateControl
<1>7. c.ok = FALSE => k' = c.s /\ last' = [op |-> "run", p |-> p]
  BY <1>1 DEF RunCreated, Step
<1>8. c.ok = TRUE => k' = env_run(c.s, c.s.programs[p])
  BY <1>1 DEF RunCreated, Step
<1>9. CASE c.ok = FALSE /\ c.s = k
  <2>1. k' = k BY <1>7, <1>9
  <2>2. MemorySame(k', k) BY <2>1 DEF MemorySame, SameDirectory
  <2> QED BY <2>1, <2>2, MemorySteps
<1>10. CASE /\ k.list # <<>> /\ Creation(c, L \cup {e}, e, W)
            /\ c.ok = FALSE /\ CreateFailed(c.s, k, e, p)
  <2>1. PICK t : t = c.s OBVIOUS
  <2>2. Live(t) = L BY <1>2, <1>10, <1>c, <1>d, <2>1, CreateFailedGood
  <2>3. k' = t /\ last' = [op |-> "run", p |-> p] BY <1>7, <1>10, <2>1
  <2>4. t.programs[p] = NoEnv BY <1>2, <1>10, <2>1 DEF CreateFailed
  <2>5. LossReason
    <3>1. last'.op = "run" /\ last'.p = p BY <2>3
    <3>2. Cardinality(Live(k')) = Cardinality(Live(k)) BY <2>2, <2>3, <1>c
    <3>3. k'.programs[last'.p] = NoEnv BY <2>3, <2>4, <3>1
    <3> QED BY <3>1, <3>2, <3>3 DEF LossReason
  <2>6. (L \cup {e}) \ {e} = L BY <1>4, <1>10
  <2>7. \/ Holds(t, L, W)
        \/ \E f : Holds(t, L, W \ {f})
    BY <1>10, <2>1, <2>6 DEF Creation
  <2>8. CASE Holds(t, L, W)
    BY <2>2, <2>3, <2>8, <1>b DEF NothingLost
  <2>9. CASE \E f : Holds(t, L, W \ {f})
    BY <2>2, <2>3, <2>5, <2>9, <1>b DEF OneLost
  <2> QED BY <2>7, <2>8, <2>9
<1>11. CASE /\ k.list # <<>> /\ Creation(c, L \cup {e}, e, W)
            /\ c.ok = TRUE /\ CreateSucceeded(c.s, k, e, p)
  <2>1. PICK u : u = c.s OBVIOUS
  <2>2. PICK t : t = env_run(u, u.programs[p]) OBVIOUS
  <2>3. Live(u) = L \cup {e} BY <1>2, <1>11, <1>c, <1>d, <2>1, CreateSucceededGood
  <2>4. Shaped(u) BY <1>11, <2>1 DEF CreateSucceeded
  <2>5. MemorySame(t, u) /\ Live(t) = Live(u) BY <2>2, <2>4, EnvRunTable
  <2>6. Holds(u, L \cup {e}, W) BY <1>11, <2>1 DEF Creation
  <2>7. L \cup {e} \subseteq Envs BY <1>3, <1>4, <1>11
  <2>8. Holds(t, L \cup {e}, W) BY <2>5, <2>6, <2>7, HoldsSame
  <2>9. k' = t BY <1>8, <1>11, <2>1, <2>2
  <2> QED BY <2>3, <2>5, <2>8, <2>9, <1>b DEF NothingLost
<1> QED BY <1>5, <1>6, <1>9, <1>10, <1>11

-----------------------------------------------------------------------------
\* sys_allocate_page.  The frame it may lose is the first of the list.
PageValue(va, aligned, perm) ==
    [op |-> "allocate_page", va |-> va, valid |-> aligned /\ ValidPerm(perm)]

\* sys_allocate_page keeps every frame, or loses one in the way LossReason names.
LEMMA PageMemory ==
    ASSUME Inv, MemInv, NEW va \in Pages, NEW aligned \in BOOLEAN,
           NEW perm \in {UW, UW \cup {PERM_PRESENT}},
           sys_allocate_page(va, aligned, perm)
    PROVE  NothingLost \/ OneLost
<1>a. PICK e : e = k.curenv OBVIOUS
<1>b. PICK W : W = Owned(k, Live(k)) OBVIOUS
<1>c. PICK L : L = Live(k) OBVIOUS
<1>d. PICK m : m = Space(k, e) OBVIOUS
<1>e. PICK r : r = k.envs[e].env_cr3 OBVIOUS
<1>f. PICK a : a = allocate_frame(m) OBVIOUS
<1>g. PICK f : f = Head(m.free) OBVIOUS
<1>h. PICK s : s = Trapped OBVIOUS
<1>i. PICK t : t = AllocatedPage(s, e, a, va, aligned, perm) OBVIOUS
<1>1. mode = "user" /\ ReturnToUser(t, PageValue(va, aligned, perm))
  BY <1>a, <1>d, <1>f, <1>h, <1>i DEF sys_allocate_page, PageValue
<1>2. k' = t /\ last' = PageValue(va, aligned, perm)
  BY <1>1 DEF ReturnToUser, Step, env_run
<1>3. e \in L /\ e \in Envs BY <1>1, <1>a, <1>c, CurrentIsLive
<1>4. Holds(k, L, W) /\ L \subseteq Envs BY <1>b, <1>c, MemHolds
<1>5. MemorySame(s, k) /\ Shaped(s) /\ Resumable(s, k)
  BY <1>1, <1>h, TrappedMemory, TrappedControl
<1>6. Holds(s, L, W) BY <1>4, <1>5, HoldsSame
<1>7. Space(s, e) = m /\ s.envs[e].env_cr3 = r
  BY <1>3, <1>5, <1>d, <1>e DEF MemorySame, SameDirectory, Space
<1>8. SpaceGood(m, r) BY <1>3, <1>4, <1>d, <1>e DEF Holds, MemGood
<1>9. a.ret \in {0, E_NO_MEM} BY <1>f DEF allocate_frame
<1>10. Live(t) = L
  <2>1. Resumable(t, k) BY <1>1, <1>9, <1>a, <1>h, <1>i, AllocatedPageControl
  <2> QED BY <2>1, <1>c DEF Resumable, Kept, Live
<1>11. E_NO_MEM # 0 BY DEF E_NO_MEM
<1>12. CASE a.ret = E_NO_MEM
  <2>1. t = s BY <1>11, <1>12, <1>i DEF AllocatedPage
  <2>2. Holds(t, L, W) BY <1>6, <2>1
  <2> QED BY <1>2, <1>10, <2>2, <1>b DEF NothingLost
<1>13. CASE a.ret = 0
  <2>1. m.free # <<>> BY <1>11, <1>13, <1>f, AllocateNone
  <2>2. /\ a.frame = f /\ Loose(a.mem, m, r, f)
    BY <1>8, <1>f, <1>g, <2>1, AllocateLoose
  <2>3. CASE ~(aligned /\ ValidPerm(perm))
    <3>1. t = SetSpace(s, e, a.mem) BY <1>11, <1>13, <1>i, <2>3 DEF AllocatedPage
    <3>2. SpaceSet(t, s, e, a.mem) BY <1>3, <1>5, <3>1, SetSpaceMemory
    <3>3. Drops(a.mem, Space(s, e), s.envs[e].env_cr3, f)
      BY <1>7, <2>2 DEF Loose
    <3>4. Holds(t, L, W \ {f}) BY <1>3, <1>4, <1>6, <3>2, <3>3, DropsHolds
    <3>5. LossReason BY <1>2, <2>3 DEF LossReason, PageValue
    <3> QED BY <1>2, <1>10, <3>4, <3>5, <1>b DEF OneLost
  <2>4. CASE aligned /\ ValidPerm(perm)
    <3>a. PICK c : c = a.mem OBVIOUS
    <3>b. PICK x : x = PageCall(c, f, va, perm) OBVIOUS
    <3>c. PICK n : n = PageResult(x, f) OBVIOUS
    <3>0. perm \in SUBSET PermBits BY DEF UW, PermBits
    <3>1. \/ Keeps(n, m, r)
          \/ Drops(n, m, r, f) /\ Len(m.free) = 1 /\ ~HasTable(m, va[1])
      BY <1>8, <1>f, <1>g, <2>1, <3>a, <3>b, <3>c, <3>0, PageSpace
    <3>2. t = SetSpace(s, e, n)
      <4>1. t = PageMapped(s, e, f, x)
        BY <1>11, <1>13, <1>i, <2>2, <2>4, <3>a, <3>b, Zenon
        DEF AllocatedPage, PageCall
      <4> QED BY <4>1, <3>c, Zenon DEF PageMapped, PageResult
    <3>3. SpaceSet(t, s, e, n) BY <1>3, <1>5, <3>2, SetSpaceMemory
    <3>4. CASE Keeps(n, m, r)
      <4>1. Holds(t, L, W) BY <1>3, <1>4, <1>6, <1>7, <3>3, <3>4, KeepsHolds
      <4> QED BY <1>2, <1>10, <4>1, <1>b DEF NothingLost
    <3>5. CASE Drops(n, m, r, f) /\ Len(m.free) = 1 /\ ~HasTable(m, va[1])
      <4>1. Holds(t, L, W \ {f})
        BY <1>3, <1>4, <1>6, <1>7, <3>3, <3>5, DropsHolds
      <4>2. m.free = k.m.free /\ m.directory = k.envs[e].env_pgdir
        BY <1>4, <1>d, SpaceParts DEF Holds, MemGood
      <4>3. LossReason
        BY <1>2, <1>a, <3>5, <4>2 DEF LossReason, PageValue, HasTable, PDX
      <4> QED BY <1>2, <1>10, <4>1, <4>3, <1>b DEF OneLost
    <3> QED BY <3>1, <3>4, <3>5
  <2> QED BY <2>3, <2>4
<1> QED BY <1>9, <1>12, <1>13

\* A trap that leaves memory alone.
LEMMA ReturnMemory ==
    ASSUME MemInv, NEW t, MemorySame(t, k), Kept(t, k), k' = t
    PROVE  NothingLost
<1>1. Live(t) = Live(k) BY DEF Kept, Live
<1>2. MemorySame(k', k) /\ Live(k') = Live(k) BY <1>1
<1> QED BY <1>2, MemorySteps

\* Every step keeps the frames that are free or somebody's, or all but one.
LEMMA NextMemory == Inv /\ MemInv /\ [Next]_vars => NothingLost \/ OneLost
<1> SUFFICES ASSUME Inv, MemInv, [Next]_vars PROVE NothingLost \/ OneLost
  OBVIOUS
<1>0. ASSUME k' = k PROVE NothingLost
  <2>1. MemorySame(k', k) /\ Live(k') = Live(k)
    BY <1>0 DEF MemorySame, SameDirectory
  <2> QED BY <2>1, MemorySteps
<1>1. CASE \E p \in Programs : command_run(p)
  BY <1>1, RunMemory
<1>2. CASE \E p \in Programs : command_kill(p)
  BY <1>2, KillMemory
<1>3. CASE PageFault
  <2>1. mode = "user" /\ env_destroy(Trapped, k.curenv, [op |-> "fault"])
    BY <1>3 DEF PageFault
  <2>2. k.curenv \in Live(k) /\ Handed(Trapped)
    BY <2>1, CurrentIsLive DEF Handed
  <2> QED BY <2>1, <2>2, DestroyMemory
<1>4. CASE OtherException
  BY <1>0, <1>4 DEF OtherException, Stop
<1>5. CASE HarmlessCall
  <2>1. mode = "user" /\ k' = Trapped
    BY <1>5 DEF HarmlessCall, ReturnToUser, Step, env_run
  <2>2. MemorySame(Trapped, k) /\ Kept(Trapped, k)
    BY <2>1, TrappedMemory, TrappedControl DEF Resumable
  <2> QED BY <2>1, <2>2, ReturnMemory
<1>6. CASE UnimplementedCall
  <2>1. mode = "user" /\ k' = Trapped
    BY <1>6 DEF UnimplementedCall, Step
  <2>2. MemorySame(Trapped, k) /\ Kept(Trapped, k)
    BY <2>1, TrappedMemory, TrappedControl DEF Resumable
  <2> QED BY <2>1, <2>2, ReturnMemory
<1>7. CASE \E id \in KnownIds : sys_env_destroy(id)
  <2>1. PICK id \in KnownIds : sys_env_destroy(id) BY <1>7
  <2>a. PICK e : e = envid2env(k, id) OBVIOUS
  <2>2. mode = "user" BY <2>1 DEF sys_env_destroy
  <2>3. e \in {k.curenv, NoEnv} BY <2>2, <2>a, OwnEnvironmentOnly
  <2>4. CASE e = NoEnv /\ Translates(Space(k, k.curenv), Page0)
    <3>1. k' = k BY <2>1, <2>4, <2>a DEF sys_env_destroy, Stop
    <3> QED BY <1>0, <3>1
  <2>5. CASE ~(e = NoEnv /\ Translates(Space(k, k.curenv), Page0))
    <3>1. env_destroy(Trapped, IF e = NoEnv THEN k.curenv ELSE e,
                      [op |-> "destroy", id |-> id])
      BY <2>1, <2>5, <2>a DEF sys_env_destroy
    <3>2. env_destroy(Trapped, k.curenv, [op |-> "destroy", id |-> id])
      BY <2>3, <3>1
    <3>3. k.curenv \in Live(k) /\ Handed(Trapped)
      BY <2>2, CurrentIsLive DEF Handed
    <3> QED BY <3>2, <3>3, DestroyMemory
  <2> QED BY <2>4, <2>5
<1>8. CASE sys_env_sleep
  <2>a. PICK s : s = Trapped OBVIOUS
  <2>b. PICK t : t = env_run_cmd_prmpt(s) OBVIOUS
  <2>1. mode = "user" /\ k' = t
    BY <1>8, <2>a, <2>b DEF sys_env_sleep, Step
  <2>2. Shaped(s) /\ Kept(s, k) /\ MemorySame(s, k)
    BY <2>1, <2>a, TrappedMemory, TrappedControl DEF Resumable
  <2>3. MemorySame(t, s) /\ Kept(t, s)
    BY <2>2, <2>b, SleepMemory, SleepControl
  <2>4. MemorySame(t, k) BY <2>2, <2>3, MemorySameChain
  <2>5. Kept(t, k) BY <2>2, <2>3 DEF Kept
  <2> QED BY <2>1, <2>4, <2>5, ReturnMemory
<1>9. CASE \E va \in Pages, aligned \in BOOLEAN, perm \in {UW, UW \cup {PERM_PRESENT}} :
              sys_allocate_page(va, aligned, perm)
  BY <1>9, PageMemory
<1>10. CASE UNCHANGED vars
  BY <1>0, <1>10 DEF vars
<1>11. CASE \E va \in Pages : AccessMemory(va)
  <2>1. PICK va \in Pages : AccessMemory(va) BY <1>11
  <2>2. CASE k' = k BY <1>0, <2>2
  <2>3. CASE k.curenv # NoEnv /\ env_destroy(k, k.curenv, [op |-> "access", va |-> va])
    <3>1. k.curenv \in Live(k) /\ Handed(k)
      BY <2>3 DEF Inv, CurrentGood, Handed
    <3> QED BY <2>3, <3>1, DestroyMemory
  <2> QED BY <2>1, <2>2, <2>3 DEF AccessMemory, Stop
<1> QED
  BY <1>1, <1>2, <1>3, <1>4, <1>5, <1>6, <1>7, <1>8, <1>9, <1>10, <1>11 DEF Next

\* Memory after boot: everything is free but the kernel's frame.
LEMMA InitMemory == Init => MemInv
<1> SUFFICES ASSUME Init PROVE MemInv
  OBVIOUS
<1>1. KernelFrame = 0 /\ k.m = InitialMemory /\ k.envs = [e \in Envs |-> NewEnv]
  BY DEF Init
<1>2. PICK m : m = InitialMemory OBVIOUS
<1>3. NumFrames \in Nat \ {0} /\ RefModulus \in Nat \ {0, 1}
  BY NumFramesAssumption, RefModulusAssumption
<1>4. /\ m.free = [i \in 1 .. NumFrames - 1 |-> NumFrames - i]
      /\ m.references = [f \in Frames |-> IF f \in Usable THEN 0 ELSE 1]
      /\ m.directory = EmptyDirectory
      /\ m.table = [f \in Frames |-> ZeroTable]
      /\ m.tlb = [va \in Pages |-> ZeroEntry] /\ IsMemory(m)
  BY <1>2 DEF InitialMemory, IsMemory
<1>5. /\ m.free \in Seq(Frames) /\ IsInjective(m.free)
      /\ Range(m.free) \subseteq Usable
  <2>1. Len(m.free) = NumFrames - 1 /\ m.free \in Seq(Frames)
    BY <1>3, <1>4 DEF Frames
  <2>2. IsInjective(m.free) BY <1>3, <1>4 DEF IsInjective
  <2>3. Range(m.free) \subseteq Usable
    BY <1>1, <1>3, <1>4 DEF Range, Usable, Frames
  <2> QED BY <2>1, <2>2, <2>3
<1>6. MemoryTypes(m)
  <2>1. m.references \in [Frames -> 0 .. RefModulus - 1] BY <1>3, <1>4
  <2>2. /\ m.directory \in [Dirs -> Entries]
        /\ m.table \in [Frames -> [Slots -> Entries]]
        /\ m.tlb \in [Pages -> Entries]
    BY <1>4, ZeroIsEntry DEF EmptyDirectory, ZeroTable
  <2> QED BY <1>5, <2>1, <2>2 DEF MemoryTypes
<1>7. m \in Memories /\ ListSound(m)
  BY <1>4, <1>5, <1>6, MemoryParts DEF ListSound, Listed
<1>8. Live(k) = {}
  <2>1. NewEnv.env_status = "FREE" BY DEF NewEnv
  <2> QED BY <1>1, <2>1 DEF Live
<1> QED BY <1>1, <1>2, <1>4, <1>7, <1>8 DEF MemInv, MemGood

-----------------------------------------------------------------------------
\* What the properties say, from what the proofs use.

MappedSet(m) == {va \in Pages : Mapped(m, va)}

\* Each page of a space has a frame of its own, so a space holds one frame
\* for the directory, one for each table and one for each page.
LEMMA PagesCount ==
    ASSUME NEW m, NEW r, SpaceGood(m, r)
    PROVE  /\ IsFiniteSet(PageFrames(m))
           /\ Cardinality(PageFrames(m)) = Cardinality(MappedSet(m))
<1>a. PICK S : S = MappedSet(m) OBVIOUS
<1>b. PICK T : T = PageFrames(m) OBVIOUS
<1>c. PICK g : g = [va \in S |-> Walk(m, va).frame] OBVIOUS
<1>1. IsFiniteSet(S)
  <2>1. IsFiniteSet(Pages) BY PagesAssumption, FS_Product DEF Pages
  <2>2. S \in SUBSET Pages BY <1>a DEF MappedSet
  <2> QED BY <2>1, <2>2, FS_Subset
<1>2. T = {Walk(m, va).frame : va \in S}
  BY <1>a, <1>b DEF PageFrames, MappedSet
<1>3. g \in [S -> T] BY <1>2, <1>c
<1>4. \A y \in T : \E va \in S : g[va] = y BY <1>2, <1>c
<1>5. ASSUME NEW x \in S, NEW y \in S, g[x] = g[y] PROVE x = y
  <2>1. PageAlone(m, r, y) /\ Mapped(m, x) /\ x \in Pages /\ y \in Pages
    BY <1>a DEF MappedSet, SpaceGood
  <2>2. Walk(m, x).frame = Walk(m, y).frame BY <1>5, <1>c
  <2> QED BY <2>1, <2>2 DEF PageAlone
<1>6. g \in Surjection(S, T) BY <1>3, <1>4 DEF Surjection
<1>7. g \in Injection(S, T) BY <1>3, <1>5 DEF Injection, IsInjective
<1>8. IsFiniteSet(T) BY <1>1, <1>6, FS_Surjection
<1>9. Cardinality(T) = Cardinality(S) BY <1>1, <1>6, <1>7, FS_Surjection
<1> QED BY <1>8, <1>9, <1>a, <1>b

\* A space holds its directory, its tables and one frame for each page mapped.
LEMMA HeldCount ==
    ASSUME NEW m, NEW r, SpaceGood(m, r)
    PROVE  Cardinality(Held(m, r)) =
              1 + Cardinality(TableFrames(m)) + Cardinality(MappedSet(m))
<1>a. PICK T : T = TableFrames(m) OBVIOUS
<1>b. PICK P : P = PageFrames(m) OBVIOUS
<1>1. IsFiniteSet(Frames) /\ T \subseteq Frames /\ r \notin T
  <2>1. IsFiniteSet(Frames) BY NumFramesAssumption, FS_Interval DEF Frames
  <2>2. \A f \in T : f \in Frames /\ f # r
    BY <1>a, UsableFrames DEF TableFrames, SpaceGood, TableAlone, Single
  <2> QED BY <2>1, <2>2
<1>2. IsFiniteSet(T) BY <1>1, FS_Subset
<1>3. IsFiniteSet(P) /\ Cardinality(P) = Cardinality(MappedSet(m))
  BY <1>b, PagesCount
<1>4. T \cap P = {} /\ r \notin P
  <2>1. \A f \in P : f \notin T /\ f # r
    BY <1>a, <1>b DEF PageFrames, TableFrames, SpaceGood, PageAlone
  <2> QED BY <2>1
<1>5. /\ IsFiniteSet(T \cup P)
      /\ Cardinality(T \cup P) = Cardinality(T) + Cardinality(P)
                                   - Cardinality(T \cap P)
  BY <1>2, <1>3, FS_Union
<1>6. Cardinality(T \cap P) = 0 BY <1>4, FS_EmptySet
<1>7. r \notin T \cup P BY <1>1, <1>4
<1>8. Cardinality((T \cup P) \cup {r}) = Cardinality(T \cup P) + 1
  BY <1>5, <1>7, FS_AddElement
<1>9. Held(m, r) = (T \cup P) \cup {r} BY <1>a, <1>b DEF Held
<1>10. Cardinality(T) \in Nat /\ Cardinality(P) \in Nat
  BY <1>2, <1>3, FS_CardinalityType
<1> QED BY <1>3, <1>5, <1>6, <1>8, <1>9, <1>10, <1>a

\* The operators of the properties.
LEMMA FramesHeld ==
    ASSUME NEW s, NEW e, NEW m, m = Space(s, e),
           NEW r, r = s.envs[e].env_cr3, s.m \in Memories, SpaceGood(m, r)
    PROVE  /\ TablesOf(s, e) = TableFrames(m)
           /\ MappedPages(s, e) = MappedSet(m)
           /\ FramesOf(s, e) = Held(m, r)
<1>1. m.directory = s.envs[e].env_pgdir BY SpaceParts
<1>2. TablesOf(s, e) = TableFrames(m)
  BY <1>1 DEF TablesOf, TableFrames, HasTable
<1>3. ASSUME NEW va \in Pages
      PROVE  /\ (get_frame_info(m, va).frame # NULL) <=> Mapped(m, va)
             /\ Mapped(m, va) => get_frame_info(m, va).frame = Walk(m, va).frame
  <2>1. PICK i : i = get_frame_info(m, va) OBVIOUS
  <2>2. ~Mapped(m, va) => i.frame = NULL BY <2>1, FrameInfo
  <2>3. Mapped(m, va) => i.frame = Walk(m, va).frame /\ i.frame # NULL
    BY <2>1, FrameInfo
  <2> QED BY <2>1, <2>2, <2>3
<1>4. MappedPages(s, e) = MappedSet(m) BY <1>3 DEF MappedPages, MappedSet
<1>5. FramesOf(s, e) = {r} \cup TableFrames(m)
                         \cup {get_frame_info(m, va).frame : va \in MappedSet(m)}
  BY <1>2, <1>4 DEF FramesOf
<1>6. {get_frame_info(m, va).frame : va \in MappedSet(m)} = PageFrames(m)
  BY <1>3 DEF MappedSet, PageFrames
<1> QED BY <1>2, <1>4, <1>5, <1>6 DEF Held

\* Spaces apart from one another, and from the free list.
LEMMA SpacesApart ==
    ASSUME MemInv, NEW e \in Live(k)
    PROVE  /\ FramesOf(k, e) \subseteq Usable \ Range(k.m.free)
           /\ \A f \in FramesOf(k, e) : k.m.references[f] = 1
           /\ Cardinality(FramesOf(k, e)) =
                 1 + Cardinality(TablesOf(k, e)) + Cardinality(MappedPages(k, e))
           /\ \A x \in Live(k) \ {e} : FramesOf(k, e) \cap FramesOf(k, x) = {}
<1>a. PICK m : m = Space(k, e) OBVIOUS
<1>b. PICK r : r = k.envs[e].env_cr3 OBVIOUS
<1>1. SpaceGood(m, r) /\ k.m \in Memories BY <1>a, <1>b DEF MemInv, MemGood
<1>2. FramesOf(k, e) = Held(m, r) BY <1>1, <1>a, <1>b, FramesHeld
<1>3. TablesOf(k, e) = TableFrames(m) /\ MappedPages(k, e) = MappedSet(m)
  BY <1>1, <1>a, <1>b, FramesHeld
<1>4. m.references = k.m.references /\ Listed(m) = Range(k.m.free)
  BY <1>1, <1>a, SpaceParts DEF Listed
<1>5. \A f \in Held(m, r) : Single(m, f) BY <1>1, HeldFrames
<1>6. Cardinality(Held(m, r)) =
         1 + Cardinality(TableFrames(m)) + Cardinality(MappedSet(m))
  BY <1>1, HeldCount
<1>7. ASSUME NEW x \in Live(k) \ {e} PROVE FramesOf(k, e) \cap FramesOf(k, x) = {}
  <2>1. FramesOf(k, x) = HeldBy(k, x)
    BY <1>1, FramesHeld DEF MemInv, MemGood, HeldBy
  <2>2. FramesOf(k, e) = HeldBy(k, e) BY <1>2, <1>a, <1>b DEF HeldBy
  <2>3. HeldBy(k, e) \cap HeldBy(k, x) = {} BY DEF MemInv, MemGood
  <2> QED BY <2>1, <2>2, <2>3
<1>8. FramesOf(k, e) \subseteq Usable \ Range(k.m.free)
  BY <1>2, <1>4, <1>5 DEF Single
<1>9. \A f \in FramesOf(k, e) : k.m.references[f] = 1
  BY <1>2, <1>4, <1>5 DEF Single
<1> QED BY <1>2, <1>3, <1>6, <1>7, <1>8, <1>9

\* The frames that are lost are those that are neither free nor somebody's.
LEMMA LostIs ==
    ASSUME NEW s, NEW W, Holds(s, Live(s), W)
    PROVE  Lost(s) = Usable \ W
<1>1. s.m \in Memories /\ Owned(s, Live(s)) = W BY DEF Holds, MemGood
<1>2. \A e \in Live(s) : FramesOf(s, e) = HeldBy(s, e)
  BY <1>1, FramesHeld DEF Holds, MemGood, HeldBy
<1>3. {FramesOf(s, e) : e \in Live(s)} = {HeldBy(s, e) : e \in Live(s)}
  BY <1>2
<1>4. Owned(s, Live(s)) = Range(s.m.free) \cup UNION {FramesOf(s, e) : e \in Live(s)}
  BY <1>3 DEF Owned, Listed
<1> QED BY <1>1, <1>4 DEF Lost

\* A step that loses at most the frames it may keeps MemInv, and LossStep holds.
LEMMA LossGood ==
    ASSUME MemInv, NothingLost \/ OneLost
    PROVE  MemInv' /\ LossStep
<1>a. PICK W : W = Owned(k, Live(k)) OBVIOUS
<1>b. PICK t : t = k' OBVIOUS
<1>1. Lost(k) = Usable \ W BY <1>a, MemHolds, LostIs
<1>2. CASE NothingLost
  <2>1. Holds(t, Live(t), W) BY <1>2, <1>a, <1>b DEF NothingLost
  <2>2. Lost(t) = Usable \ W BY <2>1, LostIs
  <2>3. Lost(t) \ Lost(k) = {} /\ Cardinality({}) = 0
    BY <1>1, <2>2, FS_EmptySet
  <2>4. LossStep BY <1>1, <2>2, <2>3, <1>b DEF LossStep
  <2>5. MemInv' BY <2>1, <1>b DEF MemInv, Holds
  <2> QED BY <2>4, <2>5
<1>3. CASE OneLost
  <2>1. PICK f : Holds(t, Live(t), W \ {f}) BY <1>3, <1>a, <1>b DEF OneLost
  <2>2. Lost(t) = Usable \ (W \ {f}) BY <2>1, LostIs
  <2>3. Lost(t) \ Lost(k) = {} \/ Lost(t) \ Lost(k) = {f}
    BY <1>1, <2>2
  <2>4. Cardinality(Lost(t) \ Lost(k)) <= 1
    <3>1. CASE Lost(t) \ Lost(k) = {} BY <3>1, FS_EmptySet
    <3>2. CASE Lost(t) \ Lost(k) = {f}
      <4>1. Cardinality({f}) = 1 BY FS_Singleton
      <4> QED BY <3>2, <4>1
    <3> QED BY <2>3, <3>1, <3>2
  <2>5. LossStep BY <1>1, <1>3, <2>2, <2>4, <1>b DEF LossStep, OneLost
  <2>6. MemInv' BY <2>1, <1>b DEF MemInv, Holds
  <2> QED BY <2>5, <2>6
<1> QED BY <1>2, <1>3

-----------------------------------------------------------------------------
\* The memory part is an invariant of every run: the free list is injective
\* and lists usable frames; every live environment's directory, tables and
\* pages are frames of its own, each with one reference; and no two
\* environments share one.
THEOREM MemoryInvariance == Spec => []MemInv
<1>1. Inv /\ MemInv /\ [Next]_vars => MemInv'
  BY NextMemory, LossGood
<1> QED BY <1>1, InitMemory, Invariance, PTL DEF Spec

\* SpacesSeparate, for any numbers of environments, programs, frames, page
\* tables and pages: the processor uses the directory of the current
\* environment, which is live; and no frame is in two of the free list and
\* the spaces, through env_create with every way it fails, env_free, map_frame,
\* unmap_frame and the page-table frames they take.
THEOREM SpacesSeparateAlways == Spec => []SpacesSeparate
<1>1. Inv /\ MemInv => SpacesSeparate
  <2> SUFFICES ASSUME Inv, MemInv PROVE SpacesSeparate
    OBVIOUS
  <2>1. k.cr3 = IF k.curenv = NoEnv THEN KernelFrame ELSE k.envs[k.curenv].env_cr3
    BY DEF Inv, CurrentGood
  <2>2. k.curenv # NoEnv => k.curenv \in Live(k)
    BY DEF Inv, CurrentGood
  <2>3. mode = "user" => /\ k.curenv # NoEnv
                         /\ k.envs[k.curenv].eip \in {Inside, owner[k.curenv]}
    BY DEF Inv, UserGood
  <2>4. IsInjective(k.m.free) BY DEF MemInv, MemGood, ListSound
  <2> QED BY <2>1, <2>2, <2>3, <2>4, SpacesApart DEF SpacesSeparate
<1> QED BY <1>1, Invariance, MemoryInvariance, PTL

\* LossExplained, for every value of the constants: a frame is lost only by
\* sys_allocate_page, with refused arguments or its last frame and no page
\* table, or by a run that failed, one frame at a time; env_free returns all
\* an environment had.
THEOREM LossExplainedAlways == Spec => LossExplained
<1>1. Inv /\ MemInv /\ [Next]_vars => LossStep
  BY NextMemory, LossGood
<1>2. Inv /\ MemInv /\ [Next]_vars => [LossStep]_vars
  BY <1>1
<1> QED BY <1>2, Invariance, MemoryInvariance, PTL DEF Spec, LossExplained

=============================================================================
