-------------------------------- MODULE Stabs --------------------------------
(***************************************************************************)
(* The symbol table search of kern/kdebug.c.                                *)
(*                                                                          *)
(* A table is a function from 0 .. n - 1 to stabs; a stab has a type, an    *)
(* address n_value, and a flag that says whether its n_strx lies in the     *)
(* string table.  A name is the index of the stab it is read from.  The     *)
(* choice between the kernel's table and the user program's is left to the  *)
(* caller.                                                                  *)
(***************************************************************************)
EXTENDS Integers, FiniteSetsExt

\* addr is a uint32 *, so addr++ adds the size of a uint32.
POINTER_STEP == 4

Unknown == -1

\* The last stab of the type in l .. m, and l - 1 if there is none.
LastOfType(stabs, l, m, type) ==
    Max({l - 1} \cup {k \in l .. m : stabs[k].n_type = type})

\* The loop of stab_binsearch; s holds its variables.
\*
\* Faulty variant: the right end is not moved in front of a stab that lies
\* behind the address.
Behind_KeepsRight(s, m) == [s EXCEPT !.r = m - 1, !.any_matches = TRUE]

Behind(s, m) == [s EXCEPT !.region_right = m - 1, !.r = m - 1, !.any_matches = TRUE]

RECURSIVE Search(_, _, _, _)
Search(stabs, type, addr, s) ==
    LET true_m == (s.l + s.r) \div 2
        m == LastOfType(stabs, s.l, true_m, type)
        matched == [s EXCEPT !.any_matches = TRUE, !.region_left = m]
    IN  CASE s.l > s.r -> s
          [] s.l <= s.r /\ m < s.l ->
                Search(stabs, type, addr, [s EXCEPT !.l = true_m + 1])
          [] s.l <= s.r /\ m >= s.l /\ stabs[m].n_value < addr ->
                Search(stabs, type, addr, [matched EXCEPT !.l = true_m + 1])
          [] s.l <= s.r /\ m >= s.l /\ stabs[m].n_value > addr ->
                Search(stabs, type, addr, Behind(s, m))
          [] OTHER ->
                Search(stabs, type, addr + POINTER_STEP, [matched EXCEPT !.l = m])

stab_binsearch(stabs, left, right, type, addr) ==
    LET s == Search(stabs, type, addr,
                    [l |-> left, r |-> right, region_left |-> left,
                     region_right |-> right, any_matches |-> FALSE])
    IN  IF ~s.any_matches
        THEN [left |-> left, right |-> left - 1]
        ELSE [left |-> IF s.region_right <= s.region_left
                       THEN s.region_right
                       ELSE LastOfType(stabs, s.region_left + 1,
                                       s.region_right, type),
              right |-> s.region_right]

\* debuginfo_eip, as far as it is written: the file, the function, and the
\* file that a N_SOL stab inside the function names.  strings says whether
\* the string table is valid.
debuginfo_eip(stabs, n, strings, addr) ==
    LET file == stab_binsearch(stabs, 0, n - 1, "SO", addr)
        fun == stab_binsearch(stabs, file.left, file.right, "FUN", addr)
        found == fun.left <= fun.right
        line == IF found THEN fun.left ELSE file.left
        source ==
            Max({file.left - 1} \cup
                {k \in file.left .. line :
                    \/ stabs[k].n_type = "SOL"
                    \/ stabs[k].n_type = "SO" /\ stabs[k].n_value # 0})
        Name(k) == IF stabs[k].named THEN k ELSE Unknown
    IN  IF ~strings \/ file.left = 0
        THEN [ret |-> -1, eip_file |-> Unknown, eip_fn_name |-> Unknown,
              eip_fn_addr |-> addr]
        ELSE [ret |-> 0,
              eip_file |-> IF source >= file.left THEN Name(source) ELSE Unknown,
              eip_fn_name |-> IF found THEN Name(fun.left) ELSE Unknown,
              eip_fn_addr |-> IF found THEN stabs[fun.left].n_value ELSE addr]

=============================================================================
