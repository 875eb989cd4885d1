------------------------------- MODULE Loader -------------------------------
(***************************************************************************)
(* Loading ELF images: the boot loader of boot/main.c, which reads the      *)
(* kernel from the disk, and the segment loop of env_create in              *)
(* kern/user_environment.c, which copies a program that is already in       *)
(* memory.                                                                  *)
(*                                                                          *)
(* The contents of memory are the numbers of the bytes loaded: byte k of    *)
(* the disk, or byte k of the program's image.  Zero marks a cleared byte   *)
(* (byte 0 of an image is its magic number and in no segment).              *)
(***************************************************************************)
EXTENDS Integers, Sequences, FiniteSetsExt

CONSTANTS
    SECTSIZE,       \* 512
    LoadModulus,    \* 2^24: cmain keeps the low 24 bits of an address
    HeaderSectors,  \* 8: how much of the image is read for its headers
    ELFHDR          \* where they are read to

ASSUME LoaderAssumption ==
    /\ SECTSIZE \in Nat \ {0}
    /\ LoadModulus \in Nat \ {0} /\ LoadModulus % SECTSIZE = 0
    /\ HeaderSectors \in Nat
    /\ ELFHDR \in Nat /\ ELFHDR % SECTSIZE = 0

\* readsect: one sector, wait for the disk included.
readsect(mem, dst, sector) ==
    [a \in DOMAIN mem |->
        IF a \in dst .. dst + SECTSIZE - 1
        THEN sector * SECTSIZE + (a - dst)
        ELSE mem[a]]

RECURSIVE ReadSectors(_, _, _, _)
ReadSectors(mem, va, end_va, sector) ==
    IF va < end_va
    THEN ReadSectors(readsect(mem, va, sector), va + SECTSIZE, end_va, sector + 1)
    ELSE mem

\* Faulty variant: the end is computed from the rounded address.
readseg_ShortEnd(mem, va, count, offset) ==
    LET start == (va % LoadModulus) - (va % SECTSIZE)
    IN  ReadSectors(mem, start, start + count, (offset \div SECTSIZE) + 1)

\* The kernel image starts at sector 1.
readseg(mem, va, count, offset) ==
    LET low == va % LoadModulus
    IN  ReadSectors(mem, low - (low % SECTSIZE), low + count,
                    (offset \div SECTSIZE) + 1)

\* The endless loop at "bad".
Halt == -1

\* A segment was read over the headers: the loop goes on with whatever lies
\* there now, and that is not followed.
Astray == -2

HeadersIntact(mem) ==
    \A k \in 0 .. HeaderSectors * SECTSIZE - 1 : mem[ELFHDR + k] = SECTSIZE + k

RECURSIVE ReadSegments(_, _, _)
ReadSegments(mem, phs, e_entry) ==
    CASE ~HeadersIntact(mem) -> [jump |-> Astray, mem |-> mem]
      [] HeadersIntact(mem) /\ phs = <<>> ->
            [jump |-> e_entry % LoadModulus, mem |-> mem]
      [] OTHER ->
            LET ph == Head(phs)
            IN  ReadSegments(readseg(mem, ph.p_va, ph.p_memsz, ph.p_offset),
                             Tail(phs), e_entry)

\* cmain: the headers, then every segment, whatever its type.  elf.phs are
\* the headers as they lie in the first HeaderSectors of the image.
cmain(mem, elf) ==
    LET headers == readseg(mem, ELFHDR, HeaderSectors * SECTSIZE, 0)
    IN  IF elf.magic
        THEN ReadSegments(headers, elf.phs, elf.e_entry)
        ELSE [jump |-> Halt, mem |-> headers]

-----------------------------------------------------------------------------
\* The program headers of a user program: load[0 .. n - 1] says which are to
\* be loaded.  The loops test the type before the bound, so they also read
\* load[n], whatever lies behind the headers.

NextLoad(load, n, id) ==
    Min({k \in id .. n : load[k] \/ k = n})

PROGRAM_SEGMENT_NEXT(load, n, id) == NextLoad(load, n, id + 1)

PROGRAM_SEGMENT_FIRST(load, n) == NextLoad(load, n, 0)

\* PROGRAM_SEGMENT_FOREACH: the segments visited, in order.
RECURSIVE VisitedFrom(_, _, _)
VisitedFrom(load, n, id) ==
    IF id = n
    THEN <<>>
    ELSE <<id>> \o VisitedFrom(load, n, PROGRAM_SEGMENT_NEXT(load, n, id))

PROGRAM_SEGMENT_FOREACH(load, n) ==
    VisitedFrom(load, n, PROGRAM_SEGMENT_FIRST(load, n))

\* Steps [7] and [8] of env_create for one segment, mapped writable: the
\* bytes of the file, then zeros.
CopySegment(mem, ph) ==
    [a \in DOMAIN mem |->
        CASE a \in ph.p_va .. ph.p_va + ph.p_filesz - 1 ->
                ph.p_offset + (a - ph.p_va)
          [] a \in ph.p_va + ph.p_filesz .. ph.p_va + ph.p_memsz - 1 -> 0
          [] OTHER -> mem[a]]

\* The program headers are numbered from 0.
RECURSIVE CopySegments(_, _, _)
CopySegments(mem, phs, visited) ==
    IF visited = <<>>
    THEN mem
    ELSE CopySegments(CopySegment(mem, phs[Head(visited) + 1]), phs,
                      Tail(visited))

LoadProgram(mem, phs, load) ==
    CopySegments(mem, phs, PROGRAM_SEGMENT_FOREACH(load, Len(phs)))

=============================================================================
