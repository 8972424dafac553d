------------------------------- MODULE Loader -------------------------------
(***************************************************************************)
(* How FrogOS gets into memory.  The boot sector, boot.asm, reads the disk *)
(* in chunks of 128 sectors into a buffer and copies each to its place in  *)
(* an image at 4 MB; stage2.asm takes the kernel, an ELF file in that      *)
(* image, apart into its segments and jumps to it.  stage2 runs where it   *)
(* was loaded, so its own variables are cells of the image.  The changes of*)
(* CPU mode and the page tables are left out.                              *)
(*                                                                         *)
(* Memory is counted in cells: the kernel's place is 0 .. KERNEL - 1 (2 MB *)
(* to 4 MB), the image follows.  Cell i of the disk holds the value i.     *)
(***************************************************************************)
EXTENDS Integers, Sequences

CONSTANTS
    CHUNKS,       \* READ_ITERATIONS, how many chunks the disk has (256)
    CHUNK,        \* cells in a chunk
    FILE_START,   \* the cell of the disk the ELF file starts at (sector 16)
    E_PH, VIDEO,  \* the cells of stage2's e_phoff, e_phentsize, e_phnum; of its video
    KERNEL,       \* cells of memory below the image
    LAYOUTS       \* the program headers a kernel may have: sequences of Header

DiskCell == 0 .. CHUNKS * CHUNK - 1
Memory   == 0 .. KERNEL + CHUNKS * CHUNK - 1
Image(i) == KERNEL + i
Unknown  == -1
Zero     == -2
Noted    == -3      \* what stage2 keeps in a variable of its own

Header == [load : BOOLEAN, paddr : Nat, memsz : Nat, offset : Nat, filesz : Nat]

\* What the linker produces: segments that lie in the kernel's place and in the
\* file, are no longer in the file than in memory, and do not overlap.
Lies(h) ==
    /\ h.paddr + h.memsz <= KERNEL
    /\ FILE_START + h.offset + h.filesz <= CHUNKS * CHUNK
    /\ h.filesz <= h.memsz

Apart(g, h) == g.paddr + g.memsz <= h.paddr \/ h.paddr + h.memsz <= g.paddr

ASSUME LoaderAssumption ==
    /\ CHUNKS \in Nat \ {0}
    /\ CHUNK \in Nat \ {0}
    /\ FILE_START \in Nat
    /\ KERNEL \in Nat
    /\ E_PH \cup VIDEO \subseteq DiskCell \cap 0 .. FILE_START - 1
    /\ \A hs \in LAYOUTS :
           /\ hs \in Seq(Header) /\ hs # <<>>
           /\ \A i \in DOMAIN hs : hs[i].load => Lies(hs[i])
           /\ \A i, j \in DOMAIN hs :
                  i # j /\ hs[i].load /\ hs[j].load => Apart(hs[i], hs[j])

-----------------------------------------------------------------------------
(* The boot sector.                                                        *)

\* read_from_disk: int 0x13 fills the 64 KB at 0x10000 from sector ecx * 128 on.
read_from_disk(ecx) == [k \in 0 .. CHUNK - 1 |-> ecx * CHUNK + k]

\* copy_loop.
CopyChunk(memory, ecx) ==
    [a \in Memory |-> IF a \in Image(ecx * CHUNK) .. Image(ecx * CHUNK + CHUNK - 1)
                      THEN read_from_disk(ecx)[a - Image(ecx * CHUNK)]
                      ELSE memory[a]]

\* Faulty variant of ReadDisk: the last chunk is left out.
ReadDiskOneLess ==
    LET after[ecx \in 0 .. CHUNKS - 1] ==
            IF ecx = 0 THEN [a \in Memory |-> Unknown] ELSE CopyChunk(after[ecx - 1], ecx - 1)
    IN after[CHUNKS - 1]

\* inc ecx; cmp ecx, READ_ITERATIONS; jl.
ReadDisk ==
    LET after[ecx \in 0 .. CHUNKS] ==
            IF ecx = 0 THEN [a \in Memory |-> Unknown] ELSE CopyChunk(after[ecx - 1], ecx - 1)
    IN after[CHUNKS]

-----------------------------------------------------------------------------
(* The second stage.                                                       *)

\* What stage2 stores in its variables lies in the image.
Stored(memory, cells) ==
    [a \in Memory |-> IF a \in {Image(i) : i \in cells} THEN Noted ELSE memory[a]]

\* Clear p_memsz bytes at p_paddr ...
Clear(memory, h) ==
    [a \in Memory |-> IF a \in h.paddr .. h.paddr + h.memsz - 1 THEN Zero ELSE memory[a]]

\* Faulty variant of Copy: p_offset is taken from the start of the image.
CopyFromImage(memory, h) ==
    [a \in Memory |-> IF a \in h.paddr .. h.paddr + h.filesz - 1
                      THEN memory[Image(h.offset) + (a - h.paddr)]
                      ELSE memory[a]]

\* ... and copy p_filesz bytes there from p_offset in the file.
Copy(memory, h) ==
    [a \in Memory |-> IF a \in h.paddr .. h.paddr + h.filesz - 1
                      THEN memory[Image(FILE_START + h.offset) + (a - h.paddr)]
                      ELSE memory[a]]

process_header_entry(memory, h) == IF h.load THEN Copy(Clear(memory, h), h) ELSE memory

\* The ELF header's e_phoff, e_phentsize and e_phnum are noted; ph_loop over the headers.
LoadSegments(memory, headers) ==
    LET after[i \in 0 .. Len(headers)] ==
            IF i = 0 THEN Stored(memory, E_PH)
            ELSE process_header_entry(after[i - 1], headers[i])
    IN after[Len(headers)]

\* The message: video moves on to the next line.
write_string(memory) == Stored(memory, VIDEO)

\* The memory the kernel finds; a read error stops the boot sector before.
Boot(headers) == write_string(LoadSegments(ReadDisk, headers))

=============================================================================
