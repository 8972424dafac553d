-------------------------------- MODULE Mkfs --------------------------------
(***************************************************************************)
(* fs/mkfs.c: writes an empty file system, the superblock and two free     *)
(* lists whose nodes lie in the inodes and in the blocks that are free.    *)
(*                                                                         *)
(* One memory holds both lists.  Its cells are 16 bytes long, as a node of *)
(* the inode list is; a block has PER_BLOCK of them and starts with the    *)
(* node of the block list.                                                 *)
(***************************************************************************)
EXTENDS Integers

CONSTANTS
    NUM_INODES,    \* num_inodes (128)
    INODE_CELLS,   \* sizeof(inode_t) in cells (2)
    PER_BLOCK,     \* cells in a block of 1024 bytes (64)
    NUM_BLOCKS     \* values of num_blocks, the argument

inode_start == 2

\* num_inode_blocks after inode_start.
data_start == inode_start + (NUM_INODES * INODE_CELLS) \div PER_BLOCK

\* The heads of the lists, in the superblock.
free_inode_list == 1
free_data_list  == data_start

free_inode(node) == inode_start * PER_BLOCK + node
free_data(node)  == node * PER_BLOCK

\* The file holds the list of inodes.  Of a shorter one (1 to 3 blocks; none cannot be
\* mapped at all) the last nodes are stored behind the end, into the rest of the mapped
\* page, and do not get into the file.  The inodes are longer than the nodes of their
\* list, or data_start, which is rounded down, could lie among these.
ASSUME MkfsAssumption ==
    /\ NUM_INODES \in Nat /\ NUM_INODES > 1
    /\ INODE_CELLS \in Nat /\ INODE_CELLS > 1
    /\ PER_BLOCK \in Nat \ {0}
    /\ NUM_BLOCKS \subseteq {n \in Nat : n * PER_BLOCK >= free_inode(NUM_INODES)}

End   == -1       \* last node
Blank == -2      \* a cell of the new file, which no list holds

NewFile(num_blocks) == [c \in 0 .. num_blocks * PER_BLOCK - 1 |-> Blank]

\* A loop links the nodes first to last - 1 to the next, then last is the end.
Linked(image, cell(_), first, last) ==
    LET after[i \in first .. last] ==
            IF i = first THEN image
            ELSE [after[i - 1] EXCEPT ![cell(i - 1)] = i]
    IN IF last < first THEN [image EXCEPT ![cell(last)] = End]
       ELSE [after[last] EXCEPT ![cell(last)] = End]

\* Faulty variant of LinkInodes: it stops one node early.
LinkInodesShort(image) == Linked(image, free_inode, 1, NUM_INODES - 2)

\* for(int i=1; i < number_of_inodes-1; ++i)
LinkInodes(image) == Linked(image, free_inode, 1, NUM_INODES - 1)

\* for(int i=data_start; i < num_blocks-1; ++i)
LinkBlocks(image, num_blocks) == Linked(image, free_data, data_start, num_blocks - 1)

mkfs(num_blocks) == LinkBlocks(LinkInodes(NewFile(num_blocks)), num_blocks)

=============================================================================
