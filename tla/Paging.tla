------------------------------- MODULE Paging -------------------------------
(***************************************************************************)
(* The page tables stage2.asm builds before long mode, and how the         *)
(* processor reads them.  Memory from 0x1000 on is three tables of ENTRIES *)
(* entries, each a low and a high double word.                             *)
(*                                                                         *)
(* A low half is a frame (a table's number, or a page's) and flags; a high *)
(* half that is not NoEntry makes the entry name another place, or one     *)
(* that the processor refuses.                                             *)
(***************************************************************************)
EXTENDS Integers

CONSTANT ENTRIES    \* 512

ASSUME PagingAssumption == ENTRIES \in Nat \ {0}

NoEntry == [frame |-> 0, flags |-> {}]

Table == {"pml4", "pdpt", "pd"}          \* at 0x1000, 0x2000 and 0x3000
Cell  == Table \X (0 .. ENTRIES - 1) \X {"low", "high"}

\* 0x2003 | 4 and 0x3003 | 4; 0x83 | 4, a 2 MB page.
TableFlags == {"present", "writable", "user"}
PageFlags  == TableFlags \cup {"large"}

\* Faulty variant of Cleared: one table only.
ClearedOne == {c \in Cell : c[1] = "pml4"}

\* ecx = 0x800 double words from 0x1000 on: two tables, not the third.
Cleared == {c \in Cell : c[1] \in {"pml4", "pdpt"}}

\* rep stosd; the first entries of two tables; pde_loop, which writes low halves and
\* adds one page to eax every time.  before is what memory held.
BuildTables(before) ==
    [c \in Cell |->
        CASE c = <<"pml4", 0, "low">> -> [frame |-> 1, flags |-> TableFlags]
          [] c = <<"pdpt", 0, "low">> -> [frame |-> 2, flags |-> TableFlags]
          [] c[1] = "pd" /\ c[3] = "low" -> [frame |-> c[2], flags |-> PageFlags]
          [] OTHER -> IF c \in Cleared THEN NoEntry ELSE before[c]]

-----------------------------------------------------------------------------
(* The processor.                                                          *)

TableAt == [n \in 0 .. 2 |-> CASE n = 0 -> "pml4" [] n = 1 -> "pdpt" [] n = 2 -> "pd"]

\* The entry is there, and names what its low half says.
Usable(memory, table, i) ==
    /\ "present" \in memory[<<table, i, "low">>].flags
    /\ memory[<<table, i, "high">>] = NoEntry

\* The indices in the tables of the address of the n-th page.
Index4(n) == n \div (ENTRIES * ENTRIES)
Index3(n) == (n \div ENTRIES) % ENTRIES
Index2(n) == n % ENTRIES

Fault == [page |-> -1, user |-> FALSE]

\* The page that the n-th page of addresses is mapped to, and whether user mode may use
\* it: only if every entry on the way lets it.
Translate(memory, n) ==
    LET low(table, i) == memory[<<table, i, "low">>]
        pdpt == TableAt[low("pml4", Index4(n)).frame]
        pd   == TableAt[low(pdpt, Index3(n)).frame]
    IN IF /\ Usable(memory, "pml4", Index4(n))
          /\ Usable(memory, pdpt, Index3(n))
          /\ Usable(memory, pd, Index2(n))
          /\ "large" \in low(pd, Index2(n)).flags
       THEN [page |-> low(pd, Index2(n)).frame,
             user |-> \A e \in {low("pml4", Index4(n)), low(pdpt, Index3(n)), low(pd, Index2(n))} :
                          "user" \in e.flags]
       ELSE Fault

=============================================================================
