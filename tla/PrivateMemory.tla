---------------------------- MODULE PrivateMemory ----------------------------
(***************************************************************************)
(* What fork() promises a program: every process has a memory of its own.  *)
(* A process maps, writes, shortens and unmaps its own regions; fork gives *)
(* the child, in one step, the memory the parent has at that moment; no    *)
(* step changes the memory of more than one process.                       *)
(*                                                                         *)
(* There is one physical copy of a region, several page sets and a swap on *)
(* every context switch in the implementation (NommuBank); none of that    *)
(* shows here.                                                             *)
(***************************************************************************)
EXTENDS Naturals, Sequences

CONSTANTS MM,       \* address spaces (mm_struct)
          Region,   \* private mappings (vm_region)
          Value,    \* what a page can hold
          Zero,     \* what a fresh page holds
          MaxPages  \* bound: pages of one region

VARIABLE mem        \* mem[m][r]: the pages process m sees in r, << >> if unmapped

Unmapped == [r \in Region |-> << >>]

Init == mem = [m \in MM |-> Unmapped]

\* mmap() of a private region: fresh zeroed pages, for one process only.
Map(m, r, n) ==
    /\ mem[m][r] = << >>
    /\ mem' = [mem EXCEPT ![m][r] = [i \in 1..n |-> Zero]]

\* A store by the process itself, or by a debugger on its behalf.
Store(m, r, i, v) ==
    /\ i \in DOMAIN mem[m][r]
    /\ mem' = [mem EXCEPT ![m][r][i] = v]

\* munmap() of the last page of a region.
Shorten(m, r) ==
    /\ Len(mem[m][r]) > 1
    /\ mem' = [mem EXCEPT ![m][r] = SubSeq(@, 1, Len(@) - 1)]

Unmap(m, r) ==
    /\ mem[m][r] # << >>
    /\ mem' = [mem EXCEPT ![m][r] = << >>]

\* The child starts with exactly the parent's memory.
Fork(p, c) ==
    /\ p # c
    /\ mem[c] = Unmapped
    /\ mem' = [mem EXCEPT ![c] = mem[p]]

Exit(m) ==
    mem' = [mem EXCEPT ![m] = Unmapped]

Next ==
    \/ \E m \in MM, r \in Region, n \in 1..MaxPages : Map(m, r, n)
    \/ \E m \in MM, r \in Region, i \in 1..MaxPages, v \in Value : Store(m, r, i, v)
    \/ \E m \in MM, r \in Region : Shorten(m, r) \/ Unmap(m, r)
    \/ \E p, c \in MM : Fork(p, c)
    \/ \E m \in MM : Exit(m)

Spec == Init /\ [][Next]_mem

=============================================================================
