---------------------------- MODULE PageExchange ----------------------------
(***************************************************************************)
(* What bank_exchange() promises: the contents of a region and of the      *)
(* shadow pages beside it change places, in portions, each page once per   *)
(* exchange, and no other page is disturbed.                               *)
(***************************************************************************)
EXTENDS Naturals

CONSTANTS Pages, Values

VARIABLES
    count,  \* bank->count
    region, \* region[j]: address of the j-th page of the region
    pages,  \* bank->pages
    mem,    \* what the CPU reads at an address
    swapped \* pages of the region already exchanged

vars == <<count, region, pages, mem, swapped>>

Indices == 0 .. count - 1

Touched(p, S) == \E j \in S : p = region[j] \/ p = pages[j]

Init ==
    /\ mem \in [Pages -> Values]
    /\ swapped = {}

Exchange(S) ==
    /\ S \subseteq Indices \ swapped
    /\ swapped' = swapped \cup S
    /\ \A j \in S : mem'[region[j]] = mem[pages[j]] /\ mem'[pages[j]] = mem[region[j]]
    /\ \A p \in Pages : ~Touched(p, S) => mem'[p] = mem[p]
    /\ UNCHANGED <<count, region, pages>>

Finish ==
    /\ swapped = Indices
    /\ swapped' = {}
    /\ UNCHANGED <<count, region, pages, mem>>

\* Interrupt handlers and the exchanging code itself write elsewhere; the
\* process writes to its region between exchanges.
Write(p, v) ==
    /\ swapped = {} \/ ~Touched(p, Indices)
    /\ mem' = [mem EXCEPT ![p] = v]
    /\ UNCHANGED <<count, region, pages, swapped>>

Next ==
    \/ \E S \in SUBSET Indices : Exchange(S)
    \/ Finish
    \/ \E p \in Pages, v \in Values : Write(p, v)

Spec == Init /\ [][Next]_vars
=============================================================================
