------------------------------ MODULE MmuSwap -------------------------------
(***************************************************************************)
(* bank_exchange() of mmu-swap.patch: a region and its shadow pages change *)
(* contents, 64 KiB chunks by exchanging two entries of the MMU table, the *)
(* rest by copying.  The data cache lies in front of the MMU, is tagged by *)
(* virtual address, writes back late, evicts lines when it likes and loads *)
(* lines ahead.  A page is <<chunk, offset>>, and one line of the cache.   *)
(***************************************************************************)
EXTENDS Naturals

CONSTANTS
    Chunks, \* 64 KiB pages of the MMU
    K,      \* BANK_CHUNK_PAGES
    Psram,  \* chunks whose MMU entry says PSRAM
    Values, None

ASSUME SwapAssumption ==
    /\ Chunks \subseteq Nat
    /\ K \in Nat \ {0}
    /\ None \notin Values

Offsets == 0 .. K - 1
Pages == Chunks \X Offsets

VARIABLES
    count, region, pages, \* bank->count, the region's pages, bank->pages
    mmu,      \* S3_MMU_TABLE: the frame behind a chunk
    psram,    \* contents by frame and offset
    cache,    \* what the cache holds of a page, or None
    dirty,    \* pages to be written back
    autoload, \* lines may be loaded ahead
    was,      \* autoload before it was suspended
    tmp,      \* the saved entry
    i, pc     \* the loop, and the step of bank_mmu_swap

bankVars == <<count, region, pages>>
hwVars == <<mmu, psram, cache, dirty>>
vars == <<bankVars, hwVars, autoload, was, tmp, i, pc>>

Indices == 0 .. count - 1
Bank == {region[j] : j \in Indices} \cup {pages[j] : j \in Indices}

Address(p) == p[1] * K + p[2]
Cell(p) == <<mmu[p[1]], p[2]>>

\* What the CPU reads.
View(p) == IF cache[p] # None THEN cache[p] ELSE psram[Cell(p)]

\* A region is contiguous; its shadow pages are wherever they were found.
BankShape ==
    /\ count \in Nat
    /\ region \in [Indices -> Pages]
    /\ pages \in [Indices -> Pages]
    /\ \A j, k \in Indices : Address(region[j]) + k = Address(region[k]) + j
    /\ \A j, k \in Indices : pages[j] = pages[k] => j = k
    /\ \A j, k \in Indices : region[j] # pages[k]

Init ==
    /\ BankShape
    /\ mmu = [c \in Chunks |-> c]
    /\ psram \in [Pages -> Values]
    /\ cache = [p \in Pages |-> None]
    /\ dirty = {}
    /\ autoload \in BOOLEAN /\ was = FALSE
    /\ tmp = 0 /\ i = 0 /\ pc = "idle"

----------------------------------------------------------------------------
\* The cache.

Evict(p) ==
    /\ cache[p] # None
    /\ psram' = IF p \in dirty THEN [psram EXCEPT ![Cell(p)] = cache[p]] ELSE psram
    /\ cache' = [cache EXCEPT ![p] = None]
    /\ dirty' = dirty \ {p}
    /\ UNCHANGED <<bankVars, mmu, autoload, was, tmp, i, pc>>

Autoload(p) ==
    /\ autoload
    /\ cache[p] = None
    /\ cache' = [cache EXCEPT ![p] = psram[Cell(p)]]
    /\ UNCHANGED <<bankVars, mmu, psram, dirty, autoload, was, tmp, i, pc>>

\* s3_dcache_sync on one chunk.
Writeback(c) ==
    /\ psram' = [q \in Pages |-> IF q[1] = mmu[c] /\ <<c, q[2]>> \in dirty
                                 THEN cache[<<c, q[2]>>] ELSE psram[q]]
    /\ dirty' = {p \in dirty : p[1] # c}
    /\ UNCHANGED <<mmu, cache>>

Invalidate(c) ==
    /\ cache' = [p \in Pages |-> IF p[1] = c THEN None ELSE cache[p]]
    /\ dirty' = {p \in dirty : p[1] # c}
    /\ UNCHANGED <<mmu, psram>>

----------------------------------------------------------------------------
\* Others write: interrupt handlers and the code itself outside the bank, the
\* process that runs between two exchanges anywhere.
Write(p, v) ==
    /\ pc = "idle" \/ p \notin Bank
    /\ cache' = [cache EXCEPT ![p] = v]
    /\ dirty' = dirty \cup {p}
    /\ UNCHANGED <<bankVars, mmu, psram, autoload, was, tmp, i, pc>>

\* nommu_bank_switch and bank_detach call bank_exchange.
Start ==
    /\ pc = "idle"
    /\ pc' = "loop" /\ i' = 0
    /\ UNCHANGED <<bankVars, hwVars, autoload, was, tmp>>

\* Fault: that the shadow pages follow each other is not looked at.
bank_mmu_chunk_Scattered ==
    /\ count - i >= K
    /\ region[i][2] = 0 /\ pages[i][2] = 0
    /\ region[i][1] \in Psram /\ pages[i][1] \in Psram

\* The next pages fill a chunk on either side.
bank_mmu_chunk ==
    /\ count - i >= K
    /\ region[i][2] = 0 /\ pages[i][2] = 0
    /\ \A j \in 1 .. K - 1 : pages[i + j] = <<pages[i][1], j>>
    /\ region[i][1] \in Psram /\ pages[i][1] \in Psram

\* Also what is left over when fork_bank_mmu is switched off.
bank_swap_page ==
    /\ pc = "loop" /\ i < count
    /\ cache' = [cache EXCEPT ![region[i]] = View(pages[i]), ![pages[i]] = View(region[i])]
    /\ dirty' = dirty \cup {region[i], pages[i]}
    /\ i' = i + 1
    /\ UNCHANGED <<bankVars, mmu, psram, autoload, was, tmp, pc>>

Finish ==
    /\ pc = "loop" /\ i = count
    /\ pc' = "idle" /\ i' = 0
    /\ UNCHANGED <<bankVars, hwVars, autoload, was, tmp>>

\* Interrupts off, s3_autoload_suspend.
Suspend ==
    /\ pc = "loop" /\ i < count
    /\ bank_mmu_chunk
    /\ was' = autoload
    /\ autoload' = FALSE
    /\ pc' = "writeback resident"
    /\ UNCHANGED <<bankVars, hwVars, tmp, i>>

WritebackResident ==
    /\ pc = "writeback resident"
    /\ Writeback(region[i][1])
    /\ pc' = "writeback shadow"
    /\ UNCHANGED <<bankVars, autoload, was, tmp, i>>

WritebackShadow ==
    /\ pc = "writeback shadow"
    /\ Writeback(pages[i][1])
    /\ pc' = "entry resident"
    /\ UNCHANGED <<bankVars, autoload, was, tmp, i>>

EntryResident ==
    /\ pc = "entry resident"
    /\ tmp' = mmu[region[i][1]]
    /\ mmu' = [mmu EXCEPT ![region[i][1]] = mmu[pages[i][1]]]
    /\ pc' = "entry shadow"
    /\ UNCHANGED <<bankVars, psram, cache, dirty, autoload, was, i>>

EntryShadow ==
    /\ pc = "entry shadow"
    /\ mmu' = [mmu EXCEPT ![pages[i][1]] = tmp]
    /\ pc' = "invalidate resident"
    /\ UNCHANGED <<bankVars, psram, cache, dirty, autoload, was, tmp, i>>

InvalidateResident ==
    /\ pc = "invalidate resident"
    /\ Invalidate(region[i][1])
    /\ pc' = "invalidate shadow"
    /\ UNCHANGED <<bankVars, autoload, was, tmp, i>>

\* Fault: what the cache holds of the shadow chunk stays.
InvalidateShadow_Skipped ==
    /\ pc = "invalidate shadow"
    /\ autoload' = was
    /\ i' = i + K
    /\ pc' = "loop"
    /\ UNCHANGED <<bankVars, hwVars, was, tmp>>

\* Then s3_autoload_resume, and interrupts on.
InvalidateShadow ==
    /\ pc = "invalidate shadow"
    /\ Invalidate(pages[i][1])
    /\ autoload' = was
    /\ i' = i + K
    /\ pc' = "loop"
    /\ UNCHANGED <<bankVars, was, tmp>>

bank_mmu_swap ==
    \/ Suspend \/ WritebackResident \/ WritebackShadow \/ EntryResident
    \/ EntryShadow \/ InvalidateResident \/ InvalidateShadow

bank_exchange == bank_mmu_swap \/ bank_swap_page \/ Finish

Next ==
    \/ \E p \in Pages : Evict(p) \/ Autoload(p)
    \/ \E p \in Pages, v \in Values : Write(p, v)
    \/ Start
    \/ bank_exchange

Spec == Init /\ [][Next]_vars

----------------------------------------------------------------------------
\* The lines of a chunk whose entry was exchanged, until they are invalidated.
Stale(p) ==
    \/ pc \in {"entry shadow", "invalidate resident"} /\ p[1] = region[i][1]
    \/ pc \in {"invalidate resident", "invalidate shadow"} /\ p[1] = pages[i][1]

\* Whenever the CPU may read a line, it is the newest copy or agrees with the
\* memory behind the MMU, which no two chunks share: the entries are exchanged
\* only while both chunks are written back and nobody reads them.
Coherent ==
    /\ pc = "entry shadow" \/ \A c, d \in Chunks : mmu[c] = mmu[d] => c = d
    /\ \A p \in Pages :
         cache[p] # None /\ p \notin dirty /\ ~Stale(p) => cache[p] = psram[Cell(p)]

\* What every page holds, also in the middle of an exchange of entries.
Memory ==
    [p \in Pages |->
       IF ~Stale(p) THEN View(p)
       ELSE psram[IF pc = "entry shadow" THEN <<tmp, p[2]>> ELSE Cell(p)]]

Swapped ==
    {j \in Indices : j < i \/ (pc \in {"invalidate resident", "invalidate shadow"} /\ j < i + K)}

Abstract == INSTANCE PageExchange WITH mem <- Memory, swapped <- Swapped

\* However eviction, write-back, loading ahead and other writers interleave
\* with it, the exchange is the one PageExchange promises: every page of the
\* bank changes places with its shadow exactly once, whether remapped or
\* copied, and no write of anybody is lost.
ExchangeIsAtomic == Abstract!Spec
=============================================================================
