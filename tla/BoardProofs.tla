----------------------------- MODULE BoardProofs ----------------------------
(***************************************************************************)
(* Three parts of the board (Board), each for any value of its constants.  *)
(* The exchange of pages, for any number and size of chunks and any bank:  *)
(* the cache stays coherent across the exchange of MMU entries             *)
(* (CacheCoherence), and bank_exchange implements PageExchange             *)
(* (ExchangeImplements).  The job queue, for any number of jobs: each is   *)
(* accounted for (BoardJobs).  The services of mmu-run, for any sizes of   *)
(* its tables: a signal loses nothing (BoardNothingLeaks).                 *)
(***************************************************************************)
EXTENDS Board, TLAPS

-----------------------------------------------------------------------------
(* The exchange of pages *)

\* The two chunks of index i are being exchanged, with interrupts off.
Masked == pc \notin {"idle", "loop"}

\* The table as it is once both entries are written.
Table == IF pc = "entry shadow" THEN [mmu EXCEPT ![pages[i][1]] = tmp] ELSE mmu

\* The bank, the table of MMU entries, the memory and the cache are what their
\* names say.
TypeOK ==
    /\ BankShape
    /\ mmu \in [Chunks -> Chunks]
    /\ psram \in [Pages -> Values]
    /\ cache \in [Pages -> Values \cup {None}]
    /\ dirty \in SUBSET Pages
    /\ i \in Nat
    /\ pc \in {"idle", "loop", "writeback resident", "writeback shadow", "entry resident",
               "entry shadow", "invalidate resident", "invalidate shadow"}

\* Where the loop is, and the chunk it is at.
LoopInv ==
    /\ i <= count
    /\ pc = "idle" => i = 0
    /\ Masked => i < count /\ bank_mmu_chunk

\* No frame is behind two chunks, the saved entry included.
TableInv ==
    /\ pc = "entry shadow" => tmp \in Chunks /\ mmu[region[i][1]] = mmu[pages[i][1]]
    /\ \A c, d \in Chunks : Table[c] = Table[d] => c = d

\* Dirty lines are in the cache, and none is left of a chunk written back.
DirtyInv ==
    /\ \A p \in dirty : cache[p] # None
    /\ Masked /\ pc # "writeback resident" => \A p \in dirty : p[1] # region[i][1]
    /\ pc \in {"entry resident", "entry shadow", "invalidate resident", "invalidate shadow"}
         => \A p \in dirty : p[1] # pages[i][1]

\* A clean line that is not stale has what the memory behind it has.
CleanInv ==
    \A p \in Pages :
      cache[p] # None /\ p \notin dirty /\ ~Stale(p) => cache[p] = psram[Cell(p)]

\* The inductive invariant.
SwapInv == TypeOK /\ LoopInv /\ TableInv /\ DirtyInv /\ CleanInv

----------------------------------------------------------------------------
\* A page is the pair of its chunk and its offset.
LEMMA PageIsPair ==
    /\ \A p \in Pages : p[1] \in Chunks /\ p[2] \in Offsets /\ p = <<p[1], p[2]>>
    /\ \A c \in Chunks, o \in Offsets : <<c, o>> \in Pages
BY DEF Pages

\* An address determines chunk and offset.
LEMMA AddressUnique ==
    ASSUME NEW c \in Nat, NEW d \in Nat, NEW u \in Offsets, NEW o \in Offsets,
           c * K + u = d * K + o
    PROVE  c = d /\ u = o
<1>1. K \in Nat /\ c * K \in Nat /\ d * K \in Nat /\ u \in 0 .. K - 1 /\ o \in 0 .. K - 1
  BY SwapAssumption DEF Offsets
<1>2. \A m, n \in Nat : m < n => m * K + K <= n * K
  <2> SUFFICES ASSUME NEW m \in Nat, NEW n \in Nat, m < n PROVE m * K + K <= n * K
    BY Zenon
  <2>1. PICK e \in Nat : n = m + 1 + e
    <3> WITNESS n - m - 1 \in Nat
    <3> QED OBVIOUS
  <2>2. n * K = m * K + K + e * K /\ e * K \in Nat /\ m * K \in Nat
    BY <2>1, <1>1
  <2> QED BY <2>2, <1>1
<1>3. ~(c < d)
  BY <1>1, <1>2
<1>4. ~(d < c)
  BY <1>1, <1>2
<1> QED BY <1>1, <1>3, <1>4

\* A chunk that passes bank_mmu_chunk belongs to the bank as a whole.
LEMMA ChunkOfBank ==
    ASSUME TypeOK, i < count, bank_mmu_chunk, NEW o \in Offsets
    PROVE  /\ i + o \in Indices
           /\ region[i + o] = <<region[i][1], o>>
           /\ pages[i + o] = <<pages[i][1], o>>
<1>0. i \in Nat /\ count \in Nat /\ K \in Nat /\ count - i >= K
  BY SwapAssumption, Zenon DEF TypeOK, BankShape, bank_mmu_chunk
<1>1. i \in Indices /\ i + o \in Indices /\ o \in 0 .. K - 1 /\ K \in Nat /\ o \in Nat
  BY <1>0 DEF Indices, Offsets
<1>2. region[i] \in Pages /\ region[i + o] \in Pages /\ pages[i] \in Pages
  BY <1>1, Zenon DEF TypeOK, BankShape
<1>3. pages[i + o] = <<pages[i][1], o>>
  <2>1. CASE o = 0
    <3>1. i + o = i
      BY <2>1, <1>0
    <3>2. pages[i][2] = 0
      BY Zenon DEF bank_mmu_chunk
    <3> QED BY <3>1, <3>2, <2>1, <1>2, PageIsPair, Zenon
  <2>2. CASE o # 0
    BY <2>2, <1>1 DEF bank_mmu_chunk
  <2> QED BY <2>1, <2>2, Zenon
<1>4. Address(region[i]) + (i + o) = Address(region[i + o]) + i
  BY <1>1, Zenon DEF TypeOK, BankShape
<1> DEFINE r == region[i][1]
           c == region[i + o][1]
           u == region[i + o][2]
<1>5. r \in Nat /\ c \in Nat /\ u \in Offsets /\ r * K \in Nat /\ c * K \in Nat /\ u \in Nat
  BY <1>1, <1>2, PageIsPair, SwapAssumption DEF Offsets
<1>6. c * K + u = r * K + o
  <2>1. region[i][2] = 0
    BY Zenon DEF bank_mmu_chunk
  <2>2. (r * K + 0) + (i + o) = (c * K + u) + i
    BY <1>4, <2>1, Zenon DEF Address
  <2> HIDE DEF r, c, u
  <2> QED BY <2>2, <1>0, <1>1, <1>5
<1>7. c = r /\ u = o
  BY <1>5, <1>6, AddressUnique
<1> QED BY <1>1, <1>2, <1>3, <1>7, PageIsPair, Zenon

\* While a chunk is exchanged it and its shadow differ, and both are the bank's.
LEMMA ChunksInFlight ==
    ASSUME SwapInv, Masked
    PROVE  /\ region[i][1] \in Chunks /\ pages[i][1] \in Chunks
           /\ region[i][1] # pages[i][1]
           /\ i \in Indices /\ i + K <= count
           /\ \A p \in Pages : p[1] \in {region[i][1], pages[i][1]} => p \in Bank
<1>1. TypeOK /\ i < count /\ bank_mmu_chunk /\ i \in Nat /\ count \in Nat /\ K \in Nat
  BY SwapAssumption, Zenon DEF SwapInv, LoopInv, TypeOK, BankShape
<1>2. i \in Indices
  BY <1>1 DEF Indices
<1>3. i + K <= count
  <2>1. count - i >= K
    BY <1>1, Zenon DEF bank_mmu_chunk
  <2> QED BY <1>1, <2>1
<1>4. region[i] \in Pages /\ pages[i] \in Pages /\ region[i] # pages[i]
  BY <1>1, <1>2, Zenon DEF TypeOK, BankShape
<1>5. region[i][2] = 0 /\ pages[i][2] = 0
  BY <1>1, Zenon DEF bank_mmu_chunk
<1>6. ASSUME NEW p \in Pages, p[1] \in {region[i][1], pages[i][1]}
      PROVE  p \in Bank
  <2>1. p[2] \in Offsets /\ p = <<p[1], p[2]>>
    BY PageIsPair, Zenon
  <2>2. /\ i + p[2] \in Indices
        /\ region[i + p[2]] = <<region[i][1], p[2]>>
        /\ pages[i + p[2]] = <<pages[i][1], p[2]>>
    BY <1>1, <2>1, ChunkOfBank, Zenon
  <2> QED BY <1>6, <2>1, <2>2, Zenon DEF Bank
<1> QED BY <1>2, <1>3, <1>4, <1>5, <1>6, PageIsPair

\* A dirty line is behind no other page, and not of the saved entry.
LEMMA DirtyAlone ==
    ASSUME SwapInv, NEW p \in dirty, NEW q \in Pages
    PROVE  /\ Cell(q) = Cell(p) => q = p
           /\ pc = "entry shadow" => <<tmp, q[2]>> # Cell(p)
           /\ ~Stale(p)
<1>1. p \in Pages /\ p[1] \in Chunks /\ q[1] \in Chunks /\ mmu \in [Chunks -> Chunks]
      /\ p = <<p[1], p[2]>> /\ q = <<q[1], q[2]>>
  BY PageIsPair, Zenon DEF SwapInv, TypeOK
<1>2. ~Stale(p)
  BY Zenon DEF SwapInv, DirtyInv, Stale, Masked
<1>3. CASE pc # "entry shadow"
  <2>1. \A c, d \in Chunks : mmu[c] = mmu[d] => c = d
    BY <1>3, Zenon DEF SwapInv, TableInv, Table
  <2>2. Cell(q) = Cell(p) => mmu[q[1]] = mmu[p[1]] /\ q[2] = p[2]
    BY Zenon DEF Cell
  <2> QED BY <1>1, <1>2, <1>3, <2>1, <2>2, Zenon
<1>4. CASE pc = "entry shadow"
  <2> DEFINE r == region[i][1]
             s == pages[i][1]
             T == [mmu EXCEPT ![s] = tmp]
  <2>1. r \in Chunks /\ s \in Chunks /\ r # s
    BY <1>4, ChunksInFlight, Zenon DEF Masked
  <2>2. p[1] # r /\ p[1] # s
    BY <1>4, Zenon DEF SwapInv, DirtyInv, Masked
  <2>3. tmp \in Chunks /\ mmu[r] = mmu[s] /\ \A c, d \in Chunks : T[c] = T[d] => c = d
    BY <1>4, Zenon DEF SwapInv, TableInv, Table
  <2>4. T[s] = tmp /\ T[p[1]] = mmu[p[1]] /\ T[r] = mmu[r] /\ (q[1] # s => T[q[1]] = mmu[q[1]])
    BY <1>1, <2>1, <2>2, Zenon
  <2> HIDE DEF r, s, T
  <2>5. tmp # mmu[p[1]]
    BY <1>1, <2>1, <2>2, <2>3, <2>4, Zenon
  <2>6. mmu[q[1]] = mmu[p[1]] => q[1] = p[1]
    BY <1>1, <2>1, <2>2, <2>3, <2>4, Zenon
  <2>7. Cell(q) = Cell(p) => mmu[q[1]] = mmu[p[1]] /\ q[2] = p[2]
    BY Zenon DEF Cell
  <2>8. <<tmp, q[2]>> = Cell(p) => tmp = mmu[p[1]]
    BY Zenon DEF Cell
  <2> QED BY <1>1, <1>2, <2>5, <2>6, <2>7, <2>8, Zenon
<1> QED BY <1>3, <1>4, Zenon

\* What a page refers to.
LEMMA ViewType ==
    ASSUME TypeOK, NEW p \in Pages
    PROVE  Cell(p) \in Pages /\ psram[Cell(p)] \in Values /\ View(p) \in Values
<1>1. Cell(p) \in Pages
  BY PageIsPair, Zenon DEF TypeOK, Cell
<1> QED BY <1>1, Zenon DEF TypeOK, View

----------------------------------------------------------------------------
\* The bank as set up by the kernel, with an identity table and an empty cache.
LEMMA InitSwap ==
    Init => SwapInv
<1> SUFFICES ASSUME Init PROVE SwapInv
  BY Zenon
<1>1. TypeOK
  BY Zenon DEF Init, TypeOK
<1>2. LoopInv
  BY DEF Init, LoopInv, BankShape, Masked
<1>3. TableInv /\ DirtyInv /\ CleanInv
  BY Zenon DEF Init, TableInv, Table, DirtyInv, CleanInv, Masked
<1> QED BY <1>1, <1>2, <1>3, Zenon DEF SwapInv

\* Steps that leave the table and the loop alone.
LEMMA FrameInv ==
    ASSUME SwapInv, UNCHANGED <<bankVars, mmu, tmp, i, pc>>
    PROVE  BankShape' /\ LoopInv' /\ TableInv' /\ UNCHANGED <<Indices, Masked, Table>>
           /\ \A p \in Pages : (Stale(p)' <=> Stale(p)) /\ Cell(p)' = Cell(p)
<1>1. UNCHANGED <<Indices, Masked, Table, bank_mmu_chunk>>
  BY Zenon DEF bankVars, Indices, Masked, Table, bank_mmu_chunk
<1>2. BankShape'
  BY <1>1, Zenon DEF SwapInv, TypeOK, BankShape, bankVars
<1>3. LoopInv'
  BY <1>1, Zenon DEF SwapInv, LoopInv, bankVars
<1>4. TableInv'
  BY <1>1, Zenon DEF SwapInv, TableInv, bankVars
<1>5. \A p \in Pages : (Stale(p)' <=> Stale(p)) /\ Cell(p)' = Cell(p)
  BY Zenon DEF Stale, Cell, bankVars
<1> QED BY <1>1, <1>2, <1>3, <1>4, <1>5, Zenon

\* The cache writes a dirty line back, or drops a clean one, at any moment.
LEMMA EvictInv ==
    ASSUME SwapInv, NEW p \in Pages, Evict(p)
    PROVE  SwapInv'
<1>1. BankShape' /\ LoopInv' /\ TableInv' /\ UNCHANGED <<Indices, Masked, Table>>
      /\ \A q \in Pages : (Stale(q)' <=> Stale(q)) /\ Cell(q)' = Cell(q)
  BY FrameInv, Zenon DEF Evict
<1>2. Cell(p) \in Pages /\ TypeOK /\ cache[p] \in Values
  BY ViewType, Zenon DEF SwapInv, TypeOK, Evict
<1>3. TypeOK'
  BY <1>1, <1>2, Zenon DEF TypeOK, Evict
<1>4. DirtyInv'
  BY <1>1, <1>2, Zenon DEF SwapInv, DirtyInv, TypeOK, Evict, bankVars
<1>5. CleanInv'
  <2> SUFFICES ASSUME NEW q \in Pages, cache'[q] # None, q \notin dirty', ~Stale(q)'
               PROVE  cache'[q] = psram'[Cell(q)']
    BY Zenon DEF CleanInv
  <2>1. q # p /\ cache'[q] = cache[q] /\ q \notin dirty
    BY <1>2, Zenon DEF Evict, TypeOK
  <2>2. cache[q] = psram[Cell(q)] /\ Cell(q)' = Cell(q) /\ Cell(q) \in Pages
    BY <1>1, <1>2, <2>1, ViewType, Zenon DEF SwapInv, CleanInv
  <2>3. psram'[Cell(q)] = psram[Cell(q)]
    BY <1>2, <2>1, <2>2, DirtyAlone, Zenon DEF Evict, TypeOK
  <2> QED BY <2>1, <2>2, <2>3, Zenon
<1> QED BY <1>1, <1>3, <1>4, <1>5, Zenon DEF SwapInv

\* The cache prefetches a line, only while it is allowed to.
LEMMA AutoloadInv ==
    ASSUME SwapInv, NEW p \in Pages, Autoload(p)
    PROVE  SwapInv'
<1>1. BankShape' /\ LoopInv' /\ TableInv' /\ UNCHANGED <<Indices, Masked, Table>>
      /\ \A q \in Pages : (Stale(q)' <=> Stale(q)) /\ Cell(q)' = Cell(q)
  BY FrameInv, Zenon DEF Autoload
<1>2. Cell(p) \in Pages /\ TypeOK /\ psram[Cell(p)] \in Values
  BY ViewType, Zenon DEF SwapInv
<1>3. TypeOK'
  BY <1>1, <1>2, Zenon DEF TypeOK, Autoload
<1>4. DirtyInv'
  BY <1>1, <1>2, SwapAssumption, Zenon DEF SwapInv, DirtyInv, TypeOK, Autoload, bankVars
<1>5. CleanInv'
  BY <1>1, <1>2, Zenon DEF SwapInv, CleanInv, TypeOK, Autoload
<1> QED BY <1>1, <1>3, <1>4, <1>5, Zenon DEF SwapInv

\* A program writes to its memory between two exchanges.
LEMMA WriteInv ==
    ASSUME SwapInv, NEW p \in Pages, NEW v \in Values, Write(p, v)
    PROVE  SwapInv' /\ ~Stale(p)
<1>1. BankShape' /\ LoopInv' /\ TableInv' /\ UNCHANGED <<Indices, Masked, Table>>
      /\ \A q \in Pages : (Stale(q)' <=> Stale(q)) /\ Cell(q)' = Cell(q)
  BY FrameInv, Zenon DEF Write
<1>2. TypeOK /\ v # None
  BY SwapAssumption, Zenon DEF SwapInv
<1>3. TypeOK'
  BY <1>1, <1>2, Zenon DEF TypeOK, Write
<1>4. Masked => p[1] # region[i][1] /\ p[1] # pages[i][1]
  BY ChunksInFlight, Zenon DEF Write, Masked
<1>5. DirtyInv'
  BY <1>1, <1>2, <1>4, Zenon DEF SwapInv, DirtyInv, TypeOK, Write, bankVars, Masked
<1>6. CleanInv'
  BY <1>1, <1>2, Zenon DEF SwapInv, CleanInv, TypeOK, Write
<1>7. ~Stale(p)
  BY <1>4, Zenon DEF Stale, Masked
<1> QED BY <1>1, <1>3, <1>5, <1>6, <1>7, Zenon DEF SwapInv

\* Steps that only move the loop, to or from a point outside bank_mmu_swap.
LEMMA LoopStepInv ==
    ASSUME SwapInv, Start \/ Finish \/ Suspend
    PROVE  SwapInv' /\ \A p \in Pages : ~Stale(p) /\ ~Stale(p)' /\ Cell(p)' = Cell(p)
<1>1. \A p \in Pages : ~Stale(p) /\ ~Stale(p)' /\ Cell(p)' = Cell(p)
  BY Zenon DEF Start, Finish, Suspend, Stale, Cell, hwVars
<1>2. TypeOK'
  <2>1. UNCHANGED bankVars /\ UNCHANGED <<mmu, psram, cache, dirty>>
        /\ pc' \in {"idle", "loop", "writeback resident"}
    BY Zenon DEF Start, Finish, Suspend, hwVars
  <2>2. BankShape'
    BY <2>1, Zenon DEF SwapInv, TypeOK, BankShape, Address, Indices, bankVars
  <2>3. i' \in Nat
    <3>1. i' = 0 \/ i' = i
      BY Zenon DEF Start, Finish, Suspend
    <3>2. i \in Nat
      BY Zenon DEF SwapInv, TypeOK
    <3> QED BY <3>1, <3>2
  <2> QED BY <2>1, <2>2, <2>3, Zenon DEF SwapInv, TypeOK
<1>3. LoopInv'
  <2>1. i \in Nat /\ count \in Nat /\ i <= count
    BY Zenon DEF SwapInv, TypeOK, BankShape, LoopInv
  <2>2. CASE Start \/ Finish
    BY <2>1, <2>2 DEF LoopInv, Masked, Start, Finish, bankVars
  <2>3. CASE Suspend
    BY <2>1, <2>3, Zenon DEF LoopInv, Masked, bank_mmu_chunk, Suspend, bankVars
  <2> QED BY <2>2, <2>3, Zenon
<1>4. TableInv'
  BY Zenon DEF SwapInv, TableInv, Table, Start, Finish, Suspend, hwVars
<1>5. DirtyInv'
  BY Zenon DEF SwapInv, DirtyInv, Masked, Start, Finish, Suspend, hwVars
<1>6. CleanInv'
  BY <1>1, Zenon DEF SwapInv, CleanInv, Start, Finish, Suspend, hwVars
<1> QED BY <1>1, <1>2, <1>3, <1>4, <1>5, <1>6, Zenon DEF SwapInv

\* bank_swap_page exchanges two pages by copying.
LEMMA SwapPageInv ==
    ASSUME SwapInv, bank_swap_page
    PROVE  /\ SwapInv'
           /\ i \in Indices /\ region[i] \in Pages /\ pages[i] \in Pages /\ region[i] # pages[i]
           /\ \A p \in Pages : ~Stale(p) /\ ~Stale(p)' /\ Cell(p)' = Cell(p)
<1>1. \A p \in Pages : ~Stale(p) /\ ~Stale(p)' /\ Cell(p)' = Cell(p)
  BY Zenon DEF bank_swap_page, Stale, Cell
<1>2. i \in Indices /\ region[i] \in Pages /\ pages[i] \in Pages /\ region[i] # pages[i]
  BY DEF SwapInv, TypeOK, BankShape, Indices, bank_swap_page
<1>3. View(region[i]) \in Values /\ View(pages[i]) \in Values /\ None \notin Values
  BY <1>2, ViewType, SwapAssumption, Zenon DEF SwapInv
<1>4. TypeOK'
  <2>1. BankShape'
    BY Zenon DEF SwapInv, TypeOK, BankShape, Address, Indices, bank_swap_page, bankVars
  <2> QED BY <1>2, <1>3, <2>1 DEF SwapInv, TypeOK, bank_swap_page
<1>5. LoopInv'
  BY DEF SwapInv, TypeOK, BankShape, LoopInv, Masked, bank_swap_page, bankVars
<1>6. TableInv'
  BY Zenon DEF SwapInv, TableInv, Table, bank_swap_page
<1>7. DirtyInv'
  BY <1>2, <1>3, Zenon DEF SwapInv, TypeOK, DirtyInv, Masked, bank_swap_page
<1>8. CleanInv'
  BY <1>1, <1>2, Zenon DEF SwapInv, TypeOK, CleanInv, bank_swap_page
<1> QED BY <1>1, <1>2, <1>4, <1>5, <1>6, <1>7, <1>8, Zenon DEF SwapInv

\* The frame of the steps inside bank_mmu_swap.
LEMMA MaskedFrame ==
    ASSUME SwapInv, Masked, UNCHANGED <<bankVars, i>>, pc' \notin {"idle", "loop"},
           pc' \in {"writeback shadow", "entry resident", "entry shadow",
                    "invalidate resident", "invalidate shadow"}
    PROVE  BankShape' /\ i' \in Nat /\ LoopInv' /\ Indices' = Indices
BY Zenon DEF SwapInv, TypeOK, BankShape, Indices, Address, LoopInv, Masked, bank_mmu_chunk, bankVars

\* The lines of a chunk are written back before its entry changes.
LEMMA WritebackInv ==
    ASSUME SwapInv, WritebackResident \/ WritebackShadow
    PROVE  /\ SwapInv'
           /\ \A p \in Pages : /\ ~Stale(p) /\ ~Stale(p)' /\ Cell(p)' = Cell(p)
                               /\ p \notin dirty => psram'[Cell(p)] = psram[Cell(p)]
<1> DEFINE c == IF pc = "writeback resident" THEN region[i][1] ELSE pages[i][1]
<1>1. Masked /\ Writeback(c) /\ pc # "entry shadow" /\ UNCHANGED <<bankVars, tmp, i>>
      /\ pc' \in {"writeback shadow", "entry resident"}
  BY Zenon DEF WritebackResident, WritebackShadow, Masked
<1>2. c \in Chunks /\ TypeOK /\ mmu' = mmu /\ cache' = cache
  BY <1>1, ChunksInFlight, Zenon DEF SwapInv, Writeback
<1>3. BankShape' /\ i' \in Nat /\ LoopInv' /\ Indices' = Indices
  BY <1>1, MaskedFrame, Zenon
<1>4. \A p \in Pages : ~Stale(p) /\ ~Stale(p)' /\ Cell(p)' = Cell(p)
  BY <1>1, <1>2, Zenon DEF Stale, Cell, WritebackResident, WritebackShadow
<1>5. \A d \in Chunks : mmu[d] = mmu[c] => d = c
  BY <1>1, <1>2, Zenon DEF SwapInv, TableInv, Table
<1>6. \A p \in Pages : psram'[Cell(p)] =
                         IF p[1] = c /\ p \in dirty THEN cache[p] ELSE psram[Cell(p)]
  <2> SUFFICES ASSUME NEW p \in Pages
               PROVE psram'[Cell(p)] = IF p[1] = c /\ p \in dirty THEN cache[p] ELSE psram[Cell(p)]
    BY Zenon
  <2>1. Cell(p) \in Pages /\ Cell(p)[1] = mmu[p[1]] /\ Cell(p)[2] = p[2]
        /\ p[1] \in Chunks /\ p = <<p[1], p[2]>>
    BY <1>2, ViewType, PageIsPair, Zenon DEF Cell
  <2> HIDE DEF c
  <2>2. psram'[Cell(p)] = IF mmu[p[1]] = mmu[c] /\ <<c, p[2]>> \in dirty
                          THEN cache[<<c, p[2]>>] ELSE psram[Cell(p)]
    BY <1>1, <2>1, Zenon DEF Writeback
  <2> QED BY <1>5, <2>1, <2>2, Zenon
<1>7. TypeOK'
  <2>1. psram' \in [Pages -> Values]
    <3> SUFFICES ASSUME NEW q \in Pages, q[1] = mmu[c], <<c, q[2]>> \in dirty
                 PROVE  cache[<<c, q[2]>>] \in Values
      BY <1>1, <1>2, Zenon DEF Writeback, TypeOK
    <3> QED BY <1>2, Zenon DEF SwapInv, DirtyInv, TypeOK
  <2>2. dirty' \in SUBSET Pages
    BY <1>1, <1>2, Zenon DEF Writeback, TypeOK
  <2> QED BY <1>1, <1>2, <1>3, <2>1, <2>2, Zenon DEF TypeOK
<1>8. TableInv'
  BY <1>1, <1>2, Zenon DEF SwapInv, TableInv, Table, bankVars
<1>9. DirtyInv'
  BY <1>1, <1>2, Zenon DEF SwapInv, DirtyInv, Writeback, Masked, WritebackResident, WritebackShadow, bankVars
<1>10. CleanInv'
  <2> HIDE DEF c
  <2>1. dirty' = {p \in dirty : p[1] # c}
    BY <1>1, Zenon DEF Writeback
  <2>2. ASSUME NEW p \in Pages, cache[p] # None, p \notin dirty'
        PROVE  cache[p] = psram'[Cell(p)]
    <3>1. p \in dirty => p[1] = c
      BY <2>1, <2>2, Zenon
    <3>2. p \notin dirty => cache[p] = psram[Cell(p)]
      BY <1>4, <2>2, Zenon DEF SwapInv, CleanInv
    <3> QED BY <1>6, <3>1, <3>2, Zenon
  <2> QED BY <1>2, <1>4, <2>2, Zenon DEF CleanInv
<1> QED BY <1>3, <1>4, <1>6, <1>7, <1>8, <1>9, <1>10, Zenon DEF SwapInv

\* The entry of the resident chunk is overwritten, after it was saved.
LEMMA EntryResidentInv ==
    ASSUME SwapInv, EntryResident
    PROVE  SwapInv'
<1> DEFINE r == region[i][1]
           s == pages[i][1]
<1>1. Masked /\ r \in Chunks /\ s \in Chunks /\ r # s /\ mmu \in [Chunks -> Chunks]
  BY ChunksInFlight, Zenon DEF EntryResident, Masked, SwapInv, TypeOK
<1>2. BankShape' /\ i' \in Nat /\ LoopInv' /\ Indices' = Indices
  BY <1>1, MaskedFrame, Zenon DEF EntryResident
<1>3. region' = region /\ pages' = pages /\ i' = i /\ pc' = "entry shadow" /\ tmp' = mmu[r]
      /\ mmu' = [mmu EXCEPT ![r] = mmu[s]] /\ UNCHANGED <<psram, cache, dirty>>
  BY Zenon DEF EntryResident, bankVars
<1>4. TypeOK'
  BY <1>1, <1>2, <1>3, Zenon DEF SwapInv, TypeOK
<1>5. TableInv'
  <2>1. \A c, d \in Chunks : mmu[c] = mmu[d] => c = d
    BY Zenon DEF SwapInv, TableInv, Table, EntryResident
  <2>2. Table' = [mmu' EXCEPT ![s] = mmu[r]] /\ mmu'[r] = mmu'[s] /\ tmp' \in Chunks
    BY <1>1, <1>3, Zenon DEF Table
  <2> HIDE DEF r, s
  <2>3. \A c \in Chunks : Table'[c] = IF c = s THEN mmu[r] ELSE IF c = r THEN mmu[s] ELSE mmu[c]
    BY <1>1, <1>3, <2>2, Zenon
  <2>4. \A c, d \in Chunks : Table'[c] = Table'[d] => c = d
    BY <1>1, <2>1, <2>3, Zenon
  <2> QED BY <1>3, <2>2, <2>4, Zenon DEF TableInv, r, s
<1>6. DirtyInv'
  BY <1>3, Zenon DEF SwapInv, DirtyInv, Masked, EntryResident
<1>7. CleanInv'
  <2>1. \A p \in Pages : ~Stale(p) /\ (~Stale(p)' => Cell(p)' = Cell(p))
    BY <1>1, <1>3, PageIsPair, Zenon DEF Stale, Cell, EntryResident
  <2> QED BY <1>3, <2>1, Zenon DEF SwapInv, CleanInv
<1> QED BY <1>2, <1>4, <1>5, <1>6, <1>7, Zenon DEF SwapInv

\* The saved entry is written to the shadow chunk.
LEMMA EntryShadowInv ==
    ASSUME SwapInv, EntryShadow
    PROVE  SwapInv'
<1> DEFINE r == region[i][1]
           s == pages[i][1]
<1>1. Masked /\ r \in Chunks /\ s \in Chunks /\ r # s /\ mmu \in [Chunks -> Chunks]
  BY ChunksInFlight, Zenon DEF EntryShadow, Masked, SwapInv, TypeOK
<1>2. BankShape' /\ i' \in Nat /\ LoopInv' /\ Indices' = Indices
  BY <1>1, MaskedFrame, Zenon DEF EntryShadow
<1>3. region' = region /\ pages' = pages /\ i' = i /\ pc' = "invalidate resident"
      /\ mmu' = Table /\ UNCHANGED <<psram, cache, dirty>> /\ tmp \in Chunks
  BY Zenon DEF EntryShadow, bankVars, Table, SwapInv, TableInv
<1>4. TypeOK'
  BY <1>1, <1>2, <1>3, Zenon DEF SwapInv, TypeOK, Table
<1>5. TableInv'
  BY <1>3, Zenon DEF SwapInv, TableInv, Table, EntryShadow
<1>6. DirtyInv'
  BY <1>3, Zenon DEF SwapInv, DirtyInv, Masked, EntryShadow
<1>7. CleanInv'
  <2>1. \A p \in Pages : ~Stale(p)' => ~Stale(p) /\ p[1] # s
    BY <1>3, Zenon DEF Stale, EntryShadow
  <2>2. \A c \in Chunks : c # s => mmu'[c] = mmu[c]
    BY <1>1, <1>3, Zenon DEF Table
  <2>3. \A p \in Pages : ~Stale(p)' => ~Stale(p) /\ Cell(p)' = Cell(p)
    BY <2>1, <2>2, PageIsPair, Zenon DEF Cell
  <2> QED BY <1>3, <2>3, Zenon DEF SwapInv, CleanInv
<1> QED BY <1>2, <1>4, <1>5, <1>6, <1>7, Zenon DEF SwapInv

\* The lines of the resident chunk are invalidated.
LEMMA InvalidateResidentInv ==
    ASSUME SwapInv, InvalidateResident
    PROVE  SwapInv'
<1>1. Masked
  BY Zenon DEF InvalidateResident, Masked
<1>2. BankShape' /\ i' \in Nat /\ LoopInv' /\ Indices' = Indices
  BY <1>1, MaskedFrame, Zenon DEF InvalidateResident
<1>3. region' = region /\ pages' = pages /\ i' = i /\ pc = "invalidate resident"
      /\ pc' = "invalidate shadow" /\ UNCHANGED <<psram, mmu, tmp>> /\ Invalidate(region[i][1])
  BY Zenon DEF InvalidateResident, Invalidate, bankVars
<1>4. TypeOK'
  BY <1>2, <1>3, Zenon DEF SwapInv, TypeOK, Invalidate
<1>5. TableInv'
  BY <1>3, Zenon DEF SwapInv, TableInv, Table
<1>6. DirtyInv'
  BY <1>3, Zenon DEF SwapInv, TypeOK, DirtyInv, Masked, Invalidate
<1>7. CleanInv'
  BY <1>3, Zenon DEF SwapInv, CleanInv, Invalidate, Stale, Cell
<1> QED BY <1>2, <1>4, <1>5, <1>6, <1>7, Zenon DEF SwapInv

\* The lines of the shadow chunk are invalidated, and the loop goes on.
LEMMA InvalidateShadowInv ==
    ASSUME SwapInv, InvalidateShadow
    PROVE  SwapInv'
<1>1. /\ region' = region /\ pages' = pages /\ count' = count /\ i' = i + K
      /\ pc = "invalidate shadow" /\ pc' = "loop" /\ UNCHANGED <<psram, mmu, tmp>>
      /\ Invalidate(pages[i][1])
  BY Zenon DEF InvalidateShadow, Invalidate, bankVars
<1>2. i' \in Nat /\ i' <= count'
  <2>1. i + K <= count
    BY <1>1, ChunksInFlight, Zenon DEF Masked
  <2>2. i \in Nat /\ K \in Nat /\ count \in Nat
    BY SwapAssumption, Zenon DEF SwapInv, TypeOK, BankShape
  <2>3. i' = i + K /\ count' = count
    BY <1>1, Zenon
  <2> QED BY <2>1, <2>2, <2>3
<1>3. BankShape'
  BY <1>1, Zenon DEF SwapInv, TypeOK, BankShape, Indices, Address
<1>4. TypeOK'
  BY <1>1, <1>2, <1>3, Zenon DEF SwapInv, TypeOK, Invalidate
<1>5. LoopInv' /\ TableInv'
  BY <1>1, <1>2, Zenon DEF SwapInv, LoopInv, Masked, TableInv, Table
<1>6. DirtyInv'
  BY <1>1, Zenon DEF SwapInv, TypeOK, DirtyInv, Masked, Invalidate
<1>7. CleanInv'
  BY <1>1, Zenon DEF SwapInv, CleanInv, Invalidate, Stale, Cell
<1> QED BY <1>4, <1>5, <1>6, <1>7, Zenon DEF SwapInv

\* SwapInv is inductive.
LEMMA NextSwap ==
    SwapInv /\ [Next]_vars => SwapInv'
<1> SUFFICES ASSUME SwapInv, [Next]_vars PROVE SwapInv'
  BY Zenon
<1>1. CASE \E p \in Pages : Evict(p) \/ Autoload(p)
  BY <1>1, EvictInv, AutoloadInv, Zenon
<1>2. CASE \E p \in Pages, v \in Values : Write(p, v)
  BY <1>2, WriteInv, Zenon
<1>3. CASE Start \/ Finish \/ Suspend
  BY <1>3, LoopStepInv, Zenon
<1>4. CASE bank_swap_page
  BY <1>4, SwapPageInv, Zenon
<1>5. CASE WritebackResident \/ WritebackShadow
  BY <1>5, WritebackInv, Zenon
<1>6. CASE EntryResident \/ EntryShadow
  BY <1>6, EntryResidentInv, EntryShadowInv, Zenon
<1>7. CASE InvalidateResident \/ InvalidateShadow
  BY <1>7, InvalidateResidentInv, InvalidateShadowInv, Zenon
<1>8. CASE UNCHANGED vars
  <2>1. /\ BankShape' /\ LoopInv' /\ TableInv' /\ UNCHANGED Masked
        /\ \A p \in Pages : (Stale(p)' <=> Stale(p)) /\ Cell(p)' = Cell(p)
    BY <1>8, FrameInv, Zenon DEF vars, hwVars
  <2>2. TypeOK'
    BY <1>8, <2>1, Zenon DEF vars, hwVars, SwapInv, TypeOK
  <2>3. DirtyInv'
    BY <1>8, <2>1, Zenon DEF vars, bankVars, hwVars, SwapInv, DirtyInv
  <2>4. CleanInv'
    BY <1>8, <2>1, Zenon DEF vars, hwVars, SwapInv, CleanInv
  <2> QED BY <2>1, <2>2, <2>3, <2>4, Zenon DEF SwapInv
<1> QED BY <1>1, <1>2, <1>3, <1>4, <1>5, <1>6, <1>7, <1>8, Zenon
        DEF Next, bank_exchange, bank_mmu_swap

\* No page of the cache ever disagrees with the memory behind it where the CPU
\* may read it, and no two chunks share a frame outside the window in which
\* bank_mmu_swap has written one entry of two.
THEOREM CacheCoherence ==
    Spec => []Coherent
<1>1. SwapInv => Coherent
  BY Zenon DEF SwapInv, TableInv, Table, CleanInv, Coherent
<1> QED BY <1>1, InitSwap, NextSwap, PTL DEF Spec

----------------------------------------------------------------------------
\* The refinement.  Every step of the cache and of bank_mmu_swap but one
\* leaves Memory and Swapped as they are.

\* When no page is stale, a page holds what the CPU reads.
LEMMA MemoryIsView ==
    ASSUME NEW p \in Pages, ~Stale(p)
    PROVE  Memory[p] = View(p)
BY Zenon DEF Memory

\* What is read through the cache does not change when a line is written back
\* or dropped.
LEMMA EvictStutters ==
    ASSUME SwapInv, NEW p \in Pages, Evict(p)
    PROVE  UNCHANGED <<Memory, Swapped>>
<1>1. \A q \in Pages : (Stale(q)' <=> Stale(q)) /\ Cell(q)' = Cell(q)
  BY FrameInv, Zenon DEF Evict
<1>2. Swapped' = Swapped
  BY Zenon DEF Evict, Swapped, Indices, bankVars
<1>3. TypeOK /\ pc' = pc /\ tmp' = tmp
  BY Zenon DEF SwapInv, Evict
<1>4. ASSUME NEW q \in Pages PROVE Memory'[q] = Memory[q]
  <2>1. Cell(q) \in Pages /\ Cell(p) \in Pages
    BY <1>3, ViewType, Zenon
  <2>2. CASE Stale(q)
    <3> DEFINE f == IF pc = "entry shadow" THEN <<tmp, q[2]>> ELSE Cell(q)
    <3>1. Memory[q] = psram[f] /\ Memory'[q] = psram'[f]
      BY <1>1, <1>3, <2>2, Zenon DEF Memory
    <3>2. p \in dirty => f # Cell(p)
      BY <2>2, DirtyAlone, Zenon
    <3>3. f \in Pages
      BY <2>1, PageIsPair, Zenon DEF SwapInv, TableInv
    <3> HIDE DEF f
    <3>4. psram'[f] = psram[f]
      BY <1>3, <2>1, <3>2, <3>3, Zenon DEF Evict, TypeOK
    <3> QED BY <3>1, <3>4, Zenon
  <2>3. CASE ~Stale(q)
    <3>1. Memory[q] = View(q) /\ Memory'[q] = View(q)'
      BY <1>1, <2>3, Zenon DEF Memory
    <3>2. CASE q = p
      BY <1>1, <1>3, <2>1, <2>3, <3>1, <3>2, Zenon DEF View, Evict, TypeOK, SwapInv, CleanInv
    <3>3. CASE q # p
      <4>1. cache'[q] = cache[q]
        BY <1>3, <3>3, Zenon DEF Evict, TypeOK
      <4>2. psram'[Cell(q)] = psram[Cell(q)]
        BY <1>3, <2>1, <3>3, DirtyAlone, Zenon DEF Evict, TypeOK
      <4> QED BY <1>1, <3>1, <4>1, <4>2, Zenon DEF View
    <3> QED BY <3>2, <3>3, Zenon
  <2> QED BY <2>2, <2>3, Zenon
<1> QED BY <1>2, <1>4, Zenon DEF Memory

\* Nor when one is prefetched.
LEMMA AutoloadStutters ==
    ASSUME SwapInv, NEW p \in Pages, Autoload(p)
    PROVE  UNCHANGED <<Memory, Swapped>>
<1>1. \A q \in Pages : (Stale(q)' <=> Stale(q)) /\ Cell(q)' = Cell(q)
  BY FrameInv, Zenon DEF Autoload
<1>2. Swapped' = Swapped
  BY Zenon DEF Autoload, Swapped, Indices, bankVars
<1>3. TypeOK /\ pc' = pc /\ tmp' = tmp /\ psram' = psram
  BY Zenon DEF SwapInv, Autoload
<1>4. \A q \in Pages : View(q)' = View(q)
  BY <1>1, <1>3, ViewType, SwapAssumption, Zenon DEF View, Autoload, TypeOK
<1> QED BY <1>1, <1>2, <1>3, <1>4, Zenon DEF Memory

\* Nor when the loop looks at its next index.
LEMMA LoopStutters ==
    ASSUME SwapInv, Start \/ Suspend
    PROVE  UNCHANGED <<Memory, Swapped>>
<1>1. \A p \in Pages : ~Stale(p) /\ ~Stale(p)' /\ Cell(p)' = Cell(p)
  BY LoopStepInv, Zenon
<1>2. \A p \in Pages : View(p)' = View(p)
  BY <1>1, Zenon DEF View, Start, Suspend, hwVars
<1>3. i' = i
  BY Zenon DEF Start, Suspend, SwapInv, LoopInv
<1>4. Swapped' = Swapped
  BY <1>3, Zenon DEF Swapped, Indices, Start, Suspend, bankVars
<1> QED BY <1>1, <1>2, <1>4, Zenon DEF Memory

\* Nor when a chunk is written back.
LEMMA WritebackStutters ==
    ASSUME SwapInv, WritebackResident \/ WritebackShadow
    PROVE  UNCHANGED <<Memory, Swapped>>
<1>1. \A p \in Pages : /\ ~Stale(p) /\ ~Stale(p)' /\ Cell(p)' = Cell(p)
                       /\ p \notin dirty => psram'[Cell(p)] = psram[Cell(p)]
  BY WritebackInv, Zenon
<1>2. cache' = cache
  BY Zenon DEF WritebackResident, WritebackShadow, Writeback
<1>3. \A p \in Pages : View(p)' = View(p)
  BY <1>1, <1>2, Zenon DEF View, SwapInv, DirtyInv
<1>4. Swapped' = Swapped
  BY Zenon DEF Swapped, Indices, WritebackResident, WritebackShadow, bankVars
<1> QED BY <1>1, <1>3, <1>4, Zenon DEF Memory

\* Nor when the first entry is written: the exchange is counted at the second.
LEMMA EntryResidentStutters ==
    ASSUME SwapInv, EntryResident
    PROVE  UNCHANGED <<Memory, Swapped>>
<1> DEFINE r == region[i][1]
           s == pages[i][1]
<1>1. r \in Chunks /\ s \in Chunks /\ r # s /\ mmu \in [Chunks -> Chunks]
  BY ChunksInFlight, Zenon DEF EntryResident, Masked, SwapInv, TypeOK
<1>2. region' = region /\ pages' = pages /\ i' = i /\ pc = "entry resident"
      /\ pc' = "entry shadow" /\ tmp' = mmu[r]
      /\ mmu' = [mmu EXCEPT ![r] = mmu[s]] /\ UNCHANGED <<psram, cache>>
  BY Zenon DEF EntryResident, bankVars
<1>3. \A p \in Pages : ~Stale(p) /\ (Stale(p)' <=> p[1] = r)
  BY <1>2, Zenon DEF Stale
<1>4. ASSUME NEW p \in Pages PROVE Memory'[p] = Memory[p]
  <2>1. Memory[p] = View(p)
    BY <1>3, MemoryIsView, Zenon
  <2>2. CASE p[1] = r
    <3>1. Memory'[p] = psram[Cell(p)]
      BY <1>2, <1>3, <2>2, Zenon DEF Memory, Cell
    <3>2. p \notin dirty
      BY <1>2, <2>2, Zenon DEF SwapInv, DirtyInv, Masked
    <3>3. View(p) = psram[Cell(p)]
      BY <1>3, <3>2, Zenon DEF View, SwapInv, CleanInv
    <3> QED BY <2>1, <3>1, <3>3, Zenon
  <2>3. CASE p[1] # r
    <3>1. Memory'[p] = View(p)'
      BY <1>3, <2>3, Zenon DEF Memory
    <3>2. mmu'[p[1]] = mmu[p[1]]
      BY <1>1, <1>2, <2>3, PageIsPair, Zenon
    <3> QED BY <1>2, <2>1, <3>1, <3>2, Zenon DEF View, Cell
  <2> QED BY <2>2, <2>3, Zenon
<1>5. Swapped' = Swapped
  BY Zenon DEF Swapped, Indices, EntryResident, bankVars
<1> QED BY <1>4, <1>5, Zenon DEF Memory

\* Nor when lines are invalidated, since they were stale or clean.
LEMMA InvalidateStutters ==
    ASSUME SwapInv, InvalidateResident \/ InvalidateShadow
    PROVE  UNCHANGED <<Memory, Swapped>>
<1>1. /\ UNCHANGED <<count, region, pages, psram, mmu, tmp>>
      /\ pc \in {"invalidate resident", "invalidate shadow"}
  BY Zenon DEF InvalidateResident, InvalidateShadow, Invalidate, bankVars
<1>2. \A p \in Pages : Cell(p)' = Cell(p)
  BY <1>1, Zenon DEF Cell
<1>3. \A p \in Pages : /\ Stale(p)' => Stale(p)
                       /\ Stale(p) /\ ~Stale(p)' => cache'[p] = None
                       /\ ~Stale(p) => cache'[p] = cache[p]
  BY Zenon DEF Stale, InvalidateResident, InvalidateShadow, Invalidate, bankVars
<1>4. UNCHANGED Memory
  BY <1>1, <1>2, <1>3, Zenon DEF Memory, View, InvalidateResident, InvalidateShadow
<1>5. Swapped' = Swapped
  <2>1. CASE InvalidateResident
    BY <2>1, Zenon DEF Swapped, Indices, InvalidateResident, bankVars
  <2>2. CASE InvalidateShadow
    <3>1. i \in Nat /\ K \in Nat /\ count \in Nat
      BY SwapAssumption, Zenon DEF SwapInv, TypeOK, BankShape
    <3>2. Indices' = Indices /\ i' = i + K /\ pc = "invalidate shadow" /\ pc' = "loop"
      BY <2>2, Zenon DEF InvalidateShadow, Indices, bankVars
    <3>3. \A j \in Indices : j < i => j < i + K
      BY <3>1 DEF Indices
    <3> QED BY <3>2, <3>3, Zenon DEF Swapped
  <2> QED BY <2>1, <2>2, Zenon
<1> QED BY <1>4, <1>5, Zenon

\* bank_swap_page is an exchange of one page.
LEMMA SwapPageExchanges ==
    ASSUME SwapInv, bank_swap_page
    PROVE  Abstract!Exchange({i})
<1>1. /\ i \in Indices /\ region[i] \in Pages /\ pages[i] \in Pages /\ region[i] # pages[i]
      /\ \A p \in Pages : ~Stale(p) /\ ~Stale(p)' /\ Cell(p)' = Cell(p)
  BY SwapPageInv, Zenon
<1>2. \A p \in Pages : Memory[p] = View(p) /\ Memory'[p] = View(p)'
  BY <1>1, Zenon DEF Memory
<1>3. View(region[i]) # None /\ View(pages[i]) # None /\ cache \in [Pages -> Values \cup {None}]
  BY <1>1, ViewType, SwapAssumption, Zenon DEF SwapInv, TypeOK
<1>4. Memory'[region[i]] = Memory[pages[i]] /\ Memory'[pages[i]] = Memory[region[i]]
  BY <1>1, <1>2, <1>3, Zenon DEF bank_swap_page, View
<1>5. \A p \in Pages : p # region[i] /\ p # pages[i] => Memory'[p] = Memory[p]
  <2> SUFFICES ASSUME NEW p \in Pages, p # region[i], p # pages[i]
               PROVE  View(p)' = View(p)
    BY <1>2, Zenon
  <2>1. cache'[p] = cache[p] /\ psram' = psram
    BY <1>3, Zenon DEF bank_swap_page
  <2> QED BY <1>1, <2>1, Zenon DEF View
<1>6. UNCHANGED <<count, region, pages>>
  BY Zenon DEF bank_swap_page, bankVars
<1>7. Swapped' = Swapped \cup {i} /\ i \notin Swapped
  <2>1. pc = "loop" /\ pc' = "loop" /\ i' = i + 1 /\ Indices' = Indices /\ i \in Nat
    BY Zenon DEF bank_swap_page, bankVars, Indices, SwapInv, TypeOK
  <2>2. \A j \in Indices : j < i + 1 <=> j < i \/ j = i
    BY <2>1 DEF Indices
  <2>3. Swapped = {j \in Indices : j < i} /\ Swapped' = {j \in Indices : j < i + 1}
    BY <2>1, Zenon DEF Swapped
  <2>4. ~(i < i)
    BY <2>1
  <2> QED BY <1>1, <2>2, <2>3, <2>4, Zenon
<1> QED BY <1>1, <1>4, <1>5, <1>6, <1>7, Zenon DEF Abstract!Exchange, Abstract!Indices, Abstract!Touched, Indices

\* The second entry written is an exchange of a chunk's pages, all at once.
LEMMA EntryShadowExchanges ==
    ASSUME SwapInv, EntryShadow
    PROVE  Abstract!Exchange(i .. i + K - 1)
<1> DEFINE r == region[i][1]
           s == pages[i][1]
           Q == i .. i + K - 1
<1>1. r \in Chunks /\ s \in Chunks /\ r # s /\ mmu \in [Chunks -> Chunks]
      /\ i + K <= count /\ i < count /\ bank_mmu_chunk /\ TypeOK
  BY ChunksInFlight, Zenon DEF EntryShadow, Masked, SwapInv, TypeOK, LoopInv
<1>2. region' = region /\ pages' = pages /\ count' = count /\ i' = i /\ pc = "entry shadow"
      /\ pc' = "invalidate resident" /\ mmu[r] = mmu[s]
      /\ mmu' = [mmu EXCEPT ![s] = tmp] /\ UNCHANGED <<psram, cache>>
  BY Zenon DEF EntryShadow, bankVars, SwapInv, TableInv
<1>3. i \in Nat /\ K \in Nat /\ count \in Nat
  BY SwapAssumption, Zenon DEF SwapInv, TypeOK, BankShape
<1>4. \A p \in Pages : (Stale(p) <=> p[1] = r) /\ (Stale(p)' <=> p[1] = r \/ p[1] = s)
  BY <1>2, Zenon DEF Stale
<1>5. ASSUME NEW p \in Pages, p[1] \in {r, s}
      PROVE  /\ Memory[p] = psram[IF p[1] = r THEN <<tmp, p[2]>> ELSE <<mmu[s], p[2]>>]
             /\ Memory'[p] = psram[IF p[1] = r THEN <<mmu[s], p[2]>> ELSE <<tmp, p[2]>>]
  <2>1. CASE p[1] = r
    <3>1. Memory[p] = psram[<<tmp, p[2]>>]
      BY <1>2, <1>4, <2>1, Zenon DEF Memory
    <3>2. mmu'[r] = mmu[s]
      BY <1>1, <1>2, Zenon
    <3>3. Memory'[p] = psram'[<<mmu'[p[1]], p[2]>>]
      BY <1>2, <1>4, <2>1, Zenon DEF Memory, Cell
    <3> QED BY <1>2, <2>1, <3>1, <3>2, <3>3, Zenon
  <2>2. CASE p[1] = s
    <3>1. Memory[p] = psram[<<mmu[s], p[2]>>]
      <4>1. p \notin dirty /\ ~Stale(p)
        BY <1>1, <1>2, <1>4, <2>2, Zenon DEF SwapInv, DirtyInv
      <4>2. View(p) = psram[Cell(p)]
        BY <4>1, Zenon DEF View, SwapInv, CleanInv
      <4> QED BY <2>2, <4>1, <4>2, MemoryIsView, Zenon DEF Cell
    <3>2. mmu'[s] = tmp
      BY <1>1, <1>2, Zenon
    <3>3. Memory'[p] = psram'[<<mmu'[p[1]], p[2]>>]
      BY <1>2, <1>4, <2>2, Zenon DEF Memory, Cell
    <3> QED BY <1>1, <1>2, <2>2, <3>1, <3>2, <3>3, Zenon
  <2> QED BY <1>5, <2>1, <2>2, Zenon
<1>6. ASSUME NEW j \in Q
      PROVE  /\ j - i \in Offsets /\ j \in Indices
             /\ region[j] = <<r, j - i>> /\ pages[j] = <<s, j - i>>
  <2>1. j - i \in Offsets /\ j = i + (j - i)
    BY <1>3 DEF Offsets
  <2> QED BY <1>1, <2>1, ChunkOfBank, Zenon
<1>7. ASSUME NEW p \in Pages, ~\E j \in Q : p = region[j] \/ p = pages[j]
      PROVE  Memory'[p] = Memory[p]
  <2>1. p[2] \in Offsets /\ p = <<p[1], p[2]>> /\ p[1] \in Chunks
    BY PageIsPair, Zenon
  <2>2. p[1] # r /\ p[1] # s
    <3>1. i + p[2] \in Q /\ (i + p[2]) - i = p[2]
      BY <1>3, <2>1 DEF Offsets
    <3> QED BY <1>6, <1>7, <2>1, <3>1, Zenon
  <2>3. Memory[p] = View(p) /\ Memory'[p] = View(p)'
    BY <1>4, <2>2, Zenon DEF Memory
  <2>4. mmu'[p[1]] = mmu[p[1]]
    BY <1>1, <1>2, <2>1, <2>2, Zenon
  <2> QED BY <1>2, <2>3, <2>4, Zenon DEF View, Cell
<1>8. Q \subseteq Indices \ Swapped /\ Swapped' = Swapped \cup Q
  <2>1. Swapped = {j \in Indices : j < i} /\ Swapped' = {j \in Indices : j < i \/ j < i + K}
    BY <1>2, Zenon DEF Swapped, Indices
  <2> QED BY <1>1, <1>3, <2>1 DEF Indices
<1>9. \A j \in Q : Memory'[region[j]] = Memory[pages[j]] /\ Memory'[pages[j]] = Memory[region[j]]
  <2> SUFFICES ASSUME NEW j \in Q
               PROVE  Memory'[region[j]] = Memory[pages[j]] /\ Memory'[pages[j]] = Memory[region[j]]
    BY Zenon
  <2>1. PICK x \in Pages, y \in Pages : x = region[j] /\ y = pages[j]
    BY <1>1, <1>6, Zenon DEF TypeOK, BankShape
  <2>2. x[1] = r /\ y[1] = s /\ x[2] = y[2]
    BY <1>6, <2>1, SMTT(30)
  <2>3. Memory[x] = psram[<<tmp, x[2]>>] /\ Memory'[x] = psram[<<mmu[s], x[2]>>]
    BY <1>5, <2>2, Zenon
  <2>4. Memory[y] = psram[<<mmu[s], y[2]>>] /\ Memory'[y] = psram[<<tmp, y[2]>>]
    BY <1>1, <1>5, <2>2, Zenon
  <2> QED BY <2>1, <2>2, <2>3, <2>4, Zenon
<1> QED BY <1>2, <1>7, <1>8, <1>9, Zenon DEF Abstract!Exchange, Abstract!Indices, Abstract!Touched, Indices

\* The end of the loop is the end of the exchange.
LEMMA FinishFinishes ==
    ASSUME SwapInv, Finish
    PROVE  Abstract!Finish
<1>1. \A p \in Pages : ~Stale(p) /\ ~Stale(p)' /\ Cell(p)' = Cell(p)
  BY LoopStepInv, Zenon
<1>2. \A p \in Pages : View(p)' = View(p)
  BY <1>1, Zenon DEF View, Finish, hwVars
<1>3. UNCHANGED Memory
  BY <1>1, <1>2, Zenon DEF Memory
<1>4. count \in Nat /\ Indices' = Indices /\ i = count /\ i' = 0 /\ pc = "loop" /\ pc' = "idle"
  BY Zenon DEF SwapInv, TypeOK, BankShape, Finish, Indices, bankVars
<1>5. Swapped = Indices /\ Swapped' = {}
  BY <1>4 DEF Swapped, Indices
<1> QED BY <1>3, <1>5, Zenon DEF Abstract!Finish, Abstract!Indices, Indices, Finish, bankVars

\* A write of a program is a write to its memory.
LEMMA WriteWrites ==
    ASSUME SwapInv, NEW p \in Pages, NEW v \in Values, Write(p, v)
    PROVE  Abstract!Write(p, v)
<1>1. \A q \in Pages : (Stale(q)' <=> Stale(q)) /\ Cell(q)' = Cell(q)
  BY FrameInv, Zenon DEF Write
<1>2. ~Stale(p) /\ TypeOK /\ v # None
  BY WriteInv, SwapAssumption, Zenon DEF SwapInv
<1>3. View(p)' = v /\ \A q \in Pages : q # p => View(q)' = View(q)
  BY <1>1, <1>2, Zenon DEF View, Write, TypeOK
<1>4. Memory' = [Memory EXCEPT ![p] = v]
  BY <1>1, <1>2, <1>3, Zenon DEF Memory, Write
<1>5. UNCHANGED <<count, region, pages, Swapped>>
  BY Zenon DEF Write, bankVars, Swapped, Indices
<1>6. Swapped = {} \/ ~Abstract!Touched(p, Abstract!Indices)
  <2>1. CASE pc = "idle"
    BY <2>1 DEF SwapInv, LoopInv, Swapped, Indices
  <2>2. CASE p \notin Bank
    BY <2>2, Zenon DEF Bank, Indices, Abstract!Touched, Abstract!Indices
  <2> QED BY <2>1, <2>2, Zenon DEF Write
<1> QED BY <1>4, <1>5, <1>6, Zenon DEF Abstract!Write

\* However eviction, write-back, loading ahead and other writers interleave
\* with bank_exchange, each page of the bank changes places with its shadow
\* once per exchange and no other page is disturbed: bank_exchange implements
\* PageExchange.
THEOREM ExchangeImplements ==
    Spec => ExchangeIsAtomic
<1>1. Init => Abstract!Init
  <2> SUFFICES ASSUME Init PROVE Abstract!Init
    BY Zenon
  <2>1. \A p \in Pages : ~Stale(p)
    BY Zenon DEF Init, Stale
  <2>2. Memory \in [Pages -> Values]
    BY <2>1, InitSwap, ViewType, Zenon DEF SwapInv, Memory
  <2>3. Swapped = {}
    BY DEF Init, Swapped, Indices
  <2> QED BY <2>2, <2>3, Zenon DEF Abstract!Init
<1>2. SwapInv /\ [Next]_vars => [Abstract!Next]_(Abstract!vars)
  <2> SUFFICES ASSUME SwapInv, [Next]_vars PROVE Abstract!Next \/ UNCHANGED Abstract!vars
    BY Zenon DEF Abstract!vars
  <2>1. CASE \E p \in Pages : Evict(p) \/ Autoload(p)
    BY <2>1, EvictStutters, AutoloadStutters, Zenon DEF Evict, Autoload, bankVars, Abstract!vars
  <2>2. CASE \E p \in Pages, v \in Values : Write(p, v)
    BY <2>2, WriteWrites, Zenon DEF Abstract!Next
  <2>3. CASE Start \/ Suspend
    BY <2>3, LoopStutters, Zenon DEF Start, Suspend, bankVars, Abstract!vars
  <2>4. CASE Finish
    BY <2>4, FinishFinishes, Zenon DEF Abstract!Next
  <2>5. CASE bank_swap_page
    BY <2>5, SwapPageExchanges, SwapPageInv, Zenon DEF Abstract!Next, Abstract!Indices, Indices
  <2>6. CASE WritebackResident \/ WritebackShadow
    BY <2>6, WritebackStutters, Zenon DEF WritebackResident, WritebackShadow, bankVars, Abstract!vars
  <2>7. CASE EntryResident
    BY <2>7, EntryResidentStutters, Zenon DEF EntryResident, bankVars, Abstract!vars
  <2>8. CASE EntryShadow
    BY <2>8, EntryShadowExchanges, Zenon DEF Abstract!Next, Abstract!Exchange
  <2>9. CASE InvalidateResident \/ InvalidateShadow
    BY <2>9, InvalidateStutters, Zenon DEF InvalidateResident, InvalidateShadow, bankVars, Abstract!vars
  <2>10. CASE UNCHANGED vars
    BY <2>10, Zenon DEF vars, bankVars, hwVars, Abstract!vars, Memory, Swapped, Stale, View, Cell, Indices
  <2> QED BY <2>1, <2>2, <2>3, <2>4, <2>5, <2>6, <2>7, <2>8, <2>9, <2>10, Zenon
          DEF Next, bank_exchange, bank_mmu_swap
<1> QED BY <1>1, <1>2, InitSwap, NextSwap, PTL DEF Spec, ExchangeIsAtomic, Abstract!Spec

-----------------------------------------------------------------------------
(* jobq *)

\* The jobs up to next are running, not yet collected, or done with; the
\* others have not been touched.
JobTypes ==
    /\ j_pc \in {"scan", "admit", "return"}
    /\ j_next \in 0 .. JobCount /\ j_finished \in Nat /\ j_active \in Nat
    /\ j_failed \in BOOLEAN
    /\ j_proc \in [J!Jobs -> {"none", "run", "stopped", "dying", "zero", "nonzero"}]
    /\ j_pid \in SUBSET (0 .. j_next - 1)
    /\ \A j \in J!Jobs : j \notin j_pid => j_proc[j] \notin J!Alive

\* The counters.
JobCounts ==
    /\ j_active = Cardinality(j_pid) /\ j_active <= Parallel
    /\ j_finished + j_active = j_next
    /\ j_pc = "return" => j_finished = JobCount

\* Without a failure every job that was started has succeeded or is to be
\* collected.
JobOutcomes == j_failed \/ \A j \in 0 .. j_next - 1 : j \in j_pid \/ j_proc[j] = "zero"

\* The invariant of the queue.
JobInv == JobTypes /\ JobCounts /\ JobOutcomes

\* JobQueue counts as FiniteSets does.
LEMMA SameCount == \A Q : J!Cardinality(Q) = Cardinality(Q)
BY DEF J!Cardinality, Cardinality

\* Counting jobs: one job more or less counts for one.  What the steps need of
\* it; JobSets shows it.
JobSetsCount ==
    /\ Cardinality({}) = 0
    /\ \A n \in Nat : \A Q \in SUBSET (0 .. n - 1) : \A x :
         /\ Cardinality(Q) \in Nat
         /\ Cardinality(Q) = 0 <=> Q = {}
         /\ x \notin Q => Cardinality(Q \cup {x}) = Cardinality(Q) + 1
         /\ x \in Q => Cardinality(Q \ {x}) = Cardinality(Q) - 1

\* The invariant holds as jobq starts.
LEMMA JobInit == ASSUME JobSetsCount, J!Init PROVE JobInv
<1>1. Cardinality({}) = 0
  BY Zenon DEF JobSetsCount
<1>2. j_next = 0 /\ j_pid = {} /\ j_finished = 0 /\ j_active = 0 /\ j_pc = "scan" /\ j_i = 0
      /\ j_failed = FALSE /\ j_proc = [j \in J!Jobs |-> "none"]
  BY Zenon DEF J!Init
<1>3. JobCount \in Nat \ {0} /\ Parallel \in Nat \ {0}
  BY BoardAssumption, Zenon
<1>4. JobTypes
  <2>1. j_proc \in [J!Jobs -> {"none", "run", "stopped", "dying", "zero", "nonzero"}]
    BY <1>2, Zenon
  <2>2. \A j \in J!Jobs : j_proc[j] \notin J!Alive
    BY <1>2 DEF J!Alive
  <2>3. 0 \in 0 .. JobCount /\ 0 \in Nat
    BY <1>3
  <2> QED BY <1>2, <2>1, <2>2, <2>3, Zenon DEF JobTypes
<1>5. JobCounts /\ JobOutcomes
  BY <1>1, <1>2, <1>3 DEF JobCounts, JobOutcomes
<1> QED BY <1>4, <1>5, Zenon DEF JobInv

\* Jobs stop and end, or are killed by jobq: only a job that runs changes.
LEMMA JobsRunInv ==
    ASSUME JobInv,
           UNCHANGED <<j_next, j_finished, j_active, j_pid>>,
           j_pc' \in {"scan", "admit", "return"}, j_pc' = "return" => j_pc = "return",
           j_failed' \in BOOLEAN, j_failed => j_failed',
           \/ UNCHANGED j_proc
           \/ \E j \in J!Jobs, s \in {"stopped", "dying", "zero", "nonzero"} :
                j_proc[j] \in J!Alive /\ j_proc' = [j_proc EXCEPT ![j] = s]
    PROVE  JobInv'
<1>0. JobTypes /\ JobCounts /\ JobOutcomes
  BY Zenon DEF JobInv
<1>1. CASE UNCHANGED j_proc
  BY <1>0, <1>1, Zenon DEF JobInv, JobTypes, JobCounts, JobOutcomes
<1>2. CASE \E j \in J!Jobs, s \in {"stopped", "dying", "zero", "nonzero"} :
             j_proc[j] \in J!Alive /\ j_proc' = [j_proc EXCEPT ![j] = s]
  <2>1. PICK j \in J!Jobs, s \in {"stopped", "dying", "zero", "nonzero"} :
          j_proc[j] \in J!Alive /\ j_proc' = [j_proc EXCEPT ![j] = s]
    BY <1>2, Zenon
  <2>2. j \in j_pid
    BY <1>0, <2>1, Zenon DEF JobTypes
  <2>3. /\ j_proc' \in [J!Jobs -> {"none", "run", "stopped", "dying", "zero", "nonzero"}]
        /\ \A h \in J!Jobs \ {j} : j_proc'[h] = j_proc[h]
    BY <1>0, <2>1 DEF JobTypes
  <2>4. JobTypes'
    BY <1>0, <2>2, <2>3, Zenon DEF JobTypes
  <2>5. JobCounts'
    BY <1>0, Zenon DEF JobCounts
  <2>6. JobOutcomes'
    <3>1. \A h \in 0 .. j_next - 1 : h \in J!Jobs
      BY <1>0, BoardAssumption DEF JobTypes, J!Jobs
    <3> QED BY <1>0, <2>2, <2>3, <3>1, Zenon DEF JobOutcomes
  <2> QED BY <2>4, <2>5, <2>6, Zenon DEF JobInv
<1> QED BY <1>1, <1>2, Zenon

\* What the model's clock, signals and processes do.
LEMMA WorldInv ==
    ASSUME JobInv,
           \/ \E j \in J!Jobs : J!Exits(j) \/ J!Stops(j) \/ J!Dies(j) \/ J!TimeIsUp(j)
           \/ J!Starve \/ J!stop
    PROVE  JobInv'
<1>0. JobTypes
  BY Zenon DEF JobInv
<1>1. UNCHANGED <<j_pc, j_next, j_finished, j_active, j_failed, j_pid>>
  BY Zenon DEF J!Exits, J!Stops, J!Dies, J!TimeIsUp, J!Starve, J!stop, J!loopVars
<1>2. \/ UNCHANGED j_proc
      \/ \E j \in J!Jobs, s \in {"stopped", "dying", "zero", "nonzero"} :
           j_proc[j] \in J!Alive /\ j_proc' = [j_proc EXCEPT ![j] = s]
  BY Zenon DEF J!Exits, J!Stops, J!Dies, J!TimeIsUp, J!Starve, J!stop, J!Alive
<1> QED BY <1>0, <1>1, <1>2, JobsRunInv, Zenon DEF JobTypes

\* A pass over the jobs that were started.
LEMMA ScanInv == ASSUME JobSetsCount, JobInv, J!scan PROVE JobInv'
<1>0. JobTypes /\ JobCounts /\ JobOutcomes
  BY Zenon DEF JobInv
<1>1. j_pc' \in {"scan", "admit", "return"} /\ j_pc' # "return"
  <2>1. J!Advance
    BY Zenon DEF J!scan, J!ScanStopped, J!ScanExited, J!ScanRunning, J!ScanOther
  <2> QED BY <2>1 DEF J!Advance
<1>2. JobCount \in Nat \ {0} /\ j_next \in 0 .. JobCount /\ j_pid \in SUBSET (0 .. j_next - 1)
  BY <1>0, BoardAssumption, Zenon DEF JobTypes
<1>3. \A j \in j_pid : j \in J!Jobs
  BY <1>2 DEF J!Jobs
<1>4. CASE J!ScanStopped \/ J!ScanRunning \/ J!ScanOther
  <2>1. /\ UNCHANGED <<j_next, j_finished, j_active, j_pid>>
        /\ j_failed' \in BOOLEAN /\ (j_failed => j_failed')
    BY <1>0, <1>4, Zenon DEF J!ScanStopped, J!ScanRunning, J!ScanOther, J!loopVars, JobTypes
  <2>2. \/ UNCHANGED j_proc
        \/ \E j \in J!Jobs, s \in {"stopped", "dying", "zero", "nonzero"} :
             j_proc[j] \in J!Alive /\ j_proc' = [j_proc EXCEPT ![j] = s]
    BY <1>3, <1>4, Zenon DEF J!ScanStopped, J!ScanRunning, J!ScanOther, J!Alive
  <2> QED BY <1>1, <2>1, <2>2, JobsRunInv, Zenon
<1>5. CASE J!ScanExited
  <2>1. /\ j_i \in j_pid /\ j_proc[j_i] \in {"zero", "nonzero"}
        /\ j_failed' = (j_failed \/ j_proc[j_i] = "nonzero")
        /\ j_pid' = j_pid \ {j_i} /\ j_active' = j_active - 1 /\ j_finished' = j_finished + 1
        /\ UNCHANGED <<j_next, j_proc>>
    BY <1>5, Zenon DEF J!ScanExited
  <2>2. /\ Cardinality(j_pid') = Cardinality(j_pid) - 1
        /\ Cardinality(j_pid') \in Nat /\ Cardinality(j_pid) \in Nat
    <3>1. j_next \in Nat /\ j_pid' \in SUBSET (0 .. j_next - 1)
      BY <1>2, <2>1
    <3> QED BY <1>2, <2>1, <3>1, Zenon DEF JobSetsCount
  <2>3. j_proc[j_i] \notin J!Alive
    BY <2>1 DEF J!Alive
  <2>4. JobTypes'
    <3>1. j_active' \in Nat /\ j_finished' \in Nat
      BY <1>0, <2>1, <2>2 DEF JobTypes, JobCounts
    <3>2. \A j \in J!Jobs : j \notin j_pid' => j_proc[j] \notin J!Alive
      BY <1>0, <2>1, <2>3, Zenon DEF JobTypes
    <3>3. j_pid' \in SUBSET (0 .. j_next - 1) /\ j_failed' \in BOOLEAN
      BY <1>0, <1>2, <2>1, Zenon DEF JobTypes
    <3> QED BY <1>0, <1>1, <2>1, <3>1, <3>2, <3>3, Zenon DEF JobTypes
  <2>5. JobCounts'
    BY <1>0, <1>1, <2>1, <2>2, BoardAssumption DEF JobTypes, JobCounts
  <2>6. JobOutcomes'
    BY <1>0, <2>1, Zenon DEF JobOutcomes
  <2> QED BY <2>4, <2>5, <2>6, Zenon DEF JobInv
<1> QED BY <1>4, <1>5, Zenon DEF J!scan

\* The end of a pass: jobq returns when all jobs are done with.
LEMMA LoopEnds ==
    ASSUME JobTypes', JobOutcomes', j_active' = Cardinality(j_pid'), j_active' <= Parallel,
           j_finished' + j_active' = j_next', J!Loop(j_finished')
    PROVE  JobInv'
<1>1. j_pc' = "return" => j_finished' = JobCount
  <2>1. j_pc' = "return" => ~(j_finished' < JobCount)
    <3>1. "scan" # "return"
      OBVIOUS
    <3> QED BY <3>1, Zenon DEF J!Loop
  <2>2. j_finished' \in Nat /\ j_active' \in Nat /\ j_next' \in 0 .. JobCount /\ JobCount \in Nat
    BY BoardAssumption, Zenon DEF JobTypes
  <2> QED BY <2>1, <2>2
<1> QED BY <1>1, Zenon DEF JobInv, JobCounts

\* Admission: a job is started, dropped or left to wait.
LEMMA AdmitInv ==
    ASSUME JobSetsCount, JobInv, J!Cancel \/ J!Spawn \/ J!NotSpawned \/ J!NoAdmission PROVE JobInv'
<1>0. JobTypes /\ JobCounts /\ JobOutcomes
  BY Zenon DEF JobInv
<1>1. /\ JobCount \in Nat \ {0} /\ Parallel \in Nat /\ j_next \in 0 .. JobCount
      /\ j_pid \in SUBSET (0 .. j_next - 1) /\ j_finished \in Nat /\ j_active \in Nat
      /\ j_active = Cardinality(j_pid) /\ j_active <= Parallel /\ j_finished + j_active = j_next
  BY <1>0, BoardAssumption, Zenon DEF JobTypes, JobCounts
<1>2. J!Loop(j_finished') /\ j_pc' \in {"scan", "admit", "return"}
  <2>1. J!Loop(j_finished')
    BY Zenon DEF J!Cancel, J!Spawn, J!NotSpawned, J!NoAdmission, J!loopVars
  <2> QED BY <2>1, Zenon DEF J!Loop
<1>3. CASE J!NoAdmission
  <2>1. UNCHANGED <<j_next, j_finished, j_active, j_failed, j_pid, j_proc>>
    BY <1>3, Zenon DEF J!NoAdmission, J!loopVars
  <2> QED BY <1>0, <1>1, <1>2, <2>1, LoopEnds, Zenon DEF JobTypes, JobOutcomes
\* n jobs are dropped.
<1>4. ASSUME NEW n \in 0 .. JobCount - j_next,
             j_next' = j_next + n, j_finished' = j_finished + n, j_failed' \in BOOLEAN,
             j_failed => j_failed', n # 0 => j_failed', UNCHANGED <<j_active, j_pid, j_proc>>
      PROVE  JobInv'
  <2>1. /\ j_next' \in 0 .. JobCount /\ j_finished' \in Nat /\ j_finished' + j_active' = j_next'
        /\ j_pid' \in SUBSET (0 .. j_next' - 1)
    BY <1>1, <1>4
  <2>2. JobTypes'
    BY <1>0, <1>2, <1>4, <2>1, Zenon DEF JobTypes
  <2>3. JobOutcomes'
    <3>1. n = 0 => j_next' = j_next
      BY <1>1, <1>4
    <3> QED BY <1>0, <1>4, <3>1, Zenon DEF JobOutcomes
  <2> QED BY <1>1, <1>2, <1>4, <2>1, <2>2, <2>3, LoopEnds, Zenon
<1>5. CASE J!Cancel
  <2> DEFINE n == JobCount - j_next
  <2>1. n \in 0 .. JobCount - j_next /\ j_next + n = JobCount
    BY <1>1
  <2> QED BY <1>4, <1>5, <2>1, Zenon DEF J!Cancel
<1>6. CASE J!NotSpawned
  <2>1. PICK m \in {j_next, j_next + 1} : J!Timeout(m)
    BY <1>6, Zenon DEF J!NotSpawned
  <2>2. j_next < JobCount /\ UNCHANGED <<j_active, j_pid, j_proc>>
    BY <1>6, Zenon DEF J!NotSpawned, J!Admissible
  <2>3. j_failed \in BOOLEAN
    BY <1>0, Zenon DEF JobTypes
  <2> DEFINE n == j_next' - j_next
  <2>4. /\ n \in 0 .. JobCount - j_next /\ j_next' = j_next + n /\ j_finished' = j_finished + n
        /\ j_failed' \in BOOLEAN /\ (j_failed => j_failed') /\ (n # 0 => j_failed')
    <3>1. CASE j_starved /\ m < JobCount
      <4>1. /\ j_next' = m + 1 /\ j_finished' = j_finished + (m - j_next) + 1 /\ j_failed' = TRUE
        BY <2>1, <3>1, Zenon DEF J!Timeout
      <4> QED BY <1>1, <2>1, <2>2, <3>1, <4>1
    <3>2. CASE ~(j_starved /\ m < JobCount)
      <4>1. /\ j_next' = m /\ j_finished' = j_finished + (m - j_next)
            /\ j_failed' = (j_failed \/ m # j_next)
        BY <2>1, <3>2, Zenon DEF J!Timeout
      <4>2. n \in 0 .. JobCount - j_next /\ j_next' = j_next + n /\ j_finished' = j_finished + n
        BY <1>1, <2>1, <2>2, <4>1
      <4>3. n # 0 => m # j_next
        BY <1>1, <4>1
      <4>4. j_failed' \in BOOLEAN /\ (j_failed => j_failed') /\ (n # 0 => j_failed')
        BY <2>3, <4>1, <4>3, Zenon
      <4> QED BY <4>2, <4>4, Zenon
    <3> QED BY <3>1, <3>2, Zenon
  <2> HIDE DEF n
  <2> QED BY <1>4, <2>2, <2>4, Zenon
<1>7. CASE J!Spawn
  <2>1. /\ j_next < JobCount /\ j_active < Parallel
        /\ j_proc' = [j_proc EXCEPT ![j_next] = "run"]
        /\ j_pid' = j_pid \cup {j_next} /\ j_active' = j_active + 1 /\ j_next' = j_next + 1
        /\ UNCHANGED <<j_finished, j_failed>>
    BY <1>7, Zenon DEF J!Spawn, J!Admissible
  <2>2. /\ j_next \in J!Jobs /\ j_next \notin j_pid /\ j_next \in Nat
        /\ j_next' \in 0 .. JobCount /\ j_pid' \in SUBSET (0 .. j_next' - 1)
        /\ j_active' \in Nat /\ j_active' <= Parallel /\ j_finished' + j_active' = j_next'
        /\ \A h \in 0 .. j_next' - 1 : h = j_next \/ h \in 0 .. j_next - 1
        /\ \A h \in 0 .. j_next - 1 : h \in J!Jobs /\ h # j_next
    BY <1>1, <2>1 DEF J!Jobs
  <2>3. Cardinality(j_pid') = j_active'
    <3>1. Cardinality(j_pid \cup {j_next}) = Cardinality(j_pid) + 1
      <4>1. j_next \in Nat /\ j_pid \in SUBSET (0 .. j_next - 1) /\ j_next \notin j_pid
        BY <1>1, <2>2, Zenon
      <4> QED BY <4>1, Zenon DEF JobSetsCount
    <3> QED BY <1>1, <2>1, <3>1, Zenon
  <2>4. /\ j_proc' \in [J!Jobs -> {"none", "run", "stopped", "dying", "zero", "nonzero"}]
        /\ \A h \in J!Jobs \ {j_next} : j_proc'[h] = j_proc[h]
    BY <1>0, <2>1, <2>2, Zenon DEF JobTypes
  <2>5. JobTypes'
    <3>1. \A h \in J!Jobs : h \notin j_pid' => j_proc'[h] \notin J!Alive
      BY <1>0, <2>1, <2>4, Zenon DEF JobTypes
    <3> QED BY <1>0, <1>2, <2>1, <2>2, <2>4, <3>1, Zenon DEF JobTypes
  <2>6. JobOutcomes'
    BY <1>0, <2>1, <2>2, <2>4, Zenon DEF JobOutcomes
  <2> QED BY <1>2, <2>2, <2>3, <2>5, <2>6, LoopEnds, Zenon
<1> QED BY <1>3, <1>5, <1>6, <1>7, Zenon

\* Every step of jobq keeps the invariant.
LEMMA JobStep == ASSUME JobSetsCount, JobInv, [J!Next]_(J!vars) PROVE JobInv'
<1>1. CASE UNCHANGED J!vars
  BY <1>1, Zenon DEF J!vars, J!loopVars, JobInv, JobTypes, JobCounts, JobOutcomes
<1> QED BY <1>1, WorldInv, ScanInv, AdmitInv, Zenon DEF J!Next, J!main

\* What the invariant says of the queue.
LEMMA JobMeans == ASSUME JobSetsCount, JobInv PROVE JobsAccounted
<1>0. JobTypes /\ JobCounts /\ JobOutcomes
  BY Zenon DEF JobInv
<1>1. /\ JobCount \in Nat /\ j_next \in 0 .. JobCount /\ j_finished \in Nat /\ j_active \in Nat
      /\ j_pid \in SUBSET (0 .. j_next - 1)
  BY <1>0, BoardAssumption, Zenon DEF JobTypes
<1>2. J!JobsAccounted
  <2>1. /\ j_active = Cardinality(j_pid) /\ j_active <= Parallel /\ j_finished + j_active = j_next
    BY <1>0, Zenon DEF JobCounts
  <2>2. j_finished + j_active + (JobCount - j_next) = JobCount
    BY <1>1, <2>1
  <2> QED BY <2>1, <2>2, SameCount, Zenon DEF J!JobsAccounted
<1>3. j_pc = "return" => j_pid = {} /\ j_next = JobCount
  <2>1. Cardinality(j_pid) = 0 => j_pid = {}
    <3>1. j_next \in Nat
      BY <1>1
    <3> QED BY <1>1, <3>1, Zenon DEF JobSetsCount
  <2>2. j_pc = "return" => j_active = 0 /\ j_next = JobCount
    BY <1>0, <1>1 DEF JobCounts
  <2> QED BY <1>0, <2>1, <2>2, Zenon DEF JobCounts
<1>4. J!NoJobLeft
  BY <1>0, <1>3, Zenon DEF J!NoJobLeft, JobTypes
<1>5. J!ZeroMeansAllRan
  BY <1>0, <1>3, Zenon DEF J!ZeroMeansAllRan, JobOutcomes, J!Jobs
<1> QED BY <1>2, <1>4, <1>5, Zenon DEF JobsAccounted

-----------------------------------------------------------------------------
(* The services of mmu-run *)

\* What a table names.
Named(f, X) == {f[h] : h \in X} \ {None}
\* What the table of files names, and that of blocks.
FilesHeld == Named(s_files, S!Handles)
BlocksHeld == Named(s_blocks, S!Blocks)

\* It names nothing twice.
Apart(f, X) == \A g, h \in X : f[g] = f[h] /\ f[g] # None => g = h

\* Signals reach only the program itself; what is left in the end.
SignalInv ==
    /\ s_pc \in {"armed", "payload", "returned", "caught", "cleanup", "done",
                 "open", "close", "alloc", "free"}
    /\ s_blocked \in BOOLEAN
    /\ ~s_blocked <=> s_pc = "payload"
    /\ s_pc = "payload" => s_in_payload = TRUE
    /\ s_pc \in {"open", "close", "alloc", "free"} => s_in_payload = TRUE
    /\ s_pc = "done" => s_open = {} /\ s_allocated = {}

\* Every open descriptor has its handle, but for the one being opened or
\* closed.
FileInv ==
    /\ s_files \in [S!Handles -> Fds \cup {None}]
    /\ Apart(s_files, S!Handles)
    /\ s_pc \notin {"open", "close"} => s_open = FilesHeld
    /\ s_pc = "open" => /\ s_slot \in S!Handles /\ s_files[s_slot] = None
                        /\ s_arg \in Fds \ FilesHeld /\ s_open = FilesHeld \cup {s_arg}
    /\ s_pc = "close" => /\ s_slot \in S!Handles
                         /\ s_open = FilesHeld \ {s_files[s_slot]}

\* Every allocation has its block, but for the one being freed.
BlockInv ==
    /\ s_blocks \in [S!Blocks -> Pointers \cup {None}]
    /\ Apart(s_blocks, S!Blocks)
    /\ s_pc # "free" => s_allocated = BlocksHeld
    /\ s_pc = "free" => /\ s_slot \in S!Blocks /\ s_blocks[s_slot] # None
                        /\ s_allocated = BlocksHeld \ {s_blocks[s_slot]}

\* The sizes, and the bytes they add up to.
HeapInv ==
    /\ s_size \in [S!Blocks -> 0 .. HEAP_LIMIT]
    /\ s_heap_used \in 0 .. HEAP_LIMIT /\ s_heap_used = Cardinality(S!Held)
    /\ \A b \in S!Blocks : (s_pc = "alloc" /\ b = s_slot) \/ (s_size[b] = 0 <=> s_blocks[b] = None)
    /\ s_pc = "alloc" => /\ s_slot \in S!Blocks /\ s_blocks[s_slot] # None
                         /\ s_size[s_slot] = 0
                         /\ s_arg \in Nat \ {0} /\ s_arg + s_heap_used <= HEAP_LIMIT

\* The invariant of the services.
ServiceInv == SignalInv /\ FileInv /\ BlockInv /\ HeapInv

\* The bytes of blocks of sizes z.
HeldBy(z) == {w \in S!Blocks \X (1 .. HEAP_LIMIT) : w[2] <= z[w[1]]}

\* Counting bytes: a block of n bytes in a free place adds n bytes.  What the
\* steps need of it; BlockBytes shows it.
BytesCount ==
    /\ Cardinality({}) = 0
    /\ \A z \in [S!Blocks -> 0 .. HEAP_LIMIT], b \in S!Blocks, n \in 0 .. HEAP_LIMIT :
         z[b] = 0 => /\ Cardinality(HeldBy(z)) \in Nat
                     /\ Cardinality(HeldBy([z EXCEPT ![b] = n])) = Cardinality(HeldBy(z)) + n

\* What it names once entry x is set to v.
NamedThen(f, X, x, v) == (Named(f, X) \ {f[x]}) \cup ({v} \ {None})

\* g is the table f over X with entry x set to v, which f does not name.
EntrySetTo(f, X, V, x, v, g) ==
    /\ f \in [X -> V \cup {None}] /\ Apart(f, X)
    /\ x \in X /\ v \in V \cup {None} /\ v \notin Named(f, X)
    /\ g = [f EXCEPT ![x] = v]

\* g is a table over X that names what f named, but for entry x, and v.
NamesThen(f, X, V, x, v, g) ==
    /\ g \in [X -> V \cup {None}] /\ Apart(g, X)
    /\ Named(g, X) = NamedThen(f, X, x, v)

\* What setting an entry of a table does to what it names.
LEMMA EntrySet ==
    ASSUME NEW X, NEW V, NEW f, NEW x, NEW v, NEW g, EntrySetTo(f, X, V, x, v, g)
    PROVE  NamesThen(f, X, V, x, v, g)
<1>0. /\ f \in [X -> V \cup {None}] /\ Apart(f, X)
      /\ x \in X /\ v \in V \cup {None} /\ v \notin Named(f, X)
      /\ g = [f EXCEPT ![x] = v]
  BY Zenon DEF EntrySetTo
<1>1. g \in [X -> V \cup {None}] /\ g[x] = v /\ \A h \in X \ {x} : g[h] = f[h]
  BY <1>0
<1>2. \A h \in X : f[h] # None => f[h] \in Named(f, X)
  BY Zenon DEF Named
<1>3. Apart(g, X)
  <2> SUFFICES ASSUME NEW a \in X, NEW b \in X, g[a] = g[b], g[a] # None PROVE a = b
    BY Zenon DEF Apart
  <2>1. CASE a # x /\ b # x
    BY <1>0, <1>1, <2>1, Zenon DEF Apart
  <2>2. CASE a = x \/ b = x
    <3>1. \A h \in X \ {x} : g[h] # None => g[h] # v
      BY <1>0, <1>1, <1>2, Zenon
    <3>2. CASE a = x
      BY <1>0, <1>1, <3>1, <3>2, Zenon
    <3>3. CASE b = x
      BY <1>0, <1>1, <3>1, <3>3, Zenon
    <3> QED BY <2>2, <3>2, <3>3, Zenon
  <2> QED BY <2>1, <2>2, Zenon
<1>4. ASSUME NEW w PROVE w \in Named(g, X) <=> w \in NamedThen(f, X, x, v)
  <2>1. ASSUME w \in Named(g, X) PROVE w \in NamedThen(f, X, x, v)
    <3>1. PICK h \in X : w = g[h] /\ w # None
      BY <2>1, Zenon DEF Named
    <3>2. CASE h = x
      BY <1>0, <1>1, <3>1, <3>2, Zenon DEF NamedThen
    <3>3. CASE h # x
      <4>1. w = f[h] /\ f[h] # None
        BY <1>0, <1>1, <3>1, <3>3, Zenon
      <4>2. f[h] # f[x]
        BY <1>0, <3>1, <3>3, <4>1, Zenon DEF Apart
      <4> QED BY <1>2, <3>1, <4>1, <4>2, Zenon DEF NamedThen
    <3> QED BY <3>2, <3>3, Zenon
  <2>2. ASSUME w \in NamedThen(f, X, x, v) PROVE w \in Named(g, X)
    <3>1. CASE w \in Named(f, X) \ {f[x]}
      <4>1. PICK h \in X : w = f[h] /\ w # None
        BY <3>1, Zenon DEF Named
      <4>2. h # x
        BY <3>1, <4>1, Zenon
      <4> QED BY <1>0, <1>1, <4>1, <4>2, Zenon DEF Named
    <3>2. CASE w \in {v} \ {None}
      BY <1>0, <1>1, <3>2, Zenon DEF Named
    <3> QED BY <2>2, <3>1, <3>2, Zenon DEF NamedThen
  <2> QED BY <2>1, <2>2, Zenon
<1>5. Named(g, X) = NamedThen(f, X, x, v)
  BY <1>4, Zenon
<1> QED BY <1>1, <1>3, <1>5, Zenon DEF NamesThen

\* The invariant holds as the launcher calls the program.
LEMMA ServiceInit == ASSUME BytesCount, S!Init PROVE ServiceInv
<1>1. /\ s_pc = "armed" /\ s_blocked = TRUE
      /\ s_files = [h \in S!Handles |-> None] /\ s_open = {}
      /\ s_blocks = [b \in S!Blocks |-> None] /\ s_allocated = {}
      /\ s_size = [b \in S!Blocks |-> 0] /\ s_heap_used = 0
  BY Zenon DEF S!Init
<1>2. SignalInv
  BY <1>1 DEF SignalInv
<1>3. FilesHeld = {} /\ BlocksHeld = {}
  BY <1>1, Zenon DEF FilesHeld, BlocksHeld, Named
<1>4. FileInv /\ BlockInv
  BY <1>1, <1>3 DEF FileInv, BlockInv, Apart
<1>5. S!Held = {} /\ 0 \in 0 .. HEAP_LIMIT
  BY <1>1, BoardAssumption DEF S!Held
<1>6. HeapInv
  <2>1. Cardinality({}) = 0
    BY Zenon DEF BytesCount
  <2>2. "armed" # "alloc"
    OBVIOUS
  <2> QED BY <1>1, <1>5, <2>1, <2>2, Zenon DEF HeapInv
<1> QED BY <1>2, <1>4, <1>6, Zenon DEF ServiceInv

\* A step that touches none of this.
LEMMA ServiceFrame ==
    ASSUME ServiceInv,
           UNCHANGED <<s_pc, s_blocked, s_in_payload, s_files, s_open, s_blocks, s_size, s_allocated,
                       s_heap_used, s_arg, s_slot>>
    PROVE  ServiceInv'
<1>1. SignalInv'
  BY Zenon DEF ServiceInv, SignalInv
<1>2. FileInv'
  BY Zenon DEF ServiceInv, FileInv, FilesHeld
<1>3. BlockInv'
  BY Zenon DEF ServiceInv, BlockInv, BlocksHeld
<1>4. HeapInv'
  BY Zenon DEF ServiceInv, HeapInv, S!Held
<1> QED BY <1>1, <1>2, <1>3, <1>4, Zenon DEF ServiceInv

\* Parts of the tables that a step leaves alone.
LEMMA TablesKept ==
    ASSUME ServiceInv
    PROVE  /\ (UNCHANGED <<s_files, s_open>> /\ s_pc \notin {"open", "close"}
                 /\ s_pc' \notin {"open", "close"}) => FileInv'
           /\ (UNCHANGED <<s_blocks, s_allocated>> /\ s_pc # "free" /\ s_pc' # "free") => BlockInv'
           /\ (UNCHANGED <<s_blocks, s_size, s_heap_used>> /\ s_pc # "alloc" /\ s_pc' # "alloc")
                => HeapInv'
<1>1. (UNCHANGED <<s_files, s_open>> /\ s_pc \notin {"open", "close"}
        /\ s_pc' \notin {"open", "close"}) => FileInv'
  BY Zenon DEF ServiceInv, FileInv, FilesHeld
<1>2. (UNCHANGED <<s_blocks, s_allocated>> /\ s_pc # "free" /\ s_pc' # "free") => BlockInv'
  BY Zenon DEF ServiceInv, BlockInv, BlocksHeld
<1>3. (UNCHANGED <<s_blocks, s_size, s_heap_used>> /\ s_pc # "alloc" /\ s_pc' # "alloc") => HeapInv'
  BY Zenon DEF ServiceInv, HeapInv, S!Held
<1> QED BY <1>1, <1>2, <1>3, Zenon

\* Signals, and the program's call and return.
LEMMA SignalsInv ==
    ASSUME ServiceInv,
           \/ S!Signal \/ S!Deliver \/ S!invoke \/ S!invoke_Return \/ S!invoke_End \/ S!Unmap
    PROVE  ServiceInv'
<1>1. CASE S!Signal \/ S!Unmap
  BY <1>1, ServiceFrame, Zenon DEF S!Signal, S!Unmap, S!fileVars, S!heapVars
<1>2. CASE S!Deliver \/ S!invoke \/ S!invoke_Return \/ S!invoke_End
  <2>1. UNCHANGED <<s_files, s_open, s_blocks, s_size, s_allocated, s_heap_used>>
    BY <1>2, Zenon DEF S!Deliver, S!invoke, S!invoke_Return, S!invoke_End, S!fileVars, S!heapVars
  <2>2. /\ s_pc \in {"armed", "payload", "returned", "caught"}
        /\ s_pc' \in {"armed", "payload", "returned", "caught", "cleanup"} /\ SignalInv'
    <3>1. CASE S!Deliver
      <4>1. ~s_blocked /\ s_pc = "payload" /\ s_in_payload
        BY <3>1, Zenon DEF S!Deliver, ServiceInv, SignalInv
      <4>2. s_pc' = "caught" /\ s_blocked' = TRUE
        BY <3>1, <4>1, Zenon DEF S!Deliver
      <4> QED BY <4>1, <4>2 DEF SignalInv
    <3>2. CASE S!invoke
      BY <3>2, Zenon DEF S!invoke, SignalInv
    <3>3. CASE S!invoke_Return
      BY <3>3 DEF S!invoke_Return, SignalInv
    <3>4. CASE S!invoke_End
      BY <3>4 DEF S!invoke_End, SignalInv
    <3> QED BY <1>2, <3>1, <3>2, <3>3, <3>4, Zenon
  <2>3. s_pc \notin {"open", "close", "alloc", "free"} /\ s_pc' \notin {"open", "close", "alloc", "free"}
    BY <2>2
  <2> QED BY <2>1, <2>2, <2>3, TablesKept, Zenon DEF ServiceInv
<1> QED BY <1>1, <1>2, Zenon

\* A service starts, with the signals blocked, and returns.
LEMMA HostCall ==
    ASSUME ServiceInv, s_pc = "payload", NEW at \in {"open", "close", "alloc", "free"}, NEW a, NEW n,
           S!host_call(at, a, n), UNCHANGED s_in_payload
    PROVE  SignalInv' /\ s_pc' = at /\ s_arg' = a /\ s_slot' = n
<1>1. s_pc' = at /\ s_arg' = a /\ s_slot' = n /\ s_blocked' = TRUE
  BY Zenon DEF S!host_call
<1>2. s_in_payload' = TRUE
  BY Zenon DEF ServiceInv, SignalInv
<1> QED BY <1>1, <1>2 DEF SignalInv

\* It returns to the program, with the signals let in.
LEMMA HostReturn ==
    ASSUME ServiceInv, s_pc \in {"open", "close", "alloc", "free"}, S!host_return,
           UNCHANGED s_in_payload
    PROVE  SignalInv' /\ s_pc' = "payload"
<1>1. s_pc' = "payload" /\ s_blocked' = FALSE
  BY Zenon DEF S!host_return
<1>2. s_in_payload' = TRUE
  BY Zenon DEF ServiceInv, SignalInv
<1> QED BY <1>1, <1>2, Zenon DEF SignalInv

\* MMU_OPEN and MMU_CLOSE.
LEMMA FileServices ==
    ASSUME ServiceInv, S!OpenStart \/ S!OpenEnd \/ S!CloseStart \/ S!CloseEnd PROVE ServiceInv'
<1>0. SignalInv /\ FileInv /\ BlockInv /\ HeapInv
  BY Zenon DEF ServiceInv
<1>1. UNCHANGED <<s_in_payload, s_blocks, s_size, s_allocated, s_heap_used>>
  BY Zenon DEF S!OpenStart, S!OpenEnd, S!CloseStart, S!CloseEnd, S!heapVars
<1>2. ASSUME s_pc \notin {"alloc", "free"}, s_pc' \notin {"alloc", "free"}, FileInv', SignalInv'
      PROVE  ServiceInv'
  BY <1>1, <1>2, TablesKept, Zenon DEF ServiceInv
<1>3. s_files \in [S!Handles -> Fds \cup {None}] /\ Apart(s_files, S!Handles) /\ None \notin Fds
  BY <1>0, BoardAssumption, Zenon DEF FileInv
<1>4. \A h \in S!Handles : s_files[h] # None => s_files[h] \in FilesHeld
  BY Zenon DEF FilesHeld, Named
<1>5. None \notin FilesHeld
  BY Zenon DEF FilesHeld, Named
<1>6. CASE S!OpenStart
  <2>1. PICK h \in S!Handles, fd \in Fds \ s_open :
          s_files[h] = None /\ s_open' = s_open \cup {fd} /\ S!host_call("open", fd, h)
    BY <1>6, Zenon DEF S!OpenStart
  <2>2. s_pc = "payload" /\ UNCHANGED s_files
    BY <1>6, Zenon DEF S!OpenStart
  <2>3. SignalInv' /\ s_pc' = "open" /\ s_arg' = fd /\ s_slot' = h
    BY <1>1, <2>1, <2>2, HostCall, Zenon
  <2>4. s_open = FilesHeld
    BY <1>0, <2>2 DEF FileInv
  <2>5. FilesHeld' = FilesHeld
    BY <2>2, Zenon DEF FilesHeld
  <2>6. FileInv'
    BY <1>3, <2>1, <2>2, <2>3, <2>4, <2>5 DEF FileInv
  <2>7. s_pc \notin {"alloc", "free"} /\ s_pc' \notin {"alloc", "free"}
    BY <2>2, <2>3
  <2> QED BY <1>2, <2>3, <2>6, <2>7, Zenon
<1>7. CASE S!CloseStart
  <2>1. PICK h \in S!Handles :
          s_files[h] # None /\ s_open' = s_open \ {s_files[h]} /\ S!host_call("close", None, h)
    BY <1>7, Zenon DEF S!CloseStart
  <2>2. s_pc = "payload" /\ UNCHANGED s_files
    BY <1>7, Zenon DEF S!CloseStart
  <2>3. SignalInv' /\ s_pc' = "close" /\ s_slot' = h
    BY <1>1, <2>1, <2>2, HostCall, Zenon
  <2>4. s_open = FilesHeld
    BY <1>0, <2>2 DEF FileInv
  <2>5. FilesHeld' = FilesHeld
    BY <2>2, Zenon DEF FilesHeld
  <2>6. FileInv'
    BY <1>3, <2>1, <2>2, <2>3, <2>4, <2>5 DEF FileInv
  <2>7. s_pc \notin {"alloc", "free"} /\ s_pc' \notin {"alloc", "free"}
    BY <2>2, <2>3
  <2> QED BY <1>2, <2>3, <2>6, <2>7, Zenon
<1>8. CASE S!OpenEnd \/ S!CloseEnd
  <2>1. s_pc \in {"open", "close"} /\ S!host_return
    BY <1>8, Zenon DEF S!OpenEnd, S!CloseEnd
  <2>2. SignalInv' /\ s_pc' = "payload"
    BY <1>1, <2>1, HostReturn, Zenon
  <2>3. s_pc \notin {"alloc", "free"} /\ s_pc' \notin {"open", "close", "alloc", "free"}
    BY <2>1, <2>2
  <2>a. s_pc' # "open" /\ s_pc' # "close"
    BY <2>2
  <2>4. \A v \in Fds \cup {None} :
          (/\ v \notin FilesHeld /\ s_slot \in S!Handles /\ s_files' = [s_files EXCEPT ![s_slot] = v]
           /\ s_open' = NamedThen(s_files, S!Handles, s_slot, v))
          => FileInv'
    <3> SUFFICES ASSUME NEW v \in Fds \cup {None}, v \notin FilesHeld, s_slot \in S!Handles,
                        s_files' = [s_files EXCEPT ![s_slot] = v],
                        s_open' = NamedThen(s_files, S!Handles, s_slot, v)
                 PROVE  FileInv'
      BY Zenon
    <3>1. /\ s_files' \in [S!Handles -> Fds \cup {None}] /\ Apart(s_files', S!Handles)
          /\ Named(s_files', S!Handles) = s_open'
      <4>1. v \notin Named(s_files, S!Handles)
        BY Zenon DEF FilesHeld
      <4>2. /\ s_files' \in [S!Handles -> Fds \cup {None}] /\ Apart(s_files', S!Handles)
            /\ Named(s_files', S!Handles) = NamedThen(s_files, S!Handles, s_slot, v)
        <5>1. s_files \in [S!Handles -> Fds \cup {None}] /\ Apart(s_files, S!Handles)
          BY <1>3, Zenon
        <5>2. s_slot \in S!Handles /\ v \in Fds \cup {None}
              /\ s_files' = [s_files EXCEPT ![s_slot] = v]
          OBVIOUS
        <5>3. EntrySetTo(s_files, S!Handles, Fds, s_slot, v, s_files')
          BY <4>1, <5>1, <5>2, Zenon DEF EntrySetTo
        <5>4. NamesThen(s_files, S!Handles, Fds, s_slot, v, s_files')
          BY <5>3, EntrySet, Zenon
        <5> QED BY <5>4, Zenon DEF NamesThen
      <4> QED BY <4>2, Zenon
    <3> QED BY <2>a, <3>1, Zenon DEF FileInv, FilesHeld
  <2>5. ASSUME S!OpenEnd PROVE FileInv'
    <3>1. /\ s_slot \in S!Handles /\ s_files[s_slot] = None
          /\ s_arg \in Fds \ FilesHeld /\ s_open = FilesHeld \cup {s_arg}
      BY <1>0, <2>5, Zenon DEF FileInv, S!OpenEnd
    <3>2. CASE s_files' = [s_files EXCEPT ![s_slot] = s_arg] /\ UNCHANGED s_open
      <4>1. s_open' = NamedThen(s_files, S!Handles, s_slot, s_arg)
        BY <1>3, <1>5, <3>1, <3>2, Zenon DEF FilesHeld, NamedThen
      <4>2. s_arg \in Fds \cup {None} /\ s_arg \notin FilesHeld /\ s_slot \in S!Handles
        BY <3>1, Zenon
      <4>3. s_files' = [s_files EXCEPT ![s_slot] = s_arg]
        BY <3>2, Zenon
      <4> QED BY <2>4, <4>1, <4>2, <4>3, Zenon
    <3>3. CASE s_open' = s_open \ {s_arg} /\ UNCHANGED s_files
      <4>1. s_open' = FilesHeld /\ FilesHeld' = FilesHeld
        BY <3>1, <3>3, Zenon DEF FilesHeld
      <4> QED BY <1>3, <2>a, <3>3, <4>1, Zenon DEF FileInv
    <3> QED BY <2>5, <3>2, <3>3, Zenon DEF S!OpenEnd
  <2>6. ASSUME S!CloseEnd PROVE FileInv'
    <3>1. s_slot \in S!Handles /\ s_open = FilesHeld \ {s_files[s_slot]}
      BY <1>0, <2>6, Zenon DEF FileInv, S!CloseEnd
    <3>2. s_files' = [s_files EXCEPT ![s_slot] = None] /\ UNCHANGED s_open
      BY <2>6, Zenon DEF S!CloseEnd
    <3>3. s_open' = NamedThen(s_files, S!Handles, s_slot, None)
      BY <3>1, <3>2, Zenon DEF FilesHeld, NamedThen
    <3>4. None \in Fds \cup {None}
      BY Zenon
    <3> QED BY <1>5, <2>4, <3>1, <3>2, <3>3, <3>4, Zenon
  <2> QED BY <1>2, <1>8, <2>2, <2>3, <2>5, <2>6, Zenon
<1> QED BY <1>6, <1>7, <1>8, Zenon

\* An entry of the table of blocks is set.
LEMMA BlockSet ==
    ASSUME ServiceInv, NEW b \in S!Blocks, NEW x \in Pointers \cup {None}, x \notin BlocksHeld,
           s_blocks' = [s_blocks EXCEPT ![b] = x]
    PROVE  /\ s_blocks' \in [S!Blocks -> Pointers \cup {None}] /\ Apart(s_blocks', S!Blocks)
           /\ BlocksHeld' = NamedThen(s_blocks, S!Blocks, b, x)
           /\ s_blocks'[b] = x /\ \A c \in S!Blocks \ {b} : s_blocks'[c] = s_blocks[c]
<1>1. s_blocks \in [S!Blocks -> Pointers \cup {None}] /\ Apart(s_blocks, S!Blocks)
  BY Zenon DEF ServiceInv, BlockInv
<1>2. x \notin Named(s_blocks, S!Blocks)
  BY Zenon DEF BlocksHeld
<1>3. EntrySetTo(s_blocks, S!Blocks, Pointers, b, x, s_blocks')
  BY <1>1, <1>2, Zenon DEF EntrySetTo
<1>4. NamesThen(s_blocks, S!Blocks, Pointers, b, x, s_blocks')
  BY <1>3, EntrySet, Zenon
<1>5. s_blocks'[b] = x /\ \A c \in S!Blocks \ {b} : s_blocks'[c] = s_blocks[c]
  BY <1>1
<1> QED BY <1>4, <1>5, Zenon DEF NamesThen, BlocksHeld

\* MMU_ALLOC and MMU_FREE.
LEMMA HeapServices ==
    ASSUME BytesCount, ServiceInv, S!AllocStart \/ S!AllocEnd \/ S!FreeStart \/ S!FreeEnd PROVE ServiceInv'
<1>0. SignalInv /\ FileInv /\ BlockInv /\ HeapInv
  BY Zenon DEF ServiceInv
<1>1. UNCHANGED <<s_in_payload, s_files, s_open>>
  BY Zenon DEF S!AllocStart, S!AllocEnd, S!FreeStart, S!FreeEnd, S!fileVars
<1>2. ASSUME s_pc \notin {"open", "close"}, s_pc' \notin {"open", "close"}, BlockInv', HeapInv',
             SignalInv'
      PROVE  ServiceInv'
  BY <1>1, <1>2, TablesKept, Zenon DEF ServiceInv
<1>3. None \notin Pointers /\ Sizes \subseteq Nat /\ HEAP_LIMIT \in Nat
  BY BoardAssumption, Zenon
<1>4. None \notin BlocksHeld
  BY Zenon DEF BlocksHeld, Named
<1>5. /\ s_size \in [S!Blocks -> 0 .. HEAP_LIMIT] /\ s_heap_used \in 0 .. HEAP_LIMIT
      /\ s_heap_used = Cardinality(HeldBy(s_size))
  BY <1>0, Zenon DEF HeapInv, HeldBy, S!Held
<1>6. CASE S!AllocStart
  <2>1. PICK n \in Sizes, b \in S!Blocks, x \in Pointers \ s_allocated :
          /\ S!HeapRoom(n) /\ s_blocks[b] = None /\ s_allocated' = s_allocated \cup {x}
          /\ s_blocks' = [s_blocks EXCEPT ![b] = x] /\ S!host_call("alloc", n, b)
    BY <1>6, Zenon DEF S!AllocStart
  <2>2. s_pc = "payload" /\ UNCHANGED <<s_size, s_heap_used>>
    BY <1>6, Zenon DEF S!AllocStart
  <2>3. SignalInv' /\ s_pc' = "alloc" /\ s_slot' = b /\ s_arg' = n
    BY <1>1, <2>1, <2>2, HostCall, Zenon
  <2>4. s_allocated = BlocksHeld
    BY <1>0, <2>2 DEF BlockInv
  <2>5. /\ s_blocks' \in [S!Blocks -> Pointers \cup {None}] /\ Apart(s_blocks', S!Blocks)
        /\ BlocksHeld' = NamedThen(s_blocks, S!Blocks, b, x)
        /\ s_blocks'[b] = x /\ \A c \in S!Blocks \ {b} : s_blocks'[c] = s_blocks[c]
    BY <2>1, <2>4, BlockSet, Zenon
  <2>6. NamedThen(s_blocks, S!Blocks, b, x) = s_allocated'
    BY <1>3, <1>4, <2>1, <2>4, Zenon DEF NamedThen, BlocksHeld
  <2>7. BlockInv'
    BY <2>3, <2>5, <2>6 DEF BlockInv
  <2>8. n \in Nat \ {0} /\ n + s_heap_used <= HEAP_LIMIT
    BY <1>3, <1>5, <2>1 DEF S!HeapRoom
  <2>9. s_size[b] = 0
    BY <1>0, <2>1, <2>2 DEF HeapInv
  <2>10. S!Held' = S!Held
    BY <2>2, Zenon DEF S!Held
  <2>11. \A c \in S!Blocks : c = b \/ (s_size'[c] = 0 <=> s_blocks'[c] = None)
    BY <1>0, <2>2, <2>5 DEF HeapInv
  <2>12. x # None
    BY <1>3, Zenon
  <2>13. HeapInv'
    BY <1>0, <2>1, <2>2, <2>3, <2>5, <2>8, <2>9, <2>10, <2>11, <2>12, Zenon DEF HeapInv
  <2>14. s_pc \notin {"open", "close"} /\ s_pc' \notin {"open", "close"}
    BY <2>2, <2>3
  <2> QED BY <1>2, <2>3, <2>7, <2>13, <2>14, Zenon
<1>7. CASE S!AllocEnd
  <2>1. /\ s_pc = "alloc" /\ s_size' = [s_size EXCEPT ![s_slot] = s_arg]
        /\ s_heap_used' = s_heap_used + s_arg /\ S!host_return /\ UNCHANGED <<s_blocks, s_allocated>>
    BY <1>7, Zenon DEF S!AllocEnd
  <2>2. SignalInv' /\ s_pc' = "payload"
    BY <1>1, <2>1, HostReturn, Zenon
  <2>3. s_pc \notin {"open", "close", "free"} /\ s_pc' \notin {"open", "close", "free", "alloc"}
    BY <2>1, <2>2
  <2>4. BlockInv'
    BY <2>1, <2>3, TablesKept, Zenon
  <2>5. /\ s_slot \in S!Blocks /\ s_blocks[s_slot] # None /\ s_size[s_slot] = 0
        /\ s_arg \in Nat \ {0} /\ s_arg + s_heap_used <= HEAP_LIMIT
    BY <1>0, <2>1, Zenon DEF HeapInv
  <2>6. s_arg \in 0 .. HEAP_LIMIT /\ s_arg # 0 /\ s_heap_used' \in 0 .. HEAP_LIMIT
    BY <1>3, <1>5, <2>1, <2>5
  <2>7. Cardinality(HeldBy(s_size')) = Cardinality(HeldBy(s_size)) + s_arg
    BY <1>5, <2>1, <2>5, <2>6, Zenon DEF BytesCount
  <2>8. S!Held' = HeldBy(s_size')
    BY Zenon DEF S!Held, HeldBy
  <2>9. /\ s_size' \in [S!Blocks -> 0 .. HEAP_LIMIT] /\ s_size'[s_slot] = s_arg
        /\ \A c \in S!Blocks \ {s_slot} : s_size'[c] = s_size[c]
    BY <1>5, <2>1, <2>5, <2>6
  <2>10. \A c \in S!Blocks : s_size'[c] = 0 <=> s_blocks'[c] = None
    BY <1>0, <2>1, <2>5, <2>9 DEF HeapInv
  <2>11. HeapInv'
    BY <1>5, <2>1, <2>3, <2>6, <2>7, <2>8, <2>9, <2>10, Zenon DEF HeapInv
  <2>12. s_pc \notin {"open", "close"} /\ s_pc' \notin {"open", "close"}
    BY <2>3, Zenon
  <2> QED BY <1>2, <2>2, <2>4, <2>11, <2>12, Zenon
<1>8. CASE S!FreeStart
  <2>1. PICK b \in S!Blocks :
          /\ s_blocks[b] # None /\ s_allocated' = s_allocated \ {s_blocks[b]}
          /\ S!host_call("free", None, b)
    BY <1>8, Zenon DEF S!FreeStart
  <2>2. s_pc = "payload" /\ UNCHANGED <<s_blocks, s_size, s_heap_used>>
    BY <1>8, Zenon DEF S!FreeStart
  <2>3. SignalInv' /\ s_pc' = "free" /\ s_slot' = b
    BY <1>1, <2>1, <2>2, HostCall, Zenon
  <2>4. s_allocated = BlocksHeld /\ BlocksHeld' = BlocksHeld
    BY <1>0, <2>2 DEF BlockInv, BlocksHeld
  <2>5. BlockInv'
    BY <1>0, <2>1, <2>2, <2>3, <2>4 DEF BlockInv
  <2>6. s_pc \notin {"open", "close", "alloc"} /\ s_pc' \notin {"open", "close", "alloc"}
    BY <2>2, <2>3
  <2>7. HeapInv'
    BY <2>2, <2>6, TablesKept, Zenon
  <2>8. s_pc \notin {"open", "close"} /\ s_pc' \notin {"open", "close"}
    BY <2>6, Zenon
  <2> QED BY <1>2, <2>3, <2>5, <2>7, <2>8, Zenon
<1>9. CASE S!FreeEnd
  <2>1. /\ s_pc = "free" /\ s_blocks' = [s_blocks EXCEPT ![s_slot] = None]
        /\ s_heap_used' = s_heap_used - s_size[s_slot] /\ s_size' = [s_size EXCEPT ![s_slot] = 0]
        /\ S!host_return /\ UNCHANGED s_allocated
    BY <1>9, Zenon DEF S!FreeEnd
  <2>2. SignalInv' /\ s_pc' = "payload"
    BY <1>1, <2>1, HostReturn, Zenon
  <2>3. /\ s_slot \in S!Blocks /\ s_blocks[s_slot] # None
        /\ s_allocated = BlocksHeld \ {s_blocks[s_slot]}
    BY <1>0, <2>1, Zenon DEF BlockInv
  <2>4. None \in Pointers \cup {None}
    BY Zenon
  <2>5. /\ s_blocks' \in [S!Blocks -> Pointers \cup {None}] /\ Apart(s_blocks', S!Blocks)
        /\ BlocksHeld' = NamedThen(s_blocks, S!Blocks, s_slot, None)
        /\ s_blocks'[s_slot] = None /\ \A c \in S!Blocks \ {s_slot} : s_blocks'[c] = s_blocks[c]
    BY <1>4, <2>1, <2>3, <2>4, BlockSet, Zenon
  <2>6. NamedThen(s_blocks, S!Blocks, s_slot, None) = s_allocated'
    BY <2>1, <2>3, Zenon DEF NamedThen, BlocksHeld
  <2>7. BlockInv'
    BY <2>2, <2>5, <2>6 DEF BlockInv
  <2>8. /\ s_size' \in [S!Blocks -> 0 .. HEAP_LIMIT] /\ s_size'[s_slot] = 0
        /\ \A c \in S!Blocks \ {s_slot} : s_size'[c] = s_size[c]
        /\ s_size[s_slot] \in 0 .. HEAP_LIMIT
    BY <1>3, <1>5, <2>1, <2>3
  <2>9. s_size = [s_size' EXCEPT ![s_slot] = s_size[s_slot]]
    BY <1>5, <2>1, <2>3, Zenon
  <2>10. PICK z, n : z = s_size' /\ n = s_size[s_slot]
    BY Zenon
  <2>11. /\ Cardinality(HeldBy(z)) \in Nat
         /\ Cardinality(HeldBy([z EXCEPT ![s_slot] = n])) = Cardinality(HeldBy(z)) + n
    BY <2>3, <2>8, <2>10, Zenon DEF BytesCount
  <2>12. s_heap_used = Cardinality(HeldBy(z)) + n
    BY <1>5, <2>9, <2>10, <2>11, Zenon
  <2>13. s_heap_used' = Cardinality(HeldBy(z)) /\ s_heap_used' \in 0 .. HEAP_LIMIT
    <3> DEFINE c == Cardinality(HeldBy(z))
    <3>1. c \in Nat /\ n \in 0 .. HEAP_LIMIT /\ s_heap_used = c + n /\ s_heap_used' = s_heap_used - n
      BY <2>1, <2>8, <2>10, <2>11, <2>12, Zenon
    <3> HIDE DEF c
    <3>2. s_heap_used' = c /\ s_heap_used' \in 0 .. HEAP_LIMIT
      BY <1>3, <1>5, <3>1
    <3> QED BY <3>2, Zenon DEF c
  <2>14. S!Held' = HeldBy(z)
    BY <2>10, Zenon DEF S!Held, HeldBy
  <2>15. s_pc \notin {"open", "close", "alloc"} /\ s_pc' \notin {"open", "close", "free", "alloc"}
    BY <2>1, <2>2
  <2>16. \A c \in S!Blocks : s_size'[c] = 0 <=> s_blocks'[c] = None
    BY <1>0, <2>1, <2>5, <2>8 DEF HeapInv
  <2>17. HeapInv'
    BY <2>8, <2>13, <2>14, <2>15, <2>16, Zenon DEF HeapInv
  <2>18. s_pc \notin {"open", "close"} /\ s_pc' \notin {"open", "close"}
    BY <2>15, Zenon
  <2> QED BY <1>2, <2>2, <2>7, <2>17, <2>18, Zenon
<1> QED BY <1>6, <1>7, <1>8, <1>9, Zenon

\* services_cleanup empties both tables.
LEMMA CleanupInv == ASSUME BytesCount, ServiceInv, S!services_cleanup PROVE ServiceInv'
<1>1. /\ s_pc = "cleanup" /\ s_pc' = "done"
      /\ s_open' = s_open \ {s_files[h] : h \in S!Handles} /\ s_files' = [h \in S!Handles |-> None]
      /\ s_allocated' = s_allocated \ {s_blocks[b] : b \in S!Blocks}
      /\ s_blocks' = [b \in S!Blocks |-> None] /\ s_size' = [b \in S!Blocks |-> 0]
      /\ s_heap_used' = 0 /\ UNCHANGED <<s_blocked, s_in_payload>>
  BY Zenon DEF S!services_cleanup, S!sigVars
<1>3. FilesHeld' = {} /\ BlocksHeld' = {}
  BY <1>1, Zenon DEF FilesHeld, BlocksHeld, Named
<1>4. s_pc \notin {"open", "close"} /\ s_pc # "free"
  BY <1>1
<1>5. s_open = FilesHeld /\ s_allocated = BlocksHeld
  BY <1>4, Zenon DEF ServiceInv, FileInv, BlockInv
<1>6. s_open' = {} /\ s_allocated' = {}
  BY <1>1, <1>5, Zenon DEF FilesHeld, BlocksHeld, Named
<1>2. SignalInv'
  BY <1>1, <1>6 DEF ServiceInv, SignalInv
<1>7. FileInv'
  BY <1>1, <1>3, <1>6 DEF FileInv, Apart
<1>8. BlockInv'
  BY <1>1, <1>3, <1>6 DEF BlockInv, Apart
<1>9. S!Held' = {} /\ 0 \in 0 .. HEAP_LIMIT
  BY <1>1, BoardAssumption DEF S!Held
<1>10. HeapInv'
  <2>1. Cardinality({}) = 0
    BY Zenon DEF BytesCount
  <2>2. s_size' \in [S!Blocks -> 0 .. HEAP_LIMIT]
    BY <1>1, <1>9
  <2>3. \A b \in S!Blocks : s_size'[b] = 0 /\ s_blocks'[b] = None
    BY <1>1
  <2>4. s_pc' # "alloc"
    BY <1>1
  <2> QED BY <1>1, <1>9, <2>1, <2>2, <2>3, <2>4, Zenon DEF HeapInv
<1> QED BY <1>2, <1>7, <1>8, <1>10, Zenon DEF ServiceInv

\* Every step of the services keeps the invariant.
LEMMA ServiceStep == ASSUME BytesCount, ServiceInv, [S!Next]_(S!vars) PROVE ServiceInv'
<1>1. CASE S!Next
  BY <1>1, SignalsInv, FileServices, HeapServices, CleanupInv, Zenon DEF S!Next
<1>2. CASE UNCHANGED S!vars
  BY <1>2, ServiceFrame, Zenon DEF S!vars, S!sigVars, S!fileVars, S!heapVars
<1> QED BY <1>1, <1>2, Zenon

\* What the invariant says when the program runs, was stopped or is cleaned up
\* after, and in the end.
LEMMA ServiceMeans == ServiceInv => NothingLeaks
<1> SUFFICES ASSUME ServiceInv PROVE NothingLeaks
  OBVIOUS
<1>1. S!HeapAccounted
  <2> SUFFICES ASSUME s_pc \in {"payload", "caught", "cleanup"}
               PROVE  /\ s_heap_used = Cardinality(S!Held) /\ s_heap_used <= HEAP_LIMIT
                      /\ s_allocated = {s_blocks[b] : b \in S!Blocks} \ {None}
                      /\ \A b \in S!Blocks : (s_size[b] = 0) <=> (s_blocks[b] = None)
    BY Zenon DEF S!HeapAccounted, S!Cardinality, Cardinality
  <2>1. s_pc # "alloc" /\ s_pc # "free"
    OBVIOUS
  <2>2. s_heap_used = Cardinality(S!Held) /\ s_heap_used \in 0 .. HEAP_LIMIT
    BY Zenon DEF ServiceInv, HeapInv
  <2>3. s_heap_used <= HEAP_LIMIT
    BY <2>2, BoardAssumption
  <2>4. s_allocated = {s_blocks[b] : b \in S!Blocks} \ {None}
    BY <2>1, Zenon DEF ServiceInv, BlockInv, BlocksHeld, Named
  <2>5. \A b \in S!Blocks : (s_size[b] = 0) <=> (s_blocks[b] = None)
    BY <2>1, Zenon DEF ServiceInv, HeapInv
  <2> QED BY <2>2, <2>3, <2>4, <2>5, Zenon
<1>2. S!NeverDiesMapped
  BY DEF ServiceInv, SignalInv, S!NeverDiesMapped
<1>3. S!NothingLeaks
  BY Zenon DEF ServiceInv, SignalInv, S!NothingLeaks
<1> QED BY <1>1, <1>2, <1>3, Zenon DEF NothingLeaks

-----------------------------------------------------------------------------
(* Counting, and the theorems on the queue and the services *)

INSTANCE FiniteSetTheorems

\* A set of jobs is finite, and one job more or less counts for one.
LEMMA JobSet ==
    ASSUME NEW n \in Nat, NEW Q \in SUBSET (0 .. n - 1), NEW x
    PROVE  /\ IsFiniteSet(Q) /\ Cardinality(Q) \in Nat
           /\ Cardinality(Q) = 0 <=> Q = {}
           /\ x \notin Q => Cardinality(Q \cup {x}) = Cardinality(Q) + 1
           /\ x \in Q => Cardinality(Q \ {x}) = Cardinality(Q) - 1
<1>1. IsFiniteSet(0 .. n - 1)
  BY FS_Interval
<1>2. IsFiniteSet(Q)
  BY <1>1, FS_Subset, Zenon
<1>3. Cardinality(Q) \in Nat /\ (Cardinality(Q) = 0 <=> Q = {})
  BY <1>2, FS_CardinalityType, FS_EmptySet, Zenon
<1>4. x \notin Q => Cardinality(Q \cup {x}) = Cardinality(Q) + 1
  BY <1>2, FS_AddElement, Zenon
<1>5. x \in Q => Cardinality(Q \ {x}) = Cardinality(Q) - 1
  BY <1>2, FS_RemoveElement, Zenon
<1> QED BY <1>2, <1>3, <1>4, <1>5, Zenon

\* So jobs are counted.
LEMMA JobSets == JobSetsCount
<1>1. Cardinality({}) = 0
  BY FS_EmptySet, Zenon
<1>2. ASSUME NEW n \in Nat, NEW Q \in SUBSET (0 .. n - 1), NEW x
      PROVE  /\ Cardinality(Q) \in Nat
             /\ Cardinality(Q) = 0 <=> Q = {}
             /\ x \notin Q => Cardinality(Q \cup {x}) = Cardinality(Q) + 1
             /\ x \in Q => Cardinality(Q \ {x}) = Cardinality(Q) - 1
  BY JobSet, ZenonT(30)
<1> QED BY <1>1, <1>2, Zenon DEF JobSetsCount

\* A block of n bytes in a free place adds n bytes.
LEMMA BytesAdded ==
    ASSUME NEW z \in [S!Blocks -> 0 .. HEAP_LIMIT], NEW b \in S!Blocks, z[b] = 0,
           NEW n \in 0 .. HEAP_LIMIT
    PROVE  /\ Cardinality(HeldBy(z)) \in Nat
           /\ Cardinality(HeldBy([z EXCEPT ![b] = n])) = Cardinality(HeldBy(z)) + n
<1> DEFINE D == {b} \X (1 .. n)
<1>1. ALLOCATIONS \in Nat /\ HEAP_LIMIT \in Nat
  BY BoardAssumption, Zenon
<1>2. IsFiniteSet(S!Blocks) /\ IsFiniteSet(1 .. HEAP_LIMIT) /\ IsFiniteSet(1 .. n)
  BY <1>1, FS_Interval DEF S!Blocks
<1>3. IsFiniteSet(S!Blocks \X (1 .. HEAP_LIMIT))
  BY <1>2, FS_Product, Zenon
<1>4. IsFiniteSet(HeldBy(z))
  <2>1. HeldBy(z) \subseteq S!Blocks \X (1 .. HEAP_LIMIT)
    BY DEF HeldBy
  <2> QED BY <1>3, <2>1, FS_Subset, Zenon
<1>5. Cardinality(1 .. n) = n
  BY <1>1, FS_Interval
<1>6. IsFiniteSet({b}) /\ Cardinality({b}) = 1
  BY FS_Singleton, Zenon
<1>7. IsFiniteSet(D) /\ Cardinality(D) = n
  <2>1. IsFiniteSet(D) /\ Cardinality(D) = Cardinality({b}) * Cardinality(1 .. n)
    BY <1>2, <1>6, FS_Product, ZenonT(30)
  <2> QED BY <1>1, <1>5, <1>6, <2>1
<1>8. HeldBy([z EXCEPT ![b] = n]) = HeldBy(z) \cup D
  BY <1>1 DEF HeldBy
<1>9. HeldBy(z) \cap D = {}
  BY <1>1 DEF HeldBy
<1>10. Cardinality({}) = 0
  BY FS_EmptySet, Zenon
<1>11. Cardinality(HeldBy(z) \cup D) = Cardinality(HeldBy(z)) + Cardinality(D) - Cardinality(HeldBy(z) \cap D)
  BY <1>4, <1>7, FS_Union, Zenon
<1>12. Cardinality(HeldBy(z)) \in Nat
  BY <1>4, FS_CardinalityType, Zenon
<1>13. Cardinality(HeldBy([z EXCEPT ![b] = n])) = Cardinality(HeldBy(z)) + n
  <2> DEFINE c == Cardinality(HeldBy(z))
  <2>1. Cardinality(HeldBy([z EXCEPT ![b] = n])) = c + n - 0
    BY <1>7, <1>8, <1>9, <1>10, <1>11, Zenon
  <2>2. c \in Nat /\ n \in Nat
    BY <1>1, <1>12
  <2> HIDE DEF c
  <2>3. c + n - 0 = c + n
    BY <2>2
  <2> QED BY <2>1, <2>3, Zenon DEF c
<1> QED BY <1>12, <1>13, Zenon

\* So bytes are counted.
LEMMA BlockBytes == BytesCount
<1>1. Cardinality({}) = 0
  BY FS_EmptySet, Zenon
<1>2. ASSUME NEW z \in [S!Blocks -> 0 .. HEAP_LIMIT], NEW b \in S!Blocks,
             NEW n \in 0 .. HEAP_LIMIT, z[b] = 0
      PROVE  /\ Cardinality(HeldBy(z)) \in Nat
             /\ Cardinality(HeldBy([z EXCEPT ![b] = n])) = Cardinality(HeldBy(z)) + n
  BY <1>2, BytesAdded, ZenonT(30)
<1> QED BY <1>1, <1>2, Zenon DEF BytesCount

\* The counters of jobq agree with its jobs, none is left when it returns, and
\* status 0 means that all succeeded (JobsAccounted).
THEOREM BoardJobs == J!Spec => []JobsAccounted
<1>1. J!Init => JobInv
  BY JobSets, JobInit, Zenon
<1>2. JobInv /\ [J!Next]_(J!vars) => JobInv'
  BY JobSets, JobStep, Zenon
<1>3. JobInv => JobsAccounted
  BY JobSets, JobMeans, Zenon
<1> QED BY <1>1, <1>2, <1>3, PTL DEF J!Spec

\* However often signals interrupt it, nothing the program opened or allocated
\* is left when the launcher ends, the heap's counter is the bytes in the
\* table, and no signal ends the launcher with the window mapped
\* (mmu-services.c, and invoke in mmu-run.c).
THEOREM BoardNothingLeaks == S!Spec => []NothingLeaks
<1>1. S!Init => ServiceInv
  BY BlockBytes, ServiceInit, Zenon
<1>2. ServiceInv /\ [S!Next]_(S!vars) => ServiceInv'
  BY BlockBytes, ServiceStep, Zenon
<1> QED BY <1>1, <1>2, ServiceMeans, PTL DEF S!Spec
=============================================================================
