------------------------------ MODULE NommuBank ------------------------------
(***************************************************************************)
(* fork() on a CPU without an MMU, as experiments/mmu-poc/fork builds it   *)
(* into the kernel (kernel.patch, reclaim.patch, swap-banks.patch,         *)
(* switch-irqs-on.patch, mmu-swap.patch and bank-budget.patch applied in   *)
(* that order).                                                            *)
(*                                                                         *)
(* After a fork, parent and child have the same private vm_regions at the  *)
(* same addresses. A region has one resident copy, which belongs to its    *)
(* bank_owner; every other process that shares it keeps its own contents   *)
(* in a set of shadow pages (struct nommu_bank). A context switch swaps    *)
(* the resident pages with the incoming process's set and hands that set,  *)
(* now holding the outgoing process's data, to the outgoing process. N     *)
(* processes therefore need N - 1 sets, and the owner holds none.          *)
(*                                                                         *)
(* A region is private to the mms that inherited it, and each of them maps *)
(* it with one vma, so a bank is named by a region and an mm. Shared and   *)
(* read-only mappings are skipped by the code and do not appear. The       *)
(* kernel is UP and not preemptible: what runs with interrupts off, or     *)
(* without sleeping, is one step; where fork and exit may sleep, other     *)
(* processes run.                                                          *)
(***************************************************************************)
EXTENDS Integers, Sequences, FiniteSetsExt, Functions

CONSTANTS MM,          \* address spaces (mm_struct)
          Region,      \* private mappings (vm_region with VM_MAPPED_COPY)
          Value,       \* what a page can hold
          Zero,        \* what a fresh page holds
          None,        \* NULL
          MaxPages,    \* bound: pages of one region
          MaxTasks,    \* bound: tasks sharing one mm
          PinAllowed,  \* regions some device may pin (get_user_pages)
          ForkRefused, \* regions whose flags make dup_mmap's first pass refuse
          DontCopy,    \* regions marked VM_DONTCOPY or VM_WIPEONFORK
          MaxTotal,    \* NOMMU_BANK_MAX_TOTAL, in pages
          FreePages,   \* pages the allocator has for shadow sets
          OrphanSlots  \* ARRAY_SIZE(nommu_bank_orphans)

ASSUME ConstantsAssumption ==
    /\ None \notin MM \cup Region
    /\ Zero \in Value
    /\ MaxPages \in Nat \ {0}
    /\ MaxTasks \in Nat \ {0}
    /\ PinAllowed \subseteq Region
    /\ ForkRefused \subseteq Region
    /\ DontCopy \subseteq Region
    /\ MaxTotal \in Nat
    /\ FreePages \in Nat
    /\ OrphanSlots \in Nat

VARIABLES
    mmState,     \* "free", "building" (in dup_mmap), "live" or "exiting" (in exit_mmap)
    tasks,       \* tasks whose task->mm is this mm
    vmas,        \* regions the mm maps
    current,     \* the mm whose task is on the CPU, None for a kernel thread
    child,       \* the mm a fork of this process is building, None outside fork
    todo,        \* regions that fork has still to clone
    newset,      \* the region whose child set is allocated and not yet filled
    siblings,    \* the ring of banks of a region, as the sequence of their mms
    bank_owner,  \* region->bank_owner
    resident,    \* the pages at the region's addresses
    capacity,    \* bank->capacity, 0 where there is no bank
    pages,       \* bank->pages, << >> where bank->count is 0
    shadow_pages,\* nommu_bank_shadow_pages
    orphans,     \* nommu_bank_orphan_count
    broken,      \* nommu_bank_broken
    pinned       \* regions with a page that has an extra reference

procVars == <<mmState, tasks, vmas, current>>
forkVars == <<child, todo, newset>>
bankVars == <<siblings, bank_owner, resident, capacity, pages, shadow_pages>>
latchVars == <<orphans, broken>>
vars == <<procVars, forkVars, bankVars, latchVars, pinned>>

-----------------------------------------------------------------------------
(* Helpers *)

\* The mms that have a bank of region r.
Sharers(r) == Range(siblings[r])

\* region->vm_usage: the vmas that map the region.
vm_usage(r) == {m \in MM : r \in vmas[m]}

\* The kernel's list operations on a ring written as a sequence.
list_del(s, i) == SubSeq(s, 1, i - 1) \o SubSeq(s, i + 1, Len(s))
list_add(s, i, e) == SubSeq(s, 1, i - 1) \o <<e>> \o SubSeq(s, i, Len(s))

SumOver(f(_), S) == MapThenSumSet(f, S)

\* dst with its first pages replaced by src: what one direction of a page by
\* page exchange leaves behind.
Overlay(dst, src) ==
    [i \in 1..Len(dst) |-> IF i <= Len(src) THEN src[i] ELSE dst[i]]

\* What process m sees at the addresses of region r.
View(m, r) ==
    IF m \in Sharers(r) /\ bank_owner[r] # m THEN pages[r][m] ELSE resident[r]

Position(r, m) == CHOOSE i \in DOMAIN siblings[r] : siblings[r][i] = m

\* list_next_entry(bank, siblings)
NextSibling(r, m) ==
    LET i == Position(r, m)
    IN  siblings[r][IF i = Len(siblings[r]) THEN 1 ELSE i + 1]

\* dup_mmap holds mmap_lock of the parent until it returns.
MmapLocked(m) == child[m] # None /\ mmState[child[m]] = "building"

\* A task of m can run user code: fork keeps the calling task in the kernel.
InUserMode(m) == current = m /\ (child[m] = None \/ tasks[m] > 1)

-----------------------------------------------------------------------------
TypeOK ==
    /\ mmState \in [MM -> {"free", "building", "live", "exiting"}]
    /\ tasks \in [MM -> 0..MaxTasks]
    /\ vmas \in [MM -> SUBSET Region]
    /\ current \in MM \cup {None}
    /\ child \in [MM -> MM \cup {None}]
    /\ todo \in [MM -> SUBSET Region]
    /\ newset \in [MM -> Region \cup {None}]
    /\ siblings \in [Region -> Seq(MM)]
    /\ bank_owner \in [Region -> MM \cup {None}]
    /\ resident \in [Region -> Seq(Value)]
    /\ capacity \in [Region -> [MM -> Nat]]
    /\ pages \in [Region -> [MM -> Seq(Value)]]
    /\ shadow_pages \in Int
    /\ orphans \in Nat
    /\ broken \in BOOLEAN
    /\ pinned \subseteq Region

Init ==
    /\ mmState = [m \in MM |-> "free"]
    /\ tasks = [m \in MM |-> 0]
    /\ vmas = [m \in MM |-> {}]
    /\ current = None
    /\ child = [m \in MM |-> None]
    /\ todo = [m \in MM |-> {}]
    /\ newset = [m \in MM |-> None]
    /\ siblings = [r \in Region |-> << >>]
    /\ bank_owner = [r \in Region |-> None]
    /\ resident = [r \in Region |-> << >>]
    /\ capacity = [r \in Region |-> [m \in MM |-> 0]]
    /\ pages = [r \in Region |-> [m \in MM |-> << >>]]
    /\ shadow_pages = 0
    /\ orphans = 0
    /\ broken = FALSE
    /\ pinned = {}

-----------------------------------------------------------------------------
(* Context switch *)

\* bank_can_move(): the receiver holds nothing and has room for the set.
bank_can_move(r, to, from) ==
    capacity[r][to] = capacity[r][from] /\ pages[r][to] = << >>

\* nommu_bank_switch(): one pass over the banks of the incoming mm. A bank
\* that is not the owner swaps its set with the resident pages and gives it
\* to the owner; where the owner cannot take it, nothing moves and the latch
\* is set; where there is no owner, the set is copied in and its pages go to
\* the orphan list.
nommu_bank_switch(m) ==
    LET Out == {r \in Region : m \in Sharers(r) /\ bank_owner[r] # m}
        Ownerless == {r \in Out : bank_owner[r] = None}
        Swapped == {r \in Out \ Ownerless : bank_can_move(r, bank_owner[r], m)}
        Given == SumOver(LAMBDA r : Len(pages[r][m]), Ownerless)
    IN  /\ resident' = [r \in Region |->
              IF r \in Swapped \cup Ownerless
              THEN Overlay(resident[r], pages[r][m]) ELSE resident[r]]
        /\ pages' = [r \in Region |->
              IF r \in Swapped
              THEN [pages[r] EXCEPT ![bank_owner[r]] = Overlay(pages[r][m], resident[r]),
                                    ![m] = << >>]
              ELSE IF r \in Ownerless THEN [pages[r] EXCEPT ![m] = << >>] ELSE pages[r]]
        /\ bank_owner' = [r \in Region |->
              IF r \in Swapped \cup Ownerless THEN m ELSE bank_owner[r]]
        /\ broken' = (broken \/ Out # Swapped \cup Ownerless
                             \/ (Ownerless # {} /\ orphans + Given > OrphanSlots))
        /\ orphans' = IF Ownerless = {} THEN orphans
                      ELSE IF orphans + Given > OrphanSlots THEN OrphanSlots
                           ELSE orphans + Given
        /\ shadow_pages' = IF Ownerless = {} THEN shadow_pages ELSE shadow_pages - Given
        /\ UNCHANGED <<siblings, capacity>>

\* Fault: the exchange put off with interrupts on is forgotten.
SwitchTo_NoExchange(m) ==
    /\ current # m
    /\ mmState[m] = "live"
    /\ current' = m
    /\ UNCHANGED <<mmState, tasks, vmas, forkVars, bankVars, latchVars, pinned>>

\* switch_mm() with the exchange it does at once or leaves to
\* finish_arch_post_lock_switch(): no task runs in between.
SwitchTo(m) ==
    /\ current # m
    /\ mmState[m] = "live"
    /\ current' = m
    /\ nommu_bank_switch(m)
    /\ UNCHANGED <<mmState, tasks, vmas, forkVars, pinned>>

\* A store by the running process to its own memory.
Write(m, r, i, v) ==
    /\ InUserMode(m)
    /\ r \in vmas[m]
    /\ i \in DOMAIN resident[r]
    /\ resident' = [resident EXCEPT ![r][i] = v]
    /\ UNCHANGED <<procVars, forkVars, siblings, bank_owner, capacity, pages,
                   shadow_pages, latchVars, pinned>>

\* Fault: ptrace writes to the region's addresses whoever is resident.
bank_access_Resident(m, r, i, v) ==
    /\ mmState[m] = "live"
    /\ ~MmapLocked(m)
    /\ r \in vmas[m]
    /\ i \in DOMAIN resident[r]
    /\ resident' = [resident EXCEPT ![r][i] = v]
    /\ UNCHANGED <<procVars, forkVars, siblings, bank_owner, capacity, pages,
                   shadow_pages, latchVars, pinned>>

\* __access_remote_vm() with bank_access(): /proc/PID/mem and ptrace write to
\* the copy that is the target's, under the target's mmap_lock.
bank_access(m, r, i, v) ==
    /\ mmState[m] = "live"
    /\ ~MmapLocked(m)
    /\ r \in vmas[m]
    /\ i \in DOMAIN View(m, r)
    /\ IF m \in Sharers(r) /\ bank_owner[r] # m
       THEN /\ pages' = [pages EXCEPT ![r][m][i] = v]
            /\ UNCHANGED resident
       ELSE /\ resident' = [resident EXCEPT ![r][i] = v]
            /\ UNCHANGED pages
    /\ UNCHANGED <<procVars, forkVars, siblings, bank_owner, capacity,
                   shadow_pages, latchVars, pinned>>

-----------------------------------------------------------------------------
(* Leaving a region *)

\* Fault: the promoted sibling keeps the page set it no longer needs.
bank_detach_KeepHeir(m, r) ==
    LET heir == NextSibling(r, m)
        promote == bank_owner[r] = m /\ siblings[r] # <<m>>
    IN  /\ broken' = FALSE
        /\ orphans' = 0
        /\ vmas' = [vmas EXCEPT ![m] = @ \ {r}]
        /\ IF m \notin Sharers(r)
           THEN UNCHANGED bankVars
           ELSE /\ siblings' = [siblings EXCEPT ![r] = list_del(@, Position(r, m))]
                /\ capacity' = [capacity EXCEPT ![r][m] = 0]
                /\ bank_owner' = [bank_owner EXCEPT ![r] =
                      IF promote THEN heir ELSE IF @ = m THEN None ELSE @]
                /\ resident' = [resident EXCEPT ![r] =
                      IF promote THEN Overlay(@, pages[r][heir]) ELSE @]
                /\ pages' = [pages EXCEPT ![r][m] = << >>]
                /\ shadow_pages' = shadow_pages - Len(pages[r][m])

\* bank_detach(), called by delete_vma(): report the latch, free the orphans,
\* leave the ring. If the resident copy was ours, the next sibling is made
\* resident and its set is freed.
bank_detach(m, r) ==
    LET last == siblings[r] = <<m>>
        heir == NextSibling(r, m)
        promote == bank_owner[r] = m /\ ~last
    IN  /\ broken' = FALSE
        /\ orphans' = 0
        /\ vmas' = [vmas EXCEPT ![m] = @ \ {r}]
        /\ IF m \notin Sharers(r)
           THEN UNCHANGED bankVars
           ELSE /\ siblings' = [siblings EXCEPT ![r] = list_del(@, Position(r, m))]
                /\ capacity' = [capacity EXCEPT ![r][m] = 0]
                /\ bank_owner' = [bank_owner EXCEPT ![r] =
                      IF promote THEN heir ELSE IF @ = m THEN None ELSE @]
                /\ resident' = [resident EXCEPT ![r] =
                      IF promote THEN Overlay(@, pages[r][heir]) ELSE @]
                /\ pages' = IF promote
                            THEN [pages EXCEPT ![r][m] = << >>, ![r][heir] = << >>]
                            ELSE [pages EXCEPT ![r][m] = << >>]
                /\ shadow_pages' = shadow_pages - Len(pages[r][m])
                      - (IF promote THEN Len(pages[r][heir]) ELSE 0)

\* munmap() of a whole region.
Munmap(m, r) ==
    /\ InUserMode(m) /\ ~MmapLocked(m)
    /\ r \in vmas[m]
    /\ bank_detach(m, r)
    /\ UNCHANGED <<mmState, tasks, current, forkVars, pinned>>

\* The last task of an mm leaves it (exit, or exec of another program).
ExitMm(m) ==
    /\ InUserMode(m)
    /\ tasks[m] = 1
    /\ mmState' = [mmState EXCEPT ![m] = "exiting"]
    /\ tasks' = [tasks EXCEPT ![m] = 0]
    /\ current' = None
    /\ UNCHANGED <<vmas, forkVars, bankVars, latchVars, pinned>>

\* exit_mmap() deletes the vmas one by one, whoever is on the CPU.
ExitVma(m, r) ==
    /\ mmState[m] = "exiting"
    /\ r \in vmas[m]
    /\ bank_detach(m, r)
    /\ UNCHANGED <<mmState, tasks, current, forkVars, pinned>>

\* The mm is gone; a fork that failed returns to its caller now.
FreeMm(m) ==
    /\ mmState[m] = "exiting"
    /\ vmas[m] = {}
    /\ mmState' = [mmState EXCEPT ![m] = "free"]
    /\ child' = [p \in MM |-> IF child[p] = m THEN None ELSE child[p]]
    /\ UNCHANGED <<tasks, vmas, current, todo, newset, bankVars, latchVars, pinned>>

-----------------------------------------------------------------------------
(* Fork *)

\* Fault: the budget counts only what this fork will bank for the first time.
nommu_bank_dup_mmap_NewOnly(p, c) ==
    /\ InUserMode(p) /\ child[p] = None
    /\ mmState[c] = "free"
    /\ tasks[p] = 1
    /\ vmas[p] \cap (ForkRefused \cup pinned) = {}
    /\ SumOver(LAMBDA r : Len(resident[r]), {r \in vmas[p] : p \notin Sharers(r)}) <= MaxTotal
    /\ mmState' = [mmState EXCEPT ![c] = "building"]
    /\ child' = [child EXCEPT ![p] = c]
    /\ todo' = [todo EXCEPT ![p] = vmas[p]]
    /\ UNCHANGED <<tasks, vmas, current, newset, bankVars, latchVars, pinned>>

\* nommu_bank_dup_mmap(), first pass: with one task in the mm, no mapping that
\* cannot be banked, no pinned page and no more than MaxTotal pages, the
\* child's mm is built. A refusal changes nothing.
nommu_bank_dup_mmap(p, c) ==
    /\ InUserMode(p) /\ child[p] = None
    /\ mmState[c] = "free"
    /\ tasks[p] = 1
    /\ vmas[p] \cap ForkRefused = {}
    /\ \A r \in vmas[p] : vm_usage(r) = {p} \/ p \in Sharers(r)
    /\ vmas[p] \cap pinned = {}
    /\ SumOver(LAMBDA r : Len(resident[r]), vmas[p]) <= MaxTotal
    /\ mmState' = [mmState EXCEPT ![c] = "building"]
    /\ child' = [child EXCEPT ![p] = c]
    /\ todo' = [todo EXCEPT ![p] = vmas[p]]
    /\ UNCHANGED <<tasks, vmas, current, newset, bankVars, latchVars, pinned>>

\* bank_clone() up to its allocation: report the latch, free the orphans,
\* allocate a full set for the child. The allocator may sleep.
bank_alloc(p, r) ==
    LET n == Len(resident[r])
    IN  /\ current = p
        /\ MmapLocked(p)
        /\ newset[p] = None
        /\ r \in todo[p] \ DontCopy
        /\ shadow_pages + n <= FreePages
        /\ newset' = [newset EXCEPT ![p] = r]
        /\ capacity' = [capacity EXCEPT ![r][child[p]] = n]
        /\ shadow_pages' = shadow_pages + n
        /\ broken' = FALSE
        /\ orphans' = 0
        /\ UNCHANGED <<procVars, child, todo, siblings, bank_owner, resident, pages, pinned>>

\* bank_clone() after its allocation. Refused unless the caller's bank, if it
\* has one, owns the region and the child has none for it; otherwise the
\* resident pages are saved in the child's set and the child enters the ring
\* in front of its parent. A first fork gives the parent a bank without pages.
bank_clone(p) ==
    LET r == newset[p]
        c == child[p]
        fresh == p \notin Sharers(r)
        ring == IF fresh THEN <<p>> ELSE siblings[r]
        at == IF fresh THEN 1 ELSE Position(r, p)
    IN  /\ current = p
        /\ MmapLocked(p)
        /\ r # None
        /\ fresh \/ bank_owner[r] = p
        /\ c \notin Sharers(r)
        /\ siblings' = [siblings EXCEPT ![r] = list_add(ring, at, c)]
        /\ bank_owner' = [bank_owner EXCEPT ![r] = p]
        /\ capacity' = [capacity EXCEPT ![r][p] = IF fresh THEN Len(resident[r]) ELSE @]
        /\ pages' = [pages EXCEPT ![r][c] = SubSeq(resident[r], 1, capacity[r][c])]
        /\ vmas' = [vmas EXCEPT ![c] = @ \cup {r}]
        /\ todo' = [todo EXCEPT ![p] = @ \ {r}]
        /\ newset' = [newset EXCEPT ![p] = None]
        /\ UNCHANGED <<mmState, tasks, current, child, resident, shadow_pages,
                       latchVars, pinned>>

\* Fault: the set allocated for the child is not freed.
ForkFail_Leak(p) ==
    /\ current = p
    /\ MmapLocked(p)
    /\ mmState' = [mmState EXCEPT ![child[p]] = "exiting"]
    /\ todo' = [todo EXCEPT ![p] = {}]
    /\ newset' = [newset EXCEPT ![p] = None]
    /\ UNCHANGED <<tasks, vmas, current, child, bankVars, latchVars, pinned>>

\* Fault: a refused clone is tried again for ever.
ForkFail_Retry(p) ==
    /\ current = p
    /\ MmapLocked(p)
    /\ IF newset[p] # None
       THEN /\ newset' = [newset EXCEPT ![p] = None]
            /\ capacity' = [capacity EXCEPT ![newset[p]][child[p]] = 0]
            /\ shadow_pages' = shadow_pages - capacity[newset[p]][child[p]]
            /\ UNCHANGED <<mmState, todo>>
       ELSE /\ todo[p] \subseteq DontCopy
            /\ mmState' = [mmState EXCEPT ![child[p]] = "exiting"]
            /\ todo' = [todo EXCEPT ![p] = {}]
            /\ UNCHANGED <<newset, capacity, shadow_pages>>
    /\ UNCHANGED <<tasks, vmas, current, child, siblings, bank_owner, resident, pages,
                   latchVars, pinned>>

\* A fork can fail at any point after the first pass: an allocation, a
\* VM_DONTCOPY region, a refusal in bank_clone(), a later step of
\* copy_process(). The unused set is freed and mmput() takes the half-built
\* mm down; the parent keeps the banks it was given.
ForkFail(p) ==
    LET r == newset[p]
        c == child[p]
    IN  /\ current = p
        /\ MmapLocked(p)
        /\ mmState' = [mmState EXCEPT ![c] = "exiting"]
        /\ todo' = [todo EXCEPT ![p] = {}]
        /\ newset' = [newset EXCEPT ![p] = None]
        /\ IF r = None
           THEN UNCHANGED <<capacity, shadow_pages>>
           ELSE /\ capacity' = [capacity EXCEPT ![r][c] = 0]
                /\ shadow_pages' = shadow_pages - capacity[r][c]
        /\ UNCHANGED <<tasks, vmas, current, child, siblings, bank_owner, resident,
                       pages, latchVars, pinned>>

\* Every region is cloned: the child becomes runnable and fork returns.
ForkDone(p) ==
    /\ current = p
    /\ MmapLocked(p)
    /\ todo[p] = {}
    /\ mmState' = [mmState EXCEPT ![child[p]] = "live"]
    /\ tasks' = [tasks EXCEPT ![child[p]] = 1]
    /\ child' = [child EXCEPT ![p] = None]
    /\ UNCHANGED <<vmas, current, todo, newset, bankVars, latchVars, pinned>>

-----------------------------------------------------------------------------
(* The rest of a process's life *)

\* exec() of a new program: an mm with no private region yet.
NewMm(m) ==
    /\ mmState[m] = "free"
    /\ mmState' = [mmState EXCEPT ![m] = "live"]
    /\ tasks' = [tasks EXCEPT ![m] = 1]
    /\ UNCHANGED <<vmas, current, forkVars, bankVars, latchVars, pinned>>

\* mmap(): a new vm_region, zeroed, with no bank. Pinned pages are not free.
Mmap(m, r, n) ==
    /\ InUserMode(m) /\ ~MmapLocked(m)
    /\ vm_usage(r) = {}
    /\ r \notin pinned
    /\ vmas' = [vmas EXCEPT ![m] = @ \cup {r}]
    /\ resident' = [resident EXCEPT ![r] = [i \in 1..n |-> Zero]]
    /\ bank_owner' = [bank_owner EXCEPT ![r] = None]
    /\ UNCHANGED <<mmState, tasks, current, forkVars, siblings, capacity, pages,
                   shadow_pages, latchVars, pinned>>

\* Fault: a banked region may be shortened.
vmi_shrink_vma_Banked(m, r) ==
    /\ InUserMode(m) /\ ~MmapLocked(m)
    /\ r \in vmas[m]
    /\ Len(resident[r]) > 1
    /\ resident' = [resident EXCEPT ![r] = SubSeq(@, 1, Len(@) - 1)]
    /\ UNCHANGED <<procVars, forkVars, siblings, bank_owner, capacity, pages,
                   shadow_pages, latchVars, pinned>>

\* vmi_shrink_vma(): munmap of the last page, refused on a banked region and
\* on one that other vmas use.
vmi_shrink_vma(m, r) ==
    /\ InUserMode(m) /\ ~MmapLocked(m)
    /\ r \in vmas[m]
    /\ m \notin Sharers(r)
    /\ Len(resident[r]) > 1
    /\ resident' = [resident EXCEPT ![r] = SubSeq(@, 1, Len(@) - 1)]
    /\ UNCHANGED <<procVars, forkVars, siblings, bank_owner, capacity, pages,
                   shadow_pages, latchVars, pinned>>

\* clone(CLONE_VM): a thread, or a vfork child.
ThreadClone(m) ==
    /\ InUserMode(m)
    /\ tasks[m] < MaxTasks
    /\ tasks' = [tasks EXCEPT ![m] = @ + 1]
    /\ UNCHANGED <<mmState, vmas, current, forkVars, bankVars, latchVars, pinned>>

ThreadExit(m) ==
    /\ InUserMode(m)
    /\ tasks[m] > 1
    /\ tasks' = [tasks EXCEPT ![m] = @ - 1]
    /\ UNCHANGED <<mmState, vmas, current, forkVars, bankVars, latchVars, pinned>>

\* Fault: the reference is taken without mmap_lock.
GetUserPages_NoLock(m, r) ==
    /\ mmState[m] = "live"
    /\ r \in vmas[m] \cap PinAllowed
    /\ m \notin Sharers(r)
    /\ pinned' = pinned \cup {r}
    /\ UNCHANGED <<procVars, forkVars, bankVars, latchVars>>

\* __get_user_pages() takes a reference on a page, under mmap_lock, unless the
\* vma is banked.
GetUserPages(m, r) ==
    /\ mmState[m] = "live" /\ ~MmapLocked(m)
    /\ r \in vmas[m] \cap PinAllowed
    /\ m \notin Sharers(r)
    /\ pinned' = pinned \cup {r}
    /\ UNCHANGED <<procVars, forkVars, bankVars, latchVars>>

PutPage(r) ==
    /\ r \in pinned
    /\ pinned' = pinned \ {r}
    /\ UNCHANGED <<procVars, forkVars, bankVars, latchVars>>

-----------------------------------------------------------------------------
ForkStep(p) ==
    \/ \E r \in Region : bank_alloc(p, r)
    \/ bank_clone(p)
    \/ ForkFail(p)
    \/ ForkDone(p)

ExitStep(m) ==
    \/ \E r \in Region : ExitVma(m, r)
    \/ FreeMm(m)

Next ==
    \/ \E m \in MM : SwitchTo(m)
    \/ \E m \in MM, r \in Region, i \in 1..MaxPages, v \in Value : Write(m, r, i, v)
    \/ \E m \in MM, r \in Region, i \in 1..MaxPages, v \in Value : bank_access(m, r, i, v)
    \/ \E m \in MM, r \in Region : Munmap(m, r)
    \/ \E m \in MM : ExitMm(m)
    \/ \E m \in MM : ExitStep(m)
    \/ \E p, c \in MM : nommu_bank_dup_mmap(p, c)
    \/ \E p \in MM : ForkStep(p)
    \/ \E m \in MM : NewMm(m)
    \/ \E m \in MM, r \in Region, n \in 1..MaxPages : Mmap(m, r, n)
    \/ \E m \in MM, r \in Region : vmi_shrink_vma(m, r)
    \/ \E m \in MM : ThreadClone(m)
    \/ \E m \in MM : ThreadExit(m)
    \/ \E m \in MM, r \in Region : GetUserPages(m, r)
    \/ \E r \in Region : PutPage(r)

Spec == Init /\ [][Next]_vars

\* The scheduler gives every live process the CPU again and again, and a
\* process that has it often enough gets through its next kernel step.
Fairness ==
    \A m \in MM : /\ SF_vars(SwitchTo(m))
                  /\ SF_vars(ForkStep(m))
                  /\ WF_vars(ExitStep(m))

FairSpec == Spec /\ Fairness

-----------------------------------------------------------------------------
(* Properties *)

\* Every process that shares a region, except the resident owner, has a full
\* set of shadow pages, and the owner has none: N processes hold N - 1 sets,
\* each of the region's size. (bank_move_pages, bank_detach, bank_clone)
OneSetPerAbsentee ==
    \A r \in Region : \A m \in Sharers(r) :
        Len(pages[r][m]) = IF bank_owner[r] = m THEN 0 ELSE Len(resident[r])

\* The process on the CPU finds its own data in place: it is the owner of
\* every banked region it maps, also when fork slept in the allocator and
\* others exited meanwhile. This is what bank_clone()'s WARN_ON_ONCE and the
\* comment "The calling process is resident, even if allocation scheduled"
\* rely on.
RunningIsResident ==
    current # None =>
        \A r \in Region : current \in Sharers(r) => bank_owner[r] = current

\* The state nommu_bank_switch() cannot report is never met: a banked region
\* always has an owner among its banks, the latch is never set, and the
\* orphan list (the arm its comment calls unreachable) is never used.
LatchNeverFires ==
    /\ ~broken
    /\ orphans = 0
    /\ \A r \in Region : siblings[r] # << >> => bank_owner[r] \in Sharers(r)

\* A page somebody else holds a reference to is never swapped under them: a
\* pinned region has no bank. (dup_mmap's page_count check, the refusal in
\* __get_user_pages, and mmap_lock held by dup_mmap while it sleeps)
PinnedIsNeverBanked ==
    \A r \in pinned : siblings[r] = << >>

\* nommu_bank_shadow_pages, reported as ForkShadow in /proc/meminfo, is the
\* number of shadow pages that exist: no path leaks or frees one twice.
ShadowPagesCounted ==
    shadow_pages =
        SumOver(LAMBDA r : SumOver(LAMBDA m : Len(pages[r][m]), MM), Region)
        + SumOver(LAMBDA p : IF newset[p] = None THEN 0
                             ELSE capacity[newset[p]][child[p]], MM)

\* What a switch can be asked to exchange stays within NOMMU_BANK_MAX_TOTAL:
\* no process ever has more banked pages than the budget dup_mmap checked.
BankedWithinBudget ==
    \A m \in MM :
        SumOver(LAMBDA r : Len(resident[r]), {r \in Region : m \in Sharers(r)}) <= MaxTotal

\* The refinement mapping: a process has memory from the moment fork has
\* returned it until its exit begins.
Seen(m, r) == IF mmState[m] = "live" /\ r \in vmas[m] THEN View(m, r) ELSE << >>
SeenMem == [m \in MM |-> [r \in Region |-> Seen(m, r)]]
PrivateMem == INSTANCE PrivateMemory WITH mem <- SeenMem

\* fork() gives the child exactly the parent's memory, and from then on no
\* process's memory changes by what another one does, however switches,
\* exits, failed forks and debugger writes interleave.
MemoryIsPrivate == PrivateMem!Spec

\* A fork that has started returns, with the child running or taken down.
ForkReturns == \A p \in MM : child[p] # None ~> child[p] = None

=============================================================================
