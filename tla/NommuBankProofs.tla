--------------------------- MODULE NommuBankProofs ---------------------------
(***************************************************************************)
(* NommuBank is correct for any number of processes, regions, pages and    *)
(* values. The steps NommuBankFacts leaves: a process leaves a ring, the   *)
(* CPU switches, fork() makes its pass, rolls back and returns. With them  *)
(* BankInv is inductive, the invariants the runs check follow from it, and *)
(* NommuBank implements PrivateMemory under the mapping SeenMem: every     *)
(* kernel step is a step of one process's own memory, a fork, an exit or   *)
(* nothing at all.                                                         *)
(***************************************************************************)
EXTENDS NommuBankFacts

-----------------------------------------------------------------------------
(* Leaving a ring. *)

\* bank_detach(): the leaver is out of the ring and holds nothing; if it was
\* the owner, its heir's contents are resident.
LEMMA DetachInv ==
    ASSUME BankInv, NEW m \in MM, NEW r \in Region, r \in vmas[m], bank_detach(m, r),
           child[m] = None, mmState[m] # "building",
           UNCHANGED <<mmState, tasks, current, child, todo, newset, pinned>>
    PROVE  /\ BankInv'
           /\ vmas' = [vmas EXCEPT ![m] = @ \ {r}]
           /\ \A x \in MM : \A s \in vmas[x] : x # m \/ s # r => View(x, s)' = View(x, s)
<1>inv. /\ TypeOK /\ RingInv /\ MapInv /\ BankSetsInv /\ RunInv /\ LatchInv /\ PinInv
  BY Zenon DEF BankInv
<1> DEFINE heir == NextSibling(r, m)
           promote == bank_owner[r] = m /\ siblings[r] # <<m>>
<1>1. /\ broken' = FALSE /\ orphans' = 0 /\ vmas' = [vmas EXCEPT ![m] = @ \ {r}]
  BY Zenon DEF bank_detach
<1>2. /\ \A x \in MM : x # m => vmas'[x] = vmas[x]
      /\ vmas'[m] = vmas[m] \ {r}
      /\ vmas' \in [MM -> SUBSET Region]
  BY <1>inv, <1>1, Zenon DEF TypeOK
<1>3. \A p \in MM : MmapLocked(p) => p # m /\ child[p] # m
  BY Zenon DEF MmapLocked
<1> HIDE DEF heir, promote
<1>4. CASE m \notin Sharers(r)
  <2>1. UNCHANGED <<siblings, bank_owner, resident, capacity, pages, shadow_pages>>
    BY <1>4, Zenon DEF bank_detach, bankVars
  <2>2. TypeOK'
    <3>1. broken' \in BOOLEAN
      BY <1>1, Zenon
    <3> QED BY <1>inv, <1>1, <1>2, <2>1, <3>1, Zenon DEF TypeOK
  <2>3. \A s \in Region : Sharers(s)' = Sharers(s)
    BY <2>1, Zenon DEF Sharers
  <2>4. RingInv' /\ MapInv'
    BY <1>inv, <1>2, <1>4, <2>1, <2>3, SharersAreMms DEF RingInv, MapInv
  <2>5. BankSetsInv' /\ RunInv' /\ LatchInv'
    BY <1>inv, <1>1, <2>1, <2>3, Zenon DEF BankSetsInv, RunInv, LatchInv
  <2>6. ForkInv' /\ \A p \in MM : MmapLocked(p)' <=> MmapLocked(p)
    BY <1>2, <1>3, <2>1, ForkChild, ForkMaps, ForkFrame
  <2>7. ASSUME NEW x \in MM, NEW s \in vmas[x] PROVE View(x, s)' = View(x, s)
    BY <1>inv, <2>1, <2>3, Types, Zenon DEF View
  <2>8. SnapshotInv'
    BY <1>2, <1>3, <2>7, ForkMaps, SnapshotFrame, Zenon
  <2>9. PinInv'
    BY <1>inv, <1>2, <2>3, <2>6, Types DEF PinInv
  <2> QED BY <1>1, <2>2, <2>4, <2>5, <2>6, <2>7, <2>8, <2>9, Zenon DEF BankInv
<1>5. CASE m \in Sharers(r)
  <2>1. /\ siblings' = [siblings EXCEPT ![r] = list_del(@, Position(r, m))]
        /\ capacity' = [capacity EXCEPT ![r][m] = 0]
        /\ bank_owner' = [bank_owner EXCEPT ![r] =
              IF promote THEN heir ELSE IF @ = m THEN None ELSE @]
        /\ resident' = [resident EXCEPT ![r] =
              IF promote THEN Overlay(@, pages[r][heir]) ELSE @]
        /\ pages' = IF promote THEN [pages EXCEPT ![r][m] = << >>, ![r][heir] = << >>]
                    ELSE [pages EXCEPT ![r][m] = << >>]
    BY <1>5, Zenon DEF bank_detach, promote, heir
  <2>2. shadow_pages' \in Int
    <3>1. /\ shadow_pages \in Int /\ Len(pages[r][m]) \in Nat
          /\ promote => Len(pages[r][heir]) \in Nat
      BY <1>inv, <1>5, Types, HeirIsAnotherSharer, SharersAreMms, LenProperties, Zenon
         DEF TypeOK, promote, heir
    <3>2. shadow_pages' = shadow_pages - Len(pages[r][m])
                          - (IF promote THEN Len(pages[r][heir]) ELSE 0)
      BY <1>5, Zenon DEF bank_detach, promote, heir
    <3> QED BY <3>1, <3>2
  <2>3. /\ siblings'[r] \in Seq(MM) /\ Injective(siblings'[r])
        /\ Sharers(r)' = Sharers(r) \ {m}
        /\ \A s \in Region : s # r => siblings'[s] = siblings[s] /\ Sharers(s)' = Sharers(s)
        /\ siblings' \in [Region -> Seq(MM)]
    <3>1. siblings \in [Region -> Seq(MM)] /\ siblings[r] \in Seq(MM) /\ Injective(siblings[r])
      BY <1>inv, Zenon DEF TypeOK, RingInv
    <3>2. Position(r, m) \in 1..Len(siblings[r]) /\ siblings[r][Position(r, m)] = m
      BY <1>inv, <1>5, PositionInRing, Zenon
    <3>3. siblings'[r] = list_del(siblings[r], Position(r, m))
      BY <2>1, <3>1, Zenon
    <3>4. /\ siblings'[r] \in Seq(MM) /\ Injective(siblings'[r])
          /\ Range(siblings'[r]) = Range(siblings[r]) \ {m}
      BY <3>1, <3>2, <3>3, RemoveFromRing
    <3> QED BY <2>1, <3>1, <3>4, Zenon DEF Sharers
  <2>4. promote => /\ heir \in Sharers(r) /\ heir # m /\ heir \in MM
                   /\ Overlay(resident[r], pages[r][heir]) = pages[r][heir]
                   /\ Len(pages[r][heir]) = Len(resident[r])
    <3> SUFFICES ASSUME promote PROVE /\ heir \in Sharers(r) /\ heir # m /\ heir \in MM
                   /\ Overlay(resident[r], pages[r][heir]) = pages[r][heir]
                   /\ Len(pages[r][heir]) = Len(resident[r])
      BY Zenon
    <3>1. heir \in Sharers(r) /\ heir # m /\ heir \in MM /\ bank_owner[r] = m
      BY <1>inv, <1>5, HeirIsAnotherSharer, SharersAreMms, Zenon DEF promote, heir
    <3>2. Len(pages[r][heir]) = Len(resident[r])
      BY <1>inv, <3>1, Zenon DEF BankSetsInv
    <3> QED BY <1>inv, <3>1, <3>2, OverlayWhole, Types, Zenon
  <2>5. ~promote /\ bank_owner[r] = m => Sharers(r) = {m}
    <3>1. Range(<<m>>) = {m}
      BY DEF Range
    <3> QED BY <3>1, Zenon DEF promote, Sharers
  <2>6. /\ \A s \in Region : s # r => /\ capacity'[s] = capacity[s] /\ pages'[s] = pages[s]
                                      /\ resident'[s] = resident[s]
                                      /\ bank_owner'[s] = bank_owner[s]
        /\ resident'[r] = IF promote THEN pages[r][heir] ELSE resident[r]
        /\ bank_owner'[r] = IF promote THEN heir
                            ELSE IF bank_owner[r] = m THEN None ELSE bank_owner[r]
    BY <1>inv, <2>1, <2>4, Zenon DEF TypeOK
  <2>7. /\ \A x \in MM : x # m => capacity'[r][x] = capacity[r][x]
        /\ \A x \in MM : pages'[r][x] = IF x = m \/ (promote /\ x = heir) THEN << >>
                                         ELSE pages[r][x]
    <3>1. capacity \in [Region -> [MM -> Nat]] /\ pages \in [Region -> [MM -> Seq(Value)]]
      BY <1>inv, Zenon DEF TypeOK
    <3>2. CASE promote
      BY <2>1, <2>4, <3>1, <3>2, Zenon
    <3>3. CASE ~promote
      BY <2>1, <3>1, <3>3, Zenon
    <3> QED BY <3>2, <3>3, Zenon
  <2>8. TypeOK'
    <3>1. broken' \in BOOLEAN
      BY <1>1, Zenon
    <3>2. << >> \in Seq(Value)
      OBVIOUS
    <3>3. capacity' \in [Region -> [MM -> Nat]]
      BY <1>inv, <2>1, Zenon DEF TypeOK
    <3>5. pages' \in [Region -> [MM -> Seq(Value)]]
      <4>1. pages \in [Region -> [MM -> Seq(Value)]]
        BY <1>inv, Zenon DEF TypeOK
      <4>2. [pages EXCEPT ![r][m] = << >>] \in [Region -> [MM -> Seq(Value)]]
        BY <3>2, <4>1, Zenon
      <4>3. promote => [[pages EXCEPT ![r][m] = << >>] EXCEPT ![r][heir] = << >>]
                          \in [Region -> [MM -> Seq(Value)]]
        BY <2>4, <3>2, <4>2, Zenon
      <4> QED BY <2>1, <4>2, <4>3, Zenon
    <3>4. resident' \in [Region -> Seq(Value)] /\ bank_owner' \in [Region -> MM \cup {None}]
      BY <1>inv, <2>1, <2>4 DEF TypeOK
    <3> QED BY <1>inv, <1>1, <1>2, <2>2, <2>3, <3>1, <3>3, <3>4, <3>5, Zenon DEF TypeOK
  <2>9. \A s \in Region : Len(resident'[s]) = Len(resident[s])
    BY <2>4, <2>6, Zenon
  <2>10. RingInv'
    <3> SUFFICES ASSUME NEW s \in Region
                 PROVE  /\ Injective(siblings'[s])
                        /\ \A x \in Sharers(s)' : s \in vmas'[x]
                        /\ \A x, y \in MM : x # y /\ s \in vmas'[x] /\ s \in vmas'[y]
                                           => x \in Sharers(s)'
      BY DEF RingInv
    <3>1. CASE s = r
      BY <1>inv, <1>2, <2>3, <3>1, SharersAreMms, Zenon DEF RingInv
    <3>2. CASE s # r
      <4>1. \A x \in MM : s \in vmas'[x] <=> s \in vmas[x]
        BY <1>2, <3>2, Zenon
      <4>2. Sharers(s)' = Sharers(s) /\ siblings'[s] = siblings[s] /\ Sharers(s) \subseteq MM
        BY <1>inv, <2>3, <3>2, SharersAreMms, Zenon
      <4> QED BY <1>inv, <4>1, <4>2, Zenon DEF RingInv
    <3> QED BY <3>1, <3>2, Zenon
  <2>11. MapInv'
    BY <1>inv, <1>2, <2>9, Types, Zenon DEF MapInv
  <2>12. BankSetsInv'
    <3> SUFFICES ASSUME NEW s \in Region
                 PROVE  /\ Sharers(s)' # {} => bank_owner'[s] \in Sharers(s)'
                        /\ \A x \in Sharers(s)' : capacity'[s][x] = Len(resident'[s])
                        /\ \A x \in Sharers(s)' : x # bank_owner'[s] =>
                               Len(pages'[s][x]) = Len(resident'[s])
                        /\ \A x \in MM : x \notin Sharers(s)' \/ x = bank_owner'[s] =>
                               pages'[s][x] = << >>
      BY Zenon DEF BankSetsInv
    <3>1. CASE s # r
      BY <1>inv, <2>3, <2>6, <3>1 DEF BankSetsInv
    <3>2. CASE s = r
      <4>0. Sharers(r) \subseteq MM /\ bank_owner[r] \in Sharers(r)
        BY <1>inv, <1>5, SharersAreMms, Zenon DEF BankSetsInv
      <4>1. Sharers(r)' # {} => bank_owner'[r] \in Sharers(r)'
        BY <2>3, <2>4, <2>5, <2>6, <4>0, Zenon
      <4>2. \A x \in Sharers(r)' : capacity'[r][x] = Len(resident'[r])
        BY <1>inv, <2>3, <2>7, <2>9, <4>0, Zenon DEF BankSetsInv
      <4>3. ASSUME NEW x \in Sharers(r)', x # bank_owner'[r]
            PROVE  Len(pages'[r][x]) = Len(resident'[r])
        <5>1. x \in Sharers(r) /\ x # m /\ x \in MM /\ ~(promote /\ x = heir) /\ x # bank_owner[r]
          BY <2>3, <2>5, <2>6, <4>0, <4>3 DEF promote
        <5> QED BY <1>inv, <2>7, <2>9, <5>1, SMTT(30) DEF BankSetsInv
      <4>4. ASSUME NEW x \in MM, x \notin Sharers(r)' \/ x = bank_owner'[r]
            PROVE  pages'[r][x] = << >>
        BY <1>inv, <2>3, <2>4, <2>6, <2>7, <4>4, ConstantsAssumption, SMTT(30) DEF BankSetsInv
      <4> QED BY <3>2, <4>1, <4>2, <4>3, <4>4, Zenon
    <3> QED BY <3>1, <3>2, Zenon
  <2>13. RunInv'
    <3> SUFFICES ASSUME current # None, NEW s \in Region, current \in Sharers(s)'
                 PROVE  bank_owner'[s] = current
      BY <1>inv, Zenon DEF RunInv
    <3>1. current \in Sharers(s) /\ bank_owner[s] = current
      BY <1>inv, <2>3, Zenon DEF RunInv
    <3>2. s = r => current # m
      BY <2>3, Zenon
    <3> QED BY <2>6, <3>1, <3>2, Zenon DEF promote
  <2>14. LatchInv'
    BY <1>1, Zenon DEF LatchInv
  <2>15. ForkInv' /\ \A p \in MM : MmapLocked(p)' <=> MmapLocked(p)
    <3>1. ASSUME NEW p \in MM, MmapLocked(p), newset[p] # None
          PROVE  capacity'[newset[p]][child[p]] = Len(resident'[newset[p]])
      <4>1. newset[p] \in Region /\ child[p] \in MM /\ child[p] # m
            /\ capacity[newset[p]][child[p]] = Len(resident[newset[p]])
        BY <1>3, <3>1, ForkChild, ForkMaps, Zenon
      <4> QED BY <2>6, <2>7, <2>9, <4>1, Zenon
    <3> QED BY <1>2, <1>3, <3>1, ForkChild, ForkFrame
  <2>16. ASSUME NEW x \in MM, NEW s \in vmas[x], x # m \/ s # r
         PROVE  View(x, s)' = View(x, s)
    <3>1. s \in Region
      BY <1>inv, Types, Zenon
    <3>2. CASE s # r
      BY <2>3, <2>6, <3>1, <3>2, Zenon DEF View
    <3>3. CASE s = r
      <4>1. x # m /\ x \in Sharers(r) /\ x \in Sharers(r)'
        BY <1>inv, <1>5, <2>3, <2>16, <3>3, Zenon DEF RingInv
      <4>2. CASE promote
        BY <2>4, <2>6, <2>7, <3>3, <4>1, <4>2, SMTT(30) DEF View, promote
      <4>3. CASE ~promote
        BY <2>5, <2>6, <2>7, <3>3, <4>1, <4>3, Zenon DEF View
      <4> QED BY <4>2, <4>3, Zenon
    <3> QED BY <3>2, <3>3, Zenon
  <2>17. SnapshotInv'
    BY <1>2, <1>3, <2>16, ForkMaps, SnapshotFrame, Zenon
  <2>18. PinInv'
    <3>1. pinned' = pinned /\ pinned \subseteq Region /\ \A x \in MM : vmas'[x] \subseteq vmas[x]
      BY <1>inv, <1>1, <1>2, Zenon DEF TypeOK
    <3> QED BY <1>inv, <2>3, <2>15, <3>1, Zenon DEF PinInv
  <2> QED BY <1>1, <2>8, <2>10, <2>11, <2>12, <2>13, <2>14, <2>15, <2>16, <2>17, <2>18, Zenon DEF BankInv
<1> QED BY <1>4, <1>5, Zenon

\* munmap() and exit: the region leaves one process, and nobody else's view changes.
LEMMA UnmapFacts ==
    ASSUME BankInv, NEW m \in MM, NEW r \in Region, Munmap(m, r) \/ ExitVma(m, r)
    PROVE  /\ BankInv' /\ UNCHANGED <<mmState, child>>
           /\ vmas' = [vmas EXCEPT ![m] = @ \ {r}] /\ r \in vmas[m]
           /\ \A x \in MM : \A s \in vmas[x] : x # m \/ s # r => View(x, s)' = View(x, s)
<1>1. /\ r \in vmas[m] /\ bank_detach(m, r)
      /\ UNCHANGED <<mmState, tasks, current, child, todo, newset, pinned>>
  BY Zenon DEF Munmap, ExitVma, forkVars
<1>2. child[m] = None /\ mmState[m] # "building"
  <2>1. CASE Munmap(m, r)
    BY <2>1, UserModeFacts, Zenon DEF Munmap
  <2>2. CASE ExitVma(m, r)
    BY <2>2, Zenon DEF ExitVma, BankInv, ForkInv
  <2> QED BY <2>1, <2>2, Zenon
<1> QED BY <1>1, <1>2, DetachInv, Zenon

-----------------------------------------------------------------------------
(* The context switch. *)

\* The switch, given the invariant: every region the incoming process shares
\* and does not own is swapped with its set; no region lacks an owner and no
\* owner refuses a set.
LEMMA SwitchSwapsAll ==
    ASSUME BankInv, NEW m \in MM, SwitchTo(m)
    PROVE  /\ resident' = [r \in Region |->
                 IF m \in Sharers(r) /\ bank_owner[r] # m THEN pages[r][m] ELSE resident[r]]
           /\ pages' = [r \in Region |->
                 IF m \in Sharers(r) /\ bank_owner[r] # m
                 THEN [pages[r] EXCEPT ![bank_owner[r]] = resident[r], ![m] = << >>]
                 ELSE pages[r]]
           /\ bank_owner' = [r \in Region |->
                 IF m \in Sharers(r) /\ bank_owner[r] # m THEN m ELSE bank_owner[r]]
           /\ UNCHANGED <<broken, orphans, shadow_pages>>
<1>inv. TypeOK /\ BankSetsInv /\ LatchInv
  BY Zenon DEF BankInv
<1> DEFINE Out == {r \in Region : m \in Sharers(r) /\ bank_owner[r] # m}
           Ownerless == {r \in Out : bank_owner[r] = None}
           Swapped == {r \in Out \ Ownerless : bank_can_move(r, bank_owner[r], m)}
<1>1. ASSUME NEW r \in Out
      PROVE  /\ bank_owner[r] \in Sharers(r) /\ bank_owner[r] # None
             /\ bank_can_move(r, bank_owner[r], m)
             /\ Overlay(resident[r], pages[r][m]) = pages[r][m]
             /\ Overlay(pages[r][m], resident[r]) = resident[r]
  <2>1. r \in Region /\ m \in Sharers(r) /\ bank_owner[r] # m
    BY Zenon
  <2>2. bank_owner[r] \in Sharers(r)
    BY <1>inv, <2>1, Zenon DEF BankSetsInv
  <2>3. bank_owner[r] \in MM /\ bank_owner[r] # None
    BY <1>inv, <2>1, <2>2, SharersAreMms, ConstantsAssumption, Zenon
  <2>4. bank_can_move(r, bank_owner[r], m)
    BY <1>inv, <2>1, <2>2, <2>3, Zenon DEF BankSetsInv, bank_can_move
  <2>5. /\ resident[r] \in Seq(Value) /\ pages[r][m] \in Seq(Value)
        /\ Len(pages[r][m]) = Len(resident[r])
    BY <1>inv, <2>1, Types, Zenon DEF BankSetsInv
  <2> QED BY <2>2, <2>3, <2>4, <2>5, OverlayWhole, Zenon
<1>2. Ownerless = {} /\ Swapped = Out
  BY <1>1, Zenon
<1>3. nommu_bank_switch(m)
  BY Zenon DEF SwitchTo
<1>4. resident' = [r \in Region |->
          IF r \in Swapped \cup Ownerless THEN Overlay(resident[r], pages[r][m]) ELSE resident[r]]
  BY <1>3, Zenon DEF nommu_bank_switch
<1>5. pages' = [r \in Region |->
          IF r \in Swapped
          THEN [pages[r] EXCEPT ![bank_owner[r]] = Overlay(pages[r][m], resident[r]),
                                ![m] = << >>]
          ELSE IF r \in Ownerless THEN [pages[r] EXCEPT ![m] = << >>] ELSE pages[r]]
  BY <1>3, Zenon DEF nommu_bank_switch
<1>6. bank_owner' = [r \in Region |->
          IF r \in Swapped \cup Ownerless THEN m ELSE bank_owner[r]]
  BY <1>3, Zenon DEF nommu_bank_switch
<1>7. UNCHANGED <<orphans, shadow_pages>>
  BY <1>2, <1>3, Zenon DEF nommu_bank_switch
<1>8. broken' = broken
  <2>1. Out = Swapped \cup Ownerless
    BY <1>2, Zenon
  <2>2. broken' = (broken \/ FALSE \/ FALSE)
    BY <1>2, <1>3, <2>1, Zenon DEF nommu_bank_switch
  <2> QED BY <1>inv, <2>2, Zenon DEF TypeOK
<1> HIDE DEF Out, Ownerless, Swapped
<1>9. \A r \in Region : r \in Out <=> m \in Sharers(r) /\ bank_owner[r] # m
  BY Zenon DEF Out
<1>10. resident' = [r \in Region |-> IF r \in Out THEN pages[r][m] ELSE resident[r]]
  BY <1>1, <1>2, <1>4, Zenon
<1>11. pages' = [r \in Region |->
          IF r \in Out THEN [pages[r] EXCEPT ![bank_owner[r]] = resident[r], ![m] = << >>]
          ELSE pages[r]]
  BY <1>1, <1>2, <1>5, Zenon
<1>12. bank_owner' = [r \in Region |-> IF r \in Out THEN m ELSE bank_owner[r]]
  BY <1>2, <1>6, Zenon
<1> QED BY <1>7, <1>8, <1>9, <1>10, <1>11, <1>12, Zenon

\* A context switch changes what is resident and what nobody sees.
LEMMA SwitchToInv ==
    ASSUME BankInv, NEW m \in MM, SwitchTo(m)
    PROVE  BankInv' /\ \A x \in MM : \A s \in vmas[x] : View(x, s)' = View(x, s)
<1>inv. /\ TypeOK /\ RingInv /\ MapInv /\ BankSetsInv /\ RunInv /\ LatchInv /\ PinInv
  BY Zenon DEF BankInv
<1>sets. BankSetsInv
  BY <1>inv, Zenon
<1> DEFINE away(r) == m \in Sharers(r) /\ bank_owner[r] # m
<1>1. /\ UNCHANGED <<mmState, tasks, vmas, child, todo, newset, siblings, capacity, pinned>>
      /\ current' = m /\ mmState[m] = "live"
  BY Zenon DEF SwitchTo, nommu_bank_switch, forkVars
<1>2. UNCHANGED <<broken, orphans, shadow_pages>>
  BY SwitchSwapsAll, Zenon
<1>3. /\ \A r \in Region : Sharers(r) \subseteq MM
      /\ \A r \in Region : Sharers(r) # {} => bank_owner[r] \in Sharers(r)
  BY <1>inv, SharersAreMms, Zenon DEF BankSetsInv
<1>4. \A r \in Region : ~away(r) => /\ resident'[r] = resident[r] /\ pages'[r] = pages[r]
                                    /\ bank_owner'[r] = bank_owner[r]
  BY SwitchSwapsAll
<1>5. ASSUME NEW r \in Region, away(r)
      PROVE  /\ resident'[r] = pages[r][m] /\ bank_owner'[r] = m
             /\ bank_owner[r] \in Sharers(r) /\ bank_owner[r] \in MM
             /\ pages'[r] = [pages[r] EXCEPT ![bank_owner[r]] = resident[r], ![m] = << >>]
  BY <1>3, <1>5, SwitchSwapsAll
<1>6. ASSUME NEW r \in Region, away(r)
      PROVE  /\ pages'[r][bank_owner[r]] = resident[r] /\ pages'[r][m] = << >>
             /\ \A x \in MM : x # m /\ x # bank_owner[r] => pages'[r][x] = pages[r][x]
  <2>1. pages[r] \in [MM -> Seq(Value)]
    BY <1>inv, Zenon DEF TypeOK
  <2> QED BY <1>5, <1>6, <2>1, Zenon
<1>7. TypeOK'
  <2>1. resident' \in [Region -> Seq(Value)]
    <3>1. resident' = [r \in Region |-> IF away(r) THEN pages[r][m] ELSE resident[r]]
      BY SwitchSwapsAll, Zenon
    <3>2. \A r \in Region : resident[r] \in Seq(Value) /\ pages[r][m] \in Seq(Value)
      BY <1>inv, Types, Zenon
    <3> HIDE DEF away
    <3> QED BY <3>1, <3>2, Zenon
  <2>2. bank_owner' \in [Region -> MM \cup {None}]
    <3>1. bank_owner' = [r \in Region |-> IF away(r) THEN m ELSE bank_owner[r]]
      BY SwitchSwapsAll, Zenon
    <3>2. bank_owner \in [Region -> MM \cup {None}]
      BY <1>inv, Zenon DEF TypeOK
    <3> HIDE DEF away
    <3> QED BY <3>1, <3>2
  <2>3. \A r \in Region : pages'[r] \in [MM -> Seq(Value)]
    <3>1. \A r \in Region : pages[r] \in [MM -> Seq(Value)] /\ resident[r] \in Seq(Value)
      BY <1>inv, Zenon DEF TypeOK
    <3>2. << >> \in Seq(Value)
      OBVIOUS
    <3>3. ASSUME NEW r \in Region, away(r) PROVE pages'[r] \in [MM -> Seq(Value)]
      <4> DEFINE q == [pages[r] EXCEPT ![bank_owner[r]] = resident[r]]
      <4>1. q \in [MM -> Seq(Value)]
        BY <3>1, Zenon
      <4>2. pages'[r] = [q EXCEPT ![m] = << >>]
        BY <1>5, <3>3, Zenon
      <4> HIDE DEF q
      <4> QED BY <3>2, <4>1, <4>2, Zenon
    <3> HIDE DEF away
    <3> QED BY <1>4, <3>1, <3>3
  <2>4. pages' \in [Region -> [MM -> Seq(Value)]]
    BY <2>3, SwitchSwapsAll, Zenon
  <2> QED BY <1>inv, <1>1, <1>2, <2>1, <2>2, <2>4, Zenon DEF TypeOK
<1>8. \A r \in Region : Sharers(r)' = Sharers(r)
  BY <1>1, Zenon DEF Sharers
<1> HIDE DEF away
<1>9. \A r \in Region : Len(resident'[r]) = Len(resident[r])
  <2>1. ASSUME NEW r \in Region, away(r) PROVE Len(resident'[r]) = Len(resident[r])
    <3>1. m \in Sharers(r) /\ m # bank_owner[r]
      BY <2>1, Zenon DEF away
    <3>2. Len(pages[r][m]) = Len(resident[r])
      BY <1>sets, <3>1, Zenon DEF BankSetsInv
    <3> QED BY <1>5, <2>1, <3>2, Zenon
  <2> QED BY <1>4, <2>1, Zenon
<1>10. RingInv' /\ LatchInv'
  BY <1>inv, <1>1, <1>2, <1>8, Zenon DEF RingInv, LatchInv
<1>11. MapInv'
  BY <1>inv, <1>1, <1>9, Types, Zenon DEF MapInv
<1>12. BankSetsInv'
  <2> SUFFICES ASSUME NEW r \in Region
               PROVE  /\ Sharers(r) # {} => bank_owner'[r] \in Sharers(r)
                      /\ \A x \in Sharers(r) : capacity[r][x] = Len(resident'[r])
                      /\ \A x \in Sharers(r) : x # bank_owner'[r] =>
                             Len(pages'[r][x]) = Len(resident'[r])
                      /\ \A x \in MM : x \notin Sharers(r) \/ x = bank_owner'[r] =>
                             pages'[r][x] = << >>
    BY <1>1, <1>8, Zenon DEF BankSetsInv
  <2>0. /\ Sharers(r) # {} => bank_owner[r] \in Sharers(r)
        /\ \A x \in Sharers(r) : capacity[r][x] = Len(resident[r])
        /\ \A x \in Sharers(r) : x # bank_owner[r] => Len(pages[r][x]) = Len(resident[r])
        /\ \A x \in MM : x \notin Sharers(r) \/ x = bank_owner[r] => pages[r][x] = << >>
    BY <1>sets, Zenon DEF BankSetsInv
  <2>1. CASE ~away(r)
    <3>1. /\ resident'[r] = resident[r] /\ pages'[r] = pages[r]
          /\ bank_owner'[r] = bank_owner[r]
      BY <1>4, <2>1, Zenon
    <3> QED BY <2>0, <3>1, Zenon
  <2>2. CASE away(r)
    <3>1. /\ bank_owner'[r] = m /\ m \in Sharers(r)
          /\ resident'[r] = pages[r][m] /\ bank_owner[r] \in Sharers(r)
      BY <1>5, <2>2, Zenon DEF away
    <3>2. \A x \in Sharers(r) : capacity[r][x] = Len(resident'[r])
      BY <1>9, <2>0, Zenon
    <3>3. \A x \in Sharers(r) : x # m => Len(pages'[r][x]) = Len(resident'[r])
      <4>1. /\ pages'[r][bank_owner[r]] = resident[r]
            /\ \A x \in MM : x # m /\ x # bank_owner[r] => pages'[r][x] = pages[r][x]
        BY <1>6, <2>2, Zenon
      <4> QED BY <1>3, <1>9, <2>0, <4>1, Zenon
    <3>4. ASSUME NEW x \in MM, x \notin Sharers(r) \/ x = m PROVE pages'[r][x] = << >>
      <4>1. /\ pages'[r][m] = << >>
            /\ x # m /\ x # bank_owner[r] => pages'[r][x] = pages[r][x]
        BY <1>6, <2>2, Zenon
      <4> QED BY <2>0, <3>1, <3>4, <4>1, Zenon
    <3> QED BY <3>1, <3>2, <3>3, <3>4, Zenon
  <2> QED BY <2>1, <2>2, Zenon
<1>13. RunInv'
  BY <1>1, <1>4, <1>5, <1>8, Zenon DEF RunInv, away
<1>14. ForkInv' /\ \A p \in MM : MmapLocked(p)' <=> MmapLocked(p)
  BY <1>1, <1>9, ForkMaps, ForkFrame, Zenon
<1>15. ASSUME NEW x \in MM, NEW s \in vmas[x]
       PROVE  View(x, s)' = View(x, s)
  <2>1. s \in Region
    BY <1>inv, Types, Zenon
  <2>2. CASE ~away(s)
    BY <1>4, <1>8, <2>1, <2>2 DEF View
  <2>3. CASE away(s)
    <3>1. x \in Sharers(s)
      BY <1>inv, <2>1, <2>3, Zenon DEF RingInv, away
    <3> QED BY <1>5, <1>6, <1>8, <2>1, <2>3, <3>1, Zenon DEF View, away
  <2> QED BY <2>2, <2>3, Zenon
<1>16. SnapshotInv'
  BY <1>1, <1>15, ForkMaps, SnapshotFrame, Zenon
<1>17. PinInv'
  BY <1>inv, <1>1, <1>8, <1>14, Types, Zenon DEF PinInv
<1> QED BY <1>7, <1>10, <1>11, <1>12, <1>13, <1>14, <1>15, <1>16, <1>17, Zenon DEF BankInv

-----------------------------------------------------------------------------
(* The first pass of fork(), its rollback and its return. *)

\* The first pass of fork() keeps the invariant and every view: it only decides.
LEMMA DupMmapInv ==
    ASSUME BankInv, NEW p \in MM, NEW c \in MM, nommu_bank_dup_mmap(p, c)
    PROVE  /\ BankInv'
           /\ \A x \in MM : \A s \in vmas[x] : View(x, s)' = View(x, s)
<1>inv. /\ TypeOK /\ RingInv /\ MapInv /\ BankSetsInv /\ RunInv /\ LatchInv /\ ForkInv
        /\ SnapshotInv /\ PinInv
  BY Zenon DEF BankInv
<1>1. /\ mmState' = [mmState EXCEPT ![c] = "building"]
      /\ child' = [child EXCEPT ![p] = c]
      /\ todo' = [todo EXCEPT ![p] = vmas[p]]
      /\ UNCHANGED <<tasks, vmas, current, newset, siblings, bank_owner, resident, capacity,
                     pages, shadow_pages, orphans, broken, pinned>>
  BY Zenon DEF nommu_bank_dup_mmap, bankVars, latchVars
<1>2. /\ child[p] = None /\ mmState[p] = "live" /\ current = p
      /\ mmState[c] = "free" /\ tasks[p] = 1 /\ vmas[p] \cap pinned = {}
  BY UserModeFacts, Zenon DEF nommu_bank_dup_mmap
<1>3. TypeOK'
  BY <1>inv, <1>1, Zenon DEF TypeOK
<1>4. \A s \in Region : Sharers(s)' = Sharers(s)
  BY <1>1, Zenon DEF Sharers
<1>5. /\ \A x \in MM : mmState'[x] = IF x = c THEN "building" ELSE mmState[x]
      /\ \A x \in MM : child'[x] = IF x = p THEN c ELSE child[x]
      /\ \A x \in MM : todo'[x] = IF x = p THEN vmas[p] ELSE todo[x]
  BY <1>inv, <1>1, Zenon DEF TypeOK
<1>6. RingInv' /\ LatchInv'
  BY <1>inv, <1>1, <1>4, Zenon DEF RingInv, LatchInv
<1>7. MapInv'
  BY <1>inv, <1>1, <1>5 DEF MapInv
<1>8. BankSetsInv'
  BY <1>inv, <1>1, <1>4, Zenon DEF BankSetsInv
<1>9. RunInv'
  BY <1>inv, <1>1, <1>2, <1>4, <1>5, Zenon DEF RunInv
<1>10. \A x \in MM : child[x] # None => child[x] \in MM /\ child[x] # c /\ x # p
  BY <1>inv, <1>2, Types, Zenon DEF ForkInv
<1>11. c # None /\ p # c /\ vmas[c] = {} /\ newset[p] = None
  BY <1>inv, <1>2, ConstantsAssumption DEF MapInv, ForkInv, MmapLocked
<1>12. \A x \in MM : MmapLocked(x)' <=> x = p \/ MmapLocked(x)
  BY <1>5, <1>10, <1>11, ConstantsAssumption DEF MmapLocked
<1>13. ForkInv'
  <2>1. ASSUME NEW x \in MM, child'[x] # None
        PROVE  /\ mmState'[x] = "live" /\ tasks'[x] = 1
               /\ mmState'[child'[x]] \in {"building", "exiting"}
               /\ \A q \in MM : child'[q] = child'[x] => q = x
    <3>1. CASE x = p
      BY <1>1, <1>2, <1>5, <1>10, <1>11, <3>1
    <3>2. CASE x # p
      <4>1. child'[x] = child[x] /\ child[x] # None /\ child[x] # c /\ child[x] \in MM
        BY <1>5, <1>10, <2>1, <3>2, Zenon
      <4>2. /\ mmState[x] = "live" /\ tasks[x] = 1
            /\ mmState[child[x]] \in {"building", "exiting"}
            /\ \A q \in MM : child[q] = child[x] => q = x
        BY <1>inv, <4>1, Zenon DEF ForkInv
      <4> QED BY <1>1, <1>2, <1>5, <4>1, <4>2
    <3> QED BY <3>1, <3>2, Zenon
  <2>2. ASSUME NEW x \in MM, MmapLocked(x)'
        PROVE  /\ todo'[x] \subseteq vmas'[x] /\ vmas'[child'[x]] = vmas'[x] \ todo'[x]
               /\ newset'[x] # None =>
                    /\ newset'[x] \in todo'[x]
                    /\ capacity'[newset'[x]][child'[x]] = Len(resident'[newset'[x]])
    <3>1. CASE x = p
      BY <1>1, <1>5, <1>11, <3>1, Zenon
    <3>2. CASE x # p
      <4>1. MmapLocked(x)
        BY <1>12, <2>2, <3>2, Zenon
      <4>2. /\ todo[x] \subseteq vmas[x] /\ vmas[child[x]] = vmas[x] \ todo[x]
            /\ newset[x] # None => /\ newset[x] \in todo[x]
                                   /\ capacity[newset[x]][child[x]] = Len(resident[newset[x]])
        BY <4>1, ForkMaps, Zenon
      <4>3. child'[x] = child[x] /\ todo'[x] = todo[x]
        BY <1>5, <3>2, Zenon
      <4> QED BY <1>1, <4>2, <4>3, Zenon
    <3> QED BY <3>1, <3>2, Zenon
  <2>3. ASSUME NEW x \in MM, ~MmapLocked(x)' PROVE todo'[x] = {} /\ newset'[x] = None
    BY <1>inv, <1>1, <1>5, <1>12, <2>3 DEF ForkInv
  <2> QED BY <2>1, <2>2, <2>3, Zenon DEF ForkInv
<1>14. \A x \in MM : \A s \in vmas[x] : View(x, s)' = View(x, s)
  BY <1>inv, <1>1, <1>4, Types, Zenon DEF View
<1>15. SnapshotInv'
  <2> SUFFICES ASSUME NEW x \in MM, NEW d \in MM, MmapLocked(x)', d = child'[x], NEW s \in vmas'[d]
               PROVE  View(d, s)' = View(x, s)'
    BY Zenon DEF SnapshotInv
  <2>1. x # p /\ MmapLocked(x) /\ d = child[x] /\ s \in vmas[d]
    BY <1>1, <1>5, <1>11, <1>12, Zenon
  <2>2. View(d, s) = View(x, s) /\ s \in vmas[x]
    BY <2>1, ForkMaps, ForkShares
  <2> QED BY <1>14, <2>1, <2>2, Zenon
<1>16. PinInv'
  BY <1>inv, <1>1, <1>2, <1>4, <1>12, Types, Zenon DEF PinInv
<1> QED BY <1>3, <1>6, <1>7, <1>8, <1>9, <1>13, <1>14, <1>15, <1>16, Zenon DEF BankInv

\* Taking down a half-built child keeps the invariant and every view.
LEMMA ForkFailInv ==
    ASSUME BankInv, NEW p \in MM, ForkFail(p)
    PROVE  /\ BankInv'
           /\ \A x \in MM : \A s \in vmas[x] : View(x, s)' = View(x, s)
           /\ vmas' = vmas
           /\ \A x \in MM : mmState'[x] = "live" <=> mmState[x] = "live"
<1>inv. /\ TypeOK /\ RingInv /\ MapInv /\ BankSetsInv /\ RunInv /\ LatchInv /\ ForkInv
        /\ SnapshotInv /\ PinInv
  BY Zenon DEF BankInv
<1>0. child[p] \in MM
  BY ForkChild, Zenon DEF ForkFail
<1> SUFFICES ASSUME NEW c \in MM, c = child[p]
             PROVE  /\ BankInv'
                    /\ \A x \in MM : \A s \in vmas[x] : View(x, s)' = View(x, s)
                    /\ vmas' = vmas
                    /\ \A x \in MM : mmState'[x] = "live" <=> mmState[x] = "live"
  BY <1>0, Zenon
<1>1. /\ mmState' = [mmState EXCEPT ![c] = "exiting"]
      /\ todo' = [todo EXCEPT ![p] = {}]
      /\ newset' = [newset EXCEPT ![p] = None]
      /\ UNCHANGED <<tasks, vmas, current, child, siblings, bank_owner, resident, pages,
                     orphans, broken, pinned>>
      /\ MmapLocked(p)
  BY Zenon DEF ForkFail, latchVars
<1>2. /\ c # p /\ mmState[c] = "building" /\ mmState[p] = "live"
      /\ \A q \in MM : child[q] = c => q = p
      /\ newset[p] # None => newset[p] \in Region /\ c \notin Sharers(newset[p])
  BY <1>inv, <1>1, ForkMaps DEF ForkInv, MmapLocked
<1>3. /\ shadow_pages' \in Int /\ capacity' \in [Region -> [MM -> Nat]]
      /\ \A s \in Region, x \in MM : x # c \/ s # newset[p] => capacity'[s][x] = capacity[s][x]
  <2>1. shadow_pages \in Int /\ capacity \in [Region -> [MM -> Nat]]
    BY <1>inv, Zenon DEF TypeOK
  <2>2. CASE newset[p] = None
    BY <2>1, <2>2, Zenon DEF ForkFail
  <2>3. CASE newset[p] # None
    <3>1. /\ capacity' = [capacity EXCEPT ![newset[p]][c] = 0]
          /\ shadow_pages' = shadow_pages - capacity[newset[p]][c]
      BY <2>3, Zenon DEF ForkFail
    <3>2. capacity[newset[p]][c] \in Nat
      BY <1>2, <2>1, <2>3, Zenon
    <3>3. shadow_pages' \in Int
      BY <2>1, <3>1, <3>2
    <3> QED BY <1>2, <2>1, <2>3, <3>1, <3>3, Zenon
  <2> QED BY <2>2, <2>3, Zenon
<1>4. TypeOK'
  BY <1>inv, <1>1, <1>3, Zenon DEF TypeOK
<1>5. /\ \A x \in MM : mmState'[x] = IF x = c THEN "exiting" ELSE mmState[x]
      /\ \A x \in MM : todo'[x] = IF x = p THEN {} ELSE todo[x]
      /\ \A x \in MM : newset'[x] = IF x = p THEN None ELSE newset[x]
  BY <1>inv, <1>1, Zenon DEF TypeOK
<1>6. \A s \in Region : Sharers(s)' = Sharers(s)
  BY <1>1, Zenon DEF Sharers
<1>7. \A x \in MM : MmapLocked(x)' <=> x # p /\ MmapLocked(x)
  BY <1>inv, <1>1, <1>2, <1>5, Types DEF MmapLocked
<1>8. RingInv' /\ LatchInv'
  <2>1. UNCHANGED <<siblings, vmas, orphans, broken>>
    BY <1>1, Zenon
  <2> QED BY <1>inv, <1>6, <2>1, Zenon DEF RingInv, LatchInv
<1>9. MapInv'
  BY <1>inv, <1>1, <1>5 DEF MapInv
<1>10. BankSetsInv'
  <2>1. ASSUME NEW s \in Region, NEW x \in Sharers(s) PROVE capacity'[s][x] = capacity[s][x]
    BY <1>inv, <1>2, <1>3, SharersAreMms, ConstantsAssumption
  <2>2. UNCHANGED <<bank_owner, resident, pages>>
    BY <1>1, Zenon
  <2> QED BY <1>inv, <1>6, <2>1, <2>2 DEF BankSetsInv
<1>11. RunInv'
  <2>1. current # None => current \in MM /\ current # c
    BY <1>inv, <1>2, Zenon DEF RunInv, TypeOK
  <2> QED BY <1>inv, <1>1, <1>5, <1>6, <2>1, Zenon DEF RunInv
<1>12. ForkInv'
  <2>1. ASSUME NEW x \in MM, child[x] # None
        PROVE  /\ mmState'[x] = "live" /\ tasks[x] = 1
               /\ mmState'[child[x]] \in {"building", "exiting"}
               /\ \A q \in MM : child[q] = child[x] => q = x
    <3>1. /\ mmState[x] = "live" /\ tasks[x] = 1 /\ child[x] \in MM
          /\ mmState[child[x]] \in {"building", "exiting"}
          /\ \A q \in MM : child[q] = child[x] => q = x
      BY <1>inv, <2>1, Types, Zenon DEF ForkInv
    <3> QED BY <1>2, <1>5, <3>1, Zenon
  <2>2. ASSUME NEW x \in MM, x # p, MmapLocked(x)
        PROVE  /\ todo'[x] \subseteq vmas[x] /\ vmas[child[x]] = vmas[x] \ todo'[x]
               /\ newset'[x] # None =>
                    /\ newset'[x] \in todo'[x]
                    /\ capacity'[newset'[x]][child[x]] = Len(resident[newset'[x]])
    <3>1. /\ child[x] # c /\ child[x] \in MM
          /\ newset'[x] = newset[x] /\ todo'[x] = todo[x]
      BY <1>2, <1>5, <2>2, ForkChild, Zenon
    <3>2. /\ todo[x] \subseteq vmas[x] /\ vmas[child[x]] = vmas[x] \ todo[x]
          /\ newset[x] # None =>
               /\ newset[x] \in todo[x] /\ newset[x] \in Region
               /\ capacity[newset[x]][child[x]] = Len(resident[newset[x]])
      BY <2>2, ForkMaps, Zenon
    <3>3. newset[x] # None => capacity'[newset[x]][child[x]] = capacity[newset[x]][child[x]]
      BY <1>3, <3>1, <3>2, Zenon
    <3>4. resident' = resident /\ vmas' = vmas
      BY <1>1, Zenon
    <3> QED BY <3>1, <3>2, <3>3, <3>4, Zenon
  <2>3. ASSUME NEW x \in MM, x = p \/ ~MmapLocked(x) PROVE todo'[x] = {} /\ newset'[x] = None
    BY <1>inv, <1>5, <2>3, Zenon DEF ForkInv
  <2> QED BY <1>1, <1>7, <2>1, <2>2, <2>3 DEF ForkInv
<1>13. \A x \in MM : \A s \in vmas[x] : View(x, s)' = View(x, s)
  BY <1>inv, <1>1, <1>6, Types, Zenon DEF View
<1>14. SnapshotInv'
  <2> SUFFICES ASSUME NEW x \in MM, NEW d \in MM, MmapLocked(x), d = child[x], NEW s \in vmas[d]
               PROVE  View(d, s)' = View(x, s)'
    BY <1>1, <1>7, Zenon DEF SnapshotInv
  <2>1. View(d, s) = View(x, s) /\ s \in vmas[x]
    BY ForkMaps, ForkShares
  <2>2. View(d, s)' = View(d, s)
    BY <1>13, Zenon
  <2>3. View(x, s)' = View(x, s)
    BY <1>13, <2>1, Zenon
  <2> QED BY <2>1, <2>2, <2>3, Zenon
<1>15. PinInv'
  BY <1>inv, <1>1, <1>6, <1>7, Types, Zenon DEF PinInv
<1>16. \A x \in MM : mmState'[x] = "live" <=> mmState[x] = "live"
  BY <1>2, <1>5, Zenon
<1> QED BY <1>1, <1>4, <1>8, <1>9, <1>10, <1>11, <1>12, <1>13, <1>14, <1>15, <1>16, Zenon DEF BankInv

\* When fork returns, the child maps what the parent maps and sees the same.
LEMMA ForkDoneInv ==
    ASSUME BankInv, NEW p \in MM, NEW c \in MM, c = child[p], ForkDone(p)
    PROVE  /\ BankInv'
           /\ \A x \in MM : \A s \in vmas[x] : View(x, s)' = View(x, s)
           /\ c # p /\ mmState[p] = "live" /\ mmState[c] = "building" /\ vmas' = vmas
           /\ \A x \in MM : mmState'[x] = IF x = c THEN "live" ELSE mmState[x]
           /\ vmas[c] = vmas[p] /\ \A s \in vmas[c] : View(c, s) = View(p, s)
<1>inv. /\ TypeOK /\ RingInv /\ MapInv /\ BankSetsInv /\ RunInv /\ LatchInv /\ ForkInv
        /\ SnapshotInv /\ PinInv
  BY Zenon DEF BankInv
<1>1. /\ mmState' = [mmState EXCEPT ![c] = "live"]
      /\ tasks' = [tasks EXCEPT ![c] = 1]
      /\ child' = [child EXCEPT ![p] = None]
      /\ UNCHANGED <<vmas, current, todo, newset, siblings, bank_owner, resident, capacity,
                     pages, shadow_pages, orphans, broken, pinned>>
      /\ MmapLocked(p) /\ todo[p] = {}
  BY Zenon DEF ForkDone, bankVars, latchVars
<1>2. /\ c # p /\ mmState[c] = "building" /\ mmState[p] = "live" /\ newset[p] = None
      /\ vmas[c] = vmas[p] /\ \A s \in vmas[c] : View(c, s) = View(p, s)
  <2>1. \A s \in vmas[c] : View(c, s) = View(p, s)
    BY <1>inv, <1>1, Zenon DEF SnapshotInv
  <2>2. /\ c # p /\ mmState[c] = "building" /\ mmState[p] = "live"
        /\ vmas[c] = vmas[p] \ todo[p]
        /\ newset[p] # None => newset[p] \in todo[p]
    BY <1>1, ForkChild, ForkMaps, Zenon
  <2> QED BY <1>1, <2>1, <2>2, Zenon
<1>3. \A q \in MM : child[q] = c => q = p
  BY <1>inv, <1>1 DEF ForkInv, MmapLocked
<1>4. TypeOK'
  BY <1>inv, <1>1, ConstantsAssumption, 1 \in 0..MaxTasks, Zenon DEF TypeOK
<1>5. /\ \A x \in MM : mmState'[x] = IF x = c THEN "live" ELSE mmState[x]
      /\ \A x \in MM : tasks'[x] = IF x = c THEN 1 ELSE tasks[x]
      /\ \A x \in MM : child'[x] = IF x = p THEN None ELSE child[x]
  BY <1>inv, <1>1, Zenon DEF TypeOK
<1>6. \A s \in Region : Sharers(s)' = Sharers(s)
  BY <1>1, Zenon DEF Sharers
<1>7. \A x \in MM : MmapLocked(x)' <=> x # p /\ MmapLocked(x)
  <2>1. ~MmapLocked(p)'
    BY <1>5, Zenon DEF MmapLocked
  <2>2. ASSUME NEW x \in MM, x # p PROVE MmapLocked(x)' <=> MmapLocked(x)
    <3>1. child'[x] = child[x] /\ child[x] # c /\ child[x] \in MM \cup {None}
      BY <1>inv, <1>3, <1>5, <2>2, Types, Zenon
    <3> QED BY <1>5, <3>1, Zenon DEF MmapLocked
  <2> QED BY <2>1, <2>2, Zenon
<1>8. RingInv' /\ LatchInv'
  BY <1>inv, <1>1, <1>6, Zenon DEF RingInv, LatchInv
<1>15. BankSetsInv'
  BY <1>inv, <1>1, <1>6, Zenon DEF BankSetsInv
<1>9. MapInv'
  BY <1>inv, <1>1, <1>5 DEF MapInv
<1>10. RunInv'
  BY <1>inv, <1>1, <1>5, <1>6 DEF RunInv, TypeOK
<1>11. ForkInv'
  <2>1. ASSUME NEW x \in MM, child'[x] # None
        PROVE  /\ mmState'[x] = "live" /\ tasks'[x] = 1
               /\ mmState'[child'[x]] \in {"building", "exiting"}
               /\ \A q \in MM : child'[q] = child'[x] => q = x
    <3>1. x # p /\ child'[x] = child[x]
      BY <1>5, <2>1, Zenon
    <3>2. /\ mmState[x] = "live" /\ tasks[x] = 1 /\ child[x] \in MM
          /\ mmState[child[x]] \in {"building", "exiting"}
          /\ \A q \in MM : child[q] = child[x] => q = x
      BY <1>inv, <2>1, <3>1, Types, Zenon DEF ForkInv
    <3>3. child[x] # c
      BY <1>3, <3>1, Zenon
    <3> QED BY <1>5, <2>1, <3>1, <3>2, <3>3
  <2>2. ASSUME NEW x \in MM, x # p, MmapLocked(x)
        PROVE  /\ child'[x] = child[x]
               /\ todo[x] \subseteq vmas[x] /\ vmas[child[x]] = vmas[x] \ todo[x]
               /\ newset[x] # None =>
                    /\ newset[x] \in todo[x]
                    /\ capacity[newset[x]][child[x]] = Len(resident[newset[x]])
    BY <1>5, <2>2, ForkMaps, Zenon
  <2>3. ASSUME NEW x \in MM, x = p \/ ~MmapLocked(x) PROVE todo[x] = {} /\ newset[x] = None
    BY <1>inv, <1>1, <1>2, <2>3, Zenon DEF ForkInv
  <2> QED BY <1>1, <1>7, <2>1, <2>2, <2>3 DEF ForkInv
<1>12. \A x \in MM : \A s \in vmas[x] : View(x, s)' = View(x, s)
  BY <1>inv, <1>1, <1>6, Types, Zenon DEF View
<1>13. SnapshotInv'
  <2> SUFFICES ASSUME NEW x \in MM, NEW d \in MM, x # p, MmapLocked(x), d = child[x],
                      NEW s \in vmas[d]
               PROVE  View(d, s)' = View(x, s)'
    BY <1>1, <1>5, <1>7 DEF SnapshotInv
  <2>1. View(d, s) = View(x, s) /\ s \in vmas[x]
    BY ForkMaps, ForkShares
  <2> QED BY <1>12, <2>1, Zenon
<1>14. PinInv'
  BY <1>inv, <1>1, <1>6, <1>7, Types, Zenon DEF PinInv
<1> QED BY <1>1, <1>2, <1>4, <1>5, <1>8, <1>9, <1>10, <1>11, <1>12, <1>13, <1>14, <1>15, Zenon DEF BankInv

-----------------------------------------------------------------------------
(* Every step. *)

\* Each step of the second pass of fork() keeps the invariant.
LEMMA ForkStepInv ==
    ASSUME BankInv, NEW p \in MM, ForkStep(p) PROVE BankInv'
<1>1. CASE ForkDone(p)
  <2>1. child[p] \in MM
    BY <1>1, ForkChild, Zenon DEF ForkDone
  <2> QED BY <1>1, <2>1, ForkDoneInv, Zenon
<1> QED BY <1>1, AllocInv, CloneInv, ForkFailInv, Zenon DEF ForkStep

\* Every step of the bank code keeps the invariant.
LEMMA NextInv == BankInv /\ [Next]_vars => BankInv'
<1> SUFFICES ASSUME BankInv, [Next]_vars PROVE BankInv'
  BY Zenon
<1>1. CASE \E m \in MM : SwitchTo(m)
  BY <1>1, SwitchToInv, Zenon
<1>2. CASE \E m \in MM, r \in Region, i \in 1..MaxPages, v \in Value : Write(m, r, i, v)
  BY <1>2, WriteInv, Zenon
<1>3. CASE \E m \in MM, r \in Region, i \in 1..MaxPages, v \in Value : bank_access(m, r, i, v)
  BY <1>3, AccessInv, Zenon
<1>4. CASE \E m \in MM, r \in Region : Munmap(m, r)
  BY <1>4, UnmapFacts, Zenon
<1>5. CASE \E m \in MM : ExitMm(m)
  BY <1>5, ExitMmInv, Zenon
<1>6. CASE \E m \in MM : ExitStep(m)
  BY <1>6, UnmapFacts, FreeMmInv, Zenon DEF ExitStep
<1>7. CASE \E p, c \in MM : nommu_bank_dup_mmap(p, c)
  BY <1>7, DupMmapInv, Zenon
<1>8. CASE \E p \in MM : ForkStep(p)
  BY <1>8, ForkStepInv, Zenon
<1>9. CASE \E m \in MM : NewMm(m)
  BY <1>9, NewMmInv, Zenon
<1>10. CASE \E m \in MM, r \in Region, n \in 1..MaxPages : Mmap(m, r, n)
  BY <1>10, MmapInv, Zenon
<1>11. CASE \E m \in MM, r \in Region : vmi_shrink_vma(m, r)
  BY <1>11, ShrinkInv, Zenon
<1>12. CASE \E m \in MM : ThreadClone(m) \/ ThreadExit(m)
  BY <1>12, ThreadInv, Zenon
<1>13. CASE \E m \in MM, r \in Region : GetUserPages(m, r)
  BY <1>13, GetUserPagesInv, Zenon
<1>14. CASE \E r \in Region : PutPage(r)
  BY <1>14, PutPageInv, Zenon
<1>15. CASE UNCHANGED vars
  <2> USE <1>15 DEF vars, procVars, forkVars, bankVars, latchVars, BankInv
  <2>1. TypeOK'
    BY Zenon DEF TypeOK
  <2>2. RingInv' /\ LatchInv' /\ MapInv' /\ RunInv'
    BY Zenon DEF RingInv, LatchInv, MapInv, RunInv, Sharers
  <2>3. BankSetsInv'
    BY Zenon DEF BankSetsInv, Sharers
  <2>4. ForkInv'
    BY DEF ForkInv, MmapLocked
  <2>5. SnapshotInv'
    BY DEF SnapshotInv, MmapLocked, View, Sharers
  <2>6. PinInv'
    BY Zenon DEF PinInv, MmapLocked, Sharers
  <2> QED BY <2>1, <2>2, <2>3, <2>4, <2>5, <2>6, Zenon
<1> QED BY <1>1, <1>2, <1>3, <1>4, <1>5, <1>6, <1>7, <1>8, <1>9, <1>10, <1>11, <1>12,
           <1>13, <1>14, <1>15, Zenon DEF Next

-----------------------------------------------------------------------------
(* The theorems *)

\* BankInv holds in every reachable state of the kernel's fork, switch and exit
\* code, whatever the number of processes, regions, pages and values.
THEOREM InvariantHolds == Spec => []BankInv
BY InitInv, NextInv, PTL DEF Spec

\* Types: every descriptor, page set and counter keeps its shape.
THEOREM TypeCorrect == Spec => []TypeOK
<1>1. BankInv => TypeOK
  BY Zenon DEF BankInv
<1> QED BY <1>1, InvariantHolds, PTL

\* bank_move_pages, bank_detach and bank_clone together keep one full page set
\* for every sharer that is not resident, and none for the resident owner.
THEOREM PageSetsCorrect == Spec => []OneSetPerAbsentee
<1>1. ASSUME BankInv PROVE OneSetPerAbsentee
  <2> SUFFICES ASSUME NEW r \in Region, NEW m \in Sharers(r)
               PROVE  Len(pages[r][m]) = IF bank_owner[r] = m THEN 0 ELSE Len(resident[r])
    BY Zenon DEF OneSetPerAbsentee
  <2>1. m \in MM
    BY <1>1, SharersAreMms, Zenon DEF BankInv
  <2> QED BY <1>1, <2>1 DEF BankInv, BankSetsInv
<1> QED BY <1>1, InvariantHolds, PTL

\* The process on the CPU owns every banked region it maps, so the resident
\* bytes bank_clone() copies into a child are the caller's.
THEOREM RunningResident == Spec => []RunningIsResident
<1>1. BankInv => RunningIsResident
  BY Zenon DEF BankInv, RunInv, RunningIsResident
<1> QED BY <1>1, InvariantHolds, PTL

\* nommu_bank_switch() never meets a region without an owner, nor an owner
\* that cannot take a page set.
THEOREM LatchUnreachable == Spec => []LatchNeverFires
<1>1. ASSUME BankInv PROVE LatchNeverFires
  BY <1>1, SharersAreMms, Zenon DEF BankInv, BankSetsInv, LatchInv, LatchNeverFires
<1> QED BY <1>1, InvariantHolds, PTL

\* A page with a foreign reference is never part of a banked region.
THEOREM PinnedSafe == Spec => []PinnedIsNeverBanked
<1>1. ASSUME BankInv PROVE PinnedIsNeverBanked
  <2>1. \A r \in pinned : r \in Region /\ Sharers(r) = {}
    BY <1>1, Types, Zenon DEF BankInv, PinInv
  <2> QED BY <1>1, <2>1, SharersAreMms, Zenon DEF BankInv, PinnedIsNeverBanked
<1> QED BY <1>1, InvariantHolds, PTL

-----------------------------------------------------------------------------
(* The refinement *)

\* If no process sees a change, the abstract memory is unchanged.
LEMMA MemUnchanged ==
    ASSUME \A x \in MM, s \in Region : Seen(x, s)' = Seen(x, s)
    PROVE  SeenMem' = SeenMem
BY Zenon DEF SeenMem

\* If one process sees one region change, so does the abstract memory.
LEMMA MemOneCell ==
    ASSUME NEW m \in MM, NEW r \in Region, NEW e, Seen(m, r)' = e,
           \A x \in MM, s \in Region : x # m \/ s # r => Seen(x, s)' = Seen(x, s)
    PROVE  SeenMem' = [SeenMem EXCEPT ![m][r] = e]
<1>1. \A x \in MM, s \in Region : SeenMem'[x][s] = Seen(x, s)' /\ SeenMem[x][s] = Seen(x, s)
  BY Zenon DEF SeenMem
<1> DEFINE new == [SeenMem EXCEPT ![m][r] = e]
<1>2. /\ SeenMem' = [x \in MM |-> [s \in Region |-> SeenMem'[x][s]]]
      /\ SeenMem = [x \in MM |-> [s \in Region |-> SeenMem[x][s]]]
  BY Zenon DEF SeenMem
<1>3. new = [x \in MM |-> [s \in Region |-> IF x = m /\ s = r THEN e ELSE SeenMem[x][s]]]
  BY <1>2, Zenon
<1>4. \A x \in MM, s \in Region :
          SeenMem'[x][s] = IF x = m /\ s = r THEN e ELSE SeenMem[x][s]
  BY <1>1
<1> HIDE DEF new
<1>5. SeenMem' = new
  BY <1>2, <1>3, <1>4, ZenonT(30)
<1> QED BY <1>5, Zenon DEF new

\* A step after which the same processes are alive with the same mappings and
\* contents is a stutter.
LEMMA SameViews ==
    ASSUME \A x \in MM : mmState'[x] = "live" <=> mmState[x] = "live",
           \A x \in MM : mmState[x] = "live" => vmas'[x] = vmas[x],
           \A x \in MM : \A s \in vmas[x] : View(x, s)' = View(x, s)
    PROVE  SeenMem' = SeenMem
<1>1. ASSUME NEW x \in MM, NEW s \in Region PROVE Seen(x, s)' = Seen(x, s)
  BY Zenon DEF Seen
<1> QED BY <1>1, MemUnchanged, Zenon

\* A store to one page.
LEMMA StoreStep ==
    ASSUME BankInv, NEW m \in MM, NEW r \in Region, NEW i \in 1..MaxPages, NEW v \in Value,
           mmState[m] = "live", r \in vmas[m], UNCHANGED <<mmState, vmas>>,
           i \in DOMAIN View(m, r), View(m, r)' = [View(m, r) EXCEPT ![i] = v],
           \A x \in MM : \A s \in vmas[x] : x # m \/ s # r => View(x, s)' = View(x, s)
    PROVE  PrivateMem!Store(m, r, i, v)
<1>1. ASSUME NEW x \in MM, NEW s \in Region, x # m \/ s # r PROVE Seen(x, s)' = Seen(x, s)
  BY <1>1, Zenon DEF Seen
<1>2. Seen(m, r)' = [View(m, r) EXCEPT ![i] = v] /\ Seen(m, r) = View(m, r)
  BY Zenon DEF Seen
<1>3. SeenMem[m][r] = View(m, r)
  BY <1>2, Zenon DEF SeenMem
<1>4. SeenMem' = [SeenMem EXCEPT ![m][r] = [View(m, r) EXCEPT ![i] = v]]
  BY <1>1, <1>2, MemOneCell
<1>5. SeenMem' = [SeenMem EXCEPT ![m][r][i] = v]
  BY <1>3, <1>4, Zenon DEF SeenMem
<1> QED BY <1>3, <1>5, Zenon DEF PrivateMem!Store

\* munmap() of the last page of an unbanked region.
LEMMA ShortenStep ==
    ASSUME BankInv, NEW m \in MM, NEW r \in Region, vmi_shrink_vma(m, r)
    PROVE  PrivateMem!Shorten(m, r)
<1>1. /\ mmState[m] = "live" /\ r \in vmas[m] /\ Len(resident[r]) > 1
      /\ UNCHANGED <<mmState, vmas>>
  BY UserModeFacts, Zenon DEF vmi_shrink_vma, procVars
<1>2. ASSUME NEW x \in MM, NEW s \in Region, x # m \/ s # r PROVE Seen(x, s)' = Seen(x, s)
  BY <1>1, <1>2, ShrinkInv DEF Seen
<1>3. /\ Seen(m, r)' = SubSeq(resident[r], 1, Len(resident[r]) - 1)
      /\ Seen(m, r) = resident[r]
  BY <1>1, ShrinkInv, Zenon DEF Seen
<1>4. SeenMem[m][r] = resident[r]
  BY <1>3, Zenon DEF SeenMem
<1>5. SeenMem' = [SeenMem EXCEPT ![m][r] = SubSeq(resident[r], 1, Len(resident[r]) - 1)]
  BY <1>2, <1>3, MemOneCell
<1>6. SeenMem' = [SeenMem EXCEPT ![m][r] = SubSeq(@, 1, Len(@) - 1)]
  BY <1>4, <1>5, Zenon DEF SeenMem
<1> QED BY <1>1, <1>4, <1>6, Zenon DEF PrivateMem!Shorten

\* mmap() of a fresh region.
LEMMA MapStep ==
    ASSUME BankInv, NEW m \in MM, NEW r \in Region, NEW n \in 1..MaxPages, Mmap(m, r, n)
    PROVE  PrivateMem!Map(m, r, n)
<1>1. /\ mmState[m] = "live" /\ mmState' = mmState
      /\ vmas' = [vmas EXCEPT ![m] = @ \cup {r}]
  BY UserModeFacts, Zenon DEF Mmap
<1>2. r \notin vmas[m]
  BY Zenon DEF Mmap, vm_usage
<1>3. /\ \A x \in MM, s \in Region : x # m \/ s # r => (s \in vmas'[x] <=> s \in vmas[x])
      /\ r \in vmas'[m]
  BY <1>1, Zenon DEF BankInv, TypeOK
<1>4. ASSUME NEW x \in MM, NEW s \in Region, x # m \/ s # r PROVE Seen(x, s)' = Seen(x, s)
  BY <1>1, <1>3, <1>4, MmapInv, Zenon DEF Seen
<1>5. Seen(m, r)' = [i \in 1..n |-> Zero] /\ Seen(m, r) = << >>
  BY <1>1, <1>2, <1>3, MmapInv, Zenon DEF Seen
<1>6. SeenMem[m][r] = << >>
  BY <1>5, Zenon DEF SeenMem
<1>7. SeenMem' = [SeenMem EXCEPT ![m][r] = [i \in 1..n |-> Zero]]
  BY <1>4, <1>5, MemOneCell
<1> QED BY <1>6, <1>7, Zenon DEF PrivateMem!Map

\* A mapped region has at least one page, in whichever copy.
LEMMA ViewNotEmpty ==
    ASSUME BankInv, NEW m \in MM, NEW r \in Region, r \in vmas[m]
    PROVE  View(m, r) # << >>
<1>1. Len(resident[r]) \in 1..MaxPages
  BY Zenon DEF BankInv, MapInv
<1>2. m \in Sharers(r) /\ bank_owner[r] # m => Len(pages[r][m]) = Len(resident[r])
  BY Zenon DEF BankInv, BankSetsInv
<1>3. Len(View(m, r)) \in 1..MaxPages
  BY <1>1, <1>2, Zenon DEF View
<1>4. Len(<< >>) = 0
  BY Zenon
<1>5. MaxPages \in Nat
  BY ConstantsAssumption, Zenon
<1> QED BY <1>3, <1>4, <1>5

\* munmap() of a region, by a live process, or one step of its exit_mmap().
LEMMA UnmapStep ==
    ASSUME BankInv, NEW m \in MM, NEW r \in Region, Munmap(m, r) \/ ExitVma(m, r)
    PROVE  PrivateMem!Unmap(m, r) \/ SeenMem' = SeenMem
<1>1. /\ UNCHANGED mmState /\ r \in vmas[m] /\ vmas' = [vmas EXCEPT ![m] = @ \ {r}]
      /\ \A x \in MM : \A s \in vmas[x] : x # m \/ s # r => View(x, s)' = View(x, s)
  BY UnmapFacts, Zenon
<1>2. /\ \A x \in MM, s \in Region : x # m \/ s # r => (s \in vmas'[x] <=> s \in vmas[x])
      /\ r \notin vmas'[m]
  BY <1>1, Zenon DEF BankInv, TypeOK
<1>3. ASSUME NEW x \in MM, NEW s \in Region, x # m \/ s # r PROVE Seen(x, s)' = Seen(x, s)
  BY <1>1, <1>2, <1>3, Zenon DEF Seen
<1>4. Seen(m, r)' = << >>
  BY <1>2, Zenon DEF Seen
<1>5. CASE mmState[m] = "live"
  <2>1. Seen(m, r) # << >>
    BY <1>1, <1>5, ViewNotEmpty, Zenon DEF Seen
  <2>2. SeenMem[m][r] # << >>
    BY <2>1, Zenon DEF SeenMem
  <2>3. SeenMem' = [SeenMem EXCEPT ![m][r] = << >>]
    BY <1>3, <1>4, MemOneCell
  <2> QED BY <2>2, <2>3, Zenon DEF PrivateMem!Unmap
<1>6. CASE mmState[m] # "live"
  <2>1. Seen(m, r) = << >>
    BY <1>6, Zenon DEF Seen
  <2> QED BY <1>3, <1>4, <2>1, MemUnchanged, Zenon
<1> QED BY <1>5, <1>6, Zenon

\* One process's memory is replaced as a whole.
LEMMA MemOneRow ==
    ASSUME NEW m \in MM, NEW e, e = [s \in Region |-> e[s]],
           \A s \in Region : Seen(m, s)' = e[s],
           \A x \in MM, s \in Region : x # m => Seen(x, s)' = Seen(x, s)
    PROVE  SeenMem' = [SeenMem EXCEPT ![m] = e]
<1>1. SeenMem' = [x \in MM |-> IF x = m THEN [s \in Region |-> e[s]]
                                ELSE [s \in Region |-> Seen(x, s)]]
  BY DEF SeenMem
<1>2. SeenMem = [x \in MM |-> [s \in Region |-> Seen(x, s)]]
  BY Zenon DEF SeenMem
<1> QED BY <1>1, <1>2, Zenon

\* The last task leaves: the memory is gone from that moment.
LEMMA ExitIsStep ==
    ASSUME BankInv, NEW m \in MM, ExitMm(m)
    PROVE  PrivateMem!Exit(m)
<1>1. /\ \A x \in MM : mmState'[x] = IF x = m THEN "exiting" ELSE mmState[x]
      /\ UNCHANGED <<vmas, siblings, bank_owner, resident, pages>>
  BY Zenon DEF ExitMm, bankVars, BankInv, TypeOK
<1>2. \A x \in MM, s \in Region : View(x, s)' = View(x, s)
  BY <1>1, Zenon DEF View, Sharers
<1>3. \A s \in Region : Seen(m, s)' = << >>
  BY <1>1, Zenon DEF Seen
<1>4. ASSUME NEW x \in MM, NEW s \in Region, x # m PROVE Seen(x, s)' = Seen(x, s)
  BY <1>1, <1>2, <1>4, Zenon DEF Seen
<1>5. /\ PrivateMem!Unmapped = [s \in Region |-> PrivateMem!Unmapped[s]]
      /\ \A s \in Region : PrivateMem!Unmapped[s] = << >>
  BY Zenon DEF PrivateMem!Unmapped
<1>6. SeenMem' = [SeenMem EXCEPT ![m] = PrivateMem!Unmapped]
  BY <1>3, <1>4, <1>5, MemOneRow, Zenon
<1> QED BY <1>6, Zenon DEF PrivateMem!Exit

\* fork() returns: the child appears with what the parent sees now, although
\* its sets were filled one by one while other processes ran.
LEMMA ForkIsStep ==
    ASSUME BankInv, NEW p \in MM, NEW c \in MM, c = child[p], ForkDone(p)
    PROVE  PrivateMem!Fork(p, c)
<1>1. /\ \A x \in MM : \A s \in vmas[x] : View(x, s)' = View(x, s)
      /\ c # p /\ mmState[p] = "live" /\ mmState[c] = "building" /\ vmas' = vmas
      /\ \A x \in MM : mmState'[x] = IF x = c THEN "live" ELSE mmState[x]
      /\ vmas[c] = vmas[p] /\ \A s \in vmas[c] : View(c, s) = View(p, s)
  BY ForkDoneInv, Zenon
<1>2. \A s \in Region : Seen(c, s)' = Seen(p, s)
  BY <1>1, Zenon DEF Seen
<1>3. ASSUME NEW x \in MM, NEW s \in Region, x # c PROVE Seen(x, s)' = Seen(x, s)
  BY <1>1, <1>3, Zenon DEF Seen
<1>4. /\ \A s \in Region : SeenMem[p][s] = Seen(p, s)
      /\ SeenMem[p] = [s \in Region |-> SeenMem[p][s]]
  BY Zenon DEF SeenMem
<1>5. SeenMem' = [SeenMem EXCEPT ![c] = SeenMem[p]]
  BY <1>2, <1>3, <1>4, MemOneRow
<1>6. \A s \in Region : Seen(c, s) = << >>
  BY <1>1, Zenon DEF Seen
<1>7. SeenMem[c] = PrivateMem!Unmapped
  BY <1>6, Zenon DEF SeenMem, PrivateMem!Unmapped
<1> QED BY <1>1, <1>5, <1>7, Zenon DEF PrivateMem!Fork

\* The steps of fork before it returns, and its failure, show nothing.
LEMMA ForkIsStepOrStutter ==
    ASSUME BankInv, NEW p \in MM, ForkStep(p)
    PROVE  (\E c \in MM : PrivateMem!Fork(p, c)) \/ SeenMem' = SeenMem
<1>1. CASE \E r \in Region : bank_alloc(p, r)
  <2>1. PICK r \in Region : bank_alloc(p, r)
    BY <1>1, Zenon
  <2>2. UNCHANGED <<mmState, vmas>>
    BY <2>1, Zenon DEF bank_alloc, procVars
  <2> QED BY <2>1, <2>2, AllocInv, SameViews, Zenon
<1>2. CASE bank_clone(p)
  <2>1. \A x \in MM : mmState[x] = "live" => vmas'[x] = vmas[x]
    BY <1>2, CloneInv, Zenon
  <2> QED BY <1>2, <2>1, CloneInv, SameViews, Zenon
<1>3. CASE ForkFail(p)
  BY <1>3, ForkFailInv, SameViews, Zenon
<1>4. CASE ForkDone(p)
  <2>1. child[p] \in MM
    BY <1>4, ForkChild, Zenon DEF ForkDone
  <2> QED BY <1>4, <2>1, ForkIsStep, Zenon
<1> QED BY <1>1, <1>2, <1>3, <1>4, Zenon DEF ForkStep

\* A step that touches neither the processes' mappings nor any page set.
LEMMA NoMemoryStep ==
    ASSUME UNCHANGED <<mmState, vmas, siblings, bank_owner, resident, pages>>
    PROVE  SeenMem' = SeenMem
BY Zenon DEF SeenMem, Seen, View, Sharers

\* An mm enters or leaves use without mapping anything.
LEMMA EmptyMmStep ==
    ASSUME BankInv, NEW m \in MM, NewMm(m) \/ FreeMm(m)
    PROVE  SeenMem' = SeenMem
<1>1. /\ \A x \in MM : x # m => mmState'[x] = mmState[x]
      /\ vmas[m] = {}
      /\ UNCHANGED <<vmas, siblings, bank_owner, resident, pages>>
  BY Zenon DEF NewMm, FreeMm, bankVars, BankInv, TypeOK, MapInv
<1>2. \A x \in MM, s \in Region : View(x, s)' = View(x, s)
  BY <1>1, Zenon DEF View, Sharers
<1>3. ASSUME NEW x \in MM, NEW s \in Region PROVE Seen(x, s)' = Seen(x, s)
  BY <1>1, <1>2, Zenon DEF Seen
<1> QED BY <1>3, MemUnchanged, Zenon

\* Every step of the kernel is a step of PrivateMemory or a stutter.
LEMMA StepRefines ==
    BankInv /\ [Next]_vars => [PrivateMem!Next]_SeenMem
<1> SUFFICES ASSUME BankInv, [Next]_vars PROVE PrivateMem!Next \/ SeenMem' = SeenMem
  BY Zenon
<1>1. CASE \E m \in MM : SwitchTo(m)
  <2>1. PICK m \in MM : SwitchTo(m)
    BY <1>1, Zenon
  <2>2. UNCHANGED <<mmState, vmas>>
    BY <2>1, Zenon DEF SwitchTo
  <2> QED BY <2>1, <2>2, SwitchToInv, SameViews, Zenon
<1>2. CASE \E m \in MM, r \in Region, i \in 1..MaxPages, v \in Value : Write(m, r, i, v)
  <2>1. PICK m \in MM, r \in Region, i \in 1..MaxPages, v \in Value : Write(m, r, i, v)
    BY <1>2, Zenon
  <2>2. UNCHANGED <<mmState, vmas>> /\ r \in vmas[m] /\ mmState[m] = "live"
    BY <2>1, UserModeFacts, Zenon DEF Write, procVars
  <2>3. PrivateMem!Store(m, r, i, v)
    BY <2>1, <2>2, WriteInv, StoreStep, SMTT(30)
  <2> QED BY <2>3, Zenon DEF PrivateMem!Next
<1>3. CASE \E m \in MM, r \in Region, i \in 1..MaxPages, v \in Value : bank_access(m, r, i, v)
  <2>1. PICK m \in MM, r \in Region, i \in 1..MaxPages, v \in Value : bank_access(m, r, i, v)
    BY <1>3, Zenon
  <2>2. UNCHANGED <<mmState, vmas>> /\ r \in vmas[m] /\ mmState[m] = "live"
    BY <2>1, Zenon DEF bank_access, procVars
  <2>3. PrivateMem!Store(m, r, i, v)
    BY <2>1, <2>2, AccessInv, StoreStep, SMTT(30)
  <2> QED BY <2>3, Zenon DEF PrivateMem!Next
<1>4. CASE \E m \in MM, r \in Region : Munmap(m, r) \/ ExitVma(m, r)
  BY <1>4, UnmapStep, Zenon DEF PrivateMem!Next
<1>5. CASE \E m \in MM : ExitMm(m)
  BY <1>5, ExitIsStep, Zenon DEF PrivateMem!Next
<1>6. CASE \E m \in MM : NewMm(m) \/ FreeMm(m)
  BY <1>6, EmptyMmStep, Zenon
<1>7. CASE \E p, c \in MM : nommu_bank_dup_mmap(p, c)
  <2>1. PICK p \in MM, c \in MM : nommu_bank_dup_mmap(p, c)
    BY <1>7, Zenon
  <2>2. /\ \A x \in MM : mmState'[x] = IF x = c THEN "building" ELSE mmState[x]
        /\ mmState[c] = "free" /\ UNCHANGED vmas
    BY <2>1, Zenon DEF nommu_bank_dup_mmap, BankInv, TypeOK
  <2> QED BY <2>1, <2>2, DupMmapInv, SameViews, Zenon
<1>8. CASE \E p \in MM : ForkStep(p)
  BY <1>8, ForkIsStepOrStutter, Zenon DEF PrivateMem!Next
<1>9. CASE \E m \in MM, r \in Region, n \in 1..MaxPages : Mmap(m, r, n)
  BY <1>9, MapStep, Zenon DEF PrivateMem!Next
<1>10. CASE \E m \in MM, r \in Region : vmi_shrink_vma(m, r)
  BY <1>10, ShortenStep, Zenon DEF PrivateMem!Next
<1>11. CASE \/ \E m \in MM : ThreadClone(m) \/ ThreadExit(m)
            \/ \E m \in MM, r \in Region : GetUserPages(m, r)
            \/ \E r \in Region : PutPage(r)
            \/ UNCHANGED vars
  <2>1. UNCHANGED <<mmState, vmas, siblings, bank_owner, resident, pages>>
    BY <1>11, Zenon DEF ThreadClone, ThreadExit, GetUserPages, PutPage, vars, procVars, bankVars
  <2> QED BY <2>1, NoMemoryStep, Zenon
<1> QED BY <1>1, <1>2, <1>3, <1>4, <1>5, <1>6, <1>7, <1>8, <1>9, <1>10, <1>11, Zenon
        DEF Next, ExitStep

\* fork(), the context switch, munmap(), ptrace and exit on memory banks give
\* every process a memory of its own: the kernel code implements
\* PrivateMemory.
THEOREM BanksImplementPrivateMemory == Spec => MemoryIsPrivate
<1>1. Init => PrivateMem!Init
  <2>1. Init => \A x \in MM, s \in Region : Seen(x, s) = << >>
    BY Zenon DEF Init, Seen
  <2> QED BY <2>1, Zenon DEF SeenMem, PrivateMem!Init, PrivateMem!Unmapped
<1> QED BY <1>1, StepRefines, InvariantHolds, PTL DEF Spec, MemoryIsPrivate, PrivateMem!Spec
==============================================================================
