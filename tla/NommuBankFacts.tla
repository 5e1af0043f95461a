--------------------------- MODULE NommuBankFacts ----------------------------
(***************************************************************************)
(* The inductive invariant of NommuBank, BankInv, in parts named after     *)
(* what they are about, and what follows from it and from the shape of the *)
(* rings. Then the first of the steps that preserve it: entering and       *)
(* leaving a ring, the copy of one region in fork() and the page set       *)
(* allocated for it, the start, and the steps that map, shorten, pin and   *)
(* free memory, add and end threads, or write and access memory.           *)
(* NommuBankProofs has the others.                                         *)
(***************************************************************************)
EXTENDS NommuBank, TLAPS

\* A ring has each of its members once.
Injective(s) == \A i, j \in DOMAIN s : s[i] = s[j] => i = j

-----------------------------------------------------------------------------
(* The inductive invariant *)

\* An mm is in the ring of a region once, and only if it maps the region; a
\* region mapped by two mms has a bank for each of them.
RingInv ==
    \A r \in Region :
        /\ Injective(siblings[r])
        /\ \A m \in Sharers(r) : r \in vmas[m]
        /\ \A x, y \in MM : x # y /\ r \in vmas[x] /\ r \in vmas[y] => x \in Sharers(r)

\* A mapped region has between 1 and MaxPages pages; an mm that is not in use
\* maps nothing.
MapInv ==
    /\ \A m \in MM : \A r \in vmas[m] : Len(resident[r]) \in 1..MaxPages
    /\ \A m \in MM : mmState[m] = "free" => vmas[m] = {}

\* The owner is one of the sharers; every bank has the region's size; the
\* owner holds no page, every other sharer a full set, nobody else any.
BankSetsInv ==
    \A r \in Region :
        /\ Sharers(r) # {} => bank_owner[r] \in Sharers(r)
        /\ \A m \in Sharers(r) : capacity[r][m] = Len(resident[r])
        /\ \A m \in Sharers(r) : m # bank_owner[r] => Len(pages[r][m]) = Len(resident[r])
        /\ \A m \in MM : m \notin Sharers(r) \/ m = bank_owner[r] => pages[r][m] = << >>

\* The mm on the CPU is alive and owns every banked region it maps.
RunInv ==
    current # None =>
        /\ mmState[current] = "live"
        /\ \A r \in Region : current \in Sharers(r) => bank_owner[r] = current

\* The kernel has latched no fault: no bank is counted as an orphan, and
\* banking is not marked broken.
\* The kernel has latched no fault: no bank is counted as an orphan, and
\* banking is not marked broken.
LatchInv == ~broken /\ orphans = 0

\* A process in fork has one task and an mm of its own to build; the child
\* maps what has been cloned; a set allocated for the child has the region's
\* size.
ForkInv ==
    /\ \A p \in MM : child[p] # None =>
          /\ mmState[p] = "live"
          /\ tasks[p] = 1
          /\ mmState[child[p]] \in {"building", "exiting"}
          /\ \A q \in MM : child[q] = child[p] => q = p
    /\ \A p \in MM : MmapLocked(p) =>
          /\ todo[p] \subseteq vmas[p]
          /\ vmas[child[p]] = vmas[p] \ todo[p]
          /\ newset[p] # None => /\ newset[p] \in todo[p]
                                 /\ capacity[newset[p]][child[p]] = Len(resident[newset[p]])
    /\ \A p \in MM : ~MmapLocked(p) => todo[p] = {} /\ newset[p] = None

\* What has been cloned is what the parent still sees: its memory stands still
\* until fork returns.
SnapshotInv ==
    \A p, c \in MM : MmapLocked(p) /\ c = child[p] =>
        \A r \in vmas[c] : View(c, r) = View(p, r)

\* A pinned region has no bank, and is not mapped by a process whose fork
\* has passed the page_count check.
PinInv ==
    \A r \in pinned :
        /\ Sharers(r) = {}
        /\ \A p \in MM : MmapLocked(p) => r \notin vmas[p]

\* The inductive invariant.
\* The inductive invariant.
BankInv == /\ TypeOK /\ RingInv /\ MapInv /\ BankSetsInv /\ RunInv
           /\ LatchInv /\ ForkInv /\ SnapshotInv /\ PinInv

-----------------------------------------------------------------------------
(* Sequences *)

\* A sequence is a function on 1 .. Len.
LEMMA LenProperties ==
    ASSUME NEW S, NEW s \in Seq(S)
    PROVE  Len(s) \in Nat /\ DOMAIN s = 1..Len(s) /\ s \in [1..Len(s) -> S]
OBVIOUS

\* Its elements are in the set it is a sequence of.
LEMMA ElementOfSeq ==
    ASSUME NEW S, NEW s \in Seq(S), NEW i \in 1..Len(s)
    PROVE  s[i] \in S
OBVIOUS

\* Two sequences with the same elements are equal.
LEMMA SeqEqual ==
    ASSUME NEW S, NEW s \in Seq(S), NEW t \in Seq(S), Len(s) = Len(t),
           \A i \in 1..Len(s) : s[i] = t[i]
    PROVE  s = t
OBVIOUS

\* A part of a sequence, possibly empty.
LEMMA SubSeqProperties ==
    ASSUME NEW S, NEW s \in Seq(S), NEW m \in 1..Len(s) + 1, NEW n \in m - 1..Len(s)
    PROVE  /\ SubSeq(s, m, n) \in Seq(S)
           /\ Len(SubSeq(s, m, n)) = n - m + 1
           /\ \A k \in 1..(n - m + 1) : SubSeq(s, m, n)[k] = s[m + k - 1]
OBVIOUS

\* Two sequences one after the other.
LEMMA ConcatProperties ==
    ASSUME NEW S, NEW s \in Seq(S), NEW t \in Seq(S)
    PROVE  /\ s \o t \in Seq(S)
           /\ Len(s \o t) = Len(s) + Len(t)
           /\ \A k \in 1..(Len(s) + Len(t)) :
                 (s \o t)[k] = IF k <= Len(s) THEN s[k] ELSE t[k - Len(s)]
OBVIOUS

\* The empty sequence is one.
LEMMA EmptySeq ==
    ASSUME NEW S
    PROVE  << >> \in Seq(S) /\ Len(<< >>) = 0
OBVIOUS

\* A sequence with one element replaced.
LEMMA ExceptSeq ==
    ASSUME NEW S, NEW s \in Seq(S), NEW i \in 1..Len(s), NEW e \in S
    PROVE  /\ [s EXCEPT ![i] = e] \in Seq(S)
           /\ Len([s EXCEPT ![i] = e]) = Len(s)
OBVIOUS

-----------------------------------------------------------------------------
(* Rings and page sets *)

\* Swapping page sets of equal length leaves exactly the incoming set.
LEMMA OverlayWhole ==
    ASSUME NEW S, NEW dst \in Seq(S), NEW src \in Seq(S), Len(dst) = Len(src)
    PROVE  Overlay(dst, src) = src
BY SeqEqual DEF Overlay

\* A region that is not shortened keeps all of its pages.
LEMMA SubSeqWhole ==
    ASSUME NEW S, NEW s \in Seq(S)
    PROVE  SubSeq(s, 1, Len(s)) = s
<1>1. \A i \in 1..Len(s) : s[i] \in S
  OBVIOUS
<1> QED BY <1>1, SubSeqProperties, SeqEqual

-----------------------------------------------------------------------------
(* Consequences of the invariant *)

\* A sharer's bank is found at its position in the ring.
LEMMA PositionInRing ==
    ASSUME TypeOK, NEW r \in Region, NEW m \in Sharers(r)
    PROVE  Position(r, m) \in 1..Len(siblings[r]) /\ siblings[r][Position(r, m)] = m
<1>1. siblings[r] \in Seq(MM) /\ DOMAIN siblings[r] = 1..Len(siblings[r])
  BY LenProperties, Zenon DEF TypeOK
<1>2. \E i \in DOMAIN siblings[r] : siblings[r][i] = m
  BY Zenon DEF Sharers, Range
<1> QED BY <1>1, <1>2, Zenon DEF Position

\* The ring of banks of a region holds processes, and is empty iff nobody shares it.
LEMMA SharersAreMms ==
    ASSUME TypeOK, NEW r \in Region
    PROVE  /\ Sharers(r) \subseteq MM
           /\ siblings[r] = << >> <=> Sharers(r) = {}
<1>1. siblings[r] \in Seq(MM) /\ DOMAIN siblings[r] = 1..Len(siblings[r])
      /\ Len(siblings[r]) \in Nat
  BY LenProperties, Zenon DEF TypeOK
<1>2. siblings[r] = << >> => Sharers(r) = {}
  BY <1>1 DEF Sharers, Range
<1>3. ASSUME siblings[r] # << >> PROVE Sharers(r) # {}
  <2>1. 1 \in 1..Len(siblings[r])
    BY <1>1, <1>3, EmptySeq
  <2> QED BY <1>1, <2>1, Zenon DEF Sharers, Range
<1>4. Sharers(r) \subseteq MM
  <2> SUFFICES ASSUME NEW i \in 1..Len(siblings[r]) PROVE siblings[r][i] \in MM
    BY <1>1, Zenon DEF Sharers, Range
  <2> QED BY <1>1, ElementOfSeq, Zenon
<1> QED BY <1>2, <1>3, <1>4, Zenon

\* The sibling bank_detach() promotes is another sharer of the region.
LEMMA HeirIsAnotherSharer ==
    ASSUME BankInv, NEW r \in Region, NEW m \in Sharers(r), siblings[r] # <<m>>
    PROVE  NextSibling(r, m) \in Sharers(r) /\ NextSibling(r, m) # m
<1> DEFINE i == Position(r, m)
           n == Len(siblings[r])
           j == IF i = n THEN 1 ELSE i + 1
<1>1. siblings[r] \in Seq(MM) /\ DOMAIN siblings[r] = 1..n /\ n \in Nat
  BY LenProperties, Zenon DEF TypeOK, BankInv
<1>2. i \in 1..n /\ siblings[r][i] = m
  BY PositionInRing, Zenon DEF BankInv
<1>3. n # 1
  <2> SUFFICES ASSUME n = 1 PROVE FALSE
    BY Zenon
  <2>1. i = 1
    BY <1>2
  <2>2. <<m>> \in Seq(MM) /\ Len(<<m>>) = 1 /\ <<m>>[1] = m
    BY SharersAreMms DEF BankInv
  <2>3. siblings[r] = <<m>>
    BY <1>1, <1>2, <2>1, <2>2, SeqEqual
  <2> QED BY <2>3, Zenon
<1>4. j \in 1..n /\ j # i
  <2> HIDE DEF i, n
  <2> QED BY <1>1, <1>2, <1>3
<1>5. NextSibling(r, m) = siblings[r][j]
  BY Zenon DEF NextSibling
<1> HIDE DEF j
<1>6. siblings[r][j] \in Sharers(r)
  BY <1>1, <1>4, Zenon DEF Sharers, Range
<1>7. siblings[r][j] # m
  BY <1>1, <1>2, <1>4, Zenon DEF BankInv, RingInv, Injective
<1> QED BY <1>5, <1>6, <1>7, Zenon

\* A process that maps a region without a bank for it is alone there.
LEMMA UnbankedIsAlone ==
    ASSUME BankInv, NEW r \in Region, NEW m \in MM, r \in vmas[m], m \notin Sharers(r)
    PROVE  /\ Sharers(r) = {}
           /\ \A x \in MM : r \in vmas[x] => x = m
BY SharersAreMms DEF BankInv, RingInv

\* TypeOK, point by point.
LEMMA Types ==
    ASSUME TypeOK
    PROVE  /\ \A m \in MM : /\ vmas[m] \subseteq Region /\ todo[m] \subseteq Region
                            /\ child[m] \in MM \cup {None}
                            /\ newset[m] \in Region \cup {None}
           /\ \A r \in Region : /\ resident[r] \in Seq(Value)
                                /\ \A m \in MM : pages[r][m] \in Seq(Value)
           /\ pinned \subseteq Region
<1>1. vmas \in [MM -> SUBSET Region] /\ todo \in [MM -> SUBSET Region]
  BY Zenon DEF TypeOK
<1>2. child \in [MM -> MM \cup {None}] /\ newset \in [MM -> Region \cup {None}]
  BY Zenon DEF TypeOK
<1>3. resident \in [Region -> Seq(Value)] /\ pages \in [Region -> [MM -> Seq(Value)]]
  BY Zenon DEF TypeOK
<1>4. pinned \subseteq Region
  BY Zenon DEF TypeOK
<1> QED BY <1>1, <1>2, <1>3, <1>4, Zenon

\* A process in fork is alive, has one task, and builds an mm of its own.
LEMMA ForkChild ==
    ASSUME BankInv, NEW p \in MM, MmapLocked(p)
    PROVE  /\ mmState[p] = "live" /\ tasks[p] = 1
           /\ child[p] \in MM /\ child[p] # p /\ mmState[child[p]] = "building"
<1>1. TypeOK /\ ForkInv
  BY Zenon DEF BankInv
<1>2. child[p] \in MM /\ mmState[child[p]] = "building"
  BY <1>1, Types, Zenon DEF MmapLocked
<1> QED BY <1>1, <1>2, ConstantsAssumption DEF ForkInv

\* The child maps what has been cloned, and a set allocated for it fits.
LEMMA ForkMaps ==
    ASSUME BankInv, NEW p \in MM, MmapLocked(p)
    PROVE  /\ vmas[p] \subseteq Region /\ todo[p] \subseteq vmas[p]
           /\ vmas[child[p]] = vmas[p] \ todo[p]
           /\ newset[p] # None => /\ newset[p] \in todo[p]
                                  /\ child[p] \notin Sharers(newset[p])
                                  /\ capacity[newset[p]][child[p]] = Len(resident[newset[p]])
<1>1. /\ TypeOK /\ RingInv /\ ForkInv
  BY Zenon DEF BankInv
<1>2. vmas[p] \subseteq Region
  BY <1>1, Types, Zenon
<1>3. /\ todo[p] \subseteq vmas[p] /\ vmas[child[p]] = vmas[p] \ todo[p]
      /\ newset[p] # None => /\ newset[p] \in todo[p]
                             /\ capacity[newset[p]][child[p]] = Len(resident[newset[p]])
  BY <1>1, Zenon DEF ForkInv
<1>4. newset[p] # None => child[p] \notin Sharers(newset[p])
  BY <1>1, <1>2, <1>3, Zenon DEF RingInv
<1> QED BY <1>2, <1>3, <1>4, Zenon

\* Parent and child share every cloned region, and see the same in it.
LEMMA ForkShares ==
    ASSUME BankInv, NEW p \in MM, MmapLocked(p)
    PROVE  \A r \in vmas[child[p]] : /\ p \in Sharers(r) /\ child[p] \in Sharers(r)
                                     /\ View(child[p], r) = View(p, r)
<1>1. RingInv /\ SnapshotInv
  BY Zenon DEF BankInv
<1>2. /\ child[p] \in MM /\ child[p] # p
      /\ vmas[p] \subseteq Region /\ vmas[child[p]] \subseteq vmas[p]
  BY ForkChild, ForkMaps
<1>3. \A r \in vmas[child[p]] : p \in Sharers(r) /\ child[p] \in Sharers(r)
  BY <1>1, <1>2, Zenon DEF RingInv
<1>4. \A r \in vmas[child[p]] : View(child[p], r) = View(p, r)
  BY <1>1, <1>2, Zenon DEF SnapshotInv
<1> QED BY <1>3, <1>4, Zenon

\* The process whose task runs user code is alive and not in fork.
LEMMA UserModeFacts ==
    ASSUME BankInv, NEW m \in MM, InUserMode(m)
    PROVE  child[m] = None /\ mmState[m] = "live" /\ current = m
BY ConstantsAssumption DEF BankInv, ForkInv, InUserMode, RunInv

\* A step that leaves the forks in progress, and what they have copied, alone.
LEMMA ForkFrame ==
    ASSUME BankInv, UNCHANGED <<mmState, tasks, child, todo, newset>>,
           \A p \in MM : MmapLocked(p) =>
              /\ vmas'[p] = vmas[p] /\ vmas'[child[p]] = vmas[child[p]]
              /\ newset[p] # None => capacity'[newset[p]][child[p]] = Len(resident'[newset[p]])
    PROVE  ForkInv' /\ (\A p \in MM : MmapLocked(p)' <=> MmapLocked(p))
<1>1. \A p \in MM : MmapLocked(p)' <=> MmapLocked(p)
  BY Zenon DEF MmapLocked
<1>2. ForkInv
  BY Zenon DEF BankInv
<1>3. ASSUME NEW p \in MM, MmapLocked(p)
      PROVE  /\ todo'[p] \subseteq vmas'[p] /\ vmas'[child'[p]] = vmas'[p] \ todo'[p]
             /\ newset'[p] # None =>
                  /\ newset'[p] \in todo'[p]
                  /\ capacity'[newset'[p]][child'[p]] = Len(resident'[newset'[p]])
  BY <1>3, ForkMaps, Zenon
<1>4. ASSUME NEW p \in MM, child'[p] # None
      PROVE  /\ mmState'[p] = "live" /\ tasks'[p] = 1
             /\ mmState'[child'[p]] \in {"building", "exiting"}
             /\ \A q \in MM : child'[q] = child'[p] => q = p
  BY <1>2, <1>4 DEF ForkInv
<1>5. ASSUME NEW p \in MM, ~MmapLocked(p)
      PROVE  todo'[p] = {} /\ newset'[p] = None
  BY <1>2, <1>5, Zenon DEF ForkInv
<1>6. ForkInv'
  BY <1>1, <1>3, <1>4, <1>5, Zenon DEF ForkInv
<1> QED BY <1>1, <1>6, Zenon

\* A step that leaves a half-built child's pages alone keeps fork()'s snapshot a snapshot.
LEMMA SnapshotFrame ==
    ASSUME BankInv, UNCHANGED <<mmState, child>>,
           \A p, c \in MM : MmapLocked(p) /\ c = child[p] =>
              /\ vmas'[c] = vmas[c]
              /\ \A r \in vmas[c] : View(c, r)' = View(c, r) /\ View(p, r)' = View(p, r)
    PROVE  SnapshotInv'
<1>1. \A p \in MM : MmapLocked(p)' <=> MmapLocked(p)
  BY Zenon DEF MmapLocked
<1>2. ASSUME NEW p \in MM, NEW c \in MM, MmapLocked(p), c = child[p], NEW r \in vmas'[c]
      PROVE  View(c, r)' = View(p, r)'
  BY <1>2, ForkChild DEF BankInv, SnapshotInv
<1> QED BY <1>1, <1>2, Zenon DEF SnapshotInv

-----------------------------------------------------------------------------
(* Entering and leaving a ring. *)

\* list_del_init() on the ring of banks: the others stay, in order and once each.
LEMMA RemoveFromRing ==
    ASSUME NEW S, NEW s \in Seq(S), Injective(s), NEW i \in 1..Len(s)
    PROVE  /\ list_del(s, i) \in Seq(S)
           /\ Injective(list_del(s, i))
           /\ Range(list_del(s, i)) = Range(s) \ {s[i]}
<1> DEFINE a == SubSeq(s, 1, i - 1)
           b == SubSeq(s, i + 1, Len(s))
           t == a \o b
<1>1. /\ a \in Seq(S) /\ Len(a) = i - 1
      /\ \A k \in 1..(i - 1) : a[k] = s[k]
  BY SubSeqProperties
<1>2. /\ b \in Seq(S) /\ Len(b) = Len(s) - i
      /\ \A k \in 1..(Len(s) - i) : b[k] = s[k + i]
  BY SubSeqProperties
<1>3. /\ t \in Seq(S) /\ Len(t) = Len(s) - 1
      /\ \A k \in 1..(Len(s) - 1) : t[k] = IF k < i THEN s[k] ELSE s[k + 1]
  <2> HIDE DEF a, b
  <2>1. /\ t \in Seq(S) /\ Len(t) = Len(a) + Len(b)
        /\ \A k \in 1..(Len(a) + Len(b)) :
              t[k] = IF k <= Len(a) THEN a[k] ELSE b[k - Len(a)]
    BY <1>1, <1>2, ConcatProperties, Zenon
  <2> HIDE DEF t
  <2>2. Len(t) = Len(s) - 1
    BY <1>1, <1>2, <2>1
  <2>3. ASSUME NEW k \in 1..(Len(s) - 1)
        PROVE  t[k] = IF k < i THEN s[k] ELSE s[k + 1]
    <3>1. k \in 1..(Len(a) + Len(b))
      BY <1>1, <1>2
    <3>2. CASE k < i
      <4>1. k \in 1..(i - 1) /\ k <= Len(a)
        BY <1>1, <3>2
      <4> QED BY <1>1, <2>1, <3>1, <3>2, <4>1, Zenon
    <3>3. CASE ~(k < i)
      <4>1. k - Len(a) \in 1..(Len(s) - i) /\ k - Len(a) + i = k + 1 /\ ~(k <= Len(a))
        BY <1>1, <3>3
      <4> QED BY <1>2, <2>1, <3>1, <3>3, <4>1, Zenon
    <3> QED BY <3>2, <3>3, Zenon
  <2> QED BY <2>1, <2>2, <2>3, Zenon
<1>4. list_del(s, i) = t
  BY Zenon DEF list_del
<1> HIDE DEF t
<1>5. DOMAIN s = 1..Len(s) /\ DOMAIN t = 1..(Len(s) - 1) /\ Len(s) \in Nat
  BY <1>3, LenProperties, Zenon
<1>6. Injective(t)
  <2> SUFFICES ASSUME NEW j \in 1..(Len(s) - 1), NEW k \in 1..(Len(s) - 1), t[j] = t[k]
               PROVE  j = k
    BY <1>5, Zenon DEF Injective
  <2> DEFINE up(x) == IF x < i THEN x ELSE x + 1
  <2>1. up(j) \in 1..Len(s) /\ up(k) \in 1..Len(s)
    BY <1>5
  <2>2. t[j] = s[up(j)] /\ t[k] = s[up(k)]
    BY <1>3, Zenon
  <2>3. up(j) = up(k)
    <3> HIDE DEF up
    <3> QED BY <1>5, <2>1, <2>2, Zenon DEF Injective
  <2> QED BY <1>5, <2>3
<1>7. Range(t) = Range(s) \ {s[i]}
  <2>1. ASSUME NEW k \in 1..(Len(s) - 1) PROVE t[k] \in Range(s) \ {s[i]}
    <3> DEFINE j == IF k < i THEN k ELSE k + 1
    <3>1. j \in 1..Len(s) /\ j # i /\ t[k] = s[j]
      BY <1>3, <1>5
    <3> HIDE DEF j
    <3> QED BY <1>5, <3>1, Zenon DEF Range, Injective
  <2>2. ASSUME NEW j \in 1..Len(s), s[j] # s[i] PROVE s[j] \in Range(t)
    <3>1. j # i
      BY <2>2, Zenon
    <3> DEFINE k == IF j < i THEN j ELSE j - 1
    <3>2. k \in 1..(Len(s) - 1) /\ (IF k < i THEN k ELSE k + 1) = j
      BY <1>5, <3>1
    <3>3. t[k] = s[j]
      <4>1. t[k] = IF k < i THEN s[k] ELSE s[k + 1]
        <5> HIDE DEF k
        <5> QED BY <1>3, <3>2, Zenon
      <4> QED BY <3>2, <4>1, Zenon
    <3> HIDE DEF k
    <3> QED BY <1>5, <3>2, <3>3, Zenon DEF Range
  <2> QED BY <1>5, <2>1, <2>2, Zenon DEF Range
<1> QED BY <1>3, <1>4, <1>6, <1>7, Zenon

\* list_add() of a child's bank: the ring gains exactly the child.
LEMMA InsertIntoRing ==
    ASSUME NEW S, NEW s \in Seq(S), Injective(s), NEW i \in 1..Len(s),
           NEW c \in S, c \notin Range(s)
    PROVE  /\ list_add(s, i, c) \in Seq(S)
           /\ Injective(list_add(s, i, c))
           /\ Range(list_add(s, i, c)) = Range(s) \cup {c}
<1> DEFINE a == SubSeq(s, 1, i - 1)
           b == SubSeq(s, i, Len(s))
           u == a \o <<c>>
           t == u \o b
<1>1. /\ a \in Seq(S) /\ Len(a) = i - 1
      /\ \A k \in 1..(i - 1) : a[k] = s[k]
  BY SubSeqProperties
<1>2. /\ b \in Seq(S) /\ Len(b) = Len(s) - i + 1
      /\ \A k \in 1..(Len(s) - i + 1) : b[k] = s[k + i - 1]
  BY SubSeqProperties
<1>3. /\ u \in Seq(S) /\ Len(u) = i
      /\ \A k \in 1..i : u[k] = IF k < i THEN s[k] ELSE c
  <2> HIDE DEF a, b
  <2>1. <<c>> \in Seq(S) /\ Len(<<c>>) = 1 /\ <<c>>[1] = c
    OBVIOUS
  <2>2. /\ u \in Seq(S) /\ Len(u) = Len(a) + 1
        /\ \A k \in 1..(Len(a) + 1) :
              u[k] = IF k <= Len(a) THEN a[k] ELSE <<c>>[k - Len(a)]
    BY <1>1, <2>1, ConcatProperties
  <2> HIDE DEF u
  <2>3. ASSUME NEW k \in 1..i
        PROVE  u[k] = IF k < i THEN s[k] ELSE c
    <3>1. k \in 1..(Len(a) + 1)
      BY <1>1
    <3>2. CASE k < i
      <4>1. k \in 1..(i - 1) /\ k <= Len(a)
        BY <1>1, <3>2
      <4> QED BY <1>1, <2>2, <3>1, <3>2, <4>1, Zenon
    <3>3. CASE ~(k < i)
      <4>1. k - Len(a) = 1 /\ ~(k <= Len(a))
        BY <1>1, <3>3
      <4> QED BY <2>1, <2>2, <3>1, <3>3, <4>1, Zenon
    <3> QED BY <3>2, <3>3, Zenon
  <2> QED BY <1>1, <2>2, <2>3
<1>4. /\ t \in Seq(S) /\ Len(t) = Len(s) + 1
      /\ \A k \in 1..(Len(s) + 1) :
            t[k] = IF k < i THEN s[k] ELSE IF k = i THEN c ELSE s[k - 1]
  <2> HIDE DEF u, b
  <2>1. /\ t \in Seq(S) /\ Len(t) = Len(u) + Len(b)
        /\ \A k \in 1..(Len(u) + Len(b)) :
              t[k] = IF k <= Len(u) THEN u[k] ELSE b[k - Len(u)]
    BY <1>2, <1>3, ConcatProperties, Zenon
  <2> HIDE DEF t
  <2>2. Len(t) = Len(s) + 1
    BY <1>2, <1>3, <2>1
  <2>3. ASSUME NEW k \in 1..(Len(s) + 1)
        PROVE  t[k] = IF k < i THEN s[k] ELSE IF k = i THEN c ELSE s[k - 1]
    <3>1. k \in 1..(Len(u) + Len(b))
      BY <1>2, <1>3
    <3>2. CASE k <= i
      <4>1. k \in 1..i /\ k <= Len(u)
        BY <1>3, <3>2
      <4> QED BY <1>3, <2>1, <3>1, <3>2, <4>1
    <3>3. CASE ~(k <= i)
      <4>1. /\ k - Len(u) \in 1..(Len(s) - i + 1)
            /\ k - Len(u) + i - 1 = k - 1
            /\ ~(k <= Len(u)) /\ ~(k < i) /\ k # i
        BY <1>3, <3>3
      <4> QED BY <1>2, <2>1, <3>1, <4>1, Zenon
    <3> QED BY <3>2, <3>3, Zenon
  <2> QED BY <2>1, <2>2, <2>3, Zenon
<1>5. list_add(s, i, c) = t
  BY Zenon DEF list_add
<1> HIDE DEF t
<1>6. DOMAIN s = 1..Len(s) /\ DOMAIN t = 1..(Len(s) + 1) /\ Len(s) \in Nat
  BY <1>4, LenProperties, Zenon
<1>7. Injective(t)
  <2> SUFFICES ASSUME NEW j \in 1..(Len(s) + 1), NEW k \in 1..(Len(s) + 1), t[j] = t[k]
               PROVE  j = k
    BY <1>6, Zenon DEF Injective
  <2> DEFINE down(x) == IF x < i THEN x ELSE x - 1
  <2>1. ASSUME NEW x \in 1..(Len(s) + 1), x # i
        PROVE  down(x) \in 1..Len(s) /\ t[x] = s[down(x)] /\ t[x] \in Range(s)
    <3>1. down(x) \in 1..Len(s) /\ t[x] = s[down(x)]
      BY <1>4, <1>6, <2>1
    <3> HIDE DEF down
    <3> QED BY <1>6, <3>1, Zenon DEF Range
  <2>2. t[i] = c
    BY <1>4, <1>6
  <2>3. CASE j = i \/ k = i
    BY <2>1, <2>2, <2>3
  <2>4. CASE j # i /\ k # i
    <3>1. down(j) = down(k)
      <4> HIDE DEF down
      <4> QED BY <1>6, <2>1, <2>4 DEF Injective
    <3> QED BY <1>6, <2>4, <3>1
  <2> QED BY <2>3, <2>4, Zenon
<1>8. Range(t) = Range(s) \cup {c}
  <2>1. ASSUME NEW k \in 1..(Len(s) + 1) PROVE t[k] \in Range(s) \cup {c}
    <3>1. CASE k = i
      BY <1>4, <3>1
    <3>2. CASE k # i
      <4> DEFINE j == IF k < i THEN k ELSE k - 1
      <4>1. j \in 1..Len(s) /\ t[k] = s[j]
        BY <1>4, <1>6, <3>2
      <4> HIDE DEF j
      <4> QED BY <1>6, <4>1, Zenon DEF Range
    <3> QED BY <3>1, <3>2, Zenon
  <2>2. ASSUME NEW j \in 1..Len(s) PROVE s[j] \in Range(t)
    <3> DEFINE k == IF j < i THEN j ELSE j + 1
    <3>1. k \in 1..(Len(s) + 1) /\ k # i /\ (IF k < i THEN k ELSE k - 1) = j
      BY <1>6
    <3>2. t[k] = s[j]
      <4>1. t[k] = IF k < i THEN s[k] ELSE IF k = i THEN c ELSE s[k - 1]
        <5> HIDE DEF k
        <5> QED BY <1>4, <3>1, Zenon
      <4> QED BY <3>1, <4>1, Zenon
    <3> HIDE DEF k
    <3> QED BY <1>6, <3>1, <3>2, Zenon DEF Range
  <2>3. c \in Range(t)
    <3>1. i \in 1..(Len(s) + 1) /\ t[i] = c
      BY <1>4, <1>6
    <3> QED BY <1>6, <3>1, Zenon DEF Range
  <2> QED BY <1>6, <2>1, <2>2, <2>3, Zenon DEF Range
<1> QED BY <1>4, <1>5, <1>7, <1>8, Zenon

-----------------------------------------------------------------------------
(* The child in fork(): the copy of one region, the allocation of a page set. *)

\* bank_clone() saves in the child's set what the parent sees.
LEMMA CloneInv ==
    ASSUME BankInv, NEW p \in MM, bank_clone(p)
    PROVE  /\ BankInv'
           /\ \A x \in MM : \A s \in vmas[x] : View(x, s)' = View(x, s)
           /\ mmState' = mmState
           /\ \A x \in MM : mmState[x] # "building" => vmas'[x] = vmas[x]
<1>inv. /\ TypeOK /\ RingInv /\ MapInv /\ BankSetsInv /\ RunInv /\ LatchInv /\ ForkInv
        /\ SnapshotInv /\ PinInv
  BY Zenon DEF BankInv
<1>0. newset[p] \in Region /\ child[p] \in MM
  BY <1>inv, ForkChild, Types, Zenon DEF bank_clone, MmapLocked
<1> SUFFICES ASSUME NEW r \in Region, r = newset[p], NEW c \in MM, c = child[p]
             PROVE  /\ BankInv'
                    /\ \A x \in MM : \A s \in vmas[x] : View(x, s)' = View(x, s)
                    /\ mmState' = mmState
                    /\ \A x \in MM : mmState[x] # "building" => vmas'[x] = vmas[x]
  BY <1>0, Zenon
<1> DEFINE fresh == p \notin Sharers(r)
           ring == IF fresh THEN <<p>> ELSE siblings[r]
           at == IF fresh THEN 1 ELSE Position(r, p)
<1>1. /\ siblings' = [siblings EXCEPT ![r] = list_add(ring, at, c)]
      /\ bank_owner' = [bank_owner EXCEPT ![r] = p]
      /\ capacity' = [capacity EXCEPT ![r][p] = IF fresh THEN Len(resident[r]) ELSE @]
      /\ pages' = [pages EXCEPT ![r][c] = SubSeq(resident[r], 1, capacity[r][c])]
      /\ vmas' = [vmas EXCEPT ![c] = @ \cup {r}]
      /\ todo' = [todo EXCEPT ![p] = @ \ {r}]
      /\ newset' = [newset EXCEPT ![p] = None]
      /\ UNCHANGED <<mmState, tasks, current, child, resident, shadow_pages, orphans, broken,
                     pinned>>
      /\ MmapLocked(p) /\ r # None /\ current = p
      /\ fresh \/ bank_owner[r] = p
      /\ c \notin Sharers(r)
  BY Zenon DEF bank_clone, latchVars
<1>2. /\ r \in Region /\ r \in todo[p] /\ r \in vmas[p] /\ todo[p] \subseteq vmas[p]
      /\ c \in MM /\ c # p /\ mmState[c] = "building" /\ mmState[p] = "live"
      /\ vmas[c] = vmas[p] \ todo[p] /\ r \notin vmas[c] /\ vmas[p] \subseteq Region
      /\ capacity[r][c] = Len(resident[r])
      /\ \A q \in MM : child[q] = c => q = p
  BY <1>inv, <1>1, ForkMaps DEF ForkInv, MmapLocked
<1> HIDE DEF fresh, ring, at
<1>3. /\ fresh => Sharers(r) = {} /\ \A x \in MM : r \in vmas[x] => x = p
      /\ ~fresh => bank_owner[r] = p
      /\ fresh <=> p \notin Sharers(r)
  BY <1>1, <1>2, UnbankedIsAlone, Zenon DEF fresh
<1>4. resident[r] \in Seq(Value) /\ SubSeq(resident[r], 1, capacity[r][c]) = resident[r]
  BY <1>inv, <1>2, Types, SubSeqWhole, Zenon
<1>5. /\ siblings'[r] \in Seq(MM) /\ Injective(siblings'[r])
      /\ Sharers(r)' = Sharers(r) \cup {p, c}
      /\ \A s \in Region : s # r => siblings'[s] = siblings[s] /\ Sharers(s)' = Sharers(s)
      /\ siblings' \in [Region -> Seq(MM)]
  <2>1. siblings \in [Region -> Seq(MM)] /\ siblings[r] \in Seq(MM) /\ Injective(siblings[r])
    BY <1>inv, <1>2, Zenon DEF TypeOK, RingInv
  <2>2. /\ ring \in Seq(MM) /\ Injective(ring) /\ at \in 1..Len(ring)
        /\ Range(ring) = Sharers(r) \cup {p}
    <3>1. CASE fresh
      <4>1. <<p>> \in Seq(MM) /\ Injective(<<p>>) /\ 1 \in 1..Len(<<p>>) /\ Range(<<p>>) = {p}
        BY DEF Injective, Range
      <4> QED BY <1>3, <3>1, <4>1, Zenon DEF ring, at
    <3>2. CASE ~fresh
      <4>1. Position(r, p) \in 1..Len(siblings[r]) /\ p \in Sharers(r)
        BY <1>inv, <1>2, <1>3, <3>2, PositionInRing, Zenon
      <4> QED BY <2>1, <3>2, <4>1, Zenon DEF ring, at, Sharers
    <3> QED BY <3>1, <3>2, Zenon
  <2>3. c \notin Range(ring)
    BY <1>1, <1>2, <2>2, Zenon
  <2>4. siblings'[r] = list_add(ring, at, c)
    BY <1>1, <1>2, <2>1, Zenon
  <2>5. /\ siblings'[r] \in Seq(MM) /\ Injective(siblings'[r])
        /\ Range(siblings'[r]) = Range(ring) \cup {c}
    BY <1>2, <2>2, <2>3, <2>4, InsertIntoRing
  <2> QED BY <1>1, <2>1, <2>2, <2>5, Zenon DEF Sharers
<1>6. /\ \A s \in Region : s # r => bank_owner'[s] = bank_owner[s]
      /\ bank_owner'[r] = p
      /\ \A x \in MM : x # p => todo'[x] = todo[x] /\ newset'[x] = newset[x]
      /\ todo'[p] = todo[p] \ {r} /\ newset'[p] = None
      /\ \A x \in MM : x # c => vmas'[x] = vmas[x]
      /\ vmas'[c] = vmas[c] \cup {r}
  BY <1>inv, <1>1, <1>2 DEF TypeOK
<1>7. /\ \A s \in Region, x \in MM : s # r \/ x # c => pages'[s][x] = pages[s][x]
      /\ pages'[r][c] = resident[r]
  BY <1>inv, <1>1, <1>2, <1>4, Zenon DEF TypeOK
<1>8. /\ \A s \in Region, x \in MM : s # r \/ x # p => capacity'[s][x] = capacity[s][x]
      /\ capacity'[r][p] = Len(resident[r])
  <2>1. ~fresh => capacity[r][p] = Len(resident[r])
    BY <1>inv, <1>2, <1>3, Zenon DEF BankSetsInv
  <2> QED BY <1>inv, <1>1, <1>2, <2>1, Zenon DEF TypeOK
<1>9. TypeOK'
  <2>1. pages' \in [Region -> [MM -> Seq(Value)]]
    BY <1>inv, <1>1, <1>4 DEF TypeOK
  <2>2. capacity' \in [Region -> [MM -> Nat]]
    <3>1. Len(resident[r]) \in Nat
      BY <1>4, LenProperties, Zenon
    <3> QED BY <1>inv, <1>1, <3>1 DEF TypeOK
  <2>3. /\ vmas' \in [MM -> SUBSET Region] /\ todo' \in [MM -> SUBSET Region]
        /\ newset' \in [MM -> Region \cup {None}] /\ bank_owner' \in [Region -> MM \cup {None}]
    BY <1>inv, <1>1, <1>2 DEF TypeOK
  <2>4. UNCHANGED <<mmState, tasks, current, child, resident, shadow_pages, orphans, broken,
                    pinned>>
    BY <1>1, Zenon
  <2> QED BY <1>inv, <1>5, <2>1, <2>2, <2>3, <2>4, Zenon DEF TypeOK
<1>10. \A x \in MM : MmapLocked(x)' <=> MmapLocked(x)
  BY <1>1, Zenon DEF MmapLocked
<1>11. RingInv'
  <2> SUFFICES ASSUME NEW s \in Region
               PROVE  /\ Injective(siblings'[s])
                      /\ \A x \in Sharers(s)' : s \in vmas'[x]
                      /\ \A x, y \in MM : x # y /\ s \in vmas'[x] /\ s \in vmas'[y]
                                         => x \in Sharers(s)'
    BY Zenon DEF RingInv
  <2>0. Sharers(s) \subseteq MM
    BY <1>inv, SharersAreMms, Zenon
  <2>1. CASE s = r
    <3>1. \A x \in Sharers(r)' : r \in vmas'[x]
      <4>1. \A x \in Sharers(r) : x \in MM /\ r \in vmas[x]
        BY <1>inv, <2>0, <2>1, Zenon DEF RingInv
      <4>2. r \in vmas[p] /\ c \notin Sharers(r) /\ c # p
        BY <1>1, <1>2, Zenon
      <4>3. \A x \in Sharers(r)' : x = c \/ (x \in MM /\ x # c /\ r \in vmas[x])
        BY <1>5, <4>1, <4>2, Zenon
      <4>4. r \in vmas'[c] /\ \A x \in MM : x # c => vmas'[x] = vmas[x]
        BY <1>6, Zenon
      <4> QED BY <4>3, <4>4, Zenon
    <3>2. ASSUME NEW x \in MM, r \in vmas'[x] PROVE x \in Sharers(r)'
      <4>1. x = c \/ x = p \/ (x # p /\ r \in vmas[x])
        BY <1>6, <3>2, Zenon
      <4>2. x # p /\ r \in vmas[x] => x \in Sharers(r)
        BY <1>inv, <1>2, Zenon DEF RingInv
      <4> QED BY <1>5, <4>1, <4>2, Zenon
    <3> QED BY <1>5, <2>1, <3>1, <3>2, Zenon
  <2>2. CASE s # r
    <3>1. \A x \in MM : s \in vmas'[x] <=> s \in vmas[x]
      BY <1>6, <2>2, Zenon
    <3> QED BY <1>inv, <1>5, <2>0, <2>2, <3>1 DEF RingInv
  <2> QED BY <2>1, <2>2, Zenon
<1>12. MapInv'
  <2>1. ASSUME NEW x \in MM, NEW s \in vmas'[x] PROVE Len(resident'[s]) \in 1..MaxPages
    BY <1>inv, <1>1, <1>2, <1>6 DEF MapInv
  <2> QED BY <1>inv, <1>1, <1>2, <1>6, <2>1, Zenon DEF MapInv
<1>13. BankSetsInv'
  <2> SUFFICES ASSUME NEW s \in Region
               PROVE  /\ Sharers(s)' # {} => bank_owner'[s] \in Sharers(s)'
                      /\ \A x \in Sharers(s)' : capacity'[s][x] = Len(resident'[s])
                      /\ \A x \in Sharers(s)' : x # bank_owner'[s] =>
                             Len(pages'[s][x]) = Len(resident'[s])
                      /\ \A x \in MM : x \notin Sharers(s)' \/ x = bank_owner'[s] =>
                             pages'[s][x] = << >>
    BY Zenon DEF BankSetsInv
  <2>0. Sharers(s) \subseteq MM
    BY <1>inv, SharersAreMms, Zenon
  <2>1. CASE s # r
    <3>1. /\ Sharers(s)' = Sharers(s) /\ bank_owner'[s] = bank_owner[s]
          /\ resident'[s] = resident[s]
      BY <1>1, <1>5, <1>6, <2>1, Zenon
    <3>2. \A x \in MM : capacity'[s][x] = capacity[s][x] /\ pages'[s][x] = pages[s][x]
      BY <1>7, <1>8, <2>1, Zenon
    <3> QED BY <1>inv, <2>0, <3>1, <3>2 DEF BankSetsInv
  <2>2. CASE s = r
    <3>1. bank_owner'[r] \in Sharers(r)'
      BY <1>5, <1>6, Zenon
    <3>2. ASSUME NEW x \in Sharers(r)' PROVE capacity'[r][x] = Len(resident'[r])
      <4>1. x \in MM /\ (x = p \/ x = c \/ x \in Sharers(r))
        BY <1>2, <1>5, <2>0, <2>2, Zenon
      <4> QED BY <1>inv, <1>1, <1>2, <1>8, <4>1, SMTT(30) DEF BankSetsInv
    <3>3. ASSUME NEW x \in Sharers(r)', x # p PROVE Len(pages'[r][x]) = Len(resident'[r])
      <4>1. x \in MM /\ (x = c \/ (x # c /\ x \in Sharers(r)))
        BY <1>2, <1>5, <2>0, <2>2, <3>3, Zenon
      <4>2. x \in Sharers(r) => bank_owner[r] = p
        BY <1>3, Zenon
      <4> QED BY <1>inv, <1>1, <1>2, <1>7, <3>3, <4>1, <4>2, SMTT(30) DEF BankSetsInv
    <3>4. ASSUME NEW x \in MM, x \notin Sharers(r)' \/ x = p PROVE pages'[r][x] = << >>
      <4>1. x # c /\ (x \notin Sharers(r) \/ x = bank_owner[r])
        BY <1>2, <1>3, <1>5, <3>4, Zenon
      <4> QED BY <1>inv, <1>2, <1>7, <4>1, SMTT(30) DEF BankSetsInv
    <3> QED BY <1>6, <2>2, <3>1, <3>2, <3>3, <3>4, Zenon
  <2> QED BY <2>1, <2>2, Zenon
<1>14. RunInv' /\ LatchInv'
  BY <1>inv, <1>1, <1>5, <1>6 DEF RunInv, LatchInv
<1>15. ForkInv'
  <2>1. ASSUME NEW x \in MM, child[x] # None
        PROVE  /\ mmState[x] = "live" /\ tasks[x] = 1
               /\ mmState[child[x]] \in {"building", "exiting"}
               /\ \A q \in MM : child[q] = child[x] => q = x
    BY <1>inv, <2>1, Zenon DEF ForkInv
  <2>2. ASSUME NEW x \in MM, MmapLocked(x)
        PROVE  /\ todo'[x] \subseteq vmas'[x] /\ vmas'[child[x]] = vmas'[x] \ todo'[x]
               /\ newset'[x] # None =>
                    /\ newset'[x] \in todo'[x]
                    /\ capacity'[newset'[x]][child[x]] = Len(resident[newset'[x]])
    <3>1. CASE x = p
      <4>1. /\ todo'[x] = todo[p] \ {r} /\ vmas'[x] = vmas[p] /\ newset'[x] = None
            /\ vmas'[child[x]] = (vmas[p] \ todo[p]) \cup {r}
        BY <1>2, <1>6, <3>1, Zenon
      <4>2. r \in vmas[p] /\ todo[p] \subseteq vmas[p]
        BY <1>2, Zenon
      <4> QED BY <4>1, <4>2, ZenonT(30)
    <3>2. CASE x # p
      <4>1. /\ child[x] # c /\ child[x] \in MM /\ x # c /\ child[x] # p
            /\ newset'[x] = newset[x] /\ todo'[x] = todo[x] /\ vmas'[x] = vmas[x]
            /\ vmas'[child[x]] = vmas[child[x]]
        BY <1>2, <1>6, <2>2, <3>2, ForkChild, SMTT(30)
      <4>2. newset[x] # None => newset[x] \in Region
        BY <2>2, ForkMaps, Zenon
      <4> QED BY <1>8, <2>2, <4>1, <4>2, ForkMaps
    <3> QED BY <3>1, <3>2, Zenon
  <2>3. ASSUME NEW x \in MM, ~MmapLocked(x) PROVE todo'[x] = {} /\ newset'[x] = None
    BY <1>inv, <1>1, <1>6, <2>3 DEF ForkInv
  <2>4. UNCHANGED <<mmState, tasks, child, resident>>
    BY <1>1, Zenon
  <2> QED BY <1>10, <2>1, <2>2, <2>3, <2>4, SMTT(30) DEF ForkInv
<1>16. ASSUME NEW x \in MM, NEW s \in vmas[x] PROVE View(x, s)' = View(x, s)
  <2>1. s \in Region
    BY <1>inv, Types, Zenon
  <2>2. CASE s # r
    BY <1>1, <1>5, <1>6, <1>7, <2>1, <2>2, SMTT(30) DEF View
  <2>3. CASE s = r
    <3>1. x # c
      BY <1>2, <2>3, Zenon
    <3>2. CASE x = p
      <4>1. View(p, r) = resident[r]
        BY <1>3, Zenon DEF View
      <4> QED BY <1>1, <1>6, <2>3, <3>2, <4>1, Zenon DEF View
    <3>3. CASE x # p
      <4>1. x \in Sharers(r) /\ bank_owner[r] = p /\ x \in Sharers(r)'
        BY <1>inv, <1>2, <1>3, <1>5, <2>3, <3>3, Zenon DEF RingInv
      <4> QED BY <1>2, <1>6, <1>7, <2>3, <3>1, <3>3, <4>1, SMTT(30) DEF View
    <3> QED BY <3>2, <3>3, Zenon
  <2> QED BY <2>2, <2>3, Zenon
<1>17. SnapshotInv'
  <2> SUFFICES ASSUME NEW x \in MM, NEW d \in MM, MmapLocked(x), d = child[x], NEW s \in vmas'[d]
               PROVE  View(d, s)' = View(x, s)'
    BY <1>1, <1>10, Zenon DEF SnapshotInv
  <2>1. CASE d = c /\ s = r
    <3>1. x = p
      BY <1>2, <2>1, Zenon
    <3>2. View(p, r)' = resident[r]
      BY <1>1, <1>6, Zenon DEF View
    <3>3. View(c, r)' = resident[r]
      BY <1>2, <1>5, <1>6, <1>7, Zenon DEF View
    <3> QED BY <2>1, <3>1, <3>2, <3>3, Zenon
  <2>2. CASE ~(d = c /\ s = r)
    <3>1. s \in vmas[d]
      BY <1>6, <2>2, ZenonT(30)
    <3>2. s \in vmas[x]
      BY <3>1, ForkMaps, Zenon
    <3>3. View(d, s) = View(x, s)
      BY <3>1, ForkShares, Zenon
    <3> QED BY <1>16, <3>1, <3>2, <3>3, Zenon
  <2> QED BY <2>1, <2>2, Zenon
<1>18. PinInv'
  <2> SUFFICES ASSUME NEW s \in pinned
               PROVE  Sharers(s)' = {} /\ \A x \in MM : MmapLocked(x) => s \notin vmas'[x]
    BY <1>1, <1>10, Zenon DEF PinInv
  <2>1. s \in Region /\ s # r
    BY <1>inv, <1>1, <1>2, Types, Zenon DEF PinInv
  <2>2. \A x \in MM : s \in vmas'[x] => s \in vmas[x]
    BY <1>6, <2>1
  <2> QED BY <1>inv, <1>5, <2>1, <2>2, Zenon DEF PinInv
<1>19. \A x \in MM : mmState[x] # "building" => vmas'[x] = vmas[x]
  BY <1>2, <1>6, Zenon
<1> QED BY <1>1, <1>9, <1>11, <1>12, <1>13, <1>14, <1>15, <1>16, <1>17, <1>18, <1>19, Zenon DEF BankInv

\* Allocating a page set for a child keeps the invariant and every view.
LEMMA AllocInv ==
    ASSUME BankInv, NEW p \in MM, NEW r \in Region, bank_alloc(p, r)
    PROVE  /\ BankInv'
           /\ \A x \in MM : \A s \in vmas[x] : View(x, s)' = View(x, s)
<1>inv. /\ TypeOK /\ RingInv /\ MapInv /\ BankSetsInv /\ RunInv /\ LatchInv /\ ForkInv
        /\ SnapshotInv /\ PinInv
  BY Zenon DEF BankInv
<1>1. /\ newset' = [newset EXCEPT ![p] = r]
      /\ capacity' = [capacity EXCEPT ![r][child[p]] = Len(resident[r])]
      /\ shadow_pages' = shadow_pages + Len(resident[r])
      /\ broken' = FALSE /\ orphans' = 0
      /\ UNCHANGED <<mmState, tasks, vmas, current, child, todo, siblings, bank_owner, resident,
                     pages, pinned>>
      /\ MmapLocked(p) /\ r \in todo[p]
  BY Zenon DEF bank_alloc, procVars
<1>2. /\ child[p] \in MM /\ child[p] \notin Sharers(r) /\ r \in vmas[p]
      /\ \A q \in MM : child[q] = child[p] => q = p
  <2>1. r \notin vmas[child[p]] /\ child[p] \in MM /\ r \in vmas[p]
    BY <1>1, ForkChild, ForkMaps
  <2> QED BY <1>inv, <1>1, <2>1, Zenon DEF RingInv, ForkInv, MmapLocked
<1>3. Len(resident[r]) \in Nat
  BY <1>inv, Types, LenProperties, Zenon
<1>4. TypeOK'
  <2>1. broken' \in BOOLEAN
    BY <1>1, Zenon
  <2>2. capacity' \in [Region -> [MM -> Nat]]
    BY <1>inv, <1>1, <1>3, Zenon DEF TypeOK
  <2>3. shadow_pages' \in Int
    BY <1>inv, <1>1, <1>3 DEF TypeOK
  <2> QED BY <1>inv, <1>1, <2>1, <2>2, <2>3, Zenon DEF TypeOK
<1>5. /\ \A s \in Region : Sharers(s)' = Sharers(s)
      /\ \A x \in MM : MmapLocked(x)' <=> MmapLocked(x)
  BY <1>1, Zenon DEF Sharers, MmapLocked
<1>6. /\ \A s \in Region, x \in MM : s # r \/ x # child[p] => capacity'[s][x] = capacity[s][x]
      /\ capacity'[r][child[p]] = Len(resident[r])
      /\ \A x \in MM : newset'[x] = IF x = p THEN r ELSE newset[x]
  BY <1>inv, <1>1, <1>2, Zenon DEF TypeOK
<1>7. RingInv' /\ MapInv' /\ RunInv' /\ LatchInv'
  BY <1>inv, <1>1, <1>5 DEF RingInv, MapInv, RunInv, LatchInv
<1>8. BankSetsInv'
  <2>1. ASSUME NEW s \in Region, NEW x \in Sharers(s) PROVE capacity'[s][x] = capacity[s][x]
    BY <1>inv, <1>2, <1>6, SharersAreMms, Zenon
  <2> QED BY <1>inv, <1>1, <1>5, <2>1 DEF BankSetsInv
<1>9. ForkInv'
  <2>1. ASSUME NEW x \in MM, child[x] # None
        PROVE  /\ mmState[x] = "live" /\ tasks[x] = 1
               /\ mmState[child[x]] \in {"building", "exiting"}
               /\ \A q \in MM : child[q] = child[x] => q = x
    BY <1>inv, <2>1, Zenon DEF ForkInv
  <2>2. ASSUME NEW x \in MM, MmapLocked(x)
        PROVE  /\ todo[x] \subseteq vmas[x] /\ vmas[child[x]] = vmas[x] \ todo[x]
               /\ newset'[x] # None =>
                    /\ newset'[x] \in todo[x]
                    /\ capacity'[newset'[x]][child[x]] = Len(resident[newset'[x]])
    <3>0. /\ todo[x] \subseteq vmas[x] /\ vmas[child[x]] = vmas[x] \ todo[x]
          /\ newset[x] # None =>
               /\ newset[x] \in todo[x] /\ newset[x] \in Region
               /\ capacity[newset[x]][child[x]] = Len(resident[newset[x]])
      BY <2>2, ForkMaps, Zenon
    <3>1. CASE x = p
      BY <1>1, <1>6, <3>0, <3>1, Zenon
    <3>2. CASE x # p
      <4>1. child[x] # child[p] /\ child[x] \in MM /\ newset'[x] = newset[x]
        BY <1>2, <1>6, <2>2, <3>2, ForkChild, Zenon
      <4>2. newset[x] # None => capacity'[newset[x]][child[x]] = capacity[newset[x]][child[x]]
        BY <1>6, <3>0, <4>1, Zenon
      <4> QED BY <3>0, <4>1, <4>2, Zenon
    <3> QED BY <3>1, <3>2, Zenon
  <2>3. ASSUME NEW x \in MM, ~MmapLocked(x) PROVE todo[x] = {} /\ newset'[x] = None
    BY <1>inv, <1>1, <1>6, <2>3, SMTT(30) DEF ForkInv
  <2> QED BY <1>1, <1>5, <2>1, <2>2, <2>3, SMTT(30) DEF ForkInv
<1>10. \A x \in MM : \A s \in vmas[x] : View(x, s)' = View(x, s)
  BY <1>inv, <1>1, <1>5, Types, Zenon DEF View
<1>11. SnapshotInv'
  BY <1>1, <1>10, ForkMaps, SnapshotFrame, Zenon
<1>12. PinInv'
  BY <1>inv, <1>1, <1>5, Types, Zenon DEF PinInv
<1> QED BY <1>4, <1>7, <1>8, <1>9, <1>10, <1>11, <1>12, Zenon DEF BankInv

-----------------------------------------------------------------------------
(* The start, and steps of one process. *)

\* The boot state, with one process and nothing shared, satisfies the invariant.
LEMMA InitInv == Init => BankInv
<1> SUFFICES ASSUME Init PROVE BankInv
  BY Zenon
<1>1. TypeOK
  <2>1. << >> \in Seq(MM) /\ << >> \in Seq(Value) /\ 0 \in 0..MaxTasks
    BY ConstantsAssumption
  <2>2. /\ siblings \in [Region -> Seq(MM)]
        /\ resident \in [Region -> Seq(Value)]
        /\ pages \in [Region -> [MM -> Seq(Value)]]
    BY <2>1, Zenon DEF Init
  <2>3. /\ tasks \in [MM -> 0..MaxTasks]
        /\ capacity \in [Region -> [MM -> Nat]]
        /\ mmState \in [MM -> {"free", "building", "live", "exiting"}]
    BY <2>1, Zenon DEF Init
  <2>4. /\ child \in [MM -> MM \cup {None}]
        /\ newset \in [MM -> Region \cup {None}]
        /\ bank_owner \in [Region -> MM \cup {None}]
        /\ vmas \in [MM -> SUBSET Region] /\ todo \in [MM -> SUBSET Region]
    BY Zenon DEF Init
  <2>5. /\ current \in MM \cup {None} /\ shadow_pages \in Int /\ orphans \in Nat
        /\ pinned \subseteq Region
    BY DEF Init
  <2>6. broken \in BOOLEAN
    BY Zenon DEF Init
  <2> QED BY <2>2, <2>3, <2>4, <2>5, <2>6, Zenon DEF TypeOK
<1>2. \A r \in Region : Sharers(r) = {}
  BY DEF Init, Sharers, Range
<1>3. RingInv
  BY <1>2 DEF Init, RingInv, Injective
<1>4. ForkInv /\ \A p \in MM : ~MmapLocked(p)
  BY Zenon DEF Init, ForkInv, MmapLocked
<1> QED BY <1>1, <1>2, <1>3, <1>4, Zenon
        DEF Init, BankInv, MapInv, BankSetsInv, RunInv, LatchInv, SnapshotInv, PinInv

\* init_new_context() for a fresh address space keeps the invariant.
LEMMA NewMmInv == ASSUME BankInv, NEW m \in MM, NewMm(m) PROVE BankInv'
<1> USE DEF NewMm, BankInv, bankVars, forkVars, latchVars
<1>1. TypeOK'
  BY ConstantsAssumption DEF TypeOK
<1>2. RingInv' /\ BankSetsInv' /\ LatchInv'
  BY Zenon DEF RingInv, BankSetsInv, LatchInv, Sharers
<1>3. MapInv' /\ RunInv'
  BY Zenon DEF MapInv, RunInv, Sharers, TypeOK
<1>4. \A p \in MM : MmapLocked(p)' <=> MmapLocked(p)
  BY DEF MmapLocked, ForkInv, TypeOK
<1>5. ForkInv'
  BY <1>4 DEF ForkInv, TypeOK
<1>6. SnapshotInv' /\ PinInv'
  BY <1>4 DEF SnapshotInv, PinInv, View, Sharers
<1> QED BY <1>1, <1>2, <1>3, <1>5, <1>6, Zenon

\* Threads coming and going keep the invariant: fork() is refused while there are two.
LEMMA ThreadInv ==
    ASSUME BankInv, NEW m \in MM, ThreadClone(m) \/ ThreadExit(m) PROVE BankInv'
<1> USE DEF BankInv, bankVars, forkVars, latchVars
<1>0. /\ InUserMode(m)
      /\ tasks' = [tasks EXCEPT ![m] = tasks'[m]]
      /\ tasks'[m] \in 0..MaxTasks
      /\ UNCHANGED <<mmState, vmas, current, forkVars, bankVars, latchVars, pinned>>
  <2>1. tasks \in [MM -> 0..MaxTasks]
    BY Zenon DEF TypeOK
  <2>2. CASE ThreadClone(m)
    BY <2>1, <2>2, ConstantsAssumption DEF ThreadClone
  <2>3. CASE ThreadExit(m)
    BY <2>1, <2>3, ConstantsAssumption DEF ThreadExit
  <2> QED BY <2>2, <2>3, Zenon
<1> USE <1>0
<1>1. TypeOK'
  BY Zenon DEF TypeOK
<1>2. RingInv' /\ BankSetsInv' /\ LatchInv' /\ MapInv' /\ RunInv'
  BY Zenon DEF RingInv, BankSetsInv, LatchInv, MapInv, RunInv, Sharers
<1>3. \A p \in MM : MmapLocked(p)' <=> MmapLocked(p)
  BY Zenon DEF MmapLocked
<1>4. child[m] = None
  BY DEF ForkInv, InUserMode
<1>5. ForkInv'
  BY <1>3, <1>4 DEF ForkInv, TypeOK
<1>6. SnapshotInv' /\ PinInv'
  BY <1>3 DEF SnapshotInv, PinInv, View, Sharers
<1> QED BY <1>1, <1>2, <1>5, <1>6, Zenon

\* Releasing a pinned page keeps the invariant.
LEMMA PutPageInv == ASSUME BankInv, NEW r \in Region, PutPage(r) PROVE BankInv'
<1> USE DEF PutPage, BankInv, bankVars, forkVars, latchVars, procVars
<1>1. TypeOK' /\ RingInv' /\ BankSetsInv' /\ LatchInv' /\ MapInv' /\ RunInv'
  <2>1. TypeOK'
    BY DEF TypeOK
  <2>2. RingInv' /\ BankSetsInv'
    BY DEF RingInv, BankSetsInv, Sharers
  <2>3. LatchInv' /\ MapInv' /\ RunInv'
    BY DEF LatchInv, MapInv, RunInv, Sharers
  <2> QED BY <2>1, <2>2, <2>3, Zenon
<1>0. \A p \in MM : MmapLocked(p)' <=> MmapLocked(p)
  BY Zenon DEF MmapLocked
<1>2. ForkInv'
  BY <1>0 DEF ForkInv
<1>3. SnapshotInv'
  BY DEF SnapshotInv, MmapLocked, View, Sharers
<1>4. PinInv'
  BY Zenon DEF PinInv, MmapLocked, Sharers
<1> QED BY <1>1, <1>2, <1>3, <1>4, Zenon

\* Pinning a page keeps the invariant: a banked region is refused.
LEMMA GetUserPagesInv ==
    ASSUME BankInv, NEW m \in MM, NEW r \in Region, GetUserPages(m, r) PROVE BankInv'
<1> USE DEF GetUserPages, BankInv, bankVars, forkVars, latchVars, procVars
<1>1. TypeOK' /\ RingInv' /\ BankSetsInv' /\ LatchInv' /\ MapInv' /\ RunInv'
  BY SMTT(30) DEF TypeOK, RingInv, BankSetsInv, LatchInv, MapInv, RunInv, Sharers
<1>2. ForkInv' /\ SnapshotInv'
  <2>1. /\ ForkInv /\ SnapshotInv
        /\ UNCHANGED <<mmState, tasks, vmas, child, todo, newset, siblings, bank_owner, resident,
                       capacity, pages>>
    BY Zenon
  <2> HIDE DEF GetUserPages, BankInv, bankVars, forkVars, latchVars, procVars
  <2>2. \A p \in MM : MmapLocked(p)' <=> MmapLocked(p)
    BY <2>1, Zenon DEF MmapLocked
  <2>3. ForkInv'
    <3>1. ASSUME NEW p \in MM, child'[p] # None
          PROVE  /\ mmState'[p] = "live" /\ tasks'[p] = 1
                 /\ mmState'[child'[p]] \in {"building", "exiting"}
                 /\ \A q \in MM : child'[q] = child'[p] => q = p
      BY <2>1, <3>1, ZenonT(30) DEF ForkInv
    <3>2. ASSUME NEW p \in MM, MmapLocked(p)'
          PROVE  /\ todo'[p] \subseteq vmas'[p] /\ vmas'[child'[p]] = vmas'[p] \ todo'[p]
                 /\ newset'[p] # None => /\ newset'[p] \in todo'[p]
                                         /\ capacity'[newset'[p]][child'[p]] = Len(resident'[newset'[p]])
      BY <2>1, <2>2, <3>2, Zenon DEF ForkInv
    <3>3. ASSUME NEW p \in MM, ~MmapLocked(p)' PROVE todo'[p] = {} /\ newset'[p] = None
      BY <2>1, <2>2, <3>3, Zenon DEF ForkInv
    <3> QED BY <3>1, <3>2, <3>3, Zenon DEF ForkInv
  <2>4. \A x, s : View(x, s)' = View(x, s)
    BY <2>1, Zenon DEF View, Sharers
  <2>5. SnapshotInv'
    BY <2>1, <2>2, <2>4, Zenon DEF SnapshotInv
  <2> QED BY <2>3, <2>5, Zenon
<1>3. Sharers(r) = {} /\ \A x \in MM : r \in vmas[x] => x = m
  BY UnbankedIsAlone, Zenon
<1>4. PinInv'
  BY <1>3, Zenon DEF PinInv, MmapLocked, Sharers
<1> QED BY <1>1, <1>2, <1>4, ZenonT(30)

\* The last task leaving its address space keeps the invariant.
LEMMA ExitMmInv == ASSUME BankInv, NEW m \in MM, ExitMm(m) PROVE BankInv'
<1> USE DEF ExitMm, BankInv, bankVars, forkVars, latchVars
<1>1. TypeOK'
  BY ConstantsAssumption, 0 \in 0..MaxTasks, Zenon DEF TypeOK
<1>2. RingInv' /\ BankSetsInv' /\ LatchInv' /\ MapInv' /\ RunInv'
  BY ConstantsAssumption, SMTT(30) DEF RingInv, BankSetsInv, LatchInv, MapInv, RunInv, Sharers, TypeOK
<1>3. child[m] = None /\ mmState[m] = "live"
  <2>1. current = m /\ child[m] = None
    BY DEF InUserMode
  <2> QED BY <2>1, ConstantsAssumption, Zenon DEF RunInv
<1>4. \A p \in MM : MmapLocked(p)' <=> MmapLocked(p)
  BY <1>3, Zenon DEF MmapLocked, TypeOK
<1>5. ForkInv'
  BY <1>3, <1>4 DEF ForkInv, TypeOK
<1>6. SnapshotInv' /\ PinInv'
  BY <1>4 DEF SnapshotInv, PinInv, View, Sharers
<1> QED BY <1>1, <1>2, <1>5, <1>6, Zenon

\* Freeing an address space with nothing mapped keeps the invariant.
LEMMA FreeMmInv == ASSUME BankInv, NEW m \in MM, FreeMm(m) PROVE BankInv'
<1> USE DEF FreeMm, BankInv, bankVars, latchVars
<1>1. TypeOK'
  BY Zenon DEF TypeOK
<1>2. RingInv' /\ BankSetsInv' /\ LatchInv' /\ MapInv'
  BY DEF RingInv, BankSetsInv, LatchInv, MapInv, Sharers, TypeOK
<1>3. RunInv'
  BY Zenon DEF RunInv, Sharers, TypeOK
<1>4. \A p \in MM : MmapLocked(p)' <=> MmapLocked(p)
  BY Zenon DEF MmapLocked, TypeOK
<1>5. \A p \in MM : MmapLocked(p) => child'[p] = child[p]
  BY Zenon DEF MmapLocked, TypeOK
<1>6. ForkInv'
  BY <1>4, <1>5, SMTT(30) DEF ForkInv, TypeOK
<1>7. SnapshotInv' /\ PinInv'
  BY <1>4, <1>5, SMTT(30) DEF SnapshotInv, PinInv, View, Sharers
<1> QED BY <1>1, <1>2, <1>3, <1>6, <1>7, Zenon

\* Mapping a fresh region keeps the invariant and changes no other view.
LEMMA MmapInv ==
    ASSUME BankInv, NEW m \in MM, NEW r \in Region, NEW n \in 1..MaxPages, Mmap(m, r, n)
    PROVE  /\ BankInv'
           /\ \A x \in MM : \A s \in vmas[x] : s # r /\ View(x, s)' = View(x, s)
           /\ View(m, r)' = [i \in 1..n |-> Zero]
<1> DEFINE fresh == [i \in 1..n |-> Zero]
<1>1. fresh \in Seq(Value) /\ Len(fresh) = n
  BY ConstantsAssumption
<1> HIDE DEF fresh
<1>2. TypeOK'
  BY <1>1, Zenon DEF TypeOK, BankInv, Mmap, forkVars, latchVars, fresh
<1>3. /\ \A s \in Region : s # r => resident'[s] = resident[s] /\ bank_owner'[s] = bank_owner[s]
      /\ resident'[r] = fresh
      /\ \A x \in MM, s \in Region : s \in vmas'[x] <=> s \in vmas[x] \/ (x = m /\ s = r)
      /\ \A x \in MM : x # m => vmas'[x] = vmas[x]
      /\ UNCHANGED <<mmState, tasks, current, child, todo, newset, siblings, capacity, pages,
                     orphans, broken, pinned>>
  BY Zenon DEF BankInv, Mmap, TypeOK, forkVars, latchVars, fresh
<1>inv. /\ TypeOK /\ RingInv /\ MapInv /\ BankSetsInv /\ RunInv /\ LatchInv /\ PinInv
  BY Zenon DEF BankInv
<1>4. \A x \in MM : r \notin vmas[x]
  BY Zenon DEF Mmap, vm_usage
<1>5. Sharers(r) = {}
  BY <1>inv, <1>4, SharersAreMms, Zenon DEF RingInv
<1>6. \A s \in Region : Sharers(s)' = Sharers(s)
  BY <1>3, Zenon DEF Sharers
<1>7. child[m] = None /\ mmState[m] = "live" /\ r \notin pinned
  BY UserModeFacts, Zenon DEF Mmap
<1>8. RingInv'
  <2> SUFFICES ASSUME NEW s \in Region
               PROVE  /\ Injective(siblings'[s])
                      /\ \A x \in Sharers(s)' : s \in vmas'[x]
                      /\ \A x, y \in MM : x # y /\ s \in vmas'[x] /\ s \in vmas'[y]
                                         => x \in Sharers(s)'
    BY Zenon DEF RingInv
  <2>1. CASE s = r
    BY <1>inv, <1>3, <1>4, <1>5, <1>6, <2>1 DEF RingInv
  <2>2. CASE s # r
    BY <1>inv, <1>3, <1>6, <2>2, SharersAreMms DEF RingInv
  <2> QED BY <2>1, <2>2, Zenon
<1>9. MapInv'
  <2>1. ASSUME NEW x \in MM, NEW s \in vmas'[x] PROVE Len(resident'[s]) \in 1..MaxPages
    <3>1. s \in Region
      BY <1>2, Types, Zenon DEF TypeOK
    <3> QED BY <1>inv, <1>1, <1>3, <3>1, Zenon DEF MapInv
  <2>2. ASSUME NEW x \in MM, mmState'[x] = "free" PROVE vmas'[x] = {}
    BY <1>inv, <1>3, <1>7, <2>2, Zenon DEF MapInv
  <2> QED BY <2>1, <2>2, Zenon DEF MapInv
<1>10. BankSetsInv'
  BY <1>inv, <1>3, <1>5, <1>6 DEF BankSetsInv
<1>11. RunInv' /\ LatchInv'
  BY <1>inv, <1>3, <1>5, <1>6, Zenon DEF RunInv, LatchInv
<1>12. ASSUME NEW p \in MM, MmapLocked(p)
       PROVE  /\ vmas'[p] = vmas[p] /\ vmas'[child[p]] = vmas[child[p]]
              /\ newset[p] # None => capacity'[newset[p]][child[p]] = Len(resident'[newset[p]])
  <2>1. p # m /\ child[p] # m /\ child[p] \in MM
    BY <1>7, <1>12, ForkChild, Zenon DEF MmapLocked
  <2>2. newset[p] # None => newset[p] \in Region /\ newset[p] # r
    BY <1>4, <1>12, ForkMaps, Zenon
  <2> QED BY <1>3, <1>12, <2>1, <2>2, ForkMaps, Zenon
<1>13. ForkInv' /\ \A p \in MM : MmapLocked(p)' <=> MmapLocked(p)
  BY <1>3, <1>12, ForkFrame, Zenon
<1>14. ASSUME NEW x \in MM, NEW s \in vmas[x]
       PROVE  s # r /\ View(x, s)' = View(x, s)
  <2>1. s \in Region
    BY <1>inv, Types, ZenonT(30)
  <2> QED BY <1>3, <1>4, <1>6, <2>1, Zenon DEF View
<1>15. SnapshotInv'
  BY <1>3, <1>12, <1>14, ForkMaps, SnapshotFrame, SMTT(30)
<1>16. PinInv'
  <2> SUFFICES ASSUME NEW s \in pinned
               PROVE  Sharers(s)' = {} /\ \A p \in MM : MmapLocked(p)' => s \notin vmas'[p]
    BY <1>3, Zenon DEF PinInv
  <2>1. s \in Region
    BY <1>inv, Types, Zenon
  <2> QED BY <1>inv, <1>3, <1>6, <1>7, <1>13, <2>1, Zenon DEF PinInv
<1>17. View(m, r)' = fresh
  BY <1>3, <1>5, <1>6, Zenon DEF View
<1> QED BY <1>2, <1>8, <1>9, <1>10, <1>11, <1>13, <1>14, <1>15, <1>16, <1>17, Zenon DEF BankInv, fresh

\* Shortening an unshared region keeps the invariant and everyone else's view.
LEMMA ShrinkInv ==
    ASSUME BankInv, NEW m \in MM, NEW r \in Region, vmi_shrink_vma(m, r)
    PROVE  /\ BankInv'
           /\ \A x \in MM : \A s \in vmas[x] : x # m \/ s # r => View(x, s)' = View(x, s)
           /\ View(m, r) = resident[r]
           /\ View(m, r)' = SubSeq(resident[r], 1, Len(resident[r]) - 1)
<1> DEFINE short == SubSeq(resident[r], 1, Len(resident[r]) - 1)
<1>inv. /\ TypeOK /\ RingInv /\ MapInv /\ BankSetsInv /\ RunInv /\ LatchInv /\ PinInv
  BY Zenon DEF BankInv
<1>1. short \in Seq(Value) /\ Len(short) \in 1..MaxPages
  <2>1. resident[r] \in Seq(Value) /\ Len(resident[r]) \in 1..MaxPages /\ Len(resident[r]) > 1
    BY <1>inv, Types, Zenon DEF MapInv, vmi_shrink_vma
  <2>2. 1 \in 1..Len(resident[r]) + 1 /\ Len(resident[r]) - 1 \in 1 - 1..Len(resident[r])
    BY <2>1, ConstantsAssumption
  <2>3. short \in Seq(Value) /\ Len(short) = Len(resident[r]) - 1 - 1 + 1
    BY <2>1, <2>2, SubSeqProperties, Zenon
  <2> QED BY <2>1, <2>3, ConstantsAssumption
<1> HIDE DEF short
<1>2. TypeOK'
  BY <1>inv, <1>1, Zenon DEF TypeOK, vmi_shrink_vma, procVars, forkVars, latchVars, short
<1>3. /\ \A s \in Region : s # r => resident'[s] = resident[s]
      /\ resident'[r] = short
      /\ UNCHANGED <<mmState, tasks, vmas, current, child, todo, newset, siblings, bank_owner,
                     capacity, pages, orphans, broken, pinned>>
  BY <1>inv, Zenon DEF vmi_shrink_vma, TypeOK, procVars, forkVars, latchVars, short
<1>4. Sharers(r) = {} /\ \A x \in MM : r \in vmas[x] => x = m
  BY UnbankedIsAlone, Zenon DEF vmi_shrink_vma
<1>5. \A s \in Region : Sharers(s)' = Sharers(s)
  BY <1>3, Zenon DEF Sharers
<1>6. child[m] = None /\ mmState[m] = "live"
  BY UserModeFacts, Zenon DEF vmi_shrink_vma
<1>7. RingInv' /\ RunInv' /\ LatchInv'
  BY <1>inv, <1>3, <1>5, Zenon DEF RingInv, RunInv, LatchInv
<1>8. MapInv'
  BY <1>inv, <1>1, <1>3, Types, Zenon DEF MapInv
<1>9. BankSetsInv'
  BY <1>inv, <1>3, <1>4, <1>5, SMTT(30) DEF BankSetsInv
<1>10. ASSUME NEW p \in MM, MmapLocked(p), NEW s \in vmas[p] PROVE s # r /\ s \in Region
  BY <1>4, <1>6, <1>10, ForkMaps, Zenon DEF MmapLocked
<1>11. ForkInv' /\ \A p \in MM : MmapLocked(p)' <=> MmapLocked(p)
  BY <1>3, <1>10, ForkMaps, ForkFrame, Zenon
<1>12. ASSUME NEW x \in MM, NEW s \in vmas[x], x # m \/ s # r
       PROVE  View(x, s)' = View(x, s)
  <2>1. s \in Region /\ s # r
    BY <1>inv, <1>4, <1>12, Types, Zenon
  <2> QED BY <1>3, <1>5, <2>1, Zenon DEF View
<1>13. SnapshotInv'
  <2>1. UNCHANGED <<mmState, child, vmas>>
    BY <1>3, Zenon
  <2>2. ASSUME NEW p \in MM, NEW c \in MM, MmapLocked(p), c = child[p], NEW s \in vmas[c]
        PROVE  View(c, s)' = View(c, s) /\ View(p, s)' = View(p, s)
    <3>1. s \in vmas[p] /\ s # r
      BY <1>10, <2>2, ForkMaps, Zenon
    <3> QED BY <1>12, <2>2, <3>1, Zenon
  <2> QED BY <2>1, <2>2, SnapshotFrame, Zenon
<1>14. PinInv'
  <2>1. pinned' = pinned /\ vmas' = vmas /\ pinned \subseteq Region
    BY <1>inv, <1>3, Zenon DEF TypeOK
  <2> QED BY <1>inv, <1>5, <1>11, <2>1, Zenon DEF PinInv
<1>15. View(m, r) = resident[r] /\ View(m, r)' = short
  BY <1>3, <1>4, <1>5, Zenon DEF View
<1> QED BY <1>2, <1>7, <1>8, <1>9, <1>11, <1>12, <1>13, <1>14, <1>15, Zenon DEF BankInv, short

-----------------------------------------------------------------------------
(* Running: stores and accesses. *)

\* A store by the running process lands in its own copy and in no other.
LEMMA WriteInv ==
    ASSUME BankInv, NEW m \in MM, NEW r \in Region, NEW i \in 1..MaxPages, NEW v \in Value,
           Write(m, r, i, v)
    PROVE  /\ BankInv'
           /\ \A x \in MM : \A s \in vmas[x] : x # m \/ s # r => View(x, s)' = View(x, s)
           /\ View(m, r)' = [View(m, r) EXCEPT ![i] = v] /\ i \in DOMAIN View(m, r)
<1>inv. /\ TypeOK /\ RingInv /\ MapInv /\ BankSetsInv /\ RunInv /\ LatchInv /\ PinInv
  BY Zenon DEF BankInv
<1> DEFINE new == [resident[r] EXCEPT ![i] = v]
<1>1. new \in Seq(Value) /\ Len(new) = Len(resident[r])
  <2>1. resident[r] \in Seq(Value)
    BY <1>inv, Types, Zenon
  <2>2. i \in 1..Len(resident[r])
    BY <2>1, LenProperties, Zenon DEF Write
  <2> QED BY <2>1, <2>2, ExceptSeq
<1> HIDE DEF new
<1>2. TypeOK'
  BY <1>inv, <1>1, Zenon DEF TypeOK, Write, procVars, forkVars, latchVars, new
<1>3. /\ \A s \in Region : s # r => resident'[s] = resident[s]
      /\ resident'[r] = new
      /\ UNCHANGED <<mmState, tasks, vmas, current, child, todo, newset, siblings, bank_owner,
                     capacity, pages, orphans, broken, pinned>>
  BY <1>inv, Zenon DEF Write, TypeOK, procVars, forkVars, latchVars, new
<1>4. /\ \A s \in Region : Len(resident'[s]) = Len(resident[s])
      /\ \A s \in Region : Sharers(s)' = Sharers(s)
  BY <1>1, <1>3, Zenon DEF Sharers
<1>5. child[m] = None /\ mmState[m] = "live" /\ current = m /\ r \in vmas[m]
  BY UserModeFacts, Zenon DEF Write
<1>6. RingInv' /\ RunInv' /\ LatchInv'
  BY <1>inv, <1>3, <1>4 DEF RingInv, RunInv, LatchInv
<1>7. MapInv'
  BY <1>inv, <1>3, <1>4, Types, Zenon DEF MapInv
<1>8. BankSetsInv'
  BY <1>inv, <1>3, <1>4, Zenon DEF BankSetsInv
<1>9. ForkInv' /\ \A p \in MM : MmapLocked(p)' <=> MmapLocked(p)
  BY <1>3, <1>4, ForkMaps, ForkFrame, Zenon
<1>10. m \in Sharers(r) => bank_owner[r] = m
  BY <1>inv, <1>5, ConstantsAssumption, Zenon DEF RunInv
<1>11. ASSUME NEW x \in MM, NEW s \in vmas[x], x # m \/ s # r
       PROVE  View(x, s)' = View(x, s)
  <2>1. s \in Region
    BY <1>inv, Types, Zenon
  <2>2. CASE s # r
    BY <1>3, <1>4, <2>1, <2>2, Zenon DEF View
  <2>3. CASE s = r
    <3>1. x \in Sharers(r) /\ m \in Sharers(r) /\ bank_owner[r] # x
      BY <1>inv, <1>5, <1>10, <1>11, <2>3, Zenon DEF RingInv
    <3> QED BY <1>3, <1>4, <2>3, <3>1, Zenon DEF View
  <2> QED BY <2>2, <2>3, Zenon
<1>12. SnapshotInv'
  BY <1>3, <1>5, <1>11, ForkMaps, SnapshotFrame, Zenon DEF MmapLocked
<1>13. PinInv'
  BY <1>inv, <1>3, <1>4, <1>9, Types, Zenon DEF PinInv
<1>14. View(m, r) = resident[r] /\ View(m, r)' = new /\ i \in DOMAIN resident[r]
  BY <1>3, <1>4, <1>10, Zenon DEF View, Write
<1> QED BY <1>2, <1>6, <1>7, <1>8, <1>9, <1>11, <1>12, <1>13, <1>14, Zenon DEF BankInv, new

\* A debugger's store lands in the target's copy, resident or not.
LEMMA AccessInv ==
    ASSUME BankInv, NEW m \in MM, NEW r \in Region, NEW i \in 1..MaxPages, NEW v \in Value,
           bank_access(m, r, i, v)
    PROVE  /\ BankInv'
           /\ \A x \in MM : \A s \in vmas[x] : x # m \/ s # r => View(x, s)' = View(x, s)
           /\ View(m, r)' = [View(m, r) EXCEPT ![i] = v] /\ i \in DOMAIN View(m, r)
<1>inv. /\ TypeOK /\ RingInv /\ MapInv /\ BankSetsInv /\ RunInv /\ LatchInv /\ PinInv
  BY Zenon DEF BankInv
<1> DEFINE away == m \in Sharers(r) /\ bank_owner[r] # m
           new == [View(m, r) EXCEPT ![i] = v]
<1>0. resident[r] \in Seq(Value) /\ pages[r][m] \in Seq(Value) /\ View(m, r) \in Seq(Value)
  BY <1>inv, Types, Zenon DEF View
<1>1. new \in Seq(Value) /\ Len(new) = Len(View(m, r)) /\ i \in DOMAIN View(m, r)
  <2>1. i \in DOMAIN View(m, r)
    BY Zenon DEF bank_access
  <2>2. i \in 1..Len(View(m, r))
    BY <1>0, <2>1, LenProperties, Zenon
  <2> QED BY <1>0, <2>1, <2>2, ExceptSeq
<1> HIDE DEF new
<1>2. /\ UNCHANGED <<mmState, tasks, vmas, current, child, todo, newset, siblings, bank_owner,
                     capacity, shadow_pages, orphans, broken, pinned>>
      /\ r \in vmas[m] /\ ~MmapLocked(m) /\ mmState[m] = "live"
  BY Zenon DEF bank_access, procVars, forkVars, latchVars
<1>3. resident' = [resident EXCEPT ![r] = IF away THEN @ ELSE new]
  <2>1. CASE away
    BY <1>inv, <2>1, Zenon DEF bank_access, TypeOK
  <2>2. CASE ~away
    BY <1>inv, <2>2, Zenon DEF bank_access, TypeOK, new, View
  <2> QED BY <2>1, <2>2, Zenon
<1>4. pages' = [pages EXCEPT ![r][m] = IF away THEN new ELSE @]
  <2>1. CASE away
    BY <1>inv, <2>1, Zenon DEF bank_access, TypeOK, new, View
  <2>2. CASE ~away
    BY <1>inv, <2>2, Zenon DEF bank_access, TypeOK
  <2> QED BY <2>1, <2>2, Zenon
<1>5. resident' \in [Region -> Seq(Value)] /\ pages' \in [Region -> [MM -> Seq(Value)]]
  <2>1. resident \in [Region -> Seq(Value)] /\ pages \in [Region -> [MM -> Seq(Value)]]
    BY <1>inv, Zenon DEF TypeOK
  <2> HIDE DEF away
  <2>2. resident' \in [Region -> Seq(Value)]
    BY <1>0, <1>1, <1>3, <2>1, Zenon
  <2>3. pages' \in [Region -> [MM -> Seq(Value)]]
    BY <1>0, <1>1, <1>4, <2>1, Zenon
  <2> QED BY <2>2, <2>3, Zenon
<1>6. TypeOK'
  BY <1>inv, <1>2, <1>5, Zenon DEF TypeOK
<1>7. /\ \A s \in Region : s # r => resident'[s] = resident[s]
      /\ \A s \in Region, x \in MM : x # m \/ s # r => pages'[s][x] = pages[s][x]
      /\ resident'[r] = IF away THEN resident[r] ELSE new
      /\ pages'[r][m] = IF away THEN new ELSE pages[r][m]
  BY <1>inv, <1>3, <1>4, Zenon DEF TypeOK
<1>8. \A s \in Region : Len(resident'[s]) = Len(resident[s])
  BY <1>1, <1>7, Zenon DEF View
<1>9. \A s \in Region : Sharers(s)' = Sharers(s)
  BY <1>2, Zenon DEF Sharers
<1>10. RingInv' /\ RunInv' /\ LatchInv'
  BY <1>inv, <1>2, <1>9, Zenon DEF RingInv, RunInv, LatchInv
<1>11. MapInv'
  BY <1>inv, <1>2, <1>8, Types, SMTT(20) DEF MapInv
<1>12. BankSetsInv'
  <2>1. ASSUME NEW s \in Region, NEW x \in MM
        PROVE  Len(pages'[s][x]) = Len(pages[s][x])
               /\ (x \notin Sharers(s) \/ x = bank_owner[s] => pages'[s][x] = pages[s][x])
    BY <1>1, <1>7, Zenon DEF View
  <2>2. \A s \in Region : Sharers(s) \subseteq MM
    BY <1>inv, SharersAreMms, Zenon
  <2>3. bank_owner' = bank_owner /\ capacity' = capacity
    BY <1>2, Zenon
  <2>4. BankSetsInv
    BY <1>inv, Zenon
  <2> QED BY <1>8, <1>9, <2>1, <2>2, <2>3, <2>4 DEF BankSetsInv
<1>13. ForkInv' /\ \A p \in MM : MmapLocked(p)' <=> MmapLocked(p)
  BY <1>2, <1>8, ForkMaps, ForkFrame, Zenon
<1>14. ASSUME NEW x \in MM, NEW s \in vmas[x], x # m \/ s # r
       PROVE  View(x, s)' = View(x, s)
  <2>1. s \in Region
    BY <1>inv, Types, Zenon
  <2>2. CASE s # r
    BY <1>2, <1>7, <1>9, <2>1, <2>2, Zenon DEF View
  <2>3. CASE s = r
    <3>1. x \in Sharers(r) /\ m \in Sharers(r) /\ x # m
      BY <1>inv, <1>2, <1>14, <2>3, Zenon DEF RingInv
    <3> QED BY <1>2, <1>7, <1>9, <2>3, <3>1, Zenon DEF View
  <2> QED BY <2>2, <2>3, Zenon
<1>15. SnapshotInv'
  <2>1. ASSUME NEW p \in MM, NEW c \in MM, MmapLocked(p), c = child[p]
        PROVE  p # m /\ c # m /\ vmas[c] \subseteq vmas[p]
    <3>1. mmState[c] = "building" /\ mmState[m] = "live" /\ ~MmapLocked(m)
      BY <1>2, <2>1, ForkChild, Zenon
    <3>2. vmas[c] \subseteq vmas[p]
      BY <2>1, ForkMaps
    <3> QED BY <2>1, <3>1, <3>2
  <2> QED BY <1>2, <1>14, <2>1, SnapshotFrame, Zenon
<1>16. PinInv'
  BY <1>inv, <1>2, <1>9, <1>13, Types, Zenon DEF PinInv
<1>17. View(m, r)' = new
  BY <1>2, <1>7, <1>9, Zenon DEF View
<1> QED BY <1>1, <1>6, <1>10, <1>11, <1>12, <1>13, <1>14, <1>15, <1>16, <1>17, Zenon DEF BankInv, new
=============================================================================
