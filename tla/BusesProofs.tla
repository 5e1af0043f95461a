---------------------------- MODULE BusesProofs -----------------------------
(***************************************************************************)
(* The ring and the buses are correct for any size of the ring, any width  *)
(* of the counters and any lengths of packets: the ring implements Fifo    *)
(* under the mapping Entries, every packet the driver queues is whole, the *)
(* SPI driver gives back what it holds, the SDIO driver never overruns the *)
(* chip, and neither leaves a packet behind or the network stopped, but    *)
(* for the packets the properties except. The arithmetic modulo n that the *)
(* counters need comes first.                                              *)
(***************************************************************************)
EXTENDS MCBuses, Integers, Sequences, TLAPS

-----------------------------------------------------------------------------
(* Arithmetic modulo n *)

\* The sizes a ring or a counter can have.
Pos == Nat \ {0}
\* The remainders modulo n.
Rest(n) == 0 .. n - 1

\* x is r more than q times n, hidden from the provers, which would multiply
\* out.
Split(x, n, q, r) == x = n * q + r

\* A remainder is one of the remainders.
LEMMA ModRange ==
    ASSUME NEW n \in Pos, NEW x \in Int
    PROVE  x % n \in Rest(n)
BY DEF Rest, Pos

\* The remainder of a multiple of n and r is r.
LEMMA ModIs ==
    ASSUME NEW n \in Pos, NEW q \in Int, NEW r \in Rest(n)
    PROVE  (n * q + r) % n = r
BY DEF Rest, Pos

\* Products of sums.
LEMMA Distributes ==
    ASSUME NEW n \in Int, NEW q \in Int, NEW p \in Int
    PROVE  n * (q + p) = n * q + n * p /\ n * (q - p) = n * q - n * p /\ n * q \in Int
OBVIOUS

\* Every integer is a multiple of n and its remainder.
LEMMA ModSplit ==
    ASSUME NEW n \in Pos, NEW x \in Int
    PROVE  \E q \in Int : Split(x, n, q, x % n)
<1> DEFINE q == x \div n
           r == x - n * q
<1>1. q \in Int /\ n * q \in Int /\ n * q <= x /\ x < n * q + n
  BY DEF Pos
<1> HIDE DEF q
<1>2. r \in Rest(n) /\ x = n * q + r
  BY <1>1 DEF Rest, Pos
<1> HIDE DEF r
<1>3. (n * q + r) % n = r
  BY <1>1, <1>2, ModIs, Zenon
<1>5. x % n = r
  <2> DEFINE y == n * q + r
  <2>1. x = y /\ y % n = r
    BY <1>2, <1>3, Zenon
  <2> HIDE DEF y
  <2> QED BY <2>1, Zenon
<1>6. Split(x, n, q, r)
  BY <1>2, Zenon DEF Split
<1> QED BY <1>1, <1>5, <1>6, Zenon

\* Adding a multiple of n does not change the remainder.
LEMMA ModPeriod ==
    ASSUME NEW n \in Pos, NEW x \in Int, NEW m \in Nat, m % n = 0
    PROVE  (x + m) % n = x % n
<1> DEFINE r == x % n
<1>1. PICK q \in Int : Split(x, n, q, r)
  BY ModSplit, Zenon
<1>2. m \in Int
  OBVIOUS
<1>3. PICK p \in Int : Split(m, n, p, 0)
  BY <1>2, ModSplit, Zenon
<1>4. r \in Rest(n)
  BY ModRange, Zenon
<1> HIDE DEF r
<1>5. n * (q + p) = n * q + n * p /\ n * q \in Int /\ n * p \in Int /\ q + p \in Int
  BY Distributes DEF Pos
<1>6. x + m = n * (q + p) + r
  BY <1>1, <1>3, <1>4, <1>5 DEF Rest, Pos, Split
<1>7. (n * (q + p) + r) % n = r
  BY <1>4, <1>5, ModIs, Zenon
<1> QED BY <1>6, <1>7, Zenon DEF r

\* Adding less than n does.
LEMMA ModDistinct ==
    ASSUME NEW n \in Pos, NEW x \in Int, NEW d \in 1 .. n - 1
    PROVE  (x + d) % n # x % n
<1> DEFINE r == x % n
<1>a. SUFFICES ASSUME (x + d) % n = r PROVE FALSE
  BY Zenon
<1>1. PICK q \in Int : Split(x, n, q, r)
  BY ModSplit, Zenon
<1>2. x + d \in Int
  OBVIOUS
<1>3. PICK p \in Int : Split(x + d, n, p, r)
  BY <1>2, <1>a, ModSplit, Zenon
<1>4. r \in Rest(n)
  BY ModRange, Zenon
<1> HIDE DEF r
<1>5. n * (p - q) = n * p - n * q /\ n * q \in Int /\ n * p \in Int /\ p - q \in Int
  BY Distributes DEF Pos
<1>6. d = n * (p - q)
  BY <1>1, <1>3, <1>4, <1>5 DEF Rest, Pos, Split
<1> DEFINE e == p - q
<1>7. e \in Int /\ d = n * e
  BY <1>5, <1>6, Zenon
<1> HIDE DEF e
<1>8. CASE e <= 0
  <2>1. n * e <= 0
    BY <1>7, <1>8 DEF Pos
  <2> QED BY <1>7, <2>1 DEF Pos
<1>9. CASE e >= 1
  <2>1. n * e >= n
    BY <1>7, <1>9 DEF Pos
  <2> QED BY <1>7, <2>1 DEF Pos
<1> QED BY <1>7, <1>8, <1>9

\* The distance of two counters, and the counter after one.
LEMMA ModDifference ==
    ASSUME NEW n \in Pos, NEW a \in Rest(n), NEW b \in Rest(n)
    PROVE  (a - b) % n = IF b <= a THEN a - b ELSE a - b + n
<1>1. CASE b <= a
  <2>1. a - b \in 0 .. n - 1
    BY <1>1 DEF Rest, Pos
  <2> QED BY <1>1, <2>1 DEF Pos
<1>2. CASE ~(b <= a)
  <2>1. a - b \in Int /\ -n <= a - b /\ a - b < 0
    BY <1>2 DEF Rest, Pos
  <2>2. \A x \in Int : -n <= x /\ x < 0 => x % n = x + n
    BY DEF Pos
  <2>3. (a - b) % n = a - b + n
    BY <2>1, <2>2, Zenon
  <2> QED BY <1>2, <2>3, Zenon
<1> QED BY <1>1, <1>2, Zenon

\* The remainder of a value that has passed n at most once.
LEMMA ModWrap ==
    ASSUME NEW n \in Pos, NEW c \in Nat, c < n + n
    PROVE  c % n = IF c < n THEN c ELSE c - n
<1>1. CASE c < n
  BY <1>1 DEF Pos
<1>2. CASE n <= c
  <2>1. \A x \in Int : n <= x /\ x < n + n => x % n = x - n
    BY DEF Pos
  <2>2. c % n = c - n
    BY <1>2, <2>1
  <2> QED BY <1>2, <2>2 DEF Pos
<1> QED BY <1>1, <1>2 DEF Pos

-----------------------------------------------------------------------------
(* The ring of esp32-ipc.c *)

\* The values of the ring's free running counters.
Count == Rest(Modulus)
\* How many entries wait in the ring.
Unread == Q!Used(write, read)

\* The inductive invariant of the ring: it never holds more than Mask entries,
\* a writer inside esp32_ipc_tx() still has room, and a callback works on what
\* is still in the oldest slot.
RingInv ==
    /\ write \in Count /\ read \in Count
    /\ data \in [0 .. Mask -> Msg]
    /\ Unread <= Mask
    /\ tx = << >> \/ (tx = <<write>> /\ Unread < Mask)
    /\ rx = << >> \/ (read # write /\ rx = <<data[Q!Slot(read)]>>)

\* A ring has at least one slot and its counters at least as many values.
LEMMA RingSize == Mask \in Nat /\ Mask + 1 \in Pos /\ Modulus \in Pos /\ Mask < Modulus
<1>1. Mask + 1 \in Pos /\ Modulus \in Pos /\ Mask \in Nat
  BY RingAssumption DEF Pos
<1>2. Modulus < Mask + 1 => Modulus % (Mask + 1) = Modulus
  BY <1>1 DEF Pos
<1> QED BY <1>1, <1>2, RingAssumption DEF Pos

\* The used slots, without the modulus.
LEMMA UsedIs ==
    ASSUME NEW w \in Count, NEW r \in Count
    PROVE  Q!Used(w, r) = IF r <= w THEN w - r ELSE w - r + Modulus
BY RingSize, ModDifference, Zenon DEF Q!Used, Count

\* The next value of a counter, without the modulus.
LEMMA SuccIs ==
    ASSUME NEW c \in Count
    PROVE  Q!Succ(c) = IF c + 1 < Modulus THEN c + 1 ELSE 0
<1>1. Modulus \in Nat \ {0} /\ c \in 0 .. Modulus - 1
  BY RingSize, Zenon DEF Count, Rest, Pos
<1>2. CASE c = Modulus - 1
  <2>1. c + 1 = Modulus /\ Modulus % Modulus = 0
    BY <1>1, <1>2
  <2> QED BY <1>1, <1>2, <2>1 DEF Q!Succ
<1>3. CASE c # Modulus - 1
  <2>1. c + 1 \in 0 .. Modulus - 1
    BY <1>1, <1>3
  <2> QED BY <1>1, <1>3, <2>1 DEF Q!Succ
<1> QED BY <1>2, <1>3, Zenon

\* A sequence is the function of its entries.
LEMMA SeqIs ==
    ASSUME NEW S, NEW s \in Seq(S)
    PROVE  Len(s) \in Nat /\ s = [i \in 1 .. Len(s) |-> s[i]]
OBVIOUS

\* What appending does, entry by entry.
LEMMA AppendIs ==
    ASSUME NEW S, NEW s \in Seq(S), NEW m \in S
    PROVE  /\ Append(s, m) \in Seq(S) /\ Len(Append(s, m)) = Len(s) + 1
           /\ Append(s, m)[Len(s) + 1] = m
           /\ \A i \in 1 .. Len(s) : Append(s, m)[i] = s[i]
OBVIOUS

\* Writing adds one to what is used, reading takes one away, and the counters
\* are equal exactly when the ring is empty.
LEMMA UsedMoves ==
    ASSUME NEW w \in Count, NEW r \in Count
    PROVE  /\ Q!Succ(w) \in Count
           /\ Q!Used(w, r) \in Nat
           /\ Q!Used(w, r) = 0 <=> w = r
           /\ Q!Used(w, r) < Mask => Q!Used(Q!Succ(w), r) = Q!Used(w, r) + 1
           /\ w # r => Q!Used(w, Q!Succ(r)) = Q!Used(w, r) - 1
<1> DEFINE w1 == Q!Succ(w)
           r1 == Q!Succ(r)
<1>0. Modulus \in Nat \ {0} /\ Mask \in Nat /\ Mask < Modulus
  BY RingSize, Zenon DEF Pos
<1>1. /\ w1 = IF w + 1 < Modulus THEN w + 1 ELSE 0
      /\ r1 = IF r + 1 < Modulus THEN r + 1 ELSE 0
  BY SuccIs, Zenon
<1> HIDE DEF w1, r1
<1>2. w1 \in Count /\ r1 \in Count
  BY <1>0, <1>1 DEF Count, Rest
<1>3. /\ Q!Used(w, r) = IF r <= w THEN w - r ELSE w - r + Modulus
      /\ Q!Used(w1, r) = IF r <= w1 THEN w1 - r ELSE w1 - r + Modulus
      /\ Q!Used(w, r1) = IF r1 <= w THEN w - r1 ELSE w - r1 + Modulus
  BY <1>2, UsedIs, Zenon
<1>4. Q!Used(w, r) \in Nat /\ (Q!Used(w, r) = 0 <=> w = r)
  BY <1>0, <1>3 DEF Count, Rest
<1>5. Q!Used(w, r) < Mask => Q!Used(w1, r) = Q!Used(w, r) + 1
  BY <1>0, <1>1, <1>3 DEF Count, Rest
<1>6. w # r => Q!Used(w, r1) = Q!Used(w, r) - 1
  BY <1>0, <1>1, <1>3 DEF Count, Rest
<1> QED BY <1>2, <1>4, <1>5, <1>6, Zenon DEF w1, r1

\* Slots repeat with the counters, and entries less than a ring apart have
\* slots of their own.
LEMMA SlotFacts ==
    ASSUME NEW x \in Nat
    PROVE  /\ Q!Slot(x) \in 0 .. Mask
           /\ Q!Slot(x + Modulus) = Q!Slot(x)
           /\ \A d \in 1 .. Mask : Q!Slot(x + d) # Q!Slot(x)
<1>1. x \in Int /\ Mask + 1 \in Pos /\ Modulus \in Nat /\ Modulus % (Mask + 1) = 0
  BY RingSize, RingAssumption DEF Pos
<1> DEFINE n == Mask + 1
<1>2. n \in Pos /\ Modulus % n = 0 /\ Mask = n - 1 /\ 0 .. Mask = Rest(n)
  BY <1>1, RingSize DEF Rest
<1> HIDE DEF n
<1>3. x % n \in Rest(n)
  BY <1>1, <1>2, ModRange, Zenon
<1>4. (x + Modulus) % n = x % n
  BY <1>1, <1>2, ModPeriod, Zenon
<1>5. \A d \in 1 .. n - 1 : (x + d) % n # x % n
  BY <1>1, <1>2, ModDistinct, Zenon
<1> QED BY <1>2, <1>3, <1>4, <1>5, Zenon DEF n, Q!Slot

\* The slots of the entries, oldest first, and the one after them.
LEMMA SlotsFollow ==
    ASSUME NEW w \in Count, NEW r \in Count, NEW k \in Nat
    PROVE  /\ Q!Slot(w) = Q!Slot(r + Q!Used(w, r))
           /\ Q!Slot(Q!Succ(r) + k) = Q!Slot(r + 1 + k)
<1>0. Modulus \in Nat \ {0} /\ w \in Nat /\ r \in Nat
  BY RingSize DEF Count, Rest, Pos
<1>1. Q!Slot(w + Modulus) = Q!Slot(w)
  BY <1>0, SlotFacts, Zenon
<1>2. r + Q!Used(w, r) = w \/ r + Q!Used(w, r) = w + Modulus
  BY <1>0, UsedIs
<1>3. Q!Slot(k + Modulus) = Q!Slot(k)
  BY SlotFacts, Zenon
<1>4. Q!Succ(r) + k = r + 1 + k \/ (Q!Succ(r) + k = k /\ r + 1 + k = k + Modulus)
  <2>1. Q!Succ(r) = IF r + 1 < Modulus THEN r + 1 ELSE 0
    BY SuccIs, Zenon
  <2>2. r + 1 < Modulus \/ r + 1 = Modulus
    BY <1>0 DEF Count, Rest
  <2>3. CASE r + 1 < Modulus
    <3>1. Q!Succ(r) = r + 1
      BY <2>1, <2>3, Zenon
    <3> QED BY <1>0, <3>1, Zenon
  <2>4. CASE r + 1 = Modulus
    <3>1. ~(r + 1 < Modulus)
      BY <1>0, <2>4
    <3>2. Q!Succ(r) = 0
      BY <2>1, <3>1, Zenon
    <3>3. 0 + k = k /\ r + 1 + k = k + Modulus
      BY <1>0, <2>4
    <3> QED BY <3>2, <3>3, Zenon
  <2> QED BY <2>2, <2>3, <2>4, Zenon
<1>5. Q!Slot(w) = Q!Slot(r + Q!Used(w, r))
  BY <1>1, <1>2, Zenon
<1>6. Q!Slot(Q!Succ(r) + k) = Q!Slot(r + 1 + k)
  BY <1>3, <1>4, Zenon
<1> QED BY <1>5, <1>6, Zenon

\* The entries of the ring, one by one.
LEMMA EntriesIs ==
    ASSUME RingInv
    PROVE  /\ Unread \in Nat
           /\ Q!Entries \in Seq(Msg) /\ Len(Q!Entries) = Unread
           /\ \A i \in 1 .. Unread : Q!Entries[i] = data[Q!Slot(read + i - 1)]
<1>1. Unread \in Nat
  BY UsedMoves, Zenon DEF RingInv, Unread
<1>2. \A i \in 1 .. Unread : data[Q!Slot(read + i - 1)] \in Msg
  <2> SUFFICES ASSUME NEW i \in 1 .. Unread PROVE data[Q!Slot(read + i - 1)] \in Msg
    BY Zenon
  <2>1. read + i - 1 \in Nat
    BY <1>1 DEF RingInv, Count, Rest
  <2>2. Q!Slot(read + i - 1) \in 0 .. Mask
    BY <2>1, SlotFacts, Zenon
  <2> QED BY <2>2, Zenon DEF RingInv
<1>3. Q!Entries = [i \in 1 .. Unread |-> data[Q!Slot(read + i - 1)]]
  BY Zenon DEF Q!Entries, Unread
<1> HIDE DEF Unread
<1> QED BY <1>1, <1>2, <1>3

\* The ring starts empty.
LEMMA RingInit == Init => RingInv
<1> SUFFICES ASSUME Init PROVE RingInv
  BY Zenon
<1>1. /\ write = 0 /\ read = 0 /\ tx = << >> /\ rx = << >>
      /\ data \in [0 .. Mask -> Msg]
  BY Zenon DEF Init, Q!Init
<1>2. 0 \in Count
  BY RingSize DEF Count, Rest, Pos
<1>3. Unread = 0
  BY <1>1, <1>2, UsedMoves, Zenon DEF Unread
<1> QED BY <1>1, <1>2, <1>3, RingSize DEF RingInv

\* Filling the slot beyond the last entry disturbs no entry.
LEMMA FillStep ==
    ASSUME RingInv, Q!FillSlot
    PROVE  RingInv' /\ Q!Entries' = Q!Entries
<1>1. Unread \in Nat /\ Unread < Mask /\ Mask \in Nat
  BY UsedMoves, RingSize DEF RingInv, Unread, Q!FillSlot, Q!Full
<1>2. /\ tx' = <<write>> /\ write' = write /\ read' = read /\ rx' = rx
      /\ write \in Count /\ read \in Count /\ write \in Nat /\ read \in Nat
  BY DEF Q!FillSlot, RingInv, Count, Rest
<1>3. PICK m \in Msg : data' = [data EXCEPT ![Q!Slot(write)] = m]
  BY Zenon DEF Q!FillSlot
<1>4. \A i \in 1 .. Unread : data'[Q!Slot(read + i - 1)] = data[Q!Slot(read + i - 1)]
  <2> SUFFICES ASSUME NEW i \in 1 .. Unread
               PROVE  data'[Q!Slot(read + i - 1)] = data[Q!Slot(read + i - 1)]
    BY Zenon
  <2> DEFINE x == read + i - 1
             d == Unread - i + 1
  <2>1. x \in Nat /\ d \in 1 .. Mask /\ x + d = read + Unread
    BY <1>1, <1>2
  <2>2. Q!Slot(write) = Q!Slot(x + d)
    BY <1>2, <2>1, SlotsFollow DEF Unread
  <2> HIDE DEF x, d
  <2>3. Q!Slot(x) # Q!Slot(write) /\ Q!Slot(x) \in 0 .. Mask
    BY <2>1, <2>2, SlotFacts, Zenon
  <2>4. data'[Q!Slot(x)] = data[Q!Slot(x)]
    BY <1>3, <2>3, Zenon DEF RingInv
  <2> QED BY <2>4, Zenon DEF x
<1>5. Q!Entries' = Q!Entries
  BY <1>2, <1>4, Zenon DEF Q!Entries, Unread
<1>6. data' \in [0 .. Mask -> Msg]
  BY <1>3, Zenon DEF RingInv
<1>7. read # write => data'[Q!Slot(read)] = data[Q!Slot(read)]
  <2>1. read # write => Unread \in Nat \ {0}
    BY <1>1, <1>2, UsedMoves, Zenon DEF Unread
  <2>2. read + 1 - 1 = read
    BY <1>2
  <2> HIDE DEF Unread
  <2>3. read # write => 1 \in 1 .. Unread
    BY <2>1
  <2> QED BY <1>4, <2>2, <2>3, Zenon
<1>8. Q!Slot(read)' = Q!Slot(read) /\ Unread' = Unread
  BY <1>2, Zenon DEF Unread, Q!Slot, Q!Used
<1> QED BY <1>1, <1>2, <1>5, <1>6, <1>7, <1>8, Zenon DEF RingInv

\* Advancing the write counter appends the slot's entry.
LEMMA PublishStep ==
    ASSUME RingInv, Q!Publish
    PROVE  /\ RingInv' /\ Unread < Mask
           /\ data[Q!Slot(write)] \in Msg
           /\ Q!Entries' = Append(Q!Entries, data[Q!Slot(write)])
<1>1. /\ tx = <<write>> /\ Unread < Mask /\ tx' = << >> /\ rx' = rx
      /\ read' = read /\ data' = data /\ write' = Q!Succ(write)
      /\ write \in Count /\ read \in Count /\ read \in Nat /\ write \in Nat
  BY DEF RingInv, Q!Publish, Count, Rest
<1>2. /\ Unread \in Nat /\ write' \in Count /\ Unread' = Unread + 1
      /\ (Unread = 0 <=> write = read) /\ (Unread' = 0 <=> write' = read)
  <2>1. /\ Unread \in Nat /\ write' \in Count /\ Unread' = Unread + 1
        /\ (Unread = 0 <=> write = read)
    BY <1>1, UsedMoves, Zenon DEF Unread
  <2>2. Unread' = 0 <=> write' = read
    BY <1>1, <2>1, UsedMoves DEF Unread
  <2> QED BY <2>1, <2>2, Zenon
<1>3. RingInv'
  <2>1. Unread' <= Mask
    BY <1>1, <1>2, RingSize
  <2>2. rx' = << >> \/ (read' # write' /\ rx' = <<data'[Q!Slot(read')]>>)
    <3>1. read # write'
      BY <1>2
    <3> QED BY <1>1, <3>1, Zenon DEF RingInv, Q!Slot
  <2>3. write' \in Count /\ read' \in Count /\ data' \in [0 .. Mask -> Msg] /\ tx' = << >>
    BY <1>1, <1>2, Zenon DEF RingInv
  <2> QED BY <2>1, <2>2, <2>3, Zenon DEF RingInv
<1>4. data[Q!Slot(write)] \in Msg
  BY <1>1, SlotFacts, Zenon DEF RingInv
<1>5. Q!Slot(write) = Q!Slot(read + Unread)
  BY <1>1, SlotsFollow, Zenon DEF Unread
<1>6. /\ Q!Entries \in Seq(Msg) /\ Len(Q!Entries) = Unread
      /\ \A i \in 1 .. Unread : Q!Entries[i] = data[Q!Slot(read + i - 1)]
  BY EntriesIs, Zenon
<1>7. Q!Entries' = [i \in 1 .. Unread + 1 |-> data[Q!Slot(read + i - 1)]]
  BY <1>1, <1>2, Zenon DEF Q!Entries, Unread, Q!Slot
<1> DEFINE e == Q!Entries
           m == data[Q!Slot(write)]
<1>8. \A i \in 1 .. Unread + 1 : Append(e, m)[i] = data[Q!Slot(read + i - 1)]
  <2> SUFFICES ASSUME NEW i \in 1 .. Unread + 1
               PROVE  Append(e, m)[i] = data[Q!Slot(read + i - 1)]
    BY Zenon
  <2> HIDE DEF e, m
  <2>1. CASE i = Unread + 1
    <3>1. read + i - 1 = read + Unread
      BY <1>1, <1>2, <2>1
    <3>2. Append(e, m)[i] = m
      BY <1>2, <1>6, <2>1 DEF e
    <3> QED BY <3>1, <3>2, <1>5, Zenon DEF m
  <2>2. CASE i \in 1 .. Unread
    <3>1. Append(e, m)[i] = e[i]
      BY <1>2, <1>6, <2>2 DEF e
    <3> QED BY <3>1, <1>6, <2>2, Zenon DEF e
  <2>3. i = Unread + 1 \/ i \in 1 .. Unread
    BY <1>2
  <2> QED BY <2>1, <2>2, <2>3, Zenon
<1>9. Append(e, m) = [i \in 1 .. Unread + 1 |-> Append(e, m)[i]]
  <2> HIDE DEF e, m, Unread
  <2>1. e \in Seq(Msg) /\ m \in Msg /\ Len(e) = Unread
    BY <1>4, <1>6, Zenon DEF e, m
  <2> DEFINE a == Append(e, m)
  <2>2. a \in Seq(Msg) /\ Len(a) = Unread + 1
    BY <2>1, AppendIs, Zenon
  <2> HIDE DEF a
  <2>3. a = [i \in 1 .. Unread + 1 |-> a[i]]
    BY <2>2, SeqIs, Zenon
  <2> QED BY <2>3, Zenon DEF a
<1>10. Q!Entries' = Append(e, m)
  <2> HIDE DEF e, m, Unread
  <2> QED BY <1>7, <1>8, <1>9, Zenon
<1> QED BY <1>1, <1>3, <1>4, <1>10, Zenon

\* Looking at the oldest entry changes nothing.
LEMMA FetchStep ==
    ASSUME RingInv, Q!Fetch
    PROVE  RingInv' /\ Q!Entries' = Q!Entries
<1>1. /\ read # write /\ rx' = <<data[Q!Slot(read)]>>
      /\ write' = write /\ read' = read /\ data' = data /\ tx' = tx
  BY Zenon DEF Q!Fetch
<1>2. Unread' = Unread
  BY <1>1, Zenon DEF Unread, Q!Used
<1> QED BY <1>1, <1>2, Zenon DEF RingInv, Q!Slot, Q!Entries, Q!Used

\* Advancing the read counter takes the oldest entry away.
LEMMA AdvanceStep ==
    ASSUME RingInv, Q!Advance
    PROVE  /\ RingInv' /\ Q!Entries # << >>
           /\ Q!Entries' = Tail(Q!Entries)
<1>1. /\ read # write /\ rx' = << >> /\ read' = Q!Succ(read)
      /\ write' = write /\ data' = data /\ tx' = tx
      /\ write \in Count /\ read \in Count /\ read \in Nat
  BY DEF RingInv, Q!Advance, Count, Rest
<1>2. Unread \in Nat /\ Unread # 0 /\ read' \in Count /\ Unread' = Unread - 1
  <2>1. Q!Succ(read) \in Count
    BY <1>1, UsedMoves, Zenon
  <2> QED BY <1>1, <2>1, UsedMoves, Zenon DEF Unread
<1>3. RingInv'
  <2>1. Unread' <= Mask /\ (Unread < Mask => Unread' < Mask)
    BY <1>2, RingSize DEF RingInv
  <2> QED BY <1>1, <1>2, <2>1, Zenon DEF RingInv
<1>4. /\ Q!Entries \in Seq(Msg) /\ Len(Q!Entries) = Unread
      /\ \A i \in 1 .. Unread : Q!Entries[i] = data[Q!Slot(read + i - 1)]
  BY EntriesIs, Zenon
<1>5. Q!Entries' = [i \in 1 .. Unread - 1 |-> data[Q!Slot(Q!Succ(read) + i - 1)]]
  BY <1>1, <1>2, Zenon DEF Q!Entries, Unread, Q!Slot
<1> DEFINE e == Q!Entries
<1> HIDE DEF e, Unread
<1>6. \A i \in 1 .. Unread - 1 : Tail(e)[i] = data[Q!Slot(Q!Succ(read) + i - 1)]
  <2> SUFFICES ASSUME NEW i \in 1 .. Unread - 1
               PROVE  Tail(e)[i] = data[Q!Slot(Q!Succ(read) + i - 1)]
    BY Zenon
  <2>1. Tail(e)[i] = e[i + 1] /\ i + 1 \in 1 .. Unread
    BY <1>2, <1>4 DEF e
  <2>2. /\ i - 1 \in Nat /\ read + 1 + (i - 1) = read + (i + 1) - 1
        /\ Q!Succ(read) \in Nat /\ Q!Succ(read) + (i - 1) = Q!Succ(read) + i - 1
    BY <1>1, <1>2 DEF Count, Rest
  <2>3. Q!Slot(Q!Succ(read) + (i - 1)) = Q!Slot(read + 1 + (i - 1))
    BY <1>1, <2>2, SlotsFollow, Zenon
  <2>4. e[i + 1] = data[Q!Slot(read + (i + 1) - 1)]
    BY <1>4, <2>1, Zenon DEF e
  <2> QED BY <2>1, <2>2, <2>3, <2>4, Zenon
<1>7. Tail(e) = [i \in 1 .. Unread - 1 |-> Tail(e)[i]] /\ e # << >>
  <2>1. e \in Seq(Msg) /\ Len(e) = Unread
    BY <1>4, Zenon DEF e
  <2>2. e # << >>
    BY <1>2, <2>1
  <2> DEFINE t == Tail(e)
  <2>3. t \in Seq(Msg) /\ Len(t) = Unread - 1
    BY <1>2, <2>1, <2>2
  <2> HIDE DEF t
  <2>4. t = [i \in 1 .. Unread - 1 |-> t[i]]
    BY <2>3, SeqIs, Zenon
  <2> QED BY <2>2, <2>4, Zenon DEF t
<1>8. Q!Entries' = Tail(e)
  BY <1>5, <1>6, <1>7, Zenon
<1> QED BY <1>3, <1>7, <1>8, Zenon DEF e

\* Every step keeps the invariant and is a step of Fifo or none.
LEMMA RingNext ==
    ASSUME RingInv, [Next]_vars
    PROVE  RingInv' /\ [Q!Channel!Next]_(Q!Entries)
<1>1. CASE Q!FillSlot
  BY <1>1, FillStep, Zenon
<1>2. CASE Q!Publish
  <2>1. /\ RingInv' /\ Unread < Mask /\ data[Q!Slot(write)] \in Msg
        /\ Q!Entries' = Append(Q!Entries, data[Q!Slot(write)])
    BY <1>2, PublishStep, Zenon
  <2>2. Len(Q!Entries) < Mask
    BY <2>1, EntriesIs, Zenon
  <2> QED BY <2>1, <2>2, Zenon DEF Q!Channel!Next, Q!Channel!Send
<1>3. CASE Q!Fetch
  BY <1>3, FetchStep, Zenon
<1>4. CASE Q!Advance
  BY <1>4, AdvanceStep, Zenon DEF Q!Channel!Next, Q!Channel!Receive
<1>5. CASE UNCHANGED ringVars
  <2>1. /\ write' = write /\ read' = read /\ data' = data /\ tx' = tx /\ rx' = rx
    BY <1>5, Zenon DEF ringVars
  <2> QED BY <2>1, Zenon DEF RingInv, Unread, Q!Slot, Q!Used, Q!Entries
<1> QED BY <1>1, <1>2, <1>3, <1>4, <1>5, Zenon DEF Next, vars, Q!Next

\* The invariant of the ring holds in every behaviour.
LEMMA RingAlways == Spec => []RingInv
<1>1. RingInv /\ [Next]_vars => RingInv'
  BY RingNext, Zenon
<1> QED BY RingInit, <1>1, PTL DEF Spec

\* The ring of esp32-ipc.c is a first-in first-out channel of Mask places,
\* though the writer fills and publishes, and the reader looks and advances, in
\* separate steps on two cores, and the counters wrap: no entry is lost,
\* repeated, reordered or overwritten.
THEOREM RingImplementsFifo == Spec => RingIsFifo
<1>1. Init => Q!Channel!Init
  <2> SUFFICES ASSUME Init PROVE Q!Entries = << >>
    BY Zenon DEF Q!Channel!Init
  <2>1. RingInv
    BY RingInit, Zenon
  <2>2. write = read
    BY Zenon DEF Init, Q!Init
  <2>3. Unread = 0
    BY <2>1, <2>2, UsedMoves, Zenon DEF RingInv, Unread
  <2> QED BY <2>1, <2>3, EntriesIs
<1>2. RingInv /\ [Next]_vars => [Q!Channel!Next]_(Q!Entries)
  BY RingNext, Zenon
<1> QED BY <1>1, <1>2, RingAlways, PTL DEF Spec, RingIsFifo, Q!RingIsFifo, Q!Channel!Spec

\* The ring never holds more than its slots, and a callback works on the oldest
\* entry, still in its slot.
LEMMA RingKeeps == RingInv => Q!NeverOverfull /\ Q!CallbackOwnsEntry
<1> SUFFICES ASSUME RingInv PROVE Q!NeverOverfull /\ Q!CallbackOwnsEntry
  BY Zenon
<1>1. Q!NeverOverfull
  BY Zenon DEF RingInv, Unread, Q!NeverOverfull
<1>2. ASSUME rx # << >> PROVE Q!Entries # << >> /\ rx[1] = Q!Entries[1]
  <2>1. read # write /\ rx[1] = data[Q!Slot(read)] /\ read \in Nat
    BY <1>2 DEF RingInv, Count, Rest
  <2>2. Unread \in Nat /\ Unread # 0
    BY <2>1, UsedMoves, Zenon DEF RingInv, Unread
  <2> HIDE DEF Unread
  <2>3. 1 \in 1 .. Unread /\ read + 1 - 1 = read
    BY <2>1, <2>2
  <2>4. Q!Entries[1] = data[Q!Slot(read)]
    BY <2>3, EntriesIs, Zenon
  <2>5. Q!Entries # << >>
    BY <2>2, EntriesIs, Zenon
  <2> QED BY <2>1, <2>4, <2>5, Zenon
<1> QED BY <1>1, <1>2, Zenon DEF Q!CallbackOwnsEntry

-----------------------------------------------------------------------------
(* The receive path *)

\* The packets that are whole: as long as the header says and no longer than
\* the buffer.
Whole ==
    {p \in [len : Nat, kept : Nat] :
       bus = "shmem" \/ p.len + Header < Width
         => p.kept = p.len + Header /\ p.kept <= BufSize}

\* The chip's byte counter is ahead of the driver's by what is unread.
RxCounts ==
    /\ slave_len \in Rest(ByteMax) /\ rx_byte_count \in Rest(ByteMax)
    /\ unread \in 0 .. MaxUnread
    /\ R!CountersAgree

\* The inductive invariant of the receive paths.
RxInv ==
    /\ rx_q \in [1 .. 3 -> Seq(Whole)]
    /\ RxCounts
    /\ bus # "sdio" => unread = 0
    /\ R!ReadyIsNoticed
    /\ isr = "seen" /\ unread > 0 => rx_work \/ unnoticed

\* The byte counters are wider than what the chip can hold unread.
LEMMA ByteRange == ByteMax \in Pos /\ MaxUnread \in Nat /\ MaxUnread < ByteMax
BY BusesAssumption DEF Pos

\* What esp_get_len_from_slave() computes from the two counters.
LenOf(s, r) == IF s >= r THEN (s + ByteMax - r) % ByteMax ELSE (ByteMax - r) + s

\* The same, without the modulus.
LEMMA LenIs ==
    ASSUME NEW s \in Rest(ByteMax), NEW r \in Rest(ByteMax)
    PROVE  LenOf(s, r) = IF r <= s THEN s - r ELSE s - r + ByteMax
<1>1. ByteMax \in Nat \ {0} /\ s \in 0 .. ByteMax - 1 /\ r \in 0 .. ByteMax - 1
  BY ByteRange, Zenon DEF Pos, Rest
<1>2. CASE s >= r
  <2> DEFINE c == s + ByteMax - r
  <2>1. /\ c \in Nat /\ c < ByteMax + ByteMax /\ ~(c < ByteMax)
        /\ c - ByteMax = s - r /\ r <= s
    BY <1>1, <1>2
  <2>2. LenOf(s, r) = c % ByteMax
    BY <1>2, Zenon DEF LenOf
  <2> HIDE DEF c
  <2>3. c % ByteMax = c - ByteMax
    BY <2>1, ByteRange, ModWrap, Zenon
  <2> QED BY <2>1, <2>2, <2>3, Zenon
<1>3. CASE ~(s >= r)
  <2>1. LenOf(s, r) = (ByteMax - r) + s
    BY <1>3, Zenon DEF LenOf
  <2>2. ~(r <= s) /\ (ByteMax - r) + s = s - r + ByteMax
    BY <1>1, <1>3
  <2> QED BY <2>1, <2>2, Zenon
<1> QED BY <1>2, <1>3, Zenon

\* Adding n to a counter below its limit.
LEMMA AddIs ==
    ASSUME NEW c \in Rest(ByteMax), NEW n \in 0 .. MaxUnread
    PROVE  (c + n) % ByteMax = IF c + n < ByteMax THEN c + n ELSE c + n - ByteMax
<1>1. ByteMax \in Nat \ {0} /\ c \in 0 .. ByteMax - 1 /\ MaxUnread \in Nat /\ MaxUnread < ByteMax
  BY ByteRange, Zenon DEF Pos, Rest
<1>2. PICK d \in Nat : d = c + n /\ d < ByteMax + ByteMax
  BY <1>1
<1>3. d % ByteMax = IF d < ByteMax THEN d ELSE d - ByteMax
  BY <1>2, ByteRange, ModWrap, Zenon
<1>4. (c + n) % ByteMax = d % ByteMax
  BY <1>2, Zenon
<1>5. d < ByteMax => (c + n) % ByteMax = d
  BY <1>3, <1>4, Zenon
<1>6. ~(d < ByteMax) => (c + n) % ByteMax = d - ByteMax
  BY <1>3, <1>4, Zenon
<1> QED BY <1>1, <1>2, <1>5, <1>6

\* The chip announcing n more bytes keeps the counters in agreement.
LEMMA RxMore ==
    ASSUME RxCounts, NEW n \in 1 .. MaxUnread, unread + n <= MaxUnread,
           slave_len' = (slave_len + n) % ByteMax, unread' = unread + n,
           rx_byte_count' = rx_byte_count
    PROVE  RxCounts'
<1>0. /\ ByteMax \in Nat \ {0} /\ MaxUnread \in Nat /\ MaxUnread < ByteMax
      /\ slave_len \in 0 .. ByteMax - 1 /\ rx_byte_count \in 0 .. ByteMax - 1
      /\ unread \in 0 .. MaxUnread
  BY ByteRange, Zenon DEF Pos, Rest, RxCounts
<1>1. slave_len' = IF slave_len + n < ByteMax THEN slave_len + n ELSE slave_len + n - ByteMax
  BY AddIs, <1>0 DEF RxCounts
<1>2. slave_len' \in 0 .. ByteMax - 1 /\ unread' \in 0 .. MaxUnread
  BY <1>0, <1>1
<1>3. R!esp_get_len_from_slave' = IF rx_byte_count' <= slave_len' THEN slave_len' - rx_byte_count'
                                  ELSE slave_len' - rx_byte_count' + ByteMax
  <2>1. slave_len' \in Rest(ByteMax) /\ rx_byte_count' \in Rest(ByteMax)
    BY <1>0, <1>2, Zenon DEF Rest
  <2> QED BY <2>1, LenIs, Zenon DEF LenOf, R!esp_get_len_from_slave
<1>4. unread = IF rx_byte_count <= slave_len THEN slave_len - rx_byte_count
               ELSE slave_len - rx_byte_count + ByteMax
  BY LenIs, Zenon DEF LenOf, R!esp_get_len_from_slave, RxCounts, R!CountersAgree
<1>5. R!esp_get_len_from_slave' = unread'
  BY <1>0, <1>1, <1>3, <1>4
<1> QED BY <1>0, <1>2, <1>5, Zenon DEF RxCounts, R!CountersAgree, Rest

\* esp_read_block() of n bytes keeps the counters in agreement.
LEMMA RxLess ==
    ASSUME RxCounts, NEW n \in 0 .. MaxUnread, n <= unread, R!esp_read_block(n),
           slave_len' = slave_len
    PROVE  RxCounts'
<1>0. /\ ByteMax \in Nat \ {0} /\ MaxUnread \in Nat /\ MaxUnread < ByteMax
      /\ slave_len \in 0 .. ByteMax - 1 /\ rx_byte_count \in 0 .. ByteMax - 1
      /\ unread \in 0 .. MaxUnread
  BY ByteRange, Zenon DEF Pos, Rest, RxCounts
<1>1. /\ rx_byte_count' = IF rx_byte_count + n < ByteMax THEN rx_byte_count + n
                          ELSE rx_byte_count + n - ByteMax
      /\ unread' = unread - n
  BY AddIs, <1>0, Zenon DEF RxCounts, R!esp_read_block
<1>2. rx_byte_count' \in 0 .. ByteMax - 1 /\ unread' \in 0 .. MaxUnread
  BY <1>0, <1>1
<1>3. R!esp_get_len_from_slave' = IF rx_byte_count' <= slave_len' THEN slave_len' - rx_byte_count'
                                  ELSE slave_len' - rx_byte_count' + ByteMax
  <2>1. slave_len' \in Rest(ByteMax) /\ rx_byte_count' \in Rest(ByteMax)
    BY <1>0, <1>2, Zenon DEF Rest
  <2> QED BY <2>1, LenIs, Zenon DEF LenOf, R!esp_get_len_from_slave
<1>4. unread = IF rx_byte_count <= slave_len THEN slave_len - rx_byte_count
               ELSE slave_len - rx_byte_count + ByteMax
  BY LenIs, Zenon DEF LenOf, R!esp_get_len_from_slave, RxCounts, R!CountersAgree
<1>5. R!esp_get_len_from_slave' = unread'
  BY <1>0, <1>1, <1>3, <1>4
<1> QED BY <1>0, <1>2, <1>5, Zenon DEF RxCounts, R!CountersAgree, Rest

\* Nothing has been received at the start.
LEMMA RxInit == Init => RxInv
<1> SUFFICES ASSUME Init PROVE RxInv
  BY Zenon
<1>1. /\ rx_q = [prio \in 1 .. 3 |-> << >>] /\ unread = 0 /\ rx_byte_count = slave_len
      /\ slave_len \in Rest(ByteMax)
  BY Zenon DEF Init, R!Init, Rest
<1>2. RxCounts
  <2>1. LenOf(slave_len, slave_len) = 0
    BY <1>1, LenIs, ByteRange DEF Rest, Pos
  <2> QED BY <1>1, <2>1, ByteRange DEF RxCounts, R!CountersAgree, R!esp_get_len_from_slave, LenOf
<1>3. rx_q \in [1 .. 3 -> Seq(Whole)]
  BY <1>1
<1> QED BY <1>1, <1>2, <1>3 DEF RxInv, R!ReadyIsNoticed

\* What the header checks let pass is whole.
LEMMA RxEnqueue ==
    ASSUME rx_q \in [1 .. 3 -> Seq(Whole)], bus' = bus,
           NEW if_type, NEW p \in Whole, R!Enqueue(if_type, p)
    PROVE  (rx_q \in [1 .. 3 -> Seq(Whole)])'
<1>1. Whole' = Whole
  BY Zenon DEF Whole
<1>2. R!Prio(if_type) \in 1 .. 3
  BY DEF R!Prio
<1>3. rx_q' = [rx_q EXCEPT ![R!Prio(if_type)] = Append(@, p)]
  BY Zenon DEF R!Enqueue
<1> QED BY <1>1, <1>2, <1>3

\* A packet that passes the checks of its bus is queued whole.
LEMMA RxPacket ==
    ASSUME RxInv, NEW if_type, NEW len \in Lengths, NEW offset \in Offsets,
           R!Packet(if_type, len, offset)
    PROVE  (rx_q \in [1 .. 3 -> Seq(Whole)])'
<1>0. /\ len \in Nat /\ Header \in Nat /\ BufSize \in Nat /\ Width \in Nat
      /\ bus' = bus /\ rx_q \in [1 .. 3 -> Seq(Whole)]
  BY BusesAssumption DEF R!Packet, RxInv
<1>1. CASE UNCHANGED rx_q
  BY <1>0, <1>1, Zenon DEF Whole
<1>2. CASE bus = "shmem" /\ R!shmem_process_rx_buf(if_type, len, offset) /\ ~UNCHANGED rx_q
  <2> DEFINE p == [len |-> len, kept |-> len + Header]
  <2>1. R!Enqueue(if_type, p) /\ len + Header <= BufSize
    BY <1>0, <1>2 DEF R!shmem_process_rx_buf
  <2>2. p \in Whole
    BY <1>0, <2>1 DEF Whole
  <2> HIDE DEF p
  <2> QED BY <1>0, <2>1, <2>2, RxEnqueue, Zenon
<1>3. CASE bus = "spi" /\ R!spi_process_rx_buf(if_type, len, offset) /\ ~UNCHANGED rx_q
  <2> DEFINE k == (len + Header) % Width
             p == [len |-> len, kept |-> k]
  <2>1. R!Enqueue(if_type, p) /\ ~(k > BufSize)
    BY <1>3, Zenon DEF R!spi_process_rx_buf
  <2>2. PICK d \in Nat : d = len + Header
    BY <1>0
  <2>3. Width \in Pos
    BY <1>0, BusesAssumption DEF Pos
  <2>4. k = d % Width
    BY <2>2, Zenon
  <2>5. k \in 0 .. Width - 1 /\ (d < Width => k = d)
    <3>1. d % Width \in 0 .. Width - 1 /\ (d < Width => d % Width = d)
      BY <2>3 DEF Pos
    <3> QED BY <2>4, <3>1, Zenon
  <2>6. ~(k > BufSize)
    BY <2>1, Zenon
  <2> HIDE DEF k
  <2>7. k \in Nat /\ p.len = len /\ p.kept = k
    BY <2>5, <1>0
  <2>8. len + Header < Width => k = len + Header /\ k <= BufSize
    BY <1>0, <2>2, <2>5, <2>6
  <2>9. p \in Whole
    BY <1>0, <1>3, <2>7, <2>8, Zenon DEF Whole
  <2> HIDE DEF p
  <2> QED BY <1>0, <2>1, <2>9, RxEnqueue, Zenon
<1> QED BY <1>1, <1>2, <1>3, Zenon DEF R!Packet, R!esp_wifi_shmem_handle_rx

\* read_packet() taking the first packet leaves whole ones.
LEMMA RxQueueStep ==
    ASSUME RxInv, R!read_packet
    PROVE  (rx_q \in [1 .. 3 -> Seq(Whole)])'
<1>1. bus' = bus /\ rx_q \in [1 .. 3 -> Seq(Whole)] /\ Whole' = Whole
  BY Zenon DEF R!read_packet, RxInv, Whole
<1>2. CASE UNCHANGED rx_q
  BY <1>1, <1>2
<1>3. ASSUME NEW prio \in 1 .. 3, rx_q[prio] # << >>, rx_q' = [rx_q EXCEPT ![prio] = Tail(@)]
      PROVE  (rx_q \in [1 .. 3 -> Seq(Whole)])'
  BY <1>1, <1>3
<1> QED BY <1>2, <1>3, Zenon DEF R!read_packet

\* An SDIO read, in blocks, keeps the invariant.
LEMMA RxRead ==
    ASSUME RxInv, R!sdio_read_packet
    PROVE  RxInv'
<1>1. /\ bus = "sdio" /\ bus' = bus /\ rx_q' = rx_q /\ slave_len' = slave_len
      /\ int_st' = int_st /\ isr' = isr
      /\ unread \in 0 .. MaxUnread /\ MaxUnread \in Nat
      /\ rx_q \in [1 .. 3 -> Seq(Whole)] /\ RxCounts
  BY ByteRange, Zenon DEF R!sdio_read_packet, RxInv, RxCounts, R!queueVars
<1>2. R!esp_get_len_from_slave = unread
  BY <1>1, Zenon DEF RxCounts, R!CountersAgree
<1>3. (rx_q \in [1 .. 3 -> Seq(Whole)])'
  BY <1>1, Zenon DEF Whole
<1>4. CASE unread = 0 /\ UNCHANGED <<unread, rx_byte_count>>
  BY <1>1, <1>3, <1>4 DEF RxInv, RxCounts, R!CountersAgree, R!esp_get_len_from_slave, R!ReadyIsNoticed
<1>5. CASE R!esp_read_block(unread)
  <2>1. RxCounts'
    BY <1>1, <1>5, RxLess
  <2>2. unread' = 0
    BY <1>1, <1>5 DEF R!esp_read_block
  <2> QED BY <1>1, <1>3, <2>1, <2>2 DEF RxInv, R!ReadyIsNoticed
<1>6. ASSUME NEW done \in {0, (unread \div Block) * Block}, unread > done,
             R!esp_read_block(done), unnoticed'
      PROVE  RxInv'
  <2>1. done \in 0 .. MaxUnread /\ done <= unread
    <3>1. Block \in Nat \ {0} /\ unread \in Nat
      BY <1>1, BusesAssumption
    <3>2. unread \div Block \in Nat
      BY <3>1
    <3> DEFINE q == unread \div Block
    <3> HIDE DEF q
    <3>3. q * Block \in Nat
      BY <3>1, <3>2 DEF q
    <3>4. done \in Nat
      BY <1>6, <3>3 DEF q
    <3> QED BY <1>1, <1>6, <3>4
  <2>2. RxCounts'
    BY <1>1, <1>6, <2>1, RxLess, Zenon
  <2> QED BY <1>1, <1>3, <1>6, <2>2 DEF RxInv, R!ReadyIsNoticed
<1> QED BY <1>2, <1>4, <1>5, <1>6, Zenon DEF R!sdio_read_packet

\* Every step of the receive paths keeps the invariant.
LEMMA RxStep == RxInv /\ R!Next => RxInv'
<1> SUFFICES ASSUME RxInv, R!Next PROVE RxInv'
  BY Zenon
<1>0. /\ rx_q \in [1 .. 3 -> Seq(Whole)] /\ RxCounts /\ unread \in 0 .. MaxUnread
      /\ slave_len \in Rest(ByteMax) /\ MaxUnread \in Nat
  BY ByteRange DEF RxInv, RxCounts
<1>1. ASSUME NEW if_type, NEW len \in Lengths, NEW offset \in Offsets,
             R!Packet(if_type, len, offset)
      PROVE  RxInv'
  <2>1. (rx_q \in [1 .. 3 -> Seq(Whole)])'
    BY <1>1, RxPacket
  <2>2. /\ bus' = bus /\ slave_len' = slave_len /\ unread' = unread /\ rx_byte_count' = rx_byte_count
        /\ int_st' = int_st /\ isr' = isr /\ unnoticed' = unnoticed /\ (rx_work => rx_work')
    BY <1>1, Zenon DEF R!Packet, R!sdioVars
  <2> QED BY <2>1, <2>2 DEF RxInv, RxCounts, R!CountersAgree, R!esp_get_len_from_slave, R!ReadyIsNoticed
<1>2. CASE R!read_packet
  <2>1. (rx_q \in [1 .. 3 -> Seq(Whole)])'
    BY <1>2, RxQueueStep
  <2>2. /\ bus' = bus /\ slave_len' = slave_len /\ unread' = unread /\ rx_byte_count' = rx_byte_count
        /\ int_st' = int_st /\ isr' = isr /\ unnoticed' = unnoticed /\ unread = 0
    BY <1>2 DEF R!read_packet, R!sdioVars, RxInv
  <2> QED BY <2>1, <2>2 DEF RxInv, RxCounts, R!CountersAgree, R!esp_get_len_from_slave, R!ReadyIsNoticed
<1>3. CASE UNCHANGED <<bus, rx_q, slave_len, unread, rx_byte_count>> /\ (R!close_data_path \/ R!esp_handle_isr \/ R!ClearStatus \/ R!esp_suspend)
  <2>1. UNCHANGED <<int_st, isr, rx_work, unnoticed>> \/ rx_work' \/ (isr' = "idle" /\ isr = "seen" /\ UNCHANGED <<rx_work, unnoticed>>)
    BY <1>3 DEF R!close_data_path, R!esp_handle_isr, R!ClearStatus, R!esp_suspend, R!sdioVars
  <2>2. Whole' = Whole /\ RxCounts'
    BY <1>0, <1>3 DEF Whole, RxCounts, R!CountersAgree, R!esp_get_len_from_slave
  <2> QED BY <1>3, <2>1, <2>2 DEF RxInv, R!ReadyIsNoticed
<1>4. ASSUME NEW n \in 1 .. MaxUnread, R!SlaveSends(n) PROVE RxInv'
  <2>1. /\ bus' = bus /\ bus = "sdio" /\ rx_q' = rx_q /\ int_st' = TRUE
        /\ (isr' = "seen" => unnoticed')
    BY <1>4, Zenon DEF R!SlaveSends, R!queueVars
  <2>2. RxCounts'
    BY <1>0, <1>4, RxMore DEF R!SlaveSends
  <2>3. Whole' = Whole
    BY <2>1 DEF Whole
  <2> QED BY <2>1, <2>2, <2>3 DEF RxInv, R!ReadyIsNoticed
<1>5. CASE R!get_firmware_data
  <2>1. /\ bus' = bus /\ rx_q' = rx_q /\ unread' = 0 /\ slave_len' = slave_len
        /\ rx_byte_count' = slave_len
    BY <1>5 DEF R!get_firmware_data, R!queueVars
  <2>2. LenOf(slave_len, slave_len) = 0
    BY <1>0, LenIs, ByteRange DEF Rest, Pos
  <2>3. RxCounts' /\ Whole' = Whole
    BY <1>0, <2>1, <2>2 DEF RxCounts, R!CountersAgree, R!esp_get_len_from_slave, LenOf, Whole
  <2> QED BY <2>1, <2>3 DEF RxInv, R!ReadyIsNoticed
<1>6. ASSUME R!close_data_path \/ R!esp_handle_isr \/ R!ClearStatus \/ R!esp_suspend
      PROVE  UNCHANGED <<bus, rx_q, slave_len, unread, rx_byte_count>>
  BY <1>6, Zenon DEF R!close_data_path, R!esp_handle_isr, R!ClearStatus, R!esp_suspend, R!sdioVars, R!queueVars
<1> QED BY <1>1, <1>2, <1>3, <1>4, <1>5, <1>6, RxRead, Zenon DEF R!Next

\* The invariant of the receive paths holds in every behaviour.
LEMMA RxAlways == Spec => []RxInv
<1>1. RxInv /\ [Next]_vars => RxInv'
  <2> SUFFICES ASSUME RxInv, [Next]_vars PROVE RxInv'
    BY Zenon
  <2>1. CASE R!Next
    BY <2>1, RxStep
  <2>2. CASE UNCHANGED rxVars
    <3>1. /\ bus' = bus /\ slave_len' = slave_len /\ unread' = unread /\ rx_byte_count' = rx_byte_count
          /\ int_st' = int_st /\ isr' = isr /\ unnoticed' = unnoticed /\ rx_work' = rx_work
          /\ rx_q' = rx_q
      BY <2>2 DEF rxVars
    <3>2. Whole' = Whole
      BY <3>1 DEF Whole
    <3> QED BY <3>1, <3>2, Zenon DEF RxInv, RxCounts, R!CountersAgree, R!esp_get_len_from_slave, R!ReadyIsNoticed
  <2> QED BY <2>1, <2>2, Zenon DEF Next, vars
<1> QED BY RxInit, <1>1, PTL DEF Spec

\* The ring never holds more than its slots and a callback works on the oldest
\* entry; the header checks of the three buses queue no cut packet; and on SDIO
\* the bytes the chip has ready are counted right across the wrap of the
\* counters and are announced, noticed or being read.
THEOREM AllReceivedWhole == Spec => []ReceivedWhole
<1>1. ASSUME RxInv PROVE R!KeptWhole /\ R!CountersAgree /\ R!ReadyIsNoticed
  <2>1. R!KeptWhole
    <3> SUFFICES ASSUME NEW prio \in 1 .. 3, NEW i \in DOMAIN rx_q[prio]
                 PROVE  LET p == rx_q[prio][i] IN
                        bus = "shmem" \/ p.len + Header < Width
                          => p.kept = p.len + Header /\ p.kept <= BufSize
      BY Zenon DEF R!KeptWhole
    <3>1. rx_q[prio] \in Seq(Whole)
      BY <1>1 DEF RxInv
    <3> DEFINE p == rx_q[prio][i]
    <3>2. p \in Whole
      BY <3>1
    <3> HIDE DEF p
    <3>3. bus = "shmem" \/ p.len + Header < Width
            => p.kept = p.len + Header /\ p.kept <= BufSize
      BY <3>2, Zenon DEF Whole
    <3> QED BY <3>3, Zenon DEF p
  <2> QED BY <1>1, <2>1 DEF RxInv, RxCounts
<1>2. RingInv /\ RxInv => ReceivedWhole
  BY <1>1, RingKeeps, Zenon DEF ReceivedWhole
<1> QED BY <1>2, RingAlways, RxAlways, PTL


-----------------------------------------------------------------------------
(* Bring-up over SPI, and its error paths *)

\* Where bring-up is before its i-th step.
SpiState(i) == IF i = 1 THEN "down" ELSE P!Bringup[i]

\* What the first i steps of bring-up have taken.
Acquired(i) == {P!Bringup[j] : j \in 1 .. i} \ P!Checks

\* What the driver holds follows from where bring-up is: when spi_exit() is
\* next, it holds the first two things or fewer, or all of them.
SpiHeld ==
    /\ misreleased = FALSE
    /\ \/ \E i \in 1 .. 9 : state = SpiState(i) /\ held = Acquired(i - 1)
       \/ state \in {"closed", "up", "purged"} /\ held = Acquired(9)
       \/ state = "exit" /\ \E i \in {0, 1, 2, 9} : held = Acquired(i)

\* The nine steps of bring-up.
LEMMA BringupIs ==
    /\ DOMAIN P!Bringup = 1 .. 9 /\ Len(P!Bringup) = 9
    /\ P!Bringup[1] = "workqueue" /\ P!Bringup[2] = "device" /\ P!Bringup[3] = "setup"
    /\ P!Bringup[4] = "handshake_pin" /\ P!Bringup[5] = "handshake_input"
    /\ P!Bringup[6] = "handshake_irq" /\ P!Bringup[7] = "ready_pin"
    /\ P!Bringup[8] = "ready_input" /\ P!Bringup[9] = "ready_irq"
BY DEF P!Bringup

\* The place in bring-up is known from the state.
LEMMA SpiStates ==
    /\ \A i, j \in 1 .. 9 : SpiState(i) = SpiState(j) => i = j
    /\ \A i \in 1 .. 9 : SpiState(i) \notin {"closed", "up", "purged", "exit"}
<1>1. \A i \in 1 .. 9 : i \in {1, 2, 3, 4, 5, 6, 7, 8, 9}
  OBVIOUS
<1> QED BY <1>1, BringupIs DEF SpiState

\* Each step takes one thing more, or checks one.
LEMMA AcquiredNext ==
    ASSUME NEW i \in 1 .. 9
    PROVE  Acquired(i) = Acquired(i - 1) \cup ({P!Bringup[i]} \ P!Checks)
<1>1. 1 .. i = (1 .. i - 1) \cup {i}
  OBVIOUS
<1> QED BY <1>1, Zenon DEF Acquired

\* What is held after each step.
LEMMA AcquiredIs ==
    /\ Acquired(0) = {}
    /\ Acquired(1) = {"workqueue"}
    /\ Acquired(2) = {"workqueue", "device"}
    /\ Acquired(3) = Acquired(2)
    /\ Acquired(4) = Acquired(2) \cup {"handshake_pin"}
    /\ Acquired(5) = Acquired(4)
    /\ Acquired(6) = Acquired(4) \cup {"handshake_irq"}
    /\ Acquired(7) = Acquired(6) \cup {"ready_pin"}
    /\ Acquired(8) = Acquired(7)
    /\ Acquired(9) = Acquired(7) \cup {"ready_irq"}
<1>0. Acquired(0) = {}
  BY DEF Acquired
<1>1. Acquired(1) = Acquired(0) \cup ({"workqueue"} \ P!Checks)
  BY AcquiredNext, BringupIs
<1>2. Acquired(2) = Acquired(1) \cup ({"device"} \ P!Checks)
  BY AcquiredNext, BringupIs
<1>3. Acquired(3) = Acquired(2) \cup ({"setup"} \ P!Checks)
  BY AcquiredNext, BringupIs
<1>4. Acquired(4) = Acquired(3) \cup ({"handshake_pin"} \ P!Checks)
  BY AcquiredNext, BringupIs
<1>5. Acquired(5) = Acquired(4) \cup ({"handshake_input"} \ P!Checks)
  BY AcquiredNext, BringupIs
<1>6. Acquired(6) = Acquired(5) \cup ({"handshake_irq"} \ P!Checks)
  BY AcquiredNext, BringupIs
<1>7. Acquired(7) = Acquired(6) \cup ({"ready_pin"} \ P!Checks)
  BY AcquiredNext, BringupIs
<1>8. Acquired(8) = Acquired(7) \cup ({"ready_input"} \ P!Checks)
  BY AcquiredNext, BringupIs
<1>9. Acquired(9) = Acquired(8) \cup ({"ready_irq"} \ P!Checks)
  BY AcquiredNext, BringupIs
<1>10. /\ {"workqueue"} \ P!Checks = {"workqueue"} /\ {"device"} \ P!Checks = {"device"}
       /\ {"setup"} \ P!Checks = {} /\ {"handshake_input"} \ P!Checks = {}
       /\ {"ready_input"} \ P!Checks = {}
       /\ {"handshake_pin"} \ P!Checks = {"handshake_pin"}
       /\ {"handshake_irq"} \ P!Checks = {"handshake_irq"}
       /\ {"ready_pin"} \ P!Checks = {"ready_pin"} /\ {"ready_irq"} \ P!Checks = {"ready_irq"}
  BY Zenon DEF P!Checks
<1> QED BY <1>0, <1>1, <1>2, <1>3, <1>4, <1>5, <1>6, <1>7, <1>8, <1>9, <1>10

\* What the error path of each step releases is held then, and leaves what
\* spi_exit() gives back.
LEMMA UndoneFits ==
    ASSUME NEW i \in 1 .. 9
    PROVE  /\ P!Undone(P!Bringup[i]) \subseteq Acquired(i - 1)
           /\ \E k \in {0, 1, 2} : Acquired(i - 1) \ P!Undone(P!Bringup[i]) = Acquired(k)
<1>1. CASE i \in {1, 2, 3, 4}
  <2>1. P!Undone(P!Bringup[i]) = {}
    BY <1>1, BringupIs, Zenon DEF P!Undone
  <2>2. i - 1 \in {0, 1, 2} \/ (i = 4 /\ Acquired(i - 1) = Acquired(2))
    BY <1>1, AcquiredIs
  <2> QED BY <2>1, <2>2, Zenon
<1>2. CASE i \in {5, 6}
  <2>1. P!Undone(P!Bringup[i]) = {"handshake_pin"} /\ Acquired(i - 1) = Acquired(2) \cup {"handshake_pin"}
    BY <1>2, BringupIs, AcquiredIs DEF P!Undone
  <2> QED BY <2>1, AcquiredIs, Zenon
<1>3. CASE i = 7
  <2>1. /\ P!Undone(P!Bringup[i]) = {"handshake_pin", "handshake_irq"}
        /\ Acquired(i - 1) = Acquired(2) \cup {"handshake_pin", "handshake_irq"}
    BY <1>3, BringupIs, AcquiredIs DEF P!Undone
  <2> QED BY <2>1, AcquiredIs, Zenon
<1>4. CASE i \in {8, 9}
  <2>1. /\ P!Undone(P!Bringup[i]) = {"handshake_pin", "handshake_irq", "ready_pin"}
        /\ Acquired(i - 1) = Acquired(2) \cup {"handshake_pin", "handshake_irq", "ready_pin"}
    BY <1>4, BringupIs, AcquiredIs DEF P!Undone
  <2> QED BY <2>1, AcquiredIs, Zenon
<1> QED BY <1>1, <1>2, <1>3, <1>4

\* Nothing is held before bring-up.
LEMMA SpiHeldInit == Init => SpiHeld
<1> SUFFICES ASSUME Init PROVE SpiHeld
  BY Zenon
<1>1. state = SpiState(1) /\ held = Acquired(1 - 1) /\ misreleased = FALSE
  BY AcquiredIs DEF Init, P!Init, SpiState
<1> QED BY <1>1 DEF SpiHeld

\* Every step of spi_dev_init(), done or failed, keeps the account.
LEMMA SpiBringup ==
    ASSUME SpiHeld, NEW i \in DOMAIN P!Bringup, P!spi_dev_init(i)
    PROVE  SpiHeld'
<1>1. i \in 1 .. 9 /\ state = SpiState(i)
  BY BringupIs, Zenon DEF P!spi_dev_init, SpiState
<1>2. held = Acquired(i - 1) /\ misreleased = FALSE
  BY <1>1, SpiStates, Zenon DEF SpiHeld
<1>3. CASE /\ state' = IF i = Len(P!Bringup) THEN "closed" ELSE P!Bringup[i + 1]
           /\ held' = held \cup ({P!Bringup[i]} \ P!Checks)
           /\ UNCHANGED misreleased
  <2>1. held' = Acquired(i)
    BY <1>1, <1>2, <1>3, AcquiredNext, Zenon
  <2>2. CASE i = 9
    BY <1>2, <1>3, <2>1, <2>2, BringupIs DEF SpiHeld
  <2>3. CASE i # 9
    <3>1. i + 1 \in 1 .. 9 /\ i + 1 # 1 /\ (i + 1) - 1 = i
      BY <1>1, <2>3
    <3>2. state' = SpiState(i + 1) /\ held' = Acquired((i + 1) - 1)
      BY <1>3, <2>1, <2>3, <3>1, BringupIs DEF SpiState
    <3> QED BY <1>2, <1>3, <3>1, <3>2, Zenon DEF SpiHeld
  <2> QED BY <2>2, <2>3
<1>4. CASE state' = "exit" /\ P!Release(P!Undone(P!Bringup[i]))
  <2>1. held' = Acquired(i - 1) \ P!Undone(P!Bringup[i]) /\ misreleased' = FALSE
    BY <1>1, <1>2, <1>4, UndoneFits, Zenon DEF P!Release
  <2> QED BY <1>1, <1>4, <2>1, UndoneFits DEF SpiHeld
<1> QED BY <1>3, <1>4, Zenon DEF P!spi_dev_init

\* spi_exit() keeps the account.
LEMMA SpiExit ==
    ASSUME SpiHeld, P!spi_exit
    PROVE  SpiHeld'
<1> DEFINE pins == {"handshake_irq", "ready_irq", "handshake_pin", "ready_pin"}
           given == (held \cap {"workqueue", "device"})
                      \cup (IF "ready_irq" \in held THEN pins ELSE {})
<1>1. /\ state' = "down" /\ P!Release(given) /\ misreleased = FALSE
      /\ \E i \in {0, 1, 2, 9} : held = Acquired(i)
  BY SpiStates, Zenon DEF SpiHeld, P!spi_exit
<1>2. held \subseteq {"workqueue", "device"} \/ held = {"workqueue", "device"} \cup pins
  BY <1>1, AcquiredIs
<1>3. given = held
  BY <1>2, Zenon
<1> HIDE DEF given
<1>4. held' = {} /\ misreleased' = FALSE
  BY <1>1, <1>3, Zenon DEF P!Release
<1>5. state' = SpiState(1) /\ held' = Acquired(1 - 1)
  BY <1>1, <1>4, AcquiredIs DEF SpiState
<1> QED BY <1>4, <1>5 DEF SpiHeld

\* The states in which packets can be sent, and what is held in them.
LEMMA SpiUp ==
    ASSUME SpiHeld, state \in {"closed", "up", "purged"}
    PROVE  held = Acquired(9) /\ {"workqueue", "handshake_irq"} \subseteq held
<1>1. held = Acquired(9)
  BY SpiStates, Zenon DEF SpiHeld
<1> QED BY <1>1, AcquiredIs, Zenon

-----------------------------------------------------------------------------
(* The three queues of a bus, and SPI *)

\* Whether a queued packet counts towards stopping the network queue.
Marks == BOOLEAN
\* The three queues of a bus, by priority.
Queues == [1 .. 3 -> Seq(Marks)]
\* The packets in all three queues.
Sum(q) == Len(q[1]) + Len(q[2]) + Len(q[3])

\* The sum is a natural, and 0 when every queue is empty.
LEMMA QueueSum ==
    ASSUME NEW q \in Queues
    PROVE  /\ \A p \in 1 .. 3 : Len(q[p]) \in Nat /\ (Len(q[p]) = 0 <=> q[p] = << >>)
           /\ Sum(q) \in Nat
           /\ (\A p \in 1 .. 3 : q[p] = << >>) => Sum(q) = 0
<1>1. \A p \in 1 .. 3 : Len(q[p]) \in Nat /\ (Len(q[p]) = 0 <=> q[p] = << >>)
  BY DEF Queues
<1>2. PICK a \in Nat, b \in Nat, c \in Nat : Len(q[1]) = a /\ Len(q[2]) = b /\ Len(q[3]) = c
  BY <1>1
<1>3. Sum(q) \in Nat
  <2>1. a + b + c \in Nat
    OBVIOUS
  <2> QED BY <1>2, <2>1, Zenon DEF Sum
<1>4. ASSUME \A p \in 1 .. 3 : q[p] = << >> PROVE Sum(q) = 0
  <2>1. Len(q[1]) = 0 /\ Len(q[2]) = 0 /\ Len(q[3]) = 0
    BY <1>4
  <2> QED BY <2>1 DEF Sum
<1> QED BY <1>1, <1>3, <1>4, Zenon

\* The queues as they are when nothing waits.
LEMMA EmptyIs ==
    ASSUME NEW q, q = [p \in 1 .. 3 |-> << >>]
    PROVE  /\ q \in Queues /\ Sum(q) = 0
           /\ \A p \in 1 .. 3 : q[p] = << >> /\ Len(q[p]) = 0 /\ \A S : q[p] \in Seq(S)
<1>1. q \in Queues /\ \A p \in 1 .. 3 : q[p] = << >>
  BY DEF Queues
<1> QED BY <1>1, QueueSum

\* The queues with one more packet at the end of one of them.
Added(q, prio, m) == [q EXCEPT ![prio] = Append(@, m)]
\* The queues with the first packet of one of them taken.
Taken(q, prio) == [q EXCEPT ![prio] = Tail(@)]

\* Adding a packet changes one queue, by one.
LEMMA AppendAt ==
    ASSUME NEW q \in Queues, NEW prio \in 1 .. 3, NEW m \in Marks
    PROVE  /\ Added(q, prio, m) \in Queues
           /\ Len(Added(q, prio, m)[prio]) = Len(q[prio]) + 1
           /\ \A p \in 1 .. 3 : p # prio => Added(q, prio, m)[p] = q[p]
           /\ \A S : m \in S /\ q[prio] \in Seq(S) => Added(q, prio, m)[prio] \in Seq(S)
<1> DEFINE r == Added(q, prio, m)
<1>1. q[prio] \in Seq(Marks)
  BY Zenon DEF Queues
<1>2. /\ r[prio] = Append(q[prio], m) /\ \A p \in 1 .. 3 : p # prio => r[p] = q[p]
      /\ r = [p \in 1 .. 3 |-> r[p]]
  BY Zenon DEF Queues, Added
<1> HIDE DEF r, Marks
<1>3. Append(q[prio], m) \in Seq(Marks) /\ Len(Append(q[prio], m)) = Len(q[prio]) + 1
  BY <1>1
<1>4. \A S : m \in S /\ q[prio] \in Seq(S) => r[prio] \in Seq(S)
  BY <1>2
<1>5. r \in Queues
  BY <1>2, <1>3, Zenon DEF Queues
<1> QED BY <1>2, <1>3, <1>4, <1>5, Zenon DEF r

\* Taking a packet changes one queue, by one.
LEMMA TailAt ==
    ASSUME NEW q \in Queues, NEW prio \in 1 .. 3, q[prio] # << >>
    PROVE  /\ Taken(q, prio) \in Queues /\ Len(q[prio]) \in Nat \ {0}
           /\ Len(Taken(q, prio)[prio]) = Len(q[prio]) - 1
           /\ \A p \in 1 .. 3 : p # prio => Taken(q, prio)[p] = q[p]
           /\ \A S : q[prio] \in Seq(S) => Taken(q, prio)[prio] \in Seq(S) /\ Head(q[prio]) \in S
<1> DEFINE r == Taken(q, prio)
<1>1. q[prio] \in Seq(Marks)
  BY Zenon DEF Queues
<1>2. /\ r[prio] = Tail(q[prio]) /\ \A p \in 1 .. 3 : p # prio => r[p] = q[p]
      /\ r = [p \in 1 .. 3 |-> r[p]]
  BY Zenon DEF Queues, Taken
<1> HIDE DEF r, Marks
<1>3. /\ Tail(q[prio]) \in Seq(Marks) /\ Len(q[prio]) \in Nat \ {0}
      /\ Len(Tail(q[prio])) = Len(q[prio]) - 1
  BY <1>1
<1>4. \A S : q[prio] \in Seq(S) => r[prio] \in Seq(S) /\ Head(q[prio]) \in S
  BY <1>2
<1>5. r \in Queues
  BY <1>2, <1>3, Zenon DEF Queues
<1> QED BY <1>2, <1>3, <1>4, <1>5, Zenon DEF r

\* The pending counter counts no more than the data queue holds, and only the
\* data queue holds packets that count.
SpiCounted ==
    /\ tx_pending <= Len(tx_q[3])
    /\ tx_q[1] \in Seq({FALSE}) /\ tx_q[2] \in Seq({FALSE}) /\ tx_q[3] \in Seq({TRUE})

\* The inductive invariant of the SPI queues: while the counter is right, a
\* stopped network queue has a packet in the data queue, and a queued packet
\* has a run of the work to come or a handshake to wait for.
SpiQueue ==
    /\ tx_q \in Queues /\ tx_pending \in Nat
    /\ spi_data_path <=> state \in {"up", "purged"}
    /\ state \notin {"up", "purged", "exit"} => tx_q = P!Empty /\ ~stopped
    /\ spi_data_path /\ ~uncounted => SpiCounted
    /\ stopped /\ state = "up" /\ ~uncounted => tx_q[3] # << >>
    /\ spi_data_path /\ (\E p \in 1 .. 3 : tx_q[p] # << >>) => spi_work \/ ~handshake

\* The inductive invariant of SpiTx.
SpiInv == SpiHeld /\ SpiQueue

\* Emptying the queues keeps the invariant.
LEMMA SpiEmpty ==
    ASSUME tx_q' = P!Empty, tx_pending' \in Nat, ~stopped' \/ state' # "up",
           spi_data_path' <=> state' \in {"up", "purged"},
           spi_data_path' /\ ~uncounted' => tx_pending' = 0,
           state' \notin {"up", "purged", "exit"} => ~stopped'
    PROVE  SpiQueue'
<1>1. P!Empty = [p \in 1 .. 3 |-> << >>]
  BY Zenon DEF P!Empty
<1>2. /\ tx_q' \in Queues
      /\ \A p \in 1 .. 3 : tx_q'[p] = << >> /\ Len(tx_q'[p]) = 0 /\ \A S : tx_q'[p] \in Seq(S)
  BY <1>1, EmptyIs, Zenon
<1>3. spi_data_path' /\ ~uncounted' => SpiCounted'
  BY <1>2 DEF SpiCounted
<1>4. P!Empty' = P!Empty
  BY Zenon DEF P!Empty
<1> QED BY <1>2, <1>3, <1>4, Zenon DEF SpiQueue

\* write_packet() queues, and arms the work.
LEMMA SpiWrite ==
    ASSUME SpiInv, NEW prio \in 1 .. 3, NEW marked \in BOOLEAN, P!write_packet(prio, marked)
    PROVE  SpiInv'
<1>0. /\ tx_q \in Queues /\ tx_pending \in Nat /\ MaxPending \in Nat \ {0}
      /\ state' = state /\ held' = held /\ misreleased' = misreleased
      /\ spi_data_path' = spi_data_path /\ spi_data_path /\ handshake' = handshake
      /\ spi_work' = TRUE /\ state \in {"up", "purged"}
      /\ (IF prio = 3 THEN ~stopped ELSE ~marked)
  BY BusesAssumption DEF SpiInv, SpiQueue, P!write_packet
<1>1. SpiHeld'
  BY <1>0, Zenon DEF SpiInv, SpiHeld
<1>2. CASE marked /\ tx_pending >= MaxPending
  <2>1. UNCHANGED <<tx_q, tx_pending, uncounted>> /\ prio = 3
    BY <1>0, <1>2, Zenon DEF P!write_packet
  <2>2. ~uncounted => tx_q[3] # << >>
    <3>1. ~uncounted => tx_pending <= Len(tx_q[3])
      BY <1>0, Zenon DEF SpiInv, SpiQueue, SpiCounted
    <3>2. Len(tx_q[3]) \in Nat /\ (Len(tx_q[3]) = 0 <=> tx_q[3] = << >>)
      BY <1>0, QueueSum
    <3> QED BY <1>0, <1>2, <3>1, <3>2
  <2> QED BY <1>0, <1>1, <2>1, <2>2, Zenon DEF SpiInv, SpiQueue, SpiCounted
<1>3. CASE ~(marked /\ tx_pending >= MaxPending)
  <2>1. /\ tx_q' = [tx_q EXCEPT ![prio] = Append(@, marked)]
        /\ tx_pending' = tx_pending + (IF prio = 3 THEN 1 ELSE 0)
        /\ uncounted' <=> (uncounted \/ (prio = 3 /\ ~marked))
        /\ stopped' = stopped
    BY <1>3, Zenon DEF P!write_packet
  <2>2. /\ tx_q' \in Queues /\ Len(tx_q'[prio]) = Len(tx_q[prio]) + 1
        /\ \A p \in 1 .. 3 : p # prio => tx_q'[p] = tx_q[p]
        /\ \A S : marked \in S /\ tx_q[prio] \in Seq(S) => tx_q'[prio] \in Seq(S)
    <3>1. marked \in Marks
      BY Zenon DEF Marks
    <3>2. tx_q \in Queues /\ tx_q' = Added(tx_q, prio, marked)
      BY <1>0, <2>1, Zenon DEF Added
    <3> HIDE DEF Marks
    <3> QED BY <3>1, <3>2, AppendAt, Zenon
  <2>3. /\ Len(tx_q[3]) \in Nat /\ Len(tx_q'[3]) \in Nat
        /\ (Len(tx_q'[3]) = 0 <=> tx_q'[3] = << >>) /\ (Len(tx_q[3]) = 0 <=> tx_q[3] = << >>)
    BY <1>0, <2>2, QueueSum
  <2>4. ASSUME ~uncounted' PROVE SpiCounted'
    <3>1. SpiCounted /\ (prio = 3 => marked)
      BY <1>0, <2>1, <2>4, Zenon DEF SpiInv, SpiQueue
    <3>2. tx_pending' <= Len(tx_q'[3])
      BY <1>0, <2>1, <2>2, <2>3, <3>1 DEF SpiCounted
    <3>3. (prio = 3 => marked \in {TRUE}) /\ (prio # 3 => marked \in {FALSE})
      BY <1>0, <3>1, Zenon
    <3>4. ASSUME NEW p \in 1 .. 3, NEW S, tx_q[p] \in Seq(S), p = prio => marked \in S
          PROVE  tx_q'[p] \in Seq(S)
      BY <2>2, <3>4, Zenon
    <3>5. 1 \in 1 .. 3 /\ 2 \in 1 .. 3 /\ 3 \in 1 .. 3 /\ 1 # 3 /\ 2 # 3
      OBVIOUS
    <3>6. tx_q'[1] \in Seq({FALSE}) /\ tx_q'[2] \in Seq({FALSE}) /\ tx_q'[3] \in Seq({TRUE})
      BY <3>1, <3>3, <3>4, <3>5, Zenon DEF SpiCounted
    <3> QED BY <3>2, <3>6, Zenon DEF SpiCounted
  <2>5. stopped' /\ state' = "up" /\ ~uncounted' => tx_q'[3] # << >>
    <3>1. Len(tx_q'[3]) = Len(tx_q[3]) \/ Len(tx_q'[3]) = Len(tx_q[3]) + 1
      BY <2>2
    <3>2. tx_q[3] # << >> => tx_q'[3] # << >>
      BY <2>3, <3>1
    <3> QED BY <1>0, <2>1, <3>2, Zenon DEF SpiInv, SpiQueue
  <2>6. tx_pending' \in Nat
    BY <1>0, <2>1
  <2> QED BY <1>0, <1>1, <2>2, <2>4, <2>5, <2>6, Zenon DEF SpiInv, SpiQueue
<1> QED BY <1>2, <1>3, Zenon

\* The packet of a run comes from the first queue that has one.
LEMMA SomeServed ==
    ASSUME spi_data_path, \E p \in 1 .. 3 : tx_q[p] # << >>
    PROVE  \E p \in 1 .. 3 : P!Served(p)
<1>1. CASE tx_q[1] # << >>
  BY <1>1 DEF P!Served
<1>2. CASE tx_q[1] = << >> /\ tx_q[2] # << >>
  BY <1>2 DEF P!Served
<1>3. CASE tx_q[1] = << >> /\ tx_q[2] = << >> /\ tx_q[3] # << >>
  BY <1>3 DEF P!Served
<1> QED BY <1>1, <1>2, <1>3

\* One run of esp_spi_work() sends at most one packet, and runs again while one
\* is left.
LEMMA SpiWork ==
    ASSUME SpiInv, P!esp_spi_work
    PROVE  SpiInv'
<1>0. /\ tx_q \in Queues /\ tx_pending \in Nat /\ ResumeThreshold \in Nat \ {0}
      /\ state' = state /\ held' = held /\ misreleased' = misreleased
      /\ spi_data_path' = spi_data_path /\ uncounted' = uncounted
  BY BusesAssumption DEF SpiInv, SpiQueue, P!esp_spi_work
<1>1. SpiHeld'
  BY <1>0, Zenon DEF SpiInv, SpiHeld
<1>2. CASE handshake /\ \E prio \in 1 .. 3 : P!Served(prio)
  <2>1. PICK prio \in 1 .. 3 :
           /\ P!Served(prio)
           /\ tx_q' = [tx_q EXCEPT ![prio] = Tail(@)]
           /\ tx_pending' = IF tx_pending > 0 THEN tx_pending - 1 ELSE 0
           /\ P!Resume(prio)
    BY <1>2, Zenon DEF P!esp_spi_work
  <2>2. ~handshake'
    BY <1>2, Zenon DEF P!esp_spi_work
  <2>3. tx_q[prio] # << >> /\ spi_data_path /\ tx_q' = Taken(tx_q, prio)
    BY <2>1, Zenon DEF P!Served, Taken
  <2>4. /\ tx_q' \in Queues /\ Len(tx_q[prio]) \in Nat \ {0}
        /\ Len(tx_q'[prio]) = Len(tx_q[prio]) - 1
        /\ \A p \in 1 .. 3 : p # prio => tx_q'[p] = tx_q[p]
        /\ \A S : tx_q[prio] \in Seq(S) => tx_q'[prio] \in Seq(S) /\ Head(tx_q[prio]) \in S
    BY <1>0, <2>3, TailAt, ZenonT(30)
  <2>5. /\ Len(tx_q[3]) \in Nat /\ Len(tx_q'[3]) \in Nat
        /\ (Len(tx_q'[3]) = 0 <=> tx_q'[3] = << >>) /\ (Len(tx_q[3]) = 0 <=> tx_q[3] = << >>)
    BY <1>0, <2>4, QueueSum
  <2>6. tx_pending' \in Nat /\ (tx_pending > 0 => tx_pending' = tx_pending - 1) /\ (tx_pending = 0 => tx_pending' = 0)
    BY <1>0, <2>1
  <2>7. ASSUME ~uncounted' PROVE SpiCounted'
    <3>1. SpiCounted
      BY <1>0, <2>3, <2>7, Zenon DEF SpiInv, SpiQueue
    <3>2. tx_pending' <= Len(tx_q'[3])
      <4>1. tx_pending <= Len(tx_q[3])
        BY <3>1, Zenon DEF SpiCounted
      <4>2. Len(tx_q'[3]) = Len(tx_q[3]) \/ (Len(tx_q'[3]) = Len(tx_q[3]) - 1 /\ Len(tx_q[3]) # 0)
        BY <2>4
      <4> QED BY <1>0, <2>5, <2>6, <4>1, <4>2
    <3>3. \A p \in 1 .. 3 : \A S : tx_q[p] \in Seq(S) => tx_q'[p] \in Seq(S)
      BY <2>4, Zenon
    <3>4. 1 \in 1 .. 3 /\ 2 \in 1 .. 3 /\ 3 \in 1 .. 3
      OBVIOUS
    <3> QED BY <3>1, <3>2, <3>3, <3>4, Zenon DEF SpiCounted
  <2>8. ASSUME stopped', state' = "up", ~uncounted' PROVE tx_q'[3] # << >>
    <3>1. SpiCounted /\ SpiCounted' /\ stopped /\ ~(Head(tx_q[prio]) /\ tx_pending' < ResumeThreshold)
      BY <1>0, <2>1, <2>3, <2>7, <2>8, Zenon DEF SpiInv, SpiQueue, P!Resume
    <3>2. tx_q[3] # << >>
      BY <1>0, <2>8, <3>1, Zenon DEF SpiInv, SpiQueue
    <3>3. CASE prio = 3
      <4>1. Head(tx_q[prio]) \in {TRUE}
        BY <2>4, <3>1, <3>3, Zenon DEF SpiCounted
      <4>2. ~(tx_pending' < ResumeThreshold)
        BY <3>1, <4>1, Zenon
      <4>3. tx_pending' <= Len(tx_q'[3])
        BY <3>1, Zenon DEF SpiCounted
      <4> QED BY <1>0, <2>5, <2>6, <4>2, <4>3
    <3>4. CASE prio # 3
      BY <2>4, <3>2, <3>4
    <3> QED BY <3>3, <3>4, Zenon
  <2>9. state \in {"up", "purged"}
    BY <2>3, Zenon DEF SpiInv, SpiQueue
  <2> QED BY <1>0, <1>1, <2>2, <2>3, <2>4, <2>6, <2>7, <2>8, <2>9, Zenon DEF SpiInv, SpiQueue
<1>3. CASE ~(handshake /\ \E prio \in 1 .. 3 : P!Served(prio))
  <2>1. UNCHANGED <<tx_q, tx_pending, stopped>> /\ (handshake' => handshake)
    BY <1>3, Zenon DEF P!esp_spi_work
  <2>2. spi_data_path' /\ (\E p \in 1 .. 3 : tx_q'[p] # << >>) => ~handshake'
    BY <1>0, <1>3, <2>1, SomeServed, Zenon
  <2>3. SpiCounted' <=> SpiCounted
    BY <2>1, Zenon DEF SpiCounted
  <2>4. tx_q' = tx_q /\ tx_pending' = tx_pending /\ stopped' = stopped /\ P!Empty' = P!Empty
    BY <2>1, Zenon DEF P!Empty
  <2> QED BY <1>0, <1>1, <2>2, <2>3, <2>4, Zenon DEF SpiInv, SpiQueue
<1> QED BY <1>2, <1>3, ZenonT(30)

\* Nothing is queued before bring-up.
LEMMA SpiInit == Init => SpiInv
<1> SUFFICES ASSUME Init PROVE SpiInv
  BY Zenon
<1>1. /\ tx_q = P!Empty /\ tx_pending = 0 /\ stopped = FALSE /\ spi_data_path = FALSE
      /\ state = "down"
  BY Zenon DEF Init, P!Init
<1>2. tx_q \in Queues
  BY <1>1, EmptyIs, Zenon DEF P!Empty
<1>3. SpiQueue
  BY <1>1, <1>2, Zenon DEF SpiQueue
<1> QED BY <1>3, SpiHeldInit, Zenon DEF SpiInv

\* Every step of the SPI transport keeps the invariant.
LEMMA SpiStep == SpiInv /\ P!Next => SpiInv'
<1> SUFFICES ASSUME SpiInv, P!Next PROVE SpiInv'
  BY Zenon
<1>0. SpiHeld /\ SpiQueue /\ tx_pending \in Nat /\ P!Empty' = P!Empty
  BY Zenon DEF SpiInv, SpiQueue, P!Empty
<1>1. ASSUME NEW i \in DOMAIN P!Bringup, P!spi_dev_init(i) PROVE SpiInv'
  <2>1. SpiHeld'
    BY <1>0, <1>1, SpiBringup, Zenon
  <2>2. /\ state \notin {"up", "purged", "exit"} /\ state' \notin {"up", "purged"}
        /\ tx_q' = tx_q /\ tx_pending' = tx_pending /\ stopped' = stopped
        /\ spi_data_path' = spi_data_path
    <3>1. i \in 1 .. 9 /\ state = SpiState(i)
      BY <1>1, BringupIs, Zenon DEF P!spi_dev_init, SpiState
    <3>2. state' \in {"closed", "exit"} \/ \E j \in 1 .. 9 : state' = SpiState(j)
      <4>1. i = 9 \/ (i + 1 \in 1 .. 9 /\ i + 1 # 1)
        BY <3>1
      <4> QED BY <1>1, <4>1, BringupIs, Zenon DEF P!spi_dev_init, SpiState
    <3>3. state \notin {"up", "purged", "exit"} /\ state' \notin {"up", "purged"}
      BY <3>1, <3>2, SpiStates, Zenon
    <3> QED BY <1>1, <3>3, Zenon DEF P!spi_dev_init, P!queueVars
  <2>3. SpiQueue'
    <3>1. tx_q = P!Empty /\ ~stopped /\ ~spi_data_path
      BY <1>0, <2>2, Zenon DEF SpiQueue
    <3> QED BY <1>0, <2>2, <3>1, SpiEmpty, Zenon
  <2> QED BY <2>1, <2>3, Zenon DEF SpiInv
<1>2. CASE P!open_data_path
  <2>1. /\ state = "closed" /\ state' = "up" /\ held' = held /\ misreleased' = misreleased
        /\ tx_q' = tx_q /\ stopped' = stopped /\ spi_data_path' /\ tx_pending' = 0
    BY <1>2, Zenon DEF P!open_data_path
  <2>2. SpiQueue'
    <3>1. tx_q = P!Empty /\ ~stopped
      BY <1>0, <2>1, Zenon DEF SpiQueue
    <3> QED BY <2>1, <3>1, SpiEmpty, Zenon
  <2>3. held = Acquired(9)
    BY <1>0, <2>1, SpiUp, Zenon
  <2> QED BY <1>0, <2>1, <2>2, <2>3, Zenon DEF SpiInv, SpiHeld
<1>3. CASE P!close_data_path
  <2>1. /\ state = "up" /\ state' = "exit" /\ held' = held /\ misreleased' = misreleased
        /\ tx_q' = tx_q /\ tx_pending' = tx_pending /\ spi_data_path' = FALSE
    BY <1>3, Zenon DEF P!close_data_path
  <2>2. SpiQueue'
    BY <1>0, <2>1, Zenon DEF SpiQueue
  <2>3. held = Acquired(9)
    BY <1>0, <2>1, SpiUp, Zenon
  <2> QED BY <1>0, <2>1, <2>2, <2>3, Zenon DEF SpiInv, SpiHeld
<1>4. CASE P!spi_exit
  <2>1. /\ state = "exit" /\ state' = "down" /\ tx_q' = P!Empty /\ stopped' = FALSE
        /\ tx_pending' = tx_pending /\ spi_data_path' = spi_data_path
    BY <1>4, Zenon DEF P!spi_exit
  <2>2. ~spi_data_path
    BY <1>0, <2>1, Zenon DEF SpiQueue
  <2>3. SpiQueue'
    BY <1>0, <2>1, <2>2, SpiEmpty, Zenon
  <2> QED BY <1>0, <1>4, <2>3, SpiExit, Zenon DEF SpiInv
<1>5. CASE P!spi_interrupt_handler \/ P!spi_data_ready_interrupt_handler
  <2>1. /\ state' = state /\ held' = held /\ misreleased' = misreleased /\ tx_q' = tx_q
        /\ tx_pending' = tx_pending /\ spi_data_path' = spi_data_path /\ stopped' = stopped
        /\ uncounted' = uncounted
    BY <1>5, Zenon DEF P!spi_interrupt_handler, P!spi_data_ready_interrupt_handler
  <2>2. spi_data_path' => spi_work'
    <3>1. spi_data_path' => state # "exit" /\ {"workqueue", "handshake_irq"} \subseteq held
      BY <1>0, <2>1, SpiUp, Zenon DEF SpiQueue
    <3> QED BY <1>5, <3>1, Zenon DEF P!spi_interrupt_handler, P!spi_data_ready_interrupt_handler
  <2>3. SpiCounted' <=> SpiCounted
    BY <2>1, Zenon DEF SpiCounted
  <2> QED BY <1>0, <2>1, <2>2, <2>3, Zenon DEF SpiInv, SpiHeld, SpiQueue
<1>6. CASE P!esp_deinit_module
  <2>1. /\ state = "up" /\ state' = "purged" /\ held' = held /\ misreleased' = misreleased
        /\ tx_q' = P!Empty /\ tx_pending' = tx_pending /\ spi_data_path' = spi_data_path
        /\ (~uncounted' => ~(tx_pending > 0))
    BY <1>6, Zenon DEF P!esp_deinit_module
  <2>2. spi_data_path
    BY <1>0, <2>1, Zenon DEF SpiQueue
  <2>3. SpiQueue'
    BY <1>0, <2>1, <2>2, SpiEmpty
  <2>4. held = Acquired(9)
    BY <1>0, <2>1, SpiUp, Zenon
  <2> QED BY <1>0, <2>1, <2>3, <2>4, Zenon DEF SpiInv, SpiHeld
<1>7. CASE P!ReinitQueues
  <2>1. /\ state = "purged" /\ state' = "up" /\ held' = held /\ misreleased' = misreleased
        /\ tx_q' = P!Empty /\ tx_pending' = tx_pending /\ spi_data_path' = spi_data_path
        /\ (~uncounted' => ~(tx_pending > 0)) /\ stopped' = FALSE
    BY <1>7, Zenon DEF P!ReinitQueues
  <2>2. spi_data_path
    BY <1>0, <2>1, Zenon DEF SpiQueue
  <2>3. SpiQueue'
    BY <1>0, <2>1, <2>2, SpiEmpty
  <2>4. held = Acquired(9)
    BY <1>0, <2>1, SpiUp
  <2> QED BY <1>0, <2>1, <2>3, <2>4, Zenon DEF SpiInv, SpiHeld
<1> QED BY <1>1, <1>2, <1>3, <1>4, <1>5, <1>6, <1>7, SpiWrite, SpiWork, Zenon DEF P!Next

\* The invariant of SpiTx holds in every behaviour.
LEMMA SpiAlways == Spec => []SpiInv
<1>1. SpiInv /\ [Next]_vars => SpiInv'
  <2> SUFFICES ASSUME SpiInv, [Next]_vars PROVE SpiInv'
    BY Zenon
  <2>1. CASE P!Next
    BY <2>1, SpiStep
  <2>2. CASE UNCHANGED spiVars
    <3>1. /\ state' = state /\ held' = held /\ misreleased' = misreleased /\ tx_q' = tx_q
          /\ tx_pending' = tx_pending /\ spi_data_path' = spi_data_path /\ stopped' = stopped
          /\ uncounted' = uncounted /\ spi_work' = spi_work /\ handshake' = handshake
      BY <2>2, Zenon DEF spiVars
    <3>2. P!Empty' = P!Empty
      BY Zenon DEF P!Empty
    <3>3. SpiCounted' <=> SpiCounted
      BY <3>1, Zenon DEF SpiCounted
    <3> QED BY <3>1, <3>2, <3>3, Zenon DEF SpiInv, SpiHeld, SpiQueue
  <2> QED BY <2>1, <2>2, Zenon DEF Next, vars
<1> QED BY SpiInit, <1>1, PTL DEF Spec

\* Whichever step of spi_dev_init() fails and whenever spi_exit() comes,
\* nothing is released that is not held, and once the driver is down again
\* nothing is held.
THEOREM SpiAllGivenBack == Spec => []AllGivenBack
<1>1. SpiInv => AllGivenBack
  <2> SUFFICES ASSUME SpiInv, state = "down" PROVE held = {}
    BY Zenon DEF AllGivenBack, P!AllGivenBack, SpiInv, SpiHeld
  <2>1. state = SpiState(1) /\ 1 \in 1 .. 9
    BY DEF SpiState
  <2>2. held = Acquired(1 - 1)
    BY <2>1, SpiStates, Zenon DEF SpiInv, SpiHeld
  <2> QED BY <2>2, AcquiredIs
<1> QED BY <1>1, SpiAlways, PTL

\* On SPI a queued packet has a run of the work to come and a stopped queue a
\* packet that wakes it.
LEMMA SpiRuns == SpiInv => P!PacketHasRun /\ P!StoppedHasWaker
<1> SUFFICES ASSUME SpiInv PROVE P!PacketHasRun /\ P!StoppedHasWaker
  BY Zenon
<1>0. tx_q \in Queues
  BY Zenon DEF SpiInv, SpiQueue
<1>1. P!PacketHasRun
  <2>1. P!Queued = Sum(tx_q)
    BY Zenon DEF P!Queued, Sum
  <2>2. Sum(tx_q) > 0 => \E p \in 1 .. 3 : tx_q[p] # << >>
    BY <1>0, QueueSum
  <2> QED BY <2>1, <2>2, Zenon DEF SpiInv, SpiQueue, P!PacketHasRun
<1>2. ASSUME stopped, state = "up", ~uncounted PROVE \E i \in DOMAIN tx_q[3] : tx_q[3][i]
  <2>1. tx_q[3] # << >> /\ tx_q[3] \in Seq({TRUE})
    BY <1>2, Zenon DEF SpiInv, SpiQueue, SpiCounted
  <2> DEFINE q == tx_q[3]
  <2> HIDE DEF q
  <2>2. \A S : q \in Seq(S) /\ q # << >> => 1 \in DOMAIN q /\ q[1] \in S
    OBVIOUS
  <2>3. 1 \in DOMAIN q /\ q[1] \in {TRUE}
    BY <2>1, <2>2, Zenon DEF q
  <2>4. q[1]
    BY <2>3, Zenon
  <2> QED BY <2>3, <2>4, Zenon DEF q
<1> QED BY <1>1, <1>2, Zenon DEF P!StoppedHasWaker

-----------------------------------------------------------------------------
(* SDIO *)

\* The buffers the chip has freed since the driver's count, as the driver
\* computes it.
SdioNum(t, c) == (t + TokenMax - c) % TokenMax

\* The token counter is at least twice as wide as the chip's buffers.
LEMMA TokenRange == TokenMax \in Pos /\ BufCount \in Pos /\ BufCount + BufCount <= TokenMax
BY BusesAssumption DEF Pos

\* What it computes, without the modulus.
LEMMA SdioNumIs ==
    ASSUME NEW t \in Rest(TokenMax), NEW c \in Rest(TokenMax)
    PROVE  SdioNum(t, c) = IF c <= t THEN t - c ELSE t - c + TokenMax
<1>1. TokenMax \in Nat \ {0} /\ t \in 0 .. TokenMax - 1 /\ c \in 0 .. TokenMax - 1
  BY TokenRange, Zenon DEF Pos, Rest
<1>2. PICK d \in Nat : d = t + TokenMax - c /\ d < TokenMax + TokenMax
  BY <1>1
<1>3. d % TokenMax = IF d < TokenMax THEN d ELSE d - TokenMax
  BY <1>2, TokenRange, ModWrap, Zenon
<1>4. SdioNum(t, c) = d % TokenMax
  BY <1>2, Zenon DEF SdioNum
<1>5. c <= t => ~(d < TokenMax) /\ d - TokenMax = t - c
  BY <1>1, <1>2
<1>6. ~(c <= t) => d < TokenMax /\ d = t - c + TokenMax
  BY <1>1, <1>2
<1> QED BY <1>3, <1>4, <1>5, <1>6, Zenon

\* The next value of a token, without the modulus.
LEMMA TokenSucc ==
    ASSUME NEW c \in Rest(TokenMax)
    PROVE  /\ (c + 1) % TokenMax = IF c + 1 < TokenMax THEN c + 1 ELSE 0
           /\ (c + 1) % TokenMax \in Rest(TokenMax)
<1>1. TokenMax \in Nat \ {0} /\ c \in 0 .. TokenMax - 1
  BY TokenRange, Zenon DEF Pos, Rest
<1>2. CASE c = TokenMax - 1
  <2>1. c + 1 = TokenMax /\ TokenMax % TokenMax = 0
    BY <1>1, <1>2
  <2> QED BY <1>1, <1>2, <2>1 DEF Rest
<1>3. CASE c # TokenMax - 1
  <2>1. c + 1 \in 0 .. TokenMax - 1
    BY <1>1, <1>3
  <2> QED BY <1>1, <1>3, <2>1 DEF Rest
<1> QED BY <1>2, <1>3, Zenon

\* The inductive invariant of the credit: until a resynchronisation guesses
\* wrong, the difference of token and count is what is free, and what the
\* thread has taken on account is too.
SdioCredit ==
    /\ token \in Rest(TokenMax) /\ tx_buffer_count \in Rest(TokenMax)
    /\ free \in 0 .. BufCount /\ buf_available \in Nat
    /\ thread = "none" <=> sdio_state \in {"none", "disabled"}
    /\ ~resynced =>
         /\ sdio_state # "none" => SdioNum(token, tx_buffer_count) = free
         /\ D!NeverOverrun

\* All buffers are free at the start.
LEMMA CreditInit == Init => SdioCredit
<1> SUFFICES ASSUME Init PROVE SdioCredit
  BY Zenon
<1>1. /\ token \in Rest(TokenMax) /\ tx_buffer_count = 0 /\ free = BufCount /\ buf_available = 0
      /\ thread = "none" /\ sdio_state = "none" /\ overrun = FALSE
  BY Zenon DEF Init, D!Init, Rest
<1>2. 0 \in Rest(TokenMax) /\ BufCount \in Nat
  BY TokenRange DEF Rest, Pos
<1> QED BY <1>1, <1>2 DEF SdioCredit, D!NeverOverrun

\* The chip freeing a buffer adds one to the difference.
LEMMA ChipFreesStep ==
    ASSUME SdioCredit, D!ChipFrees
    PROVE  SdioCredit'
<1>0. /\ TokenMax \in Nat \ {0} /\ BufCount \in Nat \ {0} /\ BufCount + BufCount <= TokenMax
      /\ token \in Rest(TokenMax) /\ tx_buffer_count \in Rest(TokenMax)
      /\ free \in 0 .. BufCount /\ buf_available \in Nat
  BY TokenRange, Zenon DEF Pos, SdioCredit
<1>1. /\ free < BufCount /\ free' = free + 1 /\ token' = (token + 1) % TokenMax
      /\ thread' = thread /\ sdio_state' = sdio_state /\ tx_buffer_count' = tx_buffer_count
      /\ buf_available' = buf_available /\ overrun' = overrun /\ resynced' = resynced
  BY Zenon DEF D!ChipFrees, D!drvVars
<1>2. token' \in Rest(TokenMax) /\ token' = IF token + 1 < TokenMax THEN token + 1 ELSE 0
  BY <1>0, <1>1, TokenSucc, Zenon
<1>3. /\ SdioNum(token, tx_buffer_count) = IF tx_buffer_count <= token THEN token - tx_buffer_count
                                           ELSE token - tx_buffer_count + TokenMax
      /\ SdioNum(token', tx_buffer_count') = IF tx_buffer_count <= token' THEN token' - tx_buffer_count
                                             ELSE token' - tx_buffer_count + TokenMax
  BY <1>0, <1>1, <1>2, SdioNumIs, Zenon
<1>4. SdioNum(token, tx_buffer_count) = free => SdioNum(token', tx_buffer_count') = free'
  BY <1>0, <1>1, <1>2, <1>3 DEF Rest
<1>5. free' \in 0 .. BufCount
  BY <1>0, <1>1
<1>6. ~resynced' => D!NeverOverrun'
  BY <1>0, <1>1 DEF SdioCredit, D!NeverOverrun
<1> QED BY <1>0, <1>1, <1>2, <1>4, <1>5, <1>6, Zenon DEF SdioCredit

\* get_firmware_data() starts the count so that all buffers are free.
LEMMA CountAnew ==
    ASSUME SdioCredit, D!get_firmware_data, UNCHANGED <<token, free>>
    PROVE  /\ tx_buffer_count' \in Rest(TokenMax)
           /\ ~resynced' => ~resynced /\ SdioNum(token', tx_buffer_count') = free'
<1>0. /\ TokenMax \in Nat \ {0} /\ BufCount \in Nat \ {0} /\ BufCount + BufCount <= TokenMax
      /\ token \in Rest(TokenMax) /\ free \in 0 .. BufCount
  BY TokenRange, Zenon DEF Pos, SdioCredit
<1>1. /\ tx_buffer_count' = IF token >= BufCount THEN token - BufCount ELSE 0
      /\ ~resynced' => ~resynced /\ ~(free < BufCount) /\ ~(token < BufCount)
  BY Zenon DEF D!get_firmware_data
<1>2. tx_buffer_count' \in Rest(TokenMax)
  BY <1>0, <1>1 DEF Rest
<1>3. SdioNum(token, tx_buffer_count') = IF tx_buffer_count' <= token THEN token - tx_buffer_count'
                                         ELSE token - tx_buffer_count' + TokenMax
  BY <1>0, <1>2, SdioNumIs, Zenon
<1>4. ~resynced' => SdioNum(token, tx_buffer_count') = free
  BY <1>0, <1>1, <1>3 DEF Rest
<1> QED BY <1>1, <1>2, <1>4, Zenon

\* is_sdio_write_buffer_available() takes only what is free.
LEMMA CreditTaken ==
    ASSUME SdioCredit, D!is_sdio_write_buffer_available
    PROVE  SdioCredit'
<1>0. /\ TokenMax \in Nat \ {0} /\ BufCount \in Nat
      /\ token \in Rest(TokenMax) /\ tx_buffer_count \in Rest(TokenMax)
      /\ free \in 0 .. BufCount /\ buf_available \in Nat
  BY TokenRange, Zenon DEF Pos, SdioCredit
<1>1. /\ thread \in {"look", "again"}
      /\ sdio_state' = sdio_state /\ tx_buffer_count' = tx_buffer_count
      /\ token' = token /\ free' = free /\ overrun' = overrun /\ resynced' = resynced
  BY Zenon DEF D!is_sdio_write_buffer_available, D!drvVars, D!chipVars
<1>2. PICK available \in {D!Credit(buf_available), buf_available} :
         IF available >= 1
         THEN buf_available' = available - 1 /\ thread' = "write"
         ELSE buf_available' = available /\ thread' = IF thread = "look" THEN "again" ELSE "top"
  BY Zenon DEF D!is_sdio_write_buffer_available
<1>3. sdio_state \notin {"none", "disabled"}
  BY <1>1, Zenon DEF SdioCredit
<1>4. available \in Nat /\ (~resynced => available <= free)
  <2>1. SdioNum(token, tx_buffer_count) \in Nat
    BY <1>0, SdioNumIs DEF Rest
  <2>2. available = buf_available \/ available = SdioNum(token, tx_buffer_count)
    BY Zenon DEF D!Credit, SdioNum, D!esp_slave_get_tx_buffer_num
  <2>3. ~resynced => buf_available <= free /\ SdioNum(token, tx_buffer_count) = free
    BY <1>0, <1>1, <1>3 DEF SdioCredit, D!NeverOverrun
  <2> QED BY <1>0, <2>1, <2>2, <2>3
<1>5. thread' # "none" /\ buf_available' \in Nat
  BY <1>2, <1>4
<1>6. ~resynced' => D!NeverOverrun'
  <2>1. buf_available' + (IF thread' = "write" THEN 1 ELSE 0) = available
    BY <1>2, <1>4
  <2>2. ~resynced => ~overrun
    BY Zenon DEF SdioCredit, D!NeverOverrun
  <2> QED BY <1>1, <1>4, <2>1, <2>2, Zenon DEF D!NeverOverrun
<1> QED BY <1>0, <1>1, <1>3, <1>5, <1>6, Zenon DEF SdioCredit

\* esp_write_block() uses one free buffer, and counts it.
LEMMA BlockWritten ==
    ASSUME SdioCredit, D!esp_write_block
    PROVE  SdioCredit'
<1>0. /\ TokenMax \in Nat \ {0} /\ BufCount \in Nat \ {0} /\ BufCount + BufCount <= TokenMax
      /\ token \in Rest(TokenMax) /\ tx_buffer_count \in Rest(TokenMax)
      /\ free \in 0 .. BufCount /\ buf_available \in Nat
  BY TokenRange, Zenon DEF Pos, SdioCredit
<1>1. /\ thread = "write" /\ thread' = "top" /\ sdio_state' = sdio_state /\ token' = token
      /\ buf_available' = buf_available /\ resynced' = resynced
  BY Zenon DEF D!esp_write_block, D!drvVars
<1>2. sdio_state \notin {"none", "disabled"}
  BY <1>1, Zenon DEF SdioCredit
<1>3. ~resynced => /\ ~overrun /\ buf_available + 1 <= free
                   /\ SdioNum(token, tx_buffer_count) = free
  BY <1>1, <1>2, Zenon DEF SdioCredit, D!NeverOverrun
<1>4. CASE /\ overrun' = (overrun \/ free = 0)
           /\ free' = IF free = 0 THEN 0 ELSE free - 1
           /\ tx_buffer_count' = (tx_buffer_count + 1) % TokenMax
  <2>1. free' \in 0 .. BufCount
    BY <1>0, <1>4
  <2>2. /\ tx_buffer_count' \in Rest(TokenMax)
        /\ tx_buffer_count' = IF tx_buffer_count + 1 < TokenMax THEN tx_buffer_count + 1 ELSE 0
    BY <1>0, <1>4, TokenSucc, Zenon
  <2>3. /\ SdioNum(token, tx_buffer_count) = IF tx_buffer_count <= token THEN token - tx_buffer_count
                                             ELSE token - tx_buffer_count + TokenMax
        /\ SdioNum(token, tx_buffer_count') = IF tx_buffer_count' <= token THEN token - tx_buffer_count'
                                              ELSE token - tx_buffer_count' + TokenMax
    BY <1>0, <2>2, SdioNumIs, Zenon
  <2>4. ~resynced => SdioNum(token', tx_buffer_count') = free' /\ free # 0 /\ free' = free - 1
    <3>1. ~resynced => free # 0 /\ free' = free - 1 /\ SdioNum(token, tx_buffer_count) = free
      BY <1>0, <1>3, <1>4
    <3>2. /\ SdioNum(token, tx_buffer_count) # 0
            => SdioNum(token, tx_buffer_count') = SdioNum(token, tx_buffer_count) - 1
      BY <1>0, <2>2, <2>3 DEF Rest
    <3> QED BY <1>1, <3>1, <3>2, Zenon
  <2>5. ~resynced' => D!NeverOverrun'
    <3>1. ~resynced => ~overrun'
      BY <1>3, <1>4, <2>4, Zenon
    <3>2. ~resynced => buf_available' + 0 <= free'
      BY <1>0, <1>1, <1>3, <2>4
    <3> QED BY <1>1, <3>1, <3>2, Zenon DEF D!NeverOverrun
  <2> QED BY <1>0, <1>1, <1>2, <2>1, <2>2, <2>4, <2>5, ZenonT(30) DEF SdioCredit
<1>5. CASE UNCHANGED <<overrun, free, tx_buffer_count>>
  <2>1. ~resynced' => D!NeverOverrun'
    BY <1>0, <1>1, <1>3, <1>5 DEF D!NeverOverrun
  <2> QED BY <1>0, <1>1, <1>2, <1>3, <1>5, <2>1, ZenonT(30) DEF SdioCredit
<1> QED BY <1>4, <1>5, Zenon DEF D!esp_write_block

\* Every step of the SDIO transport and of the chip keeps the credit.
LEMMA CreditStep == SdioCredit /\ D!Next => SdioCredit'
<1> SUFFICES ASSUME SdioCredit, D!Next PROVE SdioCredit'
  BY Zenon
<1>0. /\ BufCount \in Nat /\ token \in Rest(TokenMax) /\ tx_buffer_count \in Rest(TokenMax)
      /\ free \in 0 .. BufCount /\ buf_available \in Nat /\ 0 \in Rest(TokenMax)
  BY TokenRange DEF Pos, Rest, SdioCredit
<1>1. CASE D!esp_probe
  <2>1. /\ sdio_state = "none" /\ thread = "none" /\ token' = token /\ free' = free
        /\ buf_available' = buf_available /\ overrun' = overrun
    BY <1>1, Zenon DEF D!esp_probe, D!chipVars, SdioCredit
  <2>2. CASE sdio_state' = "ready" /\ D!get_firmware_data /\ thread' = "top"
    BY <1>0, <2>1, <2>2, CountAnew, Zenon DEF SdioCredit, D!NeverOverrun
  <2>3. CASE UNCHANGED <<sdio_state, tx_buffer_count, resynced, thread>>
    BY <1>0, <2>1, <2>3, Zenon DEF SdioCredit, D!NeverOverrun
  <2> QED BY <1>1, <2>2, <2>3, Zenon DEF D!esp_probe
<1>2. CASE D!esp_resume
  <2>1. /\ sdio_state' = sdio_state /\ thread' = thread /\ token' = token /\ free' = free
        /\ buf_available' = buf_available /\ overrun' = overrun /\ D!get_firmware_data
    BY <1>2, Zenon DEF D!esp_resume, D!chipVars
  <2> QED BY <1>0, <2>1, CountAnew, Zenon DEF SdioCredit, D!NeverOverrun
<1>3. CASE D!WipeContext
  <2>1. /\ sdio_state = "disabled" /\ sdio_state' = "none" /\ thread' = thread
        /\ tx_buffer_count' = 0 /\ free' = BufCount /\ token' \in Rest(TokenMax)
        /\ buf_available' = buf_available /\ overrun' = overrun /\ resynced' = resynced
    BY <1>3, Zenon DEF D!WipeContext, Rest
  <2>2. thread = "none" /\ (~resynced => ~overrun /\ buf_available <= free)
    BY <1>0, <2>1 DEF SdioCredit, D!NeverOverrun
  <2> QED BY <1>0, <2>1, <2>2 DEF SdioCredit, D!NeverOverrun
<1>4. CASE D!esp_remove \/ D!StopThread \/ D!tx_process \/ D!esp_suspend
           \/ \E prio \in D!Prios, marked \in BOOLEAN : D!write_packet(prio, marked)
  <2>1. /\ token' = token /\ free' = free /\ tx_buffer_count' = tx_buffer_count
        /\ buf_available' = buf_available /\ overrun' = overrun /\ resynced' = resynced
    BY <1>4, Zenon DEF D!esp_remove, D!StopThread, D!tx_process, D!esp_suspend, D!write_packet, D!chipVars
  <2>2. \/ sdio_state' = sdio_state /\ thread' = thread
        \/ sdio_state = "ready" /\ sdio_state' = "init" /\ thread' = thread
        \/ thread = "top" /\ thread' = "none" /\ sdio_state = "init" /\ sdio_state' = "disabled"
        \/ thread = "top" /\ thread' = "look" /\ sdio_state' = sdio_state
    BY <1>4, Zenon DEF D!esp_remove, D!StopThread, D!tx_process, D!esp_suspend, D!write_packet, D!drvVars
  <2> QED BY <1>0, <2>1, <2>2, Zenon DEF SdioCredit, D!NeverOverrun
<1> QED BY <1>1, <1>2, <1>3, <1>4, ChipFreesStep, CreditTaken, BlockWritten, Zenon DEF D!Next

\* The inductive invariant of the SDIO queues: the counters tell their
\* contents, and a stopped network queue has a packet in the data queue.
SdioQueue ==
    /\ sdio_tx_q \in Queues /\ queue_items \in [1 .. 3 -> Nat] /\ sdio_tx_pending \in Nat
    /\ D!CountersTell
    /\ sdio_state = "none" => ~sdio_stopped
    /\ sdio_state = "ready" /\ ~unmarked =>
         /\ sdio_tx_q[1] \in Seq({FALSE}) /\ sdio_tx_q[2] \in Seq({FALSE})
         /\ sdio_tx_q[3] \in Seq({TRUE})
         /\ sdio_stopped => sdio_tx_q[3] # << >>

\* Emptying the queues keeps the invariant.
LEMMA SdioEmpty ==
    ASSUME sdio_tx_q' = D!Empty, queue_items' \in [1 .. 3 -> Nat], sdio_tx_pending' \in Nat,
           ~sdio_stopped' \/ sdio_state' \notin {"none", "ready"},
           sdio_state' = "ready" => queue_items' = [prio \in D!Prios |-> 0] /\ sdio_tx_pending' = 0
    PROVE  SdioQueue'
<1>1. D!Empty = [p \in 1 .. 3 |-> << >>] /\ D!Prios = 1 .. 3
  BY DEF D!Empty, D!Prios
<1>2. /\ sdio_tx_q' \in Queues /\ Sum(sdio_tx_q') = 0
      /\ \A p \in 1 .. 3 : sdio_tx_q'[p] = << >> /\ Len(sdio_tx_q'[p]) = 0 /\ \A S : sdio_tx_q'[p] \in Seq(S)
  BY <1>1, EmptyIs, Zenon
<1>3. D!CountersTell'
  <2>1. D!Queued' = Sum(sdio_tx_q')
    BY Zenon DEF D!Queued, Sum
  <2>2. sdio_state' = "ready" => \A p \in 1 .. 3 : queue_items'[p] = 0
    BY <1>1, Zenon
  <2>3. D!Prios' = 1 .. 3
    BY Zenon DEF D!Prios
  <2> QED BY <1>2, <2>1, <2>2, <2>3, Zenon DEF D!CountersTell
<1>4. sdio_tx_q'[1] \in Seq({FALSE}) /\ sdio_tx_q'[2] \in Seq({FALSE}) /\ sdio_tx_q'[3] \in Seq({TRUE})
  BY <1>2
<1> QED BY <1>2, <1>3, <1>4, Zenon DEF SdioQueue

\* Nothing is queued at the start.
LEMMA SdioInit == Init => SdioQueue
<1> SUFFICES ASSUME Init PROVE SdioQueue
  BY Zenon
<1>1. /\ sdio_tx_q = [p \in 1 .. 3 |-> << >>] /\ queue_items = [prio \in 1 .. 3 |-> 0]
      /\ sdio_tx_pending = 0 /\ sdio_stopped = FALSE /\ sdio_state = "none"
  BY Zenon DEF Init, D!Init, D!Empty, D!Prios
<1>2. sdio_tx_q \in Queues
  BY <1>1, EmptyIs, Zenon
<1> QED BY <1>1, <1>2, Zenon DEF SdioQueue, D!CountersTell

\* One more packet, one less: what the counters count follows.
LEMMA SumMoves ==
    ASSUME NEW q \in Queues, NEW r \in Queues, NEW prio \in 1 .. 3, NEW d \in {1, -1},
           Len(r[prio]) = Len(q[prio]) + d,
           \A p \in 1 .. 3 : p # prio => r[p] = q[p]
    PROVE  Sum(r) = Sum(q) + d
<1>0. \A p \in 1 .. 3 : Len(q[p]) \in Nat /\ Len(r[p]) \in Nat
  BY QueueSum, Zenon
<1>1. PICK a \in Nat, b \in Nat, c \in Nat : Len(q[1]) = a /\ Len(q[2]) = b /\ Len(q[3]) = c
  BY <1>0
<1>2. PICK x \in Nat, y \in Nat, z \in Nat : Len(r[1]) = x /\ Len(r[2]) = y /\ Len(r[3]) = z
  BY <1>0
<1>3. \/ x = a + d /\ y = b /\ z = c
      \/ x = a /\ y = b + d /\ z = c
      \/ x = a /\ y = b /\ z = c + d
  BY <1>1, <1>2
<1>4. x + y + z = a + b + c + d
  BY <1>3
<1>5. Sum(q) = a + b + c /\ Sum(r) = x + y + z
  BY <1>1, <1>2, Zenon DEF Sum
<1> QED BY <1>4, <1>5, Zenon

\* write_packet() queues and counts.
LEMMA SdioWrite ==
    ASSUME SdioQueue, NEW prio \in 1 .. 3, NEW marked \in BOOLEAN, D!write_packet(prio, marked)
    PROVE  SdioQueue'
<1>0. /\ sdio_tx_q \in Queues /\ queue_items \in [1 .. 3 -> Nat] /\ sdio_tx_pending \in Nat
      /\ sdio_state' = sdio_state /\ sdio_state # "none"
      /\ (IF prio = 3 THEN ~sdio_stopped ELSE ~marked)
  BY Zenon DEF SdioQueue, D!write_packet, D!drvVars
<1>1. CASE marked /\ sdio_tx_pending >= MaxPending
  <2>1. /\ sdio_tx_q' = sdio_tx_q /\ queue_items' = queue_items /\ sdio_tx_pending' = sdio_tx_pending
        /\ (~unmarked' => ~unmarked /\ sdio_tx_q[3] # << >>)
    BY <1>1, Zenon DEF D!write_packet
  <2>2. D!CountersTell'
    BY <1>0, <2>1, Zenon DEF SdioQueue, D!CountersTell, D!Queued, D!Prios
  <2> QED BY <1>0, <2>1, <2>2, Zenon DEF SdioQueue
<1>2. CASE ~(marked /\ sdio_tx_pending >= MaxPending)
  <2>1. /\ sdio_tx_q' = [sdio_tx_q EXCEPT ![prio] = Append(@, marked)]
        /\ queue_items' = [queue_items EXCEPT ![prio] = @ + 1]
        /\ sdio_tx_pending' = sdio_tx_pending + 1
        /\ (~unmarked' => ~unmarked /\ (prio = 3 => marked))
        /\ sdio_stopped' = sdio_stopped
    BY <1>2, Zenon DEF D!write_packet
  <2>2. sdio_tx_q' = Added(sdio_tx_q, prio, marked) /\ marked \in Marks
    BY <2>1, Zenon DEF Added, Marks
  <2>3. /\ sdio_tx_q' \in Queues /\ Len(sdio_tx_q'[prio]) = Len(sdio_tx_q[prio]) + 1
        /\ \A p \in 1 .. 3 : p # prio => sdio_tx_q'[p] = sdio_tx_q[p]
        /\ \A S : marked \in S /\ sdio_tx_q[prio] \in Seq(S) => sdio_tx_q'[prio] \in Seq(S)
    BY <1>0, <2>2, AppendAt, Zenon
  <2>4. queue_items' \in [1 .. 3 -> Nat] /\ sdio_tx_pending' \in Nat
    BY <1>0, <2>1
  <2>5. D!CountersTell'
    <3> SUFFICES ASSUME sdio_state = "ready"
                 PROVE  /\ \A p \in 1 .. 3 : queue_items'[p] = Len(sdio_tx_q'[p])
                        /\ sdio_tx_pending' = Sum(sdio_tx_q')
      BY <1>0, Zenon DEF D!CountersTell, D!Prios, D!Queued, Sum
    <3>1. (\A p \in 1 .. 3 : queue_items[p] = Len(sdio_tx_q[p])) /\ sdio_tx_pending = Sum(sdio_tx_q)
      BY Zenon DEF SdioQueue, D!CountersTell, D!Prios, D!Queued, Sum
    <3>2. Sum(sdio_tx_q') = Sum(sdio_tx_q) + 1
      BY <1>0, <2>3, SumMoves, Zenon
    <3>3. \A p \in 1 .. 3 : queue_items'[p] = IF p = prio THEN queue_items[p] + 1 ELSE queue_items[p]
      BY <1>0, <2>1
    <3>4. \A p \in 1 .. 3 : queue_items'[p] = Len(sdio_tx_q'[p])
      BY <2>3, <3>1, <3>3, Zenon
    <3> QED BY <2>1, <3>1, <3>2, <3>4, Zenon
  <2>6. ASSUME sdio_state = "ready", ~unmarked'
        PROVE  /\ sdio_tx_q'[1] \in Seq({FALSE}) /\ sdio_tx_q'[2] \in Seq({FALSE})
               /\ sdio_tx_q'[3] \in Seq({TRUE})
    <3>1. /\ sdio_tx_q[1] \in Seq({FALSE}) /\ sdio_tx_q[2] \in Seq({FALSE})
          /\ sdio_tx_q[3] \in Seq({TRUE}) /\ (prio = 3 => marked)
      BY <2>1, <2>6, Zenon DEF SdioQueue
    <3>2. (prio = 3 => marked \in {TRUE}) /\ (prio # 3 => marked \in {FALSE})
      BY <1>0, <3>1, Zenon
    <3>3. ASSUME NEW p \in 1 .. 3, NEW S, sdio_tx_q[p] \in Seq(S), p = prio => marked \in S
          PROVE  sdio_tx_q'[p] \in Seq(S)
      BY <2>3, <3>3, Zenon
    <3>4. 1 \in 1 .. 3 /\ 2 \in 1 .. 3 /\ 3 \in 1 .. 3 /\ 1 # 3 /\ 2 # 3
      OBVIOUS
    <3> QED BY <3>1, <3>2, <3>3, <3>4, Zenon
  <2>7. ASSUME sdio_state = "ready", ~unmarked', sdio_stopped'
        PROVE  sdio_tx_q'[3] # << >>
    <3>1. sdio_tx_q[3] # << >> /\ prio # 3
      BY <1>0, <2>1, <2>7, Zenon DEF SdioQueue
    <3>2. sdio_tx_q'[3] = sdio_tx_q[3]
      BY <2>3, <3>1
    <3> QED BY <3>1, <3>2, Zenon
  <2> QED BY <1>0, <2>3, <2>4, <2>5, <2>6, <2>7, Zenon DEF SdioQueue
<1> QED BY <1>1, <1>2, Zenon

\* tx_process() takes a packet, uncounts it and wakes the network queue at the
\* threshold.
LEMMA SdioTake ==
    ASSUME SdioQueue, D!tx_process
    PROVE  SdioQueue'
<1>0. /\ sdio_tx_q \in Queues /\ queue_items \in [1 .. 3 -> Nat] /\ sdio_tx_pending \in Nat
      /\ sdio_state' = sdio_state /\ sdio_state = "ready" /\ unmarked' = unmarked
      /\ ResumeThreshold \in Nat \ {0}
  BY BusesAssumption DEF SdioQueue, D!tx_process, D!drvVars
<1>1. /\ \A p \in 1 .. 3 : queue_items[p] = Len(sdio_tx_q[p])
      /\ sdio_tx_pending = Sum(sdio_tx_q)
  BY <1>0, Zenon DEF SdioQueue, D!CountersTell, D!Prios, D!Queued, Sum
<1>2. PICK prio \in 1 .. 3 :
         /\ queue_items[prio] > 0 /\ \A p \in 1 .. prio - 1 : queue_items[p] = 0
         /\ sdio_tx_q[prio] # << >>
         /\ D!Dequeue(prio)
  BY Zenon DEF D!tx_process, D!Prios
<1>3. /\ sdio_tx_q' = Taken(sdio_tx_q, prio)
      /\ queue_items' = [queue_items EXCEPT ![prio] = @ - 1]
      /\ sdio_tx_pending' = IF sdio_tx_pending > 0 THEN sdio_tx_pending - 1 ELSE 0
  BY <1>2, Zenon DEF D!Dequeue, Taken
<1>12. sdio_stopped' => sdio_stopped /\ ~(Head(sdio_tx_q[prio]) /\ sdio_tx_pending' < ResumeThreshold)
  BY <1>2, Zenon DEF D!Dequeue
<1>13. /\ queue_items[prio] > 0 /\ \A p \in 1 .. prio - 1 : queue_items[p] = 0
       /\ sdio_tx_q[prio] # << >>
  BY <1>2, Zenon
<1>4. /\ sdio_tx_q' \in Queues /\ Len(sdio_tx_q[prio]) \in Nat \ {0}
      /\ Len(sdio_tx_q'[prio]) = Len(sdio_tx_q[prio]) - 1
      /\ \A p \in 1 .. 3 : p # prio => sdio_tx_q'[p] = sdio_tx_q[p]
      /\ \A S : sdio_tx_q[prio] \in Seq(S) => sdio_tx_q'[prio] \in Seq(S) /\ Head(sdio_tx_q[prio]) \in S
  BY <1>0, <1>3, <1>13, TailAt, Zenon
<1>5. Sum(sdio_tx_q') = Sum(sdio_tx_q) - 1 /\ Sum(sdio_tx_q') \in Nat
  <2>1. Len(sdio_tx_q'[prio]) = Len(sdio_tx_q[prio]) + -1
    BY <1>4, Zenon
  <2>2. Sum(sdio_tx_q') = Sum(sdio_tx_q) + -1
    BY <1>0, <1>4, <2>1, SumMoves, Zenon
  <2>3. Sum(sdio_tx_q') \in Nat /\ Sum(sdio_tx_q) \in Nat
    BY <1>0, <1>4, QueueSum, Zenon
  <2> QED BY <2>2, <2>3, Zenon
<1>6. sdio_tx_pending' = Sum(sdio_tx_q')
  BY <1>0, <1>1, <1>3, <1>5
<1>7. /\ queue_items' \in [1 .. 3 -> Nat]
      /\ \A p \in 1 .. 3 : queue_items'[p] = Len(sdio_tx_q'[p])
  <2>1. \A p \in 1 .. 3 : queue_items'[p] = IF p = prio THEN queue_items[p] - 1 ELSE queue_items[p]
    BY <1>0, <1>3, Zenon
  <2>2. queue_items' \in [1 .. 3 -> Nat]
    BY <1>0, <1>3, <1>13
  <2> QED BY <1>1, <1>4, <2>1, <2>2, Zenon
<1>8. D!CountersTell'
  BY <1>6, <1>7, Zenon DEF D!CountersTell, D!Prios, D!Queued, Sum
<1>9. ASSUME ~unmarked
      PROVE  /\ sdio_tx_q'[1] \in Seq({FALSE}) /\ sdio_tx_q'[2] \in Seq({FALSE})
             /\ sdio_tx_q'[3] \in Seq({TRUE})
             /\ prio = 3 => Head(sdio_tx_q[prio]) \in {TRUE}
  <2>1. /\ sdio_tx_q[1] \in Seq({FALSE}) /\ sdio_tx_q[2] \in Seq({FALSE})
        /\ sdio_tx_q[3] \in Seq({TRUE})
    BY <1>0, <1>9, Zenon DEF SdioQueue
  <2>2. \A p \in 1 .. 3 : \A S : sdio_tx_q[p] \in Seq(S) => sdio_tx_q'[p] \in Seq(S)
    BY <1>4, Zenon
  <2>3. 1 \in 1 .. 3 /\ 2 \in 1 .. 3 /\ 3 \in 1 .. 3
    OBVIOUS
  <2> QED BY <1>4, <2>1, <2>2, <2>3, Zenon
<1>10. ASSUME ~unmarked, sdio_stopped' PROVE sdio_tx_q'[3] # << >>
  <2>1. sdio_tx_q[3] # << >>
    BY <1>0, <1>10, <1>12, Zenon DEF SdioQueue
  <2>2. CASE prio = 3
    <3>1. ~(sdio_tx_pending' < ResumeThreshold)
      BY <1>9, <1>10, <1>12, <2>2, Zenon
    <3>2. Len(sdio_tx_q'[1]) = 0 /\ Len(sdio_tx_q'[2]) = 0
      BY <1>1, <1>4, <1>13, <2>2
    <3>3. PICK n \in Nat : Len(sdio_tx_q'[3]) = n /\ (n = 0 <=> sdio_tx_q'[3] = << >>)
      BY <1>4, QueueSum
    <3>4. Sum(sdio_tx_q') = 0 + 0 + n
      BY <3>2, <3>3, Zenon DEF Sum
    <3>5. n # 0
      BY <1>0, <1>6, <3>1, <3>4
    <3> QED BY <3>3, <3>5, Zenon
  <2>3. CASE prio # 3
    BY <1>4, <2>1, <2>3
  <2> QED BY <2>2, <2>3, Zenon
<1>11. sdio_tx_pending' \in Nat
  BY <1>5, <1>6, Zenon
<1> QED BY <1>0, <1>4, <1>7, <1>8, <1>9, <1>10, <1>11, ZenonT(30) DEF SdioQueue

\* Every step of the SDIO transport keeps the queues' invariant.
LEMMA SdioStep == SdioQueue /\ D!Next => SdioQueue'
<1> SUFFICES ASSUME SdioQueue, D!Next PROVE SdioQueue'
  BY Zenon
<1>0. /\ sdio_tx_q \in Queues /\ queue_items \in [1 .. 3 -> Nat] /\ sdio_tx_pending \in Nat
      /\ D!Prios = 1 .. 3
  BY Zenon DEF SdioQueue, D!Prios
<1>1. CASE D!esp_probe
  <2>1. sdio_state = "none" /\ sdio_stopped' = sdio_stopped /\ sdio_tx_pending' = 0 /\ ~sdio_stopped
    BY <1>1, Zenon DEF D!esp_probe, SdioQueue
  <2>2. CASE sdio_state' = "ready" /\ sdio_tx_q' = D!Empty /\ queue_items' = [prio \in D!Prios |-> 0]
    <3>1. queue_items' \in [1 .. 3 -> Nat]
      BY <1>0, <2>2, Zenon
    <3> QED BY <2>1, <2>2, <3>1, SdioEmpty, Zenon
  <2>3. CASE UNCHANGED <<sdio_state, sdio_tx_q, queue_items>>
    BY <1>0, <2>1, <2>3, Zenon DEF SdioQueue, D!CountersTell
  <2> QED BY <1>1, <2>2, <2>3, Zenon DEF D!esp_probe
<1>2. CASE D!esp_remove
  <2>1. /\ sdio_state' = "init" /\ sdio_tx_q' = D!Empty /\ queue_items' = queue_items
        /\ sdio_tx_pending' = sdio_tx_pending
    BY <1>2, Zenon DEF D!esp_remove
  <2> QED BY <1>0, <2>1, SdioEmpty, Zenon
<1>3. CASE D!WipeContext
  <2>1. /\ sdio_state' = "none" /\ sdio_tx_q' = D!Empty /\ queue_items' = queue_items
        /\ sdio_tx_pending' = sdio_tx_pending /\ ~sdio_stopped'
    BY <1>3, Zenon DEF D!WipeContext
  <2> QED BY <1>0, <2>1, SdioEmpty, Zenon
<1>4. CASE D!StopThread
  <2>1. /\ sdio_state' = "disabled" /\ sdio_tx_q' = sdio_tx_q /\ queue_items' = queue_items
        /\ sdio_tx_pending' = sdio_tx_pending
    BY <1>4, Zenon DEF D!StopThread, D!qVars
  <2> QED BY <1>0, <2>1, Zenon DEF SdioQueue, D!CountersTell
<1>5. CASE D!ChipFrees \/ D!esp_suspend \/ D!esp_resume \/ D!is_sdio_write_buffer_available
           \/ D!esp_write_block
  <2>1. /\ sdio_state' = sdio_state /\ sdio_tx_q' = sdio_tx_q /\ queue_items' = queue_items
        /\ sdio_tx_pending' = sdio_tx_pending /\ sdio_stopped' = sdio_stopped
        /\ unmarked' = unmarked
    BY <1>5, Zenon DEF D!ChipFrees, D!esp_suspend, D!esp_resume, D!is_sdio_write_buffer_available,
                D!esp_write_block, D!qVars, D!drvVars
  <2> QED BY <2>1, Zenon DEF SdioQueue, D!CountersTell, D!Queued, D!Prios
<1>6. ASSUME NEW prio \in D!Prios, NEW marked \in BOOLEAN, D!write_packet(prio, marked)
      PROVE  SdioQueue'
  BY <1>0, <1>6, SdioWrite, Zenon
<1> QED BY <1>1, <1>2, <1>3, <1>4, <1>5, <1>6, SdioTake, Zenon DEF D!Next

\* Both invariants of SdioTx hold in every behaviour.
LEMMA SdioAlways == Spec => [](SdioQueue /\ SdioCredit)
<1>1. SdioQueue /\ SdioCredit /\ [Next]_vars => (SdioQueue /\ SdioCredit)'
  <2> SUFFICES ASSUME SdioQueue, SdioCredit, [Next]_vars PROVE SdioQueue' /\ SdioCredit'
    BY Zenon
  <2>1. CASE D!Next
    BY <2>1, SdioStep, CreditStep, Zenon
  <2>2. CASE UNCHANGED sdioVars
    <3>1. /\ sdio_state' = sdio_state /\ sdio_tx_q' = sdio_tx_q /\ queue_items' = queue_items
          /\ sdio_tx_pending' = sdio_tx_pending /\ sdio_stopped' = sdio_stopped
          /\ unmarked' = unmarked
      BY <2>2, Zenon DEF sdioVars
    <3>2. /\ thread' = thread /\ token' = token /\ free' = free /\ overrun' = overrun
          /\ tx_buffer_count' = tx_buffer_count /\ buf_available' = buf_available
          /\ resynced' = resynced
      BY <2>2 DEF sdioVars
    <3>3. SdioQueue'
      BY <3>1, Zenon DEF SdioQueue, D!CountersTell, D!Queued, D!Prios
    <3>4. SdioCredit'
      BY <3>1, <3>2, Zenon DEF SdioCredit, D!NeverOverrun
    <3> QED BY <3>3, <3>4, Zenon
  <2> QED BY <2>1, <2>2, Zenon DEF Next, vars
<1> QED BY SdioInit, CreditInit, <1>1, PTL DEF Spec

\* Until get_firmware_data() counts anew too early, tx_process() never writes
\* to the chip without a free buffer and a look at the token sees all that are
\* free; and the item counters and the pending counter tell what the queues
\* hold, whatever the wrap of the token and the count.
THEOREM SdioNeverOverruns == Spec => []NeverOverrun
<1>1. SdioQueue /\ SdioCredit => NeverOverrun
  <2> SUFFICES ASSUME SdioQueue, SdioCredit PROVE NeverOverrun
    BY Zenon
  <2>1. D!NeverOverrun
    BY Zenon DEF SdioCredit, D!NeverOverrun
  <2>2. D!CreditIsSeen
    BY Zenon DEF SdioCredit, D!CreditIsSeen, D!esp_slave_get_tx_buffer_num, SdioNum
  <2>3. D!CountersTell
    BY Zenon DEF SdioQueue
  <2> QED BY <2>1, <2>2, <2>3, Zenon DEF NeverOverrun
<1> QED BY <1>1, SdioAlways, PTL

\* Over SPI a queued packet always has a run of the work to come, and over both
\* buses a stopped network queue always has a queued packet whose transmission
\* starts it again; until packets that do not name their interface, or a
\* wrong tx_pending, are about (uncounted over SPI, unmarked over SDIO).
THEOREM TxNothingStalls == Spec => []NothingStalls
<1>1. SdioQueue => D!SdioStoppedHasWaker
  <2> SUFFICES ASSUME SdioQueue, sdio_stopped, sdio_state = "ready", ~unmarked
               PROVE  \E i \in DOMAIN sdio_tx_q[3] : sdio_tx_q[3][i]
    BY Zenon DEF D!SdioStoppedHasWaker
  <2>1. sdio_tx_q[3] # << >> /\ sdio_tx_q[3] \in Seq({TRUE})
    BY Zenon DEF SdioQueue
  <2> DEFINE q == sdio_tx_q[3]
  <2> HIDE DEF q
  <2>2. \A S : q \in Seq(S) /\ q # << >> => 1 \in DOMAIN q /\ q[1] \in S
    OBVIOUS
  <2>3. 1 \in DOMAIN q /\ q[1] \in {TRUE}
    BY <2>1, <2>2, Zenon DEF q
  <2>4. q[1]
    BY <2>3, Zenon
  <2> QED BY <2>3, <2>4, Zenon DEF q
<1>2. SpiInv /\ SdioQueue => NothingStalls
  BY <1>1, SpiRuns, Zenon DEF NothingStalls
<1> QED BY <1>2, SpiAlways, SdioAlways, PTL
=============================================================================
