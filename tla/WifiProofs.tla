----------------------------- MODULE WifiProofs -----------------------------
(***************************************************************************)
(* The Wi-Fi driver's command queue and its transmit path are correct for  *)
(* any number of nodes, command codes and buffers and any width of the     *)
(* counters: CmdInv is inductive for CmdQueue and TxInv for ShmemTx, and   *)
(* the properties the runs check follow from them.                         *)
(***************************************************************************)
EXTENDS MCWifi, FiniteSetTheorems, TLAPS

-----------------------------------------------------------------------------
(* Lists without repetition *)

\* Taking the first entry of a list without repetition leaves the others, each
\* once.
LEMMA TakeFirst ==
    ASSUME NEW S, NEW s \in Seq(S), s # << >>
    PROVE  /\ Head(s) \in S /\ Head(s) \in Range(s)
           /\ Tail(s) \in Seq(S)
           /\ IsInjective(s) => /\ Range(Tail(s)) = Range(s) \ {Head(s)}
                                /\ IsInjective(Tail(s))
<1>1. /\ Len(s) \in Nat \ {0} /\ DOMAIN s = 1 .. Len(s) /\ Head(s) = s[1]
      /\ \A k \in 1 .. Len(s) : s[k] \in S
  OBVIOUS
<1>2. /\ Tail(s) \in Seq(S) /\ DOMAIN Tail(s) = 1 .. Len(s) - 1
      /\ \A k \in 1 .. Len(s) - 1 : Tail(s)[k] = s[k + 1]
  OBVIOUS
<1> DEFINE t == Tail(s)
           h == Head(s)
<1> HIDE DEF t, h
<1>3. ASSUME IsInjective(s)
      PROVE  Range(t) = Range(s) \ {h} /\ IsInjective(t)
  <2>1. \A k \in 1 .. Len(s) - 1 : k + 1 \in 1 .. Len(s) /\ k + 1 # 1
    BY <1>1
  <2>2. \A k \in 1 .. Len(s) : k # 1 => k - 1 \in 1 .. Len(s) - 1 /\ (k - 1) + 1 = k
    BY <1>1
  <2>3. IsInjective(t)
    BY <1>1, <1>2, <1>3, <2>1 DEF IsInjective, t
  <2>4. ASSUME NEW x \in Range(t) PROVE x \in Range(s) \ {h}
    <3>1. PICK k \in 1 .. Len(s) - 1 : x = s[k + 1]
      BY <1>2, <2>4, Zenon DEF Range, t
    <3>2. x \in Range(s)
      BY <3>1, <2>1, <1>1, Zenon DEF Range
    <3>3. x # s[1]
      BY <3>1, <2>1, <1>1, <1>3 DEF IsInjective
    <3> QED BY <3>2, <3>3, <1>1, Zenon DEF h
  <2>5. ASSUME NEW x \in Range(s) \ {h} PROVE x \in Range(t)
    <3>1. PICK k \in 1 .. Len(s) : x = s[k]
      BY <1>1, <2>5, Zenon DEF Range
    <3>2. k # 1
      BY <3>1, <1>1, <2>5, Zenon DEF h
    <3>3. x = t[k - 1] /\ k - 1 \in DOMAIN t
      BY <3>1, <3>2, <2>2, <1>2, Zenon DEF t
    <3> QED BY <3>3, Zenon DEF Range
  <2> QED BY <2>3, <2>4, <2>5, Zenon
<1> QED BY <1>1, <1>2, <1>3 DEF Range, t, h

\* Adding to a list what is not in it keeps it without repetition.
LEMMA AddLast ==
    ASSUME NEW S, NEW s \in Seq(S), NEW e \in S
    PROVE  /\ Append(s, e) \in Seq(S)
           /\ Append(s, e) # << >>
           /\ Range(Append(s, e)) = Range(s) \cup {e}
           /\ IsInjective(s) /\ e \notin Range(s) => IsInjective(Append(s, e))
<1> DEFINE t == Append(s, e)
<1>1. Len(s) \in Nat /\ DOMAIN s = 1 .. Len(s)
  OBVIOUS
<1>2. /\ t \in Seq(S) /\ t # << >> /\ DOMAIN t = 1 .. Len(s) + 1
      /\ t[Len(s) + 1] = e /\ \A k \in 1 .. Len(s) : t[k] = s[k]
  OBVIOUS
<1> HIDE DEF t
<1>3. 1 .. Len(s) + 1 = (1 .. Len(s)) \cup {Len(s) + 1} /\ Len(s) + 1 \notin 1 .. Len(s)
  BY <1>1
<1>4. Range(t) = Range(s) \cup {e}
  <2>1. ASSUME NEW x \in Range(t) PROVE x \in Range(s) \cup {e}
    <3>1. PICK k \in 1 .. Len(s) + 1 : x = t[k]
      BY <2>1, <1>2, Zenon DEF Range
    <3> QED BY <3>1, <1>1, <1>2, <1>3, Zenon DEF Range
  <2>2. ASSUME NEW x \in Range(s) \cup {e} PROVE x \in Range(t)
    <3>1. ASSUME x = e PROVE x \in Range(t)
      BY <3>1, <1>2, <1>3, Zenon DEF Range
    <3>2. ASSUME x \in Range(s) PROVE x \in Range(t)
      <4>1. PICK k \in 1 .. Len(s) : x = s[k]
        BY <3>2, <1>1, Zenon DEF Range
      <4> QED BY <4>1, <1>2, <1>3, Zenon DEF Range
    <3> QED BY <2>2, <3>1, <3>2, Zenon
  <2> QED BY <2>1, <2>2, Zenon
<1>5. ASSUME IsInjective(s), e \notin Range(s) PROVE IsInjective(t)
  <2>1. \A k \in 1 .. Len(s) : s[k] # e
    BY <1>1, <1>5, Zenon DEF Range
  <2> QED BY <1>1, <1>2, <1>3, <1>5, <2>1 DEF IsInjective
<1> QED BY <1>2, <1>4, <1>5, Zenon DEF t

\* list_del_init() takes its node out of a list and nothing else, whether or
\* not it is there.
LEMMA Unlink ==
    ASSUME NEW S, NEW s \in Seq(S), IsInjective(s), NEW n
    PROVE  /\ list_del_init(s, n) \in Seq(S)
           /\ IsInjective(list_del_init(s, n))
           /\ Range(list_del_init(s, n)) = Range(s) \ {n}
           /\ s = << >> => list_del_init(s, n) = << >>
<1>1. Len(s) \in Nat /\ DOMAIN s = 1 .. Len(s) /\ \A k \in 1 .. Len(s) : s[k] \in S
  OBVIOUS
<1>2. CASE n \notin Range(s)
  BY <1>2, Zenon DEF list_del_init
<1>3. CASE n \in Range(s)
  <2> DEFINE at == CHOOSE i \in DOMAIN s : s[i] = n
             t == [k \in 1 .. Len(s) - 1 |-> IF k < at THEN s[k] ELSE s[k + 1]]
             up(k) == IF k < at THEN k ELSE k + 1
  <2>1. at \in 1 .. Len(s) /\ s[at] = n
    BY <1>1, <1>3, Zenon DEF Range
  <2>2. list_del_init(s, n) = t
    BY <1>3, Zenon DEF list_del_init
  <2> HIDE DEF at
  <2>3. \A k \in 1 .. Len(s) - 1 : up(k) \in 1 .. Len(s) /\ up(k) # at
    BY <1>1, <2>1
  <2>4. \A k \in 1 .. Len(s) - 1 : t[k] = s[up(k)]
    BY Zenon
  <2>5. \A j, k \in 1 .. Len(s) - 1 : up(j) = up(k) => j = k
    BY <1>1, <2>1
  <2>6. \A i \in 1 .. Len(s) : i # at => \E k \in 1 .. Len(s) - 1 : up(k) = i
    <3> SUFFICES ASSUME NEW i \in 1 .. Len(s), i # at PROVE \E k \in 1 .. Len(s) - 1 : up(k) = i
      BY Zenon
    <3>1. CASE i < at
      <4>1. i \in 1 .. Len(s) - 1 /\ up(i) = i
        BY <3>1, <1>1, <2>1
      <4> QED BY <4>1, Zenon
    <3>2. CASE i > at
      <4>1. i - 1 \in 1 .. Len(s) - 1 /\ up(i - 1) = i
        BY <3>2, <1>1, <2>1
      <4> QED BY <4>1, Zenon
    <3> QED BY <3>1, <3>2, <1>1, <2>1
  <2>7. t \in Seq(S) /\ DOMAIN t = 1 .. Len(s) - 1
    <3>1. Len(s) - 1 \in Nat
      BY <1>1, <2>1
    <3>2. t \in [1 .. Len(s) - 1 -> S]
      BY <1>1, <2>3, <2>4, Zenon
    <3> QED BY <3>1, <3>2
  <2> HIDE DEF t, up
  <2>8. IsInjective(t)
    <3>1. \A j, k \in 1 .. Len(s) - 1 : s[up(j)] = s[up(k)] => up(j) = up(k)
      BY <1>1, <2>3, Zenon DEF IsInjective
    <3> QED BY <2>4, <2>5, <2>7, <3>1 DEF IsInjective
  <2>9. Range(t) = Range(s) \ {n}
    <3>1. ASSUME NEW x \in Range(t) PROVE x \in Range(s) \ {n}
      <4>1. PICK k \in 1 .. Len(s) - 1 : x = s[up(k)]
        BY <2>4, <2>7, <3>1, Zenon DEF Range
      <4>2. x # s[at]
        BY <4>1, <2>1, <2>3, <1>1, Zenon DEF IsInjective
      <4> QED BY <4>1, <4>2, <2>1, <2>3, <1>1, Zenon DEF Range
    <3>2. ASSUME NEW x \in Range(s) \ {n} PROVE x \in Range(t)
      <4>1. PICK i \in 1 .. Len(s) : x = s[i]
        BY <1>1, <3>2, Zenon DEF Range
      <4>2. i # at
        BY <4>1, <2>1, <3>2, Zenon
      <4>3. PICK k \in 1 .. Len(s) - 1 : up(k) = i
        BY <4>2, <2>6, Zenon
      <4> QED BY <4>1, <4>3, <2>4, <2>7, Zenon DEF Range
    <3> QED BY <3>1, <3>2, Zenon
  <2> QED BY <1>1, <2>1, <2>2, <2>7, <2>8, <2>9
<1> QED BY <1>2, <1>3, Zenon
-----------------------------------------------------------------------------
(* The command queue *)

\* The types of CmdQueue's variables, and the ghosts: a request that was never
\* sent is one its caller gives up.
CmdTypeOK ==
    /\ cmd_free_queue \in Seq(Nodes) /\ cmd_pending_queue \in Seq(Nodes)
    /\ cmd_code \in [Nodes -> Codes \cup {None}]
    /\ resp_skb \in [Nodes -> Codes \cup {None}]
    /\ cur_cmd \in Nodes \cup {None}
    /\ cmd_resp \in Codes \cup {None}
    /\ waiting \in [Codes -> Nodes \cup {None}]
    /\ woken \subseteq Waiters
    /\ inflight \in Seq(Codes \cup {None})
    /\ unsent \in BOOLEAN /\ abandoned \in BOOLEAN
    /\ unsent => abandoned

\* What process_cmd_resp relies on while nobody has given up: at most one request is
\* on the wire, that of the current command, and none once it is answered.
OneOnWire ==
    /\ cur_cmd = None => inflight = << >> /\ cmd_resp = None
    /\ cur_cmd # None => inflight \in {<< >>, <<cmd_code[cur_cmd]>>}
    /\ cmd_resp # None => inflight = << >> /\ cmd_resp = cmd_code[cur_cmd]
    /\ \A n \in Range(cmd_free_queue) : resp_skb[n] = None
    /\ \A n \in Nodes : resp_skb[n] # None => resp_skb[n] = cmd_code[n]


\* A node is free exactly when no caller waits for it.
Accounted ==
    \A n \in Nodes : n \in Range(cmd_free_queue) <=> \A c \in Codes : waiting[c] # n

\* What holds of the pool until the transport refuses a request.
Lent ==
    /\ Accounted
    /\ \A c, d \in Waiters : waiting[c] = waiting[d] => c = d
    /\ \A c \in Waiters : cmd_code[waiting[c]] = c
    /\ cur_cmd # None => cur_cmd \notin Range(cmd_free_queue)
    /\ WorkerRearmed

\* This is what PoolAccounted says.
LEMMA LentIs == PoolAccounted <=> NoBigamy /\ (~unsent => Lent)
BY Zenon DEF PoolAccounted, Lent, Accounted

\* The inductive invariant of the command queue.
CmdInv == CmdTypeOK /\ NoBigamy /\ (~unsent => Lent) /\ (~abandoned => OneOnWire)

\* The pool starts with every node free, once.
LEMMA CmdInit == Init => CmdInv
<1> SUFFICES ASSUME Init PROVE CmdInv
  BY Zenon
<1> DEFINE N == Cardinality(Nodes)
<1>1. N \in Nat /\ ExistsBijection(1 .. N, Nodes)
  BY FS_CardinalityType, CmdAssumption, Zenon
<1>2. \E s \in [1 .. N -> Nodes] : IsInjective(s)
  BY <1>1, Zenon DEF ExistsBijection, Bijection, Injection
<1>3. cmd_free_queue \in [1 .. N -> Nodes] /\ IsInjective(cmd_free_queue)
  BY <1>2, Zenon DEF Init
<1>4. IsFiniteSet(1 .. N) /\ Cardinality(1 .. N) = N
  <2>1. 1 \in Int /\ N \in Int
    BY <1>1
  <2>2. /\ IsFiniteSet(1 .. N)
        /\ Cardinality(1 .. N) = IF 1 > N THEN 0 ELSE N - 1 + 1
    BY <2>1, FS_Interval, Zenon
  <2> HIDE DEF N
  <2> QED BY <1>1, <2>2
<1>5. cmd_free_queue \in Surjection(1 .. N, Nodes)
  BY <1>3, <1>4, FS_Injection, CmdAssumption, Zenon DEF Injection
<1>6. cmd_free_queue \in Seq(Nodes) /\ Range(cmd_free_queue) = Nodes
  BY <1>1, <1>3, <1>5 DEF Surjection, Range
<1>7. Range(<< >>) = {} /\ IsInjective(<< >>)
  BY DEF Range, IsInjective
<1>8. /\ cmd_pending_queue = << >> /\ inflight = << >> /\ woken = {}
      /\ cmd_code = [n \in Nodes |-> None] /\ resp_skb = [n \in Nodes |-> None]
      /\ waiting = [c \in Codes |-> None]
      /\ cur_cmd = None /\ cmd_resp = None /\ abandoned = FALSE /\ unsent = FALSE
  BY Zenon DEF Init
<1>9. CmdTypeOK
  <2>1. /\ cmd_code \in [Nodes -> Codes \cup {None}]
        /\ resp_skb \in [Nodes -> Codes \cup {None}]
        /\ waiting \in [Codes -> Nodes \cup {None}]
    BY <1>8, Zenon
  <2>2. cmd_pending_queue \in Seq(Nodes) /\ inflight \in Seq(Codes \cup {None})
    BY <1>8
  <2> QED BY <1>6, <1>8, <2>1, <2>2, Zenon DEF CmdTypeOK
<1>10. NoBigamy
  BY <1>3, <1>7, <1>8, Zenon DEF NoBigamy
<1>11. Lent
  BY <1>6, <1>8, CmdAssumption, Zenon DEF Lent, Accounted, WorkerRearmed, Waiters
<1>12. OneOnWire
  BY <1>6, <1>8, Zenon DEF OneOnWire
<1> QED BY <1>9, <1>10, <1>11, <1>12, Zenon DEF CmdInv

\* Getting a node, queueing it and waiting keeps the invariant.
LEMMA RequestStep ==
    ASSUME CmdInv, NEW c \in Codes, cmd_request(c)
    PROVE  CmdInv'
<1> DEFINE n == Head(cmd_free_queue)
<1> USE CmdAssumption
<1>1. /\ n \in Nodes /\ n \in Range(cmd_free_queue)
      /\ Tail(cmd_free_queue) \in Seq(Nodes) /\ IsInjective(Tail(cmd_free_queue))
      /\ Range(Tail(cmd_free_queue)) = Range(cmd_free_queue) \ {n}
  BY TakeFirst, Zenon DEF CmdInv, CmdTypeOK, NoBigamy, cmd_request
<1>2. /\ Append(cmd_pending_queue, n) \in Seq(Nodes)
      /\ Range(Append(cmd_pending_queue, n)) = Range(cmd_pending_queue) \cup {n}
      /\ IsInjective(Append(cmd_pending_queue, n))
  <2>1. n \notin Range(cmd_pending_queue) /\ IsInjective(cmd_pending_queue)
    BY <1>1, Zenon DEF CmdInv, NoBigamy
  <2> HIDE DEF n
  <2> QED BY <1>1, <2>1, AddLast DEF CmdInv, CmdTypeOK
<1>3. /\ cmd_free_queue' = Tail(cmd_free_queue)
      /\ cmd_pending_queue' = Append(cmd_pending_queue, n)
      /\ cmd_code' = [cmd_code EXCEPT ![n] = c]
      /\ waiting' = [waiting EXCEPT ![c] = n]
      /\ waiting[c] = None /\ cmd_work' = TRUE /\ woken' = woken \cup {c}
      /\ UNCHANGED <<resp_skb, cur_cmd, cmd_resp, inflight, abandoned, unsent>>
  BY Zenon DEF cmd_request
<1> HIDE DEF n
<1>4. CmdTypeOK'
  BY <1>1, <1>2, <1>3 DEF CmdInv, CmdTypeOK, Waiters
<1>5. NoBigamy'
  BY <1>1, <1>2, <1>3, Zenon DEF CmdInv, NoBigamy
<1>6. ASSUME ~unsent PROVE Lent'
  <2>0. Lent
    BY <1>6, Zenon DEF CmdInv
  <2>1. \A d \in Codes : waiting[d] # n
    BY <1>1, <2>0, Zenon DEF Lent, Accounted
  <2>2. \A d \in Codes : waiting'[d] = IF d = c THEN n ELSE waiting[d]
    BY <1>3, Zenon DEF CmdInv, CmdTypeOK
  <2>3. Accounted'
    BY <1>1, <1>3, <2>0, <2>1, <2>2 DEF Lent, Accounted
  <2>4. \A d, e \in Waiters' : waiting'[d] = waiting'[e] => d = e
    BY <2>0, <2>1, <2>2 DEF Lent, Waiters
  <2>5. \A d \in Waiters' : cmd_code'[waiting'[d]] = d
    BY <1>1, <1>3, <2>0, <2>1, <2>2 DEF CmdInv, CmdTypeOK, Lent, Waiters
  <2>6. cur_cmd' # None => cur_cmd' \notin Range(cmd_free_queue')
    BY <1>1, <1>3, <2>0, Zenon DEF Lent
  <2> QED BY <1>3, <2>3, <2>4, <2>5, <2>6, Zenon DEF Lent, WorkerRearmed
<1>7. ASSUME ~abandoned PROVE OneOnWire'
  <2>1. cur_cmd # None => cur_cmd # n
    BY <1>1, <1>7 DEF CmdInv, CmdTypeOK, Lent
  <2>2. \A m \in Nodes : m # n => cmd_code'[m] = cmd_code[m]
    BY <1>3, Zenon DEF CmdInv, CmdTypeOK
  <2>3. cur_cmd # None => cmd_code'[cur_cmd] = cmd_code[cur_cmd]
    BY <2>1, <2>2, Zenon DEF CmdInv, CmdTypeOK
  <2>4. resp_skb[n] = None
    BY <1>1, <1>7, Zenon DEF CmdInv, OneOnWire
  <2> QED BY <1>1, <1>3, <1>7, <2>2, <2>3, <2>4, Zenon DEF CmdInv, OneOnWire
<1> QED BY <1>3, <1>4, <1>5, <1>6, <1>7, Zenon DEF CmdInv

\* get_free_cmd_node() without an skb puts the node back, at the other end.
LEMMA RotateStep == CmdInv /\ get_free_cmd_node_NoSkb => CmdInv'
<1> SUFFICES ASSUME CmdInv, get_free_cmd_node_NoSkb PROVE CmdInv'
  BY Zenon
<1> DEFINE n == Head(cmd_free_queue)
           t == Tail(cmd_free_queue)
<1>0. cmd_free_queue \in Seq(Nodes) /\ IsInjective(cmd_free_queue) /\ cmd_free_queue # << >>
  BY DEF CmdInv, CmdTypeOK, NoBigamy, get_free_cmd_node_NoSkb
<1>1. /\ n \in Nodes /\ n \in Range(cmd_free_queue)
      /\ t \in Seq(Nodes) /\ IsInjective(t) /\ Range(t) = Range(cmd_free_queue) \ {n}
  BY <1>0, TakeFirst, Zenon
<1>2. cmd_free_queue' = Append(t, n)
  BY Zenon DEF get_free_cmd_node_NoSkb
<1> HIDE DEF n, t
<1>3. /\ cmd_free_queue' \in Seq(Nodes) /\ IsInjective(cmd_free_queue')
      /\ Range(cmd_free_queue') = Range(cmd_free_queue)
  <2>1. n \notin Range(t) /\ Range(t) \cup {n} = Range(cmd_free_queue)
    BY <1>1, Zenon
  <2>2. /\ Append(t, n) \in Seq(Nodes) /\ IsInjective(Append(t, n))
        /\ Range(Append(t, n)) = Range(t) \cup {n}
    BY <1>1, <2>1, AddLast
  <2> QED BY <1>2, <2>1, <2>2, Zenon
<1>4. UNCHANGED <<cmd_pending_queue, cmd_code, resp_skb, cur_cmd, cmd_resp,
                  cmd_work, waiting, woken, inflight, abandoned, unsent>>
  BY Zenon DEF get_free_cmd_node_NoSkb
<1>5. CmdTypeOK' /\ NoBigamy'
  BY <1>3, <1>4, Zenon DEF CmdInv, CmdTypeOK, Waiters, NoBigamy
<1>6. Lent => Lent'
  BY <1>3, <1>4, Zenon DEF Lent, Accounted, Waiters, WorkerRearmed
<1>7. OneOnWire => OneOnWire'
  BY <1>3, <1>4, Zenon DEF OneOnWire
<1> QED BY <1>4, <1>5, <1>6, <1>7, Zenon DEF CmdInv

\* esp_cmd_work() with nothing to do keeps the invariant.
LEMMA IdleStep == CmdInv /\ esp_cmd_work_Idle => CmdInv'
BY DEF esp_cmd_work_Idle, CmdInv, CmdTypeOK, Waiters, NoBigamy, Lent, Accounted, WorkerRearmed,
       OneOnWire

\* esp_cmd_work() moving the first pending node to the wire keeps the
\* invariant.
LEMMA SendStep == CmdInv /\ esp_cmd_work_Send => CmdInv'
<1> SUFFICES ASSUME CmdInv, esp_cmd_work_Send PROVE CmdInv'
  BY Zenon
<1> DEFINE n == Head(cmd_pending_queue)
<1> USE CmdAssumption
<1>0. /\ cmd_pending_queue \in Seq(Nodes) /\ IsInjective(cmd_pending_queue)
      /\ cmd_pending_queue # << >>
  BY Zenon DEF CmdInv, CmdTypeOK, NoBigamy, esp_cmd_work_Send
<1>1. /\ n \in Nodes /\ n \in Range(cmd_pending_queue)
      /\ cmd_pending_queue' \in Seq(Nodes) /\ IsInjective(cmd_pending_queue')
      /\ Range(cmd_pending_queue') = Range(cmd_pending_queue) \ {n}
  BY <1>0, TakeFirst, Zenon DEF esp_cmd_work_Send
<1>2. /\ cur_cmd = None /\ cur_cmd' = n /\ cmd_resp' = None
      /\ inflight' = Append(inflight, cmd_code[n])
      /\ cmd_pending_queue' # << >> => cmd_work'
      /\ UNCHANGED <<cmd_free_queue, cmd_code, resp_skb, waiting, woken, abandoned, unsent>>
  BY Zenon DEF esp_cmd_work_Send
<1> HIDE DEF n
<1>3. CmdTypeOK'
  <2>1. inflight' \in Seq(Codes \cup {None})
    <3>1. cmd_code[n] \in Codes \cup {None} /\ inflight \in Seq(Codes \cup {None})
      BY <1>1, Zenon DEF CmdInv, CmdTypeOK
    <3> QED BY <1>2, <3>1, AddLast, Zenon
  <2> QED BY <1>1, <1>2, <2>1, Zenon DEF CmdInv, CmdTypeOK, Waiters
<1>4. NoBigamy'
  BY <1>1, <1>2, Zenon DEF CmdInv, NoBigamy
<1>5. ASSUME ~unsent PROVE Lent'
  <2>1. n \notin Range(cmd_free_queue)
    BY <1>1, Zenon DEF CmdInv, NoBigamy
  <2> QED BY <1>1, <1>2, <1>5, <2>1, Zenon DEF CmdInv, Lent, Accounted, WorkerRearmed, Waiters
<1>6. ASSUME ~abandoned PROVE OneOnWire'
  <2>1. inflight = << >>
    BY <1>2, <1>6, Zenon DEF CmdInv, OneOnWire
  <2>2. inflight' = <<cmd_code[n]>>
    BY <1>2, <2>1
  <2> QED BY <1>1, <1>2, <1>6, <2>2, Zenon DEF CmdInv, OneOnWire
<1> QED BY <1>2, <1>3, <1>4, <1>5, <1>6, Zenon DEF CmdInv

\* esp_cmd_work() recycling a node the transport refused keeps the invariant.
LEMMA SendFailedStep == CmdInv /\ esp_cmd_work_SendFailed => CmdInv'
<1> SUFFICES ASSUME CmdInv, esp_cmd_work_SendFailed PROVE CmdInv'
  BY Zenon
<1> DEFINE n == Head(cmd_pending_queue)
<1>0. /\ cmd_pending_queue \in Seq(Nodes) /\ IsInjective(cmd_pending_queue)
      /\ cmd_pending_queue # << >> /\ cmd_free_queue \in Seq(Nodes)
      /\ IsInjective(cmd_free_queue)
      /\ Range(cmd_free_queue) \cap Range(cmd_pending_queue) = {}
  BY Zenon DEF CmdInv, CmdTypeOK, NoBigamy, esp_cmd_work_SendFailed
<1>1. /\ n \in Nodes /\ n \in Range(cmd_pending_queue)
      /\ cmd_pending_queue' \in Seq(Nodes) /\ IsInjective(cmd_pending_queue')
      /\ Range(cmd_pending_queue') = Range(cmd_pending_queue) \ {n}
  BY <1>0, TakeFirst, Zenon DEF esp_cmd_work_SendFailed
<1>2. /\ cmd_code' = [cmd_code EXCEPT ![n] = None]
      /\ resp_skb' = [resp_skb EXCEPT ![n] = None]
      /\ cmd_free_queue' = Append(cmd_free_queue, n)
      /\ cmd_resp' = None /\ unsent' = TRUE /\ abandoned' = TRUE
      /\ UNCHANGED <<cur_cmd, waiting, woken, inflight>>
  BY Zenon DEF esp_cmd_work_SendFailed
<1> HIDE DEF n
<1>3. n \notin Range(cmd_free_queue)
  BY <1>0, <1>1, Zenon
<1>4. /\ cmd_free_queue' \in Seq(Nodes) /\ IsInjective(cmd_free_queue')
      /\ Range(cmd_free_queue') = Range(cmd_free_queue) \cup {n}
  BY <1>0, <1>1, <1>2, <1>3, AddLast
<1>5. CmdTypeOK'
  BY <1>1, <1>2, <1>4, Zenon DEF CmdInv, CmdTypeOK, Waiters
<1>6. NoBigamy'
  BY <1>0, <1>1, <1>4, Zenon DEF NoBigamy
<1> QED BY <1>2, <1>5, <1>6 DEF CmdInv

\* process_cmd_resp() handing the answer to the current command keeps the
\* invariant.
LEMMA AnswerStep == CmdInv /\ process_cmd_resp => CmdInv'
<1> SUFFICES ASSUME CmdInv, process_cmd_resp PROVE CmdInv'
  BY Zenon
<1> USE CmdAssumption
<1>1. /\ Head(inflight) \in Codes \cup {None}
      /\ inflight' = Tail(inflight) /\ inflight' \in Seq(Codes \cup {None})
  BY TakeFirst, Zenon DEF process_cmd_resp, CmdInv, CmdTypeOK
<1>2. UNCHANGED <<cmd_free_queue, cmd_pending_queue, cmd_code, cur_cmd, waiting, abandoned, unsent>>
  BY Zenon DEF process_cmd_resp
<1>3. ~abandoned => cur_cmd # None /\ inflight = <<cmd_code[cur_cmd]>>
  BY Zenon DEF process_cmd_resp, CmdInv, OneOnWire
<1>4. CmdTypeOK'
  <2>1. CASE cur_cmd = None
    BY <1>1, <1>2, <2>1 DEF process_cmd_resp, CmdInv, CmdTypeOK, Waiters
  <2>2. CASE cur_cmd # None
    <3>1. cur_cmd \in Nodes
      BY <2>2, Zenon DEF CmdInv, CmdTypeOK
    <3>2. /\ resp_skb' = [resp_skb EXCEPT ![cur_cmd] = Head(inflight)]
          /\ cmd_resp' = cmd_code[cur_cmd] /\ woken' = Waiters
      BY <2>2, Zenon DEF process_cmd_resp
    <3> QED BY <1>1, <1>2, <3>1, <3>2, Zenon DEF CmdInv, CmdTypeOK, Waiters
  <2> QED BY <2>1, <2>2, Zenon
<1>5. NoBigamy'
  BY <1>2, Zenon DEF CmdInv, NoBigamy
<1>6. ASSUME ~unsent PROVE Lent'
  <2>1. cmd_work => cmd_work'
    BY Zenon DEF process_cmd_resp
  <2> QED BY <1>2, <1>6, <2>1, Zenon DEF CmdInv, Lent, Accounted, Waiters, WorkerRearmed
<1>7. ASSUME ~abandoned PROVE OneOnWire'
  <2>1. cur_cmd \in Nodes /\ Head(inflight) = cmd_code[cur_cmd] /\ inflight' = << >>
    BY <1>1, <1>3, <1>7 DEF CmdInv, CmdTypeOK
  <2>2. /\ resp_skb' = [resp_skb EXCEPT ![cur_cmd] = cmd_code[cur_cmd]]
        /\ cmd_resp' = cmd_code[cur_cmd]
    BY <2>1, Zenon DEF process_cmd_resp
  <2>3. cur_cmd \notin Range(cmd_free_queue)
    BY <1>7, <2>1 DEF CmdInv, CmdTypeOK, Lent
  <2>4. \A n \in Nodes : resp_skb'[n] = IF n = cur_cmd THEN cmd_code[cur_cmd] ELSE resp_skb[n]
    BY <2>2, Zenon DEF CmdInv, CmdTypeOK
  <2>5. Range(cmd_free_queue) \subseteq Nodes
    BY DEF Range, CmdInv, CmdTypeOK
  <2> QED BY <1>2, <1>7, <2>1, <2>2, <2>3, <2>4, <2>5 DEF CmdInv, OneOnWire
<1> QED BY <1>2, <1>4, <1>5, <1>6, <1>7, Zenon DEF CmdInv

\* A request that the firmware does not answer keeps the invariant.
LEMMA IgnoreStep == CmdInv /\ FirmwareIgnores => CmdInv'
<1> SUFFICES ASSUME CmdInv, FirmwareIgnores PROVE CmdInv'
  BY Zenon
<1>1. inflight' \in Seq(Codes \cup {None})
  BY TakeFirst, Zenon DEF FirmwareIgnores, CmdInv, CmdTypeOK
<1>2. /\ abandoned' = TRUE
      /\ UNCHANGED <<cmd_free_queue, cmd_pending_queue, cmd_code, resp_skb,
                     cur_cmd, cmd_resp, cmd_work, waiting, woken, unsent>>
  BY Zenon DEF FirmwareIgnores
<1>3. CmdTypeOK' /\ NoBigamy'
  BY <1>1, <1>2, Zenon DEF CmdInv, CmdTypeOK, Waiters, NoBigamy
<1>4. Lent => Lent'
  BY <1>2, Zenon DEF Lent, Accounted, Waiters, WorkerRearmed
<1> QED BY <1>2, <1>3, <1>4, Zenon DEF CmdInv

\* wait_and_decode_cmd_resp(), answered or timed out, takes the node out of
\* whichever list holds it and returns it to the pool.
LEMMA FinishStep ==
    ASSUME CmdInv, NEW c \in Codes, waiting[c] # None, wait_and_decode_cmd_resp(c),
           abandoned' \in BOOLEAN, ~abandoned' => ~abandoned /\ inflight = << >>
    PROVE  CmdInv'
<1> DEFINE n == waiting[c]
           p == list_del_init(cmd_pending_queue, n)
           f == list_del_init(cmd_free_queue, n)
<1> USE CmdAssumption
<1>0. /\ cmd_pending_queue \in Seq(Nodes) /\ IsInjective(cmd_pending_queue)
      /\ cmd_free_queue \in Seq(Nodes) /\ IsInjective(cmd_free_queue)
      /\ Range(cmd_free_queue) \cap Range(cmd_pending_queue) = {}
      /\ n \in Nodes
  BY Zenon DEF CmdInv, CmdTypeOK, NoBigamy
<1>1. /\ cur_cmd' = None /\ cmd_resp' = None
      /\ cmd_work' = (cmd_work \/ cmd_pending_queue # << >>)
      /\ cmd_pending_queue' = p /\ cmd_free_queue' = Append(f, n)
      /\ cmd_code' = [cmd_code EXCEPT ![n] = None]
      /\ resp_skb' = [resp_skb EXCEPT ![n] = None]
      /\ waiting' = [waiting EXCEPT ![c] = None]
      /\ woken' = woken \ {c} /\ UNCHANGED <<inflight, unsent>>
  BY Zenon DEF wait_and_decode_cmd_resp
<1>2. /\ p \in Seq(Nodes) /\ IsInjective(p) /\ Range(p) = Range(cmd_pending_queue) \ {n}
      /\ cmd_pending_queue = << >> => p = << >>
  BY <1>0, Unlink, Zenon
<1>3. f \in Seq(Nodes) /\ IsInjective(f) /\ Range(f) = Range(cmd_free_queue) \ {n}
  BY <1>0, Unlink
<1> HIDE DEF p, f
<1>4. /\ cmd_free_queue' \in Seq(Nodes) /\ IsInjective(cmd_free_queue')
      /\ Range(cmd_free_queue') = Range(cmd_free_queue) \cup {n}
  BY <1>0, <1>1, <1>3, AddLast
<1>5. \A d \in Codes : waiting'[d] = IF d = c THEN None ELSE waiting[d]
  BY <1>1, Zenon DEF CmdInv, CmdTypeOK
<1>6. /\ \A m \in Nodes : cmd_code'[m] = IF m = n THEN None ELSE cmd_code[m]
      /\ \A m \in Nodes : resp_skb'[m] = IF m = n THEN None ELSE resp_skb[m]
  BY <1>1, Zenon DEF CmdInv, CmdTypeOK
<1>7. CmdTypeOK'
  <2>1. woken' \subseteq Waiters'
    BY <1>1, <1>5, Zenon DEF CmdInv, CmdTypeOK, Waiters
  <2>2. /\ cmd_code' \in [Nodes -> Codes \cup {None}]
        /\ resp_skb' \in [Nodes -> Codes \cup {None}]
        /\ waiting' \in [Codes -> Nodes \cup {None}]
    BY <1>1, Zenon DEF CmdInv, CmdTypeOK
  <2>3. inflight' \in Seq(Codes \cup {None})
    BY <1>1, Zenon DEF CmdInv, CmdTypeOK
  <2>4. /\ unsent' \in BOOLEAN /\ abandoned' \in BOOLEAN
        /\ unsent' => abandoned'
    <3>1. unsent' = unsent /\ unsent \in BOOLEAN /\ abandoned \in BOOLEAN /\ (unsent => abandoned)
      BY <1>1, Zenon DEF CmdInv, CmdTypeOK
    <3> QED BY <3>1, Zenon
  <2> QED BY <1>1, <1>2, <1>4, <2>1, <2>2, <2>3, <2>4, Zenon DEF CmdTypeOK
<1>8. NoBigamy'
  BY <1>0, <1>1, <1>2, <1>4, Zenon DEF NoBigamy
<1>9. ASSUME ~unsent PROVE Lent'
  <2>0. Lent
    BY <1>9, Zenon DEF CmdInv
  <2>1. \A d \in Codes : d # c => waiting[d] # n
    BY <1>0, <2>0, Zenon DEF Lent, Waiters
  <2>2. Accounted'
    BY <1>0, <1>4, <1>5, <2>0, <2>1 DEF Lent, Accounted
  <2>3. \A d, e \in Waiters' : waiting'[d] = waiting'[e] => d = e
    BY <1>5, <2>0 DEF Lent, Waiters
  <2>4. \A d \in Waiters' : cmd_code'[waiting'[d]] = d
    BY <1>5, <1>6, <2>0, <2>1 DEF CmdInv, CmdTypeOK, Lent, Waiters
  <2>5. WorkerRearmed'
    BY <1>1, <1>2, Zenon DEF WorkerRearmed
  <2> QED BY <1>1, <2>2, <2>3, <2>4, <2>5 DEF Lent
<1>10. ASSUME ~abandoned' PROVE OneOnWire'
  <2>1. ~abandoned /\ OneOnWire /\ inflight' = << >>
    BY <1>1, <1>10, Zenon DEF CmdInv
  <2>2. Range(cmd_free_queue) \subseteq Nodes
    BY <1>0 DEF Range
  <2>3. \A m \in Range(cmd_free_queue') : resp_skb'[m] = None
    BY <1>0, <1>4, <1>6, <2>1, <2>2 DEF OneOnWire
  <2>4. \A m \in Nodes : resp_skb'[m] # None => resp_skb'[m] = cmd_code'[m]
    BY <1>6, <2>1, Zenon DEF OneOnWire
  <2> QED BY <1>1, <2>1, <2>3, <2>4, Zenon DEF OneOnWire
<1> QED BY <1>1, <1>7, <1>8, <1>9, <1>10, Zenon DEF CmdInv

\* A caller woken for another's answer goes back to sleep.
LEMMA SleepStep ==
    ASSUME CmdInv, NEW c \in Codes, SleepAgain(c)
    PROVE  CmdInv'
BY DEF SleepAgain, CmdInv, CmdTypeOK, Waiters, NoBigamy, Lent, Accounted, WorkerRearmed, OneOnWire

\* Every step of the command queue keeps the invariant.
LEMMA CmdStep == CmdInv /\ [Next]_vars => CmdInv'
<1> SUFFICES ASSUME CmdInv, [Next]_vars PROVE CmdInv'
  BY Zenon
<1>1. CASE \E c \in Codes : cmd_request(c)
  BY <1>1, RequestStep, Zenon
<1>2. CASE \E c \in Codes : Answered(c)
  <2> PICK c \in Codes : Answered(c)
    BY <1>2, Zenon
  <2>1. waiting[c] # None /\ waiting[c] \in Nodes
    BY Zenon DEF Answered, CmdInv, CmdTypeOK, Waiters
  <2>2. wait_and_decode_cmd_resp(c) /\ abandoned' = abandoned
    BY Zenon DEF Answered
  <2>3. ASSUME ~abandoned PROVE inflight = << >>
    <3>1. cmd_resp = c
      BY <2>1, <2>3, Zenon DEF Answered, CmdInv, CmdTypeOK, Lent, Waiters
    <3> QED BY <2>3, <3>1, CmdAssumption, Zenon DEF CmdInv, OneOnWire
  <2>4. abandoned' \in BOOLEAN /\ (~abandoned' => ~abandoned)
    BY <2>2 DEF CmdInv, CmdTypeOK
  <2> QED BY <2>1, <2>2, <2>3, <2>4, FinishStep, Zenon
<1>3. CASE \E c \in Codes : SleepAgain(c)
  BY <1>3, SleepStep, Zenon
<1>4. CASE \E c \in Codes : GiveUp(c)
  <2> PICK c \in Codes : GiveUp(c)
    BY <1>4, Zenon
  <2>1. waiting[c] # None /\ wait_and_decode_cmd_resp(c) /\ abandoned' = TRUE
    BY Zenon DEF GiveUp
  <2>2. abandoned' \in BOOLEAN /\ abandoned'
    BY <2>1, Zenon
  <2> QED BY <2>1, <2>2, FinishStep, Zenon
<1>5. CASE UNCHANGED vars
  BY <1>5 DEF vars, CmdInv, CmdTypeOK, Waiters, NoBigamy, Lent, Accounted, WorkerRearmed, OneOnWire
<1> QED
  BY <1>1, <1>2, <1>3, <1>4, <1>5, RotateStep, IdleStep, SendStep, SendFailedStep, AnswerStep,
     IgnoreStep, Zenon DEF Next

\* The invariant holds in every behaviour of the command queue.
LEMMA CmdAlways == Spec => []CmdInv
BY CmdInit, CmdStep, PTL DEF Spec

\* No node is ever in two lists or twice in one, and until the transport
\* refuses a request each node is free or lent to exactly one caller, so that
\* the pool never shrinks; and while commands are pending the worker is armed.
THEOREM CmdPoolAccounted == Spec => []PoolAccounted
<1>1. CmdInv => PoolAccounted
  BY LentIs, Zenon DEF CmdInv
<1> QED BY <1>1, CmdAlways, PTL

\* Until a caller gives up, the answer process_cmd_resp() files under a node is
\* the answer to that node's own command.
THEOREM CmdAnswersAreOwn == Spec => []OwnAnswer
<1>1. CmdInv => OwnAnswer
  BY Zenon DEF CmdInv, OneOnWire, OwnAnswer
<1> QED BY <1>1, CmdAlways, PTL

-----------------------------------------------------------------------------
(* Transmission over the shared memory *)

\* The values of a free running counter.
Counter == 0 .. Modulus - 1
\* What the signed comparison tells apart.
Half == Modulus \div 2
\* How far counter a is ahead of counter b.
Ahead(a, b) == (a - b) % Modulus

\* The ring is smaller than half the range of the counters.
LEMMA HalfRange ==
    /\ Mask \in Nat \ {0} /\ Modulus \in Nat /\ Half \in Nat
    /\ Mask < Half /\ 2 * Half <= Modulus /\ 2 <= Half
BY TxAssumption DEF Half

\* The distance of two counters, without the modulus.
LEMMA AheadIs ==
    ASSUME NEW a \in Counter, NEW b \in Counter
    PROVE  Ahead(a, b) = IF b <= a THEN a - b ELSE a - b + Modulus
<1>1. Modulus \in Nat \ {0}
  BY HalfRange
<1>2. CASE b <= a
  <2>1. a - b \in 0 .. Modulus - 1
    BY <1>1, <1>2 DEF Counter
  <2> QED BY <1>1, <1>2, <2>1 DEF Ahead
<1>3. CASE a < b
  <2>1. a - b \in Int /\ -Modulus <= a - b /\ a - b < 0
    BY <1>1, <1>3 DEF Counter
  <2>2. \A x \in Int : -Modulus <= x /\ x < 0 => x % Modulus = x + Modulus
    BY <1>1
  <2>3. Ahead(a, b) = a - b + Modulus
    BY <2>1, <2>2 DEF Ahead
  <2> QED BY <1>3, <2>3 DEF Counter
<1> QED BY <1>2, <1>3 DEF Counter

\* The next value of a counter, without the modulus.
LEMMA SuccIs ==
    ASSUME NEW a \in Counter
    PROVE  (a + 1) % Modulus = IF a = Modulus - 1 THEN 0 ELSE a + 1
<1>1. Modulus \in Nat \ {0}
  BY HalfRange
<1>2. CASE a = Modulus - 1
  <2>1. a + 1 = Modulus /\ Modulus % Modulus = 0
    BY <1>1, <1>2
  <2> QED BY <1>2, <2>1, Zenon
<1>3. CASE a # Modulus - 1
  <2>1. a + 1 \in 0 .. Modulus - 1
    BY <1>1, <1>3 DEF Counter
  <2> QED BY <1>1, <1>3, <2>1
<1> QED BY <1>2, <1>3

\* Counters move by one: so do distances.
LEMMA Advances ==
    ASSUME NEW a \in Counter, NEW b \in Counter
    PROVE  /\ (a + 1) % Modulus \in Counter
           /\ Ahead(a, b) \in Counter /\ Ahead(a, a) = 0
           /\ Ahead(a, b) < Modulus - 1 => Ahead((a + 1) % Modulus, b) = Ahead(a, b) + 1
           /\ Ahead(a, b) > 0 => Ahead(a, (b + 1) % Modulus) = Ahead(a, b) - 1
<1> DEFINE a1 == (a + 1) % Modulus
           b1 == (b + 1) % Modulus
<1>0. Modulus \in Nat \ {0}
  BY HalfRange
<1>1. a1 = (IF a = Modulus - 1 THEN 0 ELSE a + 1) /\ b1 = IF b = Modulus - 1 THEN 0 ELSE b + 1
  BY SuccIs, Zenon
<1> HIDE DEF a1, b1
<1>2. a1 \in Counter /\ b1 \in Counter
  BY <1>0, <1>1 DEF Counter
<1>3. /\ Ahead(a, b) = IF b <= a THEN a - b ELSE a - b + Modulus
      /\ Ahead(a1, b) = IF b <= a1 THEN a1 - b ELSE a1 - b + Modulus
      /\ Ahead(a, b1) = IF b1 <= a THEN a - b1 ELSE a - b1 + Modulus
  BY <1>2, AheadIs, Zenon
<1>7. Ahead(a, a) = 0
  BY AheadIs DEF Counter
<1>4. Ahead(a, b) \in Counter
  BY <1>0, <1>3 DEF Counter
<1>5. Ahead(a, b) < Modulus - 1 => Ahead(a1, b) = Ahead(a, b) + 1
  BY <1>0, <1>1, <1>3 DEF Counter
<1>6. Ahead(a, b) > 0 => Ahead(a, b1) = Ahead(a, b) - 1
  BY <1>0, <1>1, <1>3 DEF Counter
<1> QED BY <1>2, <1>4, <1>5, <1>6, <1>7 DEF a1, b1

\* Of two counters behind w, the nearer one is ahead of the other.
LEMMA AheadCompares ==
    ASSUME NEW w \in Counter, NEW t \in Counter, NEW r \in Counter,
           Ahead(w, t) <= Ahead(w, r)
    PROVE  Ahead(t, r) = Ahead(w, r) - Ahead(w, t)
<1>0. Modulus \in Nat \ {0}
  BY HalfRange
<1>1. /\ Ahead(w, t) = IF t <= w THEN w - t ELSE w - t + Modulus
      /\ Ahead(w, r) = IF r <= w THEN w - r ELSE w - r + Modulus
      /\ Ahead(t, r) = IF r <= t THEN t - r ELSE t - r + Modulus
  BY AheadIs
<1> QED BY <1>0, <1>1 DEF Counter

\* An skb on tx_q: the counter it was published under and whether it is
\* private.
Buffer == [tag : Counter, priv : BOOLEAN]

\* The ring holds the last tags handed out, in order, and nothing is freed that it
\* holds; a pass works with a counter that core 0's own has not fallen behind.
TxInv ==
    /\ write \in Counter /\ read \in Counter
    /\ ring \in Seq(Counter \cup {-1}) /\ tx_q \in Seq(Buffer)
    /\ pass = << >> \/ \E r \in Counter : pass = <<r>>
    /\ Len(ring) = Ahead(write, read) /\ Len(ring) <= Mask
    /\ \A i \in 1 .. Len(ring) : ring[i] # -1 => Ahead(write, ring[i]) = Len(ring) - i + 1
    /\ \A i \in 1 .. Len(ring) : ring[i] # -1 => \E j \in 1 .. Len(tx_q) : tx_q[j].tag = ring[i]
    /\ pass # << >> => Len(ring) <= Ahead(write, pass[1]) /\ Ahead(write, pass[1]) <= Half

\* Nothing has been sent when the driver is loaded.
LEMMA TxInit == T!Init => TxInv
<1> SUFFICES ASSUME T!Init PROVE TxInv
  BY Zenon
<1>1. 0 \in Counter
  BY HalfRange DEF Counter
<1>2. Ahead(0, 0) = 0
  BY <1>1, Advances
<1> QED BY <1>1, <1>2, HalfRange DEF T!Init, TxInv

\* Publishing one more entry keeps the ring a window of consecutive tags, and
\* only moves away from what a pass has sampled.
LEMMA TxPublish ==
    ASSUME TxInv, T!InWindow, Len(ring) # Mask,
           NEW e \in {write, -1}, ring' = Append(ring, e), write' = (write + 1) % Modulus,
           read' = read, pass' = pass
    PROVE  /\ write' \in Counter /\ ring' \in Seq(Counter \cup {-1})
           /\ Len(ring') = Ahead(write', read') /\ Len(ring') <= Mask
           /\ \A i \in 1 .. Len(ring') :
                ring'[i] # -1 => Ahead(write', ring'[i]) = Len(ring') - i + 1
           /\ pass' # << >> => /\ Len(ring') <= Ahead(write', pass'[1])
                               /\ Ahead(write', pass'[1]) <= Half
<1>0. /\ write \in Counter /\ read \in Counter /\ ring \in Seq(Counter \cup {-1})
      /\ Len(ring) = Ahead(write, read) /\ Len(ring) <= Mask
  BY Zenon DEF TxInv
<1>1. /\ Modulus \in Nat /\ Half \in Nat /\ Mask \in Nat /\ Mask < Half
      /\ 2 * Half <= Modulus /\ 2 <= Half
  BY HalfRange
<1>2. write' \in Counter
  BY <1>0, Advances
<1>3. /\ ring' \in Seq(Counter \cup {-1}) /\ Len(ring') = Len(ring) + 1
      /\ \A i \in 1 .. Len(ring) : ring'[i] = ring[i]
      /\ ring'[Len(ring) + 1] = e /\ Len(ring) \in Nat
  BY <1>0
<1>4. ASSUME NEW b \in Counter
      PROVE  /\ Ahead(write, b) \in Counter
             /\ Ahead(write, b) <= Half => Ahead(write', b) = Ahead(write, b) + 1
  <2>1. /\ Ahead(write, b) \in Counter
        /\ Ahead(write, b) < Modulus - 1 => Ahead(write', b) = Ahead(write, b) + 1
    BY <1>0, Advances
  <2> QED BY <1>1, <2>1 DEF Counter
<1>5. Len(ring') = Ahead(write', read') /\ Len(ring') <= Mask
  <2>1. Ahead(write, read) <= Half
    BY <1>0, <1>1, <1>3
  <2> QED BY <1>0, <1>1, <1>3, <1>4, <2>1
<1>6. ASSUME NEW i \in 1 .. Len(ring'), ring'[i] # -1
      PROVE  Ahead(write', ring'[i]) = Len(ring') - i + 1
  <2>1. CASE i \in 1 .. Len(ring)
    <3>1. ring[i] \in Counter /\ ring'[i] = ring[i] /\ Ahead(write, ring[i]) = Len(ring) - i + 1
      BY <1>0, <1>3, <1>6, <2>1 DEF TxInv
    <3>2. Ahead(write, ring[i]) <= Half
      BY <1>0, <1>1, <1>3, <2>1, <3>1
    <3>3. Ahead(write', ring[i]) = Ahead(write, ring[i]) + 1
      BY <1>4, <3>1, <3>2, Zenon
    <3> QED BY <1>3, <2>1, <3>1, <3>3
  <2>2. CASE i = Len(ring) + 1
    <3>1. ring'[i] = write
      BY <1>3, <1>6, <2>2, Zenon
    <3>2. Ahead(write, write) = 0
      BY <1>0, Advances, Zenon
    <3>3. Ahead(write', write) = 1
      BY <1>0, <1>1, <1>4, <3>2
    <3> QED BY <1>3, <2>2, <3>1, <3>3
  <2> QED BY <1>3, <2>1, <2>2
<1>7. ASSUME pass # << >>
      PROVE  Len(ring') <= Ahead(write', pass[1]) /\ Ahead(write', pass[1]) <= Half
  <2>1. PICK r \in Counter : pass = <<r>>
    BY <1>7, Zenon DEF TxInv
  <2>2. Ahead(write, r) < Half
    <3>1. r \in T!Range(pass)
      BY <2>1 DEF T!Range
    <3> QED BY <3>1, Zenon DEF T!InWindow, Ahead, Half
  <2>3. Len(ring) <= Ahead(write, r) /\ pass[1] = r
    BY <1>7, <2>1 DEF TxInv
  <2>4. Ahead(write', r) = Ahead(write, r) + 1 /\ Ahead(write, r) \in Counter
    BY <1>1, <1>4, <2>2 DEF Counter
  <2> QED BY <1>1, <1>3, <2>2, <2>3, <2>4 DEF Counter
<1> QED BY <1>2, <1>3, <1>5, <1>6, <1>7

\* What leaves the ring, tx_q and the pass alone keeps the invariant.
LEMMA TxFrame ==
    ASSUME TxInv, UNCHANGED <<write, read, ring, tx_q, pass>>
    PROVE  TxInv'
BY DEF TxInv

\* write_packet() queues the skb before it publishes it.
LEMMA TxWrite ==
    ASSUME TxInv, NEW p \in BOOLEAN, T!write_packet(p), read' = read, pass' = pass
    PROVE  TxInv'
<1>1. CASE T!Full
  <2>1. UNCHANGED <<write, ring, tx_q>>
    BY <1>1 DEF T!write_packet
  <2> QED BY <2>1, TxFrame, Zenon
<1>2. CASE ~T!Full
  <2>1. /\ T!InWindow /\ Len(ring) # Mask
        /\ ring' = Append(ring, write) /\ write' = (write + 1) % Modulus
        /\ tx_q' = Append(tx_q, [tag |-> write, priv |-> p])
    BY <1>2 DEF T!write_packet, T!Full
  <2>2. /\ write' \in Counter /\ ring' \in Seq(Counter \cup {-1})
        /\ Len(ring') = Ahead(write', read') /\ Len(ring') <= Mask
        /\ \A i \in 1 .. Len(ring') :
             ring'[i] # -1 => Ahead(write', ring'[i]) = Len(ring') - i + 1
        /\ pass' # << >> => /\ Len(ring') <= Ahead(write', pass'[1])
                            /\ Ahead(write', pass'[1]) <= Half
    BY <2>1, TxPublish
  <2>3. /\ tx_q \in Seq(Buffer) /\ ring \in Seq(Counter \cup {-1})
        /\ [tag |-> write, priv |-> p] \in Buffer
    BY Zenon DEF TxInv, Buffer
  <2>4. /\ tx_q' \in Seq(Buffer) /\ Len(tx_q') = Len(tx_q) + 1 /\ Len(tx_q) \in Nat
        /\ \A j \in 1 .. Len(tx_q) : tx_q'[j] = tx_q[j]
        /\ tx_q'[Len(tx_q) + 1] = [tag |-> write, priv |-> p]
    BY <2>1, <2>3
  <2>5. /\ Len(ring') = Len(ring) + 1 /\ Len(ring) \in Nat
        /\ \A j \in 1 .. Len(ring) : ring'[j] = ring[j]
        /\ ring'[Len(ring) + 1] = write
    BY <2>1, <2>3 DEF TxInv
  <2>6. ASSUME NEW i \in 1 .. Len(ring'), ring'[i] # -1
        PROVE  \E j \in 1 .. Len(tx_q') : tx_q'[j].tag = ring'[i]
    <3>1. CASE i \in 1 .. Len(ring)
      <4>1. PICK j \in 1 .. Len(tx_q) : tx_q[j].tag = ring[i]
        BY <2>5, <2>6, <3>1, Zenon DEF TxInv
      <4>2. j \in 1 .. Len(tx_q') /\ tx_q'[j].tag = ring'[i]
        BY <2>4, <2>5, <3>1, <4>1
      <4> QED BY <4>2, Zenon
    <3>2. CASE i = Len(ring) + 1
      <4>1. Len(tx_q) + 1 \in 1 .. Len(tx_q') /\ tx_q'[Len(tx_q) + 1].tag = ring'[i]
        BY <2>4, <2>5, <3>2
      <4> QED BY <4>1
    <3> QED BY <2>5, <3>1, <3>2
  <2> QED BY <2>2, <2>4, <2>6 DEF TxInv
<1> QED BY <1>1, <1>2, Zenon

\* A packet of a flash command, which has no skb, keeps the invariant.
LEMMA TxFlash == ASSUME TxInv, T!flash_tx PROVE TxInv'
<1>1. /\ T!InWindow /\ Len(ring) # Mask
      /\ ring' = Append(ring, -1) /\ write' = (write + 1) % Modulus
      /\ UNCHANGED <<read, tx_q, pass>>
  BY Zenon DEF T!flash_tx, T!Full, T!Flash
<1>2. /\ write' \in Counter /\ ring' \in Seq(Counter \cup {-1})
      /\ Len(ring') = Ahead(write', read') /\ Len(ring') <= Mask
      /\ \A i \in 1 .. Len(ring') :
           ring'[i] # -1 => Ahead(write', ring'[i]) = Len(ring') - i + 1
      /\ pass' # << >> => /\ Len(ring') <= Ahead(write', pass'[1])
                          /\ Ahead(write', pass'[1]) <= Half
  BY <1>1, TxPublish, Zenon
<1>3. ring \in Seq(Counter \cup {-1})
  BY Zenon DEF TxInv
<1>4. \A i \in 1 .. Len(ring') : ring'[i] # -1 => i \in 1 .. Len(ring) /\ ring'[i] = ring[i]
  BY <1>1, <1>3
<1>5. ASSUME NEW i \in 1 .. Len(ring'), ring'[i] # -1
      PROVE  \E j \in 1 .. Len(tx_q') : tx_q'[j].tag = ring'[i]
  BY <1>1, <1>4, <1>5, Zenon DEF TxInv
<1> QED BY <1>1, <1>2, <1>5, Zenon DEF TxInv

\* Core 0 reading the oldest entry keeps the invariant, even in the middle of a
\* pass.
LEMMA TxFirmware == ASSUME TxInv, T!FirmwareReads PROVE TxInv'
<1>1. /\ ring # << >> /\ ring' = Tail(ring) /\ read' = (read + 1) % Modulus
      /\ UNCHANGED <<write, tx_q, pass>>
  BY Zenon DEF T!FirmwareReads
<1>2. write \in Counter /\ read \in Counter /\ ring \in Seq(Counter \cup {-1})
  BY Zenon DEF TxInv
<1>3. /\ ring' \in Seq(Counter \cup {-1}) /\ Len(ring') = Len(ring) - 1
      /\ Len(ring) \in Nat \ {0}
      /\ \A i \in 1 .. Len(ring') : i + 1 \in 1 .. Len(ring) /\ ring'[i] = ring[i + 1]
  BY <1>1, <1>2
<1>4. /\ read' \in Counter
      /\ Ahead(write, read) > 0 => Ahead(write, read') = Ahead(write, read) - 1
  BY <1>1, <1>2, Advances, Zenon
<1>5. Len(ring') = Ahead(write', read') /\ Len(ring') <= Mask
  BY <1>1, <1>3, <1>4, HalfRange DEF TxInv
<1>6. ASSUME NEW i \in 1 .. Len(ring'), ring'[i] # -1
      PROVE  /\ Ahead(write', ring'[i]) = Len(ring') - i + 1
             /\ \E j \in 1 .. Len(tx_q') : tx_q'[j].tag = ring'[i]
  <2>1. /\ Ahead(write, ring[i + 1]) = Len(ring) - (i + 1) + 1
        /\ \E j \in 1 .. Len(tx_q) : tx_q[j].tag = ring[i + 1]
    BY <1>3, <1>6, Zenon DEF TxInv
  <2> QED BY <1>1, <1>3, <2>1
<1>7. pass' # << >> => Len(ring') <= Ahead(write', pass'[1]) /\ Ahead(write', pass'[1]) <= Half
  <2> SUFFICES ASSUME pass # << >>
               PROVE  Len(ring') <= Ahead(write, pass[1]) /\ Ahead(write, pass[1]) <= Half
    BY <1>1
  <2>1. pass[1] \in Counter /\ Len(ring) <= Ahead(write, pass[1]) /\ Ahead(write, pass[1]) <= Half
    BY DEF TxInv
  <2>2. Ahead(write, pass[1]) \in Counter
    BY <1>2, <2>1, Advances, Zenon
  <2> QED BY <1>3, <2>1, <2>2 DEF Counter
<1> QED BY <1>1, <1>3, <1>4, <1>5, <1>6, <1>7 DEF TxInv

\* Min of a set of naturals is its least element.
LEMMA LeastIs ==
    ASSUME NEW U \in SUBSET Nat, U # {}
    PROVE  T!Min(U) \in U /\ \A y \in U : T!Min(U) <= y
<1> DEFINE R == OpToRel(<, Nat)
<1>1. PICK x \in U : \A y \in U : ~(<<y, x>> \in R)
  BY NatLessThanWellFounded, WFMin, Zenon
<1>2. \A y \in U : ~(y < x)
  BY <1>1, Zenon DEF OpToRel
<1>3. \A y \in U : x <= y
  BY <1>2
<1> QED BY <1>3, Zenon DEF T!Min

\* The thread reading core 0's counter keeps the invariant.
LEMMA TxSample == ASSUME TxInv, T!thread_sample PROVE TxInv'
<1>1. pass' = <<read>> /\ UNCHANGED <<write, read, ring, tx_q>>
  BY DEF T!thread_sample
<1>2. pass' # << >> /\ pass'[1] = read /\ read \in Counter
  BY <1>1 DEF TxInv
<1>3. Len(ring) = Ahead(write, read) /\ Ahead(write, read) <= Half /\ Len(ring) <= Ahead(write, read)
  <2>1. Len(ring) \in Nat /\ Len(ring) = Ahead(write, read) /\ Len(ring) <= Mask
    BY DEF TxInv
  <2> QED BY <2>1, HalfRange
<1> QED BY <1>1, <1>2, <1>3 DEF TxInv

\* handle_tx() frees no skb whose entry core 0 has yet to read, though its
\* counter is one sampled earlier.
LEMMA TxHandle ==
    ASSUME TxInv, NEW r \in Counter, pass = <<r>>, T!handle_tx(r)
    PROVE  /\ tx_q' \in Seq(Buffer)
           /\ \A i \in 1 .. Len(ring) :
                ring[i] # -1 => \E j \in 1 .. Len(tx_q') : tx_q'[j].tag = ring[i]
<1> DEFINE unread == {i \in DOMAIN tx_q : T!NotYetRead(tx_q[i].tag, r)}
           kept == IF unread = {} THEN Len(tx_q) + 1 ELSE T!Min(unread)
<1>1. tx_q' = SubSeq(tx_q, kept, Len(tx_q))
  BY DEF T!handle_tx
<1>2. tx_q \in Seq(Buffer) /\ Len(tx_q) \in Nat /\ DOMAIN tx_q = 1 .. Len(tx_q)
  BY DEF TxInv
<1>3. /\ kept \in 1 .. Len(tx_q) + 1
      /\ \A j \in unread : kept \in unread /\ kept <= j
  <2>1. unread \subseteq 1 .. Len(tx_q) /\ unread \subseteq Nat
    BY <1>2
  <2>2. CASE unread = {}
    BY <1>2, <2>2
  <2>3. CASE unread # {}
    <3> HIDE DEF unread
    <3>1. T!Min(unread) \in unread /\ \A y \in unread : T!Min(unread) <= y
      BY <2>1, <2>3, LeastIs, Zenon
    <3>2. kept = T!Min(unread)
      BY <2>3
    <3> HIDE DEF kept
    <3>3. kept \in 1 .. Len(tx_q)
      BY <2>1, <3>1, <3>2, Zenon
    <3> QED BY <1>2, <3>1, <3>2, <3>3
  <2> QED BY <2>2, <2>3
<1> HIDE DEF kept
<1>4. /\ tx_q' \in Seq(Buffer) /\ Len(tx_q') = Len(tx_q) - kept + 1
      /\ \A k \in 1 .. Len(tx_q) - kept + 1 : tx_q'[k] = tx_q[kept + k - 1]
  BY <1>1, <1>2, <1>3
<1>5. ASSUME NEW i \in 1 .. Len(ring), ring[i] # -1
      PROVE  \E j \in 1 .. Len(tx_q') : tx_q'[j].tag = ring[i]
  <2>1. PICK j \in 1 .. Len(tx_q) : tx_q[j].tag = ring[i]
    BY <1>5 DEF TxInv
  <2>2. /\ write \in Counter /\ ring[i] \in Counter /\ Len(ring) \in Nat
        /\ Ahead(write, ring[i]) = Len(ring) - i + 1
        /\ Len(ring) <= Ahead(write, r) /\ Ahead(write, r) <= Half
    BY <1>5 DEF TxInv
  <2>3. Ahead(write, r) \in Counter
    BY <2>2, Advances, Zenon
  <2>4. Ahead(write, ring[i]) <= Ahead(write, r) /\ Ahead(write, ring[i]) >= 1
    BY <2>2, <2>3 DEF Counter
  <2>5. Ahead(ring[i], r) = Ahead(write, r) - Ahead(write, ring[i])
    BY <2>2, <2>4, AheadCompares
  <2>6. Ahead(ring[i], r) < Half
    BY <2>2, <2>3, <2>4, <2>5, HalfRange DEF Counter
  <2>7. j \in unread
    BY <1>2, <2>1, <2>6 DEF T!NotYetRead, Ahead, Half
  <2> HIDE DEF unread
  <2>8. kept <= j
    BY <1>3, <2>7
  <2>9. j - kept + 1 \in 1 .. Len(tx_q') /\ tx_q'[j - kept + 1] = tx_q[j]
    <3>1. j - kept + 1 \in 1 .. Len(tx_q) - kept + 1 /\ kept + (j - kept + 1) - 1 = j
      BY <1>2, <1>3, <2>8
    <3> QED BY <1>4, <3>1
  <2> QED BY <2>1, <2>9
<1> QED BY <1>4, <1>5

\* The end of a pass keeps the invariant.
LEMMA TxComplete == ASSUME TxInv, T!thread_complete PROVE TxInv'
<1>1. pass' = << >> /\ UNCHANGED <<write, read, ring>>
  BY DEF T!thread_complete
<1>2. PICK r \in Counter : pass = <<r>>
  BY DEF TxInv, T!thread_complete
<1>3. T!handle_tx(r) \/ UNCHANGED tx_q
  BY <1>2 DEF T!thread_complete
<1>4. /\ tx_q' \in Seq(Buffer)
      /\ \A i \in 1 .. Len(ring) :
           ring[i] # -1 => \E j \in 1 .. Len(tx_q') : tx_q'[j].tag = ring[i]
  <2>1. CASE T!handle_tx(r)
    BY <1>2, <2>1, TxHandle
  <2>2. CASE UNCHANGED tx_q
    BY <2>2 DEF TxInv
  <2> QED BY <1>3, <2>1, <2>2
<1> QED BY <1>1, <1>4, Zenon DEF TxInv

\* Every step of the driver and of core 0 keeps the invariant of ShmemTx.
LEMMA TxStep == TxInv /\ [T!Next]_(T!vars) => TxInv'
<1> SUFFICES ASSUME TxInv, [T!Next]_(T!vars) PROVE TxInv'
  OBVIOUS
<1>1. CASE T!esp_hard_start_xmit
  <2>1. PICK realloc \in {FALSE, MayLosePriv} : T!write_packet(~realloc)
    BY <1>1, Zenon DEF T!esp_hard_start_xmit
  <2>2. read' = read /\ pass' = pass
    BY <1>1 DEF T!esp_hard_start_xmit
  <2>3. (~realloc) \in BOOLEAN
    BY Zenon
  <2> QED BY <2>1, <2>2, <2>3, TxWrite, Zenon
<1>2. CASE T!esp_send_packet
  BY <1>2, TxWrite, Zenon DEF T!esp_send_packet
<1>3. CASE T!FirmwareInterrupts \/ T!esp32_ipc_irq_handler \/ UNCHANGED T!vars
  BY <1>3, TxFrame DEF T!FirmwareInterrupts, T!esp32_ipc_irq_handler, T!vars
<1> QED BY <1>1, <1>2, <1>3, TxFlash, TxFirmware, TxSample, TxComplete DEF T!Next

\* The invariant holds in every behaviour of ShmemTx.
LEMMA TxAlways == T!Spec => []TxInv
BY TxInit, TxStep, PTL DEF T!Spec

\* An skb stays on tx_q, so its memory is not freed, until core 0 has read the
\* ring entry that points to it, whatever the wrap of the counters and however
\* stale the counter handle_tx() works with.
THEOREM TxBuffersOutliveReads == T!Spec => []BuffersOutliveReads
<1>1. TxInv => BuffersOutliveReads
  BY DEF TxInv, BuffersOutliveReads, T!BuffersOutliveReads, T!Range, T!Flash
<1> QED BY <1>1, TxAlways, PTL
=============================================================================
