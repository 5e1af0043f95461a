-------------------------------- MODULE Fifo --------------------------------
(* What a one-way channel between the two cores promises: messages arrive  *)
(* once, unchanged and in the order they were sent, and at most Capacity   *)
(* of them are under way.                                                  *)
EXTENDS Naturals, Sequences

CONSTANTS Msg, Capacity
VARIABLE queue

Init == queue = << >>

Send == \E m \in Msg : Len(queue) < Capacity /\ queue' = Append(queue, m)
Receive == queue # << >> /\ queue' = Tail(queue)

Next == Send \/ Receive
Spec == Init /\ [][Next]_queue
=============================================================================
