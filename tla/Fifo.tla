-------------------------------- MODULE Fifo --------------------------------
(* A bounded FIFO queue of packets that may refuse a packet.               *)
EXTENDS Sequences

CONSTANT Packets

VARIABLE queue

Put(p) == queue' = Append(queue, p)
Take   == queue # <<>> /\ queue' = Tail(queue)

Init == queue = <<>>
Next == Take \/ \E p \in Packets : Put(p)
Spec == Init /\ [][Next]_queue
=============================================================================
