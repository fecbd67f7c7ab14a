---------------------------- MODULE ObByteQueue ----------------------------
(***************************************************************************)
(* The byte queue (src/vmm/ob/ob_bytequeue.c): packets of different sizes  *)
(* in a ring of bytes, each with the offset of the next.  A packet that    *)
(* does not fit behind the last one is placed at the start of the ring.    *)
(* What was written is kept per offset; a packet destroys those it is      *)
(* written over.  Every operation runs under the lock of the queue.        *)
(***************************************************************************)
EXTENDS Integers, Sequences, FiniteSets

CONSTANTS
    QueueBytes,     \* cb
    Header,         \* sizeof(BYTEQUEUE_PACKET)
    QPackets        \* <<tag, size>> that are pushed

ASSUME QueueAssumption ==
    QueueBytes \in Nat /\ Header \in Nat \ {0} /\ \A p \in QPackets : p = <<p[1], p[2]>> /\ p[2] \in Nat

VARIABLES cPackets, cboHead, cboTail, ring

queueVars == <<cPackets, cboHead, cboTail, ring>>

Nothing == [p |-> <<>>, next |-> 0]
QueueInit == cPackets = 0 /\ cboHead = 0 /\ cboTail = 0 /\ ring = [x \in 0..(QueueBytes - 1) |-> Nothing]

Bytes(p)   == Header + p[2]
EndOf(x)   == x + Bytes(ring[x].p)

(* Mutant: the packet at the head is not looked at.                        *)
SpaceToEnd(end) == QueueBytes - end

(* The bytes behind the last packet.                                       *)
Space(end) == (IF cboHead < end THEN QueueBytes ELSE cboHead) - end

(* Where p is placed, or -1.                                               *)
Place(p) ==
    IF QueueBytes < Bytes(p) THEN -1
    ELSE IF cPackets = 0 THEN 0
    ELSE IF Space(EndOf(cboTail)) >= Bytes(p) THEN EndOf(cboTail)
    ELSE IF cboTail > cboHead /\ cboHead >= Bytes(p) THEN 0
    ELSE -1

QueuePush(p) ==
    LET x == Place(p) IN
    /\ x # -1
    /\ ring' = [y \in DOMAIN ring |->
                  IF y = x THEN [p |-> p, next |-> 0]
                  ELSE IF ring[y].p # <<>> /\ y < x + Bytes(p) /\ EndOf(y) > x THEN Nothing
                  ELSE IF y = cboTail /\ cPackets > 0 THEN [ring[y] EXCEPT !.next = x] ELSE ring[y]]
    /\ cPackets' = cPackets + 1 /\ cboTail' = x /\ UNCHANGED cboHead

QueuePop ==
    /\ cPackets > 0 /\ cPackets' = cPackets - 1
    /\ IF cPackets = 1 THEN cboHead' = 0 /\ cboTail' = 0
       ELSE cboHead' = ring[cboHead].next /\ UNCHANGED cboTail
    /\ ring' = [ring EXCEPT ![cboHead] = Nothing]     \* nobody reads it again

QueueNext == QueuePop \/ \E p \in QPackets : QueuePush(p)
QueueSpec == QueueInit /\ [][QueueNext]_queueVars

(* The n packets of a ring from an offset on.                              *)
PacketsFrom(r, x, n) ==
    LET at[i \in 1..n] == IF i = 1 THEN x ELSE r[at[i - 1]].next IN [i \in 1..n |-> r[at[i]].p]
Pending == PacketsFrom(ring, cboHead, cPackets)

Queue == INSTANCE Fifo WITH Packets <- QPackets, queue <- Pending

(* "FIFO queue" (ob_bytequeue.c, ObByteQueue_New): whatever the sizes and  *)
(* however often the ring wraps, packets are popped as they were pushed,   *)
(* and none is overwritten.                                                *)
QueueIsFifo == Queue!Spec
=============================================================================
