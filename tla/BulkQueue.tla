------------------------------ MODULE BulkQueue ------------------------------
(***************************************************************************)
(* What the bulk transport promises its two users                          *)
(* (requirements/bulk.toml, REQ-BULK-001 and REQ-BULK-002): a pool of      *)
(* NBuf buffers, each of which is free, lent to the producer, published    *)
(* and waiting in publish order, or held by the consumer; a message that   *)
(* is held does not change until it is released, and every word the        *)
(* consumer reads of it is a word of that one message.                     *)
(*                                                                         *)
(* A message is a single value here and has Words words, all of which an   *)
(* intact copy shows as that value.                                        *)
(***************************************************************************)
EXTENDS Naturals, Sequences, FiniteSets

CONSTANTS Buf, Message, Words

VARIABLES
    lent,     \* how many buffers the producer holds
    queue,    \* the messages published and not yet taken, oldest first
    held      \* per buffer: the message the consumer holds in it and what it
              \* has read of it, or NotHeld

qvars == <<lent, queue, held>>

NotHeld == [msg |-> 0, saw |-> [w \in Words |-> 0]]

HeldBufs == {b \in Buf : held[b] # NotHeld}

QInit == lent = 0 /\ queue = <<>> /\ held = [b \in Buf |-> NotHeld]

QLoan ==
    /\ lent + Len(queue) + Cardinality(HeldBufs) < Cardinality(Buf)
    /\ lent' = lent + 1
    /\ UNCHANGED <<queue, held>>

QPublish(m) ==
    /\ lent > 0
    /\ lent' = lent - 1
    /\ queue' = Append(queue, m)
    /\ UNCHANGED held

QTake(b) ==
    /\ queue # <<>> /\ b \notin HeldBufs
    /\ queue' = Tail(queue)
    /\ held' = [held EXCEPT ![b] = [NotHeld EXCEPT !.msg = Head(queue)]]
    /\ UNCHANGED lent

QRead(b, w) ==
    /\ b \in HeldBufs
    /\ held' = [held EXCEPT ![b].saw[w] = held[b].msg]
    /\ UNCHANGED <<lent, queue>>

QRelease(b) ==
    /\ b \in HeldBufs
    /\ held' = [held EXCEPT ![b] = NotHeld]
    /\ UNCHANGED <<lent, queue>>

QNext ==
    \/ QLoan
    \/ \E m \in Message : QPublish(m)
    \/ \E b \in Buf : QTake(b) \/ QRelease(b)
    \/ \E b \in Buf, w \in Words : QRead(b, w)

QSpec == QInit /\ [][QNext]_qvars
=============================================================================
