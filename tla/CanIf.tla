---------------------------------- MODULE CanIf ----------------------------------
(***************************************************************************)
(* The back end above AUTOSAR's CanIf (driver/can/can_canif.c): received   *)
(* frames come by callback and cross to the task through a ring of one     *)
(* producer and one consumer (can_ring.h); sent frames are counted until   *)
(* CanIf confirms them.  The callbacks run at any point of the task.       *)
(* A frame is its number, stored and loaded as two words.                  *)
(***************************************************************************)
EXTENDS Integers

CONSTANTS
    RingCap,        \* BLOB_CAN_RING_CAP, a power of two
    RingMod,        \* 2^32, the indices' width
    MaxIndications, MaxSends, MaxRuns   \* bounds: frames received, sent; sessions

ASSUME CanIfAssumption ==
    /\ RingCap \in Nat \ {0} /\ RingMod \in Nat \ {0} /\ RingMod % RingCap = 0 /\ RingMod > RingCap
    /\ MaxIndications \in Nat /\ MaxSends \in Nat /\ MaxRuns \in Nat \ {0}

VARIABLES
    slot, head, tail,           \* blob_can_ring
    rxLost, txPending,          \* rx_lost, tx_pending
    started,                    \* the controller's mode
    ppc, ph, indicated,         \* the producer: its place, its head; frames indicated
    qpc, qt, msg,               \* the consumer: its place, its tail, its copy
    spc, inFlight, sends,       \* the sender: its place; frames CanIf took and has not confirmed
    runs, before,               \* sessions; frames indicated before this one
    given, holes, spilled       \* the last frame given; holes seen in this session's; dropped

ringVars == <<slot, head, tail>>
producerVars == <<ppc, ph, indicated, rxLost, spilled>>
consumerVars == <<qpc, qt, msg, given, holes>>
senderVars == <<spc, inFlight, sends, txPending>>
canIfVars == <<ringVars, producerVars, consumerVars, senderVars, started, runs, before>>

CanIfInit ==
    /\ slot = [s \in 0 .. RingCap - 1 |-> <<0, 0>>] /\ head = 0 /\ tail = 0
    /\ rxLost = 0 /\ txPending = 0 /\ started = FALSE
    /\ ppc = "idle" /\ ph = 0 /\ indicated = 0
    /\ qpc = "idle" /\ qt = 0 /\ msg = <<0, 0>>
    /\ spc = "idle" /\ inFlight = 0 /\ sends = 0
    /\ runs = 0 /\ before = 0 /\ given = 0 /\ holes = 0 /\ spilled = 0

Apart(h, t) == (h - t) % RingMod
SlotAt(i) == i % RingCap

-------------------------------------------------------------------------------
(***************************************************************************)
(* Blobly_RxIndication: blob_ring_push, or the frame is lost and counted.  *)
(***************************************************************************)
OnlyProducer == UNCHANGED <<tail, consumerVars, senderVars, started, runs, before>>

\* A slip: one frame more than the ring holds.
RoomForOneMore(h, t) == Apart(h, t) <= RingCap
Room(h, t) == Apart(h, t) < RingCap

Indication ==
    /\ ppc = "idle" /\ started /\ indicated < MaxIndications
    /\ indicated' = indicated + 1
    /\ IF Room(head, tail)
       THEN ppc' = "id" /\ ph' = head /\ UNCHANGED <<rxLost, spilled>>
       ELSE rxLost' = rxLost + 1 /\ spilled' = spilled + 1 /\ UNCHANGED <<ppc, ph>>
    /\ UNCHANGED <<slot, head>> /\ OnlyProducer

PushCopy ==
    /\ ppc \in {"id", "data"}
    /\ slot' = [slot EXCEPT ![SlotAt(ph)][IF ppc = "id" THEN 1 ELSE 2] = indicated]
    /\ ppc' = IF ppc = "id" THEN "data" ELSE "publish"
    /\ UNCHANGED <<head, ph, indicated, rxLost, spilled>> /\ OnlyProducer

PushPublish ==
    /\ ppc = "publish"
    /\ head' = (ph + 1) % RingMod
    /\ ppc' = "idle"
    /\ UNCHANGED <<slot, ph, indicated, rxLost, spilled>> /\ OnlyProducer

-------------------------------------------------------------------------------
(***************************************************************************)
(* blob_can_recv: blob_ring_pop.                                           *)
(***************************************************************************)
OnlyConsumer == UNCHANGED <<slot, head, producerVars, senderVars, started, runs, before>>

PopBegin ==
    /\ qpc = "idle" /\ head # tail
    /\ qt' = tail
    /\ qpc' = "id"
    /\ UNCHANGED <<tail, msg, given, holes>> /\ OnlyConsumer

PopCopy ==
    /\ qpc \in {"id", "data"}
    /\ msg' = [msg EXCEPT ![IF qpc = "id" THEN 1 ELSE 2] = slot[SlotAt(qt)][IF qpc = "id" THEN 1 ELSE 2]]
    /\ qpc' = IF qpc = "id" THEN "data" ELSE "free"
    /\ UNCHANGED <<tail, qt, given, holes>> /\ OnlyConsumer

PopFree ==
    /\ qpc = "free"
    /\ tail' = (qt + 1) % RingMod
    /\ given' = msg[1]
    /\ holes' = IF msg[1] > given + 1 /\ msg[1] > before + 1 THEN holes + 1 ELSE holes
    /\ qpc' = "idle"
    /\ UNCHANGED <<qt, msg>> /\ OnlyConsumer

-------------------------------------------------------------------------------
(***************************************************************************)
(* blob_can_send counts the frame before CanIf_Transmit, which may confirm *)
(* it before it returns, and takes the count back from one CanIf refused.  *)
(***************************************************************************)
OnlySender == UNCHANGED <<ringVars, producerVars, consumerVars, started, runs, before>>

SendCounts ==
    /\ spc = "idle" /\ sends < MaxSends
    /\ sends' = sends + 1
    /\ txPending' = txPending + 1
    /\ spc' = "transmit"
    /\ UNCHANGED inFlight /\ OnlySender

\* CanIf takes it, or refuses it: when the controller is stopped, or its buffers are full.
Transmit(takes) ==
    /\ spc = "transmit" /\ (takes => started)
    /\ inFlight' = IF takes THEN inFlight + 1 ELSE inFlight
    /\ spc' = IF takes THEN "idle" ELSE "undo"
    /\ UNCHANGED <<txPending, sends>> /\ OnlySender

SendUndoes ==
    /\ spc = "undo"
    /\ txPending' = txPending - 1
    /\ spc' = "idle"
    /\ UNCHANGED <<inFlight, sends>> /\ OnlySender

\* Blobly_TxConfirmation
TxConfirmation ==
    /\ inFlight > 0 /\ started
    /\ inFlight' = inFlight - 1
    /\ txPending' = txPending - 1
    /\ UNCHANGED <<spc, sends>> /\ OnlySender

-------------------------------------------------------------------------------
\* The task's open and close.  A stopped controller drops what was in flight and confirms
\* none of it; an open resets the loss tally and nothing else, so a hole between frames
\* still in the ring from the session before is not in it.
CanIfOpen ==
    /\ ~started /\ runs < MaxRuns /\ qpc = "idle" /\ spc = "idle" /\ ppc = "idle"
    /\ started' = TRUE /\ runs' = runs + 1
    /\ rxLost' = 0 /\ spilled' = 0 /\ holes' = 0 /\ before' = indicated
    /\ UNCHANGED <<ringVars, ppc, ph, indicated, qpc, qt, msg, given, senderVars>>

CanIfClose ==
    /\ started /\ qpc = "idle" /\ spc = "idle"
    /\ started' = FALSE
    /\ inFlight' = 0
    /\ UNCHANGED <<ringVars, producerVars, consumerVars, spc, sends, txPending, runs, before>>

Callbacks == Indication \/ PushCopy \/ PushPublish \/ TxConfirmation
Task ==
    \/ PopBegin \/ PopCopy \/ PopFree
    \/ SendCounts \/ (\E takes \in BOOLEAN : Transmit(takes)) \/ SendUndoes
    \/ CanIfOpen \/ CanIfClose
CanIfNext == Callbacks \/ Task

CanIfSpec == CanIfInit /\ [][CanIfNext]_canIfVars

-------------------------------------------------------------------------------
\* A frame popped is one frame, whole, and later than the one before; every hole between
\* them shows in the loss tally (blob_can_recv, blob_can_rx_overruns).
RingIntact ==
    /\ qpc = "free" => msg[1] = msg[2] /\ msg[1] > given
    /\ holes <= rxLost /\ rxLost = spilled

\* While a frame is in CanIf the count is not zero, and it never passes below: a node
\* that resets itself on tx_idle does not lose the response it waits for.
WireDone == txPending >= inFlight + (IF spc = "idle" THEN 0 ELSE 1)

\* What can_port.h promises the callers.
CanIfHonest == RingIntact /\ WireDone

===================================================================================
