---------------------------------- MODULE EthDma ---------------------------------
(***************************************************************************)
(* The Ethernet MAC's descriptor rings (boards/h735dk/eth.c, the same in   *)
(* boards/h723/eth.c) under NetX's driver (net/nx_driver_stm32h7.c).  The  *)
(* DMA works on the rings at any step of the driver; it suspends when it   *)
(* meets a descriptor that is not its own, and only a write of the tail    *)
(* pointer wakes it.  The driver is entered by one thread at a time, under *)
(* the IP instance's mutex; the interrupt only asks for a deferred entry.  *)
(***************************************************************************)
EXTENDS Integers

CONSTANTS
    RxCnt, TxCnt,       \* ETH_RX_DESC_CNT, ETH_TX_DESC_CNT
    PoolCount,          \* packets of the pool
    MaxRx, MaxTx,       \* bounds: frames on the wire, frames sent
    MaxDisables         \* bound: NX_LINK_DISABLE commands

ASSUME EthDmaAssumption ==
    /\ RxCnt \in Nat \ {0} /\ TxCnt \in Nat \ {0, 1} /\ PoolCount \in Nat
    /\ MaxRx \in Nat /\ MaxTx \in Nat /\ MaxDisables \in Nat

VARIABLES
    rxOwn, rxFrame,         \* RDES3.OWN (the DMA's); what it wrote: "whole", "part" or none
    rxDma, rxRuns,          \* the DMA's descriptor; it is not suspended
    rxIdx,                  \* rx_idx
    txOwn, txDma, txTail, txRuns,   \* TDES3.OWN; the DMA's descriptor, the tail pointer
    txIdx,                  \* tx_idx
    ri, isrAt, rxCb,        \* DMACSR.RI; where the handler is; rx_cb
    deferred,               \* the IP thread's event
    drv, into,              \* where the driver is; what it receives into
    pool, stack,            \* packets free; packets with NetX and its sockets
    frames, handed, disables  \* counts for the bounds

rxVars == <<rxOwn, rxFrame, rxDma, rxRuns, rxIdx>>
txVars == <<txOwn, txDma, txTail, txRuns, txIdx>>
isrVars == <<ri, isrAt, deferred>>
ethVars == <<rxVars, txVars, isrVars, rxCb, drv, into, pool, stack, frames, handed, disables>>

\* rings_init, then NX_LINK_INITIALIZE: everything is the DMA's to receive into, and
\* nothing is there to send.
EthInit ==
    /\ rxOwn = [d \in 0 .. RxCnt - 1 |-> TRUE] /\ rxFrame = [d \in 0 .. RxCnt - 1 |-> "none"]
    /\ rxDma = 0 /\ rxRuns = TRUE /\ rxIdx = 0
    /\ txOwn = [d \in 0 .. TxCnt - 1 |-> FALSE]
    /\ txDma = 0 /\ txTail = 0 /\ txRuns = FALSE /\ txIdx = 0
    /\ ri = FALSE /\ isrAt = "idle" /\ rxCb = TRUE /\ deferred = FALSE
    /\ drv = "idle" /\ into = "packet"
    /\ pool = PoolCount /\ stack = 0
    /\ frames = 0 /\ handed = 0 /\ disables = 0

-------------------------------------------------------------------------------
(***************************************************************************)
(* The DMA.                                                                *)
(***************************************************************************)
OnlyDma == UNCHANGED <<rxIdx, txTail, txIdx, isrAt, deferred, rxCb, drv, into, pool, stack, handed, disables>>

\* A frame, or a fragment of one; without a descriptor it is lost.
FrameComes(what) ==
    /\ frames < MaxRx
    /\ frames' = frames + 1
    /\ IF rxRuns /\ rxOwn[rxDma]
       THEN /\ rxOwn' = [rxOwn EXCEPT ![rxDma] = FALSE]
            /\ rxFrame' = [rxFrame EXCEPT ![rxDma] = what]
            /\ rxDma' = (rxDma + 1) % RxCnt
            /\ ri' = TRUE
            /\ UNCHANGED rxRuns
       ELSE rxRuns' = FALSE /\ UNCHANGED <<rxOwn, rxFrame, rxDma, ri>>
    /\ UNCHANGED <<txOwn, txDma, txRuns>> /\ OnlyDma

\* With the tail at its own descriptor the DMA sees no work.
TxDmaStep ==
    /\ txRuns
    /\ IF txDma = txTail \/ ~txOwn[txDma]
       THEN txRuns' = FALSE /\ UNCHANGED <<txOwn, txDma>>
       ELSE /\ txOwn' = [txOwn EXCEPT ![txDma] = FALSE]
            /\ txDma' = (txDma + 1) % TxCnt
            /\ UNCHANGED txRuns
    /\ UNCHANGED <<rxOwn, rxFrame, rxDma, rxRuns, ri, frames>> /\ OnlyDma

-------------------------------------------------------------------------------
(***************************************************************************)
(* ETH_IRQHandler: it clears the flags it read, then calls back.  No       *)
(* thread runs in between.                                                 *)
(***************************************************************************)
OnlyIsr == UNCHANGED <<rxVars, txVars, rxCb, drv, into, pool, stack, frames, handed, disables>>

IsrClears ==
    /\ isrAt = "idle" /\ ri
    /\ ri' = FALSE
    /\ isrAt' = "call"
    /\ UNCHANGED deferred /\ OnlyIsr

\* nx_driver_rx_signal
IsrSignals ==
    /\ isrAt = "call"
    /\ deferred' = (deferred \/ rxCb)
    /\ isrAt' = "idle"
    /\ UNCHANGED ri /\ OnlyIsr

-------------------------------------------------------------------------------
(***************************************************************************)
(* nx_driver_receive and the drain of NX_LINK_ENABLE.                      *)
(***************************************************************************)
NoIsr == isrAt = "idle"
OnlyReceive == UNCHANGED <<txVars, ri, isrAt, frames, handed>>

DeferredBegins ==
    /\ NoIsr /\ drv = "idle" /\ deferred
    /\ deferred' = FALSE
    /\ drv' = "alloc"
    /\ UNCHANGED <<rxVars, rxCb, into, pool, stack, disables>> /\ OnlyReceive

\* A slip: with no packet to receive into, it gives up.
GivesUpDry ==
    /\ NoIsr /\ drv = "alloc"
    /\ IF pool > 0
       THEN pool' = pool - 1 /\ into' = "packet" /\ drv' = "look"
       ELSE drv' = "idle" /\ UNCHANGED <<pool, into>>
    /\ UNCHANGED <<rxVars, deferred, rxCb, stack, disables>> /\ OnlyReceive

\* With no packet left the ring is still drained, into scratch.
Allocates ==
    /\ NoIsr /\ drv = "alloc"
    /\ IF pool > 0 THEN pool' = pool - 1 /\ into' = "packet"
       ELSE into' = "scratch" /\ UNCHANGED pool
    /\ drv' = "look"
    /\ UNCHANGED <<rxVars, deferred, rxCb, stack, disables>> /\ OnlyReceive

\* eth_recv: nothing pending ...
FindsNone ==
    /\ NoIsr /\ drv = "look" /\ rxOwn[rxIdx]
    /\ pool' = IF into = "packet" THEN pool + 1 ELSE pool
    /\ drv' = "idle"
    /\ UNCHANGED <<rxVars, deferred, rxCb, into, stack, disables>> /\ OnlyReceive

\* ... or a descriptor, copied out and given back: its OWN bit, then the doorbell
GivesBack ==
    /\ NoIsr /\ drv = "look" /\ ~rxOwn[rxIdx]
    /\ rxOwn' = [rxOwn EXCEPT ![rxIdx] = TRUE]
    /\ drv' = "bell"
    /\ UNCHANGED <<rxFrame, rxDma, rxRuns, rxIdx, deferred, rxCb, into, pool, stack, disables>>
    /\ OnlyReceive

\* A part of a frame is passed over; a packet goes to NetX, which takes it or not.
RxBell(taken) ==
    /\ NoIsr /\ drv = "bell"
    /\ rxRuns' = TRUE
    /\ rxIdx' = (rxIdx + 1) % RxCnt
    /\ rxFrame' = [rxFrame EXCEPT ![rxIdx] = "none"]
    /\ IF into = "packet" /\ rxFrame[rxIdx] = "whole"
       THEN /\ drv' = "alloc"
            /\ IF taken THEN stack' = stack + 1 /\ UNCHANGED pool
               ELSE pool' = pool + 1 /\ UNCHANGED stack
       ELSE drv' = "look" /\ ~taken /\ UNCHANGED <<pool, stack>>
    /\ UNCHANGED <<rxOwn, rxDma, deferred, rxCb, into, disables>> /\ OnlyReceive

\* NX_LINK_ENABLE: the callback first, then the drain of what came while it was off
Enables ==
    /\ NoIsr /\ drv = "idle" /\ disables > 0
    /\ rxCb' = TRUE
    /\ into' = "scratch"
    /\ drv' = "look"
    /\ UNCHANGED <<rxVars, deferred, pool, stack, disables>> /\ OnlyReceive

Disables ==
    /\ NoIsr /\ drv = "idle" /\ disables < MaxDisables
    /\ rxCb' = FALSE
    /\ disables' = disables + 1
    /\ UNCHANGED <<rxVars, deferred, drv, into, pool, stack>> /\ OnlyReceive

-------------------------------------------------------------------------------
(***************************************************************************)
(* Sockets: a packet is sent through the driver (eth_send), or received    *)
(* and released.                                                           *)
(***************************************************************************)
OnlySend == UNCHANGED <<rxVars, isrVars, rxCb, into, frames, disables>>

\* blob_eth_recv
Consumes ==
    /\ NoIsr /\ stack > 0
    /\ stack' = stack - 1 /\ pool' = pool + 1
    /\ UNCHANGED <<txVars, drv, handed>> /\ OnlySend

\* blob_eth_send, to NX_LINK_PACKET_SEND
EthSends ==
    /\ NoIsr /\ drv = "idle" /\ pool > 0 /\ handed < MaxTx
    /\ pool' = pool - 1
    /\ handed' = handed + 1
    /\ drv' = "txcheck"
    /\ UNCHANGED <<txVars, stack>> /\ OnlySend

NextTx(d) == (d + 1) % TxCnt

\* A slip: the last free descriptor is used too.
TxFreeOne == ~txOwn[txIdx]
\* One descriptor stays free, so that the tail never comes round to the DMA's own.
TxFree == ~txOwn[txIdx] /\ ~txOwn[NextTx(txIdx)]

TxChecks ==
    /\ NoIsr /\ drv = "txcheck"
    /\ IF TxFree THEN drv' = "txown" /\ UNCHANGED pool
       ELSE drv' = "idle" /\ pool' = pool + 1
    /\ UNCHANGED <<txVars, stack, handed>> /\ OnlySend

TxOwns ==
    /\ NoIsr /\ drv = "txown"
    /\ txOwn' = [txOwn EXCEPT ![txIdx] = TRUE]
    /\ txIdx' = NextTx(txIdx)
    /\ drv' = "txbell"
    /\ UNCHANGED <<txDma, txTail, txRuns, pool, stack, handed>> /\ OnlySend

TxBell ==
    /\ NoIsr /\ drv = "txbell"
    /\ txTail' = txIdx /\ txRuns' = TRUE
    /\ pool' = pool + 1
    /\ drv' = "idle"
    /\ UNCHANGED <<txOwn, txDma, txIdx, stack, handed>> /\ OnlySend

Hardware == (\E what \in {"whole", "part"} : FrameComes(what)) \/ TxDmaStep \/ IsrClears \/ IsrSignals
RxSide ==
    \/ DeferredBegins \/ Allocates \/ FindsNone \/ GivesBack
    \/ (\E taken \in BOOLEAN : RxBell(taken)) \/ Enables \/ Disables
TxSide == Consumes \/ EthSends \/ TxChecks \/ TxOwns \/ TxBell
EthNext == Hardware \/ RxSide \/ TxSide

EthSpec == EthInit /\ [][EthNext]_ethVars

-------------------------------------------------------------------------------
\* Reception never dies: with the callback armed, nobody in the driver and no entry asked
\* for, every descriptor is the DMA's and it runs, whatever came while the link was
\* disabled or the pool was empty (NX_LINK_ENABLE, nx_driver_receive, eth_recv).
ReceptionLives ==
    rxCb /\ drv = "idle" /\ isrAt = "idle" /\ ~ri /\ ~deferred =>
        rxRuns /\ \A d \in DOMAIN rxOwn : rxOwn[d]

\* Transmission never wedges: a DMA at rest has no frame left to send, unless one is
\* being queued (eth_send's reserved descriptor, OWN before the doorbell).
TransmissionLives == ~txRuns /\ drv # "txbell" => \A d \in DOMAIN txOwn : ~txOwn[d]

\* No command keeps a packet: each is free, with NetX, or in the driver's hands.
PacketsKept ==
    LET held == IF \/ drv \in {"txcheck", "txown", "txbell"}
                   \/ drv \in {"look", "bell"} /\ into = "packet" THEN 1 ELSE 0
    IN  pool + stack + held = PoolCount

\* The driver keeps both directions and the packet pool alive.
EthAlive == ReceptionLives /\ TransmissionLives /\ PacketsKept

===================================================================================
