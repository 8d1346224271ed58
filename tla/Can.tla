----------------------------------- MODULE Can -----------------------------------
(***************************************************************************)
(* One CAN bus of a node, behind can_port.h: the controller (or the        *)
(* kernel's socket), its driver and the one thread that owns it.           *)
(*   "fdcan"   registers of the M_CAN core (can_fdcan.c)                   *)
(*   "sthal"   the same core through ST's HAL (can_sthal.c)                *)
(*   "socket"  SocketCAN on a host (can_socket.c)                          *)
(* The comm thread blocks on a semaphore its receive interrupt puts        *)
(* (comm_glue.c) and drains; a host polls.  Frames keep arriving, and the  *)
(* controller goes bus-off, between any two accesses of the driver.        *)
(***************************************************************************)
EXTENDS Integers, Sequences

CONSTANTS
    FifoDepth,      \* RX0_ELMTS; the socket's queue
    TxDepth,        \* TX_ELMTS
    MaxFrames,      \* bound: frames on the bus in a session
    MaxOffs,        \* bound: times the controller goes bus-off in a session
    MaxOpens        \* bound: sessions

ASSUME CanAssumption ==
    /\ FifoDepth \in Nat \ {0} /\ TxDepth \in Nat \ {0} /\ MaxFrames \in Nat
    /\ MaxOffs \in Nat /\ MaxOpens \in Nat \ {0}

VARIABLES
    cback,                  \* the back end
    \* the controller, or the kernel
    fifo,                   \* received: [told, drops, remote]; drops as SO_RXQ_OVFL reports them
    lost,                   \* IR.RF0L; the kernel's count of dropped frames
    news,                   \* IR.RF0N
    inInit, busOff,         \* CCCR.INIT, PSR.BO
    txbrp,                  \* transmissions requested and not done
    \* the driver
    tally,                  \* g_rx_lost, rx_lost, g_ovfl
    closed, recovering, recovered,  \* g_closed, g_recovering, g_busoff_rec
    \* the thread
    cpc, sem, made, ie,     \* its place; g_comm_sem, g_comm_sem_made; IE.RF0NE
    \* history
    opens, came, dropped,   \* sessions; frames of this one, frames lost
    toldAt, silent,         \* the count when the last frame was lost, of those behind fifo; a
                            \* frame was given behind a loss that the count does not show
    offs, backs, carried    \* bus-off and back in this session; off before it

hwVars == <<fifo, lost, news, inInit, busOff, txbrp>>
drvVars == <<tally, closed, recovering, recovered>>
threadVars == <<sem, made, ie>>
histVars == <<opens, came, dropped, toldAt, silent, offs, backs, carried>>
canVars == <<cback, hwVars, drvVars, cpc, threadVars, histVars>>

Socket == cback = "socket"

\* No frame was lost since the last one that went into the FIFO.
NoneLost == -1

\* The count that a loss must raise.  A call of recv that is about to clear the flag has
\* counted it already; the HAL clears it after it has started the controller, and what was
\* lost before that is never told.
CountAtLoss ==
    CASE cpc = "ack" -> tally - 1
      [] cpc = "clear" -> NoneLost
      [] OTHER -> tally

CanInit ==
    /\ cback \in {"fdcan", "sthal", "socket"}
    /\ fifo = <<>> /\ lost = 0 /\ news = FALSE
    /\ inInit = TRUE /\ busOff = FALSE /\ txbrp = 0
    /\ tally = 0 /\ closed = FALSE /\ recovering = FALSE /\ recovered = 0
    /\ cpc = "shut" /\ sem = 0 /\ made = FALSE /\ ie = FALSE
    /\ opens = 0 /\ came = 0 /\ dropped = 0 /\ toldAt = NoneLost /\ silent = FALSE
    /\ offs = 0 /\ backs = 0 /\ carried = FALSE

-------------------------------------------------------------------------------
(***************************************************************************)
(* The bus and the controller.                                             *)
(***************************************************************************)
OnBus == ~inInit /\ ~busOff
OnlyHw == UNCHANGED <<cback, drvVars, cpc, threadVars, opens, silent, carried>>

\* A frame; to a full FIFO it is lost, and only the flag or the count says so.
\* The M_CAN filter rejects remote frames, a socket queues them.
Arrives(remote) ==
    /\ OnBus /\ came < MaxFrames /\ (remote => Socket)
    /\ came' = came + 1
    /\ IF Len(fifo) < FifoDepth
       THEN /\ fifo' = Append(fifo, [told |-> toldAt, drops |-> lost, remote |-> remote])
            /\ news' = ~Socket
            /\ toldAt' = NoneLost
            /\ UNCHANGED <<lost, dropped>>
       ELSE /\ lost' = IF Socket THEN lost + 1 ELSE 1
            /\ dropped' = dropped + 1
            /\ toldAt' = CountAtLoss
            /\ UNCHANGED <<fifo, news>>
    /\ UNCHANGED <<inInit, busOff, txbrp, offs, backs>> /\ OnlyHw

\* The controller leaves the bus by itself and latches INIT; on a bad bus again
\* before it was back.
GoesOff ==
    /\ ~inInit /\ ~Socket /\ offs < MaxOffs
    /\ busOff' = TRUE /\ inInit' = TRUE
    /\ offs' = offs + 1
    /\ UNCHANGED <<fifo, lost, news, txbrp, came, dropped, toldAt, backs>> /\ OnlyHw

\* 129 sequences of 11 recessive bits after INIT was cleared
ComesBack ==
    /\ busOff /\ ~inInit
    /\ busOff' = FALSE
    /\ backs' = backs + 1
    /\ UNCHANGED <<fifo, lost, news, inInit, txbrp, came, dropped, toldAt, offs>> /\ OnlyHw

GoesOut ==
    /\ OnBus /\ txbrp > 0
    /\ txbrp' = txbrp - 1
    /\ UNCHANGED <<fifo, lost, news, inInit, busOff, came, dropped, toldAt, offs, backs>> /\ OnlyHw

\* comm_rx_isr, when the interrupt is enabled and the frame's flag is set
Isr ==
    /\ ie /\ news
    /\ news' = FALSE
    /\ sem' = sem + 1
    /\ UNCHANGED <<cback, fifo, lost, inInit, busOff, txbrp, drvVars, cpc, made, ie, histVars>>

-------------------------------------------------------------------------------
(***************************************************************************)
(* open, close and the arming of the interrupt.                            *)
(***************************************************************************)
NewSession ==
    /\ opens' = opens + 1
    /\ came' = 0 /\ dropped' = 0 /\ toldAt' = NoneLost /\ silent' = FALSE
    /\ offs' = 0 /\ backs' = 0 /\ carried' = busOff

\* INIT, then CCE, which resets both FIFOs
OpenInit ==
    /\ cpc = "shut" /\ cback = "fdcan" /\ opens < MaxOpens
    /\ inInit' = TRUE /\ fifo' = <<>> /\ txbrp' = 0
    /\ NewSession
    /\ cpc' = "clear"
    /\ UNCHANGED <<cback, lost, news, busOff, drvVars, threadVars>>

\* HAL_FDCAN_Start, of a handle that is not started
OpenStart ==
    /\ cpc = "shut" /\ cback = "sthal" /\ opens < MaxOpens
    /\ inInit' = FALSE
    /\ NewSession
    /\ cpc' = "clear"
    /\ UNCHANGED <<cback, fifo, lost, news, busOff, txbrp, drvVars, threadVars>>

OpenSocket ==
    /\ cpc = "shut" /\ Socket /\ opens < MaxOpens
    /\ inInit' = FALSE /\ fifo' = <<>> /\ lost' = 0 /\ news' = FALSE
    /\ tally' = 0
    /\ NewSession
    /\ cpc' = "arm"
    /\ UNCHANGED <<cback, busOff, txbrp, closed, recovering, recovered, threadVars>>

OpenClear ==
    /\ cpc = "clear"
    /\ lost' = 0 /\ tally' = 0
    /\ closed' = FALSE /\ recovering' = FALSE /\ recovered' = 0
    /\ cpc' = IF cback = "fdcan" THEN "leave" ELSE "arm"
    /\ UNCHANGED <<cback, fifo, news, inInit, busOff, txbrp, threadVars, histVars>>

OpenLeave ==
    /\ cpc = "leave"
    /\ inInit' = FALSE
    /\ cpc' = "arm"
    /\ UNCHANGED <<cback, fifo, lost, news, busOff, txbrp, drvVars, threadVars, histVars>>

\* A slip: the semaphore is created again for the next bus, or the next session.
ArmSemAgain ==
    /\ cpc = "arm"
    /\ made' = TRUE /\ sem' = 0
    /\ cpc' = "ie"
    /\ UNCHANGED <<cback, hwVars, drvVars, ie, histVars>>

\* comm_rx_irq_enable_idx: the semaphore once, then the interrupt; a host has neither.
ArmSem ==
    /\ cpc = "arm"
    /\ made' = TRUE
    /\ cpc' = "ie"
    /\ UNCHANGED <<cback, hwVars, drvVars, sem, ie, histVars>>

ArmIe ==
    /\ cpc = "ie"
    /\ ie' = ~Socket
    /\ cpc' = "wait"
    /\ UNCHANGED <<cback, hwVars, drvVars, sem, made, histVars>>

\* close: the mark first, so that no poll undoes the INIT it is about to set
CloseMark ==
    /\ cpc = "drained"
    /\ closed' = ~Socket
    /\ cpc' = "closing"
    /\ UNCHANGED <<cback, hwVars, tally, recovering, recovered, threadVars, histVars>>

CloseStop ==
    /\ cpc = "closing"
    /\ inInit' = TRUE
    /\ fifo' = IF cback = "fdcan" THEN fifo ELSE <<>>
    /\ txbrp' = IF cback = "fdcan" THEN txbrp ELSE 0
    /\ tally' = IF Socket THEN 0 ELSE tally
    /\ cpc' = "shut"
    /\ UNCHANGED <<cback, lost, news, busOff, closed, recovering, recovered, threadVars, histVars>>

-------------------------------------------------------------------------------
(***************************************************************************)
(* The thread: it waits, drains the FIFO, sends.                           *)
(***************************************************************************)
KeepBus == UNCHANGED <<inInit, recovering, recovered>>

\* A slip: the recovery is counted where it is started.
CountedWhenStarted ==
    IF Socket \/ closed THEN KeepBus
    ELSE IF busOff
         THEN /\ inInit' = FALSE /\ recovering' = TRUE
              /\ recovered' = IF inInit THEN recovered + 1 ELSE recovered
         ELSE recovering' = FALSE /\ UNCHANGED <<inInit, recovered>>

\* A slip: INIT that the core latches again, before it is back, stays.
StartedOnce ==
    IF Socket \/ closed THEN KeepBus
    ELSE IF busOff
         THEN inInit' = (inInit /\ recovering) /\ recovering' = TRUE /\ UNCHANGED recovered
         ELSE recovering' = FALSE /\ recovered' = (IF recovering THEN recovered + 1 ELSE recovered)
              /\ UNCHANGED inInit

\* busoff_poll: of its registers only INIT moves, and only when already latched.
BusoffPoll ==
    IF Socket \/ closed THEN KeepBus
    ELSE IF busOff THEN inInit' = FALSE /\ recovering' = TRUE /\ UNCHANGED recovered
    ELSE IF recovering THEN recovering' = FALSE /\ recovered' = recovered + 1 /\ UNCHANGED inInit
    ELSE KeepBus

OnlyThread == UNCHANGED <<cback, busOff, closed, made, ie, opens, came, dropped, toldAt, offs, backs, carried>>

\* comm_rx_wait: woken, or its ticks are over; a host's pass comes with its tick.
Wakes ==
    /\ cpc = "wait"
    /\ sem' = IF sem > 0 THEN sem - 1 ELSE 0
    /\ cpc' = "poll"
    /\ UNCHANGED <<fifo, lost, news, txbrp, tally, silent>> /\ KeepBus /\ OnlyThread

\* recv: the bus-off poll ...
RecvPoll ==
    /\ cpc = "poll"
    /\ BusoffPoll
    /\ cpc' = IF Socket THEN "take" ELSE "flag"
    /\ UNCHANGED <<fifo, lost, news, txbrp, tally, sem, silent>> /\ OnlyThread

\* ... a loss is noted and its flag cleared, before the FIFO is looked at ...
NoteLost ==
    /\ cpc = "flag"
    /\ tally' = tally + lost
    /\ cpc' = IF lost = 1 THEN "ack" ELSE "look"
    /\ UNCHANGED <<fifo, lost, news, txbrp, sem, silent>> /\ KeepBus /\ OnlyThread

ClearLost ==
    /\ cpc = "ack"
    /\ lost' = 0
    /\ cpc' = "look"
    /\ UNCHANGED <<fifo, news, txbrp, tally, sem, silent>> /\ KeepBus /\ OnlyThread

Look ==
    /\ cpc = "look"
    /\ cpc' = IF fifo = <<>> THEN "drained" ELSE "take"
    /\ UNCHANGED <<fifo, lost, news, txbrp, tally, sem, silent>> /\ KeepBus /\ OnlyThread

\* The frame that is given, with the count as it is after it.
Given(count) ==
    /\ silent' = (silent \/ (Head(fifo).told # NoneLost /\ count <= Head(fifo).told))
    /\ fifo' = Tail(fifo)

\* A slip: every flag of the interrupt register is acknowledged with the frame.
TakeFrameClears ==
    /\ cpc = "take" /\ ~Socket
    /\ Given(tally)
    /\ lost' = 0
    /\ cpc' = "poll"
    /\ UNCHANGED <<news, txbrp, tally, sem>> /\ KeepBus /\ OnlyThread

\* ... and a frame copied and acknowledged; the caller comes again until there is none.
TakeFrame ==
    /\ cpc = "take" /\ ~Socket
    /\ Given(tally)
    /\ cpc' = "poll"
    /\ UNCHANGED <<lost, news, txbrp, tally, sem>> /\ KeepBus /\ OnlyThread

\* ovfl_store, of the count that rides along with the frame
Ovfl == IF Head(fifo).drops > 0 THEN Head(fifo).drops ELSE tally

RecvMsg ==
    /\ cpc = "take" /\ Socket
    /\ IF fifo = <<>>
       THEN cpc' = "drained" /\ UNCHANGED <<fifo, tally, silent>>
       ELSE /\ Given(Ovfl)
            /\ tally' = Ovfl
            /\ cpc' = IF Head(fifo).remote THEN "take" ELSE "poll"
    /\ UNCHANGED <<lost, news, txbrp, sem>> /\ KeepBus /\ OnlyThread

\* send: polls, then -1 to a full Tx FIFO
CanSend ==
    /\ cpc = "drained" /\ ~Socket
    /\ BusoffPoll
    /\ txbrp' = IF txbrp < TxDepth THEN txbrp + 1 ELSE txbrp
    /\ UNCHANGED <<fifo, lost, news, tally, cpc, sem, silent>> /\ OnlyThread

\* blob_can_busoff_recoveries, tx_ready, tx_idle: any caller, on a closed bus too
Asks ==
    /\ cpc \in {"drained", "shut"} /\ opens > 0
    /\ BusoffPoll
    /\ UNCHANGED <<fifo, lost, news, txbrp, tally, cpc, sem, silent>> /\ OnlyThread

PassEnds ==
    /\ cpc = "drained"
    /\ cpc' = "wait"
    /\ UNCHANGED <<fifo, lost, news, txbrp, tally, sem, silent>> /\ KeepBus /\ OnlyThread

Bus == (\E remote \in BOOLEAN : Arrives(remote)) \/ GoesOff \/ ComesBack \/ GoesOut \/ Isr
Opens == OpenInit \/ OpenStart \/ OpenSocket \/ OpenClear \/ OpenLeave \/ ArmSem \/ ArmIe
Closes == CloseMark \/ CloseStop
Drains == Wakes \/ RecvPoll \/ NoteLost \/ ClearLost \/ Look \/ TakeFrame \/ RecvMsg \/ PassEnds
CanNext == Bus \/ Opens \/ Closes \/ Drains \/ CanSend \/ Asks

\* The comm thread is scheduled and wakes every few ticks; a bus that goes bad only so
\* often lets the controller back.
CanFairness == WF_canVars(Drains) /\ WF_canVars(Opens \/ CloseStop) /\ WF_canVars(ComesBack)
CanSpec == CanInit /\ [][CanNext]_canVars /\ CanFairness

-------------------------------------------------------------------------------
\* No loss is silent: when the frame behind one is given, the overrun count has grown since
\* the call of recv during which the last of the lost ones was lost, and it never exceeds
\* the frames that were lost (blob_can_rx_overruns, REQ-CAN-DRV-008).  One event may stand
\* for several losses; what the HAL drops between its start and its clearing has none.
LossIsTold == cpc \notin {"shut", "clear"} => ~silent /\ tally <= dropped

\* A recovery is counted once the controller is back, and no more often than it came
\* back; after it came back the count is not zero for longer than to the next poll,
\* unless it was off before the bus was opened (blob_can_busoff_recoveries).
RecoveriesHonest ==
    cpc # "clear" =>
        /\ recovered <= backs
        /\ backs > (IF carried THEN 1 ELSE 0) => recovered > 0 \/ recovering

\* A bus closed deliberately stays off, whoever polls it, until it is opened.
ClosedStaysOff == closed /\ cpc = "shut" => inInit

\* The thread does not sleep on a frame: one in the FIFO means that an interrupt or the
\* semaphore is about to wake it, from the moment the bus is open.  A host only polls.
NoFrameWaits == cpc = "wait" /\ fifo # <<>> /\ ~Socket => (ie /\ news) \/ sem > 0

\* What can_port.h promises the callers, and comm_glue.c the thread.
CanHonest == LossIsTold /\ RecoveriesHonest /\ ClosedStaysOff /\ NoFrameWaits

\* A controller the bus threw off gets back on it without a power cycle.
BackOnBus == busOff /\ ~closed ~> ~busOff \/ closed

===================================================================================
