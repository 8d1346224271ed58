-------------------------------- MODULE Recorder --------------------------------
(***************************************************************************)
(* The execution hooks of ThreadX on one core (boards/common/trace_hooks.c): *)
(* they close a slice when a thread stops and a bracket when an interrupt  *)
(* ends, add up the core's load and push a record into a ring that keeps   *)
(* the newest.  The comm thread publishes the load of a window, and arms,  *)
(* freezes and copies the ring, while interrupts and other threads go on.  *)
(* Interrupts do not nest (comm_glue.c).                                   *)
(***************************************************************************)
EXTENDS Integers, Sequences, Functions

CONSTANTS
    Cap,                    \* RING_CAP
    MaxThreads,             \* MAX_THREADS: ids there are
    Window,                 \* LOAD_WIN_US
    RecEvents, RecIsrs, RecSwitches     \* bounds: microseconds and commands together, interrupts, switches

ASSUME RecorderAssumption ==
    /\ Cap \in Nat \ {0} /\ MaxThreads \in Nat /\ Window \in Nat \ {0}
    /\ RecEvents \in Nat /\ RecIsrs \in Nat /\ RecSwitches \in Nat

Threads == {"comm", "app"}
Nobody == "idle"

VARIABLES
    time,
    current, hook,          \* _tx_thread_current_ptr; "run", or where thread_enter is
    inIsr,
    tids,                   \* g_tid_ptr: comm is bound, the other gets what is left at first sight
    sliceStart, sliceIsr, isrStart,     \* g_slice_start, g_slice_isr_us, g_isr_start
    busyUs, isrUs,          \* g_busy_us and g_isr_us, less w_th0 and w_isr0
    winStarted, t0,            \* w_started, w_t0
    ring, recHead, capturing,
    op,                     \* the comm thread's command: where it is, its locals
    occupied,               \* history: what threads and interrupts took of this window; an interrupt
                            \* inside thread_enter counts twice
    published,              \* the last window: its load less what was taken, whether a share went down
    pushed, first, recording,   \* records so far, at the last arm; armed or frozen by command
    isrs, switches, ops     \* counts for the bounds

clockVars == <<sliceStart, sliceIsr, isrStart, busyUs, isrUs, tids>>
winVars == <<winStarted, t0, published>>
recRingVars == <<ring, recHead, capturing, pushed, first, recording>>
countVars == <<isrs, switches, ops>>
recVars == <<time, current, hook, inIsr, clockVars, winVars, recRingVars, op, occupied, countVars>>

Ids == 0 .. MaxThreads
Idle == [at |-> "idle"]

RecInit ==
    /\ time = 0 /\ current = Nobody /\ hook = "run" /\ inIsr = FALSE /\ tids = <<"comm">>
    /\ sliceStart = 0 /\ sliceIsr = 0 /\ isrStart = 0 /\ busyUs = [i \in Ids |-> 0] /\ isrUs = 0
    /\ winStarted = FALSE /\ t0 = 0
    /\ occupied = 0 /\ published = [off |-> 0, back |-> FALSE]
    /\ ring = [i \in 0 .. Cap - 1 |-> 0] /\ recHead = 0 /\ capturing = TRUE
    /\ pushed = 0 /\ first = 0 /\ recording = TRUE
    /\ op = Idle
    /\ isrs = 0 /\ switches = 0 /\ ops = 0

\* Time goes to the interrupt, or to the thread from its slice's start on.
Ticks ==
    /\ time + ops < RecEvents
    /\ time' = time + 1
    /\ occupied' = occupied + (IF inIsr THEN IF hook = "gap" THEN 2 ELSE 1
                               ELSE IF current # Nobody /\ hook # "enter" THEN 1 ELSE 0)
    /\ UNCHANGED <<current, hook, inIsr, clockVars, winVars, recRingVars, op, countVars>>

-------------------------------------------------------------------------------
\* push_rec: a record per slot claimed, under PRIMASK; frozen, none.
Push ==
    IF ~capturing THEN UNCHANGED recRingVars
    ELSE /\ ring' = [ring EXCEPT ![recHead % Cap] = pushed + 1]
         /\ recHead' = recHead + 1 /\ pushed' = pushed + 1
         /\ UNCHANGED <<capturing, first, recording>>

\* thread_id: the id it has, the next one at first sight, or none
IdOf(t, s) == IF \E i \in DOMAIN s : s[i] = t THEN CHOOSE i \in DOMAIN s : s[i] = t ELSE 0
Seen(t) == IF IdOf(t, tids) = 0 /\ Len(tids) < MaxThreads THEN Append(tids, t) ELSE tids

\* A slip: the interrupts of the slice are left in it.
WallSlice == time - sliceStart

\* The slice so far, less the interrupts in it.
Slice == IF time - sliceStart > sliceIsr THEN time - sliceStart - sliceIsr ELSE 0

\* _tx_execution_thread_exit, masked: the slice closes at the stop, while the thread is current.
ThreadExit ==
    /\ current # Nobody /\ hook = "run" /\ ~inIsr
    /\ tids' = Seen(current)
    /\ LET id == IdOf(current, tids') IN
       /\ busyUs' = [busyUs EXCEPT ![id] = @ + Slice]
       /\ IF id # 0 THEN Push ELSE UNCHANGED recRingVars
    /\ current' = Nobody
    /\ UNCHANGED <<time, hook, inIsr, sliceStart, sliceIsr, isrStart, isrUs, winVars, op, occupied, countVars>>

Dispatch(t) ==
    /\ current = Nobody /\ ~inIsr /\ switches < RecSwitches
    /\ current' = t /\ hook' = "enter" /\ switches' = switches + 1
    /\ UNCHANGED <<time, inIsr, clockVars, winVars, recRingVars, op, occupied, isrs, ops>>

\* _tx_execution_thread_enter, with interrupts: the start ...
ThreadEnter ==
    /\ hook = "enter" /\ ~inIsr
    /\ sliceStart' = time
    /\ hook' = "gap"
    /\ UNCHANGED <<time, current, inIsr, sliceIsr, isrStart, busyUs, isrUs, tids, winVars, recRingVars, op, occupied, countVars>>

\* ... and no interrupt charged yet
EnterResets ==
    /\ hook = "gap" /\ ~inIsr
    /\ sliceIsr' = 0
    /\ hook' = "run"
    /\ UNCHANGED <<time, current, inIsr, sliceStart, isrStart, busyUs, isrUs, tids, winVars, recRingVars, op, occupied, countVars>>

IsrEnter ==
    /\ ~inIsr /\ isrs < RecIsrs
    /\ inIsr' = TRUE /\ isrs' = isrs + 1
    /\ isrStart' = time
    /\ UNCHANGED <<time, current, hook, sliceStart, sliceIsr, busyUs, isrUs, tids, winVars, recRingVars, op, occupied, switches, ops>>

\* _tx_execution_isr_exit: charged against the slice it is in, and counted
IsrExit ==
    /\ inIsr
    /\ inIsr' = FALSE
    /\ sliceIsr' = sliceIsr + (time - isrStart) /\ isrUs' = isrUs + (time - isrStart)
    /\ Push
    /\ UNCHANGED <<time, current, hook, sliceStart, isrStart, busyUs, tids, winVars, op, occupied, countVars>>

\* trace_fb, from the app thread's loop
TraceFb ==
    /\ current = "app" /\ hook = "run" /\ ~inIsr /\ time + ops < RecEvents
    /\ ops' = ops + 1
    /\ Push
    /\ UNCHANGED <<time, current, hook, inIsr, clockVars, winVars, op, occupied, isrs, switches>>

-------------------------------------------------------------------------------
(***************************************************************************)
(* The comm thread.                                                        *)
(***************************************************************************)
CommAt(place) == current = "comm" /\ hook = "run" /\ ~inIsr /\ op.at = place
OnlyComm == UNCHANGED <<time, current, hook, inIsr, isrs, switches>>

\* core_load_tick: a window's load, and the next begins; the running slice counts up to now
CoreLoadTick ==
    /\ CommAt("idle")
    /\ ~winStarted \/ time - t0 >= Window
    /\ LET id == IdOf("comm", tids)
           share == [busyUs EXCEPT ![id] = @ + Slice] IN
       /\ busyUs' = [i \in Ids |-> IF i = id THEN -Slice ELSE 0]
       /\ published' = IF ~winStarted THEN published
                       ELSE [off |-> isrUs + FoldFunction(+, 0, share) - occupied,
                             back |-> \E i \in Ids : share[i] < 0]
    /\ winStarted' = TRUE /\ t0' = time /\ isrUs' = 0 /\ occupied' = 0
    /\ UNCHANGED <<sliceStart, sliceIsr, isrStart, tids, recRingVars, op, ops>> /\ OnlyComm

OnlyRing == OnlyComm /\ UNCHANGED <<clockVars, winVars, occupied, ring, pushed>>
Command == CommAt("idle") /\ time + ops < RecEvents /\ ops' = ops + 1

\* trace_arm: a fresh window, under a freeze
Arm ==
    /\ Command
    /\ capturing' = FALSE /\ op' = [at |-> "arm"] /\ recording' = TRUE
    /\ UNCHANGED <<recHead, first>> /\ OnlyRing

ArmClears ==
    /\ CommAt("arm")
    /\ recHead' = 0 /\ first' = pushed /\ op' = [at |-> "on"]
    /\ UNCHANGED <<capturing, recording, ops>> /\ OnlyRing

ArmResumes ==
    /\ CommAt("on")
    /\ capturing' = TRUE /\ op' = Idle
    /\ UNCHANGED <<recHead, first, recording, ops>> /\ OnlyRing

\* trace_freeze
Freeze ==
    /\ Command
    /\ capturing' = FALSE /\ recording' = FALSE
    /\ UNCHANGED <<recHead, first, op>> /\ OnlyRing

\* A slip: records go on coming while they are copied.
SnapshotUnfrozen(max) ==
    /\ Command
    /\ op' = [at |-> "total", was |-> capturing, max |-> max]
    /\ UNCHANGED <<recHead, first, capturing, recording>> /\ OnlyRing

\* trace_snapshot: frozen for the copy; the newest records, at most max, one by one
Snapshot(max) ==
    /\ Command
    /\ op' = [at |-> "total", was |-> capturing, max |-> max]
    /\ capturing' = FALSE
    /\ UNCHANGED <<recHead, first, recording>> /\ OnlyRing

SnapshotTotal ==
    /\ CommAt("total")
    /\ LET held == IF recHead > Cap THEN Cap ELSE recHead
           n == IF held > op.max THEN op.max ELSE held IN
       op' = [at |-> "copy", was |-> op.was, start |-> recHead - n, n |-> n, out |-> <<>>]
    /\ UNCHANGED <<recHead, first, capturing, recording, ops>> /\ OnlyRing

SnapshotCopies ==
    /\ CommAt("copy") /\ Len(op.out) < op.n
    /\ op' = [op EXCEPT !.out = Append(@, ring[(op.start + Len(@)) % Cap])]
    /\ UNCHANGED <<recHead, first, capturing, recording, ops>> /\ OnlyRing

\* ... and what it was, so that a frozen ring stays frozen
SnapshotEnds ==
    /\ CommAt("copy") /\ Len(op.out) = op.n
    /\ capturing' = op.was /\ op' = Idle
    /\ UNCHANGED <<recHead, first, recording, ops>> /\ OnlyRing

Hooks ==
    \/ ThreadExit \/ ThreadEnter \/ EnterResets \/ IsrEnter \/ IsrExit
    \/ \E t \in Threads : Dispatch(t)
CommThread ==
    \/ CoreLoadTick \/ Arm \/ ArmClears \/ ArmResumes \/ Freeze
    \/ (\E max \in {Cap - 1, Cap} : Snapshot(max)) \/ SnapshotTotal \/ SnapshotCopies \/ SnapshotEnds
RecNext == Ticks \/ Hooks \/ TraceFb \/ CommThread

RecSpec == RecInit /\ [][RecNext]_recVars

-------------------------------------------------------------------------------
\* A window's load is the time its threads and interrupts took, whichever of them stopped,
\* winStarted or was interrupted when, and no share is less than at the window's start.
LoadCounted == published.off = 0 /\ ~published.back

\* A copy holds the newest records pushed since the ring was armed, each whole and in order.
SnapshotWhole ==
    op.at = "copy" /\ Len(op.out) = op.n =>
        /\ op.out = [i \in 1 .. op.n |-> pushed - op.n + i]
        /\ op.n <= pushed - first

\* A ring frozen by command stays frozen over every copy, and one that was armed goes on.
StaysFrozen == op.at = "idle" => capturing = recording

RecorderHonest == LoadCounted /\ SnapshotWhole /\ StaysFrozen

===============================================================================
