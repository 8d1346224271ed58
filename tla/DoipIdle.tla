-------------------------------- MODULE DoipIdle --------------------------------
(***************************************************************************)
(* ISO 13400 inactivity of the one DoIP connection: driver/eth/doip_idle.h *)
(* on a tick count that wraps, and the receives and sends of doip_netx.c   *)
(* that feed it.  A receive is bounded by the deadline that is running; in *)
(* between the doip thread serves what it got, which takes time as well.   *)
(***************************************************************************)
EXTENDS Integers

CONSTANTS
    Initial, General,   \* idle.initial, idle.general, in ticks
    PollTicks,          \* the timeout the V loop passes
    ServeTicks,         \* bound: ticks a chunk takes to serve
    TickMod             \* 2^32

\* comm/doip policy.v bounds the limits well below the counter's range.
ASSUME IdleAssumption ==
    /\ Initial \in Nat \ {0} /\ General \in Nat \ {0}
    /\ PollTicks \in Nat \ {0} /\ ServeTicks \in Nat
    /\ TickMod \in Nat
    /\ Initial + ServeTicks < TickMod /\ General + ServeTicks < TickMod

VARIABLES
    tick,       \* tx_time_get
    connStart, lastActivity, routingOn,   \* doip_idle_t
    pending,    \* rx_pending: the rest of a packet larger than the caller's buffer
    ipc,        \* "closed", "call", "wait", "serve"
    spent,      \* ticks since the thread came there
    left,       \* the bound of the receive it waits in
    age, quiet, \* how long the connection is open; since the traffic that counts
    lateServed, earlyClosed   \* a chunk was served, a connection closed, against the rule

idleVars == <<tick, connStart, lastActivity, routingOn, pending, ipc, spent, left, age, quiet,
              lateServed, earlyClosed>>

IdleInit ==
    /\ tick \in 0 .. TickMod - 1
    /\ connStart = 0 /\ lastActivity = 0 /\ routingOn = FALSE /\ pending = FALSE
    /\ ipc = "closed" /\ spent = 0 /\ left = 0 /\ age = 0 /\ quiet = 0
    /\ lateServed = FALSE /\ earlyClosed = FALSE

\* The rule the header states, on a time that does not wrap.
Expired == IF routingOn THEN quiet >= General ELSE age >= Initial

\* A slip: the deadline after activation counted from the accept.
IdleLeftOfAccept ==
    LET el == (tick - connStart) % TickMod
        lim == IF routingOn THEN General ELSE Initial
    IN  IF el >= lim THEN 0 ELSE lim - el

IdleLeft ==
    LET el == (tick - (IF routingOn THEN lastActivity ELSE connStart)) % TickMod
        lim == IF routingOn THEN General ELSE Initial
    IN  IF el >= lim THEN 0 ELSE lim - el

IdleTick ==
    /\ \/ ipc = "wait" /\ ~pending /\ spent < left
       \/ ipc = "serve" /\ spent < ServeTicks
    /\ tick' = (tick + 1) % TickMod
    /\ spent' = spent + 1
    /\ age' = IF age < Initial + General THEN age + 1 ELSE age
    /\ quiet' = IF quiet < General THEN quiet + 1 ELSE quiet
    /\ UNCHANGED <<connStart, lastActivity, routingOn, pending, ipc, left, lateServed, earlyClosed>>

\* The wait for a tester has no limit: no deadline runs in it.
IdleAccept ==
    /\ ipc = "closed"
    /\ connStart' = tick /\ lastActivity' = tick /\ routingOn' = FALSE
    /\ age' = 0 /\ quiet' = 0
    /\ ipc' = "call" /\ spent' = 0
    /\ UNCHANGED <<tick, pending, left, lateServed, earlyClosed>>

IdleRecycle ==
    /\ ipc' = "closed" /\ pending' = FALSE
    /\ UNCHANGED <<tick, connStart, lastActivity, routingOn, spent, left, age, quiet, lateServed>>

IdleCall ==
    /\ ipc = "call" /\ IdleLeft # 0
    /\ left' = IF PollTicks > IdleLeft THEN IdleLeft ELSE PollTicks
    /\ ipc' = "wait" /\ spent' = 0
    /\ UNCHANGED <<tick, connStart, lastActivity, routingOn, pending, age, quiet, lateServed, earlyClosed>>

IdleCloses ==
    /\ \/ ipc = "call"
       \/ ipc = "wait" /\ ~pending /\ spent = left
    /\ IdleLeft = 0
    /\ earlyClosed' = (earlyClosed \/ ~Expired)
    /\ IdleRecycle

\* The peer closed, or an error.
PeerCloses == ipc = "wait" /\ ~pending /\ UNCHANGED earlyClosed /\ IdleRecycle

\* A chunk: of a packet that came before the wait ran out, or of one kept.
IdleReceives(more) ==
    /\ ipc = "wait" /\ (pending \/ spent < left)
    /\ lateServed' = (lateServed \/ Expired)
    /\ pending' = more
    /\ lastActivity' = tick /\ quiet' = 0
    /\ ipc' = "serve" /\ spent' = 0
    /\ UNCHANGED <<tick, connStart, routingOn, left, age, earlyClosed>>

IdleNothing ==
    /\ ipc = "wait" /\ ~pending /\ spent = left /\ IdleLeft # 0
    /\ ipc' = "call"
    /\ UNCHANGED <<tick, connStart, lastActivity, routingOn, pending, spent, left, age, quiet,
                   lateServed, earlyClosed>>

\* An answer sent: the activation's own goes out before the loop reports the state.
IdleSends ==
    /\ ipc = "serve"
    /\ lastActivity' = IF routingOn /\ IdleLeft # 0 THEN tick ELSE lastActivity
    /\ quiet' = IF routingOn /\ ~Expired THEN 0 ELSE quiet
    /\ UNCHANGED <<tick, connStart, routingOn, pending, ipc, spent, left, age, lateServed, earlyClosed>>

\* The chunk is served; the loop reports the activation, which a tester never loses.
IdleServed(on) ==
    /\ ipc = "serve" /\ (routingOn => on)
    /\ routingOn' = on
    /\ ipc' = "call"
    /\ UNCHANGED <<tick, connStart, lastActivity, pending, spent, left, age, quiet,
                   lateServed, earlyClosed>>

IdleNext ==
    \/ IdleTick \/ IdleAccept \/ IdleCall \/ IdleCloses \/ PeerCloses \/ IdleNothing \/ IdleSends
    \/ \E more \in BOOLEAN : IdleReceives(more)
    \/ \E on \in BOOLEAN : IdleServed(on)

IdleSpec == IdleInit /\ [][IdleNext]_idleVars

-------------------------------------------------------------------------------
\* Bytes are never served on a connection that should be closed already, and none is
\* closed that should be open: trickled bytes do not stretch the time before
\* activation, a late answer does not revive the connection, the time after activation
\* runs from the bytes that carried it, and a tick count that wraps changes none of it
\* (doip_idle.h).
DeadlinesKept == ~lateServed /\ ~earlyClosed

===============================================================================
