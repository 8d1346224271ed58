----------------------------- MODULE NetworkProofs -----------------------------
(***************************************************************************)
(* The network side stays usable: the inactivity deadlines are kept on a   *)
(* tick count that wraps (DoipIdle), the driver's rings never die and no   *)
(* packet is lost (EthDma), and the one network of the node follows its    *)
(* link and keeps its ARP entries (NetUp), for rings, pools, limits and    *)
(* counters of any size and any number of frames, changes and requests.    *)
(* An unlock of the application's diagnostic server stays with the         *)
(* transport that earned it, no seed is given while a lockout is owed, and *)
(* a start restores what the reset saved (Diag), for any number of levels, *)
(* attempts and resets and any delay.  A diagnostic request over DoIP is   *)
(* answered to the tester that made it, or not at all: the mailbox of      *)
(* doip_mb.h between the doip thread and the server thread (Doip), and the *)
(* route channel of a gateway, which follows the same rules (DoipRoute),   *)
(* for any number of connections, requests, requests sent ahead and steps  *)
(* of a routine.                                                           *)
(***************************************************************************)
EXTENDS MCNetwork, TLAPS

-------------------------------------------------------------------------------
(***************************************************************************)
(* Inactivity (DoipIdle).                                                  *)
(***************************************************************************)
IdlePcs == {"closed", "call", "wait", "serve"}
TickCount == 0 .. TickMod - 1

\* The ticks since `past`, as long as fewer than TickMod went by.
Elapsed(now, past) == IF now >= past THEN now - past ELSE now - past + TickMod

Capped(n, top) == IF n < top THEN n ELSE top

IdleShape ==
    /\ tick \in TickCount /\ connStart \in TickCount /\ lastActivity \in TickCount
    /\ routingOn \in BOOLEAN /\ pending \in BOOLEAN /\ ipc \in IdlePcs
    /\ spent \in Nat /\ left \in Nat /\ age \in Nat /\ quiet \in Nat

\* Before activation the connection's age counts, and no receive waits past its end.
BeforeActivation ==
    ipc # "closed" /\ ~routingOn =>
        /\ age = Capped(Elapsed(tick, connStart), Initial + General)
        /\ Elapsed(tick, connStart) <= Initial + ServeTicks
        /\ ipc = "wait" => Elapsed(tick, connStart) + (left - spent) <= Initial
        /\ ipc = "serve" => Elapsed(tick, connStart) <= Initial + spent

\* After it the silence, likewise.
AfterActivation ==
    ipc # "closed" /\ routingOn =>
        /\ quiet = Capped(Elapsed(tick, lastActivity), General)
        /\ Elapsed(tick, lastActivity) <= General + ServeTicks
        /\ ipc = "wait" => Elapsed(tick, lastActivity) + (left - spent) <= General

\* While a chunk is served both silences run from its bytes, or from a later answer.
ServedSince ==
    ipc = "serve" =>
        /\ spent <= ServeTicks
        /\ Elapsed(tick, lastActivity) <= spent
        /\ quiet = Capped(Elapsed(tick, lastActivity), General)

\* A receive waits for a time, unless it has what a packet left.
WaitBounded ==
    ipc = "wait" => /\ spent <= left
                    /\ pending => spent < left

IdleInv ==
    /\ IdleShape /\ BeforeActivation /\ AfterActivation /\ ServedSince /\ WaitBounded
    /\ DeadlinesKept

\* The difference of two counts of a counter that wraps.
LEMMA ElapsedMod ==
    ASSUME NEW now \in TickCount, NEW past \in TickCount
    PROVE  /\ (now - past) % TickMod = Elapsed(now, past)
           /\ Elapsed(now, past) \in 0 .. TickMod - 1
           /\ Elapsed(now, now) = 0
  <1>1. TickMod \in Nat /\ TickMod > 0
    BY IdleAssumption
  <1>2. \A n \in Int : 0 <= n /\ n < TickMod => n % TickMod = n
    BY <1>1
  <1>3. \A n \in Int : -TickMod <= n /\ n < 0 => n % TickMod = n + TickMod
    BY <1>1
  <1> QED BY <1>1, <1>2, <1>3 DEF TickCount, Elapsed

\* Between two ticks one more tick went by since any time that is not TickMod ago.
LEMMA ElapsedTick ==
    ASSUME NEW now \in TickCount, NEW past \in TickCount, Elapsed(now, past) + 1 < TickMod
    PROVE  /\ (now + 1) % TickMod \in TickCount
           /\ Elapsed((now + 1) % TickMod, past) = Elapsed(now, past) + 1
  <1>1. TickMod \in Nat /\ TickMod > 0
    BY IdleAssumption
  <1>2. CASE now + 1 < TickMod
    <2>1. (now + 1) % TickMod = now + 1
      BY <1>1, <1>2 DEF TickCount
    <2> QED BY <1>1, <1>2, <2>1 DEF TickCount, Elapsed
  <1>3. CASE now + 1 = TickMod
    <2>1. (now + 1) % TickMod = 0
      BY <1>1, <1>3 DEF TickCount
    <2> QED BY <1>1, <1>3, <2>1 DEF TickCount, Elapsed
  <1> QED BY <1>1, <1>2, <1>3 DEF TickCount

\* doip_idle_left is zero just when the deadline that runs has passed, and no receive it
\* bounds waits past it.
LEMMA LeftIsRight ==
    ASSUME IdleInv, ipc # "closed"
    PROVE  LET el == Elapsed(tick, IF routingOn THEN lastActivity ELSE connStart)
               lim == IF routingOn THEN General ELSE Initial
           IN  /\ IdleLeft = IF el >= lim THEN 0 ELSE lim - el
               /\ IdleLeft = 0 <=> el >= lim
               /\ Expired <=> el >= lim
               /\ el \in Nat /\ lim \in Nat
  <1>1. CASE routingOn
    <2>1. /\ (tick - lastActivity) % TickMod = Elapsed(tick, lastActivity)
          /\ Elapsed(tick, lastActivity) \in 0 .. TickMod - 1
      BY ElapsedMod DEF IdleInv, IdleShape
    <2> QED BY <1>1, <2>1, IdleAssumption
            DEF IdleInv, AfterActivation, IdleLeft, Expired, Capped
  <1>2. CASE ~routingOn
    <2>1. /\ (tick - connStart) % TickMod = Elapsed(tick, connStart)
          /\ Elapsed(tick, connStart) \in 0 .. TickMod - 1
      BY ElapsedMod DEF IdleInv, IdleShape
    <2> QED BY <1>2, <2>1, IdleAssumption
            DEF IdleInv, BeforeActivation, IdleLeft, Expired, Capped
  <1> QED BY <1>1, <1>2

LEMMA IdleStarts == IdleInit => IdleInv
  <1> SUFFICES ASSUME IdleInit PROVE IdleInv
    OBVIOUS
  <1>1. IdleShape
    <2>1. /\ tick \in TickCount /\ connStart \in TickCount /\ lastActivity \in TickCount
          /\ spent \in Nat /\ left \in Nat /\ age \in Nat /\ quiet \in Nat
      BY IdleAssumption DEF IdleInit, TickCount
    <2>2. routingOn \in BOOLEAN /\ pending \in BOOLEAN /\ ipc \in IdlePcs
      BY DEF IdleInit, IdlePcs
    <2> QED BY <2>1, <2>2 DEF IdleShape
  <1>2. BeforeActivation /\ AfterActivation /\ ServedSince /\ WaitBounded
    BY DEF IdleInit, BeforeActivation, AfterActivation, ServedSince, WaitBounded
  <1>3. DeadlinesKept
    BY DEF IdleInit, DeadlinesKept
  <1> QED BY <1>1, <1>2, <1>3 DEF IdleInv

LEMMA TickKeeps == IdleInv /\ IdleTick => IdleInv'
  <1> SUFFICES ASSUME IdleInv, IdleTick PROVE IdleInv'
    OBVIOUS
  <1>1. TickMod \in Nat /\ Initial + ServeTicks < TickMod /\ General + ServeTicks < TickMod
        /\ Initial \in Nat \ {0} /\ General \in Nat \ {0} /\ ServeTicks \in Nat
    BY IdleAssumption
  <1>2. tick' \in TickCount
    BY <1>1 DEF IdleInv, IdleShape, IdleTick, TickCount
  <1>3. IdleShape'
    BY <1>2, <1>1 DEF IdleInv, IdleShape, IdleTick
  <1>4. \A past \in TickCount : Elapsed(tick, past) + 1 < TickMod =>
            Elapsed(tick', past) = Elapsed(tick, past) + 1
    BY ElapsedTick DEF IdleInv, IdleShape, IdleTick
  <1>5. \A past \in TickCount : Elapsed(tick, past) \in Nat
    BY ElapsedMod DEF IdleInv, IdleShape
  <1>6. ipc # "closed" /\ ipc' = ipc
    BY DEF IdleTick
  <1>7. CASE ~routingOn
    <2>1. Elapsed(tick, connStart) < Initial + ServeTicks
      BY <1>1, <1>5, <1>7 DEF IdleInv, IdleShape, BeforeActivation, IdleTick
    <2>2. Elapsed(tick', connStart) = Elapsed(tick, connStart) + 1
      BY <1>1, <1>4, <1>5, <2>1 DEF IdleInv, IdleShape
    <2>3. BeforeActivation'
      BY <1>1, <1>5, <1>6, <1>7, <2>1, <2>2
      DEF IdleInv, IdleShape, BeforeActivation, ServedSince, IdleTick, Capped
    <2>4. AfterActivation'
      BY <1>7 DEF AfterActivation, IdleTick
    <2>5. ServedSince'
      <3> SUFFICES ASSUME ipc = "serve" PROVE ServedSince'
        BY <1>6 DEF ServedSince
      <3>1. Elapsed(tick', lastActivity) = Elapsed(tick, lastActivity) + 1
        BY <1>1, <1>4, <1>5 DEF IdleInv, IdleShape, ServedSince, IdleTick
      <3> QED BY <1>1, <1>5, <3>1 DEF IdleInv, IdleShape, ServedSince, IdleTick, Capped
    <2>6. WaitBounded' /\ DeadlinesKept'
      BY <1>1 DEF IdleInv, IdleShape, WaitBounded, DeadlinesKept, IdleTick
    <2> QED BY <1>3, <2>3, <2>4, <2>5, <2>6 DEF IdleInv
  <1>8. CASE routingOn
    <2>1. Elapsed(tick, lastActivity) < General + ServeTicks
      BY <1>1, <1>5, <1>8 DEF IdleInv, IdleShape, AfterActivation, ServedSince, IdleTick
    <2>2. Elapsed(tick', lastActivity) = Elapsed(tick, lastActivity) + 1
      BY <1>1, <1>4, <1>5, <2>1 DEF IdleInv, IdleShape
    <2>3. BeforeActivation'
      BY <1>8 DEF BeforeActivation, IdleTick
    <2>4. AfterActivation'
      BY <1>1, <1>5, <1>6, <1>8, <2>1, <2>2
      DEF IdleInv, IdleShape, AfterActivation, ServedSince, IdleTick, Capped
    <2>5. ServedSince'
      BY <1>1, <1>5, <1>6, <2>2 DEF IdleInv, IdleShape, ServedSince, IdleTick, Capped
    <2>6. WaitBounded' /\ DeadlinesKept'
      BY <1>1 DEF IdleInv, IdleShape, WaitBounded, DeadlinesKept, IdleTick
    <2> QED BY <1>3, <2>3, <2>4, <2>5, <2>6 DEF IdleInv
  <1> QED BY <1>7, <1>8

LEMMA AcceptKeeps == IdleInv /\ IdleAccept => IdleInv'
  <1> SUFFICES ASSUME IdleInv, IdleAccept PROVE IdleInv'
    OBVIOUS
  <1>1. Elapsed(tick, tick) = 0
    BY ElapsedMod DEF IdleInv, IdleShape
  <1>2. ipc' = "call" /\ connStart' = tick /\ lastActivity' = tick /\ ~routingOn' /\ tick' = tick
    BY DEF IdleAccept
  <1>3. IdleShape'
    BY DEF IdleInv, IdleShape, IdlePcs, IdleAccept
  <1>4. BeforeActivation'
    BY <1>1, <1>2, IdleAssumption DEF BeforeActivation, IdleAccept, Capped
  <1>5. AfterActivation' /\ ServedSince' /\ WaitBounded'
    BY <1>2 DEF AfterActivation, ServedSince, WaitBounded
  <1>6. DeadlinesKept'
    BY DEF IdleInv, DeadlinesKept, IdleAccept
  <1> QED BY <1>3, <1>4, <1>5, <1>6 DEF IdleInv

LEMMA CallKeeps == IdleInv /\ IdleCall => IdleInv'
  <1> SUFFICES ASSUME IdleInv, IdleCall PROVE IdleInv'
    OBVIOUS
  <1> DEFINE el == Elapsed(tick, IF routingOn THEN lastActivity ELSE connStart)
             lim == IF routingOn THEN General ELSE Initial
  <1>1. el < lim /\ IdleLeft = lim - el /\ el \in Nat /\ lim \in Nat
    BY LeftIsRight DEF IdleCall
  <1>2. left' \in Nat \ {0} /\ el + left' <= lim
    <2> HIDE DEF el, lim
    <2> QED BY <1>1, IdleAssumption DEF IdleCall
  <1>3. ipc' = "wait" /\ spent' = 0 /\ UNCHANGED <<tick, connStart, lastActivity, routingOn, pending,
            age, quiet, lateServed, earlyClosed>>
    BY DEF IdleCall
  <1>4. IdleShape' /\ ServedSince' /\ WaitBounded' /\ DeadlinesKept'
    BY <1>2, <1>3 DEF IdleInv, IdleShape, IdlePcs, ServedSince, WaitBounded, DeadlinesKept
  <1>5. BeforeActivation'
    BY <1>1, <1>2, <1>3, IdleAssumption DEF IdleInv, BeforeActivation, IdleCall
  <1>6. AfterActivation'
    BY <1>1, <1>2, <1>3, IdleAssumption DEF IdleInv, AfterActivation, IdleCall
  <1> QED BY <1>4, <1>5, <1>6 DEF IdleInv

LEMMA CloseKeeps == IdleInv /\ (IdleCloses \/ PeerCloses) => IdleInv'
  <1> SUFFICES ASSUME IdleInv, IdleCloses \/ PeerCloses PROVE IdleInv'
    OBVIOUS
  <1>1. ~earlyClosed'
    <2>1. CASE IdleCloses
      <3>1. Expired
        BY <2>1, LeftIsRight DEF IdleCloses
      <3> QED BY <2>1, <3>1 DEF IdleCloses, IdleInv, DeadlinesKept
    <2> QED BY <2>1 DEF PeerCloses, IdleInv, DeadlinesKept
  <1>2. IdleRecycle
    BY DEF IdleCloses, PeerCloses
  <1> QED BY <1>1, <1>2 DEF IdleRecycle, IdleInv, IdleShape, IdlePcs, BeforeActivation,
          AfterActivation, ServedSince, WaitBounded, DeadlinesKept

LEMMA ReceiveKeeps == ASSUME NEW more \in BOOLEAN PROVE IdleInv /\ IdleReceives(more) => IdleInv'
  <1> SUFFICES ASSUME IdleInv, IdleReceives(more) PROVE IdleInv'
    OBVIOUS
  <1>1. Elapsed(tick, tick) = 0
    BY ElapsedMod DEF IdleInv, IdleShape
  <1>2. ipc = "wait" /\ spent < left
    BY DEF IdleInv, WaitBounded, IdleReceives
  <1>3. ~Expired
    <2>1. CASE routingOn
      BY <1>2, <2>1, ElapsedMod, IdleAssumption
      DEF IdleInv, IdleShape, AfterActivation, Expired, Capped
    <2>2. CASE ~routingOn
      BY <1>2, <2>2, ElapsedMod, IdleAssumption
      DEF IdleInv, IdleShape, BeforeActivation, Expired, Capped
    <2> QED BY <2>1, <2>2
  <1>4. ~lateServed'
    BY <1>3 DEF IdleReceives, IdleInv, DeadlinesKept
  <1>5. IdleShape' /\ WaitBounded' /\ DeadlinesKept'
    BY <1>4 DEF IdleReceives, IdleInv, IdleShape, IdlePcs, WaitBounded, DeadlinesKept
  <1>6. BeforeActivation'
    <2>1. Elapsed(tick, connStart) \in Nat
      BY ElapsedMod DEF IdleInv, IdleShape
    <2> QED BY <1>2, <2>1, IdleAssumption DEF IdleReceives, IdleInv, IdleShape, BeforeActivation
  <1>7. AfterActivation' /\ ServedSince'
    BY <1>1, IdleAssumption DEF IdleReceives, AfterActivation, ServedSince, Capped
  <1> QED BY <1>5, <1>6, <1>7 DEF IdleInv

LEMMA NothingKeeps == IdleInv /\ IdleNothing => IdleInv'
  BY DEF IdleNothing, IdleInv, IdleShape, IdlePcs, BeforeActivation, AfterActivation, ServedSince,
      WaitBounded, DeadlinesKept

LEMMA SendKeeps == IdleInv /\ IdleSends => IdleInv'
  <1> SUFFICES ASSUME IdleInv, IdleSends PROVE IdleInv'
    OBVIOUS
  <1>1. Elapsed(tick, tick) = 0
    BY ElapsedMod DEF IdleInv, IdleShape
  <1>2. IdleLeft # 0 <=> ~Expired
    BY LeftIsRight DEF IdleSends
  <1>3. CASE routingOn /\ ~Expired
    <2>1. lastActivity' = tick /\ quiet' = 0
      BY <1>2, <1>3 DEF IdleSends
    <2> QED BY <1>1, <1>3, <2>1, IdleAssumption DEF IdleSends, IdleInv, IdleShape, BeforeActivation,
            AfterActivation, ServedSince, WaitBounded, DeadlinesKept, Capped
  <1>4. CASE ~(routingOn /\ ~Expired)
    <2>1. lastActivity' = lastActivity /\ quiet' = quiet
      BY <1>2, <1>4 DEF IdleSends
    <2> QED BY <2>1 DEF IdleSends, IdleInv, IdleShape, BeforeActivation,
            AfterActivation, ServedSince, WaitBounded, DeadlinesKept
  <1> QED BY <1>3, <1>4

LEMMA ServedKeeps == ASSUME NEW on \in BOOLEAN PROVE IdleInv /\ IdleServed(on) => IdleInv'
  <1> SUFFICES ASSUME IdleInv, IdleServed(on) PROVE IdleInv'
    OBVIOUS
  <1>1. IdleShape' /\ ServedSince' /\ WaitBounded' /\ DeadlinesKept'
    BY DEF IdleServed, IdleInv, IdleShape, IdlePcs, ServedSince, WaitBounded, DeadlinesKept
  <1>2. BeforeActivation'
    BY IdleAssumption DEF IdleServed, IdleInv, IdleShape, BeforeActivation
  <1>3. AfterActivation'
    <2>1. Elapsed(tick, lastActivity) \in Nat
      BY ElapsedMod DEF IdleInv, IdleShape
    <2> QED BY <2>1, IdleAssumption DEF IdleServed, IdleInv, IdleShape, AfterActivation, ServedSince
  <1> QED BY <1>1, <1>2, <1>3 DEF IdleInv

LEMMA IdleStep == IdleInv /\ [IdleNext]_idleVars => IdleInv'
  <1> SUFFICES ASSUME IdleInv, [IdleNext]_idleVars PROVE IdleInv'
    OBVIOUS
  <1>1. CASE UNCHANGED idleVars
    BY <1>1 DEF idleVars, IdleInv, IdleShape, BeforeActivation, AfterActivation, ServedSince,
        WaitBounded, DeadlinesKept
  <1> QED
    BY <1>1, TickKeeps, AcceptKeeps, CallKeeps, CloseKeeps, ReceiveKeeps, NothingKeeps, SendKeeps,
       ServedKeeps DEF IdleNext

-------------------------------------------------------------------------------
(***************************************************************************)
(* Arcs of a ring of c descriptors: the n descriptors from a on, and the   *)
(* one behind them.                                                        *)
(***************************************************************************)
Ring(c) == 0 .. c - 1
Ahead(a, d, c) == IF d >= a THEN d - a ELSE d - a + c
Arc(a, n, c) == {d \in Ring(c) : Ahead(a, d, c) < n}
Behind(a, n, c) == IF a + n < c THEN a + n ELSE a + n - c

LEMMA NextInRing ==
    ASSUME NEW c \in Nat \ {0}, NEW a \in Ring(c)
    PROVE  (a + 1) % c = Behind(a, 1, c) /\ (a + 1) % c \in Ring(c)
  <1>1. CASE a + 1 < c
    <2>1. (a + 1) % c = a + 1
      BY <1>1 DEF Ring
    <2> QED BY <1>1, <2>1 DEF Ring, Behind
  <1>2. CASE a + 1 = c
    <2>1. (a + 1) % c = 0
      BY <1>2 DEF Ring
    <2> QED BY <1>2, <2>1 DEF Ring, Behind
  <1> QED BY <1>1, <1>2 DEF Ring

\* What the DMA fills, or the driver queues, joins the arc at its end.
LEMMA ArcGrows ==
    ASSUME NEW c \in Nat \ {0}, NEW a \in Ring(c), NEW n \in 0 .. c - 1
    PROVE  /\ Behind(a, n, c) \in Ring(c) /\ Behind(a, n, c) \notin Arc(a, n, c)
           /\ Arc(a, n + 1, c) = Arc(a, n, c) \cup {Behind(a, n, c)}
           /\ (Behind(a, n, c) + 1) % c = Behind(a, n + 1, c)
  <1>1. Behind(a, n, c) \in Ring(c)
    BY DEF Ring, Behind
  <1>2. (Behind(a, n, c) + 1) % c = Behind(a, n + 1, c)
    <2>1. (Behind(a, n, c) + 1) % c = Behind(Behind(a, n, c), 1, c)
      BY <1>1, NextInRing
    <2> QED BY <2>1 DEF Ring, Behind
  <1>3. \A d \in Ring(c) : Ahead(a, d, c) = n <=> d = Behind(a, n, c)
    BY DEF Ring, Behind, Ahead
  <1>4. \A d \in Ring(c) : Ahead(a, d, c) \in Int
    BY DEF Ring, Ahead
  <1>5. \A d \in Ring(c) : Ahead(a, d, c) < n + 1 <=> Ahead(a, d, c) < n \/ d = Behind(a, n, c)
    BY <1>3, <1>4
  <1> QED BY <1>1, <1>2, <1>3, <1>5 DEF Arc

\* What the driver gives back, or the DMA has sent, leaves it at its beginning.
LEMMA ArcShrinks ==
    ASSUME NEW c \in Nat \ {0}, NEW a \in Ring(c), NEW n \in 1 .. c
    PROVE  /\ a \in Arc(a, n, c)
           /\ (a + 1) % c \in Ring(c)
           /\ Arc((a + 1) % c, n - 1, c) = Arc(a, n, c) \ {a}
           /\ Behind((a + 1) % c, n - 1, c) = Behind(a, n, c)
  <1>1. (a + 1) % c = Behind(a, 1, c) /\ (a + 1) % c \in Ring(c)
    BY NextInRing
  <1>2. a \in Arc(a, n, c)
    BY DEF Ring, Arc, Ahead
  <1>3. Behind((a + 1) % c, n - 1, c) = Behind(a, n, c)
    BY <1>1 DEF Ring, Behind
  <1>4. \A d \in Ring(c) : d # a => Ahead((a + 1) % c, d, c) = Ahead(a, d, c) - 1
    BY <1>1 DEF Ring, Behind, Ahead
  <1>5. Ahead((a + 1) % c, a, c) = c - 1
    BY <1>1 DEF Ring, Behind, Ahead
  <1>6. \A d \in Ring(c) : Ahead(a, d, c) \in Int
    BY DEF Ring, Ahead
  <1>7. \A d \in Ring(c) : Ahead((a + 1) % c, d, c) < n - 1 <=> Ahead(a, d, c) < n /\ d # a
    BY <1>4, <1>5, <1>6
  <1> QED BY <1>1, <1>2, <1>3, <1>7 DEF Arc

\* The empty arc and the full one end where they begin, and no other does.
LEMMA ArcEnds ==
    ASSUME NEW c \in Nat \ {0}, NEW a \in Ring(c), NEW n \in 0 .. c
    PROVE  /\ Behind(a, n, c) \in Ring(c)
           /\ Behind(a, n, c) = a <=> n \in {0, c}
           /\ n = 0 => Arc(a, n, c) = {}
           /\ a \in Arc(a, n, c) <=> n > 0
           /\ Behind(a, n, c) \notin Arc(a, n, c) => n < c
  <1>1. Behind(a, n, c) \in Ring(c) /\ (Behind(a, n, c) = a <=> n \in {0, c})
    BY DEF Ring, Behind
  <1>2. n = 0 => Arc(a, n, c) = {}
    BY DEF Ring, Arc, Ahead
  <1>3. a \in Arc(a, n, c) <=> n > 0
    BY DEF Ring, Arc, Ahead
  <1>4. Behind(a, n, c) \notin Arc(a, n, c) => n < c
    BY DEF Ring, Behind, Arc, Ahead
  <1> QED BY <1>1, <1>2, <1>3, <1>4

-------------------------------------------------------------------------------
(***************************************************************************)
(* The rings (EthDma).                                                     *)
(***************************************************************************)
Receiving == {"alloc", "look", "bell"}
Places == Receiving \cup {"idle", "txcheck", "txown", "txbell"}

\* The descriptors the driver has to empty, from the next it empties to the DMA's own.
RxOldest == IF drv = "bell" THEN (rxIdx + 1) % RxCnt ELSE rxIdx
RxFilled == {d \in Ring(RxCnt) : ~rxOwn[d]}
RxRing(n) == rxDma = Behind(RxOldest, n, RxCnt) /\ RxFilled = Arc(RxOldest, n, RxCnt)

\* A suspended DMA has filled them all, and somebody is on the way to what it filled.
RxKept ==
    \E n \in 0 .. RxCnt :
        /\ RxRing(n)
        /\ ~rxRuns => n = RxCnt \/ drv = "bell"
        /\ n > 0 => ri \/ isrAt = "call" \/ deferred \/ drv \in Receiving \/ ~rxCb

\* The descriptors the DMA has to send, up to the one the driver uses next; the tail
\* pointer is there, or a doorbell behind.
TxQueued == {d \in Ring(TxCnt) : txOwn[d]}
TxKept ==
    \E n \in 0 .. TxCnt - 1 :
        /\ txIdx = Behind(txDma, n, TxCnt) /\ TxQueued = Arc(txDma, n, TxCnt)
        /\ drv = "txown" => n + 1 < TxCnt
        /\ drv = "txbell" => n > 0 /\ txTail = Behind(txDma, n - 1, TxCnt)
        /\ drv # "txbell" => txTail = txIdx
        /\ ~txRuns /\ drv # "txbell" => n = 0

RxShape == DOMAIN rxOwn = Ring(RxCnt) /\ rxIdx \in Ring(RxCnt)
TxShape == DOMAIN txOwn = Ring(TxCnt) /\ txDma \in Ring(TxCnt)
EthCounts == pool \in Int /\ stack \in Int /\ drv \in Places /\ isrAt \in {"idle", "call"}

EthInv == RxShape /\ TxShape /\ EthCounts /\ RxKept /\ TxKept /\ PacketsKept

LEMMA Rings == RxCnt \in Nat \ {0} /\ TxCnt \in Nat \ {0} /\ TxCnt > 1
  BY EthDmaAssumption

LEMMA EthInvIsAlive == EthInv => EthAlive
  <1> SUFFICES ASSUME EthInv PROVE EthAlive
    OBVIOUS
  <1>1. ReceptionLives
    <2> SUFFICES ASSUME rxCb, drv = "idle", isrAt = "idle", ~ri, ~deferred
                 PROVE  rxRuns /\ \A d \in DOMAIN rxOwn : rxOwn[d]
      BY DEF ReceptionLives
    <2> PICK n \in 0 .. RxCnt :
            /\ RxRing(n)
            /\ ~rxRuns => n = RxCnt \/ drv = "bell"
            /\ n > 0 => ri \/ isrAt = "call" \/ deferred \/ drv \in Receiving \/ ~rxCb
      BY DEF EthInv, RxKept
    <2>1. n = 0
      <3>1. ~(n > 0)
        BY DEF Receiving
      <3> QED BY <3>1, Rings
    <2>2. rxRuns
      BY <2>1, Rings
    <2>3. RxFilled = {}
      BY <2>1, Rings, ArcEnds DEF EthInv, RxShape, RxRing, RxOldest
    <2> QED BY <2>2, <2>3 DEF RxFilled, EthInv, RxShape
  <1>2. TransmissionLives
    <2> SUFFICES ASSUME ~txRuns, drv # "txbell" PROVE \A d \in DOMAIN txOwn : ~txOwn[d]
      BY DEF TransmissionLives
    <2> PICK n \in 0 .. TxCnt - 1 : TxQueued = Arc(txDma, n, TxCnt) /\ n = 0
      BY DEF EthInv, TxKept
    <2>1. TxQueued = {}
      BY Rings, ArcEnds DEF EthInv, TxShape
    <2> QED BY <2>1 DEF TxQueued, EthInv, TxShape
  <1> QED BY <1>1, <1>2 DEF EthInv, EthAlive

LEMMA EthStarts == EthInit => EthInv
  <1> SUFFICES ASSUME EthInit PROVE EthInv
    OBVIOUS
  <1>1. RxShape /\ TxShape
    BY Rings DEF EthInit, RxShape, TxShape, Ring
  <1>2. pool = PoolCount /\ stack = 0 /\ drv = "idle" /\ isrAt = "idle" /\ into = "packet"
    BY DEF EthInit
  <1>3. EthCounts /\ PacketsKept
    BY <1>2, EthDmaAssumption DEF EthCounts, Places, PacketsKept
  <1>4. RxKept
    <2>1. rxDma = 0 /\ rxRuns /\ rxIdx = 0 /\ RxFilled = {} /\ RxOldest = 0
      BY <1>2 DEF EthInit, RxFilled, RxOldest, Ring
    <2>2. Behind(0, 0, RxCnt) = 0 /\ Arc(0, 0, RxCnt) = {}
      BY Rings, ArcEnds DEF Ring
    <2>3. 0 \in 0 .. RxCnt /\ ~(0 > 0)
      BY Rings
    <2> QED BY <2>1, <2>2, <2>3 DEF RxKept, RxRing
  <1>5. TxKept
    <2>1. txDma = 0 /\ txTail = 0 /\ txIdx = 0 /\ TxQueued = {}
      BY DEF EthInit, TxQueued, Ring
    <2>2. Behind(0, 0, TxCnt) = 0 /\ Arc(0, 0, TxCnt) = {}
      BY Rings, ArcEnds DEF Ring
    <2>3. 0 \in 0 .. TxCnt - 1
      BY Rings
    <2> QED BY <1>2, <2>1, <2>2, <2>3 DEF TxKept
  <1> QED BY <1>1, <1>3, <1>4, <1>5 DEF EthInv

\* A step that leaves the receive ring and its doorbell alone, and does not drop what is
\* on the way to it.
LEMMA RxLeftAlone ==
    ASSUME EthInv, UNCHANGED <<rxOwn, rxDma, rxRuns, rxIdx>>,
           drv = "bell" <=> drv' = "bell",
           (ri \/ isrAt = "call" \/ deferred \/ drv \in Receiving \/ ~rxCb)
               => (ri' \/ isrAt' = "call" \/ deferred' \/ drv' \in Receiving \/ ~rxCb')
    PROVE  RxShape' /\ RxKept'
  <1>1. RxShape'
    BY DEF EthInv, RxShape
  <1>2. RxOldest' = RxOldest /\ RxFilled' = RxFilled
    BY DEF RxOldest, RxFilled
  <1>3. \A n : RxRing(n) <=> RxRing(n)'
    BY <1>2 DEF RxRing
  <1>4. PICK n \in 0 .. RxCnt :
            /\ RxRing(n)
            /\ ~rxRuns => n = RxCnt \/ drv = "bell"
            /\ n > 0 => ri \/ isrAt = "call" \/ deferred \/ drv \in Receiving \/ ~rxCb
    BY DEF EthInv, RxKept
  <1>5. RxRing(n)' /\ (~rxRuns' => n = RxCnt \/ drv' = "bell")
    BY <1>3, <1>4
  <1>6. n > 0 => ri' \/ isrAt' = "call" \/ deferred' \/ drv' \in Receiving \/ ~rxCb'
    BY <1>4
  <1> QED BY <1>1, <1>5, <1>6 DEF RxKept

LEMMA TxLeftAlone ==
    ASSUME EthInv, UNCHANGED txVars, drv' \notin {"txown", "txbell"}, drv # "txbell"
    PROVE  TxShape' /\ TxKept'
  <1>1. TxShape' /\ TxQueued' = TxQueued /\ txIdx' = txIdx /\ txDma' = txDma /\ txTail' = txTail
        /\ txRuns' = txRuns
    BY DEF EthInv, TxShape, TxQueued, txVars
  <1> QED BY <1>1 DEF EthInv, TxKept

\* ... or leaves the driver where it is.
LEMMA TxUntouched ==
    ASSUME EthInv, UNCHANGED txVars, drv' = drv
    PROVE  TxShape' /\ TxKept'
  <1>1. TxShape' /\ TxQueued' = TxQueued /\ txIdx' = txIdx /\ txDma' = txDma /\ txTail' = txTail
        /\ txRuns' = txRuns
    BY DEF EthInv, TxShape, TxQueued, txVars
  <1> QED BY <1>1 DEF EthInv, TxKept

LEMMA FrameKeeps == ASSUME NEW what PROVE EthInv /\ FrameComes(what) => EthInv'
  <1> SUFFICES ASSUME EthInv, FrameComes(what) PROVE EthInv'
    OBVIOUS
  <1>1. /\ drv' = drv /\ isrAt' = isrAt /\ into' = into /\ pool' = pool /\ stack' = stack
        /\ rxIdx' = rxIdx /\ deferred' = deferred /\ rxCb' = rxCb
        /\ UNCHANGED <<txOwn, txDma, txTail, txRuns, txIdx>>
    BY DEF FrameComes, OnlyDma
  <1>2. EthCounts' /\ PacketsKept'
    BY <1>1 DEF EthInv, EthCounts, PacketsKept
  <1>3. TxShape' /\ TxKept'
    BY <1>1, TxUntouched DEF txVars
  <1>4. PICK n \in 0 .. RxCnt :
            /\ RxRing(n)
            /\ ~rxRuns => n = RxCnt \/ drv = "bell"
            /\ n > 0 => ri \/ isrAt = "call" \/ deferred \/ drv \in Receiving \/ ~rxCb
    BY DEF EthInv, RxKept
  <1>5. RxOldest \in Ring(RxCnt) /\ RxOldest' = RxOldest
    BY <1>1, Rings, NextInRing DEF EthInv, RxShape, RxOldest
  <1>6. CASE rxRuns /\ rxOwn[rxDma]
    <2>1. /\ rxOwn' = [rxOwn EXCEPT ![rxDma] = FALSE] /\ rxDma' = (rxDma + 1) % RxCnt
          /\ ri' /\ rxRuns' = rxRuns
      BY <1>6 DEF FrameComes
    <2>2. rxDma \in Ring(RxCnt)
      BY <1>4, <1>5, Rings, ArcEnds DEF RxRing
    <2>3. RxFilled' = RxFilled \cup {rxDma} /\ rxDma \notin RxFilled
      BY <1>6, <2>1, <2>2 DEF RxFilled, EthInv, RxShape
    <2>4. n < RxCnt
      BY <1>4, <1>5, <2>3, Rings, ArcEnds DEF RxRing
    <2>5. n \in 0 .. RxCnt - 1 /\ n + 1 \in 0 .. RxCnt
      BY <2>4, Rings
    <2>6. RxRing(n + 1)'
      BY <1>4, <1>5, <2>1, <2>3, <2>5, Rings, ArcGrows DEF RxRing
    <2>7. RxKept'
      BY <1>6, <2>1, <2>5, <2>6 DEF RxKept
    <2>8. RxShape'
      BY <1>1, <2>1 DEF EthInv, RxShape
    <2> QED BY <1>2, <1>3, <2>7, <2>8 DEF EthInv
  <1>7. CASE ~(rxRuns /\ rxOwn[rxDma])
    <2>1. ~rxRuns' /\ UNCHANGED <<rxOwn, rxDma, ri>>
      BY <1>7 DEF FrameComes
    <2>2. n = RxCnt \/ drv = "bell"
      <3>1. CASE ~rxRuns
        BY <3>1, <1>4
      <3>2. CASE ~rxOwn[rxDma]
        <4>1. rxDma \in RxFilled
          BY <1>4, <1>5, <3>2, Rings, ArcEnds DEF RxRing, RxFilled
        <4>2. ~(n \in 0 .. RxCnt - 1)
          BY <1>4, <1>5, <4>1, Rings, ArcGrows DEF RxRing
        <4> QED BY <4>2, Rings
      <3> QED BY <1>7, <3>1, <3>2
    <2>3. RxRing(n)' /\ RxShape'
      BY <1>1, <1>4, <1>5, <2>1 DEF RxRing, RxFilled, EthInv, RxShape
    <2>4. RxKept'
      BY <1>1, <1>4, <2>1, <2>2, <2>3 DEF RxKept
    <2> QED BY <1>2, <1>3, <2>3, <2>4 DEF EthInv
  <1> QED BY <1>6, <1>7

LEMMA TxDmaKeeps == EthInv /\ TxDmaStep => EthInv'
  <1> SUFFICES ASSUME EthInv, TxDmaStep PROVE EthInv'
    OBVIOUS
  <1>1. /\ drv' = drv /\ isrAt' = isrAt /\ into' = into /\ pool' = pool /\ stack' = stack
        /\ deferred' = deferred /\ rxCb' = rxCb /\ ri' = ri /\ txTail' = txTail /\ txIdx' = txIdx
        /\ UNCHANGED <<rxOwn, rxDma, rxRuns, rxIdx>>
    BY DEF TxDmaStep, OnlyDma
  <1>2. EthCounts' /\ PacketsKept'
    BY <1>1 DEF EthInv, EthCounts, PacketsKept
  <1>3. RxShape' /\ RxKept'
    BY <1>1, RxLeftAlone
  <1>4. PICK n \in 0 .. TxCnt - 1 :
            /\ txIdx = Behind(txDma, n, TxCnt) /\ TxQueued = Arc(txDma, n, TxCnt)
            /\ drv = "txown" => n + 1 < TxCnt
            /\ drv = "txbell" => n > 0 /\ txTail = Behind(txDma, n - 1, TxCnt)
            /\ drv # "txbell" => txTail = txIdx
            /\ ~txRuns /\ drv # "txbell" => n = 0
    BY DEF EthInv, TxKept
  <1>5. txDma \in Ring(TxCnt) /\ n \in 0 .. TxCnt
    BY Rings DEF EthInv, TxShape
  <1>6. CASE txDma = txTail \/ ~txOwn[txDma]
    <2>1. ~txRuns' /\ txOwn' = txOwn /\ txDma' = txDma
      BY <1>6 DEF TxDmaStep
    <2>2. drv # "txbell" => n = 0
      <3> SUFFICES ASSUME drv # "txbell" PROVE n = 0
        OBVIOUS
      <3>1. CASE txDma = txTail
        <4>1. Behind(txDma, n, TxCnt) = txDma
          BY <3>1, <1>4
        <4> QED BY <4>1, <1>5, Rings, ArcEnds
      <3>2. CASE ~txOwn[txDma]
        <4>1. txDma \notin Arc(txDma, n, TxCnt)
          BY <3>2, <1>4 DEF TxQueued
        <4> QED BY <4>1, <1>5, Rings, ArcEnds
      <3> QED BY <1>6, <3>1, <3>2
    <2>3. TxQueued' = TxQueued /\ TxShape'
      BY <2>1 DEF TxQueued, EthInv, TxShape
    <2>4. TxKept'
      BY <1>1, <1>4, <2>1, <2>2, <2>3 DEF TxKept
    <2> QED BY <1>2, <1>3, <2>3, <2>4 DEF EthInv
  <1>7. CASE ~(txDma = txTail \/ ~txOwn[txDma])
    <2>1. txOwn' = [txOwn EXCEPT ![txDma] = FALSE] /\ txDma' = (txDma + 1) % TxCnt /\ txRuns' /\ txRuns
      BY <1>7 DEF TxDmaStep
    <2>2. TxQueued' = TxQueued \ {txDma}
      BY <2>1, <1>5 DEF TxQueued, EthInv, TxShape
    <2>3. txDma \in TxQueued
      BY <1>5, <1>7 DEF TxQueued
    <2>4. n > 0
      BY <1>4, <1>5, <2>3, Rings, ArcEnds
    <2>5. n \in 1 .. TxCnt /\ n - 1 \in 0 .. TxCnt - 1
      BY <2>4, Rings
    <2>6. /\ txDma' \in Ring(TxCnt)
          /\ txIdx' = Behind(txDma', n - 1, TxCnt) /\ TxQueued' = Arc(txDma', n - 1, TxCnt)
      BY <1>1, <1>4, <1>5, <2>1, <2>2, <2>5, Rings, ArcShrinks
    <2>7. drv = "txbell" => n - 1 > 0 /\ txTail = Behind(txDma', n - 2, TxCnt)
      <3> SUFFICES ASSUME drv = "txbell" PROVE n - 1 > 0 /\ txTail = Behind(txDma', n - 2, TxCnt)
        OBVIOUS
      <3>1. txTail = Behind(txDma, n - 1, TxCnt) /\ txTail # txDma
        BY <1>4, <1>7
      <3>2. n - 1 # 0
        BY <3>1, <1>5, <2>5, Rings, ArcEnds
      <3>3. n - 1 \in 1 .. TxCnt
        BY <2>5, <3>2, Rings
      <3>4. Behind(txDma', (n - 1) - 1, TxCnt) = Behind(txDma, n - 1, TxCnt)
        BY <1>5, <2>1, <3>3, Rings, ArcShrinks
      <3> QED BY <2>5, <3>1, <3>2, <3>4
    <2>8. (n - 1) + 1 = n /\ (n - 1) - 1 = n - 2
      BY <2>5
    <2>9. TxKept'
      <3>1. drv' = "txown" => (n - 1) + 1 < TxCnt
        BY <2>5, <2>8, Rings
      <3> QED BY <1>1, <1>4, <2>1, <2>5, <2>6, <2>7, <2>8, <3>1 DEF TxKept
    <2>10. TxShape'
      BY <2>1, <2>6 DEF EthInv, TxShape
    <2> QED BY <1>2, <1>3, <2>9, <2>10 DEF EthInv
  <1> QED BY <1>6, <1>7

LEMMA IsrKeeps == EthInv /\ (IsrClears \/ IsrSignals) => EthInv'
  <1> SUFFICES ASSUME EthInv, IsrClears \/ IsrSignals PROVE EthInv'
    OBVIOUS
  <1>1. /\ drv' = drv /\ into' = into /\ pool' = pool /\ stack' = stack /\ rxCb' = rxCb
        /\ UNCHANGED <<rxOwn, rxDma, rxRuns, rxIdx>> /\ UNCHANGED txVars
        /\ isrAt' \in {"idle", "call"}
    BY DEF IsrClears, IsrSignals, OnlyIsr, rxVars
  <1>2. EthCounts' /\ PacketsKept'
    BY <1>1 DEF EthInv, EthCounts, PacketsKept
  <1>3. (ri \/ isrAt = "call" \/ deferred \/ drv \in Receiving \/ ~rxCb)
            => (ri' \/ isrAt' = "call" \/ deferred' \/ drv' \in Receiving \/ ~rxCb')
    BY <1>1 DEF IsrClears, IsrSignals
  <1>4. RxShape' /\ RxKept'
    BY <1>1, <1>3, RxLeftAlone
  <1>5. TxShape' /\ TxKept'
    BY <1>1, TxUntouched
  <1> QED BY <1>2, <1>4, <1>5 DEF EthInv

\* Steps of the receiving driver that leave the ring's descriptors alone.
LEMMA DrainStepKeeps ==
    EthInv /\ (DeferredBegins \/ Allocates \/ Enables \/ Disables) => EthInv'
  <1> SUFFICES ASSUME EthInv, DeferredBegins \/ Allocates \/ Enables \/ Disables PROVE EthInv'
    OBVIOUS
  <1>1. /\ UNCHANGED <<rxOwn, rxDma, rxRuns, rxIdx>> /\ UNCHANGED txVars
        /\ isrAt' = isrAt /\ ri' = ri
        /\ drv \in {"idle", "alloc"} /\ drv' \in {"idle", "alloc", "look"}
    BY DEF DeferredBegins, Allocates, Enables, Disables, OnlyReceive, rxVars
  <1>2. EthCounts' /\ PacketsKept'
    BY <1>1, EthDmaAssumption
    DEF EthInv, EthCounts, PacketsKept, Places, Receiving, DeferredBegins, Allocates, Enables, Disables
  <1>3. (ri \/ isrAt = "call" \/ deferred \/ drv \in Receiving \/ ~rxCb)
            => (ri' \/ isrAt' = "call" \/ deferred' \/ drv' \in Receiving \/ ~rxCb')
    BY <1>1 DEF DeferredBegins, Allocates, Enables, Disables, Receiving
  <1>4. RxShape' /\ RxKept'
    BY <1>1, <1>3, RxLeftAlone
  <1>5. TxShape' /\ TxKept'
    BY <1>1, TxLeftAlone
  <1> QED BY <1>2, <1>4, <1>5 DEF EthInv

\* eth_recv finds nothing pending: nothing is, whatever came meanwhile.
LEMMA FindsNoneKeeps == EthInv /\ FindsNone => EthInv'
  <1> SUFFICES ASSUME EthInv, FindsNone PROVE EthInv'
    OBVIOUS
  <1>1. /\ UNCHANGED <<rxOwn, rxDma, rxRuns, rxIdx>> /\ UNCHANGED txVars
        /\ isrAt' = isrAt /\ drv = "look" /\ drv' = "idle" /\ rxOwn[rxIdx]
    BY DEF FindsNone, OnlyReceive, rxVars
  <1>2. EthCounts' /\ PacketsKept'
    BY <1>1, EthDmaAssumption DEF EthInv, EthCounts, PacketsKept, Places, FindsNone, OnlyReceive
  <1>3. PICK n \in 0 .. RxCnt : RxRing(n) /\ (~rxRuns => n = RxCnt \/ drv = "bell")
    BY DEF EthInv, RxKept
  <1>4. rxIdx \in Ring(RxCnt) /\ RxOldest = rxIdx /\ rxIdx \notin RxFilled
    BY <1>1 DEF EthInv, RxShape, RxOldest, RxFilled
  <1>5. n = 0
    <2>1. ~(n > 0)
      BY <1>3, <1>4, Rings, ArcEnds DEF RxRing
    <2> QED BY <2>1, Rings
  <1>6. RxRing(n)' /\ RxShape'
    BY <1>1, <1>3, <1>4 DEF RxRing, RxOldest, RxFilled, EthInv, RxShape
  <1>7. rxRuns
    BY <1>1, <1>3, <1>5, Rings
  <1>8. ~(n > 0) /\ rxRuns'
    BY <1>1, <1>5, <1>7
  <1>9. RxKept'
    BY <1>6, <1>8 DEF RxKept
  <1>10. TxShape' /\ TxKept'
    BY <1>1, TxLeftAlone
  <1> QED BY <1>2, <1>6, <1>9, <1>10 DEF EthInv

LEMMA GivesBackKeeps == EthInv /\ GivesBack => EthInv'
  <1> SUFFICES ASSUME EthInv, GivesBack PROVE EthInv'
    OBVIOUS
  <1>1. /\ rxOwn' = [rxOwn EXCEPT ![rxIdx] = TRUE] /\ rxDma' = rxDma /\ rxRuns' = rxRuns
        /\ rxIdx' = rxIdx /\ UNCHANGED txVars
        /\ isrAt' = isrAt /\ drv = "look" /\ drv' = "bell" /\ ~rxOwn[rxIdx]
        /\ pool' = pool /\ stack' = stack /\ into' = into
    BY DEF GivesBack, OnlyReceive
  <1>2. EthCounts' /\ PacketsKept'
    BY <1>1 DEF EthInv, EthCounts, PacketsKept, Places, Receiving
  <1>3. PICK n \in 0 .. RxCnt : RxRing(n)
    BY DEF EthInv, RxKept
  <1>4. rxIdx \in Ring(RxCnt) /\ RxOldest = rxIdx /\ RxOldest' = (rxIdx + 1) % RxCnt
        /\ rxIdx \in RxFilled
    BY <1>1 DEF EthInv, RxShape, RxOldest, RxFilled
  <1>5. n \in 1 .. RxCnt /\ n - 1 \in 0 .. RxCnt
    <2>1. n > 0
      BY <1>3, <1>4, Rings, ArcEnds DEF RxRing
    <2> QED BY <2>1, Rings
  <1>6. RxFilled' = RxFilled \ {rxIdx} /\ RxShape'
    BY <1>1, <1>4 DEF RxFilled, EthInv, RxShape
  <1>7. RxRing(n - 1)'
    BY <1>1, <1>3, <1>4, <1>5, <1>6, Rings, ArcShrinks DEF RxRing
  <1>8. RxKept'
    BY <1>1, <1>5, <1>7 DEF RxKept, Receiving
  <1>9. TxShape' /\ TxKept'
    BY <1>1, TxLeftAlone
  <1> QED BY <1>2, <1>6, <1>8, <1>9 DEF EthInv

LEMMA RxBellKeeps == ASSUME NEW taken \in BOOLEAN PROVE EthInv /\ RxBell(taken) => EthInv'
  <1> SUFFICES ASSUME EthInv, RxBell(taken) PROVE EthInv'
    OBVIOUS
  <1>1. /\ rxOwn' = rxOwn /\ rxDma' = rxDma /\ rxRuns' /\ rxIdx' = (rxIdx + 1) % RxCnt
        /\ UNCHANGED txVars
        /\ isrAt' = isrAt /\ drv = "bell" /\ drv' \in {"alloc", "look"} /\ into' = into
    BY DEF RxBell, OnlyReceive
  <1>2. EthCounts' /\ PacketsKept'
    BY <1>1 DEF EthInv, EthCounts, PacketsKept, Places, Receiving, RxBell
  <1>3. PICK n \in 0 .. RxCnt : RxRing(n)
    BY DEF EthInv, RxKept
  <1>4. RxOldest' = RxOldest /\ RxFilled' = RxFilled /\ RxShape'
    BY <1>1, Rings, NextInRing DEF RxOldest, RxFilled, EthInv, RxShape
  <1>5. RxKept'
    BY <1>1, <1>3, <1>4 DEF RxKept, RxRing, Receiving
  <1>6. TxShape' /\ TxKept'
    BY <1>1, TxLeftAlone
  <1> QED BY <1>2, <1>4, <1>5, <1>6 DEF EthInv

\* The sending driver leaves the receive side alone: it receives nothing meanwhile.
LEMMA SendLeavesRx ==
    ASSUME EthInv, TxSide PROVE RxShape' /\ RxKept'
  <1>1. /\ UNCHANGED <<rxOwn, rxDma, rxRuns, rxIdx>> /\ ri' = ri /\ isrAt' = isrAt
        /\ deferred' = deferred /\ rxCb' = rxCb
        /\ drv' = drv \/ (drv \notin Receiving /\ drv' \notin Receiving)
    BY DEF TxSide, Consumes, EthSends, TxChecks, TxOwns, TxBell, OnlySend, rxVars, isrVars, Receiving
  <1> QED BY <1>1, RxLeftAlone DEF Receiving

LEMMA SendKeepsPackets == EthInv /\ TxSide => EthCounts' /\ PacketsKept'
  <1> SUFFICES ASSUME EthInv, TxSide PROVE EthCounts' /\ PacketsKept'
    OBVIOUS
  <1>1. into' = into /\ isrAt' = isrAt
    BY DEF TxSide, Consumes, EthSends, TxChecks, TxOwns, TxBell, OnlySend, isrVars
  <1> QED BY <1>1, EthDmaAssumption DEF TxSide, Consumes, EthSends, TxChecks, TxOwns, TxBell,
          EthInv, EthCounts, PacketsKept, Places, Receiving

LEMMA SendKeepsTx == EthInv /\ TxSide => TxShape' /\ TxKept'
  <1> SUFFICES ASSUME EthInv, TxSide PROVE TxShape' /\ TxKept'
    OBVIOUS
  <1>1. PICK n \in 0 .. TxCnt - 1 :
            /\ txIdx = Behind(txDma, n, TxCnt) /\ TxQueued = Arc(txDma, n, TxCnt)
            /\ drv = "txown" => n + 1 < TxCnt
            /\ drv = "txbell" => n > 0 /\ txTail = Behind(txDma, n - 1, TxCnt)
            /\ drv # "txbell" => txTail = txIdx
            /\ ~txRuns /\ drv # "txbell" => n = 0
    BY DEF EthInv, TxKept
  <1>2. txDma \in Ring(TxCnt) /\ n \in 0 .. TxCnt
    BY Rings DEF EthInv, TxShape
  <1>3. txIdx \in Ring(TxCnt)
    BY <1>1, <1>2, Rings, ArcEnds
  <1>4. CASE Consumes
    BY <1>4, TxUntouched DEF Consumes
  <1>5. CASE EthSends
    <2>1. UNCHANGED txVars /\ drv = "idle" /\ drv' = "txcheck"
      BY <1>5 DEF EthSends
    <2> QED BY <2>1, TxLeftAlone
  <1>6. CASE TxChecks
    <2>1. UNCHANGED txVars /\ drv = "txcheck" /\ (IF TxFree THEN drv' = "txown" ELSE drv' = "idle")
      BY <1>6 DEF TxChecks
    <2>2. CASE ~TxFree
      BY <2>1, <2>2, TxLeftAlone
    <2>3. CASE TxFree
      <3>1. TxShape' /\ TxQueued' = TxQueued /\ txIdx' = txIdx /\ txDma' = txDma
            /\ txTail' = txTail /\ txRuns' = txRuns
        BY <2>1 DEF EthInv, TxShape, TxQueued, txVars
      <3>2. n + 1 < TxCnt
        <4> SUFFICES ASSUME n = TxCnt - 1 PROVE FALSE
          BY Rings
        <4>1. n + 1 = TxCnt /\ n \in 0 .. TxCnt - 1 /\ n > 0 /\ TxCnt \in 0 .. TxCnt
          BY Rings
        <4>2. NextTx(txIdx) = Behind(txDma, TxCnt, TxCnt)
          BY <1>1, <1>2, <4>1, Rings, ArcGrows DEF NextTx
        <4>3. Behind(txDma, TxCnt, TxCnt) = txDma
          BY <1>2, <4>1, Rings, ArcEnds
        <4>4. txDma \in TxQueued
          BY <1>1, <1>2, <4>1, Rings, ArcEnds
        <4> QED BY <2>3, <4>2, <4>3, <4>4 DEF TxFree, TxQueued
      <3>3. drv' = "txown"
        BY <2>1, <2>3
      <3> QED BY <1>1, <2>1, <3>1, <3>2, <3>3 DEF TxKept
    <2> QED BY <2>2, <2>3
  <1>7. CASE TxOwns
    <2>1. /\ drv = "txown" /\ drv' = "txbell" /\ txOwn' = [txOwn EXCEPT ![txIdx] = TRUE]
          /\ txIdx' = NextTx(txIdx) /\ txDma' = txDma /\ txTail' = txTail /\ txRuns' = txRuns
      BY <1>7 DEF TxOwns
    <2>2. n + 1 \in 0 .. TxCnt - 1 /\ n + 1 > 0 /\ (n + 1) - 1 = n
      BY <1>1, <2>1, Rings
    <2>3. TxQueued' = TxQueued \cup {txIdx} /\ TxShape'
      BY <1>3, <2>1 DEF TxQueued, EthInv, TxShape
    <2>4. txIdx' = Behind(txDma, n + 1, TxCnt) /\ TxQueued' = Arc(txDma, n + 1, TxCnt)
      BY <1>1, <1>2, <2>1, <2>3, Rings, ArcGrows DEF NextTx
    <2>5. txTail' = Behind(txDma, n, TxCnt)
      BY <1>1, <2>1
    <2> QED BY <2>1, <2>2, <2>3, <2>4, <2>5 DEF TxKept
  <1>8. CASE TxBell
    <2>1. /\ drv' = "idle" /\ txTail' = txIdx /\ txRuns' /\ txOwn' = txOwn /\ txDma' = txDma
          /\ txIdx' = txIdx
      BY <1>8 DEF TxBell
    <2>2. TxQueued' = TxQueued /\ TxShape'
      BY <2>1 DEF TxQueued, EthInv, TxShape
    <2> QED BY <1>1, <2>1, <2>2 DEF TxKept
  <1> QED BY <1>4, <1>5, <1>6, <1>7, <1>8 DEF TxSide

LEMMA EthStep == EthInv /\ [EthNext]_ethVars => EthInv'
  <1> SUFFICES ASSUME EthInv, [EthNext]_ethVars PROVE EthInv'
    OBVIOUS
  <1>1. CASE TxSide
    BY <1>1, SendLeavesRx, SendKeepsPackets, SendKeepsTx DEF EthInv
  <1>2. CASE UNCHANGED ethVars
    <2>1. UNCHANGED <<rxVars, txVars, isrVars, rxCb, drv, into, pool, stack>>
      BY <1>2 DEF ethVars
    <2>2. EthCounts' /\ PacketsKept'
      BY <2>1 DEF isrVars, EthInv, EthCounts, PacketsKept
    <2>3. RxShape' /\ RxKept'
      BY <2>1, RxLeftAlone DEF rxVars, isrVars
    <2>4. TxShape' /\ TxKept'
      BY <2>1, TxUntouched
    <2> QED BY <2>2, <2>3, <2>4 DEF EthInv
  <1> QED
    BY <1>1, <1>2, FrameKeeps, TxDmaKeeps, IsrKeeps, DrainStepKeeps, FindsNoneKeeps,
       GivesBackKeeps, RxBellKeeps DEF EthNext, Hardware, RxSide

-------------------------------------------------------------------------------
(***************************************************************************)
(* Bring-up, link and UDP service (NetUp).                                 *)
(***************************************************************************)
Threads == {"doip", "doipSvc", "eth", "ethSvc"}
Counted == netPool \in Int /\ requests \in Int /\ leaving \in Int

\* Who has the mutex is in a poll, or learns a peer; the owner of a poll waits in it.
Polling == {"bsr", "pscsr", "maccr"}
OwnerPolls ==
    /\ protection = "nobody" => cmd = "idle"
    /\ cmd \in Polling => protection \in Threads /\ at[protection] \in {"link", "poll"}

\* Nothing polls, and no socket is there, before the driver is initialised.
Linked == {"link", "poll", "saw up", "saw down", "sockets", "runs",
           "pass", "request", "learn", "answer"}
DriverFirst ==
    ipThread # "on" => /\ ~linkFlag /\ protection = "nobody"
                       /\ \A t \in Threads : at[t] \notin Linked

\* The service thread waits for the sockets.
SvcWaits == at.doip # "runs" => at.doipSvc \in {"off", "no sockets"}

\* A poll that found the link up ends with what the PHY negotiated, or is overtaken.
Negotiated(link) == IF link \in Modes THEN link ELSE Fallback
ModeKept ==
    /\ current /\ cmd \notin {"pscsr", "maccr"} => mac = Negotiated(phy)
    /\ current /\ cmd = "maccr" => pscsr = IF phy \in Modes THEN phy ELSE "none"

\* Whoever is past the bring-up was let past it at the one address.
Admitted == {"unseeded", "enabled", "link", "poll", "saw up", "saw down", "sockets", "runs"}
EndpointKept ==
    /\ \A t \in {"doip", "eth"} : at[t] \in Admitted => up = 1 /\ ipAddr = endpoint[t]
    /\ at.doip \in Admitted \ {"unseeded"} => seeded

NetUpInv ==
    /\ DOMAIN at = Threads /\ Counted /\ OwnerPolls /\ DriverFirst /\ SvcWaits /\ ModeKept
    /\ ResolvedKept /\ PoolWhole /\ EndpointKept

LEMMA NetUpInvIsHonest == NetUpInv => NetUpHonest
  BY DEF NetUpInv, NetUpHonest, ModeKept, ModeFollows, Negotiated, EndpointKept, OneEndpoint, Admitted

LEMMA NetUpStarts == NetUpInit => NetUpInv
  <1> SUFFICES ASSUME NetUpInit PROVE NetUpInv
    OBVIOUS
  <1>0. /\ DOMAIN at = Threads
        /\ at["doip"] \in {"off", "define"} /\ at["doipSvc"] = "off"
        /\ at["eth"] \in {"off", "open"} /\ at["ethSvc"] = "off"
    BY DEF NetUpInit, Threads
  <1>1. Counted /\ PoolWhole
    <2>1. Counted /\ netPool + requests + leaving = NetPoolCount
      <3>1. netPool = NetPoolCount /\ requests = 0 /\ leaving = 0
        BY DEF NetUpInit
      <3> QED BY <3>1, NetUpAssumption DEF Counted
    <2>2. ~(at.doipSvc \in {"request", "learn"})
      BY <1>0
    <2> QED BY <2>1, <2>2 DEF Counted, PoolWhole
  <1>2. OwnerPolls /\ DriverFirst /\ SvcWaits
    <2>1. \A t \in Threads : at[t] \notin Linked
      BY <1>0 DEF Threads, Linked
    <2> QED BY <1>0, <2>1 DEF NetUpInit, OwnerPolls, Polling, DriverFirst, SvcWaits
  <1>3. ModeKept /\ ResolvedKept
    BY DEF NetUpInit, ModeKept, ResolvedKept
  <1>4. EndpointKept
    BY <1>0 DEF EndpointKept, Admitted
  <1> QED BY <1>0, <1>1, <1>2, <1>3, <1>4 DEF NetUpInv

\* Whoever is admitted finds the network decided: no later call moves it.
LEMMA Decided == up = 1 => up # 0
  OBVIOUS

LEMMA BringUpKeeps == NetUpInv /\ BringUp => NetUpInv'
  <1> SUFFICES ASSUME NetUpInv, BringUp PROVE NetUpInv'
    OBVIOUS
  <1> USE DEF NetUpInv, Threads, Counted, OwnerPolls, Polling, DriverFirst, Linked,
      SvcWaits, ModeKept, ResolvedKept, PoolWhole, EndpointKept, Admitted, Moves, BlobNetUp, UpAt,
      bringVars, linkVars, identVars, Negotiated, Modes
  <1>1. ASSUME NEW ok \in BOOLEAN, DoipDefined(ok) PROVE NetUpInv'
    <2>1. DOMAIN at' = Threads /\ Counted' /\ PoolWhole'
      BY <1>1, NetUpAssumption DEF DoipDefined
    <2>2. OwnerPolls'
      BY <1>1 DEF DoipDefined
    <2>3. DriverFirst'
      BY <1>1 DEF DoipDefined
    <2>4. SvcWaits'
      BY <1>1 DEF DoipDefined
    <2>5. ModeKept' /\ ResolvedKept'
      BY <1>1 DEF DoipDefined
    <2>6. EndpointKept'
      <3>1. \A t \in {"doip", "eth"} : at'[t] \in Admitted => up' = 1 /\ ipAddr' = endpoint'[t]
        <4>1. at'.doip \in Admitted => up' = 1 /\ ipAddr' = endpoint'.doip
          BY <1>1 DEF DoipDefined
        <4>2. at'.eth \in Admitted => up' = 1 /\ ipAddr' = endpoint'.eth
          <5> SUFFICES ASSUME at'.eth \in Admitted PROVE up' = 1 /\ ipAddr' = endpoint'.eth
            OBVIOUS
          <5>0. at'.eth = at.eth /\ up = 1 /\ ipAddr = endpoint.eth
            BY <1>1 DEF DoipDefined
          <5>1. endpoint' = endpoint /\ (up # 0 => up' = up) /\ (up # 0 => ipAddr' = ipAddr)
            BY <1>1 DEF DoipDefined
          <5>2. up # 0
            BY <5>0, Decided
          <5>3. up' = up /\ ipAddr' = ipAddr
            BY <5>1, <5>2
          <5> QED BY <5>0, <5>1, <5>3
        <4> QED BY <4>1, <4>2
      <3>2. at'.doip \in Admitted \ {"unseeded"} => seeded'
        BY <1>1 DEF DoipDefined
      <3> QED BY <3>1, <3>2
    <2> QED BY <2>1, <2>2, <2>3, <2>4, <2>5, <2>6
  <1>2. ASSUME NEW ok \in BOOLEAN, EthOpens(ok) PROVE NetUpInv'
    <2>1. DOMAIN at' = Threads /\ Counted' /\ PoolWhole'
      BY <1>2, NetUpAssumption DEF EthOpens
    <2>2. OwnerPolls'
      BY <1>2 DEF EthOpens
    <2>3. DriverFirst'
      BY <1>2 DEF EthOpens
    <2>4. SvcWaits'
      BY <1>2 DEF EthOpens
    <2>5. ModeKept' /\ ResolvedKept'
      BY <1>2 DEF EthOpens
    <2>6. EndpointKept'
      <3>1. \A t \in {"doip", "eth"} : at'[t] \in Admitted => up' = 1 /\ ipAddr' = endpoint'[t]
        <4>1. at'.doip \in Admitted => up' = 1 /\ ipAddr' = endpoint'.doip
          <5> SUFFICES ASSUME at'.doip \in Admitted PROVE up' = 1 /\ ipAddr' = endpoint'.doip
            OBVIOUS
          <5>0. at'.doip = at.doip /\ up = 1 /\ ipAddr = endpoint.doip
            BY <1>2 DEF EthOpens
          <5>1. endpoint' = endpoint /\ (up # 0 => up' = up) /\ (up # 0 => ipAddr' = ipAddr)
            BY <1>2 DEF EthOpens
          <5>2. up # 0
            BY <5>0, Decided
          <5>3. up' = up /\ ipAddr' = ipAddr
            BY <5>1, <5>2
          <5> QED BY <5>0, <5>1, <5>3
        <4>2. at'.eth \in Admitted => up' = 1 /\ ipAddr' = endpoint'.eth
          BY <1>2 DEF EthOpens
        <4> QED BY <4>1, <4>2
      <3>2. at'.doip \in Admitted \ {"unseeded"} => seeded'
        BY <1>2 DEF EthOpens
      <3> QED BY <3>1, <3>2
    <2> QED BY <2>1, <2>2, <2>3, <2>4, <2>5, <2>6
  <1>3. ASSUME NEW ok \in BOOLEAN, IpThreadStarts(ok) PROVE NetUpInv'
    BY <1>3 DEF IpThreadStarts
  <1>4. ASSUME NEW ok \in BOOLEAN, DoipSockets(ok) PROVE NetUpInv'
    BY <1>4 DEF DoipSockets
  <1>5. ASSUME NEW ok \in BOOLEAN, EthBinds(ok) PROVE NetUpInv'
    BY <1>5 DEF EthBinds
  <1>6. CASE Seeds
    BY <1>6 DEF Seeds
  <1>7. CASE DoipSeeded
    BY <1>7 DEF DoipSeeded
  <1>8. CASE EthCloses
    BY <1>8 DEF EthCloses
  <1>9. ASSUME NEW t \in {"doip", "eth"}, InterfaceUp(t) PROVE NetUpInv'
    BY <1>9 DEF InterfaceUp
  <1> QED BY <1>1, <1>2, <1>3, <1>4, <1>5, <1>6, <1>7, <1>8, <1>9 DEF BringUp

LEMMA LinkKeeps == NetUpInv /\ Link => NetUpInv'
  <1> SUFFICES ASSUME NetUpInv, Link PROVE NetUpInv'
    OBVIOUS
  <1> USE DEF NetUpInv, Threads, Counted, OwnerPolls, Polling, DriverFirst, Linked,
      SvcWaits, ModeKept, ResolvedKept, PoolWhole, EndpointKept, Admitted, Moves, 
      bringVars, linkVars, identVars, Negotiated, Modes, OnlyLink, Answers
  <1>1. CASE PhyChanges
    BY <1>1 DEF PhyChanges
  <1>2. CASE PhySyncMaccr
    <2>1. DOMAIN at' = Threads /\ Counted' /\ PoolWhole'
      BY <1>2, NetUpAssumption DEF PhySyncMaccr
    <2>2. OwnerPolls'
      BY <1>2 DEF PhySyncMaccr
    <2>3. DriverFirst'
      BY <1>2 DEF PhySyncMaccr
    <2>4. SvcWaits'
      BY <1>2 DEF PhySyncMaccr
    <2>5. ModeKept' /\ ResolvedKept'
      BY <1>2 DEF PhySyncMaccr
    <2>6. EndpointKept'
      <3>1. \A t \in {"doip", "eth"} : at'[t] \in Admitted => up' = 1 /\ ipAddr' = endpoint'[t]
        BY <1>2 DEF PhySyncMaccr
      <3>2. at'.doip \in Admitted \ {"unseeded"} => seeded'
        BY <1>2 DEF PhySyncMaccr
      <3> QED BY <3>1, <3>2
    <2> QED BY <2>1, <2>2, <2>3, <2>4, <2>5, <2>6
  <1>3. ASSUME NEW ok \in BOOLEAN, ReadBsr(ok) PROVE NetUpInv'
    <2>1. DOMAIN at' = Threads /\ Counted' /\ PoolWhole'
      BY <1>3, NetUpAssumption DEF ReadBsr
    <2>2. OwnerPolls'
      BY <1>3 DEF ReadBsr
    <2>3. DriverFirst'
      BY <1>3 DEF ReadBsr
    <2>4. SvcWaits'
      BY <1>3 DEF ReadBsr
    <2>5. ModeKept' /\ ResolvedKept'
      BY <1>3 DEF ReadBsr
    <2>6. EndpointKept'
      <3>1. \A t \in {"doip", "eth"} : at'[t] \in Admitted => up' = 1 /\ ipAddr' = endpoint'[t]
        BY <1>3 DEF ReadBsr
      <3>2. at'.doip \in Admitted \ {"unseeded"} => seeded'
        BY <1>3 DEF ReadBsr
      <3> QED BY <3>1, <3>2
    <2> QED BY <2>1, <2>2, <2>3, <2>4, <2>5, <2>6
  <1>4. ASSUME NEW ok \in BOOLEAN, ReadPscsr(ok) PROVE NetUpInv'
    BY <1>4 DEF ReadPscsr
  <1>5. ASSUME NEW t \in DOMAIN at, PollLocks(t) PROVE NetUpInv'
    BY <1>5 DEF PollLocks
  <1>6. ASSUME NEW t \in DOMAIN at, Reports(t) PROVE NetUpInv'
    BY ZenonT(40), <1>6 DEF Reports
  <1> QED BY <1>1, <1>2, <1>3, <1>4, <1>5, <1>6 DEF Link

\* Every step of the UDP service keeps the packets, wherever its thread goes.
Busy(place) == IF place \in {"request", "learn"} THEN 1 ELSE 0

LEMMA IdentKeepsPool == NetUpInv /\ Ident => Counted' /\ PoolWhole'
  <1> SUFFICES ASSUME NetUpInv, Ident PROVE Counted' /\ PoolWhole'
    OBVIOUS
  <1> DEFINE Goal == Counted' /\ netPool' + requests' + leaving' + Busy(at'.doipSvc) = NetPoolCount
  <1>1. /\ DOMAIN at = Threads /\ Counted /\ NetPoolCount \in Nat
        /\ netPool + requests + leaving + Busy(at.doipSvc) = NetPoolCount
    BY NetUpAssumption DEF NetUpInv, PoolWhole, Busy
  <1>2. /\ Busy("pass") = 0 /\ Busy("poll") = 0 /\ Busy("answer") = 0
        /\ Busy("request") = 1 /\ Busy("learn") = 1
        /\ \A place : Busy(place) \in Int
    BY DEF Busy
  <1>3. \A here, there : SvcAt(here, there) => at.doipSvc = here /\ at'.doipSvc = there
    BY <1>1 DEF SvcAt, Moves, Threads
  <1> HIDE DEF Counted
  <1>4. ASSUME IdentArrives \/ Announces \/ Transmitted \/ ArpReply PROVE Goal
    BY <1>1, <1>2, <1>4 DEF IdentArrives, Announces, Transmitted, ArpReply, Counted
  <1>5. ASSUME SvcReceives PROVE Goal
    <2>1. at.doipSvc = "pass" /\ at'.doipSvc = "request"
      BY <1>3, <1>5 DEF SvcReceives
    <2> QED BY <1>1, <1>2, <1>5, <2>1 DEF SvcReceives, Counted
  <1>6. ASSUME PassOver PROVE Goal
    <2>1. at.doipSvc = "pass" /\ at'.doipSvc = "poll"
      BY <1>3, <1>6 DEF PassOver
    <2> QED BY <1>1, <1>2, <1>6, <2>1 DEF PassOver, Counted
  <1>7. ASSUME NotAnswered PROVE Goal
    <2>1. at.doipSvc = "request" /\ at'.doipSvc = "pass"
      BY <1>3, <1>7 DEF NotAnswered
    <2> QED BY <1>1, <1>2, <1>7, <2>1 DEF NotAnswered, Counted
  <1>8. ASSUME NoSource PROVE Goal
    <2>1. at.doipSvc = "request" /\ at'.doipSvc = "answer"
      BY <1>3, <1>8 DEF NoSource
    <2> QED BY <1>1, <1>2, <1>8, <2>1 DEF NoSource, Counted
  <1>9. ASSUME LearnLocks PROVE Goal
    <2>1. at.doipSvc = "request" /\ at'.doipSvc = "learn"
      BY <1>3, <1>9 DEF LearnLocks
    <2> QED BY <1>1, <1>2, <1>9, <2>1 DEF LearnLocks, Counted
  <1>10. ASSUME LearnFinds PROVE Goal
    <2>1. CASE arpEntry # "none"
      <3>1. at.doipSvc = "learn" /\ at'.doipSvc = "answer"
        BY <1>3, <1>10, <2>1 DEF LearnFinds, LearnEnds
      <3> QED BY <1>1, <1>2, <1>10, <2>1, <3>1 DEF LearnFinds, LearnEnds, Counted
    <2> QED BY <1>1, <1>2, <1>10, <2>1 DEF LearnFinds, Counted
  <1>11. ASSUME NEW ok \in BOOLEAN, LearnSets(ok) PROVE Goal
    <2>1. at.doipSvc = "learn" /\ at'.doipSvc = "answer"
      BY <1>3, <1>11 DEF LearnSets, LearnEnds
    <2> QED BY <1>1, <1>2, <1>11, <2>1 DEF LearnSets, Counted, LearnEnds
  <1>12. ASSUME NEW ok \in BOOLEAN, SvcAnswers(ok) PROVE Goal
    <2>1. at.doipSvc = "answer" /\ at'.doipSvc = "pass"
      BY <1>3, <1>12 DEF SvcAnswers
    <2> QED BY <1>1, <1>2, <1>12, <2>1 DEF SvcAnswers, Counted
  <1>13. Goal
    BY <1>4, <1>5, <1>6, <1>7, <1>8, <1>9, <1>10, <1>11, <1>12 DEF Ident
  <1> QED BY <1>13 DEF PoolWhole, Busy

LEMMA IdentKeeps == NetUpInv /\ Ident => NetUpInv'
  <1> SUFFICES ASSUME NetUpInv, Ident PROVE NetUpInv'
    OBVIOUS
  <1> USE DEF NetUpInv, Threads, Counted, OwnerPolls, Polling, DriverFirst, Linked,
      SvcWaits, ModeKept, ResolvedKept, PoolWhole, EndpointKept, Admitted, Moves, 
      bringVars, linkVars, identVars, Negotiated, OnlyIdent, SvcAt, LearnEnds
  <1>1. CASE IdentArrives
    <2>1. DOMAIN at' = Threads /\ Counted' /\ PoolWhole'
      BY <1>1, IdentKeepsPool DEF IdentArrives
    <2>2. OwnerPolls'
      BY <1>1 DEF IdentArrives
    <2>3. DriverFirst'
      BY <1>1 DEF IdentArrives
    <2>4. SvcWaits'
      BY <1>1 DEF IdentArrives
    <2>5. ModeKept' /\ ResolvedKept'
      BY <1>1 DEF IdentArrives
    <2>6. EndpointKept'
      BY <1>1 DEF IdentArrives
    <2> QED BY <2>1, <2>2, <2>3, <2>4, <2>5, <2>6
  <1>2. CASE SvcReceives
    <2>1. DOMAIN at' = Threads /\ Counted' /\ PoolWhole'
      BY <1>2, IdentKeepsPool DEF SvcReceives
    <2>2. OwnerPolls'
      BY <1>2 DEF SvcReceives
    <2>3. DriverFirst'
      BY <1>2 DEF SvcReceives
    <2>4. SvcWaits'
      BY <1>2 DEF SvcReceives
    <2>5. ModeKept' /\ ResolvedKept'
      BY <1>2 DEF SvcReceives
    <2>6. EndpointKept'
      BY <1>2 DEF SvcReceives
    <2> QED BY <2>1, <2>2, <2>3, <2>4, <2>5, <2>6
  <1>3. CASE PassOver
    BY <1>3 DEF PassOver
  <1>4. CASE NotAnswered
    <2>1. DOMAIN at' = Threads /\ Counted' /\ PoolWhole'
      BY <1>4, IdentKeepsPool DEF NotAnswered
    <2>2. OwnerPolls'
      BY <1>4 DEF NotAnswered
    <2>3. DriverFirst'
      BY <1>4 DEF NotAnswered
    <2>4. SvcWaits'
      BY <1>4 DEF NotAnswered
    <2>5. ModeKept' /\ ResolvedKept'
      BY <1>4 DEF NotAnswered
    <2>6. EndpointKept'
      BY <1>4 DEF NotAnswered
    <2> QED BY <2>1, <2>2, <2>3, <2>4, <2>5, <2>6
  <1>5. CASE NoSource
    <2>1. DOMAIN at' = Threads /\ Counted' /\ PoolWhole'
      BY <1>5, IdentKeepsPool DEF NoSource
    <2>2. OwnerPolls'
      BY <1>5 DEF NoSource
    <2>3. DriverFirst'
      BY <1>5 DEF NoSource
    <2>4. SvcWaits'
      BY <1>5 DEF NoSource
    <2>5. ModeKept' /\ ResolvedKept'
      BY <1>5 DEF NoSource
    <2>6. EndpointKept'
      BY <1>5 DEF NoSource
    <2> QED BY <2>1, <2>2, <2>3, <2>4, <2>5, <2>6
  <1>6. CASE LearnLocks
    BY <1>6 DEF LearnLocks
  <1>7. CASE LearnFinds
    <2>1. DOMAIN at' = Threads /\ Counted' /\ PoolWhole'
      BY <1>7, IdentKeepsPool DEF LearnFinds
    <2>2. OwnerPolls'
      BY <1>7 DEF LearnFinds
    <2>3. DriverFirst'
      BY <1>7 DEF LearnFinds
    <2>4. SvcWaits'
      BY <1>7 DEF LearnFinds
    <2>5. ModeKept' /\ ResolvedKept'
      BY <1>7 DEF LearnFinds
    <2>6. EndpointKept'
      BY <1>7 DEF LearnFinds
    <2> QED BY <2>1, <2>2, <2>3, <2>4, <2>5, <2>6
  <1>8. CASE Announces
    <2>1. DOMAIN at' = Threads /\ Counted' /\ PoolWhole'
      BY <1>8, IdentKeepsPool DEF Announces
    <2>2. OwnerPolls'
      BY <1>8 DEF Announces
    <2>3. DriverFirst'
      BY <1>8 DEF Announces
    <2>4. SvcWaits'
      BY <1>8 DEF Announces
    <2>5. ModeKept' /\ ResolvedKept'
      BY <1>8 DEF Announces
    <2>6. EndpointKept'
      BY <1>8 DEF Announces
    <2> QED BY <2>1, <2>2, <2>3, <2>4, <2>5, <2>6
  <1>9. CASE Transmitted
    <2>1. DOMAIN at' = Threads /\ Counted' /\ PoolWhole'
      BY <1>9, IdentKeepsPool DEF Transmitted
    <2>2. OwnerPolls'
      BY <1>9 DEF Transmitted
    <2>3. DriverFirst'
      BY <1>9 DEF Transmitted
    <2>4. SvcWaits'
      BY <1>9 DEF Transmitted
    <2>5. ModeKept' /\ ResolvedKept'
      BY <1>9 DEF Transmitted
    <2>6. EndpointKept'
      BY <1>9 DEF Transmitted
    <2> QED BY <2>1, <2>2, <2>3, <2>4, <2>5, <2>6
  <1>10. CASE ArpReply
    BY <1>10 DEF ArpReply
  <1>11. ASSUME NEW ok \in BOOLEAN, LearnSets(ok) PROVE NetUpInv'
    <2>1. DOMAIN at' = Threads /\ Counted' /\ PoolWhole'
      BY <1>11, IdentKeepsPool DEF LearnSets
    <2>2. OwnerPolls'
      BY <1>11 DEF LearnSets
    <2>3. DriverFirst'
      BY <1>11 DEF LearnSets
    <2>4. SvcWaits'
      BY <1>11 DEF LearnSets
    <2>5. ModeKept' /\ ResolvedKept'
      BY <1>11 DEF LearnSets
    <2>6. EndpointKept'
      BY <1>11 DEF LearnSets
    <2> QED BY <2>1, <2>2, <2>3, <2>4, <2>5, <2>6
  <1>12. ASSUME NEW ok \in BOOLEAN, SvcAnswers(ok) PROVE NetUpInv'
    <2>1. DOMAIN at' = Threads /\ Counted' /\ PoolWhole'
      BY <1>12, IdentKeepsPool DEF SvcAnswers
    <2>2. OwnerPolls'
      BY <1>12 DEF SvcAnswers
    <2>3. DriverFirst'
      BY <1>12 DEF SvcAnswers
    <2>4. SvcWaits'
      BY <1>12 DEF SvcAnswers
    <2>5. ModeKept' /\ ResolvedKept'
      BY <1>12 DEF SvcAnswers
    <2>6. EndpointKept'
      BY <1>12 DEF SvcAnswers
    <2> QED BY <2>1, <2>2, <2>3, <2>4, <2>5, <2>6
  <1> QED BY <1>1, <1>2, <1>3, <1>4, <1>5, <1>6, <1>7, <1>8, <1>9, <1>10, <1>11, <1>12 DEF Ident

LEMMA NetUpStep == NetUpInv /\ [NetUpNext]_netUpVars => NetUpInv'
  <1> SUFFICES ASSUME NetUpInv, [NetUpNext]_netUpVars PROVE NetUpInv'
    OBVIOUS
  <1>1. CASE UNCHANGED netUpVars
    BY <1>1 DEF netUpVars, bringVars, linkVars, identVars, NetUpInv, Counted, OwnerPolls, DriverFirst,
        SvcWaits, ModeKept, ResolvedKept, PoolWhole, EndpointKept
  <1> QED BY <1>1, BringUpKeeps, LinkKeeps, IdentKeeps DEF NetUpNext

-------------------------------------------------------------------------------
(***************************************************************************)
(* SecurityAccess over two transports (Diag).                              *)
(***************************************************************************)
ServerFields == {"session", "unlocked", "failed", "arm", "wait", "reset", "quiet"}
LinkFields == {"owns", "unlockRemote", "back", "backRemote", "level", "inflight", "rreset",
               "acked", "busy"}
Counts == [1 .. SaLevels -> Nat]

\* What the proofs need to know of the values' shape.
ServerShape(s) ==
    DOMAIN s = ServerFields /\ s.failed \in Counts /\ s.wait \in Nat
LinkShape(c) ==
    /\ DOMAIN c = LinkFields /\ c.level \in [Transports -> 0 .. SaLevels]
    /\ c.unlockRemote \in BOOLEAN /\ c.backRemote \in BOOLEAN
DiagShape ==
    /\ ServerShape(sa) /\ LinkShape(dc)
    /\ DOMAIN keep = {"magic", "words", "check"} /\ keep.words \in [1 .. KeepWords -> Nat]
    /\ run \in Counts /\ owed \in Nat

\* The owner serves, or it is the target's on its way through a reset.
OwnerPlaces ==
    \/ owner = <<"serves", 0>>
    \/ target /\ owner = <<"starts", 0>>
    \/ target /\ \E k \in 1 .. KeepWords + 3 : owner = <<"saves", k>>

\* What a pending reset holds is what it hid, and only while it is pending.
HeldByReset == dc.back # 0 => sa.reset /\ sa.unlocked = 0

\* A lockout a reset armed: no exchange is open, and a host armed it for what it counts.
Armed ==
    sa.arm => /\ \A t \in Transports : dc.level[t] = 0
              /\ ~target => AnyFailed(sa.failed)

\* The server counts every wrong key, and its lockout outlasts what is owed.
AttemptsCounted ==
    owner[1] # "starts" =>
        /\ sa.failed = run
        /\ owed <= IF sa.arm THEN SaDelay ELSE sa.wait
Locks == owed <= SaDelay /\ ~early /\ Armed /\ AttemptsCounted

\* What a whole save says, of the counts it was taken from.
SavedWords(f, lock) == [w \in 1 .. KeepWords |-> IF w <= SaLevels THEN f[w] ELSE lock]

\* The save, word by word, and what a start will find of it.
Saving ==
    /\ owner[1] = "serves" => ~keep.magic /\ saved = <<>>
    /\ owner[1] = "saves" /\ owner[2] <= KeepWords + 2 => ~keep.magic /\ saved = <<>>
    /\ owner[1] = "saves" =>
         /\ \A w \in 1 .. KeepWords : w < owner[2] => keep.words[w] = KeptSecurity(sa)[w]
         /\ owner[2] > KeepWords + 1 => keep.check = KeptSecurity(sa)
         /\ owner[2] > KeepWords + 2 => keep.magic /\ saved = KeptSecurity(sa)
    /\ owner[1] = "starts" =>
         /\ sa = Fresh /\ dc = Unconnected
         /\ Loaded = saved
         /\ saved = <<>> => run = Nothing /\ owed = 0
         /\ saved # <<>> => \E lock \in {0, 1} :
                              /\ saved = SavedWords(run, lock)
                              /\ owed > 0 => lock = 1 \/ AnyFailed(run)
    /\ ~misled

DiagInv ==
    DiagShape /\ OwnerPlaces /\ UnlockOfItsOwn /\ HeldByReset /\ Locks /\ Saving

-------------------------------------------------------------------------------
LEMMA FreshShape == ServerShape(Fresh) /\ LinkShape(Unconnected) /\ Nothing \in Counts
  BY DiagAssumption DEF DiagAssumption, ServerShape, LinkShape, Fresh, Unconnected, Nothing, Counts,
     ServerFields, LinkFields, Transports

LEMMA FreshOwns ==
    /\ Fresh.unlocked = 0 /\ ~Fresh.arm /\ Fresh.wait = 0 /\ Fresh.failed = Nothing /\ ~Fresh.reset
    /\ Unconnected.back = 0 /\ Unconnected.level = [t \in Transports |-> 0]
  BY DEF Fresh, Unconnected

\* A save's words: each level's count, and whether a lockout runs.
LEMMA KeptIs ==
    ASSUME NEW s, s.failed \in Counts
    PROVE  \E lock \in {0, 1} : /\ KeptSecurity(s) = SavedWords(s.failed, lock)
                                /\ Locking(s) => lock = 1
                                /\ KeptSecurity(s) \in [1 .. KeepWords -> Nat]
  <1> DEFINE lock == IF Locking(s) THEN 1 ELSE 0
  <1>1. s.failed \in Seq(Nat) /\ Len(s.failed) = SaLevels
    BY DiagAssumption DEF DiagAssumption, Counts
  <1>2. KeptSecurity(s) = Append(s.failed, lock) /\ lock \in {0, 1}
    BY DEF KeptSecurity
  <1> HIDE DEF lock
  <1>3. Append(s.failed, lock) = SavedWords(s.failed, lock)
    <2> DEFINE a == Append(s.failed, lock)
    <2>1. a \in Seq(Nat) /\ Len(a) = KeepWords
      BY <1>1, <1>2 DEF KeepWords
    <2>2. a = [w \in 1 .. KeepWords |-> a[w]]
      BY <2>1
    <2>3. \A w \in 1 .. KeepWords : a[w] = IF w <= SaLevels THEN s.failed[w] ELSE lock
      BY <1>1, <1>2, DiagAssumption DEF DiagAssumption, KeepWords
    <2> HIDE DEF a
    <2>4. a = SavedWords(s.failed, lock)
      BY <2>2, <2>3 DEF SavedWords
    <2> QED
      BY <2>4 DEF a
  <1>4. SavedWords(s.failed, lock) \in [1 .. KeepWords -> Nat]
    BY <1>2, DiagAssumption DEF DiagAssumption, SavedWords, KeepWords, Counts
  <1>5. Locking(s) => lock = 1
    BY DEF lock
  <1> QED
    BY <1>2, <1>3, <1>4, <1>5

LEMMA SavedIsWhole == \A f, lock : SavedWords(f, lock) # <<>>
  <1> TAKE f, lock
  <1>1. 1 \in DOMAIN SavedWords(f, lock)
    BY DiagAssumption DEF DiagAssumption, SavedWords, KeepWords
  <1>2. 1 \notin DOMAIN <<>>
    OBVIOUS
  <1> QED
    BY <1>1, <1>2

LEMMA DiagInitKept == DiagInit => DiagInv
  <1> SUFFICES ASSUME DiagInit PROVE DiagInv
    OBVIOUS
  <1> USE DEF DiagInit
  <1>1. DiagShape
    BY FreshShape, DiagAssumption DEF DiagAssumption, DiagShape, EmptyKeep, NoneKept, KeepWords
  <1>2. UnlockOfItsOwn /\ HeldByReset
    BY FreshOwns DEF UnlockOfItsOwn, Visible, HeldFor, Hides, HeldByReset
  <1>3. Locks
    BY FreshOwns, DiagAssumption DEF DiagAssumption, Locks, Armed, AttemptsCounted
  <1>4. Saving
    BY DEF Saving, EmptyKeep
  <1> QED
    BY <1>1, <1>2, <1>3, <1>4 DEF DiagInv, OwnerPlaces
-------------------------------------------------------------------------------
\* A request that is served leaves the counts, the lockout and the exchanges as it made them.
\* What it finds hidden comes back, or is held while a reset is pending.
LEMMA ServedEffect ==
    ASSUME DiagInv, NEW t \in Transports, CanServe(t), NEW s, NEW c, NEW entry \in BOOLEAN,
           Served(t, s, c, entry),
           DOMAIN s = ServerFields, DOMAIN c = LinkFields, c.back = 0,
           c.unlockRemote = dc.unlockRemote, c.backRemote = dc.backRemote
    PROVE  /\ UNCHANGED cellVars
           /\ DOMAIN sa' = ServerFields /\ DOMAIN dc' = LinkFields
           /\ sa'.failed = s.failed /\ sa'.arm = s.arm /\ sa'.wait = s.wait
           /\ dc'.level = c.level
           /\ \/ /\ ~ComesBack(t, s, entry)
                 /\ sa'.unlocked = s.unlocked /\ dc'.back = 0 /\ dc'.backRemote = dc.backRemote
                 /\ dc'.unlockRemote = IF s.unlocked # 0 THEN t = "ip" ELSE dc.unlockRemote
              \/ /\ ComesBack(t, s, entry)
                 /\ sa'.unlocked = sa.unlocked /\ dc'.back = 0
                 /\ dc'.unlockRemote = dc.unlockRemote /\ dc'.backRemote \in {dc.backRemote, dc.unlockRemote}
              \/ /\ ComesBack(t, s, entry)
                 /\ sa'.reset /\ sa'.unlocked = 0 /\ dc'.back = sa.unlocked
                 /\ dc'.backRemote = dc.unlockRemote /\ dc'.unlockRemote = dc.unlockRemote
  <1> DEFINE back == ComesBack(t, s, entry)
             s1 == [s EXCEPT !.unlocked = IF back /\ ~s.reset THEN sa.unlocked ELSE @]
             c1 == [c EXCEPT !.unlockRemote = IF s.unlocked # 0 THEN t = "ip" ELSE @,
                             !.back = IF back /\ s.reset THEN sa.unlocked ELSE @,
                             !.backRemote = IF back /\ s.reset THEN dc.unlockRemote ELSE @,
                             !.owns = IF entry THEN t = "ip" ELSE @]
  <1>0. back => s.unlocked = 0 /\ sa.unlocked # 0
    BY DEF ComesBack, Hides
  <1>1. PICK answers \in BOOLEAN, lost \in BOOLEAN : Answered(t, s, c, entry, answers, lost)
    BY DEF Served
  <1> DEFINE e == [c1 EXCEPT
                     !.inflight = @ \/ t = "ip",
                     !.rreset = IF t = "wire" THEN FALSE ELSE @ \/ s.reset,
                     !.acked = IF t = "wire" \/ s.reset THEN FALSE ELSE @,
                     !.busy = @ \/ (t = "wire" /\ answers /\ ~lost)]
  <1>2. /\ UNCHANGED cellVars
        /\ IF lost THEN sa' = CancelledReset(s1, e)[1] /\ dc' = CancelledReset(s1, e)[2]
                   ELSE sa' = s1 /\ dc' = e
    <2>1. Leaves(t, s, c, entry)[1] = s1 /\ Leaves(t, s, c, entry)[2] = c1
      BY DEF Leaves
    <2> HIDE DEF s1, c1
    <2> QED
      BY <1>1, <2>1 DEF Answered
  <1>3. /\ DOMAIN s1 = ServerFields /\ s1.failed = s.failed /\ s1.arm = s.arm /\ s1.wait = s.wait
        /\ s1.reset = s.reset
        /\ s1.unlocked = IF back /\ ~s.reset THEN sa.unlocked ELSE s.unlocked
    BY DEF ServerFields
  <1>4. /\ DOMAIN e = LinkFields /\ e.level = c.level
        /\ e.unlockRemote = (IF s.unlocked # 0 THEN t = "ip" ELSE dc.unlockRemote)
        /\ e.back = (IF back /\ s.reset THEN sa.unlocked ELSE 0)
        /\ e.backRemote = (IF back /\ s.reset THEN dc.unlockRemote ELSE dc.backRemote)
    BY DEF LinkFields
  <1> HIDE DEF s1, c1, e, back
  <1>5. CASE ~lost
    BY <1>0, <1>2, <1>3, <1>4, <1>5 DEF back
  <1>6. CASE lost
    <2>1. CASE e.back # 0 /\ s1.unlocked = 0
      <3>1. /\ sa' = [s1 EXCEPT !.reset = FALSE, !.unlocked = e.back]
            /\ dc' = [e EXCEPT !.back = 0, !.unlockRemote = e.backRemote]
        BY <1>2, <1>6, <2>1 DEF CancelledReset
      <3>2. /\ DOMAIN sa' = ServerFields /\ sa'.failed = s1.failed /\ sa'.arm = s1.arm
            /\ sa'.wait = s1.wait /\ sa'.unlocked = e.back
        BY <1>3, <3>1 DEF ServerFields
      <3>3. /\ DOMAIN dc' = LinkFields /\ dc'.level = e.level /\ dc'.back = 0
            /\ dc'.unlockRemote = e.backRemote /\ dc'.backRemote = e.backRemote
        BY <1>4, <3>1 DEF LinkFields
      <3>4. back /\ s.reset /\ e.back = sa.unlocked /\ e.backRemote = dc.unlockRemote
        BY <1>4, <2>1
      <3> QED
        BY <1>0, <1>2, <1>3, <1>4, <3>2, <3>3, <3>4 DEF back
    <2>2. CASE ~(e.back # 0 /\ s1.unlocked = 0)
      <3>1. sa' = [s1 EXCEPT !.reset = FALSE] /\ dc' = [e EXCEPT !.back = 0]
        BY <1>2, <1>6, <2>2 DEF CancelledReset
      <3>2. /\ DOMAIN sa' = ServerFields /\ sa'.failed = s1.failed /\ sa'.arm = s1.arm
            /\ sa'.wait = s1.wait /\ sa'.unlocked = s1.unlocked
        BY <1>3, <3>1 DEF ServerFields
      <3>3. /\ DOMAIN dc' = LinkFields /\ dc'.level = e.level /\ dc'.back = 0
            /\ dc'.unlockRemote = e.unlockRemote /\ dc'.backRemote = e.backRemote
        BY <1>4, <3>1 DEF LinkFields
      <3>4. ~(back /\ s.reset)
        BY <1>0, <1>3, <1>4, <2>2
      <3> QED
        BY <1>0, <1>2, <1>3, <1>4, <3>2, <3>3, <3>4 DEF back
    <2> QED
      BY <2>1, <2>2
  <1> QED
    BY <1>5, <1>6

\* A request finds what its transport unlocked, and nothing held: no reset is pending.
LEMMA SeenIs ==
    ASSUME DiagInv, NEW t \in Transports, CanServe(t)
    PROVE  /\ DOMAIN Seen(t) = ServerFields /\ Seen(t).failed = sa.failed /\ Seen(t).arm = sa.arm
           /\ Seen(t).wait = sa.wait /\ Seen(t).reset = sa.reset
           /\ Seen(t).unlocked = IF Hides(t) THEN 0 ELSE sa.unlocked
           /\ dc.back = 0 /\ ~sa.reset
           /\ DOMAIN dc = LinkFields /\ DOMAIN sa = ServerFields
  BY DEF Seen, CanServe, DiagInv, HeldByReset, DiagShape, ServerShape, LinkShape, ServerFields
\* Nothing of the save moves while the owner serves.
LEMMA ServingKeepsSaving ==
    ASSUME DiagInv, owner[1] = "serves", UNCHANGED <<keep, owner, saved, misled>>
    PROVE  Saving'
  BY DEF DiagInv, Saving

\* Whatever a request did, as long as it counts what it should and unlocks only for the
\* transport it came over.
LEMMA DiagServedKeeps ==
    ASSUME DiagInv, NEW t \in Transports, CanServe(t), NEW s, NEW c, NEW entry \in BOOLEAN,
           Served(t, s, c, entry),
           ServerShape(s), LinkShape(c), c.back = 0, s.arm = sa.arm,
           c.unlockRemote = dc.unlockRemote, c.backRemote = dc.backRemote,
           run' \in Counts, s.failed = run', owed' \in Nat, owed' <= SaDelay, ~early',
           owed' <= IF s.arm THEN SaDelay ELSE s.wait,
           s.arm => /\ \A o \in Transports : c.level[o] = 0
                    /\ ~target => AnyFailed(s.failed),
           \/ /\ ~entry /\ s.unlocked = (IF Hides(t) THEN 0 ELSE sa.unlocked)
              /\ \A o \in Transports : proved'[o] = proved[o]
           \/ /\ entry /\ s.unlocked = 0
              /\ \A o \in Transports : proved'[o] = 0
           \/ /\ ~entry /\ s.unlocked # 0
              /\ \A o \in Transports : proved'[o] = IF o = t THEN s.unlocked ELSE 0
    PROVE  DiagInv'
  <1>0. DOMAIN s = ServerFields /\ DOMAIN c = LinkFields
    BY DEF ServerShape, LinkShape
  <1> USE <1>0, ServedEffect, SeenIs
  <1>1. UNCHANGED <<target, keep, owner, rng, trouble, saved, misled>> /\ owner[1] = "serves"
    BY DEF cellVars, CanServe, Serving
  <1>2. DiagShape'
    <2>1. ServerShape(sa)'
      BY DEF ServerShape
    <2>2. dc'.unlockRemote \in BOOLEAN /\ dc'.backRemote \in BOOLEAN
      BY ZenonT(40) DEF DiagInv, DiagShape, LinkShape
    <2>3. LinkShape(dc)'
      BY <2>2 DEF LinkShape
    <2> QED
      BY <1>1, <2>1, <2>3 DEF DiagInv, DiagShape
  <1>3. HeldByReset'
    BY DEF HeldByReset
  <1>4. UnlockOfItsOwn'
    <2>1. /\ Transports = {"wire", "ip"} /\ dc.unlockRemote \in BOOLEAN /\ ~sa.reset /\ dc.back = 0
      BY DEF Transports, DiagInv, DiagShape, LinkShape
    <2>2. \A o \in Transports : IF Hides(o) THEN proved[o] = 0 ELSE proved[o] = sa.unlocked
      BY <2>1 DEF DiagInv, UnlockOfItsOwn, Visible, HeldFor
    <2>3. CASE ~ComesBack(t, s, entry)
      BY <2>1, <2>2, <2>3 DEF UnlockOfItsOwn, Visible, HeldFor, Hides, ComesBack
    <2>4. CASE ComesBack(t, s, entry)
      BY <2>1, <2>2, <2>4 DEF UnlockOfItsOwn, Visible, HeldFor, Hides, ComesBack
    <2> QED
      BY <2>3, <2>4
  <1>5. Locks'
    BY <1>1 DEF Locks, Armed, AttemptsCounted
  <1>6. Saving' /\ OwnerPlaces'
    BY <1>1, ServingKeepsSaving DEF DiagInv, OwnerPlaces
  <1> QED
    BY <1>2, <1>3, <1>4, <1>5, <1>6 DEF DiagInv

\* What holds while requests are served.
LEMMA ServingCounts ==
    ASSUME DiagInv, NEW t \in Transports, CanServe(t)
    PROVE  /\ ServerShape(sa) /\ LinkShape(dc) /\ run \in Counts /\ owed \in Nat /\ owed <= SaDelay
           /\ sa.failed = run /\ owed <= (IF sa.arm THEN SaDelay ELSE sa.wait) /\ ~early
           /\ sa.arm => /\ \A o \in Transports : dc.level[o] = 0
                        /\ ~target => AnyFailed(sa.failed)
  BY DEF DiagInv, DiagShape, Locks, AttemptsCounted, Armed, CanServe, Serving

\* Requests that change nothing of 0x27, refused or not, and the one that resets.
LEMMA AsksKeep ==
    ASSUME DiagInv, NEW t \in Transports, Asks(t) \/ SeedRefused(t) \/ AsksReset(t)
    PROVE  DiagInv'
  <1>1. /\ CanServe(t) /\ UNCHANGED <<proved, run, owed, early>>
        /\ \/ Served(t, Seen(t), dc, FALSE)
           \/ Served(t, [Seen(t) EXCEPT !.reset = TRUE], dc, FALSE)
    BY DEF Asks, SeedRefused, AsksReset, CanUnlock, lockVars
  <1> DEFINE r == [Seen(t) EXCEPT !.reset = TRUE]
  <1>2. /\ DOMAIN r = ServerFields /\ r.failed = sa.failed /\ r.arm = sa.arm /\ r.wait = sa.wait
        /\ r.unlocked = IF Hides(t) THEN 0 ELSE sa.unlocked
    BY <1>1, SeenIs DEF ServerFields
  <1> HIDE DEF r
  <1>3. PICK s \in {Seen(t), r} : Served(t, s, dc, FALSE)
    BY <1>1 DEF r
  <1>4. /\ ServerShape(s) /\ s.failed = sa.failed /\ s.arm = sa.arm /\ s.wait = sa.wait
        /\ s.unlocked = IF Hides(t) THEN 0 ELSE sa.unlocked
    BY <1>1, <1>2, <1>3, SeenIs, ServingCounts DEF ServerShape
  <1> QED
    BY <1>1, <1>3, <1>4, SeenIs, ServingCounts, DiagServedKeeps

\* Entering a session relocks for both, and what belonged to the entry before is void.
LEMMA AsksSessionKeeps ==
    ASSUME DiagInv, NEW t \in Transports, AsksSession(t)
    PROVE  DiagInv'
  <1>1. CanServe(t) /\ UNCHANGED <<run, owed, early>> /\ proved' = [o \in Transports |-> 0]
    BY DEF AsksSession, lockVars
  <1>2. PICK to \in {"default", "extended"} : Served(t, Entered(Seen(t), to), Voided(dc), TRUE)
    BY DEF AsksSession
  <1> DEFINE s == Entered(Seen(t), to)
             c == Voided(dc)
  <1>3. /\ DOMAIN s = ServerFields /\ s.failed = sa.failed /\ s.arm = sa.arm /\ s.wait = sa.wait
        /\ s.unlocked = 0
    BY <1>1, SeenIs DEF Entered, ServerFields
  <1>4. /\ DOMAIN c = LinkFields /\ c.level = [o \in Transports |-> 0] /\ c.back = 0
        /\ c.unlockRemote = dc.unlockRemote /\ c.backRemote = dc.backRemote
    BY <1>1, SeenIs DEF Voided, LinkFields
  <1>5. Served(t, s, c, TRUE)
    BY <1>2
  <1> HIDE DEF s, c
  <1>6. ServerShape(s) /\ LinkShape(c)
    BY <1>1, <1>3, <1>4, ServingCounts, DiagAssumption DEF DiagAssumption, ServerShape, LinkShape
  <1> QED
    BY <1>1, <1>3, <1>4, <1>5, <1>6, ServingCounts, DiagServedKeeps
\* A seed is given only where no lockout runs, and none is owed then.
LEMMA AsksSeedKeeps ==
    ASSUME DiagInv, NEW t \in Transports, AsksSeed(t)
    PROVE  DiagInv'
  <1>1. CanServe(t) /\ ~sa.arm /\ owed = 0 /\ UNCHANGED <<proved, run, owed>>
    BY ServingCounts DEF AsksSeed, CanUnlock, Locking, ServerShape
  <1>2. PICK l \in 1 .. SaLevels, seed \in BOOLEAN :
          /\ Served(t, Seen(t), [dc EXCEPT !.level[t] = IF seed THEN l ELSE 0], FALSE)
          /\ early' = (early \/ (seed /\ owed > 0))
    <2>1. PICK l \in 1 .. SaLevels, given \in SaSeed :
            LET seed == given /\ Seen(t).unlocked # l
            IN  /\ Served(t, Seen(t), [dc EXCEPT !.level[t] = IF seed THEN l ELSE 0], FALSE)
                /\ early' = (early \/ (seed /\ owed > 0))
      BY DEF AsksSeed
    <2> DEFINE seed == given /\ Seen(t).unlocked # l
    <2>2. seed \in BOOLEAN
      OBVIOUS
    <2>3. /\ Served(t, Seen(t), [dc EXCEPT !.level[t] = IF seed THEN l ELSE 0], FALSE)
          /\ early' = (early \/ (seed /\ owed > 0))
      BY <2>1
    <2> HIDE DEF seed
    <2> QED
      BY <2>2, <2>3
  <1> DEFINE c == [dc EXCEPT !.level[t] = IF seed THEN l ELSE 0]
  <1>3. /\ DOMAIN c = LinkFields /\ c.back = 0 /\ c.level \in [Transports -> 0 .. SaLevels]
        /\ c.unlockRemote = dc.unlockRemote /\ c.backRemote = dc.backRemote
    BY <1>1, ServingCounts, SeenIs, DiagAssumption DEF DiagAssumption, LinkShape, LinkFields
  <1>4. Served(t, Seen(t), c, FALSE)
    BY <1>2
  <1> HIDE DEF c
  <1>5. LinkShape(c)
    BY <1>1, <1>3, ServingCounts DEF LinkShape
  <1>6. ServerShape(Seen(t))
    BY <1>1, SeenIs, ServingCounts DEF ServerShape
  <1>7. ~early'
    <2>1. ~(owed > 0)
      BY <1>1
    <2>2. ~early
      BY <1>1, ServingCounts
    <2> QED
      BY <1>2, <2>1, <2>2
  <1> QED
    BY <1>1, <1>3, <1>4, <1>5, <1>6, <1>7, SeenIs, ServingCounts, DiagServedKeeps

\* The exchange a key ends: nothing is armed while one is open.
LEMMA KeyEnds ==
    ASSUME DiagInv, NEW t \in Transports, CanServe(t), dc.level[t] # 0
    PROVE  /\ ~sa.arm /\ dc.level[t] \in 1 .. SaLevels
           /\ LET c == [dc EXCEPT !.level[t] = 0]
              IN  /\ LinkShape(c) /\ c.back = 0
                  /\ c.unlockRemote = dc.unlockRemote /\ c.backRemote = dc.backRemote
  <1>1. ~sa.arm /\ dc.level[t] \in 1 .. SaLevels
    BY ServingCounts, DiagAssumption DEF DiagAssumption, LinkShape
  <1> DEFINE c == [dc EXCEPT !.level[t] = 0]
  <1>2. /\ DOMAIN c = LinkFields /\ c.back = 0 /\ c.level \in [Transports -> 0 .. SaLevels]
        /\ c.unlockRemote = dc.unlockRemote /\ c.backRemote = dc.backRemote
    BY ServingCounts, SeenIs, DiagAssumption DEF DiagAssumption, LinkShape, LinkFields
  <1> HIDE DEF c
  <1>3. LinkShape(c)
    BY <1>2, ServingCounts DEF LinkShape
  <1> QED
    BY <1>1, <1>2, <1>3 DEF c

\* A wrong key is counted, and the last one allowed locks for the whole delay.
LEMMA WrongKeyKeeps ==
    ASSUME DiagInv, NEW t \in Transports, WrongKey(t)
    PROVE  DiagInv'
  <1> DEFINE l == dc.level[t]
             c == [dc EXCEPT !.level[t] = 0]
             last == run[l] + 1 >= SaAttempts
             s == [Seen(t) EXCEPT !.failed[l] = IF last THEN 0 ELSE @ + 1,
                                  !.wait = IF last THEN SaDelay ELSE @]
  <1>1. CanServe(t) /\ l # 0 /\ UNCHANGED <<proved, early>> /\ sa.failed = run
    BY ServingCounts DEF WrongKey, CanUnlock
  <1>2. /\ Served(t, s, c, FALSE)
        /\ run' = [run EXCEPT ![l] = IF last THEN 0 ELSE @ + 1]
        /\ owed' = IF last THEN SaDelay ELSE owed
    BY <1>1 DEF WrongKey
  <1>3. ~sa.arm /\ l \in 1 .. SaLevels
    BY <1>1, KeyEnds
  <1>4. LinkShape(c) /\ c.back = 0 /\ c.unlockRemote = dc.unlockRemote /\ c.backRemote = dc.backRemote
    BY <1>1, KeyEnds
  <1> HIDE DEF l, c, last
  <1>5. /\ DOMAIN s = ServerFields /\ s.failed = [run EXCEPT ![l] = IF last THEN 0 ELSE @ + 1]
        /\ s.arm = sa.arm /\ s.wait = (IF last THEN SaDelay ELSE sa.wait)
        /\ s.unlocked = IF Hides(t) THEN 0 ELSE sa.unlocked
    BY <1>1, <1>3, SeenIs DEF ServerFields
  <1> HIDE DEF s
  <1>6. run' \in Counts /\ s.failed = run'
    <2>1. run \in [1 .. SaLevels -> Nat]
      BY <1>1, ServingCounts DEF Counts
    <2>2. (IF last THEN 0 ELSE run[l] + 1) \in Nat
      BY <1>3, <2>1
    <2> QED
      BY <1>2, <1>5, <2>1, <2>2 DEF Counts
  <1>7. ServerShape(s) /\ owed' \in Nat /\ owed' <= SaDelay /\ owed' <= s.wait
    BY <1>1, <1>2, <1>3, <1>5, <1>6, ServingCounts, DiagAssumption DEF DiagAssumption, ServerShape
  <1> QED
    BY <1>1, <1>2, <1>3, <1>4, <1>5, <1>6, <1>7, ServingCounts, DiagServedKeeps

\* A right key unlocks for the transport it came over, and for it alone.
LEMMA RightKeyKeeps ==
    ASSUME DiagInv, NEW t \in Transports, RightKey(t)
    PROVE  DiagInv'
  <1> DEFINE l == dc.level[t]
             c == [dc EXCEPT !.level[t] = 0]
             s == [Seen(t) EXCEPT !.failed[l] = 0, !.unlocked = l]
  <1>1. CanServe(t) /\ l # 0 /\ UNCHANGED <<owed, early>> /\ sa.failed = run
    BY ServingCounts DEF RightKey, CanUnlock
  <1>2. /\ Served(t, s, c, FALSE)
        /\ run' = [run EXCEPT ![l] = 0]
        /\ proved' = [o \in Transports |-> IF o = t THEN l ELSE 0]
    BY <1>1 DEF RightKey
  <1>3. ~sa.arm /\ l \in 1 .. SaLevels
    BY <1>1, KeyEnds
  <1>4. LinkShape(c) /\ c.back = 0 /\ c.unlockRemote = dc.unlockRemote /\ c.backRemote = dc.backRemote
    BY <1>1, KeyEnds
  <1> HIDE DEF l, c
  <1>5. /\ DOMAIN s = ServerFields /\ s.failed = [run EXCEPT ![l] = 0]
        /\ s.arm = sa.arm /\ s.wait = sa.wait /\ s.unlocked = l
    BY <1>1, <1>3, SeenIs DEF ServerFields
  <1> HIDE DEF s
  <1>6. run' \in Counts /\ s.failed = run'
    BY <1>2, <1>3, <1>5, ServingCounts, <1>1 DEF Counts
  <1>7. ServerShape(s)
    BY <1>1, <1>5, <1>6, ServingCounts DEF ServerShape
  <1> QED
    BY <1>1, <1>2, <1>3, <1>4, <1>5, <1>6, <1>7, ServingCounts, DiagServedKeeps
-------------------------------------------------------------------------------
\* What does not touch the unlocks, the exchanges, the counts or the save.
LEMMA QuietKeeps ==
    ASSUME DiagInv, LinkShape(dc)', dc'.level = dc.level, dc'.back = dc.back,
           dc'.unlockRemote = dc.unlockRemote, dc'.backRemote = dc.backRemote,
           owner[1] = "serves", UNCHANGED <<sa, cellVars, proved, lockVars>>
    PROVE  DiagInv'
  <1>1. UNCHANGED <<target, keep, owner, rng, trouble, saved, misled, sa, proved, run, owed, early>>
    BY DEF cellVars, lockVars
  <1>2. DiagShape' /\ OwnerPlaces'
    BY <1>1 DEF DiagInv, DiagShape, OwnerPlaces
  <1>3. HeldByReset' /\ UnlockOfItsOwn'
    BY <1>1 DEF DiagInv, HeldByReset, UnlockOfItsOwn, Visible, HeldFor, Hides
  <1>4. Locks'
    BY <1>1 DEF DiagInv, Locks, Armed, AttemptsCounted
  <1>5. Saving'
    BY <1>1, ServingKeepsSaving
  <1> QED
    BY <1>2, <1>3, <1>4, <1>5 DEF DiagInv

LEMMA AnswersLeave ==
    ASSUME DiagInv, DropsWhilePending \/ AnswerLeaves \/ RemoteAcked
    PROVE  DiagInv'
  <1>1. /\ owner[1] = "serves" /\ UNCHANGED <<sa, cellVars, proved, lockVars>> /\ LinkShape(dc)
        /\ dc' \in {[dc EXCEPT !.inflight = TRUE], [dc EXCEPT !.busy = FALSE],
                    [dc EXCEPT !.inflight = FALSE, !.acked = @ \/ dc.rreset]}
    BY DEF DropsWhilePending, AnswerLeaves, RemoteAcked, Serving, DiagInv, DiagShape
  <1>2. LinkShape(dc)' /\ dc'.level = dc.level /\ dc'.back = dc.back
        /\ dc'.unlockRemote = dc.unlockRemote /\ dc'.backRemote = dc.backRemote
    BY <1>1 DEF LinkShape, LinkFields
  <1> QED
    BY <1>1, <1>2, QuietKeeps

\* A reset whose answer was lost is off, and what it hid comes back to the one who had it.
LEMMA CancelEffect ==
    ASSUME DiagInv, NEW s, NEW c, s = sa, LinkShape(c), c.level = dc.level, c.back = dc.back,
           c.unlockRemote = dc.unlockRemote, c.backRemote = dc.backRemote
    PROVE  LET e == CancelledReset(s, c)
           IN  /\ ServerShape(e[1]) /\ LinkShape(e[2])
               /\ e[1].failed = sa.failed /\ e[1].arm = sa.arm /\ e[1].wait = sa.wait
               /\ e[2].level = dc.level /\ e[2].back = 0 /\ e[2].backRemote = dc.backRemote
               /\ IF dc.back # 0
                  THEN e[1].unlocked = dc.back /\ e[2].unlockRemote = dc.backRemote
                  ELSE e[1].unlocked = sa.unlocked /\ e[2].unlockRemote = dc.unlockRemote
  <1>0. ServerShape(s) /\ (c.back # 0 => s.unlocked = 0)
    BY DEF DiagInv, DiagShape, HeldByReset
  <1>1. CASE c.back # 0
    BY <1>0, <1>1 DEF CancelledReset, ServerShape, LinkShape, ServerFields, LinkFields
  <1>2. CASE c.back = 0
    BY <1>0, <1>2 DEF CancelledReset, ServerShape, LinkShape, ServerFields, LinkFields
  <1> QED
    BY <1>1, <1>2

LEMMA AnswerLostKeeps == ASSUME DiagInv, AnswerLost PROVE DiagInv'
  <1> DEFINE c == [dc EXCEPT !.busy = FALSE]
  <1>1. /\ owner[1] = "serves" /\ UNCHANGED <<cellVars, proved, lockVars>> /\ LinkShape(dc)
        /\ IF c.rreset THEN sa' = sa /\ dc' = c
           ELSE sa' = CancelledReset(sa, c)[1] /\ dc' = CancelledReset(sa, c)[2]
    BY DEF AnswerLost, Serving, DiagInv, DiagShape
  <1>2. LinkShape(c) /\ c.level = dc.level /\ c.back = dc.back
        /\ c.unlockRemote = dc.unlockRemote /\ c.backRemote = dc.backRemote
    BY <1>1 DEF LinkShape, LinkFields
  <1> HIDE DEF c
  <1>3. CASE c.rreset
    BY <1>1, <1>2, <1>3, QuietKeeps
  <1>4. CASE ~c.rreset
    <2>1. /\ ServerShape(sa)' /\ LinkShape(dc)'
          /\ sa'.failed = sa.failed /\ sa'.arm = sa.arm /\ sa'.wait = sa.wait
          /\ dc'.level = dc.level /\ dc'.back = 0 /\ dc'.backRemote = dc.backRemote
          /\ IF dc.back # 0
             THEN sa'.unlocked = dc.back /\ dc'.unlockRemote = dc.backRemote
             ELSE sa'.unlocked = sa.unlocked /\ dc'.unlockRemote = dc.unlockRemote
      BY <1>1, <1>2, <1>4, CancelEffect DEF ServerShape, LinkShape
    <2>2. UNCHANGED <<target, keep, owner, rng, trouble, saved, misled, proved, run, owed, early>>
      BY <1>1 DEF cellVars, lockVars
    <2>3. DiagShape' /\ OwnerPlaces'
      BY <2>1, <2>2 DEF DiagInv, DiagShape, OwnerPlaces
    <2>4. HeldByReset' /\ Locks'
      BY <2>1, <2>2 DEF DiagInv, HeldByReset, Locks, Armed, AttemptsCounted
    <2>5. UnlockOfItsOwn'
      <3>1. dc.unlockRemote \in BOOLEAN /\ dc.backRemote \in BOOLEAN /\ Transports = {"wire", "ip"}
        BY <1>1 DEF LinkShape, Transports
      <3> QED
        BY <2>1, <2>2, <3>1 DEF DiagInv, HeldByReset, UnlockOfItsOwn, Visible, HeldFor, Hides
    <2>6. Saving'
      BY <1>1, <2>2, ServingKeepsSaving
    <2> QED
      BY <2>3, <2>4, <2>5, <2>6 DEF DiagInv
  <1> QED
    BY <1>3, <1>4
\* The network tester is gone: its reset, session, unlock and exchange end with it, and what
\* its reset hid of the other's comes back.
LEMMA RemoteGoneKeeps == ASSUME DiagInv, RemoteGone PROVE DiagInv'
  <1> DEFINE off == IF dc.rreset /\ ~dc.acked THEN CancelledReset(sa, dc) ELSE <<sa, dc>>
             o == off[1]
             c == off[2]
             s == IF c.owns THEN Entered(o, "default") ELSE o
             d == IF c.owns THEN Voided(c) ELSE c
  <1>1. /\ owner[1] = "serves" /\ UNCHANGED <<cellVars, lockVars>>
        /\ sa' = IF c.unlockRemote THEN [s EXCEPT !.unlocked = 0] ELSE s
        /\ dc' = [d EXCEPT !.inflight = FALSE, !.owns = FALSE, !.unlockRemote = FALSE,
                           !.back = IF d.backRemote THEN 0 ELSE @, !.level["ip"] = 0]
        /\ proved' = [t \in Transports |-> IF c.owns \/ t = "ip" THEN 0 ELSE proved[t]]
    BY DEF RemoteGone, Serving
  <1>2. /\ ServerShape(o) /\ LinkShape(c)
        /\ o.failed = sa.failed /\ o.arm = sa.arm /\ o.wait = sa.wait
        /\ c.level = dc.level /\ c.backRemote = dc.backRemote
        /\ \/ /\ o.reset = sa.reset /\ o.unlocked = sa.unlocked
              /\ c.back = dc.back /\ c.unlockRemote = dc.unlockRemote
           \/ /\ c.back = 0
              /\ IF dc.back # 0
                 THEN o.unlocked = dc.back /\ c.unlockRemote = dc.backRemote
                 ELSE o.unlocked = sa.unlocked /\ c.unlockRemote = dc.unlockRemote
    <2>0. LinkShape(dc) /\ ServerShape(sa)
      BY DEF DiagInv, DiagShape
    <2>1. CASE off = <<sa, dc>>
      BY <2>0, <2>1
    <2>2. CASE off = CancelledReset(sa, dc)
      BY <2>0, <2>2, CancelEffect
    <2> QED
      BY <2>1, <2>2
  <1> HIDE DEF o, c
  <1>3. /\ DOMAIN s = ServerFields /\ s.failed = sa.failed /\ s.arm = sa.arm /\ s.wait = sa.wait
        /\ s.reset = o.reset /\ s.unlocked = IF c.owns THEN 0 ELSE o.unlocked
    BY <1>2 DEF Entered, ServerShape, ServerFields
  <1>4. /\ DOMAIN d = LinkFields /\ d.backRemote = dc.backRemote
        /\ d.level = (IF c.owns THEN [t \in Transports |-> 0] ELSE dc.level)
        /\ d.back = IF c.owns THEN 0 ELSE c.back
    BY <1>2 DEF Voided, LinkShape, LinkFields
  <1>5. (IF c.owns THEN [t \in Transports |-> 0] ELSE dc.level) \in [Transports -> 0 .. SaLevels]
    BY DiagAssumption DEF DiagInv, DiagShape, LinkShape, DiagAssumption
  <1> HIDE DEF s, d
  <1>6. /\ DOMAIN sa' = ServerFields /\ sa'.failed = sa.failed /\ sa'.arm = sa.arm
        /\ sa'.wait = sa.wait /\ sa'.reset = o.reset
        /\ sa'.unlocked = IF c.owns \/ c.unlockRemote THEN 0 ELSE o.unlocked
    BY <1>1, <1>3 DEF ServerFields
  <1>7. /\ DOMAIN dc' = LinkFields /\ dc'.backRemote = dc.backRemote /\ dc'.unlockRemote = FALSE
        /\ dc'.back = (IF c.owns \/ dc.backRemote THEN 0 ELSE c.back)
        /\ dc'.level = [d.level EXCEPT !["ip"] = 0]
    BY <1>1, <1>4 DEF LinkFields
  <1>8. /\ dc'.level \in [Transports -> 0 .. SaLevels]
        /\ (\A t \in Transports : dc.level[t] = 0) => \A t \in Transports : dc'.level[t] = 0
    <2>1. d.level \in [Transports -> 0 .. SaLevels] /\ 0 \in 0 .. SaLevels
      BY <1>4, <1>5, DiagAssumption DEF DiagAssumption
    <2>2. dc'.level \in [Transports -> 0 .. SaLevels]
      BY <1>7, <2>1
    <2>3. \A t \in Transports : dc'.level[t] = IF t = "ip" THEN 0 ELSE d.level[t]
      BY <1>7, <2>1
    <2>4. \A t \in Transports : dc.level[t] = 0 => d.level[t] = 0
      BY <1>4
    <2> QED
      BY <2>2, <2>3, <2>4
  <1>9. UNCHANGED <<target, keep, owner, rng, trouble, saved, misled, run, owed, early>>
    BY <1>1 DEF cellVars, lockVars
  <1>10. DiagShape' /\ OwnerPlaces'
    BY <1>6, <1>7, <1>8, <1>9 DEF DiagInv, DiagShape, ServerShape, LinkShape, OwnerPlaces
  <1>11. HeldByReset'
    BY <1>2, <1>6, <1>7 DEF DiagInv, HeldByReset
  <1>12. Locks'
    BY <1>6, <1>8, <1>9 DEF DiagInv, Locks, Armed, AttemptsCounted
  <1>13. UnlockOfItsOwn'
    <2>1. /\ Transports = {"wire", "ip"} /\ dc.unlockRemote \in BOOLEAN /\ dc.backRemote \in BOOLEAN
          /\ (dc.back # 0 => sa.reset /\ sa.unlocked = 0)
      BY DEF Transports, DiagInv, DiagShape, LinkShape, HeldByReset
    <2>2. /\ Visible("wire") # 0 => proved["wire"] = Visible("wire")
          /\ Visible("wire") = 0 => proved["wire"] = HeldFor("wire")
      BY <2>1 DEF DiagInv, UnlockOfItsOwn
    <2>3. /\ proved'["ip"] = 0
          /\ proved'["wire"] = IF c.owns THEN 0 ELSE proved["wire"]
      BY <1>1, <2>1
    <2>4. CASE c.owns
      BY <1>6, <1>7, <2>1, <2>3, <2>4 DEF UnlockOfItsOwn, Visible, HeldFor, Hides
    <2>5. CASE ~c.owns
      <3>1. dc'.unlockRemote = FALSE /\ dc'.backRemote = dc.backRemote
            /\ dc'.back = (IF dc.backRemote THEN 0 ELSE c.back) /\ sa'.reset = o.reset
            /\ sa'.unlocked = IF c.unlockRemote THEN 0 ELSE o.unlocked
        BY <1>6, <1>7, <2>5
      <3>2. Visible("ip")' = 0 /\ HeldFor("ip")' = 0
        BY <2>1, <3>1 DEF Visible, HeldFor, Hides
      <3>3. Visible("wire")' = sa'.unlocked
            /\ HeldFor("wire")' = IF sa'.reset /\ ~dc.backRemote THEN c.back ELSE 0
        BY <2>1, <3>1 DEF Visible, HeldFor, Hides
      <3>4. Visible("wire") = (IF dc.unlockRemote THEN 0 ELSE sa.unlocked)
            /\ HeldFor("wire") = IF sa.reset /\ ~dc.backRemote THEN dc.back ELSE 0
        BY <2>1 DEF Visible, HeldFor, Hides
      <3>5. IF Visible("wire")' # 0 THEN proved["wire"] = Visible("wire")'
            ELSE proved["wire"] = HeldFor("wire")'
        <4>1. CASE c.back = dc.back /\ o.reset = sa.reset /\ o.unlocked = sa.unlocked
                   /\ c.unlockRemote = dc.unlockRemote
          BY <2>1, <2>2, <3>1, <3>3, <3>4, <4>1
        <4>2. CASE c.back = 0 /\ dc.back # 0 /\ o.unlocked = dc.back /\ c.unlockRemote = dc.backRemote
          BY <2>1, <2>2, <3>1, <3>3, <3>4, <4>2
        <4>3. CASE c.back = 0 /\ dc.back = 0 /\ o.unlocked = sa.unlocked
                   /\ c.unlockRemote = dc.unlockRemote
          BY <2>1, <2>2, <3>1, <3>3, <3>4, <4>3
        <4> QED
          BY <1>2, <4>1, <4>2, <4>3
      <3> QED
        BY <2>1, <2>3, <2>5, <3>2, <3>5 DEF UnlockOfItsOwn
    <2> QED
      BY <2>4, <2>5
  <1>14. Saving'
    BY <1>1, <1>9, ServingKeepsSaving
  <1> QED
    BY <1>10, <1>11, <1>12, <1>13, <1>14 DEF DiagInv

\* A tick: a lockout that a reset armed begins, and neither runs out before what is owed.
LEMMA ElapsesKeeps == ASSUME DiagInv, Elapses PROVE DiagInv'
  <1> DEFINE held == dc.busy \/ dc.inflight \/ sa.session = "default"
             silence == IF held THEN 0 ELSE sa.quiet + 1
             w == IF sa.arm THEN SaDelay ELSE IF sa.wait > 0 THEN sa.wait - 1 ELSE 0
             s == [sa EXCEPT !.arm = FALSE, !.quiet = silence, !.wait = w]
             over == silence > SessionS3
  <1>0. owner[1] = "serves" /\ ServerShape(sa) /\ LinkShape(dc) /\ owed \in Nat
    BY DEF Elapses, Serving, DiagInv, DiagShape
  <1>1. /\ UNCHANGED <<cellVars, run, early>>
        /\ sa' = (IF over THEN Entered(s, "default") ELSE s)
        /\ dc' = (IF over THEN Voided(dc) ELSE dc)
        /\ proved' = (IF over THEN [t \in Transports |-> 0] ELSE proved)
        /\ owed' = IF sa.arm \/ owed = 0 THEN owed ELSE owed - 1
    BY DEF Elapses
  <1> HIDE DEF over, silence, w
  <1>2. /\ DOMAIN s = ServerFields /\ s.failed = sa.failed /\ ~s.arm /\ s.wait = w
        /\ s.reset = sa.reset /\ s.unlocked = sa.unlocked
    BY <1>0 DEF ServerShape, ServerFields
  <1> HIDE DEF s
  <1>3. /\ DOMAIN sa' = ServerFields /\ sa'.failed = sa.failed /\ ~sa'.arm /\ sa'.wait = w
        /\ sa'.reset = sa.reset /\ sa'.unlocked = IF over THEN 0 ELSE sa.unlocked
    BY <1>1, <1>2 DEF Entered, ServerFields
  <1>4. /\ DOMAIN dc' = LinkFields /\ dc'.unlockRemote = dc.unlockRemote
        /\ dc'.backRemote = dc.backRemote /\ dc'.back = (IF over THEN 0 ELSE dc.back)
        /\ dc'.level = IF over THEN [t \in Transports |-> 0] ELSE dc.level
    BY <1>0, <1>1 DEF Voided, LinkShape, LinkFields
  <1>5. UNCHANGED <<target, keep, owner, rng, trouble, saved, misled, run, early>>
    BY <1>1 DEF cellVars
  <1>6. /\ owed <= SaDelay /\ owed <= (IF sa.arm THEN SaDelay ELSE sa.wait) /\ sa.wait \in Nat
        /\ sa.failed = run /\ ~early
    BY <1>0 DEF DiagInv, Locks, AttemptsCounted, ServerShape
  <1>7. w \in Nat /\ owed' \in Nat /\ owed' <= w /\ owed' <= SaDelay
    BY <1>0, <1>1, <1>6, DiagAssumption DEF DiagAssumption, w
  <1>8. LinkShape(dc)'
    BY <1>0, <1>4, DiagAssumption DEF LinkShape, DiagAssumption
  <1>9. DiagShape' /\ OwnerPlaces'
    BY <1>3, <1>5, <1>7, <1>8 DEF DiagInv, DiagShape, ServerShape, OwnerPlaces
  <1>10. Locks'
    BY <1>3, <1>5, <1>6, <1>7 DEF Locks, Armed, AttemptsCounted
  <1>11. HeldByReset' /\ UnlockOfItsOwn'
    BY <1>1, <1>3, <1>4 DEF DiagInv, HeldByReset, UnlockOfItsOwn, Visible, HeldFor, Hides
  <1>12. Saving'
    BY <1>0, <1>5, ServingKeepsSaving
  <1> QED
    BY <1>9, <1>10, <1>11, <1>12 DEF DiagInv
-------------------------------------------------------------------------------
\* A host's reset: it keeps the counts and a running lockout, and arms the delay for them.
LEMMA HostResetsKeep == ASSUME DiagInv, HostResets PROVE DiagInv'
  <1>0. /\ owner[1] = "serves" /\ ~target /\ ServerShape(sa) /\ LinkShape(dc) /\ owed \in Nat
        /\ owed <= SaDelay /\ owed <= (IF sa.arm THEN SaDelay ELSE sa.wait)
        /\ sa.failed = run /\ ~early /\ (sa.arm => AnyFailed(sa.failed))
    BY DEF HostResets, Serving, DiagInv, DiagShape, Locks, AttemptsCounted, Armed
  <1>1. /\ sa' = [Fresh EXCEPT !.failed = sa.failed, !.arm = AnyFailed(sa.failed), !.wait = sa.wait]
        /\ dc' = [Voided(dc) EXCEPT !.back = 0] /\ UNCHANGED <<cellVars, run, early>>
        /\ proved' = [t \in Transports |-> 0]
        /\ owed' = IF AnyFailed(run) THEN SaDelay ELSE owed
    BY DEF HostResets, ResetCost
  <1>2. /\ DOMAIN sa' = ServerFields /\ sa'.failed = sa.failed /\ sa'.arm = AnyFailed(sa.failed)
        /\ sa'.wait = sa.wait /\ sa'.unlocked = 0
    BY <1>1 DEF Fresh, ServerFields
  <1>3. /\ DOMAIN dc' = LinkFields /\ dc'.back = 0 /\ dc'.level = [t \in Transports |-> 0]
        /\ dc'.unlockRemote = dc.unlockRemote /\ dc'.backRemote = dc.backRemote
    BY <1>0, <1>1 DEF Voided, LinkShape, LinkFields
  <1>4. UNCHANGED <<target, keep, owner, rng, trouble, saved, misled, run, early>>
    BY <1>1 DEF cellVars
  <1>5. owed' \in Nat /\ owed' <= SaDelay /\ owed' <= IF sa'.arm THEN SaDelay ELSE sa'.wait
    BY <1>0, <1>1, <1>2, DiagAssumption DEF DiagAssumption, ServerShape
  <1>6. DiagShape' /\ OwnerPlaces'
    BY <1>0, <1>2, <1>3, <1>4, <1>5, DiagAssumption
       DEF DiagAssumption, DiagInv, DiagShape, ServerShape, LinkShape, OwnerPlaces
  <1>7. Locks'
    BY <1>0, <1>2, <1>3, <1>4, <1>5 DEF Locks, Armed, AttemptsCounted
  <1>8. HeldByReset' /\ UnlockOfItsOwn'
    BY <1>1, <1>2, <1>3 DEF HeldByReset, UnlockOfItsOwn, Visible, HeldFor
  <1>9. Saving'
    BY <1>0, <1>4, ServingKeepsSaving
  <1> QED
    BY <1>6, <1>7, <1>8, <1>9 DEF DiagInv

\* The answered reset is performed: the save begins.
LEMMA BeginsResetKeeps == ASSUME DiagInv, BeginsReset PROVE DiagInv'
  <1>1. /\ owner[1] = "serves" /\ target /\ owner' = <<"saves", 1>>
        /\ UNCHANGED <<target, sa, dc, keep, proved, run, owed, early, saved, misled>>
    BY DEF BeginsReset, Serving, lockVars
  <1>2. 1 \in 1 .. KeepWords + 3 /\ KeepWords \in Nat /\ KeepWords >= 1
    BY DiagAssumption DEF DiagAssumption, KeepWords
  <1>3. DiagShape' /\ OwnerPlaces'
    BY <1>1, <1>2 DEF DiagInv, DiagShape, ServerShape, LinkShape, OwnerPlaces
  <1>4. UnlockOfItsOwn' /\ HeldByReset'
    BY <1>1 DEF DiagInv, UnlockOfItsOwn, HeldByReset, Visible, HeldFor, Hides
  <1>5. Locks'
    BY <1>1 DEF DiagInv, Locks, Armed, AttemptsCounted
  <1>6. Saving'
    BY <1>1, <1>2 DEF DiagInv, Saving
  <1> QED
    BY <1>3, <1>4, <1>5, <1>6 DEF DiagInv

\* The words go first, the check word next, and the magic last.
LEMMA KeepSavesKeeps == ASSUME DiagInv, KeepSaves PROVE DiagInv'
  <1> DEFINE v == KeptSecurity(sa)
  <1>1. PICK k \in 1 .. KeepWords + 2 : owner = <<"saves", k>> /\ target
    <2>1. owner[1] = "saves" /\ owner[2] <= KeepWords + 2
      BY DEF KeepSaves
    <2>2. PICK k \in 1 .. KeepWords + 3 : owner = <<"saves", k>> /\ target
      BY <2>1 DEF DiagInv, OwnerPlaces
    <2> QED
      BY <2>1, <2>2, DiagAssumption DEF DiagAssumption, KeepWords
  <1>2. /\ keep' = [keep EXCEPT !.words = IF k <= KeepWords THEN [@ EXCEPT ![k] = v[k]] ELSE @,
                                !.check = IF k = KeepWords + 1 THEN v ELSE @,
                                !.magic = @ \/ k = KeepWords + 2]
        /\ saved' = IF k = KeepWords + 2 THEN v ELSE saved
        /\ owner' = <<"saves", k + 1>>
        /\ UNCHANGED <<target, sa, dc, proved, run, owed, early, misled>>
    BY <1>1 DEF KeepSaves, lockVars
  <1>3. KeepWords \in Nat /\ v \in [1 .. KeepWords -> Nat] /\ v' = v
    <2>1. KeepWords \in Nat
      BY DiagAssumption DEF DiagAssumption, KeepWords
    <2>2. v \in [1 .. KeepWords -> Nat]
      BY KeptIs DEF DiagInv, DiagShape, ServerShape
    <2>3. v' = v
      BY <1>2 DEF KeptSecurity, Locking
    <2> QED
      BY <2>1, <2>2, <2>3
  <1> HIDE DEF v
  <1>4. /\ DOMAIN keep' = {"magic", "words", "check"}
        /\ keep'.words = (IF k <= KeepWords THEN [keep.words EXCEPT ![k] = v[k]] ELSE keep.words)
        /\ keep'.check = (IF k = KeepWords + 1 THEN v ELSE keep.check)
        /\ k = KeepWords + 2 => keep'.magic
        /\ k # KeepWords + 2 /\ ~keep.magic => ~keep'.magic
    BY <1>2 DEF DiagInv, DiagShape
  <1>5. keep'.words \in [1 .. KeepWords -> Nat]
    BY <1>1, <1>3, <1>4 DEF DiagInv, DiagShape
  <1>6. DiagShape' /\ OwnerPlaces'
    <2>1. k + 1 \in 1 .. KeepWords + 3
      BY <1>1, <1>3
    <2> QED
      BY <1>1, <1>2, <1>4, <1>5, <2>1 DEF DiagInv, DiagShape, ServerShape, LinkShape, OwnerPlaces
  <1>7. UnlockOfItsOwn' /\ HeldByReset'
    BY <1>2 DEF DiagInv, UnlockOfItsOwn, HeldByReset, Visible, HeldFor, Hides
  <1>8. Locks'
    BY <1>1, <1>2 DEF DiagInv, Locks, Armed, AttemptsCounted
  <1>9. Saving'
    <2>1. /\ ~keep.magic /\ saved = <<>> /\ ~misled
          /\ \A w \in 1 .. KeepWords : w < k => keep.words[w] = v[w]
          /\ k > KeepWords + 1 => keep.check = v
      BY <1>1 DEF DiagInv, Saving, v
    <2>2. \A w \in 1 .. KeepWords : w < k + 1 => keep'.words[w] = v[w]
      BY <1>1, <1>3, <1>4, <2>1 DEF DiagInv, DiagShape
    <2>3. k + 1 > KeepWords + 1 => keep'.check = v
      BY <1>1, <1>3, <1>4, <2>1
    <2>4. k + 1 > KeepWords + 2 => keep'.magic /\ saved' = v
      <3>1. k + 1 > KeepWords + 2 => k = KeepWords + 2
        BY <1>1, <1>3
      <3> QED
        BY <1>2, <1>4, <3>1
    <2>5. k + 1 <= KeepWords + 2 => ~keep'.magic /\ saved' = <<>>
      <3>1. k + 1 <= KeepWords + 2 => k # KeepWords + 2
        BY <1>1, <1>3
      <3> QED
        BY <1>2, <1>4, <2>1, <3>1
    <2>6. KeptSecurity(sa)' = v
      BY <1>3 DEF v
    <2> QED
      BY <1>2, <2>1, <2>2, <2>3, <2>4, <2>5, <2>6 DEF Saving
  <1> QED
    BY <1>6, <1>7, <1>8, <1>9 DEF DiagInv

\* Wherever the node is when it resets: what stands whole in the cell was saved of what it
\* counts now, and the cell reads as nothing otherwise.
LEMMA SaveStands ==
    ASSUME DiagInv
    PROVE  /\ Loaded = saved
           /\ saved # <<>> => \E lock \in {0, 1} :
                                /\ saved = SavedWords(run, lock)
                                /\ owed > 0 => lock = 1 \/ AnyFailed(run)
           /\ owner = <<"saves", KeepWords + 3>> => saved # <<>>
  <1>1. CASE owner = <<"serves", 0>>
    BY <1>1 DEF DiagInv, Saving, Loaded
  <1>2. CASE owner = <<"starts", 0>>
    BY <1>2 DEF DiagInv, Saving
  <1>3. ASSUME NEW k \in 1 .. KeepWords + 3, owner = <<"saves", k>>, k <= KeepWords + 2
        PROVE  Loaded = <<>> /\ saved = <<>>
    BY <1>3 DEF DiagInv, Saving, Loaded
  <1>4. CASE owner = <<"saves", KeepWords + 3>>
    <2>1. KeepWords \in Nat /\ sa.failed \in Counts /\ sa.failed = run
      BY <1>4, DiagAssumption
         DEF DiagAssumption, KeepWords, DiagInv, DiagShape, ServerShape, Locks, AttemptsCounted
    <2>2. PICK lock \in {0, 1} : /\ KeptSecurity(sa) = SavedWords(run, lock)
                                 /\ Locking(sa) => lock = 1
                                 /\ KeptSecurity(sa) \in [1 .. KeepWords -> Nat]
      BY <2>1, KeptIs
    <2>3. /\ keep.magic /\ saved = KeptSecurity(sa) /\ keep.check = KeptSecurity(sa)
          /\ \A w \in 1 .. KeepWords : keep.words[w] = KeptSecurity(sa)[w]
      BY <1>4, <2>1 DEF DiagInv, Saving
    <2>4. keep.words = KeptSecurity(sa)
      <3>1. keep.words = [w \in 1 .. KeepWords |-> keep.words[w]]
        BY DEF DiagInv, DiagShape
      <3>2. KeptSecurity(sa) = [w \in 1 .. KeepWords |-> KeptSecurity(sa)[w]]
        BY <2>2
      <3> QED
        BY <2>3, <3>1, <3>2
    <2>5. owed > 0 => Locking(sa)
      BY <1>4 DEF DiagInv, DiagShape, ServerShape, Locks, AttemptsCounted, Locking
    <2> QED
      BY <2>2, <2>3, <2>4, <2>5, SavedIsWhole DEF Loaded
  <1>5. OwnerPlaces /\ KeepWords \in Nat
    BY DiagAssumption DEF DiagAssumption, KeepWords, DiagInv
  <1>6. CASE \E k \in 1 .. KeepWords + 3 : owner = <<"saves", k>>
    <2>1. PICK k \in 1 .. KeepWords + 3 : owner = <<"saves", k>>
      BY <1>6
    <2>2. CASE k <= KeepWords + 2
      BY <1>3, <1>5, <2>1, <2>2
    <2>3. CASE k = KeepWords + 3
      BY <1>4, <2>1, <2>3
    <2> QED
      BY <1>5, <2>2, <2>3
  <1> QED
    BY <1>1, <1>2, <1>5, <1>6 DEF OwnerPlaces
\* RAM is lost on the way to a start; what stands in the cell, and what is owed, are known.
LEMMA StartsOver ==
    ASSUME DiagInv, target, owner' = <<"starts", 0>>, LostAll, UNCHANGED <<target, early, misled>>,
           DOMAIN keep' = {"magic", "words", "check"}, keep'.words \in [1 .. KeepWords -> Nat],
           run' \in Counts, owed' \in Nat, owed' <= SaDelay, Loaded' = saved',
           saved' = <<>> => run' = Nothing /\ owed' = 0,
           saved' # <<>> => \E lock \in {0, 1} :
                              /\ saved' = SavedWords(run', lock)
                              /\ owed' > 0 => lock = 1 \/ AnyFailed(run')
    PROVE  DiagInv'
  <1>1. sa' = Fresh /\ dc' = Unconnected /\ \A t \in Transports : proved'[t] = 0
    BY DEF LostAll
  <1>2. DiagShape' /\ OwnerPlaces'
    BY <1>1, FreshShape DEF DiagShape, ServerShape, LinkShape, OwnerPlaces
  <1>3. UnlockOfItsOwn' /\ HeldByReset'
    BY <1>1, FreshOwns DEF UnlockOfItsOwn, HeldByReset, Visible, HeldFor
  <1>4. Locks'
    BY <1>1, FreshOwns DEF DiagInv, Locks, Armed, AttemptsCounted
  <1>5. Saving'
    BY <1>1 DEF DiagInv, Saving
  <1> QED
    BY <1>2, <1>3, <1>4, <1>5 DEF DiagInv

\* What a reset costs is owed by a node that counts or is locked, and is never more than the
\* delay.
LEMMA CostOwed ==
    ASSUME DiagInv
    PROVE  /\ ResetCost \in Nat /\ ResetCost <= SaDelay
           /\ ResetCost > 0 => owed > 0 \/ AnyFailed(run)
  BY DiagAssumption DEF DiagAssumption, ResetCost, DiagInv, DiagShape, Locks

LEMMA ResetsKeep ==
    ASSUME DiagInv, KeepReset \/ OtherReset \/ KeepPowerGone
    PROVE  DiagInv'
  <1>0. /\ DOMAIN keep = {"magic", "words", "check"} /\ keep.words \in [1 .. KeepWords -> Nat]
        /\ run \in Counts /\ Nothing \in Counts
    BY FreshShape DEF DiagInv, DiagShape
  <1>1. CASE KeepReset
    <2>1. /\ target /\ owner' = <<"starts", 0>> /\ LostAll
          /\ UNCHANGED <<target, early, misled, keep, saved, run>> /\ owed' = ResetCost
          /\ saved # <<>>
      BY <1>1, SaveStands DEF KeepReset, DiagInv, OwnerPlaces
    <2>2. Loaded' = Loaded
      BY <2>1 DEF Loaded
    <2> QED
      BY <1>0, <2>1, <2>2, SaveStands, CostOwed, StartsOver
  <1>2. CASE OtherReset
    <2>1. /\ target /\ owner' = <<"starts", 0>> /\ LostAll
          /\ UNCHANGED <<target, early, misled, keep, saved>>
          /\ run' = (IF saved = <<>> THEN Nothing ELSE run)
          /\ owed' = IF saved = <<>> THEN 0 ELSE ResetCost
      BY <1>2 DEF OtherReset, Forgets
    <2>2. Loaded' = Loaded
      BY <2>1 DEF Loaded
    <2>3. CASE saved = <<>>
      BY <1>0, <2>1, <2>2, <2>3, SaveStands, StartsOver, DiagAssumption DEF DiagAssumption
    <2>4. CASE saved # <<>>
      BY <1>0, <2>1, <2>2, <2>4, SaveStands, CostOwed, StartsOver
    <2> QED
      BY <2>3, <2>4
  <1>3. CASE KeepPowerGone
    <2>1. /\ target /\ owner' = <<"starts", 0>> /\ LostAll /\ UNCHANGED <<target, early, misled>>
          /\ keep' = EmptyKeep /\ saved' = <<>> /\ run' = Nothing /\ owed' = 0
      BY <1>3 DEF KeepPowerGone, Forgets
    <2>2. DOMAIN keep' = {"magic", "words", "check"} /\ keep'.words \in [1 .. KeepWords -> Nat]
          /\ ~keep'.magic
      BY <2>1 DEF EmptyKeep, NoneKept
    <2>3. Loaded' = <<>>
      BY <2>2 DEF Loaded
    <2> QED
      BY <1>0, <2>1, <2>2, <2>3, StartsOver, DiagAssumption DEF DiagAssumption
  <1> QED
    BY <1>1, <1>2, <1>3

\* The start restores what was saved: the counts, and the delay for whatever is owed.
LEMMA StartsKeep == ASSUME DiagInv, Starts PROVE DiagInv'
  <1>0. owner[1] = "starts" /\ target
    BY DEF Starts, DiagInv, OwnerPlaces
  <1>1. /\ sa = Fresh /\ dc = Unconnected /\ Loaded = saved /\ ~misled
        /\ saved = <<>> => run = Nothing /\ owed = 0
        /\ saved # <<>> => \E lock \in {0, 1} : /\ saved = SavedWords(run, lock)
                                                /\ owed > 0 => lock = 1 \/ AnyFailed(run)
    BY <1>0 DEF DiagInv, Saving
  <1>2. /\ owner' = <<"serves", 0>> /\ keep' = [keep EXCEPT !.magic = FALSE] /\ saved' = <<>>
        /\ sa' = IF Loaded = <<>> THEN sa
                 ELSE [sa EXCEPT !.failed = [l \in 1 .. SaLevels |-> Loaded[l]],
                                 !.arm = Loaded[KeepWords] # 0 \/ \E l \in 1 .. SaLevels : Loaded[l] > 0]
        /\ UNCHANGED <<target, dc, proved, run, owed, early>>
        /\ misled' = (misled \/ Loaded # saved)
    BY DEF Starts, Consumed, lockVars
  <1>3. ~misled'
    BY <1>1, <1>2
  <1>4. DOMAIN keep' = {"magic", "words", "check"} /\ keep'.words = keep.words /\ ~keep'.magic
    BY <1>2 DEF DiagInv, DiagShape
  <1>5. /\ DOMAIN sa' = ServerFields /\ sa'.failed = run /\ sa'.wait = 0 /\ sa'.unlocked = 0
        /\ owed > 0 => sa'.arm
        /\ run \in Counts /\ owed \in Nat /\ owed <= SaDelay /\ ~early
    <2>0. run \in Counts /\ owed \in Nat /\ owed <= SaDelay /\ ~early
      BY DEF DiagInv, DiagShape, Locks
    <2>1. CASE saved = <<>>
      BY <1>1, <1>2, <2>0, <2>1, FreshOwns DEF Fresh, ServerFields
    <2>2. CASE saved # <<>>
      <3>1. PICK lock \in {0, 1} : /\ Loaded = SavedWords(run, lock)
                                   /\ owed > 0 => lock = 1 \/ AnyFailed(run)
        BY <1>1, <2>2
      <3>2. /\ \A l \in 1 .. SaLevels : Loaded[l] = run[l]
            /\ Loaded[KeepWords] = lock
        <4>1. /\ SaLevels \in Nat /\ KeepWords = SaLevels + 1
              /\ Loaded = [w \in 1 .. KeepWords |-> IF w <= SaLevels THEN run[w] ELSE lock]
          BY <3>1, DiagAssumption DEF DiagAssumption, SavedWords, KeepWords
        <4>2. \A w \in 1 .. KeepWords : Loaded[w] = IF w <= SaLevels THEN run[w] ELSE lock
          BY <4>1
        <4>3. \A l \in 1 .. SaLevels : l \in 1 .. KeepWords /\ l <= SaLevels
          BY <4>1
        <4>4. KeepWords \in 1 .. KeepWords /\ ~(KeepWords <= SaLevels)
          BY <4>1
        <4> QED
          BY <4>2, <4>3, <4>4, Zenon
      <3>3. [l \in 1 .. SaLevels |-> Loaded[l]] = run
        BY <2>0, <3>2 DEF Counts
      <3> DEFINE arm == Loaded[KeepWords] # 0 \/ \E l \in 1 .. SaLevels : Loaded[l] > 0
      <3>4. sa' = [sa EXCEPT !.failed = run, !.arm = arm]
        BY <1>1, <1>2, <2>2, <3>3
      <3>5. owed > 0 => arm
        BY <3>1, <3>2 DEF AnyFailed
      <3> HIDE DEF arm
      <3>6. DOMAIN sa' = ServerFields /\ sa'.failed = run /\ sa'.arm = arm /\ sa'.wait = 0 /\ sa'.unlocked = 0
        BY <1>1, <3>4 DEF Fresh, ServerFields
      <3> QED
        BY <2>0, <3>5, <3>6
    <2> QED
      BY <2>1, <2>2
  <1>6. DiagShape' /\ OwnerPlaces'
    <2>1. ServerShape(sa)'
      BY <1>5 DEF ServerShape
    <2>2. LinkShape(dc)'
      BY <1>2 DEF DiagInv, DiagShape, LinkShape
    <2>3. keep'.words \in [1 .. KeepWords -> Nat]
      BY <1>4 DEF DiagInv, DiagShape
    <2> QED
      BY <1>2, <1>4, <1>5, <2>1, <2>2, <2>3 DEF DiagShape, OwnerPlaces
  <1>7. UnlockOfItsOwn' /\ HeldByReset'
    <2>1. dc'.back = 0 /\ sa.unlocked = 0 /\ dc.back = 0
      BY <1>1, <1>2, FreshOwns
    <2> QED
      BY <1>2, <1>5, <2>1 DEF DiagInv, UnlockOfItsOwn, HeldByReset, Visible, HeldFor
  <1>8. Locks'
    <2>1. \A t \in Transports : dc'.level[t] = 0
      BY <1>1, <1>2, FreshOwns
    <2>2. owed' <= IF sa'.arm THEN SaDelay ELSE sa'.wait
      BY <1>2, <1>5
    <2> QED
      BY <1>0, <1>2, <1>5, <2>1, <2>2 DEF Locks, Armed, AttemptsCounted
  <1>9. Saving'
    BY <1>2, <1>3, <1>4 DEF Saving
  <1> QED
    BY <1>6, <1>7, <1>8, <1>9 DEF DiagInv

LEMMA DiagNextKeeps == ASSUME DiagInv, DiagNext PROVE DiagInv'
  <1>1. ASSUME NEW t \in Transports,
               \/ Asks(t) \/ AsksSession(t) \/ AsksReset(t)
               \/ SeedRefused(t) \/ AsksSeed(t) \/ WrongKey(t) \/ RightKey(t)
        PROVE  DiagInv'
    BY <1>1, AsksKeep, AsksSessionKeeps, AsksSeedKeeps, WrongKeyKeeps, RightKeyKeeps
  <1>2. CASE DropsWhilePending \/ AnswerLeaves \/ RemoteAcked
    BY <1>2, AnswersLeave
  <1>3. CASE AnswerLost \/ RemoteGone \/ Elapses
    BY <1>3, AnswerLostKeeps, RemoteGoneKeeps, ElapsesKeeps
  <1>4. CASE HostResets \/ BeginsReset \/ KeepSaves
    BY <1>4, HostResetsKeep, BeginsResetKeeps, KeepSavesKeeps
  <1>5. CASE KeepReset \/ OtherReset \/ KeepPowerGone
    BY <1>5, ResetsKeep
  <1>6. CASE Starts
    BY <1>6, StartsKeep
  <1> QED
    BY <1>1, <1>2, <1>3, <1>4, <1>5, <1>6 DEF DiagNext

-------------------------------------------------------------------------------
(***************************************************************************)
(* The theorems: each part on its own, and all of them side by side.       *)
(***************************************************************************)
\* No chunk is served on a connection whose deadline has passed and no connection is
\* closed before it (doip_idle.h), for any limits below the counter's range.
THEOREM DeadlinesAreKept == IdleSpec => []DeadlinesKept
  <1>1. IdleInv => DeadlinesKept
    BY DEF IdleInv
  <1> QED BY <1>1, IdleStarts, IdleStep, PTL DEF IdleSpec

\* Neither ring dies and no packet is lost (eth_recv, eth_send, nx_driver_receive,
\* NX_LINK_ENABLE), for rings and pools of any size.
THEOREM EthStaysAlive == EthSpec => []EthAlive
  BY EthStarts, EthStep, EthInvIsAlive, PTL DEF EthSpec

\* The network comes up once, follows its link, and loses neither an entry nor a packet
\* (netx_up.c, eth_link_up, learn_peer, svc_entry).
THEOREM NetUpStaysHonest == NetUpSpec => []NetUpHonest
  BY NetUpStarts, NetUpStep, NetUpInvIsHonest, PTL DEF NetUpSpec

\* The invariant behind the property: what a pending reset holds, what the server counts and
\* what a save of it says agree, word by word, with what the testers did.
THEOREM DiagInvariance == DiagSpec => []DiagInv
  <1>1. DiagInit => DiagInv
    BY DiagInitKept
  <1>2. DiagInv /\ [DiagNext]_diagVars => DiagInv'
    <2> SUFFICES ASSUME DiagInv, [DiagNext]_diagVars PROVE DiagInv'
      OBVIOUS
    <2>1. CASE DiagNext
      BY <2>1, DiagNextKeeps
    <2>2. CASE UNCHANGED diagVars
      <3>1. DiagShape' /\ OwnerPlaces' /\ HeldByReset' /\ UnlockOfItsOwn'
        BY <2>2 DEF diagVars, DiagInv, DiagShape, ServerShape, LinkShape, OwnerPlaces, HeldByReset,
                    UnlockOfItsOwn, Visible, HeldFor, Hides
      <3>2. Locks' /\ Saving'
        BY <2>2 DEF diagVars, DiagInv, Locks, Armed, AttemptsCounted, Saving, Loaded, KeptSecurity, Locking
      <3> QED
        BY <3>1, <3>2 DEF DiagInv
    <2> QED
      BY <2>1, <2>2
  <1> QED
    BY <1>1, <1>2, PTL DEF DiagSpec

\* diag.v, uds.v, diag_board.c: an unlock stays with the transport that earned it, no seed is
\* given in a lockout whatever resets came, and a start finds what the reset saved.
THEOREM DiagIsHonest == DiagSpec => []DiagHonest
  <1>1. DiagInv => DiagHonest
    BY DEF DiagInv, Locks, Saving, DiagHonest
  <1> QED
    BY <1>1, DiagInvariance, PTL

\* The parts share no state: what each does on its own is all it does beside the others.
LEMMA PartsStart == NetInit => EthInit /\ NetUpInit /\ IdleInit
  BY DEF NetInit

LEMMA PartsStep ==
    [NetNext]_netVars => [EthNext]_ethVars /\ [NetUpNext]_netUpVars /\ [IdleNext]_idleVars
  <1> SUFFICES ASSUME [NetNext]_netVars
               PROVE  [EthNext]_ethVars /\ [NetUpNext]_netUpVars /\ [IdleNext]_idleVars
    OBVIOUS
  <1>1. CASE UNCHANGED netVars
    BY <1>1 DEF netVars
  <1>2. CASE Only("mailbox") \/ Only("route") \/ Only("diag")
    BY <1>2 DEF Only
  <1>3. CASE Only("idle") /\ IdleNext
    BY <1>3 DEF Only
  <1>4. CASE Only("eth") /\ EthNext
    BY <1>4 DEF Only
  <1>5. CASE Only("netup") /\ NetUpNext
    BY <1>5 DEF Only
  <1> QED BY <1>1, <1>2, <1>3, <1>4, <1>5 DEF NetNext

\* NetworkUsable, of the driver and the bring-up, in the specification that is run.
THEOREM NetworkStaysUsable == NetSpec => []NetworkUsable
  <1>1. NetSpec => EthSpec /\ NetUpSpec
    BY PartsStart, PartsStep, PTL DEF NetSpec, EthSpec, NetUpSpec
  <1>2. EthAlive /\ NetUpHonest => NetworkUsable
    BY DEF NetworkUsable
  <1> QED BY <1>1, <1>2, EthStaysAlive, NetUpStaysHonest, PTL

-------------------------------------------------------------------------------
(***************************************************************************)
(* A request over DoIP (Doip, DoipRoute).                                  *)
(***************************************************************************)
MbFields == {"posted", "settled", "served", "queued", "reported", "drops", "drop_after",
             "drops_seen", "pushed", "push_taken", "push_queued", "push_reported"}
Msg == {"none", "activated", "answer", "nack", "push"} \X Nat

-------------------------------------------------------------------------------
(***************************************************************************)
(* The mailbox's numbers, whichever threads use it.                        *)
(***************************************************************************)
MailboxShape(m) ==
    /\ DOMAIN m = MbFields
    /\ m.posted \in Nat /\ m.settled \in Nat /\ m.served \in Nat /\ m.queued \in Nat
    /\ m.reported \in Nat /\ m.drops \in Nat /\ m.drop_after \in Nat /\ m.drops_seen \in Nat
    /\ m.pushed \in Nat /\ m.push_taken \in Nat /\ m.push_queued \in Nat
    /\ m.push_reported \in Nat

\* Nothing runs ahead of what the numbers follow.
MailboxOrder(m) ==
    /\ m.settled <= m.posted /\ m.served <= m.posted
    /\ m.queued <= m.served /\ m.reported <= m.served
    /\ m.push_taken <= m.pushed /\ m.push_queued <= m.pushed

\* What Append and Tail do to the places of a sequence.
LEMMA Appended ==
  ASSUME NEW S, NEW s \in Seq(S), NEW e \in S
  PROVE  /\ Append(s, e) \in Seq(S) /\ Len(Append(s, e)) = Len(s) + 1
         /\ \A i \in 1 .. Len(s) : Append(s, e)[i] = s[i]
         /\ Append(s, e)[Len(s) + 1] = e
         /\ \A i \in 1 .. Len(Append(s, e)) : i = Len(s) + 1 \/ i \in 1 .. Len(s)
  OBVIOUS

LEMMA Element == ASSUME NEW S, NEW s \in Seq(S), NEW i \in 1 .. Len(s) PROVE s[i] \in S
  OBVIOUS

LEMMA Tailed ==
  ASSUME NEW S, NEW s \in Seq(S), s # <<>>
  PROVE  /\ Head(s) = s[1] /\ 1 \in 1 .. Len(s) /\ Head(s) \in S
         /\ Tail(s) \in Seq(S) /\ Len(Tail(s)) = Len(s) - 1
         /\ \A i \in 1 .. Len(Tail(s)) : i + 1 \in 1 .. Len(s) /\ Tail(s)[i] = s[i + 1]
  OBVIOUS

\* What the operations of doip_mb.h leave alone.
LEMMA ServedFields ==
  ASSUME NEW m, MailboxShape(m), MailboxOrder(m)
  PROVE  /\ MailboxShape(MbServe(m)) /\ MailboxOrder(MbServe(m))
         /\ MbServe(m).served = m.posted /\ MbServe(m).settled = m.posted
         /\ \A f \in MbFields \ {"served", "settled"} : MbServe(m)[f] = m[f]
  <1>1. /\ DOMAIN MbServe(m) = MbFields
        /\ MbServe(m).served = m.posted /\ MbServe(m).settled = m.posted
        /\ \A f \in MbFields \ {"served", "settled"} : MbServe(m)[f] = m[f]
    BY DEF MbServe, MailboxShape, MbFields
  <1> HIDE DEF MbServe
  <1> QED BY <1>1 DEF MailboxShape, MailboxOrder, MbFields

LEMMA PushedFields ==
  ASSUME NEW m, MailboxShape(m), MailboxOrder(m)
  PROVE  /\ MailboxShape(MbPush(m)) /\ MailboxOrder(MbPush(m)) /\ MbPush(m).pushed = m.pushed + 1
         /\ \A f \in MbFields \ {"pushed"} : MbPush(m)[f] = m[f]
  BY DEF MbPush, MailboxShape, MailboxOrder, MbFields

LEMMA PostedFields ==
  ASSUME NEW m, MailboxShape(m), MailboxOrder(m)
  PROVE  /\ MailboxShape(MbPost(m)) /\ MailboxOrder(MbPost(m)) /\ MbPost(m).posted = m.posted + 1
         /\ \A f \in MbFields \ {"posted"} : MbPost(m)[f] = m[f]
  <1>1. /\ DOMAIN MbPost(m) = MbFields /\ MbPost(m).posted = m.posted + 1
        /\ \A f \in MbFields \ {"posted"} : MbPost(m)[f] = m[f]
    BY DEF MbPost, MailboxShape, MbFields
  <1> HIDE DEF MbPost
  <1> QED BY <1>1 DEF MailboxShape, MailboxOrder, MbFields

LEMMA WithdrawnFields ==
  ASSUME NEW m, MailboxShape(m), MailboxOrder(m)
  PROVE  /\ MailboxShape(MbWithdraw(m, m.posted)) /\ MailboxOrder(MbWithdraw(m, m.posted))
         /\ MbWithdraw(m, m.posted).settled = m.posted
         /\ \A f \in MbFields \ {"settled"} : MbWithdraw(m, m.posted)[f] = m[f]
  <1>1. /\ DOMAIN MbWithdraw(m, m.posted) = MbFields /\ MbWithdraw(m, m.posted).settled = m.posted
        /\ \A f \in MbFields \ {"settled"} : MbWithdraw(m, m.posted)[f] = m[f]
    BY DEF MbWithdraw, MailboxShape, MbFields
  <1> HIDE DEF MbWithdraw
  <1> QED BY <1>1 DEF MailboxShape, MailboxOrder, MbFields

-------------------------------------------------------------------------------
(***************************************************************************)
(* The mailbox (Doip).  What holds in any order of the threads:            *)
(***************************************************************************)
Shape ==
    /\ MailboxShape(mb) /\ MailboxOrder(mb)
    /\ from \in Seq(Nat) /\ Len(from) = mb.posted
    /\ pfrom \in Seq(Nat) /\ Len(pfrom) = mb.pushed /\ wconn \in Nat
    /\ outq \in Seq(Msg) /\ dmsg \in Msg /\ resp = mb.served
    /\ DOMAIN remote = {"inflight", "reset", "acked"}
    /\ nacked \subseteq 1 .. mb.posted /\ answered \subseteq 1 .. mb.posted

\* A request given up on is withdrawn, one taken is not settled yet, one answered is the
\* one served last, or an older one.
Fates ==
    /\ mb.posted \in nacked => mb.settled = mb.posted
    /\ mb.posted \in answered => mb.served = mb.posted
    /\ spc = "serving" => mb.settled # mb.posted
    /\ FailedNotServed

\* Where the doip thread is tells whether it has a tester.
OnConnection ==
    /\ ~connected => sock = "listen" /\ inq = <<>> /\ outq = <<>>
    /\ dpc \in {"feed", "wait", "check", "send", "queue", "pushed"} => connected
    /\ dpc = "drop" => ~connected
    /\ activated /\ dpc # "drop" => connected
    /\ dpc \in {"send", "queue"} => dnext = IF dmsg[1] = "push" THEN "pushed" ELSE "feed"
    /\ \A k \in 1 .. mb.posted : from[k] <= conn
    /\ dpc \in {"wait", "check"} => mb.posted >= 1 /\ from[mb.posted] = conn

\* Message m answers a request of connection c.
Mine(m, c) ==
    /\ m[1] \in {"answer", "nack"} => m[2] \in 1 .. mb.posted /\ from[m[2]] = c
    /\ m[1] = "push" /\ urgent => m[2] \in 1 .. mb.pushed /\ pfrom[m[2]] = c

MessagesOwn ==
    /\ dpc \in {"send", "queue", "pushed"} => Mine(dmsg, conn)
    /\ \A i \in 1 .. Len(outq) : Mine(outq[i], conn)
    /\ \A g \in got : Mine(g[2], g[1])

\* The node goes down on a reset that is due, and stays so.
DownWhenDue == down => spc = "due" /\ Due

(***************************************************************************)
(* And where the server thread runs before the network threads:            *)
(***************************************************************************)
\* A request is served before the doip thread does anything else ...
ServedAtOnce ==
    /\ mb.settled = mb.served
    /\ mb.served # mb.posted => dpc = "wait" /\ (woken \/ spc \in {"sent", "dropped", "take",
           "serving"})
    /\ spc = "serving" => mb.served # mb.posted

\* ... and a drop is taken before it does.
TakenAtOnce ==
    mb.drops # mb.drops_seen =>
        /\ ~connected /\ dpc = "top"
        /\ (spc = "rest" /\ woken) \/ spc \in {"sent", "dropped"}
        /\ mb.drop_after = mb.posted /\ mb.push_taken = mb.pushed /\ mb.push_queued = 0

\* Once it is taken, nothing of the connection is left.
Gone == ~connected /\ dpc # "drop" /\ mb.drops = mb.drops_seen
NothingLeft ==
    Gone => /\ ~remote.inflight /\ (reset # 0 => remote.acked)
            /\ ~(session > 0) /\ work = 0
            /\ mb.push_taken = mb.pushed /\ mb.push_queued = 0

Told(c, m) == <<c, m>> \in got

\* A reset that waits for its answer's acknowledgement is the open connection's; one that
\* does not has it.
ResetWaits ==
    reset # 0 =>
        /\ remote.reset /\ reset \in 1 .. mb.served
        /\ ~remote.acked => remote.inflight /\ from[reset] = conn
        /\ remote.acked => Told(from[reset], <<"answer", reset>>)

SessionOwn == session > 0 => session = conn

\* A routine goes on, on the connection that began it, when its last response is acknowledged.
RoutineOwn ==
    work > 0 =>
        /\ wconn = conn
        /\ wlast[1] \in {"answer", "push"} /\ wlast = <<wlast[1], wlast[2]>>
        /\ wlast[1] = "answer" => wlast[2] \in 1 .. mb.served /\ from[wlast[2]] = conn
        /\ wlast[1] = "push" => wlast[2] = mb.pushed /\ mb.pushed >= 1 /\ pfrom[mb.pushed] = conn
        /\ wready => Told(wconn, wlast)

PushOwn == mb.push_taken # mb.pushed => mb.pushed >= 1 /\ pfrom[mb.pushed] = conn

\* What was sent on a connection that lives is with TCP, or the tester has it.
SentOn(m) == (\E i \in 1 .. Len(outq) : outq[i] = m) \/ <<conn, m>> \in got
OnItsWay(k) ==
    /\ k = mb.posted
    /\ dpc \in {"wait", "check"} \/ (dpc = "send" /\ dmsg = <<"answer", k>>)
AnswersSent ==
    connected /\ Live(sock) =>
        \A k \in 1 .. mb.posted : from[k] = conn => OnItsWay(k) \/ SentOn(<<"answer", k>>)

\* Until it is, no queue report covers it.
NotQueuedYet ==
    /\ dpc \in {"wait", "check"} => mb.queued < mb.posted
    /\ dpc = "send" /\ dmsg[1] = "answer" => mb.queued < mb.posted /\ dmsg[2] = mb.posted

PushesSent ==
    /\ dpc \in {"send", "queue"} /\ dmsg[1] = "push" => dmsg[2] = mb.push_taken
    /\ dpc = "pushed" => dmsg = <<"push", mb.push_taken>>
    /\ connected /\ Live(sock) =>
        /\ dpc \in {"queue", "pushed"} /\ dmsg[1] = "push" => SentOn(dmsg)
        /\ mb.push_queued = mb.pushed /\ mb.pushed >= 1 => SentOn(<<"push", mb.pushed>>)

\* An answer in flight has been queued, once the doip thread has gone on.
InFlight ==
    remote.inflight =>
        /\ mb.reported # mb.served
        /\ connected /\ dpc \in {"top", "pushed", "recv", "feed"} => mb.queued = mb.served

UrgentInv ==
    /\ ServedAtOnce /\ TakenAtOnce /\ NothingLeft /\ ResetWaits /\ SessionOwn /\ RoutineOwn
    /\ PushOwn /\ AnswersSent /\ NotQueuedYet /\ PushesSent /\ InFlight

MailboxInv ==
    /\ TypeOK /\ Shape /\ Fates /\ OnConnection /\ MessagesOwn /\ DownWhenDue
    /\ urgent => UrgentInv

\* Each step keeps the invariant: the tester's, the doip thread's, the server's.
LEMMA TesterSendsKeeps == MailboxInv /\ TesterSends => MailboxInv'
  <1> SUFFICES ASSUME MailboxInv, TesterSends PROVE MailboxInv'
    OBVIOUS
  <1> USE DEF MailboxInv, UrgentInv
  <1>1. Shape' /\ Fates' /\ OnConnection' /\ MessagesOwn' /\ DownWhenDue'
    BY DEF TesterSends, IpRuns, Below, OnlyTcp, thread, box, server, Shape, MailboxShape,
      MailboxOrder, MbFields, Msg, Fates, FailedNotServed, OnConnection, MessagesOwn, Mine,
      DownWhenDue, Due
  <1>2. TypeOK'
    <2>1. inq' \in Seq({"activation", "request"}) /\ Len(inq') = Len(inq) + 1
      BY Appended DEF TesterSends, TypeOK
    <2>2. Len(inq') <= MaxPipe
      BY <2>1, DoipAssumption DEF TesterSends, TypeOK
    <2> QED BY <2>1, <2>2 DEF TesterSends, IpRuns, Below, OnlyTcp, thread, box, server, TypeOK,
            Shape, MailboxShape
  <1>3. urgent' => UrgentInv'
    <2> SUFFICES ASSUME urgent PROVE UrgentInv'
      BY DEF TesterSends, IpRuns, Below, OnlyTcp, thread, box, server
    <2>1. ServedAtOnce' /\ TakenAtOnce' /\ NothingLeft' /\ ResetWaits' /\ SessionOwn' /\
        RoutineOwn'
      BY DEF TesterSends, IpRuns, Below, OnlyTcp, thread, box, server, ServedAtOnce, Shape,
        MailboxShape, MbFields, MailboxOrder, OnConnection, TakenAtOnce, NothingLeft, Gone,
        ResetWaits, Told, SessionOwn, RoutineOwn
    <2>2. PushOwn' /\ AnswersSent' /\ NotQueuedYet' /\ PushesSent' /\ InFlight'
      BY DEF TesterSends, IpRuns, Below, OnlyTcp, thread, box, server, PushOwn, Shape,
        MailboxShape, MbFields, AnswersSent, OnItsWay, SentOn, Live, OnConnection, NotQueuedYet,
        MailboxOrder, PushesSent, InFlight
    <2> QED BY <2>1, <2>2
  <1> QED BY <1>1, <1>2, <1>3

LEMMA TesterAcksKeeps == MailboxInv /\ TesterAcks => MailboxInv'
  <1> SUFFICES ASSUME MailboxInv, TesterAcks PROVE MailboxInv'
    OBVIOUS
  <1> USE DEF MailboxInv, UrgentInv
  <1>a. /\ outq' \in Seq(Msg) /\ Len(outq') = Len(outq) - 1 /\ Len(outq) \in Nat
        /\ Head(outq) = outq[1] /\ 1 \in 1 .. Len(outq) /\ Head(outq) \in Msg
        /\ \A i \in 1 .. Len(outq') : i + 1 \in 1 .. Len(outq) /\ outq'[i] = outq[i + 1]
    <2>1. outq # <<>> /\ outq' = Tail(outq) /\ outq \in Seq(Msg)
      BY DEF TesterAcks, Shape
    <2> HIDE DEF Msg
    <2> QED BY <2>1, Tailed
  <1>b. \A m : SentOn(m) => SentOn(m)'
    <2> SUFFICES ASSUME NEW m, NEW i \in 1 .. Len(outq), outq[i] = m PROVE SentOn(m)'
      BY DEF TesterAcks, SentOn
    <2>1. CASE i = 1
      BY <2>1, <1>a DEF TesterAcks, SentOn
    <2>2. CASE i # 1
      <3>1. i - 1 \in 1 .. Len(outq') /\ outq'[i - 1] = m
        BY <2>2, <1>a
      <3> QED BY <3>1 DEF SentOn
    <2> QED BY <2>1, <2>2
  <1>1. TypeOK' /\ Fates' /\ OnConnection' /\ DownWhenDue'
    BY DEF TesterAcks, IpRuns, Below, OnlyTcp, thread, box, server, Live, TypeOK, Shape,
      MailboxShape, Fates, FailedNotServed, MailboxOrder, MbFields, OnConnection, DownWhenDue, Due
  <1>2. Shape'
    BY <1>a DEF TesterAcks, IpRuns, Below, OnlyTcp, thread, box, server, Live, Shape,
        MailboxShape, MailboxOrder, MbFields, Msg
  <1>3. MessagesOwn'
    <2>1. \A m, c : Mine(m, c) => Mine(m, c)'
      BY DEF TesterAcks, OnlyTcp, box, server, Mine
    <2>2. Mine(Head(outq), conn)
      BY <1>a DEF MessagesOwn
    <2> QED BY <1>a, <2>1, <2>2 DEF TesterAcks, OnlyTcp, thread, MessagesOwn
  <1>4. urgent' => UrgentInv'
    <2> SUFFICES ASSUME urgent PROVE UrgentInv'
      BY DEF TesterAcks, IpRuns, Below, OnlyTcp, thread, box, server, Live
    <2>1. ServedAtOnce' /\ TakenAtOnce' /\ NothingLeft' /\ ResetWaits' /\ SessionOwn'
      BY DEF TesterAcks, IpRuns, Below, OnlyTcp, thread, box, server, Live, ServedAtOnce, Shape,
        MailboxShape, MbFields, MailboxOrder, OnConnection, TakenAtOnce, NothingLeft, Gone,
        ResetWaits, Told, SessionOwn
    <2>2. RoutineOwn' /\ PushOwn' /\ NotQueuedYet' /\ InFlight'
      BY DEF TesterAcks, IpRuns, Below, OnlyTcp, thread, box, server, Live, RoutineOwn, Shape,
        MailboxShape, MbFields, Told, PushOwn, NotQueuedYet, MailboxOrder, InFlight
    <2>3. AnswersSent'
      BY <1>b DEF TesterAcks, IpRuns, Below, OnlyTcp, thread, box, server, Live, AnswersSent,
          Shape, MailboxShape, MbFields, OnItsWay, SentOn, Live, OnConnection
    <2>4. PushesSent'
      <3> HIDE DEF SentOn
      <3> QED BY <1>b DEF TesterAcks, OnlyTcp, thread, box, PushesSent
    <2> QED BY <2>1, <2>2, <2>3, <2>4
  <1> QED BY <1>1, <1>2, <1>3, <1>4

LEMMA TesterClosesKeeps == MailboxInv /\ TesterCloses => MailboxInv'
  <1> SUFFICES ASSUME MailboxInv, TesterCloses PROVE MailboxInv'
    OBVIOUS
  <1> USE DEF MailboxInv, UrgentInv
  <1>1. TypeOK' /\ Shape' /\ Fates' /\ DownWhenDue'
    BY ZenonT(40) DEF TesterCloses, IpRuns, Below, OnlyTcp, thread, box, server, Live, TypeOK,
      Shape,
      MailboxShape, MailboxOrder, MbFields, Msg, Fates, FailedNotServed, DownWhenDue, Due
  <1>2. OnConnection' /\ MessagesOwn'
    BY DEF TesterCloses, IpRuns, Below, OnlyTcp, thread, box, server, Live, OnConnection, Shape,
      MailboxShape, MbFields, MessagesOwn, Mine
  <1>3. urgent' => UrgentInv'
    <2> SUFFICES ASSUME urgent PROVE UrgentInv'
      BY DEF TesterCloses, IpRuns, Below, OnlyTcp, thread, box, server, Live
    <2>1. ServedAtOnce' /\ TakenAtOnce' /\ NothingLeft' /\ ResetWaits' /\ SessionOwn' /\
        RoutineOwn'
      BY DEF TesterCloses, IpRuns, Below, OnlyTcp, thread, box, server, Live, ServedAtOnce,
        Shape, MailboxShape, MbFields, MailboxOrder, OnConnection, TakenAtOnce, NothingLeft,
        Gone, ResetWaits, Told, SessionOwn, RoutineOwn
    <2>2. PushOwn' /\ AnswersSent' /\ NotQueuedYet' /\ PushesSent' /\ InFlight'
      BY DEF TesterCloses, IpRuns, Below, OnlyTcp, thread, box, server, Live, PushOwn, Shape,
        MailboxShape, MbFields, AnswersSent, OnItsWay, SentOn, Live, OnConnection, NotQueuedYet,
        MailboxOrder, PushesSent, InFlight
    <2> QED BY <2>1, <2>2
  <1> QED BY <1>1, <1>2, <1>3

LEMMA TesterResetsKeeps == MailboxInv /\ TesterResets => MailboxInv'
  <1> SUFFICES ASSUME MailboxInv, TesterResets PROVE MailboxInv'
    OBVIOUS
  <1> USE DEF MailboxInv, UrgentInv
  <1>1. Shape' /\ DownWhenDue'
    BY SMTT(30) DEF TesterResets, IpRuns, Below, OnlyTcp, thread, box, server, Live, Shape,
      MailboxShape,
      MailboxOrder, MbFields, Msg, DownWhenDue, Due
  <1>2. Fates'
    BY DEF TesterResets, IpRuns, Below, OnlyTcp, thread, box, server, Live, Fates,
        FailedNotServed, Shape, MailboxShape, MailboxOrder, MbFields
  <1>3. OnConnection' /\ MessagesOwn'
    BY DEF TesterResets, IpRuns, Below, OnlyTcp, thread, box, server, Live, OnConnection, Shape,
      MailboxShape, MbFields, MessagesOwn, Mine
  <1>4. TypeOK'
    <2>1. inq' \in Seq({"activation", "request"}) /\ Len(inq') = 0
      BY DEF TesterResets
    <2> QED BY <2>1, DoipAssumption DEF TesterResets, IpRuns, Below, OnlyTcp, thread, box,
            server, Live, TypeOK, Shape, MailboxShape
  <1>5. urgent' => UrgentInv'
    <2> SUFFICES ASSUME urgent PROVE UrgentInv'
      BY DEF TesterResets, IpRuns, Below, OnlyTcp, thread, box, server, Live
    <2>1. ServedAtOnce' /\ TakenAtOnce' /\ NothingLeft' /\ ResetWaits' /\ SessionOwn' /\
        RoutineOwn' /\ PushOwn' /\ AnswersSent' /\ NotQueuedYet' /\ PushesSent' /\ InFlight'
      BY DEF TesterResets, IpRuns, Below, OnlyTcp, thread, box, server, Live, ServedAtOnce,
        Shape, MailboxShape, MbFields, MailboxOrder, OnConnection, TakenAtOnce, NothingLeft,
        Gone, ResetWaits, Told, SessionOwn, RoutineOwn, PushOwn, AnswersSent, OnItsWay, SentOn,
        Live, NotQueuedYet, PushesSent, InFlight
    <2> QED BY <2>1
  <1> QED BY <1>1, <1>2, <1>3, <1>4, <1>5

LEMMA PushGetKeeps == MailboxInv /\ PushGet => MailboxInv'
  <1> SUFFICES ASSUME MailboxInv, PushGet PROVE MailboxInv'
    OBVIOUS
  <1> USE DEF MailboxInv, UrgentInv
  <1>a. /\ DOMAIN mb' = MbFields /\ mb'.push_taken = mb.pushed
        /\ \A f \in MbFields \ {"push_taken"} : mb'[f] = mb[f]
    BY DEF PushGet, MbPushWaits, MbPushTake, Shape, MailboxShape, MbFields
  <1>b. \/ dpc' = "send" /\ dmsg' = <<"push", mb.pushed>> /\ dnext' = "pushed" /\ activated
           /\ mb.push_taken # mb.pushed
        \/ dpc' = "recv" /\ dmsg' = dmsg /\ dnext' = dnext
    BY DEF PushGet, Sends, MbPushWaits
  <1>1. TypeOK' /\ Fates' /\ DownWhenDue'
    BY DEF PushGet, Below, MutexFree, Sends, MbPushWaits, MbPushTake, tcp, server, TypeOK, Shape,
      MailboxShape, Fates, FailedNotServed, MailboxOrder, MbFields, DownWhenDue, Due
  <1>2. OnConnection'
    BY SMTT(30) DEF PushGet, Below, MutexFree, Sends, MbPushWaits, MbPushTake, tcp, server,
      OnConnection,
        Shape, MailboxShape, MbFields
  <1>3. Shape'
    <2>1. dmsg' \in Msg
      BY <1>b DEF Shape, MailboxShape, Msg
    <2> QED BY SMTT(30), <1>a, <2>1 DEF PushGet, tcp, server, Shape, MailboxShape,
      MailboxOrder, MbFields
  <1>4. MessagesOwn'
    <2>1. \A m, c : Mine(m, c) => Mine(m, c)'
      BY <1>a DEF PushGet, server, Mine, MbFields
    <2>2. ASSUME dpc' = "send" PROVE Mine(dmsg', conn)
      BY SMTT(30), <2>2, <1>b DEF Mine, PushOwn, Shape, MailboxShape
    <2> QED BY <1>b, <2>1, <2>2 DEF PushGet, tcp, MessagesOwn
  <1>5. urgent' => UrgentInv'
    <2> SUFFICES ASSUME urgent PROVE UrgentInv'
      BY DEF PushGet, Below, MutexFree, Sends, MbPushWaits, MbPushTake, tcp, server
    <2>1. ServedAtOnce' /\ TakenAtOnce' /\ NothingLeft' /\ ResetWaits' /\ SessionOwn'
      BY DEF PushGet, Below, MutexFree, Sends, MbPushWaits, MbPushTake, tcp, server,
        ServedAtOnce, Shape, MailboxShape, MbFields, MailboxOrder, OnConnection, TakenAtOnce,
        NothingLeft, Gone, ResetWaits, Told, SessionOwn
    <2>2. RoutineOwn' /\ PushOwn' /\ AnswersSent'
      BY DEF PushGet, Below, MutexFree, Sends, MbPushWaits, MbPushTake, tcp, server, RoutineOwn,
        Shape, MailboxShape, MbFields, Told, PushOwn, AnswersSent, OnItsWay, SentOn, Live,
        OnConnection
    <2>3. NotQueuedYet' /\ InFlight'
      BY SMTT(30) DEF PushGet, Below, MutexFree, Sends, MbPushWaits, MbPushTake, tcp, server,
        NotQueuedYet, Shape, MailboxShape, MbFields, MailboxOrder, InFlight
    <2>4. PushesSent'
      <3> HIDE DEF MailboxInv
      <3>1. /\ dpc = "top" /\ conn' = conn /\ connected' = connected /\ sock' = sock /\ outq' =
                   outq
            /\ got' = got
        BY DEF PushGet, tcp
      <3>2. PushesSent
        BY DEF MailboxInv
      <3>3. \A m : SentOn(m)' <=> SentOn(m)
        BY <3>1 DEF SentOn
      <3> QED BY <1>a, <1>b, <3>1, <3>2, <3>3 DEF PushesSent, MbFields, Live
    <2> QED BY <2>1, <2>2, <2>3, <2>4
  <1> QED BY <1>1, <1>2, <1>3, <1>4, <1>5

LEMMA PushQueuedKeeps == MailboxInv /\ PushQueued => MailboxInv'
  <1> SUFFICES ASSUME MailboxInv, PushQueued PROVE MailboxInv'
    OBVIOUS
  <1> USE DEF MailboxInv, UrgentInv
  <1>1. TypeOK' /\ Shape' /\ Fates' /\ OnConnection' /\ MessagesOwn' /\ DownWhenDue'
    BY ZenonT(40) DEF PushQueued, Below, MutexFree, MbPushQueue, tcp, server, TypeOK, Shape,
      MailboxShape,
      MailboxOrder, MbFields, Msg, Fates, FailedNotServed, OnConnection, MessagesOwn, Mine,
      DownWhenDue, Due
  <1>2. urgent' => UrgentInv'
    <2> SUFFICES ASSUME urgent PROVE UrgentInv'
      BY DEF PushQueued, Below, MutexFree, MbPushQueue, tcp, server
    <2>1. ServedAtOnce' /\ TakenAtOnce' /\ NothingLeft' /\ ResetWaits' /\ SessionOwn' /\
        RoutineOwn' /\ PushOwn' /\ AnswersSent' /\ NotQueuedYet' /\ InFlight'
      BY DEF PushQueued, Below, MutexFree, MbPushQueue, tcp, server, ServedAtOnce, Shape,
        MailboxShape, MbFields, MailboxOrder, OnConnection, TakenAtOnce, NothingLeft, Gone,
        ResetWaits, Told, SessionOwn, RoutineOwn, PushOwn, AnswersSent, OnItsWay, SentOn, Live,
        NotQueuedYet, InFlight
    <2>2. PushesSent'
      <3>1. dpc = "pushed" /\ dpc' = "recv" /\ UNCHANGED <<conn, connected, sock, outq, got,
                dmsg>>
        BY DEF PushQueued, tcp
      <3>2. mb'.push_queued = mb.push_taken /\ mb'.pushed = mb.pushed
        BY DEF PushQueued, MbPushQueue, Shape, MailboxShape, MbFields
      <3>3. \A m : SentOn(m)' <=> SentOn(m)
        BY <3>1 DEF SentOn
      <3> QED BY <3>1, <3>2, <3>3 DEF PushesSent, Live
    <2> QED BY <2>1, <2>2
  <1> QED BY <1>1, <1>2

LEMMA MbAcceptKeeps == MailboxInv /\ Accept => MailboxInv'
  <1> SUFFICES ASSUME MailboxInv, Accept PROVE MailboxInv'
    OBVIOUS
  <1> USE DEF MailboxInv, UrgentInv
  <1>a. /\ conn \in Nat /\ conn' = conn + 1 /\ conn' \in 0 .. MaxConns
        /\ inq = <<>> /\ outq = <<>> /\ sock' = "established" /\ acting' = FALSE /\ connected'
    BY DoipAssumption DEF Accept, TypeOK, OnConnection
  <1>b. UNCHANGED <<inq, outq, got, activated, dpc, dmsg, dnext, dlate, nacked, mb, sem, resp,
            from,
                    pfrom, woken, spc, reset, remote, session, work, wout, wready, wlast, wconn,
                        down,
                    answered, urgent>>
    BY DEF Accept, box, server
  <1>c. dpc = "recv" /\ ~connected /\ ~activated
    BY DEF Accept, OnConnection
  <1>d. \A k \in 1 .. mb.posted : from[k] \in Nat /\ from[k] # conn' /\ from[k] <= conn'
    <2>0. from \in Seq(Nat) /\ Len(from) = mb.posted
      BY DEF Shape
    <2>1. \A k \in 1 .. mb.posted : from[k] \in Nat /\ from[k] <= conn
      BY <2>0 DEF OnConnection
    <2> QED BY <2>1, <1>a
  <1>e. ASSUME urgent
        PROVE  /\ mb.served = mb.posted /\ ~remote.inflight /\ (reset # 0 => remote.acked)
               /\ ~(session > 0) /\ work = 0 /\ mb.push_taken = mb.pushed /\ mb.push_queued = 0
    <2>1. mb.served = mb.posted
      BY <1>c, <1>e DEF ServedAtOnce
    <2>2. Gone
      BY <1>c, <1>e DEF Gone, TakenAtOnce
    <2> QED BY <1>e, <2>1, <2>2 DEF NothingLeft
  <1>1. Shape' /\ Fates' /\ DownWhenDue'
    BY DEF Accept, Below, box, server, Shape, MailboxShape, MailboxOrder, MbFields, Msg, Fates,
      FailedNotServed, DownWhenDue, Due
  <1>2. MessagesOwn'
    BY DEF Accept, Below, box, server, MessagesOwn, Mine, OnConnection, Shape, MailboxShape,
        MbFields
  <1>3. TypeOK'
    BY <1>a, <1>b DEF TypeOK
  <1>4. OnConnection'
    BY <1>a, <1>b, <1>c, <1>d DEF OnConnection
  <1>5. urgent' => UrgentInv'
    <2> SUFFICES ASSUME urgent PROVE UrgentInv'
      BY DEF Accept, Below, box, server
    <2>1. ServedAtOnce' /\ TakenAtOnce' /\ NothingLeft' /\ NotQueuedYet'
      BY DEF Accept, Below, box, server, ServedAtOnce, Shape, MailboxShape, MbFields,
        MailboxOrder, OnConnection, TakenAtOnce, NothingLeft, Gone, NotQueuedYet
    <2>2. ResetWaits'
      BY <1>b, <1>e DEF ResetWaits, Told
    <2>3. SessionOwn'
      BY <1>b, <1>e DEF SessionOwn
    <2>4. RoutineOwn'
      BY <1>b, <1>e DEF RoutineOwn
    <2>5. PushOwn'
      BY <1>b, <1>e DEF PushOwn
    <2>6. AnswersSent'
      BY <1>b, <1>d DEF AnswersSent
    <2>7. PushesSent'
      <3>1. mb.pushed \in Nat
        BY DEF Shape, MailboxShape
      <3> QED BY <1>b, <1>c, <1>e, <3>1 DEF PushesSent
    <2>8. InFlight'
      BY <1>b, <1>e DEF InFlight
    <2> QED BY <2>1, <2>2, <2>3, <2>4, <2>5, <2>6, <2>7, <2>8
  <1> QED BY <1>1, <1>2, <1>3, <1>4, <1>5

LEMMA ReceiveNothingKeeps == MailboxInv /\ ReceiveNothing => MailboxInv'
  <1> SUFFICES ASSUME MailboxInv, ReceiveNothing PROVE MailboxInv'
    OBVIOUS
  <1> USE DEF MailboxInv, UrgentInv
  <1>1. TypeOK' /\ Shape' /\ Fates' /\ OnConnection' /\ MessagesOwn' /\ DownWhenDue'
    BY DEF ReceiveNothing, Below, tcp, box, server, TypeOK, Shape, MailboxShape, MailboxOrder,
      MbFields, Msg, Fates, FailedNotServed, OnConnection, MessagesOwn, Mine, DownWhenDue, Due
  <1>2. urgent' => UrgentInv'
    <2> SUFFICES ASSUME urgent PROVE UrgentInv'
      BY DEF ReceiveNothing, Below, tcp, box, server
    <2>1. ServedAtOnce' /\ TakenAtOnce' /\ NothingLeft' /\ ResetWaits' /\ SessionOwn' /\
        RoutineOwn' /\ PushOwn' /\ AnswersSent' /\ NotQueuedYet' /\ PushesSent' /\ InFlight'
      BY ZenonT(40) DEF ReceiveNothing, Below, tcp, box, server, ServedAtOnce, Shape,
        MailboxShape,
        MbFields, MailboxOrder, OnConnection, TakenAtOnce, NothingLeft, Gone, ResetWaits, Told,
        SessionOwn, RoutineOwn, PushOwn, AnswersSent, OnItsWay, SentOn, Live, NotQueuedYet,
        PushesSent, InFlight
    <2> QED BY <2>1
  <1> QED BY <1>1, <1>2

LEMMA FeedEndsKeeps == MailboxInv /\ FeedEnds => MailboxInv'
  <1> SUFFICES ASSUME MailboxInv, FeedEnds PROVE MailboxInv'
    OBVIOUS
  <1> USE DEF MailboxInv, UrgentInv
  <1>1. TypeOK' /\ Shape' /\ Fates' /\ OnConnection' /\ MessagesOwn' /\ DownWhenDue'
    BY DEF FeedEnds, Below, tcp, box, server, TypeOK, Shape, MailboxShape, MailboxOrder,
      MbFields, Msg, Fates, FailedNotServed, OnConnection, MessagesOwn, Mine, DownWhenDue, Due
  <1>2. urgent' => UrgentInv'
    <2> SUFFICES ASSUME urgent PROVE UrgentInv'
      BY DEF FeedEnds, Below, tcp, box, server
    <2>1. ServedAtOnce' /\ TakenAtOnce' /\ NothingLeft' /\ ResetWaits' /\ SessionOwn' /\
        RoutineOwn' /\ PushOwn' /\ AnswersSent' /\ NotQueuedYet' /\ PushesSent' /\ InFlight'
      BY ZenonT(40) DEF FeedEnds, Below, tcp, box, server, ServedAtOnce, Shape, MailboxShape,
        MbFields,
        MailboxOrder, OnConnection, TakenAtOnce, NothingLeft, Gone, ResetWaits, Told, SessionOwn,
        RoutineOwn, PushOwn, AnswersSent, OnItsWay, SentOn, Live, NotQueuedYet, PushesSent,
        InFlight
    <2> QED BY <2>1
  <1> QED BY <1>1, <1>2

LEMMA ActivateKeeps == MailboxInv /\ Activate => MailboxInv'
  <1> SUFFICES ASSUME MailboxInv, Activate PROVE MailboxInv'
    OBVIOUS
  <1> USE DEF MailboxInv, UrgentInv
  <1>a. inq' = Tail(inq) /\ inq # <<>> /\ dmsg' = <<"activated", conn>>
    BY DEF Activate, Receives, Sends
  <1>b. inq' \in Seq({"activation", "request"}) /\ Len(inq') = Len(inq) - 1 /\ Len(inq) \in Nat
    BY <1>a, Tailed DEF TypeOK
  <1>1. Fates' /\ OnConnection' /\ MessagesOwn' /\ DownWhenDue'
    BY DEF Activate, Receives, Below, Sends, box, server, Fates, FailedNotServed, Shape,
      MailboxShape, MailboxOrder, MbFields, OnConnection, MessagesOwn, Mine, DownWhenDue, Due
  <1>2. TypeOK'
    BY <1>b, DoipAssumption DEF Activate, Receives, Below, Sends, box, server, TypeOK, Shape,
        MailboxShape
  <1>3. Shape'
    <2>1. dmsg' \in Msg
      BY <1>a, DoipAssumption DEF TypeOK, Msg
    <2> QED BY <2>1 DEF Activate, box, server, Shape
  <1>4. urgent' => UrgentInv'
    <2> SUFFICES ASSUME urgent PROVE UrgentInv'
      BY DEF Activate, Receives, Below, Sends, box, server
    <2>1. ServedAtOnce' /\ TakenAtOnce' /\ NothingLeft' /\ ResetWaits' /\ SessionOwn' /\
        RoutineOwn'
      BY DEF Activate, Receives, Below, Sends, box, server, ServedAtOnce, Shape, MailboxShape,
        MbFields, MailboxOrder, OnConnection, TakenAtOnce, NothingLeft, Gone, ResetWaits, Told,
        SessionOwn, RoutineOwn
    <2>2. PushOwn' /\ AnswersSent' /\ NotQueuedYet' /\ PushesSent' /\ InFlight'
      BY DEF Activate, Receives, Below, Sends, box, server, PushOwn, Shape, MailboxShape,
        MbFields, AnswersSent, OnItsWay, SentOn, Live, OnConnection, NotQueuedYet, MailboxOrder,
        PushesSent, InFlight
    <2> QED BY <2>1, <2>2
  <1> QED BY <1>1, <1>2, <1>3, <1>4

LEMMA PostKeeps == MailboxInv /\ Post => MailboxInv'
  <1> SUFFICES ASSUME MailboxInv, Post PROVE MailboxInv'
    OBVIOUS
  <1> USE DEF MailboxInv, UrgentInv
  <1>a. inq' \in Seq({"activation", "request"}) /\ Len(inq') <= MaxPipe
    <2>1. inq' \in Seq({"activation", "request"}) /\ Len(inq') = Len(inq) - 1 /\ Len(inq) \in Nat
      BY Tailed DEF Post, Receives, TypeOK
    <2> QED BY <2>1, DoipAssumption DEF TypeOK
  <1>b. /\ DOMAIN mb' = MbFields /\ mb'.posted = mb.posted + 1 /\ mb.posted \in Nat
        /\ \A f \in MbFields \ {"posted"} : mb'[f] = mb[f]
    BY DEF Post, MbPost, Shape, MailboxShape, MbFields
  <1>c. /\ from' \in Seq(Nat) /\ Len(from') = mb'.posted /\ from'[mb'.posted] = conn
        /\ \A k \in 1 .. mb.posted : k \in 1 .. mb'.posted /\ from'[k] = from[k]
        /\ \A k \in 1 .. mb'.posted : k = mb'.posted \/ k \in 1 .. mb.posted
    <2>1. from \in Seq(Nat) /\ conn \in Nat /\ Len(from) = mb.posted
      BY DoipAssumption DEF Shape, TypeOK
    <2>2. from' = Append(from, conn)
      BY DEF Post
    <2> QED BY <2>1, <2>2, <1>b, Appended
  <1>d. UNCHANGED <<conn, sock, outq, got, connected, activated, dmsg, resp, pfrom, spc, reset,
                    remote, work, wready, wlast, wconn, nacked, answered, urgent>>
    BY DEF Post, server
  <1>1. Fates' /\ DownWhenDue'
    BY SMTT(30) DEF Post, Receives, Below, MutexFree, MbPost, server, Fates, FailedNotServed,
      Shape,
      MailboxShape, MailboxOrder, MbFields, DownWhenDue, Due
  <1>2. TypeOK'
    <2>1. mb'.pushed = mb.pushed
      BY <1>b DEF MbFields
    <2> QED BY <1>a, <1>b, <1>c, <1>d, <2>1 DEF Post, TypeOK
  <1>3. Shape'
    <2>1. MailboxShape(mb') /\ MailboxOrder(mb') /\ mb'.pushed = mb.pushed /\ mb'.served =
              mb.served
      BY SMTT(30), <1>b DEF Shape, MailboxShape, MailboxOrder, MbFields
    <2> HIDE DEF Msg
    <2> QED BY <1>b, <1>c, <1>d, <2>1 DEF Shape
  <1>4. OnConnection'
    <2>1. /\ inq # <<>> => connected
          /\ dpc = "drop" => ~connected
          /\ \A k \in 1 .. mb.posted : from[k] <= conn
          /\ conn \in Nat
      BY DoipAssumption DEF OnConnection, TypeOK
    <2>2. dpc \in {"recv", "feed"} /\ connected /\ dpc' = "wait"
      BY DEF Post, Receives
    <2>3. \A k \in 1 .. mb'.posted : from'[k] <= conn
      BY <1>b, <1>c, <2>1
    <2>4. mb'.posted >= 1
      BY <1>b
    <2> QED BY <1>c, <1>d, <2>2, <2>3, <2>4 DEF OnConnection
  <1>5. MessagesOwn'
    <2>1. \A m, c : Mine(m, c) => Mine(m, c)'
      BY <1>b, <1>c DEF Post, server, Mine, MbFields
    <2> QED BY <2>1 DEF Post, MessagesOwn
  <1>6. urgent' => UrgentInv'
    <2> SUFFICES ASSUME urgent PROVE UrgentInv'
      BY DEF Post, Receives, Below, MutexFree, MbPost, server
    <2>1. ServedAtOnce' /\ TakenAtOnce' /\ NothingLeft' /\ SessionOwn'
      BY DEF Post, Receives, Below, MutexFree, MbPost, server, ServedAtOnce, Shape, MailboxShape,
        MbFields, MailboxOrder, OnConnection, TakenAtOnce, NothingLeft, Gone, SessionOwn
    <2>2. PushOwn' /\ NotQueuedYet'
      BY SMTT(30) DEF Post, Receives, Below, MutexFree, MbPost, server, PushOwn, Shape,
        MailboxShape,
        MbFields, NotQueuedYet, MailboxOrder
    <2>3. PushesSent' /\ InFlight'
      BY DEF Post, Receives, Below, MutexFree, MbPost, server, PushesSent, Shape, MailboxShape,
        MbFields, SentOn, Live, MailboxOrder, OnConnection, InFlight
    <2>4. ResetWaits'
      <3>1. mb.served \in Nat /\ mb.served <= mb.posted /\ mb'.served = mb.served
        BY <1>b DEF Shape, MailboxShape, MailboxOrder, MbFields
      <3>2. \A k \in 1 .. mb.served : from'[k] = from[k]
        BY <3>1, <1>b, <1>c
      <3> QED BY <3>1, <3>2, <1>d DEF ResetWaits, Told
    <2>5. RoutineOwn'
      <3>1. mb.served \in Nat /\ mb.served <= mb.posted /\ mb'.served = mb.served /\ mb'.pushed =
                mb.pushed
        BY <1>b DEF Shape, MailboxShape, MailboxOrder, MbFields
      <3>2. \A k \in 1 .. mb.served : from'[k] = from[k]
        BY SMTT(30), <3>1, <1>b, <1>c
      <3> QED BY <3>1, <3>2, <1>d DEF RoutineOwn, Told
    <2>6. AnswersSent'
      <3>1. UNCHANGED <<conn, connected, sock, outq, got>> /\ dpc' = "wait" /\ dpc \in {"recv",
                "feed"}
        BY DEF Post, Receives
      <3>2. \A m : SentOn(m)' <=> SentOn(m)
        BY <3>1 DEF SentOn
      <3> QED BY <3>1, <3>2, <1>b, <1>c DEF AnswersSent, OnItsWay, Live
    <2> QED BY <2>1, <2>2, <2>3, <2>4, <2>5, <2>6
  <1> QED BY <1>1, <1>2, <1>3, <1>4, <1>5, <1>6

LEMMA SignalledKeeps == MailboxInv /\ Signalled => MailboxInv'
  <1> SUFFICES ASSUME MailboxInv, Signalled PROVE MailboxInv'
    OBVIOUS
  <1> USE DEF MailboxInv, UrgentInv
  <1>1. TypeOK' /\ Shape' /\ Fates' /\ OnConnection' /\ MessagesOwn' /\ DownWhenDue'
    BY DEF Signalled, Below, tcp, server, TypeOK, Shape, MailboxShape, MailboxOrder, MbFields,
      Msg, Fates, FailedNotServed, OnConnection, MessagesOwn, Mine, DownWhenDue, Due
  <1>2. urgent' => UrgentInv'
    <2> SUFFICES ASSUME urgent PROVE UrgentInv'
      BY DEF Signalled, Below, tcp, server
    <2>1. ServedAtOnce' /\ TakenAtOnce' /\ NothingLeft' /\ SessionOwn'
      BY DEF Signalled, Below, tcp, server, ServedAtOnce, Shape, MailboxShape, MbFields,
        MailboxOrder, OnConnection, TakenAtOnce, NothingLeft, Gone, SessionOwn
    <2>2. ResetWaits' /\ RoutineOwn'
      BY DEF Signalled, Below, tcp, server, Shape, MailboxShape, MbFields, MailboxOrder,
        ResetWaits, Told, RoutineOwn
    <2>3. PushOwn' /\ NotQueuedYet' /\ InFlight'
      BY DEF Signalled, Below, tcp, server, Shape, MailboxShape, MbFields, MailboxOrder, PushOwn,
        NotQueuedYet, InFlight
    <2>4. AnswersSent' /\ PushesSent'
      BY DEF Signalled, Below, tcp, server, Shape, MailboxShape, MbFields, MailboxOrder,
        AnswersSent, OnItsWay, SentOn, Live, PushesSent
    <2> QED BY <2>1, <2>2, <2>3, <2>4
  <1> QED BY <1>1, <1>2

LEMMA TimesOutKeeps == MailboxInv /\ TimesOut => MailboxInv'
  <1> SUFFICES ASSUME MailboxInv, TimesOut PROVE MailboxInv'
    OBVIOUS
  <1> USE DEF MailboxInv, UrgentInv
  <1>1. TypeOK' /\ Shape' /\ Fates' /\ OnConnection' /\ MessagesOwn' /\ DownWhenDue'
    BY DEF TimesOut, Below, tcp, box, server, TypeOK, Shape, MailboxShape, MailboxOrder,
      MbFields, Msg, Fates, FailedNotServed, OnConnection, MessagesOwn, Mine, DownWhenDue, Due
  <1>2. urgent' => UrgentInv'
    <2> SUFFICES ASSUME urgent PROVE UrgentInv'
      BY DEF TimesOut, Below, tcp, box, server
    <2>1. ServedAtOnce' /\ TakenAtOnce' /\ NothingLeft' /\ ResetWaits' /\ SessionOwn' /\
        RoutineOwn' /\ PushOwn' /\ AnswersSent' /\ NotQueuedYet' /\ PushesSent' /\ InFlight'
      BY ZenonT(40) DEF TimesOut, Below, tcp, box, server, ServedAtOnce, Shape, MailboxShape,
        MbFields,
        MailboxOrder, OnConnection, TakenAtOnce, NothingLeft, Gone, ResetWaits, Told, SessionOwn,
        RoutineOwn, PushOwn, AnswersSent, OnItsWay, SentOn, Live, NotQueuedYet, PushesSent,
        InFlight
    <2> QED BY <2>1
  <1> QED BY <1>1, <1>2

LEMMA CollectKeeps == MailboxInv /\ Collect => MailboxInv'
  <1> SUFFICES ASSUME MailboxInv, Collect PROVE MailboxInv'
    OBVIOUS
  <1> USE DEF MailboxInv, UrgentInv
  <1>1. TypeOK' /\ Shape' /\ Fates' /\ DownWhenDue'
    BY DEF Collect, Below, MutexFree, MbCollect, Sends, tcp, box, server, TypeOK, Shape,
      MailboxShape, MailboxOrder, MbFields, Msg, Fates, FailedNotServed, DownWhenDue, Due
  <1>2. OnConnection' /\ MessagesOwn'
    BY SMTT(30) DEF Collect, Below, MutexFree, MbCollect, Sends, tcp, box, server,
      OnConnection, Shape,
      MailboxShape, MbFields, MessagesOwn, Mine
  <1>3. urgent' => UrgentInv'
    <2> SUFFICES ASSUME urgent PROVE UrgentInv'
      BY DEF Collect, Below, MutexFree, MbCollect, Sends, tcp, box, server
    <2>1. ServedAtOnce' /\ TakenAtOnce' /\ NothingLeft' /\ ResetWaits' /\ SessionOwn' /\
        RoutineOwn' /\ PushOwn' /\ AnswersSent' /\ NotQueuedYet' /\ PushesSent' /\ InFlight'
      BY ZenonT(40) DEF Collect, Below, MutexFree, MbCollect, Sends, tcp, box, server,
        ServedAtOnce, Shape,
        MailboxShape, MbFields, MailboxOrder, OnConnection, TakenAtOnce, NothingLeft, Gone,
        ResetWaits, Told, SessionOwn, RoutineOwn, PushOwn, AnswersSent, OnItsWay, SentOn, Live,
        NotQueuedYet, PushesSent, InFlight
    <2> QED BY <2>1
  <1> QED BY <1>1, <1>2, <1>3

LEMMA WaitOnKeeps == MailboxInv /\ WaitOn => MailboxInv'
  <1> SUFFICES ASSUME MailboxInv, WaitOn PROVE MailboxInv'
    OBVIOUS
  <1> USE DEF MailboxInv, UrgentInv
  <1>1. TypeOK' /\ Shape' /\ Fates' /\ OnConnection' /\ MessagesOwn' /\ DownWhenDue'
    BY DEF WaitOn, Below, MutexFree, MbCollect, tcp, box, server, TypeOK, Shape, MailboxShape,
      MailboxOrder, MbFields, Msg, Fates, FailedNotServed, OnConnection, MessagesOwn, Mine,
      DownWhenDue, Due
  <1>2. urgent' => UrgentInv'
    <2> SUFFICES ASSUME urgent PROVE UrgentInv'
      BY DEF WaitOn, Below, MutexFree, MbCollect, tcp, box, server
    <2>1. ServedAtOnce' /\ TakenAtOnce' /\ NothingLeft' /\ ResetWaits' /\ SessionOwn' /\
        RoutineOwn' /\ PushOwn' /\ AnswersSent' /\ NotQueuedYet' /\ PushesSent' /\ InFlight'
      BY DEF WaitOn, Below, MutexFree, MbCollect, tcp, box, server, ServedAtOnce, Shape,
        MailboxShape, MbFields, MailboxOrder, OnConnection, TakenAtOnce, NothingLeft, Gone,
        ResetWaits, Told, SessionOwn, RoutineOwn, PushOwn, AnswersSent, OnItsWay, SentOn, Live,
        NotQueuedYet, PushesSent, InFlight
    <2> QED BY <2>1
  <1> QED BY <1>1, <1>2

LEMMA WithdrawKeeps == MailboxInv /\ Withdraw => MailboxInv'
  <1> SUFFICES ASSUME MailboxInv, Withdraw PROVE MailboxInv'
    OBVIOUS
  <1> USE DEF MailboxInv, UrgentInv
  <1>1. TypeOK' /\ Fates' /\ DownWhenDue'
    BY DEF Withdraw, Below, MutexFree, MbCollect, MbWithdraw, Sends, tcp, server, TypeOK, Shape,
      MailboxShape, Fates, FailedNotServed, MailboxOrder, MbFields, DownWhenDue, Due
  <1>2. OnConnection' /\ MessagesOwn'
    BY DEF Withdraw, Below, MutexFree, MbCollect, MbWithdraw, Sends, tcp, server, OnConnection,
      Shape, MailboxShape, MbFields, MessagesOwn, Mine
  <1>3. Shape'
    <2>1. mb.posted \in Nat /\ mb.posted >= 1
      BY DEF Withdraw, Shape, MailboxShape, OnConnection
    <2>2. dmsg' \in Msg
      BY <2>1 DEF Withdraw, Sends, Msg
    <2> HIDE DEF Msg
    <2> QED BY SMTT(30), <2>1, <2>2 DEF Withdraw, Below, MbWithdraw, Sends, tcp, server, Shape,
            MailboxShape, MailboxOrder, MbFields
  <1>4. urgent' => UrgentInv'
    <2> SUFFICES ASSUME urgent PROVE UrgentInv'
      BY DEF Withdraw, Below, MutexFree, MbCollect, MbWithdraw, Sends, tcp, server
    <2>1. ServedAtOnce' /\ TakenAtOnce' /\ NothingLeft' /\ ResetWaits' /\ SessionOwn' /\
        RoutineOwn' /\ PushOwn' /\ NotQueuedYet' /\ PushesSent' /\ InFlight'
      BY DEF Withdraw, Below, MutexFree, MbCollect, MbWithdraw, Sends, tcp, server, ServedAtOnce,
        Shape, MailboxShape, MbFields, MailboxOrder, OnConnection, TakenAtOnce, NothingLeft,
        Gone, ResetWaits, Told, SessionOwn, RoutineOwn, PushOwn, NotQueuedYet, PushesSent,
        SentOn, Live, InFlight
    <2>2. AnswersSent'
      <3>1. FALSE
        BY DEF Withdraw, MbCollect, Below, ServedAtOnce
      <3> QED BY <3>1
    <2> QED BY <2>1, <2>2
  <1> QED BY <1>1, <1>2, <1>3, <1>4

LEMMA MbSendKeeps == MailboxInv /\ Send => MailboxInv'
  <1> SUFFICES ASSUME MailboxInv, Send PROVE MailboxInv'
    OBVIOUS
  <1> USE DEF MailboxInv, UrgentInv
  <1>a. /\ outq' \in Seq(Msg) /\ Len(outq') = Len(outq) + 1 /\ Len(outq) \in Nat
        /\ outq'[Len(outq')] = dmsg /\ Len(outq') \in 1 .. Len(outq')
        /\ \A i \in 1 .. Len(outq) : i \in 1 .. Len(outq') /\ outq'[i] = outq[i]
        /\ \A i \in 1 .. Len(outq') : i = Len(outq') \/ i \in 1 .. Len(outq)
    <2>1. outq' = Append(outq, dmsg) /\ outq \in Seq(Msg) /\ dmsg \in Msg
      BY DEF Send, Shape
    <2> HIDE DEF Msg
    <2> QED BY <2>1, Appended
  <1>b. UNCHANGED <<conn, sock, got, connected, mb, from, pfrom, dmsg, urgent>> /\ dpc = "send"
        /\ dpc' = "queue"
    BY DEF Send, box, server
  <1>c. (\A m : SentOn(m) => SentOn(m)') /\ SentOn(dmsg)'
    BY <1>a, <1>b DEF SentOn
  <1>1. TypeOK' /\ DownWhenDue'
    BY DEF Send, Below, box, server, Live, TypeOK, Shape, MailboxShape, DownWhenDue, Due
  <1>2. Shape'
    BY SMTT(30) DEF Send, Below, box, server, Live, Shape, MailboxShape, MailboxOrder,
      MbFields, Msg
  <1>3. Fates' /\ OnConnection'
    BY DEF Send, Below, box, server, Live, Fates, FailedNotServed, Shape, MailboxShape,
      MailboxOrder, MbFields, OnConnection
  <1>4. MessagesOwn'
    <2>1. \A m, c : Mine(m, c) => Mine(m, c)'
      BY <1>b DEF Mine
    <2>2. Mine(dmsg, conn)
      BY <1>b DEF MessagesOwn
    <2> QED BY <1>a, <1>b, <2>1, <2>2 DEF MessagesOwn
  <1>5. urgent' => UrgentInv'
    <2> SUFFICES ASSUME urgent PROVE UrgentInv'
      BY DEF Send, Below, box, server, Live
    <2>1. ServedAtOnce' /\ TakenAtOnce' /\ NothingLeft' /\ ResetWaits' /\ SessionOwn' /\
        RoutineOwn' /\ PushOwn' /\ NotQueuedYet' /\ InFlight'
      BY DEF Send, Below, box, server, Live, ServedAtOnce, Shape, MailboxShape, MbFields,
        MailboxOrder, OnConnection, TakenAtOnce, NothingLeft, Gone, ResetWaits, Told, SessionOwn,
        RoutineOwn, PushOwn, NotQueuedYet, InFlight
    <2>2. AnswersSent'
      <3> HIDE DEF SentOn
      <3> QED BY <1>b, <1>c DEF AnswersSent, OnItsWay
    <2>3. PushesSent'
      <3> HIDE DEF SentOn
      <3> QED BY <1>b, <1>c DEF PushesSent
    <2> QED BY <2>1, <2>2, <2>3
  <1> QED BY <1>1, <1>2, <1>3, <1>4, <1>5

LEMMA SendReportedKeeps == MailboxInv /\ SendReported => MailboxInv'
  <1> SUFFICES ASSUME MailboxInv, SendReported PROVE MailboxInv'
    OBVIOUS
  <1> USE DEF MailboxInv, UrgentInv
  <1>1. Shape' /\ DownWhenDue'
    BY SMTT(30) DEF SendReported, Below, MbQueue, tcp, server, Shape, MailboxShape,
      MailboxOrder,
      MbFields, Msg, DownWhenDue, Due
  <1>2. Fates'
    BY DEF SendReported, Below, MbQueue, tcp, server, Fates, FailedNotServed, Shape,
        MailboxShape, MailboxOrder, MbFields
  <1>3. OnConnection' /\ MessagesOwn'
    BY DEF SendReported, Below, MbQueue, tcp, server, OnConnection, Shape, MailboxShape,
      MbFields, MessagesOwn, Mine
  <1>4. TypeOK'
    <2>1. dnext \in {"pushed", "feed"}
      BY DEF SendReported, OnConnection
    <2>2. mb'.posted = mb.posted /\ mb'.pushed = mb.pushed
      BY DEF SendReported, MbQueue, Shape, MailboxShape, MbFields
    <2> QED BY <2>1, <2>2 DEF SendReported, tcp, server, TypeOK
  <1>5. urgent' => UrgentInv'
    <2> SUFFICES ASSUME urgent PROVE UrgentInv'
      BY DEF SendReported, Below, MbQueue, tcp, server
    <2>1. ServedAtOnce' /\ TakenAtOnce' /\ NothingLeft' /\ ResetWaits' /\ SessionOwn' /\
        RoutineOwn' /\ PushOwn' /\ AnswersSent' /\ InFlight'
      BY DEF SendReported, Below, MbQueue, tcp, server, ServedAtOnce, Shape, MailboxShape,
        MbFields, MailboxOrder, OnConnection, TakenAtOnce, NothingLeft, Gone, ResetWaits, Told,
        SessionOwn, RoutineOwn, PushOwn, AnswersSent, OnItsWay, SentOn, Live, InFlight
    <2>2. NotQueuedYet'
      <3>1. dnext \in {"pushed", "feed"}
        BY DEF SendReported, OnConnection
      <3> QED BY <3>1 DEF SendReported, NotQueuedYet
    <2>3. PushesSent'
      <3>1. dnext = IF dmsg[1] = "push" THEN "pushed" ELSE "feed"
        BY DEF SendReported, OnConnection
      <3>2. UNCHANGED <<conn, connected, sock, outq, got, dmsg>> /\ dpc' = dnext /\ dpc = "queue"
        BY DEF SendReported, tcp
      <3>3. mb'.push_taken = mb.push_taken /\ mb'.pushed = mb.pushed /\ mb'.push_queued =
                mb.push_queued
        BY DEF SendReported, MbQueue, Shape, MailboxShape, MbFields
      <3>4. \A m : SentOn(m)' <=> SentOn(m)
        BY <3>2 DEF SentOn
      <3>5. dmsg = <<dmsg[1], dmsg[2]>>
        BY DEF Shape, Msg
      <3> HIDE DEF SentOn
      <3> QED BY <3>1, <3>2, <3>3, <3>4, <3>5 DEF PushesSent, Live
    <2> QED BY <2>1, <2>2, <2>3
  <1> QED BY <1>1, <1>2, <1>3, <1>4, <1>5

LEMMA RecycleKeeps == MailboxInv /\ Recycle => MailboxInv'
  <1> SUFFICES ASSUME MailboxInv, Recycle PROVE MailboxInv'
    OBVIOUS
  <1> USE DEF MailboxInv, UrgentInv
  <1>1. Shape' /\ DownWhenDue'
    BY SMTT(30) DEF Recycle, Below, box, server, Shape, MailboxShape, MailboxOrder, MbFields,
      Msg,
      DownWhenDue, Due
  <1>2. Fates'
    BY DEF Recycle, Below, box, server, Fates, FailedNotServed, Shape, MailboxShape,
        MailboxOrder, MbFields
  <1>3. OnConnection' /\ MessagesOwn'
    BY DEF Recycle, Below, box, server, OnConnection, Shape, MailboxShape, MbFields, MessagesOwn,
      Mine
  <1>4. TypeOK'
    <2>1. inq' \in Seq({"activation", "request"}) /\ Len(inq') = 0
      BY DEF Recycle
    <2> QED BY <2>1, DoipAssumption DEF Recycle, Below, box, server, TypeOK, Shape, MailboxShape
  <1>5. urgent' => UrgentInv'
    <2> SUFFICES ASSUME urgent PROVE UrgentInv'
      BY DEF Recycle, Below, box, server
    <2>1. ServedAtOnce' /\ TakenAtOnce' /\ NothingLeft' /\ ResetWaits' /\ SessionOwn' /\
        RoutineOwn' /\ PushOwn' /\ AnswersSent' /\ NotQueuedYet' /\ PushesSent' /\ InFlight'
      BY DEF Recycle, Below, box, server, ServedAtOnce, Shape, MailboxShape, MbFields,
        MailboxOrder, OnConnection, TakenAtOnce, NothingLeft, Gone, ResetWaits, Told, SessionOwn,
        RoutineOwn, PushOwn, AnswersSent, OnItsWay, SentOn, Live, NotQueuedYet, PushesSent,
        InFlight
    <2> QED BY <2>1
  <1> QED BY <1>1, <1>2, <1>3, <1>4, <1>5

LEMMA RecycleReportedKeeps == MailboxInv /\ RecycleReported => MailboxInv'
  <1> SUFFICES ASSUME MailboxInv, RecycleReported PROVE MailboxInv'
    OBVIOUS
  <1> USE DEF MailboxInv, UrgentInv
  <1>1. TypeOK' /\ Fates' /\ OnConnection' /\ MessagesOwn' /\ DownWhenDue'
    BY DEF RecycleReported, Below, MutexFree, MbDrop, tcp, server, TypeOK, Shape, MailboxShape,
      Fates, FailedNotServed, MailboxOrder, MbFields, OnConnection, MessagesOwn, Mine,
      DownWhenDue, Due
  <1>2. Shape'
    <2>1. MailboxShape(mb') /\ MailboxOrder(mb') /\ mb'.posted = mb.posted /\ mb'.pushed =
              mb.pushed
          /\ mb'.served = mb.served
      BY DEF RecycleReported, MbDrop, Shape, MailboxShape, MailboxOrder, MbFields
    <2> HIDE DEF Msg
    <2> QED BY <2>1 DEF RecycleReported, tcp, server, Shape
  <1>3. urgent' => UrgentInv'
    <2> SUFFICES ASSUME urgent PROVE UrgentInv'
      BY DEF RecycleReported, Below, MutexFree, MbDrop, tcp, server
    <2>1. ServedAtOnce' /\ TakenAtOnce' /\ NothingLeft' /\ ResetWaits' /\ SessionOwn' /\
        RoutineOwn' /\ PushOwn' /\ AnswersSent' /\ NotQueuedYet' /\ PushesSent'
      BY DEF RecycleReported, Below, MutexFree, MbDrop, tcp, server, ServedAtOnce, Shape,
        MailboxShape, MbFields, MailboxOrder, OnConnection, TakenAtOnce, NothingLeft, Gone,
        ResetWaits, Told, SessionOwn, RoutineOwn, PushOwn, AnswersSent, OnItsWay, SentOn, Live,
        NotQueuedYet, PushesSent
    <2>2. InFlight'
      <3>1. ~connected
        BY DEF RecycleReported, OnConnection
      <3>2. mb'.reported = mb.reported /\ mb'.served = mb.served
        BY DEF RecycleReported, MbDrop, Shape, MailboxShape, MbFields
      <3> QED BY <3>1, <3>2 DEF RecycleReported, tcp, server, InFlight
    <2> QED BY <2>1, <2>2
  <1> QED BY <1>1, <1>2, <1>3

LEMMA PassBeginsKeeps == MailboxInv /\ PassBegins => MailboxInv'
  <1> SUFFICES ASSUME MailboxInv, PassBegins PROVE MailboxInv'
    OBVIOUS
  <1> USE DEF MailboxInv, UrgentInv
  <1>1. TypeOK' /\ Shape' /\ Fates' /\ DownWhenDue'
    BY DEF PassBegins, box, OnlyServer, tcp, thread, TypeOK, Shape, MailboxShape, MailboxOrder,
      MbFields, Msg, Fates, FailedNotServed, DownWhenDue, Due
  <1>2. OnConnection' /\ MessagesOwn'
    BY DEF PassBegins, box, OnlyServer, tcp, thread, OnConnection, Shape, MailboxShape, MbFields,
      MessagesOwn, Mine
  <1>3. urgent' => UrgentInv'
    <2> SUFFICES ASSUME urgent PROVE UrgentInv'
      BY DEF PassBegins, box, OnlyServer, tcp, thread
    <2>1. ServedAtOnce' /\ TakenAtOnce' /\ NothingLeft' /\ ResetWaits' /\ SessionOwn' /\
        RoutineOwn'
      BY DEF PassBegins, box, OnlyServer, tcp, thread, ServedAtOnce, Shape, MailboxShape,
        MbFields, MailboxOrder, OnConnection, TakenAtOnce, NothingLeft, Gone, ResetWaits, Told,
        SessionOwn, RoutineOwn
    <2>2. PushOwn' /\ AnswersSent' /\ NotQueuedYet' /\ PushesSent' /\ InFlight'
      BY ZenonT(40) DEF PassBegins, box, OnlyServer, tcp, thread, PushOwn, Shape,
        MailboxShape, MbFields,
        AnswersSent, OnItsWay, SentOn, Live, OnConnection, NotQueuedYet, MailboxOrder,
        PushesSent, InFlight
    <2> QED BY <2>1, <2>2
  <1> QED BY <1>1, <1>2, <1>3

LEMMA TakeSentKeeps == MailboxInv /\ TakeSent => MailboxInv'
  <1> SUFFICES ASSUME MailboxInv, TakeSent PROVE MailboxInv'
    OBVIOUS
  <1> USE DEF MailboxInv, UrgentInv
  <1>a. ASSUME urgent, MbSent(mb, IF connected THEN sock ELSE "closed", Len(outq)),
               NEW k \in 1 .. mb.served, from[k] = conn
        PROVE  Told(conn, <<"answer", k>>)
    <2>1. connected /\ Live(sock) /\ Len(outq) = 0 /\ mb.queued = mb.served
      BY <1>a DEF MbSent, Live
    <2>2. mb.served \in Nat /\ mb.posted \in Nat /\ mb.served <= mb.posted
      BY DEF Shape, MailboxShape, MailboxOrder
    <2>3. k \in 1 .. mb.posted /\ ~OnItsWay(k)
      BY <2>1, <2>2, <1>a DEF OnItsWay, NotQueuedYet
    <2>4. SentOn(<<"answer", k>>)
      BY <1>a, <2>1, <2>3 DEF AnswersSent
    <2> QED BY <2>1, <2>4 DEF SentOn, Told
  <1> DEFINE sent == MbSent(mb, IF connected THEN sock ELSE "closed", Len(outq))
             now == sent /\ wlast[1] # "push"
  <1>b. UNCHANGED <<conn, got, from, pfrom, reset, session, wlast, wconn, down, urgent>>
    BY DEF TakeSent, OnlyServer, tcp, thread
  <1>c. mb'.served = mb.served /\ mb'.pushed = mb.pushed /\ mb'.posted = mb.posted
    BY DEF TakeSent, Shape, MailboxShape, MbFields
  <1>d. /\ work' = (IF now /\ wout /\ work = -1 THEN 0 ELSE work)
        /\ wready' => wready \/ (now /\ wout /\ work # -1)
    BY DEF TakeSent, WorkLeft
  <1>e. /\ sent => ~remote'.inflight /\ (remote.reset => remote'.acked)
        /\ (remote'.acked => remote.acked \/ (sent /\ remote.reset)) /\ (remote.acked =>
               remote'.acked)
        /\ (remote.reset => remote'.reset)
        /\ ~sent => remote' = remote
    BY DEF TakeSent, Shape
  <1> HIDE DEF sent, now
  <1>1. Shape' /\ Fates' /\ OnConnection' /\ MessagesOwn' /\ DownWhenDue'
    BY ZenonT(40) DEF TakeSent, MbSent, Live, WorkLeft, OnlyServer, tcp, thread, Shape,
      MailboxShape,
      MailboxOrder, MbFields, Msg, Fates, FailedNotServed, OnConnection, MessagesOwn, Mine,
      DownWhenDue, Due
  <1>2. TypeOK'
    <2>1. work' \in -1 .. Steps
      BY <1>d, DoipAssumption DEF TypeOK
    <2> QED BY <2>1, <1>b, <1>c DEF TakeSent, OnlyServer, tcp, thread, TypeOK
  <1>3. urgent' => UrgentInv'
    <2> SUFFICES ASSUME urgent PROVE UrgentInv'
      BY DEF TakeSent, MbSent, Live, WorkLeft, OnlyServer, tcp, thread
    <2>1. ServedAtOnce' /\ TakenAtOnce' /\ NothingLeft' /\ SessionOwn' /\ PushOwn'
      BY DEF TakeSent, MbSent, Live, WorkLeft, OnlyServer, tcp, thread, ServedAtOnce, Shape,
        MailboxShape, MbFields, MailboxOrder, OnConnection, TakenAtOnce, NothingLeft, Gone,
        SessionOwn, PushOwn
    <2>2. AnswersSent' /\ NotQueuedYet' /\ PushesSent' /\ InFlight'
      BY DEF TakeSent, MbSent, Live, WorkLeft, OnlyServer, tcp, thread, AnswersSent, Shape,
        MailboxShape, MbFields, OnItsWay, SentOn, Live, OnConnection, NotQueuedYet, MailboxOrder,
        PushesSent, InFlight
    <2>3. ResetWaits'
      <3> SUFFICES ASSUME reset # 0
                   PROVE  /\ remote'.reset /\ reset \in 1 .. mb.served
                          /\ ~remote'.acked => remote'.inflight /\ from[reset] = conn
                          /\ remote'.acked => Told(from[reset], <<"answer", reset>>)
        BY <1>b, <1>c DEF ResetWaits, Told
      <3>1. remote.reset /\ reset \in 1 .. mb.served
        BY DEF ResetWaits
      <3>2. CASE remote.acked
        BY <3>1, <3>2, <1>e DEF ResetWaits
      <3>3. CASE ~remote.acked /\ sent
        BY <3>1, <3>3, <1>a, <1>e DEF ResetWaits, sent
      <3>4. CASE ~remote.acked /\ ~sent
        BY <3>1, <3>4, <1>e DEF ResetWaits
      <3> QED BY <3>2, <3>3, <3>4
    <2>4. RoutineOwn'
      <3> SUFFICES ASSUME work' > 0 PROVE RoutineOwn'
        BY DEF RoutineOwn
      <3>1. work > 0
        BY <1>d DEF TypeOK
      <3>2. ASSUME now PROVE Told(wconn, wlast)
        BY <3>1, <3>2, <1>a DEF RoutineOwn, now, sent
      <3>3. wready' => Told(wconn, wlast)
        BY <3>1, <3>2, <1>d DEF RoutineOwn
      <3> QED BY <3>1, <3>3, <1>b, <1>c DEF RoutineOwn, Told
    <2> QED BY <2>1, <2>2, <2>3, <2>4
  <1> QED BY <1>1, <1>2, <1>3

LEMMA TakeDroppedKeeps == MailboxInv /\ TakeDropped => MailboxInv'
  <1> SUFFICES ASSUME MailboxInv, TakeDropped PROVE MailboxInv'
    OBVIOUS
  <1> USE DEF MailboxInv, UrgentInv
  <1>a. /\ MailboxShape(mb') /\ MailboxOrder(mb') /\ mb'.drops = mb'.drops_seen
        /\ mb'.push_taken = IF MbDroppedServed(mb) THEN mb.pushed ELSE mb.push_taken
        /\ \A f \in MbFields \ {"drops_seen", "push_taken"} : mb'[f] = mb[f]
    <2>1. mb' = [mb EXCEPT !.drops_seen = mb.drops,
                           !.push_taken = IF MbDroppedServed(mb) THEN mb.pushed ELSE
                               mb.push_taken]
      BY DEF TakeDropped, MbDroppedTake
    <2>2. DOMAIN mb' = MbFields /\ mb'.drops = mb'.drops_seen
          /\ mb'.push_taken = (IF MbDroppedServed(mb) THEN mb.pushed ELSE mb.push_taken)
          /\ \A f \in MbFields \ {"drops_seen", "push_taken"} : mb'[f] = mb[f]
      BY <2>1 DEF Shape, MailboxShape, MbFields
    <2> QED BY SMTT(30), <2>2 DEF Shape, MailboxShape, MailboxOrder, MbFields
  <1>b. UNCHANGED <<tcp, thread, resp, from, pfrom, woken, wout, wready, wlast, wconn, down,
            answered,
                    urgent>> /\ spc = "dropped" /\ spc' = "take"
    BY DEF TakeDropped, OnlyServer
  <1>c. DOMAIN remote' = {"inflight", "reset", "acked"} /\ (work' = 0 \/ work' = work)
    BY DEF TakeDropped, Shape
  <1>1. Fates' /\ OnConnection' /\ MessagesOwn' /\ DownWhenDue'
    BY DEF TakeDropped, MbDroppedTake, MbDroppedServed, OnlyServer, tcp, thread, Fates,
      FailedNotServed, Shape, MailboxShape, MailboxOrder, MbFields, OnConnection, MessagesOwn,
      Mine, DownWhenDue, Due
  <1>2. TypeOK'
    <2>1. mb'.posted = mb.posted /\ mb'.pushed = mb.pushed
      BY <1>a DEF MbFields
    <2>2. work' \in -1 .. Steps
      BY <1>c, DoipAssumption DEF TypeOK
    <2> QED BY <2>1, <2>2, <1>b DEF tcp, thread, TypeOK
  <1>3. Shape'
    <2>1. mb'.posted = mb.posted /\ mb'.pushed = mb.pushed /\ mb'.served = mb.served
      BY <1>a DEF MbFields
    <2> HIDE DEF Msg
    <2> QED BY <2>1, <1>a, <1>b, <1>c DEF tcp, thread, Shape
  <1>4. urgent' => UrgentInv'
    <2> SUFFICES ASSUME urgent PROVE UrgentInv'
      BY DEF TakeDropped, MbDroppedTake, MbDroppedServed, OnlyServer, tcp, thread
    <2>1. ServedAtOnce' /\ TakenAtOnce' /\ ResetWaits'
      BY DEF TakeDropped, MbDroppedTake, MbDroppedServed, OnlyServer, tcp, thread, ServedAtOnce,
        Shape, MailboxShape, MbFields, MailboxOrder, OnConnection, TakenAtOnce, ResetWaits, Told
    <2>2. SessionOwn' /\ RoutineOwn'
      BY SMTT(30) DEF TakeDropped, MbDroppedTake, MbDroppedServed, OnlyServer, tcp, thread,
        SessionOwn,
        Shape, MailboxShape, MbFields, RoutineOwn, Told
    <2>3. PushOwn' /\ AnswersSent' /\ NotQueuedYet' /\ InFlight'
      BY DEF TakeDropped, MbDroppedTake, MbDroppedServed, OnlyServer, tcp, thread, PushOwn,
        Shape, MailboxShape, MbFields, AnswersSent, OnItsWay, SentOn, Live, OnConnection,
        NotQueuedYet, MailboxOrder, InFlight
    <2>4. NothingLeft'
      <3> SUFFICES ASSUME ~connected, dpc # "drop"
                   PROVE  /\ ~remote'.inflight /\ (reset' # 0 => remote'.acked)
                          /\ ~(session' > 0) /\ work' = 0
                          /\ mb'.push_taken = mb'.pushed /\ mb'.push_queued = 0
        BY <1>b DEF NothingLeft, Gone, tcp, thread
      <3>1. mb'.push_queued = mb.push_queued /\ mb'.pushed = mb.pushed
        BY <1>a DEF MbFields
      <3>2. CASE MbDroppedServed(mb)
        <4>1. mb.push_queued = 0
          BY <3>2 DEF MbDroppedServed, TakenAtOnce
        <4>2. ~remote'.inflight /\ (remote'.acked <=> remote.acked)
          BY <3>2 DEF TakeDropped, Shape
        <4>3. reset' # 0 => remote'.acked
          BY <3>2, <4>2 DEF TakeDropped, ResetWaits
        <4>4. ~(session' > 0) /\ work' = 0
          BY <3>2 DEF TakeDropped
        <4> QED BY <3>1, <3>2, <1>a, <4>1, <4>2, <4>3, <4>4
      <3>3. CASE ~MbDroppedServed(mb)
        <4>1. mb.drop_after >= mb.served \/ mb.drops = mb.drops_seen
          BY DEF TakenAtOnce, Shape, MailboxShape, MailboxOrder
        <4>2. Gone
          BY <3>3, <4>1 DEF MbDroppedServed, Gone
        <4> QED BY <3>1, <3>3, <1>a, <4>2 DEF TakeDropped, NothingLeft
      <3> QED BY <3>2, <3>3
    <2>5. PushesSent'
      <3>1. mb'.push_queued = mb.push_queued /\ mb'.pushed = mb.pushed
        BY <1>a DEF MbFields
      <3>2. dpc # "top" => mb'.push_taken = mb.push_taken
        BY <1>a DEF MbDroppedServed, TakenAtOnce
      <3>3. UNCHANGED <<conn, connected, sock, outq, got, dpc, dmsg>>
        BY <1>b DEF tcp, thread
      <3>4. \A m : SentOn(m)' <=> SentOn(m)
        BY <3>3 DEF SentOn
      <3> HIDE DEF SentOn
      <3> QED BY <3>1, <3>2, <3>3, <3>4 DEF PushesSent, Live
    <2> QED BY <2>1, <2>2, <2>3, <2>4, <2>5
  <1> QED BY <1>1, <1>2, <1>3, <1>4

LEMMA TakeKeeps == MailboxInv /\ Take => MailboxInv'
  <1> SUFFICES ASSUME MailboxInv, Take PROVE MailboxInv'
    OBVIOUS
  <1> USE DEF MailboxInv, UrgentInv
  <1>1. TypeOK' /\ Shape' /\ Fates' /\ DownWhenDue'
    BY DEF Take, MbWaiting, box, OnlyServer, tcp, thread, TypeOK, Shape, MailboxShape,
      MailboxOrder, MbFields, Msg, Fates, FailedNotServed, DownWhenDue, Due
  <1>2. OnConnection' /\ MessagesOwn'
    BY DEF Take, MbWaiting, box, OnlyServer, tcp, thread, OnConnection, Shape, MailboxShape,
      MbFields, MessagesOwn, Mine
  <1>3. urgent' => UrgentInv'
    <2> SUFFICES ASSUME urgent PROVE UrgentInv'
      BY DEF Take, MbWaiting, box, OnlyServer, tcp, thread
    <2>1. ServedAtOnce' /\ TakenAtOnce' /\ NothingLeft' /\ ResetWaits' /\ SessionOwn' /\
        RoutineOwn'
      BY DEF Take, MbWaiting, box, OnlyServer, tcp, thread, ServedAtOnce, Shape, MailboxShape,
        MbFields, MailboxOrder, OnConnection, TakenAtOnce, NothingLeft, Gone, ResetWaits, Told,
        SessionOwn, RoutineOwn
    <2>2. PushOwn' /\ AnswersSent' /\ NotQueuedYet' /\ PushesSent' /\ InFlight'
      BY ZenonT(40) DEF Take, MbWaiting, box, OnlyServer, tcp, thread, PushOwn, Shape,
        MailboxShape,
        MbFields, AnswersSent, OnItsWay, SentOn, Live, OnConnection, NotQueuedYet, MailboxOrder,
        PushesSent, InFlight
    <2> QED BY <2>1, <2>2
  <1> QED BY <1>1, <1>2, <1>3

LEMMA ServeKeeps == ASSUME NEW kind \in Kinds PROVE MailboxInv /\ Serve(kind) => MailboxInv'
  <1> SUFFICES ASSUME MailboxInv, Serve(kind) PROVE MailboxInv'
    OBVIOUS
  <1> USE DEF MailboxInv, UrgentInv
  <1>a. /\ MailboxShape(mb') /\ MailboxOrder(mb') /\ mb'.served = mb.posted /\ mb'.settled =
               mb.posted
        /\ \A f \in MbFields \ {"served", "settled"} : mb'[f] = mb[f]
    <2>1. mb' = MbServe(mb)
      BY DEF Serve
    <2>2. MailboxShape(mb) /\ MailboxOrder(mb)
      BY DEF Shape
    <2> QED BY <2>1, <2>2, ServedFields
  <1>b. UNCHANGED <<tcp, thread, from, pfrom, woken, down, urgent>> /\ resp' = mb.posted
        /\ spc = "serving" /\ spc' = "pushsent" /\ answered' = answered \union {mb.posted}
    BY DEF Serve, OnlyServer
  <1>c. DOMAIN remote' = {"inflight", "reset", "acked"} /\ remote'.inflight
    BY DEF Serve, Shape
  <1>d. mb.posted >= 1 /\ mb.posted \in Nat /\ from[mb.posted] \in Nat
    <2>1. mb.settled # mb.posted
      BY <1>b DEF Fates
    <2> QED BY SMTT(30), <2>1 DEF Shape, MailboxShape, MailboxOrder
  <1>e. ASSUME urgent PROVE dpc = "wait" /\ connected /\ from[mb.posted] = conn
    BY <1>e DEF Serve, ServedAtOnce, OnConnection
  <1>1. Fates' /\ OnConnection' /\ MessagesOwn' /\ DownWhenDue'
    BY DEF Serve, Refused, MbServe, OnlyServer, tcp, thread, Fates, FailedNotServed, Shape,
      MailboxShape, MailboxOrder, MbFields, OnConnection, MessagesOwn, Mine, DownWhenDue, Due
  <1>2. TypeOK'
    <2>1. work' \in -1 .. Steps
      BY DoipAssumption DEF Serve, TypeOK
    <2>2. mb'.posted = mb.posted /\ mb'.pushed = mb.pushed
      BY <1>a DEF MbFields
    <2> QED BY <2>1, <2>2, <1>b DEF tcp, thread, TypeOK
  <1>3. Shape'
    <2>1. mb'.posted = mb.posted /\ mb'.pushed = mb.pushed /\ mb'.served = mb.posted
      BY <1>a DEF MbFields
    <2>2. wconn' \in Nat
      BY <1>d DEF Serve, Shape
    <2>3. /\ from' \in Seq(Nat) /\ Len(from') = mb'.posted
          /\ pfrom' \in Seq(Nat) /\ Len(pfrom') = mb'.pushed
          /\ outq' \in Seq(Msg) /\ dmsg' \in Msg
      BY <2>1, <1>b DEF tcp, thread, Shape
    <2>4. nacked' \subseteq 1 .. mb'.posted /\ answered' \subseteq 1 .. mb'.posted
      <3>1. mb.posted \in 1 .. mb.posted /\ nacked' = nacked
        BY <1>b, <1>d DEF thread
      <3> QED BY <2>1, <1>b, <3>1 DEF Shape
    <2> HIDE DEF Msg, MailboxInv
    <2> QED BY <2>1, <2>2, <2>3, <2>4, <1>a, <1>b, <1>c DEF Shape
  <1>4. urgent' => UrgentInv'
    <2> SUFFICES ASSUME urgent PROVE UrgentInv'
      BY DEF Serve, Refused, MbServe, OnlyServer, tcp, thread
    <2>1. ServedAtOnce' /\ TakenAtOnce' /\ NothingLeft' /\ PushOwn' /\ AnswersSent' /\
        NotQueuedYet' /\ PushesSent'
      BY DEF Serve, Refused, MbServe, OnlyServer, tcp, thread, ServedAtOnce, Shape, MailboxShape,
        MbFields, MailboxOrder, OnConnection, TakenAtOnce, NothingLeft, Gone, PushOwn,
        AnswersSent, OnItsWay, SentOn, Live, NotQueuedYet, PushesSent
    <2>2. ResetWaits'
      <3>1. CASE kind = "reset"
        <4>1. reset' = mb.posted /\ remote'.reset /\ ~remote'.acked
          BY <3>1 DEF Serve, Shape
        <4> QED BY <4>1, <1>a, <1>b, <1>c, <1>d, <1>e DEF tcp, thread, ResetWaits
      <3>2. CASE kind # "reset"
        <4>1. reset' = reset
          BY <3>2 DEF Serve
        <4>2. (remote.reset => remote'.reset) /\ (remote'.acked <=> remote.acked)
          BY <3>2 DEF Serve, Shape
        <4>3. reset # 0 => reset \in 1 .. mb'.served
          BY SMTT(30), <1>a DEF ResetWaits, Shape, MailboxShape, MailboxOrder, MbFields
        <4> QED BY <4>1, <4>2, <4>3, <1>a, <1>b, <1>c DEF tcp, thread, ResetWaits, Told
      <3> QED BY <3>1, <3>2
    <2>3. SessionOwn'
      BY <1>b, <1>e DEF Serve, tcp, SessionOwn
    <2>4. RoutineOwn'
      <3>1. CASE kind = "routine"
        <4>1. wlast' = <<"answer", mb.posted>> /\ wconn' = from[mb.posted] /\ ~wready'
          BY <3>1 DEF Serve
        <4> QED BY <4>1, <1>a, <1>b, <1>d, <1>e DEF tcp, thread, RoutineOwn
      <3>2. CASE kind # "routine"
        <4>1. UNCHANGED <<work, wlast, wconn>> /\ (wready' <=> wready)
          BY <3>2 DEF Serve
        <4>2. mb'.pushed = mb.pushed /\ \A k \in 1 .. mb.served : k \in 1 .. mb'.served
          BY SMTT(30), <1>a DEF Shape, MailboxShape, MailboxOrder, MbFields
        <4> QED BY <4>1, <4>2, <1>b DEF tcp, thread, RoutineOwn, Told
      <3> QED BY <3>1, <3>2
    <2>5. InFlight'
      <3>1. mb.served # mb.posted
        BY <1>b DEF ServedAtOnce
      <3>2. mb'.reported # mb'.served
        BY <3>1, <1>a DEF Shape, MailboxShape, MailboxOrder, MbFields
      <3> QED BY <3>2, <1>b, <1>e DEF thread, InFlight
    <2> QED BY <2>1, <2>2, <2>3, <2>4, <2>5
  <1> QED BY <1>1, <1>2, <1>3, <1>4

LEMMA TakePushSentKeeps == MailboxInv /\ TakePushSent => MailboxInv'
  <1> SUFFICES ASSUME MailboxInv, TakePushSent PROVE MailboxInv'
    OBVIOUS
  <1> USE DEF MailboxInv, UrgentInv
  <1>a. ASSUME urgent, MbPushSent(mb, IF connected THEN sock ELSE "closed", Len(outq)), mb.pushed
            >= 1
        PROVE  Told(conn, <<"push", mb.pushed>>)
    <2>1. connected /\ Live(sock) /\ Len(outq) = 0 /\ mb.push_queued = mb.pushed
      BY <1>a DEF MbPushSent, Live
    <2>2. SentOn(<<"push", mb.pushed>>)
      BY <1>a, <2>1 DEF PushesSent
    <2> QED BY <2>1, <2>2 DEF SentOn, Told
  <1> DEFINE sent == MbPushSent(mb, IF connected THEN sock ELSE "closed", Len(outq))
             now == sent /\ wlast[1] = "push"
  <1>b. UNCHANGED <<conn, got, from, pfrom, reset, session, wlast, wconn, down, urgent>>
    BY DEF TakePushSent, OnlyServer, tcp, thread
  <1>c. mb'.served = mb.served /\ mb'.pushed = mb.pushed /\ mb'.posted = mb.posted
    BY DEF TakePushSent, Shape, MailboxShape, MbFields
  <1>d. /\ work' = (IF now /\ wout /\ work = -1 THEN 0 ELSE work)
        /\ wready' => wready \/ (now /\ wout /\ work # -1)
    BY DEF TakePushSent, WorkLeft
  <1> HIDE DEF sent, now
  <1>1. Shape' /\ Fates' /\ OnConnection' /\ MessagesOwn' /\ DownWhenDue'
    BY ZenonT(40) DEF TakePushSent, MbPushSent, Live, WorkLeft, OnlyServer, tcp, thread, Shape,
      MailboxShape, MailboxOrder, MbFields, Msg, Fates, FailedNotServed, OnConnection,
      MessagesOwn, Mine, DownWhenDue, Due
  <1>2. TypeOK'
    <2>1. work' \in -1 .. Steps
      BY <1>d, DoipAssumption DEF TypeOK
    <2> QED BY <2>1, <1>b, <1>c DEF TakePushSent, OnlyServer, tcp, thread, TypeOK
  <1>3. urgent' => UrgentInv'
    <2> SUFFICES ASSUME urgent PROVE UrgentInv'
      BY DEF TakePushSent, MbPushSent, Live, WorkLeft, OnlyServer, tcp, thread
    <2>1. ServedAtOnce' /\ TakenAtOnce' /\ NothingLeft' /\ ResetWaits' /\ SessionOwn'
      BY DEF TakePushSent, MbPushSent, Live, WorkLeft, OnlyServer, tcp, thread, ServedAtOnce,
        Shape, MailboxShape, MbFields, MailboxOrder, OnConnection, TakenAtOnce, NothingLeft,
        Gone, ResetWaits, Told, SessionOwn
    <2>2. PushOwn' /\ AnswersSent' /\ NotQueuedYet' /\ PushesSent' /\ InFlight'
      BY ZenonT(40) DEF TakePushSent, MbPushSent, Live, WorkLeft, OnlyServer, tcp, thread,
        PushOwn, Shape,
        MailboxShape, MbFields, AnswersSent, OnItsWay, SentOn, Live, OnConnection, NotQueuedYet,
        MailboxOrder, PushesSent, InFlight
    <2>3. RoutineOwn'
      <3> SUFFICES ASSUME work' > 0 PROVE RoutineOwn'
        BY DEF RoutineOwn
      <3>1. work > 0
        BY <1>d DEF TypeOK
      <3>2. ASSUME now PROVE Told(wconn, wlast)
        BY <3>1, <3>2, <1>a DEF RoutineOwn, now, sent
      <3>3. wready' => Told(wconn, wlast)
        BY <3>1, <3>2, <1>d DEF RoutineOwn
      <3> QED BY <3>1, <3>3, <1>b, <1>c DEF RoutineOwn, Told
    <2> QED BY <2>1, <2>2, <2>3
  <1> QED BY <1>1, <1>2, <1>3

LEMMA StepKeeps == MailboxInv /\ Step => MailboxInv'
  <1> SUFFICES ASSUME MailboxInv, Step PROVE MailboxInv'
    OBVIOUS
  <1> USE DEF MailboxInv, UrgentInv
  <1>a. /\ MailboxShape(mb') /\ MailboxOrder(mb') /\ mb'.pushed = mb.pushed + 1 /\ mb.pushed \in
               Nat
        /\ \A f \in MbFields \ {"pushed"} : mb'[f] = mb[f]
    <2>1. mb' = MbPush(mb) /\ MailboxShape(mb) /\ MailboxOrder(mb) /\ mb.pushed \in Nat
      BY DEF Step, Shape, MailboxShape
    <2> QED BY <2>1, PushedFields
  <1>b. UNCHANGED <<tcp, thread, resp, from, woken, reset, remote, session, wconn, down,
            answered, urgent>>
    BY DEF Step, OnlyServer
  <1>c. /\ pfrom' = Append(pfrom, wconn) /\ wlast' = <<"push", mb'.pushed>> /\ ~wready'
        /\ work > 0 /\ spc = "work" /\ spc' = "due" /\ work' \in -1 .. Steps
    BY <1>a, DoipAssumption DEF Step, TypeOK
  <1>d. /\ pfrom' \in Seq(Nat) /\ Len(pfrom') = mb'.pushed
        /\ \A k \in 1 .. mb.pushed : k \in 1 .. mb'.pushed /\ pfrom'[k] = pfrom[k]
        /\ pfrom'[mb'.pushed] = wconn
    <2>1. pfrom \in Seq(Nat) /\ Len(pfrom) = mb.pushed /\ wconn \in Nat
      BY DEF Shape
    <2> QED BY <1>a, <1>c, <2>1, Appended
  <1>1. Fates' /\ OnConnection' /\ DownWhenDue'
    BY DEF Step, MbPush, OnlyServer, tcp, thread, Fates, FailedNotServed, Shape, MailboxShape,
      MailboxOrder, MbFields, OnConnection, DownWhenDue, Due
  <1>2. TypeOK'
    <2>1. mb'.posted = mb.posted
      BY <1>a DEF MbFields
    <2> QED BY <1>b, <1>c, <1>d, <2>1 DEF tcp, thread, TypeOK
  <1>3. Shape'
    <2>1. mb'.posted = mb.posted /\ mb'.served = mb.served
      BY <1>a DEF MbFields
    <2> HIDE DEF Msg
    <2> QED BY <1>a, <1>b, <1>d, <2>1 DEF tcp, thread, Shape
  <1>4. MessagesOwn'
    <2>1. mb'.posted = mb.posted
      BY <1>a DEF MbFields
    <2>2. \A m, c : Mine(m, c) => Mine(m, c)'
      BY <1>b, <1>d, <2>1 DEF Mine
    <2> QED BY <1>b, <2>2 DEF tcp, thread, MessagesOwn
  <1>5. urgent' => UrgentInv'
    <2> SUFFICES ASSUME urgent PROVE UrgentInv'
      BY DEF Step, MbPush, OnlyServer, tcp, thread
    <2>1. ServedAtOnce' /\ NothingLeft' /\ ResetWaits' /\ SessionOwn'
      BY DEF Step, MbPush, OnlyServer, tcp, thread, ServedAtOnce, Shape, MailboxShape, MbFields,
        MailboxOrder, OnConnection, NothingLeft, Gone, TakenAtOnce, ResetWaits, Told, SessionOwn
    <2>2. AnswersSent' /\ NotQueuedYet'
      BY DEF Step, MbPush, OnlyServer, tcp, thread, AnswersSent, Shape, MailboxShape, MbFields,
        OnItsWay, SentOn, Live, OnConnection, NotQueuedYet, MailboxOrder
    <2>3. PushesSent' /\ InFlight'
      BY SMTT(30) DEF Step, MbPush, OnlyServer, tcp, thread, PushesSent, Shape, MailboxShape,
        MbFields,
        SentOn, Live, MailboxOrder, OnConnection, InFlight
    <2>4. TakenAtOnce'
      <3>1. mb.drops = mb.drops_seen
        BY <1>c DEF TakenAtOnce
      <3> QED BY <1>a, <3>1 DEF MbFields, TakenAtOnce
    <2>5. RoutineOwn'
      <3>1. wconn = conn
        BY <1>c DEF RoutineOwn
      <3> QED BY <1>a, <1>b, <1>c, <1>d, <3>1 DEF tcp, RoutineOwn
    <2>6. PushOwn'
      <3>1. wconn = conn
        BY <1>c DEF RoutineOwn
      <3> QED BY <1>a, <1>b, <1>d, <3>1 DEF tcp, PushOwn
    <2> QED BY <2>1, <2>2, <2>3, <2>4, <2>5, <2>6
  <1> QED BY <1>1, <1>2, <1>3, <1>4, <1>5

LEMMA NoStepKeeps == MailboxInv /\ NoStep => MailboxInv'
  <1> SUFFICES ASSUME MailboxInv, NoStep PROVE MailboxInv'
    OBVIOUS
  <1> USE DEF MailboxInv, UrgentInv
  <1>1. TypeOK' /\ Shape' /\ Fates' /\ DownWhenDue'
    BY DEF NoStep, box, OnlyServer, tcp, thread, TypeOK, Shape, MailboxShape, MailboxOrder,
      MbFields, Msg, Fates, FailedNotServed, DownWhenDue, Due
  <1>2. OnConnection' /\ MessagesOwn'
    BY DEF NoStep, box, OnlyServer, tcp, thread, OnConnection, Shape, MailboxShape, MbFields,
      MessagesOwn, Mine
  <1>3. urgent' => UrgentInv'
    <2> SUFFICES ASSUME urgent PROVE UrgentInv'
      BY DEF NoStep, box, OnlyServer, tcp, thread
    <2>1. ServedAtOnce' /\ TakenAtOnce' /\ NothingLeft' /\ ResetWaits' /\ SessionOwn' /\
        RoutineOwn'
      BY DEF NoStep, box, OnlyServer, tcp, thread, ServedAtOnce, Shape, MailboxShape, MbFields,
        MailboxOrder, OnConnection, TakenAtOnce, NothingLeft, Gone, ResetWaits, Told, SessionOwn,
        RoutineOwn
    <2>2. PushOwn' /\ AnswersSent' /\ NotQueuedYet' /\ PushesSent' /\ InFlight'
      BY ZenonT(40) DEF NoStep, box, OnlyServer, tcp, thread, PushOwn, Shape, MailboxShape,
        MbFields,
        AnswersSent, OnItsWay, SentOn, Live, OnConnection, NotQueuedYet, MailboxOrder,
        PushesSent, InFlight
    <2> QED BY <2>1, <2>2
  <1> QED BY <1>1, <1>2, <1>3

LEMMA ResetsKeeps == MailboxInv /\ Resets => MailboxInv'
  <1> SUFFICES ASSUME MailboxInv, Resets PROVE MailboxInv'
    OBVIOUS
  <1> USE DEF MailboxInv, UrgentInv
  <1>1. TypeOK' /\ Shape' /\ Fates' /\ DownWhenDue'
    BY DEF Resets, Due, box, OnlyServer, tcp, thread, TypeOK, Shape, MailboxShape, MailboxOrder,
      MbFields, Msg, Fates, FailedNotServed, DownWhenDue, Due
  <1>2. OnConnection' /\ MessagesOwn'
    BY DEF Resets, Due, box, OnlyServer, tcp, thread, OnConnection, Shape, MailboxShape,
      MbFields, MessagesOwn, Mine
  <1>3. urgent' => UrgentInv'
    <2> SUFFICES ASSUME urgent PROVE UrgentInv'
      BY DEF Resets, Due, box, OnlyServer, tcp, thread
    <2>1. ServedAtOnce' /\ TakenAtOnce' /\ NothingLeft' /\ ResetWaits' /\ SessionOwn' /\
        RoutineOwn'
      BY DEF Resets, Due, box, OnlyServer, tcp, thread, ServedAtOnce, Shape, MailboxShape,
        MbFields, MailboxOrder, OnConnection, TakenAtOnce, NothingLeft, Gone, ResetWaits, Told,
        SessionOwn, RoutineOwn
    <2>2. PushOwn' /\ AnswersSent' /\ NotQueuedYet' /\ PushesSent' /\ InFlight'
      BY DEF Resets, Due, box, OnlyServer, tcp, thread, PushOwn, Shape, MailboxShape, MbFields,
        AnswersSent, OnItsWay, SentOn, Live, OnConnection, NotQueuedYet, MailboxOrder,
        PushesSent, InFlight
    <2> QED BY <2>1, <2>2
  <1> QED BY <1>1, <1>2, <1>3

LEMMA PassEndsKeeps == ASSUME NEW silent \in BOOLEAN PROVE MailboxInv /\ PassEnds(silent) =>
    MailboxInv'
  <1> SUFFICES ASSUME MailboxInv, PassEnds(silent) PROVE MailboxInv'
    OBVIOUS
  <1> USE DEF MailboxInv, UrgentInv
  <1>1. TypeOK' /\ Shape' /\ Fates' /\ DownWhenDue'
    BY DEF PassEnds, Due, box, OnlyServer, tcp, thread, TypeOK, Shape, MailboxShape,
      MailboxOrder, MbFields, Msg, Fates, FailedNotServed, DownWhenDue, Due
  <1>2. OnConnection' /\ MessagesOwn'
    BY DEF PassEnds, Due, box, OnlyServer, tcp, thread, OnConnection, Shape, MailboxShape,
      MbFields, MessagesOwn, Mine
  <1>3. urgent' => UrgentInv'
    <2> SUFFICES ASSUME urgent PROVE UrgentInv'
      BY DEF PassEnds, Due, box, OnlyServer, tcp, thread
    <2>1. ServedAtOnce' /\ TakenAtOnce' /\ NothingLeft' /\ ResetWaits' /\ SessionOwn' /\
        RoutineOwn'
      BY SMTT(30) DEF PassEnds, Due, box, OnlyServer, tcp, thread, ServedAtOnce, Shape,
        MailboxShape,
        MbFields, MailboxOrder, OnConnection, TakenAtOnce, NothingLeft, Gone, ResetWaits, Told,
        SessionOwn, RoutineOwn
    <2>2. PushOwn' /\ AnswersSent' /\ NotQueuedYet' /\ PushesSent' /\ InFlight'
      BY ZenonT(40) DEF PassEnds, Due, box, OnlyServer, tcp, thread, PushOwn, Shape,
        MailboxShape, MbFields,
        AnswersSent, OnItsWay, SentOn, Live, OnConnection, NotQueuedYet, MailboxOrder,
        PushesSent, InFlight
    <2> QED BY <2>1, <2>2
  <1> QED BY <1>1, <1>2, <1>3

LEMMA MailboxStarts == Init => MailboxInv
  <1> SUFFICES ASSUME Init PROVE MailboxInv
    OBVIOUS
  <1>1. TypeOK
    BY DoipAssumption DEF Init, TypeOK, MbEmpty
  <1>2. MailboxShape(mb) /\ MailboxOrder(mb) /\ mb = MbEmpty
    BY DEF Init, MbEmpty, MailboxShape, MailboxOrder, MbFields
  <1>3. Shape
    <2>1. from \in Seq(Nat) /\ Len(from) = 0 /\ pfrom \in Seq(Nat) /\ Len(pfrom) = 0
          /\ outq \in Seq(Msg) /\ dmsg \in Msg
      BY DEF Init, NoMsg, Msg
    <2>2. mb.posted = 0 /\ mb.pushed = 0 /\ mb.served = 0
      BY <1>2 DEF MbEmpty
    <2> HIDE DEF Msg
    <2> QED BY <1>2, <2>1, <2>2 DEF Init, Shape
  <1>4. Fates /\ OnConnection /\ MessagesOwn /\ DownWhenDue
    BY <1>2 DEF Init, Fates, FailedNotServed, OnConnection, MessagesOwn, DownWhenDue, MbEmpty
  <1>5. UrgentInv
    BY <1>2 DEF Init, UrgentInv, ServedAtOnce, TakenAtOnce, NothingLeft, Gone, ResetWaits,
        SessionOwn,
         RoutineOwn, PushOwn, AnswersSent, NotQueuedYet, PushesSent, InFlight, MbEmpty
  <1> QED BY <1>1, <1>3, <1>4, <1>5 DEF MailboxInv

LEMMA MailboxRests == MailboxInv /\ UNCHANGED vars => MailboxInv'
  <1> SUFFICES ASSUME MailboxInv, UNCHANGED vars PROVE MailboxInv'
    OBVIOUS
  <1> USE DEF MailboxInv, vars, tcp, thread, box, server
  <1>1. TypeOK' /\ Shape'
    BY DEF TypeOK, Shape
  <1>2. Fates' /\ OnConnection' /\ MessagesOwn' /\ DownWhenDue'
    BY DEF Fates, FailedNotServed, OnConnection, MessagesOwn, Mine, DownWhenDue, Due
  <1>3. urgent' => UrgentInv'
    BY DEF UrgentInv, ServedAtOnce, TakenAtOnce, NothingLeft, Gone, ResetWaits, SessionOwn,
        RoutineOwn,
         Told, PushOwn, AnswersSent, OnItsWay, SentOn, Live, NotQueuedYet, PushesSent, InFlight
  <1> QED BY <1>1, <1>2, <1>3

LEMMA MailboxStep == MailboxInv /\ [Next]_vars => MailboxInv'
  <1> SUFFICES ASSUME MailboxInv, [Next]_vars PROVE MailboxInv'
    OBVIOUS
  <1>1. CASE Tester
    BY <1>1, TesterSendsKeeps, TesterAcksKeeps, TesterClosesKeeps, TesterResetsKeeps DEF Tester
  <1>2. CASE Thread
    BY <1>2, PushGetKeeps, PushQueuedKeeps, MbAcceptKeeps, ReceiveNothingKeeps, FeedEndsKeeps,
       ActivateKeeps, PostKeeps, SignalledKeeps, TimesOutKeeps, CollectKeeps, WaitOnKeeps,
       WithdrawKeeps, MbSendKeeps, SendReportedKeeps, RecycleKeeps, RecycleReportedKeeps DEF Thread
  <1>3. CASE Server
    BY <1>3, PassBeginsKeeps, TakeSentKeeps, TakeDroppedKeeps, TakeKeeps, TakePushSentKeeps,
        StepKeeps,
       NoStepKeeps, ResetsKeeps, ServeKeeps, PassEndsKeeps DEF Server
  <1> QED BY <1>1, <1>2, <1>3, MailboxRests DEF Next

\* What the invariant says of the properties that are run.
LEMMA MailboxKept ==
    MailboxInv => /\ TypeOK /\ ResetAnswered /\ OwnAnswers /\ FailedNotServed /\ SessionDies
                  /\ NotStranded
  <1> SUFFICES ASSUME MailboxInv
               PROVE  /\ TypeOK /\ ResetAnswered /\ OwnAnswers /\ FailedNotServed /\ SessionDies
                      /\ NotStranded
    OBVIOUS
  <1> USE DEF MailboxInv, UrgentInv
  <1>1. ResetAnswered
    BY DEF ResetAnswered, DownWhenDue, Due, ResetWaits, Told
  <1>2. OwnAnswers
    BY DEF OwnAnswers, MessagesOwn, Mine
  <1>3. SessionDies
    <2> SUFFICES ASSUME urgent, spc = "serving", session > 0 PROVE from[mb.posted] = session
      BY DEF SessionDies
    <2>1. session = conn /\ dpc = "wait"
      BY DEF SessionOwn, ServedAtOnce
    <2> QED BY <2>1 DEF OnConnection
  <1>4. NotStranded
    <2> SUFFICES ASSUME urgent, remote.inflight, spc = "rest", ~woken,
                        dpc \notin {"wait", "check", "send", "queue", "drop"}
                 PROVE  connected /\ mb.queued = mb.served /\ mb.reported # mb.served
      BY DEF NotStranded
    <2>1. connected
      BY DEF NothingLeft, Gone, TakenAtOnce
    <2>2. dpc \in {"top", "pushed", "recv", "feed"}
      BY DEF TypeOK
    <2> QED BY <2>1, <2>2 DEF InFlight
  <1> QED BY <1>1, <1>2, <1>3, <1>4 DEF Fates

\* Only a unit of the routine pushes.
LEMMA OnlyStepPushes == MailboxInv /\ [Next]_vars => mb'.pushed = mb.pushed \/ Step
  <1> SUFFICES ASSUME MailboxInv, [Next]_vars, ~Step PROVE mb'.pushed = mb.pushed
    OBVIOUS
  <1>1. DOMAIN mb = MbFields
    BY DEF MailboxInv, Shape, MailboxShape
  <1>2. CASE Tester \/ UNCHANGED vars
    BY <1>2 DEF Tester, TesterSends, TesterAcks, TesterCloses, TesterResets, OnlyTcp, box, vars
  <1>3. CASE Thread
    BY <1>1, <1>3 DEF Thread, PushGet, PushQueued, Accept, ReceiveNothing, FeedEnds, Activate,
        Post,
         Signalled, TimesOut, Collect, WaitOn, Withdraw, Send, SendReported, Recycle,
             RecycleReported,
         box, MbPushTake, MbPushQueue, MbPost, MbWithdraw, MbQueue, MbDrop, MbFields
  <1>4. CASE Server
    <2>1. CASE \E kind \in Kinds : Serve(kind)
      BY <1>1, <2>1 DEF Serve, MbServe, MbFields
    <2>2. CASE TakeSent \/ TakeDropped \/ TakePushSent
      BY <1>1, <2>2 DEF TakeSent, TakeDropped, MbDroppedTake, TakePushSent, MbFields
    <2>3. CASE PassBegins \/ Take \/ NoStep \/ Resets \/ \E silent \in BOOLEAN : PassEnds(silent)
      BY <2>3 DEF PassBegins, Take, NoStep, Resets, PassEnds, box
    <2> QED BY <1>4, <2>1, <2>2, <2>3 DEF Server
  <1> QED BY <1>2, <1>3, <1>4 DEF Next

LEMMA StepsAfterAck ==
    MailboxInv /\ [Next]_vars =>
        [urgent /\ mb'.pushed # mb.pushed => <<wconn, wlast>> \in got]_vars
  <1> SUFFICES ASSUME MailboxInv, [Next]_vars, urgent, mb'.pushed # mb.pushed
               PROVE  <<wconn, wlast>> \in got
    OBVIOUS
  <1>1. Step
    BY OnlyStepPushes
  <1> QED BY <1>1 DEF Step, MailboxInv, UrgentInv, RoutineOwn, Told

-------------------------------------------------------------------------------
(***************************************************************************)
(* The route channel (DoipRoute).  What holds in any order of the threads: *)
(***************************************************************************)
RouteCall == [conn : Nat, ticket : Nat]

RouteShape ==
    /\ MailboxShape(rt) /\ MailboxOrder(rt)
    /\ calls \in Seq(RouteCall) /\ Len(calls) = rt.posted
    /\ rconn \in Nat /\ ticket \in Nat /\ ends \in Nat /\ endsSeen \in Nat
    /\ slot \in (0 .. rt.posted) \X BOOLEAN
    /\ queue \in Seq(Nat \X BOOLEAN) /\ \A i \in 1 .. Len(queue) : queue[i][1] \in 0 .. rt.posted
    /\ active \in 0 .. rt.posted
    /\ failed \subseteq 1 .. rt.posted /\ forwarded \subseteq 1 .. rt.posted

\* The fates of the request posted last, as in the mailbox.
RouteFates ==
    /\ rt.posted \in failed => rt.settled = rt.posted
    /\ rt.posted \in forwarded => rt.served = rt.posted
    /\ FailedNotForwarded

\* A ticket belongs to one connection: the one that is open, if the ticket is the latest
\* and its exchange open, or the next to come.
TicketsOwn ==
    \A r \in 1 .. rt.posted :
        /\ calls[r].ticket <= ticket + 1
        /\ calls[r].ticket = ticket + 1 => calls[r].conn = rconn
        /\ routeOpen /\ calls[r].ticket = ticket => calls[r].conn = rconn

\* What the doip thread does, it does for the tester that is there.
ForItsTester ==
    /\ rpc = "send" => LatestAsked
    /\ rpc \in {"wait", "check", "ends", "end"} => ropen
    /\ rpc \in {"wait", "check"} =>
        /\ rt.posted >= 1
        /\ calls[rt.posted].conn = rconn /\ calls[rt.posted].ticket = ticket + 1

(***************************************************************************)
(* And where the comm thread, once woken, runs its pass first:             *)
(***************************************************************************)
\* A request is judged while its tester waits.
JudgedAtOnce ==
    rt.settled # rt.posted => rpc = "wait" /\ (rwoken \/ cpc \in {"cancel", "judge"})

\* An unlock is asked and a drop is told before the doip thread goes on.
HeardAtOnce ==
    /\ rwoken => cpc = "rest"
    /\ asks => rwoken /\ rpc = "top"
    /\ untold => rpc \in {"ends", "end"}
    /\ rpc = "end" /\ ~rwoken => ~untold
    /\ ends # endsSeen => rpc = "end" /\ (rwoken \/ cpc = "cancel")

\* The unlock is the open connection's, and gone when that has ended.
UnlockOwn ==
    /\ unlock # -1 => unlock = rconn /\ rconn \in earned
    /\ rpc \in {"ends", "end"} => untold \/ unlock = -1

\* So is the router's grant ...
GrantOwn ==
    /\ granted => rconn \in earned
    /\ rpc = "end" /\ ends = endsSeen => ~granted
    /\ \A r \in forwarded : calls[r].conn \in earned

\* ... and what it holds for the doip thread.
ChannelClear ==
    /\ ~ropen \/ (rpc = "end" /\ ends = endsSeen) => active = Empty /\ queue = <<>>
    /\ rpc = "recv" /\ ~ropen => slot = NobodysAnswer

FirstInv == JudgedAtOnce /\ HeardAtOnce /\ UnlockOwn /\ GrantOwn /\ ChannelClear

RouteInv ==
    /\ RouteShape /\ RouteFates /\ TicketsOwn /\ ForItsTester
    /\ first => FirstInv

LEMMA Tickets == RouteShape => \A r \in 1 .. rt.posted : calls[r].ticket \in Nat
  <1> SUFFICES ASSUME RouteShape, NEW r \in 1 .. rt.posted PROVE calls[r].ticket \in Nat
    OBVIOUS
  <1>1. calls \in Seq(RouteCall) /\ r \in 1 .. Len(calls)
    BY DEF RouteShape
  <1>2. calls[r] \in RouteCall
    BY <1>1, Element
  <1> QED BY <1>2 DEF RouteCall

\* Each step keeps the invariant: the doip thread's, the comm thread's.
LEMMA GetAnswerKeeps == RouteInv /\ GetAnswer => RouteInv'
  <1> SUFFICES ASSUME RouteInv, GetAnswer PROVE RouteInv'
    OBVIOUS
  <1> USE DEF RouteInv, FirstInv
  <1>1. RouteShape' /\ RouteFates' /\ TicketsOwn' /\ ForItsTester'
    BY DEF GetAnswer, NetRuns, OnlyDoip, Goes, LatestAsked, channel, unlocks, router, RouteShape,
      MailboxShape, MbFields, RouteFates, FailedNotForwarded, TicketsOwn, ForItsTester,
      LatestAsked
  <1>2. first' => FirstInv'
    <2> SUFFICES ASSUME first PROVE FirstInv'
      BY DEF GetAnswer, NetRuns, OnlyDoip, Goes, LatestAsked, channel, unlocks, router
    <2>1. JudgedAtOnce' /\ HeardAtOnce' /\ UnlockOwn' /\ GrantOwn' /\ ChannelClear'
      BY DEF GetAnswer, NetRuns, OnlyDoip, Goes, LatestAsked, channel, unlocks, router,
        JudgedAtOnce, RouteShape, MailboxShape, MbFields, HeardAtOnce, UnlockOwn, GrantOwn,
        ForItsTester, ChannelClear, LatestAsked
    <2> QED BY <2>1
  <1> QED BY <1>1, <1>2

LEMMA SendAnswerKeeps == RouteInv /\ SendAnswer => RouteInv'
  <1> SUFFICES ASSUME RouteInv, SendAnswer PROVE RouteInv'
    OBVIOUS
  <1> USE DEF RouteInv, FirstInv
  <1>1. RouteShape' /\ RouteFates' /\ TicketsOwn' /\ ForItsTester'
    BY DEF SendAnswer, NetRuns, OnlyDoip, Goes, channel, unlocks, router, RouteShape,
      MailboxShape, MbFields, RouteFates, FailedNotForwarded, TicketsOwn, ForItsTester,
      LatestAsked
  <1>2. first' => FirstInv'
    <2> SUFFICES ASSUME first PROVE FirstInv'
      BY DEF SendAnswer, NetRuns, OnlyDoip, Goes, channel, unlocks, router
    <2>1. JudgedAtOnce' /\ HeardAtOnce' /\ UnlockOwn' /\ GrantOwn' /\ ChannelClear'
      BY DEF SendAnswer, NetRuns, OnlyDoip, Goes, channel, unlocks, router, JudgedAtOnce,
        RouteShape, MailboxShape, MbFields, HeardAtOnce, UnlockOwn, GrantOwn, ForItsTester,
        ChannelClear, LatestAsked
    <2> QED BY <2>1
  <1> QED BY <1>1, <1>2

LEMMA DoneKeeps == RouteInv /\ Done => RouteInv'
  <1> SUFFICES ASSUME RouteInv, Done PROVE RouteInv'
    OBVIOUS
  <1> USE DEF RouteInv, FirstInv
  <1>1. RouteFates'
    BY DEF Done, NetRuns, OnlyDoip, Goes, unlocks, router, RouteFates, FailedNotForwarded,
        RouteShape, MailboxShape, MbFields
  <1>2. TicketsOwn' /\ ForItsTester'
    BY DEF Done, NetRuns, OnlyDoip, Goes, unlocks, router, TicketsOwn, RouteShape, MailboxShape,
      MbFields, ForItsTester, LatestAsked
  <1>3. RouteShape'
    <2>1. slot' \in (0 .. rt.posted) \X BOOLEAN
      <3>1. 0 \in 0 .. rt.posted
        BY DEF RouteShape, MailboxShape
      <3> QED BY <3>1 DEF Done, NobodysAnswer, Empty
    <2>2. UNCHANGED <<rt, calls, rconn, ticket, ends, endsSeen, queue, active, failed, forwarded>>
      BY DEF Done, OnlyDoip, router
    <2> QED BY <2>1, <2>2 DEF RouteShape
  <1>4. first' => FirstInv'
    <2> SUFFICES ASSUME first PROVE FirstInv'
      BY DEF Done, NetRuns, OnlyDoip, Goes, unlocks, router
    <2>1. JudgedAtOnce' /\ HeardAtOnce' /\ UnlockOwn' /\ GrantOwn' /\ ChannelClear'
      BY DEF Done, NetRuns, OnlyDoip, Goes, unlocks, router, JudgedAtOnce, RouteShape,
        MailboxShape, MbFields, HeardAtOnce, UnlockOwn, GrantOwn, ForItsTester, ChannelClear,
        LatestAsked
    <2> QED BY <2>1
  <1> QED BY <1>1, <1>2, <1>3, <1>4

LEMMA GivesUpKeeps == RouteInv /\ GivesUp => RouteInv'
  <1> SUFFICES ASSUME RouteInv, GivesUp PROVE RouteInv'
    OBVIOUS
  <1> USE DEF RouteInv, FirstInv
  <1>1. RouteShape' /\ RouteFates' /\ TicketsOwn' /\ ForItsTester'
    BY DEF GivesUp, NetRuns, OnlyDoip, Goes, channel, unlocks, router, RouteShape, MailboxShape,
      MbFields, RouteFates, FailedNotForwarded, TicketsOwn, ForItsTester, LatestAsked
  <1>2. first' => FirstInv'
    <2> SUFFICES ASSUME first PROVE FirstInv'
      BY DEF GivesUp, NetRuns, OnlyDoip, Goes, channel, unlocks, router
    <2>1. JudgedAtOnce' /\ HeardAtOnce' /\ UnlockOwn' /\ GrantOwn' /\ ChannelClear'
      BY DEF GivesUp, NetRuns, OnlyDoip, Goes, channel, unlocks, router, JudgedAtOnce,
        RouteShape, MailboxShape, MbFields, HeardAtOnce, UnlockOwn, GrantOwn, ForItsTester,
        ChannelClear, LatestAsked
    <2> QED BY <2>1
  <1> QED BY <1>1, <1>2

LEMMA ConnectsKeeps == RouteInv /\ Connects => RouteInv'
  <1> SUFFICES ASSUME RouteInv, Connects PROVE RouteInv'
    OBVIOUS
  <1> USE DEF RouteInv, FirstInv
  <1>1. RouteShape' /\ RouteFates' /\ TicketsOwn' /\ ForItsTester'
    BY DEF Connects, NetRuns, OnlyDoip, Goes, channel, unlocks, router, RouteShape, MailboxShape,
      MbFields, RouteFates, FailedNotForwarded, TicketsOwn, ForItsTester, LatestAsked
  <1>2. first' => FirstInv'
    <2> SUFFICES ASSUME first PROVE FirstInv'
      BY DEF Connects, NetRuns, OnlyDoip, Goes, channel, unlocks, router
    <2>1. JudgedAtOnce' /\ HeardAtOnce' /\ UnlockOwn' /\ GrantOwn' /\ ChannelClear'
      BY DEF Connects, NetRuns, OnlyDoip, Goes, channel, unlocks, router, JudgedAtOnce,
        RouteShape, MailboxShape, MbFields, HeardAtOnce, UnlockOwn, GrantOwn, ForItsTester,
        ChannelClear, LatestAsked
    <2> QED BY <2>1
  <1> QED BY <1>1, <1>2

LEMMA IdlesKeeps == RouteInv /\ Idles => RouteInv'
  <1> SUFFICES ASSUME RouteInv, Idles PROVE RouteInv'
    OBVIOUS
  <1> USE DEF RouteInv, FirstInv
  <1>1. RouteShape' /\ RouteFates' /\ TicketsOwn' /\ ForItsTester'
    BY DEF Idles, NetRuns, OnlyDoip, Goes, channel, unlocks, router, RouteShape, MailboxShape,
      MbFields, RouteFates, FailedNotForwarded, TicketsOwn, ForItsTester, LatestAsked
  <1>2. first' => FirstInv'
    <2> SUFFICES ASSUME first PROVE FirstInv'
      BY DEF Idles, NetRuns, OnlyDoip, Goes, channel, unlocks, router
    <2>1. JudgedAtOnce' /\ HeardAtOnce' /\ UnlockOwn' /\ GrantOwn' /\ ChannelClear'
      BY DEF Idles, NetRuns, OnlyDoip, Goes, channel, unlocks, router, JudgedAtOnce, RouteShape,
        MailboxShape, MbFields, HeardAtOnce, UnlockOwn, GrantOwn, ForItsTester, ChannelClear,
        LatestAsked
    <2> QED BY <2>1
  <1> QED BY <1>1, <1>2

LEMMA AsksUnlockKeeps == RouteInv /\ AsksUnlock => RouteInv'
  <1> SUFFICES ASSUME RouteInv, AsksUnlock PROVE RouteInv'
    OBVIOUS
  <1> USE DEF RouteInv, FirstInv
  <1>1. RouteShape' /\ RouteFates' /\ TicketsOwn' /\ ForItsTester'
    BY DEF AsksUnlock, NetRuns, OnlyDoip, Goes, channel, router, RouteShape, MailboxShape,
      MbFields, RouteFates, FailedNotForwarded, TicketsOwn, ForItsTester, LatestAsked
  <1>2. first' => FirstInv'
    <2> SUFFICES ASSUME first PROVE FirstInv'
      BY DEF AsksUnlock, NetRuns, OnlyDoip, Goes, channel, router
    <2>1. JudgedAtOnce' /\ HeardAtOnce' /\ UnlockOwn' /\ GrantOwn' /\ ChannelClear'
      BY DEF AsksUnlock, NetRuns, OnlyDoip, Goes, channel, router, JudgedAtOnce, RouteShape,
        MailboxShape, MbFields, HeardAtOnce, UnlockOwn, GrantOwn, ForItsTester, ChannelClear,
        LatestAsked
    <2> QED BY <2>1
  <1> QED BY <1>1, <1>2

LEMMA CallsKeeps == RouteInv /\ Calls => RouteInv'
  <1> SUFFICES ASSUME RouteInv, Calls PROVE RouteInv'
    OBVIOUS
  <1> USE DEF RouteInv, FirstInv
  <1>a. MailboxShape(rt') /\ MailboxOrder(rt') /\ rt'.posted = rt.posted + 1 /\ rt.posted \in Nat
        /\ \A f \in MbFields \ {"posted"} : rt'[f] = rt[f]
    <2>1. rt' = MbPost(rt) /\ MailboxShape(rt) /\ MailboxOrder(rt) /\ rt.posted \in Nat
      BY DEF Calls, RouteShape, MailboxShape
    <2> QED BY <2>1, PostedFields
  <1> DEFINE call == [conn |-> rconn, ticket |-> ticket + 1]
  <1>0. call \in RouteCall /\ call.conn = rconn /\ call.ticket = ticket + 1 /\ calls' =
            Append(calls, call)
    BY DEF Calls, RouteCall, RouteShape
  <1> HIDE DEF call
  <1>b. /\ calls' \in Seq(RouteCall) /\ Len(calls') = rt'.posted
        /\ calls'[rt'.posted] = call
        /\ \A r \in 1 .. rt.posted : r \in 1 .. rt'.posted /\ calls'[r] = calls[r]
        /\ \A r \in 1 .. rt'.posted : r = rt'.posted \/ r \in 1 .. rt.posted
    <2>1. calls \in Seq(RouteCall) /\ Len(calls) = rt.posted
      BY DEF RouteShape
    <2>2. Append(calls, call) \in Seq(RouteCall) /\ Len(calls') = Len(calls) + 1
          /\ calls'[Len(calls) + 1] = call /\ \A r \in 1 .. Len(calls) : calls'[r] = calls[r]
      BY <2>1, <1>0, Appended
    <2> QED BY <2>1, <2>2, <1>0, <1>a
  <1>c. UNCHANGED <<rconn, ropen, ticket, routeOpen, ends, endsSeen, slot, queue, active, failed,
            forwarded>>
    BY DEF Calls, OnlyDoip, router
  <1>d. ropen /\ rpc' = "wait"
    BY DEF Calls, Goes
  <1>1. RouteShape'
    <2>1. 0 .. rt.posted \subseteq 0 .. rt'.posted /\ 1 .. rt.posted \subseteq 1 .. rt'.posted
      BY <1>a
    <2>2. slot' \in (0 .. rt'.posted) \X BOOLEAN
      BY <2>1, <1>c DEF RouteShape
    <2> QED BY <2>1, <2>2, <1>a, <1>b, <1>c DEF RouteShape
  <1>2. RouteFates'
    <2>1. rt'.posted \notin 1 .. rt.posted
      BY <1>a
    <2> QED BY <2>1, <1>c DEF RouteFates, FailedNotForwarded, RouteShape
  <1>3. TicketsOwn'
    <2>1. ticket \in Nat
      BY DEF RouteShape
    <2>2. call.ticket <= ticket + 1 /\ call.ticket # ticket
      BY <2>1, <1>0
    <2> QED BY <2>2, <1>0, <1>b, <1>c, <1>d DEF TicketsOwn
  <1>4. ForItsTester'
    <2>1. rt'.posted >= 1
      BY <1>a
    <2> QED BY <2>1, <1>0, <1>b, <1>c, <1>d DEF ForItsTester
  <1>5. first' => FirstInv'
    <2> SUFFICES ASSUME first PROVE FirstInv'
      BY DEF Calls, NetRuns, OnlyDoip, Goes, MbPost, unlocks, router
    <2>1. JudgedAtOnce' /\ HeardAtOnce' /\ UnlockOwn' /\ GrantOwn' /\ ChannelClear'
      BY SMTT(30) DEF Calls, NetRuns, OnlyDoip, Goes, MbPost, unlocks, router, JudgedAtOnce,
        RouteShape,
        MailboxShape, MbFields, HeardAtOnce, UnlockOwn, GrantOwn, ForItsTester, ChannelClear,
        LatestAsked
    <2> QED BY <2>1
  <1> QED BY <1>1, <1>2, <1>3, <1>4, <1>5

LEMMA WaitsKeeps == RouteInv /\ Waits => RouteInv'
  <1> SUFFICES ASSUME RouteInv, Waits PROVE RouteInv'
    OBVIOUS
  <1> USE DEF RouteInv, FirstInv
  <1>1. RouteShape' /\ RouteFates' /\ TicketsOwn' /\ ForItsTester'
    BY DEF Waits, NetRuns, OnlyDoip, Goes, unlocks, router, RouteShape, MailboxShape, MbFields,
      RouteFates, FailedNotForwarded, TicketsOwn, ForItsTester, LatestAsked
  <1>2. first' => FirstInv'
    <2> SUFFICES ASSUME first PROVE FirstInv'
      BY DEF Waits, NetRuns, OnlyDoip, Goes, unlocks, router
    <2>1. JudgedAtOnce' /\ HeardAtOnce' /\ UnlockOwn' /\ GrantOwn' /\ ChannelClear'
      BY DEF Waits, NetRuns, OnlyDoip, Goes, unlocks, router, JudgedAtOnce, RouteShape,
        MailboxShape, MbFields, HeardAtOnce, UnlockOwn, GrantOwn, ForItsTester, ChannelClear,
        LatestAsked
    <2> QED BY <2>1
  <1> QED BY <1>1, <1>2

LEMMA JudgedKeeps == RouteInv /\ Judged => RouteInv'
  <1> SUFFICES ASSUME RouteInv, Judged PROVE RouteInv'
    OBVIOUS
  <1> USE DEF RouteInv, FirstInv
  <1>a. UNCHANGED <<rt, calls, rconn, ends, endsSeen, slot, queue, active, failed, forwarded>>
    BY DEF Judged, channel, OnlyDoip, router
  <1>b. \/ ticket' = ticket + 1 /\ routeOpen'
        \/ ticket' = ticket /\ (routeOpen' <=> routeOpen)
    BY DEF Judged, ForItsTester
  <1>1. RouteFates'
    BY DEF Judged, NetRuns, OnlyDoip, Goes, MbCollect, channel, unlocks, router, RouteFates,
        FailedNotForwarded, RouteShape, MailboxShape, MbFields
  <1>2. ForItsTester'
    BY DEF Judged, NetRuns, OnlyDoip, Goes, MbCollect, channel, unlocks, router, ForItsTester,
        LatestAsked, RouteShape, MailboxShape, MbFields
  <1>3. RouteShape'
    <2>1. ticket' \in Nat
      BY <1>b DEF RouteShape
    <2> QED BY <2>1, <1>a DEF RouteShape
  <1>4. TicketsOwn'
    <2>1. \A r \in 1 .. rt.posted : calls[r].ticket \in Nat
      BY Tickets
    <2>2. ticket \in Nat
      BY DEF RouteShape
    <2> QED BY <2>1, <2>2, <1>a, <1>b DEF TicketsOwn
  <1>5. first' => FirstInv'
    <2> SUFFICES ASSUME first PROVE FirstInv'
      BY DEF Judged, NetRuns, OnlyDoip, Goes, MbCollect, channel, unlocks, router
    <2>1. JudgedAtOnce' /\ HeardAtOnce' /\ UnlockOwn' /\ GrantOwn' /\ ChannelClear'
      BY DEF Judged, NetRuns, OnlyDoip, Goes, MbCollect, channel, unlocks, router, JudgedAtOnce,
        RouteShape, MailboxShape, MbFields, HeardAtOnce, UnlockOwn, GrantOwn, ForItsTester,
        ChannelClear, LatestAsked
    <2> QED BY <2>1
  <1> QED BY <1>1, <1>2, <1>3, <1>4, <1>5

LEMMA NotJudgedKeeps == RouteInv /\ NotJudged => RouteInv'
  <1> SUFFICES ASSUME RouteInv, NotJudged PROVE RouteInv'
    OBVIOUS
  <1> USE DEF RouteInv, FirstInv
  <1>a. UNCHANGED <<calls, rconn, ticket, routeOpen, ends, endsSeen, slot, queue, active,
            forwarded>>
    BY DEF NotJudged, OnlyDoip, router
  <1>b. \/ /\ rt' = MbWithdraw(rt, rt.posted) /\ failed' = failed \union {rt.posted}
           /\ rt.served # rt.posted /\ rt.posted \in 1 .. rt.posted
        \/ UNCHANGED <<rt, failed>>
    <2>1. CASE rlate
      <3>1. rt.posted \in Nat /\ rt.posted >= 1
        BY DEF NotJudged, ForItsTester, RouteShape, MailboxShape
      <3> QED BY <2>1, <3>1 DEF NotJudged, MbCollect
    <2>2. CASE ~rlate
      BY <2>2 DEF NotJudged
    <2> QED BY <2>1, <2>2
  <1>c. MailboxShape(rt) /\ MailboxOrder(rt)
    BY DEF RouteShape
  <1>d. /\ MailboxShape(rt') /\ MailboxOrder(rt')
        /\ \A f \in MbFields \ {"settled"} : rt'[f] = rt[f]
        /\ rt'.settled = rt.posted \/ UNCHANGED <<rt, failed>>
    BY <1>b, <1>c, WithdrawnFields
  <1>e. rt'.posted = rt.posted /\ rt'.served = rt.served
    BY <1>d DEF MbFields
  <1>1. TicketsOwn' /\ ForItsTester'
    BY DEF NotJudged, NetRuns, OnlyDoip, Goes, MbCollect, MbWithdraw, unlocks, router,
      TicketsOwn, RouteShape, MailboxShape, MbFields, ForItsTester, LatestAsked
  <1>2. RouteShape'
    <2>1. failed' \subseteq 1 .. rt.posted
      BY <1>b DEF RouteShape
    <2> QED BY <2>1, <1>a, <1>d, <1>e DEF RouteShape
  <1>3. RouteFates'
    BY <1>a, <1>b, <1>d, <1>e DEF RouteFates, FailedNotForwarded
  <1>4. first' => FirstInv'
    <2> SUFFICES ASSUME first PROVE FirstInv'
      BY DEF NotJudged, NetRuns, OnlyDoip, Goes, MbCollect, MbWithdraw, unlocks, router
    <2>1. JudgedAtOnce' /\ HeardAtOnce' /\ UnlockOwn' /\ GrantOwn' /\ ChannelClear'
      BY DEF NotJudged, NetRuns, OnlyDoip, Goes, MbCollect, MbWithdraw, unlocks, router,
        JudgedAtOnce, RouteShape, MailboxShape, MbFields, HeardAtOnce, UnlockOwn, GrantOwn,
        ForItsTester, ChannelClear, LatestAsked
    <2> QED BY <2>1
  <1> QED BY <1>1, <1>2, <1>3, <1>4

LEMMA DropsKeeps == RouteInv /\ Drops => RouteInv'
  <1> SUFFICES ASSUME RouteInv, Drops PROVE RouteInv'
    OBVIOUS
  <1> USE DEF RouteInv, FirstInv
  <1>1. RouteShape' /\ RouteFates' /\ TicketsOwn' /\ ForItsTester'
    BY DEF Drops, NetRuns, OnlyDoip, Goes, channel, router, RouteShape, MailboxShape, MbFields,
      RouteFates, FailedNotForwarded, TicketsOwn, ForItsTester, LatestAsked
  <1>2. first' => FirstInv'
    <2> SUFFICES ASSUME first PROVE FirstInv'
      BY DEF Drops, NetRuns, OnlyDoip, Goes, channel, router
    <2>1. JudgedAtOnce' /\ HeardAtOnce' /\ UnlockOwn' /\ GrantOwn' /\ ChannelClear'
      BY DEF Drops, NetRuns, OnlyDoip, Goes, channel, router, JudgedAtOnce, RouteShape,
        MailboxShape, MbFields, HeardAtOnce, UnlockOwn, GrantOwn, ForItsTester, ChannelClear,
        LatestAsked
    <2> QED BY <2>1
  <1> QED BY <1>1, <1>2

LEMMA DropCountedKeeps == RouteInv /\ DropCounted => RouteInv'
  <1> SUFFICES ASSUME RouteInv, DropCounted PROVE RouteInv'
    OBVIOUS
  <1> USE DEF RouteInv, FirstInv
  <1>1. RouteShape'
    BY SMTT(30) DEF DropCounted, NetRuns, OnlyDoip, Goes, unlocks, router, RouteShape,
      MailboxShape,
        MbFields
  <1>2. RouteFates'
    BY DEF DropCounted, NetRuns, OnlyDoip, Goes, unlocks, router, RouteFates, FailedNotForwarded,
        RouteShape, MailboxShape, MbFields
  <1>3. TicketsOwn' /\ ForItsTester'
    BY DEF DropCounted, NetRuns, OnlyDoip, Goes, unlocks, router, TicketsOwn, RouteShape,
      MailboxShape, MbFields, ForItsTester, LatestAsked
  <1>4. first' => FirstInv'
    <2> SUFFICES ASSUME first PROVE FirstInv'
      BY DEF DropCounted, NetRuns, OnlyDoip, Goes, unlocks, router
    <2>1. JudgedAtOnce' /\ HeardAtOnce' /\ UnlockOwn' /\ GrantOwn' /\ ChannelClear'
      BY DEF DropCounted, NetRuns, OnlyDoip, Goes, unlocks, router, JudgedAtOnce, RouteShape,
        MailboxShape, MbFields, HeardAtOnce, UnlockOwn, GrantOwn, ForItsTester, ChannelClear,
        LatestAsked
    <2> QED BY <2>1
  <1> QED BY <1>1, <1>2, <1>3, <1>4

LEMMA EndsKeeps == RouteInv /\ Ends => RouteInv'
  <1> SUFFICES ASSUME RouteInv, Ends PROVE RouteInv'
    OBVIOUS
  <1> USE DEF RouteInv, FirstInv
  <1>1. RouteShape'
    BY SMTT(30) DEF Ends, NetRuns, OnlyDoip, Goes, channel, unlocks, router, RouteShape,
      MailboxShape,
        MbFields
  <1>2. RouteFates'
    BY DEF Ends, NetRuns, OnlyDoip, Goes, channel, unlocks, router, RouteFates,
        FailedNotForwarded, RouteShape, MailboxShape, MbFields
  <1>3. ForItsTester'
    BY DEF Ends, NetRuns, OnlyDoip, Goes, channel, unlocks, router, ForItsTester, LatestAsked,
        RouteShape, MailboxShape, MbFields
  <1>4. TicketsOwn'
    <2>1. ~routeOpen' /\ ticket' = ticket + 1 /\ rt' = rt /\ calls' = calls
      BY DEF Ends, channel
    <2>2. \A r \in 1 .. rt.posted : calls[r].ticket \in Nat
      BY Tickets
    <2>3. ticket \in Nat
      BY DEF RouteShape
    <2> QED BY <2>1, <2>2, <2>3 DEF TicketsOwn
  <1>5. first' => FirstInv'
    <2> SUFFICES ASSUME first PROVE FirstInv'
      BY DEF Ends, NetRuns, OnlyDoip, Goes, channel, unlocks, router
    <2>1. JudgedAtOnce' /\ HeardAtOnce' /\ UnlockOwn' /\ GrantOwn' /\ ChannelClear'
      BY DEF Ends, NetRuns, OnlyDoip, Goes, channel, unlocks, router, JudgedAtOnce, RouteShape,
        MailboxShape, MbFields, HeardAtOnce, UnlockOwn, GrantOwn, ForItsTester, ChannelClear,
        LatestAsked
    <2> QED BY <2>1
  <1> QED BY <1>1, <1>2, <1>3, <1>4, <1>5

LEMMA ServeMailboxKeeps == RouteInv /\ ServeMailbox => RouteInv'
  <1> SUFFICES ASSUME RouteInv, ServeMailbox PROVE RouteInv'
    OBVIOUS
  <1> USE DEF RouteInv, FirstInv
  <1>1. RouteShape' /\ RouteFates' /\ TicketsOwn' /\ ForItsTester'
    BY DEF ServeMailbox, OnlyComm, doip, channel, router, RouteShape, MailboxShape, MbFields,
      RouteFates, FailedNotForwarded, TicketsOwn, ForItsTester, LatestAsked
  <1>2. first' => FirstInv'
    <2> SUFFICES ASSUME first PROVE FirstInv'
      BY DEF ServeMailbox, OnlyComm, doip, channel, router
    <2>1. JudgedAtOnce' /\ HeardAtOnce' /\ UnlockOwn' /\ GrantOwn' /\ ChannelClear'
      BY DEF ServeMailbox, OnlyComm, doip, channel, router, JudgedAtOnce, RouteShape,
        MailboxShape, MbFields, HeardAtOnce, UnlockOwn, GrantOwn, ForItsTester, ChannelClear,
        LatestAsked
    <2> QED BY <2>1
  <1> QED BY <1>1, <1>2

LEMMA CancelKeeps == RouteInv /\ Cancel => RouteInv'
  <1> SUFFICES ASSUME RouteInv, Cancel PROVE RouteInv'
    OBVIOUS
  <1> USE DEF RouteInv, FirstInv
  <1>1. RouteFates'
    BY DEF Cancel, OnlyComm, doip, unlocks, RouteFates, FailedNotForwarded, RouteShape,
        MailboxShape, MbFields
  <1>2. TicketsOwn' /\ ForItsTester'
    BY DEF Cancel, OnlyComm, doip, unlocks, TicketsOwn, RouteShape, MailboxShape, MbFields,
      ForItsTester, LatestAsked
  <1>3. RouteShape'
    <2>1. UNCHANGED <<rt, calls, rconn, ticket, ends, slot, failed, forwarded>>
      BY DEF Cancel, OnlyComm, doip
    <2>2. \/ endsSeen' = ends /\ active' = 0 /\ queue' = <<>>
          \/ UNCHANGED <<endsSeen, active, queue>>
      BY DEF Cancel, Empty
    <2>3. 0 \in 0 .. rt.posted
      BY DEF RouteShape, MailboxShape
    <2>4. queue' = <<>> => queue' \in Seq(Nat \X BOOLEAN) /\ 1 .. Len(queue') = {}
      OBVIOUS
    <2> QED BY <2>1, <2>2, <2>3, <2>4 DEF RouteShape
  <1>4. first' => FirstInv'
    <2> SUFFICES ASSUME first PROVE FirstInv'
      BY DEF Cancel, OnlyComm, doip, unlocks
    <2>1. JudgedAtOnce' /\ HeardAtOnce' /\ UnlockOwn' /\ GrantOwn' /\ ChannelClear'
      BY DEF Cancel, OnlyComm, doip, unlocks, JudgedAtOnce, RouteShape, MailboxShape, MbFields,
        HeardAtOnce, UnlockOwn, GrantOwn, ForItsTester, ChannelClear, LatestAsked
    <2> QED BY <2>1
  <1> QED BY <1>1, <1>2, <1>3, <1>4

LEMMA HoldOnlyKeeps == RouteInv /\ HoldOnly => RouteInv'
  <1> SUFFICES ASSUME RouteInv, HoldOnly PROVE RouteInv'
    OBVIOUS
  <1> USE DEF RouteInv, FirstInv
  <1>1. RouteShape' /\ RouteFates' /\ TicketsOwn' /\ ForItsTester'
    BY DEF HoldOnly, MbWaiting, OnlyComm, doip, channel, unlocks, RouteShape, MailboxShape,
      MbFields, RouteFates, FailedNotForwarded, TicketsOwn, ForItsTester, LatestAsked
  <1>2. first' => FirstInv'
    <2> SUFFICES ASSUME first PROVE FirstInv'
      BY DEF HoldOnly, MbWaiting, OnlyComm, doip, channel, unlocks
    <2>1. JudgedAtOnce' /\ HeardAtOnce' /\ UnlockOwn' /\ GrantOwn' /\ ChannelClear'
      BY DEF HoldOnly, MbWaiting, OnlyComm, doip, channel, unlocks, JudgedAtOnce, RouteShape,
        MailboxShape, MbFields, HeardAtOnce, UnlockOwn, GrantOwn, ForItsTester, ChannelClear,
        LatestAsked
    <2> QED BY <2>1
  <1> QED BY <1>1, <1>2

LEMMA PutAnswersKeeps == RouteInv /\ PutAnswers => RouteInv'
  <1> SUFFICES ASSUME RouteInv, PutAnswers PROVE RouteInv'
    OBVIOUS
  <1> USE DEF RouteInv, FirstInv
  <1>a. UNCHANGED <<rt, calls, rconn, ropen, rpc, ticket, routeOpen, ends, endsSeen, active,
            failed, forwarded>>
    BY DEF PutAnswers, OnlyComm, doip
  <1>b. \/ /\ queue # <<>> /\ slot = NobodysAnswer
           /\ slot' = queue[1] /\ 1 \in 1 .. Len(queue) /\ slot' \in Nat \X BOOLEAN
           /\ queue' \in Seq(Nat \X BOOLEAN)
           /\ \A i \in 1 .. Len(queue') : i + 1 \in 1 .. Len(queue) /\ queue'[i] = queue[i + 1]
        \/ UNCHANGED <<slot, queue>>
    <2>1. CASE queue # <<>> /\ slot = NobodysAnswer
      <3>1. slot' = Head(queue) /\ queue' = Tail(queue) /\ queue \in Seq(Nat \X BOOLEAN)
        BY <2>1 DEF PutAnswers, RouteShape
      <3> QED BY <2>1, <3>1, Tailed
    <2>2. CASE ~(queue # <<>> /\ slot = NobodysAnswer)
      BY <2>2 DEF PutAnswers
    <2> QED BY <2>1, <2>2
  <1>1. RouteFates'
    BY DEF PutAnswers, OnlyComm, doip, unlocks, NobodysAnswer, Empty, RouteFates,
        FailedNotForwarded, RouteShape, MailboxShape, MbFields
  <1>2. TicketsOwn'
    BY DEF PutAnswers, OnlyComm, doip, unlocks, NobodysAnswer, Empty, TicketsOwn, RouteShape,
        MailboxShape, MbFields
  <1>3. RouteShape'
    <2>1. CASE UNCHANGED <<slot, queue>>
      BY <2>1, <1>a DEF RouteShape
    <2>2. CASE ~UNCHANGED <<slot, queue>>
      <3>1. slot' \in (0 .. rt.posted) \X BOOLEAN
        BY <2>2, <1>b DEF RouteShape
      <3>2. queue' \in Seq(Nat \X BOOLEAN) /\ \A i \in 1 .. Len(queue') : queue'[i][1] \in 0 ..
                rt.posted
        BY <2>2, <1>b DEF RouteShape
      <3> QED BY <3>1, <3>2, <1>a DEF RouteShape
    <2> QED BY <2>1, <2>2
  <1>4. ForItsTester'
    <2>1. slot = NobodysAnswer => slot[1] = Empty
      BY DEF NobodysAnswer
    <2>2. rpc = "send" => slot' = slot
      BY <1>b, <2>1 DEF ForItsTester, LatestAsked
    <2> QED BY <2>2, <1>a DEF ForItsTester, LatestAsked
  <1>5. first' => FirstInv'
    <2> SUFFICES ASSUME first PROVE FirstInv'
      BY DEF PutAnswers, OnlyComm, doip, unlocks, NobodysAnswer, Empty
    <2>1. JudgedAtOnce' /\ HeardAtOnce' /\ UnlockOwn' /\ GrantOwn' /\ ChannelClear'
      BY DEF PutAnswers, OnlyComm, doip, unlocks, NobodysAnswer, Empty, JudgedAtOnce, RouteShape,
        MailboxShape, MbFields, HeardAtOnce, UnlockOwn, GrantOwn, ForItsTester, ChannelClear,
        LatestAsked
    <2> QED BY <2>1
  <1> QED BY <1>1, <1>2, <1>3, <1>4, <1>5

LEMMA JudgeKeeps == ASSUME NEW sent \in BOOLEAN PROVE RouteInv /\ Judge(sent) => RouteInv'
  <1> SUFFICES ASSUME RouteInv, Judge(sent) PROVE RouteInv'
    OBVIOUS
  <1> USE DEF RouteInv, FirstInv
  <1>a. UNCHANGED <<calls, rconn, ropen, rpc, ticket, routeOpen, ends, endsSeen, slot, failed>>
    BY DEF Judge, OnlyComm, doip
  <1>b. /\ MailboxShape(rt') /\ MailboxOrder(rt') /\ rt'.served = rt.posted /\ rt'.settled =
               rt.posted
        /\ \A f \in MbFields \ {"served", "settled"} : rt'[f] = rt[f]
    <2>1. rt' = MbServe(rt) /\ MailboxShape(rt) /\ MailboxOrder(rt)
      BY DEF Judge, RouteShape
    <2> QED BY <2>1, ServedFields
  <1>c. rt'.posted = rt.posted /\ rt.posted \in Nat
    BY <1>b DEF MbFields, RouteShape, MailboxShape
  <1>d. rt.posted \in 1 .. rt.posted
    <2>1. rt.settled \in Nat /\ rt.settled <= rt.posted
      BY DEF RouteShape, MailboxShape, MailboxOrder
    <2>2. rt.settled # rt.posted
      BY DEF Judge, MbWaiting
    <2> QED BY <1>c, <2>1, <2>2
  <1>1. RouteFates'
    BY DEF Judge, MbWaiting, MbServe, Granted, NewTester, OnlyComm, doip, unlocks, RouteFates,
        FailedNotForwarded, RouteShape, MailboxShape, MbFields
  <1>2. TicketsOwn' /\ ForItsTester'
    BY DEF Judge, MbWaiting, MbServe, Granted, NewTester, OnlyComm, doip, unlocks, TicketsOwn,
      RouteShape, MailboxShape, MbFields, ForItsTester, LatestAsked
  <1>3. RouteShape'
    <2>1. active' \in 0 .. rt.posted
      <3>1. 0 \in 0 .. rt.posted /\ rt.posted \in 0 .. rt.posted
        BY <1>c
      <3> QED BY <3>1 DEF Judge, Empty, RouteShape
    <2>2. queue' = queue \/ queue' = <<>>
      BY DEF Judge
    <2>3. queue' = <<>> => queue' \in Seq(Nat \X BOOLEAN) /\ 1 .. Len(queue') = {}
      OBVIOUS
    <2>4. forwarded' = forwarded \/ forwarded' = forwarded \union {rt.posted}
      BY DEF Judge
    <2>5. forwarded' \subseteq 1 .. rt.posted
      BY <2>4, <1>d DEF RouteShape
    <2> QED BY <2>1, <2>2, <2>3, <2>5, <1>a, <1>b, <1>c DEF RouteShape
  <1>4. first' => FirstInv'
    <2> SUFFICES ASSUME first PROVE FirstInv'
      BY DEF Judge, MbWaiting, MbServe, Granted, NewTester, OnlyComm, doip, unlocks
    <2>1. JudgedAtOnce' /\ HeardAtOnce' /\ UnlockOwn' /\ GrantOwn' /\ ChannelClear'
      BY DEF Judge, MbWaiting, MbServe, Granted, NewTester, OnlyComm, doip, unlocks,
        JudgedAtOnce, RouteShape, MailboxShape, MbFields, HeardAtOnce, UnlockOwn, GrantOwn,
        ForItsTester, ChannelClear, LatestAsked
    <2> QED BY <2>1
  <1> QED BY <1>1, <1>2, <1>3, <1>4

LEMMA RequestLeavesKeeps == RouteInv /\ RequestLeaves => RouteInv'
  <1> SUFFICES ASSUME RouteInv, RequestLeaves PROVE RouteInv'
    OBVIOUS
  <1> USE DEF RouteInv, FirstInv
  <1>1. RouteShape' /\ RouteFates' /\ TicketsOwn' /\ ForItsTester'
    BY DEF RequestLeaves, OnBus, OnlyComm, doip, channel, unlocks, RouteShape, MailboxShape,
      MbFields, RouteFates, FailedNotForwarded, TicketsOwn, ForItsTester, LatestAsked
  <1>2. first' => FirstInv'
    <2> SUFFICES ASSUME first PROVE FirstInv'
      BY DEF RequestLeaves, OnBus, OnlyComm, doip, channel, unlocks
    <2>1. JudgedAtOnce' /\ HeardAtOnce' /\ UnlockOwn' /\ GrantOwn' /\ ChannelClear'
      BY DEF RequestLeaves, OnBus, OnlyComm, doip, channel, unlocks, JudgedAtOnce, RouteShape,
        MailboxShape, MbFields, HeardAtOnce, UnlockOwn, GrantOwn, ForItsTester, ChannelClear,
        LatestAsked
    <2> QED BY <2>1
  <1> QED BY <1>1, <1>2

LEMMA ExchangeEndsKeeps == RouteInv /\ ExchangeEnds => RouteInv'
  <1> SUFFICES ASSUME RouteInv, ExchangeEnds PROVE RouteInv'
    OBVIOUS
  <1> USE DEF RouteInv, FirstInv
  <1>1. RouteFates'
    BY DEF ExchangeEnds, OnBus, OnlyComm, doip, channel, unlocks, Empty, RouteFates,
        FailedNotForwarded, RouteShape, MailboxShape, MbFields
  <1>2. TicketsOwn' /\ ForItsTester'
    BY DEF ExchangeEnds, OnBus, OnlyComm, doip, channel, unlocks, Empty, TicketsOwn, RouteShape,
      MailboxShape, MbFields, ForItsTester, LatestAsked
  <1>3. RouteShape'
    <2>1. UNCHANGED <<rt, calls, rconn, ticket, ends, endsSeen, slot, queue, failed, forwarded>>
      BY DEF ExchangeEnds, OnBus, OnlyComm, doip, channel
    <2>2. active' \in 0 .. rt.posted
      BY DEF ExchangeEnds, Empty, RouteShape, MailboxShape
    <2> QED BY <2>1, <2>2 DEF RouteShape
  <1>4. first' => FirstInv'
    <2> SUFFICES ASSUME first PROVE FirstInv'
      BY DEF ExchangeEnds, OnBus, OnlyComm, doip, channel, unlocks, Empty
    <2>1. JudgedAtOnce' /\ HeardAtOnce' /\ UnlockOwn' /\ GrantOwn' /\ ChannelClear'
      BY DEF ExchangeEnds, OnBus, OnlyComm, doip, channel, unlocks, Empty, JudgedAtOnce,
        RouteShape, MailboxShape, MbFields, HeardAtOnce, UnlockOwn, GrantOwn, ForItsTester,
        ChannelClear, LatestAsked
    <2> QED BY <2>1
  <1> QED BY <1>1, <1>2, <1>3, <1>4

LEMMA UnlockExpiresKeeps == RouteInv /\ UnlockExpires => RouteInv'
  <1> SUFFICES ASSUME RouteInv, UnlockExpires PROVE RouteInv'
    OBVIOUS
  <1> USE DEF RouteInv, FirstInv
  <1>1. RouteShape' /\ RouteFates' /\ TicketsOwn' /\ ForItsTester'
    BY DEF UnlockExpires, OnlyComm, doip, channel, router, RouteShape, MailboxShape, MbFields,
      RouteFates, FailedNotForwarded, TicketsOwn, ForItsTester, LatestAsked
  <1>2. first' => FirstInv'
    <2> SUFFICES ASSUME first PROVE FirstInv'
      BY DEF UnlockExpires, OnlyComm, doip, channel, router
    <2>1. JudgedAtOnce' /\ HeardAtOnce' /\ UnlockOwn' /\ GrantOwn' /\ ChannelClear'
      BY DEF UnlockExpires, OnlyComm, doip, channel, router, JudgedAtOnce, RouteShape,
        MailboxShape, MbFields, HeardAtOnce, UnlockOwn, GrantOwn, ForItsTester, ChannelClear,
        LatestAsked
    <2> QED BY <2>1
  <1> QED BY <1>1, <1>2

LEMMA TargetAnswersKeeps == ASSUME NEW last \in BOOLEAN PROVE RouteInv /\ TargetAnswers(last) =>
    RouteInv'
  <1> SUFFICES ASSUME RouteInv, TargetAnswers(last) PROVE RouteInv'
    OBVIOUS
  <1> USE DEF RouteInv, FirstInv
  <1>1. RouteFates'
    BY DEF TargetAnswers, OnBus, OnlyComm, doip, channel, unlocks, Empty, RouteFates,
        FailedNotForwarded, RouteShape, MailboxShape, MbFields
  <1>2. TicketsOwn' /\ ForItsTester'
    BY DEF TargetAnswers, OnBus, OnlyComm, doip, channel, unlocks, Empty, TicketsOwn, RouteShape,
      MailboxShape, MbFields, ForItsTester, LatestAsked
  <1>3. RouteShape'
    <2>1. UNCHANGED <<rt, calls, rconn, ticket, ends, endsSeen, slot, failed, forwarded>>
      BY DEF TargetAnswers, OnBus, OnlyComm, doip, channel
    <2>2. active' \in 0 .. rt.posted
      BY DEF TargetAnswers, Empty, RouteShape, MailboxShape
    <2>3. <<active, last>> \in Nat \X BOOLEAN /\ queue \in Seq(Nat \X BOOLEAN)
      BY SMTT(30) DEF RouteShape, MailboxShape
    <2>4. queue' = Append(queue, <<active, last>>)
      BY DEF TargetAnswers
    <2>5. /\ queue' \in Seq(Nat \X BOOLEAN) /\ Len(queue') = Len(queue) + 1
          /\ queue'[Len(queue) + 1] = <<active, last>>
          /\ \A i \in 1 .. Len(queue) : queue'[i] = queue[i]
          /\ \A i \in 1 .. Len(queue') : i = Len(queue) + 1 \/ i \in 1 .. Len(queue)
      BY <2>3, <2>4, Appended
    <2>6. \A i \in 1 .. Len(queue') : queue'[i][1] \in 0 .. rt.posted
      <3> SUFFICES ASSUME NEW i \in 1 .. Len(queue') PROVE queue'[i][1] \in 0 .. rt.posted
        OBVIOUS
      <3>1. CASE i = Len(queue) + 1
        <4>1. queue'[i][1] = active
          BY <3>1, <2>5
        <4> QED BY <4>1 DEF RouteShape
      <3>2. CASE i \in 1 .. Len(queue)
        BY <3>2, <2>5 DEF RouteShape
      <3> QED BY <3>1, <3>2, <2>5
    <2> QED BY <2>1, <2>2, <2>5, <2>6 DEF RouteShape
  <1>4. first' => FirstInv'
    <2> SUFFICES ASSUME first PROVE FirstInv'
      BY DEF TargetAnswers, OnBus, OnlyComm, doip, channel, unlocks, Empty
    <2>1. JudgedAtOnce' /\ HeardAtOnce' /\ UnlockOwn' /\ GrantOwn' /\ ChannelClear'
      BY DEF TargetAnswers, OnBus, OnlyComm, doip, channel, unlocks, Empty, JudgedAtOnce,
        RouteShape, MailboxShape, MbFields, HeardAtOnce, UnlockOwn, GrantOwn, ForItsTester,
        ChannelClear, LatestAsked
    <2> QED BY <2>1
  <1> QED BY <1>1, <1>2, <1>3, <1>4

LEMMA RouteStarts == RouteInit => RouteInv
  <1> SUFFICES ASSUME RouteInit PROVE RouteInv
    OBVIOUS
  <1>1. MailboxShape(rt) /\ MailboxOrder(rt) /\ rt.posted = 0
    BY DEF RouteInit, MbEmpty, MailboxShape, MailboxOrder, MbFields
  <1>2. RouteShape
    <2>1. calls \in Seq(RouteCall) /\ Len(calls) = 0
      BY DEF RouteInit
    <2>2. queue \in Seq(Nat \X BOOLEAN) /\ Len(queue) = 0
      BY DEF RouteInit
    <2>3. slot \in (0 .. rt.posted) \X BOOLEAN
      <3>1. 0 \in 0 .. rt.posted
        BY <1>1
      <3> QED BY <3>1 DEF RouteInit, NobodysAnswer, Empty
    <2> QED BY <1>1, <2>1, <2>2, <2>3 DEF RouteInit, RouteShape, Empty
  <1>3. RouteFates /\ TicketsOwn /\ ForItsTester
    BY <1>1 DEF RouteInit, RouteFates, FailedNotForwarded, TicketsOwn, ForItsTester
  <1>4. FirstInv
    <2>1. rt.settled = rt.posted
      BY DEF RouteInit, MbEmpty
    <2> QED BY <2>1 DEF RouteInit, FirstInv, JudgedAtOnce, HeardAtOnce, UnlockOwn, GrantOwn,
            ChannelClear
  <1> QED BY <1>2, <1>3, <1>4 DEF RouteInv

LEMMA RouteRests == RouteInv /\ UNCHANGED routeVars => RouteInv'
  <1> SUFFICES ASSUME RouteInv, UNCHANGED routeVars PROVE RouteInv'
    OBVIOUS
  <1> USE DEF RouteInv, routeVars, doip, channel, unlocks, router
  <1>1. RouteShape' /\ RouteFates' /\ TicketsOwn' /\ ForItsTester'
    BY DEF RouteShape, RouteFates, FailedNotForwarded, TicketsOwn, ForItsTester, LatestAsked
  <1>2. first' => FirstInv'
    BY DEF FirstInv, JudgedAtOnce, HeardAtOnce, UnlockOwn, GrantOwn, ChannelClear
  <1> QED BY <1>1, <1>2

LEMMA RouteStep == RouteInv /\ [RouteNext]_routeVars => RouteInv'
  <1> SUFFICES ASSUME RouteInv, [RouteNext]_routeVars PROVE RouteInv'
    OBVIOUS
  <1>1. CASE DoipThread
    BY <1>1, GetAnswerKeeps, SendAnswerKeeps, DoneKeeps, GivesUpKeeps, ConnectsKeeps, IdlesKeeps,
       AsksUnlockKeeps, CallsKeeps, WaitsKeeps, JudgedKeeps, NotJudgedKeeps, DropsKeeps,
       DropCountedKeeps, EndsKeeps DEF DoipThread
  <1>2. CASE CommThread
    BY <1>2, ServeMailboxKeeps, CancelKeeps, HoldOnlyKeeps, PutAnswersKeeps, JudgeKeeps,
       RequestLeavesKeeps, ExchangeEndsKeeps, UnlockExpiresKeeps, TargetAnswersKeeps DEF
           CommThread
  <1> QED BY <1>1, <1>2, RouteRests DEF RouteNext

LEMMA RouteKept == RouteInv => FailedNotForwarded /\ OwnUnlock /\ NothingWaits
  BY DEF RouteInv, FirstInv, RouteFates, GrantOwn, OwnUnlock, ChannelClear, NothingWaits

LEMMA AnswersReturn ==
    RouteInv /\ [RouteNext]_routeVars =>
        [\A d \in delivered' \ delivered :
            calls[d[2]].conn = d[1] /\ calls[d[2]].ticket = ticket]_routeVars
  <1> SUFFICES ASSUME RouteInv, [RouteNext]_routeVars, NEW d \in delivered' \ delivered
               PROVE  calls[d[2]].conn = d[1] /\ calls[d[2]].ticket = ticket
    OBVIOUS
  <1>1. SendAnswer
    <2>1. CASE DoipThread
      BY <2>1 DEF DoipThread, GetAnswer, Done, GivesUp, Connects, Idles, AsksUnlock, Calls, Waits,
           Judged, NotJudged, Drops, DropCounted, Ends
    <2>2. CASE CommThread
      BY <2>2 DEF CommThread, ServeMailbox, Cancel, HoldOnly, PutAnswers, Judge, RequestLeaves,
           ExchangeEnds, UnlockExpires, TargetAnswers, OnBus, OnlyComm, doip
    <2>3. CASE UNCHANGED routeVars
      BY <2>3 DEF routeVars, doip
    <2> QED BY <2>1, <2>2, <2>3 DEF RouteNext
  <1>2. d = <<rconn, slot[1]>> /\ LatestAsked
    BY <1>1 DEF SendAnswer, RouteInv, ForItsTester
  <1>3. slot[1] \in 1 .. rt.posted
    BY <1>2 DEF LatestAsked, Empty, RouteInv, RouteShape, MailboxShape
  <1> QED BY <1>2, <1>3 DEF LatestAsked, RouteInv, TicketsOwn

-------------------------------------------------------------------------------
(***************************************************************************)
(* The theorems, of the specification that is run: the mailbox and the     *)
(* route channel side by side with the other parts, which share no state   *)
(* with them.                                                              *)
(***************************************************************************)
LEMMA MailboxAlone == NetSpec => Spec
  <1>1. NetInit => Init
    BY DEF NetInit
  <1>2. [NetNext]_netVars => [Next]_vars
    BY DEF NetNext, netVars, mailboxVars, Only
  <1> QED BY <1>1, <1>2, PTL DEF NetSpec, Spec

LEMMA RouteAlone == NetSpec => RouteSpec
  <1>1. NetInit => RouteInit
    BY DEF NetInit
  <1>2. [NetNext]_netVars => [RouteNext]_routeVars
    BY DEF NetNext, netVars, Only
  <1> QED BY <1>1, <1>2, PTL DEF NetSpec, RouteSpec

\* The invariant of the mailbox between the doip thread and the server thread (doip_mb.h).
THEOREM MailboxInvariance == Spec => []MailboxInv
  BY MailboxStarts, MailboxStep, PTL DEF Spec

\* The invariant of the gateway's route channel (doip_netx.c, comm/diagroute).
THEOREM RouteInvariance == RouteSpec => []RouteInv
  BY RouteStarts, RouteStep, PTL DEF RouteSpec

\* Every reachable state of the mailbox is well typed; the answers a mailbox numbers are
\* those posted.
THEOREM MailboxTyped == NetSpec => []TypeOK
  BY MailboxAlone, MailboxInvariance, MailboxKept, PTL

\* The node goes down with a reset only when the tester that asked for it has the answer
\* (uds.RemoteReset, REQ-BOOT-012).
THEOREM ResetIsAnswered == NetSpec => []ResetAnswered
  BY MailboxAlone, MailboxInvariance, MailboxKept, PTL

\* Whatever a tester gets answers a request of its own connection (doip_mb.h).
THEOREM AnswersAreOwn == NetSpec => []OwnAnswers
  BY MailboxAlone, MailboxInvariance, MailboxKept, PTL

\* What a tester was told has failed is neither served nor forwarded (doip_mb_withdraw).
THEOREM FailedIsNotActed == NetSpec => []FailedNotActed
  <1>1. MailboxInv /\ RouteInv => FailedNotActed
    BY MailboxKept, RouteKept DEF FailedNotActed
  <1> QED BY <1>1, MailboxAlone, MailboxInvariance, RouteAlone, RouteInvariance, PTL

\* Neither a session nor an unlock passes to the next connection (Prog.remote_dropped,
\* REQ-NET-020).
THEOREM NothingPassesOn == NetSpec => []NothingInherited
  <1>1. MailboxInv /\ RouteInv => NothingInherited
    BY MailboxKept, RouteKept DEF NothingInherited
  <1> QED BY <1>1, MailboxAlone, MailboxInvariance, RouteAlone, RouteInvariance, PTL

\* Neither a reset nor an answer is left to wait for a connection that is gone
\* (RemoteReset.inflight, doip_rt_take_ended).
THEOREM NothingIsLeft == NetSpec => []NothingStuck
  <1>1. MailboxInv /\ RouteInv => NothingStuck
    BY MailboxKept, RouteKept DEF NothingStuck
  <1> QED BY <1>1, MailboxAlone, MailboxInvariance, RouteAlone, RouteInvariance, PTL

\* A routine's next unit runs only when its last response is acknowledged (Prog.work_due).
THEOREM UnitsAfterAck == NetSpec => StepAfterAck
  BY MailboxAlone, MailboxInvariance, StepsAfterAck, PTL DEF Spec, StepAfterAck

\* An answer goes to the connection that asked, while it is its latest request (doipnet's
\* routed, Server.ticket).
THEOREM AnswersComeBack == NetSpec => AnswersOwn
  BY RouteAlone, RouteInvariance, AnswersReturn, PTL DEF RouteSpec, AnswersOwn

================================================================================
